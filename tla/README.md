# A TLA+ verification of `@pyrite/xmtp-chat-rn`

The repository is a React Native library that puts XMTP chat into an app: it owns one native XMTP client, attaches
threads to it, sends, receives, counts and notifies. Nothing in it is computationally hard; what is hard is that
every interesting step is an `await` on a native call that may take long, fail, settle after something else
happened, or hang. This directory models the parts where the order of those steps decides whether the program is
right. Paths and line numbers are those of the repository (`src/client.ts` below is `src/src/client.ts` in
`PROJECT.json`).

## 1. The system

JavaScript runs one task at a time. The program's concurrency is that of promises, timers, stream callbacks and
React effects: code between two `await`s is atomic, and everything read before an `await` may be stale after it.
Three things run beside it: the native SDK (which stores, publishes and streams messages, and talks to the network),
other devices of the same inbox, and, on Android, a push receiver in a headless process of its own.

| part | state it keeps | operations | hard behaviour |
|---|---|---|---|
| **Client lifecycle** `client.ts`, `activeAddress.ts`, `useXmtpClientStatus.ts` | module variables `initPromise`, `activeClient`, `activeAddress`, `lastIdentity`, `lastError`, `attemptHasSigner`, `retryPromise`, `attemptGeneration`, `statusSnapshot`; the active address in MMKV | `getOrCreateXmtpClient`, `openXmtpClient`, `retryXmtpClient`, `dropXmtpClient`, `resetXmtpLocalState`, `revokeAllInstallations`, the create timeout | superseded attempts that settle late, a switch that suspends in a teardown, handles that share an installation, restarts |
| **Delivery state and thread sending** `deliveryState.ts`, `threadSend.ts`, `publishState.ts` | the bubbles of a thread with their delivery state, `storedIdsRef`, the SDK's prepared messages | `send`, `sendAttachment`, `retryMessage`, `discardFailed`, `toggleReaction`, echo and receipt merges | ack and echo in either order, a publish that hangs or rejects after the message was stored, retries |
| **Installation management** `client.ts` 483-531, 607-703 | none of its own (network state) | list, revoke one / others / all, revoke the oldest at the installation cap and create once more | how many to revoke, what is left when a step fails |
| **DM thread hook** `useConversation.ts` | `messages`, `dmRef`, `cancelledRef`, stream handles, read watermark | attach, resume on foreground, first send creates the DM | effect runs that overlap, history and stream, list replaced under a send |
| **Group thread hook** `useGroup.ts` | `messages`, `members`, `groupRef` | attach, stream, send, member refresh | the same, with membership changing in the stream |
| **Inbound engine** `inboundMessages.ts` | ring of handled ids in memory and in MMKV, `currentClient`, activity listeners | start, stop, stream callback, mark, forget | redelivery, ring wrap, a restart, messages of a previous client |
| **Push gate** `xmtpPush.ts` | `serverUrl`, `probeUrl`, the memoised probe | configure, probe, register, subscribe | native calls that hang and wedge the client |
| **Push receiver** `xmtpPushReceiver.ts` | a client built in the headless process | decrypt one push | timeout against a late decrypt, installation shared with the app |
| **Attachments** `attachments.ts`, `attachmentCache.ts`, `useAttachment.ts` | the cache of decrypted files and of downloads under way; the status of a cell | upload, open, clear, load | results after a sign-out, recycled cells |
| **Reactions** `chatReactions.ts`, `threadSend.ts` 221-264 | the fold of reaction events | toggle, replace | out-of-order and duplicate events, half of a replace failing |
| **Read state** `readState.ts`, `readReceipt.ts` | per-conversation watermark, receipt setting | mark read, send receipt | receipts answering receipts, watermarks that go back |
| **Inbox and badge** `useConversations.ts`, `useUnreadCount.ts` | list of conversations, its flags, unread count | load, refresh, lifecycle reload, recompute | overlapping loads, loads that find no client yet |
| **Group management** `groups.ts` | none of its own (network state) | create, update, add, remove, set role, leave, reconcile | concurrent reconciles, partial success |
| **Database key** `dbKey.ts` | key in the keychain | get or create | concurrent first use |
| **Upload adapters, content decoding, configuration, theme and components** | configuration values | pure functions, HTTP uploads, rendering | none that order of steps decides |

How they interact. The host calls the lifecycle and renders its status through `useXmtpClientStatus`, which
subscribes to the snapshot. Thread hooks and the inbound engine take the active client as an argument or read it,
attach SDK streams to it, and merge what the stream delivers with `deliveryState.ts`; `threadSend.ts` writes the same
bubbles from the other side, as its sends settle. Teardown of the lifecycle clears the attachment cache and the
address the push receiver reads. The receiver opens the same local database as the app, from another process.

What makes each part correct, in a sentence each: the lifecycle brings up only the client of the wallet the host
asked for, and tells the truth about it; a thread shows every message once, never claims more than the network
confirmed, and never loses a failure; a thread attaches only the conversation it was asked for; an inbound message
that the host marked as handled reaches its handler no second time, and only the current client's messages reach it; the badge equals the unread count of the last completed change; no push
call can wedge the client; a file decrypted for one wallet is gone when it signs out; the pills are a function of the
set of reaction events; reading never answers reading; recovery from the installation cap frees the slot its retry needs,
and of what it looked up no more; a reconcile converges.

`PROJECT.json` lists the hazards of this code at their lines, with the properties that cover them, and why five have
none.

## 2. The modules

```
Session                  what the lifecycle promises to its listeners
  ClientLifecycle          client.ts, activeAddress.ts; implements Session
    MCClientLifecycle        symmetry for TLC
    ClientLifecycle_proofs   theorems
  Inbox                    useConversations.ts
  Badge                    useUnreadCount.ts, readState.ts
  Inbound                  inboundMessages.ts
    Inbound_proofs           theorems about Inbound, Badge and Inbox
  GroupThread              useGroup.ts
  PushReceiver             xmtpPushReceiver.ts
PushGate                 what the gate in front of the native push calls promises
  Push                     xmtpPush.ts, the topics effect of useConversations.ts; implements PushGate
Reactions                chatReactions.ts, toggleReaction of threadSend.ts
Groups                   groups.ts
  Groups_proofs            theorems about Groups and GroupThread
Attachments              attachments.ts, attachmentCache.ts, useAttachment.ts
  Message_proofs           theorems about Attachments and Reactions
Installations            client.ts 401-424, 483-531, 607-703
  Device_proofs            theorems about Push, PushReceiver and Installations
MCComponents             the ten components from Inbox to Installations, one at a time
  Components_proofs        theorems about all of them together
DeliveryState            deliveryState.ts: operators over the bubbles of a thread
Outbox                   what a thread promises of each message that is sent in it
  ThreadSend               threadSend.ts + publishState.ts + the SDK and the other devices, over
                           DeliveryState; implements Outbox
    ThreadSend_proofs        theorems
  Conversation             useConversation.ts over DeliveryState, with the receipts of readReceipt.ts
                           and readState.ts
    MCConversation           symmetry for TLC
    Conversation_proofs      theorems
```

Definitions whose comment begins with *Fault* are not part of the model: each is what a definition below it would be
under a plausible mistake, and `PROJECT.json` says which property tells the two apart.

### ClientLifecycle

The variables of the first group are the module variables of `client.ts`. An attempt, its promise and its client are
all named by the attempt's generation, so `initPromise = 3` reads "the entry's promise is that of attempt 3", and 0 is
`null`. `attempts[g]` records how far the native call of attempt *g* got (`native`) and how its promise settled
(`promise`); the two differ after a timeout, which rejects the promise and leaves the native call running. `callers`
holds the host's suspended calls, each at the `await` its pc names:

| pc | suspended at |
|---|---|
| `waiting` | `await initPromise` of a signer-less open another call joined (264-270) |
| `switching` | `await dropXmtpClient()` in `startAttempt` (299) |
| `dropping` | the native drop of `dropXmtpClient` (598-605) |
| `deleting`, `resetDropping` | the two awaits of `resetXmtpLocalState` (559-567) |

`persisted` is the `activeAddress` key of MMKV. `dbInstall[a]` is the installation in wallet *a*'s local database;
`native = "dropped"` marks a handle that a `dropClient` on its installation made useless, which the comment at
`client.ts:433` gives as the reason not to drop an ignored client. `ProcessRestart` loses everything but these two.

One action per operation, plus one per continuation and one per outcome: `GetOrCreateXmtpClient`, `OpenXmtpClient`,
`RetryXmtpClient`, `DropXmtpClient`, `ResetXmtpLocalState`, `ResetWithoutClient`; `NativeDropReturns`,
`SwitchResumes`, `DeleteReturns`, `ResetResumes`, `WaiterResumes`, `WaiterReturns`, `RetryDone`; `AdoptClient`,
`FailAttempt`, `TimerFires`; `ProcessRestart`. A swallowed error is a step whose effect may be missing.

Abstracted: the cap recovery inside `createClient` belongs to the native outcome here, and is `Installations`'s;
`revokeAllInstallations` is `DropXmtpClient` for the lifecycle; the cache it clears and the listeners it calls are not
state of this model.

*Host contract.* The code re-checks nothing when a switch, a sign-out or a reset resumes. The constant
`HostSerializes` states what a careful host does: no lifecycle call while one of those is suspended, and a reset only
when no call is pending. It is a guard on the host's actions and on nothing else. Properties are split by it: what
holds for every host (`HostSerializes = FALSE`), and what needs the discipline. The example app of the repository keeps
it by disabling its buttons; the README does not ask for it, which is the first finding.

### DeliveryState and ThreadSend

`DeliveryState` has the exported operators of `deliveryState.ts` by their names, over a set of own bubbles instead of
an array sorted by `sentNs`. A bubble is an id (`<<"local", k>>` or `<<"net", n>>`), a body (member of `Text` or
`File`), a send time, a delivery state and, for a file, whether its upload was recorded on it: an echo matches a file
by digest, which is known from then on. `"none"` is the absent delivery state of an authoritative copy. The bubbles of
the counterparty and cards take no part in any of this and are left out, and so is the order of two bubbles with equal
`sentNs`.

`ThreadSend` runs the operations of `useThreadSend` over it. An operation is suspended in one of

| pc | suspended at |
|---|---|
| `uploading` | the upload of `deliverAttachment` |
| `preparing`, `storing` | before and in the SDK call that stores the message |
| `publishing` | `racePublish` after `prepareMessage` (`publishState.ts` 94-126) |
| `sending` | `send` or `sendWithStatus` of an SDK build without `prepareMessage` |
| `republishing` | `republishStored` (146-174) |

`offers` is what the installed SDK offers: `prepareMessage`, only `sendWithStatus`, or only `send`. `sdk[n]` is the
SDK's n-th message of the conversation: stored, published, and echoed on the stream. `publishPreparedMessages`
publishes everything stored, as its documentation in the code says. The environment publishes on its own, sends from
another device, echoes and delivers receipts, at any time and in any order.

`Outbox` says what becomes of one message when the installed SDK has `prepareMessage`: what the user sees of it
(`shown`: nothing, or a bubble that is pending, unpublished, failed, sent or confirmed) and what the conversation
holds of it (`copy`: nothing, a stored or a published copy). A bubble turns pending when the message is composed or
retried; it turns sent only together with a published copy, unpublished only over a stored one, confirmed only over a
published one, and a confirmed one stays so; there is never a second copy. `ThreadSend` maps to it per body:
`LooksLike(body)` is the look of the bubbles with that body, `CopyOf(body)` the state of the SDK's messages with it,
and either is `"twice"`, which `Outbox` does not know, when there are two. On other builds, and when bodies repeat,
nothing is promised (`Promised`) and what `Outbox` speaks of stays empty. `OneBubble` and `OneCopyForPeer`, which say
of the same builds that nothing is there twice, follow from the refinement; they are theorems of their own, and steps
on the way to it.

`toggleReaction` is in `Reactions`. Left out: the double tap on a failed bubble, which acts on a rendered copy of it.

### Conversation

One mounted instance of `useConversation`. `mounted`, `counterparty` and `client` are its props and what the lifecycle
tells it; `messages`, `isLoading`, `initError` its state; `dmRef`, `unsubRef`, `cancelledRef` its refs, which all its
runs share. An asynchronous run is a *task*: the body of the mount effect, a resume on return from the background, or
a send. It is suspended in one of

| pc | suspended at | kinds |
|---|---|---|
| `lookup` | `canMessage`, `findDmByIdentity` (553-566) | mount |
| `creating` | `findOrCreateDmWithIdentity` (633) | send |
| `loading` | `dm.sync` and `loadHistory` in `attachDm` (438-454) | all |
| `subscribing`, `opened` | `dm.streamMessages` before and after it takes effect (484) | all |
| `sending`, `publishing` | the SDK stores, then publishes (`threadSend.ts` 80-105) | send |

`RunEffect` is the cleanup of the previous run and the body of the next up to its first await: React leaves no room
for another task of JavaScript between them. `Mount`, `ChangePeer` and `ClientTick` are the three reasons for one.
`streams[t]` is the set of messages that the stream task *t* opened has delivered or was too late for, with 0 in it
while it is open, so a stream whose `unsub` was overwritten stays open and keeps calling the handler. `Background` may
take the streams with it, as Android does. `acks[n]` counts the receipts sent for message *n*, `lastRead` is the
watermark `readState.ts` keeps per conversation.

The list is written with the operators of `DeliveryState`. A send here is the plain case of `ThreadSend` (text, a build
with `prepareMessage`, no retry), because what matters is how attaching and sending share a list. Left out: reactions,
context cards, attachments, retries and the reachability flag.

### Session, and the modules written against it

`Session` has one variable, `status`, the wallet and the state that `getXmtpClientStatus` reports: idle, initializing,
ready or failed. Its steps are what a listener of `subscribeXmtpClient` may see; above all, a ready wallet is signed
out before another one starts. `ClientLifecycle` implements it with `status <- statusSnapshot` reduced to state and
address, for hosts that serialize their calls. The modules that react to the lifecycle (`Inbox`, `Badge`, `Inbound`,
`GroupThread`, `PushReceiver`) take `Session`'s steps instead of `ClientLifecycle`'s: they are checked against every
lifecycle that `Session` allows, which is more than the code produces, at a hundredth of its states. The listeners run
inside `notifyLifecycle`, so a `Session` step and what a hook does on it are one action. A teardown notifies whatever
the status was, so an `End` may start at idle. A reset that finds no client notifies twice in a row, which is one step
of `ClientLifecycle` (`ResetWithoutClient`) and of its status a `Begin`; what the hooks make of it is an `End` and a
`Begin` with nothing between, which their modules allow as two steps.

**Inbox.** `LoadBody` is the synchronous part of `load` with its two early returns; a load is then suspended in
`syncing` (`syncAllConversations` and the two listings, 148-163), `resolving` (168) or `tagging` (the groups' app data,
190). Loads have no run id, as in the code. A lifecycle change waits in the model while as many loads as `InboxLoad`
are in flight.

**Badge.** `badgeRuns` are the overlapping recomputes, each asked, then listed, then counted against the watermarks of
that moment; `badgeLatest` is `runIdRef`. `badgePending` holds the conversations whose stream callback is still to run,
which is what nudges the badge. `badgeQuiet` says that no own message slipped in, of which no callback tells the badge.

**Inbound.** `inbHandled` is the ring in memory (`Null` until the first use loads it), `inbStored` the one in MMKV,
whose write may fail. The engine looks an id up before it calls the handler (`Delivers`) and never marks one:
`MarkInboundHandled` is an action of the host, which may mark any id at any time, or none (the example app's handler,
`App.tsx:61`, is empty). `inbAge` counts the other marks since the host marked this one; `inbNotified` is the last call
of the handler, and whether the call before was for the same message.

**GroupThread.** As `Conversation`, for a hook whose runs have a `cancelled` flag each instead of a shared one: a run is
`finding`, `syncing`, `loading`, `subscribing` or `open`, and the readings of info and members it started are in
`grpReads`. `Forgotten` runs are reused for new ones.

**PushReceiver.** A push's work is `building`, `finding`, `processing`, `rendering` or `releasing`; beside it the timer
and the race. The host may hand in `getActiveClient` and `buildClient`; a rejection of the latter is the work's result (`rejected`),
that of the default build is `null`. `ProcessExits` is the end of the headless task; `rcvRecorded`, the address in MMKV,
survives it.

### Push and PushGate

`PushGate` is the promise of the module's header: a verdict once per session, native calls only after a positive one,
the runtime never wedged. `Push` maps its `pushCached` to the verdict. A call is `registering` or `subscribing` (waits
for the gate), `listing` or `native`. `pushRoute` fixes for the session whether the port answers; a native call on a
silent one wedges the runtime, and then no SDK call returns.

### Reactions

One bubble. `Live` is the replay as a recursive function of the send time; the property compares the pills with
`Holds`, which says without a replay what a sender holds. A tap carries what the closure of `toggleReaction` captured:
the prior events, the plan, the base time. A rejected send may have been stored all the same. A tap is `alone` while
nothing else is in flight on the bubble: it began in a quiet thread and no other tap has begun since. Only then does a
failing tap count the echoes of its own landed steps as its own; otherwise what it throws away besides its plan sets
`reactClobbered`. The other devices of this inbox do not react in the model.

### Groups

One group: members and the two lists of admins, which commits of several devices change. A reconcile is `syncing`,
`adding`, `removing` or in its `roles` loop, with the view it has read and the commits of `applyRole` it has left;
`pass` counts its two tries. `grpsFresh` and `grpsHarmed` record whom a pass removed or demoted that nothing disturbed
since its sync.

### Attachments

`attOpened` is the cache: per key nothing, the promise of a download, or the local file of an upload. Promises are
named by downloads, which keep running after a sign-out (`past`). The cell has what it was rendered with, what its
effect saw last, and its status; `attWaits` are its `load()` calls.

### Installations

Installations are named by the order of registration, which is that of `createdAt`; some have none. A creation is
`creating`, `looking`, `revoking` or `retrying`; other devices register and revoke at any time; a revocation by the
host and a reset run beside them. `crowded` marks a creation since whose lookup another installation was registered.

### MCComponents

The ten components share no variable but `status`, and none of them has a step that another's behaviour depends on:
each is written against every behaviour of `Session`. So the module explores one of them at a time, `part`, while the
others keep their initial state, which makes the states of the run the sum of theirs and not the product. The values
of the constants are in one place, and a property of one component is checked on all of its behaviours.

## 3. What the runs show

| run | question | outcome |
|---|---|---|
| `lifecycle_any` | What does the lifecycle guarantee to every host? | The cached status is always what `deriveStatus` would compute (`SnapshotFresh`), promise, address, client and identity stay paired (`EntryPaired`), a failure is the newest attempt's own and an initialization waits for the newest attempt, unsettled and superseded by nothing (`StatusIsOwn`), the address other processes read is the active client's (`PersistedFollowsClient`), a client is torn down but never replaced (`ClientNeverReplaced`). And with a create timeout no native call that hangs holds the entry forever: every initialization ends (`InitializingEnds`), whatever the host and the SDK do. |
| `lifecycle_serial` | What more does a host get that serializes its calls? | One attempt in flight between two teardowns (`SingleFlight`), the active client is the newest attempt's for the reported wallet (`ReadyMatchesWallet`), nothing comes up after a sign-out (`SignedOutStaysOut`), no late drop kills the active client (`ActiveClientAlive`), and the lifecycle is a `Session` (`ImplementsSession`), on which the modules of the hooks rest. |
| `lifecycle_overlap` | Does `SingleFlight` need the contract? | Yes: finding 1. |
| `lifecycle_retry` | Does a retry re-run the failure that is shown? | Not after a sign-out during an earlier retry: finding 2. |
| `thread_distinct` | Does a thread tell the truth about distinct messages? | No id twice (`UniqueIds`); with `prepareMessage`, one bubble and one stored copy per composed message, and only the steps of `Outbox` between their states (`ImplementsOutbox`); nothing shown as sent that was not published (`ShownSentIsPublished`), nothing confirmed that looks failed later (`ConfirmedIsFinal`), every failure visible (`FailureShows`), no bubble that looks in flight without a send or a retry suspended on it (`PendingIsWorkedOn`), none waiting forever on the publish of a send (`PendingSendEnds`). |
| `thread_same_text` | Do failures stay visible when the same words are sent twice? | No: finding 3. |
| `thread_hung_retry` | Is the publish of a retry bounded as well? | No: finding 4. |
| `conversation_any` | What does the hook keep, in whatever order its effect runs, resumes, sends and streams overlap? | No id twice (`UniqueIds`), a send that is over shows at most once (`SettledOnce`), a message is acknowledged by at most one receipt although history, resumes and leaked streams all see it (`AckedOnce`), a spinner always has something that will end it (`LoadingEnds`), and nothing is marked as read once the hook is unmounted, nor in a thread that gave way to another counterparty's with nothing of it suspended and no stream of it leaked (`LeftStaysUnread`; without that proviso, finding 5). |
| `conversation_switch` | Does a message go to the counterparty it was composed for? | Not after the hook is given another address: finding 5. |
| `conversation_first_send` | Does a first send keep its bubble? | No: finding 6. |
| `inbound_redelivery` | Does the engine keep a redelivered message from its handler? | Not by itself: finding 7. |
| `components` | Does each part around the lifecycle keep its promise on every order of its own steps? | See the next table. |

| property of `components` | what it says |
|---|---|
| `ImplementsPushGate` | Whatever registrations, debounced subscriptions and sign-outs overlap on the one probe, no native push call precedes its positive answer, and the runtime is never wedged. |
| `SpinnerEnds`, `LoadingHeals` | A pull-to-refresh ends; a list does not stay in its loading state once the client is no longer being created. |
| `BadgeTrue` | Once the latest recompute has set it and every callback has run, the badge is the number of unread conversations of the wallet signed in. |
| `MarkedStaysQuiet` | A message that the host marked reaches its handler again only after the ring lost it, a sign-out forgot it, or the process died before MMKV held it; while a wallet is signed in, no other client's stream reaches the handler. |
| `PillsAgree` | With no tap in flight and the stream drained, the pills are what the network holds, after half-failed replacements too, unless a failing tap threw away what was streamed meanwhile. |
| `GroupThreadOwn` | The open group shows and titles its own group only, `groupRef` names no other, and no stream outlives the run that opened it. |
| `RosterReached` | Once all are done, a device whose reconcile returned finds members and roles as the roster asks, although other devices reconciled at the same time and commits were refused and retried; unless a single change came after its last sync, or somebody was on both admin lists. |
| `ProtectedStay` | No pass removes or demotes a protected member or its own device, not even between two commits of a change of role, under the same proviso. |
| `CellShowsOwn` | A recycled cell shows its own message's file or none, and a loading cell has a load that will answer. |
| `DownloadsOnce` | In a session a file is downloaded once at a time and not again after a success. |
| `RetryFits` | The retry after the cap recovery hits the cap again only if a registration came between. (That it picks no more of what it saw than it must is a theorem, `OldestFreeOneSlot`.) |
| `ReceiverAnswers` | The promise of `decryptPushedMessage` settles, whatever hangs: with a result, with null, or with the rejection of the host's own `buildClient`. |

Findings (each quoted in `PROJECT.json`):

1. `client.ts:299`. While `startAttempt` waits for another wallet's teardown there is no entry, so a second call for
   the same wallet starts its own attempt and the first starts another when it resumes. The README promises that
   repeat calls share one in-flight client.
2. `client.ts:191`. `retryPromise` survives a sign-out; a retry of a later failure is answered with the earlier,
   unrelated promise and re-runs nothing.
3. `deliveryState.ts:275`. An echo stands in for any local bubble with the same text. The echo of an equal message sent
   by another device takes the bubble of the one in flight, whose failure then marks nothing.
4. `threadSend.ts:192`. A retry publishes without the bound that a first send has.
5. `useConversation.ts:521`. All runs of the effect share one `cancelledRef`. A new address sets it and clears it again
   before the suspended run of the old address looks at it, so that run attaches the old thread, and the next message
   goes there. The stream it opens marks what arrives in the old thread as read and acknowledges it, although the
   comment at 495 says "arriving while the chat is open = read". A host that remounts the hook per address (a `key`, or
   a screen per thread) meets neither.
6. `useConversation.ts:634`. The first send into a new DM attaches it on the way, and the attach replaces the list that
   holds the bubble of this send. The bubble is gone until the ack or the echo, and if the send fails, so is the text.
7. `inboundMessages.ts:102`. The engine looks a message's id up in the ring but never puts it there: the host must call
   `markInboundHandled`, which nothing in the repository but a test does. The header says that "each message id is
   remembered so a stream redelivery cannot fire the same notification twice".

Divergences that were met and have no run, because no document, comment or test promises otherwise, because they
lie outside what is modelled, or because no property feels them:

- `useConversations.ts:212`: loads of the inbox carry no run id; an older list may overwrite a newer one, and a load
  that outlives a sign-out brings the list of the old wallet back.
- `threadSend.ts:261`: a failing tap restores the list of before the tap on its bubble, and so drops a reaction that
  streamed in there meanwhile (the comment at 233 speaks of other messages only). An echo of its own landed step is
  dropped the same way; with other taps in flight, which have replaced the list in between, that too can leave the
  pills wrong for good. It takes three overlapping taps of which the first fails last. `PillsAgree` excepts both.
- `useGroup.ts:145-161`: the reads of info and members of one run may settle out of order; and a group that is not
  found leaves the previous group's name on the screen.
- `groups.ts:198`: two changes of role at once can leave a member on both lists, who then stays an admin when demoted;
  `groups.ts:399`: the report of a reconcile that was retried names only the second pass's commits.
- `attachments.ts:144`: an upload that ends after a sign-out primes the cleared cache.
- `xmtpPushReceiver.ts:94`: the release of a client that the receiver built may come after the app started its own on
  the same installation, which it takes with it.
- `client.ts:689`: `revokeXmtpInstallations` checks the active installation before its awaits only; and recoveries from
  the cap that overlap may each revoke what the other registered.
- `inboundMessages.ts:63-65`: `dropXmtpClient` forgets the handled ids but does not stop the engine. A callback of the
  old client that runs after that may lead the host to mark an id again, which the next wallet then finds in its ring,
  although the comment says that it inherits none. Message ids do not repeat between wallets, so nothing that
  `MarkedStaysQuiet` speaks of is affected.
- `threadSend.ts:125`: the conversation of an attachment is looked up after the upload, so a file picked in one group
  and still uploading when the hook is given another goes to the other. `GroupThreadOwn` is about `groupRef` only.
- `xmtpPushReceiver.ts:78`: the client is built outside the `try`, so a `buildClient` of the host that rejects makes
  `decryptPushedMessage` reject, although the header (21-24) lets every miss return null.
- `client.ts:524`: the recovery revokes at least one installation even if a slot came free between the refused creation
  and its lookup, and what it chose even if one came free after the lookup; the comment at 489 says "exactly the slots
  the retry needs".

### Bounds, and why they are enough

- `Addr` has two wallets (a switch needs two, and every comparison in the code is between the active wallet and one
  other); `Caller` two suspended calls (one to suspend, one to get between).
- `MaxGen`: a process makes at most that many generations, teardowns included. 4 reaches attempt, switch, attempt,
  attempt, and the sign-out between two attempts. `lifecycle_any` uses 3, since its liveness property forbids the
  symmetry of wallets and calls that the other runs use: attempt, teardown, attempt, or a timeout, a retry and a
  switch. Its safety properties are theorems for every `MaxGen`. A restart starts the count again, so histories are not
  bounded by it.
- `MaxOp`, `MaxNet`, `MaxClock` bound sends and retries, stored messages and composition times: 3 operations are a
  send, its failure's retry and another send or retry; 2 messages are the one sent and another that may be taken for
  it. (`ImplementsOutbox` was also checked for builds with `prepareMessage` alone with 4 operations and 3 messages:
  both bodies sent and retried, or one of them retried again.)
- `FailedEchoWindow = 1` tick, so a failed bubble is inside the window of one time and outside that of another.
- `Offers` has all three kinds of SDK build in `thread_distinct`. `ImplementsOutbox`, `ConfirmedIsFinal` and
  `FailureShows` are stated for builds with `prepareMessage` only: without it the code cannot know the id of a message
  that was stored, and its documentation says so.
- `MaxRun` 2 effect runs, `MaxTask` 3 tasks, `MaxSend` 1 send and `MaxNet` 2 messages in `conversation_any`: two
  attaches overlap (two runs, a run and a resume, or a run and a first send) with a third task beside them, and two
  messages are the one sent and one that arrives. Two `Peer`s, interchangeable, are the old and the new counterparty.
  A message for a thread that no task has looked at yet is not sent before one does: nobody sees the difference. The
  two findings use the smallest instance that shows them.
- `DistinctBodies` separates the question of equal texts (finding 3) from all others.
- `components`: two wallets; two calls, loads, recomputes, effect runs, downloads, creations, taps or pushes at a time,
  so that one can overtake another; two conversations, groups, files, emoji. The ring holds 2 of 3 messages, so it
  wraps; 2 clients per process are the old and the new one. The cap is 2 and 3 installations are ever registered: an
  inbox under, at and over the cap, one of its installations without an age. A reconcile runs on two devices and a
  member without one, from three groups; one single change lands beside it. One reaction of another member beside two
  taps, one of which may be a replacement. `MaxNs = 1` message per conversation of the badge, since only whether the
  newest is above the watermark is looked at.
- Deadlock is checked for the lifecycle. A thread or a hook may stop: a user need not send, nor come back.

### Fairness

In the lifecycle and the threads, assumed: a timer that was armed fires (`TimerFires`, `PublishTimesOut`), and the
reaction of a settled promise runs (`RetryDone`). Both are promises of the JavaScript runtime. Nothing is assumed
there of the SDK: create, build, delete, drop, store and publish may hang, the network may stay silent and no echo or
receipt need ever come. So `InitializingEnds` and `PendingSendEnds` rest on the code's own timers alone, and finding 4
is the place without one. In `components`: a timer fires and a race of which one promise is settled settles
(`ReceiverFairness`), of the receiver's SDK calls nothing, so `ReceiverAnswers` too rests on a timer. `Inbox` alone
assumes that the SDK calls of a load settle (`InboxFairness`): `load` has no timer, its promise is `finally`'s, and
that the runtime is not wedged by a push call is what `ImplementsPushGate` shows. A pull-to-refresh on a hung SDK call
does spin forever. A timer waits while the app is suspended; it then fires late, which the model cannot tell from a
slow step.

## 4. What is proved

Every safety property that a passing run checks is a theorem, and so are all three refinements (`Session`, `PushGate`,
`Outbox`). A theorem holds for every value of the constants that satisfies its modules' named assumptions: any set of
wallets (`NoAddrAssumption`), any number of calls, taps, loads or devices, any bounds, any sets of texts and files
that are disjoint (`BodyAssumption`), any window, any ring, any cap, any set of SDK builds. Beyond the named
assumptions there are two hypotheses, each visible in the statement: `HostSerializes` in five theorems about the
lifecycle, and `DistinctBodies` in `FailureSurfaces`. (`ImplementsOutbox`, `OneCopyForPeer` and `OneBubble` carry
`offers = "prepare" /\ DistinctBodies` themselves.) The runs have states for both.

Each proof has the same shape: an inductive invariant that holds initially, is kept by every action, and implies the
property. What follows says, per component, what the property lacks to be inductive.

| module | theorems (and the property of a run each states) | other results |
|---|---|---|
| `ClientLifecycle_proofs` | `TypeCorrect` (`TypeOK`), `SnapshotAlwaysFresh` (`SnapshotFresh`), `EntryAlwaysPaired` (`EntryPaired`), `PersistedAlwaysFollows` (`PersistedFollowsClient`), `StatusAlwaysOwn` (`StatusIsOwn`), `NeverReplaced` (`ClientNeverReplaced`), `ReadyIsOwnWallet` (`ReadyMatchesWallet`), `OneInFlight` (`SingleFlight`), `SignOutLasts` (`SignedOutStaysOut`), `ActiveIsAlive` (`ActiveClientAlive`), `LifecycleImplementsSession` (`ImplementsSession`) | `FailureAlwaysOwn`, `InitializingIsWaited` (the two halves of `StatusAlwaysOwn`) |
| `ThreadSend_proofs` | `TypeCorrect` (`TypeOK`), `IdsStayUnique` (`UniqueIds`), `SentMeansPublished` (`ShownSentIsPublished`), `ConfirmedStays` (`ConfirmedIsFinal`), `FailureSurfaces` (`FailureShows`), `PendingHasWork` (`PendingIsWorkedOn`), `ThreadImplementsOutbox` (`ImplementsOutbox`) | `StoredOnce` (of `OneCopyForPeer`), `ShownOnce` (of `OneBubble`) |
| `Conversation_proofs` | `TypeCorrect` (`TypeOK`), `IdsStayUnique` (`UniqueIds`), `SettlesOnce` (`SettledOnce`), `AcksOnce` (`AckedOnce`), `SpinnerHasRun` (`LoadingEnds`), `LeavesUnread` (`LeftStaysUnread`) | – |
| `Device_proofs` | `PushImplementsGate` (`ImplementsPushGate`), `RetryHasRoom` (`RetryFits`) | `PushTypeCorrect`, `ReceiverTyped`, `ReceiverGuarded`, `InstallationsTyped`, `OldestFreeOneSlot` |
| `Inbound_proofs` | `MarkedIsQuiet` (`MarkedStaysQuiet`), `BadgeIsTrue` (`BadgeTrue`) | `InboundTyped`, `BadgeTyped`, `InboxTyped`, `InboxNeverStuck` |
| `Groups_proofs` | `ThreadIsOwn` (`GroupThreadOwn`), `RosterIsReached` (`RosterReached`), `ProtectedAreKept` (`ProtectedStay`) | `GroupThreadTyped`, `GroupsTyped` |
| `Message_proofs` | `DownloadedOnce` (`DownloadsOnce`), `CellIsOwn` (`CellShowsOwn`), `PillsAreTrue` (`PillsAgree`) | `AttachmentsTyped`, `ReactionsTyped` |
| `Components_proofs` | `ComponentsTyped` (`ComponentsTypeOK`), `ComponentsImplementGate` (`ImplementsPushGate`) | `ComponentsSafe` |

**Lifecycle** (`ClientLifecycle_proofs`). `TypeInv` refines `TypeOK` by what a suspended call knows (`CallersTyped`): a
switching or resetting call carries a real identity, a waiting one names an attempt. It is inductive by itself and gives
`TypeCorrect`. For the rest, `TypeInv /\ CoreInv` is inductive for every host. `CoreInv` adds to the properties what
makes them survive a step:

- `FutureUnstarted`: generations above `attemptGeneration` were never used, so a new attempt overwrites nothing;
- `CurrentNamed`: the entry's address is that of the current attempt, while there is one;
- `ClientIsPast`: an active client is of a generation already used, and no error is recorded beside it;
- `GivenUp`: when there is no entry and the newest generation is an attempt, its promise is rejected, which is why a
  late `failAttempt` may keep the error it finds;
- `ErrorHasAttempt`, `TimedOutFirst`: a recorded error has an attempt, for the identity it is reported with;
- `PromiseAndNative`: a promise settles with its native call, or before it, by the timer.

From it: `SnapshotAlwaysFresh`, `EntryAlwaysPaired`, `PersistedAlwaysFollows`, `FailureAlwaysOwn`, and the action
property `NeverReplaced`. With one more conjunct, `EntryWaits`, also `InitializingIsWaited`: an entry without a client is
the newest generation's and its promise is unsettled. Every step that settles a promise or starts a generation must
therefore also empty the entry, replace it, or bring the client up, in every interleaving of any host's calls.

Under `HostSerializes` a second invariant joins: `ModuleInv` (the entry is the newest attempt, a pending promise above
the last teardown is the entry's, `SingleFlight`, `ReadyMatchesWallet`) and `CallInv` (at most one call is inside a
teardown, `Exclusive`; while one is, no attempt is current and nothing is ready, `HeldQuiet`; what a suspended teardown
has forgotten, `Forgotten`). It gives `ReadyIsOwnWallet`, `OneInFlight`, `SignOutLasts`, `ActiveIsAlive`, and the
refinement `LifecycleImplementsSession`: step by step, the shown status does what a `Session` step does or stays, so
what is proved of the modules written against `Session` holds over this lifecycle.

**Thread** (`ThreadSend_proofs`). First, what each operator of `DeliveryState` returns: a list whose ids are still
unique, and whose bubbles were there or are the one the operator speaks of (`MarkedResult` ... `MergeStreamedResult`).
`SetDelivery` and `ReconcileSent` keep ids unique only because they look for the copy that arrived first. Then `Inv`:
types, unique ids, every bubble `Grounded` (a local id belongs to an operation that ran, a network id to a stored
message, and a bubble that shows as sent, read or confirmed to a published one), every operation `OpGrounded` (what it
will use when it resumes exists), the SDK's messages typed. `ShownSentIsPublished` is not inductive alone: an ack names
a message by the operation's `net`, which must be known to be stored, and published by the step. Stored and
published messages stay so (`Kept`), so an untouched bubble stays grounded (`StaysGrounded`).

For builds with `prepareMessage` three more invariants stand on `Inv`:

- `PrepInv`: a bubble that failed under a network id is one the SDK stored, a local bubble is pending or failed, and a
  plain send never runs. It gives `ConfirmedStays`: only `MarkFailed` and a retry write `failed` or `pending`, and
  they name local or unpublished bubbles.
- `CopyInv` gives `StoredOnce` and `ShownOnce`. Its half about the work (`WorkInv`): no two operations work on one
  bubble, what an operation has still to store is not stored, each body has one stored copy, a network message is what
  its operation composed. Its half about the list (`BubbleInv`, `OneEach`): a bubble shows what its id stands for; a
  failed local bubble is at rest; the operation at work on a body knows its bubble by name; the digest of a file is
  known from its upload on, which is what lets the echo of a file find its bubble.
- `ShowInv` gives `FailureSurfaces`: while an operation works, the bubble it will mark is in the list under the id it
  will look for, or its message is there confirmed.

`PendingHasWork` needs only `Inv`, and holds on every SDK build and for equal texts: whatever ends an operation
settles or drops the bubble of that name in the same step (`OutcomeEndsWork`), an id that is adopted is adopted by
both, and nothing but the start of a send or of a retry turns a bubble pending.

`ThreadImplementsOutbox` puts the invariants of both lists above together, with `EmptyInv` (a message the SDK has not
yet has no body). As no body shows twice (`OneShows`) or is held twice (`OneHolds`), the look of a body is that of its
one bubble and its copy that of its one message (`LookCases`, `CopyCases`); one lemma per operator of `DeliveryState`
says how the look changes (`MarkedLook`, `DroppedLook`, `UploadedLook`, `ReadLook`), and one per action that every
body then makes an `Outbox` step (`SendMoves` ... `ReceiptMoves`), the bodies the action is not about included: the
publish of one send publishes all that are stored, and a receipt confirms all that are older.

**DM thread** (`Conversation_proofs`). `ConvInv` says what each task knows when it resumes (`TasksOK`), what the SDK
holds of each send (`StoreOK`), where a bubble came from (`ListOK`: a local one from its send while that is not over,
a network one from a stored message), and that an acknowledgement is below the watermark (`AcksOK`). The last is why
`AckedOnce` holds although history, resumes and leaked streams all see the message: `markRead` moves the watermark in
the same step that decides on the receipt. `LeavesUnread` needs to know what is left of a thread the user left
(`Left`): an unmounted hook shows no counterparty and is cancelled or was never mounted (`NothingBefore`), and a
cancelled one reads nothing (`CancelledReadsNothing`); of a thread at rest that gave way to another's, the cleanup
closes the one stream (`RunLeaves`), and no step starts anything in a thread that is neither on the screen nor in
`dmRef` (`HostLeaves`, `TaskLeaves`, `OthersLeave`).

**Push** (`Device_proofs`). `PushInv`: a call past the gate has a positive verdict, and a positive verdict a port that
answers. Every step then is a `PushGate` step or a stutter: `PushImplementsGate`. For the receiver, `WaitingHasTimer`: a
caller that waits has a timer that runs or fired, whatever its work hangs in; and the app's own client is never the one
that is released.

**Inbound, badge, inbox** (`Inbound_proofs`). `MarkedIsQuiet` needs to know where in the ring a marked id is: one
marked `n` marks ago is among the newest `n + 1` entries (`Recent`), in memory and, unless a write failed, in MMKV
(`Remembered`); and that only the newest client streams (`NewestClient`). `BadgeIsTrue` needs `LatestIsCurrent`: the
latest recompute is of the wallet signed in, and what it listed is what a listing would find now, unless a nudge is
still due; and that a listing has one entry per conversation, so that counting entries counts conversations.
`InboxNeverStuck`: while the screen spins or loads, a load is in flight that will end it, or a client is being
created.

**Groups** (`Groups_proofs`). `ThreadIsOwn`: all runs but the mounted one are cancelled (`OneMounted`), and the mounted
one is of the group on the screen (`OfGroup`), so its late results are that group's (`Titled`, `Streams`, `Screen`).
`RosterIsReached` and `ProtectedAreKept` rest on `PassOK`: however old its view, a reconcile adds only members of the
roster, removes only others, and each commit it has left brings a role nearer to the roster (`Toward`). So the passes
of other devices never undo what one has done, and `FreshOK` is kept by their steps: what a fresh pass has still to do
is all that separates the group from the roster (`RosterLeft`, `RolesLeft`), hence a pass with nothing left has
matched it.

**Attachments, reactions** (`Message_proofs`). `AttInv`: an entry of the cache is the promise of a download of its file
that did not fail, and, the other way round, an unsettled or successful download of the session is the entry of its
file (`LiveEntries`). It gives `DownloadedOnce`, and with what a load knows of its cell (`CellOwn`), `CellIsOwn`.

The replay of the reactions is a recursive function of the send time. Induction over it is carried out by hand: among
the times at which the replay and `Holds` would disagree there is a least one (`Least`, from the well-foundedness of
`<`), and it cannot be it (`ReplayStep`). So for any log of events with different times, what a sender holds is what
`Holds` says (`LiveHolds`), and the proof can speak of sets. `ReactInv` relates three sets, the list, the network and
the streamed events: what the list has and the network has not is answered there by a later copy, or is a step that a
tap in flight has still to send (`Answered`); what was streamed and the list has not is a removal of this inbox that
an earlier copy makes up for (`EchoesKept`); a later tap found in the list what an earlier one left there (`Nested`).
It was checked before it was proved, on an instance with three taps in flight, two emoji and one reaction of another
member (7.3 million states). The attempt to prove `PillsAgree` also showed that an earlier form of it, which counted
the echoes of any tap as its own, fails with three taps; see the divergences above.

**Installations** (`Device_proofs`). A recovery revokes the oldest installations so that one less than the cap is
left. `OldestLeaveRoom` says so for any number of installations, with or without age: the rank of an installation
among those the lookup saw is injective, so those of a low rank are as many as are to be revoked. `OldestFreeOneSlot` is the other half: they are no more, so of
an inbox at the cap exactly one less than the cap is kept. `InsInv` adds that
while no other registration came between, the recovery saw all there are (`Sees`), and after its revocation there is
room (`Room`).

**Components** (`Components_proofs`). Each step of `MCComponents` is one of the component that `part` names, while the
variables of the others rest (`OnePartMoves`). `ComponentsInv` therefore says of each component that it has the
invariant its own proof found, or, if it rests, that it is as it started; and it starts in its invariant (`EveryInv`).
This gives the types (`ComponentsTyped`), all nine safety invariants at once (`ComponentsSafe`) and the gate
(`ComponentsImplementGate`) for the very specification that the run `components` checks, and it shows that no theorem
about one component is lost where the others are present.

## 5. Model-checked only

`InitializingEnds`, `PendingSendEnds`, `SpinnerEnds`, `LoadingHeals` and `ReceiverAnswers` are liveness properties
under fairness, which this prover does not reach. The safety half of each is proved: what waits has something in
flight that will end it (`InitializingIsWaited`, `PendingHasWork`, `InboxNeverStuck`, `ReceiverGuarded`). That it does
end is fairness: of a timer where the code has one, and of the SDK where it has none. A bubble's operation has one
only in `racePublish`, so `PendingHasWork` says more than `PendingSendEnds` of where a bubble waits, and less of
whether the wait ends. The violations of the findings are TLC's counterexamples. That the mapped definitions say what
the code does is nobody's theorem: it is read.

## 6. Plan

The parts whose order of steps matters are modelled, and their safety properties proved. What could still be added, in
order of weight:

1. Proof: that a hook's properties hold over `ClientLifecycle` itself, composing `LifecycleImplementsSession` with the
   theorems about the modules written against `Session` (their steps are joint with `Session`'s, so the composition is
   an argument about two specifications, made above in words; the two notifications of a reset without a client would
   have to be two steps of the lifecycle).
2. Model: the context card that a send posts first, and the double tap on a rendered copy of a failed bubble.

## 7. Not modelled

Upload adapters (one HTTP request each), content decoding and description, card registry, sender addresses,
configuration, theme, components and the example app: functions and rendering with no state that the order of steps
could break. `dbKey.ts` reads or creates its key in one synchronous call. Of `groups.ts`,
`updateGroup`, the app data, the consent and `findGroups` are single SDK calls or reads; of `client.ts`,
`listXmtpInstallations` only reads. The example app is a host; of its wiring only what the inbound engine needs of one
is used. The native SDK, MMKV and React are external: the SDK is modelled by what
the code relies on it for, MMKV by the values it keeps, React by when it runs effects.
