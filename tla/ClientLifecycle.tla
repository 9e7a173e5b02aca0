--------------------------- MODULE ClientLifecycle ---------------------------
(***************************************************************************)
(* The module-singleton XMTP client of src/src/client.ts: which attempt is *)
(* the single-flight entry, which client is active, and what every attempt,*)
(* sign-out, switch, reset, timeout and retry does to both.                *)
(*                                                                         *)
(* JavaScript runs one task at a time, so the code between two `await`s is *)
(* one action here; every `await` whose continuation touches the module    *)
(* state is a value of a caller's pc.  An attempt is named by its          *)
(* generation (attemptGeneration, client.ts:249), and so are its promise   *)
(* and its client; 0 stands for `null`.                                    *)
(***************************************************************************)
EXTENDS Naturals

CONSTANTS
    Addr,            \* wallet addresses (lower-cased, as the code keeps them)
    NoAddr,          \* null
    Caller,          \* calls of the host that can be suspended at the same time
    MaxGen,          \* bound on attemptGeneration within one process
    TimeoutEnabled,  \* clientCreateTimeoutMs is a positive number
    HostSerializes   \* the host makes no lifecycle call while a switch, sign-out or
                     \* reset is suspended, and resets only when no call is pending

ASSUME NoAddrAssumption == NoAddr \notin Addr
ASSUME MaxGenAssumption == MaxGen \in Nat
ASSUME ModeAssumption == TimeoutEnabled \in BOOLEAN /\ HostSerializes \in BOOLEAN

Gen == 1..MaxGen

\* Installations are named by the attempt that registered them; one that an earlier
\* process registered needs no other name, since no handle on it survived.
Earlier == MaxGen + 1
Install == 0..Earlier
Identity == [address : Addr, signer : BOOLEAN]
NoIdentity == [address |-> NoAddr, signer |-> FALSE]

VARIABLES
    \* module state of client.ts
    initPromise, activeClient, activeAddress, lastIdentity, lastError,
    attemptHasSigner, retryPromise, attemptGeneration, statusSnapshot,
    \* device state: the address in the activeAddress key of MMKV, and per wallet the
    \* attempt whose client registered the installation its local database holds
    persisted, dbInstall,
    \* what runs: the attempts of this process and the suspended calls of the host
    attempts, callers,
    \* history: has the host asked for a client since the last sign-out (or start)?
    requested

entry == <<initPromise, activeClient, activeAddress, attemptGeneration>>
memory == <<lastIdentity, lastError, attemptHasSigner>>
device == <<persisted, dbInstall>>
vars == <<entry, memory, retryPromise, statusSnapshot, device, attempts, callers, requested>>

-----------------------------------------------------------------------------
(* Attempts, callers and status values *)

NoAttempt == [address |-> NoAddr, native |-> "none", promise |-> "none", install |-> 0]
Attempt == [address : Addr \cup {NoAddr},
            native  : {"none", "running", "ok", "failed", "dropped"},
            promise : {"none", "pending", "resolved", "rejected"},
            install : Install]

Idle == [pc |-> "idle", id |-> NoIdentity, gen |-> 0]
\* Continuations after which module state is written without looking at it again.
Suspensions == {"switching", "dropping", "deleting", "resetDropping"}
CallState == [pc : Suspensions \cup {"idle", "waiting"},
              id : Identity \cup {NoIdentity}, gen : 0..MaxGen]

Status(state, address, client, error, withoutSigner) ==
    [state |-> state, address |-> address, client |-> client, error |-> error,
     withoutSigner |-> withoutSigner]
IdleStatus == Status("idle", NoAddr, 0, "none", FALSE)

\* deriveStatus (client.ts:135)
DeriveStatus ==
    IF activeClient # 0 /\ activeAddress # NoAddr
      THEN Status("ready", activeAddress, activeClient, "none", FALSE)
    ELSE IF initPromise # 0 /\ activeAddress # NoAddr
      THEN Status("initializing", activeAddress, 0, "none", FALSE)
    ELSE IF lastIdentity # NoIdentity /\ lastError # "none"
      THEN Status("failed", lastIdentity.address, 0, lastError, ~lastIdentity.signer)
    ELSE IdleStatus

\* notifyLifecycle (client.ts:104): the snapshot is refreshed here and nowhere else.
NotifyLifecycle == statusSnapshot' = DeriveStatus'

\* The host's side of the contract that HostSerializes names.
HostMayCall == HostSerializes => \A c \in Caller : callers[c].pc \notin Suspensions
HostMayReset == HostSerializes => \A c \in Caller : callers[c].pc = "idle"

-----------------------------------------------------------------------------
(* Starting an attempt: the synchronous part of startAttempt, client.ts:301-324 *)

StartAttempt(id, gen) ==
    /\ gen <= MaxGen
    /\ activeAddress' = id.address
    /\ lastIdentity' = id
    /\ attemptHasSigner' = id.signer
    /\ attemptGeneration' = gen
    /\ initPromise' = gen
    /\ attempts' = [attempts EXCEPT ![gen] =
           [address |-> id.address, native |-> "running", promise |-> "pending",
            install |-> 0]]
    /\ UNCHANGED <<activeClient, lastError>>
    /\ NotifyLifecycle

\* The synchronous part of dropXmtpClient (client.ts:582-597).
TearDown ==
    /\ attemptGeneration < MaxGen
    /\ attemptGeneration' = attemptGeneration + 1
    /\ activeClient' = 0
    /\ initPromise' = 0
    /\ activeAddress' = NoAddr
    /\ lastIdentity' = NoIdentity
    /\ lastError' = "none"
    /\ attemptHasSigner' = FALSE
    /\ persisted' = NoAddr
    /\ NotifyLifecycle
    /\ UNCHANGED <<retryPromise, dbInstall, attempts>>

Suspend(c, pc, id, gen) == callers' = [callers EXCEPT ![c] = [pc |-> pc, id |-> id, gen |-> gen]]
Finish(c) == callers' = [callers EXCEPT ![c] = Idle]

\* Fault: only a client that is already up is shared.
JoinsReadyClient(address) == activeAddress = address /\ activeClient # 0

\* The entry a call for this address joins (client.ts:260, 291).
JoinsEntry(address) == activeAddress = address /\ initPromise # 0

\* startAttempt with no other wallet to tear down, called from a running task.
BeginDirect(c, id) ==
    /\ ~JoinsEntry(id.address)
    /\ activeAddress \in {NoAddr, id.address}
    /\ StartAttempt(id, attemptGeneration + 1)
    /\ Finish(c)
    /\ UNCHANGED <<retryPromise, device>>

\* startAttempt for another wallet: tears the current one down, then awaits.
BeginSwitch(c, id) ==
    /\ activeAddress \notin {NoAddr, id.address}
    /\ TearDown
    /\ Suspend(c, "switching", id, activeClient)

\* Fault: the join keeps the bare address where an identity belongs.
JoinKeepingAddress(c, id) ==
    /\ JoinsEntry(id.address)
    /\ lastIdentity' = id.address
    /\ Finish(c)
    /\ UNCHANGED <<entry, lastError, attemptHasSigner, retryPromise, device, attempts>>
    /\ UNCHANGED statusSnapshot

\* getOrCreateXmtpClient of a wallet whose entry exists (client.ts:260-271): it shares
\* the entry's promise, and waits on it when that is a signer-less open in flight.
Join(c, id) ==
    /\ JoinsEntry(id.address)
    /\ lastIdentity' = id
    /\ IF activeClient # 0 \/ attemptHasSigner
         THEN Finish(c)
         ELSE Suspend(c, "waiting", id, initPromise)
    /\ UNCHANGED <<entry, lastError, attemptHasSigner, retryPromise, device, attempts>>
    /\ UNCHANGED statusSnapshot

Enter(c, id) == Join(c, id) \/ BeginDirect(c, id) \/ BeginSwitch(c, id)

-----------------------------------------------------------------------------
(* Calls of the host *)

\* getOrCreateXmtpClient (client.ts:258)
GetOrCreateXmtpClient(c, address) ==
    /\ HostMayCall
    /\ callers[c].pc = "idle"
    /\ Enter(c, [address |-> address, signer |-> TRUE])
    /\ requested' = TRUE

\* openXmtpClient (client.ts:289); a call that joins the entry changes nothing.
OpenXmtpClient(c, address) ==
    /\ HostMayCall
    /\ callers[c].pc = "idle"
    /\ LET id == [address |-> address, signer |-> FALSE]
       IN  BeginDirect(c, id) \/ BeginSwitch(c, id)
    /\ requested' = TRUE

\* The attempt retryXmtpClient re-runs (client.ts:192), 0 when it returns early.
RetryStarts == activeClient = 0 /\ initPromise = 0 /\ retryPromise = 0 /\ lastIdentity # NoIdentity

\* retryXmtpClient (client.ts:188)
RetryXmtpClient ==
    /\ HostMayCall
    /\ RetryStarts
    /\ StartAttempt(lastIdentity, attemptGeneration + 1)
    /\ retryPromise' = attemptGeneration + 1
    /\ UNCHANGED <<device, callers, requested>>

\* The finally of retryXmtpClient (client.ts:201).
RetryDone ==
    /\ retryPromise # 0
    /\ attempts[retryPromise].promise # "pending"
    /\ retryPromise' = 0
    /\ UNCHANGED <<entry, memory, statusSnapshot, device, attempts, callers, requested>>

\* dropXmtpClient called by the host, revokeAllInstallations included (client.ts:582, 624)
DropXmtpClient(c) ==
    /\ HostMayCall
    /\ callers[c].pc = "idle"
    /\ TearDown
    /\ IF activeClient = 0 THEN Finish(c) ELSE Suspend(c, "dropping", NoIdentity, activeClient)
    /\ requested' = FALSE

\* resetXmtpLocalState with a client to delete (client.ts:546-561): up to the first await.
ResetXmtpLocalState(c, address) ==
    /\ HostMayReset
    /\ callers[c].pc = "idle"
    /\ activeClient # 0
    /\ attemptGeneration < MaxGen
    /\ attemptGeneration' = attemptGeneration + 1
    /\ activeClient' = 0
    /\ initPromise' = 0
    /\ activeAddress' = NoAddr
    /\ persisted' = NoAddr
    /\ UNCHANGED <<memory, retryPromise, dbInstall, attempts>>
    /\ NotifyLifecycle
    /\ Suspend(c, "deleting", [address |-> address, signer |-> TRUE], activeClient)
    /\ requested' = TRUE

\* resetXmtpLocalState with no client: no await before getOrCreateXmtpClient, which
\* finds no entry and starts the attempt.
ResetWithoutClient(c, address) ==
    /\ HostMayReset
    /\ callers[c].pc = "idle"
    /\ activeClient = 0
    /\ StartAttempt([address |-> address, signer |-> TRUE], attemptGeneration + 2)
    /\ persisted' = NoAddr
    /\ requested' = TRUE
    /\ UNCHANGED <<retryPromise, dbInstall, callers>>

-----------------------------------------------------------------------------
(* Continuations of suspended calls *)

\* Client.dropClient names an installation: every live handle on it goes (the reason the
\* comment at client.ts:433 gives for leaving an ignored client alone).
SameInstallation(g, h) ==
    attempts[g].address = attempts[h].address /\ attempts[g].install = attempts[h].install

DropNative(g) ==
    attempts' = [h \in Gen |->
        IF attempts[h].native = "ok" /\ SameInstallation(g, h)
          THEN [attempts[h] EXCEPT !.native = "dropped"]
          ELSE attempts[h]]

\* The SDK's dropClient took effect, or failed and the error was swallowed.
NativeDropReturns(c) ==
    /\ callers[c].pc \in {"switching", "dropping", "resetDropping"}
    /\ callers[c].gen # 0
    /\ DropNative(callers[c].gen) \/ UNCHANGED attempts
    /\ IF callers[c].pc = "dropping"
         THEN Finish(c)
         ELSE callers' = [callers EXCEPT ![c].gen = 0]
    /\ UNCHANGED <<entry, memory, retryPromise, statusSnapshot, device, requested>>

\* startAttempt after `await dropXmtpClient()` (client.ts:299-301): nothing is re-checked.
SwitchResumes(c) ==
    /\ callers[c].pc = "switching" /\ callers[c].gen = 0
    /\ StartAttempt(callers[c].id, attemptGeneration + 1)
    /\ Finish(c)
    /\ UNCHANGED <<retryPromise, device, requested>>

\* client.deleteLocalDatabase returned (or failed and was swallowed); dropClient is next.
DeleteReturns(c) ==
    /\ callers[c].pc = "deleting"
    /\ \/ dbInstall' = [dbInstall EXCEPT ![attempts[callers[c].gen].address] = 0]
       \/ UNCHANGED dbInstall
    /\ callers' = [callers EXCEPT ![c].pc = "resetDropping"]
    /\ UNCHANGED <<entry, memory, retryPromise, statusSnapshot, persisted, attempts, requested>>

\* The getOrCreateXmtpClient at the end of resetXmtpLocalState (client.ts:574).
ResetResumes(c) ==
    /\ callers[c].pc = "resetDropping" /\ callers[c].gen = 0
    /\ Enter(c, callers[c].id)
    /\ UNCHANGED requested

\* Fault: the waiting call starts its attempt whatever happened meanwhile.
AlwaysWanted(id) == TRUE

\* A waiting call still speaks for the wallet in charge (client.ts:268).
StillWanted(id) == lastIdentity.address = id.address

\* The catch of a call that waited on a signer-less open (client.ts:267-270).
WaiterResumes(c) ==
    /\ callers[c].pc = "waiting"
    /\ attempts[callers[c].gen].promise = "rejected"
    /\ StillWanted(callers[c].id)
    /\ Enter(c, callers[c].id)
    /\ UNCHANGED requested

\* It got the open's client, or its wallet is no longer the one to start.
WaiterReturns(c) ==
    /\ callers[c].pc = "waiting"
    /\ \/ attempts[callers[c].gen].promise = "resolved"
       \/ /\ attempts[callers[c].gen].promise = "rejected"
          /\ ~StillWanted(callers[c].id)
    /\ Finish(c)
    /\ UNCHANGED <<entry, memory, retryPromise, statusSnapshot, device, attempts, requested>>

-----------------------------------------------------------------------------
(* Outcomes of attempts *)

\* Faults: the first of the two conditions below is forgotten, or both are.
NoClientYet(g) == activeClient = 0
AnyAttempt(g) == TRUE

\* An outcome counts only for the current attempt, and never replaces a client
\* (client.ts:345, 437, 469).
IsCurrent(g) == g = attemptGeneration /\ activeClient = 0

Settled(promise, outcome) == IF promise = "pending" THEN outcome ELSE promise

\* Client.create or Client.build resolved (createClient, buildClient): the wallet's
\* installation is the one in its local database, or a fresh one.
NativeSucceeds(g) ==
    LET a == attempts[g].address
        i == IF dbInstall[a] = 0 THEN g ELSE dbInstall[a]
    IN  /\ dbInstall' = [dbInstall EXCEPT ![a] = i]
        /\ attempts' = [attempts EXCEPT ![g].native = "ok", ![g].install = i,
                            ![g].promise = Settled(attempts[g].promise, "resolved")]

\* Fault: an address that is already stored is kept.
PersistFirst(address) == persisted' = IF persisted = NoAddr THEN address ELSE persisted

SetActiveXmtpAddress(address) == persisted' = address

\* Fault: the client of a superseded attempt is dropped, and with it every handle on its
\* installation.
IgnoreAndDrop(g) ==
    /\ attempts' = [h \in Gen |->
           IF h # g /\ (attempts[h].native # "ok" \/ attempts[h].address # attempts[g].address)
             THEN attempts[h]
             ELSE [attempts[h] EXCEPT !.native = "dropped",
                                      !.promise = Settled(attempts[h].promise, "resolved")]]
    /\ UNCHANGED <<entry, memory, statusSnapshot, device>>

\* A superseded attempt's client is neither announced nor dropped (client.ts:437-440).
IgnoreClient(g) ==
    /\ NativeSucceeds(g)
    /\ UNCHANGED <<entry, memory, statusSnapshot, persisted>>

\* adoptClient (client.ts:436)
AdoptClient(g) ==
    /\ attempts[g].native = "running"
    /\ \/ /\ ~IsCurrent(g)
          /\ IgnoreClient(g)
       \/ /\ IsCurrent(g)
          /\ NativeSucceeds(g)
          /\ activeClient' = g
          /\ activeAddress' = attempts[g].address
          /\ initPromise' = IF initPromise = 0 THEN g ELSE initPromise
          /\ lastError' = "none"
          /\ SetActiveXmtpAddress(attempts[g].address)
          /\ UNCHANGED <<attemptGeneration, lastIdentity, attemptHasSigner>>
          /\ NotifyLifecycle
    /\ UNCHANGED <<retryPromise, callers, requested>>

\* Faults: the failure is not announced, leaves the promise behind, or the address.
EntryFailsSilently(error) ==
    /\ initPromise' = 0 /\ activeAddress' = NoAddr /\ lastError' = error
    /\ UNCHANGED statusSnapshot
EntryFailsButStays(error) ==
    /\ lastError' = error
    /\ UNCHANGED <<initPromise, activeAddress, statusSnapshot>>
EntryFailsKeepingAddress(error) ==
    /\ initPromise' = 0 /\ lastError' = error
    /\ UNCHANGED <<activeAddress, statusSnapshot>>

\* What failAttempt and the timer both do to the entry (client.ts:346-349, 471-476).
EntryFails(error) ==
    /\ initPromise' = 0 /\ activeAddress' = NoAddr /\ lastError' = error
    /\ NotifyLifecycle

\* A superseded attempt, or one with a client since, records nothing.
Fails(g, error) ==
    /\ UNCHANGED <<activeClient, attemptGeneration, lastIdentity, attemptHasSigner,
                   retryPromise, device, callers, requested>>
    /\ IF IsCurrent(g)
         THEN EntryFails(error)
         ELSE UNCHANGED <<initPromise, activeAddress, lastError, statusSnapshot>>

\* failAttempt (client.ts:467); after a timeout the recorded error stays the timeout.
FailAttempt(g) ==
    /\ attempts[g].native = "running"
    /\ attempts' = [attempts EXCEPT ![g].native = "failed",
                        ![g].promise = Settled(attempts[g].promise, "rejected")]
    /\ Fails(g, IF initPromise = 0 THEN lastError ELSE "native")

\* The timer of withCreateTimeout, which a settled attempt has cleared (client.ts:342-357).
TimerFires(g) ==
    /\ TimeoutEnabled
    /\ attempts[g].promise = "pending"
    /\ attempts' = [attempts EXCEPT ![g].promise = "rejected"]
    /\ Fails(g, "timeout")

-----------------------------------------------------------------------------
(* Specification *)


Init ==
    /\ initPromise = 0 /\ activeClient = 0 /\ activeAddress = NoAddr /\ attemptGeneration = 0
    /\ lastIdentity = NoIdentity /\ lastError = "none" /\ attemptHasSigner = FALSE
    /\ retryPromise = 0
    /\ statusSnapshot = IdleStatus
    /\ persisted = NoAddr
    /\ dbInstall = [a \in Addr |-> 0]
    /\ attempts = [g \in Gen |-> NoAttempt]
    /\ callers = [c \in Caller |-> Idle]
    /\ requested = FALSE

\* The process dies and the app starts again: MMKV keeps the active address, and every
\* local database the installation it holds.
ProcessRestart ==
    /\ attemptGeneration > 0
    /\ initPromise' = 0 /\ activeClient' = 0 /\ activeAddress' = NoAddr /\ attemptGeneration' = 0
    /\ lastIdentity' = NoIdentity /\ lastError' = "none" /\ attemptHasSigner' = FALSE
    /\ retryPromise' = 0
    /\ statusSnapshot' = IdleStatus
    /\ dbInstall' = [a \in Addr |-> IF dbInstall[a] = 0 THEN 0 ELSE Earlier]
    /\ attempts' = [g \in Gen |-> NoAttempt]
    /\ callers' = [c \in Caller |-> Idle]
    /\ requested' = FALSE
    /\ UNCHANGED persisted

HostCall(c) ==
    \/ \E a \in Addr : GetOrCreateXmtpClient(c, a)
    \/ \E a \in Addr : OpenXmtpClient(c, a)
    \/ \E a \in Addr : ResetXmtpLocalState(c, a)
    \/ \E a \in Addr : ResetWithoutClient(c, a)
    \/ DropXmtpClient(c)

Continuation(c) ==
    \/ NativeDropReturns(c) \/ SwitchResumes(c)
    \/ DeleteReturns(c) \/ ResetResumes(c)
    \/ WaiterResumes(c) \/ WaiterReturns(c)

Outcome(g) == AdoptClient(g) \/ FailAttempt(g) \/ TimerFires(g)

Next ==
    \/ \E c \in Caller : HostCall(c)
    \/ RetryXmtpClient
    \/ RetryDone
    \/ \E c \in Caller : Continuation(c)
    \/ \E g \in Gen : Outcome(g)
    \/ ProcessRestart

Spec == Init /\ [][Next]_vars

\* setTimeout callbacks and promise reactions run; nothing is assumed of the SDK's
\* create, build, delete and drop, which may hang.
Fairness ==
    /\ \A g \in Gen : WF_vars(TimerFires(g))
    /\ WF_vars(RetryDone)

FairSpec == Spec /\ Fairness

-----------------------------------------------------------------------------
(* Properties *)

TypeOK ==
    /\ initPromise \in 0..MaxGen
    /\ activeClient \in 0..MaxGen
    /\ activeAddress \in Addr \cup {NoAddr}
    /\ attemptGeneration \in 0..MaxGen
    /\ lastIdentity \in Identity \cup {NoIdentity}
    /\ lastError \in {"none", "native", "timeout"}
    /\ attemptHasSigner \in BOOLEAN
    /\ retryPromise \in 0..MaxGen
    /\ statusSnapshot \in [state : {"idle", "initializing", "ready", "failed"},
                           address : Addr \cup {NoAddr}, client : 0..MaxGen,
                           error : {"none", "native", "timeout"}, withoutSigner : BOOLEAN]
    /\ persisted \in Addr \cup {NoAddr}
    /\ dbInstall \in [Addr -> Install]
    /\ attempts \in [Gen -> Attempt]
    /\ callers \in [Caller -> CallState]
    /\ requested \in BOOLEAN

\* The cached status equals what deriveStatus would compute now, in every state,
\* although it is recomputed only by notifyLifecycle and the join at client.ts:262
\* changes lastIdentity without notifying.
SnapshotFresh == statusSnapshot = DeriveStatus

\* initPromise and activeAddress are set and cleared together, a client never outlives
\* its entry, and the identity a retry would use is the one of the entry.
EntryPaired ==
    /\ initPromise = 0 <=> activeAddress = NoAddr
    /\ activeClient # 0 => initPromise # 0
    /\ activeAddress # NoAddr => lastIdentity.address = activeAddress

\* A failed status reports the most recent attempt: that attempt was for the reported
\* wallet, its promise is rejected, and a native error is that attempt's own.
FailureIsOwn ==
    statusSnapshot.state = "failed" =>
        LET latest == attempts[attemptGeneration]
        IN  /\ attemptGeneration # 0
            /\ latest.promise = "rejected"
            /\ latest.address = statusSnapshot.address
            /\ statusSnapshot.error = "native" => latest.native = "failed"

\* A status that says initializing has an attempt behind it whose outcome will be announced:
\* the most recent one, for the reported wallet, unsettled, so that its timer is still armed
\* (client.ts:342) and its outcome is not ignored as a superseded attempt's (client.ts:437).
InitializingHasAttempt ==
    statusSnapshot.state = "initializing" =>
        /\ attemptGeneration # 0
        /\ IsCurrent(attemptGeneration)
        /\ attempts[attemptGeneration].promise = "pending"
        /\ attempts[attemptGeneration].address = statusSnapshot.address

\* What the status says of an attempt is true of the most recent one, although attempts that
\* were superseded or timed out settle at any time.
StatusIsOwn == FailureIsOwn /\ InitializingHasAttempt

\* While a client is active it belongs to the wallet that the status reports, and to the
\* most recent attempt.
ReadyMatchesWallet ==
    activeClient # 0 =>
        /\ activeClient = attemptGeneration
        /\ attempts[activeClient].address = activeAddress

\* README: repeat calls for a wallet share one in-flight client.  Two attempts whose
\* promises are both pending are separated by a sign-out, switch or reset, which uses up
\* a generation without starting an attempt.
SingleFlight ==
    \A g, h \in Gen :
        /\ g < h
        /\ attempts[g].promise = "pending"
        /\ attempts[h].promise = "pending"
        => \E k \in Gen : g < k /\ k < h /\ attempts[k].native = "none"

\* After a sign-out nothing comes up, and no attempt is current, until the host asks.
SignedOutStaysOut ==
    ~requested => activeClient = 0 /\ initPromise = 0 /\ lastIdentity = NoIdentity

\* The address that a push receiver in another process reads is the active client's.
PersistedFollowsClient ==
    activeClient # 0 => persisted = attempts[activeClient].address

\* The active client is never one whose installation was dropped under it.
ActiveClientAlive == activeClient # 0 => attempts[activeClient].native = "ok"

\* When creation has failed, a retry is not answered with a promise of an earlier,
\* unrelated attempt that is still running.
RetryRerunsFailure ==
    statusSnapshot.state = "failed" /\ retryPromise # 0
        => attempts[retryPromise].promise # "pending"

\* A ready client is torn down (which advances the generation), never replaced in place.
ClientNeverReplaced ==
    [][activeClient # 0 /\ activeClient' # activeClient
         => activeClient' = 0 /\ attemptGeneration' # attemptGeneration]_vars

\* What a subscriber is told of the status: the phase and the wallet.
Shown == [state |-> statusSnapshot.state, address |-> statusSnapshot.address]
S == INSTANCE Session WITH status <- Shown

\* The status a subscriber sees follows the session protocol: a wallet comes up through
\* initializing, a failure is its own, and a ready wallet leaves before another enters,
\* whatever attempts, switches, resets and timeouts overlap underneath.
ImplementsSession == S!SessionSpec

\* clientCreateTimeoutMs: a hung attempt cannot hold the single-flight entry forever.
InitializingEnds ==
    statusSnapshot.state = "initializing" ~> statusSnapshot.state # "initializing"
=============================================================================
