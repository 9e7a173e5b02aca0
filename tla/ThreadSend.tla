----------------------------- MODULE ThreadSend -----------------------------
(***************************************************************************)
(* The send side of one attached thread: useThreadSend of                  *)
(* src/src/threadSend.ts with sendTracked and republishStored of           *)
(* src/src/publishState.ts, over the bubbles of DeliveryState, against an  *)
(* SDK that stores messages, publishes them when it can and streams what   *)
(* was published.                                                          *)
(*                                                                         *)
(* An operation is one run of send, sendAttachment or retryMessage; its pc *)
(* names the await it is suspended in.                                     *)
(***************************************************************************)
EXTENDS DeliveryState

CONSTANTS
    MaxOp,           \* bound on the sends and retries of a run
    MaxNet,          \* bound on the messages the SDK stores
    MaxClock,        \* bound on the clock
    NoBody,          \* null
    Offers,          \* the SDK builds considered: "prepare", "status", "plain"
    DistinctBodies   \* no two sends, of this device or another, have the same body

ASSUME BoundAssumption == MaxOp \in Nat /\ MaxNet \in Nat /\ MaxClock \in Nat
ASSUME OffersAssumption == Offers \subseteq {"prepare", "status", "plain"}
ASSUME NoBodyAssumption == NoBody \notin Body
ASSUME DistinctAssumption == DistinctBodies \in BOOLEAN

Op == 1..MaxOp
Net == 1..MaxNet
LocalId(k) == <<"local", k>>
NetId(n) == <<"net", n>>
Id == {LocalId(k) : k \in Op} \cup {NetId(n) : n \in Net}

VARIABLES
    messages,    \* the thread's own bubbles
    storedIds,   \* storedIdsRef: ids a failed send reported as stored by the SDK
    ops,         \* sends and retries of this hook
    sdk,         \* the SDK's messages: none, stored, published or echoed on the stream
    clock,       \* the time composed messages get
    offers       \* what the installed SDK offers for sending

vars == <<messages, storedIds, ops, sdk, clock, offers>>

-----------------------------------------------------------------------------

Bubble == [id : Id, body : Body, sentNs : 0..MaxClock, delivery : Delivery, uploaded : BOOLEAN]

Suspended == {"uploading", "preparing", "storing", "publishing", "sending", "republishing"}
Operation == [pc : Suspended \cup {"unused", "done", "failed"},
              bubble : Id \cup {NoId}, body : Body \cup {NoBody}, net : 0..MaxNet]
Unused == [pc |-> "unused", bubble |-> NoId, body |-> NoBody, net |-> 0]

NextOp(k) == \A j \in Op : ops[j].pc = "unused" <=> k <= j

\* A message in the SDK's store.
NotStored == [state |-> "none", body |-> NoBody, sentNs |-> 0]
Published(n) == sdk[n].state \in {"published", "echoed"}
NextNet(n) == \A m \in Net : sdk[m].state = "none" <=> n <= m
Stored(n, body, state, sentNs) ==
    sdk' = [sdk EXCEPT ![n] = [state |-> state, body |-> body, sentNs |-> sentNs]]

\* publishPreparedMessages publishes every message the SDK holds for the conversation.
PublishAll == sdk' = [n \in Net |-> IF sdk[n].state = "stored"
                                      THEN [sdk[n] EXCEPT !.state = "published"] ELSE sdk[n]]

NewBody(body) ==
    DistinctBodies => /\ \A k \in Op : ops[k].body # body
                      /\ \A n \in Net : sdk[n].body # body

-----------------------------------------------------------------------------
(* What the user does *)

\* send and sendAttachment up to their first await: the optimistic bubble appears.
Send(k, body) ==
    /\ NextOp(k) /\ NewBody(body)
    /\ clock < MaxClock
    /\ clock' = clock + 1
    /\ messages' = messages \cup
           {[id |-> LocalId(k), body |-> body, sentNs |-> clock + 1, delivery |-> "pending",
             uploaded |-> FALSE]}
    /\ ops' = [ops EXCEPT ![k] =
           [pc |-> IF body \in File THEN "uploading" ELSE "preparing",
            bubble |-> LocalId(k), body |-> body, net |-> 0]]
    /\ UNCHANGED <<storedIds, sdk, offers>>

\* Fault: only an unpublished bubble is republished, a failed one is sent again.
HeldIfUnpublished(b) == ~IsLocalId(b.id) /\ b.delivery = "unpublished"

\* The SDK still holds the bubble's message under the bubble's id.
Held(b) ==
    /\ ~IsLocalId(b.id)
    /\ \/ b.delivery = "unpublished"
       \/ b.delivery = "failed" /\ b.id \in storedIds

\* retryMessage of a bubble of the thread, up to its first await.
RetryMessage(k, b) ==
    /\ NextOp(k)
    /\ messages' = SetDelivery(messages, b.id, "pending", NoId)
    /\ \/ /\ Held(b) /\ offers = "prepare"
          /\ storedIds' = storedIds \cup {b.id}
          /\ ops' = [ops EXCEPT ![k] = [pc |-> "republishing", bubble |-> b.id,
                                        body |-> b.body, net |-> 0]]
       \/ /\ ~(Held(b) /\ offers = "prepare")
          /\ b.delivery = "failed"
          /\ ops' = [ops EXCEPT ![k] =
                 [pc |-> IF b.body \in File /\ ~b.uploaded THEN "uploading" ELSE "preparing",
                  bubble |-> b.id, body |-> b.body, net |-> 0]]
          /\ UNCHANGED storedIds
    /\ UNCHANGED <<sdk, clock, offers>>

\* discardFailed, which a host offers on failed bubbles.
DiscardFailed(b) ==
    /\ b.delivery = "failed"
    /\ messages' = DiscardMessage(messages, b.id)
    /\ UNCHANGED <<storedIds, ops, sdk, clock, offers>>

-----------------------------------------------------------------------------
(* Outcomes of what an operation awaits *)

Finish(k, pc) == ops' = [ops EXCEPT ![k].pc = pc]

\* The catch of deliverText and deliverAttachment; messageId is NoId when the error has none.
Fails(k, messageId) ==
    /\ messages' = SetDelivery(messages, ops[k].bubble, "failed", messageId)
    /\ storedIds' = IF messageId = NoId THEN storedIds ELSE storedIds \cup {messageId}
    /\ Finish(k, "failed")

Acked(k, delivery) ==
    /\ messages' = ReconcileSent(messages, ops[k].bubble, NetId(ops[k].net), delivery)
    /\ Finish(k, "done")
    /\ UNCHANGED storedIds

UploadReturns(k) ==
    /\ ops[k].pc = "uploading"
    /\ messages' = AttachUploaded(messages, ops[k].bubble)
    /\ Finish(k, "preparing")
    /\ UNCHANGED <<storedIds, sdk, clock, offers>>

\* AttachmentTooLargeError or AttachmentsNotConfiguredError.
UploadRefused(k) ==
    /\ ops[k].pc = "uploading"
    /\ messages' = DiscardMessage(messages, ops[k].bubble)
    /\ Finish(k, "done")
    /\ UNCHANGED <<storedIds, sdk, clock, offers>>

PrepareReturns(k) ==
    /\ ops[k].pc = "preparing"
    /\ Finish(k, "storing")
    /\ UNCHANGED <<messages, storedIds, sdk, clock, offers>>

\* The upload, prepare or the SDK rejects before the SDK stored anything.
FailsUnstored(k) ==
    /\ ops[k].pc \in {"uploading", "preparing", "storing"}
    /\ Fails(k, NoId)
    /\ UNCHANGED <<sdk, clock, offers>>

\* The SDK stores the message: prepareMessage has resolved, or send/sendWithStatus runs on.
SdkStores(k, n) ==
    /\ ops[k].pc = "storing"
    /\ NextNet(n)
    /\ Stored(n, ops[k].body, "stored", clock)
    /\ ops' = [ops EXCEPT ![k].pc = IF offers = "prepare" THEN "publishing" ELSE "sending",
                          ![k].net = n]
    /\ UNCHANGED <<messages, storedIds, clock, offers>>

\* racePublish: the publish settles first (sendPrepared).
PublishSettles(k) ==
    /\ ops[k].pc = "publishing"
    /\ \/ PublishAll /\ Acked(k, "sent")
       \/ UNCHANGED sdk /\ Acked(k, "unpublished")
       \/ UNCHANGED sdk /\ Fails(k, NetId(ops[k].net))
    /\ UNCHANGED <<clock, offers>>

\* Faults: the bound running out counts as success; the timer is never armed; the bound
\* running out is swallowed.
PublishTimesOutAsSent(k) ==
    /\ ops[k].pc = "publishing"
    /\ Acked(k, "sent")
    /\ UNCHANGED <<sdk, clock, offers>>
PublishNeverTimesOut(k) == FALSE /\ UNCHANGED vars
PublishTimesOutSilently(k) ==
    /\ ops[k].pc = "publishing"
    /\ Finish(k, "done")
    /\ UNCHANGED <<messages, storedIds, sdk, clock, offers>>

\* racePublish: publishTimeoutMs runs out; the publish is not cancelled.
PublishTimesOut(k) ==
    /\ ops[k].pc = "publishing"
    /\ Acked(k, "unpublished")
    /\ UNCHANGED <<sdk, clock, offers>>

\* Fault: the SDK's own word for a message it only stored reaches the bubble.
SendSettlesQueued(k) ==
    /\ ops[k].pc = "sending"
    /\ \/ PublishAll /\ Acked(k, "sent")
       \/ offers = "status" /\ UNCHANGED sdk /\ Acked(k, "queued")
       \/ UNCHANGED sdk /\ Fails(k, NetId(ops[k].net))
       \/ UNCHANGED sdk /\ Fails(k, NoId)
    /\ UNCHANGED <<clock, offers>>

\* send or sendWithStatus settles; a rejection may or may not carry the stored id.
SendSettles(k) ==
    /\ ops[k].pc = "sending"
    /\ \/ PublishAll /\ Acked(k, "sent")
       \/ offers = "status" /\ UNCHANGED sdk /\ Acked(k, "unpublished")
       \/ UNCHANGED sdk /\ Fails(k, NetId(ops[k].net))
       \/ UNCHANGED sdk /\ Fails(k, NoId)
    /\ UNCHANGED <<clock, offers>>

\* republishStored settles, and settleRetry records the outcome.
RepublishSettles(k) ==
    /\ ops[k].pc = "republishing"
    /\ \/ PublishAll /\ messages' = SettleRetry(messages, ops[k].bubble, "sent")
       \/ UNCHANGED sdk /\ messages' = SettleRetry(messages, ops[k].bubble, "unpublished")
       \/ UNCHANGED sdk /\ messages' = SettleRetry(messages, ops[k].bubble, "failed")
    /\ Finish(k, "done")
    /\ UNCHANGED <<storedIds, clock, offers>>

-----------------------------------------------------------------------------
(* The SDK, this inbox's other devices and the counterparty *)

\* A publish call, timed out or not, gets a stored message out, or the SDK does by itself.
SdkPublishes(n) ==
    /\ sdk[n].state = "stored"
    /\ sdk' = [sdk EXCEPT ![n].state = "published"]
    /\ UNCHANGED <<messages, storedIds, ops, clock, offers>>

OtherDeviceSends(n, body) ==
    /\ NextNet(n) /\ NewBody(body)
    /\ clock < MaxClock
    /\ clock' = clock + 1
    /\ Stored(n, body, "published", clock + 1)
    /\ UNCHANGED <<messages, storedIds, ops, offers>>

\* The stream handler's mergeStreamed of an own message.
Echo(n) ==
    /\ sdk[n].state = "published"
    /\ sdk' = [sdk EXCEPT ![n].state = "echoed"]
    /\ messages' = MergeStreamed(messages,
           [id |-> NetId(n), body |-> sdk[n].body, sentNs |-> sdk[n].sentNs,
            delivery |-> "none", uploaded |-> sdk[n].body \in File])
    /\ UNCHANGED <<storedIds, ops, clock, offers>>

\* The stream handler's markReadUpTo of the counterparty's receipt.
ReceiptArrives(upToNs) ==
    /\ messages' = MarkReadUpTo(messages, upToNs)
    /\ UNCHANGED <<storedIds, ops, sdk, clock, offers>>

-----------------------------------------------------------------------------
(* Specification *)

Init ==
    /\ messages = {}
    /\ storedIds = {}
    /\ ops = [k \in Op |-> Unused]
    /\ sdk = [n \in Net |-> NotStored]
    /\ clock = 0
    /\ offers \in Offers

User ==
    \/ \E k \in Op, body \in Body : Send(k, body)
    \/ \E k \in Op, b \in messages : RetryMessage(k, b)
    \/ \E b \in messages : DiscardFailed(b)

Settles(k) ==
    \/ UploadReturns(k) \/ UploadRefused(k)
    \/ PrepareReturns(k) \/ FailsUnstored(k)
    \/ \E n \in Net : SdkStores(k, n)
    \/ PublishSettles(k) \/ PublishTimesOut(k)
    \/ SendSettles(k)
    \/ RepublishSettles(k)

Environment ==
    \/ \E n \in Net : SdkPublishes(n)
    \/ \E n \in Net, body \in Body : OtherDeviceSends(n, body)
    \/ \E n \in Net : Echo(n)
    \/ \E upToNs \in 0..MaxClock : upToNs <= clock /\ ReceiptArrives(upToNs)

Next ==
    \/ User
    \/ \E k \in Op : Settles(k)
    \/ Environment

Spec == Init /\ [][Next]_vars

\* Only the timer of racePublish is sure to come; the SDK's calls may hang.
FairSpec == Spec /\ \A k \in Op : WF_vars(PublishTimesOut(k))

-----------------------------------------------------------------------------
(* Properties *)

TypeOK ==
    /\ messages \subseteq Bubble
    /\ storedIds \subseteq Id
    /\ ops \in [Op -> Operation]
    /\ sdk \in [Net -> [state : {"none", "stored", "published", "echoed"},
                        body : Body \cup {NoBody}, sentNs : 0..MaxClock]]
    /\ clock \in 0..MaxClock
    /\ offers \in Offers

\* No id is listed twice, whichever of ack, echo, failure and retry comes first.
UniqueIds == \A b, c \in messages : b.id = c.id => b = c

\* A bubble that shows as sent, read or confirmed is a message that was published.
ShownSentIsPublished ==
    \A b \in messages :
        b.delivery \in {"sent", "read", "none"}
            => \E n \in Net : b.id = NetId(n) /\ Published(n)

\* README: no bubble is left pending forever.  A bubble that looks in flight has a send or a
\* retry that is still suspended on it, whose outcome will be shown: no echo, receipt, id
\* adoption or second retry leaves one behind that nothing works on, on any SDK build.
PendingIsWorkedOn ==
    \A b \in messages : b.delivery = "pending" =>
        \E k \in Op : ops[k].pc \in Suspended /\ ops[k].bubble = b.id

\* README: with prepareMessage a retry republishes the stored message, so the peer never
\* gets two copies: what was composed once is stored once.
OneCopyForPeer ==
    offers = "prepare" /\ DistinctBodies =>
        \A m, n \in Net : sdk[m].body = sdk[n].body /\ sdk[m].body # NoBody => m = n

\* A fast echo never double-bubbles: what was composed once shows once.
OneBubble ==
    offers = "prepare" /\ DistinctBodies =>
        \A b, c \in messages : b.body = c.body => b = c

\* Once the network confirmed a message, no ack, failure or retry outcome makes its bubble
\* look in flight or failed again.
ConfirmedIsFinal ==
    [][offers = "prepare" =>
         \A b \in messages : Confirmed(b)
             => \A c \in messages' : c.id = b.id => Confirmed(c)]_vars

\* useConversation: a delivery failure surfaces on the bubble.  When a send ends in failure
\* its bubble is there, as failed, or as the confirmed copy that an echo put in its place.
FailureShows ==
    [][\A k \in Op :
         offers = "prepare" /\ ops[k].pc # "failed" /\ ops'[k].pc = "failed" =>
             \E b \in messages' :
                 \/ b.id \in {ops[k].bubble, NetId(ops[k].net)} /\ b.delivery = "failed"
                 \/ b.id = NetId(ops[k].net) /\ Confirmed(b)]_vars

\* README: publishing is raced against publishTimeoutMs, so the bubble of a message that
\* was stored does not wait for a publish that hangs.
WaitsForPublish(k) ==
    ops[k].pc = "publishing" /\ \E b \in messages : b.id = ops[k].bubble /\ b.delivery = "pending"
PendingSendEnds == \A k \in Op : WaitsForPublish(k) ~> ~WaitsForPublish(k)

\* README: a hung publish no longer leaves a bubble pending forever, here of a message the
\* SDK has stored under the bubble's id.
WaitsUnderStoredId(n) == \E b \in messages : b.id = NetId(n) /\ b.delivery = "pending"
HungPublishEnds == \A n \in Net : WaitsUnderStoredId(n) ~> ~WaitsUnderStoredId(n)

-----------------------------------------------------------------------------
(* What a thread promises of a message *)

\* What the user sees of the message with this body, and what the conversation holds of it.
LooksLike(body) ==
    LET its == {b \in messages : b.body = body}
    IN  IF its = {} THEN "absent"
        ELSE IF \E b, c \in its : b # c THEN "twice"
        ELSE LET b == CHOOSE c \in its : TRUE
             IN  IF Confirmed(b) THEN "confirmed" ELSE b.delivery
CopyOf(body) ==
    LET its == {n \in Net : sdk[n].body = body}
    IN  IF its = {} THEN "none"
        ELSE IF \E m, n \in its : m # n THEN "twice"
        ELSE IF \E n \in its : Published(n) THEN "published" ELSE "stored"

\* useThreadSend over the delivery state: on an SDK that prepares messages, each message that
\* is composed once goes through the steps of Outbox, however its send, its retries, its echo,
\* the receipts and the other messages' publish calls interleave: one bubble, one stored copy,
\* and looks that follow its outcome.  Nothing is promised of other builds, whose acks name no
\* message that was stored, nor of equal messages, whose echoes are taken for each other's.
Promised == offers = "prepare" /\ DistinctBodies
LookPromised(body) == IF Promised THEN LooksLike(body) ELSE "absent"
CopyPromised(body) == IF Promised THEN CopyOf(body) ELSE "none"
O == INSTANCE Outbox WITH Message <- Body, shown <- [body \in Body |-> LookPromised(body)],
                          copy <- [body \in Body |-> CopyPromised(body)]
ImplementsOutbox == O!OutboxSpec
=============================================================================
