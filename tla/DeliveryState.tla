---------------------------- MODULE DeliveryState ----------------------------
(***************************************************************************)
(* The delivery-state operators of src/src/deliveryState.ts over the own   *)
(* bubbles of a thread.                                                    *)
(*                                                                         *)
(* The code keeps an array sorted newest first; here a thread is the set   *)
(* of its bubbles and `sentNs` is their order.  The array adds to that     *)
(* only the order of two bubbles with equal `sentNs`.  Cards and the       *)
(* counterparty's messages carry no delivery state, match no echo and are  *)
(* left out.  A body stands for a text or for a file; the digest of an     *)
(* attachment is known once its upload is recorded on the bubble.          *)
(***************************************************************************)
EXTENDS Integers

CONSTANTS
    Text, File,         \* what a text, an attachment bubble shows
    FailedEchoWindow    \* FAILED_ECHO_WINDOW_NS, in ticks of the clock

ASSUME BodyAssumption == Text \cap File = {}
ASSUME WindowAssumption == FailedEchoWindow \in Nat

Body == Text \cup File

Delivery == {"pending", "sent", "unpublished", "failed", "read", "none"}
NoId == <<"none", 0>>

\* Confirmed by the network: the authoritative copy, or one a receipt was applied to.
Confirmed(b) == b.delivery \in {"none", "read"}
IsOptimistic(b) == ~Confirmed(b)

IsLocalId(id) == id[1] = "local"

Listed(messages, id) == \E b \in messages : b.id = id

DiscardMessage(messages, id) == {b \in messages : b.id # id}

Marked(messages, id, newId, delivery) ==
    {IF b.id = id THEN [b EXCEPT !.id = newId, !.delivery = delivery] ELSE b : b \in messages}

\* Fault: the copy looked for is the one being rekeyed.
SetDeliveryFindsItself(messages, id, delivery, newId) ==
    IF newId \notin {NoId, id} /\ Listed(messages, id)
      THEN DiscardMessage(messages, id)
      ELSE Marked(messages, id, IF newId = NoId THEN id ELSE newId, delivery)

\* The copy whose echo landed first is dropped instead of rekeyed.
SetDelivery(messages, id, delivery, newId) ==
    IF newId \notin {NoId, id} /\ Listed(messages, newId)
      THEN DiscardMessage(messages, id)
      ELSE Marked(messages, id, IF newId = NoId THEN id ELSE newId, delivery)

\* Fault: the outcome is stamped on whatever copy is there.
SettleRetryAlways(messages, id, delivery) == SetDelivery(messages, id, delivery, NoId)

SettleRetry(messages, id, delivery) ==
    IF \E b \in messages : b.id = id /\ b.delivery = "pending"
      THEN SetDelivery(messages, id, delivery, NoId)
      ELSE messages

\* Fault: the ack adopts the id although its echo is already listed.
ReconcileSentBlindly(messages, localId, sentId, delivery) ==
    Marked(messages, localId, sentId, delivery)

ReconcileSent(messages, localId, sentId, delivery) ==
    IF Listed(messages, sentId)
      THEN DiscardMessage(messages, localId)
      ELSE Marked(messages, localId, sentId, delivery)

AttachUploaded(messages, localId) ==
    {IF b.id = localId /\ b.body \in File THEN [b EXCEPT !.uploaded = TRUE] ELSE b
        : b \in messages}

-----------------------------------------------------------------------------
(* Stream echoes and read receipts *)

Apart(x, y) == IF x < y THEN y - x ELSE x - y

AwaitingEcho(b) == b.delivery \in {"pending", "sent", "unpublished", "failed"}

\* Whether the echo `next` may replace the local copy b although their ids differ.
EchoMatches(b, next) ==
    /\ AwaitingEcho(b)
    /\ b.body = next.body
    /\ \/ /\ b.body \in Text
          /\ b.delivery # "failed" \/ Apart(next.sentNs, b.sentNs) <= FailedEchoWindow
       \/ b.body \in File /\ b.uploaded

\* The first match of the array is the newest one.
Newest(bubbles) == {b \in bubbles : \A c \in bubbles : c.sentNs <= b.sentNs}

StandsInFor(messages, next) ==
    IF Listed(messages, next.id)
      THEN {b \in messages : b.id = next.id}
      ELSE Newest({b \in messages : EchoMatches(b, next)})

MergeStreamed(messages, next) ==
    IF \E b \in messages : b.id = next.id /\ Confirmed(b)
      THEN messages
      ELSE (messages \ StandsInFor(messages, next)) \cup {next}

MarkReadUpTo(messages, upToNs) ==
    {IF b.delivery \in {"none", "sent"} /\ b.sentNs <= upToNs
       THEN [b EXCEPT !.delivery = "read"] ELSE b : b \in messages}
=============================================================================
