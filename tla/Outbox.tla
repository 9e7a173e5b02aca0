-------------------------------- MODULE Outbox --------------------------------
(***************************************************************************)
(* What a thread promises about each message that is sent in it, on an SDK *)
(* that prepares messages: what the user sees of the message, and what the *)
(* conversation holds of it.  Messages are independent of each other, and  *)
(* one step may move several of them: a publish call publishes all that    *)
(* are stored, a receipt confirms all that are older.                      *)
(* ThreadSend implements it.                                               *)
(***************************************************************************)
CONSTANT Message   \* what is composed, here or on another device of this inbox

VARIABLES
    shown,   \* per message, its bubble
    copy     \* per message, its copy in the conversation

Bubbles == {"absent", "pending", "unpublished", "failed", "sent", "confirmed"}
Copies == {"none", "stored", "published"}

OutboxInit ==
    /\ shown = [m \in Message |-> "absent"]
    /\ copy = [m \in Message |-> "none"]

\* From here on: one message.
Becomes(m, bubble) == shown'[m] = bubble /\ copy'[m] = copy[m]

Composes(m) == shown[m] = "absent" /\ copy[m] = "none" /\ Becomes(m, "pending")

\* The one copy is stored while the bubble shows that it is being sent.
Stores(m) ==
    /\ shown[m] = "pending" /\ copy[m] = "none"
    /\ shown'[m] = "pending" /\ copy'[m] = "stored"

Publishes(m) == copy[m] = "stored" /\ copy'[m] = "published" /\ shown'[m] = shown[m]

\* An outcome: sent only with the copy published, unpublished only with one stored.
Succeeds(m) ==
    /\ shown[m] = "pending" /\ copy[m] # "none"
    /\ shown'[m] = "sent" /\ copy'[m] = "published"
Waits(m) == shown[m] = "pending" /\ copy[m] # "none" /\ Becomes(m, "unpublished")
Fails(m) == shown[m] = "pending" /\ Becomes(m, "failed")

\* A file that cannot be sent at all.
Refuses(m) == shown[m] = "pending" /\ copy[m] = "none" /\ Becomes(m, "absent")

Retries(m) == shown[m] \in {"failed", "unpublished"} /\ Becomes(m, "pending")
Discards(m) == shown[m] = "failed" /\ Becomes(m, "absent")

\* Its echo or a receipt, whatever the bubble showed.
Confirms(m) == copy[m] = "published" /\ Becomes(m, "confirmed")

SentElsewhere(m) ==
    /\ shown[m] = "absent" /\ copy[m] = "none"
    /\ shown'[m] = "absent" /\ copy'[m] = "published"

MessageStep(m) ==
    \/ Composes(m) \/ Stores(m) \/ Publishes(m)
    \/ Succeeds(m) \/ Waits(m) \/ Fails(m) \/ Refuses(m)
    \/ Retries(m) \/ Discards(m) \/ Confirms(m)
    \/ SentElsewhere(m)
    \/ UNCHANGED <<shown[m], copy[m]>>

OutboxNext ==
    /\ shown' \in [Message -> Bubbles] /\ copy' \in [Message -> Copies]
    /\ \A m \in Message : MessageStep(m)

OutboxSpec == OutboxInit /\ [][OutboxNext]_<<shown, copy>>
=============================================================================
