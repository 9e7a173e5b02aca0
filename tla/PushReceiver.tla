----------------------------- MODULE PushReceiver -----------------------------
(***************************************************************************)
(* decryptPushedMessage (src/src/xmtpPushReceiver.ts): a pushed message is *)
(* decrypted by the app's client, or by one built for the address recorded *)
(* on the device, against a timer; the operating system may end the        *)
(* process at any time.  The SDK's calls may hang: only the timer and the  *)
(* continuations of settled promises are fair.                             *)
(***************************************************************************)
EXTENDS Session

CONSTANT Pushed   \* pushes handled at the same time

VARIABLES
    rcvRecorded,  \* activeAddress on the device (MMKV): survives the process
    rcvWork,      \* per push: the await its work is at, and its result when done
    rcvReused,    \* the pushes whose work runs on the app's client
    rcvTimer,     \* per push: "none", "running", "fired" or "cleared"
    rcvAnswer     \* per push: "none" while it waits, then "null", "shown", "rejected" or
                  \* "killed"

rcvVars == <<status, rcvRecorded, rcvWork, rcvReused, rcvTimer, rcvAnswer>>

\* "releasing" waits for dropClient, which the finally calls for a client it built.
WorkPc == {"none", "building", "finding", "processing", "rendering", "releasing", "done"}
Result == {"null", "shown", "rejected"}
NoWork == [pc |-> "none", result |-> "null"]

Work(p, pc, result) == rcvWork' = [rcvWork EXCEPT ![p] = [pc |-> pc, result |-> result]]

\* The work is over, once its own client is released.
WorkEnds(p, result) == Work(p, IF p \in rcvReused THEN "done" ELSE "releasing", result)

-----------------------------------------------------------------------------
(* One push *)

\* Fault: the timer is set once there is a client.
TimerAfterBuild(p) ==
    rcvTimer' = [rcvTimer EXCEPT ![p] = IF status.state = "ready" THEN "running" ELSE "none"]

TimerStarts(p) == rcvTimer' = [rcvTimer EXCEPT ![p] = "running"]

\* Up to the first await: the host's getActiveClient first, then the build of a client, which
\* is over at once where it is the default one and no address is recorded.
DecryptPushedMessage(p) ==
    /\ rcvAnswer[p] # "none" /\ rcvWork[p].pc \in {"none", "done"}
    /\ rcvAnswer' = [rcvAnswer EXCEPT ![p] = "none"]
    /\ TimerStarts(p)
    /\ IF status.state = "ready"
         THEN Work(p, "finding", "null") /\ rcvReused' = rcvReused \cup {p}
         ELSE /\ Work(p, "building", "null") \/ (rcvRecorded = NoAddr /\ Work(p, "done", "null"))
              /\ rcvReused' = rcvReused \ {p}
    /\ UNCHANGED <<status, rcvRecorded>>

\* A client, or null, with which the work ends.  buildActiveClient turns a rejection into
\* null; that of a host's own buildClient, awaited outside the try, is the work's (line 78).
BuildSettles(p) ==
    /\ rcvWork[p].pc = "building"
    /\ Work(p, "finding", "null") \/ \E miss \in {"null", "rejected"} : Work(p, "done", miss)
    /\ UNCHANGED <<status, rcvRecorded, rcvReused, rcvTimer, rcvAnswer>>

\* findConversationByTopic, processMessage and render, in turn.
StepReturns(p) ==
    /\ \/ rcvWork[p].pc = "finding" /\ Work(p, "processing", "null")
       \/ rcvWork[p].pc = "processing" /\ Work(p, "rendering", "null")
       \/ rcvWork[p].pc = "rendering" /\ WorkEnds(p, "shown")
    /\ UNCHANGED <<status, rcvRecorded, rcvReused, rcvTimer, rcvAnswer>>

\* No such conversation, or any of the three throws.
StepMisses(p) ==
    /\ rcvWork[p].pc \in {"finding", "processing", "rendering"}
    /\ WorkEnds(p, "null")
    /\ UNCHANGED <<status, rcvRecorded, rcvReused, rcvTimer, rcvAnswer>>

\* dropClient settled; its error is swallowed.  Also long after the timer has answered.
Released(p) ==
    /\ rcvWork[p].pc = "releasing"
    /\ Work(p, "done", rcvWork[p].result)
    /\ UNCHANGED <<status, rcvRecorded, rcvReused, rcvTimer, rcvAnswer>>

TimerFires(p) ==
    /\ rcvTimer[p] = "running"
    /\ rcvTimer' = [rcvTimer EXCEPT ![p] = "fired"]
    /\ UNCHANGED <<status, rcvRecorded, rcvWork, rcvReused, rcvAnswer>>

\* Promise.race: either promise is settled.  The finally clears the timer.
RaceSettles(p) ==
    /\ rcvAnswer[p] = "none"
    /\ \/ rcvWork[p].pc = "done" /\ rcvAnswer' = [rcvAnswer EXCEPT ![p] = rcvWork[p].result]
       \/ rcvTimer[p] = "fired" /\ rcvAnswer' = [rcvAnswer EXCEPT ![p] = "null"]
    /\ rcvTimer' = [rcvTimer EXCEPT ![p] = "cleared"]
    /\ UNCHANGED <<status, rcvRecorded, rcvWork, rcvReused>>

-----------------------------------------------------------------------------
(* The app around it *)

\* A ready client is recorded (client.ts:446); a teardown clears the record.
ReceiverSession ==
    /\ SessionNext
    /\ rcvRecorded' = CASE status'.state = "ready" -> status'.address
                        [] status'.state = "idle" -> NoAddr
                        [] OTHER -> rcvRecorded
    /\ UNCHANGED <<rcvWork, rcvReused, rcvTimer, rcvAnswer>>

\* The process exits: what is in memory is gone, the record is not.
ProcessExits ==
    /\ status' = SessionIdle
    /\ rcvWork' = [p \in Pushed |-> NoWork] /\ rcvReused' = {}
    /\ rcvTimer' = [p \in Pushed |-> "none"]
    /\ rcvAnswer' = [p \in Pushed |-> IF rcvAnswer[p] = "none" THEN "killed" ELSE rcvAnswer[p]]
    /\ UNCHANGED rcvRecorded

-----------------------------------------------------------------------------
(* Specification *)

ReceiverInit ==
    /\ rcvRecorded \in Addr \cup {NoAddr}
    /\ rcvWork = [p \in Pushed |-> NoWork] /\ rcvReused = {}
    /\ rcvTimer = [p \in Pushed |-> "none"] /\ rcvAnswer = [p \in Pushed |-> "killed"]

ReceiverNext ==
    \/ ReceiverSession \/ ProcessExits
    \/ \E p \in Pushed :
           \/ DecryptPushedMessage(p) \/ BuildSettles(p) \/ StepReturns(p) \/ StepMisses(p)
           \/ Released(p) \/ TimerFires(p) \/ RaceSettles(p)

ReceiverFairness ==
    \A p \in Pushed : WF_rcvVars(TimerFires(p)) /\ WF_rcvVars(RaceSettles(p))

ReceiverSpec == SessionInit /\ ReceiverInit /\ [][ReceiverNext]_rcvVars /\ ReceiverFairness

-----------------------------------------------------------------------------
(* Properties *)

ReceiverTypeOK ==
    /\ rcvRecorded \in Addr \cup {NoAddr}
    /\ rcvWork \in [Pushed -> [pc : WorkPc, result : Result]]
    /\ rcvReused \subseteq Pushed
    /\ rcvTimer \in [Pushed -> {"none", "running", "fired", "cleared"}]
    /\ rcvAnswer \in [Pushed -> Result \cup {"none", "killed"}]

\* xmtpPushReceiver.ts:17-24: whatever hangs, of the build, the three steps or the release
\* of the client, the caller gets an answer, unless its process is gone.
ReceiverAnswers == \A p \in Pushed : (rcvAnswer[p] = "none") ~> (rcvAnswer[p] # "none")
=============================================================================
