----------------------------- MODULE Device_proofs -----------------------------
(* Proofs about what belongs to the device: Push for every set of calls and *)
(* every length of the list, PushReceiver for any number of pushes at the   *)
(* same time, and Installations for every cap, every set of installations   *)
(* without a date, and any number of attempts at the same time.             *)
EXTENDS Push, PushReceiver, Installations, FiniteSetTheorems, TLAPS

USE MaxRowsAssumption DEF MaxRowsAssumption

-----------------------------------------------------------------------------
(* The invariant that the refinement needs *)

\* What a call past the gate knows: the probe's verdict is positive, and the port that a
\* positive verdict names does answer.
PushInv ==
    /\ PushTypeOK
    /\ pushCached = "yes" => pushRoute = "answers"
    /\ \A c \in PushCall : pushCalls[c] \in {"listing", "native"} => pushCached = "yes"

LEMMA PushInitInv == PushInit => PushInv
<1> SUFFICES ASSUME PushInit PROVE PushInv
  OBVIOUS
<1>1. 0 \in 0..MaxRows
  OBVIOUS
<1>2. PushTypeOK
  BY <1>1 DEF PushInit, PushTypeOK, PushPc
<1>3. QED
  BY <1>2 DEF PushInit, PushInv

\* A call that leaves the gate alone or starts the probe.
LEMMA StartPushFacts ==
  ASSUME PushInv, NEW c \in PushCall, NEW pc \in {"registering", "subscribing"},
         StartPush(c, pc)
  PROVE  /\ pushCalls' \in [PushCall -> PushPc]
         /\ \A d \in PushCall : pushCalls'[d] \in {"listing", "native"}
                                  => pushCalls[d] = pushCalls'[d]
         /\ pushCached' \in {"none", "pending", "yes", "no"}
         /\ pushCached # "none" => pushCached' = pushCached
         /\ pushCached = "none" => pushCached' \in {"none", "pending"}
  BY DEF StartPush, PushGoes, AskGate, PushInv, PushTypeOK, PushPc

\* One call waits for something else, and the gate stays as it is.
LEMMA PushGoesFacts ==
  ASSUME PushInv, NEW c \in PushCall, NEW pc \in PushPc, PushGoes(c, pc)
  PROVE  /\ pushCalls' \in [PushCall -> PushPc]
         /\ \A d \in PushCall : pushCalls'[d] = IF d = c THEN pc ELSE pushCalls[d]
  BY DEF PushGoes, PushInv, PushTypeOK

LEMMA PushStepInv == PushInv /\ [PushNext]_pushVars => PushInv'
<1> SUFFICES ASSUME PushInv, [PushNext]_pushVars PROVE PushInv'
  OBVIOUS
<1> USE DEF PushInv, PushTypeOK, pushHost
<1>1. CASE ProbeAnswers
  BY <1>1 DEF ProbeAnswers
<1>2. CASE ProbeTimesOut
  BY <1>2 DEF ProbeTimesOut
<1>3. CASE ConfigureXmtpPush
  BY <1>3 DEF ConfigureXmtpPush
<1>4. CASE PushSession
  BY <1>4 DEF PushSession
<1>5. ASSUME NEW n \in 0..MaxRows, LengthChanges(n) PROVE PushInv'
  BY <1>5 DEF LengthChanges
<1>6. ASSUME NEW c \in PushCall, RegisterXmtpPush(c) PROVE PushInv'
  BY <1>6, StartPushFacts DEF RegisterXmtpPush
<1>7. ASSUME NEW c \in PushCall, TopicsTimerFires(c) PROVE PushInv'
  BY <1>7, StartPushFacts DEF TopicsTimerFires
<1>8. ASSUME NEW c \in PushCall, GateRefuses(c) PROVE PushInv'
  BY <1>8, PushGoesFacts DEF GateRefuses, PushPc
<1>9. ASSUME NEW c \in PushCall, Registers(c) PROVE PushInv'
  BY <1>9, StartPushFacts DEF Registers, CallNative
<1>10. ASSUME NEW c \in PushCall, AsksTopics(c) PROVE PushInv'
  BY <1>10, PushGoesFacts DEF AsksTopics, PushPc
<1>11. ASSUME NEW c \in PushCall, TopicsArrive(c) PROVE PushInv'
  BY <1>11, PushGoesFacts DEF TopicsArrive, CallNative, PushPc
<1>12. ASSUME NEW c \in PushCall, SubscribeReturns(c) PROVE PushInv'
  BY <1>12, PushGoesFacts DEF SubscribeReturns, PushPc
<1>13. CASE UNCHANGED pushVars
  BY <1>13 DEF pushVars
<1>14. QED
  BY <1>1, <1>2, <1>3, <1>4, <1>5, <1>6, <1>7, <1>8, <1>9, <1>10, <1>11, <1>12, <1>13
     DEF PushNext, PushStep

LEMMA PushAlwaysInv == PushSpec => []PushInv
  BY PushInitInv, PushStepInv, PTL DEF PushSpec

-----------------------------------------------------------------------------
(* Theorems *)

\* Every variable of the registration and of the debounced subscription keeps its type.
THEOREM PushTypeCorrect == PushSpec => []PushTypeOK
<1>1. PushInv => PushTypeOK
  BY DEF PushInv
<1>2. QED
  BY <1>1, PushAlwaysInv, PTL

\* Calls that ask the gate may start the probe, which is no verdict yet.
LEMMA AskingKeepsVerdict ==
  ASSUME PushInv, NEW c \in PushCall, NEW pc \in {"registering", "subscribing"},
         StartPush(c, pc)
  PROVE  GateVerdict' = GateVerdict
  BY StartPushFacts DEF GateVerdict

LEMMA GateStep ==
  ASSUME PushInv, [PushNext]_pushVars
  PROVE  [Gate!Decide \/ Gate!Call]_<<GateVerdict, pushNatives, pushWedged>>
<1> DEFINE Quiet == UNCHANGED <<GateVerdict, pushNatives, pushWedged>>
<1>1. CASE ProbeAnswers
  BY <1>1 DEF ProbeAnswers, Gate!Decide, GateVerdict
<1>2. CASE ProbeTimesOut
  BY <1>2 DEF ProbeTimesOut, Gate!Decide, GateVerdict
<1>3. CASE ConfigureXmtpPush \/ PushSession \/ \E n \in 0..MaxRows : LengthChanges(n)
  BY <1>3 DEF ConfigureXmtpPush, PushSession, LengthChanges, GateVerdict
<1>4. ASSUME NEW c \in PushCall, RegisterXmtpPush(c) \/ TopicsTimerFires(c) PROVE Quiet
  BY <1>4, AskingKeepsVerdict DEF RegisterXmtpPush, TopicsTimerFires
<1>5. ASSUME NEW c \in PushCall, GateRefuses(c) \/ AsksTopics(c) \/ SubscribeReturns(c)
      PROVE  Quiet
  BY <1>5 DEF GateRefuses, AsksTopics, SubscribeReturns, GateVerdict
<1>6. ASSUME NEW c \in PushCall, Registers(c) PROVE Gate!Call
  <2>1. GateVerdict = "open" /\ GateVerdict' = GateVerdict
    BY <1>6, AskingKeepsVerdict DEF Registers, GateVerdict
  <2>2. pushNatives' = pushNatives \cup {"register"} /\ pushWedged' = pushWedged
    BY <1>6 DEF Registers, CallNative, PushInv, PushTypeOK
  <2>3. QED
    BY <2>1, <2>2 DEF Gate!Call
<1>7. ASSUME NEW c \in PushCall, TopicsArrive(c) PROVE Gate!Call \/ Quiet
  <2>1. GateVerdict = "open" /\ GateVerdict' = GateVerdict /\ pushRoute = "answers"
    BY <1>7 DEF TopicsArrive, GateVerdict, PushInv
  <2>2. CASE CallNative("subscribe")
    <3>1. pushNatives' = pushNatives \cup {"subscribe"} /\ pushWedged' = pushWedged
      BY <2>1, <2>2 DEF CallNative, PushInv, PushTypeOK
    <3>2. QED
      BY <2>1, <3>1 DEF Gate!Call
  <2>3. CASE UNCHANGED <<pushNatives, pushWedged>>
    BY <2>1, <2>3
  <2>4. QED
    BY <1>7, <2>2, <2>3 DEF TopicsArrive
<1>8. CASE UNCHANGED pushVars
  BY <1>8 DEF pushVars, GateVerdict
<1>9. QED
  BY <1>1, <1>2, <1>3, <1>4, <1>5, <1>6, <1>7, <1>8 DEF PushNext, PushStep

\* Push implements PushGate: for any number of registrations, subscriptions and sign-outs
\* on the one probe the verdict is reached once, and a native call follows a positive one
\* and never wedges the runtime.
THEOREM PushImplementsGate == PushSpec => ImplementsPushGate
<1>1. PushInit => Gate!GateInit
  BY DEF PushInit, Gate!GateInit, GateVerdict
<1>2. PushInv /\ [PushNext]_pushVars
        => [Gate!Decide \/ Gate!Call]_<<GateVerdict, pushNatives, pushWedged>>
  BY GateStep
<1>3. QED
  BY <1>1, <1>2, PushAlwaysInv, PTL DEF PushSpec, ImplementsPushGate, Gate!GateSpec

-----------------------------------------------------------------------------
(* The receiver of a push *)

ReceiverStatus ==
    status \in [state : {"idle", "initializing", "ready", "failed"}, address : Addr \cup {NoAddr}]

\* A caller that waits has a timer that runs, or that fired and has settled the race.
WaitingHasTimer == \A p \in Pushed : rcvAnswer[p] = "none" => rcvTimer[p] \in {"running", "fired"}

\* Work on a client that this process built for the push ends by releasing it; the app's
\* client is never released.
ReusedNotReleased ==
    \A p \in rcvReused : rcvWork[p].pc \notin {"building", "releasing"}

ReceiverInv == ReceiverStatus /\ ReceiverTypeOK /\ WaitingHasTimer /\ ReusedNotReleased

LEMMA ReceiverInitInv == SessionInit /\ ReceiverInit => ReceiverInv
<1> SUFFICES ASSUME SessionInit, ReceiverInit PROVE ReceiverInv
  OBVIOUS
<1>1. NoWork \in [pc : WorkPc, result : Result]
  BY DEF NoWork, WorkPc, Result
<1>2. ReceiverTypeOK
  BY <1>1 DEF ReceiverInit, ReceiverTypeOK
<1>3. ReceiverStatus /\ WaitingHasTimer /\ ReusedNotReleased
  BY DEF SessionInit, SessionIdle, SessionStatus, ReceiverInit, ReceiverStatus, WaitingHasTimer,
         ReusedNotReleased
<1>4. QED
  BY <1>2, <1>3 DEF ReceiverInv

\* Work that goes on for a push whose caller and timer are left alone.
LEMMA WorkKeeps ==
  ASSUME ReceiverInv, NEW p \in Pushed, NEW pc \in WorkPc, NEW result \in Result,
         Work(p, pc, result), p \in rcvReused => pc \notin {"building", "releasing"},
         UNCHANGED <<status, rcvRecorded, rcvReused, rcvTimer, rcvAnswer>>
  PROVE  ReceiverInv'
<1> DEFINE work == [pc |-> pc, result |-> result]
<1>1. work \in [pc : WorkPc, result : Result] /\ work.pc = pc
  OBVIOUS
<1>2. rcvWork' = [rcvWork EXCEPT ![p] = work]
  BY DEF Work
<1> HIDE DEF work
<1>3. /\ rcvWork' \in [Pushed -> [pc : WorkPc, result : Result]]
      /\ \A q \in Pushed : rcvWork'[q] = IF q = p THEN work ELSE rcvWork[q]
  BY <1>1, <1>2 DEF ReceiverInv, ReceiverTypeOK
<1>4. ReceiverTypeOK'
  BY <1>3 DEF ReceiverInv, ReceiverTypeOK
<1>5. ReusedNotReleased'
  BY <1>1, <1>3 DEF ReceiverInv, ReceiverTypeOK, ReusedNotReleased
<1>6. QED
  BY <1>4, <1>5 DEF ReceiverInv, ReceiverStatus, WaitingHasTimer

\* A new push starts its timer before anything else.
LEMMA DecryptKeeps ==
  ASSUME ReceiverInv, NEW p \in Pushed, DecryptPushedMessage(p)
  PROVE  ReceiverInv'
<1>1. PICK pc \in {"finding", "building", "done"} :
        /\ Work(p, pc, "null")
        /\ \/ pc = "finding" /\ rcvReused' = rcvReused \cup {p}
           \/ rcvReused' = rcvReused \ {p}
  BY DEF DecryptPushedMessage
<1> DEFINE work == [pc |-> pc, result |-> "null"]
<1>2. work \in [pc : WorkPc, result : Result] /\ work.pc = pc
  BY DEF WorkPc, Result
<1>3. rcvWork' = [rcvWork EXCEPT ![p] = work]
  BY <1>1 DEF Work
<1> HIDE DEF work
<1>4. /\ rcvWork' \in [Pushed -> [pc : WorkPc, result : Result]]
      /\ \A q \in Pushed : rcvWork'[q] = IF q = p THEN work ELSE rcvWork[q]
  BY <1>2, <1>3 DEF ReceiverInv, ReceiverTypeOK
<1>5. rcvReused' \subseteq Pushed
  BY <1>1 DEF ReceiverInv, ReceiverTypeOK
<1>6. ReceiverTypeOK' /\ WaitingHasTimer'
  BY <1>4, <1>5 DEF DecryptPushedMessage, TimerStarts, ReceiverInv, ReceiverTypeOK, WaitingHasTimer
<1>7. ReusedNotReleased'
  BY <1>1, <1>2, <1>4, <1>5 DEF ReceiverInv, ReceiverTypeOK, ReusedNotReleased
<1>8. QED
  BY <1>6, <1>7 DEF DecryptPushedMessage, ReceiverInv, ReceiverStatus

\* The process exits: no caller is left that waits.
LEMMA ExitKeeps == ASSUME ReceiverInv, ProcessExits PROVE ReceiverInv'
<1>1. NoWork \in [pc : WorkPc, result : Result]
  BY DEF NoWork, WorkPc, Result
<1>2. ReceiverTypeOK'
  BY <1>1 DEF ProcessExits, ReceiverInv, ReceiverTypeOK
<1>3. WaitingHasTimer' /\ ReusedNotReleased' /\ ReceiverStatus'
  BY DEF ProcessExits, SessionIdle, SessionStatus, ReceiverInv, ReceiverTypeOK, ReceiverStatus,
         WaitingHasTimer, ReusedNotReleased
<1>4. QED
  BY <1>2, <1>3 DEF ReceiverInv

LEMMA ReceiverStep == ReceiverInv /\ [ReceiverNext]_rcvVars => ReceiverInv'
<1> SUFFICES ASSUME ReceiverInv, [ReceiverNext]_rcvVars PROVE ReceiverInv'
  OBVIOUS
<1>1. CASE ReceiverSession
  <2>1. ReceiverStatus'
    BY <1>1 DEF ReceiverSession, SessionNext, Begin, Ready, Fail, End, SessionIdle, SessionStatus,
                ReceiverInv, ReceiverStatus
  <2>2. rcvRecorded' \in Addr \cup {NoAddr}
    BY <1>1, <2>1 DEF ReceiverSession, ReceiverInv, ReceiverStatus, ReceiverTypeOK
  <2>3. QED
    BY <1>1, <2>1, <2>2 DEF ReceiverSession, ReceiverInv, ReceiverTypeOK, WaitingHasTimer,
                            ReusedNotReleased
<1>2. ASSUME NEW p \in Pushed, BuildSettles(p) PROVE ReceiverInv'
  BY <1>2, WorkKeeps DEF BuildSettles, WorkPc, Result, ReceiverInv, ReusedNotReleased
<1>3. ASSUME NEW p \in Pushed, StepReturns(p) \/ StepMisses(p) PROVE ReceiverInv'
  BY <1>3, WorkKeeps DEF StepReturns, StepMisses, WorkEnds, WorkPc, Result
<1>4. ASSUME NEW p \in Pushed, Released(p) PROVE ReceiverInv'
  BY <1>4, WorkKeeps DEF Released, WorkPc, ReceiverInv, ReceiverTypeOK
<1>5. ASSUME NEW p \in Pushed, TimerFires(p) PROVE ReceiverInv'
  BY <1>5 DEF TimerFires, ReceiverInv, ReceiverTypeOK, ReceiverStatus, WaitingHasTimer,
              ReusedNotReleased
<1>6. ASSUME NEW p \in Pushed, RaceSettles(p) PROVE ReceiverInv'
  <2>1. PICK answer \in Result : rcvAnswer' = [rcvAnswer EXCEPT ![p] = answer]
    BY <1>6 DEF RaceSettles, Result, ReceiverInv, ReceiverTypeOK
  <2>2. QED
    BY <1>6, <2>1 DEF RaceSettles, Result, ReceiverInv, ReceiverTypeOK, ReceiverStatus, WaitingHasTimer,
                      ReusedNotReleased
<1>7. CASE UNCHANGED rcvVars
  BY <1>7 DEF rcvVars, ReceiverInv, ReceiverTypeOK, ReceiverStatus, WaitingHasTimer,
              ReusedNotReleased
<1>8. QED
  BY <1>1, <1>2, <1>3, <1>4, <1>5, <1>6, <1>7, DecryptKeeps, ExitKeeps DEF ReceiverNext

\* Every variable of the receiver keeps its type.
THEOREM ReceiverTyped == ReceiverSpec => []ReceiverTypeOK
<1>1. ReceiverInv => ReceiverTypeOK
  BY DEF ReceiverInv
<1>2. QED
  BY <1>1, ReceiverInitInv, ReceiverStep, PTL DEF ReceiverSpec

\* What ReceiverAnswers needs besides a timer that fires (xmtpPushReceiver.ts:17-24): a
\* caller that waits always has one, whatever its work hangs in and however often the
\* process died; and the client of the app is never the one that is released.
THEOREM ReceiverGuarded == ReceiverSpec => [](WaitingHasTimer /\ ReusedNotReleased)
<1>1. ReceiverInv => WaitingHasTimer /\ ReusedNotReleased
  BY DEF ReceiverInv
<1>2. QED
  BY <1>1, ReceiverInitInv, ReceiverStep, PTL DEF ReceiverSpec

-----------------------------------------------------------------------------
(* INSTALLATIONS *)

CreationState ==
    [pc : Resting \cup {"creating", "looking", "revoking", "retrying"},
     seen : SUBSET Inst, crowded : BOOLEAN]

-----------------------------------------------------------------------------
(* The oldest installations *)

LEMMA Bounds ==
  /\ Cap \in Nat /\ Cap > 0 /\ MaxInst \in Nat
  /\ \A S \in SUBSET Inst : IsFiniteSet(S) /\ Cardinality(S) \in Nat
<1>1. Cap \in Nat /\ Cap > 0 /\ MaxInst \in Nat
  BY CapAssumption DEF CapAssumption
<1>2. ASSUME NEW S \in SUBSET Inst PROVE IsFiniteSet(S) /\ Cardinality(S) \in Nat
  <2>1. IsFiniteSet(Inst)
    BY <1>1, FS_Interval DEF Inst
  <2>2. IsFiniteSet(S)
    BY <2>1, FS_Subset
  <2>3. QED
    BY <2>2, FS_CardinalityType
<1>3. QED
  BY <1>1, <1>2

LEMMA FewerFit ==
  ASSUME NEW T \in SUBSET Inst, NEW S \in SUBSET T
  PROVE  Cardinality(S) <= Cardinality(T)
  BY Bounds, FS_Subset

\* The order of the revocation is a strict linear one.
LEMMA OlderOrder ==
  ASSUME NEW i \in Inst, NEW j \in Inst, NEW k \in Inst
  PROVE  /\ ~OlderThan(i, i)
         /\ OlderThan(i, j) /\ OlderThan(j, k) => OlderThan(i, k)
         /\ i # j => OlderThan(i, j) \/ OlderThan(j, i)
<1>1. i \in Int /\ j \in Int /\ k \in Int
  BY Bounds DEF Inst
<1>2. QED
  BY <1>1 DEF OlderThan

AgeRank(seen, i) == Cardinality({j \in seen : OlderThan(j, i)})

LEMMA RankGrows ==
  ASSUME NEW seen \in SUBSET Inst, NEW i \in seen, NEW k \in seen, OlderThan(i, k)
  PROVE  AgeRank(seen, i) < AgeRank(seen, k)
<1> DEFINE A == {j \in seen : OlderThan(j, i)}
           B == {j \in seen : OlderThan(j, k)}
<1>1. A \subseteq B /\ i \in B /\ i \notin A /\ B \subseteq Inst /\ A \subseteq Inst
  BY OlderOrder
<1>2. Cardinality(A) <= Cardinality(B) /\ Cardinality(A) # Cardinality(B)
  BY <1>1, FS_Subset, Bounds
<1>3. Cardinality(A) \in Nat /\ Cardinality(B) \in Nat
  BY <1>1, Bounds
<1>4. QED
  BY <1>2, <1>3 DEF AgeRank

LEMMA RankBound ==
  ASSUME NEW seen \in SUBSET Inst, NEW i \in seen
  PROVE  AgeRank(seen, i) \in Nat /\ AgeRank(seen, i) < Cardinality(seen)
<1> DEFINE A == {j \in seen : OlderThan(j, i)}
<1>1. A \subseteq seen /\ i \notin A /\ A \subseteq Inst
  BY OlderOrder
<1>2. Cardinality(A) <= Cardinality(seen) /\ Cardinality(A) # Cardinality(seen)
  BY <1>1, FS_Subset, Bounds
<1>3. Cardinality(A) \in Nat /\ Cardinality(seen) \in Nat
  BY <1>1, Bounds
<1>4. QED
  BY <1>2, <1>3 DEF AgeRank

\* What the recovery revokes leaves room for one more under the cap (client.ts:520-525).
LEMMA OldestLeaveRoom ==
  ASSUME NEW seen \in SUBSET Inst
  PROVE  Cardinality(seen \ OldestInstallationIds(seen)) < Cap
<1> DEFINE n == Cardinality(seen)
           k == SlotsNeeded(n)
           S == seen \ OldestInstallationIds(seen)
           f == [i \in S |-> AgeRank(seen, i)]
<1>1. n \in Nat /\ Cap \in Nat /\ Cap > 0
  BY Bounds
<1>2. k \in Nat /\ k >= 1 /\ n - k <= Cap - 1
  BY <1>1 DEF SlotsNeeded
<1>3. S \subseteq seen /\ S \subseteq Inst /\ \A i \in S : ~(AgeRank(seen, i) < k)
  BY DEF OldestInstallationIds, AgeRank
<1> HIDE DEF n, k, S
<1>4. \A i \in S : AgeRank(seen, i) \in k..(n - 1)
  BY <1>1, <1>2, <1>3, RankBound DEF n
<1>5. \A i, j \in S : AgeRank(seen, i) = AgeRank(seen, j) => i = j
  <2>1. ASSUME NEW i \in S, NEW j \in S, AgeRank(seen, i) = AgeRank(seen, j), i # j PROVE FALSE
    <3>1. OlderThan(i, j) \/ OlderThan(j, i)
      BY <1>3, <2>1, OlderOrder
    <3>2. AgeRank(seen, i) \in Int /\ AgeRank(seen, j) \in Int
      BY <1>1, <1>2, <1>4
    <3>3. AgeRank(seen, i) < AgeRank(seen, j) \/ AgeRank(seen, j) < AgeRank(seen, i)
      BY <1>3, <3>1, RankGrows
    <3>4. QED
      BY <2>1, <3>2, <3>3
  <2>2. QED
    BY <2>1
<1>6. f \in Injection(S, k..(n - 1))
  BY <1>4, <1>5 DEF Injection, IsInjective
<1>7. /\ IsFiniteSet(k..(n - 1))
      /\ Cardinality(k..(n - 1)) = IF k > n - 1 THEN 0 ELSE n - 1 - k + 1
  BY <1>1, <1>2, FS_Interval
<1>8. Cardinality(S) <= Cardinality(k..(n - 1))
  BY <1>6, <1>7, FS_Injection
<1>9. Cardinality(S) \in Nat
  BY <1>3, Bounds
<1>10. Cardinality(S) < Cap
  BY <1>1, <1>2, <1>7, <1>8, <1>9
<1>11. QED
  BY <1>10 DEF S

\* An inbox at the cap or over it keeps one installation less than the cap, whatever ages the
\* network reports: the recovery frees exactly the slot of its retry (client.ts:489-495).
THEOREM OldestFreeOneSlot ==
  ASSUME NEW seen \in SUBSET Inst, Cardinality(seen) >= Cap
  PROVE  Cardinality(seen \ OldestInstallationIds(seen)) = Cap - 1
<1> DEFINE n == Cardinality(seen)
           k == SlotsNeeded(n)
           R == OldestInstallationIds(seen)
           f == [i \in R |-> AgeRank(seen, i)]
<1>1. n \in Nat /\ Cap \in Nat /\ Cap > 0 /\ IsFiniteSet(seen) /\ n >= Cap
  BY Bounds
<1>2. k \in Nat /\ k >= 1 /\ n - k = Cap - 1
  BY <1>1 DEF SlotsNeeded
<1>3. R \subseteq seen /\ R \subseteq Inst /\ \A i \in R : AgeRank(seen, i) < k
  BY DEF OldestInstallationIds, AgeRank
<1> HIDE DEF n, k, R
<1>4. \A i \in R : AgeRank(seen, i) \in 0..(k - 1)
  BY <1>1, <1>2, <1>3, RankBound DEF n
<1>5. \A i, j \in R : AgeRank(seen, i) = AgeRank(seen, j) => i = j
  <2>1. ASSUME NEW i \in R, NEW j \in R, AgeRank(seen, i) = AgeRank(seen, j), i # j PROVE FALSE
    <3>1. OlderThan(i, j) \/ OlderThan(j, i)
      BY <1>3, <2>1, OlderOrder
    <3>2. AgeRank(seen, i) \in Int /\ AgeRank(seen, j) \in Int
      BY <1>2, <1>4
    <3>3. AgeRank(seen, i) < AgeRank(seen, j) \/ AgeRank(seen, j) < AgeRank(seen, i)
      BY <1>3, <3>1, RankGrows
    <3>4. QED
      BY <2>1, <3>2, <3>3
  <2>2. QED
    BY <2>1
<1>6. f \in Injection(R, 0..(k - 1))
  BY <1>4, <1>5 DEF Injection, IsInjective
<1>7. IsFiniteSet(0..(k - 1)) /\ Cardinality(0..(k - 1)) = k
  BY <1>2, FS_Interval
<1>8. Cardinality(R) <= k /\ Cardinality(R) \in Nat
  BY <1>3, <1>6, <1>7, FS_Injection, Bounds
<1>9. seen \cap R = R
  BY <1>3
<1>10. Cardinality(seen \ R) = n - Cardinality(R)
  BY <1>1, <1>9, FS_Difference DEF n
<1>11. Cardinality(seen \ R) < Cap /\ Cardinality(seen \ R) \in Nat
  BY <1>3, OldestLeaveRoom, Bounds DEF R
<1>12. QED
  BY <1>1, <1>2, <1>8, <1>10, <1>11 DEF R

-----------------------------------------------------------------------------
(* The inductive invariant, over the installations on and the creations C *)

\* While the recovery is undisturbed, it saw everything that is there, and after its
\* revocation there is room.
Sees(on, C) == \A c \in Creation : C[c].pc = "revoking" /\ ~C[c].crowded => on \subseteq C[c].seen
Room(on, C) == \A c \in Creation : C[c].pc = "retrying" /\ ~C[c].crowded => Cardinality(on) < Cap
Full(C) == \A c \in Creation : C[c].pc = "full" => C[c].crowded

Recovers(on, C) == C \in [Creation -> CreationState] /\ Sees(on, C) /\ Room(on, C) /\ Full(C)

InsInv == InstallationsTypeOK /\ Recovers(insOn, insCreations)

LEMMA InsTypes ==
  ASSUME InsInv
  PROVE  /\ insOn \in SUBSET Inst
         /\ insPrune \in BOOLEAN /\ insActive \in BOOLEAN
         /\ insCount \in 0..MaxInst /\ insMine \in 0..MaxInst
         /\ insCreations \in [Creation -> CreationState]
         /\ insRevoke.pc \in {"free", "looking", "revoking", "revokingAll"}
         /\ insRevoke.ids \subseteq Inst
  BY DEF InsInv, InstallationsTypeOK, CreationState

LEMMA TypeFrom ==
  ASSUME insOn' \in SUBSET Inst, insPrune' \in BOOLEAN, insActive' \in BOOLEAN,
         insCount' \in 0..MaxInst, insMine' \in 0..MaxInst,
         insRevoke'.pc \in {"free", "looking", "revoking", "revokingAll"},
         insRevoke'.ids \subseteq Inst,
         Recovers(insOn', insCreations')
  PROVE  InsInv'
<1>1. InstallationsTypeOK'
  BY DEF InstallationsTypeOK, Recovers, CreationState
<1>2. QED
  BY <1>1 DEF InsInv

\* Fewer installations leave as much room.
LEMMA FewerRecovers ==
  ASSUME InsInv, NEW on \in SUBSET insOn
  PROVE  on \in SUBSET Inst /\ Recovers(on, insCreations)
<1>1. Cardinality(on) <= Cardinality(insOn) /\ Cardinality(on) \in Nat
      /\ Cardinality(insOn) \in Nat /\ Cap \in Nat /\ on \in SUBSET Inst
  BY InsTypes, FewerFit, Bounds
<1>2. QED
  BY <1>1 DEF InsInv, Recovers, Sees, Room

\* A creation goes on to a state that promises nothing.
LEMMA PauseRecovers ==
  ASSUME InsInv, NEW c \in Creation, NEW pc \in {"free", "creating", "looking"}, Pause(c, pc)
  PROVE  Recovers(insOn, insCreations')
<1> DEFINE new == [NoCreation EXCEPT !.pc = pc]
<1>1. new \in CreationState /\ new.pc = pc
  BY DEF NoCreation, CreationState, Resting
<1>2. insCreations' = [insCreations EXCEPT ![c] = new]
  BY DEF Pause
<1> HIDE DEF new
<1>3. /\ insCreations' \in [Creation -> CreationState]
      /\ \A d \in Creation : insCreations'[d] = IF d = c THEN new ELSE insCreations[d]
  BY <1>1, <1>2, InsTypes
<1>4. QED
  BY <1>1, <1>3 DEF InsInv, Recovers, Sees, Room, Full

\* A registration disturbs every recovery that is past its lookup.
LEMMA CrowdRecovers ==
  ASSUME NEW on, NEW C \in [Creation -> CreationState], Full(C)
  PROVE  Recovers(on, Crowd(C))
<1>1. \A c \in Creation :
         /\ Crowd(C)[c] \in CreationState /\ Crowd(C)[c].pc = C[c].pc
         /\ Crowd(C)[c].crowded = (C[c].crowded \/ C[c].pc \in {"revoking", "retrying"})
  BY DEF Crowd, CreationState
<1>2. Crowd(C) \in [Creation -> CreationState]
  BY <1>1 DEF Crowd
<1>3. Sees(on, Crowd(C)) /\ Room(on, Crowd(C)) /\ Full(Crowd(C))
  BY <1>1 DEF Sees, Room, Full
<1>4. QED
  BY <1>2, <1>3 DEF Recovers

-----------------------------------------------------------------------------
(* The steps *)

LEMMA InsInitInv == InstallationsInit => InsInv
<1> SUFFICES ASSUME InstallationsInit PROVE InsInv
  OBVIOUS
<1>1. insCount \in 0..MaxInst /\ insOn \subseteq Inst
  BY Bounds DEF InstallationsInit, Inst
<1>2. NoCreation \in CreationState /\ NoCreation.pc = "free"
  BY DEF NoCreation, CreationState, Resting
<1>3. Recovers(insOn, insCreations)
  BY <1>2 DEF InstallationsInit, Recovers, Sees, Room, Full
<1>4. InstallationsTypeOK
  <2>1. /\ insPrune \in BOOLEAN /\ insActive \in BOOLEAN
        /\ insRevoke.pc = "free" /\ insRevoke.ids = {}
    BY DEF InstallationsInit, NoRevoke
  <2>2. insMine \in 0..MaxInst
    BY Bounds DEF InstallationsInit
  <2>3. insCreations \in [Creation -> CreationState]
    BY <1>3 DEF Recovers
  <2>4. QED
    BY <1>1, <2>1, <2>2, <2>3 DEF InstallationsTypeOK, CreationState
<1>5. QED
  BY <1>3, <1>4 DEF InsInv

LEMMA OtherStep ==
  ASSUME InsInv, OtherDeviceRegisters \/ \E i \in Inst : OtherDeviceRevokes(i)
  PROVE  InsInv'
<1>1. CASE OtherDeviceRegisters
  <2>1. insCount' \in 0..MaxInst /\ insOn' \in SUBSET Inst
    BY <1>1, InsTypes, Bounds DEF OtherDeviceRegisters, Register, Inst
  <2>2. Recovers(insOn', insCreations')
    BY <1>1, InsTypes, CrowdRecovers DEF OtherDeviceRegisters, InsInv, Recovers
  <2>3. QED
    BY <1>1, <2>1, <2>2, InsTypes, TypeFrom DEF OtherDeviceRegisters
<1>2. CASE \E i \in Inst : OtherDeviceRevokes(i)
  <2>1. insOn' \in SUBSET insOn /\ UNCHANGED <<insPrune, insCount, insMine, insActive, insCreations, insRevoke>>
    BY <1>2 DEF OtherDeviceRevokes
  <2>2. QED
    BY <2>1, FewerRecovers, InsTypes, TypeFrom
<1>3. QED
  BY <1>1, <1>2

LEMMA PauseStep ==
  ASSUME InsInv, NEW c \in Creation, CreateStarts(c) \/ CreateReopens(c) \/ CreateFails(c)
  PROVE  InsInv'
<1>1. \E pc \in {"free", "creating", "looking"} : Pause(c, pc)
  BY DEF CreateStarts, CreateReopens, CreateFails
<1>2. UNCHANGED <<insPrune, insOn, insCount, insMine, insRevoke>> /\ insActive' \in BOOLEAN
  BY InsTypes DEF CreateStarts, CreateReopens, CreateFails
<1>3. Recovers(insOn', insCreations')
  BY <1>1, <1>2, PauseRecovers
<1>4. QED
  BY <1>2, <1>3, InsTypes, TypeFrom

LEMMA RegistersStep ==
  ASSUME InsInv, NEW c \in Creation, CreateRegisters(c)
  PROVE  InsInv'
<1>1. /\ insCount' \in 0..MaxInst /\ insOn' \in SUBSET Inst /\ insMine' \in 0..MaxInst
      /\ insActive' \in BOOLEAN /\ UNCHANGED <<insPrune, insRevoke>>
  <2>1. /\ insCount < MaxInst /\ insCount' = insCount + 1 /\ insOn' = insOn \cup {insCount'}
        /\ insMine' = insCount' /\ UNCHANGED <<insPrune, insRevoke>>
    BY DEF CreateRegisters, Register
  <2>2. insActive' \in BOOLEAN
    BY InsTypes DEF CreateRegisters
  <2>3. insCount' \in 0..MaxInst /\ insCount' \in 1..MaxInst
    BY <2>1, InsTypes, Bounds
  <2>4. QED
    BY <2>1, <2>2, <2>3, InsTypes DEF Inst
<1> DEFINE C == [insCreations EXCEPT ![c].pc = "free"]
<1>2. /\ C \in [Creation -> CreationState]
      /\ \A d \in Creation : d # c => C[d] = insCreations[d]
      /\ C[c].pc = "free"
  BY InsTypes DEF CreationState, Resting
<1>3. insCreations' = Crowd(C)
  BY DEF CreateRegisters
<1> HIDE DEF C
<1>4. Full(C)
  BY <1>2 DEF InsInv, Recovers, Full
<1>5. Recovers(insOn', insCreations')
  BY <1>2, <1>3, <1>4, CrowdRecovers
<1>6. QED
  BY <1>1, <1>5, InsTypes, TypeFrom

\* The retry hits the cap: there was room when the recovery was done, so it was crowded.
LEMMA HitsCapStep ==
  ASSUME InsInv, NEW c \in Creation, CreateHitsCap(c)
  PROVE  InsInv'
<1>1. UNCHANGED <<insPrune, insOn, insCount, insMine, insActive, insRevoke>>
  BY DEF CreateHitsCap
<1>2. CASE insCreations[c].pc = "retrying"
  <2>1. insCreations[c].crowded
    BY <1>2, Bounds, InsTypes DEF CreateHitsCap, InsInv, Recovers, Room
  <2>2. /\ insCreations' \in [Creation -> CreationState]
        /\ \A d \in Creation : d # c => insCreations'[d] = insCreations[d]
        /\ insCreations'[c].pc = "full" /\ insCreations'[c].crowded
    BY <1>2, <2>1, InsTypes DEF CreateHitsCap, CreationState, Resting
  <2>3. Recovers(insOn, insCreations')
    BY <2>2 DEF InsInv, Recovers, Sees, Room, Full
  <2>4. QED
    BY <1>1, <2>3, InsTypes, TypeFrom
<1>3. CASE insCreations[c].pc # "retrying"
  <2>1. \E pc \in {"free", "creating", "looking"} : Pause(c, pc)
    BY <1>3 DEF CreateHitsCap
  <2>2. Recovers(insOn, insCreations')
    BY <2>1, PauseRecovers
  <2>3. QED
    BY <1>1, <2>2, InsTypes, TypeFrom
<1>4. QED
  BY <1>2, <1>3

LEMMA LooksStep ==
  ASSUME InsInv, NEW c \in Creation, RecoveryLooks(c)
  PROVE  InsInv'
<1> DEFINE new == [pc |-> IF insOn = {} THEN "retrying" ELSE "revoking", seen |-> insOn,
                   crowded |-> FALSE]
<1>1. /\ new \in CreationState /\ new.seen = insOn /\ new.pc # "full"
      /\ new.pc = "retrying" => insOn = {}
  BY InsTypes DEF CreationState
<1>2. /\ insCreations' = [insCreations EXCEPT ![c] = new]
      /\ UNCHANGED <<insPrune, insOn, insCount, insMine, insActive, insRevoke>>
  BY DEF RecoveryLooks
<1> HIDE DEF new
<1>3. /\ insCreations' \in [Creation -> CreationState]
      /\ \A d \in Creation : insCreations'[d] = IF d = c THEN new ELSE insCreations[d]
  BY <1>1, <1>2, InsTypes
<1>4. insOn = {} => Cardinality(insOn) < Cap
  BY FS_EmptySet, Bounds
<1>5. Recovers(insOn, insCreations')
  BY <1>1, <1>3, <1>4 DEF InsInv, Recovers, Sees, Room, Full
<1>6. QED
  BY <1>2, <1>5, InsTypes, TypeFrom

\* The revocation makes room: everything that is on was seen, or the creation is crowded.
LEMMA RevokesStep ==
  ASSUME InsInv, NEW c \in Creation, RecoveryRevokes(c)
  PROVE  InsInv'
<1>1. /\ insCreations[c].pc = "revoking"
      /\ insOn' = insOn \ OldestInstallationIds(insCreations[c].seen)
      /\ UNCHANGED <<insPrune, insCount, insMine, insActive, insRevoke>>
  BY DEF RecoveryRevokes
<1>2. insOn' \in SUBSET insOn
  BY <1>1
<1>3. insOn' \in SUBSET Inst /\ Recovers(insOn', insCreations)
  BY <1>2, FewerRecovers
<1>4. /\ insCreations' \in [Creation -> CreationState]
      /\ \A d \in Creation : d # c => insCreations'[d] = insCreations[d]
      /\ insCreations'[c].pc = "retrying" /\ insCreations'[c].crowded = insCreations[c].crowded
  BY InsTypes DEF RecoveryRevokes, CreationState
<1>5. ~insCreations[c].crowded => Cardinality(insOn') < Cap
  <2>1. SUFFICES ASSUME ~insCreations[c].crowded PROVE Cardinality(insOn') < Cap
    OBVIOUS
  <2> DEFINE seen == insCreations[c].seen
             left == seen \ OldestInstallationIds(seen)
  <2>2. seen \in SUBSET Inst /\ insOn \subseteq seen
    BY <1>1, <2>1, InsTypes DEF InsInv, Recovers, Sees, CreationState
  <2>3. Cardinality(left) < Cap /\ left \in SUBSET Inst /\ insOn' \in SUBSET left
    BY <1>1, <2>2, OldestLeaveRoom
  <2>4. QED
    BY <1>3, <2>3, FewerFit, Bounds
<1>6. Recovers(insOn', insCreations')
  BY <1>3, <1>4, <1>5 DEF Recovers, Sees, Room, Full
<1>7. QED
  BY <1>1, <1>3, <1>6, InsTypes, TypeFrom

LEMMA HostStep ==
  ASSUME InsInv,
         \/ RevokeAllInstallations \/ RevokeAllLooks \/ RevokeReturns \/ RevokeFails
         \/ ClientDropped \/ \E ids \in SUBSET insOn : RevokeXmtpInstallations(ids)
  PROVE  InsInv'
<1>1. insOn' \in SUBSET insOn
  BY DEF RevokeAllInstallations, RevokeAllLooks, RevokeReturns, RevokeFails, ClientDropped,
         RevokeXmtpInstallations
<1>2. UNCHANGED <<insPrune, insCount, insCreations>>
  BY DEF RevokeAllInstallations, RevokeAllLooks, RevokeReturns, RevokeFails, ClientDropped,
         RevokeXmtpInstallations
<1>3. insMine' \in 0..MaxInst
  BY InsTypes, Bounds
     DEF RevokeAllInstallations, RevokeAllLooks, RevokeReturns, RevokeFails, ClientDropped,
         RevokeXmtpInstallations
<1>4. insActive' \in BOOLEAN
  BY InsTypes
     DEF RevokeAllInstallations, RevokeAllLooks, RevokeReturns, RevokeFails, ClientDropped,
         RevokeXmtpInstallations
<1>5. /\ insRevoke'.pc \in {"free", "looking", "revoking", "revokingAll"}
      /\ insRevoke'.ids \subseteq Inst
  BY InsTypes
     DEF RevokeAllInstallations, RevokeAllLooks, RevokeReturns, RevokeFails, ClientDropped,
         RevokeXmtpInstallations, NoRevoke
<1>6. QED
  BY <1>1, <1>2, <1>3, <1>4, <1>5, FewerRecovers, InsTypes, TypeFrom

LEMMA InsStepInv == InsInv /\ [InstallationsNext]_insVars => InsInv'
<1> SUFFICES ASSUME InsInv, [InstallationsNext]_insVars PROVE InsInv'
  OBVIOUS
<1>1. CASE UNCHANGED insVars
  BY <1>1, InsTypes, TypeFrom DEF insVars, InsInv
<1>2. CASE InstallationsNext
  BY <1>2, OtherStep, HostStep, PauseStep, RegistersStep, HitsCapStep, LooksStep, RevokesStep
     DEF InstallationsNext
<1>3. QED
  BY <1>1, <1>2

LEMMA InsAlwaysInv == InstallationsSpec => []InsInv
  BY InsInitInv, InsStepInv, PTL DEF InstallationsSpec

-----------------------------------------------------------------------------
(* Theorems *)

\* The recovery from the installation cap revokes enough: its retry hits the cap again only
\* if an installation was registered since it looked the inbox up (client.ts:489-499).
THEOREM RetryHasRoom == InstallationsSpec => []RetryFits
<1>1. InsInv => RetryFits
  BY DEF InsInv, Recovers, Full, RetryFits
<1>2. QED
  BY <1>1, InsAlwaysInv, PTL

\* Every variable of the installations keeps its type.
THEOREM InstallationsTyped == InstallationsSpec => []InstallationsTypeOK
<1>1. InsInv => InstallationsTypeOK
  BY DEF InsInv
<1>2. QED
  BY <1>1, InsAlwaysInv, PTL
=============================================================================
