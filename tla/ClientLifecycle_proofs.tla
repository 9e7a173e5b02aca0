----------------------- MODULE ClientLifecycle_proofs -----------------------
(* Proofs about ClientLifecycle for every set of wallets and callers, every *)
(* bound on the generations, and, where a theorem does not say otherwise,   *)
(* every host.                                                              *)
EXTENDS ClientLifecycle, TLAPS

USE NoAddrAssumption, MaxGenAssumption, ModeAssumption
    DEF NoAddrAssumption, MaxGenAssumption, ModeAssumption

-----------------------------------------------------------------------------
(* The type invariant, in three parts: the module's own variables, the     *)
(* attempts, and the suspended calls.  A started attempt is for a wallet,  *)
(* and a suspended call that will start one names it.                      *)

StatusValue == [state : {"idle", "initializing", "ready", "failed"},
                address : Addr \cup {NoAddr}, client : 0..MaxGen,
                error : {"none", "native", "timeout"}, withoutSigner : BOOLEAN]

EntryTyped == /\ initPromise \in 0..MaxGen
              /\ activeClient \in 0..MaxGen
              /\ activeAddress \in Addr \cup {NoAddr}
              /\ attemptGeneration \in 0..MaxGen
              /\ retryPromise \in 0..MaxGen
MemoryTyped == /\ lastIdentity \in Identity \cup {NoIdentity}
               /\ lastError \in {"none", "native", "timeout"}
               /\ persisted \in Addr \cup {NoAddr}
FlagsTyped == attemptHasSigner \in BOOLEAN /\ requested \in BOOLEAN
SnapshotTyped == statusSnapshot \in StatusValue

AttemptsTyped == /\ attempts \in [Gen -> Attempt]
                 /\ dbInstall \in [Addr -> Install]
                 /\ \A g \in Gen : attempts[g].native # "none" => attempts[g].address \in Addr

Starting == {"switching", "deleting", "resetDropping", "waiting"}
CallersTyped == /\ callers \in [Caller -> CallState]
                /\ \A c \in Caller : callers[c].pc \in Starting => callers[c].id \in Identity
                /\ \A c \in Caller : callers[c].pc \in {"deleting", "waiting"}
                                        => callers[c].gen \in Gen

TypeInv == EntryTyped /\ MemoryTyped /\ FlagsTyped /\ SnapshotTyped
           /\ AttemptsTyped /\ CallersTyped

LEMMA TypeInvImpliesTypeOK == TypeInv => TypeOK
  BY DEF TypeInv, TypeOK, EntryTyped, MemoryTyped, FlagsTyped, SnapshotTyped, StatusValue,
         AttemptsTyped, CallersTyped

LEMMA GenType == Gen \subseteq 0..MaxGen /\ \A g \in Gen : g # 0
  BY SMT DEF Gen

LEMMA InstallType == 0 \in Install /\ Earlier \in Install /\ Gen \subseteq Install
  BY SMT DEF Gen, Install, Earlier

LEMMA NonzeroIsGen == \A g \in 0..MaxGen : g # 0 => g \in Gen
  BY SMT DEF Gen

\* What notifyLifecycle stores has the type of a status.
LEMMA NotifyTyped ==
  ASSUME EntryTyped', MemoryTyped', NotifyLifecycle
  PROVE  SnapshotTyped'
  BY DEF EntryTyped, MemoryTyped, SnapshotTyped, NotifyLifecycle, DeriveStatus, Status,
         IdleStatus, Identity, NoIdentity, StatusValue

LEMMA StartAttemptTyped ==
  ASSUME TypeInv, NEW id \in Identity, NEW gen \in Gen, StartAttempt(id, gen),
         retryPromise' \in 0..MaxGen, persisted' \in Addr \cup {NoAddr}, requested' \in BOOLEAN,
         UNCHANGED dbInstall
  PROVE  EntryTyped' /\ MemoryTyped' /\ FlagsTyped' /\ SnapshotTyped' /\ AttemptsTyped'
<1>1. EntryTyped'
  BY GenType DEF TypeInv, EntryTyped, StartAttempt, Identity
<1>2. MemoryTyped'
  BY DEF TypeInv, MemoryTyped, StartAttempt
<1>3. FlagsTyped'
  <2>1. id.signer \in BOOLEAN
    BY DEF Identity
  <2>2. QED
    BY <2>1 DEF FlagsTyped, StartAttempt
<1>4. SnapshotTyped'
  BY <1>1, <1>2, NotifyTyped DEF StartAttempt
<1>5. AttemptsTyped'
  BY InstallType, GenType DEF TypeInv, AttemptsTyped, StartAttempt, Identity, Attempt
<1>6. QED
  BY <1>1, <1>2, <1>3, <1>4, <1>5

LEMMA TearDownTyped ==
  ASSUME TypeInv, TearDown, requested' \in BOOLEAN
  PROVE  EntryTyped' /\ MemoryTyped' /\ FlagsTyped' /\ SnapshotTyped' /\ AttemptsTyped'
<1>1. EntryTyped'
  BY DEF TypeInv, EntryTyped, TearDown
<1>2. MemoryTyped'
  BY DEF TypeInv, MemoryTyped, TearDown
<1>3. FlagsTyped'
  BY DEF FlagsTyped, TearDown
<1>4. SnapshotTyped'
  BY <1>1, <1>2, NotifyTyped DEF TearDown
<1>5. AttemptsTyped'
  BY DEF TypeInv, AttemptsTyped, TearDown
<1>6. QED
  BY <1>1, <1>2, <1>3, <1>4, <1>5

\* Suspending, resuming and finishing a call keep the table of calls well-typed.
LEMMA SuspendTyped ==
  ASSUME TypeInv, NEW c \in Caller, NEW pc \in Starting, NEW id \in Identity,
         NEW gen \in 0..MaxGen, pc \in {"deleting", "waiting"} => gen \in Gen,
         Suspend(c, pc, id, gen)
  PROVE  CallersTyped'
  BY DEF TypeInv, CallersTyped, CallState, Suspend, Suspensions, Starting

LEMMA DroppingTyped ==
  ASSUME TypeInv, NEW c \in Caller, NEW gen \in 0..MaxGen,
         Suspend(c, "dropping", NoIdentity, gen)
  PROVE  CallersTyped'
  BY DEF TypeInv, CallersTyped, CallState, Suspend, Suspensions, Starting

LEMMA FinishTyped ==
  ASSUME TypeInv, NEW c \in Caller, Finish(c)
  PROVE  CallersTyped'
  BY DEF TypeInv, CallersTyped, CallState, Finish, Idle, Suspensions, Starting

LEMMA UnchangedTyped ==
  ASSUME TypeInv
  PROVE  /\ UNCHANGED <<entry, retryPromise>> => EntryTyped'
         /\ UNCHANGED <<lastIdentity, lastError, persisted>> => MemoryTyped'
         /\ UNCHANGED statusSnapshot => SnapshotTyped'
         /\ UNCHANGED <<attempts, dbInstall>> => AttemptsTyped'
         /\ UNCHANGED callers => CallersTyped'
  BY DEF TypeInv, EntryTyped, MemoryTyped, SnapshotTyped, AttemptsTyped, CallersTyped, entry

LEMMA FlagsUnchanged ==
  ASSUME TypeInv, UNCHANGED attemptHasSigner, requested' \in BOOLEAN
  PROVE  FlagsTyped'
  BY DEF TypeInv, FlagsTyped

LEMMA InitTyped == Init => TypeInv
<1> SUFFICES ASSUME Init PROVE TypeInv
  OBVIOUS
<1>1. EntryTyped
  BY DEF Init, EntryTyped
<1>1a. MemoryTyped
  BY DEF Init, MemoryTyped
<1>1b. FlagsTyped
  BY DEF Init, FlagsTyped
<1>2. SnapshotTyped
  BY DEF Init, SnapshotTyped, StatusValue, IdleStatus, Status
<1>3. AttemptsTyped
  BY InstallType DEF Init, AttemptsTyped, Attempt, NoAttempt
<1>4. CallersTyped
  BY DEF Init, CallersTyped, CallState, Idle, Starting
<1>5. QED
  BY <1>1, <1>1a, <1>1b, <1>2, <1>3, <1>4 DEF TypeInv

LEMMA BeginDirectTyped ==
  ASSUME TypeInv, NEW c \in Caller, NEW id \in Identity, BeginDirect(c, id),
         requested' \in BOOLEAN
  PROVE  TypeInv'
<1>1. attemptGeneration + 1 \in Gen
  BY DEF TypeInv, EntryTyped, BeginDirect, StartAttempt, Gen
<1>2. retryPromise' \in 0..MaxGen /\ persisted' \in Addr \cup {NoAddr} /\ UNCHANGED dbInstall
  BY DEF TypeInv, EntryTyped, MemoryTyped, BeginDirect, device
<1>3. EntryTyped' /\ MemoryTyped' /\ FlagsTyped' /\ SnapshotTyped' /\ AttemptsTyped'
  BY <1>1, <1>2, StartAttemptTyped DEF BeginDirect
<1>4. CallersTyped'
  BY FinishTyped DEF BeginDirect
<1>5. QED
  BY <1>3, <1>4 DEF TypeInv

LEMMA BeginSwitchTyped ==
  ASSUME TypeInv, NEW c \in Caller, NEW id \in Identity, BeginSwitch(c, id),
         requested' \in BOOLEAN
  PROVE  TypeInv'
<1>1. EntryTyped' /\ MemoryTyped' /\ FlagsTyped' /\ SnapshotTyped' /\ AttemptsTyped'
  BY TearDownTyped DEF BeginSwitch
<1>2. activeClient \in 0..MaxGen
  BY DEF TypeInv, EntryTyped
<1>3. CallersTyped'
  BY <1>2, SuspendTyped DEF BeginSwitch, Starting
<1>4. QED
  BY <1>1, <1>3 DEF TypeInv

LEMMA JoinTyped ==
  ASSUME TypeInv, NEW c \in Caller, NEW id \in Identity, Join(c, id),
         requested' \in BOOLEAN
  PROVE  TypeInv'
<1>1. EntryTyped' /\ SnapshotTyped' /\ AttemptsTyped'
  BY UnchangedTyped DEF Join, device
<1>2. MemoryTyped'
  BY DEF TypeInv, MemoryTyped, Join, device
<1>3. FlagsTyped'
  BY FlagsUnchanged DEF Join
<1>4. CallersTyped'
  <2>1. CASE Finish(c)
    BY <2>1, FinishTyped
  <2>2. CASE Suspend(c, "waiting", id, initPromise)
    <3>1. initPromise \in Gen /\ initPromise \in 0..MaxGen
      BY NonzeroIsGen DEF TypeInv, EntryTyped, Join, JoinsEntry
    <3>2. QED
      BY <2>2, <3>1, SuspendTyped DEF Starting
  <2>3. QED
    BY <2>1, <2>2 DEF Join
<1>5. QED
  BY <1>1, <1>2, <1>3, <1>4 DEF TypeInv

LEMMA EnterTyped ==
  ASSUME TypeInv, NEW c \in Caller, NEW id \in Identity, Enter(c, id), requested' \in BOOLEAN
  PROVE  TypeInv'
  BY JoinTyped, BeginDirectTyped, BeginSwitchTyped DEF Enter

LEMMA HostCallTyped ==
  ASSUME TypeInv, NEW c \in Caller, HostCall(c)
  PROVE  TypeInv'
<1> DEFINE id(a, signer) == [address |-> a, signer |-> signer]
<1>0. \A a \in Addr, signer \in BOOLEAN : id(a, signer) \in Identity
  BY DEF Identity
<1>1. ASSUME NEW a \in Addr, GetOrCreateXmtpClient(c, a) PROVE TypeInv'
  BY <1>0, <1>1, EnterTyped DEF GetOrCreateXmtpClient
<1>2. ASSUME NEW a \in Addr, OpenXmtpClient(c, a) PROVE TypeInv'
  BY <1>0, <1>2, BeginDirectTyped, BeginSwitchTyped DEF OpenXmtpClient
<1>3. ASSUME NEW a \in Addr, ResetXmtpLocalState(c, a) PROVE TypeInv'
  <2> USE <1>3 DEF ResetXmtpLocalState
  <2>1. EntryTyped'
    BY DEF TypeInv, EntryTyped
  <2>2. MemoryTyped' /\ AttemptsTyped'
    BY DEF TypeInv, MemoryTyped, AttemptsTyped, memory
  <2>3. FlagsTyped'
    BY FlagsUnchanged DEF memory
  <2>4. SnapshotTyped'
    BY <2>1, <2>2, NotifyTyped
  <2>5. CallersTyped'
    <3>1. activeClient \in 0..MaxGen /\ activeClient \in Gen
      BY NonzeroIsGen DEF TypeInv, EntryTyped
    <3>2. QED
      BY <1>0, <3>1, SuspendTyped DEF Starting
  <2>6. QED
    BY <2>1, <2>2, <2>3, <2>4, <2>5 DEF TypeInv
<1>4. ASSUME NEW a \in Addr, ResetWithoutClient(c, a) PROVE TypeInv'
  <2> USE <1>4 DEF ResetWithoutClient
  <2>1. attemptGeneration + 2 \in Gen
    BY DEF TypeInv, EntryTyped, StartAttempt, Gen
  <2>2. retryPromise' \in 0..MaxGen /\ persisted' \in Addr \cup {NoAddr} /\ UNCHANGED dbInstall
        /\ requested' \in BOOLEAN
    BY DEF TypeInv, EntryTyped
  <2>3. EntryTyped' /\ MemoryTyped' /\ FlagsTyped' /\ SnapshotTyped' /\ AttemptsTyped'
    BY <1>0, <2>1, <2>2, StartAttemptTyped
  <2>4. CallersTyped'
    BY UnchangedTyped
  <2>5. QED
    BY <2>3, <2>4 DEF TypeInv
<1>5. ASSUME DropXmtpClient(c) PROVE TypeInv'
  <2> USE <1>5 DEF DropXmtpClient
  <2>1. EntryTyped' /\ MemoryTyped' /\ FlagsTyped' /\ SnapshotTyped' /\ AttemptsTyped'
    BY TearDownTyped
  <2>2. CallersTyped'
    <3>1. activeClient \in 0..MaxGen
      BY DEF TypeInv, EntryTyped
    <3>2. QED
      BY <3>1, FinishTyped, DroppingTyped
  <2>3. QED
    BY <2>1, <2>2 DEF TypeInv
<1>6. QED
  BY <1>1, <1>2, <1>3, <1>4, <1>5 DEF HostCall

LEMMA RetryTyped ==
  ASSUME TypeInv, RetryXmtpClient
  PROVE  TypeInv'
<1>1. lastIdentity \in Identity
  BY DEF TypeInv, MemoryTyped, RetryXmtpClient, RetryStarts
<1>2. attemptGeneration + 1 \in Gen
  BY DEF TypeInv, EntryTyped, RetryXmtpClient, StartAttempt, Gen
<1>3. /\ retryPromise' \in 0..MaxGen /\ persisted' \in Addr \cup {NoAddr}
      /\ requested' \in BOOLEAN /\ UNCHANGED dbInstall
  BY <1>2, GenType DEF TypeInv, MemoryTyped, FlagsTyped, RetryXmtpClient, device
<1>4. EntryTyped' /\ MemoryTyped' /\ FlagsTyped' /\ SnapshotTyped' /\ AttemptsTyped'
  BY <1>1, <1>2, <1>3, StartAttemptTyped DEF RetryXmtpClient
<1>5. CallersTyped'
  BY UnchangedTyped DEF RetryXmtpClient
<1>6. QED
  BY <1>4, <1>5 DEF TypeInv

LEMMA RetryDoneTyped ==
  ASSUME TypeInv, RetryDone
  PROVE  TypeInv'
<1>1. EntryTyped'
  BY DEF TypeInv, EntryTyped, RetryDone, entry
<1>2. FlagsTyped'
  BY DEF TypeInv, FlagsTyped, RetryDone, memory
<1>3. MemoryTyped' /\ SnapshotTyped' /\ AttemptsTyped' /\ CallersTyped'
  BY UnchangedTyped DEF RetryDone, memory, device
<1>4. QED
  BY <1>1, <1>2, <1>3 DEF TypeInv

LEMMA ContinuationTyped ==
  ASSUME TypeInv, NEW c \in Caller, Continuation(c)
  PROVE  TypeInv'
<1>1. ASSUME NativeDropReturns(c) PROVE TypeInv'
  <2> USE <1>1 DEF NativeDropReturns
  <2>1. EntryTyped' /\ MemoryTyped' /\ SnapshotTyped'
    BY UnchangedTyped DEF memory, device
  <2>2. FlagsTyped'
    BY DEF TypeInv, FlagsTyped, memory
  <2>3. AttemptsTyped'
    BY DEF TypeInv, AttemptsTyped, DropNative, Attempt, device
  <2>4. CallersTyped'
    <3>1. CASE callers[c].pc = "dropping"
      BY <3>1, FinishTyped
    <3>2. CASE callers[c].pc # "dropping"
      BY <3>2 DEF TypeInv, CallersTyped, CallState, Starting
    <3>3. QED
      BY <3>1, <3>2
  <2>5. QED
    BY <2>1, <2>2, <2>3, <2>4 DEF TypeInv
<1>2. ASSUME SwitchResumes(c) PROVE TypeInv'
  <2> USE <1>2 DEF SwitchResumes
  <2>1. callers[c].id \in Identity
    BY DEF TypeInv, CallersTyped, Starting
  <2>2. attemptGeneration + 1 \in Gen
    BY DEF TypeInv, EntryTyped, StartAttempt, Gen
  <2>3. /\ retryPromise' \in 0..MaxGen /\ persisted' \in Addr \cup {NoAddr}
        /\ requested' \in BOOLEAN /\ UNCHANGED dbInstall
    BY DEF TypeInv, EntryTyped, MemoryTyped, FlagsTyped, device
  <2>4. EntryTyped' /\ MemoryTyped' /\ FlagsTyped' /\ SnapshotTyped' /\ AttemptsTyped'
    BY <2>1, <2>2, <2>3, StartAttemptTyped
  <2>5. CallersTyped'
    BY FinishTyped
  <2>6. QED
    BY <2>4, <2>5 DEF TypeInv
<1>3. ASSUME DeleteReturns(c) PROVE TypeInv'
  <2> USE <1>3 DEF DeleteReturns
  <2>1. EntryTyped' /\ MemoryTyped' /\ SnapshotTyped'
    BY UnchangedTyped DEF memory
  <2>2. FlagsTyped'
    BY DEF TypeInv, FlagsTyped, memory
  <2>3. AttemptsTyped'
    BY InstallType DEF TypeInv, AttemptsTyped
  <2>4. CallersTyped'
    BY DEF TypeInv, CallersTyped, CallState, Starting, Suspensions
  <2>5. QED
    BY <2>1, <2>2, <2>3, <2>4 DEF TypeInv
<1>4. ASSUME ResetResumes(c) \/ WaiterResumes(c) PROVE TypeInv'
  <2>1. callers[c].id \in Identity /\ Enter(c, callers[c].id)
    BY <1>4 DEF TypeInv, CallersTyped, Starting, ResetResumes, WaiterResumes
  <2>2. requested' \in BOOLEAN
    BY <1>4 DEF TypeInv, FlagsTyped, ResetResumes, WaiterResumes
  <2>3. QED
    BY <2>1, <2>2, EnterTyped
<1>5. ASSUME WaiterReturns(c) PROVE TypeInv'
  <2> USE <1>5 DEF WaiterReturns
  <2>1. EntryTyped' /\ MemoryTyped' /\ SnapshotTyped' /\ AttemptsTyped'
    BY UnchangedTyped DEF memory, device
  <2>2. FlagsTyped'
    BY DEF TypeInv, FlagsTyped, memory
  <2>3. CallersTyped'
    BY FinishTyped
  <2>4. QED
    BY <2>1, <2>2, <2>3 DEF TypeInv
<1>6. QED
  BY <1>1, <1>2, <1>3, <1>4, <1>5 DEF Continuation

\* What an outcome does to the two parts of the state outside the module's variables.
LEMMA NativeSucceedsTyped ==
  ASSUME TypeInv, NEW g \in Gen, attempts[g].native = "running", NativeSucceeds(g)
  PROVE  AttemptsTyped'
<1>1. attempts[g].address \in Addr /\ attempts[g] \in Attempt /\ g \in 0..MaxGen
  BY GenType DEF TypeInv, AttemptsTyped
<1> DEFINE a == attempts[g].address
           i == IF dbInstall[a] = 0 THEN g ELSE dbInstall[a]
<1>2. i \in Install /\ g \in Install
  BY <1>1 DEF TypeInv, AttemptsTyped, Install, Earlier, Gen
<1>3. Settled(attempts[g].promise, "resolved") \in {"none", "pending", "resolved", "rejected"}
  BY <1>1 DEF Settled, Attempt
<1>4. dbInstall' = [dbInstall EXCEPT ![a] = i]
      /\ attempts' = [attempts EXCEPT ![g].native = "ok", ![g].install = i,
                          ![g].promise = Settled(attempts[g].promise, "resolved")]
  BY DEF NativeSucceeds
<1> HIDE DEF i, a
<1>5. dbInstall' \in [Addr -> Install]
  BY <1>2, <1>4 DEF TypeInv, AttemptsTyped
<1>6. attempts' \in [Gen -> Attempt]
  BY <1>1, <1>2, <1>3, <1>4 DEF TypeInv, AttemptsTyped, Attempt
<1>7. \A h \in Gen : attempts'[h].native # "none" => attempts'[h].address \in Addr
  BY <1>1, <1>4 DEF TypeInv, AttemptsTyped, Attempt
<1>8. QED
  BY <1>5, <1>6, <1>7 DEF AttemptsTyped

LEMMA FailsTyped ==
  ASSUME TypeInv, NEW g, NEW error \in {"none", "native", "timeout"}, Fails(g, error)
  PROVE  EntryTyped' /\ MemoryTyped' /\ FlagsTyped' /\ SnapshotTyped' /\ CallersTyped'
         /\ UNCHANGED dbInstall
<1> USE DEF Fails, device
<1>1. EntryTyped'
  BY DEF TypeInv, EntryTyped, EntryFails
<1>2. MemoryTyped'
  BY DEF TypeInv, MemoryTyped, EntryFails
<1>3. FlagsTyped'
  BY DEF TypeInv, FlagsTyped
<1>4. SnapshotTyped'
  BY <1>1, <1>2, NotifyTyped, UnchangedTyped DEF EntryFails
<1>5. QED
  BY <1>1, <1>2, <1>3, <1>4, UnchangedTyped

LEMMA OutcomeTyped ==
  ASSUME TypeInv, NEW g \in Gen, Outcome(g)
  PROVE  TypeInv'
<1>1. ASSUME AdoptClient(g) PROVE TypeInv'
  <2> USE <1>1
  <2>1. AttemptsTyped'
    BY NativeSucceedsTyped DEF AdoptClient, IgnoreClient
  <2>2. CallersTyped'
    BY UnchangedTyped DEF AdoptClient
  <2>3. CASE ~IsCurrent(g)
    <3>1. EntryTyped' /\ MemoryTyped' /\ SnapshotTyped'
      BY <2>3, UnchangedTyped DEF AdoptClient, IgnoreClient, memory
    <3>2. FlagsTyped'
      BY <2>3 DEF TypeInv, FlagsTyped, AdoptClient, IgnoreClient, memory
    <3>3. QED
      BY <2>1, <2>2, <3>1, <3>2 DEF TypeInv
  <2>4. CASE IsCurrent(g)
    <3>1. attempts[g].address \in Addr
      BY DEF TypeInv, AttemptsTyped, AdoptClient
    <3>2. EntryTyped'
      BY <2>4, <3>1, GenType DEF TypeInv, EntryTyped, AdoptClient
    <3>3. MemoryTyped'
      BY <2>4, <3>1 DEF TypeInv, MemoryTyped, AdoptClient, SetActiveXmtpAddress
    <3>4. FlagsTyped'
      BY <2>4 DEF TypeInv, FlagsTyped, AdoptClient
    <3>5. SnapshotTyped'
      BY <2>4, <3>2, <3>3, NotifyTyped DEF AdoptClient
    <3>6. QED
      BY <2>1, <2>2, <3>2, <3>3, <3>4, <3>5 DEF TypeInv
  <2>5. QED
    BY <2>3, <2>4
<1>2. ASSUME FailAttempt(g) PROVE TypeInv'
  <2>1. (IF initPromise = 0 THEN lastError ELSE "native") \in {"none", "native", "timeout"}
    BY DEF TypeInv, MemoryTyped
  <2>2. EntryTyped' /\ MemoryTyped' /\ FlagsTyped' /\ SnapshotTyped' /\ CallersTyped'
        /\ UNCHANGED dbInstall
    BY <1>2, <2>1, FailsTyped DEF FailAttempt
  <2>3. AttemptsTyped'
    BY <1>2, <2>2 DEF TypeInv, AttemptsTyped, FailAttempt, Attempt, Settled
  <2>4. QED
    BY <2>2, <2>3 DEF TypeInv
<1>3. ASSUME TimerFires(g) PROVE TypeInv'
  <2>1. EntryTyped' /\ MemoryTyped' /\ FlagsTyped' /\ SnapshotTyped' /\ CallersTyped'
        /\ UNCHANGED dbInstall
    BY <1>3, FailsTyped DEF TimerFires
  <2>2. AttemptsTyped'
    BY <1>3, <2>1 DEF TypeInv, AttemptsTyped, TimerFires, Attempt
  <2>3. QED
    BY <2>1, <2>2 DEF TypeInv
<1>4. QED
  BY <1>1, <1>2, <1>3 DEF Outcome

LEMMA RestartTyped ==
  ASSUME TypeInv, ProcessRestart
  PROVE  TypeInv'
<1> USE DEF ProcessRestart
<1>1. EntryTyped'
  BY DEF EntryTyped
<1>2. MemoryTyped'
  BY DEF TypeInv, MemoryTyped
<1>3. FlagsTyped'
  BY DEF FlagsTyped
<1>4. SnapshotTyped'
  BY DEF SnapshotTyped, StatusValue, IdleStatus, Status
<1>5. AttemptsTyped'
  BY InstallType DEF AttemptsTyped, Attempt, NoAttempt
<1>6. CallersTyped'
  BY DEF CallersTyped, CallState, Idle, Starting
<1>7. QED
  BY <1>1, <1>2, <1>3, <1>4, <1>5, <1>6 DEF TypeInv

LEMMA StutterTyped ==
  ASSUME TypeInv, UNCHANGED vars
  PROVE  TypeInv'
<1>1. EntryTyped' /\ MemoryTyped' /\ SnapshotTyped' /\ AttemptsTyped' /\ CallersTyped'
  BY UnchangedTyped DEF vars, memory, device
<1>2. FlagsTyped'
  BY DEF TypeInv, FlagsTyped, vars, memory
<1>3. QED
  BY <1>1, <1>2 DEF TypeInv

LEMMA NextTyped == TypeInv /\ [Next]_vars => TypeInv'
  BY HostCallTyped, RetryTyped, RetryDoneTyped, ContinuationTyped, OutcomeTyped,
     RestartTyped, StutterTyped DEF Next

LEMMA TypeInvariant == Spec => []TypeInv
  BY InitTyped, NextTyped, PTL DEF Spec

\* Every variable keeps its type, for every number of wallets, calls and attempts.
THEOREM TypeCorrect == Spec => []TypeOK
  BY TypeInvariant, TypeInvImpliesTypeOK, PTL

-----------------------------------------------------------------------------
(* What holds whatever the host does: the entry and its address are paired, *)
(* the snapshot is fresh, and a failure is reported for the attempt that    *)
(* failed.                                                                  *)

\* Generations not reached yet belong to no attempt.
FutureUnstarted == \A g \in Gen : g > attemptGeneration => attempts[g] = NoAttempt

\* The remembered identity is the one of the attempt the module state reflects.
CurrentNamed ==
    attemptGeneration # 0 /\ attempts[attemptGeneration].native # "none"
        => lastIdentity.address = attempts[attemptGeneration].address

ClientIsPast == activeClient <= attemptGeneration /\ (activeClient # 0 => lastError = "none")

\* With no entry and no client, the current attempt has been given up, and lastError says why.
GivenUp ==
    initPromise = 0 /\ attemptGeneration # 0 /\ attempts[attemptGeneration].native # "none"
        => /\ attempts[attemptGeneration].promise = "rejected"
           /\ lastError = "native" => attempts[attemptGeneration].native = "failed"

\* With no entry, an error that is still remembered is one of the current attempt.
ErrorHasAttempt ==
    initPromise = 0 /\ lastIdentity # NoIdentity /\ lastError # "none"
        => attemptGeneration # 0 /\ attempts[attemptGeneration].native # "none"

TimedOutFirst ==
    initPromise = 0 /\ attemptGeneration # 0 /\ attempts[attemptGeneration].native = "running"
        => lastError = "timeout"

\* A promise is pending only while its native call runs, which no result has reached.
PromiseAndNative ==
    \A g \in Gen :
        /\ attempts[g].promise = "pending" => attempts[g].native = "running"
        /\ attempts[g].native = "running" => attempts[g].promise \in {"pending", "rejected"}

CoreInv == /\ EntryPaired /\ FutureUnstarted /\ CurrentNamed /\ ClientIsPast
           /\ GivenUp /\ ErrorHasAttempt /\ TimedOutFirst
           /\ PersistedFollowsClient /\ SnapshotFresh /\ PromiseAndNative

LEMMA InitCore == Init => CoreInv
  BY DEF Init, CoreInv, EntryPaired, FutureUnstarted, CurrentNamed, ClientIsPast, GivenUp,
         ErrorHasAttempt, TimedOutFirst, PersistedFollowsClient, SnapshotFresh, DeriveStatus,
         NoIdentity, PromiseAndNative, NoAttempt

\* A new attempt takes the entry over; a client that is still there keeps its address.
LEMMA StartAttemptCore ==
  ASSUME TypeInv, CoreInv, NEW id \in Identity, NEW gen \in Gen, gen > attemptGeneration,
         StartAttempt(id, gen), persisted' = persisted \/ activeClient = 0
  PROVE  CoreInv'
<1>1. attempts' \in [Gen -> Attempt] /\ attempts \in [Gen -> Attempt]
      /\ attemptGeneration \in 0..MaxGen /\ activeClient \in 0..MaxGen
      /\ id.address \in Addr
  BY InstallType DEF TypeInv, EntryTyped, AttemptsTyped, StartAttempt, Attempt, Identity
<1>2. EntryPaired'
  BY <1>1, GenType DEF CoreInv, EntryPaired, StartAttempt
<1>3. FutureUnstarted'
  BY <1>1 DEF CoreInv, FutureUnstarted, StartAttempt, Gen
<1>4. CurrentNamed'
  BY <1>1 DEF CurrentNamed, StartAttempt
<1>5. ClientIsPast'
  BY <1>1 DEF CoreInv, ClientIsPast, StartAttempt, Gen
<1>6. GivenUp' /\ ErrorHasAttempt' /\ TimedOutFirst'
  BY GenType DEF GivenUp, ErrorHasAttempt, TimedOutFirst, StartAttempt
<1>7. PersistedFollowsClient'
  BY <1>1 DEF CoreInv, ClientIsPast, PersistedFollowsClient, StartAttempt, Gen
<1>8. SnapshotFresh'
  BY DEF SnapshotFresh, StartAttempt, NotifyLifecycle
<1>9. PromiseAndNative'
  BY <1>1 DEF CoreInv, PromiseAndNative, StartAttempt
<1>10. QED
  BY <1>2, <1>3, <1>4, <1>5, <1>6, <1>7, <1>8, <1>9 DEF CoreInv

\* The generation a teardown or reset uses up belongs to no attempt.
LEMMA TearDownCore ==
  ASSUME TypeInv, CoreInv, attemptGeneration < MaxGen,
         attemptGeneration' = attemptGeneration + 1, activeClient' = 0, initPromise' = 0,
         activeAddress' = NoAddr, lastIdentity' = NoIdentity \/ lastError' = "none",
         NotifyLifecycle, UNCHANGED attempts
  PROVE  CoreInv'
<1>1. attemptGeneration \in 0..MaxGen /\ attemptGeneration' \in Gen
      /\ attempts[attemptGeneration'] = NoAttempt
  BY DEF TypeInv, EntryTyped, CoreInv, FutureUnstarted, Gen
<1>2. attempts'[attemptGeneration'].native = "none"
  BY <1>1 DEF NoAttempt
<1>3. EntryPaired' /\ PersistedFollowsClient'
  BY DEF EntryPaired, PersistedFollowsClient
<1>4. FutureUnstarted'
  BY <1>1 DEF CoreInv, FutureUnstarted, Gen
<1>5. CurrentNamed' /\ GivenUp' /\ ErrorHasAttempt' /\ TimedOutFirst'
  BY <1>1, <1>2 DEF CurrentNamed, GivenUp, ErrorHasAttempt, TimedOutFirst
<1>6. ClientIsPast'
  BY <1>1 DEF ClientIsPast
<1>7. SnapshotFresh'
  BY DEF SnapshotFresh, NotifyLifecycle
<1>8. PromiseAndNative'
  BY DEF CoreInv, PromiseAndNative
<1>9. QED
  BY <1>3, <1>4, <1>5, <1>6, <1>7, <1>8 DEF CoreInv

\* A join changes the remembered identity only, and to one of the same wallet.
LEMMA JoinCore ==
  ASSUME TypeInv, CoreInv, NEW c \in Caller, NEW id \in Identity, Join(c, id)
  PROVE  CoreInv'
<1> USE DEF Join, JoinsEntry, entry, device
<1>1. id.address = activeAddress /\ lastIdentity.address = activeAddress
      /\ lastIdentity'.address = activeAddress /\ activeAddress \in Addr
  BY DEF CoreInv, EntryPaired, Identity
<1>2. EntryPaired' /\ CurrentNamed' /\ FutureUnstarted' /\ ClientIsPast' /\ GivenUp'
      /\ ErrorHasAttempt' /\ TimedOutFirst' /\ PersistedFollowsClient' /\ PromiseAndNative'
  BY <1>1 DEF CoreInv, EntryPaired, CurrentNamed, FutureUnstarted, ClientIsPast, GivenUp,
              ErrorHasAttempt, TimedOutFirst, PersistedFollowsClient, PromiseAndNative
<1>3. SnapshotFresh'
  BY <1>1 DEF CoreInv, SnapshotFresh, DeriveStatus
<1>4. QED
  BY <1>2, <1>3 DEF CoreInv

LEMMA EnterCore ==
  ASSUME TypeInv, CoreInv, NEW c \in Caller, NEW id \in Identity, Enter(c, id)
  PROVE  CoreInv'
<1>1. CASE Join(c, id)
  BY <1>1, JoinCore
<1>2. CASE BeginDirect(c, id)
  <2>1. attemptGeneration + 1 \in Gen /\ attemptGeneration + 1 > attemptGeneration
    BY <1>2 DEF TypeInv, EntryTyped, BeginDirect, StartAttempt, Gen
  <2>2. QED
    BY <1>2, <2>1, StartAttemptCore DEF BeginDirect, device
<1>3. CASE BeginSwitch(c, id)
  BY <1>3, TearDownCore DEF BeginSwitch, TearDown
<1>4. QED
  BY <1>1, <1>2, <1>3 DEF Enter

\* Steps that leave the module's variables alone, and of the attempts change at most live
\* clients into dropped ones.
LEMMA QuietCore ==
  ASSUME TypeInv, CoreInv, UNCHANGED <<entry, memory, statusSnapshot, persisted>>,
         UNCHANGED attempts \/ \E g \in Gen : DropNative(g)
  PROVE  CoreInv'
<1>1. \A g \in Gen : /\ attempts'[g].address = attempts[g].address
                     /\ attempts'[g].promise = attempts[g].promise
                     /\ attempts'[g].native = attempts[g].native
                        \/ (attempts[g].native = "ok" /\ attempts'[g].native = "dropped")
                     /\ attempts[g].native = "none" => attempts'[g] = attempts[g]
  <2>1. CASE UNCHANGED attempts
    BY <2>1
  <2>2. ASSUME NEW d \in Gen, DropNative(d), NEW g \in Gen
        PROVE  /\ attempts'[g].address = attempts[g].address
               /\ attempts'[g].promise = attempts[g].promise
               /\ attempts'[g].native = attempts[g].native
                  \/ (attempts[g].native = "ok" /\ attempts'[g].native = "dropped")
               /\ attempts[g].native = "none" => attempts'[g] = attempts[g]
    BY <2>2 DEF TypeInv, AttemptsTyped, DropNative, Attempt
  <2>3. QED
    BY <2>1, <2>2
<1>2. attemptGeneration \in 0..MaxGen /\ activeClient \in 0..MaxGen
  BY DEF TypeInv, EntryTyped
<1> USE DEF entry, memory
<1>3. EntryPaired' /\ ClientIsPast' /\ ErrorHasAttempt'
  <2>1. EntryPaired' /\ ClientIsPast'
    BY DEF CoreInv, EntryPaired, ClientIsPast
  <2>2. ErrorHasAttempt'
    BY <1>1, <1>2, NonzeroIsGen DEF CoreInv, ErrorHasAttempt
  <2>3. QED
    BY <2>1, <2>2
<1>4. FutureUnstarted' /\ PromiseAndNative'
  <2>1. FutureUnstarted'
    BY <1>1 DEF CoreInv, FutureUnstarted, NoAttempt
  <2>2. PromiseAndNative'
    BY <1>1 DEF CoreInv, PromiseAndNative
  <2>3. QED
    BY <2>1, <2>2
<1>5. CurrentNamed'
  BY <1>1, <1>2, NonzeroIsGen DEF CoreInv, CurrentNamed
<1>6. GivenUp' /\ TimedOutFirst'
  BY <1>1, <1>2, NonzeroIsGen DEF CoreInv, GivenUp, TimedOutFirst
<1>7. PersistedFollowsClient'
  BY <1>1, <1>2, NonzeroIsGen DEF CoreInv, PersistedFollowsClient
<1>8. SnapshotFresh'
  BY DEF CoreInv, SnapshotFresh, DeriveStatus
<1>9. QED
  BY <1>3, <1>4, <1>5, <1>6, <1>7, <1>8 DEF CoreInv

LEMMA AdoptCore ==
  ASSUME TypeInv, CoreInv, NEW g \in Gen, AdoptClient(g)
  PROVE  CoreInv'
<1>1. /\ g <= attemptGeneration /\ attempts[g].native = "running"
      /\ attempts[g].address \in Addr
      /\ attemptGeneration \in 0..MaxGen /\ activeClient \in 0..MaxGen /\ g # 0
  BY GenType DEF TypeInv, EntryTyped, AttemptsTyped, CoreInv, FutureUnstarted, NoAttempt,
                 AdoptClient, Gen
<1>2. /\ \A h \in Gen \ {g} : attempts'[h] = attempts[h]
      /\ attempts'[g].native = "ok" /\ attempts'[g].address = attempts[g].address
      /\ attempts'[g].promise # "pending"
      /\ attempts[g].promise = "rejected" => attempts'[g].promise = "rejected"
      /\ UNCHANGED <<attemptGeneration, lastIdentity>>
  BY DEF TypeInv, AttemptsTyped, AdoptClient, IgnoreClient, NativeSucceeds, Attempt, Settled,
         entry, memory
<1>3. FutureUnstarted' /\ CurrentNamed' /\ PromiseAndNative'
  <2>1. FutureUnstarted'
    BY <1>1, <1>2 DEF CoreInv, FutureUnstarted, Gen
  <2>2. CurrentNamed'
    BY <1>1, <1>2, NonzeroIsGen DEF CoreInv, CurrentNamed
  <2>3. PromiseAndNative'
    BY <1>1, <1>2 DEF CoreInv, PromiseAndNative
  <2>4. QED
    BY <2>1, <2>2, <2>3
<1>4. CASE ~IsCurrent(g)
  <2>1. UNCHANGED <<initPromise, activeClient, activeAddress, attemptGeneration, lastIdentity,
                    lastError, statusSnapshot, persisted>>
    BY <1>4 DEF AdoptClient, IgnoreClient, entry, memory
  <2>2. EntryPaired' /\ ClientIsPast' /\ SnapshotFresh'
    BY <2>1 DEF CoreInv, EntryPaired, ClientIsPast, SnapshotFresh, DeriveStatus
  <2>3. PersistedFollowsClient'
    BY <1>1, <1>2, <2>1, NonzeroIsGen DEF CoreInv, PersistedFollowsClient
  <2>4. GivenUp'
    <3>1. CASE activeClient = 0
      <4>1. g # attemptGeneration
        BY <1>4, <3>1 DEF IsCurrent
      <4>2. QED
        BY <1>1, <1>2, <2>1, <4>1, NonzeroIsGen DEF CoreInv, GivenUp
    <3>2. CASE activeClient # 0
      BY <2>1, <3>2 DEF CoreInv, EntryPaired, GivenUp
    <3>3. QED
      BY <3>1, <3>2
  <2>5. ErrorHasAttempt' /\ TimedOutFirst'
    BY <1>1, <1>2, <2>1, NonzeroIsGen DEF CoreInv, ErrorHasAttempt, TimedOutFirst
  <2>6. QED
    BY <1>3, <2>2, <2>3, <2>4, <2>5 DEF CoreInv
<1>5. CASE IsCurrent(g)
  <2>1. /\ g = attemptGeneration /\ activeClient' = g /\ activeAddress' = attempts[g].address
        /\ initPromise' # 0 /\ lastError' = "none" /\ persisted' = attempts[g].address
        /\ NotifyLifecycle
    BY <1>1, <1>5 DEF AdoptClient, IsCurrent, SetActiveXmtpAddress
  <2>2. EntryPaired'
    BY <1>1, <1>2, <2>1 DEF CoreInv, CurrentNamed, EntryPaired
  <2>3. ClientIsPast' /\ GivenUp' /\ ErrorHasAttempt' /\ TimedOutFirst' /\ SnapshotFresh'
    BY <1>1, <1>2, <2>1 DEF ClientIsPast, GivenUp, ErrorHasAttempt, TimedOutFirst,
                            SnapshotFresh, NotifyLifecycle
  <2>4. PersistedFollowsClient'
    BY <1>2, <2>1 DEF PersistedFollowsClient
  <2>5. QED
    BY <1>3, <2>2, <2>3, <2>4 DEF CoreInv
<1>6. QED
  BY <1>4, <1>5

\* A rejection, by the SDK or by the timer, of an attempt that has started.
LEMMA FailsCore ==
  ASSUME TypeInv, CoreInv, NEW g \in Gen, NEW error \in {"none", "native", "timeout"},
         Fails(g, error), attempts[g].native # "none",
         \A h \in Gen \ {g} : attempts'[h] = attempts[h],
         attempts'[g].address = attempts[g].address, attempts'[g].promise = "rejected",
         attempts'[g].native # "none",
         attempts'[g].native = "running" => attempts[g].native = "running",
         attempts[g].native = "failed" => attempts'[g].native = "failed",
         IsCurrent(g) /\ error = "native" => attempts'[g].native = "failed",
         IsCurrent(g) /\ attempts'[g].native = "running" => error = "timeout"
  PROVE  CoreInv'
<1> USE DEF Fails, device
<1>1. /\ g <= attemptGeneration /\ attempts[g].address \in Addr
      /\ attemptGeneration \in 0..MaxGen /\ activeClient \in 0..MaxGen /\ g # 0
  BY GenType DEF TypeInv, EntryTyped, AttemptsTyped, CoreInv, FutureUnstarted, NoAttempt, Gen
<1>2. FutureUnstarted' /\ CurrentNamed' /\ PromiseAndNative'
  <2>1. FutureUnstarted'
    BY <1>1 DEF CoreInv, FutureUnstarted, Gen
  <2>2. CurrentNamed'
    BY <1>1, NonzeroIsGen DEF CoreInv, CurrentNamed
  <2>3. PromiseAndNative'
    BY <1>1 DEF CoreInv, PromiseAndNative
  <2>4. QED
    BY <2>1, <2>2, <2>3
<1>3. PersistedFollowsClient'
  BY <1>1, NonzeroIsGen DEF CoreInv, PersistedFollowsClient
<1>4. CASE ~IsCurrent(g)
  <2>1. UNCHANGED <<initPromise, activeAddress, lastError, statusSnapshot>>
    BY <1>4
  <2>2. EntryPaired' /\ ClientIsPast' /\ SnapshotFresh'
    BY <2>1 DEF CoreInv, EntryPaired, ClientIsPast, SnapshotFresh, DeriveStatus
  <2>3. ErrorHasAttempt' /\ TimedOutFirst'
    BY <1>1, <2>1, NonzeroIsGen DEF CoreInv, ErrorHasAttempt, TimedOutFirst
  <2>4. GivenUp'
    BY <1>1, <2>1, NonzeroIsGen DEF CoreInv, GivenUp
  <2>5. QED
    BY <1>2, <1>3, <2>2, <2>3, <2>4 DEF CoreInv
<1>5. CASE IsCurrent(g)
  <2>1. /\ g = attemptGeneration /\ activeClient = 0 /\ initPromise' = 0
        /\ activeAddress' = NoAddr /\ lastError' = error /\ NotifyLifecycle
    BY <1>5 DEF IsCurrent, EntryFails
  <2>2. EntryPaired' /\ SnapshotFresh'
    BY <2>1 DEF EntryPaired, SnapshotFresh, NotifyLifecycle
  <2>3. ClientIsPast'
    BY <1>1, <2>1 DEF ClientIsPast
  <2>4. GivenUp' /\ ErrorHasAttempt' /\ TimedOutFirst'
    BY <1>1, <1>5, <2>1 DEF GivenUp, ErrorHasAttempt, TimedOutFirst
  <2>5. QED
    BY <1>2, <1>3, <2>2, <2>3, <2>4 DEF CoreInv
<1>6. QED
  BY <1>4, <1>5

LEMMA OutcomeCore ==
  ASSUME TypeInv, CoreInv, NEW g \in Gen, Outcome(g)
  PROVE  CoreInv'
<1>1. CASE AdoptClient(g)
  BY <1>1, AdoptCore
<1>2. CASE FailAttempt(g)
  <2> DEFINE error == IF initPromise = 0 THEN lastError ELSE "native"
  <2>1. error \in {"none", "native", "timeout"} /\ Fails(g, error)
    BY <1>2 DEF TypeInv, MemoryTyped, FailAttempt
  <2>2. /\ \A h \in Gen \ {g} : attempts'[h] = attempts[h]
        /\ attempts'[g].address = attempts[g].address
        /\ attempts'[g].native = "failed" /\ attempts[g].native = "running"
    BY <1>2 DEF TypeInv, AttemptsTyped, Attempt, FailAttempt
  <2>3. attempts'[g].promise = "rejected"
    BY <1>2 DEF TypeInv, AttemptsTyped, Attempt, FailAttempt, Settled, CoreInv, PromiseAndNative
  <2> HIDE DEF error
  <2>4. QED
    BY <2>1, <2>2, <2>3, FailsCore
<1>3. CASE TimerFires(g)
  <2>1. attempts[g].native = "running"
    BY <1>3 DEF TimerFires, CoreInv, PromiseAndNative
  <2>2. /\ \A h \in Gen \ {g} : attempts'[h] = attempts[h]
        /\ attempts'[g].address = attempts[g].address
        /\ attempts'[g].native = attempts[g].native /\ attempts'[g].promise = "rejected"
    BY <1>3 DEF TypeInv, AttemptsTyped, Attempt, TimerFires
  <2>3. Fails(g, "timeout")
    BY <1>3 DEF TimerFires
  <2>4. QED
    BY <2>1, <2>2, <2>3, FailsCore
<1>4. QED
  BY <1>1, <1>2, <1>3 DEF Outcome

LEMMA HostCallCore ==
  ASSUME TypeInv, CoreInv, NEW c \in Caller, HostCall(c)
  PROVE  CoreInv'
<1> DEFINE id(a, signer) == [address |-> a, signer |-> signer]
<1>0. \A a \in Addr, signer \in BOOLEAN : id(a, signer) \in Identity
  BY DEF Identity
<1>1. ASSUME NEW a \in Addr, GetOrCreateXmtpClient(c, a) PROVE CoreInv'
  BY <1>0, <1>1, EnterCore DEF GetOrCreateXmtpClient
<1>2. ASSUME NEW a \in Addr, OpenXmtpClient(c, a) PROVE CoreInv'
  BY <1>0, <1>2, EnterCore DEF OpenXmtpClient, Enter
<1>3. ASSUME NEW a \in Addr, ResetXmtpLocalState(c, a) PROVE CoreInv'
  <2>1. lastError' = "none"
    BY <1>3 DEF ResetXmtpLocalState, memory, CoreInv, ClientIsPast
  <2>2. QED
    BY <1>3, <2>1, TearDownCore DEF ResetXmtpLocalState
<1>4. ASSUME NEW a \in Addr, ResetWithoutClient(c, a) PROVE CoreInv'
  <2>1. attemptGeneration + 2 \in Gen /\ attemptGeneration + 2 > attemptGeneration
    BY <1>4 DEF TypeInv, EntryTyped, ResetWithoutClient, StartAttempt, Gen
  <2>2. QED
    BY <1>0, <1>4, <2>1, StartAttemptCore DEF ResetWithoutClient
<1>5. ASSUME DropXmtpClient(c) PROVE CoreInv'
  BY <1>5, TearDownCore DEF DropXmtpClient, TearDown
<1>6. QED
  BY <1>1, <1>2, <1>3, <1>4, <1>5 DEF HostCall

LEMMA RetryCore ==
  ASSUME TypeInv, CoreInv, RetryXmtpClient
  PROVE  CoreInv'
<1>1. lastIdentity \in Identity
  BY DEF TypeInv, MemoryTyped, RetryXmtpClient, RetryStarts
<1>2. attemptGeneration + 1 \in Gen /\ attemptGeneration + 1 > attemptGeneration
  BY DEF TypeInv, EntryTyped, RetryXmtpClient, StartAttempt, Gen
<1>3. QED
  BY <1>1, <1>2, StartAttemptCore DEF RetryXmtpClient, device

LEMMA ContinuationCore ==
  ASSUME TypeInv, CoreInv, NEW c \in Caller, Continuation(c)
  PROVE  CoreInv'
<1>1. CASE NativeDropReturns(c)
  <2>1. callers[c].gen \in Gen
    BY <1>1, NonzeroIsGen DEF TypeInv, CallersTyped, CallState, NativeDropReturns
  <2>2. UNCHANGED attempts \/ \E g \in Gen : DropNative(g)
    BY <1>1, <2>1 DEF NativeDropReturns
  <2>3. QED
    BY <1>1, <2>2, QuietCore DEF NativeDropReturns, device
<1>2. CASE SwitchResumes(c)
  <2>1. callers[c].id \in Identity
    BY <1>2 DEF TypeInv, CallersTyped, Starting, SwitchResumes
  <2>2. attemptGeneration + 1 \in Gen /\ attemptGeneration + 1 > attemptGeneration
    BY <1>2 DEF TypeInv, EntryTyped, SwitchResumes, StartAttempt, Gen
  <2>3. QED
    BY <1>2, <2>1, <2>2, StartAttemptCore DEF SwitchResumes, device
<1>3. CASE DeleteReturns(c)
  BY <1>3, QuietCore DEF DeleteReturns
<1>4. CASE ResetResumes(c) \/ WaiterResumes(c)
  <2>1. callers[c].id \in Identity
    BY <1>4 DEF TypeInv, CallersTyped, Starting, ResetResumes, WaiterResumes
  <2>2. QED
    BY <1>4, <2>1, EnterCore DEF ResetResumes, WaiterResumes
<1>5. CASE WaiterReturns(c)
  BY <1>5, QuietCore DEF WaiterReturns, device
<1>6. QED
  BY <1>1, <1>2, <1>3, <1>4, <1>5 DEF Continuation

LEMMA NextCore == TypeInv /\ CoreInv /\ [Next]_vars => CoreInv'
<1> SUFFICES ASSUME TypeInv, CoreInv, [Next]_vars PROVE CoreInv'
  OBVIOUS
<1>1. ASSUME NEW c \in Caller, HostCall(c) \/ Continuation(c) PROVE CoreInv'
  BY <1>1, HostCallCore, ContinuationCore
<1>2. CASE RetryXmtpClient
  BY <1>2, RetryCore
<1>3. CASE RetryDone
  BY <1>3, QuietCore DEF RetryDone, device
<1>4. ASSUME NEW g \in Gen, Outcome(g) PROVE CoreInv'
  BY <1>4, OutcomeCore
<1>5. CASE ProcessRestart
  BY <1>5 DEF ProcessRestart, CoreInv, EntryPaired, FutureUnstarted, CurrentNamed,
     ClientIsPast, GivenUp, ErrorHasAttempt, TimedOutFirst, PersistedFollowsClient,
     SnapshotFresh, DeriveStatus, NoIdentity, PromiseAndNative, NoAttempt
<1>6. CASE UNCHANGED vars
  BY <1>6, QuietCore DEF vars, device
<1>7. QED
  BY <1>1, <1>2, <1>3, <1>4, <1>5, <1>6 DEF Next

LEMMA CoreInvariant == Spec => []CoreInv
  BY TypeInvariant, InitCore, NextCore, PTL DEF Spec

\* The status a component reads is never stale: it is what deriveStatus would return.
THEOREM SnapshotAlwaysFresh == Spec => []SnapshotFresh
  BY CoreInvariant, PTL DEF CoreInv

\* initPromise, activeAddress, activeClient and lastIdentity agree in every state.
THEOREM EntryAlwaysPaired == Spec => []EntryPaired
  BY CoreInvariant, PTL DEF CoreInv

\* The persisted address is the active client's.
THEOREM PersistedAlwaysFollows == Spec => []PersistedFollowsClient
  BY CoreInvariant, PTL DEF CoreInv

\* A failed status is about the attempt that failed.
THEOREM FailureAlwaysOwn == Spec => []FailureIsOwn
<1>1. CoreInv => FailureIsOwn
  BY DEF CoreInv, SnapshotFresh, DeriveStatus, Status, IdleStatus, EntryPaired, CurrentNamed,
         GivenUp, ErrorHasAttempt, FailureIsOwn
<1>2. QED
  BY <1>1, CoreInvariant, PTL

-----------------------------------------------------------------------------
(* What an initializing status waits for.  An entry without a client is the *)
(* current attempt's and that attempt is unsettled: the outcome of another  *)
(* attempt cannot settle it, and its own outcome removes the entry or puts  *)
(* the client there.                                                        *)

EntryWaits ==
    initPromise # 0 /\ activeClient = 0
        => /\ initPromise = attemptGeneration
           /\ attempts[attemptGeneration].promise = "pending"

LEMMA StartWaits ==
  ASSUME TypeInv, NEW id \in Identity, NEW gen \in Gen, StartAttempt(id, gen)
  PROVE  EntryWaits'
  BY DEF TypeInv, AttemptsTyped, StartAttempt, EntryWaits

\* A join keeps the entry, a switch empties it, and a call with neither begins an attempt.
LEMMA EnterWaits ==
  ASSUME TypeInv, EntryWaits, NEW c \in Caller, NEW id \in Identity, Enter(c, id)
  PROVE  EntryWaits'
<1>1. CASE Join(c, id)
  BY <1>1 DEF Join, entry, EntryWaits
<1>2. CASE BeginDirect(c, id)
  <2>1. attemptGeneration + 1 \in Gen
    BY <1>2 DEF TypeInv, EntryTyped, BeginDirect, StartAttempt, Gen
  <2>2. QED
    BY <1>2, <2>1, StartWaits DEF BeginDirect
<1>3. CASE BeginSwitch(c, id)
  BY <1>3 DEF BeginSwitch, TearDown, EntryWaits
<1>4. QED
  BY <1>1, <1>2, <1>3 DEF Enter

LEMMA HostCallWaits ==
  ASSUME TypeInv, EntryWaits, NEW c \in Caller, HostCall(c)
  PROVE  EntryWaits'
<1> DEFINE id(a, signer) == [address |-> a, signer |-> signer]
<1>0. \A a \in Addr, signer \in BOOLEAN : id(a, signer) \in Identity
  BY DEF Identity
<1>1. ASSUME NEW a \in Addr, GetOrCreateXmtpClient(c, a) PROVE EntryWaits'
  BY <1>0, <1>1, EnterWaits DEF GetOrCreateXmtpClient
<1>2. ASSUME NEW a \in Addr, OpenXmtpClient(c, a) PROVE EntryWaits'
  BY <1>0, <1>2, EnterWaits DEF OpenXmtpClient, Enter
<1>3. ASSUME NEW a \in Addr, ResetXmtpLocalState(c, a) PROVE EntryWaits'
  BY <1>3 DEF ResetXmtpLocalState, EntryWaits
<1>4. ASSUME NEW a \in Addr, ResetWithoutClient(c, a) PROVE EntryWaits'
  <2>1. attemptGeneration + 2 \in Gen
    BY <1>4 DEF TypeInv, EntryTyped, ResetWithoutClient, StartAttempt, Gen
  <2>2. QED
    BY <1>0, <1>4, <2>1, StartWaits DEF ResetWithoutClient
<1>5. CASE DropXmtpClient(c)
  BY <1>5 DEF DropXmtpClient, TearDown, EntryWaits
<1>6. QED
  BY <1>1, <1>2, <1>3, <1>4, <1>5 DEF HostCall

\* A native drop changes no promise, so an attempt that is waited for stays pending.
LEMMA ContinuationWaits ==
  ASSUME TypeInv, EntryWaits, NEW c \in Caller, Continuation(c)
  PROVE  EntryWaits'
<1>1. CASE NativeDropReturns(c)
  <2>1. callers[c].gen \in Gen
    BY <1>1, NonzeroIsGen DEF TypeInv, CallersTyped, CallState, NativeDropReturns
  <2>2. \A h \in Gen : attempts'[h].promise = attempts[h].promise
    BY <1>1, <2>1 DEF NativeDropReturns, DropNative, TypeInv, AttemptsTyped, Attempt
  <2>3. UNCHANGED <<initPromise, activeClient, attemptGeneration>>
    BY <1>1 DEF NativeDropReturns, entry
  <2>4. QED
    BY <2>2, <2>3, NonzeroIsGen DEF EntryWaits, TypeInv, EntryTyped
<1>2. CASE SwitchResumes(c)
  <2>1. callers[c].id \in Identity
    BY <1>2 DEF TypeInv, CallersTyped, Starting, SwitchResumes
  <2>2. attemptGeneration + 1 \in Gen
    BY <1>2 DEF TypeInv, EntryTyped, SwitchResumes, StartAttempt, Gen
  <2>3. QED
    BY <1>2, <2>1, <2>2, StartWaits DEF SwitchResumes
<1>3. CASE DeleteReturns(c) \/ WaiterReturns(c)
  BY <1>3 DEF DeleteReturns, WaiterReturns, entry, EntryWaits
<1>4. CASE ResetResumes(c) \/ WaiterResumes(c)
  <2>1. callers[c].id \in Identity
    BY <1>4 DEF TypeInv, CallersTyped, Starting, ResetResumes, WaiterResumes
  <2>2. QED
    BY <1>4, <2>1, EnterWaits DEF ResetResumes, WaiterResumes
<1>5. QED
  BY <1>1, <1>2, <1>3, <1>4 DEF Continuation

\* The outcome of the attempt that is waited for, or one that leaves the entry alone.
LEMMA OutcomeWaits ==
  ASSUME TypeInv, EntryWaits, NEW g \in Gen, Outcome(g)
  PROVE  EntryWaits'
<1>1. /\ \A h \in Gen \ {g} : attempts'[h] = attempts[h]
      /\ UNCHANGED attemptGeneration
      /\ attemptGeneration \in 0..MaxGen /\ g # 0
  BY GenType DEF Outcome, AdoptClient, IgnoreClient, NativeSucceeds, FailAttempt, TimerFires,
                 Fails, entry, TypeInv, EntryTyped, AttemptsTyped
<1>2. CASE IsCurrent(g)
  <2>1. CASE AdoptClient(g)
    BY <1>1, <1>2, <2>1 DEF AdoptClient, EntryWaits
  <2>2. CASE FailAttempt(g) \/ TimerFires(g)
    BY <1>2, <2>2 DEF FailAttempt, TimerFires, Fails, EntryFails, EntryWaits
  <2>3. QED
    BY <2>1, <2>2 DEF Outcome
<1>3. CASE ~IsCurrent(g)
  <2>1. UNCHANGED <<initPromise, activeClient>>
    BY <1>3 DEF Outcome, AdoptClient, IgnoreClient, FailAttempt, TimerFires, Fails, entry
  <2>2. QED
    BY <1>1, <1>3, <2>1, NonzeroIsGen DEF EntryWaits, IsCurrent
<1>4. QED
  BY <1>2, <1>3

LEMMA NextWaits == TypeInv /\ EntryWaits /\ [Next]_vars => EntryWaits'
<1> SUFFICES ASSUME TypeInv, EntryWaits, [Next]_vars PROVE EntryWaits'
  OBVIOUS
<1>1. ASSUME NEW c \in Caller, HostCall(c) \/ Continuation(c) PROVE EntryWaits'
  BY <1>1, HostCallWaits, ContinuationWaits
<1>2. CASE RetryXmtpClient
  <2>1. lastIdentity \in Identity
    BY <1>2 DEF TypeInv, MemoryTyped, RetryXmtpClient, RetryStarts
  <2>2. attemptGeneration + 1 \in Gen
    BY <1>2 DEF TypeInv, EntryTyped, RetryXmtpClient, StartAttempt, Gen
  <2>3. QED
    BY <1>2, <2>1, <2>2, StartWaits DEF RetryXmtpClient
<1>3. CASE RetryDone
  BY <1>3 DEF RetryDone, entry, EntryWaits
<1>4. ASSUME NEW g \in Gen, Outcome(g) PROVE EntryWaits'
  BY <1>4, OutcomeWaits
<1>5. CASE ProcessRestart
  BY <1>5 DEF ProcessRestart, EntryWaits
<1>6. CASE UNCHANGED vars
  BY <1>6 DEF vars, entry, EntryWaits
<1>7. QED
  BY <1>1, <1>2, <1>3, <1>4, <1>5, <1>6 DEF Next

\* An initializing status names an attempt that is unsettled and that nothing supersedes:
\* whatever calls, switches and late outcomes overlap, its outcome will be announced.
THEOREM InitializingIsWaited == Spec => []InitializingHasAttempt
<1>1. Init => EntryWaits
  BY DEF Init, EntryWaits
<1>2. TypeInv /\ CoreInv /\ EntryWaits => InitializingHasAttempt
  <2> SUFFICES ASSUME TypeInv, CoreInv, EntryWaits, statusSnapshot.state = "initializing"
               PROVE  InitializingHasAttempt
    BY DEF InitializingHasAttempt
  <2>1. /\ activeClient = 0 /\ initPromise # 0 /\ activeAddress # NoAddr
        /\ statusSnapshot.address = activeAddress
    BY DEF CoreInv, EntryPaired, SnapshotFresh, DeriveStatus, Status, IdleStatus
  <2>2. attemptGeneration \in Gen /\ attempts[attemptGeneration].promise = "pending"
    BY <2>1, NonzeroIsGen DEF EntryWaits, TypeInv, EntryTyped
  <2>3. attempts[attemptGeneration].address = activeAddress
    BY <2>1, <2>2, GenType DEF CoreInv, PromiseAndNative, CurrentNamed, EntryPaired
  <2>4. QED
    BY <2>1, <2>2, <2>3, GenType DEF InitializingHasAttempt, IsCurrent
<1>3. QED
  BY <1>1, <1>2, NextWaits, TypeInvariant, CoreInvariant, PTL DEF Spec

\* Both together: what the status says of an attempt is true of the newest one.
THEOREM StatusAlwaysOwn == Spec => []StatusIsOwn
  BY FailureAlwaysOwn, InitializingIsWaited, PTL DEF StatusIsOwn

-----------------------------------------------------------------------------
(* An active client goes away in a teardown, reset or restart only.         *)

LEMMA StartKeepsClient ==
  ASSUME NEW id, NEW gen, StartAttempt(id, gen)
  PROVE  UNCHANGED activeClient
  BY DEF StartAttempt

LEMMA EnterKeepsClient ==
  ASSUME TypeInv, NEW c, NEW id, Enter(c, id), activeClient' # activeClient
  PROVE  activeClient' = 0 /\ attemptGeneration' # attemptGeneration
  BY StartKeepsClient DEF Enter, Join, BeginDirect, BeginSwitch, TearDown, entry,
                          TypeInv, EntryTyped

LEMMA StepKeepsClient ==
  ASSUME TypeInv, Next, activeClient # 0, activeClient' # activeClient
  PROVE  activeClient' = 0 /\ attemptGeneration' # attemptGeneration
<1> USE DEF TypeInv, EntryTyped
<1> DEFINE Gone == activeClient' = 0 /\ attemptGeneration' # attemptGeneration
<1>1. ASSUME NEW c \in Caller, HostCall(c) PROVE Gone
  <2>1. ASSUME NEW a \in Addr, GetOrCreateXmtpClient(c, a) PROVE Gone
    BY <2>1, EnterKeepsClient DEF GetOrCreateXmtpClient
  <2>2. ASSUME NEW a \in Addr, OpenXmtpClient(c, a) PROVE Gone
    BY <2>2, EnterKeepsClient DEF OpenXmtpClient, Enter
  <2>3. ASSUME NEW a \in Addr, ResetXmtpLocalState(c, a) PROVE Gone
    BY <2>3 DEF ResetXmtpLocalState
  <2>4. ASSUME NEW a \in Addr, ResetWithoutClient(c, a) PROVE FALSE
    BY <2>4 DEF ResetWithoutClient
  <2>5. CASE DropXmtpClient(c)
    BY <2>5 DEF DropXmtpClient, TearDown
  <2>6. QED
    BY <1>1, <2>1, <2>2, <2>3, <2>4, <2>5 DEF HostCall
<1>2. ASSUME NEW c \in Caller, Continuation(c) PROVE Gone
  BY <1>2, EnterKeepsClient, StartKeepsClient
     DEF Continuation, NativeDropReturns, SwitchResumes, DeleteReturns, ResetResumes,
         WaiterResumes, WaiterReturns, entry
<1>3. ASSUME NEW g \in Gen, Outcome(g) PROVE FALSE
  BY <1>3 DEF Outcome, AdoptClient, IgnoreClient, IsCurrent, FailAttempt, TimerFires, Fails, entry
<1>4. CASE RetryXmtpClient \/ RetryDone
  BY <1>4, StartKeepsClient DEF RetryXmtpClient, RetryDone, entry
<1>5. CASE ProcessRestart
  BY <1>5 DEF ProcessRestart
<1>6. QED
  BY <1>1, <1>2, <1>3, <1>4, <1>5 DEF Next

\* A ready client is torn down, never replaced in place.
THEOREM NeverReplaced == Spec => ClientNeverReplaced
<1>1. TypeInv /\ [Next]_vars
        => [activeClient # 0 /\ activeClient' # activeClient
              => activeClient' = 0 /\ attemptGeneration' # attemptGeneration]_vars
  BY StepKeepsClient
<1>2. QED
  BY <1>1, TypeInvariant, PTL DEF Spec, ClientNeverReplaced

-----------------------------------------------------------------------------
(* What a host that serializes its calls gains.  The first part speaks of   *)
(* the entry and the attempts, the second of the suspended calls.           *)

EntryIsCurrent == initPromise # 0 => initPromise = attemptGeneration

\* A pending attempt is the entry, or a generation after it was used up without an attempt.
PendingIsEntry ==
    \A g \in Gen : attempts[g].promise = "pending" =>
        \/ initPromise = g
        \/ \E k \in Gen : g < k /\ k <= attemptGeneration /\ attempts[k].native = "none"

ModuleInv == EntryIsCurrent /\ PendingIsEntry /\ SingleFlight /\ ReadyMatchesWallet
             /\ ActiveClientAlive

Held(c) == callers[c].pc \in Suspensions
Exclusive == \A c, d \in Caller : Held(c) /\ Held(d) => c = d

\* While a switch, sign-out or reset is suspended there is no entry and no current attempt.
HeldQuiet == \A c \in Caller : Held(c) =>
                 /\ initPromise = 0
                 /\ attemptGeneration # 0
                 /\ attempts[attemptGeneration].native = "none"
Forgotten == \A c \in Caller : callers[c].pc \in {"switching", "dropping"}
                                  => lastIdentity = NoIdentity
ResetAlone == \A c \in Caller : callers[c].pc \in {"deleting", "resetDropping"}
                 => requested /\ \A d \in Caller \ {c} : callers[d].pc = "idle"
SwitchRequested == \A c \in Caller : callers[c].pc = "switching" => requested

CallInv == Exclusive /\ HeldQuiet /\ Forgotten /\ ResetAlone /\ SwitchRequested
           /\ SignedOutStaysOut

LEMMA InitSerial == Init => ModuleInv /\ CallInv
  BY DEF Init, ModuleInv, EntryIsCurrent, PendingIsEntry, SingleFlight, ReadyMatchesWallet,
         ActiveClientAlive, NoAttempt, CallInv, Exclusive, Held, HeldQuiet, Forgotten,
         ResetAlone, SwitchRequested, SignedOutStaysOut, Idle, Suspensions

\* An attempt is pending or has a result only once its generation is reached.
LEMMA StartedIsPast ==
  ASSUME TypeInv, CoreInv, NEW g \in Gen
  PROVE  /\ attempts[g].native # "none" => g <= attemptGeneration
         /\ attempts[g].promise = "pending" => attempts[g].native = "running"
  BY DEF TypeInv, EntryTyped, CoreInv, FutureUnstarted, PromiseAndNative, NoAttempt, Gen

LEMMA StartModule ==
  ASSUME TypeInv, CoreInv, ModuleInv, NEW id \in Identity, NEW gen \in Gen,
         StartAttempt(id, gen), activeClient = 0,
         \/ gen = attemptGeneration + 1 /\ initPromise = 0
         \/ gen = attemptGeneration + 2
  PROVE  ModuleInv'
<1>1. /\ attempts' \in [Gen -> Attempt] /\ attemptGeneration \in 0..MaxGen
      /\ attempts'[gen].promise = "pending"
      /\ \A g \in Gen \ {gen} : attempts'[g] = attempts[g]
      /\ initPromise' = gen /\ attemptGeneration' = gen /\ activeClient' = 0
  BY InstallType DEF TypeInv, EntryTyped, AttemptsTyped, StartAttempt, Attempt, Identity
<1>2. \A g \in Gen : attempts[g].promise = "pending" =>
         /\ g < gen
         /\ \E k \in Gen : g < k /\ k < gen /\ attempts[k].native = "none"
  <2> TAKE g \in Gen
  <2> HAVE attempts[g].promise = "pending"
  <2>1. g <= attemptGeneration /\ g < gen
    BY <1>1, StartedIsPast DEF Gen
  <2>2. CASE gen = attemptGeneration + 1 /\ initPromise = 0
    <3>1. PICK k \in Gen : g < k /\ k <= attemptGeneration /\ attempts[k].native = "none"
      BY <2>2, GenType DEF ModuleInv, PendingIsEntry
    <3>2. k < gen
      BY <1>1, <2>2, <3>1 DEF Gen
    <3>3. QED
      BY <2>1, <3>1, <3>2
  <2>3. CASE gen = attemptGeneration + 2
    <3>1. attemptGeneration + 1 \in Gen /\ attemptGeneration + 1 > attemptGeneration
      BY <1>1, <2>3 DEF Gen
    <3>2. attempts[attemptGeneration + 1].native = "none"
      BY <3>1 DEF CoreInv, FutureUnstarted, NoAttempt
    <3>3. g < attemptGeneration + 1 /\ attemptGeneration + 1 < gen
      BY <1>1, <2>1, <2>3 DEF Gen
    <3>4. QED
      BY <2>1, <3>1, <3>2, <3>3
  <2>4. QED
    BY <2>2, <2>3
<1>3. attempts[gen].native = "none" /\ attempts[gen].promise # "pending"
  BY <1>1 DEF CoreInv, FutureUnstarted, NoAttempt, Gen
<1>4. PendingIsEntry'
  <2> SUFFICES ASSUME NEW g \in Gen, attempts'[g].promise = "pending", g # gen
               PROVE  \E k \in Gen : g < k /\ k <= gen /\ attempts'[k].native = "none"
    BY <1>1 DEF PendingIsEntry
  <2>1. PICK k \in Gen : g < k /\ k < gen /\ attempts[k].native = "none"
    BY <1>1, <1>2
  <2>2. k # gen /\ k <= gen
    BY <2>1 DEF Gen
  <2>3. QED
    BY <1>1, <2>1, <2>2
<1>5. SingleFlight'
  <2> SUFFICES ASSUME NEW g \in Gen, NEW h \in Gen, g < h, attempts'[g].promise = "pending",
                      attempts'[h].promise = "pending"
               PROVE  \E k \in Gen : g < k /\ k < h /\ attempts'[k].native = "none"
    BY DEF SingleFlight
  <2>1. g # gen
    BY <1>1, <1>2 DEF Gen
  <2>2. CASE h = gen
    <3>1. PICK k \in Gen : g < k /\ k < gen /\ attempts[k].native = "none"
      BY <1>1, <1>2, <2>1
    <3>2. k # gen
      BY <3>1 DEF Gen
    <3>3. QED
      BY <1>1, <2>2, <3>1, <3>2
  <2>3. CASE h # gen
    <3>1. PICK k \in Gen : g < k /\ k < h /\ attempts[k].native = "none"
      BY <1>1, <2>1, <2>3 DEF ModuleInv, SingleFlight
    <3>2. k # gen
      BY <1>1, <1>2, <2>3, <3>1 DEF Gen
    <3>3. QED
      BY <1>1, <3>1, <3>2
  <2>4. QED
    BY <2>2, <2>3
<1>6. EntryIsCurrent' /\ ReadyMatchesWallet' /\ ActiveClientAlive'
  BY <1>1 DEF EntryIsCurrent, ReadyMatchesWallet, ActiveClientAlive
<1>7. QED
  BY <1>4, <1>5, <1>6 DEF ModuleInv

LEMMA TearDownModule ==
  ASSUME TypeInv, CoreInv, ModuleInv, attemptGeneration < MaxGen,
         attemptGeneration' = attemptGeneration + 1, activeClient' = 0, initPromise' = 0,
         UNCHANGED attempts
  PROVE  ModuleInv' /\ attempts'[attemptGeneration'].native = "none"
<1>1. attemptGeneration \in 0..MaxGen /\ attemptGeneration' \in Gen
      /\ attemptGeneration' > attemptGeneration
  BY DEF TypeInv, EntryTyped, Gen
<1>2. attempts'[attemptGeneration'].native = "none"
  BY <1>1 DEF CoreInv, FutureUnstarted, NoAttempt
<1>3. PendingIsEntry'
  <2> SUFFICES ASSUME NEW g \in Gen, attempts'[g].promise = "pending"
               PROVE  g < attemptGeneration' /\ attemptGeneration' <= attemptGeneration'
    BY <1>1, <1>2 DEF PendingIsEntry
  <2>1. g <= attemptGeneration
    BY StartedIsPast
  <2>2. QED
    BY <1>1, <2>1 DEF Gen
<1>4. SingleFlight'
  BY DEF ModuleInv, SingleFlight
<1>5. EntryIsCurrent' /\ ReadyMatchesWallet' /\ ActiveClientAlive'
  BY DEF EntryIsCurrent, ReadyMatchesWallet, ActiveClientAlive
<1>6. QED
  BY <1>2, <1>3, <1>4, <1>5 DEF ModuleInv

\* Steps that leave the entry alone; a client is dropped only while none is active.
LEMMA QuietModule ==
  ASSUME TypeInv, ModuleInv, UNCHANGED entry,
         UNCHANGED attempts \/ (activeClient = 0 /\ \E g \in Gen : DropNative(g))
  PROVE  ModuleInv'
<1> USE DEF entry
<1>1. CASE UNCHANGED attempts
  BY <1>1 DEF ModuleInv, EntryIsCurrent, PendingIsEntry, SingleFlight, ReadyMatchesWallet,
              ActiveClientAlive
<1>2. ASSUME NEW d \in Gen, DropNative(d), activeClient = 0 PROVE ModuleInv'
  <2>1. \A g \in Gen : /\ attempts'[g].promise = attempts[g].promise
                       /\ attempts[g].native = "none" => attempts'[g].native = "none"
    BY <1>2 DEF TypeInv, AttemptsTyped, DropNative, Attempt
  <2>2. PendingIsEntry' /\ SingleFlight'
    BY <2>1 DEF ModuleInv, PendingIsEntry, SingleFlight
  <2>3. EntryIsCurrent' /\ ReadyMatchesWallet' /\ ActiveClientAlive'
    BY <1>2 DEF ModuleInv, EntryIsCurrent, ReadyMatchesWallet, ActiveClientAlive
  <2>4. QED
    BY <2>2, <2>3 DEF ModuleInv
<1>3. QED
  BY <1>1, <1>2

\* An attempt that gets a result is no longer pending, and it was never the witness of a
\* generation without an attempt.
LEMMA SettledModule ==
  ASSUME TypeInv, CoreInv, ModuleInv, NEW g \in Gen, attempts[g].native = "running",
         \A h \in Gen \ {g} : attempts'[h] = attempts[h], attempts'[g].promise # "pending",
         UNCHANGED attemptGeneration,
         initPromise' = initPromise \/ (g = attemptGeneration /\ initPromise' \in {0, g})
  PROVE  EntryIsCurrent' /\ PendingIsEntry' /\ SingleFlight'
<1>1. g # 0 /\ attemptGeneration \in 0..MaxGen /\ initPromise \in 0..MaxGen
  BY GenType DEF TypeInv, EntryTyped
<1>2. EntryIsCurrent'
  BY DEF ModuleInv, EntryIsCurrent
<1>3. PendingIsEntry'
  <2> SUFFICES ASSUME NEW h \in Gen, attempts'[h].promise = "pending", initPromise' # h
               PROVE  \E k \in Gen : h < k /\ k <= attemptGeneration' /\ attempts'[k].native = "none"
    BY DEF PendingIsEntry
  <2>1. h # g /\ h # 0 /\ attempts[h].promise = "pending"
    BY GenType
  <2>2. initPromise # h
    BY <2>1 DEF ModuleInv, EntryIsCurrent
  <2>3. PICK k \in Gen : h < k /\ k <= attemptGeneration /\ attempts[k].native = "none"
    BY <2>1, <2>2 DEF ModuleInv, PendingIsEntry
  <2>4. QED
    BY <2>3
<1>4. SingleFlight'
  <2> SUFFICES ASSUME NEW e \in Gen, NEW h \in Gen, e < h, attempts'[e].promise = "pending",
                      attempts'[h].promise = "pending"
               PROVE  \E k \in Gen : e < k /\ k < h /\ attempts'[k].native = "none"
    BY DEF SingleFlight
  <2>1. PICK k \in Gen : e < k /\ k < h /\ attempts[k].native = "none"
    BY DEF ModuleInv, SingleFlight
  <2>2. QED
    BY <2>1
<1>5. QED
  BY <1>2, <1>3, <1>4

LEMMA OutcomeModule ==
  ASSUME TypeInv, CoreInv, ModuleInv, NEW g \in Gen, Outcome(g)
  PROVE  ModuleInv'
<1>1. CASE AdoptClient(g)
  <2>1. /\ attempts[g].native = "running"
        /\ \A h \in Gen \ {g} : attempts'[h] = attempts[h]
        /\ attempts'[g].native = "ok" /\ attempts'[g].address = attempts[g].address
        /\ attempts'[g].promise # "pending"
        /\ UNCHANGED attemptGeneration
    BY <1>1 DEF TypeInv, AttemptsTyped, AdoptClient, IgnoreClient, NativeSucceeds, Attempt,
                Settled, entry
  <2>2. \/ UNCHANGED <<initPromise, activeClient, activeAddress>>
        \/ /\ g = attemptGeneration /\ activeClient' = g
           /\ activeAddress' = attempts[g].address
           /\ initPromise' = IF initPromise = 0 THEN g ELSE initPromise
    BY <1>1 DEF AdoptClient, IgnoreClient, IsCurrent, entry
  <2>3. initPromise' = initPromise \/ (g = attemptGeneration /\ initPromise' \in {0, g})
    BY <2>2
  <2>4. EntryIsCurrent' /\ PendingIsEntry' /\ SingleFlight'
    BY <2>1, <2>3, SettledModule
  <2>5. activeClient \in 0..MaxGen
    BY DEF TypeInv, EntryTyped
  <2>6. ReadyMatchesWallet' /\ ActiveClientAlive'
    BY <2>1, <2>2, <2>5, NonzeroIsGen DEF ModuleInv, ReadyMatchesWallet, ActiveClientAlive
  <2>7. QED
    BY <2>4, <2>6 DEF ModuleInv
<1>2. ASSUME NEW error, Fails(g, error), attempts[g].native = "running",
             \A h \in Gen \ {g} : attempts'[h] = attempts[h],
             attempts'[g].promise # "pending", attempts'[g].address = attempts[g].address
      PROVE  ModuleInv'
  <2>1. /\ UNCHANGED <<attemptGeneration, activeClient>>
        /\ \/ UNCHANGED <<initPromise, activeAddress>>
           \/ g = attemptGeneration /\ initPromise' = 0 /\ activeClient = 0
    BY <1>2 DEF Fails, IsCurrent, EntryFails
  <2>2. EntryIsCurrent' /\ PendingIsEntry' /\ SingleFlight'
    BY <1>2, <2>1, SettledModule
  <2>3. activeClient \in 0..MaxGen /\ (activeClient # 0 => activeClient # g)
    BY <1>2 DEF TypeInv, EntryTyped, ModuleInv, ActiveClientAlive
  <2>4. ReadyMatchesWallet' /\ ActiveClientAlive'
    BY <1>2, <2>1, <2>3, NonzeroIsGen DEF ModuleInv, ReadyMatchesWallet, ActiveClientAlive
  <2>5. QED
    BY <2>2, <2>4 DEF ModuleInv
<1>3. CASE FailAttempt(g)
  <2> DEFINE error == IF initPromise = 0 THEN lastError ELSE "native"
  <2>1. Fails(g, error)
    BY <1>3 DEF FailAttempt
  <2>2. /\ attempts[g].native = "running"
        /\ \A h \in Gen \ {g} : attempts'[h] = attempts[h]
        /\ attempts'[g].address = attempts[g].address
        /\ attempts'[g].promise # "pending"
    BY <1>3 DEF TypeInv, AttemptsTyped, Attempt, FailAttempt, Settled
  <2> HIDE DEF error
  <2>3. QED
    BY <1>2, <2>1, <2>2
<1>4. CASE TimerFires(g)
  <2>1. Fails(g, "timeout") /\ attempts[g].native = "running"
    BY <1>4, StartedIsPast DEF TimerFires
  <2>2. /\ \A h \in Gen \ {g} : attempts'[h] = attempts[h]
        /\ attempts'[g].address = attempts[g].address
        /\ attempts'[g].promise # "pending"
    BY <1>4 DEF TypeInv, AttemptsTyped, Attempt, TimerFires
  <2>3. QED
    BY <1>2, <2>1, <2>2
<1>5. QED
  BY <1>1, <1>3, <1>4 DEF Outcome

LEMMA EnterModule ==
  ASSUME TypeInv, CoreInv, ModuleInv, NEW c \in Caller, NEW id \in Identity, Enter(c, id)
  PROVE  ModuleInv'
<1>1. CASE Join(c, id)
  BY <1>1, QuietModule DEF Join
<1>2. CASE BeginDirect(c, id)
  <2>1. attemptGeneration + 1 \in Gen
    BY <1>2 DEF TypeInv, EntryTyped, BeginDirect, StartAttempt, Gen
  <2>2. initPromise = 0 /\ activeClient = 0
    BY <1>2 DEF BeginDirect, JoinsEntry, CoreInv, EntryPaired
  <2>3. QED
    BY <1>2, <2>1, <2>2, StartModule DEF BeginDirect
<1>3. CASE BeginSwitch(c, id)
  BY <1>3, TearDownModule DEF BeginSwitch, TearDown
<1>4. QED
  BY <1>1, <1>2, <1>3 DEF Enter

LEMMA NextModule ==
  ASSUME TypeInv, CoreInv, ModuleInv, CallInv, [Next]_vars
  PROVE  ModuleInv'
<1> DEFINE id(a, signer) == [address |-> a, signer |-> signer]
<1>0. \A a \in Addr, signer \in BOOLEAN : id(a, signer) \in Identity
  BY DEF Identity
<1>1. ASSUME NEW c \in Caller, HostCall(c) PROVE ModuleInv'
  <2>1. ASSUME NEW a \in Addr, GetOrCreateXmtpClient(c, a) PROVE ModuleInv'
    BY <1>0, <2>1, EnterModule DEF GetOrCreateXmtpClient
  <2>2. ASSUME NEW a \in Addr, OpenXmtpClient(c, a) PROVE ModuleInv'
    BY <1>0, <2>2, EnterModule DEF OpenXmtpClient, Enter
  <2>3. ASSUME NEW a \in Addr, ResetXmtpLocalState(c, a) PROVE ModuleInv'
    BY <2>3, TearDownModule DEF ResetXmtpLocalState
  <2>4. ASSUME NEW a \in Addr, ResetWithoutClient(c, a) PROVE ModuleInv'
    <3>1. attemptGeneration + 2 \in Gen
      BY <2>4 DEF TypeInv, EntryTyped, ResetWithoutClient, StartAttempt, Gen
    <3>2. QED
      BY <1>0, <2>4, <3>1, StartModule DEF ResetWithoutClient
  <2>5. CASE DropXmtpClient(c)
    BY <2>5, TearDownModule DEF DropXmtpClient, TearDown
  <2>6. QED
    BY <1>1, <2>1, <2>2, <2>3, <2>4, <2>5 DEF HostCall
<1>2. ASSUME NEW c \in Caller, Continuation(c) PROVE ModuleInv'
  <2>1. CASE NativeDropReturns(c)
    <3>1. callers[c].gen \in Gen
      BY <2>1, NonzeroIsGen DEF TypeInv, CallersTyped, CallState, NativeDropReturns
    <3>2. activeClient = 0
      BY <2>1 DEF NativeDropReturns, CallInv, HeldQuiet, Held, Suspensions, CoreInv, EntryPaired
    <3>3. UNCHANGED attempts \/ (activeClient = 0 /\ \E g \in Gen : DropNative(g))
      BY <2>1, <3>1, <3>2 DEF NativeDropReturns
    <3>4. QED
      BY <2>1, <3>3, QuietModule DEF NativeDropReturns
  <2>2. CASE SwitchResumes(c)
    <3>1. callers[c].id \in Identity
      BY <2>2 DEF TypeInv, CallersTyped, Starting, SwitchResumes
    <3>2. attemptGeneration + 1 \in Gen
      BY <2>2 DEF TypeInv, EntryTyped, SwitchResumes, StartAttempt, Gen
    <3>3. initPromise = 0 /\ activeClient = 0
      BY <2>2 DEF SwitchResumes, CallInv, HeldQuiet, Held, Suspensions, CoreInv, EntryPaired
    <3>4. QED
      BY <2>2, <3>1, <3>2, <3>3, StartModule DEF SwitchResumes
  <2>3. CASE DeleteReturns(c) \/ WaiterReturns(c)
    BY <2>3, QuietModule DEF DeleteReturns, WaiterReturns
  <2>4. CASE ResetResumes(c) \/ WaiterResumes(c)
    <3>1. callers[c].id \in Identity
      BY <2>4 DEF TypeInv, CallersTyped, Starting, ResetResumes, WaiterResumes
    <3>2. QED
      BY <2>4, <3>1, EnterModule DEF ResetResumes, WaiterResumes
  <2>5. QED
    BY <1>2, <2>1, <2>2, <2>3, <2>4 DEF Continuation
<1>3. CASE RetryXmtpClient
  <2>1. lastIdentity \in Identity
    BY <1>3 DEF TypeInv, MemoryTyped, RetryXmtpClient, RetryStarts
  <2>2. attemptGeneration + 1 \in Gen
    BY <1>3 DEF TypeInv, EntryTyped, RetryXmtpClient, StartAttempt, Gen
  <2>3. QED
    BY <1>3, <2>1, <2>2, StartModule DEF RetryXmtpClient, RetryStarts
<1>4. CASE RetryDone
  BY <1>4, QuietModule DEF RetryDone
<1>5. ASSUME NEW g \in Gen, Outcome(g) PROVE ModuleInv'
  BY <1>5, OutcomeModule
<1>6. CASE ProcessRestart
  BY <1>6 DEF ProcessRestart, ModuleInv, EntryIsCurrent, PendingIsEntry, SingleFlight,
              ReadyMatchesWallet, ActiveClientAlive, NoAttempt
<1>7. CASE UNCHANGED vars
  BY <1>7, QuietModule DEF vars
<1>8. QED
  BY <1>1, <1>2, <1>3, <1>4, <1>5, <1>6, <1>7 DEF Next

-----------------------------------------------------------------------------
(* The suspended calls of a host that serializes.                           *)

\* A step of call c while no other call is held.
LEMMA SoleCall ==
  ASSUME CallInv, NEW c \in Caller,
         \A d \in Caller \ {c} : ~Held(d) /\ callers'[d] = callers[d],
         callers'[c].pc \in Suspensions
            => /\ initPromise' = 0 /\ attemptGeneration' # 0
               /\ attempts'[attemptGeneration'].native = "none",
         callers'[c].pc \in {"switching", "dropping"} => lastIdentity' = NoIdentity,
         callers'[c].pc \in {"deleting", "resetDropping"}
            => requested' /\ \A d \in Caller \ {c} : callers[d].pc = "idle",
         callers'[c].pc = "switching" => requested',
         SignedOutStaysOut'
  PROVE  CallInv'
<1>1. \A d \in Caller : callers'[d].pc \in Suspensions => d = c
  BY DEF Held
<1>2. Exclusive' /\ HeldQuiet'
  BY <1>1 DEF Exclusive, HeldQuiet, Held
<1>3. Forgotten' /\ ResetAlone' /\ SwitchRequested'
  BY <1>1 DEF Forgotten, ResetAlone, SwitchRequested, Suspensions
<1>4. QED
  BY <1>2, <1>3 DEF CallInv

\* A step that resumes no call, and gives no attempt the entry.
LEMMA CalmCalls ==
  ASSUME CallInv, TypeInv, \A c \in Caller : callers'[c].pc \in {callers[c].pc, "idle"},
         UNCHANGED <<attemptGeneration, lastIdentity, activeClient, requested>>,
         initPromise' \in {0, initPromise},
         \A g \in Gen : attempts[g].native = "none" => attempts'[g].native = "none"
  PROVE  CallInv'
<1>1. \A c \in Caller : callers'[c].pc \in Suspensions => callers[c].pc = callers'[c].pc
  BY DEF Suspensions
<1>2. attemptGeneration # 0 => attemptGeneration \in Gen
  BY NonzeroIsGen DEF TypeInv, EntryTyped
<1>3. Exclusive'
  BY <1>1 DEF CallInv, Exclusive, Held
<1>4. HeldQuiet'
  BY <1>1, <1>2 DEF CallInv, HeldQuiet, Held
<1>5. Forgotten' /\ SwitchRequested'
  BY <1>1 DEF CallInv, Forgotten, SwitchRequested, Suspensions
<1>6. ResetAlone'
  BY <1>1 DEF CallInv, ResetAlone, Suspensions
<1>7. SignedOutStaysOut'
  BY DEF CallInv, SignedOutStaysOut
<1>8. QED
  BY <1>3, <1>4, <1>5, <1>6, <1>7 DEF CallInv

\* getOrCreateXmtpClient and openXmtpClient, called or resumed while no other call is held.
LEMMA EnterCalls ==
  ASSUME TypeInv, CoreInv, ModuleInv, CallInv, NEW c \in Caller, NEW id \in Identity,
         Enter(c, id), \A d \in Caller \ {c} : ~Held(d), requested'
  PROVE  CallInv'
<1>1. SignedOutStaysOut'
  BY DEF SignedOutStaysOut
<1>2. CASE Finish(c)
  BY <1>1, <1>2, SoleCall DEF TypeInv, CallersTyped, Finish, Idle, Suspensions
<1>3. CASE Suspend(c, "waiting", id, initPromise)
  BY <1>1, <1>3, SoleCall DEF TypeInv, CallersTyped, Suspend, Suspensions
<1>4. CASE BeginSwitch(c, id)
  <2>1. /\ initPromise' = 0 /\ lastIdentity' = NoIdentity
        /\ attempts'[attemptGeneration'].native = "none" /\ attemptGeneration' # 0
    BY <1>4, TearDownModule DEF BeginSwitch, TearDown, TypeInv, EntryTyped
  <2>2. /\ callers'[c].pc = "switching"
        /\ \A d \in Caller \ {c} : callers'[d] = callers[d]
    BY <1>4 DEF BeginSwitch, Suspend, TypeInv, CallersTyped
  <2>3. QED
    BY <1>1, <2>1, <2>2, SoleCall
<1>5. QED
  BY <1>2, <1>3, <1>4 DEF Enter, Join, BeginDirect

\* With no identity remembered, no attempt is current.
LEMMA NothingCurrent ==
  ASSUME TypeInv, CoreInv, lastIdentity = NoIdentity, NEW g \in Gen,
         attempts[g].native = "running"
  PROVE  g # attemptGeneration
<1>1. attempts[g].address \in Addr /\ g # 0
  BY GenType DEF TypeInv, AttemptsTyped
<1>2. QED
  BY <1>1 DEF CoreInv, CurrentNamed, NoIdentity

LEMMA OutcomeCalls ==
  ASSUME TypeInv, CoreInv, CallInv, NEW g \in Gen, Outcome(g)
  PROVE  CallInv'
<1>1. UNCHANGED <<callers, requested, attemptGeneration, lastIdentity>>
  BY DEF Outcome, AdoptClient, IgnoreClient, FailAttempt, TimerFires, Fails, entry, memory
<1>2. \A h \in Gen : attempts[h].native = "none" => attempts'[h].native = "none"
  BY StartedIsPast DEF TypeInv, AttemptsTyped, Attempt, Outcome, AdoptClient, IgnoreClient,
                       NativeSucceeds, FailAttempt, TimerFires
<1>3. CASE FailAttempt(g) \/ TimerFires(g)
  <2>1. initPromise' \in {0, initPromise} /\ UNCHANGED activeClient
    BY <1>3 DEF FailAttempt, TimerFires, Fails, EntryFails
  <2>2. QED
    BY <1>1, <1>2, <2>1, CalmCalls
<1>4. CASE AdoptClient(g) /\ ~IsCurrent(g)
  <2>1. UNCHANGED <<initPromise, activeClient>>
    BY <1>4 DEF AdoptClient, IgnoreClient, entry
  <2>2. QED
    BY <1>1, <1>2, <2>1, CalmCalls
<1>5. CASE AdoptClient(g) /\ IsCurrent(g)
  <2>1. g = attemptGeneration /\ attempts[g].native = "running"
    BY <1>5 DEF AdoptClient, IsCurrent
  <2>2. \A c \in Caller : ~Held(c)
    BY <2>1 DEF CallInv, HeldQuiet
  <2>3. lastIdentity # NoIdentity
    BY <2>1, NothingCurrent
  <2>4. requested
    BY <2>3 DEF CallInv, SignedOutStaysOut, TypeInv, FlagsTyped
  <2>5. QED
    BY <1>1, <2>2, <2>4 DEF CallInv, Exclusive, HeldQuiet, Forgotten, ResetAlone,
                            SwitchRequested, SignedOutStaysOut, Held, Suspensions
<1>6. QED
  BY <1>3, <1>4, <1>5 DEF Outcome

LEMMA HostCallCalls ==
  ASSUME TypeInv, CoreInv, ModuleInv, CallInv, HostSerializes, NEW c \in Caller, HostCall(c)
  PROVE  CallInv'
<1> DEFINE id(a, signer) == [address |-> a, signer |-> signer]
<1>0. \A a \in Addr, signer \in BOOLEAN : id(a, signer) \in Identity
  BY DEF Identity
<1>1. \A d \in Caller : ~Held(d)
  BY DEF HostCall, GetOrCreateXmtpClient, OpenXmtpClient, ResetXmtpLocalState,
         ResetWithoutClient, DropXmtpClient, HostMayCall, HostMayReset, Held, Suspensions
<1>2. ASSUME NEW a \in Addr, GetOrCreateXmtpClient(c, a) PROVE CallInv'
  BY <1>0, <1>1, <1>2, EnterCalls DEF GetOrCreateXmtpClient
<1>3. ASSUME NEW a \in Addr, OpenXmtpClient(c, a) PROVE CallInv'
  BY <1>0, <1>1, <1>3, EnterCalls DEF OpenXmtpClient, Enter
<1>4. ASSUME NEW a \in Addr, ResetXmtpLocalState(c, a) PROVE CallInv'
  <2>1. /\ initPromise' = 0 /\ attemptGeneration' # 0 /\ requested'
        /\ attempts'[attemptGeneration'].native = "none"
    BY <1>4, TearDownModule DEF ResetXmtpLocalState, TypeInv, EntryTyped
  <2>2. /\ callers'[c].pc = "deleting"
        /\ \A d \in Caller \ {c} : callers'[d] = callers[d] /\ callers[d].pc = "idle"
    BY <1>4 DEF ResetXmtpLocalState, Suspend, HostMayReset, TypeInv, CallersTyped
  <2>3. SignedOutStaysOut'
    BY <2>1 DEF SignedOutStaysOut
  <2>4. QED
    BY <1>1, <2>1, <2>2, <2>3, SoleCall
<1>5. ASSUME NEW a \in Addr, ResetWithoutClient(c, a) PROVE CallInv'
  BY <1>1, <1>5 DEF ResetWithoutClient, CallInv, Exclusive, HeldQuiet, Forgotten, ResetAlone,
                    SwitchRequested, SignedOutStaysOut, Held, Suspensions
<1>6. CASE DropXmtpClient(c)
  <2>1. /\ initPromise' = 0 /\ attemptGeneration' # 0 /\ activeClient' = 0
        /\ attempts'[attemptGeneration'].native = "none" /\ lastIdentity' = NoIdentity
    BY <1>6, TearDownModule DEF DropXmtpClient, TearDown, TypeInv, EntryTyped
  <2>2. /\ callers'[c].pc \in {"idle", "dropping"}
        /\ \A d \in Caller \ {c} : callers'[d] = callers[d]
    BY <1>6 DEF DropXmtpClient, Suspend, Finish, Idle, TypeInv, CallersTyped
  <2>3. SignedOutStaysOut'
    BY <2>1 DEF SignedOutStaysOut
  <2>4. QED
    BY <1>1, <2>1, <2>2, <2>3, SoleCall
<1>7. QED
  BY <1>2, <1>3, <1>4, <1>5, <1>6 DEF HostCall

LEMMA ContinuationCalls ==
  ASSUME TypeInv, CoreInv, ModuleInv, CallInv, NEW c \in Caller, Continuation(c)
  PROVE  CallInv'
<1>1. CASE NativeDropReturns(c)
  <2>1. \A d \in Caller : callers'[d].pc \in {callers[d].pc, "idle"}
    BY <1>1 DEF NativeDropReturns, Finish, Idle, TypeInv, CallersTyped, CallState
  <2>2. callers[c].gen \in Gen
    BY <1>1, NonzeroIsGen DEF TypeInv, CallersTyped, CallState, NativeDropReturns
  <2>3. \A g \in Gen : attempts[g].native = "none" => attempts'[g].native = "none"
    BY <1>1, <2>2 DEF NativeDropReturns, DropNative
  <2>4. UNCHANGED <<attemptGeneration, lastIdentity, activeClient, requested, initPromise>>
    BY <1>1 DEF NativeDropReturns, entry, memory
  <2>5. QED
    BY <2>1, <2>3, <2>4, CalmCalls
<1>2. CASE SwitchResumes(c)
  <2>1. Held(c) /\ requested'
    BY <1>2 DEF SwitchResumes, Held, Suspensions, CallInv, SwitchRequested
  <2>2. \A d \in Caller \ {c} : ~Held(d)
    BY <2>1 DEF CallInv, Exclusive
  <2>3. SignedOutStaysOut'
    BY <2>1 DEF SignedOutStaysOut
  <2>4. /\ callers'[c].pc = "idle"
        /\ \A d \in Caller \ {c} : callers'[d] = callers[d]
    BY <1>2 DEF SwitchResumes, Finish, Idle, TypeInv, CallersTyped
  <2>5. QED
    BY <2>2, <2>3, <2>4, SoleCall DEF Suspensions
<1>3. CASE DeleteReturns(c)
  <2>1. Held(c) /\ callers[c].pc = "deleting"
    BY <1>3 DEF DeleteReturns, Held, Suspensions
  <2>2. \A d \in Caller \ {c} : ~Held(d)
    BY <2>1 DEF CallInv, Exclusive
  <2>3. /\ callers'[c].pc = "resetDropping"
        /\ \A d \in Caller \ {c} : callers'[d] = callers[d]
    BY <1>3 DEF DeleteReturns, TypeInv, CallersTyped, CallState
  <2>4. /\ UNCHANGED <<initPromise, attemptGeneration, attempts, requested, activeClient,
                       lastIdentity>>
        /\ initPromise = 0 /\ attemptGeneration # 0
        /\ attempts[attemptGeneration].native = "none"
    BY <1>3, <2>1 DEF DeleteReturns, entry, memory, CallInv, HeldQuiet
  <2>5. requested /\ \A d \in Caller \ {c} : callers[d].pc = "idle"
    BY <2>1 DEF CallInv, ResetAlone
  <2>6. SignedOutStaysOut'
    BY <2>4, <2>5 DEF SignedOutStaysOut
  <2>7. QED
    BY <2>2, <2>3, <2>4, <2>5, <2>6, SoleCall
<1>4. CASE ResetResumes(c)
  <2>1. Held(c) /\ requested' /\ callers[c].id \in Identity /\ Enter(c, callers[c].id)
    BY <1>4 DEF ResetResumes, Held, Suspensions, CallInv, ResetAlone, TypeInv, CallersTyped,
                Starting
  <2>2. \A d \in Caller \ {c} : ~Held(d)
    BY <2>1 DEF CallInv, Exclusive
  <2>3. QED
    BY <2>1, <2>2, EnterCalls
<1>5. CASE WaiterResumes(c)
  <2>1. /\ callers[c].pc = "waiting" /\ callers[c].id \in Identity
        /\ lastIdentity.address = callers[c].id.address /\ Enter(c, callers[c].id)
    BY <1>5 DEF WaiterResumes, StillWanted, TypeInv, CallersTyped, Starting
  <2>2. lastIdentity # NoIdentity
    BY <2>1 DEF NoIdentity, Identity
  <2>3. requested'
    BY <1>5, <2>2 DEF WaiterResumes, CallInv, SignedOutStaysOut
  <2>4. \A d \in Caller \ {c} : ~Held(d)
    BY <2>1, <2>2 DEF CallInv, Forgotten, ResetAlone, Held, Suspensions
  <2>5. QED
    BY <2>1, <2>3, <2>4, EnterCalls
<1>6. CASE WaiterReturns(c)
  <2>1. \A d \in Caller : callers'[d].pc \in {callers[d].pc, "idle"}
    BY <1>6 DEF WaiterReturns, Finish, Idle, TypeInv, CallersTyped, CallState
  <2>2. QED
    BY <1>6, <2>1, CalmCalls DEF WaiterReturns, entry, memory
<1>7. QED
  BY <1>1, <1>2, <1>3, <1>4, <1>5, <1>6 DEF Continuation

LEMMA NextCalls ==
  ASSUME TypeInv, CoreInv, ModuleInv, CallInv, HostSerializes, [Next]_vars
  PROVE  CallInv'
<1>1. ASSUME NEW c \in Caller, HostCall(c) \/ Continuation(c) PROVE CallInv'
  BY <1>1, HostCallCalls, ContinuationCalls
<1>2. CASE RetryXmtpClient
  <2>1. /\ requested' /\ UNCHANGED callers
        /\ \A d \in Caller : ~Held(d)
    BY <1>2 DEF RetryXmtpClient, RetryStarts, HostMayCall, CallInv, SignedOutStaysOut, Held
  <2>2. QED
    BY <2>1 DEF CallInv, Exclusive, HeldQuiet, Forgotten, ResetAlone, SwitchRequested,
                SignedOutStaysOut, Held, Suspensions
<1>3. CASE RetryDone \/ UNCHANGED vars
  BY <1>3, CalmCalls DEF RetryDone, vars, entry, memory
<1>4. ASSUME NEW g \in Gen, Outcome(g) PROVE CallInv'
  BY <1>4, OutcomeCalls
<1>5. CASE ProcessRestart
  BY <1>5 DEF ProcessRestart, CallInv, Exclusive, HeldQuiet, Forgotten, ResetAlone,
              SwitchRequested, SignedOutStaysOut, Held, Suspensions, Idle
<1>6. QED
  BY <1>1, <1>2, <1>3, <1>4, <1>5 DEF Next

LEMMA SerialInvariant == ASSUME HostSerializes PROVE Spec => [](ModuleInv /\ CallInv)
<1>1. TypeInv /\ CoreInv /\ ModuleInv /\ CallInv /\ [Next]_vars => (ModuleInv /\ CallInv)'
  BY NextModule, NextCalls
<1>2. QED
  BY <1>1, TypeInvariant, CoreInvariant, InitSerial, PTL DEF Spec

\* A ready client is the client of the wallet shown, and of the most recent attempt, for
\* every host that serializes its lifecycle calls.
THEOREM ReadyIsOwnWallet == ASSUME HostSerializes PROVE Spec => []ReadyMatchesWallet
  BY SerialInvariant, PTL DEF ModuleInv

\* For such a host two pending creations are separated by a sign-out, switch or reset.
THEOREM OneInFlight == ASSUME HostSerializes PROVE Spec => []SingleFlight
  BY SerialInvariant, PTL DEF ModuleInv

\* For such a host a sign-out lasts until the host asks for a client again.
THEOREM SignOutLasts == ASSUME HostSerializes PROVE Spec => []SignedOutStaysOut
  BY SerialInvariant, PTL DEF CallInv

\* For such a host the active client's installation is never dropped under it.
THEOREM ActiveIsAlive == ASSUME HostSerializes PROVE Spec => []ActiveClientAlive
  BY SerialInvariant, PTL DEF ModuleInv

-----------------------------------------------------------------------------
(* The status that subscribers see implements Session.                      *)

SessionStep == S!SessionNext \/ UNCHANGED Shown

\* What the snapshot shows, from the module state it reflects.
LEMMA ShownValue ==
  ASSUME TypeInv, CoreInv
  PROVE  /\ activeClient # 0 => Shown = S!SessionStatus("ready", activeAddress)
         /\ activeClient = 0 /\ initPromise # 0
              => Shown = S!SessionStatus("initializing", activeAddress)
         /\ initPromise = 0 /\ lastIdentity # NoIdentity /\ lastError # "none"
              => Shown = S!SessionStatus("failed", lastIdentity.address)
         /\ initPromise = 0 /\ (lastIdentity = NoIdentity \/ lastError = "none")
              => Shown = S!SessionIdle
  BY DEF CoreInv, SnapshotFresh, EntryPaired, DeriveStatus, Status, IdleStatus, Shown,
         S!SessionStatus, S!SessionIdle

\* Every attempt starts over a status that is not ready.
LEMMA StartBegins ==
  ASSUME TypeInv, CoreInv, CoreInv', TypeInv', NEW id \in Identity, NEW gen \in Gen,
         StartAttempt(id, gen), activeClient = 0
  PROVE  SessionStep
<1>1. Shown.state # "ready"
  BY ShownValue DEF S!SessionStatus, S!SessionIdle
<1>2. id.address \in Addr
  BY DEF Identity
<1>3. Shown' = S!SessionStatus("initializing", id.address)
  <2>1. activeClient' = 0 /\ initPromise' # 0 /\ activeAddress' = id.address
    BY GenType DEF StartAttempt
  <2>2. QED
    BY <2>1, ShownValue DEF CoreInv, SnapshotFresh, DeriveStatus, Status, Shown,
                            S!SessionStatus, NotifyLifecycle, StartAttempt, EntryPaired
<1>4. QED
  BY <1>1, <1>2, <1>3 DEF SessionStep, S!SessionNext, S!Begin

\* A teardown, a reset and a restart end at idle.
LEMMA EmptiedEnds ==
  ASSUME statusSnapshot' = IdleStatus, TypeInv, CoreInv
  PROVE  SessionStep
<1>1. Shown' = S!SessionIdle
  BY DEF Shown, IdleStatus, Status, S!SessionIdle, S!SessionStatus
<1>2. Shown.state = "idle" => Shown = S!SessionIdle
  BY ShownValue DEF S!SessionStatus, S!SessionIdle
<1>3. QED
  BY <1>1, <1>2 DEF SessionStep, S!SessionNext, S!End

LEMMA TearDownIdles ==
  ASSUME TearDown
  PROVE  statusSnapshot' = IdleStatus
  BY DEF TearDown, NotifyLifecycle, DeriveStatus, IdleStatus, Status

LEMMA EnterSession ==
  ASSUME TypeInv, CoreInv, TypeInv', CoreInv', NEW c \in Caller, NEW id \in Identity,
         Enter(c, id)
  PROVE  SessionStep
<1>1. CASE Join(c, id)
  BY <1>1 DEF Join, SessionStep, Shown
<1>2. CASE BeginDirect(c, id)
  <2>1. activeClient = 0
    BY <1>2 DEF BeginDirect, JoinsEntry, CoreInv, EntryPaired
  <2>2. attemptGeneration + 1 \in Gen
    BY <1>2 DEF BeginDirect, StartAttempt, Gen, TypeInv, EntryTyped
  <2>3. QED
    BY <1>2, <2>1, <2>2, StartBegins DEF BeginDirect
<1>3. CASE BeginSwitch(c, id)
  BY <1>3, TearDownIdles, EmptiedEnds DEF BeginSwitch
<1>4. QED
  BY <1>1, <1>2, <1>3 DEF Enter

LEMMA HostCallSession ==
  ASSUME TypeInv, CoreInv, TypeInv', CoreInv', NEW c \in Caller, HostCall(c)
  PROVE  SessionStep
<1>1. ASSUME NEW a \in Addr, GetOrCreateXmtpClient(c, a) PROVE SessionStep
  <2>1. [address |-> a, signer |-> TRUE] \in Identity
    BY DEF Identity
  <2>2. QED
    BY <1>1, <2>1, EnterSession DEF GetOrCreateXmtpClient
<1>2. ASSUME NEW a \in Addr, OpenXmtpClient(c, a) PROVE SessionStep
  <2>1. [address |-> a, signer |-> FALSE] \in Identity
    BY DEF Identity
  <2>2. QED
    BY <1>2, <2>1, EnterSession DEF OpenXmtpClient, Enter
<1>3. ASSUME NEW a \in Addr, ResetXmtpLocalState(c, a) PROVE SessionStep
  <2>1. lastError' = "none"
    BY <1>3 DEF ResetXmtpLocalState, memory, CoreInv, ClientIsPast
  <2>2. statusSnapshot' = IdleStatus
    BY <1>3, <2>1 DEF ResetXmtpLocalState, NotifyLifecycle, DeriveStatus, IdleStatus, Status
  <2>3. QED
    BY <2>2, EmptiedEnds
<1>4. ASSUME NEW a \in Addr, ResetWithoutClient(c, a) PROVE SessionStep
  <2>1. [address |-> a, signer |-> TRUE] \in Identity /\ attemptGeneration + 2 \in Gen
    BY <1>4 DEF Identity, ResetWithoutClient, StartAttempt, Gen, TypeInv, EntryTyped
  <2>2. QED
    BY <1>4, <2>1, StartBegins DEF ResetWithoutClient
<1>5. CASE DropXmtpClient(c)
  BY <1>5, TearDownIdles, EmptiedEnds DEF DropXmtpClient
<1>6. QED
  BY <1>1, <1>2, <1>3, <1>4, <1>5 DEF HostCall

\* Only here does the host's discipline matter: the attempt that a switch starts after its
\* await looks at nothing, and finds no client because no other call came between.
LEMMA ContinuationSession ==
  ASSUME TypeInv, CoreInv, TypeInv', CoreInv', CallInv, NEW c \in Caller, Continuation(c)
  PROVE  SessionStep
<1>1. CASE NativeDropReturns(c) \/ DeleteReturns(c) \/ WaiterReturns(c)
  BY <1>1 DEF NativeDropReturns, DeleteReturns, WaiterReturns, SessionStep, Shown
<1>2. CASE SwitchResumes(c)
  <2>1. activeClient = 0
    BY <1>2 DEF SwitchResumes, CallInv, HeldQuiet, Held, Suspensions, CoreInv, EntryPaired
  <2>2. callers[c].id \in Identity /\ attemptGeneration + 1 \in Gen
    BY <1>2 DEF SwitchResumes, StartAttempt, Gen, TypeInv, EntryTyped, CallersTyped, Starting
  <2>3. QED
    BY <1>2, <2>1, <2>2, StartBegins DEF SwitchResumes
<1>3. CASE ResetResumes(c) \/ WaiterResumes(c)
  <2>1. callers[c].id \in Identity
    BY <1>3 DEF ResetResumes, WaiterResumes, TypeInv, CallersTyped, Starting
  <2>2. QED
    BY <1>3, <2>1, EnterSession DEF ResetResumes, WaiterResumes
<1>4. QED
  BY <1>1, <1>2, <1>3 DEF Continuation

\* A late success turns a failure of the same wallet ready; nothing else is announced of
\* an attempt that is no longer current.
LEMMA OutcomeSession ==
  ASSUME TypeInv, CoreInv, TypeInv', CoreInv', NEW g \in Gen, Outcome(g)
  PROVE  SessionStep
<1>1. /\ attempts[g].native # "none" => attempts[g].address \in Addr
      /\ lastIdentity \in Identity \cup {NoIdentity}
      /\ lastError \in {"none", "native", "timeout"} /\ g # 0
  BY GenType DEF TypeInv, AttemptsTyped, MemoryTyped
<1>2. CASE AdoptClient(g)
  <2>1. CASE ~IsCurrent(g)
    BY <1>2, <2>1 DEF AdoptClient, IgnoreClient, SessionStep, Shown
  <2>2. CASE IsCurrent(g)
    <3>1. /\ attempts[g].native = "running" /\ g = attemptGeneration /\ activeClient = 0
          /\ activeClient' = g /\ activeAddress' = attempts[g].address
      BY <1>2, <2>2 DEF AdoptClient, IsCurrent
    <3>2. Shown' = S!SessionStatus("ready", attempts[g].address)
      BY <1>1, <1>2, <2>2, <3>1
         DEF AdoptClient, NotifyLifecycle, DeriveStatus, Status, Shown, S!SessionStatus
    <3>3. lastIdentity.address = attempts[g].address /\ lastIdentity # NoIdentity
      BY <1>1, <3>1 DEF CoreInv, CurrentNamed, NoIdentity
    <3>4. CASE initPromise # 0
      <4>1. Shown = S!SessionStatus("initializing", attempts[g].address)
        BY <3>1, <3>3, <3>4, ShownValue DEF CoreInv, EntryPaired
      <4>2. QED
        BY <3>2, <4>1 DEF SessionStep, S!SessionNext, S!Ready, S!SessionStatus
    <3>5. CASE initPromise = 0
      <4>1. lastError = "timeout"
        BY <1>1, <3>1, <3>5 DEF CoreInv, TimedOutFirst
      <4>2. Shown = S!SessionStatus("failed", attempts[g].address)
        BY <3>3, <3>5, <4>1, ShownValue
      <4>3. QED
        BY <3>2, <4>2 DEF SessionStep, S!SessionNext, S!Ready, S!SessionStatus
    <3>6. QED
      BY <3>4, <3>5
  <2>3. QED
    BY <2>1, <2>2
<1>3. ASSUME NEW error \in {"none", "native", "timeout"}, Fails(g, error),
             initPromise # 0 => error # "none", initPromise = 0 => error = lastError
      PROVE  SessionStep
  <2>1. CASE ~IsCurrent(g)
    BY <1>3, <2>1 DEF Fails, SessionStep, Shown
  <2>2. CASE IsCurrent(g) /\ initPromise # 0
    <3>1. /\ activeClient = 0 /\ activeClient' = 0 /\ initPromise' = 0
          /\ lastError' = error /\ error # "none" /\ lastIdentity' = lastIdentity
      BY <1>3, <2>2 DEF Fails, IsCurrent, EntryFails
    <3>2. lastIdentity.address = activeAddress /\ activeAddress # NoAddr
      BY <2>2 DEF CoreInv, EntryPaired
    <3>3. lastIdentity # NoIdentity
      BY <3>2 DEF NoIdentity
    <3>4. Shown = S!SessionStatus("initializing", lastIdentity.address)
      BY <2>2, <3>1, <3>2, ShownValue
    <3>5. Shown' = S!SessionStatus("failed", lastIdentity.address)
      BY <1>3, <2>2, <3>1, <3>3
         DEF Fails, EntryFails, NotifyLifecycle, DeriveStatus, Status, Shown, S!SessionStatus
    <3>6. QED
      BY <3>4, <3>5 DEF SessionStep, S!SessionNext, S!Fail, S!SessionStatus
  <2>3. CASE IsCurrent(g) /\ initPromise = 0
    <3>1. UNCHANGED <<initPromise, activeClient, activeAddress, lastIdentity, lastError>>
      BY <1>3, <2>3 DEF Fails, EntryFails, CoreInv, EntryPaired
    <3>2. DeriveStatus' = DeriveStatus
      BY <3>1 DEF DeriveStatus
    <3>3. UNCHANGED statusSnapshot
      BY <3>2 DEF CoreInv, SnapshotFresh
    <3>4. QED
      BY <3>3 DEF SessionStep, Shown
  <2>4. QED
    BY <2>1, <2>2, <2>3
<1>4. CASE FailAttempt(g)
  BY <1>1, <1>3, <1>4 DEF FailAttempt
<1>5. CASE TimerFires(g)
  <2>1. CASE ~IsCurrent(g)
    BY <1>5, <2>1 DEF TimerFires, Fails, SessionStep, Shown
  <2>2. CASE IsCurrent(g)
    <3>1. attempts[g].native = "running" /\ g = attemptGeneration
      BY <1>5, <2>2 DEF TimerFires, IsCurrent, CoreInv, PromiseAndNative
    <3>2. initPromise # 0
      BY <1>1, <1>5, <3>1 DEF TimerFires, CoreInv, GivenUp
    <3>3. QED
      BY <1>3, <1>5, <3>2 DEF TimerFires
  <2>3. QED
    BY <2>1, <2>2
<1>6. QED
  BY <1>2, <1>4, <1>5 DEF Outcome

LEMMA NextSession ==
  ASSUME TypeInv, CoreInv, TypeInv', CoreInv', CallInv, [Next]_vars
  PROVE  [S!SessionNext]_Shown
<1>1. ASSUME NEW c \in Caller, HostCall(c) \/ Continuation(c) PROVE SessionStep
  BY <1>1, HostCallSession, ContinuationSession
<1>2. CASE RetryXmtpClient
  <2>1. lastIdentity \in Identity /\ attemptGeneration + 1 \in Gen
    BY <1>2 DEF RetryXmtpClient, RetryStarts, StartAttempt, Gen, TypeInv, EntryTyped, MemoryTyped
  <2>2. QED
    BY <1>2, <2>1, StartBegins DEF RetryXmtpClient, RetryStarts, SessionStep
<1>3. CASE RetryDone \/ UNCHANGED vars
  BY <1>3 DEF RetryDone, vars, SessionStep, Shown
<1>4. ASSUME NEW g \in Gen, Outcome(g) PROVE SessionStep
  BY <1>4, OutcomeSession
<1>5. CASE ProcessRestart
  BY <1>5, EmptiedEnds DEF ProcessRestart, SessionStep
<1>6. QED
  BY <1>1, <1>2, <1>3, <1>4, <1>5 DEF Next, SessionStep

\* For a host that serializes its lifecycle calls the module implements Session: what the
\* inbox, the badge, the engine and the thread hooks are written against.
THEOREM LifecycleImplementsSession == ASSUME HostSerializes PROVE Spec => ImplementsSession
<1>1. Init => S!SessionInit
  BY DEF Init, IdleStatus, Status, Shown, S!SessionInit, S!SessionIdle, S!SessionStatus
<1>2. /\ TypeInv /\ CoreInv /\ CallInv /\ TypeInv' /\ CoreInv' /\ [Next]_vars
        => [S!SessionNext]_Shown
  BY NextSession
<1>3. QED
  BY <1>1, <1>2, TypeInvariant, CoreInvariant, SerialInvariant, PTL
     DEF Spec, ImplementsSession, S!SessionSpec
=============================================================================
