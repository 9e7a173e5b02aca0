----------------------------- MODULE Groups_proofs -----------------------------
(* Proofs about groups: GroupThread, for every set of groups and any number *)
(* of runs of its effect, and Groups, for every set of members and devices, *)
(* every group to start from and every roster.                              *)
EXTENDS GroupThread, Groups, TLAPS

-----------------------------------------------------------------------------
(* The group thread: the inductive invariant *)

\* Only the mounted run is not cancelled, and it is of the group on screen.
OneMounted == \A r \in GroupRun : grpRuns[r].cancelled <=> r # grpRunNow
OfGroup == grpRuns[grpRunNow].group = grpId

\* From the moment its group was found, the mounted run has named the screen.
Titled ==
    grpPhase = "ready" \/ grpRuns[grpRunNow].pc \in {"syncing", "loading", "subscribing", "open"}
        => grpName = grpId

\* A native stream is on from the moment it is asked for, and a run that was cancelled is
\* never attached: its cleanup, or the answer to its request, has stopped the stream.
Streams ==
    \A r \in GroupRun :
        /\ grpRuns[r].live => grpRuns[r].pc \in {"subscribing", "open"}
        /\ grpRuns[r].pc = "open" => ~grpRuns[r].cancelled

Screen ==
    /\ \A m \in grpShown : m.group = grpId
    /\ {grpRef, grpMembers} \subseteq {grpId, NoGroup}

ThreadInv ==
    /\ GroupThreadTypeOK
    /\ OneMounted
    /\ OfGroup
    /\ Titled
    /\ Streams
    /\ Screen

-----------------------------------------------------------------------------
(* What the helpers return *)

LEMMA NewerType ==
  ASSUME NEW m \in 0..MaxPosts, NEW n \in 0..MaxPosts
  PROVE  NewerOf(m, n) \in 0..MaxPosts
  BY DEF NewerOf

\* The run of a new effect replaces the mounted one, whose cleanup cancels it.
LEMMA EffectRuns ==
  ASSUME ThreadInv, NEW g \in Group, NEW r \in GroupRun, NEW new \in GroupRunState,
         grpRuns[r].cancelled, ~new.cancelled, ~new.live, new.pc \in {"finding", "done"},
         new.group = g, grpRunNow' = r,
         grpRuns' = [CancelRun(grpRunNow) EXCEPT ![r] = new]
  PROVE  /\ grpRuns' \in [GroupRun -> GroupRunState]
         /\ grpRuns'[r] = new
         /\ OneMounted'
         /\ Streams'
<1> DEFINE attached == grpRuns[grpRunNow].pc = "open"
           old == [grpRuns[grpRunNow] EXCEPT !.cancelled = TRUE,
                       !.pc = IF attached THEN "done" ELSE @,
                       !.live = (@ /\ ~attached)]
<1>1. grpRunNow \in GroupRun /\ grpRuns \in [GroupRun -> GroupRunState]
  BY DEF ThreadInv, GroupThreadTypeOK
<1>2. /\ CancelRun(grpRunNow) \in [GroupRun -> GroupRunState]
      /\ CancelRun(grpRunNow)[grpRunNow].cancelled
      /\ CancelRun(grpRunNow)[grpRunNow].pc # "open"
      /\ CancelRun(grpRunNow)[grpRunNow].live => grpRuns[grpRunNow].live
                                                 /\ CancelRun(grpRunNow)[grpRunNow].pc = grpRuns[grpRunNow].pc
      /\ \A q \in GroupRun : q # grpRunNow => CancelRun(grpRunNow)[q] = grpRuns[q]
  BY <1>1 DEF CancelRun, GroupRunState
<1>3. \A q \in GroupRun : grpRuns'[q] = IF q = r THEN new ELSE CancelRun(grpRunNow)[q]
  BY <1>2
<1>4. grpRuns' \in [GroupRun -> GroupRunState]
  BY <1>2
<1>5. OneMounted'
  BY <1>2, <1>3 DEF OneMounted, ThreadInv
<1>6. Streams'
  BY <1>2, <1>3 DEF Streams, ThreadInv
<1>7. QED
  BY <1>3, <1>4, <1>5, <1>6

\* A run that goes on, mounted or not, keeps its group and its flag.
LEMMA RunGoes ==
  ASSUME ThreadInv, NEW r \in GroupRun,
         NEW pc \in {"syncing", "loading", "subscribing", "open", "done"}, NEW live \in BOOLEAN,
         live => pc \in {"subscribing", "open"}, pc = "open" => ~grpRuns[r].cancelled,
         grpRuns' = [grpRuns EXCEPT ![r].pc = pc, ![r].live = live],
         grpRunNow' = grpRunNow, grpId' = grpId
  PROVE  /\ grpRuns' \in [GroupRun -> GroupRunState]
         /\ OneMounted'
         /\ OfGroup'
         /\ Streams'
         /\ grpRuns'[grpRunNow].pc = IF r = grpRunNow THEN pc ELSE grpRuns[grpRunNow].pc
<1>1. grpRunNow \in GroupRun /\ grpRuns \in [GroupRun -> GroupRunState]
  BY DEF ThreadInv, GroupThreadTypeOK
<1>2. /\ grpRuns' \in [GroupRun -> GroupRunState]
      /\ \A q \in GroupRun : /\ grpRuns'[q].group = grpRuns[q].group
                             /\ grpRuns'[q].cancelled = grpRuns[q].cancelled
                             /\ grpRuns'[q].pc = IF q = r THEN pc ELSE grpRuns[q].pc
                             /\ grpRuns'[q].live = IF q = r THEN live ELSE grpRuns[q].live
  BY <1>1 DEF GroupRunState
<1>3. OneMounted' /\ OfGroup'
  BY <1>1, <1>2 DEF ThreadInv, OneMounted, OfGroup
<1>4. Streams'
  BY <1>2 DEF ThreadInv, Streams
<1>5. QED
  BY <1>1, <1>2, <1>3, <1>4


-----------------------------------------------------------------------------
(* The steps *)

LEMMA ThreadInitInv == GroupThreadInit => ThreadInv
<1> SUFFICES ASSUME GroupThreadInit PROVE ThreadInv
  OBVIOUS
<1>1. PICK r \in GroupRun :
         /\ grpRunNow = r
         /\ grpRuns = [q \in GroupRun |->
                IF q = r THEN [NoGroupRun EXCEPT !.group = grpId, !.cancelled = FALSE]
                         ELSE NoGroupRun]
  BY DEF GroupThreadInit
<1>2. /\ NoGroupRun \in GroupRunState /\ NoGroupRun.cancelled /\ ~NoGroupRun.live
      /\ NoGroupRun.pc = "done"
  BY DEF NoGroupRun, GroupRunState
<1> DEFINE first == [NoGroupRun EXCEPT !.group = grpId, !.cancelled = FALSE]
<1>3. /\ first \in GroupRunState /\ ~first.cancelled /\ ~first.live /\ first.pc = "done"
      /\ first.group = grpId
  BY DEF NoGroupRun, GroupRunState, GroupThreadInit
<1> HIDE DEF first
<1>4. /\ grpRuns \in [GroupRun -> GroupRunState]
      /\ \A q \in GroupRun : grpRuns[q] = IF q = r THEN first ELSE NoGroupRun
  BY <1>1, <1>2, <1>3 DEF first
<1>5. GroupThreadTypeOK
  BY <1>1, <1>4, MaxPostsAssumption DEF GroupThreadInit, GroupThreadTypeOK, MaxPostsAssumption
<1>6. OneMounted /\ OfGroup /\ Streams
  BY <1>1, <1>2, <1>3, <1>4 DEF OneMounted, OfGroup, Streams
<1>7. Titled /\ Screen
  BY <1>1, <1>3, <1>4 DEF Titled, Screen, GroupThreadInit
<1>8. QED
  BY <1>5, <1>6, <1>7 DEF ThreadInv

\* The effect runs again: for another group, for another status, or for a retry.
LEMMA ThreadEffectStep ==
  ASSUME ThreadInv, NEW g \in Group, NEW s, RunEffect(g, s)
  PROVE  ThreadInv'
<1>1. PICK r \in GroupRun :
         /\ Forgotten(r)
         /\ grpRunNow' = r
         /\ grpRuns' = [CancelRun(grpRunNow) EXCEPT ![r] =
                [pc |-> IF s.state = "ready" THEN "finding" ELSE "done", group |-> g,
                 cancelled |-> FALSE, live |-> FALSE]]
  BY DEF RunEffect
<1> DEFINE new == [pc |-> IF s.state = "ready" THEN "finding" ELSE "done", group |-> g,
                   cancelled |-> FALSE, live |-> FALSE]
<1>2. /\ new \in GroupRunState /\ ~new.cancelled /\ ~new.live
      /\ new.pc \in {"finding", "done"} /\ new.group = g
  BY DEF GroupRunState
<1>3. grpRuns' = [CancelRun(grpRunNow) EXCEPT ![r] = new]
  BY <1>1
<1> HIDE DEF new
<1>4. grpRuns[r].cancelled
  BY <1>1 DEF Forgotten
<1>5. /\ grpRuns' \in [GroupRun -> GroupRunState]
      /\ grpRuns'[r] = new /\ OneMounted' /\ Streams'
  BY <1>1, <1>2, <1>3, <1>4, EffectRuns
<1>6. /\ grpId' = g /\ grpRef' = NoGroup /\ grpShown' = {} /\ grpMembers' = NoGroup
      /\ grpPhase' \in {"loading", "unavailable"}
      /\ UNCHANGED <<grpReads, grpName, grpPosted, grpSeen>>
  BY DEF RunEffect
<1>7. GroupThreadTypeOK'
  BY <1>1, <1>5, <1>6 DEF ThreadInv, GroupThreadTypeOK
<1>8. OfGroup' /\ Titled' /\ Screen'
  BY <1>1, <1>2, <1>5, <1>6 DEF OfGroup, Titled, Screen
<1>9. QED
  BY <1>5, <1>7, <1>8 DEF ThreadInv

\* A continuation that moves its run and changes at most the phase.
LEMMA MoveStep ==
  ASSUME ThreadInv, NEW r \in GroupRun,
         NEW pc \in {"syncing", "loading", "subscribing", "open", "done"}, NEW live \in BOOLEAN,
         live => pc \in {"subscribing", "open"}, pc = "open" => ~grpRuns[r].cancelled,
         grpRuns' = [grpRuns EXCEPT ![r].pc = pc, ![r].live = live],
         grpRuns[r].pc \in {"finding", "done"} => pc = "done",
         grpPhase' \in {grpPhase, "notFound", "error"},
         grpReads' = grpReads \/ grpReads' = grpReads \cup {[run |-> r, kind |-> "members"]},
         UNCHANGED <<grpId, grpRunNow, grpRef, grpName, grpMembers, grpShown, grpPosted, grpSeen>>
  PROVE  ThreadInv'
<1>1. /\ grpRuns' \in [GroupRun -> GroupRunState]
      /\ OneMounted' /\ OfGroup' /\ Streams'
      /\ grpRuns'[grpRunNow].pc = IF r = grpRunNow THEN pc ELSE grpRuns[grpRunNow].pc
  BY RunGoes
<1>2. GroupThreadTypeOK'
  BY <1>1 DEF ThreadInv, GroupThreadTypeOK
<1>3. grpRunNow \in GroupRun /\ grpRuns[grpRunNow].pc \in
         {"finding", "syncing", "loading", "subscribing", "open", "done"}
  BY DEF ThreadInv, GroupThreadTypeOK, GroupRunState
<1>4. Titled'
  BY <1>1, <1>3 DEF ThreadInv, Titled
<1>5. Screen'
  BY DEF ThreadInv, Screen
<1>6. QED
  BY <1>1, <1>2, <1>4, <1>5 DEF ThreadInv

\* A run that moves on its own keeps its stream as it is.
LEMMA GoesExact ==
  ASSUME ThreadInv, NEW r \in GroupRun, NEW pc, GroupGoes(r, pc)
  PROVE  /\ grpRuns[r].live \in BOOLEAN
         /\ grpRuns' = [grpRuns EXCEPT ![r].pc = pc, ![r].live = grpRuns[r].live]
  BY DEF ThreadInv, GroupThreadTypeOK, GroupRunState, GroupGoes

LEMMA ReturnsStep ==
  ASSUME ThreadInv, NEW r \in GroupRun, RunReturns(r) \/ GroupNotFound(r) \/ GroupSynced(r)
  PROVE  ThreadInv'
<1>1. grpRuns[r].live => grpRuns[r].pc \in {"subscribing", "open"}
  BY DEF ThreadInv, Streams
<1>2. CASE RunReturns(r)
  <2>1. /\ grpRuns[r].live \in BOOLEAN
        /\ grpRuns' = [grpRuns EXCEPT ![r].pc = "done", ![r].live = grpRuns[r].live]
    BY <1>2, GoesExact DEF RunReturns
  <2>2. QED
    BY <1>1, <1>2, <2>1, MoveStep DEF RunReturns, grpScreen
<1>3. CASE GroupNotFound(r)
  <2>1. /\ grpRuns[r].live \in BOOLEAN
        /\ grpRuns' = [grpRuns EXCEPT ![r].pc = "done", ![r].live = grpRuns[r].live]
    BY <1>3, GoesExact DEF GroupNotFound
  <2>2. QED
    BY <1>1, <1>3, <2>1, MoveStep DEF GroupNotFound
<1>4. CASE GroupSynced(r)
  <2>1. /\ grpRuns[r].live \in BOOLEAN
        /\ grpRuns' = [grpRuns EXCEPT ![r].pc = "loading", ![r].live = grpRuns[r].live]
    BY <1>4, GoesExact DEF GroupSynced
  <2>2. QED
    BY <1>1, <1>4, <2>1, MoveStep DEF GroupSynced, grpScreen
<1>5. QED
  BY <1>2, <1>3, <1>4

LEMMA AttachStep ==
  ASSUME ThreadInv, NEW r \in GroupRun, StreamAttached(r) \/ GroupInitFails(r)
  PROVE  ThreadInv'
<1>1. grpRuns[r].cancelled \in BOOLEAN
  BY DEF ThreadInv, GroupThreadTypeOK, GroupRunState
<1>2. CASE StreamAttached(r)
  <2>1. CASE grpRuns[r].cancelled
    <3>1. grpRuns' = [grpRuns EXCEPT ![r].pc = "done", ![r].live = FALSE]
      BY <1>2, <2>1 DEF StreamAttached
    <3>2. QED
      BY <1>2, <2>1, <3>1, MoveStep DEF StreamAttached, grpScreen
  <2>2. CASE ~grpRuns[r].cancelled
    <3>1. grpRuns' = [grpRuns EXCEPT ![r].pc = "open", ![r].live = TRUE]
      BY <1>2, <2>2 DEF StreamAttached
    <3>2. QED
      BY <1>2, <2>2, <3>1, MoveStep DEF StreamAttached, grpScreen
  <2>3. QED
    BY <2>1, <2>2
<1>3. CASE GroupInitFails(r)
  BY <1>3, MoveStep DEF GroupInitFails
<1>4. QED
  BY <1>2, <1>3

LEMMA FoundStep ==
  ASSUME ThreadInv, NEW r \in GroupRun, GroupFound(r)
  PROVE  ThreadInv'
<1>1. /\ r = grpRunNow /\ grpRuns[r].group = grpId /\ grpRuns[r].pc = "finding"
  BY DEF GroupFound, ThreadInv, OneMounted, OfGroup
<1>2. /\ grpRuns[r].live \in BOOLEAN
      /\ grpRuns' = [grpRuns EXCEPT ![r].pc = "syncing", ![r].live = grpRuns[r].live]
  BY GoesExact DEF GroupFound
<1>3. ~grpRuns[r].live
  BY <1>1 DEF ThreadInv, Streams
<1>4. UNCHANGED <<grpId, grpRunNow, grpReads, grpPhase, grpMembers, grpShown, grpPosted, grpSeen>>
  BY DEF GroupFound
<1>5. /\ grpRuns' \in [GroupRun -> GroupRunState]
      /\ OneMounted' /\ OfGroup' /\ Streams'
  BY <1>2, <1>3, <1>4, RunGoes
<1>6. grpName' = grpId /\ grpRef' = grpId
  BY <1>1 DEF GroupFound
<1>7. GroupThreadTypeOK'
  BY <1>4, <1>5, <1>6 DEF ThreadInv, GroupThreadTypeOK
<1>8. Titled' /\ Screen'
  BY <1>4, <1>6 DEF ThreadInv, Titled, Screen
<1>9. QED
  BY <1>5, <1>7, <1>8 DEF ThreadInv

LEMMA LoadedStep ==
  ASSUME ThreadInv, NEW r \in GroupRun, GroupLoaded(r)
  PROVE  ThreadInv'
<1>1. /\ r = grpRunNow /\ grpRuns[r].group = grpId /\ grpRuns[r].pc = "loading"
      /\ grpId \in Group /\ grpPosted[grpId] \in 0..MaxPosts /\ grpSeen[grpId] \in 0..MaxPosts
  BY DEF GroupLoaded, ThreadInv, OneMounted, OfGroup, GroupThreadTypeOK
<1>2. UNCHANGED <<grpId, grpRunNow, grpReads, grpRef, grpName, grpMembers, grpPosted>>
  BY DEF GroupLoaded
<1>3. /\ grpRuns' \in [GroupRun -> GroupRunState]
      /\ OneMounted' /\ OfGroup' /\ Streams'
  BY <1>1, <1>2, RunGoes DEF GroupLoaded
<1>4. /\ grpShown' = Posts(grpId, grpPosted[grpId]) /\ grpPhase' = "ready"
      /\ grpSeen' = [grpSeen EXCEPT ![grpId] = NewerOf(grpSeen[grpId], grpPosted[grpId])]
  BY <1>1 DEF GroupLoaded
<1>5. \A m \in grpShown' : m \in [group : Group, n : 1..MaxPosts] /\ m.group = grpId
  BY <1>1, <1>4, MaxPostsAssumption DEF Posts, MaxPostsAssumption
<1>6. NewerOf(grpSeen[grpId], grpPosted[grpId]) \in 0..MaxPosts
  BY <1>1, NewerType
<1>7. GroupThreadTypeOK'
  BY <1>2, <1>3, <1>4, <1>5, <1>6 DEF ThreadInv, GroupThreadTypeOK
<1>8. Titled' /\ Screen'
  BY <1>1, <1>2, <1>5 DEF ThreadInv, Titled, Screen
<1>9. QED
  BY <1>3, <1>7, <1>8 DEF ThreadInv

LEMMA MessageStep ==
  ASSUME ThreadInv, NEW r \in GroupRun, NEW n \in 1..MaxPosts, GroupMessage(r, n)
  PROVE  ThreadInv'
<1>1. /\ grpRuns[r].group = grpId /\ grpId \in Group /\ grpSeen[grpId] \in 0..MaxPosts
  BY DEF GroupMessage, ThreadInv, OneMounted, OfGroup, GroupThreadTypeOK
<1>2. /\ grpShown' = grpShown \cup {[group |-> grpId, n |-> n]}
      /\ grpSeen' = [grpSeen EXCEPT ![grpId] = NewerOf(grpSeen[grpId], n)]
      /\ UNCHANGED <<grpId, grpRunNow, grpRuns, grpReads, grpRef, grpPhase, grpName,
                     grpMembers, grpPosted>>
  BY <1>1 DEF GroupMessage
<1>3. NewerOf(grpSeen[grpId], n) \in 0..MaxPosts
  <2>1. n \in 0..MaxPosts
    BY MaxPostsAssumption DEF MaxPostsAssumption
  <2>2. QED
    BY <1>1, <2>1, NewerType
<1>4. GroupThreadTypeOK'
  BY <1>1, <1>2, <1>3 DEF ThreadInv, GroupThreadTypeOK
<1>5. OneMounted' /\ OfGroup' /\ Streams' /\ Titled'
  BY <1>2 DEF ThreadInv, OneMounted, OfGroup, Streams, Titled
<1>6. Screen'
  BY <1>2 DEF ThreadInv, Screen
<1>7. QED
  BY <1>4, <1>5, <1>6 DEF ThreadInv

\* A reading of the info or the members is for the group of its run.
LEMMA ReadStep ==
  ASSUME ThreadInv, NEW read \in grpReads, InfoArrives(read) \/ MembersArrive(read)
  PROVE  ThreadInv'
<1>1. read \in [run : GroupRun, kind : {"info", "members"}]
  BY DEF ThreadInv, GroupThreadTypeOK
<1>2. ~grpRuns[read.run].cancelled => grpRuns[read.run].group = grpId
  BY <1>1 DEF ThreadInv, OneMounted, OfGroup
<1>3. /\ grpName' \in {grpName, grpId} /\ grpMembers' \in {grpMembers, grpId}
      /\ UNCHANGED <<grpId, grpRunNow, grpRuns, grpRef, grpPhase, grpShown, grpPosted, grpSeen>>
  BY <1>2 DEF InfoArrives, MembersArrive
<1>4. grpReads' \subseteq [run : GroupRun, kind : {"info", "members"}]
  BY <1>1 DEF InfoArrives, MembersArrive, ThreadInv, GroupThreadTypeOK
<1>5. GroupThreadTypeOK'
  BY <1>3, <1>4 DEF ThreadInv, GroupThreadTypeOK
<1>6. OneMounted' /\ OfGroup' /\ Streams'
  BY <1>3 DEF ThreadInv, OneMounted, OfGroup, Streams
<1>7. Titled' /\ Screen'
  BY <1>3 DEF ThreadInv, Titled, Screen
<1>8. QED
  BY <1>5, <1>6, <1>7 DEF ThreadInv

LEMMA NewsStep ==
  ASSUME ThreadInv, (\E r \in GroupRun : GroupUpdated(r)) \/ (\E g \in Group : GroupPost(g))
  PROVE  ThreadInv'
<1>1. UNCHANGED <<grpId, grpRunNow, grpRuns, grpRef, grpPhase, grpName, grpMembers, grpShown,
                  grpSeen>>
  BY DEF GroupUpdated, GroupPost, grpScreen
<1>2. grpPosted' \in [Group -> 0..MaxPosts]
  BY MaxPostsAssumption
     DEF GroupUpdated, GroupPost, ThreadInv, GroupThreadTypeOK, MaxPostsAssumption
<1>3. grpReads' \subseteq [run : GroupRun, kind : {"info", "members"}]
  BY DEF GroupUpdated, GroupPost, ThreadInv, GroupThreadTypeOK
<1>4. GroupThreadTypeOK'
  BY <1>1, <1>2, <1>3 DEF ThreadInv, GroupThreadTypeOK
<1>5. OneMounted' /\ OfGroup' /\ Streams' /\ Titled' /\ Screen'
  BY <1>1 DEF ThreadInv, OneMounted, OfGroup, Streams, Titled, Screen
<1>6. QED
  BY <1>4, <1>5 DEF ThreadInv

LEMMA ThreadStepInv == ThreadInv /\ [GroupThreadNext]_grpVars => ThreadInv'
<1> SUFFICES ASSUME ThreadInv, [GroupThreadNext]_grpVars PROVE ThreadInv'
  OBVIOUS
<1>1. CASE UNCHANGED grpVars
  BY <1>1 DEF grpVars, grpScreen, ThreadInv, GroupThreadTypeOK, OneMounted, OfGroup, Titled,
              Streams, Screen
<1>2. CASE RetryInit \/ GroupSession
  <2>1. grpId \in Group
    BY DEF ThreadInv, GroupThreadTypeOK
  <2>2. QED
    BY <1>2, <2>1, ThreadEffectStep DEF RetryInit, GroupSession
<1>3. CASE \E g \in Group : OpenGroup(g)
  BY <1>3, ThreadEffectStep DEF OpenGroup
<1>4. CASE \E read \in grpReads : InfoArrives(read) \/ MembersArrive(read)
  BY <1>4, ReadStep
<1>5. ASSUME NEW r \in GroupRun,
             RunReturns(r) \/ GroupNotFound(r) \/ GroupFound(r) \/ GroupSynced(r)
             \/ GroupLoaded(r) \/ StreamAttached(r) \/ GroupInitFails(r)
             \/ \E n \in 1..MaxPosts : GroupMessage(r, n)
      PROVE  ThreadInv'
  BY <1>5, ReturnsStep, FoundStep, LoadedStep, AttachStep, MessageStep
<1>6. QED
  BY <1>1, <1>2, <1>3, <1>4, <1>5, NewsStep DEF GroupThreadNext

LEMMA ThreadAlwaysInv == GroupThreadSpec => []ThreadInv
  BY ThreadInitInv, ThreadStepInv, PTL DEF GroupThreadSpec

-----------------------------------------------------------------------------
(* The group thread: theorems *)

\* However its effect restarts, the group thread shows the messages and members of its own
\* group, holds no other in groupRef, is titled by its own once ready, and no stream outlives
\* its run: the flag of a run is false exactly while that run is mounted (useGroup.ts:204-210).
THEOREM ThreadIsOwn == GroupThreadSpec => []GroupThreadOwn
<1>1. ThreadInv => GroupThreadOwn
  BY DEF ThreadInv, Titled, Streams, OneMounted, Screen, GroupThreadOwn
<1>2. QED
  BY <1>1, ThreadAlwaysInv, PTL

\* Every variable of the group thread hook keeps its type.
THEOREM GroupThreadTyped == GroupThreadSpec => []GroupThreadTypeOK
<1>1. ThreadInv => GroupThreadTypeOK
  BY DEF ThreadInv
<1>2. QED
  BY <1>1, ThreadAlwaysInv, PTL


-----------------------------------------------------------------------------
(* Group management: the inductive invariant, of what a reconcile to the    *)
(* roster R is about to do with members G, admins A and super admins S.     *)

\* What may be left of a change of role.
Chain == {<<>>, <<"addSuper">>, <<"addSuper", "removeAdmin">>, <<"removeAdmin">>,
          <<"removeSuper">>, <<"removeSuper", "addAdmin">>, <<"addAdmin">>}
View == UNION {[M -> Role] : M \in SUBSET Member}
GroupsOp == [pc : {"idle", "syncing", "adding", "removing", "roles", "setting"}, pass : 0..2,
             add : SUBSET Member, remove : SUBSET Member, reread : BOOLEAN,
             view : View \cup {<<>>}, todo : SUBSET Member, at : SUBSET Member, commits : Chain]

RoleIn(A, S, p) ==
    IF p \in S THEN "super_admin" ELSE IF p \in A THEN "admin" ELSE "member"
RoleView(G, A, S) == [p \in G |-> RoleIn(A, S, p)]

\* RoleFixes and Stage, of the roster R.
Fixes(R, d, view) ==
    {p \in DOMAIN view \ {d} :
        /\ p \in DOMAIN R.role
        /\ view[p] # R.role[p]
        /\ p \in R.protect => Rank(R.role[p]) >= Rank(view[p])}
StageOf(R, d, op, view) ==
    IF op.add # {} THEN [op EXCEPT !.pc = "adding"]
    ELSE IF op.remove # {} THEN [op EXCEPT !.pc = "removing"]
    ELSE [op EXCEPT !.pc = "roles", !.view = view, !.todo = Fixes(R, d, view)]

\* Commits that a reconcile may have left for a member: towards the role of the roster, and
\* for a protected member upwards.
Toward(R, p, commits) ==
    \/ /\ R.role[p] = "super_admin"
       /\ commits \in {<<"addSuper">>, <<"addSuper", "removeAdmin">>, <<"removeAdmin">>}
    \/ R.role[p] = "admin" /\ commits = <<"addAdmin">>
    \/ R.role[p] = "admin" /\ p \notin R.protect /\ commits = <<"removeSuper", "addAdmin">>
    \/ /\ R.role[p] = "member" /\ p \notin R.protect
       /\ commits \in {<<"removeAdmin">>, <<"removeSuper">>}

\* Once these commits are in, the member holds the role of the roster.
Lands(R, p, commits, A, S) ==
    \/ /\ R.role[p] = "super_admin"
       /\ \/ commits \in {<<"addSuper">>, <<"addSuper", "removeAdmin">>}
          \/ commits \in {<<>>, <<"removeAdmin">>} /\ p \in S
    \/ /\ R.role[p] = "admin"
       /\ \/ commits = <<"removeSuper", "addAdmin">>
          \/ commits = <<"addAdmin">> /\ p \notin S
          \/ commits = <<>> /\ p \notin S /\ p \in A
    \/ /\ R.role[p] = "member"
       /\ \/ commits = <<"removeSuper">> /\ p \notin A
          \/ commits = <<"removeAdmin">> /\ p \notin S
          \/ commits = <<>> /\ p \notin S /\ p \notin A

\* The member holds it, or is protected in a higher one.
HasRole(R, p, A, S) ==
    \/ RoleIn(A, S, p) = R.role[p]
    \/ p \in R.protect /\ Rank(RoleIn(A, S, p)) > Rank(R.role[p])

\* A pass adds only members of the roster, removes only others, and changes roles only
\* towards it, however old its view is.
PassOK(R, d, op) ==
    /\ op.add \subseteq R.members \cap Reachable
    /\ op.remove \cap (R.members \cup R.protect \cup {d}) = {}
    /\ op.pc \in {"idle", "syncing", "adding", "removing"} => op.commits = <<>>
    /\ op.pc \in {"removing", "roles"} => op.add = {}
    /\ op.pc = "roles" =>
           /\ op.remove = {}
           /\ op.view \in View /\ op.todo \subseteq Fixes(R, d, op.view)
           /\ op.commits # <<>> =>
                  \E p \in Member \ {d} :
                      /\ op.at = {p} /\ p \notin op.todo
                      /\ p \in DOMAIN R.role /\ Toward(R, p, op.commits)

\* What a pass has still to do with a member's role.
Due(R, op, p, A, S) ==
    IF p \in op.todo THEN Lands(R, p, RoleCommits(op.view[p], R.role[p]), A, S)
    ELSE IF op.at = {p} /\ op.commits # <<>> THEN Lands(R, p, op.commits, A, S)
    ELSE HasRole(R, p, A, S)

\* A pass that no single change disturbed: what it is about to do, with what is done, is
\* what the roster asks.
SingleListed(R, A, S) ==
    \A p \in DOMAIN R.role : R.role[p] = "member" => p \notin A \/ p \notin S
RosterLeft(R, d, op, G) ==
    op.pc \in {"adding", "removing", "roles"} =>
        /\ (R.members \ {d}) \cap Reachable \subseteq G \cup op.add
        /\ G \subseteq R.members \cup R.protect \cup {d} \cup op.remove
RolesLeft(R, d, op, G, A, S) ==
    op.pc = "roles" =>
        \A p \in G \ {d} :
            /\ p \in DOMAIN op.view
            /\ p \in DOMAIN R.role => Due(R, op, p, A, S)
MatchedTo(R, d, G, A, S) ==
    /\ (R.members \ {d}) \cap Reachable \subseteq G
    /\ G \subseteq R.members \cup R.protect \cup {d}
    /\ \A p \in (G \cap DOMAIN R.role) \ {d} : HasRole(R, p, A, S)
FreshOK(R, d, op, result, G, A, S) ==
    /\ SingleListed(R, A, S)
    /\ RosterLeft(R, d, op, G)
    /\ RolesLeft(R, d, op, G, A, S)
    /\ result = "matched" => MatchedTo(R, d, G, A, S)

GroupTyped ==
    /\ grpsIn \subseteq Member /\ grpsAdmins \subseteq Member /\ grpsSupers \subseteq Member
    /\ grpsRoster \in Rosters
    /\ grpsOps \in [Device -> GroupsOp]
    /\ grpsChanges \in 0..MaxChanges
    /\ grpsResult \in [Device -> {"none", "matched", "failed"}]
    /\ grpsFresh \in [Device -> BOOLEAN]
    /\ grpsHarmed \subseteq [by : Device, who : Member]

DeviceOK(d) ==
    /\ PassOK(grpsRoster, d, grpsOps[d])
    /\ grpsResult[d] = "matched" => grpsOps[d].pc \in {"idle", "setting"}
    /\ grpsFresh[d] => FreshOK(grpsRoster, d, grpsOps[d], grpsResult[d],
                               grpsIn, grpsAdmins, grpsSupers)

GroupsInv == GroupTyped /\ (\A d \in Device : DeviceOK(d)) /\ ProtectedStay

-----------------------------------------------------------------------------
(* Roles and the commits that change them *)

LEMMA Constants ==
  /\ Device \subseteq Member /\ Device \subseteq Reachable
  /\ \A R \in Rosters : /\ R.members \subseteq Member
                        /\ \A p \in DOMAIN R.role : R.role[p] \in Role
  /\ MaxChanges \in Nat
  BY DeviceAssumption, RosterAssumption, MaxChangesAssumption
     DEF DeviceAssumption, RosterAssumption, MaxChangesAssumption

LEMMA ChainParts ==
  /\ Head(<<"addSuper">>) = "addSuper" /\ Tail(<<"addSuper">>) = <<>>
  /\ Head(<<"removeAdmin">>) = "removeAdmin" /\ Tail(<<"removeAdmin">>) = <<>>
  /\ Head(<<"removeSuper">>) = "removeSuper" /\ Tail(<<"removeSuper">>) = <<>>
  /\ Head(<<"addAdmin">>) = "addAdmin" /\ Tail(<<"addAdmin">>) = <<>>
  /\ Head(<<"addSuper", "removeAdmin">>) = "addSuper"
  /\ Tail(<<"addSuper", "removeAdmin">>) = <<"removeAdmin">>
  /\ Head(<<"removeSuper", "addAdmin">>) = "removeSuper"
  /\ Tail(<<"removeSuper", "addAdmin">>) = <<"addAdmin">>
  OBVIOUS

\* The values of a chain are different.
LEMMA ChainValues ==
  /\ <<"addSuper">> # <<>> /\ <<"removeAdmin">> # <<>> /\ <<"removeSuper">> # <<>>
  /\ <<"addAdmin">> # <<>> /\ <<"addSuper", "removeAdmin">> # <<>>
  /\ <<"removeSuper", "addAdmin">> # <<>>
  OBVIOUS

LEMMA RoleInType ==
  ASSUME NEW A, NEW S, NEW p
  PROVE  RoleIn(A, S, p) \in Role
  BY DEF RoleIn, Role

LEMMA ListingType ==
  ASSUME NEW G \in SUBSET Member, NEW A, NEW S
  PROVE  /\ RoleView(G, A, S) \in View
         /\ DOMAIN RoleView(G, A, S) = G
         /\ \A p \in G : RoleView(G, A, S)[p] = RoleIn(A, S, p)
<1>1. RoleView(G, A, S) \in [G -> Role]
  BY RoleInType DEF RoleView
<1>2. QED
  BY <1>1 DEF View, RoleView


\* The commits of a change of role are a chain.
LEMMA RoleChain ==
  ASSUME NEW from \in Role, NEW to \in Role
  PROVE  RoleCommits(from, to) \in Chain
  BY DEF RoleCommits, Role, Chain

LEMMA ChainTail ==
  ASSUME NEW c \in Chain, c # <<>>
  PROVE  Tail(c) \in Chain
  BY ChainParts DEF Chain

\* Those of a reconcile go towards the role of the roster.
LEMMA CommitsToward ==
  ASSUME NEW R, NEW p, NEW from \in Role, R.role[p] \in Role, from # R.role[p],
         p \in R.protect => Rank(R.role[p]) >= Rank(from)
  PROVE  Toward(R, p, RoleCommits(from, R.role[p]))
<1>1. CASE R.role[p] = "super_admin"
  BY <1>1 DEF RoleCommits, Toward
<1>2. CASE R.role[p] = "admin"
  <2>1. from = "super_admin" => p \notin R.protect
    BY <1>2 DEF Rank
  <2>2. QED
    BY <1>2, <2>1 DEF RoleCommits, Toward, Role
<1>3. CASE R.role[p] = "member"
  <2>1. p \notin R.protect /\ from \in {"admin", "super_admin"}
    BY <1>3 DEF Rank, Role
  <2>2. QED
    BY <1>3, <2>1 DEF RoleCommits, Toward
<1>4. QED
  BY <1>1, <1>2, <1>3 DEF Role

\* From the role that the member has now, they land on the role of the roster.
LEMMA CommitsLand ==
  ASSUME NEW R, NEW p, NEW A, NEW S, R.role[p] \in Role, RoleIn(A, S, p) # R.role[p],
         R.role[p] = "member" => p \notin A \/ p \notin S
  PROVE  Lands(R, p, RoleCommits(RoleIn(A, S, p), R.role[p]), A, S)
<1>1. CASE p \in S
  BY <1>1 DEF RoleCommits, Lands, RoleIn, Role
<1>2. CASE p \notin S /\ p \in A
  BY <1>2 DEF RoleCommits, Lands, RoleIn, Role
<1>3. CASE p \notin S /\ p \notin A
  BY <1>3 DEF RoleCommits, Lands, RoleIn, Role
<1>4. QED
  BY <1>1, <1>2, <1>3

LEMMA LandedHolds ==
  ASSUME NEW R, NEW p, NEW A, NEW S, Lands(R, p, <<>>, A, S)
  PROVE  HasRole(R, p, A, S)
  BY ChainValues DEF Lands, HasRole, RoleIn

\* What a commit of a role does to the two lists.
Recorded(c, p, A, S, AA, SS) ==
    /\ AA = CASE c = "addAdmin" -> A \cup {p} [] c = "removeAdmin" -> A \ {p} [] OTHER -> A
    /\ SS = CASE c = "addSuper" -> S \cup {p} [] c = "removeSuper" -> S \ {p} [] OTHER -> S

\* What reconciles do to a member's place in the lists, whatever they know of it: no step
\* leads away from the roster.
Nearer(R, p, A, S, AA, SS) ==
    /\ R.role[p] = "super_admin" => (p \in S => p \in SS)
    /\ R.role[p] = "admin" => (p \in SS => p \in S) /\ (p \in A => p \in AA)
    /\ R.role[p] = "member" => (p \in SS => p \in S) /\ (p \in AA => p \in A)
    /\ p \in R.protect /\ R.role[p] # "super_admin" =>
           (p \in S => p \in SS) /\ (p \in A => p \in AA)

LEMMA CommitNearer ==
  ASSUME NEW R, NEW p, NEW c, NEW A, NEW S, NEW AA, NEW SS,
         Toward(R, p, c), Recorded(Head(c), p, A, S, AA, SS)
  PROVE  Nearer(R, p, A, S, AA, SS)
<1>1. CASE R.role[p] = "super_admin"
  <2>1. Head(c) \in {"addSuper", "removeAdmin"}
    BY <1>1, ChainParts DEF Toward
  <2>2. QED
    BY <1>1, <2>1 DEF Recorded, Nearer
<1>2. CASE R.role[p] = "admin"
  <2>1. Head(c) = "addAdmin" \/ (Head(c) = "removeSuper" /\ p \notin R.protect)
    BY <1>2, ChainParts DEF Toward
  <2>2. QED
    BY <1>2, <2>1 DEF Recorded, Nearer
<1>3. CASE R.role[p] = "member"
  <2>1. Head(c) \in {"removeAdmin", "removeSuper"} /\ p \notin R.protect
    BY <1>3, ChainParts DEF Toward
  <2>2. QED
    BY <1>3, <2>1 DEF Recorded, Nearer
<1>4. QED
  BY <1>1, <1>2, <1>3 DEF Toward

\* A commit leaves what is left of the chain.
LEMMA CommitLeaves ==
  ASSUME NEW R, NEW p, NEW c, NEW A, NEW S, NEW AA, NEW SS,
         Toward(R, p, c), Recorded(Head(c), p, A, S, AA, SS)
  PROVE  /\ Tail(c) # <<>> => Toward(R, p, Tail(c))
         /\ Lands(R, p, c, A, S) => Lands(R, p, Tail(c), AA, SS)
<1>1. CASE R.role[p] = "super_admin" /\ c = <<"addSuper">>
  BY <1>1, ChainParts DEF Toward, Lands, Recorded
<1>2. CASE R.role[p] = "super_admin" /\ c = <<"addSuper", "removeAdmin">>
  BY <1>2, ChainParts DEF Toward, Lands, Recorded
<1>3. CASE R.role[p] = "super_admin" /\ c = <<"removeAdmin">>
  BY <1>3, ChainParts, ChainValues DEF Toward, Lands, Recorded
<1>4. CASE R.role[p] = "admin" /\ c = <<"addAdmin">>
  BY <1>4, ChainParts, ChainValues DEF Toward, Lands, Recorded
<1>5. CASE R.role[p] = "admin" /\ c = <<"removeSuper", "addAdmin">>
  BY <1>5, ChainParts DEF Toward, Lands, Recorded
<1>6. CASE R.role[p] = "member" /\ c = <<"removeAdmin">>
  BY <1>6, ChainParts, ChainValues DEF Toward, Lands, Recorded
<1>7. CASE R.role[p] = "member" /\ c = <<"removeSuper">>
  BY <1>7, ChainParts, ChainValues DEF Toward, Lands, Recorded
<1>8. QED
  BY <1>1, <1>2, <1>3, <1>4, <1>5, <1>6, <1>7 DEF Toward

\* A reconcile's commit lowers no protected member, once the promotion before it is in.
LEMMA CommitKeepsRank ==
  ASSUME NEW R, NEW p, NEW c, NEW A, NEW S, NEW AA, NEW SS, p \in R.protect,
         Toward(R, p, c), Lands(R, p, c, A, S), Recorded(Head(c), p, A, S, AA, SS)
  PROVE  ~(Rank(RoleIn(AA, SS, p)) < Rank(RoleIn(A, S, p)))
<1>1. CASE R.role[p] = "super_admin" /\ c \in {<<"addSuper">>, <<"addSuper", "removeAdmin">>}
  <2>1. Head(c) = "addSuper"
    BY <1>1, ChainParts
  <2>2. QED
    BY <2>1 DEF Recorded, RoleIn, Rank
<1>2. CASE R.role[p] = "super_admin" /\ c = <<"removeAdmin">>
  <2>1. p \in S /\ Head(c) = "removeAdmin"
    BY <1>2, ChainParts, ChainValues DEF Lands
  <2>2. QED
    BY <2>1 DEF Recorded, RoleIn, Rank
<1>3. CASE R.role[p] = "admin" /\ c = <<"addAdmin">>
  <2>1. Head(c) = "addAdmin"
    BY <1>3, ChainParts
  <2>2. QED
    BY <2>1 DEF Recorded, RoleIn, Rank
<1>4. QED
  BY <1>1, <1>2, <1>3 DEF Toward

\* What is left to do with a member stays so while others bring it nearer.
LEMMA LandsStays ==
  ASSUME NEW R, NEW p, NEW c, NEW A, NEW S, NEW AA, NEW SS,
         Nearer(R, p, A, S, AA, SS), Lands(R, p, c, A, S)
  PROVE  Lands(R, p, c, AA, SS)
  BY DEF Nearer, Lands

LEMMA HoldsStays ==
  ASSUME NEW R, NEW p, NEW A, NEW S, NEW AA, NEW SS, R.role[p] \in Role,
         Nearer(R, p, A, S, AA, SS), HasRole(R, p, A, S)
  PROVE  HasRole(R, p, AA, SS)
<1>1. CASE R.role[p] = "super_admin"
  BY <1>1 DEF Nearer, HasRole, RoleIn, Rank
<1>2. CASE R.role[p] = "admin"
  BY <1>2 DEF Nearer, HasRole, RoleIn, Rank
<1>3. CASE R.role[p] = "member"
  BY <1>3 DEF Nearer, HasRole, RoleIn, Rank
<1>4. QED
  BY <1>1, <1>2, <1>3 DEF Role

LEMMA DueStays ==
  ASSUME NEW R, NEW op, NEW p, NEW A, NEW S, NEW AA, NEW SS, R.role[p] \in Role,
         Nearer(R, p, A, S, AA, SS), Due(R, op, p, A, S)
  PROVE  Due(R, op, p, AA, SS)
  BY LandsStays, HoldsStays DEF Due


-----------------------------------------------------------------------------
(* Steps of other devices, and the stages of a pass *)

\* What a step of a reconcile does to the group, as another device's sees it.
Calm(R, G, A, S, GG, AA, SS) ==
    /\ GG \subseteq G \cup (R.members \cap Reachable)
    /\ G \cap R.members \subseteq GG
    /\ SingleListed(R, A, S) => SingleListed(R, AA, SS)
    /\ \A p \in GG \cap DOMAIN R.role : Nearer(R, p, A, S, AA, SS)

\* It takes nothing from what a device has done, and leaves what it has still to do: whoever
\* joins is on the roster, and was in or about to be added, unless it is the device itself.
LEMMA FreshStays ==
  ASSUME NEW R \in Rosters, NEW d \in Device, NEW op, NEW result,
         NEW G, NEW A, NEW S, NEW GG, NEW AA, NEW SS,
         PassOK(R, d, op), result = "matched" => op.pc \in {"idle", "setting"},
         FreshOK(R, d, op, result, G, A, S), Calm(R, G, A, S, GG, AA, SS)
  PROVE  FreshOK(R, d, op, result, GG, AA, SS)
<1>1. SingleListed(R, AA, SS)
  BY DEF Calm, FreshOK
<1>2. RosterLeft(R, d, op, GG)
  BY DEF FreshOK, RosterLeft, Calm
<1>3. ASSUME (R.members \ {d}) \cap Reachable \subseteq G, NEW p \in GG \ {d}
      PROVE  p \in G
  BY <1>3 DEF Calm
<1>4. RolesLeft(R, d, op, GG, AA, SS)
  <2> SUFFICES ASSUME op.pc = "roles", NEW p \in GG \ {d}
               PROVE  p \in DOMAIN op.view /\ (p \in DOMAIN R.role => Due(R, op, p, AA, SS))
    BY DEF RolesLeft
  <2>1. (R.members \ {d}) \cap Reachable \subseteq G
    BY DEF FreshOK, RosterLeft, PassOK
  <2>2. p \in DOMAIN op.view /\ (p \in DOMAIN R.role => Due(R, op, p, A, S))
    BY <1>3, <2>1 DEF FreshOK, RolesLeft
  <2>3. QED
    BY <2>2, DueStays, Constants DEF Calm
<1>5. ASSUME result = "matched" PROVE MatchedTo(R, d, GG, AA, SS)
  <2>1. MatchedTo(R, d, G, A, S)
    BY <1>5 DEF FreshOK
  <2>2. (R.members \ {d}) \cap Reachable \subseteq GG
    BY <2>1 DEF MatchedTo, Calm
  <2>3. GG \subseteq R.members \cup R.protect \cup {d}
    BY <2>1 DEF MatchedTo, Calm
  <2>4. ASSUME NEW p \in (GG \cap DOMAIN R.role) \ {d} PROVE HasRole(R, p, AA, SS)
    <3>1. HasRole(R, p, A, S)
      BY <1>3, <2>1, <2>4 DEF MatchedTo
    <3>2. QED
      BY <2>4, <3>1, HoldsStays, Constants DEF Calm
  <2>5. QED
    BY <2>2, <2>3, <2>4 DEF MatchedTo
<1>6. QED
  BY <1>1, <1>2, <1>4, <1>5 DEF FreshOK

\* Where the lists stay as they are, nobody is led away.
LEMMA NearerSame ==
  ASSUME NEW R, NEW p, NEW A, NEW S, NEW AA, NEW SS, p \in A <=> p \in AA, p \in S <=> p \in SS
  PROVE  Nearer(R, p, A, S, AA, SS)
  BY DEF Nearer

\* The next stage of a pass, whatever it has read.
LEMMA StageOK ==
  ASSUME NEW R \in Rosters, NEW d \in Device, NEW op \in GroupsOp, NEW view \in View,
         op.commits = <<>>, op.add \subseteq R.members \cap Reachable,
         op.remove \cap (R.members \cup R.protect \cup {d}) = {},
         NEW next, next = StageOf(R, d, op, view)
  PROVE  /\ next \in GroupsOp
         /\ PassOK(R, d, next)
         /\ next.pc \in {"adding", "removing", "roles"} /\ next.commits = <<>>
         /\ next.add = op.add /\ next.remove = op.remove
         /\ next.pc = "roles" => next.view = view /\ next.todo = Fixes(R, d, view)
<1>1. Fixes(R, d, view) \subseteq Member
  BY DEF Fixes, View
<1>2. CASE op.add # {}
  BY <1>2 DEF StageOf, GroupsOp, PassOK
<1>3. CASE op.add = {} /\ op.remove # {}
  BY <1>3 DEF StageOf, GroupsOp, PassOK
<1>4. CASE op.add = {} /\ op.remove = {}
  BY <1>1, <1>4 DEF StageOf, GroupsOp, PassOK
<1>5. QED
  BY <1>2, <1>3, <1>4

\* When it has read the group as it is, all that is missing is what it is about to do.
LEMMA StageFresh ==
  ASSUME NEW R \in Rosters, NEW d \in Device, NEW op \in GroupsOp, NEW result,
         NEW G \in SUBSET Member, NEW A, NEW S,
         op.commits = <<>>, op.add \subseteq R.members \cap Reachable,
         op.remove \cap (R.members \cup R.protect \cup {d}) = {},
         NEW next, next = StageOf(R, d, op, RoleView(G, A, S)),
         SingleListed(R, A, S), result # "matched",
         (R.members \ {d}) \cap Reachable \subseteq G \cup op.add,
         G \subseteq R.members \cup R.protect \cup {d} \cup op.remove
  PROVE  FreshOK(R, d, next, result, G, A, S)
<1> DEFINE view == RoleView(G, A, S)
<1>1. /\ view \in View /\ DOMAIN view = G
      /\ \A p \in G : view[p] = RoleIn(A, S, p)
  BY ListingType
<1> HIDE DEF view
<1>2. /\ next.add = op.add /\ next.remove = op.remove /\ next.commits = <<>>
      /\ next.pc = "roles" => next.view = view /\ next.todo = Fixes(R, d, view)
  BY <1>1, StageOK DEF view
<1>3. RosterLeft(R, d, next, G)
  BY <1>2 DEF RosterLeft
<1>4. RolesLeft(R, d, next, G, A, S)
  <2> SUFFICES ASSUME next.pc = "roles", NEW p \in G \ {d}, p \in DOMAIN R.role
               PROVE  Due(R, next, p, A, S)
    BY <1>1, <1>2 DEF RolesLeft
  <2>1. view[p] = RoleIn(A, S, p) /\ p \in DOMAIN view \ {d} /\ R.role[p] \in Role
    BY <1>1, Constants
  <2>2. CASE p \in Fixes(R, d, view)
    <3>1. RoleIn(A, S, p) # R.role[p]
      BY <2>1, <2>2 DEF Fixes
    <3>2. Lands(R, p, RoleCommits(RoleIn(A, S, p), R.role[p]), A, S)
      BY <2>1, <3>1, CommitsLand DEF SingleListed
    <3>3. QED
      BY <1>2, <2>1, <2>2, <3>2 DEF Due
  <2>3. CASE p \notin Fixes(R, d, view)
    <3>1. \/ RoleIn(A, S, p) = R.role[p]
          \/ p \in R.protect /\ ~(Rank(R.role[p]) >= Rank(RoleIn(A, S, p)))
      BY <2>1, <2>3 DEF Fixes
    <3>2. Rank(R.role[p]) \in Nat /\ Rank(RoleIn(A, S, p)) \in Nat
      BY DEF Rank
    <3>3. HasRole(R, p, A, S)
      BY <3>1, <3>2 DEF HasRole
    <3>4. QED
      BY <1>2, <2>3, <3>3 DEF Due
  <2>4. QED
    BY <2>2, <2>3
<1>5. QED
  BY <1>3, <1>4 DEF FreshOK


-----------------------------------------------------------------------------
(* Frames *)

LEMMA Readings ==
  /\ Members = RoleView(grpsIn, grpsAdmins, grpsSupers)
  /\ Members' = RoleView(grpsIn', grpsAdmins', grpsSupers')
  /\ \A p : RoleOf(p) = RoleIn(grpsAdmins, grpsSupers, p)
  /\ \A p : RoleOf(p)' = RoleIn(grpsAdmins', grpsSupers', p)
  BY DEF Members, RoleView, RoleOf, RoleIn

LEMMA Stages ==
  ASSUME NEW d, NEW op
  PROVE  Stage(d, op) = StageOf(grpsRoster, d, op,
             IF op.reread THEN RoleView(grpsIn', grpsAdmins', grpsSupers') ELSE op.view)
  BY Readings DEF Stage, StageOf, RoleFixes, Fixes

LEMMA SameCalm ==
  ASSUME NEW R, NEW G, NEW A, NEW S
  PROVE  Calm(R, G, A, S, G, A, S)
  BY NearerSame DEF Calm

\* A step of another device, which is calm or tells that the view is old.
LEMMA OthersOK ==
  ASSUME GroupsInv, NEW d \in Device, grpsRoster' = grpsRoster,
         grpsOps'[d] = grpsOps[d], grpsResult'[d] = grpsResult[d],
         grpsFresh'[d] => /\ grpsFresh[d]
                          /\ Calm(grpsRoster, grpsIn, grpsAdmins, grpsSupers,
                                  grpsIn', grpsAdmins', grpsSupers')
  PROVE  DeviceOK(d)'
<1>1. DeviceOK(d) /\ grpsRoster \in Rosters
  BY DEF GroupsInv, GroupTyped
<1>2. ASSUME grpsFresh'[d]
      PROVE  FreshOK(grpsRoster, d, grpsOps[d], grpsResult[d], grpsIn', grpsAdmins', grpsSupers')
  BY <1>1, <1>2, FreshStays DEF DeviceOK
<1>3. QED
  BY <1>1, <1>2 DEF DeviceOK

\* A step of one device that leaves the group as it is.
LEMMA QuietStep ==
  ASSUME GroupsInv, NEW e \in Device, NEW op \in GroupsOp, Goes(e, op),
         UNCHANGED <<grpsGroup, grpsRoster, grpsHarmed>>,
         grpsChanges' \in 0..MaxChanges,
         NEW result \in {"none", "matched", "failed"},
         grpsResult' = [grpsResult EXCEPT ![e] = result],
         NEW fresh \in BOOLEAN, grpsFresh' = [grpsFresh EXCEPT ![e] = fresh],
         PassOK(grpsRoster, e, op), result = "matched" => op.pc \in {"idle", "setting"},
         fresh => FreshOK(grpsRoster, e, op, result, grpsIn, grpsAdmins, grpsSupers)
  PROVE  GroupsInv'
<1>1. /\ grpsIn' = grpsIn /\ grpsAdmins' = grpsAdmins /\ grpsSupers' = grpsSupers
      /\ grpsRoster' = grpsRoster /\ grpsHarmed' = grpsHarmed
      /\ grpsOps' = [grpsOps EXCEPT ![e] = op]
  BY DEF Goes, grpsGroup
<1>2. GroupTyped'
  BY <1>1 DEF GroupsInv, GroupTyped
<1>3. ProtectedStay'
  BY <1>1 DEF GroupsInv, ProtectedStay
<1>4. grpsOps'[e] = op /\ grpsResult'[e] = result /\ grpsFresh'[e] = fresh
  BY <1>1 DEF GroupsInv, GroupTyped
<1>5. DeviceOK(e)'
  BY <1>1, <1>4 DEF DeviceOK
<1>6. ASSUME NEW d \in Device, d # e PROVE DeviceOK(d)'
  <2>1. /\ grpsOps'[d] = grpsOps[d] /\ grpsResult'[d] = grpsResult[d]
        /\ grpsFresh'[d] = grpsFresh[d]
    BY <1>1, <1>6 DEF GroupsInv, GroupTyped
  <2>2. QED
    BY <1>1, <2>1, SameCalm, OthersOK
<1>7. QED
  BY <1>2, <1>3, <1>5, <1>6 DEF GroupsInv

LEMMA Restarts ==
  ASSUME NEW op \in GroupsOp, NEW n \in 0..2, NEW next,
         next = [op EXCEPT !.pc = "syncing", !.pass = n]
  PROVE  next \in GroupsOp
  BY DEF GroupsOp

LEMMA NoOpType ==
  /\ NoOp \in GroupsOp
  /\ NoOp.pc = "idle" /\ NoOp.add = {} /\ NoOp.remove = {} /\ NoOp.commits = <<>>
  BY DEF NoOp, GroupsOp, Chain

LEMMA PassStart ==
  ASSUME NEW op, \/ op = [NoOp EXCEPT !.pc = "syncing", !.pass = 1]
                 \/ op = [NoOp EXCEPT !.pc = "syncing", !.pass = 2]
  PROVE  /\ op \in GroupsOp
         /\ op.pc = "syncing" /\ op.add = {} /\ op.remove = {} /\ op.commits = <<>>
<1>1. 1 \in 0..2 /\ 2 \in 0..2
  OBVIOUS
<1>2. op \in GroupsOp
  BY <1>1, NoOpType, Restarts
<1>3. QED
  BY <1>2 DEF NoOp

\* A device that has nothing to do, or has not read the group, owes it nothing yet.
LEMMA NothingDue ==
  ASSUME NEW R, NEW d, NEW op, op.pc \in {"idle", "syncing", "setting"},
         op.add = {}, op.remove = {}, op.pc # "setting" => op.commits = <<>>
  PROVE  PassOK(R, d, op)
  BY DEF PassOK

LEMMA NothingFresh ==
  ASSUME NEW R, NEW d, NEW op, op.pc \in {"idle", "syncing", "setting"},
         NEW result, NEW G, NEW A, NEW S, SingleListed(R, A, S),
         result = "matched" => MatchedTo(R, d, G, A, S)
  PROVE  FreshOK(R, d, op, result, G, A, S)
  BY DEF FreshOK, RosterLeft, RolesLeft

-----------------------------------------------------------------------------
(* Steps that leave the group as it is *)

\* What the invariant says of one device.
LEMMA DeviceFacts ==
  ASSUME GroupsInv, NEW d \in Device
  PROVE  /\ grpsRoster \in Rosters
         /\ grpsOps[d] \in GroupsOp
         /\ PassOK(grpsRoster, d, grpsOps[d])
         /\ grpsResult[d] \in {"none", "matched", "failed"} /\ grpsFresh[d] \in BOOLEAN
         /\ grpsResult[d] = "matched" => grpsOps[d].pc \in {"idle", "setting"}
         /\ grpsFresh[d] => FreshOK(grpsRoster, d, grpsOps[d], grpsResult[d],
                                    grpsIn, grpsAdmins, grpsSupers)
         /\ grpsResult = [grpsResult EXCEPT ![d] = grpsResult[d]]
         /\ grpsFresh = [grpsFresh EXCEPT ![d] = grpsFresh[d]]
         /\ grpsChanges \in 0..MaxChanges
  BY DEF GroupsInv, GroupTyped, DeviceOK

LEMMA ReconcileStep ==
  ASSUME GroupsInv, NEW d \in Device, Reconcile(d)
  PROVE  GroupsInv'
<1> DEFINE op == [NoOp EXCEPT !.pc = "syncing", !.pass = 1]
<1>1. /\ op \in GroupsOp
      /\ op.pc = "syncing" /\ op.add = {} /\ op.remove = {} /\ op.commits = <<>>
  <2>1. op = [NoOp EXCEPT !.pc = "syncing", !.pass = 1]
    OBVIOUS
  <2> HIDE DEF op
  <2>2. QED
    BY <2>1, PassStart
<1> HIDE DEF op
<1>2. /\ Goes(d, op) /\ UNCHANGED <<grpsGroup, grpsRoster, grpsHarmed>>
      /\ grpsResult' = [grpsResult EXCEPT ![d] = "none"]
      /\ grpsChanges' = grpsChanges /\ grpsFresh' = grpsFresh
  BY DEF Reconcile, op
<1>3. PassOK(grpsRoster, d, op)
  BY <1>1, NothingDue
<1>4. grpsFresh[d] => FreshOK(grpsRoster, d, op, "none", grpsIn, grpsAdmins, grpsSupers)
  <2>1. grpsFresh[d] => SingleListed(grpsRoster, grpsAdmins, grpsSupers)
    BY DeviceFacts DEF FreshOK
  <2>2. QED
    BY <1>1, <2>1, NothingFresh
<1>5. QED
  BY <1>1, <1>2, <1>3, <1>4, DeviceFacts, QuietStep

LEMMA PassFailsStep ==
  ASSUME GroupsInv, NEW d \in Device, PassFails(d)
  PROVE  GroupsInv'
<1>1. /\ UNCHANGED <<grpsGroup, grpsRoster, grpsHarmed>>
      /\ grpsChanges' = grpsChanges /\ grpsFresh' = grpsFresh
      /\ grpsOps[d].pc \in {"syncing", "adding", "removing", "roles"}
  BY DEF PassFails, Op
<1>2. grpsFresh[d] => SingleListed(grpsRoster, grpsAdmins, grpsSupers)
  BY DeviceFacts DEF FreshOK
<1>3. grpsResult[d] # "matched"
  BY <1>1, DeviceFacts
<1>4. CASE Op(d).pass = 1
  <2> DEFINE op == [NoOp EXCEPT !.pc = "syncing", !.pass = 2]
  <2>1. /\ op \in GroupsOp
        /\ op.pc = "syncing" /\ op.add = {} /\ op.remove = {} /\ op.commits = <<>>
    <3>1. op = [NoOp EXCEPT !.pc = "syncing", !.pass = 2]
      OBVIOUS
    <3> HIDE DEF op
    <3>2. QED
      BY <3>1, PassStart
  <2> HIDE DEF op
  <2>2. Goes(d, op) /\ grpsResult' = grpsResult
    BY <1>4 DEF PassFails, op
  <2>3. /\ PassOK(grpsRoster, d, op)
        /\ grpsFresh[d] => FreshOK(grpsRoster, d, op, grpsResult[d],
                                   grpsIn, grpsAdmins, grpsSupers)
    BY <1>2, <1>3, <2>1, NothingDue, NothingFresh
  <2>4. QED
    BY <1>1, <1>3, <2>1, <2>2, <2>3, DeviceFacts, QuietStep
<1>5. CASE Op(d).pass # 1
  <2>1. Goes(d, NoOp) /\ grpsResult' = [grpsResult EXCEPT ![d] = "failed"]
    BY <1>5 DEF PassFails
  <2>2. /\ PassOK(grpsRoster, d, NoOp)
        /\ grpsFresh[d] => FreshOK(grpsRoster, d, NoOp, "failed",
                                   grpsIn, grpsAdmins, grpsSupers)
    BY <1>2, NoOpType, NothingDue, NothingFresh
  <2>3. QED
    BY <1>1, <2>1, <2>2, NoOpType, DeviceFacts, QuietStep
<1>6. QED
  BY <1>4, <1>5

\* A pass ends when nothing is due any more.
LEMMA PassDoneStep ==
  ASSUME GroupsInv, NEW d \in Device, PassDone(d)
  PROVE  GroupsInv'
<1>1. /\ Goes(d, NoOp) /\ UNCHANGED <<grpsGroup, grpsRoster, grpsHarmed>>
      /\ grpsResult' = [grpsResult EXCEPT ![d] = "matched"]
      /\ grpsChanges' = grpsChanges /\ grpsFresh' = grpsFresh
      /\ grpsOps[d].pc = "roles" /\ grpsOps[d].todo = {} /\ grpsOps[d].commits = <<>>
  BY DEF PassDone, Op
<1>2. ASSUME grpsFresh[d]
      PROVE  /\ SingleListed(grpsRoster, grpsAdmins, grpsSupers)
             /\ MatchedTo(grpsRoster, d, grpsIn, grpsAdmins, grpsSupers)
  <2>1. FreshOK(grpsRoster, d, grpsOps[d], grpsResult[d], grpsIn, grpsAdmins, grpsSupers)
    BY <1>2, DeviceFacts
  <2>2. grpsOps[d].add = {} /\ grpsOps[d].remove = {}
    BY <1>1, DeviceFacts DEF PassOK
  <2>3. QED
    BY <1>1, <2>1, <2>2 DEF FreshOK, RosterLeft, RolesLeft, Due, MatchedTo
<1>3. /\ PassOK(grpsRoster, d, NoOp)
      /\ grpsFresh[d] => FreshOK(grpsRoster, d, NoOp, "matched",
                                 grpsIn, grpsAdmins, grpsSupers)
  BY <1>2, NoOpType, NothingDue, NothingFresh
<1>4. QED
  BY <1>1, <1>3, NoOpType, DeviceFacts, QuietStep

LEMMA SetRoleEndsStep ==
  ASSUME GroupsInv, NEW d \in Device, SetRoleEnds(d)
  PROVE  GroupsInv'
<1>1. /\ Goes(d, NoOp) /\ UNCHANGED <<grpsGroup, grpsRoster, grpsHarmed>>
      /\ grpsChanges' = grpsChanges /\ grpsFresh' = grpsFresh /\ grpsResult' = grpsResult
  BY DEF SetRoleEnds, grpsHistory
<1>2. PassOK(grpsRoster, d, NoOp)
  BY NoOpType, NothingDue
<1>3. ASSUME grpsFresh[d]
      PROVE  FreshOK(grpsRoster, d, NoOp, grpsResult[d], grpsIn, grpsAdmins, grpsSupers)
  <2>1. FreshOK(grpsRoster, d, grpsOps[d], grpsResult[d], grpsIn, grpsAdmins, grpsSupers)
    BY <1>3, DeviceFacts
  <2>2. /\ SingleListed(grpsRoster, grpsAdmins, grpsSupers)
        /\ grpsResult[d] = "matched" =>
               MatchedTo(grpsRoster, d, grpsIn, grpsAdmins, grpsSupers)
    BY <2>1 DEF FreshOK
  <2>3. QED
    BY <2>2, NoOpType, NothingFresh
<1>4. QED
  BY <1>1, <1>2, <1>3, NoOpType, DeviceFacts, QuietStep


\* A change of role by hand starts from the role read now.
LEMMA SetRoleStep ==
  ASSUME GroupsInv, NEW d \in Device, NEW p \in Member, NEW role \in Role,
         SetGroupMemberRole(d, p, role)
  PROVE  GroupsInv'
<1> DEFINE op == [NoOp EXCEPT !.pc = "setting", !.at = {p},
                      !.commits = RoleCommits(RoleOf(p), role)]
<1>1. RoleCommits(RoleOf(p), role) \in Chain
  BY RoleChain DEF RoleOf, Role
<1>2. /\ op \in GroupsOp
      /\ op.pc = "setting" /\ op.add = {} /\ op.remove = {}
  BY <1>1, NoOpType DEF GroupsOp, NoOp
<1>3. /\ Goes(d, op) /\ UNCHANGED <<grpsGroup, grpsRoster, grpsHarmed>>
      /\ grpsChanges < MaxChanges /\ grpsChanges' = grpsChanges + 1
      /\ grpsFresh' = grpsFresh /\ grpsResult' = grpsResult
  BY DEF SetGroupMemberRole, SingleChange, grpsHistory
<1> HIDE DEF op
<1>4. grpsChanges' \in 0..MaxChanges
  BY <1>3, DeviceFacts, Constants
<1>5. PassOK(grpsRoster, d, op)
  BY <1>2, NothingDue
<1>6. ASSUME grpsFresh[d]
      PROVE  FreshOK(grpsRoster, d, op, grpsResult[d], grpsIn, grpsAdmins, grpsSupers)
  <2>1. FreshOK(grpsRoster, d, grpsOps[d], grpsResult[d], grpsIn, grpsAdmins, grpsSupers)
    BY <1>6, DeviceFacts
  <2>2. /\ SingleListed(grpsRoster, grpsAdmins, grpsSupers)
        /\ grpsResult[d] = "matched" =>
               MatchedTo(grpsRoster, d, grpsIn, grpsAdmins, grpsSupers)
    BY <2>1 DEF FreshOK
  <2>3. QED
    BY <1>2, <2>2, NothingFresh
<1>7. QED
  BY <1>2, <1>3, <1>4, <1>5, <1>6, DeviceFacts, QuietStep

\* The first reading of a pass.
LEMMA PassSyncsStep ==
  ASSUME GroupsInv, NEW d \in Device, PassSyncs(d)
  PROVE  GroupsInv'
<1> DEFINE view == RoleView(grpsIn, grpsAdmins, grpsSupers)
           op == [grpsOps[d] EXCEPT !.view = view, !.add = Missing(d, view),
                      !.remove = Leftover(d, view)]
           next == StageOf(grpsRoster, d, op, view)
           fresh == grpsAdmins \cap grpsSupers = {}
<1>1. /\ UNCHANGED <<grpsGroup, grpsRoster, grpsHarmed>>
      /\ grpsChanges' = grpsChanges /\ grpsResult' = grpsResult
      /\ grpsFresh' = [grpsFresh EXCEPT ![d] = fresh]
      /\ grpsOps[d].pc = "syncing"
      /\ Goes(d, Stage(d, op))
  BY Readings DEF PassSyncs, Op
<1>2. /\ grpsRoster \in Rosters /\ grpsOps[d] \in GroupsOp /\ grpsIn \in SUBSET Member
      /\ grpsOps[d].commits = <<>> /\ grpsResult[d] # "matched"
  BY <1>1, DeviceFacts DEF PassOK, GroupsInv, GroupTyped
<1>3. view \in View /\ DOMAIN view = grpsIn
  BY <1>2, ListingType
<1> HIDE DEF view
<1>4. /\ Missing(d, view) = ((grpsRoster.members \ {d}) \ grpsIn) \cap Reachable
      /\ Leftover(d, view) = grpsIn \ (grpsRoster.members \cup grpsRoster.protect \cup {d})
  BY <1>3 DEF Missing, Leftover, Wanted
<1>5. Missing(d, view) \in SUBSET Member /\ Leftover(d, view) \in SUBSET Member
  BY <1>2, <1>4, Constants
<1>6. /\ op \in GroupsOp /\ op.commits = <<>> /\ op.view = view
      /\ op.add = Missing(d, view) /\ op.remove = Leftover(d, view)
  BY <1>2, <1>3, <1>5 DEF GroupsOp
<1> HIDE DEF op
<1>7. Stage(d, op) = next
  <2>1. grpsIn' = grpsIn /\ grpsAdmins' = grpsAdmins /\ grpsSupers' = grpsSupers
    BY <1>1 DEF grpsGroup
  <2>2. QED
    BY <1>6, <2>1, Stages DEF view
<1>8. next \in GroupsOp /\ PassOK(grpsRoster, d, next)
  BY <1>2, <1>3, <1>4, <1>6, StageOK
<1>9. ASSUME fresh
      PROVE  FreshOK(grpsRoster, d, next, grpsResult[d], grpsIn, grpsAdmins, grpsSupers)
  <2>1. SingleListed(grpsRoster, grpsAdmins, grpsSupers)
    BY <1>9 DEF SingleListed
  <2>2. /\ op.add \subseteq grpsRoster.members \cap Reachable
        /\ op.remove \cap (grpsRoster.members \cup grpsRoster.protect \cup {d}) = {}
        /\ (grpsRoster.members \ {d}) \cap Reachable \subseteq grpsIn \cup op.add
        /\ grpsIn \subseteq grpsRoster.members \cup grpsRoster.protect \cup {d} \cup op.remove
    BY <1>4, <1>6
  <2> HIDE DEF next
  <2>3. next = StageOf(grpsRoster, d, op, RoleView(grpsIn, grpsAdmins, grpsSupers))
    BY DEF next, view
  <2>4. QED
    BY <1>2, <1>6, <2>1, <2>2, <2>3, StageFresh
<1>10. fresh \in BOOLEAN
  OBVIOUS
<1> HIDE DEF next, fresh
<1>11. QED
  BY <1>1, <1>2, <1>7, <1>8, <1>9, <1>10, DeviceFacts, QuietStep


\* The next member of the loop: what was due from the view is due from the commits.
LEMMA PassPicksStep ==
  ASSUME GroupsInv, NEW d \in Device, NEW p \in Member, PassPicks(d, p)
  PROVE  GroupsInv'
<1> DEFINE old == grpsOps[d]
           c == RoleCommits(old.view[p], grpsRoster.role[p])
           op == [old EXCEPT !.todo = @ \ {p}, !.at = {p}, !.commits = c]
<1>1. /\ Goes(d, op) /\ UNCHANGED <<grpsGroup, grpsRoster, grpsHarmed>>
      /\ grpsChanges' = grpsChanges /\ grpsFresh' = grpsFresh /\ grpsResult' = grpsResult
      /\ old.pc = "roles" /\ old.commits = <<>> /\ p \in old.todo
  BY DEF PassPicks, Op, grpsHistory
<1>2. /\ grpsRoster \in Rosters /\ old \in GroupsOp /\ PassOK(grpsRoster, d, old)
      /\ old.view \in View /\ old.todo \subseteq Fixes(grpsRoster, d, old.view)
  BY <1>1, DeviceFacts DEF PassOK
<1>3. /\ p # d /\ p \in DOMAIN grpsRoster.role
      /\ old.view[p] \in Role /\ grpsRoster.role[p] \in Role
      /\ old.view[p] # grpsRoster.role[p]
      /\ p \in grpsRoster.protect => Rank(grpsRoster.role[p]) >= Rank(old.view[p])
  BY <1>1, <1>2, Constants DEF Fixes, View
<1>4. Toward(grpsRoster, p, c)
  BY <1>3, CommitsToward
<1>5. c \in Chain /\ c # <<>>
  BY <1>3, <1>4, RoleChain, ChainValues DEF Toward
<1> HIDE DEF c
<1>6. /\ op \in GroupsOp
      /\ op.pc = "roles" /\ op.view = old.view /\ op.add = old.add /\ op.remove = old.remove
      /\ op.todo = old.todo \ {p} /\ op.at = {p} /\ op.commits = c
  BY <1>1, <1>2, <1>5 DEF GroupsOp
<1> HIDE DEF op
<1>7. PassOK(grpsRoster, d, op)
  BY <1>1, <1>2, <1>3, <1>4, <1>6 DEF PassOK
<1>8. ASSUME grpsFresh[d]
      PROVE  FreshOK(grpsRoster, d, op, grpsResult[d], grpsIn, grpsAdmins, grpsSupers)
  <2>1. FreshOK(grpsRoster, d, old, grpsResult[d], grpsIn, grpsAdmins, grpsSupers)
    BY <1>8, DeviceFacts
  <2>2. ASSUME NEW q \in grpsIn \ {d}, q \in DOMAIN grpsRoster.role
        PROVE  Due(grpsRoster, op, q, grpsAdmins, grpsSupers)
    <3>1. Due(grpsRoster, old, q, grpsAdmins, grpsSupers)
      BY <1>1, <2>1, <2>2 DEF FreshOK, RolesLeft
    <3>2. CASE q = p
      BY <1>1, <1>5, <1>6, <3>1, <3>2 DEF Due, c
    <3>3. CASE q # p
      BY <1>1, <1>6, <3>1, <3>3 DEF Due
    <3>4. QED
      BY <3>2, <3>3
  <2>3. RolesLeft(grpsRoster, d, op, grpsIn, grpsAdmins, grpsSupers)
    BY <1>1, <1>6, <2>1, <2>2 DEF FreshOK, RolesLeft
  <2>4. RosterLeft(grpsRoster, d, op, grpsIn)
    BY <1>1, <1>6, <2>1 DEF FreshOK, RosterLeft
  <2>5. grpsResult[d] # "matched"
    BY <1>1, DeviceFacts
  <2>6. QED
    BY <2>1, <2>3, <2>4, <2>5 DEF FreshOK
<1>9. grpsResult[d] = "matched" => op.pc \in {"idle", "setting"}
  BY <1>1, DeviceFacts
<1>10. QED
  BY <1>1, <1>6, <1>7, <1>8, <1>9, DeviceFacts, QuietStep

-----------------------------------------------------------------------------
(* Steps that change the group *)

\* A calm step of one device, which the others' passes may meet.
LEMMA CalmStep ==
  ASSUME GroupsInv, NEW e \in Device, NEW op \in GroupsOp, Goes(e, op),
         UNCHANGED <<grpsRoster, grpsChanges, grpsResult, grpsFresh>>,
         grpsIn' \subseteq Member, grpsAdmins' \subseteq Member, grpsSupers' \subseteq Member,
         Calm(grpsRoster, grpsIn, grpsAdmins, grpsSupers, grpsIn', grpsAdmins', grpsSupers'),
         PassOK(grpsRoster, e, op), grpsResult[e] # "matched",
         grpsFresh[e] => FreshOK(grpsRoster, e, op, grpsResult[e],
                                 grpsIn', grpsAdmins', grpsSupers'),
         grpsHarmed' \subseteq [by : Device, who : Member], ProtectedStay'
  PROVE  GroupsInv'
<1>1. /\ grpsRoster' = grpsRoster /\ grpsChanges' = grpsChanges
      /\ grpsResult' = grpsResult /\ grpsFresh' = grpsFresh
      /\ grpsOps' = [grpsOps EXCEPT ![e] = op]
  BY DEF Goes
<1>2. GroupTyped'
  BY <1>1 DEF GroupsInv, GroupTyped
<1>3. grpsOps'[e] = op
  BY <1>1 DEF GroupsInv, GroupTyped
<1>4. DeviceOK(e)'
  BY <1>1, <1>3 DEF DeviceOK
<1>5. ASSUME NEW d \in Device, d # e PROVE DeviceOK(d)'
  <2>1. grpsOps'[d] = grpsOps[d]
    BY <1>1, <1>5 DEF GroupsInv, GroupTyped
  <2>2. QED
    BY <1>1, <2>1, OthersOK
<1>6. QED
  BY <1>2, <1>4, <1>5 DEF GroupsInv

\* A single change: every pass that has synced is told that its view is old.
LEMMA DisturbingStep ==
  ASSUME GroupsInv, Disturbs, UNCHANGED <<grpsRoster, grpsResult, grpsHarmed>>,
         grpsOps' \in [Device -> GroupsOp],
         \A d \in Device : /\ PassOK(grpsRoster, d, grpsOps'[d])
                           /\ grpsOps'[d].pc = grpsOps[d].pc,
         grpsIn' \subseteq Member, grpsAdmins' \subseteq Member, grpsSupers' \subseteq Member,
         grpsChanges' \in 0..MaxChanges
  PROVE  GroupsInv'
<1>1. /\ grpsRoster' = grpsRoster /\ grpsResult' = grpsResult /\ grpsHarmed' = grpsHarmed
      /\ grpsFresh' = [d \in Device |-> FALSE]
  BY DEF Disturbs
<1>2. GroupTyped'
  BY <1>1 DEF GroupsInv, GroupTyped
<1>3. ASSUME NEW d \in Device PROVE DeviceOK(d)'
  BY <1>1, <1>3, DeviceFacts DEF DeviceOK
<1>4. ProtectedStay'
  BY <1>1 DEF GroupsInv, ProtectedStay
<1>5. QED
  BY <1>2, <1>3, <1>4 DEF GroupsInv

LEMMA AddStep ==
  ASSUME GroupsInv, NEW d \in Device, NEW p \in Member, AddGroupMembers(d, p)
  PROVE  GroupsInv'
<1>1. /\ grpsIn' = grpsIn \cup {p}
      /\ UNCHANGED <<grpsAdmins, grpsSupers, grpsRoster, grpsOps, grpsResult, grpsHarmed>>
      /\ Disturbs /\ grpsChanges < MaxChanges /\ grpsChanges' = grpsChanges + 1
  BY DEF AddGroupMembers, CommitAdd, SingleChange
<1>2. grpsChanges' \in 0..MaxChanges
  BY <1>1, Constants DEF GroupsInv, GroupTyped
<1>3. \A e \in Device : PassOK(grpsRoster, e, grpsOps'[e]) /\ grpsOps'[e].pc = grpsOps[e].pc
  BY <1>1, DeviceFacts
<1>4. grpsIn \subseteq Member /\ grpsAdmins \subseteq Member /\ grpsSupers \subseteq Member
      /\ grpsOps \in [Device -> GroupsOp]
  BY DEF GroupsInv, GroupTyped
<1>5. QED
  BY <1>1, <1>2, <1>3, <1>4, DisturbingStep

LEMMA RemoveStep ==
  ASSUME GroupsInv, NEW d \in Device, NEW p \in Member, RemoveGroupMembers(d, p)
  PROVE  GroupsInv'
<1>1. /\ grpsIn' \subseteq grpsIn
      /\ grpsAdmins' \subseteq grpsAdmins /\ grpsSupers' \subseteq grpsSupers
      /\ UNCHANGED <<grpsRoster, grpsOps, grpsResult, grpsHarmed>>
      /\ Disturbs /\ grpsChanges < MaxChanges /\ grpsChanges' = grpsChanges + 1
  BY DEF RemoveGroupMembers, CommitRemove, SingleChange
<1>2. grpsChanges' \in 0..MaxChanges
  BY <1>1, Constants DEF GroupsInv, GroupTyped
<1>3. \A e \in Device : PassOK(grpsRoster, e, grpsOps'[e]) /\ grpsOps'[e].pc = grpsOps[e].pc
  BY <1>1, DeviceFacts
<1>4. grpsIn \subseteq Member /\ grpsAdmins \subseteq Member /\ grpsSupers \subseteq Member
      /\ grpsOps \in [Device -> GroupsOp]
  BY DEF GroupsInv, GroupTyped
<1>5. QED
  BY <1>1, <1>2, <1>3, <1>4, DisturbingStep


LEMMA PassAddsStep ==
  ASSUME GroupsInv, NEW d \in Device, PassAdds(d)
  PROVE  GroupsInv'
<1> DEFINE old == grpsOps[d]
           op == [old EXCEPT !.add = {}, !.reread = TRUE]
           view == RoleView(grpsIn', grpsAdmins', grpsSupers')
           next == StageOf(grpsRoster, d, op, view)
<1>1. /\ UNCHANGED <<grpsRoster, grpsChanges, grpsResult, grpsFresh, grpsHarmed>>
      /\ grpsIn' = grpsIn \cup old.add /\ grpsAdmins' = grpsAdmins /\ grpsSupers' = grpsSupers
      /\ old.pc = "adding" /\ Goes(d, Stage(d, op))
  BY DEF PassAdds, Op, CommitAdd, grpsHistory
<1>2. /\ grpsRoster \in Rosters /\ old \in GroupsOp /\ PassOK(grpsRoster, d, old)
      /\ grpsIn \subseteq Member /\ grpsAdmins \subseteq Member /\ grpsSupers \subseteq Member
      /\ grpsResult[d] # "matched" /\ old.commits = <<>>
  BY <1>1, DeviceFacts DEF PassOK, GroupsInv, GroupTyped
<1>3. /\ op \in GroupsOp /\ op.add = {} /\ op.remove = old.remove /\ op.reread
      /\ op.commits = <<>>
  BY <1>2 DEF GroupsOp
<1> HIDE DEF op
<1>4. old.add \subseteq grpsRoster.members \cap Reachable
      /\ old.remove \cap (grpsRoster.members \cup grpsRoster.protect \cup {d}) = {}
  BY <1>2 DEF PassOK
<1>5. grpsIn' \in SUBSET Member
  BY <1>1, <1>2, <1>4, Constants
<1>6. view \in View
  BY <1>5, ListingType
<1>7. Stage(d, op) = next
  BY <1>3, Stages
<1> HIDE DEF view
<1>8. next \in GroupsOp /\ PassOK(grpsRoster, d, next)
  BY <1>2, <1>3, <1>4, <1>6, StageOK
<1>9. ASSUME grpsFresh[d]
      PROVE  FreshOK(grpsRoster, d, next, grpsResult[d], grpsIn', grpsAdmins', grpsSupers')
  <2>1. FreshOK(grpsRoster, d, old, grpsResult[d], grpsIn, grpsAdmins, grpsSupers)
    BY <1>9, DeviceFacts
  <2>2. SingleListed(grpsRoster, grpsAdmins', grpsSupers')
    BY <1>1, <2>1 DEF FreshOK
  <2>3. /\ (grpsRoster.members \ {d}) \cap Reachable \subseteq grpsIn' \cup op.add
        /\ grpsIn' \subseteq grpsRoster.members \cup grpsRoster.protect \cup {d} \cup op.remove
    BY <1>1, <1>3, <1>4, <2>1 DEF FreshOK, RosterLeft
  <2> HIDE DEF next
  <2>4. next = StageOf(grpsRoster, d, op, RoleView(grpsIn', grpsAdmins', grpsSupers'))
    BY DEF next, view
  <2>5. QED
    BY <1>2, <1>3, <1>4, <1>5, <2>2, <2>3, <2>4, StageFresh
<1>10. Calm(grpsRoster, grpsIn, grpsAdmins, grpsSupers, grpsIn', grpsAdmins', grpsSupers')
  BY <1>1, <1>4, NearerSame DEF Calm
<1>11. ProtectedStay' /\ grpsHarmed' \subseteq [by : Device, who : Member]
  BY <1>1 DEF GroupsInv, GroupTyped, ProtectedStay
<1> HIDE DEF next
<1>12. QED
  BY <1>1, <1>2, <1>5, <1>7, <1>8, <1>9, <1>10, <1>11, CalmStep

\* Who a step harms is neither its device nor protected.
LEMMA HarmOK ==
  ASSUME GroupsInv, NEW d \in Device, Harm(d), grpsRoster' = grpsRoster,
         \A q \in grpsIn :
             \/ ~grpsFresh[d]
             \/ q # d /\ q \notin grpsRoster.protect
             \/ /\ q \in grpsIn'
                /\ ~(Rank(RoleIn(grpsAdmins', grpsSupers', q))
                       < Rank(RoleIn(grpsAdmins, grpsSupers, q)))
  PROVE  grpsHarmed' \subseteq [by : Device, who : Member] /\ ProtectedStay'
<1> DEFINE new == {[by |-> d, who |-> p] :
        p \in {q \in grpsIn : /\ grpsFresh[d]
                              /\ \/ q \notin grpsIn'
                                 \/ Rank(RoleIn(grpsAdmins', grpsSupers', q))
                                      < Rank(RoleIn(grpsAdmins, grpsSupers, q))}}
<1>1. grpsHarmed' = grpsHarmed \cup new
  BY Readings DEF Harm
<1>2. grpsHarmed \subseteq [by : Device, who : Member] /\ grpsIn \subseteq Member
      /\ ProtectedStay
  BY DEF GroupsInv, GroupTyped
<1>3. \A h \in new : /\ h \in [by : Device, who : Member]
                     /\ h.who # h.by /\ h.who \notin grpsRoster.protect
  BY <1>2
<1> HIDE DEF new
<1>4. QED
  BY <1>1, <1>2, <1>3 DEF ProtectedStay

LEMMA PassRemovesStep ==
  ASSUME GroupsInv, NEW d \in Device, PassRemoves(d)
  PROVE  GroupsInv'
<1> DEFINE old == grpsOps[d]
           op == [old EXCEPT !.remove = {}, !.reread = TRUE]
           view == RoleView(grpsIn', grpsAdmins', grpsSupers')
           next == StageOf(grpsRoster, d, op, view)
<1>1. /\ UNCHANGED <<grpsRoster, grpsChanges, grpsResult, grpsFresh>> /\ Harm(d)
      /\ grpsIn' = grpsIn \ old.remove
      /\ \A p : /\ p \in grpsAdmins' => p \in grpsAdmins
                /\ p \in grpsSupers' => p \in grpsSupers
                /\ p \in grpsAdmins /\ p \notin old.remove => p \in grpsAdmins'
                /\ p \in grpsSupers /\ p \notin old.remove => p \in grpsSupers'
      /\ old.pc = "removing" /\ Goes(d, Stage(d, op))
  BY DEF PassRemoves, Op, CommitRemove
<1>2. /\ grpsRoster \in Rosters /\ old \in GroupsOp /\ PassOK(grpsRoster, d, old)
      /\ grpsIn \subseteq Member /\ grpsAdmins \subseteq Member /\ grpsSupers \subseteq Member
      /\ grpsResult[d] # "matched" /\ old.commits = <<>> /\ old.add = {}
  BY <1>1, DeviceFacts DEF PassOK, GroupsInv, GroupTyped
<1>3. /\ op \in GroupsOp /\ op.add = {} /\ op.remove = {} /\ op.reread /\ op.commits = <<>>
  BY <1>2 DEF GroupsOp
<1> HIDE DEF op
<1>4. old.remove \cap (grpsRoster.members \cup grpsRoster.protect \cup {d}) = {}
  BY <1>2 DEF PassOK
<1>5. /\ grpsIn' \in SUBSET Member /\ grpsAdmins' \subseteq Member /\ grpsSupers' \subseteq Member
  BY <1>1, <1>2
<1>6. view \in View
  BY <1>5, ListingType
<1>7. Stage(d, op) = next
  BY <1>3, Stages
<1> HIDE DEF view
<1>8. next \in GroupsOp /\ PassOK(grpsRoster, d, next)
  BY <1>2, <1>3, <1>6, StageOK
<1>9. SingleListed(grpsRoster, grpsAdmins, grpsSupers)
          => SingleListed(grpsRoster, grpsAdmins', grpsSupers')
  BY <1>1 DEF SingleListed
<1>10. ASSUME grpsFresh[d]
       PROVE  FreshOK(grpsRoster, d, next, grpsResult[d], grpsIn', grpsAdmins', grpsSupers')
  <2>1. FreshOK(grpsRoster, d, old, grpsResult[d], grpsIn, grpsAdmins, grpsSupers)
    BY <1>10, DeviceFacts
  <2>2. SingleListed(grpsRoster, grpsAdmins', grpsSupers')
    BY <1>9, <2>1 DEF FreshOK
  <2>3. /\ (grpsRoster.members \ {d}) \cap Reachable \subseteq grpsIn' \cup op.add
        /\ grpsIn' \subseteq grpsRoster.members \cup grpsRoster.protect \cup {d} \cup op.remove
    BY <1>1, <1>2, <1>4, <2>1 DEF FreshOK, RosterLeft
  <2> HIDE DEF next
  <2>4. next = StageOf(grpsRoster, d, op, RoleView(grpsIn', grpsAdmins', grpsSupers'))
    BY DEF next, view
  <2>5. QED
    BY <1>2, <1>3, <1>5, <2>2, <2>3, <2>4, StageFresh
<1>11. Calm(grpsRoster, grpsIn, grpsAdmins, grpsSupers, grpsIn', grpsAdmins', grpsSupers')
  <2>1. ASSUME NEW p \in grpsIn'
        PROVE  Nearer(grpsRoster, p, grpsAdmins, grpsSupers, grpsAdmins', grpsSupers')
    BY <1>1, <2>1, NearerSame
  <2>2. QED
    BY <1>1, <1>4, <1>9, <2>1 DEF Calm
<1>12. ProtectedStay' /\ grpsHarmed' \subseteq [by : Device, who : Member]
  <2>1. ASSUME NEW q \in grpsIn, q = d \/ q \in grpsRoster.protect
        PROVE  /\ q \in grpsIn'
               /\ RoleIn(grpsAdmins', grpsSupers', q) = RoleIn(grpsAdmins, grpsSupers, q)
    BY <1>1, <1>4, <2>1 DEF RoleIn
  <2>2. \A role : ~(Rank(role) < Rank(role))
    BY DEF Rank
  <2>3. QED
    BY <1>1, <2>1, <2>2, HarmOK
<1> HIDE DEF next
<1>13. QED
  BY <1>1, <1>2, <1>5, <1>7, <1>8, <1>10, <1>11, <1>12, CalmStep


\* A commit of a change of role, for a reconcile or by hand.
LEMMA RoleCommittedStep ==
  ASSUME GroupsInv, NEW d \in Device, NEW p \in Member, RoleCommitted(d, p)
  PROVE  GroupsInv'
<1> DEFINE old == grpsOps[d]
           op == [old EXCEPT !.commits = Tail(@)]
<1>1. /\ UNCHANGED <<grpsRoster, grpsChanges, grpsResult>>
      /\ grpsIn' = grpsIn /\ Goes(d, op)
      /\ old.commits # <<>> /\ old.at = {p} /\ p \in grpsIn
      /\ Recorded(Head(old.commits), p, grpsAdmins, grpsSupers, grpsAdmins', grpsSupers')
  BY DEF RoleCommitted, CommitRole, Op, Recorded
<1>2. /\ grpsRoster \in Rosters /\ old \in GroupsOp /\ PassOK(grpsRoster, d, old)
      /\ grpsIn \subseteq Member /\ grpsAdmins \subseteq Member /\ grpsSupers \subseteq Member
      /\ old.pc \in {"roles", "setting"}
  BY <1>1, DeviceFacts DEF PassOK, GroupsInv, GroupTyped, GroupsOp
<1>3. Tail(old.commits) \in Chain
  BY <1>1, <1>2, ChainTail DEF GroupsOp
<1>4. /\ op \in GroupsOp /\ op.commits = Tail(old.commits) /\ op.pc = old.pc
      /\ op.add = old.add /\ op.remove = old.remove /\ op.view = old.view
      /\ op.todo = old.todo /\ op.at = old.at
  BY <1>2, <1>3 DEF GroupsOp
<1> HIDE DEF op
<1>5. grpsAdmins' \subseteq Member /\ grpsSupers' \subseteq Member
  BY <1>1, <1>2 DEF Recorded
<1>6. \A q : q # p => /\ q \in grpsAdmins' <=> q \in grpsAdmins
                      /\ q \in grpsSupers' <=> q \in grpsSupers
  BY <1>1 DEF Recorded
<1>7. CASE old.pc = "roles"
  <2>1. Harm(d) /\ grpsFresh' = grpsFresh
    BY <1>7 DEF RoleCommitted, Op
  <2>2. /\ p # d /\ p \in DOMAIN grpsRoster.role /\ p \notin old.todo
        /\ Toward(grpsRoster, p, old.commits)
    BY <1>1, <1>2, <1>7 DEF PassOK
  <2>3. Nearer(grpsRoster, p, grpsAdmins, grpsSupers, grpsAdmins', grpsSupers')
    BY <1>1, <2>2, CommitNearer
  <2>4. Tail(old.commits) # <<>> => Toward(grpsRoster, p, Tail(old.commits))
    BY <1>1, <2>2, CommitLeaves
  <2>5. \A q : Nearer(grpsRoster, q, grpsAdmins, grpsSupers, grpsAdmins', grpsSupers')
    BY <1>6, <2>3, NearerSame
  <2>6. SingleListed(grpsRoster, grpsAdmins, grpsSupers)
            => SingleListed(grpsRoster, grpsAdmins', grpsSupers')
    BY <2>5 DEF SingleListed, Nearer
  <2>7. Calm(grpsRoster, grpsIn, grpsAdmins, grpsSupers, grpsIn', grpsAdmins', grpsSupers')
    BY <1>1, <2>5, <2>6 DEF Calm
  <2>8. PassOK(grpsRoster, d, op)
    BY <1>1, <1>2, <1>4, <1>7, <2>2, <2>4 DEF PassOK
  <2>9. grpsResult[d] # "matched"
    BY <1>7, DeviceFacts
  <2>10. ASSUME grpsFresh[d]
         PROVE  /\ FreshOK(grpsRoster, d, old, grpsResult[d], grpsIn, grpsAdmins, grpsSupers)
                /\ \A q \in (grpsIn \cap DOMAIN grpsRoster.role) \ {d} :
                       Due(grpsRoster, old, q, grpsAdmins, grpsSupers)
    BY <1>7, <2>10, DeviceFacts DEF FreshOK, RolesLeft
  <2>11. ASSUME grpsFresh[d]
         PROVE  FreshOK(grpsRoster, d, op, grpsResult[d], grpsIn', grpsAdmins', grpsSupers')
    <3>1. ASSUME NEW q \in grpsIn \ {d}, q \in DOMAIN grpsRoster.role
          PROVE  Due(grpsRoster, op, q, grpsAdmins', grpsSupers')
      <4>1. /\ Due(grpsRoster, old, q, grpsAdmins, grpsSupers)
            /\ grpsRoster.role[q] \in Role
        BY <1>2, <2>10, <2>11, <3>1, Constants
      <4>2. CASE q \in old.todo
        <5>1. Lands(grpsRoster, q, RoleCommits(old.view[q], grpsRoster.role[q]),
                    grpsAdmins, grpsSupers)
          BY <4>1, <4>2 DEF Due
        <5>2. Lands(grpsRoster, q, RoleCommits(old.view[q], grpsRoster.role[q]),
                    grpsAdmins', grpsSupers')
          BY <2>5, <5>1, LandsStays
        <5>3. QED
          BY <1>4, <4>2, <5>2 DEF Due
      <4>3. CASE q \notin old.todo /\ q = p
        <5>1. Lands(grpsRoster, p, old.commits, grpsAdmins, grpsSupers)
          BY <1>1, <4>1, <4>3 DEF Due
        <5>2. Lands(grpsRoster, p, Tail(old.commits), grpsAdmins', grpsSupers')
          BY <1>1, <2>2, <5>1, CommitLeaves
        <5>3. Tail(old.commits) = <<>> => HasRole(grpsRoster, p, grpsAdmins', grpsSupers')
          BY <5>2, LandedHolds
        <5>4. QED
          BY <1>1, <1>4, <4>3, <5>2, <5>3 DEF Due
      <4>4. CASE q \notin old.todo /\ q # p
        <5>1. HasRole(grpsRoster, q, grpsAdmins, grpsSupers)
          BY <1>1, <4>1, <4>4 DEF Due
        <5>2. HasRole(grpsRoster, q, grpsAdmins', grpsSupers')
          BY <2>5, <4>1, <5>1, HoldsStays
        <5>3. QED
          BY <1>1, <1>4, <4>4, <5>2 DEF Due
      <4>5. QED
        BY <4>2, <4>3, <4>4
    <3>2. RolesLeft(grpsRoster, d, op, grpsIn', grpsAdmins', grpsSupers')
      BY <1>1, <1>4, <1>7, <2>10, <2>11, <3>1 DEF FreshOK, RolesLeft
    <3>3. RosterLeft(grpsRoster, d, op, grpsIn')
      BY <1>1, <1>4, <2>10, <2>11 DEF FreshOK, RosterLeft
    <3>4. SingleListed(grpsRoster, grpsAdmins', grpsSupers')
      BY <2>6, <2>10, <2>11 DEF FreshOK
    <3>5. QED
      BY <2>9, <3>2, <3>3, <3>4 DEF FreshOK
  <2>12. ASSUME grpsFresh[d], p \in grpsRoster.protect
         PROVE  ~(Rank(RoleIn(grpsAdmins', grpsSupers', p))
                    < Rank(RoleIn(grpsAdmins, grpsSupers, p)))
    <3>1. Due(grpsRoster, old, p, grpsAdmins, grpsSupers)
      BY <1>1, <2>2, <2>10, <2>12
    <3>2. Lands(grpsRoster, p, old.commits, grpsAdmins, grpsSupers)
      BY <1>1, <2>2, <3>1 DEF Due
    <3>3. QED
      BY <1>1, <2>2, <2>12, <3>2, CommitKeepsRank
  <2>13. ProtectedStay' /\ grpsHarmed' \subseteq [by : Device, who : Member]
    <3>1. \A q \in grpsIn : q # p =>
              RoleIn(grpsAdmins', grpsSupers', q) = RoleIn(grpsAdmins, grpsSupers, q)
      BY <1>6 DEF RoleIn
    <3>2. \A role : ~(Rank(role) < Rank(role))
      BY DEF Rank
    <3>3. QED
      BY <1>1, <2>1, <2>2, <2>12, <3>1, <3>2, HarmOK
  <2>14. QED
    BY <1>1, <1>2, <1>4, <1>5, <2>1, <2>7, <2>8, <2>9, <2>11, <2>13, CalmStep
<1>8. CASE old.pc = "setting"
  <2>1. Disturbs /\ grpsHarmed' = grpsHarmed
    BY <1>8 DEF RoleCommitted, Op
  <2>2. PassOK(grpsRoster, d, op)
    BY <1>2, <1>4, <1>8 DEF PassOK
  <2>3. /\ grpsOps' \in [Device -> GroupsOp] /\ grpsOps'[d] = op
        /\ \A e \in Device : e # d => grpsOps'[e] = grpsOps[e]
    BY <1>1, <1>4 DEF Goes, GroupsInv, GroupTyped
  <2>4. \A e \in Device : PassOK(grpsRoster, e, grpsOps'[e]) /\ grpsOps'[e].pc = grpsOps[e].pc
    BY <1>4, <2>2, <2>3, DeviceFacts
  <2>5. QED
    BY <1>1, <1>2, <1>5, <2>1, <2>3, <2>4, DeviceFacts, DisturbingStep
<1>9. QED
  BY <1>2, <1>7, <1>8


-----------------------------------------------------------------------------
(* Group management: theorems *)

LEMMA GroupsInitInv == GroupsInit => GroupsInv
<1> SUFFICES ASSUME GroupsInit PROVE GroupsInv
  OBVIOUS
<1>1. /\ grpsRoster \in Rosters
      /\ grpsOps = [d \in Device |-> NoOp] /\ grpsChanges = 0
      /\ grpsResult = [d \in Device |-> "none"] /\ grpsFresh = [d \in Device |-> FALSE]
      /\ grpsHarmed = {}
  BY DEF GroupsInit
<1>2. grpsIn \subseteq Member /\ grpsAdmins \subseteq Member /\ grpsSupers \subseteq Member
  BY FoundedAssumption DEF FoundedAssumption, GroupsInit
<1>3. GroupTyped
  BY <1>1, <1>2, NoOpType, Constants DEF GroupTyped
<1>4. ASSUME NEW d \in Device PROVE DeviceOK(d)
  BY <1>1, NoOpType, NothingDue DEF DeviceOK
<1>5. QED
  BY <1>1, <1>3, <1>4 DEF GroupsInv, ProtectedStay

LEMMA GroupsStepInv == GroupsInv /\ [GroupsNext]_grpsVars => GroupsInv'
<1> SUFFICES ASSUME GroupsInv, [GroupsNext]_grpsVars PROVE GroupsInv'
  OBVIOUS
<1>1. CASE UNCHANGED grpsVars
  BY <1>1 DEF grpsVars, grpsGroup, grpsHistory, GroupsInv, GroupTyped, DeviceOK, ProtectedStay
<1>2. CASE GroupsNext
  BY <1>2, ReconcileStep, PassSyncsStep, PassAddsStep, PassRemovesStep, PassDoneStep,
     PassFailsStep, SetRoleEndsStep, PassPicksStep, RoleCommittedStep, AddStep, RemoveStep,
     SetRoleStep DEF GroupsNext
<1>3. QED
  BY <1>1, <1>2

LEMMA GroupsAlwaysInv == GroupsSpec => []GroupsInv
  BY GroupsInitInv, GroupsStepInv, PTL DEF GroupsSpec

LEMMA GroupsTypesFromInv == GroupsInv => GroupsTypeOK
<1> SUFFICES ASSUME GroupsInv PROVE GroupsTypeOK
  OBVIOUS
<1>1. \A c \in Chain : Len(c) <= 2
  <2>1. /\ Len(<<>>) = 0 /\ Len(<<"addSuper">>) = 1 /\ Len(<<"removeAdmin">>) = 1
        /\ Len(<<"removeSuper">>) = 1 /\ Len(<<"addAdmin">>) = 1
        /\ Len(<<"addSuper", "removeAdmin">>) = 2
        /\ Len(<<"removeSuper", "addAdmin">>) = 2
    OBVIOUS
  <2>2. ASSUME NEW c \in Chain PROVE Len(c) = 0 \/ Len(c) = 1 \/ Len(c) = 2
    BY <2>1, <2>2 DEF Chain
  <2>3. QED
    BY <2>2
<1>2. \A v \in View \cup {<<>>} : DOMAIN v \subseteq Member
  BY DEF View
<1>3. ASSUME NEW d \in Device
      PROVE  /\ Op(d).pc \in {"idle", "syncing", "adding", "removing", "roles", "setting"}
             /\ Op(d).pass \in 0..2 /\ Op(d).reread \in BOOLEAN
             /\ (Op(d).add \cup Op(d).remove \cup Op(d).todo \cup Op(d).at) \subseteq Member
             /\ Len(Op(d).commits) <= 2
             /\ DOMAIN Op(d).view \subseteq Member
  <2>1. Op(d) \in GroupsOp
    BY DeviceFacts DEF Op
  <2>2. QED
    BY <1>1, <1>2, <2>1 DEF GroupsOp
<1>4. QED
  BY <1>3 DEF GroupsTypeOK, GroupsInv, GroupTyped

LEMMA RosterFromInv == GroupsInv => RosterReached
<1> SUFFICES ASSUME GroupsInv, NEW d \in Device, grpsResult[d] = "matched", grpsFresh[d]
             PROVE  Matches(d)
  BY DEF RosterReached
<1>1. MatchedTo(grpsRoster, d, grpsIn, grpsAdmins, grpsSupers)
  BY DeviceFacts DEF FreshOK
<1>2. \A p : RoleOf(p) = RoleIn(grpsAdmins, grpsSupers, p)
  BY Readings
<1>3. QED
  BY <1>1, <1>2 DEF MatchedTo, HasRole, Matches, Wanted

\* The group, the passes and what the proofs remember of them keep their types.
THEOREM GroupsTyped == GroupsSpec => []GroupsTypeOK
  BY GroupsTypesFromInv, GroupsAlwaysInv, PTL

\* RosterReached for every roster, group and set of devices: reconciles that run at the same
\* time from views of any age only bring the group nearer to the roster, so that what one has
\* matched the others leave, and what one has still to do does not get more.
THEOREM RosterIsReached == GroupsSpec => []RosterReached
  BY RosterFromInv, GroupsAlwaysInv, PTL

\* ProtectedStay for every roster, group and set of devices: no commit of a pass that nothing
\* disturbed removes or lowers its own device or a protected member, not even the first of two.
THEOREM ProtectedAreKept == GroupsSpec => []ProtectedStay
<1>1. GroupsInv => ProtectedStay
  BY DEF GroupsInv
<1>2. QED
  BY <1>1, GroupsAlwaysInv, PTL
=============================================================================
