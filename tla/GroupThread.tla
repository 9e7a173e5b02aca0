----------------------------- MODULE GroupThread -----------------------------
(***************************************************************************)
(* The group thread hook (src/src/useGroup.ts): the effect that finds a    *)
(* group, loads it and attaches its stream, run again whenever the group   *)
(* or the client changes, each run with a `cancelled` flag of its own that *)
(* its continuations read.  The lifecycle is Session.                      *)
(*                                                                         *)
(* What a run reads of a group's name, image, app data and members is      *)
(* named by the group alone.  Sending, retrying and reacting are           *)
(* ThreadSend's and Reactions'; here is the group they are sent into.      *)
(***************************************************************************)
EXTENDS Session, Naturals, FiniteSets

CONSTANTS
    Group, NoGroup,
    GroupRun,    \* runs of the effect that are not forgotten yet
    MaxPosts     \* bound on the messages of a group

ASSUME MaxPostsAssumption == MaxPosts \in Nat

VARIABLES
    grpId,        \* the hook's argument
    grpRunNow,    \* the run of the mounted effect
    grpRuns,      \* per run: the await it is at, its group, cancelled, and whether its
                  \* native stream is on
    grpReads,     \* readings of the info or the members in flight, by the run they belong to
    grpRef,       \* groupRef.current
    grpPhase,     \* isLoading, clientAvailable, notFound, initError
    grpName, grpMembers,   \* whose name and whose members are shown
    grpShown,     \* messages, each with the group it was posted to
    grpPosted,    \* how many messages each group holds
    grpSeen       \* lastReadNs of each group

grpScreen == <<grpPhase, grpName, grpMembers, grpShown>>
grpVars == <<status, grpId, grpRunNow, grpRuns, grpReads, grpRef, grpScreen, grpPosted, grpSeen>>

NoGroupRun == [pc |-> "done", group |-> NoGroup, cancelled |-> TRUE, live |-> FALSE]
GroupRunState ==
    [pc : {"finding", "syncing", "loading", "subscribing", "open", "done"},
     group : Group \cup {NoGroup}, cancelled : BOOLEAN, live : BOOLEAN]

Posts(g, n) == {[group |-> g, n |-> i] : i \in 1..n}
NewerOf(m, n) == IF m > n THEN m ELSE n

-----------------------------------------------------------------------------
(* The effect *)

\* The cleanup of the mounted effect (useGroup.ts:204-210): its run is cancelled, and its
\* stream stopped if it had been attached.
CancelRun(r) ==
    LET attached == grpRuns[r].pc = "open"
    IN  [grpRuns EXCEPT ![r].cancelled = TRUE,
                        ![r].pc = IF attached THEN "done" ELSE @,
                        ![r].live = (@ /\ ~attached)]

\* A run that is over, with no reading left, is forgotten.
Forgotten(r) ==
    grpRuns[r].cancelled /\ grpRuns[r].pc = "done" /\ \A read \in grpReads : read.run # r

\* The cleanup of the old run and the synchronous part of the new one, for the status s:
\* without a client it ends there, and stays loading while one is being created.
RunEffect(g, s) ==
    \E r \in GroupRun :
        /\ Forgotten(r)
        /\ grpId' = g
        /\ grpRunNow' = r
        /\ grpRuns' = [CancelRun(grpRunNow) EXCEPT ![r] =
               [pc |-> IF s.state = "ready" THEN "finding" ELSE "done", group |-> g,
                cancelled |-> FALSE, live |-> FALSE]]
        /\ grpRef' = NoGroup
        /\ grpShown' = {} /\ grpMembers' = NoGroup
        /\ grpPhase' = IF s.state \in {"ready", "initializing"} THEN "loading" ELSE "unavailable"
        /\ UNCHANGED <<grpReads, grpName, grpPosted, grpSeen>>

\* The host shows another group.
OpenGroup(g) == g # grpId /\ RunEffect(g, status) /\ UNCHANGED status

RetryInit == RunEffect(grpId, status) /\ UNCHANGED status

\* subscribeXmtpClient's listener ticks, and the effect runs again.
GroupSession == SessionNext /\ RunEffect(grpId, status')

-----------------------------------------------------------------------------
(* The awaits of a run *)

GroupGoes(r, pc) == grpRuns' = [grpRuns EXCEPT ![r].pc = pc]

\* A continuation that finds its run cancelled returns.
RunReturns(r) ==
    /\ grpRuns[r].cancelled
    /\ grpRuns[r].pc \in {"finding", "loading"}
    /\ GroupGoes(r, "done")
    /\ UNCHANGED <<status, grpId, grpRunNow, grpReads, grpRef, grpScreen, grpPosted, grpSeen>>

GroupNotFound(r) ==
    /\ grpRuns[r].pc = "finding" /\ ~grpRuns[r].cancelled
    /\ GroupGoes(r, "done")
    /\ grpPhase' = "notFound"
    /\ UNCHANGED <<status, grpId, grpRunNow, grpReads, grpRef, grpName, grpMembers, grpShown,
                   grpPosted, grpSeen>>

GroupFound(r) ==
    /\ grpRuns[r].pc = "finding" /\ ~grpRuns[r].cancelled
    /\ GroupGoes(r, "syncing")
    /\ grpRef' = grpRuns[r].group
    /\ grpName' = grpRuns[r].group
    /\ UNCHANGED <<status, grpId, grpRunNow, grpReads, grpPhase, grpMembers, grpShown, grpPosted,
                   grpSeen>>

\* group.sync() returned: the members are asked for, and the history, cancelled or not.
GroupSynced(r) ==
    /\ grpRuns[r].pc = "syncing"
    /\ GroupGoes(r, "loading")
    /\ grpReads' = grpReads \cup {[run |-> r, kind |-> "members"]}
    /\ UNCHANGED <<status, grpId, grpRunNow, grpRef, grpScreen, grpPosted, grpSeen>>

\* The history is shown and read, and the stream asked for.
GroupLoaded(r) ==
    /\ grpRuns[r].pc = "loading" /\ ~grpRuns[r].cancelled
    /\ grpRuns' = [grpRuns EXCEPT ![r].pc = "subscribing", ![r].live = TRUE]
    /\ LET g == grpRuns[r].group
       IN  /\ grpShown' = Posts(g, grpPosted[g])
           /\ grpSeen' = [grpSeen EXCEPT ![g] = NewerOf(@, grpPosted[g])]
    /\ grpPhase' = "ready"
    /\ UNCHANGED <<status, grpId, grpRunNow, grpReads, grpRef, grpName, grpMembers, grpPosted>>

\* Fault: a run that was cancelled while it subscribed leaves its stream on.
AttachLeaks(r) ==
    /\ grpRuns[r].pc = "subscribing"
    /\ GroupGoes(r, IF grpRuns[r].cancelled THEN "done" ELSE "open")
    /\ UNCHANGED <<status, grpId, grpRunNow, grpReads, grpRef, grpScreen, grpPosted, grpSeen>>

\* streamMessages resolved: a cancelled run stops the stream at once.
StreamAttached(r) ==
    /\ grpRuns[r].pc = "subscribing"
    /\ grpRuns' = [grpRuns EXCEPT
           ![r].pc = IF grpRuns[r].cancelled THEN "done" ELSE "open",
           ![r].live = ~grpRuns[r].cancelled]
    /\ UNCHANGED <<status, grpId, grpRunNow, grpReads, grpRef, grpScreen, grpPosted, grpSeen>>

\* An await threw: initError, unless cancelled.
GroupInitFails(r) ==
    /\ grpRuns[r].pc \in {"finding", "syncing", "loading", "subscribing"}
    /\ grpRuns' = [grpRuns EXCEPT ![r].pc = "done", ![r].live = FALSE]
    /\ grpPhase' = IF grpRuns[r].cancelled THEN grpPhase ELSE "error"
    /\ UNCHANGED <<status, grpId, grpRunNow, grpReads, grpRef, grpName, grpMembers, grpShown,
                   grpPosted, grpSeen>>

-----------------------------------------------------------------------------
(* What arrives *)

\* The stream hands a message to the handler of an attached or attaching run.
GroupMessage(r, n) ==
    /\ grpRuns[r].live /\ ~grpRuns[r].cancelled
    /\ LET g == grpRuns[r].group
       IN  /\ n <= grpPosted[g]
           /\ grpShown' = grpShown \cup {[group |-> g, n |-> n]}
           /\ grpSeen' = [grpSeen EXCEPT ![g] = NewerOf(@, n)]
    /\ UNCHANGED <<status, grpId, grpRunNow, grpRuns, grpReads, grpRef, grpPhase, grpName,
                   grpMembers, grpPosted>>

\* A membership or metadata change: refreshInfo.
GroupUpdated(r) ==
    /\ grpRuns[r].live /\ ~grpRuns[r].cancelled
    /\ grpReads' = grpReads \cup {[run |-> r, kind |-> "info"]}
    /\ UNCHANGED <<status, grpId, grpRunNow, grpRuns, grpRef, grpScreen, grpPosted, grpSeen>>

\* The fields of refreshInfo settled; a run still mounted shows them and goes on to the
\* members.
InfoArrives(read) ==
    /\ read.kind = "info"
    /\ IF grpRuns[read.run].cancelled
         THEN grpReads' = grpReads \ {read} /\ UNCHANGED grpName
         ELSE /\ grpReads' = (grpReads \ {read}) \cup {[read EXCEPT !.kind = "members"]}
              /\ grpName' = grpRuns[read.run].group
    /\ UNCHANGED <<status, grpId, grpRunNow, grpRuns, grpRef, grpPhase, grpMembers, grpShown,
                   grpPosted, grpSeen>>

\* group.members() resolved, or failed and was logged.
MembersArrive(read) ==
    /\ read.kind = "members"
    /\ grpReads' = grpReads \ {read}
    /\ \/ grpMembers' = IF grpRuns[read.run].cancelled THEN grpMembers
                        ELSE grpRuns[read.run].group
       \/ UNCHANGED grpMembers
    /\ UNCHANGED <<status, grpId, grpRunNow, grpRuns, grpRef, grpPhase, grpName, grpShown,
                   grpPosted, grpSeen>>

GroupPost(g) ==
    /\ grpPosted[g] < MaxPosts
    /\ grpPosted' = [grpPosted EXCEPT ![g] = @ + 1]
    /\ UNCHANGED <<status, grpId, grpRunNow, grpRuns, grpReads, grpRef, grpScreen, grpSeen>>

-----------------------------------------------------------------------------
(* Specification *)

\* The hook as it mounts without a client.
GroupThreadInit ==
    /\ grpId \in Group
    /\ \E r \in GroupRun :
           /\ grpRunNow = r
           /\ grpRuns = [q \in GroupRun |->
                  IF q = r THEN [NoGroupRun EXCEPT !.group = grpId, !.cancelled = FALSE]
                           ELSE NoGroupRun]
    /\ grpReads = {} /\ grpRef = NoGroup
    /\ grpPhase = "unavailable" /\ grpName = NoGroup /\ grpMembers = NoGroup
    /\ grpShown = {} /\ grpPosted = [g \in Group |-> 0] /\ grpSeen = [g \in Group |-> 0]

GroupThreadNext ==
    \/ RetryInit \/ GroupSession
    \/ \E g \in Group : OpenGroup(g) \/ GroupPost(g)
    \/ \E r \in GroupRun :
           \/ RunReturns(r) \/ GroupNotFound(r) \/ GroupFound(r) \/ GroupSynced(r)
           \/ GroupLoaded(r) \/ StreamAttached(r) \/ GroupInitFails(r) \/ GroupUpdated(r)
           \/ \E n \in 1..MaxPosts : GroupMessage(r, n)
    \/ \E read \in grpReads : InfoArrives(read) \/ MembersArrive(read)

GroupThreadSpec == SessionInit /\ GroupThreadInit /\ [][GroupThreadNext]_grpVars

-----------------------------------------------------------------------------
(* Properties *)

GroupThreadTypeOK ==
    /\ grpId \in Group /\ grpRunNow \in GroupRun
    /\ grpRuns \in [GroupRun -> GroupRunState]
    /\ grpReads \subseteq [run : GroupRun, kind : {"info", "members"}]
    /\ {grpRef, grpName, grpMembers} \subseteq Group \cup {NoGroup}
    /\ grpPhase \in {"loading", "unavailable", "notFound", "error", "ready"}
    /\ grpShown \subseteq [group : Group, n : 1..MaxPosts]
    /\ grpPosted \in [Group -> 0..MaxPosts] /\ grpSeen \in [Group -> 0..MaxPosts]

\* However the group, the client and a retry restart the effect while earlier runs are
\* still finding, syncing, loading, subscribing or reading, the open thread shows the
\* messages and members of its own group, groupRef names no other, the title is its once it is
\* ready, and no stream outlives the run that opened it.  (What a send does with groupRef
\* after its first await, as the upload of an attachment has, is not in this module.)
GroupThreadOwn ==
    /\ \A m \in grpShown : m.group = grpId
    /\ {grpRef, grpMembers} \subseteq {grpId, NoGroup}
    /\ grpPhase = "ready" => grpName = grpId
    /\ \A r \in GroupRun : grpRuns[r].live =>
           r = grpRunNow \/ grpRuns[r].pc = "subscribing"
=============================================================================
