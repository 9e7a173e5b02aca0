-------------------------------- MODULE Badge --------------------------------
(***************************************************************************)
(* The unread badge (src/src/useUnreadCount.ts) over the read watermarks   *)
(* of src/src/readState.ts.  The badge is recomputed when the lifecycle    *)
(* changes, when the inbound engine saw a message, and when a watermark    *)
(* advanced; recomputes overlap, and only the latest may set the count.    *)
(*                                                                         *)
(* One wallet, BadgeOwner, holds the conversations; any other has none.    *)
(* Times order the messages of one conversation.                           *)
(***************************************************************************)
EXTENDS Session, Naturals, FiniteSets

CONSTANTS
    BadgeOwner,   \* the wallet with conversations
    BadgeConv,    \* its conversations
    BadgeRun,     \* recomputes in flight at the same time
    MaxNs         \* bound on the messages of a conversation

ASSUME BadgeOwnerAssumption == BadgeOwner \in Addr /\ NoAddr \notin Addr
ASSUME BadgeConvAssumption == IsFiniteSet(BadgeConv) /\ MaxNs \in Nat
ASSUME BadgeRunAssumption == {"applied", "failed"} \cap BadgeRun = {}

VARIABLES
    badgeNewest,   \* sentNs of the newest message in the local database
    badgeNews,     \* is it previewable and from the counterparty?
    badgeSeen,     \* lastReadNs, the stored watermark
    badgePending,  \* conversations whose stream callback has not run yet
    badgeCount,    \* what the badge shows
    badgeRuns,     \* per recompute: the await it is at and what it has listed
    badgeLatest,   \* runIdRef: the latest run, or what became of it
    badgeQuiet     \* history: nothing changed without a nudge since the latest run began

badgeData == <<badgeNewest, badgeNews, badgeSeen, badgePending>>
badgeVars == <<status, badgeData, badgeCount, badgeRuns, badgeLatest, badgeQuiet>>

NoRun == [pc |-> "free", wallet |-> NoAddr, listed |-> {}]
Listing == [conv : BadgeConv, ns : 1..MaxNs]

-----------------------------------------------------------------------------
(* Recomputing *)

\* recompute, up to the first await of computeUnreadCount, for the status s it reads: a
\* run without a client counts nothing.
Recompute(s) ==
    \E r \in BadgeRun :
        /\ badgeRuns[r].pc = "free"
        /\ badgeRuns' = [badgeRuns EXCEPT ![r] =
               [pc |-> "asked", listed |-> {},
                wallet |-> IF s.state = "ready" THEN s.address ELSE NoAddr]]
        /\ badgeLatest' = r
        /\ badgeQuiet' = TRUE
        /\ UNCHANGED badgeCount

\* listDms and listGroups read the local database: the newest messages that count.
RunLists(r) ==
    /\ badgeRuns[r].pc = "asked"
    /\ badgeRuns' = [badgeRuns EXCEPT ![r].pc = "listed", ![r].listed =
           {l \in Listing : /\ badgeRuns[r].wallet = BadgeOwner
                            /\ badgeNews[l.conv] /\ l.ns = badgeNewest[l.conv]}]
    /\ UNCHANGED <<status, badgeData, badgeCount, badgeLatest, badgeQuiet>>

RunEnds(r, outcome) ==
    /\ badgeRuns' = [badgeRuns EXCEPT ![r] = NoRun]
    /\ badgeLatest' = IF badgeLatest = r THEN outcome ELSE badgeLatest
    /\ UNCHANGED <<status, badgeData, badgeQuiet>>

\* computeUnreadCount after the listing, against the watermarks of now.
UnreadOf(listed) == Cardinality({l \in listed : l.ns > badgeSeen[l.conv]})

\* Fault: every run that settles sets the count.
AnyRunCounts(r) ==
    /\ badgeRuns[r].pc = "listed"
    /\ badgeCount' = UnreadOf(badgeRuns[r].listed)
    /\ RunEnds(r, "applied")

\* Only the run that is still the latest sets the count (useUnreadCount.ts:79-81).
RunCounts(r) ==
    /\ badgeRuns[r].pc = "listed"
    /\ badgeCount' = IF badgeLatest = r THEN UnreadOf(badgeRuns[r].listed) ELSE badgeCount
    /\ RunEnds(r, "applied")

\* A list call rejects: the prior count stays.
RunFails(r) ==
    /\ badgeRuns[r].pc = "asked"
    /\ badgeRuns[r].wallet # NoAddr
    /\ UNCHANGED badgeCount
    /\ RunEnds(r, "failed")

-----------------------------------------------------------------------------
(* What changes the conversations *)

\* A message of the counterparty, or one that describes as nothing, reaches the local
\* database; the engine's stream callback for it is still to run.
BadgeArrives(c) ==
    /\ status = SessionStatus("ready", BadgeOwner)
    /\ badgeNewest[c] < MaxNs
    /\ badgeNewest' = [badgeNewest EXCEPT ![c] = @ + 1]
    /\ \E news \in BOOLEAN : badgeNews' = [badgeNews EXCEPT ![c] = news]
    /\ badgePending' = badgePending \cup {c}
    /\ UNCHANGED <<status, badgeSeen, badgeCount, badgeRuns, badgeLatest, badgeQuiet>>

\* The callback nudges the activity listeners (inboundMessages.ts:99-101).
BadgeNudged(c) ==
    /\ c \in badgePending
    /\ badgePending' = badgePending \ {c}
    /\ Recompute(status)
    /\ UNCHANGED <<status, badgeNewest, badgeNews, badgeSeen>>

\* A message sent by this inbox, here or on another device, nudges nobody.
BadgeOwnMessage(c) ==
    /\ status = SessionStatus("ready", BadgeOwner)
    /\ badgeNewest[c] < MaxNs
    /\ badgeNewest' = [badgeNewest EXCEPT ![c] = @ + 1]
    /\ badgeNews' = [badgeNews EXCEPT ![c] = FALSE]
    /\ badgeQuiet' = FALSE
    /\ UNCHANGED <<status, badgeSeen, badgePending, badgeCount, badgeRuns, badgeLatest>>

\* markRead (readState.ts:54): a newer time advances the watermark and tells the badge;
\* any other is a no-op.
MarkRead(c, ns) ==
    /\ status = SessionStatus("ready", BadgeOwner)
    /\ badgeSeen[c] < ns /\ ns <= badgeNewest[c]
    /\ badgeSeen' = [badgeSeen EXCEPT ![c] = ns]
    /\ Recompute(status)
    /\ UNCHANGED <<status, badgeNewest, badgeNews, badgePending>>

\* A lifecycle change recomputes; a callback of the client that is gone is dropped.
BadgeSession ==
    /\ SessionNext
    /\ badgePending' = IF status'.state = "ready" THEN badgePending ELSE {}
    /\ Recompute(status')
    /\ UNCHANGED <<badgeNewest, badgeNews, badgeSeen>>

-----------------------------------------------------------------------------
(* Specification *)

\* The state the effect of the first render finds, before its own recompute.
BadgeInit ==
    /\ badgeNewest = [c \in BadgeConv |-> 0] /\ badgeNews = [c \in BadgeConv |-> FALSE]
    /\ badgeSeen = [c \in BadgeConv |-> 0] /\ badgePending = {}
    /\ badgeCount = 0 /\ badgeRuns = [r \in BadgeRun |-> NoRun]
    /\ badgeLatest = "failed" /\ badgeQuiet = TRUE

BadgeNext ==
    \/ BadgeSession
    \/ \E c \in BadgeConv :
           \/ BadgeArrives(c) \/ BadgeNudged(c) \/ BadgeOwnMessage(c)
           \/ \E ns \in 1..MaxNs : MarkRead(c, ns)
    \/ \E r \in BadgeRun : RunLists(r) \/ RunCounts(r) \/ RunFails(r)

BadgeSpec == SessionInit /\ BadgeInit /\ [][BadgeNext]_badgeVars

-----------------------------------------------------------------------------
(* Properties *)

BadgeTypeOK ==
    /\ badgeNewest \in [BadgeConv -> 0..MaxNs] /\ badgeSeen \in [BadgeConv -> 0..MaxNs]
    /\ badgeNews \in [BadgeConv -> BOOLEAN] /\ badgePending \subseteq BadgeConv
    /\ badgeCount \in 0..Cardinality(BadgeConv)
    /\ badgeRuns \in [BadgeRun -> [pc : {"free", "asked", "listed"},
                                   wallet : Addr \cup {NoAddr}, listed : SUBSET Listing]]
    /\ badgeLatest \in BadgeRun \cup {"applied", "failed"}
    /\ badgeQuiet \in BOOLEAN

Unread ==
    IF status = SessionStatus("ready", BadgeOwner)
      THEN {c \in BadgeConv : badgeNews[c] /\ badgeNewest[c] > badgeSeen[c]}
      ELSE {}

\* When the latest recompute has set the count, every stream callback has run and no own
\* message slipped in since, the badge is the number of unread conversations of the
\* wallet that is signed in, whatever recomputes, reads, arrivals and sign-outs overlapped.
BadgeTrue ==
    badgeLatest = "applied" /\ badgeQuiet /\ badgePending = {}
        => badgeCount = Cardinality(Unread)
=============================================================================
