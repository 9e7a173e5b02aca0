-------------------------------- MODULE Inbox --------------------------------
(***************************************************************************)
(* The inbox hook useConversations (src/src/useConversations.ts): its      *)
(* loads, each a chain of awaits with no run id, the lifecycle             *)
(* notifications that start a load of their own, and the flags the screen  *)
(* renders.  The lifecycle is Session, which ClientLifecycle implements;   *)
(* that the SDK's calls return at all is Push's promise.                   *)
(*                                                                         *)
(* A conversation is [wallet, kind]; the previews, the unread dot (the     *)
(* rule Inbound models for the badge) and the order of the rows are left   *)
(* out, and the host's group filter is part of what a listing returns.     *)
(***************************************************************************)
EXTENDS Session, FiniteSets

CONSTANT InboxLoad   \* loads in flight at the same time

VARIABLES
    inboxMounted,     \* the hook's effects ran
    inboxRows,        \* conversations
    inboxLoading,     \* isLoading
    inboxAvailable,   \* clientAvailable
    inboxRefreshing,  \* refreshing
    inboxLoads        \* per load: the await it is at, its client's wallet, its listing

inboxFlags == <<inboxLoading, inboxAvailable, inboxRefreshing>>
inboxVars == <<status, inboxMounted, inboxRows, inboxFlags, inboxLoads>>

Conversation(wallets) == [wallet : wallets, kind : {"dm", "group"}]

NoLoad == [pc |-> "free", wallet |-> NoAddr, listed |-> {}]
InboxLoadState ==
    [pc : {"free", "syncing", "resolving", "tagging"}, wallet : Addr \cup {NoAddr},
     listed : SUBSET Conversation(Addr)]

-----------------------------------------------------------------------------
(* One load *)

\* The synchronous part of load (useConversations.ts:128-145), for the status s that it
\* reads from the client.  While the client is being created the screen keeps loading,
\* and the pull-to-refresh spinner goes; without one the list is emptied.
LoadWhileInitializing ==
    /\ inboxLoading' = TRUE
    /\ inboxRefreshing' = FALSE
    /\ UNCHANGED <<inboxRows, inboxAvailable, inboxLoads>>

LoadWithoutClient ==
    /\ inboxAvailable' = FALSE /\ inboxRows' = {}
    /\ inboxLoading' = FALSE /\ inboxRefreshing' = FALSE
    /\ UNCHANGED inboxLoads

LoadWithClient(wallet, spinner) ==
    /\ inboxRefreshing' = (spinner \/ inboxRefreshing)
    /\ inboxAvailable' = TRUE
    /\ \E l \in InboxLoad :
           /\ inboxLoads[l].pc = "free"
           /\ inboxLoads' = [inboxLoads EXCEPT ![l] =
                  [pc |-> "syncing", wallet |-> wallet, listed |-> {}]]
    /\ UNCHANGED <<inboxRows, inboxLoading>>

\* Fault: the early return while the client is being created is reached with its spinner.
LoadLeavingSpinner(s, spinner) ==
    IF s.state = "ready" THEN LoadWithClient(s.address, spinner)
    ELSE IF s.state = "initializing"
      THEN /\ inboxLoading' = TRUE
           /\ inboxRefreshing' = (spinner \/ inboxRefreshing)
           /\ UNCHANGED <<inboxRows, inboxAvailable, inboxLoads>>
    ELSE LoadWithoutClient

LoadBody(s, spinner) ==
    IF s.state = "ready" THEN LoadWithClient(s.address, spinner)
    ELSE IF s.state = "initializing" THEN LoadWhileInitializing
    ELSE LoadWithoutClient

InboxGoes(l, load) == inboxLoads' = [inboxLoads EXCEPT ![l] = load]

\* syncAllConversations and the two list calls returned; the host's filter is applied.
LoadLists(l) ==
    /\ inboxLoads[l].pc = "syncing"
    /\ \E listed \in SUBSET Conversation({inboxLoads[l].wallet}) :
           InboxGoes(l, [inboxLoads[l] EXCEPT !.pc = "resolving", !.listed = listed])
    /\ UNCHANGED <<status, inboxMounted, inboxRows, inboxFlags>>

\* resolveAddresses swallows its error: a DM whose peer has no address yields no row.
LoadResolves(l) ==
    /\ inboxLoads[l].pc = "resolving"
    /\ \E listed \in {inboxLoads[l].listed,
                      {c \in inboxLoads[l].listed : c.kind = "group"}} :
           InboxGoes(l, [inboxLoads[l] EXCEPT !.pc = "tagging", !.listed = listed])
    /\ UNCHANGED <<status, inboxMounted, inboxRows, inboxFlags>>

\* The finally of load
LoadEnds(l) ==
    /\ InboxGoes(l, NoLoad)
    /\ inboxLoading' = FALSE /\ inboxRefreshing' = FALSE
    /\ UNCHANGED <<status, inboxMounted, inboxAvailable>>

\* The groups' app data arrived: setConversations, then the finally.
LoadShows(l) ==
    /\ inboxLoads[l].pc = "tagging"
    /\ inboxRows' = inboxLoads[l].listed
    /\ LoadEnds(l)

\* Any of the awaits rejects (the resolving one swallows its own error).
LoadFails(l) ==
    /\ inboxLoads[l].pc \in {"syncing", "resolving", "tagging"}
    /\ UNCHANGED inboxRows
    /\ LoadEnds(l)

-----------------------------------------------------------------------------
(* What starts a load *)

\* The effects of the first render: the mount's load, and the subscription.
InboxMounts ==
    /\ ~inboxMounted
    /\ inboxMounted' = TRUE
    /\ LoadBody(status, FALSE)
    /\ UNCHANGED status

\* refresh() with the spinner, reload() without
Refresh ==
    /\ inboxMounted
    /\ LoadBody(status, TRUE)
    /\ UNCHANGED <<status, inboxMounted>>

Reload ==
    /\ inboxMounted
    /\ LoadBody(status, FALSE)
    /\ UNCHANGED <<status, inboxMounted>>

\* Fault: the lifecycle is not listened to.
InboxDeaf ==
    /\ SessionNext
    /\ UNCHANGED <<inboxMounted, inboxRows, inboxFlags, inboxLoads>>

\* A lifecycle change; once mounted, subscribeXmtpClient's listener loads within it.
InboxSession ==
    /\ SessionNext
    /\ IF inboxMounted THEN LoadBody(status', FALSE)
                       ELSE UNCHANGED <<inboxRows, inboxFlags, inboxLoads>>
    /\ UNCHANGED inboxMounted

-----------------------------------------------------------------------------
(* Specification *)

InboxInit ==
    /\ inboxMounted = FALSE /\ inboxRows = {}
    /\ inboxLoading = TRUE /\ inboxAvailable = TRUE /\ inboxRefreshing = FALSE
    /\ inboxLoads = [l \in InboxLoad |-> NoLoad]

LoadStep(l) == LoadLists(l) \/ LoadResolves(l) \/ LoadShows(l) \/ LoadFails(l)

InboxNext ==
    \/ InboxMounts \/ Refresh \/ Reload \/ InboxSession
    \/ \E l \in InboxLoad : LoadStep(l)

\* Every SDK call of a load settles.
InboxFairness == \A l \in InboxLoad : WF_inboxVars(LoadStep(l))

InboxSpec == SessionInit /\ InboxInit /\ [][InboxNext]_inboxVars /\ InboxFairness

-----------------------------------------------------------------------------
(* Properties *)

InboxTypeOK ==
    /\ {inboxMounted, inboxLoading, inboxAvailable, inboxRefreshing} \subseteq BOOLEAN
    /\ inboxRows \subseteq Conversation(Addr)
    /\ inboxLoads \in [InboxLoad -> InboxLoadState]

\* A pull-to-refresh always ends, whichever of the overlapping loads answers and whatever
\* the client lifecycle does meanwhile.
SpinnerEnds == inboxRefreshing ~> ~inboxRefreshing

\* The list of a mounted hook does not stay in its loading state once the client is no
\* longer being created: the lifecycle subscription heals a load that found no client.
LoadingHeals ==
    inboxMounted /\ inboxLoading ~> (~inboxLoading \/ status.state = "initializing")
=============================================================================
