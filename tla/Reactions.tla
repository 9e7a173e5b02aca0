------------------------------ MODULE Reactions ------------------------------
(***************************************************************************)
(* Reactions to one bubble: the fold of its event log into pills           *)
(* (src/src/chatReactions.ts), and the optimistic toggle of                *)
(* src/src/threadSend.ts, whose sends may fail half-way while the stream   *)
(* brings echoes and the counterparty's reactions.                         *)
(*                                                                         *)
(* An event list is a set: the fold orders it by sentNs, every event has a *)
(* time of its own, and an event merged twice changes nothing.             *)
(***************************************************************************)
EXTENDS Naturals, Sequences, FiniteSets

CONSTANTS
    Emoji, NoEmoji,
    Peer,         \* inbox ids of the others
    Me,           \* myInboxId
    Toggle,       \* taps whose sends are in flight at the same time
    MaxTaps,      \* bound on the taps
    MaxPeerNews   \* bound on the reactions of the others

ASSUME EmojiAssumption == NoEmoji \notin Emoji
ASSUME MeAssumption == Me \notin Peer
ASSUME MaxNewsAssumption == MaxTaps \in Nat /\ MaxPeerNews \in Nat

VARIABLES
    reactClock,      \* the last sentNs given out
    reactTaps, reactPeerNews,   \* how many there were (bounds)
    reactNetwork,    \* the events the network holds
    reactStreamed,   \* those the stream has delivered here
    reactShown,      \* the target's list in reactionsRef
    reactToggles,    \* taps whose sends are in flight
    reactClobbered   \* history: a failing tap threw away an event that was not its own

reactVars == <<reactClock, reactTaps, reactPeerNews, reactNetwork, reactStreamed, reactShown,
               reactToggles, reactClobbered>>

Reactor == Peer \cup {Me}
Time == Nat \ {0}
Step == [emoji : Emoji, added : BOOLEAN]
Event == [sender : Reactor, emoji : Emoji, added : BOOLEAN, ns : Time]
At(sender, step, ns) == [sender |-> sender, emoji |-> step.emoji, added |-> step.added, ns |-> ns]

NoToggle == [plan |-> <<>>, sent |-> 0, base |-> 0, prior |-> {}, landed |-> {},
             alone |-> FALSE]

-----------------------------------------------------------------------------
(* The fold *)

\* One event of replay (chatReactions.ts:64-73): a removal clears only the emoji held.
Replayed(held, e) ==
    IF e.added THEN e.emoji
    ELSE IF held = e.emoji THEN NoEmoji ELSE held

\* replay: each sender's live emoji after all events, in send order.
Live(events, sender) ==
    LET held[ns \in 0..reactClock] ==
            IF ns = 0 THEN NoEmoji
            ELSE LET now == {e \in events : e.sender = sender /\ e.ns = ns}
                 IN  IF now = {} THEN held[ns - 1]
                     ELSE Replayed(held[ns - 1], CHOOSE e \in now : TRUE)
    IN  held[reactClock]

\* summarizeReactions: one pill per emoji somebody holds.
SummarizeReactions(events) ==
    {[emoji |-> x, count |-> Cardinality({s \in Reactor : Live(events, s) = x}),
      mine |-> Live(events, Me) = x] : x \in {Live(events, s) : s \in Reactor} \ {NoEmoji}}

\* reactionPlan: clear the emoji that is held, or remove it before the new one.
ReactionPlan(events, emoji) ==
    LET mine == Live(events, Me)
        Do(x, added) == [emoji |-> x, added |-> added]
    IN  IF mine = emoji THEN <<Do(emoji, FALSE)>>
        ELSE IF mine = NoEmoji THEN <<Do(emoji, TRUE)>>
        ELSE <<Do(mine, FALSE), Do(emoji, TRUE)>>

\* Fault: a tap that fails is taken back as a whole.
RevertPlan(before, plan, applied, base) ==
    IF applied = Len(plan) THEN before \cup {At(Me, plan[i], base + i) : i \in 1..applied}
                           ELSE before

\* applyReactionPlan: the first `applied` steps of the plan, after what was there before.
ApplyReactionPlan(before, plan, applied, base) ==
    before \cup {At(Me, plan[i], base + i) : i \in 1..applied}

-----------------------------------------------------------------------------
(* toggleReaction (threadSend.ts:221) *)

QuietThread == reactToggles = [t \in Toggle |-> NoToggle] /\ reactStreamed = reactNetwork

\* The tap: the plan is shown at once, and its first step is sent.
ToggleReaction(t, emoji) ==
    /\ reactToggles[t] = NoToggle
    /\ reactTaps < MaxTaps
    /\ reactTaps' = reactTaps + 1
    /\ LET plan == ReactionPlan(reactShown, emoji)
       IN  /\ reactShown' = ApplyReactionPlan(reactShown, plan, Len(plan), reactClock)
           /\ reactClock' = reactClock + Len(plan)
           /\ reactToggles' = [u \in Toggle |->
                  IF u = t THEN [plan |-> plan, sent |-> 0, base |-> reactClock,
                                 prior |-> reactShown, landed |-> {}, alone |-> QuietThread]
                           ELSE [reactToggles[u] EXCEPT !.alone = FALSE]]
    /\ UNCHANGED <<reactPeerNews, reactNetwork, reactStreamed, reactClobbered>>

\* The message of the next step, with the time the SDK stamps on it.
NextEvent(t) ==
    At(Me, reactToggles[t].plan[reactToggles[t].sent + 1], reactClock + 1)

Stored(e) == reactNetwork' = reactNetwork \cup {e} /\ reactClock' = reactClock + 1

\* A send resolved: the loop goes on to the next step, or the tap is done.
StepSent(t) ==
    /\ reactToggles[t] # NoToggle
    /\ Stored(NextEvent(t))
    /\ LET sent == reactToggles[t].sent + 1
       IN  reactToggles' = [reactToggles EXCEPT ![t] =
               IF sent = Len(@.plan) THEN NoToggle
               ELSE [@ EXCEPT !.sent = sent,
                              !.landed = reactToggles[t].landed \cup {NextEvent(t)}]]
    /\ UNCHANGED <<reactTaps, reactPeerNews, reactStreamed, reactShown, reactClobbered>>

\* What a failing tap takes out of the list besides its own steps; the echoes of those
\* count as its own when nothing else was under way at the tap or was tapped since.
Lost(t) ==
    LET tap == reactToggles[t]
    IN  reactShown \ (ApplyReactionPlan(tap.prior, tap.plan, Len(tap.plan), tap.base)
                        \cup IF tap.alone THEN tap.landed ELSE {})

\* A send rejected.  The SDK may have stored its message all the same and publish it
\* later.  The list becomes what it was before the tap and the steps that landed.
StepFails(t) ==
    /\ reactToggles[t] # NoToggle
    /\ \/ Stored(NextEvent(t))
       \/ UNCHANGED <<reactNetwork, reactClock>>
    /\ LET tap == reactToggles[t]
       IN  reactShown' = ApplyReactionPlan(tap.prior, tap.plan, tap.sent, tap.base)
    /\ reactClobbered' = (reactClobbered \/ Lost(t) # {})
    /\ reactToggles' = [reactToggles EXCEPT ![t] = NoToggle]
    /\ UNCHANGED <<reactTaps, reactPeerNews, reactStreamed>>

-----------------------------------------------------------------------------
(* The stream and the others *)

\* mergeReaction of an event the stream delivers, an echo of this inbox's own included.
MergeReaction(e) ==
    /\ e \in reactNetwork \ reactStreamed
    /\ reactStreamed' = reactStreamed \cup {e}
    /\ reactShown' = reactShown \cup {e}
    /\ UNCHANGED <<reactClock, reactTaps, reactPeerNews, reactNetwork, reactToggles,
                   reactClobbered>>

\* Another member adds or removes a reaction.
PeerReacts(p, step) ==
    /\ reactPeerNews < MaxPeerNews
    /\ reactPeerNews' = reactPeerNews + 1
    /\ Stored(At(p, step, reactClock + 1))
    /\ UNCHANGED <<reactTaps, reactStreamed, reactShown, reactToggles, reactClobbered>>

-----------------------------------------------------------------------------
(* Specification *)

ReactionsInit ==
    /\ reactClock = 0 /\ reactTaps = 0 /\ reactPeerNews = 0
    /\ reactNetwork = {} /\ reactStreamed = {} /\ reactShown = {}
    /\ reactToggles = [t \in Toggle |-> NoToggle]
    /\ reactClobbered = FALSE

ReactionsNext ==
    \/ \E t \in Toggle :
           \/ \E emoji \in Emoji : ToggleReaction(t, emoji)
           \/ StepSent(t) \/ StepFails(t)
    \/ \E e \in reactNetwork : MergeReaction(e)
    \/ \E p \in Peer, step \in Step : PeerReacts(p, step)

ReactionsSpec == ReactionsInit /\ [][ReactionsNext]_reactVars

-----------------------------------------------------------------------------
(* Properties *)

ReactionsTypeOK ==
    /\ reactClock \in Nat
    /\ reactTaps \in 0..MaxTaps /\ reactPeerNews \in 0..MaxPeerNews
    /\ reactStreamed \subseteq reactNetwork /\ reactNetwork \subseteq Event
    /\ reactShown \subseteq Event
    /\ \A t \in Toggle :
           /\ reactToggles[t].plan \in {<<>>} \cup (Step \X Step) \cup [1..1 -> Step]
           /\ reactToggles[t].sent \in 0..1 /\ reactToggles[t].base \in Nat
           /\ reactToggles[t].prior \subseteq Event /\ reactToggles[t].landed \subseteq Event
           /\ reactToggles[t].alone \in BOOLEAN
    /\ reactClobbered \in BOOLEAN

\* What a sender holds, said without a replay: the emoji of an addition that neither a
\* later addition nor a later removal of it supersedes.
Holds(events, sender, emoji) ==
    \E e \in events :
        /\ e.sender = sender /\ e.added /\ e.emoji = emoji
        /\ \A later \in events :
               later.sender = sender /\ later.ns > e.ns
                   => ~later.added /\ later.emoji # emoji

\* When no tap is being sent and the stream is drained, the pills under the bubble are
\* exactly what the network holds, one reaction per member, after any overlap of taps,
\* half-failed replacements, echoes and reactions of the others; unless a failing tap
\* threw away what was streamed while it was sending.
PillsAgree ==
    QuietThread /\ ~reactClobbered
    => SummarizeReactions(reactShown) =
           {[emoji |-> x, count |-> Cardinality({s \in Reactor : Holds(reactNetwork, s, x)}),
             mine |-> Holds(reactNetwork, Me, x)] :
                x \in {y \in Emoji : \E s \in Reactor : Holds(reactNetwork, s, y)}}
=============================================================================
