---------------------------- MODULE MCComponents ----------------------------
(***************************************************************************)
(* The components around the client lifecycle, on one small instance each. *)
(* They share no variable but `status`, and each of them is written        *)
(* against every behaviour of Session, so a behaviour of one never depends *)
(* on a step of another: a behaviour explores one component, `part`, and   *)
(* the others keep their initial state.  Their properties are about one    *)
(* component each, and say nothing of the rest.                            *)
(***************************************************************************)
EXTENDS Push, Inbox, Badge, Inbound, Reactions, GroupThread, Groups, Attachments,
        Installations, PushReceiver, TLC

CONSTANTS d1, d2, x   \* the group's members: two devices, and one without

\* d1 becomes a plain admin, x a member, were it not protected, and anybody else goes.
MCRosters == {[members |-> {d1, x}, role |-> (d1 :> "admin" @@ x :> "member"), protect |-> {x}]}

\* Everybody is there and nobody as the roster asks; a device is alone; the extra member
\* outranks what the roster says of it.
MCFounded == {[members |-> {d1, d2, x}, admins |-> {x}, supers |-> {d1, d2}],
              [members |-> {d2}, admins |-> {}, supers |-> {d2}],
              [members |-> {d1, d2, x}, admins |-> {d2}, supers |-> {d1, x}]}

VARIABLE part   \* the component that a behaviour is about

pushPart == pushVars
inboxPart == <<inboxMounted, inboxRows, inboxFlags, inboxLoads>>
badgePart == <<badgeData, badgeCount, badgeRuns, badgeLatest, badgeQuiet>>
inbPart == <<inbClients, inbCurrent, inbHandled, inbStored, inbUnstored, inbAge, inbNotified>>
reactPart == reactVars
grpPart == <<grpId, grpRunNow, grpRuns, grpReads, grpRef, grpScreen, grpPosted, grpSeen>>
grpsPart == grpsVars
attPart == attVars
insPart == insVars
rcvPart == <<rcvRecorded, rcvWork, rcvReused, rcvTimer, rcvAnswer>>

vars == <<part, status, pushPart, inboxPart, badgePart, inbPart, reactPart,
          grpPart, grpsPart, attPart, insPart, rcvPart>>

Part == {"push", "inbox", "badge", "inbound", "reactions", "group thread", "groups",
         "attachments", "installations", "receiver"}

\* A component that may start in several states starts in one of them where a behaviour
\* is about another.
Init ==
    /\ part \in Part
    /\ SessionInit
    /\ InboxInit /\ BadgeInit /\ InboundInit /\ ReactionsInit
    /\ PushInit /\ (part = "push" \/ (pushWanted /\ pushRoute = "answers"))
    /\ GroupThreadInit
    /\ \/ part = "group thread"
       \/ grpId = (CHOOSE g \in Group : TRUE) /\ grpRunNow = (CHOOSE r \in GroupRun : TRUE)
    /\ GroupsInit /\ (part = "groups" \/ grpsIn = {d2})
    /\ AttachmentsInit
    /\ part = "attachments" \/ (attCell.shown = NoFile /\ attCell.auto)
    /\ InstallationsInit /\ (part = "installations" \/ (insPrune /\ insCount = 0))
    /\ ReceiverInit /\ (part = "receiver" \/ rcvRecorded = NoAddr)

Next ==
    \/ part = "push" /\ PushNext
       /\ UNCHANGED <<part, status, inboxPart, badgePart, inbPart, reactPart, grpPart,
                      grpsPart, attPart, insPart, rcvPart>>
    \/ part = "inbox" /\ InboxNext
       /\ UNCHANGED <<part, pushPart, badgePart, inbPart, reactPart, grpPart, grpsPart,
                      attPart, insPart, rcvPart>>
    \/ part = "badge" /\ BadgeNext
       /\ UNCHANGED <<part, pushPart, inboxPart, inbPart, reactPart, grpPart, grpsPart,
                      attPart, insPart, rcvPart>>
    \/ part = "inbound" /\ InboundNext
       /\ UNCHANGED <<part, pushPart, inboxPart, badgePart, reactPart, grpPart, grpsPart,
                      attPart, insPart, rcvPart>>
    \/ part = "reactions" /\ ReactionsNext
       /\ UNCHANGED <<part, status, pushPart, inboxPart, badgePart, inbPart, grpPart,
                      grpsPart, attPart, insPart, rcvPart>>
    \/ part = "group thread" /\ GroupThreadNext
       /\ UNCHANGED <<part, pushPart, inboxPart, badgePart, inbPart, reactPart, grpsPart,
                      attPart, insPart, rcvPart>>
    \/ part = "groups" /\ GroupsNext
       /\ UNCHANGED <<part, status, pushPart, inboxPart, badgePart, inbPart, reactPart,
                      grpPart, attPart, insPart, rcvPart>>
    \/ part = "attachments" /\ AttachmentsNext
       /\ UNCHANGED <<part, status, pushPart, inboxPart, badgePart, inbPart, reactPart, grpPart,
                      grpsPart, insPart, rcvPart>>
    \/ part = "installations" /\ InstallationsNext
       /\ UNCHANGED <<part, status, pushPart, inboxPart, badgePart, inbPart, reactPart,
                      grpPart, grpsPart, attPart, rcvPart>>
    \/ part = "receiver" /\ ReceiverNext
       /\ UNCHANGED <<part, pushPart, inboxPart, badgePart, inbPart, reactPart, grpPart,
                      grpsPart, attPart, insPart>>

Spec == Init /\ [][Next]_vars /\ InboxFairness /\ ReceiverFairness

\* The components of the other parts keep their initial state.
ComponentsTypeOK ==
    /\ part = "push" => PushTypeOK
    /\ part = "inbox" => InboxTypeOK
    /\ part = "badge" => BadgeTypeOK
    /\ part = "inbound" => InboundTypeOK
    /\ part = "reactions" => ReactionsTypeOK
    /\ part = "group thread" => GroupThreadTypeOK
    /\ part = "groups" => GroupsTypeOK
    /\ part = "attachments" => AttachmentsTypeOK
    /\ part = "installations" => InstallationsTypeOK
    /\ part = "receiver" => ReceiverTypeOK
=============================================================================
