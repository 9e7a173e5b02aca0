--------------------------- MODULE Components_proofs ---------------------------
(* The components around the lifecycle together, as MCComponents runs them:  *)
(* whichever part a behaviour is about, its component keeps the invariant    *)
(* that its own proof found, and the others stay as they started.  For every *)
(* value of the constants of all ten.                                        *)
EXTENDS MCComponents, Device_proofs, Inbound_proofs, Groups_proofs, Message_proofs, TLAPS

-----------------------------------------------------------------------------
(* The invariant: one conjunct per component *)

PushPart == IF part = "push" THEN PushInv ELSE PushInit
InboxPart == IF part = "inbox" THEN InboxInv ELSE InboxInit
BadgePart == IF part = "badge" THEN BadgeInv ELSE BadgeInit
InboundPart == IF part = "inbound" THEN InbInv ELSE InboundInit
ReactionsPart == IF part = "reactions" THEN ReactInv ELSE ReactionsInit
ThreadPart == IF part = "group thread" THEN ThreadInv ELSE GroupThreadInit
GroupsPart == IF part = "groups" THEN GroupsInv ELSE GroupsInit
AttachmentsPart == IF part = "attachments" THEN AttInv ELSE AttachmentsInit
InstallationsPart == IF part = "installations" THEN InsInv ELSE InstallationsInit
ReceiverPart == IF part = "receiver" THEN ReceiverInv ELSE ReceiverInit

ComponentsInv ==
    /\ PushPart /\ InboxPart /\ BadgePart /\ InboundPart /\ ReactionsPart
    /\ ThreadPart /\ GroupsPart /\ AttachmentsPart /\ InstallationsPart /\ ReceiverPart

LEMMA ComponentsInitInv == Init => ComponentsInv
<1> SUFFICES ASSUME Init PROVE ComponentsInv
  OBVIOUS
<1>1. /\ SessionInit /\ InboxInit /\ BadgeInit /\ InboundInit /\ ReactionsInit /\ PushInit
      /\ GroupThreadInit /\ GroupsInit /\ AttachmentsInit /\ InstallationsInit /\ ReceiverInit
  BY DEF Init
<1>2. PushPart /\ InboxPart /\ BadgePart /\ InboundPart /\ ReactionsPart
  BY <1>1, PushInitInv, InboxInitInv, BadgeInit1, InbInit, ReactInitInv
     DEF PushPart, InboxPart, BadgePart, InboundPart, ReactionsPart
<1>3. ThreadPart /\ GroupsPart /\ AttachmentsPart /\ InstallationsPart /\ ReceiverPart
  BY <1>1, ThreadInitInv, GroupsInitInv, AttInitInv, InsInitInv, ReceiverInitInv
     DEF ThreadPart, GroupsPart, AttachmentsPart, InstallationsPart, ReceiverPart
<1>4. QED
  BY <1>2, <1>3 DEF ComponentsInv

-----------------------------------------------------------------------------
(* A step of the part that a behaviour is about is a step of its component,  *)
(* and the others rest.                                                      *)

LEMMA OnePartMoves ==
  ASSUME [Next]_vars
  PROVE  /\ UNCHANGED part
         /\ IF part = "push" THEN [PushNext]_pushVars ELSE UNCHANGED pushPart
         /\ IF part = "inbox" THEN [InboxNext]_inboxVars ELSE UNCHANGED inboxPart
         /\ IF part = "badge" THEN [BadgeNext]_badgeVars ELSE UNCHANGED badgePart
         /\ IF part = "inbound" THEN [InboundNext]_inbVars ELSE UNCHANGED inbPart
         /\ IF part = "reactions" THEN [ReactionsNext]_reactVars ELSE UNCHANGED reactPart
         /\ IF part = "group thread" THEN [GroupThreadNext]_grpVars ELSE UNCHANGED grpPart
         /\ IF part = "groups" THEN [GroupsNext]_grpsVars ELSE UNCHANGED grpsPart
         /\ IF part = "attachments" THEN [AttachmentsNext]_attVars ELSE UNCHANGED attPart
         /\ IF part = "installations" THEN [InstallationsNext]_insVars ELSE UNCHANGED insPart
         /\ IF part = "receiver" THEN [ReceiverNext]_rcvVars ELSE UNCHANGED rcvPart
<1>1. CASE Next
  BY <1>1 DEF Next
<1>2. CASE UNCHANGED vars
  BY <1>2 DEF vars, pushPart, inboxPart, inboxVars, badgePart, badgeVars, inbPart, inbVars,
              reactPart, grpPart, grpVars, grpsPart, attPart, insPart, rcvPart, rcvVars
<1>3. QED
  BY <1>1, <1>2

\* What starts a component does not look at the session, so one that rests stays as it
\* started, whatever the session does under the part that moves.
LEMMA ComponentsStepInv == ComponentsInv /\ [Next]_vars => ComponentsInv'
<1> SUFFICES ASSUME ComponentsInv, [Next]_vars PROVE ComponentsInv'
  OBVIOUS
<1> USE OnePartMoves DEF ComponentsInv
<1>1. PushPart'
  BY PushStepInv DEF PushPart, pushPart, pushVars, PushInit
<1>2. InboxPart'
  BY InboxStep DEF InboxPart, inboxPart, InboxInit, inboxFlags
<1>3. BadgePart'
  BY BadgeStep DEF BadgePart, badgePart, BadgeInit, badgeData
<1>4. InboundPart'
  BY InbStep DEF InboundPart, inbPart, InboundInit
<1>5. ReactionsPart'
  BY ReactStepInv DEF ReactionsPart, reactPart, reactVars, ReactionsInit
<1>6. ThreadPart'
  BY ThreadStepInv DEF ThreadPart, grpPart, GroupThreadInit, grpScreen
<1>7. GroupsPart'
  BY GroupsStepInv DEF GroupsPart, grpsPart, grpsVars, GroupsInit, grpsGroup, grpsHistory
<1>8. AttachmentsPart'
  BY AttStepInv DEF AttachmentsPart, attPart, attVars, AttachmentsInit
<1>9. InstallationsPart'
  BY InsStepInv DEF InstallationsPart, insPart, insVars, InstallationsInit
<1>10. ReceiverPart'
  BY ReceiverStep DEF ReceiverPart, rcvPart, ReceiverInit
<1>11. QED
  BY <1>1, <1>2, <1>3, <1>4, <1>5, <1>6, <1>7, <1>8, <1>9, <1>10

LEMMA ComponentsAlwaysInv == Spec => []ComponentsInv
  BY ComponentsInitInv, ComponentsStepInv, PTL DEF Spec

-----------------------------------------------------------------------------
(* Theorems *)

\* Every variable of the component that a behaviour is about keeps its type.
THEOREM ComponentsTyped == Spec => []ComponentsTypeOK
<1>1. ComponentsInv => ComponentsTypeOK
  <2> SUFFICES ASSUME ComponentsInv PROVE ComponentsTypeOK
    OBVIOUS
  <2>1. /\ part = "push" => PushTypeOK
        /\ part = "inbox" => InboxTypeOK
        /\ part = "badge" => BadgeTypeOK
        /\ part = "inbound" => InboundTypeOK
        /\ part = "receiver" => ReceiverTypeOK
    BY DEF ComponentsInv, PushPart, PushInv, InboxPart, InboxInv, BadgePart, BadgeInv,
           InboundPart, InbInv, ReceiverPart, ReceiverInv
  <2>2. /\ part = "reactions" => ReactionsTypeOK
        /\ part = "group thread" => GroupThreadTypeOK
        /\ part = "attachments" => AttachmentsTypeOK
        /\ part = "installations" => InstallationsTypeOK
    BY DEF ComponentsInv, ReactionsPart, ReactInv, ThreadPart, ThreadInv, AttachmentsPart,
           AttInv, InstallationsPart, InsInv
  <2>3. part = "groups" => GroupsTypeOK
    BY GroupsTypesFromInv DEF ComponentsInv, GroupsPart
  <2>4. QED
    BY <2>1, <2>2, <2>3 DEF ComponentsTypeOK
<1>2. QED
  BY <1>1, ComponentsAlwaysInv, PTL

\* A component that rests has the invariant too, for it holds from where it starts.
LEMMA EveryInv ==
  ASSUME ComponentsInv
  PROVE  PushInv /\ InbInv /\ ReactInv /\ ThreadInv /\ GroupsInv /\ AttInv /\ InsInv
<1>1. PushInv /\ InbInv /\ ReactInv
  BY PushInitInv, InbInit, ReactInitInv
     DEF ComponentsInv, PushPart, InboundPart, ReactionsPart
<1>2. ThreadInv /\ GroupsInv /\ AttInv /\ InsInv
  BY ThreadInitInv, GroupsInitInv, AttInitInv, InsInitInv
     DEF ComponentsInv, ThreadPart, GroupsPart, AttachmentsPart, InstallationsPart
<1>3. QED
  BY <1>1, <1>2

\* The safety properties of the components hold together, of every behaviour of any part:
\* the badge, the notifications, the pills, the group thread, the rosters, the attachment
\* cells and downloads, and the recovery from the installation cap.
THEOREM ComponentsSafe ==
  Spec => [](/\ BadgeTrue /\ MarkedStaysQuiet /\ PillsAgree /\ GroupThreadOwn /\ RosterReached
             /\ ProtectedStay /\ CellShowsOwn /\ DownloadsOnce /\ RetryFits)
<1> DEFINE Safe == /\ BadgeTrue /\ MarkedStaysQuiet /\ PillsAgree /\ GroupThreadOwn
                   /\ RosterReached /\ ProtectedStay /\ CellShowsOwn /\ DownloadsOnce
                   /\ RetryFits
<1>1. ComponentsInv => Safe
  <2> SUFFICES ASSUME ComponentsInv PROVE Safe
    OBVIOUS
  <2>1. BadgeTrue
    BY BadgeRunAssumption
       DEF ComponentsInv, BadgePart, BadgeInv, BadgeTrue, BadgeInit, BadgeRunAssumption
  <2>2. MarkedStaysQuiet
    BY EveryInv DEF InbInv
  <2>3. PillsAgree
    BY EveryInv, PillsFromInv
  <2>4. GroupThreadOwn
    BY EveryInv DEF ThreadInv, Titled, Streams, OneMounted, Screen, GroupThreadOwn
  <2>5. RosterReached /\ ProtectedStay
    BY EveryInv, RosterFromInv DEF GroupsInv
  <2>6. CellShowsOwn
    BY EveryInv DEF AttInv, CellOwn, EffectDue, CellShowsOwn
  <2>7. DownloadsOnce
    BY EveryInv DEF AttInv, LiveEntries, LiveDownload, DownloadsOnce
  <2>8. RetryFits
    BY EveryInv DEF InsInv, Recovers, Full, RetryFits
  <2>9. QED
    BY <2>1, <2>2, <2>3, <2>4, <2>5, <2>6, <2>7, <2>8
<1>2. QED
  BY <1>1, ComponentsAlwaysInv, PTL

\* Push implements its gate next to the other components, whose steps it does not see.
THEOREM ComponentsImplementGate == Spec => ImplementsPushGate
<1>1. Init => Gate!GateInit
  BY DEF Init, PushInit, Gate!GateInit, GateVerdict
<1>2. ComponentsInv /\ [Next]_vars
        => [Gate!Decide \/ Gate!Call]_<<GateVerdict, pushNatives, pushWedged>>
  BY EveryInv, OnePartMoves, GateStep DEF pushPart
<1>3. QED
  BY <1>1, <1>2, ComponentsAlwaysInv, PTL DEF Spec, ImplementsPushGate, Gate!GateSpec
================================================================================
