---------------------------- MODULE Inbound_proofs ----------------------------
(* Proofs about Inbound, for every ring size and any number of messages,     *)
(* about Badge, which counts what the engine lets in, for every set of       *)
(* conversations and any number of recomputes at the same time, and about    *)
(* Inbox, which lists it, for any number of overlapping loads.               *)
EXTENDS Inbound, Badge, Inbox, FiniteSetTheorems, TLAPS

-----------------------------------------------------------------------------
(* The ring of handled ids *)

LEMMA RingType ==
  ASSUME NEW ring
  PROVE  ring \in Rings <=> ring \in Seq(InboundMsg) /\ Len(ring) <= RingSize
<1>1. ASSUME ring \in Rings PROVE ring \in Seq(InboundMsg) /\ Len(ring) <= RingSize
  <2>1. PICK n \in 0..RingSize : ring \in [1..n -> InboundMsg]
    BY <1>1 DEF Rings
  <2>2. QED
    BY <2>1, RingSizeAssumption DEF RingSizeAssumption
<1>2. ASSUME ring \in Seq(InboundMsg), Len(ring) <= RingSize PROVE ring \in Rings
  <2>1. Len(ring) \in 0..RingSize /\ ring \in [1..Len(ring) -> InboundMsg]
    BY <1>2, RingSizeAssumption DEF RingSizeAssumption
  <2>2. QED
    BY <2>1 DEF Rings
<1>3. QED
  BY <1>1, <1>2

LEMMA EmptyRing == <<>> \in Rings
<1>1. <<>> \in Seq(InboundMsg) /\ Len(<<>>) <= RingSize
  BY RingSizeAssumption DEF RingSizeAssumption
<1>2. QED
  BY <1>1, RingType

LEMMA NullNoRing == Null \notin Rings
<1>1. ASSUME Null \in Rings PROVE FALSE
  <2>1. Null \in Seq(InboundMsg)
    BY <1>1, RingType
  <2>2. Null[1] \in InboundMsg
    BY <2>1 DEF Null
  <2>3. QED
    BY <2>2, InboundMsgAssumption DEF Null, InboundMsgAssumption
<1>2. QED
  BY <1>1

\* The ring after a mark: the newest RingSize ids are kept, the marked one last.
Marked(ring, id, new) ==
    /\ new \in Rings
    /\ Len(new) = IF Len(ring) < RingSize THEN Len(ring) + 1 ELSE RingSize
    /\ new[Len(new)] = id
    /\ \A k \in 0..(Len(new) - 2) : new[Len(new) - (k + 1)] = ring[Len(ring) - k]

LEMMA TrimmedRing ==
  ASSUME NEW ring \in Rings, NEW id \in InboundMsg
  PROVE  Marked(ring, id, Trimmed(Append(ring, id)))
<1> DEFINE long == Append(ring, id)
           new == Trimmed(long)
<1>1. /\ ring \in Seq(InboundMsg) /\ Len(ring) \in Nat /\ Len(ring) <= RingSize
      /\ RingSize \in Nat /\ RingSize > 0
  BY RingType, RingSizeAssumption DEF RingSizeAssumption
<1>2. /\ long \in Seq(InboundMsg) /\ Len(long) = Len(ring) + 1 /\ long[Len(ring) + 1] = id
      /\ \A i \in 1..Len(ring) : long[i] = ring[i]
  BY <1>1
<1> HIDE DEF long
<1>3. CASE Len(ring) < RingSize
  <2>1. new = long
    BY <1>1, <1>2, <1>3 DEF Trimmed
  <2>2. \A k \in 0..(Len(new) - 2) : new[Len(new) - (k + 1)] = ring[Len(ring) - k]
    BY <1>1, <1>2, <1>3, <2>1
  <2> HIDE DEF new
  <2>3. Marked(ring, id, new)
    BY <1>1, <1>2, <1>3, <2>1, <2>2, RingType DEF Marked
  <2>4. QED
    BY <2>3 DEF new, long
<1>4. CASE Len(ring) = RingSize
  <2>1. new = SubSeq(long, 2, RingSize + 1)
    BY <1>1, <1>2, <1>4 DEF Trimmed
  <2>2. /\ new \in Seq(InboundMsg) /\ Len(new) = RingSize
        /\ \A i \in 1..RingSize : new[i] = long[i + 1]
    BY <1>1, <1>2, <1>4, <2>1
  <2>3. \A k \in 0..(Len(new) - 2) : new[Len(new) - (k + 1)] = ring[Len(ring) - k]
    BY <1>1, <1>2, <1>4, <2>2
  <2> HIDE DEF new
  <2>4. Marked(ring, id, new)
    BY <1>1, <1>2, <1>4, <2>2, <2>3, RingType DEF Marked
  <2>5. QED
    BY <2>4 DEF new, long
<1>5. QED
  BY <1>1, <1>3, <1>4

-----------------------------------------------------------------------------
(* The invariant of the engine *)

\* An id that fewer than RingSize marks followed is in the ring, as far from its end.
Recent(ring) ==
    \A m \in InboundMsg :
        inbAge[m] < RingSize => inbAge[m] < Len(ring) /\ ring[Len(ring) - inbAge[m]] = m

\* What the process would load after a restart remembers as much, unless MMKV threw.
Remembered == Recent(Ids) /\ (~inbUnstored => Recent(inbStored))

\* The engine runs for the newest client of the process, or not at all.
NewestClient == inbCurrent \in {0, inbClients}

InbInv == InboundTypeOK /\ Remembered /\ NewestClient /\ MarkedStaysQuiet

LEMMA IdsRing == ASSUME InbInv PROVE Ids \in Rings /\ inbStored \in Rings
  BY DEF InbInv, InboundTypeOK, Ids

LEMMA InbInit == InboundInit => InbInv
<1> SUFFICES ASSUME InboundInit PROVE InbInv
  OBVIOUS
<1>1. RingSize \in Nat /\ MaxClients \in Nat
  BY RingSizeAssumption, MaxClientsAssumption DEF RingSizeAssumption, MaxClientsAssumption
<1>2. <<>> \in Rings
  BY EmptyRing
<1>3. inbAge \in [InboundMsg -> 0..RingSize] /\ \A m \in InboundMsg : inbAge[m] = RingSize
  BY <1>1 DEF InboundInit, NothingOwed
<1>4. InboundTypeOK
  <2>1. /\ inbClients = 0 /\ inbCurrent = 0 /\ inbHandled = Null /\ inbStored = <<>>
        /\ inbUnstored = FALSE /\ inbNotified = Nothing
    BY DEF InboundInit
  <2>2. inbClients \in 0..MaxClients /\ inbCurrent \in 0..inbClients
    BY <1>1, <2>1
  <2>3. QED
    BY <1>2, <1>3, <2>1, <2>2 DEF InboundTypeOK
<1>5. Remembered
  BY <1>1, <1>3 DEF Remembered, Recent
<1>6. QED
  BY <1>4, <1>5 DEF InboundInit, InbInv, NewestClient, MarkedStaysQuiet

LEMMA MarkStep ==
  ASSUME InbInv, NEW id \in InboundMsg, MarkInboundHandled(id)
  PROVE  InbInv'
<1>1. RingSize \in Nat /\ RingSize > 0 /\ MaxClients \in Nat
  BY RingSizeAssumption, MaxClientsAssumption DEF RingSizeAssumption, MaxClientsAssumption
<1>2. Ids \in Rings /\ Ids \in Seq(InboundMsg) /\ Len(Ids) \in Nat
  BY IdsRing, RingType
<1>3. /\ inbAge \in [InboundMsg -> 0..RingSize] /\ inbClients \in 0..MaxClients
      /\ inbStored \in Rings
  BY DEF InbInv, InboundTypeOK
<1>4. PICK ring : /\ ring = Trimmed(Append(Ids, id))
                  /\ inbHandled' = ring
                  /\ \/ inbStored' = ring /\ inbUnstored' = FALSE
                     \/ UNCHANGED inbStored /\ inbUnstored' = TRUE
  BY DEF MarkInboundHandled
<1>5. Marked(Ids, id, ring)
  <2>1. Marked(Ids, id, Trimmed(Append(Ids, id)))
    BY <1>2, TrimmedRing
  <2>2. ring = Trimmed(Append(Ids, id))
    BY <1>4
  <2>3. QED
    BY <2>1, <2>2
<1>6. /\ inbAge' \in [InboundMsg -> 0..RingSize]
      /\ \A m \in InboundMsg : inbAge'[m] =
            IF m = id THEN 0 ELSE IF inbAge[m] < RingSize THEN inbAge[m] + 1 ELSE RingSize
  BY <1>1, <1>3 DEF MarkInboundHandled
<1>7. inbHandled' # Null
  BY <1>4, <1>5, NullNoRing DEF Marked
<1>8. /\ Recent(Ids)
      /\ \A m \in InboundMsg :
            inbAge'[m] < RingSize => inbAge'[m] < Len(ring) /\ ring[Len(ring) - inbAge'[m]] = m
  <2>1. Recent(Ids)
    BY DEF InbInv, Remembered
  <2>2. ASSUME NEW m \in InboundMsg, inbAge'[m] < RingSize
        PROVE  inbAge'[m] < Len(ring) /\ ring[Len(ring) - inbAge'[m]] = m
    <3>1. CASE m = id
      BY <1>1, <1>2, <1>5, <1>6, <3>1 DEF Marked
    <3>2. CASE m # id
      <4>1. /\ inbAge[m] \in Nat /\ inbAge[m] < RingSize /\ inbAge'[m] = inbAge[m] + 1
            /\ inbAge[m] < Len(Ids) /\ Ids[Len(Ids) - inbAge[m]] = m
        BY <1>1, <1>3, <1>6, <2>1, <2>2, <3>2 DEF Recent
      <4>2. inbAge[m] \in 0..(Len(ring) - 2)
        BY <1>1, <1>2, <1>5, <2>2, <4>1 DEF Marked
      <4>3. QED
        BY <1>1, <1>2, <1>5, <2>2, <4>1, <4>2 DEF Marked
    <3>3. QED
      BY <3>1, <3>2
  <2>3. QED
    BY <2>1, <2>2
<1>9. Remembered'
  BY <1>4, <1>7, <1>8 DEF Remembered, Recent, Ids
<1>10. UNCHANGED <<inbClients, inbCurrent, inbNotified>>
  BY DEF MarkInboundHandled
<1>11. inbStored' \in Rings /\ inbHandled' \in Rings /\ inbUnstored' \in BOOLEAN
  BY <1>3, <1>4, <1>5 DEF Marked
<1>12. InboundTypeOK'
  BY <1>6, <1>10, <1>11 DEF InbInv, InboundTypeOK
<1>13. QED
  BY <1>9, <1>10, <1>12 DEF InbInv, NewestClient, MarkedStaysQuiet

\* An id whose age still counts is in the ring.
LEMMA UnmarkedIsOld ==
  ASSUME InbInv, NEW id \in InboundMsg, ~WasInboundHandled(id)
  PROVE  inbAge[id] = RingSize
<1>1. RingSize \in Nat /\ RingSize > 0 /\ inbAge[id] \in 0..RingSize
  BY RingSizeAssumption DEF RingSizeAssumption, InbInv, InboundTypeOK
<1>2. Ids \in Seq(InboundMsg) /\ Len(Ids) \in Nat
  BY IdsRing, RingType
<1>3. ASSUME inbAge[id] < RingSize PROVE FALSE
  <2>1. inbAge[id] \in Nat /\ inbAge[id] < Len(Ids) /\ Ids[Len(Ids) - inbAge[id]] = id
    BY <1>1, <1>3 DEF InbInv, Remembered, Recent
  <2>2. Len(Ids) - inbAge[id] \in DOMAIN Ids
    BY <1>2, <2>1
  <2>3. QED
    BY <2>1, <2>2 DEF WasInboundHandled
<1>4. QED
  BY <1>1, <1>3

LEMMA LoadedRing ==
  ASSUME InbInv, inbHandled' = Ids, UNCHANGED <<inbStored, inbUnstored, inbAge>>
  PROVE  Remembered' /\ inbHandled' \in Rings
<1>1. Ids \in Rings /\ Ids # Null
  BY IdsRing, NullNoRing
<1>2. Ids' = Ids
  BY <1>1 DEF Ids
<1>3. QED
  BY <1>1, <1>2 DEF InbInv, Remembered, Recent

\* The handler is called for the client whose stream runs, which is the newest one, and for
\* an id that nothing remembers.
LEMMA DeliversStep ==
  ASSUME InbInv, NEW client \in 1..MaxClients, NEW id \in InboundMsg, Delivers(client, id)
  PROVE  InbInv'
<1>1. RingSize \in Nat /\ MaxClients \in Nat /\ inbClients \in 0..MaxClients
  BY RingSizeAssumption, MaxClientsAssumption
     DEF RingSizeAssumption, MaxClientsAssumption, InbInv, InboundTypeOK
<1>2. /\ UNCHANGED <<inbClients, inbCurrent, inbStored, inbUnstored, inbAge>>
      /\ inbHandled' = Ids /\ client = inbClients
  BY <1>1 DEF Delivers, OwnStream, InbInv, NewestClient
<1>3. PICK again \in BOOLEAN : inbNotified' = Notice(client, id, RingSize, ActiveClient, again)
  BY UnmarkedIsOld DEF Delivers
<1>4. ActiveClient \in {0, client} /\ ActiveClient \in 0..MaxClients
  BY <1>1, <1>2 DEF ActiveClient
<1>5. MarkedStaysQuiet'
  BY <1>3, <1>4 DEF MarkedStaysQuiet, Notice
<1>6. inbNotified' \in [client : 1..MaxClients, id : InboundMsg, age : 0..RingSize,
                        active : 0..MaxClients, again : BOOLEAN]
  BY <1>1, <1>3, <1>4 DEF Notice
<1>7. Remembered' /\ inbHandled' \in Rings
  BY <1>2, LoadedRing
<1>8. InboundTypeOK'
  BY <1>2, <1>6, <1>7 DEF InbInv, InboundTypeOK
<1>9. QED
  BY <1>2, <1>5, <1>7, <1>8 DEF InbInv, NewestClient

LEMMA LoadsStep ==
  ASSUME InbInv, LoadsRing
  PROVE  InbInv'
<1>1. UNCHANGED <<inbClients, inbCurrent, inbStored, inbUnstored, inbAge, inbNotified>>
  BY DEF LoadsRing
<1>2. Remembered' /\ inbHandled' \in Rings
  BY <1>1, LoadedRing DEF LoadsRing
<1>3. InboundTypeOK'
  BY <1>1, <1>2 DEF InbInv, InboundTypeOK
<1>4. QED
  BY <1>1, <1>2, <1>3 DEF InbInv, NewestClient, MarkedStaysQuiet

\* A sign-out forgets the ring and what it owed; a restart loses at most a ring that MMKV
\* does not hold.
LEMMA ForgetsStep ==
  ASSUME InbInv, InboundSignedOut \/ InboundRestart
  PROVE  InbInv'
<1>1. RingSize \in Nat /\ MaxClients \in Nat
  BY RingSizeAssumption, MaxClientsAssumption DEF RingSizeAssumption, MaxClientsAssumption
<1>2. <<>> \in Rings
  BY EmptyRing
<1>3. NothingOwed \in [InboundMsg -> 0..RingSize] /\ \A m \in InboundMsg : NothingOwed[m] = RingSize
  BY <1>1 DEF NothingOwed
<1>4. inbHandled' = Null /\ inbUnstored' = FALSE
  BY DEF InboundSignedOut, ForgetInboundHandledCache, InboundRestart
<1>5. /\ inbStored' \in Rings /\ inbAge' \in [InboundMsg -> 0..RingSize]
      /\ \A m \in InboundMsg : inbAge'[m] < RingSize =>
             inbAge'[m] < Len(inbStored') /\ inbStored'[Len(inbStored') - inbAge'[m]] = m
  <2>1. CASE inbAge' = NothingOwed
    BY <1>1, <1>2, <1>3, <2>1
       DEF InboundSignedOut, ForgetInboundHandledCache, InboundRestart, InbInv, InboundTypeOK
  <2>2. CASE inbAge' # NothingOwed
    <3>1. inbAge' = inbAge /\ inbStored' = inbStored /\ ~inbUnstored
      BY <2>2 DEF InboundSignedOut, ForgetInboundHandledCache, InboundRestart
    <3>2. QED
      BY <3>1 DEF InbInv, InboundTypeOK, Remembered, Recent
  <2>3. QED
    BY <2>1, <2>2
<1>6. Remembered'
  BY <1>4, <1>5 DEF Remembered, Recent, Ids
<1>7. \/ UNCHANGED <<inbClients, inbCurrent, inbNotified>>
      \/ inbClients' = 0 /\ inbCurrent' = 0 /\ inbNotified' = Nothing
  BY DEF InboundSignedOut, InboundRestart
<1>8. InboundTypeOK'
  <2>1. inbClients' \in 0..MaxClients /\ inbCurrent' \in 0..inbClients'
    BY <1>1, <1>7 DEF InbInv, InboundTypeOK
  <2>2. \/ inbNotified' = Nothing
        \/ inbNotified' \in [client : 1..MaxClients, id : InboundMsg, age : 0..RingSize,
                             active : 0..MaxClients, again : BOOLEAN]
    BY <1>7 DEF InbInv, InboundTypeOK
  <2>3. QED
    BY <1>4, <1>5, <2>1, <2>2 DEF InboundTypeOK
<1>9. QED
  BY <1>6, <1>7, <1>8 DEF InbInv, NewestClient, MarkedStaysQuiet

\* What leaves the ring alone.
LEMMA RingStays ==
  ASSUME InbInv, UNCHANGED <<inbHandled, inbStored, inbUnstored, inbAge, inbNotified>>,
         inbClients' \in 0..MaxClients, inbCurrent' \in 0..inbClients',
         inbCurrent' \in {0, inbClients'}
  PROVE  InbInv'
<1>1. InboundTypeOK'
  BY DEF InbInv, InboundTypeOK
<1>2. Remembered' /\ MarkedStaysQuiet' /\ NewestClient'
  BY DEF InbInv, Remembered, Recent, Ids, MarkedStaysQuiet, NewestClient
<1>3. QED
  BY <1>1, <1>2 DEF InbInv

LEMMA InbStep == InbInv /\ [InboundNext]_inbVars => InbInv'
<1> SUFFICES ASSUME InbInv, [InboundNext]_inbVars PROVE InbInv'
  OBVIOUS
<1>1. /\ MaxClients \in Nat /\ inbClients \in 0..MaxClients /\ inbCurrent \in 0..inbClients
      /\ inbCurrent \in {0, inbClients}
  BY MaxClientsAssumption DEF MaxClientsAssumption, InbInv, InboundTypeOK, NewestClient
<1>2. CASE UNCHANGED inbVars
  BY <1>1, <1>2, RingStays DEF inbVars
<1>3. CASE StopInboundMessages
  BY <1>1, <1>3, RingStays DEF StopInboundMessages
<1>4. CASE InboundReady
  <2>1. inbClients' = inbClients + 1 /\ inbCurrent' = inbClients + 1 /\ inbClients < MaxClients
    BY <1>4 DEF InboundReady
  <2>2. QED
    BY <1>1, <1>4, <2>1, RingStays DEF InboundReady
<1>5. CASE InboundSession
  BY <1>1, <1>5, RingStays DEF InboundSession
<1>6. QED
  BY <1>2, <1>3, <1>4, <1>5, DeliversStep, MarkStep, LoadsStep, ForgetsStep DEF InboundNext

\* A message that the host marked reaches its handler again only after RingSize other marks,
\* a sign-out or the loss of a ring MMKV never held, whenever and whatever the host marks; and
\* a late callback of an earlier client's stream never does while another wallet is signed in
\* (inboundMessages.ts:47, 99, 102).
THEOREM MarkedIsQuiet == InboundSpec => []MarkedStaysQuiet
<1>1. InbInv => MarkedStaysQuiet
  BY DEF InbInv
<1>2. QED
  BY <1>1, InbInit, InbStep, PTL DEF InboundSpec

\* Every variable of the inbound engine keeps its type; the ring never grows beyond
\* HANDLED_MAX, in memory or in MMKV.
THEOREM InboundTyped == InboundSpec => []InboundTypeOK
<1>1. InbInv => InboundTypeOK
  BY DEF InbInv
<1>2. QED
  BY <1>1, InbInit, InbStep, PTL DEF InboundSpec

-----------------------------------------------------------------------------
(* The invariant of the badge *)

WalletNow == IF status.state = "ready" THEN status.address ELSE NoAddr

\* What a listing of the wallet finds.
Counted(wallet) ==
    {l \in Listing : wallet = BadgeOwner /\ badgeNews[l.conv] /\ l.ns = badgeNewest[l.conv]}

StatusTyped ==
    status \in [state : {"idle", "initializing", "ready", "failed"}, address : Addr \cup {NoAddr}]

\* A listing holds one message of a conversation.
OnePerConv ==
    \A r \in BadgeRun : \A l, m \in badgeRuns[r].listed : l.conv = m.conv => l = m

\* The latest run is of the wallet that is signed in, and unless something is still to
\* nudge, or an own message slipped in, what it listed is what a listing would find now.
LatestIsCurrent ==
    badgeLatest \in BadgeRun =>
        /\ badgeRuns[badgeLatest].pc # "free"
        /\ badgeRuns[badgeLatest].wallet = WalletNow
        /\ badgeRuns[badgeLatest].pc = "listed" /\ badgeQuiet /\ badgePending = {}
               => badgeRuns[badgeLatest].listed = Counted(WalletNow)

BadgeInv == StatusTyped /\ BadgeTypeOK /\ OnePerConv /\ LatestIsCurrent /\ BadgeTrue

RunState == [pc : {"free", "asked", "listed"}, wallet : Addr \cup {NoAddr}, listed : SUBSET Listing]

LEMMA BadgeTypes ==
  ASSUME BadgeInv
  PROVE  /\ badgeNewest \in [BadgeConv -> 0..MaxNs] /\ badgeSeen \in [BadgeConv -> 0..MaxNs]
         /\ badgeNews \in [BadgeConv -> BOOLEAN] /\ badgePending \subseteq BadgeConv
         /\ badgeCount \in 0..Cardinality(BadgeConv)
         /\ badgeRuns \in [BadgeRun -> RunState]
         /\ badgeLatest \in BadgeRun \cup {"applied", "failed"}
         /\ badgeQuiet \in BOOLEAN
         /\ MaxNs \in Nat
  BY BadgeConvAssumption DEF BadgeInv, BadgeTypeOK, RunState, BadgeConvAssumption

\* A listing with one message of a conversation counts no more than there are.
LEMMA UnreadFits ==
  ASSUME BadgeInv, NEW r \in BadgeRun
  PROVE  UnreadOf(badgeRuns[r].listed) \in 0..Cardinality(BadgeConv)
<1> DEFINE S == {l \in badgeRuns[r].listed : l.ns > badgeSeen[l.conv]}
           f == [l \in S |-> l.conv]
<1>1. S \subseteq Listing /\ \A l, m \in S : l.conv = m.conv => l = m
  BY BadgeTypes DEF BadgeInv, OnePerConv, RunState
<1> HIDE DEF S
<1>2. f \in Injection(S, BadgeConv)
  BY <1>1 DEF Injection, IsInjective, Listing
<1>3. IsFiniteSet(S) /\ Cardinality(S) <= Cardinality(BadgeConv)
  BY <1>2, FS_Injection, BadgeConvAssumption DEF BadgeConvAssumption
<1>4. Cardinality(S) \in Nat /\ Cardinality(BadgeConv) \in Nat
  BY <1>3, FS_CardinalityType, BadgeConvAssumption DEF BadgeConvAssumption
<1>5. UnreadOf(badgeRuns[r].listed) = Cardinality(S)
  BY DEF UnreadOf, S
<1>6. QED
  BY <1>3, <1>4, <1>5

\* Counting what a listing finds now is counting the unread conversations.
LEMMA CountedIsUnread ==
  ASSUME BadgeInv
  PROVE  UnreadOf(Counted(WalletNow)) = Cardinality(Unread)
<1> DEFINE S == {l \in Counted(WalletNow) : l.ns > badgeSeen[l.conv]}
           f == [l \in S |-> l.conv]
<1>1. /\ badgeNewest \in [BadgeConv -> 0..MaxNs] /\ badgeSeen \in [BadgeConv -> 0..MaxNs]
      /\ MaxNs \in Nat
  BY BadgeTypes
<1>2. WalletNow = BadgeOwner <=> status = SessionStatus("ready", BadgeOwner)
  BY BadgeOwnerAssumption
     DEF WalletNow, SessionStatus, BadgeInv, StatusTyped, BadgeOwnerAssumption
<1>3. \A c : c \in Unread <=>
          WalletNow = BadgeOwner /\ c \in BadgeConv /\ badgeNews[c] /\ badgeNewest[c] > badgeSeen[c]
  BY <1>2 DEF Unread
<1>4. \A l : l \in S <=>
          /\ l \in Listing /\ WalletNow = BadgeOwner /\ badgeNews[l.conv]
          /\ l.ns = badgeNewest[l.conv] /\ l.ns > badgeSeen[l.conv]
  BY DEF Counted
<1>5. UnreadOf(Counted(WalletNow)) = Cardinality(S)
  BY DEF UnreadOf
<1> HIDE DEF S
<1>6. \A l \in S : l.conv \in Unread
  BY <1>3, <1>4 DEF Listing
<1>7. \A l, m \in S : l.conv = m.conv => l = m
  BY <1>4 DEF Listing
<1>8. ASSUME NEW c \in Unread PROVE \E l \in S : l.conv = c
  <2>1. /\ WalletNow = BadgeOwner /\ c \in BadgeConv /\ badgeNews[c]
        /\ badgeNewest[c] > badgeSeen[c] /\ badgeNewest[c] \in 1..MaxNs
    BY <1>1, <1>3
  <2>2. [conv |-> c, ns |-> badgeNewest[c]] \in S
    BY <1>4, <2>1 DEF Listing
  <2>3. QED
    BY <2>2
<1>9. f \in Bijection(S, Unread)
  BY <1>6, <1>7, <1>8 DEF Bijection, Injection, IsInjective, Surjection
<1>10. IsFiniteSet(S)
  <2>1. f \in Injection(S, BadgeConv)
    BY <1>3, <1>6, <1>7 DEF Injection, IsInjective
  <2>2. QED
    BY <2>1, FS_Injection, BadgeConvAssumption DEF BadgeConvAssumption
<1>11. Cardinality(Unread) = Cardinality(S)
  BY <1>9, <1>10, FS_Bijection DEF ExistsBijection
<1>12. QED
  BY <1>5, <1>11

-----------------------------------------------------------------------------
(* The steps of the badge *)

LEMMA SessionTyped ==
  ASSUME StatusTyped, SessionNext
  PROVE  StatusTyped'
  BY DEF StatusTyped, SessionNext, Begin, Ready, Fail, End, SessionIdle, SessionStatus

LEMMA BadgeInit1 == SessionInit /\ BadgeInit => BadgeInv
<1> SUFFICES ASSUME SessionInit, BadgeInit PROVE BadgeInv
  OBVIOUS
<1>1. StatusTyped /\ status.state = "idle"
  BY DEF SessionInit, SessionIdle, SessionStatus, StatusTyped
<1>2. MaxNs \in Nat /\ Cardinality(BadgeConv) \in Nat
  BY FS_CardinalityType, BadgeConvAssumption DEF BadgeConvAssumption
<1>3. BadgeTypeOK
  BY <1>2 DEF BadgeInit, BadgeTypeOK, NoRun
<1>4. OnePerConv
  BY DEF OnePerConv, BadgeInit, NoRun
<1>5. LatestIsCurrent /\ BadgeTrue
  BY BadgeRunAssumption DEF LatestIsCurrent, BadgeTrue, BadgeInit, BadgeRunAssumption
<1>6. QED
  BY <1>1, <1>3, <1>4, <1>5 DEF BadgeInv

\* A recompute starts from the status of now, so it is current until something changes.
LEMMA RecomputeStep ==
  ASSUME BadgeInv, Recompute(status'), StatusTyped',
         badgeNewest' \in [BadgeConv -> 0..MaxNs], badgeSeen' \in [BadgeConv -> 0..MaxNs],
         badgeNews' \in [BadgeConv -> BOOLEAN], badgePending' \subseteq BadgeConv
  PROVE  BadgeInv'
<1>1. PICK r \in BadgeRun :
         /\ badgeRuns[r].pc = "free"
         /\ badgeRuns' = [badgeRuns EXCEPT ![r] =
                [pc |-> "asked", listed |-> {},
                 wallet |-> IF status'.state = "ready" THEN status'.address ELSE NoAddr]]
         /\ badgeLatest' = r
         /\ badgeQuiet' = TRUE
         /\ UNCHANGED badgeCount
  BY DEF Recompute
<1> DEFINE new == [pc |-> "asked", listed |-> {},
                   wallet |-> IF status'.state = "ready" THEN status'.address ELSE NoAddr]
<1>2. new \in RunState /\ new.pc = "asked" /\ new.listed = {} /\ new.wallet = WalletNow'
  BY DEF RunState, StatusTyped, WalletNow
<1>3. badgeRuns' = [badgeRuns EXCEPT ![r] = new]
  BY <1>1
<1> HIDE DEF new
<1>4. /\ badgeRuns' \in [BadgeRun -> RunState]
      /\ \A q \in BadgeRun : badgeRuns'[q] = IF q = r THEN new ELSE badgeRuns[q]
  BY <1>2, <1>3, BadgeTypes
<1>5. BadgeTypeOK'
  BY <1>1, <1>4, BadgeTypes DEF BadgeTypeOK, RunState
<1>6. OnePerConv'
  BY <1>2, <1>4 DEF BadgeInv, OnePerConv
<1>7. LatestIsCurrent'
  BY <1>1, <1>2, <1>4 DEF LatestIsCurrent
<1>8. BadgeTrue'
  BY <1>1, BadgeRunAssumption DEF BadgeTrue, BadgeRunAssumption
<1>9. QED
  BY <1>5, <1>6, <1>7, <1>8 DEF BadgeInv

LEMMA ListsStep ==
  ASSUME BadgeInv, NEW r \in BadgeRun, RunLists(r)
  PROVE  BadgeInv'
<1> DEFINE S == Counted(badgeRuns[r].wallet)
<1>1. UNCHANGED <<status, badgeNewest, badgeNews, badgeSeen, badgePending, badgeCount,
                  badgeLatest, badgeQuiet>>
  BY DEF RunLists, badgeData
<1>2. S \in SUBSET Listing /\ \A l, m \in S : l.conv = m.conv => l = m
  BY DEF Counted, Listing
<1>3. badgeRuns' = [badgeRuns EXCEPT ![r].pc = "listed", ![r].listed = S]
  BY DEF RunLists, Counted
<1> HIDE DEF S
<1>4. /\ badgeRuns' \in [BadgeRun -> RunState]
      /\ \A q \in BadgeRun : q # r => badgeRuns'[q] = badgeRuns[q]
      /\ badgeRuns'[r].pc = "listed" /\ badgeRuns'[r].listed = S
      /\ badgeRuns'[r].wallet = badgeRuns[r].wallet
  BY <1>2, <1>3, BadgeTypes DEF RunState
<1>5. BadgeTypeOK'
  BY <1>1, <1>4, BadgeTypes DEF BadgeTypeOK, RunState
<1>6. OnePerConv'
  BY <1>2, <1>4 DEF BadgeInv, OnePerConv
<1>7. WalletNow' = WalletNow /\ Counted(WalletNow)' = Counted(WalletNow)
  BY <1>1 DEF WalletNow, Counted
<1>8. LatestIsCurrent'
  BY <1>1, <1>4, <1>7 DEF BadgeInv, LatestIsCurrent, S
<1>9. StatusTyped' /\ BadgeTrue'
  BY <1>1 DEF BadgeInv, StatusTyped, BadgeTrue, Unread
<1>10. QED
  BY <1>5, <1>6, <1>8, <1>9 DEF BadgeInv

\* A run that ends: the latest one with what it listed, any other without effect.
LEMMA EndsStep ==
  ASSUME BadgeInv, NEW r \in BadgeRun, RunCounts(r) \/ RunFails(r)
  PROVE  BadgeInv'
<1>1. PICK outcome \in {"applied", "failed"} :
         /\ badgeRuns' = [badgeRuns EXCEPT ![r] = NoRun]
         /\ badgeLatest' = IF badgeLatest = r THEN outcome ELSE badgeLatest
         /\ badgeLatest = r /\ outcome = "applied"
                => /\ badgeRuns[r].pc = "listed"
                   /\ badgeCount' = UnreadOf(badgeRuns[r].listed)
         /\ (badgeLatest = r => outcome = "failed") => badgeCount' = badgeCount
  BY DEF RunCounts, RunFails, RunEnds
<1>2. UNCHANGED <<status, badgeNewest, badgeNews, badgeSeen, badgePending, badgeQuiet>>
  BY DEF RunCounts, RunFails, RunEnds, badgeData
<1>3. NoRun \in RunState /\ NoRun.listed = {}
  BY DEF NoRun, RunState
<1>4. /\ badgeRuns' \in [BadgeRun -> RunState]
      /\ \A q \in BadgeRun : badgeRuns'[q] = IF q = r THEN NoRun ELSE badgeRuns[q]
  BY <1>1, <1>3, BadgeTypes
<1>5. BadgeTypeOK'
  BY <1>1, <1>2, <1>4, UnreadFits, BadgeTypes DEF BadgeTypeOK, RunState
<1>6. OnePerConv'
  BY <1>3, <1>4 DEF BadgeInv, OnePerConv
<1>7. WalletNow' = WalletNow /\ Counted(WalletNow)' = Counted(WalletNow) /\ Unread' = Unread
  BY <1>2 DEF WalletNow, Counted, Unread
<1>8. LatestIsCurrent'
  BY <1>1, <1>2, <1>4, <1>7, BadgeRunAssumption
     DEF BadgeInv, LatestIsCurrent, BadgeRunAssumption
<1>9. BadgeTrue'
  <2>1. CASE badgeLatest = r
    <3>1. badgeLatest' = "applied" /\ badgeQuiet /\ badgePending = {}
             => badgeRuns[r].listed = Counted(WalletNow) /\ badgeCount' = UnreadOf(badgeRuns[r].listed)
      BY <1>1, <2>1 DEF BadgeInv, LatestIsCurrent
    <3>2. QED
      BY <1>2, <1>7, <3>1, CountedIsUnread DEF BadgeTrue
  <2>2. CASE badgeLatest # r
    BY <1>1, <1>2, <1>7, <2>2 DEF BadgeInv, BadgeTrue
  <2>3. QED
    BY <2>1, <2>2
<1>10. StatusTyped'
  BY <1>2 DEF BadgeInv, StatusTyped
<1>11. QED
  BY <1>5, <1>6, <1>8, <1>9, <1>10 DEF BadgeInv

\* A message arrives: its callback is still to nudge, or nobody will be told.
LEMMA ArrivesStep ==
  ASSUME BadgeInv, NEW c \in BadgeConv, BadgeArrives(c) \/ BadgeOwnMessage(c)
  PROVE  BadgeInv'
<1>1. UNCHANGED <<status, badgeSeen, badgeCount, badgeRuns, badgeLatest>>
  BY DEF BadgeArrives, BadgeOwnMessage
<1>2. ~badgeQuiet' \/ badgePending' # {}
  BY DEF BadgeArrives, BadgeOwnMessage
<1>3. /\ badgeNewest' \in [BadgeConv -> 0..MaxNs] /\ badgeNews' \in [BadgeConv -> BOOLEAN]
      /\ badgePending' \subseteq BadgeConv /\ badgeQuiet' \in BOOLEAN
  <2>1. /\ badgeNewest[c] \in 0..MaxNs /\ badgeNewest[c] < MaxNs
        /\ badgeNewest' = [badgeNewest EXCEPT ![c] = badgeNewest[c] + 1]
    BY BadgeTypes DEF BadgeArrives, BadgeOwnMessage
  <2>2. badgeNewest' \in [BadgeConv -> 0..MaxNs]
    BY <2>1, BadgeTypes
  <2>3. badgePending' \subseteq BadgeConv /\ badgeQuiet' \in BOOLEAN
    BY BadgeTypes DEF BadgeArrives, BadgeOwnMessage
  <2>4. badgeNews' \in [BadgeConv -> BOOLEAN]
    BY BadgeTypes DEF BadgeArrives, BadgeOwnMessage
  <2>5. QED
    BY <2>2, <2>3, <2>4
<1>4. BadgeTypeOK'
  BY <1>1, <1>3, BadgeTypes DEF BadgeTypeOK, RunState
<1>5. WalletNow' = WalletNow
  BY <1>1 DEF WalletNow
<1>6. QED
  BY <1>1, <1>2, <1>4, <1>5
     DEF BadgeInv, StatusTyped, OnePerConv, LatestIsCurrent, BadgeTrue

LEMMA BadgeStep == BadgeInv /\ [BadgeNext]_badgeVars => BadgeInv'
<1> SUFFICES ASSUME BadgeInv, [BadgeNext]_badgeVars PROVE BadgeInv'
  OBVIOUS
<1>1. CASE UNCHANGED badgeVars
  <2>1. UNCHANGED <<status, badgeNewest, badgeNews, badgeSeen, badgePending, badgeCount,
                    badgeRuns, badgeLatest, badgeQuiet>>
    BY <1>1 DEF badgeVars, badgeData
  <2>2. WalletNow' = WalletNow /\ Counted(WalletNow)' = Counted(WalletNow) /\ Unread' = Unread
    BY <2>1 DEF WalletNow, Counted, Unread
  <2>3. QED
    BY <2>1, <2>2
       DEF BadgeInv, BadgeTypeOK, StatusTyped, OnePerConv, LatestIsCurrent, BadgeTrue
<1>2. CASE BadgeSession
  <2>1. StatusTyped'
    BY <1>2, SessionTyped DEF BadgeInv, BadgeSession
  <2>2. QED
    BY <1>2, <2>1, RecomputeStep, BadgeTypes DEF BadgeSession
<1>3. ASSUME NEW c \in BadgeConv, BadgeNudged(c) PROVE BadgeInv'
  <2>1. StatusTyped' /\ Recompute(status')
    BY <1>3 DEF BadgeNudged, BadgeInv, StatusTyped, Recompute
  <2>2. QED
    BY <1>3, <2>1, RecomputeStep, BadgeTypes DEF BadgeNudged
<1>4. ASSUME NEW c \in BadgeConv, NEW ns \in 1..MaxNs, MarkRead(c, ns) PROVE BadgeInv'
  <2>1. StatusTyped' /\ Recompute(status')
    BY <1>4 DEF MarkRead, BadgeInv, StatusTyped, Recompute
  <2>2. ns \in 0..MaxNs
    BY BadgeTypes
  <2>3. badgeSeen' \in [BadgeConv -> 0..MaxNs]
    BY <1>4, <2>2, BadgeTypes DEF MarkRead
  <2>4. QED
    BY <1>4, <2>1, <2>3, RecomputeStep, BadgeTypes DEF MarkRead
<1>5. QED
  BY <1>1, <1>2, <1>3, <1>4, ArrivesStep, ListsStep, EndsStep DEF BadgeNext

\* Once the latest recompute has set the count and every nudge has run, the badge is the
\* number of unread conversations of the wallet that is signed in: any change either starts
\* another recompute or leaves a nudge due (useUnreadCount.ts:79-81).
THEOREM BadgeIsTrue == BadgeSpec => []BadgeTrue
<1>1. BadgeInv => BadgeTrue
  BY DEF BadgeInv
<1>2. QED
  BY <1>1, BadgeInit1, BadgeStep, PTL DEF BadgeSpec

\* Every variable of the badge keeps its type; no recompute counts more than there are
\* conversations.
THEOREM BadgeTyped == BadgeSpec => []BadgeTypeOK
<1>1. BadgeInv => BadgeTypeOK
  BY DEF BadgeInv
<1>2. QED
  BY <1>1, BadgeInit1, BadgeStep, PTL DEF BadgeSpec

-----------------------------------------------------------------------------
(* The inbox *)

InboxBusy == \E l \in InboxLoad : inboxLoads[l].pc # "free"

\* What the screen waits for has a load that will end it.
SpinnerHasLoad == inboxRefreshing => InboxBusy
LoadingHasLoad == inboxMounted /\ inboxLoading => status.state = "initializing" \/ InboxBusy

\* A load is of a wallet, as a client that is not idle is.
StatusNamed == StatusTyped /\ (status.state = "idle" \/ status.address \in Addr)
LoadsNamed == \A l \in InboxLoad : inboxLoads[l].pc # "free" => inboxLoads[l].wallet \in Addr

InboxInv == StatusNamed /\ InboxTypeOK /\ LoadsNamed /\ SpinnerHasLoad /\ LoadingHasLoad

LEMMA SessionNamed ==
  ASSUME StatusNamed, SessionNext
  PROVE  StatusNamed'
  BY DEF StatusNamed, StatusTyped, SessionNext, Begin, Ready, Fail, End, SessionIdle, SessionStatus

LEMMA InboxInitInv == SessionInit /\ InboxInit => InboxInv
<1> SUFFICES ASSUME SessionInit, InboxInit PROVE InboxInv
  OBVIOUS
<1>1. StatusNamed /\ status.state = "idle"
  BY DEF SessionInit, SessionIdle, SessionStatus, StatusTyped, StatusNamed
<1>2. NoLoad \in InboxLoadState /\ NoLoad.pc = "free"
  BY DEF NoLoad, InboxLoadState
<1>3. InboxTypeOK /\ LoadsNamed
  BY <1>2 DEF InboxInit, InboxTypeOK, LoadsNamed
<1>4. SpinnerHasLoad /\ LoadingHasLoad
  BY DEF InboxInit, SpinnerHasLoad, LoadingHasLoad
<1>5. QED
  BY <1>1, <1>3, <1>4 DEF InboxInv

\* load() up to its first await, for the status that it reads: its early returns leave
\* nothing to wait for, save the client that is being created.
LEMMA LoadBodyKeeps ==
  ASSUME InboxInv, NEW spinner \in BOOLEAN, LoadBody(status', spinner), StatusNamed',
         inboxMounted' \in BOOLEAN
  PROVE  InboxInv'
<1>1. InboxTypeOK /\ LoadsNamed /\ (status'.state = "idle" \/ status'.address \in Addr)
  BY DEF InboxInv, StatusNamed
<1>2. CASE status'.state = "ready"
  <2>1. /\ inboxRefreshing' = (spinner \/ inboxRefreshing)
        /\ inboxAvailable' = TRUE
        /\ UNCHANGED <<inboxRows, inboxLoading>>
    BY <1>2 DEF LoadBody, LoadWithClient
  <2>2. PICK l \in InboxLoad :
          inboxLoads' = [inboxLoads EXCEPT ![l] =
              [pc |-> "syncing", wallet |-> status'.address, listed |-> {}]]
    BY <1>2 DEF LoadBody, LoadWithClient
  <2>3. [pc |-> "syncing", wallet |-> status'.address, listed |-> {}] \in InboxLoadState
    BY <1>1, <1>2 DEF InboxLoadState
  <2>4. /\ inboxLoads' \in [InboxLoad -> InboxLoadState] /\ inboxLoads'[l].pc = "syncing"
        /\ LoadsNamed'
    BY <1>1, <1>2, <2>2, <2>3 DEF InboxTypeOK, LoadsNamed
  <2>5. inboxRefreshing' \in BOOLEAN /\ inboxLoading' \in BOOLEAN
    BY <1>1, <2>1 DEF InboxTypeOK
  <2>6. InboxTypeOK'
    BY <1>1, <2>1, <2>4, <2>5 DEF InboxTypeOK
  <2>7. InboxBusy'
    BY <2>4 DEF InboxBusy
  <2>8. QED
    BY <2>4, <2>6, <2>7 DEF InboxInv, SpinnerHasLoad, LoadingHasLoad
<1>3. CASE status'.state = "initializing"
  BY <1>1, <1>3 DEF LoadBody, LoadWhileInitializing, InboxInv, InboxTypeOK, LoadsNamed,
                    SpinnerHasLoad, LoadingHasLoad
<1>4. CASE status'.state \notin {"ready", "initializing"}
  BY <1>1, <1>4 DEF LoadBody, LoadWithoutClient, InboxInv, InboxTypeOK, LoadsNamed,
                    SpinnerHasLoad, LoadingHasLoad
<1>5. QED
  BY <1>2, <1>3, <1>4

\* A load that goes on stays a load, and one that ends ends what the screen waits for.
LEMMA LoadStepKeeps ==
  ASSUME InboxInv, NEW l \in InboxLoad, LoadStep(l)
  PROVE  InboxInv'
<1>1. InboxTypeOK /\ LoadsNamed /\ inboxLoads[l] \in InboxLoadState
  BY DEF InboxInv, InboxTypeOK
<1>2. ASSUME NEW pc \in {"resolving", "tagging"}, NEW listed \in SUBSET Conversation(Addr),
             InboxGoes(l, [inboxLoads[l] EXCEPT !.pc = pc, !.listed = listed]),
             UNCHANGED <<status, inboxMounted, inboxRows, inboxFlags>>,
             inboxLoads[l].pc # "free"
      PROVE  InboxInv'
  <2> DEFINE load == [inboxLoads[l] EXCEPT !.pc = pc, !.listed = listed]
  <2>1. load \in InboxLoadState /\ load.pc # "free" /\ load.wallet \in Addr
    BY <1>1, <1>2 DEF InboxLoadState, LoadsNamed
  <2>2. inboxLoads' = [inboxLoads EXCEPT ![l] = load]
    BY <1>2 DEF InboxGoes
  <2> HIDE DEF load
  <2>3. /\ inboxLoads' \in [InboxLoad -> InboxLoadState] /\ inboxLoads'[l].pc # "free"
        /\ LoadsNamed'
    BY <1>1, <2>1, <2>2 DEF InboxTypeOK, LoadsNamed
  <2>4. InboxBusy'
    BY <2>3 DEF InboxBusy
  <2>5. QED
    BY <1>2, <2>3, <2>4 DEF InboxInv, InboxTypeOK, inboxFlags, SpinnerHasLoad, LoadingHasLoad,
                            StatusNamed, StatusTyped
<1>3. ASSUME LoadEnds(l), inboxRows' \subseteq Conversation(Addr) PROVE InboxInv'
  <2>1. NoLoad \in InboxLoadState
    BY DEF NoLoad, InboxLoadState
  <2>2. inboxLoads' \in [InboxLoad -> InboxLoadState] /\ LoadsNamed'
    BY <1>1, <1>3, <2>1 DEF LoadEnds, InboxGoes, InboxTypeOK, LoadsNamed, NoLoad
  <2>3. QED
    BY <1>3, <2>2 DEF LoadEnds, InboxInv, InboxTypeOK, SpinnerHasLoad, LoadingHasLoad,
                      StatusNamed, StatusTyped
<1>4. CASE LoadLists(l)
  <2>1. PICK listed \in SUBSET Conversation({inboxLoads[l].wallet}) :
          InboxGoes(l, [inboxLoads[l] EXCEPT !.pc = "resolving", !.listed = listed])
    BY <1>4 DEF LoadLists
  <2>2. listed \in SUBSET Conversation(Addr)
    BY <1>1, <1>4 DEF LoadLists, LoadsNamed, Conversation
  <2>3. QED
    BY <1>2, <1>4, <2>1, <2>2 DEF LoadLists
<1>5. CASE LoadResolves(l)
  <2>1. PICK listed \in {inboxLoads[l].listed,
                         {c \in inboxLoads[l].listed : c.kind = "group"}} :
          InboxGoes(l, [inboxLoads[l] EXCEPT !.pc = "tagging", !.listed = listed])
    BY <1>5 DEF LoadResolves
  <2>2. listed \in SUBSET Conversation(Addr)
    BY <1>1 DEF InboxLoadState
  <2>3. QED
    BY <1>2, <1>5, <2>1, <2>2 DEF LoadResolves
<1>6. CASE LoadShows(l)
  BY <1>1, <1>3, <1>6 DEF LoadShows, InboxLoadState
<1>7. CASE LoadFails(l)
  BY <1>1, <1>3, <1>7 DEF LoadFails, InboxTypeOK
<1>8. QED
  BY <1>4, <1>5, <1>6, <1>7 DEF LoadStep

LEMMA InboxStep == InboxInv /\ [InboxNext]_inboxVars => InboxInv'
<1> SUFFICES ASSUME InboxInv, [InboxNext]_inboxVars PROVE InboxInv'
  OBVIOUS
<1>1. StatusNamed /\ InboxTypeOK
  BY DEF InboxInv
<1>2. ASSUME NEW spinner \in BOOLEAN, LoadBody(status, spinner), UNCHANGED status,
             inboxMounted' \in BOOLEAN
      PROVE  InboxInv'
  <2>1. StatusNamed' /\ LoadBody(status', spinner)
    BY <1>1, <1>2 DEF StatusNamed, StatusTyped
  <2>2. QED
    BY <1>2, <2>1, LoadBodyKeeps
<1>3. CASE InboxMounts \/ Refresh \/ Reload
  BY <1>1, <1>2, <1>3 DEF InboxMounts, Refresh, Reload, InboxTypeOK
<1>4. CASE InboxSession
  <2>1. StatusNamed'
    BY <1>1, <1>4, SessionNamed DEF InboxSession
  <2>2. inboxMounted' \in BOOLEAN
    BY <1>1, <1>4 DEF InboxSession, InboxTypeOK
  <2>3. CASE inboxMounted
    BY <1>4, <2>1, <2>2, <2>3, LoadBodyKeeps DEF InboxSession
  <2>4. CASE ~inboxMounted
    BY <1>4, <2>1, <2>4 DEF InboxSession, InboxInv, InboxTypeOK, inboxFlags, LoadsNamed,
                            SpinnerHasLoad, LoadingHasLoad, InboxBusy
  <2>5. QED
    BY <2>3, <2>4
<1>5. CASE UNCHANGED inboxVars
  BY <1>5 DEF inboxVars, inboxFlags, InboxInv, StatusNamed, StatusTyped, InboxTypeOK, LoadsNamed,
              SpinnerHasLoad, LoadingHasLoad, InboxBusy
<1>6. QED
  BY <1>3, <1>4, <1>5, LoadStepKeeps DEF InboxNext

\* Every variable of the inbox keeps its type, whatever loads overlap.
THEOREM InboxTyped == InboxSpec => []InboxTypeOK
<1>1. InboxInv => InboxTypeOK
  BY DEF InboxInv
<1>2. QED
  BY <1>1, InboxInitInv, InboxStep, PTL DEF InboxSpec

\* What SpinnerEnds and LoadingHeals need besides the SDK's answers: while the screen spins
\* or loads there is a load in flight whose finally will end it, or, for the list, a client
\* being created; no early return of load (useConversations.ts:128-145) leaves either alone.
THEOREM InboxNeverStuck == InboxSpec => [](SpinnerHasLoad /\ LoadingHasLoad)
<1>1. InboxInv => SpinnerHasLoad /\ LoadingHasLoad
  BY DEF InboxInv
<1>2. QED
  BY <1>1, InboxInitInv, InboxStep, PTL DEF InboxSpec
=============================================================================
