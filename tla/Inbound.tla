------------------------------- MODULE Inbound -------------------------------
(***************************************************************************)
(* The inbound-message engine (src/src/inboundMessages.ts): one global     *)
(* stream for the current client, and the bounded ring of handled ids, in  *)
(* memory and in MMKV.  The engine looks an id up in the ring before it    *)
(* calls the host's handler and never puts one there: markInboundHandled   *)
(* is exported, and the host marks what it wants, when it wants, or        *)
(* nothing (the handler of src/example/src/App.tsx:61 is empty).  The host *)
(* starts the engine for every client that comes up, as there.             *)
(*                                                                         *)
(* A client is named by its order in the process; 0 is null.  The nudge of *)
(* the activity listeners is Badge's.                                      *)
(***************************************************************************)
EXTENDS Session, Naturals, Sequences

CONSTANTS
    InboundMsg,   \* message ids
    RingSize,     \* HANDLED_MAX
    MaxClients    \* bound on the clients of one process

ASSUME RingSizeAssumption == RingSize \in Nat \ {0}
ASSUME MaxClientsAssumption == MaxClients \in Nat
\* No id is mistaken for the ring that is not loaded.
ASSUME InboundMsgAssumption == "null" \notin InboundMsg

VARIABLES
    inbClients,   \* clients this process has had so far
    inbCurrent,   \* currentClient, 0 when the engine is not running
    inbHandled,   \* handledIds: null (not loaded yet), or the ring, oldest first
    inbStored,    \* the ring in MMKV
    inbUnstored,  \* history: is the ring in memory newer than the one in MMKV?
    inbAge,       \* history: how many ids were marked since the host marked this one, up to
                  \* RingSize; RingSize too when it is not marked or need not be remembered
    inbNotified   \* history: the last call of the handler, with the age its id had then, the
                  \* client that was active, and whether the call before was for the same

inbVars == <<status, inbClients, inbCurrent, inbHandled, inbStored, inbUnstored, inbAge, inbNotified>>

Null == <<"null">>
Rings == UNION {[1..n -> InboundMsg] : n \in 0..RingSize}
Notice(client, id, age, active, again) ==
    [client |-> client, id |-> id, age |-> age, active |-> active, again |-> again]
Nothing == Notice(0, "", 0, 0, FALSE)
NothingOwed == [m \in InboundMsg |-> RingSize]

\* The client of the wallet that is signed in, 0 without one.
ActiveClient == IF status.state = "ready" THEN inbClients ELSE 0

-----------------------------------------------------------------------------
(* The ring of handled ids *)

\* ids(): the first use loads the stored ring.
Ids == IF inbHandled = Null THEN inbStored ELSE inbHandled

\* Fault: nothing is cut off.
Untrimmed(ring) == ring

\* Fault: what is cut off is the new end.
KeepOldest(ring) == IF Len(ring) > RingSize THEN SubSeq(ring, 1, RingSize) ELSE ring

\* list.splice(0, list.length - HANDLED_MAX): the newest are kept.
Trimmed(ring) ==
    IF Len(ring) > RingSize THEN SubSeq(ring, Len(ring) - RingSize + 1, Len(ring)) ELSE ring

WasInboundHandled(id) == \E i \in DOMAIN Ids : Ids[i] = id

\* markInboundHandled (inboundMessages.ts:47) of an id not in the ring; MMKV may throw.  The
\* host calls it, for a message its handler got or for one it knows from elsewhere.
MarkInboundHandled(id) ==
    /\ ~WasInboundHandled(id)
    /\ inbHandled' = Trimmed(Append(Ids, id))
    /\ \/ inbStored' = inbHandled' /\ inbUnstored' = FALSE
       \/ UNCHANGED inbStored /\ inbUnstored' = TRUE
    /\ inbAge' = [m \in InboundMsg |->
           IF m = id THEN 0 ELSE IF inbAge[m] < RingSize THEN inbAge[m] + 1 ELSE RingSize]
    /\ UNCHANGED <<status, inbClients, inbCurrent, inbNotified>>

\* The mark or the delivery of an id that is in the ring, and the host's own question whether
\* one is, load it and do nothing else: a second mark does not renew the first.
LoadsRing ==
    /\ inbHandled' = Ids
    /\ UNCHANGED <<status, inbClients, inbCurrent, inbStored, inbUnstored, inbAge, inbNotified>>

\* forgetInboundHandledCache (inboundMessages.ts:66)
ForgetInboundHandledCache ==
    /\ inbHandled' = Null /\ inbStored' = <<>> /\ inbUnstored' = FALSE
    /\ inbAge' = NothingOwed

-----------------------------------------------------------------------------
(* The stream *)

OwnStream(client) == inbCurrent = client

\* The network delivers a message, for the first time or again, on a stream that was
\* started in this process; one that was cancelled may still have callbacks under way.  The
\* handler of the host is called, and no id is marked.
Delivers(client, id) ==
    /\ client \in 1..inbClients
    /\ OwnStream(client)
    /\ ~WasInboundHandled(id)
    /\ inbHandled' = Ids
    /\ inbNotified' = Notice(client, id, inbAge[id], ActiveClient,
                             inbNotified.client = client /\ inbNotified.id = id)
    /\ UNCHANGED <<status, inbClients, inbCurrent, inbStored, inbUnstored, inbAge>>

\* stopInboundMessages, called by a host before it signs out
StopInboundMessages ==
    /\ inbCurrent # 0
    /\ inbCurrent' = 0
    /\ UNCHANGED <<status, inbClients, inbHandled, inbStored, inbUnstored, inbAge, inbNotified>>

-----------------------------------------------------------------------------
(* The client lifecycle *)

\* A client comes up, and the host's listener starts the engine for it: startInbound-
\* Messages stops the stream of any other client first.
InboundReady ==
    /\ Ready
    /\ inbClients < MaxClients
    /\ inbClients' = inbClients + 1
    /\ inbCurrent' = inbClients + 1
    /\ UNCHANGED <<inbHandled, inbStored, inbUnstored, inbAge, inbNotified>>

\* Sign-out or switch: dropXmtpClient forgets the handled ids, those of an earlier process
\* too when nobody is signed in, and leaves the engine to the host.
InboundSignedOut ==
    /\ End
    /\ ForgetInboundHandledCache
    /\ UNCHANGED <<inbClients, inbCurrent, inbNotified>>

\* A reset is an end that keeps the ring (client.ts:546); attempts do not touch it.
InboundSession ==
    /\ (\E a \in Addr : Begin(a)) \/ Fail \/ End
    /\ UNCHANGED <<inbClients, inbCurrent, inbHandled, inbStored, inbUnstored, inbAge,
                   inbNotified>>

\* The process dies; a ring that MMKV does not hold is lost with it.
InboundRestart ==
    /\ inbClients > 0
    /\ status' = SessionIdle
    /\ inbClients' = 0 /\ inbCurrent' = 0
    /\ inbHandled' = Null
    /\ inbUnstored' = FALSE
    /\ inbAge' = IF inbUnstored THEN NothingOwed ELSE inbAge
    /\ inbNotified' = Nothing
    /\ UNCHANGED inbStored

-----------------------------------------------------------------------------
(* Specification *)

InboundInit ==
    /\ inbClients = 0 /\ inbCurrent = 0
    /\ inbHandled = Null /\ inbStored = <<>> /\ inbUnstored = FALSE
    /\ inbAge = NothingOwed /\ inbNotified = Nothing

InboundNext ==
    \/ \E client \in 1..MaxClients, id \in InboundMsg : Delivers(client, id)
    \/ \E id \in InboundMsg : MarkInboundHandled(id)
    \/ LoadsRing \/ StopInboundMessages
    \/ InboundReady \/ InboundSignedOut \/ InboundSession \/ InboundRestart

InboundSpec == SessionInit /\ InboundInit /\ [][InboundNext]_inbVars

-----------------------------------------------------------------------------
(* Properties *)

InboundTypeOK ==
    /\ inbClients \in 0..MaxClients /\ inbCurrent \in 0..inbClients
    /\ inbHandled \in Rings \cup {Null} /\ inbStored \in Rings
    /\ inbUnstored \in BOOLEAN
    /\ inbAge \in [InboundMsg -> 0..RingSize]
    /\ \/ inbNotified = Nothing
       \/ inbNotified \in [client : 1..MaxClients, id : InboundMsg, age : 0..RingSize,
                           active : 0..MaxClients, again : BOOLEAN]

\* inboundMessages.ts:46, 102: a message that the host marked does not reach its handler
\* again, unless RingSize others were marked since, a sign-out forgot it, or the process died
\* before MMKV held it; and while a wallet is signed in only its own client's stream reaches
\* the handler, also when callbacks of an earlier client's cancelled stream come late.
MarkedStaysQuiet ==
    inbNotified # Nothing
        => /\ inbNotified.age = RingSize
           /\ inbNotified.active \in {0, inbNotified.client}

\* inboundMessages.ts:5-6: "each message id is remembered so a stream redelivery cannot fire
\* the same notification twice", whatever the host's handler does about it.
FiresOnce == ~inbNotified.again
=============================================================================
