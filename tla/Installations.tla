----------------------------- MODULE Installations -----------------------------
(***************************************************************************)
(* The installations of one wallet's inbox as client.ts manages them: what *)
(* Client.create registers, the recovery from the installation cap (a      *)
(* lookup, a revocation and one retry, each an await), the two revocations *)
(* a host can ask for, and the other devices of the wallet, which register *)
(* and revoke at any time between those steps.                             *)
(*                                                                         *)
(* An installation is named by its place in the order of registration,     *)
(* which is the order of createdAt; the network reports some without one.  *)
(* Which attempt is current is ClientLifecycle's; here an attempt that     *)
(* creates a client may be adopted or not.                                 *)
(***************************************************************************)
EXTENDS Naturals, FiniteSets

CONSTANTS
    Cap,        \* INSTALLATION_CAP
    MaxInst,    \* bound on the installations ever registered
    Undated,    \* the installations whose createdAt the network does not report
    Creation    \* createClient calls that run at the same time

Inst == 1..MaxInst

ASSUME CapAssumption == Cap \in Nat \ {0} /\ MaxInst \in Nat \ {0} /\ Undated \subseteq Inst

VARIABLES
    insPrune,      \* xmtpConfig().devInstallationPrune
    insOn,         \* the installations registered on the inbox
    insCount,      \* registrations so far
    insMine,       \* the installation in this device's local database, 0 for none
    insActive,     \* there is an active client: it is that installation's
    insCreations,  \* per createClient call: its await, the installations it looked up
                   \* to revoke, and whether one was registered since
    insRevoke      \* the revocation of the host: its await and the ids it names

insVars == <<insPrune, insOn, insCount, insMine, insActive, insCreations, insRevoke>>

Resting == {"free", "full"}
NoCreation == [pc |-> "free", seen |-> {}, crowded |-> FALSE]

Pause(c, pc) == insCreations' = [insCreations EXCEPT ![c] = [NoCreation EXCEPT !.pc = pc]]

-----------------------------------------------------------------------------
(* Registration, by the network's rule *)

Register ==
    /\ Cardinality(insOn) < Cap
    /\ insCount < MaxInst /\ insCount' = insCount + 1
    /\ insOn' = insOn \cup {insCount'}

\* The creations that looked the inbox up have seen too few installations.
Crowd(creations) == [c \in Creation |->
    [creations[c] EXCEPT !.crowded = @ \/ creations[c].pc \in {"revoking", "retrying"}]]

OtherDeviceRegisters ==
    /\ Register
    /\ insCreations' = Crowd(insCreations)
    /\ UNCHANGED <<insPrune, insMine, insActive, insRevoke>>

OtherDeviceRevokes(i) ==
    /\ insOn' = insOn \ {i} /\ i \in insOn
    /\ UNCHANGED <<insPrune, insCount, insMine, insActive, insCreations, insRevoke>>

-----------------------------------------------------------------------------
(* createClient (client.ts:401) *)

CreateStarts(c) ==
    /\ insCreations[c].pc \in Resting
    /\ Pause(c, "creating")
    /\ UNCHANGED <<insPrune, insOn, insCount, insMine, insActive, insRevoke>>

Creating(c) == insCreations[c].pc \in {"creating", "retrying"}

\* Client.create opens the installation of the local database.
CreateReopens(c) ==
    /\ Creating(c) /\ insMine # 0
    /\ Pause(c, "free")
    /\ insActive' \in {TRUE, insActive}
    /\ UNCHANGED <<insPrune, insOn, insCount, insMine, insRevoke>>

\* Without a registered one it registers one.
CreateRegisters(c) ==
    /\ Creating(c) /\ insMine \notin insOn
    /\ Register
    /\ insMine' = insCount'
    /\ insActive' \in {TRUE, insActive}
    /\ insCreations' = Crowd([insCreations EXCEPT ![c].pc = "free"])
    /\ UNCHANGED <<insPrune, insRevoke>>

\* It hits the cap: the first time the recovery begins, if the host asked for it.
CreateHitsCap(c) ==
    /\ Creating(c) /\ insMine \notin insOn
    /\ Cardinality(insOn) >= Cap
    /\ IF insCreations[c].pc = "retrying"
         THEN insCreations' = [insCreations EXCEPT ![c].pc = "full"]
         ELSE Pause(c, IF insPrune THEN "looking" ELSE "free")
    /\ UNCHANGED <<insPrune, insOn, insCount, insMine, insActive, insRevoke>>

\* An error that is not the cap, of any of its calls, is the attempt's.
CreateFails(c) ==
    /\ insCreations[c].pc \notin Resting
    /\ Pause(c, "free")
    /\ UNCHANGED <<insPrune, insOn, insCount, insMine, insActive, insRevoke>>

-----------------------------------------------------------------------------
(* recoverFromInstallationLimit (client.ts:500) *)

\* Older first; an installation of unknown age sorts last, in the order reported.
OlderThan(i, j) == IF (i \in Undated) = (j \in Undated) THEN i < j ELSE j \in Undated

\* Fault: the slot of the retry itself is not counted.
SlotsOverCap(n) == IF n > Cap THEN n - Cap ELSE 0

\* needed (client.ts:524): what leaves room for one more under the cap.
SlotsNeeded(n) == IF n - (Cap - 1) > 1 THEN n - (Cap - 1) ELSE 1

\* oldestInstallationIds (client.ts:520)
OldestInstallationIds(seen) ==
    {i \in seen : Cardinality({j \in seen : OlderThan(j, i)}) < SlotsNeeded(Cardinality(seen))}

\* inboxStatesForInboxIds answers.
RecoveryLooks(c) ==
    /\ insCreations[c].pc = "looking"
    /\ insCreations' = [insCreations EXCEPT ![c] =
           [pc |-> IF insOn = {} THEN "retrying" ELSE "revoking", seen |-> insOn, crowded |-> FALSE]]
    /\ UNCHANGED <<insPrune, insOn, insCount, insMine, insActive, insRevoke>>

RecoveryRevokes(c) ==
    /\ insCreations[c].pc = "revoking"
    /\ insOn' = insOn \ OldestInstallationIds(insCreations[c].seen)
    /\ insCreations' = [insCreations EXCEPT ![c].pc = "retrying", ![c].seen = {}]
    /\ UNCHANGED <<insPrune, insCount, insMine, insActive, insRevoke>>

-----------------------------------------------------------------------------
(* What the host asks for *)

NoRevoke == [pc |-> "free", ids |-> {}]

\* revokeAllInstallations (client.ts:613): looked up, revoked, then the client is dropped.
RevokeAllInstallations ==
    /\ insRevoke = NoRevoke
    /\ insRevoke' = [pc |-> "looking", ids |-> {}]
    /\ UNCHANGED <<insPrune, insOn, insCount, insMine, insActive, insCreations>>

RevokeAllLooks ==
    /\ insRevoke.pc = "looking"
    /\ insRevoke' = [pc |-> "revokingAll", ids |-> insOn]
    /\ UNCHANGED <<insPrune, insOn, insCount, insMine, insActive, insCreations>>

\* revokeXmtpInstallations (client.ts:683) refuses the active installation, then awaits.
RevokeXmtpInstallations(ids) ==
    /\ insRevoke = NoRevoke /\ ids # {}
    /\ ~(insActive /\ insMine \in ids)
    /\ insRevoke' = [pc |-> "revoking", ids |-> ids]
    /\ UNCHANGED <<insPrune, insOn, insCount, insMine, insActive, insCreations>>

RevokeReturns ==
    /\ insRevoke.pc \in {"revoking", "revokingAll"}
    /\ insOn' = insOn \ insRevoke.ids
    /\ insActive' = (insActive /\ insRevoke.pc = "revoking")
    /\ insRevoke' = NoRevoke
    /\ UNCHANGED <<insPrune, insCount, insMine, insCreations>>

RevokeFails ==
    /\ insRevoke.pc # "free"
    /\ insRevoke' = NoRevoke
    /\ UNCHANGED <<insPrune, insOn, insCount, insMine, insActive, insCreations>>

\* A sign-out drops the client; a reset deletes the local database as well, or fails to.
ClientDropped ==
    /\ insActive' = FALSE
    /\ insMine' \in {insMine, 0}
    /\ UNCHANGED <<insPrune, insOn, insCount, insCreations, insRevoke>>

-----------------------------------------------------------------------------
(* Specification *)

\* The inbox may be over the cap: nothing in the code relies on the network's count.
InstallationsInit ==
    /\ insPrune \in BOOLEAN
    /\ insCount \in 0..(IF Cap < MaxInst THEN Cap + 1 ELSE MaxInst)
    /\ insOn = 1..insCount
    /\ insMine = 0 /\ insActive = FALSE
    /\ insCreations = [c \in Creation |-> NoCreation]
    /\ insRevoke = NoRevoke

InstallationsNext ==
    \/ OtherDeviceRegisters \/ RevokeAllInstallations \/ RevokeAllLooks
    \/ RevokeReturns \/ RevokeFails \/ ClientDropped
    \/ \E i \in Inst : OtherDeviceRevokes(i)
    \/ \E ids \in SUBSET insOn : RevokeXmtpInstallations(ids)
    \/ \E c \in Creation :
           \/ CreateStarts(c) \/ CreateReopens(c) \/ CreateRegisters(c)
           \/ CreateHitsCap(c) \/ CreateFails(c) \/ RecoveryLooks(c) \/ RecoveryRevokes(c)

InstallationsSpec == InstallationsInit /\ [][InstallationsNext]_insVars

-----------------------------------------------------------------------------
(* Properties *)

InstallationsTypeOK ==
    /\ {insPrune, insActive} \subseteq BOOLEAN
    /\ insOn \subseteq Inst
    /\ insCount \in 0..MaxInst /\ insMine \in 0..MaxInst
    /\ insCreations \in [Creation -> [pc : Resting \cup {"creating", "looking", "revoking", "retrying"},
                                      seen : SUBSET Inst, crowded : BOOLEAN]]
    /\ insRevoke.pc \in {"free", "looking", "revoking", "revokingAll"} /\ insRevoke.ids \subseteq Inst

\* client.ts:489-499: the recovery frees the slots its retry needs.  The retry hits the
\* cap again only if some device registered after the recovery looked the inbox up,
\* whatever other creations, revocations and resets overlap with its three awaits.
RetryFits == \A c \in Creation : insCreations[c].pc = "full" => insCreations[c].crowded
=============================================================================
