-------------------------------- MODULE Push --------------------------------
(***************************************************************************)
(* XMTP push registration (src/src/xmtpPush.ts) and the effect of the      *)
(* inbox hook that re-subscribes the conversation topics when the length   *)
(* of the list changes (useConversations.ts:243-251).  The native push     *)
(* calls run on the runtime of the whole XMTP client: on a port with no    *)
(* route they never return and every later SDK call hangs with them.       *)
(* The network does not change within a session: a switch reloads the      *)
(* bundle (xmtpPush.ts:45-49).                                             *)
(***************************************************************************)
EXTENDS Naturals, FiniteSets

CONSTANTS
    PushCall,    \* calls of subscribeConversationTopics / registerXmtpPush in flight
    MaxRows      \* bound on the length of the conversation list

ASSUME MaxRowsAssumption == MaxRows \in Nat \ {0}

VARIABLES
    pushWanted,      \* xmtpConfig().push !== false
    pushConfigured,  \* configureXmtpPush has been called
    pushRoute,       \* does the port answer?  fixed for the session
    pushCached,      \* cached: null, the pending probe, or its result
    pushSignedIn,    \* getActiveXmtpClient() is a client
    pushRows,        \* conversations.length of the mounted inbox
    pushTimer,       \* the 500 ms timer of the effect is running
    pushCalls,       \* the continuation each call waits for
    pushNatives,     \* native calls made
    pushWedged       \* one of them hangs

pushVars == <<pushWanted, pushConfigured, pushRoute, pushCached, pushSignedIn, pushRows,
              pushTimer, pushCalls, pushNatives, pushWedged>>

pushHost == <<pushWanted, pushRoute, pushSignedIn, pushRows>>

\* "registering" and "subscribing" wait for the gate, "listing" for the conversations,
\* "native" for XMTPPush.subscribe.
PushPc == {"free", "registering", "subscribing", "listing", "native"}

PushGoes(c, pc) == pushCalls' = [pushCalls EXCEPT ![c] = pc]

-----------------------------------------------------------------------------
(* The gate *)

\* isPushServerReachable (xmtpPush.ts:50) of a configured session: the first call starts
\* the probe, and every call awaits the one promise.
AskGate == pushCached' = IF pushCached = "none" THEN "pending" ELSE pushCached

\* probe (xmtpPush.ts:91): a response or any error but the abort means the port answers.
ProbeAnswers ==
    /\ pushCached = "pending"
    /\ pushRoute = "answers"
    /\ pushCached' = "yes"
    /\ UNCHANGED <<pushHost, pushConfigured, pushTimer, pushCalls, pushNatives, pushWedged>>

\* Fault: an abort is taken for an answer like any other error.
AbortMeansAnswer ==
    /\ pushCached = "pending"
    /\ pushCached' = "yes"
    /\ UNCHANGED <<pushHost, pushConfigured, pushTimer, pushCalls, pushNatives, pushWedged>>

\* PROBE_TIMEOUT_MS: the abort, on a silent route or a slow answer.
ProbeTimesOut ==
    /\ pushCached = "pending"
    /\ pushCached' = "no"
    /\ UNCHANGED <<pushHost, pushConfigured, pushTimer, pushCalls, pushNatives, pushWedged>>

-----------------------------------------------------------------------------
(* Registration and subscription *)

\* The synchronous part of both calls (xmtpPush.ts:114-121, 142-147).
StartPush(c, pc) ==
    IF pushWanted /\ pushConfigured
      THEN PushGoes(c, pc) /\ AskGate
      ELSE PushGoes(c, "free") /\ UNCHANGED pushCached

\* registerXmtpPush, called by the host
RegisterXmtpPush(c) ==
    /\ pushCalls[c] = "free"
    /\ pushSignedIn
    /\ StartPush(c, "registering")
    /\ UNCHANGED <<pushHost, pushConfigured, pushTimer, pushNatives, pushWedged>>

CallNative(kind) ==
    /\ pushNatives' = pushNatives \cup {kind}
    /\ pushWedged' = (pushWedged \/ pushRoute = "silent")

\* The gate answered no: nothing native is called this session (xmtpPush.ts:121, 147).
GateRefuses(c) ==
    /\ pushCalls[c] \in {"registering", "subscribing"}
    /\ pushCached = "no"
    /\ PushGoes(c, "free")
    /\ UNCHANGED <<pushHost, pushConfigured, pushCached, pushTimer, pushNatives, pushWedged>>

\* XMTPPush.register, then subscribeConversationTopics from its beginning.
Registers(c) ==
    /\ pushCalls[c] = "registering"
    /\ pushCached = "yes"
    /\ CallNative("register")
    /\ StartPush(c, "subscribing")
    /\ UNCHANGED <<pushHost, pushConfigured, pushTimer>>

\* client.conversations.list() is asked.
AsksTopics(c) ==
    /\ pushCalls[c] = "subscribing"
    /\ pushCached = "yes"
    /\ PushGoes(c, "listing")
    /\ UNCHANGED <<pushHost, pushConfigured, pushCached, pushTimer, pushNatives, pushWedged>>

\* The topics arrive: none, an error that is swallowed, or some to subscribe to.
TopicsArrive(c) ==
    /\ pushCalls[c] = "listing"
    /\ ~pushWedged
    /\ \/ PushGoes(c, "free") /\ UNCHANGED <<pushNatives, pushWedged>>
       \/ PushGoes(c, "native") /\ CallNative("subscribe")
    /\ UNCHANGED <<pushHost, pushConfigured, pushCached, pushTimer>>

\* XMTPPush.subscribe resolved or rejected (the error is swallowed).
SubscribeReturns(c) ==
    /\ pushCalls[c] = "native"
    /\ ~pushWedged
    /\ PushGoes(c, "free")
    /\ UNCHANGED <<pushHost, pushConfigured, pushCached, pushTimer, pushNatives, pushWedged>>

-----------------------------------------------------------------------------
(* The host and the effect of the inbox hook *)

\* configureXmtpPush (xmtpPush.ts:39)
ConfigureXmtpPush ==
    /\ ~pushConfigured
    /\ pushConfigured' = TRUE
    /\ UNCHANGED <<pushHost, pushCached, pushTimer, pushCalls, pushNatives, pushWedged>>

\* The list shows another number of rows: the effect clears its timer and sets a new one
\* for the client that is active now, if there are rows and a client.
LengthChanges(n) ==
    /\ n # pushRows
    /\ pushRows' = n
    /\ pushTimer' = (n # 0 /\ pushSignedIn)
    /\ UNCHANGED <<pushWanted, pushRoute, pushSignedIn, pushConfigured, pushCached,
                   pushCalls, pushNatives, pushWedged>>

\* Sign-in and sign-out leave a running timer, and the client it captured, alone.
PushSession ==
    /\ pushSignedIn' = ~pushSignedIn
    /\ UNCHANGED <<pushWanted, pushRoute, pushRows, pushConfigured, pushCached, pushTimer,
                   pushCalls, pushNatives, pushWedged>>

\* The 500 ms are over: subscribeConversationTopics.
TopicsTimerFires(c) ==
    /\ pushTimer /\ pushCalls[c] = "free"
    /\ pushTimer' = FALSE
    /\ StartPush(c, "subscribing")
    /\ UNCHANGED <<pushHost, pushConfigured, pushNatives, pushWedged>>

-----------------------------------------------------------------------------
(* Specification *)

PushInit ==
    /\ pushWanted \in BOOLEAN /\ pushRoute \in {"answers", "silent"}
    /\ pushConfigured = FALSE /\ pushCached = "none"
    /\ pushSignedIn = FALSE /\ pushRows = 0 /\ pushTimer = FALSE
    /\ pushCalls = [c \in PushCall |-> "free"]
    /\ pushNatives = {} /\ pushWedged = FALSE

PushStep(c) ==
    \/ GateRefuses(c) \/ Registers(c) \/ AsksTopics(c) \/ TopicsArrive(c)
    \/ SubscribeReturns(c)

PushNext ==
    \/ ProbeAnswers \/ ProbeTimesOut
    \/ ConfigureXmtpPush \/ PushSession
    \/ \E n \in 0..MaxRows : LengthChanges(n)
    \/ \E c \in PushCall : RegisterXmtpPush(c) \/ TopicsTimerFires(c) \/ PushStep(c)

PushSpec == PushInit /\ [][PushNext]_pushVars

-----------------------------------------------------------------------------
(* Properties *)

PushTypeOK ==
    /\ {pushWanted, pushConfigured, pushSignedIn, pushTimer, pushWedged} \subseteq BOOLEAN
    /\ pushRoute \in {"answers", "silent"}
    /\ pushCached \in {"none", "pending", "yes", "no"}
    /\ pushRows \in 0..MaxRows
    /\ pushCalls \in [PushCall -> PushPc]
    /\ pushNatives \subseteq {"register", "subscribe"}

\* The gate's verdict as the memoised probe shows it.
GateVerdict ==
    IF pushCached = "yes" THEN "open" ELSE IF pushCached = "no" THEN "closed" ELSE "unknown"

Gate == INSTANCE PushGate WITH
            verdict <- GateVerdict, natives <- pushNatives, wedged <- pushWedged

\* xmtpPush.ts:8-19: whatever registrations, debounced subscriptions and sign-outs
\* overlap on the one memoised probe, its verdict is reached once, a native call is made
\* only after a positive one, and the runtime shared with the inbox is never wedged.
ImplementsPushGate == Gate!GateSpec
=============================================================================
