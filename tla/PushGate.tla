------------------------------ MODULE PushGate ------------------------------
(***************************************************************************)
(* What the reachability gate of src/src/xmtpPush.ts promises: its verdict *)
(* is reached once per session, and the native push client is touched only *)
(* after the verdict that the server answers, so the XMTP runtime it       *)
(* shares is never wedged.  Push implements it.                            *)
(***************************************************************************)
VARIABLES
    verdict,   \* "unknown", then "open" or "closed" for the session
    natives,   \* the native push calls made so far: "register", "subscribe"
    wedged     \* a native call hangs on a port with no route

GateInit == verdict = "unknown" /\ natives = {} /\ wedged = FALSE

\* probe settles
Decide ==
    /\ verdict = "unknown"
    /\ verdict' \in {"open", "closed"}
    /\ UNCHANGED <<natives, wedged>>

\* XMTPPush.register or XMTPPush.subscribe
Call ==
    /\ verdict = "open"
    /\ \E kind \in {"register", "subscribe"} : natives' = natives \cup {kind}
    /\ UNCHANGED <<verdict, wedged>>

GateSpec == GateInit /\ [][Decide \/ Call]_<<verdict, natives, wedged>>
=============================================================================
