------------------------------- MODULE Session -------------------------------
(***************************************************************************)
(* What client.ts promises to everyone who subscribes to its lifecycle     *)
(* (XmtpClientStatus, subscribeXmtpClient): one wallet at a time goes from *)
(* idle through initializing to ready or failed, a failure may still turn  *)
(* ready, and a ready wallet is signed out before another one starts.      *)
(* ClientLifecycle implements it; Inbox and Inbound are written against it.*)
(***************************************************************************)
CONSTANTS
    Addr,     \* wallet addresses
    NoAddr    \* null

VARIABLE status   \* getXmtpClientStatus(): [state, address]

SessionStatus(state, address) == [state |-> state, address |-> address]
SessionIdle == SessionStatus("idle", NoAddr)

SessionInit == status = SessionIdle

\* An attempt starts (startAttempt, client.ts:295); never over a ready client.
Begin(a) ==
    /\ status.state # "ready"
    /\ status' = SessionStatus("initializing", a)

\* adoptClient (client.ts:436), also of an attempt that had timed out.
Ready ==
    /\ status.state \in {"initializing", "failed"}
    /\ status' = SessionStatus("ready", status.address)

\* failAttempt and the create timeout (client.ts:342, 467)
Fail ==
    /\ status.state = "initializing"
    /\ status' = SessionStatus("failed", status.address)

\* Sign-out, switch or reset (client.ts:546, 582).  They notify whatever the status was, so
\* a sign-out of nobody is an end too.
End == status' = SessionIdle

SessionNext == (\E a \in Addr : Begin(a)) \/ Ready \/ Fail \/ End

SessionSpec == SessionInit /\ [][SessionNext]_status
=============================================================================
