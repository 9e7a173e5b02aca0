-------------------------- MODULE MCClientLifecycle --------------------------
(* TLC instance of ClientLifecycle: the wallets and the host's calls are    *)
(* interchangeable model values.                                            *)
EXTENDS ClientLifecycle, TLC

Symmetry == Permutations(Addr) \cup Permutations(Caller)
=============================================================================
