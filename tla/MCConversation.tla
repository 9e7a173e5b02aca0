--------------------------- MODULE MCConversation ---------------------------
(* TLC instance of Conversation: the counterparties are interchangeable.   *)
EXTENDS Conversation, TLC

Symmetry == Permutations(Peer)
=============================================================================
