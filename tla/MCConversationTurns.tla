------------------------ MODULE MCConversationTurns ------------------------
(* One conversation on a small instance.                                   *)
EXTENDS ConversationTurns, TLC

CONSTANTS k1, k2, k3, w1, w2, w3

\* Interchangeable worker slots and message keys, for the safety runs.
Symmetry == Permutations(Workers) \cup Permutations(Keys)
=============================================================================
