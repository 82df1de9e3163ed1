----------------------------- MODULE MCRtsLobby ----------------------------
(* Small instances of RtsLobby for TLC. *)
EXTENDS RtsLobby, TLC

CONSTANT u1

Guests == Users \ {u1}
Symmetry == Permutations(Joins) \cup Permutations(Readies) \cup Permutations(Guests)
=============================================================================
