--------------------------- MODULE MCMatchmaking ----------------------------
(* Small instances of Matchmaking for TLC. *)
EXTENDS Matchmaking
=============================================================================
