----------------------------- MODULE MCPayouts -----------------------------
(* Small instances of Payouts for TLC. *)
EXTENDS Payouts, TLC

CONSTANTS s1, s2

MCRoyalty == (s1 :> 2) @@ (s2 :> 3)
=============================================================================
