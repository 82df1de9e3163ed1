--------------------------- MODULE MCFulfillment ---------------------------
(* Small instances of Fulfillment for TLC. *)
EXTENDS Fulfillment, TLC

CONSTANTS i1, i2

MCPrice == (i1 :> 2) @@ (i2 :> 40)
MCSelfSold == {i2}
TwoTiers == {"STARTER", "STUDIO"}

=============================================================================
