------------------------------ MODULE MCRtsSim ------------------------------
(* Small instances of RtsSim for TLC. *)
EXTENDS RtsSim, TLC

CONSTANTS f1, f2, u1, u2, u3, b1, b2

MCPlaced == (u1 :> [owner |-> f1, kind |-> "INFANTRY"]) @@ (u2 :> [owner |-> f2, kind |-> "ARMORED"])

MCClass == [INFANTRY |-> "INFANTRY", RIFLEMAN |-> "INFANTRY", ARMORED |-> "ARMORED", AIR |-> "AIR",
            FRIGATE |-> "ARMORED"]

MCCost == [INFANTRY |-> 2, RIFLEMAN |-> 1, ARMORED |-> 3, AIR |-> 4, FRIGATE |-> 3]

MCOwner == (b1 :> f1) @@ (b2 :> f2)
=============================================================================
