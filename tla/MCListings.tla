---------------------------- MODULE MCListings ----------------------------
(* Small instances of Listings for TLC. *)
EXTENDS Listings

CONSTANTS e1, e2
=============================================================================
