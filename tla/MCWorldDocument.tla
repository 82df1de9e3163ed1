-------------------------- MODULE MCWorldDocument --------------------------
(* Small instances of WorldDocument for TLC. *)
EXTENDS WorldDocument, TLC

CONSTANT g1

\* An entity a mission refers to, and one that is its own parent.
MCBodies == {Document(g1 :> Root, {g1}), Document(g1 :> g1, {})}
=============================================================================
