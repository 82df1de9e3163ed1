-------------------------- MODULE MCAssetPipeline --------------------------
(* Small instances of AssetPipeline for TLC. *)
EXTENDS AssetPipeline

CONSTANT v1
=============================================================================
