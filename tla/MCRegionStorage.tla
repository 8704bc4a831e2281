-------------------------- MODULE MCRegionStorage --------------------------
(***************************************************************************)
(* Two threads; as many files as a full cache can hold open, and one more, *)
(* so that malloc may hand out a fresh address or one that was freed.      *)
(***************************************************************************)
EXTENDS RegionStorage
=============================================================================
