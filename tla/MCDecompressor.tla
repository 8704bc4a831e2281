---------------------------- MODULE MCDecompressor -----------------------------
(* A decompressor with all libraries, on every source of up to MaxSize units. *)
EXTENDS Decompressor

MCLibs == AllLibs
================================================================================
