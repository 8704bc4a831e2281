----------------------------- MODULE MCCompressor ------------------------------
(* A compressor with all libraries, for documents of up to MaxSize units. *)
EXTENDS Compressor

MCLibs == AllLibs
================================================================================
