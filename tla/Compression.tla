------------------------------ MODULE Compression ------------------------------
(***************************************************************************)
(* What compress.c and decompress.c share: the methods and results of      *)
(* clod/compression.h, clod_compression_support (compression.c), and the   *)
(* compressed data the libraries exchange.                                 *)
(*                                                                         *)
(* Data are counted in units.  A document of n units is compressed to a    *)
(* frame of n + 2: a header, one unit for each of the document, and a      *)
(* trailer, none of which the decoders can do without.                     *)
(***************************************************************************)
EXTENDS Integers

CONSTANTS
  NULL,       \* no value
  Libs,       \* the libraries compiled in (HAVE_LIB...)
  MaxSize,    \* bound: the largest document, in units
  UIntLimit   \* the number of values of C's unsigned int

Deflates == {"GZIP", "ZLIB", "DEFLATE"}

Methods == {"UNCOMPRESSED", "LZ4F", "XZ", "ZSTD", "BZIP2", "MINECRAFT_LZ4"} \cup Deflates

Results == {"SUCCESS", "UNSUPPORTED", "MALFORMED", "SHORT_BUFFER", "SHORT_OUTPUT", "ALLOC_FAILED"}

AllLibs == {"LIBDEFLATE", "LIBLZ4", "LIBLZMA", "LIBZSTD", "LIBBZ2"}

ASSUME CompressionAssumption ==
  /\ Libs \subseteq AllLibs
  /\ MaxSize \in Nat
  /\ UIntLimit \in Nat \ {0}
  /\ NULL \notin Nat \cup Results

clod_compression_support(method) ==
  \/ method = "UNCOMPRESSED"
  \/ "LIBDEFLATE" \in Libs /\ method \in Deflates
  \/ "LIBLZ4" \in Libs /\ method \in {"LZ4F", "MINECRAFT_LZ4"}
  \/ "LIBLZMA" \in Libs /\ method = "XZ"
  \/ "LIBZSTD" \in Libs /\ method = "ZSTD"
  \/ "LIBBZ2" \in Libs /\ method = "BZIP2"

\* Mutant of CaseOf: there is no default case for a supported method.
CaseOfSupported(method) ==
  IF ~clod_compression_support(method) THEN "default"
  ELSE IF method \in Deflates THEN "DEFLATE" ELSE method

\* The case of the switch over the method that clod_compress and
\* clod_decompress take.  A case whose library is missing is as good as none.
CaseOf(method) ==
  IF ~clod_compression_support(method) \/ method = "MINECRAFT_LZ4" THEN "default"
  ELSE IF method \in Deflates THEN "DEFLATE" ELSE method

\* Arithmetic of unsigned int.
Unsigned(n) == n % UIntLimit

Least(a, b) == IF a < b THEN a ELSE b

\* The units of the frame of a document of n units.
FrameLen(n) == n + 2

(***************************************************************************)
(* What may be in a source buffer: the frame of a document of `size'       *)
(* units, whose header says so if `stated', of which the first `good'      *)
(* units are intact, in a buffer of `len' units.  With good < len a frame  *)
(* that is not complete is corrupt, with good = len it is truncated; after *)
(* a complete frame the rest is not part of it.                            *)
(***************************************************************************)
Sources ==
  {s \in [size : 0 .. MaxSize, stated : BOOLEAN, good : 0 .. MaxSize + 2, len : 0 .. MaxSize + 3] :
     s.good <= FrameLen(s.size) /\ s.good <= s.len /\ s.len <= FrameLen(s.size) + 1}

Complete(s) == s.good = FrameLen(s.size)

\* The units of the document that the first p units of its frame give.
Decoded(s, p) == IF p = 0 THEN 0 ELSE Least(p - 1, s.size)

\* How far the first `avail' units of s can be decoded into `room' units.
Reach(s, room, avail) ==
  Least(Least(s.good, avail), IF s.size <= room THEN FrameLen(s.size) ELSE room + 1)

(***************************************************************************)
(* The outcomes of a call of a library's streaming decoder that has        *)
(* consumed `from' units.  It ends the frame, or reports an error where    *)
(* the frame is corrupt, or goes on as far as it likes; where the room is  *)
(* used up it still takes what needs none, and where it can neither read   *)
(* nor write it stays where it is.                                         *)
(***************************************************************************)
DecoderTurns(s, room, avail, from) ==
  LET p == Reach(s, room, avail)
      ends == p = FrameLen(s.size)
      corrupt == ~ends /\ p = s.good /\ p < avail
  IN {[ret |-> "more", to |-> q] :
        q \in {q \in from .. p :
                 /\ q # FrameLen(s.size)
                 /\ q > from \/ (from = p /\ ~corrupt)
                 /\ q = p \/ Decoded(s, q) < room}}
     \cup {[ret |-> "end", to |-> q] : q \in {q \in {p} : ends}}
     \cup {[ret |-> "error", to |-> q] : q \in {q \in {p} : corrupt}}
================================================================================
