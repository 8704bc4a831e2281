-------------------------- MODULE DecompressorProofs ---------------------------
(***************************************************************************)
(* Proofs about Decompressor, for documents and buffers of any size, any   *)
(* width of unsigned int and any set of libraries.                         *)
(***************************************************************************)
EXTENDS Decompressor, NatLemmas, TLAPS

(* The inductive invariant. *)

\* Which case of the switch a label belongs to.
LabelCase(l) ==
  CASE l = "lz4_loop"  -> "LZ4F"
    [] l = "xz_loop"   -> "XZ"
    [] l = "zstd_loop" -> "ZSTD"
    [] l = "bz2_loop"  -> "BZIP2"
    [] OTHER           -> l

\* A call is in progress, or has just returned, on a decompressor.
InCall ==
  /\ call = NULL <=> pc \in {"idle", "crashed"}
  /\ call # NULL => ctx # NULL
  /\ pc = "crashed" => ctx = NULL
  /\ pc \in Labels => /\ call.res = NULL /\ ~call.oom
                      /\ LabelCase(pc) = CaseOf(call.method)

\* What is allocated at every point of a call.
Owned == IF ctx = NULL THEN {} ELSE {"decompressor"} \cup {c \in Contexts : Held(c)}
Allocated ==
  live = Owned \cup (IF pc \in {"xz_loop", "bz2_loop"} THEN {"stream"} ELSE {})

\* When a context is within a frame.
Within ==
  ctx # NULL =>
    /\ ctx["lz4"] = "within" => pc = "lz4_loop"
    /\ Held("zstd") => "LIBZSTD" \in Libs
    /\ pc = "zstd_loop" => Held("zstd")
    /\ call # NULL => (call.stale => call.method = "ZSTD")
    /\ pc = "returned" /\ call.method = "ZSTD" /\ call.res # "MALFORMED"
         => ctx["zstd"] # "within"

\* How far the loops have come.
Position ==
  /\ pc = "zstd_loop" => in # FrameLen(src.size) /\ in <= src.good
  /\ pc = "bz2_loop" /\ Fits(call) /\ Complete(src) /\ src.size <= BzRoom
       => Decoded(src, in) < BzRoom
  /\ pc \in {"ZSTD", "BZIP2"} => in = 0

IInv == TypeOK /\ InCall /\ Allocated /\ Within /\ Position /\ ResultsAsDocumented

--------------------------------------------------------------------------------
(* Sources and decoders. *)

\* The fields of a source.
LEMMA SourceType ==
  ASSUME NEW s \in Sources
  PROVE  /\ s.size \in Nat /\ s.good \in Nat /\ s.len \in Nat /\ s.stated \in BOOLEAN
         /\ s.size <= MaxSize /\ s.len <= MaxSize + 3 /\ s.good <= MaxSize + 2
         /\ s.good <= s.size + 2 /\ s.good <= s.len
BY CompressionAssumption DEF Sources, FrameLen

\* Where a decoder gets stuck: at the end of what is intact, of what there is, or
\* of the room.
LEMMA ReachFacts ==
  ASSUME NEW s \in Sources, NEW room \in Nat, NEW avail \in Nat
  PROVE  LET p == Reach(s, room, avail) IN
         /\ p \in Nat /\ p <= s.good /\ p <= avail /\ p <= FrameLen(s.size)
         /\ p = FrameLen(s.size) => Complete(s) /\ s.size <= room
         /\ p < s.good /\ p < avail => room < s.size /\ p = room + 1
         /\ room < s.size => p <= room + 1
         /\ Complete(s) /\ FrameLen(s.size) <= avail =>
              IF s.size <= room THEN p = FrameLen(s.size)
                                ELSE p = room + 1 /\ Decoded(s, p) = room
BY SourceType DEF Reach, FrameLen, Complete, Decoded, Least

\* What part of the document a prefix of the frame gives.
LEMMA DecodedType ==
  ASSUME NEW s \in Sources, NEW p \in Nat
  PROVE  Decoded(s, p) \in Nat /\ Decoded(s, p) <= s.size
BY SourceType DEF Decoded, Least

\* A turn that ends the frame, reports an error, or does neither.
LEMMA TurnFacts ==
  ASSUME NEW s \in Sources, NEW room \in Nat, NEW avail \in Nat, NEW from \in Nat,
         NEW t \in DecoderTurns(s, room, avail, from)
  PROVE  /\ t.to \in Nat /\ t.to <= s.good /\ t.to <= avail
         /\ t.ret \in {"more", "end", "error"}
         /\ t.ret = "end" => Complete(s) /\ s.size <= room
         /\ t.ret = "error" => ~Complete(s)
         /\ t.ret = "more" =>
              /\ t.to # FrameLen(s.size)
              /\ Complete(s) /\ FrameLen(s.size) <= avail /\ s.size <= room
                   => Decoded(s, t.to) < room
         /\ t.ret = "more" /\ t.to = from =>
              /\ from < avail => room < s.size
              /\ Complete(s) /\ FrameLen(s.size) <= avail
                   => room < s.size /\ Decoded(s, from) = room
<1> DEFINE p == Reach(s, room, avail)
           ends == p = FrameLen(s.size)
           corrupt == ~ends /\ p = s.good /\ p < avail
<1>1. /\ p \in Nat /\ p <= s.good /\ p <= avail /\ p <= FrameLen(s.size)
      /\ ends => Complete(s) /\ s.size <= room
      /\ p < s.good /\ p < avail => room < s.size /\ p = room + 1
      /\ Complete(s) /\ FrameLen(s.size) <= avail =>
           IF s.size <= room THEN ends ELSE p = room + 1 /\ Decoded(s, p) = room
  BY ReachFacts
<1>2. \/ /\ t.ret = "more" /\ t.to \in from .. p /\ t.to # FrameLen(s.size)
         /\ t.to > from \/ (from = p /\ ~corrupt)
         /\ t.to = p \/ Decoded(s, t.to) < room
      \/ t.ret = "end" /\ t.to = p /\ ends
      \/ t.ret = "error" /\ t.to = p /\ corrupt
  BY DEF DecoderTurns
<1>3. s.size \in Nat /\ s.good \in Nat /\ FrameLen(s.size) \in Nat
  BY SourceType DEF FrameLen
<1> HIDE DEF p
<1>4. CASE t.ret = "more"
  <2>1. /\ t.to \in from .. p /\ t.to # FrameLen(s.size)
        /\ t.to > from \/ (from = p /\ ~corrupt)
        /\ t.to = p \/ Decoded(s, t.to) < room
    BY <1>2, <1>4
  <2>2. t.to \in Nat /\ t.to <= s.good /\ t.to <= avail
    BY <2>1, <1>1, <1>3
  <2>3. Complete(s) /\ FrameLen(s.size) <= avail /\ s.size <= room => Decoded(s, t.to) < room
    BY <2>1, <1>1
  <2>4. ASSUME t.to = from
        PROVE  /\ from = p /\ ~ends
               /\ from < avail => room < s.size
               /\ Complete(s) /\ FrameLen(s.size) <= avail
                   => room < s.size /\ Decoded(s, from) = room
    <3>1. from = p /\ ~corrupt /\ ~ends
      BY <2>1, <2>4
    <3> QED BY <3>1, <1>1, <1>3
  <2> QED BY <1>4, <2>1, <2>2, <2>3, <2>4
<1>5. CASE t.ret = "end"
  BY <1>5, <1>2, <1>1, <1>3
<1>6. CASE t.ret = "error"
  BY <1>6, <1>2, <1>1, <1>3 DEF Complete
<1> QED BY <1>2, <1>4, <1>5, <1>6

--------------------------------------------------------------------------------
(* Steps of a call, by how they end. *)

Actuals == 0 .. MaxSize + 3 \cup {NULL}

\* What is known of a call in progress.
LEMMA Progressing ==
  ASSUME IInv, pc \in Labels
  PROVE  /\ call \in Calls /\ call # NULL /\ ctx # NULL
         /\ ctx \in [Contexts -> ContextStates]
         /\ src \in Sources /\ call.dst_size \in Nat /\ call.dst_size <= MaxSize + 1
         /\ in \in Nat
         /\ LabelCase(pc) = CaseOf(call.method)
         /\ ctx["lz4"] = "within" => pc = "lz4_loop"
         /\ Held("zstd") => "LIBZSTD" \in Libs
         /\ call.stale => call.method = "ZSTD"
<1>1. pc \notin {"idle", "crashed", "returned"}
  BY DEF Labels
<1>2. call \in Calls /\ call # NULL /\ ctx # NULL
  BY <1>1 DEF IInv, InCall, TypeOK
<1> QED BY <1>2, CompressionAssumption
  DEF IInv, InCall, TypeOK, Within, src, Calls, DstSizes

\* The call after `return'.
LEMMA ReturnFields ==
  ASSUME call \in Calls, NEW r \in Results, NEW a \in Actuals, Return(r, a)
  PROVE  /\ call' \in Calls /\ pc' = "returned"
         /\ call'.method = call.method /\ call'.src = call.src
         /\ call'.dst_size = call.dst_size /\ call'.sized = call.sized
         /\ call'.stale = call.stale /\ call'.oom = call.oom
         /\ call'.res = r /\ (call.sized => call'.actual = a)
BY DEF Return, Calls, Actuals

\* The call after a failed allocation.
LEMMA OutOfMemoryFields ==
  ASSUME call \in Calls, NEW r \in Results, OutOfMemory(r)
  PROVE  /\ call' \in Calls /\ pc' = "returned"
         /\ call'.method = call.method /\ call'.stale = call.stale
         /\ call'.oom /\ call'.res = r
BY DEF OutOfMemory, Calls

\* What a step must leave behind for the invariant to hold once it has returned.
ReturnsWell ==
  /\ ctx' \in [Contexts -> ContextStates]
  /\ live' = {"decompressor"} \cup {c \in Contexts : ctx'[c] # "none"}
  /\ in' \in 0 .. MaxSize + 2
  /\ ctx'["lz4"] # "within"
  /\ ctx'["zstd"] # "none" => "LIBZSTD" \in Libs

\* A step that returns preserves the invariant.
LEMMA ReturnedInv ==
  ASSUME IInv, pc \in Labels, ReturnsWell,
         call' \in Calls, pc' = "returned",
         call'.method = call.method, call'.stale = call.stale,
         call'.method = "ZSTD" /\ call'.res # "MALFORMED" => ctx'["zstd"] # "within",
         ~call'.stale /\ ~call'.oom /\ Fits(call') => Expected(call')
  PROVE  IInv'
<1>1. call' # NULL /\ ctx' # NULL
  BY NullContextAssumption DEF ReturnsWell
<1>2. TypeOK'
  BY CompressionAssumption DEF TypeOK, ReturnsWell
<1>3. InCall'
  BY <1>1 DEF InCall, Labels
<1>4. Allocated'
  BY <1>1 DEF Allocated, Owned, ReturnsWell, Held
<1>5. Within'
  BY Progressing DEF Within, ReturnsWell, Held
<1>6. Position'
  BY DEF Position
<1>7. ResultsAsDocumented'
  BY DEF ResultsAsDocumented
<1> QED BY <1>2, <1>3, <1>4, <1>5, <1>6, <1>7 DEF IInv

\* The contexts and what is allocated when a step has put context c into state st.
LEMMA KeepFacts ==
  ASSUME IInv, pc \in Labels, pc \notin {"xz_loop", "bz2_loop"},
         NEW c \in Contexts, NEW st \in {"ready", "within"}, Keep(c, st)
  PROVE  /\ ctx' \in [Contexts -> ContextStates]
         /\ live' = {"decompressor"} \cup {k \in Contexts : ctx'[k] # "none"}
         /\ ctx'[c] = st
         /\ \A k \in Contexts \ {c} : ctx'[k] = ctx[k]
<1>1. ctx \in [Contexts -> ContextStates] /\ ctx # NULL
  BY Progressing
<1>2. live = {"decompressor"} \cup {k \in Contexts : ctx[k] # "none"}
  BY <1>1 DEF IInv, Allocated, Owned, Held
<1>3. /\ ctx' \in [Contexts -> ContextStates]
      /\ ctx'[c] = st
      /\ \A k \in Contexts \ {c} : ctx'[k] = ctx[k]
  BY <1>1 DEF Keep, ContextStates
<1> QED BY <1>2, <1>3 DEF Keep

\* The same when a step leaves the contexts alone and ends the stream, if any.
LEMMA AloneFacts ==
  ASSUME IInv, pc \in Labels, pc # "lz4_loop", UNCHANGED ctx, live' = live \ {"stream"},
         in' \in 0 .. MaxSize + 2
  PROVE  ReturnsWell
<1>1. ctx \in [Contexts -> ContextStates] /\ ctx # NULL
  BY Progressing
<1>2. live' = {"decompressor"} \cup {k \in Contexts : ctx[k] # "none"}
  BY <1>1 DEF IInv, Allocated, Owned, Held, Contexts
<1> QED BY <1>1, <1>2, Progressing DEF ReturnsWell, Held

--------------------------------------------------------------------------------
(* The actions. *)

\* The methods of a case.
LEMMA CaseFacts ==
  ASSUME NEW m \in Methods
  PROVE  /\ CaseOf(m) \in Labels
         /\ CaseOf(m) = "DEFLATE" => m \in Deflates
         /\ \A l \in {"UNCOMPRESSED", "LZ4F", "XZ", "ZSTD", "BZIP2"} : CaseOf(m) = l => m = l
         /\ CaseOf(m) = "ZSTD" => "LIBZSTD" \in Libs
         /\ LabelCase(CaseOf(m)) = CaseOf(m)
BY DEF CaseOf, Methods, Deflates, Labels, LabelCase, clod_compression_support

\* A call that is in case l has a method of that case.
LEMMA CaseOfCall ==
  ASSUME IInv, pc \in Labels
  PROVE  /\ call.method \in Methods
         /\ pc = "UNCOMPRESSED" => call.method = "UNCOMPRESSED"
         /\ pc = "DEFLATE" => call.method \in Deflates
         /\ pc \in {"LZ4F", "lz4_loop"} => call.method = "LZ4F"
         /\ pc \in {"XZ", "xz_loop"} => call.method = "XZ"
         /\ pc \in {"ZSTD", "zstd_loop"} => call.method = "ZSTD" /\ "LIBZSTD" \in Libs
         /\ pc \in {"BZIP2", "bz2_loop"} => call.method = "BZIP2"
         /\ (CaseOf(call.method) = "default") <=> (pc = "default")
<1>1. call.method \in Methods /\ LabelCase(pc) = CaseOf(call.method)
  BY Progressing DEF Calls
<1> QED BY <1>1, CaseFacts DEF LabelCase, Labels, Deflates

\* The end of a frame of n units that dst has room for.
LEMMA OutputExpected ==
  ASSUME call \in Calls, NEW n \in 0 .. MaxSize + 3, ReturnOutput(n),
         CaseOf(call.method) # "default", Intact(call), n = OutputSize(call),
         n <= call.dst_size
  PROVE  /\ call' \in Calls /\ pc' = "returned"
         /\ call'.method = call.method /\ call'.stale = call.stale
         /\ Expected(call')
<1>1. n \in Actuals /\ NULL \in Actuals /\ call.dst_size \in Nat /\ n \in Nat
  BY CompressionAssumption DEF Actuals, Calls, DstSizes
<1>2. CASE ~call.sized /\ n < call.dst_size
  <2>1. Return("SHORT_OUTPUT", NULL)
    BY <1>2 DEF ReturnOutput
  <2>2. "SHORT_OUTPUT" \in Results
    BY DEF Results
  <2> QED BY <2>1, <2>2, <1>1, <1>2, ReturnFields DEF Expected, Intact, OutputSize, Complete
<1>3. CASE ~(~call.sized /\ n < call.dst_size)
  <2>1. Return("SUCCESS", n)
    BY <1>3 DEF ReturnOutput
  <2>2. "SUCCESS" \in Results
    BY DEF Results
  <2> QED BY <2>1, <2>2, <1>1, <1>3, ReturnFields DEF Expected, Intact, OutputSize, Complete
<1> QED BY <1>2, <1>3

\* MALFORMED, for data that are not intact.
LEMMA MalformedExpected ==
  ASSUME call \in Calls, Return("MALFORMED", NULL)
  PROVE  /\ call' \in Calls /\ pc' = "returned" /\ call'.res = "MALFORMED"
         /\ call'.method = call.method /\ call'.stale = call.stale
         /\ CaseOf(call.method) # "default" /\ ~Intact(call) => Expected(call')
<1>1. NULL \in Actuals /\ "MALFORMED" \in Results
  BY DEF Actuals, Results
<1> QED BY <1>1, ReturnFields DEF Expected, Intact, Complete

\* SHORT_BUFFER, for a document larger than dst, or data that are not intact and
\* have filled it.
LEMMA ShortExpected ==
  ASSUME call \in Calls, NEW a \in Actuals, Return("SHORT_BUFFER", a),
         CaseOf(call.method) # "default"
  PROVE  /\ call' \in Calls /\ pc' = "returned" /\ call'.res = "SHORT_BUFFER"
         /\ call'.method = call.method /\ call'.stale = call.stale
         /\ Intact(call) /\ call.dst_size < OutputSize(call) => Expected(call')
         /\ ~Intact(call) /\ call.dst_size <= call.src.size => Expected(call')
<1>1. "SHORT_BUFFER" \in Results
  BY DEF Results
<1> QED BY <1>1, ReturnFields DEF Expected, Intact, OutputSize, Complete

\* A failed allocation.
LEMMA OutOfMemoryInv ==
  ASSUME IInv, pc \in Labels, ReturnsWell, NEW r \in Results, OutOfMemory(r),
         call.method = "ZSTD" /\ r # "MALFORMED" => ctx'["zstd"] # "within"
  PROVE  IInv'
<1>1. call \in Calls
  BY Progressing
<1> QED BY <1>1, OutOfMemoryFields, ReturnedInv

\* CLOD_UNCOMPRESSED
LEMMA UncompressedInv ==
  ASSUME IInv, Uncompressed
  PROVE  IInv'
<1>1. pc \in Labels /\ pc = "UNCOMPRESSED"
  BY DEF Uncompressed, Labels
<1>2. call \in Calls /\ src \in Sources /\ call.dst_size \in Nat
  BY <1>1, Progressing
<1>3. call.method = "UNCOMPRESSED" /\ CaseOf(call.method) # "default"
  BY <1>1, CaseOfCall
<1>4. src.len \in 0 .. MaxSize + 3 /\ src.len \in Nat /\ src.len \in Actuals
  BY <1>2, SourceType, CompressionAssumption DEF Actuals
<1>5. Intact(call) /\ OutputSize(call) = src.len
  BY <1>3 DEF Intact, OutputSize, src
<1>6. ReturnsWell
  <2>1. live' = live \ {"stream"}
    BY <1>1, Progressing DEF Uncompressed, IInv, Allocated, Owned, Contexts
  <2> QED BY <1>1, <2>1, AloneFacts DEF Uncompressed, IInv, TypeOK
<1>7. CASE call.dst_size < src.len
  <2>1. Return("SHORT_BUFFER", src.len)
    BY <1>7 DEF Uncompressed
  <2> QED BY <1>1, <1>2, <1>3, <1>4, <1>5, <1>6, <1>7, <2>1, ShortExpected, ReturnedInv
<1>8. CASE ~(call.dst_size < src.len)
  <2>1. ReturnOutput(src.len)
    BY <1>8 DEF Uncompressed
  <2> QED BY <1>1, <1>2, <1>3, <1>4, <1>5, <1>6, <1>8, <2>1, OutputExpected, ReturnedInv
<1> QED BY <1>7, <1>8

\* A method without a case.
LEMMA UnsupportedInv ==
  ASSUME IInv, Unsupported
  PROVE  IInv'
<1>1. pc \in Labels /\ pc = "default"
  BY DEF Unsupported, Labels
<1>2. call \in Calls
  BY <1>1, Progressing
<1>3. CaseOf(call.method) = "default" /\ call.method \in Methods
  BY <1>1, CaseOfCall
<1>4. ReturnsWell
  <2>1. live' = live \ {"stream"}
    BY <1>1, Progressing DEF Unsupported, IInv, Allocated, Owned, Contexts
  <2> QED BY <1>1, <2>1, AloneFacts DEF Unsupported, IInv, TypeOK
<1>5. /\ call' \in Calls /\ pc' = "returned" /\ call'.res = "UNSUPPORTED"
      /\ call'.method = call.method /\ call'.stale = call.stale
  <2>1. Return("UNSUPPORTED", NULL) /\ "UNSUPPORTED" \in Results /\ NULL \in Actuals
    BY DEF Unsupported, Results, Actuals
  <2> QED BY <2>1, <1>2, ReturnFields
<1>6. call.method = "ZSTD" => "LIBZSTD" \notin Libs
  BY <1>3 DEF CaseOf, clod_compression_support, Deflates
<1>7. ctx'["zstd"] = "none" \/ call.method # "ZSTD"
  BY <1>6, <1>4 DEF ReturnsWell
<1> QED BY <1>1, <1>3, <1>4, <1>5, <1>7, ReturnedInv DEF Expected

\* Putting the context of a method that needs no other into state "ready".
LEMMA ReadyFacts ==
  ASSUME IInv, pc \in Labels, pc \notin {"xz_loop", "bz2_loop"},
         NEW c \in Contexts, Keep(c, "ready"), pc = "lz4_loop" => c = "lz4",
         c = "zstd" => "LIBZSTD" \in Libs, in' \in 0 .. MaxSize + 2
  PROVE  ReturnsWell /\ ctx'[c] = "ready" /\ (c # "zstd" => ctx'["zstd"] = ctx["zstd"])
<1>1. /\ ctx' \in [Contexts -> ContextStates]
      /\ live' = {"decompressor"} \cup {k \in Contexts : ctx'[k] # "none"}
      /\ ctx'[c] = "ready"
      /\ \A k \in Contexts \ {c} : ctx'[k] = ctx[k]
  BY KeepFacts
<1>2. /\ ctx["lz4"] = "within" => pc = "lz4_loop"
      /\ ctx["zstd"] # "none" => "LIBZSTD" \in Libs
  BY Progressing DEF Held
<1>3. ctx'["lz4"] # "within"
  BY <1>1, <1>2 DEF Contexts
<1>4. ctx'["zstd"] # "none" => "LIBZSTD" \in Libs
  BY <1>1, <1>2 DEF Contexts
<1>5. c # "zstd" => ctx'["zstd"] = ctx["zstd"]
  BY <1>1 DEF Contexts
<1> QED BY <1>1, <1>3, <1>4, <1>5 DEF ReturnsWell

\* CLOD_GZIP, CLOD_ZLIB and CLOD_DEFLATE
LEMMA LibdeflateInv ==
  ASSUME IInv, Libdeflate
  PROVE  IInv'
<1>1. pc \in Labels /\ pc = "DEFLATE"
  BY DEF Libdeflate, Labels
<1>2. call \in Calls /\ src \in Sources /\ call.dst_size \in Nat
  BY <1>1, Progressing
<1>3. call.method \in Deflates /\ CaseOf(call.method) # "default"
  BY <1>1, CaseOfCall
<1>4. call.method \notin {"ZSTD", "UNCOMPRESSED"}
  BY <1>3 DEF Deflates
<1>5. in' \in 0 .. MaxSize + 2
  BY DEF Libdeflate, IInv, TypeOK
<1>6. CASE OutOfMemory("ALLOC_FAILED") /\ UNCHANGED <<ctx, live>>
  <2>1. live' = live \ {"stream"}
    BY <1>1, <1>6, Progressing DEF IInv, Allocated, Owned, Contexts
  <2>2. ReturnsWell
    BY <1>1, <1>5, <1>6, <2>1, AloneFacts
  <2> QED BY <1>1, <1>4, <1>6, <2>2, OutOfMemoryInv DEF Results
<1>7. CASE /\ Keep("libdeflate", "ready")
           /\ LET p == Reach(src, call.dst_size, src.len)
              IN IF p = FrameLen(src.size) THEN ReturnOutput(src.size)
                 ELSE IF p = src.good THEN Return("MALFORMED", NULL)
                 ELSE Return("SHORT_BUFFER", 0)
  <2> DEFINE p == Reach(src, call.dst_size, src.len)
  <2>1. ReturnsWell
    BY <1>1, <1>5, <1>7, ReadyFacts DEF Contexts
  <2>2. /\ p \in Nat /\ p <= src.good
        /\ p = FrameLen(src.size) => Complete(src) /\ src.size <= call.dst_size
        /\ p < src.good /\ p < src.len => call.dst_size < src.size
    BY <1>2, SourceType, ReachFacts
  <2>3. Complete(src) => src.good = FrameLen(src.size)
    BY DEF Complete
  <2>4. (Intact(call) <=> Complete(src)) /\ OutputSize(call) = src.size
    BY <1>4 DEF Intact, OutputSize, src
  <2>5. src.size \in 0 .. MaxSize + 3 /\ src.good \in Nat /\ src.len \in Nat /\ src.good <= src.len
    BY <1>2, SourceType, CompressionAssumption
  <2>6. CASE p = FrameLen(src.size)
    <3>1. ReturnOutput(src.size)
      BY <1>7, <2>6
    <3> QED BY <1>1, <1>2, <1>3, <1>4, <2>1, <2>2, <2>4, <2>5, <2>6, <3>1, OutputExpected, ReturnedInv
  <2>7. CASE p # FrameLen(src.size) /\ p = src.good
    <3>1. Return("MALFORMED", NULL)
      BY <1>7, <2>7
    <3>2. ~Intact(call)
      BY <2>3, <2>4, <2>7
    <3> QED BY <1>1, <1>2, <1>3, <1>4, <2>1, <3>1, <3>2, MalformedExpected, ReturnedInv
  <2>8. CASE p # FrameLen(src.size) /\ p # src.good
    <3>1. Return("SHORT_BUFFER", 0) /\ 0 \in Actuals
      BY <1>7, <2>8, CompressionAssumption DEF Actuals
    <3>2. call.dst_size < src.size
      BY <2>2, <2>5, <2>8
    <3>3. call.dst_size <= call.src.size /\ call.dst_size < OutputSize(call)
      BY <3>2, <2>4, <2>5, <1>2 DEF src
    <3> QED BY <1>1, <1>2, <1>3, <1>4, <2>1, <3>1, <3>3, ShortExpected, ReturnedInv
  <2> QED BY <2>6, <2>7, <2>8
<1> QED BY <1>6, <1>7 DEF Libdeflate

\* A step within a call that does not return preserves the invariant.
LEMMA GoOnInv ==
  ASSUME IInv, pc \in Labels, pc' \in Labels, LabelCase(pc') = LabelCase(pc), UNCHANGED call,
         ctx' \in [Contexts -> ContextStates],
         live' = {"decompressor"} \cup {c \in Contexts : ctx'[c] # "none"}
                 \cup (IF pc' \in {"xz_loop", "bz2_loop"} THEN {"stream"} ELSE {}),
         in' \in 0 .. MaxSize + 2,
         ctx'["lz4"] = "within" => pc' = "lz4_loop",
         ctx'["zstd"] # "none" => "LIBZSTD" \in Libs,
         pc' = "zstd_loop" => ctx'["zstd"] # "none",
         Position'
  PROVE  IInv'
<1>1. call \in Calls /\ call # NULL /\ ctx # NULL /\ ctx' # NULL
  BY Progressing, NullContextAssumption
<1>2. TypeOK'
  <2>1. live' \subseteq Contexts \cup {"decompressor", "stream"}
    OBVIOUS
  <2> QED BY <1>1, <2>1 DEF TypeOK
<1>3. pc' \notin {"idle", "crashed", "returned"}
  BY DEF Labels
<1>4. InCall'
  BY <1>1, <1>3 DEF IInv, InCall
<1>5. Allocated'
  BY <1>1 DEF Allocated, Owned, Held
<1>6. Within'
  BY <1>1, <1>3, Progressing DEF Within, Held
<1>7. ResultsAsDocumented'
  BY <1>3 DEF ResultsAsDocumented
<1> QED BY <1>2, <1>4, <1>5, <1>6, <1>7 DEF IInv

\* What a call with a streaming decoder knows of its data.
LEMMA StreamCall ==
  ASSUME IInv, pc \in Labels \ {"UNCOMPRESSED", "default"}
  PROVE  /\ call \in Calls /\ src \in Sources /\ call.dst_size \in Nat /\ in \in Nat
         /\ src.size \in 0 .. MaxSize + 3 /\ src.good \in Nat /\ src.len \in Nat
         /\ src.good <= src.len /\ src.good <= MaxSize + 2 /\ src.good <= FrameLen(src.size)
         /\ (Intact(call) <=> Complete(src)) /\ OutputSize(call) = src.size
         /\ Complete(src) <=> src.good = FrameLen(src.size)
         /\ CaseOf(call.method) # "default"
<1>1. /\ call \in Calls /\ src \in Sources /\ call.dst_size \in Nat /\ in \in Nat
      /\ LabelCase(pc) = CaseOf(call.method)
  BY Progressing
<1>2. CaseOf(call.method) # "default"
  BY CaseOfCall
<1>3. call.method # "UNCOMPRESSED"
  BY <1>1 DEF LabelCase, CaseOf, clod_compression_support, Labels, Deflates
<1>4. (Intact(call) <=> Complete(src)) /\ OutputSize(call) = src.size
  BY <1>3 DEF Intact, OutputSize, src
<1> QED BY <1>1, <1>2, <1>4, SourceType, CompressionAssumption DEF Complete, FrameLen

\* The ways to end a call, with the contexts in order.
LEMMA EndOutput ==
  ASSUME IInv, pc \in Labels \ {"UNCOMPRESSED", "default"}, ReturnsWell,
         call.method = "ZSTD" => ctx'["zstd"] # "within",
         ReturnOutput(src.size), Complete(src), src.size <= call.dst_size
  PROVE  IInv'
<1>1. /\ call \in Calls /\ src.size \in 0 .. MaxSize + 3 /\ CaseOf(call.method) # "default"
      /\ Intact(call) /\ OutputSize(call) = src.size
  BY StreamCall
<1> QED BY <1>1, OutputExpected, ReturnedInv

\* MALFORMED.
LEMMA EndMalformed ==
  ASSUME IInv, pc \in Labels \ {"UNCOMPRESSED", "default"}, ReturnsWell,
         Return("MALFORMED", NULL), ~call.stale => ~Complete(src)
  PROVE  IInv'
<1>1. call \in Calls /\ CaseOf(call.method) # "default" /\ (Intact(call) <=> Complete(src))
  BY StreamCall
<1> QED BY <1>1, MalformedExpected, ReturnedInv

\* SHORT_BUFFER.
LEMMA EndShort ==
  ASSUME IInv, pc \in Labels \ {"UNCOMPRESSED", "default"}, ReturnsWell,
         NEW a \in Actuals, Return("SHORT_BUFFER", a),
         call.method = "ZSTD" => ctx'["zstd"] # "within",
         ~call.stale /\ Fits(call) =>
           IF Complete(src) THEN call.dst_size < src.size ELSE call.dst_size <= src.size
  PROVE  IInv'
<1>1. /\ call \in Calls /\ CaseOf(call.method) # "default"
      /\ (Intact(call) <=> Complete(src)) /\ OutputSize(call) = src.size
  BY StreamCall
<1>2. "SHORT_BUFFER" \in Results
  BY DEF Results
<1>3. Fits(call') <=> Fits(call)
  BY <1>1, <1>2, ReturnFields DEF Fits
<1> QED BY <1>1, <1>3, ShortExpected, ReturnedInv DEF src

\* What *actual_size may be set to.
LEMMA ContentSizeType ==
  ASSUME NEW s \in Sources
  PROVE  /\ ContentSize(s) \in 0 .. MaxSize /\ ContentSize(s) \in Actuals
         /\ ContentSize(s) <= s.size
         /\ FrameContentSize(s) \in Actuals /\ 0 \in Actuals /\ NULL \in Actuals
BY SourceType, CompressionAssumption DEF ContentSize, FrameContentSize, Actuals

\* CLOD_LZ4F, up to the loop.
LEMMA Lz4OpenInv ==
  ASSUME IInv, Lz4Open
  PROVE  IInv'
<1>1. pc \in Labels \ {"UNCOMPRESSED", "default"} /\ pc = "LZ4F" /\ pc \in Labels
  BY DEF Lz4Open, Labels
<1>2. /\ call \in Calls /\ src \in Sources /\ call.dst_size \in Nat
      /\ src.size \in 0 .. MaxSize + 3 /\ src.good \in Nat
      /\ Complete(src) <=> src.good = FrameLen(src.size)
      /\ (Intact(call) <=> Complete(src)) /\ OutputSize(call) = src.size
      /\ CaseOf(call.method) # "default"
  BY <1>1, StreamCall
<1>3. call.method = "LZ4F" /\ call.method # "ZSTD"
  BY <1>1, CaseOfCall
<1>4. ContentSize(src) \in 0 .. MaxSize /\ ContentSize(src) <= src.size /\ ContentSize(src) \in Actuals
  BY <1>2, ContentSizeType
<1>5. in \in 0 .. MaxSize + 2 /\ 1 \in 0 .. MaxSize + 2
  BY CompressionAssumption DEF IInv, TypeOK
<1>6. ASSUME UNCHANGED <<ctx, live, in>>
      PROVE  ReturnsWell
  <2>1. live' = live \ {"stream"}
    BY <1>1, <1>6, Progressing DEF IInv, Allocated, Owned, Contexts
  <2> QED BY <1>1, <1>5, <1>6, <2>1, AloneFacts
<1>7. ASSUME Keep("lz4", "ready"), UNCHANGED in
      PROVE  ReturnsWell
  BY <1>1, <1>5, <1>7, ReadyFacts DEF Contexts
<1>8. CASE src.good = 0 /\ Return("MALFORMED", NULL) /\ ReturnsWell
  <2>1. ~Complete(src)
    BY <1>2, <1>8 DEF FrameLen
  <2> QED BY <1>1, <1>8, <2>1, EndMalformed
<1>9. CASE OutOfMemory("ALLOC_FAILED") /\ UNCHANGED <<ctx, live, in>>
  BY <1>1, <1>3, <1>6, <1>9, OutOfMemoryInv DEF Results
<1>10. CASE /\ ContentSize(src) > call.dst_size
            /\ Keep("lz4", "ready") /\ UNCHANGED in
            /\ Return("SHORT_BUFFER", ContentSize(src))
  <2>1. call.dst_size < src.size
    BY <1>2, <1>4, <1>10
  <2> QED BY <1>1, <1>2, <1>3, <1>4, <1>7, <1>10, <2>1, EndShort
<1>11. CASE /\ ~call.sized /\ ContentSize(src) > 0 /\ ContentSize(src) < call.dst_size
            /\ Keep("lz4", "ready") /\ UNCHANGED in
            /\ Return("SHORT_OUTPUT", NULL)
  <2>1. "SHORT_OUTPUT" \in Results /\ NULL \in Actuals
    BY DEF Results, Actuals
  <2>2. src.stated /\ src.size < call.dst_size /\ ~(call.dst_size < src.size)
    BY <1>2, <1>4, <1>11 DEF ContentSize
  <2>3. /\ call' \in Calls /\ pc' = "returned" /\ call'.res = "SHORT_OUTPUT"
        /\ call'.method = call.method /\ call'.src = call.src /\ call'.stale = call.stale
        /\ call'.dst_size = call.dst_size /\ call'.sized = call.sized
    BY <1>2, <1>11, <2>1, ReturnFields
  <2>4. Expected(call')
    BY <1>2, <1>3, <1>11, <2>2, <2>3 DEF Expected, Intact, OutputSize, src
  <2> QED BY <1>1, <1>3, <1>7, <1>11, <2>3, <2>4, ReturnedInv
<1>12. CASE /\ src.good > 0 /\ Keep("lz4", "within") /\ pc' = "lz4_loop" /\ in' = 1 /\ UNCHANGED call
  <2>1. /\ ctx' \in [Contexts -> ContextStates]
        /\ live' = {"decompressor"} \cup {k \in Contexts : ctx'[k] # "none"}
        /\ ctx'["zstd"] = ctx["zstd"]
    BY <1>1, <1>12, KeepFacts DEF Contexts
  <2>2. Position'
    BY <1>12 DEF Position, src
  <2>3. pc' \in Labels /\ LabelCase(pc') = LabelCase(pc)
    BY <1>1, <1>12 DEF Labels, LabelCase
  <2>4. ctx["zstd"] # "none" => "LIBZSTD" \in Libs
    BY <1>1, Progressing DEF Held
  <2> QED BY <1>1, <1>5, <1>12, <2>1, <2>2, <2>3, <2>4, GoOnInv
<1> QED BY <1>6, <1>7, <1>8, <1>9, <1>10, <1>11, <1>12 DEF Lz4Open

\* CLOD_LZ4F, the loop.
LEMMA Lz4TurnInv ==
  ASSUME IInv, Lz4Turn
  PROVE  IInv'
<1>1. pc \in Labels \ {"UNCOMPRESSED", "default"} /\ pc = "lz4_loop" /\ pc \in Labels
  BY DEF Lz4Turn, Labels
<1>2. /\ call \in Calls /\ src \in Sources /\ call.dst_size \in Nat /\ in \in Nat
      /\ src.size \in 0 .. MaxSize + 3 /\ src.good \in Nat /\ src.len \in Nat
      /\ src.good <= src.len /\ src.good <= MaxSize + 2 /\ src.good <= FrameLen(src.size)
      /\ Complete(src) <=> src.good = FrameLen(src.size)
  BY <1>1, StreamCall
<1>3. call.method = "LZ4F" /\ call.method # "ZSTD"
  BY <1>1, CaseOfCall
<1>4. ContentSize(src) \in Actuals
  BY <1>2, ContentSizeType
<1>5. ASSUME Keep("lz4", "ready"), in' \in 0 .. MaxSize + 2
      PROVE  ReturnsWell
  BY <1>1, <1>5, ReadyFacts DEF Contexts
<1>6. ASSUME NEW t \in DecoderTurns(src, call.dst_size, src.len, in),
             \/ t.ret = "more" /\ Lz4Progress(t.to)
             \/ /\ t.ret = "end" /\ in' = t.to
                /\ Keep("lz4", "ready")
                /\ ReturnOutput(src.size)
             \/ /\ t.ret = "error" /\ in' = t.to
                /\ Keep("lz4", "ready")
                /\ Return("MALFORMED", NULL)
      PROVE  IInv'
  <2>1. /\ t.to \in Nat /\ t.to <= src.good
        /\ t.ret = "end" => Complete(src) /\ src.size <= call.dst_size
        /\ t.ret = "error" => ~Complete(src)
        /\ t.ret = "more" =>
             /\ t.to # FrameLen(src.size)
             /\ Complete(src) /\ FrameLen(src.size) <= src.len /\ src.size <= call.dst_size
                   => Decoded(src, t.to) < call.dst_size
    BY <1>2, TurnFacts
  <2>2. in' \in 0 .. MaxSize + 2
    <3>1. in' = t.to
      BY <1>6 DEF Lz4Progress
    <3> QED BY <1>2, <2>1, <3>1, CompressionAssumption
  <2>3. CASE t.ret = "end" /\ Keep("lz4", "ready") /\ ReturnOutput(src.size)
    BY <1>1, <1>3, <1>5, <2>1, <2>2, <2>3, EndOutput
  <2>4. CASE t.ret = "error" /\ Keep("lz4", "ready") /\ Return("MALFORMED", NULL)
    BY <1>1, <1>5, <2>1, <2>2, <2>4, EndMalformed
  <2>5. CASE t.ret = "more" /\ t.to >= src.len /\ Keep("lz4", "ready") /\ Return("MALFORMED", NULL)
    <3>1. ~Complete(src)
      BY <1>2, <2>1, <2>5 DEF FrameLen
    <3> QED BY <1>1, <1>5, <2>2, <2>5, <3>1, EndMalformed
  <2>6. CASE /\ t.ret = "more" /\ t.to < src.len /\ Decoded(src, t.to) >= call.dst_size
             /\ Keep("lz4", "ready") /\ Return("SHORT_BUFFER", ContentSize(src))
    <3>1. Decoded(src, t.to) \in Nat /\ Decoded(src, t.to) <= src.size
      BY <1>2, <2>1, DecodedType
    <3>2. call.dst_size <= src.size /\ (Complete(src) => call.dst_size < src.size)
      BY <1>2, <2>1, <2>6, <3>1
    <3> QED BY <1>1, <1>3, <1>4, <1>5, <2>2, <2>6, <3>2, EndShort
  <2>7. CASE t.ret = "more" /\ UNCHANGED <<ctx, live, pc, call>>
    <3>1. /\ ctx \in [Contexts -> ContextStates] /\ ctx # NULL
          /\ ctx["zstd"] # "none" => "LIBZSTD" \in Libs
      BY <1>1, Progressing DEF Held
    <3>2. live = {"decompressor"} \cup {c \in Contexts : ctx[c] # "none"}
      BY <1>1, <3>1 DEF IInv, Allocated, Owned, Held
    <3>3. Position'
      BY <1>1, <2>7 DEF IInv, Position, src
    <3> QED BY <1>1, <2>2, <2>7, <3>1, <3>2, <3>3, GoOnInv
  <2> QED BY <1>2, <1>6, <2>1, <2>3, <2>4, <2>5, <2>6, <2>7 DEF Lz4Progress
<1>7. CASE Keep("lz4", "ready") /\ OutOfMemory("MALFORMED") /\ UNCHANGED in
  <2>1. ReturnsWell
    BY <1>5, <1>7 DEF IInv, TypeOK
  <2> QED BY <1>1, <1>3, <1>7, <2>1, OutOfMemoryInv DEF Results
<1> QED BY <1>6, <1>7 DEF Lz4Turn

\* Opening a stream that lives as long as the call.
LEMMA StreamOpened ==
  ASSUME IInv, pc \in {"XZ", "BZIP2"},
         NEW l \in {"xz_loop", "bz2_loop"}, LabelCase(l) = pc,
         UNCHANGED <<ctx, call, in>>, live' = live \cup {"stream"}, pc' = l,
         Position'
  PROVE  IInv'
<1>1. pc \in Labels /\ pc' \in Labels /\ LabelCase(pc') = LabelCase(pc)
  BY DEF Labels, LabelCase
<1>2. /\ ctx \in [Contexts -> ContextStates] /\ ctx # NULL
      /\ ctx["lz4"] # "within"
      /\ ctx["zstd"] # "none" => "LIBZSTD" \in Libs
  BY <1>1, Progressing DEF Held
<1>3. live = {"decompressor"} \cup {c \in Contexts : ctx[c] # "none"}
  BY <1>2 DEF IInv, Allocated, Owned, Held
<1>4. in' \in 0 .. MaxSize + 2
  BY DEF IInv, TypeOK
<1> QED BY <1>1, <1>2, <1>3, <1>4, GoOnInv

\* Going on in the loop of a stream.
LEMMA StreamGoesOn ==
  ASSUME IInv, pc \in {"xz_loop", "bz2_loop"}, UNCHANGED <<ctx, live, pc, call>>,
         in' \in 0 .. MaxSize + 2, Position'
  PROVE  IInv'
<1>1. pc \in Labels
  BY DEF Labels
<1>2. /\ ctx \in [Contexts -> ContextStates] /\ ctx # NULL
      /\ ctx["lz4"] # "within"
      /\ ctx["zstd"] # "none" => "LIBZSTD" \in Libs
  BY <1>1, Progressing DEF Held
<1>3. live = {"decompressor"} \cup {c \in Contexts : ctx[c] # "none"} \cup {"stream"}
  BY <1>2 DEF IInv, Allocated, Owned, Held
<1> QED BY <1>1, <1>2, <1>3, GoOnInv

\* A stream could not be opened.
LEMMA StreamNotOpened ==
  ASSUME IInv, pc \in {"XZ", "BZIP2"}, OutOfMemory("ALLOC_FAILED"), UNCHANGED <<ctx, live, in>>
  PROVE  IInv'
<1>1. pc \in Labels
  BY DEF Labels
<1>2. live' = live \ {"stream"}
  BY <1>1, Progressing DEF IInv, Allocated, Owned, Contexts
<1>3. ReturnsWell
  BY <1>1, <1>2, AloneFacts DEF IInv, TypeOK
<1>4. call.method # "ZSTD"
  BY <1>1, CaseOfCall
<1> QED BY <1>1, <1>3, <1>4, OutOfMemoryInv DEF Results

\* CLOD_XZ, up to the loop.
LEMMA XzOpenInv ==
  ASSUME IInv, XzOpen
  PROVE  IInv'
<1>1. CASE OutOfMemory("ALLOC_FAILED") /\ UNCHANGED live
  BY <1>1, StreamNotOpened DEF XzOpen
<1>2. CASE live' = live \cup {"stream"} /\ pc' = "xz_loop" /\ UNCHANGED call
  <2>1. Position'
    BY <1>2 DEF Position
  <2> QED BY <1>2, <2>1, StreamOpened DEF XzOpen, LabelCase
<1> QED BY <1>1, <1>2 DEF XzOpen

\* CLOD_XZ, the loop.
LEMMA XzTurnInv ==
  ASSUME IInv, XzTurn
  PROVE  IInv'
<1>1. pc \in Labels \ {"UNCOMPRESSED", "default"} /\ pc = "xz_loop" /\ pc \in Labels
  BY DEF XzTurn, Labels
<1>2. /\ call \in Calls /\ src \in Sources /\ call.dst_size \in Nat /\ in \in Nat
      /\ src.size \in 0 .. MaxSize + 3 /\ src.good \in Nat /\ src.len \in Nat
      /\ src.good <= src.len /\ src.good <= MaxSize + 2
      /\ Complete(src) <=> src.good = FrameLen(src.size)
  BY <1>1, StreamCall
<1>3. call.method = "XZ" /\ call.method # "ZSTD"
  BY <1>1, CaseOfCall
<1>4. 0 \in Actuals
  BY <1>2, ContentSizeType
<1>5. ASSUME live' = live \ {"stream"}, in' \in 0 .. MaxSize + 2
      PROVE  ReturnsWell
  BY <1>1, <1>5, AloneFacts DEF XzTurn
<1>6. ASSUME NEW t \in DecoderTurns(src, call.dst_size, src.len, in), in' = t.to,
             \/ t.ret = "more" /\ t.to # in /\ UNCHANGED <<live, pc, call>>
             \/ /\ t.ret = "more" /\ t.to = in
                /\ live' = live \ {"stream"}
                /\ IF Decoded(src, in) = call.dst_size THEN Return("SHORT_BUFFER", 0)
                                                       ELSE Return("MALFORMED", NULL)
             \/ t.ret = "end" /\ live' = live \ {"stream"} /\ ReturnOutput(src.size)
             \/ t.ret = "error" /\ live' = live \ {"stream"} /\ Return("MALFORMED", NULL)
      PROVE  IInv'
  <2>1. /\ t.to \in Nat /\ t.to <= src.good
        /\ t.ret = "end" => Complete(src) /\ src.size <= call.dst_size
        /\ t.ret = "error" => ~Complete(src)
        /\ t.ret = "more" /\ t.to = in =>
             /\ Complete(src) /\ FrameLen(src.size) <= src.len
                   => call.dst_size < src.size /\ Decoded(src, in) = call.dst_size
    BY <1>2, TurnFacts
  <2>2. in' \in 0 .. MaxSize + 2
    BY <1>2, <1>6, <2>1, CompressionAssumption
  <2>3. CASE t.ret = "end" /\ live' = live \ {"stream"} /\ ReturnOutput(src.size)
    BY <1>1, <1>3, <1>5, <2>1, <2>2, <2>3, EndOutput
  <2>4. CASE t.ret = "error" /\ live' = live \ {"stream"} /\ Return("MALFORMED", NULL)
    BY <1>1, <1>5, <2>1, <2>2, <2>4, EndMalformed
  <2>5. CASE t.ret = "more" /\ t.to # in /\ UNCHANGED <<live, pc, call>>
    <3>1. Position'
      BY <1>1, <2>5 DEF Position
    <3> QED BY <1>1, <2>2, <2>5, <3>1, StreamGoesOn DEF XzTurn
  <2>6. CASE /\ t.ret = "more" /\ t.to = in /\ live' = live \ {"stream"}
             /\ Decoded(src, in) = call.dst_size /\ Return("SHORT_BUFFER", 0)
    <3>1. Decoded(src, in) <= src.size
      BY <1>2, DecodedType
    <3>2. call.dst_size <= src.size /\ (Complete(src) => call.dst_size < src.size)
      BY <1>2, <2>1, <2>6, <3>1
    <3> QED BY <1>1, <1>3, <1>4, <1>5, <2>2, <2>6, <3>2, EndShort
  <2>7. CASE /\ t.ret = "more" /\ t.to = in /\ live' = live \ {"stream"}
             /\ Decoded(src, in) # call.dst_size /\ Return("MALFORMED", NULL)
    <3>1. ~Complete(src)
      BY <1>2, <2>1, <2>7
    <3> QED BY <1>1, <1>5, <2>2, <2>7, <3>1, EndMalformed
  <2> QED BY <1>6, <2>3, <2>4, <2>5, <2>6, <2>7
<1>7. CASE live' = live \ {"stream"} /\ OutOfMemory("ALLOC_FAILED") /\ UNCHANGED in
  <2>1. ReturnsWell
    BY <1>5, <1>7 DEF IInv, TypeOK
  <2> QED BY <1>1, <1>3, <1>7, <2>1, OutOfMemoryInv DEF Results
<1> QED BY <1>6, <1>7 DEF XzTurn

\* CLOD_ZSTD, up to the loop.
LEMMA ZstdOpenInv ==
  ASSUME IInv, ZstdOpen
  PROVE  IInv'
<1>1. pc \in Labels \ {"UNCOMPRESSED", "default"} /\ pc = "ZSTD" /\ pc \in Labels
  BY DEF ZstdOpen, Labels
<1>2. call.method = "ZSTD" /\ "LIBZSTD" \in Libs
  BY <1>1, CaseOfCall
<1>3. /\ ctx \in [Contexts -> ContextStates] /\ ctx # NULL /\ ctx["lz4"] # "within"
  BY <1>1, Progressing
<1>4. in' \in 0 .. MaxSize + 2 /\ in' = in
  BY DEF IInv, TypeOK, ZstdOpen
<1>5. CASE ~Held("zstd") /\ OutOfMemory("ALLOC_FAILED") /\ UNCHANGED <<ctx, live>>
  <2>1. live' = live \ {"stream"}
    BY <1>1, <1>3, <1>5 DEF IInv, Allocated, Owned, Contexts
  <2>2. ReturnsWell
    BY <1>1, <1>4, <1>5, <2>1, AloneFacts
  <2>3. ctx'["zstd"] # "within"
    BY <1>5 DEF Held
  <2> QED BY <1>1, <1>5, <2>2, <2>3, OutOfMemoryInv DEF Results
<1>6. CASE /\ Keep("zstd", IF Held("zstd") THEN ctx["zstd"] ELSE "ready")
           /\ pc' = "zstd_loop"
           /\ UNCHANGED call
  <2>1. (IF Held("zstd") THEN ctx["zstd"] ELSE "ready") \in {"ready", "within"}
    BY <1>3 DEF Held, ContextStates, Contexts
  <2>2. /\ ctx' \in [Contexts -> ContextStates]
        /\ live' = {"decompressor"} \cup {k \in Contexts : ctx'[k] # "none"}
        /\ ctx'["zstd"] \in {"ready", "within"}
        /\ ctx'["lz4"] = ctx["lz4"]
    BY <1>1, <1>6, <2>1, KeepFacts DEF Contexts
  <2>3. Position'
    <3>1. in = 0 /\ src.size \in Nat /\ src.good \in Nat
      BY <1>1, StreamCall, SourceType DEF IInv, Position
    <3> QED BY <1>4, <1>6, <3>1 DEF Position, src, FrameLen
  <2>4. pc' \in Labels /\ LabelCase(pc') = LabelCase(pc)
    BY <1>1, <1>6 DEF Labels, LabelCase
  <2> QED BY <1>1, <1>2, <1>3, <1>4, <1>6, <2>2, <2>3, <2>4, GoOnInv
<1> QED BY <1>5, <1>6 DEF ZstdOpen

\* CLOD_ZSTD, the loop.
LEMMA ZstdTurnInv ==
  ASSUME IInv, ZstdTurn
  PROVE  IInv'
<1>1. pc \in Labels \ {"UNCOMPRESSED", "default"} /\ pc = "zstd_loop" /\ pc \in Labels
  BY DEF ZstdTurn, Labels
<1>2. /\ call \in Calls /\ src \in Sources /\ call.dst_size \in Nat /\ in \in Nat
      /\ src.size \in 0 .. MaxSize + 3 /\ src.good \in Nat /\ src.len \in Nat
      /\ src.good <= src.len /\ src.good <= MaxSize + 2
      /\ Complete(src) <=> src.good = FrameLen(src.size)
  BY <1>1, StreamCall
<1>3. call.method = "ZSTD" /\ "LIBZSTD" \in Libs
  BY <1>1, CaseOfCall
<1>4. FrameContentSize(src) \in Actuals
  BY <1>2, ContentSizeType
<1>5. ASSUME Keep("zstd", "ready"), in' \in 0 .. MaxSize + 2
      PROVE  ReturnsWell /\ ctx'["zstd"] = "ready"
  BY <1>1, <1>3, <1>5, ReadyFacts DEF Contexts
<1>6. ASSUME NEW t \in DecoderTurns(src, call.dst_size, src.len, in), in' = t.to,
             \/ t.ret = "more" /\ t.to # in /\ Keep("zstd", "within") /\ UNCHANGED <<pc, call>>
             \/ /\ t.ret = "more" /\ t.to = in
                /\ Keep("zstd", "ready")
                /\ Return("SHORT_BUFFER", FrameContentSize(src))
             \/ t.ret = "end" /\ Keep("zstd", "ready") /\ ReturnOutput(src.size)
             \/ t.ret = "error" /\ Keep("zstd", "ready") /\ Return("MALFORMED", NULL)
      PROVE  IInv'
  <2>1. /\ t.to \in Nat /\ t.to <= src.good
        /\ t.ret = "end" => Complete(src) /\ src.size <= call.dst_size
        /\ t.ret = "error" => ~Complete(src)
        /\ t.ret = "more" => t.to # FrameLen(src.size)
        /\ t.ret = "more" /\ t.to = in => (in < src.len => call.dst_size < src.size)
    BY <1>2, TurnFacts
  <2>2. in' \in 0 .. MaxSize + 2
    BY <1>2, <1>6, <2>1, CompressionAssumption
  <2>3. CASE t.ret = "end" /\ Keep("zstd", "ready") /\ ReturnOutput(src.size)
    BY <1>1, <1>5, <2>1, <2>2, <2>3, EndOutput
  <2>4. CASE t.ret = "error" /\ Keep("zstd", "ready") /\ Return("MALFORMED", NULL)
    BY <1>1, <1>5, <2>1, <2>2, <2>4, EndMalformed
  <2>5. CASE /\ t.ret = "more" /\ t.to = in
             /\ Keep("zstd", "ready")
             /\ Return("SHORT_BUFFER", FrameContentSize(src))
    <3>1. in < src.len
      BY DEF ZstdTurn
    <3>2. call.dst_size < src.size
      BY <2>1, <2>5, <3>1
    <3>3. call.dst_size <= src.size
      BY <1>2, <3>2
    <3> QED BY <1>1, <1>4, <1>5, <2>2, <2>5, <3>2, <3>3, EndShort
  <2>6. CASE t.ret = "more" /\ Keep("zstd", "within") /\ UNCHANGED <<pc, call>>
    <3>1. /\ ctx' \in [Contexts -> ContextStates]
          /\ live' = {"decompressor"} \cup {k \in Contexts : ctx'[k] # "none"}
          /\ ctx'["zstd"] = "within"
          /\ ctx'["lz4"] = ctx["lz4"]
      BY <1>1, <2>6, KeepFacts DEF Contexts
    <3>2. ctx["lz4"] # "within"
      BY <1>1, Progressing
    <3>3. Position'
      BY <1>1, <1>6, <2>1, <2>6 DEF Position, src
    <3> QED BY <1>1, <1>3, <2>2, <2>6, <3>1, <3>2, <3>3, GoOnInv
  <2> QED BY <1>6, <2>3, <2>4, <2>5, <2>6
<1>7. CASE Keep("zstd", "ready") /\ OutOfMemory("MALFORMED") /\ UNCHANGED in
  <2>1. ReturnsWell
    BY <1>5, <1>7 DEF IInv, TypeOK
  <2> QED BY <1>1, <1>7, <2>1, OutOfMemoryInv DEF Results
<1> QED BY <1>6, <1>7 DEF ZstdTurn

\* CLOD_ZSTD, the loop of a call on a context within a frame.
LEMMA ZstdStaleTurnInv ==
  ASSUME IInv, ZstdStaleTurn
  PROVE  IInv'
<1>1. /\ pc \in Labels \ {"UNCOMPRESSED", "default"} /\ pc = "zstd_loop" /\ pc \in Labels
      /\ call.stale
  BY DEF ZstdStaleTurn, Labels
<1>2. /\ call \in Calls /\ src \in Sources /\ call.dst_size \in Nat
      /\ call.dst_size <= MaxSize + 1
  BY <1>1, Progressing
<1>3. call.method = "ZSTD" /\ "LIBZSTD" \in Libs
  BY <1>1, CaseOfCall
<1>4. in' \in 0 .. MaxSize + 2
  BY DEF IInv, TypeOK, ZstdStaleTurn
<1>5. ASSUME Keep("zstd", "ready")
      PROVE  ReturnsWell /\ ctx'["zstd"] = "ready"
  BY <1>1, <1>3, <1>4, <1>5, ReadyFacts DEF Contexts
<1>6. ASSUME NEW n \in 0 .. call.dst_size, Keep("zstd", "ready"), ReturnOutput(n)
      PROVE  IInv'
  <2>1. n \in Actuals /\ NULL \in Actuals /\ {"SUCCESS", "SHORT_OUTPUT"} \subseteq Results
    BY <1>2, CompressionAssumption DEF Actuals, Results
  <2>2. PICK r \in {"SUCCESS", "SHORT_OUTPUT"}, a \in Actuals : Return(r, a)
    BY <1>6, <2>1 DEF ReturnOutput
  <2>3. call' \in Calls /\ pc' = "returned" /\ call'.method = call.method /\ call'.stale = call.stale
    BY <1>2, <2>1, <2>2, ReturnFields
  <2> QED BY <1>1, <1>5, <1>6, <2>3, ReturnedInv
<1>7. CASE Keep("zstd", "ready") /\ Return("SHORT_BUFFER", FrameContentSize(src))
  <2>1. FrameContentSize(src) \in Actuals
    BY <1>2, ContentSizeType
  <2> QED BY <1>1, <1>5, <1>7, <2>1, EndShort
<1>8. CASE Keep("zstd", "ready") /\ Return("MALFORMED", NULL)
  BY <1>1, <1>5, <1>8, EndMalformed
<1>9. CASE Keep("zstd", "within") /\ Return("MALFORMED", NULL)
  <2>1. /\ ctx' \in [Contexts -> ContextStates]
        /\ live' = {"decompressor"} \cup {k \in Contexts : ctx'[k] # "none"}
        /\ ctx'["lz4"] = ctx["lz4"]
    BY <1>1, <1>9, KeepFacts DEF Contexts
  <2>2. ReturnsWell
    BY <1>1, <1>3, <1>4, <2>1, Progressing DEF ReturnsWell
  <2> QED BY <1>1, <1>9, <2>2, EndMalformed
<1> QED BY <1>6, <1>7, <1>8, <1>9 DEF ZstdStaleTurn

\* CLOD_ZSTD, at the end of the input.
LEMMA ZstdTruncatedInv ==
  ASSUME IInv, ZstdTruncated
  PROVE  IInv'
<1>1. pc \in Labels \ {"UNCOMPRESSED", "default"} /\ pc = "zstd_loop" /\ pc \in Labels
  BY DEF ZstdTruncated, Labels
<1>2. live' = live \ {"stream"}
  BY <1>1, Progressing DEF IInv, Allocated, Owned, Contexts, ZstdTruncated
<1>3. ReturnsWell
  BY <1>1, <1>2, AloneFacts DEF IInv, TypeOK, ZstdTruncated
<1>4. ~Complete(src)
  <2>1. /\ src.good \in Nat /\ src.len \in Nat /\ src.good <= src.len
        /\ Complete(src) <=> src.good = FrameLen(src.size)
    BY <1>1, StreamCall
  <2>2. in = src.len /\ in <= src.good /\ in # FrameLen(src.size)
    BY <1>1 DEF IInv, Position, ZstdTruncated
  <2> QED BY <2>1, <2>2
<1> QED BY <1>1, <1>3, <1>4, EndMalformed DEF ZstdTruncated

\* The room and the input that libbz2 is told of.
LEMMA BzFacts ==
  ASSUME IInv, pc \in {"BZIP2", "bz2_loop"}
  PROVE  /\ BzRoom \in Nat /\ Unsigned(src.len) \in Nat
         /\ Fits(call) => /\ BzRoom = IF call.dst_size = 0 THEN 1 ELSE call.dst_size
                          /\ Unsigned(src.len) = src.len
<1>1. pc \in Labels \ {"UNCOMPRESSED", "default"} /\ pc \in Labels
  BY DEF Labels
<1>2. call.dst_size \in Nat /\ src.len \in Nat /\ call.method = "BZIP2" /\ UIntLimit \in Nat /\ UIntLimit > 0
  BY <1>1, StreamCall, CaseOfCall, CompressionAssumption
<1>3. \A n \in Nat : Unsigned(n) \in Nat
  BY <1>2, ModRange DEF Unsigned
<1>4. ASSUME NEW n \in Nat, n < UIntLimit
      PROVE  Unsigned(n) = n
  <2>1. n = UIntLimit * 0 + n /\ n \in 0 .. UIntLimit - 1 /\ 0 \in Nat
    BY <1>2, <1>4
  <2>2. n % UIntLimit = n
    BY <1>2, <2>1, ModUnique
  <2> QED BY <2>2 DEF Unsigned
<1>5. Fits(call) => call.dst_size < UIntLimit /\ src.len < UIntLimit
  BY <1>2 DEF Fits, src
<1> QED BY <1>2, <1>3, <1>4, <1>5 DEF BzRoom

\* CLOD_BZIP2, up to the loop.
LEMMA BzOpenInv ==
  ASSUME IInv, BzOpen
  PROVE  IInv'
<1>1. CASE OutOfMemory("ALLOC_FAILED") /\ UNCHANGED live
  BY <1>1, StreamNotOpened DEF BzOpen
<1>2. CASE live' = live \cup {"stream"} /\ pc' = "bz2_loop" /\ UNCHANGED call
  <2>1. in = 0 /\ pc = "BZIP2" /\ in' = in
    BY DEF BzOpen, IInv, Position
  <2>2. call.dst_size \in Nat /\ pc \in Labels
    BY <2>1, Progressing DEF Labels
  <2>3. Fits(call) => 0 < BzRoom
    BY <2>1, <2>2, BzFacts
  <2>4. Decoded(src, 0) = 0
    BY DEF Decoded
  <2>5. BzRoom' = BzRoom /\ src' = src /\ Fits(call)' = Fits(call)
    BY <1>2 DEF BzRoom, src, Fits
  <2>6. Decoded(src, in)' = 0
    BY <1>2, <2>1, <2>4, <2>5 DEF Decoded
  <2>7. Position'
    BY <1>2, <2>3, <2>5, <2>6 DEF Position
  <2> QED BY <1>2, <2>1, <2>7, StreamOpened DEF BzOpen, LabelCase
<1> QED BY <1>1, <1>2 DEF BzOpen

\* BZ_STREAM_END.
LEMMA BzEndExpected ==
  ASSUME IInv, pc = "bz2_loop", BzEnd(src.size), Complete(src), src.size <= BzRoom
  PROVE  /\ call' \in Calls /\ pc' = "returned"
         /\ call'.method = call.method /\ call'.stale = call.stale
         /\ Fits(call') => Expected(call')
<1>1. pc \in Labels \ {"UNCOMPRESSED", "default"}
  BY DEF Labels
<1>2. /\ call \in Calls /\ call.dst_size \in Nat /\ src.size \in 0 .. MaxSize + 3 /\ src.size \in Nat
      /\ Intact(call) /\ OutputSize(call) = src.size /\ CaseOf(call.method) # "default"
  BY <1>1, StreamCall
<1>3. /\ src.size \in Actuals /\ NULL \in Actuals /\ 0 \in Actuals
      /\ {"SHORT_BUFFER", "SHORT_OUTPUT", "SUCCESS"} \subseteq Results
  BY <1>2, CompressionAssumption DEF Actuals, Results
<1>4. BzRoom \in Nat /\ (Fits(call) => BzRoom = IF call.dst_size = 0 THEN 1 ELSE call.dst_size)
  BY BzFacts
<1>5. PICK r \in {"SHORT_BUFFER", "SHORT_OUTPUT", "SUCCESS"}, a \in Actuals :
        /\ Return(r, a)
        /\ IF call.dst_size = 0
           THEN IF src.size # 0 THEN r = "SHORT_BUFFER" ELSE r = "SUCCESS" /\ a = 0
           ELSE IF ~call.sized /\ src.size # BzRoom THEN r = "SHORT_OUTPUT"
           ELSE r = "SUCCESS" /\ a = src.size
  BY <1>3 DEF BzEnd
<1>6. /\ call' \in Calls /\ pc' = "returned"
      /\ call'.method = call.method /\ call'.src = call.src
      /\ call'.dst_size = call.dst_size /\ call'.sized = call.sized
      /\ call'.stale = call.stale
      /\ call'.res = r /\ (call.sized => call'.actual = a)
  BY <1>2, <1>3, <1>5, ReturnFields
<1>7. Intact(call') /\ OutputSize(call') = src.size /\ (Fits(call') <=> Fits(call))
  BY <1>2, <1>6 DEF Intact, OutputSize, Fits
<1>8. ASSUME Fits(call)
      PROVE  Expected(call')
  <2>1. CASE call.dst_size = 0
    BY <1>2, <1>5, <1>6, <1>7, <2>1 DEF Expected
  <2>2. CASE call.dst_size # 0
    BY <1>2, <1>4, <1>5, <1>6, <1>7, <1>8, <2>2 DEF Expected
  <2> QED BY <2>1, <2>2
<1> QED BY <1>6, <1>7, <1>8

\* CLOD_BZIP2, the loop.
LEMMA BzTurnInv ==
  ASSUME IInv, BzTurn
  PROVE  IInv'
<1>1. pc \in Labels \ {"UNCOMPRESSED", "default"} /\ pc = "bz2_loop" /\ pc \in Labels
  BY DEF BzTurn, Labels
<1>2. /\ call \in Calls /\ src \in Sources /\ in \in Nat
      /\ src.good \in Nat /\ src.len \in Nat
      /\ src.good <= src.len /\ src.good <= MaxSize + 2
      /\ Complete(src) <=> src.good = FrameLen(src.size)
  BY <1>1, StreamCall
<1>3. call.method = "BZIP2" /\ call.method # "ZSTD"
  BY <1>1, CaseOfCall
<1>4. BzRoom \in Nat /\ Unsigned(src.len) \in Nat /\ (Fits(call) => Unsigned(src.len) = src.len)
  BY <1>1, BzFacts
<1>5. ASSUME live' = live \ {"stream"}, in' \in 0 .. MaxSize + 2
      PROVE  ReturnsWell
  BY <1>1, <1>5, AloneFacts DEF BzTurn
<1>6. ASSUME NEW t \in DecoderTurns(src, BzRoom, Unsigned(src.len), in), in' = t.to,
             \/ t.ret = "more" /\ UNCHANGED <<live, pc, call>>
             \/ t.ret = "end" /\ live' = live \ {"stream"} /\ BzEnd(src.size)
             \/ t.ret = "error" /\ live' = live \ {"stream"} /\ Return("MALFORMED", NULL)
      PROVE  IInv'
  <2>1. /\ t.to \in Nat /\ t.to <= src.good
        /\ t.ret = "end" => Complete(src) /\ src.size <= BzRoom
        /\ t.ret = "error" => ~Complete(src)
        /\ t.ret = "more" =>
             (Complete(src) /\ FrameLen(src.size) <= Unsigned(src.len) /\ src.size <= BzRoom
                   => Decoded(src, t.to) < BzRoom)
    BY <1>2, <1>4, TurnFacts
  <2>2. in' \in 0 .. MaxSize + 2
    BY <1>2, <1>6, <2>1, CompressionAssumption
  <2>3. CASE t.ret = "end" /\ live' = live \ {"stream"} /\ BzEnd(src.size)
    BY <1>1, <1>3, <1>5, <2>1, <2>2, <2>3, BzEndExpected, ReturnedInv
  <2>4. CASE t.ret = "error" /\ live' = live \ {"stream"} /\ Return("MALFORMED", NULL)
    BY <1>1, <1>5, <2>1, <2>2, <2>4, EndMalformed
  <2>5. CASE t.ret = "more" /\ UNCHANGED <<live, pc, call>>
    <3>1. Fits(call) /\ Complete(src) /\ src.size <= BzRoom => Decoded(src, t.to) < BzRoom
      BY <1>2, <1>4, <2>1, <2>5
    <3>2. BzRoom' = BzRoom /\ src' = src /\ Fits(call)' = Fits(call) /\ Decoded(src, in)' = Decoded(src, t.to)
      BY <1>6, <2>5 DEF BzRoom, src, Fits
    <3>3. Position'
      BY <1>1, <2>5, <3>1, <3>2 DEF Position
    <3> QED BY <1>1, <2>2, <2>5, <3>3, StreamGoesOn DEF BzTurn
  <2> QED BY <1>6, <2>3, <2>4, <2>5
<1>7. CASE live' = live \ {"stream"} /\ OutOfMemory("ALLOC_FAILED") /\ UNCHANGED in
  <2>1. ReturnsWell
    BY <1>5, <1>7 DEF IInv, TypeOK
  <2> QED BY <1>1, <1>3, <1>7, <2>1, OutOfMemoryInv DEF Results
<1> QED BY <1>6, <1>7 DEF BzTurn

\* CLOD_BZIP2, when there is no room left.
LEMMA BzFullInv ==
  ASSUME IInv, BzFull
  PROVE  IInv'
<1>1. pc \in Labels \ {"UNCOMPRESSED", "default"} /\ pc = "bz2_loop" /\ pc \in Labels
  BY DEF BzFull, Labels
<1>2. src \in Sources /\ in \in Nat /\ call.dst_size \in Nat /\ src.size \in Nat
  BY <1>1, StreamCall
<1>3. ReturnsWell
  BY <1>1, AloneFacts DEF BzFull, IInv, TypeOK
<1>4. call.method # "ZSTD" /\ 0 \in Actuals
  BY <1>1, <1>2, CaseOfCall, ContentSizeType
<1>5. Decoded(src, in) \in Nat /\ Decoded(src, in) <= src.size /\ BzRoom \in Nat
  BY <1>1, <1>2, DecodedType, BzFacts
<1>6. BzRoom = Decoded(src, in)
  BY <1>5 DEF BzFull, BzAvailOut
<1>7. ASSUME Fits(call)
      PROVE  IF Complete(src) THEN call.dst_size < src.size ELSE call.dst_size <= src.size
  <2>1. call.dst_size <= BzRoom
    BY <1>1, <1>2, <1>7, BzFacts
  <2>2. Complete(src) => ~(src.size <= BzRoom)
    BY <1>1, <1>5, <1>6, <1>7 DEF IInv, Position
  <2> QED BY <1>2, <1>5, <1>6, <2>1, <2>2
<1> QED BY <1>1, <1>3, <1>4, <1>7, EndShort DEF BzFull

--------------------------------------------------------------------------------
(* The life of a decompressor, and the theorems. *)

\* The initial state.
LEMMA InitInv == Init => IInv
BY CompressionAssumption DEF Init, IInv, TypeOK, InCall, Labels, Allocated, Owned, Within, Position,
  ResultsAsDocumented

\* clod_decompressor_init, with or without memory.
LEMMA CreateInv ==
  ASSUME IInv, clod_decompressor_init \/ clod_decompressor_init_fails
  PROVE  IInv'
<1>1. pc = "idle" /\ ctx = NULL /\ call = NULL /\ live = {}
  BY DEF IInv, InCall, Allocated, Owned, clod_decompressor_init, clod_decompressor_init_fails
<1>2. CASE clod_decompressor_init
  <2>1. ctx' = [c \in Contexts |-> "none"] /\ ctx' \in [Contexts -> ContextStates] /\ ctx' # NULL
    BY <1>2, NullContextAssumption DEF clod_decompressor_init, ContextStates
  <2>2. pc' = "idle" /\ call' = NULL /\ in' = in /\ live' = {"decompressor"}
    BY <1>1, <1>2 DEF clod_decompressor_init
  <2>3. ctx'["lz4"] = "none" /\ ctx'["zstd"] = "none" /\ \A c \in Contexts : ctx'[c] = "none"
    BY <2>1 DEF Contexts
  <2>4. TypeOK' /\ InCall'
    BY <1>1, <2>1, <2>2 DEF IInv, TypeOK, InCall, Labels
  <2>5. Allocated'
    BY <2>1, <2>2, <2>3 DEF Allocated, Owned, Held
  <2>6. Within' /\ Position' /\ ResultsAsDocumented'
    BY <2>2, <2>3 DEF Within, Held, Position, ResultsAsDocumented
  <2> QED BY <2>4, <2>5, <2>6 DEF IInv
<1>3. CASE clod_decompressor_init_fails
  BY <1>1, <1>3 DEF clod_decompressor_init_fails, IInv, TypeOK, InCall, Labels, Allocated, Owned,
    Within, Position, ResultsAsDocumented
<1> QED BY <1>2, <1>3

\* clod_decompressor_free leaves nothing allocated.
LEMMA FreeInv ==
  ASSUME IInv, clod_decompressor_free
  PROVE  IInv'
<1>1. pc = "idle" /\ ctx # NULL /\ call = NULL
  BY DEF IInv, InCall, clod_decompressor_free
<1>2. live' = {} /\ ctx' = NULL /\ pc' = "idle" /\ call' = NULL /\ in' = in
  BY <1>1 DEF IInv, Allocated, Owned, clod_decompressor_free
<1> QED BY <1>2 DEF IInv, TypeOK, InCall, Labels, Allocated, Owned, Within, Position, ResultsAsDocumented

\* A call begins.
LEMMA CallInv ==
  ASSUME IInv, NEW m \in Methods, NEW s \in Sources, NEW d \in DstSizes, NEW z \in BOOLEAN,
         Call(m, s, d, z)
  PROVE  IInv'
<1>1. /\ pc = "idle" /\ ctx # NULL /\ ctx' = ctx /\ live' = live /\ in' = 0
      /\ pc' = CaseOf(m) /\ pc' \in Labels /\ LabelCase(pc') = CaseOf(m)
  BY CaseFacts DEF Call
<1>2. /\ ctx \in [Contexts -> ContextStates] /\ ctx["lz4"] # "within"
      /\ Held("zstd") => "LIBZSTD" \in Libs
  BY <1>1 DEF IInv, TypeOK, Within
<1>3. /\ call' \in Calls /\ call'.method = m /\ call'.res = NULL /\ ~call'.oom
      /\ call'.stale => m = "ZSTD"
  BY <1>2 DEF Call, Calls
<1>4. call' # NULL
  BY <1>3, NullContextAssumption
<1>5. pc' \notin {"idle", "crashed", "returned", "xz_loop", "bz2_loop", "zstd_loop", "lz4_loop"}
  BY <1>1 DEF CaseOf, Methods, Deflates
<1>6. TypeOK'
  BY <1>1, <1>2, <1>3, CompressionAssumption DEF IInv, TypeOK
<1>7. InCall'
  BY <1>1, <1>3, <1>4, <1>5 DEF InCall
<1>8. Allocated'
  BY <1>1, <1>5 DEF IInv, Allocated, Owned, Held
<1>9. Within'
  BY <1>1, <1>2, <1>3, <1>5 DEF Within, Held
<1>10. Position' /\ ResultsAsDocumented'
  BY <1>1, <1>5 DEF Position, ResultsAsDocumented
<1> QED BY <1>6, <1>7, <1>8, <1>9, <1>10 DEF IInv

\* The caller has seen the result.
LEMMA ReturnedStepInv ==
  ASSUME IInv, Returned
  PROVE  IInv'
<1>1. /\ pc = "returned" /\ pc' = "idle" /\ call' = NULL /\ ctx' = ctx /\ live' = live /\ in' = 0
  BY DEF Returned
<1>2. TypeOK' /\ InCall'
  BY <1>1, CompressionAssumption DEF IInv, TypeOK, InCall, Labels
<1>3. Allocated' /\ Within'
  BY <1>1 DEF IInv, Allocated, Owned, Within, Held
<1>4. Position' /\ ResultsAsDocumented'
  BY <1>1 DEF Position, ResultsAsDocumented
<1> QED BY <1>2, <1>3, <1>4 DEF IInv

\* The invariant of the decompressor: holds after any calls of the API.
THEOREM Invariance == Spec => []IInv
<1>1. ASSUME IInv, [Next]_vars
      PROVE  IInv'
  <2>1. CASE UNCHANGED vars
    BY <1>1, <2>1 DEF vars, IInv, TypeOK, InCall, Allocated, Owned, Held, Within, Position,
      ResultsAsDocumented, src, BzRoom
  <2>2. CASE clod_decompressor_init \/ clod_decompressor_init_fails
    BY <1>1, <2>2, CreateInv
  <2>3. CASE clod_decompressor_free
    BY <1>1, <2>3, FreeInv
  <2>4. CASE \E m \in Methods, s \in Sources, d \in DstSizes, z \in BOOLEAN : Call(m, s, d, z)
    BY <1>1, <2>4, CallInv
  <2>5. CASE Returned
    BY <1>1, <2>5, ReturnedStepInv
  <2>6. CASE Step
    BY <1>1, <2>6, UncompressedInv, UnsupportedInv, LibdeflateInv, Lz4OpenInv, Lz4TurnInv,
      XzOpenInv, XzTurnInv, ZstdOpenInv, ZstdTurnInv, ZstdStaleTurnInv, ZstdTruncatedInv,
      BzOpenInv, BzTurnInv, BzFullInv DEF Step
  <2> QED BY <1>1, <2>1, <2>2, <2>3, <2>4, <2>5, <2>6 DEF Next
<1> QED BY <1>1, InitInv, PTL DEF Spec

\* The state of a decompressor keeps its types (decompress.c:26-41).
THEOREM TypeCorrect == Spec => []TypeOK
<1>1. IInv => TypeOK
  BY DEF IInv
<1> QED BY <1>1, Invariance, PTL

\* For documents and buffers of every size, clod_decompress on contexts that are
\* ready returns what the data and the sizes say (decompress.c:94-444).
THEOREM ResultsCorrect == Spec => []ResultsAsDocumented
<1>1. IInv => ResultsAsDocumented
  BY DEF IInv
<1> QED BY <1>1, Invariance, PTL

\* LZ4 contexts are always reset, and ZSTD contexts unless the call returns
\* MALFORMED (decompress.c:217-295, 347-382).
THEOREM ContextsCorrect == Spec => []ContextsReset
<1>1. IInv => ContextsReset
  BY DEF IInv, InCall, Within, ContextsReset
<1> QED BY <1>1, Invariance, PTL

\* Nothing that clod_decompress allocates outlives the call but the contexts, and
\* those do not outlive the decompressor (decompress.c:52-69, 298-434).
THEOREM LeakFree == Spec => []NothingLeaks
<1>1. IInv => NothingLeaks
  BY DEF IInv, Allocated, Owned, NothingLeaks
<1> QED BY <1>1, Invariance, PTL

--------------------------------------------------------------------------------
(* What *actual_size is when the buffer is too short. *)

\* The size clod_decompress may report for call c with SHORT_BUFFER.
ShortSize(c, a) ==
  \/ a \in {0, OutputSize(c)}
  \/ c.method = "BZIP2" /\ c.dst_size = 0 /\ c.src.size = 1

\* `return', with a size that is right if the buffer is too short.
LEMMA ReturnShort ==
  ASSUME call \in Calls, NEW r, NEW a, Return(r, a), r = "SHORT_BUFFER" => ShortSize(call, a)
  PROVE  SizeOfShortBuffer'
<1>1. /\ call'.method = call.method /\ call'.src = call.src /\ call'.dst_size = call.dst_size
      /\ call'.sized = call.sized /\ call'.res = r /\ (call.sized => call'.actual = a)
  BY DEF Return, Calls
<1>2. OutputSize(call') = OutputSize(call)
  BY <1>1 DEF OutputSize
<1> QED BY <1>1, <1>2 DEF SizeOfShortBuffer, ShortSize

\* The other ways to return have another result.
LEMMA OutputNotShort ==
  ASSUME call \in Calls, NEW n, ReturnOutput(n)
  PROVE  SizeOfShortBuffer'
BY ReturnShort DEF ReturnOutput

LEMMA OutOfMemoryNotShort ==
  ASSUME call \in Calls, NEW r, r # "SHORT_BUFFER", OutOfMemory(r)
  PROVE  SizeOfShortBuffer'
BY DEF OutOfMemory, Calls, SizeOfShortBuffer

\* The sizes the headers state, and 0, are right for a method that decodes.
LEMMA StatedShort ==
  ASSUME IInv, pc \in Labels \ {"UNCOMPRESSED", "default"}
  PROVE  /\ call \in Calls
         /\ ShortSize(call, 0) /\ ShortSize(call, ContentSize(src))
         /\ ShortSize(call, FrameContentSize(src))
<1>1. call \in Calls /\ call.method # "UNCOMPRESSED"
  BY Progressing, CaseOfCall DEF Deflates, Labels
<1>2. OutputSize(call) = src.size
  BY <1>1 DEF OutputSize, src
<1> QED BY <1>1, <1>2 DEF ShortSize, ContentSize, FrameContentSize

\* A step of a call.
LEMMA StepShort ==
  ASSUME IInv, Step
  PROVE  SizeOfShortBuffer'
<1>1. CASE Uncompressed
  <2>1. call \in Calls /\ ShortSize(call, src.len)
    BY <1>1, Progressing, CaseOfCall DEF Uncompressed, Labels, ShortSize, OutputSize, src
  <2> QED BY <1>1, <2>1, ReturnShort, OutputNotShort DEF Uncompressed
<1>2. CASE Unsupported
  BY <1>2, Progressing, ReturnShort DEF Unsupported, Labels
<1>3. CASE Libdeflate
  <2>1. call \in Calls /\ ShortSize(call, 0)
    BY <1>3, StatedShort DEF Libdeflate, Labels
  <2> QED BY <1>3, <2>1, ReturnShort, OutputNotShort, OutOfMemoryNotShort DEF Libdeflate
<1>4. CASE Lz4Open
  <2>1. call \in Calls /\ ShortSize(call, ContentSize(src))
    BY <1>4, StatedShort DEF Lz4Open, Labels
  <2>2. CASE pc' = "lz4_loop"
    BY <2>2 DEF SizeOfShortBuffer
  <2> QED BY <1>4, <2>1, <2>2, ReturnShort, OutOfMemoryNotShort DEF Lz4Open
<1>5. CASE Lz4Turn
  <2>1. call \in Calls /\ ShortSize(call, ContentSize(src)) /\ pc = "lz4_loop"
    BY <1>5, StatedShort DEF Lz4Turn, Labels
  <2>2. ASSUME NEW p, Lz4Progress(p)
        PROVE  SizeOfShortBuffer'
    <3>1. CASE UNCHANGED <<ctx, live, pc, call>>
      BY <2>1, <3>1 DEF SizeOfShortBuffer
    <3> QED BY <2>1, <2>2, <3>1, ReturnShort DEF Lz4Progress
  <2> QED BY <1>5, <2>1, <2>2, ReturnShort, OutputNotShort, OutOfMemoryNotShort DEF Lz4Turn
<1>6. CASE XzOpen
  <2>1. call \in Calls
    BY <1>6, StatedShort DEF XzOpen, Labels
  <2>2. CASE pc' = "xz_loop"
    BY <2>2 DEF SizeOfShortBuffer
  <2> QED BY <1>6, <2>1, <2>2, OutOfMemoryNotShort DEF XzOpen
<1>7. CASE XzTurn
  <2>1. call \in Calls /\ ShortSize(call, 0) /\ pc = "xz_loop"
    BY <1>7, StatedShort DEF XzTurn, Labels
  <2>2. CASE pc' = pc
    BY <2>1, <2>2 DEF SizeOfShortBuffer
  <2> QED BY <1>7, <2>1, <2>2, ReturnShort, OutputNotShort, OutOfMemoryNotShort DEF XzTurn
<1>8. CASE ZstdOpen
  <2>1. call \in Calls
    BY <1>8, StatedShort DEF ZstdOpen, Labels
  <2>2. CASE pc' = "zstd_loop"
    BY <2>2 DEF SizeOfShortBuffer
  <2> QED BY <1>8, <2>1, <2>2, OutOfMemoryNotShort DEF ZstdOpen
<1>9. CASE ZstdTurn
  <2>1. call \in Calls /\ ShortSize(call, FrameContentSize(src)) /\ pc = "zstd_loop"
    BY <1>9, StatedShort DEF ZstdTurn, Labels
  <2>2. CASE pc' = pc
    BY <2>1, <2>2 DEF SizeOfShortBuffer
  <2> QED BY <1>9, <2>1, <2>2, ReturnShort, OutputNotShort, OutOfMemoryNotShort DEF ZstdTurn
<1>10. CASE ZstdStaleTurn
  <2>1. call \in Calls /\ ShortSize(call, FrameContentSize(src))
    BY <1>10, StatedShort DEF ZstdStaleTurn, Labels
  <2> QED BY <1>10, <2>1, ReturnShort, OutputNotShort DEF ZstdStaleTurn
<1>11. CASE ZstdTruncated
  <2>1. call \in Calls
    BY <1>11, StatedShort DEF ZstdTruncated, Labels
  <2> QED BY <1>11, <2>1, ReturnShort DEF ZstdTruncated
<1>12. CASE BzOpen
  <2>1. call \in Calls
    BY <1>12, StatedShort DEF BzOpen, Labels
  <2>2. CASE pc' = "bz2_loop"
    BY <2>2 DEF SizeOfShortBuffer
  <2> QED BY <1>12, <2>1, <2>2, OutOfMemoryNotShort DEF BzOpen
<1>13. CASE BzTurn
  <2>1. pc = "bz2_loop" /\ pc \in Labels
    BY <1>13 DEF BzTurn, Labels
  <2>2. /\ call \in Calls /\ call.method = "BZIP2" /\ src = call.src
        /\ src \in Sources /\ in \in Nat /\ src.size \in Nat
        /\ BzRoom \in Nat /\ Unsigned(src.len) \in Nat
    BY <2>1, Progressing, CaseOfCall, BzFacts, SourceType DEF src
  <2>3. CASE pc' = pc
    BY <2>1, <2>3 DEF SizeOfShortBuffer
  <2>4. ASSUME NEW t \in DecoderTurns(src, BzRoom, Unsigned(src.len), in),
               t.ret = "end", BzEnd(src.size)
        PROVE  SizeOfShortBuffer'
    <3>1. src.size <= BzRoom
      BY <2>2, <2>4, TurnFacts
    <3>2. CASE call.dst_size = 0 /\ src.size # 0
      <4>1. src.size = 1
        BY <2>2, <3>1, <3>2 DEF BzRoom
      <4>2. Return("SHORT_BUFFER", NULL) /\ ShortSize(call, NULL)
        BY <2>2, <2>4, <3>2, <4>1 DEF BzEnd, ShortSize
      <4> QED BY <2>2, <4>2, ReturnShort
    <3>3. CASE ~(call.dst_size = 0 /\ src.size # 0)
      BY <2>2, <2>4, <3>3, ReturnShort DEF BzEnd
    <3> QED BY <3>2, <3>3
  <2> QED BY <1>13, <2>2, <2>3, <2>4, ReturnShort, OutOfMemoryNotShort DEF BzTurn
<1>14. CASE BzFull
  <2>1. call \in Calls /\ ShortSize(call, 0)
    BY <1>14, StatedShort DEF BzFull, Labels
  <2> QED BY <1>14, <2>1, ReturnShort DEF BzFull
<1> QED BY <1>1, <1>2, <1>3, <1>4, <1>5, <1>6, <1>7, <1>8, <1>9, <1>10, <1>11, <1>12, <1>13, <1>14
  DEF Step

\* Whatever SHORT_BUFFER is returned for, the size in *actual_size is the size of
\* the output or unknown, but for a document of one unit and an empty buffer with
\* bzip2 (decompress.c:94-444).
THEOREM ShortBufferSize == Spec => []SizeOfShortBuffer
<1>1. Init => SizeOfShortBuffer
  BY DEF Init, SizeOfShortBuffer
<1>2. ASSUME IInv, SizeOfShortBuffer, [Next]_vars
      PROVE  SizeOfShortBuffer'
  <2>1. CASE UNCHANGED vars
    BY <1>2, <2>1 DEF vars, SizeOfShortBuffer
  <2>2. CASE Step
    BY <1>2, <2>2, StepShort
  <2>3. CASE clod_decompressor_init \/ clod_decompressor_init_fails \/ clod_decompressor_free
    BY <2>3 DEF clod_decompressor_init, clod_decompressor_init_fails, clod_decompressor_free,
      SizeOfShortBuffer
  <2>4. ASSUME NEW m \in Methods, NEW s \in Sources, NEW d \in DstSizes, NEW z \in BOOLEAN,
               Call(m, s, d, z)
        PROVE  SizeOfShortBuffer'
    BY <2>4, CaseFacts DEF Call, SizeOfShortBuffer, Labels
  <2>5. CASE Returned
    BY <2>5 DEF Returned, SizeOfShortBuffer
  <2> QED BY <1>2, <2>1, <2>2, <2>3, <2>4, <2>5 DEF Next
<1> QED BY <1>1, <1>2, Invariance, PTL DEF Spec
=============================================================================
