--------------------------- MODULE CompressorProofs ----------------------------
(***************************************************************************)
(* Proofs about Compressor, for documents and buffers of any size, any     *)
(* width of unsigned int and any set of libraries.                         *)
(***************************************************************************)
EXTENDS Compressor, NatLemmas, TLAPS

(* The inductive invariant. *)

\* Which case of the switch a label belongs to.
LabelCase(l) ==
  CASE l = "xz_loop"  -> "XZ"
    [] l = "bz2_loop" -> "BZIP2"
    [] OTHER          -> l

\* A call is in progress, or has just returned, on a compressor.
InCall ==
  /\ call = NULL <=> pc \in {"idle", "crashed"}
  /\ call # NULL => ctx # NULL
  /\ pc \in Labels => /\ call.preset = NULL /\ ~call.oom
                      /\ LabelCase(pc) = CaseOf(call.method)

\* A compressor that is kept for a level works with that level.
CacheRight ==
  ctx # NULL =>
    \A l \in Levels : ctx.libdeflate_compressor[l] \in {NULL, Preset.DEFLATE[l]}

\* What is allocated at every point of a call.
Owned ==
  IF ctx = NULL THEN {}
  ELSE {"compressor"} \cup {l \in Levels : Cached(l)} \cup {z \in {"zstd"} : ctx.zstd_cctx}
Allocated ==
  live = Owned \cup (IF pc \in {"xz_loop", "bz2_loop"} THEN {"stream"} ELSE {})

\* How far the loops have come: not to the end of the frame, nor past the room.
Position ==
  /\ pc \in {"XZ", "BZIP2"} => out = 0
  /\ pc = "xz_loop" => out < FrameLen(call.size)
  /\ pc = "bz2_loop" => out < FrameLen(call.size) /\ out <= BzRoom

IInv ==
  TypeOK /\ InCall /\ CacheRight /\ Allocated /\ Position /\ ResultsAsDocumented /\ LevelAsAsked

--------------------------------------------------------------------------------
(* Presets and cases. *)

Presets == 0 .. 22

\* The presets of a level are levels of the libraries.
LEMMA PresetType ==
  ASSUME NEW l \in Levels
  PROVE  /\ Preset.DEFLATE[l] \in Presets /\ Preset.LZ4F[l] \in Presets
         /\ Preset.XZ[l] \in Presets /\ Preset.ZSTD[l] \in Presets
         /\ Preset.BZIP2[l] \in Presets
BY DEF Levels, Preset, Presets

\* No preset is taken for none.
LEMMA NullFacts == NULL \notin Presets /\ NULL \notin DstSizes
BY CompressionAssumption DEF Presets, DstSizes, FrameLen

\* The methods of a case.
LEMMA CaseFacts ==
  ASSUME NEW m \in Methods
  PROVE  /\ CaseOf(m) \in Labels
         /\ CaseOf(m) = "DEFLATE" => m \in Deflates
         /\ \A l \in {"UNCOMPRESSED", "LZ4F", "XZ", "ZSTD", "BZIP2"} : CaseOf(m) = l => m = l
         /\ LabelCase(CaseOf(m)) = CaseOf(m)
BY DEF CaseOf, Methods, Deflates, Labels, LabelCase, clod_compression_support

\* What is known of a call in progress.
LEMMA Progressing ==
  ASSUME IInv, pc \in Labels
  PROVE  /\ call \in Calls /\ call # NULL /\ ctx \in Contexts /\ ctx # NULL
         /\ call.level \in Levels /\ call.method \in Methods
         /\ call.size \in Nat /\ call.size <= MaxSize
         /\ call.dst_max_size \in Nat /\ call.dst_max_size \in DstSizes
         /\ out \in Nat /\ out \in DstSizes
         /\ call.preset = NULL /\ ~call.oom
         /\ LabelCase(pc) = CaseOf(call.method)
<1>1. pc \notin {"idle", "crashed", "returned"}
  BY DEF Labels
<1>2. call \in Calls /\ call # NULL /\ ctx # NULL
  BY <1>1 DEF IInv, InCall, TypeOK
<1> QED BY <1>2, CompressionAssumption
  DEF IInv, InCall, TypeOK, Calls, DstSizes, SrcSizes, FrameLen

\* A call that is in case l has a method of that case.
LEMMA CaseOfCall ==
  ASSUME IInv, pc \in Labels
  PROVE  /\ pc = "UNCOMPRESSED" => call.method = "UNCOMPRESSED"
         /\ pc = "DEFLATE" => call.method \in Deflates
         /\ pc = "LZ4F" => call.method = "LZ4F"
         /\ pc \in {"XZ", "xz_loop"} => call.method = "XZ"
         /\ pc = "ZSTD" => call.method = "ZSTD"
         /\ pc \in {"BZIP2", "bz2_loop"} => call.method = "BZIP2"
         /\ (CaseOf(call.method) = "default") <=> (pc = "default")
<1>1. call.method \in Methods /\ LabelCase(pc) = CaseOf(call.method)
  BY Progressing
<1> QED BY <1>1, CaseFacts DEF LabelCase, Labels, Deflates

--------------------------------------------------------------------------------
(* Steps of a call, by how they end. *)

\* What ResultsAsDocumented says of a call c that has returned.
Right(c) ==
  ~c.oom /\ (c.method = "BZIP2" => c.size < UIntLimit /\ c.dst_max_size < UIntLimit) =>
    LET need == IF c.method = "UNCOMPRESSED" THEN c.size ELSE FrameLen(c.size)
        room == IF c.method = "LZ4F" THEN FrameBound(c.size) ELSE need
    IN IF CaseOf(c.method) = "default" THEN c.res = "UNSUPPORTED"
       ELSE IF room <= c.dst_max_size THEN c.res = "SUCCESS" /\ c.actual = need
       ELSE c.res = "SHORT_BUFFER"

\* What LevelAsAsked says of it.
AtLevel(c) == c.preset # NULL => c.preset = Preset[CaseOf(c.method)][c.level]

\* The call after `return'.
LEMMA ReturnFields ==
  ASSUME call \in Calls, NEW r \in Results, NEW a \in DstSizes \cup {NULL},
         NEW p \in Presets \cup {NULL}, Return(r, a, p)
  PROVE  /\ call' \in Calls /\ pc' = "returned"
         /\ call'.method = call.method /\ call'.level = call.level
         /\ call'.size = call.size /\ call'.dst_max_size = call.dst_max_size
         /\ call'.oom = call.oom /\ call'.res = r /\ call'.actual = a /\ call'.preset = p
BY DEF Return, Calls, Presets

\* What a step must leave behind for the invariant to hold once it has returned.
ReturnsWell ==
  /\ ctx' \in Contexts
  /\ \A l \in Levels : ctx'.libdeflate_compressor[l] \in {NULL, Preset.DEFLATE[l]}
  /\ live' = {"compressor"} \cup {l \in Levels : ctx'.libdeflate_compressor[l] # NULL}
                            \cup {z \in {"zstd"} : ctx'.zstd_cctx}
  /\ out' \in DstSizes

\* A step that returns preserves the invariant.
LEMMA ReturnedInv ==
  ASSUME ReturnsWell, call' \in Calls, pc' = "returned", Right(call'), AtLevel(call')
  PROVE  IInv'
<1>1. call' # NULL /\ ctx' # NULL
  BY NullCompressorAssumption DEF ReturnsWell
<1>2. TypeOK'
  BY DEF TypeOK, ReturnsWell, Contexts
<1>3. InCall'
  BY <1>1 DEF InCall, Labels
<1>4. CacheRight'
  BY <1>1 DEF CacheRight, ReturnsWell
<1>5. Allocated'
  BY <1>1 DEF Allocated, Owned, ReturnsWell, Cached
<1>6. Position'
  BY DEF Position
<1>7. ResultsAsDocumented'
  BY DEF ResultsAsDocumented, Right
<1>8. LevelAsAsked'
  BY DEF LevelAsAsked, AtLevel
<1> QED BY <1>2, <1>3, <1>4, <1>5, <1>6, <1>7, <1>8 DEF IInv

\* The same when a step leaves the contexts alone and ends the stream, if any.
LEMMA AloneFacts ==
  ASSUME IInv, pc \in Labels, UNCHANGED ctx, live' = live \ {"stream"}, out' \in DstSizes
  PROVE  ReturnsWell
<1>1. ctx \in Contexts /\ ctx # NULL
  BY Progressing
<1>2. \A l \in Levels : ctx.libdeflate_compressor[l] \in {NULL, Preset.DEFLATE[l]}
  BY <1>1 DEF IInv, CacheRight
<1>3. live' = {"compressor"} \cup {l \in Levels : ctx.libdeflate_compressor[l] # NULL}
                             \cup {z \in {"zstd"} : ctx.zstd_cctx}
  BY <1>1 DEF IInv, Allocated, Owned, Cached, Levels
<1> QED BY <1>1, <1>2, <1>3 DEF ReturnsWell

\* `return' of a result that the sizes call for.
LEMMA ReturnInv ==
  ASSUME IInv, pc \in Labels, ReturnsWell, NEW r \in Results, NEW a \in DstSizes \cup {NULL},
         NEW p \in Presets \cup {NULL}, Return(r, a, p),
         p \in {NULL, Preset[CaseOf(call.method)][call.level]},
         CaseOf(call.method) = "default" => r = "UNSUPPORTED",
         CaseOf(call.method) # "default"
           /\ (call.method = "BZIP2" => call.size < UIntLimit /\ call.dst_max_size < UIntLimit) =>
             LET need == IF call.method = "UNCOMPRESSED" THEN call.size ELSE FrameLen(call.size)
                 room == IF call.method = "LZ4F" THEN FrameBound(call.size) ELSE need
             IN IF room <= call.dst_max_size THEN r = "SUCCESS" /\ a = need ELSE r = "SHORT_BUFFER"
  PROVE  IInv'
<1>1. call \in Calls
  BY Progressing
<1>2. /\ call' \in Calls /\ pc' = "returned"
      /\ call'.method = call.method /\ call'.level = call.level
      /\ call'.size = call.size /\ call'.dst_max_size = call.dst_max_size
      /\ call'.res = r /\ call'.actual = a /\ call'.preset = p
  BY <1>1, ReturnFields
<1>3. Right(call')
  BY <1>2 DEF Right
<1>4. AtLevel(call')
  BY <1>2 DEF AtLevel
<1> QED BY <1>2, <1>3, <1>4, ReturnedInv

\* A failed allocation.
LEMMA OutOfMemoryInv ==
  ASSUME IInv, pc \in Labels, ReturnsWell, NEW r \in Results, OutOfMemory(r)
  PROVE  IInv'
<1>1. call \in Calls /\ call.preset = NULL
  BY Progressing
<1>2. call' \in Calls /\ pc' = "returned" /\ call'.oom /\ call'.preset = NULL
  BY <1>1 DEF OutOfMemory, Calls
<1>3. Right(call') /\ AtLevel(call')
  BY <1>2 DEF Right, AtLevel
<1> QED BY <1>2, <1>3, ReturnedInv

\* A library that writes a frame in one call.
LEMMA OneCallInv ==
  ASSUME IInv, pc \in {"DEFLATE", "LZ4F", "ZSTD"}, ReturnsWell,
         NEW p \in Presets, OneCall(IF pc = "LZ4F" THEN FrameBound(call.size) ELSE FrameLen(call.size), p),
         p = Preset[pc][call.level]
  PROVE  IInv'
<1>1. pc \in Labels
  BY DEF Labels
<1>2. /\ call.method # "UNCOMPRESSED" /\ call.method # "BZIP2"
      /\ call.method = "LZ4F" <=> pc = "LZ4F"
      /\ CaseOf(call.method) # "default" /\ CaseOf(call.method) = pc
  BY <1>1, CaseOfCall, Progressing DEF Deflates, LabelCase
<1>3. /\ call.size \in Nat /\ call.size <= MaxSize /\ call.dst_max_size \in Nat
      /\ FrameLen(call.size) \in DstSizes
  BY <1>1, Progressing, CompressionAssumption DEF DstSizes, FrameLen
<1>4. "SUCCESS" \in Results /\ "SHORT_BUFFER" \in Results
  BY DEF Results
<1> DEFINE need == IF pc = "LZ4F" THEN FrameBound(call.size) ELSE FrameLen(call.size)
<1>5. CASE need <= call.dst_max_size
  <2>1. Return("SUCCESS", FrameLen(call.size), p)
    BY <1>5 DEF OneCall
  <2> QED BY <1>1, <1>2, <1>3, <1>4, <1>5, <2>1, ReturnInv
<1>6. CASE ~(need <= call.dst_max_size)
  <2>1. Return("SHORT_BUFFER", NULL, p)
    BY <1>6 DEF OneCall
  <2> QED BY <1>1, <1>2, <1>3, <1>4, <1>6, <2>1, ReturnInv
<1> QED BY <1>5, <1>6

--------------------------------------------------------------------------------
(* The actions. *)

\* CLOD_UNCOMPRESSED
LEMMA UncompressedInv ==
  ASSUME IInv, Uncompressed
  PROVE  IInv'
<1>1. pc \in Labels /\ pc = "UNCOMPRESSED"
  BY DEF Uncompressed, Labels
<1>2. call.method = "UNCOMPRESSED" /\ CaseOf(call.method) # "default"
  BY <1>1, CaseOfCall
<1>3. /\ call.size \in Nat /\ call.size <= MaxSize /\ call.dst_max_size \in Nat
      /\ call.size \in DstSizes /\ out \in DstSizes
  BY <1>1, Progressing, CompressionAssumption DEF DstSizes, FrameLen
<1>4. ReturnsWell
  <2>1. live' = live \ {"stream"}
    BY <1>1, <1>3 DEF Uncompressed, IInv, Allocated, Owned, Levels
  <2> QED BY <1>1, <1>3, <2>1, AloneFacts DEF Uncompressed
<1>5. "SUCCESS" \in Results /\ "SHORT_BUFFER" \in Results
  BY DEF Results
<1>6. CASE call.dst_max_size < call.size
  <2>1. Return("SHORT_BUFFER", NULL, NULL)
    BY <1>6 DEF Uncompressed
  <2> QED BY <1>1, <1>2, <1>3, <1>4, <1>5, <1>6, <2>1, ReturnInv
<1>7. CASE ~(call.dst_max_size < call.size)
  <2>1. Return("SUCCESS", call.size, NULL)
    BY <1>7 DEF Uncompressed
  <2> QED BY <1>1, <1>2, <1>3, <1>4, <1>5, <1>7, <2>1, ReturnInv
<1> QED BY <1>6, <1>7

\* The default case.
LEMMA UnsupportedInv ==
  ASSUME IInv, Unsupported
  PROVE  IInv'
<1>1. pc \in Labels /\ pc = "default"
  BY DEF Unsupported, Labels
<1>2. CaseOf(call.method) = "default" /\ out \in DstSizes
  BY <1>1, CaseOfCall, Progressing
<1>3. ReturnsWell
  <2>1. live' = live \ {"stream"}
    BY <1>1 DEF Unsupported, IInv, Allocated, Owned, Levels
  <2> QED BY <1>1, <1>2, <2>1, AloneFacts DEF Unsupported
<1>4. "UNSUPPORTED" \in Results /\ Return("UNSUPPORTED", NULL, NULL)
  BY DEF Unsupported, Results
<1> QED BY <1>1, <1>2, <1>3, <1>4, ReturnInv

\* CLOD_GZIP, CLOD_ZLIB and CLOD_DEFLATE
LEMMA LibdeflateInv ==
  ASSUME IInv, Libdeflate
  PROVE  IInv'
<1>1. pc \in Labels /\ pc = "DEFLATE" /\ out' = out
  BY DEF Libdeflate, Labels
<1>2. /\ call.level \in Levels /\ ctx \in Contexts /\ ctx # NULL /\ out \in DstSizes
  BY <1>1, Progressing
<1>3. CASE OutOfMemory("ALLOC_FAILED") /\ UNCHANGED <<ctx, live>>
  <2>1. live' = live \ {"stream"}
    BY <1>1, <1>3 DEF IInv, Allocated, Owned, Levels
  <2>2. ReturnsWell
    BY <1>1, <1>2, <1>3, <2>1, AloneFacts
  <2> QED BY <1>1, <1>3, <2>2, OutOfMemoryInv DEF Results
<1> DEFINE preset == IF Cached(call.level) THEN ctx.libdeflate_compressor[call.level]
                                           ELSE Preset.DEFLATE[call.level]
<1>4. CASE /\ ctx' = [ctx EXCEPT !.libdeflate_compressor[call.level] = preset]
           /\ live' = live \cup {call.level}
           /\ OneCall(FrameLen(call.size), preset)
  <2>1. preset = Preset.DEFLATE[call.level] /\ preset \in Presets
    BY <1>2, PresetType DEF IInv, CacheRight, Cached
  <2> HIDE DEF preset
  <2>2. preset # NULL
    BY <2>1, NullFacts
  <2>3. /\ ctx' \in Contexts /\ ctx'.zstd_cctx = ctx.zstd_cctx
        /\ \A l \in Levels : ctx'.libdeflate_compressor[l] =
             IF l = call.level THEN preset ELSE ctx.libdeflate_compressor[l]
    BY <1>2, <1>4, <2>1 DEF Contexts, Presets
  <2>4. live = {"compressor"} \cup {l \in Levels : ctx.libdeflate_compressor[l] # NULL}
                              \cup {z \in {"zstd"} : ctx.zstd_cctx}
    BY <1>1, <1>2 DEF IInv, Allocated, Owned, Cached
  <2>5. live' = {"compressor"} \cup {l \in Levels : ctx'.libdeflate_compressor[l] # NULL}
                               \cup {z \in {"zstd"} : ctx'.zstd_cctx}
    BY <1>2, <1>4, <2>2, <2>3, <2>4
  <2>6. \A l \in Levels : ctx'.libdeflate_compressor[l] \in {NULL, Preset.DEFLATE[l]}
    BY <1>2, <2>1, <2>3 DEF IInv, CacheRight
  <2>7. ReturnsWell
    BY <1>1, <1>2, <2>3, <2>5, <2>6 DEF ReturnsWell
  <2>8. Preset[pc] = Preset.DEFLATE
    BY <1>1
  <2> QED BY <1>1, <1>4, <2>1, <2>7, <2>8, OneCallInv
<1> QED BY <1>3, <1>4 DEF Libdeflate

\* CLOD_LZ4F
LEMMA Lz4Inv ==
  ASSUME IInv, Lz4
  PROVE  IInv'
<1>1. pc \in Labels /\ pc = "LZ4F" /\ UNCHANGED <<ctx, live, out>>
  BY DEF Lz4, Labels
<1>2. call.level \in Levels /\ out \in DstSizes
  BY <1>1, Progressing
<1>3. ReturnsWell
  <2>1. live' = live \ {"stream"}
    BY <1>1 DEF IInv, Allocated, Owned, Levels
  <2> QED BY <1>1, <1>2, <2>1, AloneFacts
<1>4. CASE OneCall(FrameBound(call.size), Preset.LZ4F[call.level])
  <2>1. Preset[pc] = Preset.LZ4F /\ Preset.LZ4F[call.level] \in Presets
    BY <1>1, <1>2, PresetType
  <2> QED BY <1>1, <1>3, <1>4, <2>1, OneCallInv
<1>5. CASE OutOfMemory("SHORT_BUFFER")
  BY <1>1, <1>3, <1>5, OutOfMemoryInv DEF Results
<1> QED BY <1>4, <1>5 DEF Lz4

\* CLOD_ZSTD
LEMMA ZstdInv ==
  ASSUME IInv, Zstd
  PROVE  IInv'
<1>1. pc \in Labels /\ pc = "ZSTD" /\ out' = out
  BY DEF Zstd, Labels
<1>2. call.level \in Levels /\ ctx \in Contexts /\ ctx # NULL /\ out \in DstSizes
  BY <1>1, Progressing
<1>3. CASE OutOfMemory("ALLOC_FAILED") /\ UNCHANGED <<ctx, live>>
  <2>1. live' = live \ {"stream"}
    BY <1>1, <1>3 DEF IInv, Allocated, Owned, Levels
  <2>2. ReturnsWell
    BY <1>1, <1>2, <1>3, <2>1, AloneFacts
  <2> QED BY <1>1, <1>3, <2>2, OutOfMemoryInv DEF Results
<1>4. CASE /\ ctx' = [ctx EXCEPT !.zstd_cctx = TRUE]
           /\ live' = live \cup {"zstd"}
           /\ \/ OneCall(FrameLen(call.size), Preset.ZSTD[call.level])
              \/ OutOfMemory("ALLOC_FAILED")
  <2>1. /\ ctx' \in Contexts /\ ctx'.zstd_cctx = TRUE
        /\ ctx'.libdeflate_compressor = ctx.libdeflate_compressor
    BY <1>2, <1>4 DEF Contexts
  <2>2. live = {"compressor"} \cup {l \in Levels : ctx.libdeflate_compressor[l] # NULL}
                              \cup {z \in {"zstd"} : ctx.zstd_cctx}
    BY <1>1, <1>2 DEF IInv, Allocated, Owned, Cached
  <2>3. live' = {"compressor"} \cup {l \in Levels : ctx'.libdeflate_compressor[l] # NULL}
                               \cup {z \in {"zstd"} : ctx'.zstd_cctx}
    BY <1>4, <2>1, <2>2
  <2>4. ReturnsWell
    BY <1>1, <1>2, <2>1, <2>3 DEF ReturnsWell, IInv, CacheRight
  <2>5. Preset[pc] = Preset.ZSTD /\ Preset.ZSTD[call.level] \in Presets
    BY <1>1, <1>2, PresetType
  <2> QED BY <1>1, <1>4, <2>4, <2>5, OneCallInv, OutOfMemoryInv DEF Results
<1> QED BY <1>3, <1>4 DEF Zstd

\* A loop is entered, or goes on: nothing but the stream and the output changes.
LEMMA LoopInv ==
  ASSUME IInv, pc \in Labels, pc' \in {"xz_loop", "bz2_loop"}, UNCHANGED <<ctx, call>>,
         LabelCase(pc') = LabelCase(pc), live' = live \cup {"stream"},
         out' \in DstSizes, out' < FrameLen(call.size), pc' = "bz2_loop" => out' <= BzRoom
  PROVE  IInv'
<1>1. pc' \in Labels /\ pc' \notin {"idle", "crashed", "returned", "XZ", "BZIP2"}
  BY DEF Labels
<1>2. call \in Calls /\ call # NULL /\ ctx # NULL /\ call.preset = NULL /\ ~call.oom
      /\ LabelCase(pc) = CaseOf(call.method)
  BY Progressing
<1>3. TypeOK'
  BY <1>1 DEF IInv, TypeOK
<1>4. InCall'
  BY <1>1, <1>2 DEF IInv, InCall
<1>5. CacheRight'
  BY DEF IInv, CacheRight
<1>6. Allocated'
  BY DEF IInv, Allocated, Owned, Cached
<1>7. Position'
  BY <1>1 DEF Position, BzRoom
<1>8. ResultsAsDocumented' /\ LevelAsAsked'
  BY <1>1 DEF ResultsAsDocumented, LevelAsAsked
<1> QED BY <1>3, <1>4, <1>5, <1>6, <1>7, <1>8 DEF IInv

\* Opening a stream.
LEMMA OpenStreamInv ==
  ASSUME IInv, pc \in {"XZ", "BZIP2"}, NEW label \in {"xz_loop", "bz2_loop"},
         LabelCase(label) = pc, OpenStream(label)
  PROVE  IInv'
<1>1. pc \in Labels /\ LabelCase(pc) = pc /\ out = 0 /\ out' = out /\ ctx' = ctx
  BY DEF Labels, LabelCase, IInv, Position, OpenStream
<1>2. out \in DstSizes /\ call.size \in Nat /\ call.dst_max_size \in Nat
  BY <1>1, Progressing
<1>3. CASE OutOfMemory("ALLOC_FAILED") /\ UNCHANGED live
  <2>1. live' = live \ {"stream"}
    BY <1>3 DEF IInv, Allocated, Owned, Levels
  <2>2. ReturnsWell
    BY <1>1, <1>2, <2>1, AloneFacts
  <2> QED BY <1>1, <1>3, <2>2, OutOfMemoryInv DEF Results
<1>4. CASE live' = live \cup {"stream"} /\ pc' = label /\ UNCHANGED call
  <2>1. 0 < FrameLen(call.size)
    BY <1>2 DEF FrameLen
  <2>2. 0 <= BzRoom
    BY <1>2, CompressionAssumption, ModRange DEF BzRoom, Unsigned
  <2> QED BY <1>1, <1>2, <1>4, <2>1, <2>2, LoopInv
<1> QED BY <1>3, <1>4 DEF OpenStream

\* The end of a stream that is closed.
LEMMA CloseFacts ==
  ASSUME IInv, pc \in {"xz_loop", "bz2_loop"}, UNCHANGED ctx, live' = live \ {"stream"},
         out' \in DstSizes
  PROVE  ReturnsWell
BY AloneFacts DEF Labels

\* How far an encoder goes in a turn.
LEMMA EncoderFacts ==
  ASSUME IInv, pc \in {"xz_loop", "bz2_loop"}, NEW room \in Nat
  PROVE  /\ \A o \in EncoderTurns(room) :
              o \in DstSizes /\ o > out /\ o <= FrameLen(call.size) /\ o <= room
         /\ EncoderTurns(room) = {} => room <= out /\ room < FrameLen(call.size)
         /\ FrameLen(call.size) \in DstSizes /\ 0 \in DstSizes
<1>1. pc \in Labels
  BY DEF Labels
<1>2. /\ call.size \in Nat /\ call.size <= MaxSize /\ out \in Nat
      /\ out < call.size + 2
  BY <1>1, Progressing DEF IInv, Position, FrameLen
<1>3. MaxSize \in Nat
  BY CompressionAssumption
<1>4. FrameLen(call.size) = call.size + 2
  BY DEF FrameLen
<1> DEFINE last == Least(FrameLen(call.size), room)
<1>5. last \in Nat /\ last <= FrameLen(call.size) /\ last <= room
      /\ last \in {FrameLen(call.size), room}
  BY <1>2, <1>4 DEF Least
<1>6. EncoderTurns(room) = out + 1 .. last
  BY DEF EncoderTurns
<1> HIDE DEF last
<1>7. ASSUME out + 1 .. last = {}
      PROVE  last <= out
  <2>1. SUFFICES ASSUME last > out PROVE FALSE
    BY <1>2, <1>5
  <2> QED BY <1>2, <1>5, <1>7, <2>1
<1>8. DstSizes = 0 .. MaxSize + 3
  BY <1>3 DEF DstSizes, FrameLen
<1> QED BY <1>2, <1>3, <1>4, <1>5, <1>6, <1>7, <1>8

\* CLOD_XZ: opening the stream.
LEMMA XzOpenInv ==
  ASSUME IInv, XzOpen
  PROVE  IInv'
BY OpenStreamInv DEF XzOpen, LabelCase

\* CLOD_XZ: a turn.
LEMMA XzTurnInv ==
  ASSUME IInv, XzTurn
  PROVE  IInv'
<1>1. pc \in Labels /\ pc = "xz_loop" /\ ctx' = ctx
  BY DEF XzTurn, Labels
<1>2. /\ call.method = "XZ" /\ CaseOf(call.method) = "XZ"
      /\ call.size \in Nat /\ call.dst_max_size \in Nat /\ call.level \in Levels
      /\ out \in DstSizes /\ FrameLen(call.size) \in Nat
  BY <1>1, CaseOfCall, Progressing DEF LabelCase, FrameLen
<1>3. /\ Preset.XZ[call.level] \in Presets
      /\ Preset.XZ[call.level] = Preset[CaseOf(call.method)][call.level]
  BY <1>2, PresetType
<1>4. /\ \A o \in EncoderTurns(call.dst_max_size) :
           /\ o \in DstSizes /\ o > out /\ o <= FrameLen(call.size)
           /\ o <= call.dst_max_size
      /\ EncoderTurns(call.dst_max_size) = {} => call.dst_max_size < FrameLen(call.size)
      /\ FrameLen(call.size) \in DstSizes /\ 0 \in DstSizes
  BY <1>1, <1>2, EncoderFacts
<1>5. ASSUME NEW o \in EncoderTurns(call.dst_max_size), out' = o,
             IF o = FrameLen(call.size)
             THEN live' = live \ {"stream"} /\ Return("SUCCESS", o, Preset.XZ[call.level])
             ELSE UNCHANGED <<live, pc, call>>
      PROVE  IInv'
  <2>1. o \in DstSizes /\ o <= FrameLen(call.size) /\ o <= call.dst_max_size /\ o \in Nat
    BY <1>4, CompressionAssumption DEF DstSizes, FrameLen
  <2>2. CASE o = FrameLen(call.size)
    <3>1. ReturnsWell
      BY <1>1, <1>5, <2>1, <2>2, CloseFacts
    <3>2. "SUCCESS" \in Results
      BY DEF Results
    <3> QED BY <1>1, <1>2, <1>3, <1>5, <2>1, <2>2, <3>1, <3>2, ReturnInv
  <2>3. CASE o # FrameLen(call.size)
    <3>1. live' = live \cup {"stream"}
      BY <1>1, <1>5, <2>3 DEF IInv, Allocated
    <3>2. o < FrameLen(call.size)
      BY <1>2, <2>1, <2>3
    <3> QED BY <1>1, <1>5, <2>1, <2>3, <3>1, <3>2, LoopInv
  <2> QED BY <2>2, <2>3
<1>6. ASSUME EncoderTurns(call.dst_max_size) = {}, live' = live \ {"stream"},
             Return("SHORT_BUFFER", 0, Preset.XZ[call.level]), UNCHANGED out
      PROVE  IInv'
  <2>1. ReturnsWell
    BY <1>1, <1>2, <1>6, CloseFacts
  <2>2. "SHORT_BUFFER" \in Results /\ ~(FrameLen(call.size) <= call.dst_max_size)
    BY <1>2, <1>4, <1>6 DEF Results
  <2> QED BY <1>1, <1>2, <1>3, <1>4, <1>6, <2>1, <2>2, ReturnInv
<1>7. ASSUME live' = live \ {"stream"}, OutOfMemory("ALLOC_FAILED"), UNCHANGED out
      PROVE  IInv'
  <2>1. ReturnsWell
    BY <1>1, <1>2, <1>7, CloseFacts
  <2> QED BY <1>1, <1>7, <2>1, OutOfMemoryInv DEF Results
<1> QED BY <1>5, <1>6, <1>7 DEF XzTurn

\* CLOD_BZIP2: opening the stream, for a source that is not too large.
LEMMA BzOpenInv ==
  ASSUME IInv, BzOpen
  PROVE  IInv'
<1>1. pc \in Labels /\ pc = "BZIP2" /\ LabelCase("bz2_loop") = pc
  BY DEF BzOpen, Labels, LabelCase
<1>2. CASE call.size >= UIntLimit
  <2>1. Return("UNSUPPORTED", NULL, NULL) /\ UNCHANGED <<ctx, live, out>>
    BY <1>2 DEF BzOpen
  <2>2. /\ call.method = "BZIP2" /\ CaseOf(call.method) # "default"
        /\ call.size \in Nat /\ out \in DstSizes
    BY <1>1, CaseOfCall, Progressing
  <2>3. ~(call.size < UIntLimit) /\ "UNSUPPORTED" \in Results
    BY <1>2, <2>2, CompressionAssumption DEF Results
  <2>4. live' = live \ {"stream"}
    BY <1>1, <2>1 DEF IInv, Allocated, Owned, Levels
  <2>5. ReturnsWell
    BY <1>1, <2>1, <2>2, <2>4, AloneFacts
  <2> QED BY <1>1, <2>1, <2>2, <2>3, <2>5, ReturnInv
<1>3. CASE ~(call.size >= UIntLimit)
  BY <1>1, <1>3, OpenStreamInv DEF BzOpen
<1> QED BY <1>2, <1>3

\* CLOD_BZIP2: a turn.
LEMMA BzTurnInv ==
  ASSUME IInv, BzTurn
  PROVE  IInv'
<1>1. pc \in Labels /\ pc = "bz2_loop" /\ ctx' = ctx
  BY DEF BzTurn, Labels
<1>2. /\ call.method = "BZIP2" /\ CaseOf(call.method) = "BZIP2"
      /\ call.size \in Nat /\ call.dst_max_size \in Nat /\ call.level \in Levels
      /\ out \in DstSizes /\ FrameLen(call.size) \in Nat
      /\ out < FrameLen(call.size)
  BY <1>1, CaseOfCall, Progressing DEF LabelCase, FrameLen, IInv, Position
<1>3. /\ Preset.BZIP2[call.level] \in Presets
      /\ Preset.BZIP2[call.level] = Preset[CaseOf(call.method)][call.level]
  BY <1>2, PresetType
<1>4. BzRoom \in Nat /\ (call.dst_max_size < UIntLimit => BzRoom = call.dst_max_size)
  BY <1>2, CompressionAssumption, ModRange DEF BzRoom, Unsigned
<1>5. /\ \A o \in EncoderTurns(BzRoom) :
           o \in DstSizes /\ o > out /\ o <= FrameLen(call.size) /\ o <= BzRoom
      /\ FrameLen(call.size) \in DstSizes /\ 0 \in DstSizes
  BY <1>1, <1>4, EncoderFacts
<1>6. CASE out = BzRoom
  <2>1. live' = live \ {"stream"} /\ Return("SHORT_BUFFER", 0, Preset.BZIP2[call.level]) /\ UNCHANGED out
    BY <1>6 DEF BzTurn
  <2>2. ReturnsWell
    BY <1>1, <1>2, <2>1, CloseFacts
  <2>3. "SHORT_BUFFER" \in Results
        /\ (call.dst_max_size < UIntLimit => ~(FrameLen(call.size) <= call.dst_max_size))
    BY <1>2, <1>4, <1>6 DEF Results
  <2> QED BY <1>1, <1>2, <1>3, <1>5, <2>1, <2>2, <2>3, ReturnInv
<1>7. CASE out # BzRoom
  <2>1. PICK o \in EncoderTurns(BzRoom) :
          /\ out' = o
          /\ IF o = FrameLen(call.size)
             THEN live' = live \ {"stream"} /\ Return("SUCCESS", o, Preset.BZIP2[call.level])
             ELSE UNCHANGED <<live, pc, call>>
    BY <1>7 DEF BzTurn
  <2>2. o \in DstSizes /\ o <= FrameLen(call.size) /\ o <= BzRoom /\ o \in Nat
    BY <1>5, CompressionAssumption DEF DstSizes, FrameLen
  <2>3. CASE o = FrameLen(call.size)
    <3>1. ReturnsWell
      BY <1>1, <2>1, <2>2, <2>3, CloseFacts
    <3>2. "SUCCESS" \in Results
          /\ (call.dst_max_size < UIntLimit => FrameLen(call.size) <= call.dst_max_size)
      BY <1>4, <2>2, <2>3 DEF Results
    <3> QED BY <1>1, <1>2, <1>3, <2>1, <2>2, <2>3, <3>1, <3>2, ReturnInv
  <2>4. CASE o # FrameLen(call.size)
    <3>1. live' = live \cup {"stream"}
      BY <1>1, <2>1, <2>4 DEF IInv, Allocated
    <3>2. o < FrameLen(call.size)
      BY <1>2, <2>2, <2>4
    <3> QED BY <1>1, <2>1, <2>2, <2>4, <3>1, <3>2, LoopInv
  <2> QED BY <2>3, <2>4
<1> QED BY <1>6, <1>7

--------------------------------------------------------------------------------
(* The life of a compressor, and the theorems. *)

\* The initial state.
LEMMA InitInv == Init => IInv
BY CompressionAssumption DEF Init, IInv, TypeOK, InCall, Labels, CacheRight, Allocated, Owned, Position,
  ResultsAsDocumented, LevelAsAsked, DstSizes, FrameLen

\* clod_compressor_init, with or without memory.
LEMMA CreateInv ==
  ASSUME IInv, clod_compressor_init \/ clod_compressor_init_fails
  PROVE  IInv'
<1>1. pc = "idle" /\ ctx = NULL /\ call = NULL /\ live = {}
  BY DEF IInv, InCall, Allocated, Owned, clod_compressor_init, clod_compressor_init_fails
<1>2. CASE clod_compressor_init
  <2>1. /\ ctx' \in Contexts /\ ctx'.zstd_cctx = FALSE
        /\ \A l \in Levels : ctx'.libdeflate_compressor[l] = NULL
    BY <1>2 DEF clod_compressor_init, Contexts
  <2>2. pc' = "idle" /\ call' = NULL /\ out' = out /\ live' = {"compressor"} /\ ctx' # NULL
    BY <1>1, <1>2, <2>1, NullCompressorAssumption DEF clod_compressor_init
  <2>3. TypeOK' /\ InCall'
    BY <1>1, <2>1, <2>2 DEF IInv, TypeOK, InCall, Labels
  <2>4. CacheRight' /\ Allocated'
    BY <2>1, <2>2 DEF CacheRight, Allocated, Owned, Cached
  <2>5. Position' /\ ResultsAsDocumented' /\ LevelAsAsked'
    BY <2>2 DEF Position, ResultsAsDocumented, LevelAsAsked
  <2> QED BY <2>3, <2>4, <2>5 DEF IInv
<1>3. CASE clod_compressor_init_fails
  BY <1>1, <1>3 DEF clod_compressor_init_fails, IInv, TypeOK, InCall, Labels, CacheRight, Allocated, Owned,
    Position, ResultsAsDocumented, LevelAsAsked
<1> QED BY <1>2, <1>3

\* clod_compressor_free leaves nothing allocated.
LEMMA FreeInv ==
  ASSUME IInv, clod_compressor_free
  PROVE  IInv'
<1>1. pc = "idle" /\ ctx # NULL /\ call = NULL
  BY DEF IInv, InCall, clod_compressor_free
<1>2. live' = {} /\ ctx' = NULL /\ pc' = "idle" /\ call' = NULL /\ out' = out
  BY <1>1 DEF IInv, Allocated, Owned, clod_compressor_free
<1> QED BY <1>2 DEF IInv, TypeOK, InCall, Labels, CacheRight, Allocated, Owned, Position,
  ResultsAsDocumented, LevelAsAsked

\* A call begins.
LEMMA CallInv ==
  ASSUME IInv, NEW m \in Methods, NEW l \in Levels, NEW n \in SrcSizes, NEW d \in DstSizes,
         Call(m, l, n, d)
  PROVE  IInv'
<1>1. /\ pc = "idle" /\ ctx # NULL /\ ctx' = ctx /\ live' = live /\ out' = 0
      /\ pc' = CaseOf(m) /\ pc' \in Labels /\ LabelCase(pc') = CaseOf(m)
  BY CaseFacts DEF Call
<1>2. call' \in Calls /\ call'.method = m /\ call'.preset = NULL /\ ~call'.oom
  BY DEF Call, Calls
<1>3. call' # NULL
  BY <1>2, NullCompressorAssumption
<1>4. pc' \notin {"idle", "crashed", "returned", "xz_loop", "bz2_loop"}
  BY <1>1 DEF CaseOf, Methods, Deflates
<1>5. TypeOK'
  BY <1>1, <1>2, CompressionAssumption DEF IInv, TypeOK, DstSizes, FrameLen
<1>6. InCall'
  BY <1>1, <1>2, <1>3, <1>4 DEF InCall
<1>7. CacheRight' /\ Allocated'
  BY <1>1, <1>4 DEF IInv, CacheRight, Allocated, Owned, Cached
<1>8. Position' /\ ResultsAsDocumented' /\ LevelAsAsked'
  BY <1>1, <1>4 DEF Position, ResultsAsDocumented, LevelAsAsked
<1> QED BY <1>5, <1>6, <1>7, <1>8 DEF IInv

\* The caller has seen the result.
LEMMA ReturnedStepInv ==
  ASSUME IInv, Returned
  PROVE  IInv'
<1>1. pc = "returned" /\ pc' = "idle" /\ call' = NULL /\ ctx' = ctx /\ live' = live /\ out' = 0
  BY DEF Returned
<1>2. TypeOK' /\ InCall'
  BY <1>1, CompressionAssumption DEF IInv, TypeOK, InCall, Labels, DstSizes, FrameLen
<1>3. CacheRight' /\ Allocated'
  BY <1>1 DEF IInv, CacheRight, Allocated, Owned, Cached
<1>4. Position' /\ ResultsAsDocumented' /\ LevelAsAsked'
  BY <1>1 DEF Position, ResultsAsDocumented, LevelAsAsked
<1> QED BY <1>2, <1>3, <1>4 DEF IInv

\* The invariant of the compressor: holds after any calls of the API.
THEOREM Invariance == Spec => []IInv
<1>1. ASSUME IInv, [Next]_vars
      PROVE  IInv'
  <2>1. CASE UNCHANGED vars
    BY <1>1, <2>1 DEF vars, IInv, TypeOK, InCall, CacheRight, Allocated, Owned, Cached, Position,
      ResultsAsDocumented, LevelAsAsked, BzRoom
  <2>2. CASE clod_compressor_init \/ clod_compressor_init_fails
    BY <1>1, <2>2, CreateInv
  <2>3. CASE clod_compressor_free
    BY <1>1, <2>3, FreeInv
  <2>4. CASE \E m \in Methods, l \in Levels, n \in SrcSizes, d \in DstSizes : Call(m, l, n, d)
    BY <1>1, <2>4, CallInv
  <2>5. CASE Returned
    BY <1>1, <2>5, ReturnedStepInv
  <2>6. CASE Step
    BY <1>1, <2>6, UncompressedInv, UnsupportedInv, LibdeflateInv, Lz4Inv, ZstdInv,
      XzOpenInv, XzTurnInv, BzOpenInv, BzTurnInv DEF Step
  <2> QED BY <1>1, <2>1, <2>2, <2>3, <2>4, <2>5, <2>6 DEF Next
<1> QED BY <1>1, InitInv, PTL DEF Spec

\* The state of a compressor keeps its types (struct clod_compressor).
THEOREM TypeCorrect == Spec => []TypeOK
<1>1. IInv => TypeOK
  BY DEF IInv
<1> QED BY <1>1, Invariance, PTL

\* For documents and buffers of every size, clod_compress succeeds exactly if dst
\* has the room, and then says how much it wrote (compress.c).
THEOREM ResultsCorrect == Spec => []ResultsAsDocumented
<1>1. IInv => ResultsAsDocumented
  BY DEF IInv
<1> QED BY <1>1, Invariance, PTL

\* A compressor that an earlier call left in the cache is never used for another
\* level than its own (the libdeflate cases of clod_compress).
THEOREM LevelCorrect == Spec => []LevelAsAsked
<1>1. IInv => LevelAsAsked
  BY DEF IInv
<1> QED BY <1>1, Invariance, PTL

\* Streams end with the call, and freeing a compressor frees all it has cached
\* (clod_compress, clod_compressor_free).
THEOREM LeakFree == Spec => []NothingLeaks
<1>1. IInv => NothingLeaks
  BY DEF IInv, Allocated, Owned, NothingLeaks
<1> QED BY <1>1, Invariance, PTL
================================================================================
