------------------------------ MODULE Compressor -------------------------------
(***************************************************************************)
(* compress.c: a compressor and the contexts it keeps between calls of     *)
(* clod_compress.  A call is one step per call of a library that can fail  *)
(* or stop.                                                                *)
(***************************************************************************)
EXTENDS Compression

VARIABLES
  ctx,   \* struct clod_compressor; NULL if there is none
  live,  \* what has been allocated and not freed
  pc,    \* where the call is
  call,  \* its arguments and, once it has returned, its result
  out    \* how much has been written to dst

vars == <<ctx, live, pc, call, out>>

\* enum clod_compression_level
Levels == {"LOWEST", "LOW", "NORMAL", "HIGH", "HIGHEST"}

SrcSizes == 0 .. MaxSize
DstSizes == 0 .. FrameLen(MaxSize) + 1

\* What the levels are for each library.  LZ4HC's levels are external: MIN is 2,
\* DEFAULT 9, OPT_MIN 10 and MAX 12, and ZSTD_maxCLevel() is 22.  XZ's highest
\* is 9 with LZMA_PRESET_EXTREME.
Preset ==
  [DEFLATE |-> [LOWEST |-> 1, LOW |-> 3, NORMAL |-> 6, HIGH |-> 9, HIGHEST |-> 12],
   LZ4F    |-> [LOWEST |-> 0, LOW |-> 2, NORMAL |-> 9, HIGH |-> 10, HIGHEST |-> 12],
   XZ      |-> [LOWEST |-> 1, LOW |-> 3, NORMAL |-> 6, HIGH |-> 8, HIGHEST |-> 9],
   ZSTD    |-> [LOWEST |-> 1, LOW |-> 3, NORMAL |-> 5, HIGH |-> 14, HIGHEST |-> 22],
   BZIP2   |-> [LOWEST |-> 1, LOW |-> 3, NORMAL |-> 5, HIGH |-> 7, HIGHEST |-> 9]]

Calls == [method : Methods, level : Levels, size : SrcSizes, dst_max_size : DstSizes,
          res : Results \cup {NULL},
          actual : DstSizes \cup {NULL},  \* what *actual_size was set to
          preset : 0 .. 22 \cup {NULL},   \* history: the level the library worked with
          oom : BOOLEAN]                  \* history: an allocation failed

\* struct clod_compressor: the level of each libdeflate compressor there is.
Contexts == [libdeflate_compressor : [Levels -> 0 .. 22 \cup {NULL}], zstd_cctx : BOOLEAN]

ASSUME NullCompressorAssumption == NULL \notin Contexts \cup Calls

Labels == {"DEFLATE", "UNCOMPRESSED", "LZ4F", "XZ", "ZSTD", "BZIP2", "default", "xz_loop", "bz2_loop"}

TypeOK ==
  /\ ctx \in Contexts \cup {NULL}
  /\ live \subseteq {"compressor", "zstd", "stream"} \cup Levels
  /\ pc \in Labels \cup {"idle", "returned", "crashed"}
  /\ call \in Calls \cup {NULL}
  /\ out \in DstSizes

Init ==
  /\ ctx = NULL
  /\ live = {}
  /\ pc = "idle"
  /\ call = NULL
  /\ out = 0

--------------------------------------------------------------------------------
(* The life of a compressor. *)

clod_compressor_init ==
  /\ pc = "idle" /\ ctx = NULL
  /\ ctx' = [libdeflate_compressor |-> [l \in Levels |-> NULL], zstd_cctx |-> FALSE]
  /\ live' = {"compressor"}
  /\ UNCHANGED <<pc, call, out>>

\* malloc fails, and memset writes through a null pointer.
clod_compressor_init_fails ==
  /\ pc = "idle" /\ ctx = NULL
  /\ pc' = "crashed"
  /\ UNCHANGED <<ctx, live, call, out>>

\* The compressor of level l, and those of the levels there is one of.
Cached(l) == ctx.libdeflate_compressor[l] # NULL

clod_compressor_free ==
  /\ pc = "idle" /\ ctx # NULL
  /\ live' = live \ ({"compressor"} \cup {l \in Levels : Cached(l)}
                      \cup {z \in {"zstd"} : ctx.zstd_cctx})
  /\ ctx' = NULL
  /\ UNCHANGED <<pc, call, out>>

\* clod_compress is called.
Call(method, level, size, dst_max_size) ==
  /\ pc = "idle" /\ ctx # NULL
  /\ pc' = CaseOf(method)
  /\ call' = [method |-> method, level |-> level, size |-> size, dst_max_size |-> dst_max_size,
              res |-> NULL, actual |-> NULL, preset |-> NULL, oom |-> FALSE]
  /\ out' = 0
  /\ UNCHANGED <<ctx, live>>

\* The caller looks at the result and may then call again.
Returned ==
  /\ pc = "returned"
  /\ pc' = "idle"
  /\ call' = NULL
  /\ out' = 0
  /\ UNCHANGED <<ctx, live>>

Return(res, actual, preset) ==
  /\ pc' = "returned"
  /\ call' = [call EXCEPT !.res = res, !.actual = actual, !.preset = preset]

OutOfMemory(res) ==
  /\ pc' = "returned"
  /\ call' = [call EXCEPT !.res = res, !.oom = TRUE]

--------------------------------------------------------------------------------
(* The methods that take one call of a library. *)

Uncompressed ==
  /\ pc = "UNCOMPRESSED"
  /\ IF call.dst_max_size < call.size THEN Return("SHORT_BUFFER", NULL, NULL)
                                      ELSE Return("SUCCESS", call.size, NULL)
  /\ UNCHANGED <<ctx, live, out>>

Unsupported ==
  /\ pc = "default"
  /\ Return("UNSUPPORTED", NULL, NULL)
  /\ UNCHANGED <<ctx, live, out>>

\* A library that writes the frame if dst has room for `need' units.
OneCall(need, preset) ==
  IF need <= call.dst_max_size THEN Return("SUCCESS", FrameLen(call.size), preset)
                               ELSE Return("SHORT_BUFFER", NULL, preset)

\* Mutant of Libdeflate: any compressor there is will do.
LibdeflateAnyLevel ==
  /\ pc = "DEFLATE"
  /\ \E l \in Levels :
       /\ Cached(l) \/ (l = call.level /\ \A k \in Levels : ~Cached(k))
       /\ ctx' = [ctx EXCEPT !.libdeflate_compressor[l] = Preset.DEFLATE[l]]
       /\ live' = live \cup {l}
       /\ OneCall(FrameLen(call.size), Preset.DEFLATE[l])
  /\ UNCHANGED out

\* The compressor of this level, which is made when it is first needed.
Libdeflate ==
  /\ pc = "DEFLATE"
  /\ \/ ~Cached(call.level) /\ OutOfMemory("ALLOC_FAILED") /\ UNCHANGED <<ctx, live>>
     \/ LET preset == IF Cached(call.level) THEN ctx.libdeflate_compressor[call.level]
                                            ELSE Preset.DEFLATE[call.level]
        IN /\ ctx' = [ctx EXCEPT !.libdeflate_compressor[call.level] = preset]
           /\ live' = live \cup {call.level}
           /\ OneCall(FrameLen(call.size), preset)
  /\ UNCHANGED out

\* LZ4F_compressFrame wants room for the largest frame it could have to write.
FrameBound(n) == FrameLen(n) + 1

\* Every error of LZ4F_compressFrame is SHORT_BUFFER.
Lz4 ==
  /\ pc = "LZ4F"
  /\ \/ OneCall(FrameBound(call.size), Preset.LZ4F[call.level])
     \/ OutOfMemory("SHORT_BUFFER")
  /\ UNCHANGED <<ctx, live, out>>

Zstd ==
  /\ pc = "ZSTD"
  /\ \/ /\ ~ctx.zstd_cctx
        /\ OutOfMemory("ALLOC_FAILED")
        /\ UNCHANGED <<ctx, live>>
     \/ /\ ctx' = [ctx EXCEPT !.zstd_cctx = TRUE]
        /\ live' = live \cup {"zstd"}
        /\ \/ OneCall(FrameLen(call.size), Preset.ZSTD[call.level])
           \/ OutOfMemory("ALLOC_FAILED")
  /\ UNCHANGED out

--------------------------------------------------------------------------------
(* The methods with a stream that lives as long as the call. *)

OpenStream(label) ==
  /\ \/ OutOfMemory("ALLOC_FAILED") /\ UNCHANGED live
     \/ live' = live \cup {"stream"} /\ pc' = label /\ UNCHANGED call
  /\ UNCHANGED <<ctx, out>>

\* How far a library's streaming encoder may write in one call, into `room' units.
EncoderTurns(room) == out + 1 .. Least(FrameLen(call.size), room)

XzOpen == pc = "XZ" /\ OpenStream("xz_loop")

\* Mutant of XzTurn: success before the end of the stream, when dst is full.
XzTurnStopsEarly ==
  /\ pc = "xz_loop"
  /\ \/ \E o \in EncoderTurns(call.dst_max_size) :
          /\ out' = o
          /\ IF o \in {FrameLen(call.size), call.dst_max_size}
             THEN /\ live' = live \ {"stream"}
                  /\ Return("SUCCESS", o, Preset.XZ[call.level])
             ELSE UNCHANGED <<live, pc, call>>
     \/ /\ EncoderTurns(call.dst_max_size) = {}
        /\ live' = live \ {"stream"}
        /\ Return("SHORT_BUFFER", 0, Preset.XZ[call.level])
        /\ UNCHANGED out
  /\ UNCHANGED ctx

\* A turn of the loop around lzma_code; one without progress is LZMA_BUF_ERROR.
XzTurn ==
  /\ pc = "xz_loop"
  /\ \/ \E o \in EncoderTurns(call.dst_max_size) :
          /\ out' = o
          /\ IF o = FrameLen(call.size)
             THEN /\ live' = live \ {"stream"}
                  /\ Return("SUCCESS", o, Preset.XZ[call.level])
             ELSE UNCHANGED <<live, pc, call>>
     \/ /\ EncoderTurns(call.dst_max_size) = {}
        /\ live' = live \ {"stream"}
        /\ Return("SHORT_BUFFER", 0, Preset.XZ[call.level])
        /\ UNCHANGED out
     \/ /\ out = 0
        /\ live' = live \ {"stream"}
        /\ OutOfMemory("ALLOC_FAILED")
        /\ UNCHANGED out
  /\ UNCHANGED ctx

\* src_size must be an unsigned int; dst_max_size is made one.
BzOpen ==
  /\ pc = "BZIP2"
  /\ IF call.size >= UIntLimit
     THEN Return("UNSUPPORTED", NULL, NULL) /\ UNCHANGED <<ctx, live, out>>
     ELSE OpenStream("bz2_loop")

BzRoom == Unsigned(call.dst_max_size)

\* Mutant of BzTurn: the stream is not ended if dst is full.
BzTurnLeaks ==
  /\ pc = "bz2_loop"
  /\ IF out = BzRoom
     THEN Return("SHORT_BUFFER", 0, Preset.BZIP2[call.level]) /\ UNCHANGED <<live, out>>
     ELSE \E o \in EncoderTurns(BzRoom) :
            /\ out' = o
            /\ IF o = FrameLen(call.size)
               THEN /\ live' = live \ {"stream"}
                    /\ Return("SUCCESS", o, Preset.BZIP2[call.level])
               ELSE UNCHANGED <<live, pc, call>>
  /\ UNCHANGED ctx

\* A turn of the loop around BZ2_bzCompress.
BzTurn ==
  /\ pc = "bz2_loop"
  /\ IF out = BzRoom
     THEN /\ live' = live \ {"stream"}
          /\ Return("SHORT_BUFFER", 0, Preset.BZIP2[call.level])
          /\ UNCHANGED out
     ELSE \E o \in EncoderTurns(BzRoom) :
            /\ out' = o
            /\ IF o = FrameLen(call.size)
               THEN /\ live' = live \ {"stream"}
                    /\ Return("SUCCESS", o, Preset.BZIP2[call.level])
               ELSE UNCHANGED <<live, pc, call>>
  /\ UNCHANGED ctx

--------------------------------------------------------------------------------
Step ==
  \/ Uncompressed \/ Unsupported \/ Libdeflate \/ Lz4 \/ Zstd
  \/ XzOpen \/ XzTurn \/ BzOpen \/ BzTurn

Next ==
  \/ clod_compressor_init
  \/ clod_compressor_init_fails
  \/ clod_compressor_free
  \/ \E m \in Methods, l \in Levels, n \in SrcSizes, d \in DstSizes : Call(m, l, n, d)
  \/ Returned
  \/ Step

Spec == Init /\ [][Next]_vars

--------------------------------------------------------------------------------
\* With enough memory a call succeeds if dst has room for the frame (LZ4F: for
\* the largest one), writes exactly that, and returns SHORT_BUFFER otherwise.
\* For libbz2 the sizes have to be unsigned ints.
ResultsAsDocumented ==
  /\ pc = "returned" /\ ~call.oom
  /\ call.method = "BZIP2" => call.size < UIntLimit /\ call.dst_max_size < UIntLimit
  =>
    LET need == IF call.method = "UNCOMPRESSED" THEN call.size ELSE FrameLen(call.size)
        room == IF call.method = "LZ4F" THEN FrameBound(call.size) ELSE need
    IN IF CaseOf(call.method) = "default" THEN call.res = "UNSUPPORTED"
       ELSE IF room <= call.dst_max_size THEN call.res = "SUCCESS" /\ call.actual = need
       ELSE call.res = "SHORT_BUFFER"

\* Whatever compressors earlier calls have left, the library works with the level
\* the call asks for, also when three methods share them.
LevelAsAsked ==
  pc = "returned" /\ call.preset # NULL =>
    call.preset = Preset[CaseOf(call.method)][call.level]

\* Between calls what is allocated is the compressor and what it points to.
NothingLeaks ==
  pc \in {"idle", "returned"} =>
    live = IF ctx = NULL THEN {}
           ELSE {"compressor"} \cup {l \in Levels : Cached(l)} \cup {z \in {"zstd"} : ctx.zstd_cctx}
================================================================================
