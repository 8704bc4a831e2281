----------------------------- MODULE Decompressor ------------------------------
(***************************************************************************)
(* decompress.c: a decompressor and the contexts it keeps between calls of *)
(* clod_decompress.  A call is one step per call of a library that can     *)
(* fail or stop: opening a context, and each turn of the decoding loops.   *)
(***************************************************************************)
EXTENDS Compression

VARIABLES
  ctx,   \* struct clod_decompressor: the state of each context; NULL if there is none
  live,  \* what has been allocated and not freed
  pc,    \* where the call is
  call,  \* its arguments and, once it has returned, its result
  in     \* how much of src has been decoded

vars == <<ctx, live, pc, call, in>>

Contexts == {"libdeflate", "lz4", "zstd"}

\* A context is not there yet, ready for a frame, or within one.
ContextStates == {"none", "ready", "within"}

DstSizes == 0 .. MaxSize + 1

Calls == [method : Methods, src : Sources, dst_size : DstSizes,
          sized : BOOLEAN,                  \* actual_size is not null
          res : Results \cup {NULL},
          actual : 0 .. MaxSize + 3 \cup {NULL},  \* what *actual_size was set to
          stale : BOOLEAN,                  \* history: the context was within a frame
          oom : BOOLEAN]                    \* history: an allocation failed

ASSUME NullContextAssumption == NULL \notin [Contexts -> ContextStates] \cup Calls

Labels == {"DEFLATE", "UNCOMPRESSED", "LZ4F", "XZ", "ZSTD", "BZIP2", "default",
           "lz4_loop", "xz_loop", "zstd_loop", "bz2_loop"}

TypeOK ==
  /\ ctx \in [Contexts -> ContextStates] \cup {NULL}
  /\ live \subseteq Contexts \cup {"decompressor", "stream"}
  /\ pc \in Labels \cup {"idle", "returned", "crashed"}
  /\ call \in Calls \cup {NULL}
  /\ in \in 0 .. MaxSize + 2

Init ==
  /\ ctx = NULL
  /\ live = {}
  /\ pc = "idle"
  /\ call = NULL
  /\ in = 0

--------------------------------------------------------------------------------
(* The life of a decompressor. *)

clod_decompressor_init ==
  /\ pc = "idle" /\ ctx = NULL
  /\ ctx' = [c \in Contexts |-> "none"]
  /\ live' = {"decompressor"}
  /\ UNCHANGED <<pc, call, in>>

\* malloc fails, and memset writes through a null pointer.
clod_decompressor_init_fails ==
  /\ pc = "idle" /\ ctx = NULL
  /\ pc' = "crashed"
  /\ UNCHANGED <<ctx, live, call, in>>

Held(c) == ctx[c] # "none"

clod_decompressor_free ==
  /\ pc = "idle" /\ ctx # NULL
  /\ live' = live \ ({"decompressor"} \cup {c \in Contexts : Held(c)})
  /\ ctx' = NULL
  /\ UNCHANGED <<pc, call, in>>

\* clod_decompress is called.
Call(method, src, dst_size, sized) ==
  /\ pc = "idle" /\ ctx # NULL
  /\ pc' = CaseOf(method)
  /\ call' = [method |-> method, src |-> src, dst_size |-> dst_size, sized |-> sized,
              res |-> NULL, actual |-> NULL, oom |-> FALSE,
              stale |-> \/ method = "LZ4F" /\ ctx["lz4"] = "within"
                        \/ method = "ZSTD" /\ ctx["zstd"] = "within"]
  /\ in' = 0
  /\ UNCHANGED <<ctx, live>>

\* The caller looks at the result and may then call again.
Returned ==
  /\ pc = "returned"
  /\ pc' = "idle"
  /\ call' = NULL
  /\ in' = 0
  /\ UNCHANGED <<ctx, live>>

--------------------------------------------------------------------------------
(* Ways to return: a result, and what *actual_size is set to unless it is null. *)

src == call.src

Return(res, actual) ==
  /\ pc' = "returned"
  /\ call' = [call EXCEPT !.res = res, !.actual = IF call.sized THEN actual ELSE NULL]

OutOfMemory(res) ==
  /\ pc' = "returned"
  /\ call' = [call EXCEPT !.res = res, !.oom = TRUE]

\* The end of a frame of which n units have been written.
ReturnOutput(n) ==
  IF ~call.sized /\ n < call.dst_size THEN Return("SHORT_OUTPUT", NULL)
                                      ELSE Return("SUCCESS", n)

Uncompressed ==
  /\ pc = "UNCOMPRESSED"
  /\ IF call.dst_size < src.len THEN Return("SHORT_BUFFER", src.len)
                                ELSE ReturnOutput(src.len)
  /\ UNCHANGED <<ctx, live, in>>

Unsupported ==
  /\ pc = "default"
  /\ Return("UNSUPPORTED", NULL)
  /\ UNCHANGED <<ctx, live, in>>

\* A context is allocated when a method first needs it, and left in state st.
Keep(c, st) ==
  /\ ctx' = [ctx EXCEPT ![c] = st]
  /\ live' = live \cup {c}

\* libdeflate decodes a buffer in one call.
Libdeflate ==
  /\ pc = "DEFLATE"
  /\ \/ /\ ~Held("libdeflate")
        /\ OutOfMemory("ALLOC_FAILED")
        /\ UNCHANGED <<ctx, live>>
     \/ /\ Keep("libdeflate", "ready")
        /\ LET p == Reach(src, call.dst_size, src.len)
           IN IF p = FrameLen(src.size) THEN ReturnOutput(src.size)
              ELSE IF p = src.good THEN Return("MALFORMED", NULL)
              ELSE Return("SHORT_BUFFER", 0)
  /\ UNCHANGED in

--------------------------------------------------------------------------------
(* CLOD_LZ4F *)

\* LZ4F_frameInfo_t.contentSize; 0 is how a header says nothing.
ContentSize(s) == IF s.stated THEN s.size ELSE 0

\* The header, by LZ4F_headerSize and LZ4F_getFrameInfo.
Lz4Open ==
  /\ pc = "LZ4F" /\ ~call.stale
  /\ \/ /\ src.good = 0
        /\ Return("MALFORMED", NULL)
        /\ UNCHANGED <<ctx, live, in>>
     \/ /\ src.len > 0 /\ ~Held("lz4")
        /\ OutOfMemory("ALLOC_FAILED")
        /\ UNCHANGED <<ctx, live, in>>
     \/ /\ src.len > 0 /\ src.good = 0
        /\ Keep("lz4", "ready")
        /\ Return("MALFORMED", NULL)
        /\ UNCHANGED in
     \/ /\ src.good > 0 /\ ContentSize(src) > call.dst_size
        /\ Keep("lz4", "ready")
        /\ Return("SHORT_BUFFER", ContentSize(src))
        /\ UNCHANGED in
     \/ /\ src.good > 0 /\ ~call.sized
        /\ ContentSize(src) > 0 /\ ContentSize(src) < call.dst_size
        /\ Keep("lz4", "ready")
        /\ Return("SHORT_OUTPUT", NULL)
        /\ UNCHANGED in
     \/ /\ src.good > 0 /\ ContentSize(src) <= call.dst_size
        /\ call.sized \/ ContentSize(src) \in {0, call.dst_size}
        /\ Keep("lz4", "within")
        /\ pc' = "lz4_loop"
        /\ in' = 1
        /\ UNCHANGED call

\* Mutant of Lz4Progress: truncated data leave the context as it is.
Lz4ProgressKeepsContext(p) ==
  /\ in' = p
  /\ IF p >= src.len
     THEN UNCHANGED <<ctx, live>> /\ Return("MALFORMED", NULL)
     ELSE IF Decoded(src, p) >= call.dst_size
     THEN Keep("lz4", "ready") /\ Return("SHORT_BUFFER", ContentSize(src))
     ELSE UNCHANGED <<ctx, live, pc, call>>

\* Mutant of Lz4Progress: it is not noticed that dst is full.
Lz4ProgressIgnoresRoom(p) ==
  /\ in' = p
  /\ IF p >= src.len
     THEN Keep("lz4", "ready") /\ Return("MALFORMED", NULL)
     ELSE UNCHANGED <<ctx, live, pc, call>>

\* A turn of the loop around LZ4F_decompress that consumes up to p.
Lz4Progress(p) ==
  /\ in' = p
  /\ IF p >= src.len
     THEN Keep("lz4", "ready") /\ Return("MALFORMED", NULL)
     ELSE IF Decoded(src, p) >= call.dst_size
     THEN Keep("lz4", "ready") /\ Return("SHORT_BUFFER", ContentSize(src))
     ELSE UNCHANGED <<ctx, live, pc, call>>

Lz4Turn ==
  /\ pc = "lz4_loop"
  /\ \/ \E t \in DecoderTurns(src, call.dst_size, src.len, in) :
          \/ t.ret = "more" /\ Lz4Progress(t.to)
          \/ /\ t.ret = "end" /\ in' = t.to
             /\ Keep("lz4", "ready")
             /\ ReturnOutput(src.size)
          \/ /\ t.ret = "error" /\ in' = t.to
             /\ Keep("lz4", "ready")
             /\ Return("MALFORMED", NULL)
     \/ /\ in = 1               \* the decoder allocates its buffers
        /\ Keep("lz4", "ready")
        /\ OutOfMemory("MALFORMED")
        /\ UNCHANGED in

--------------------------------------------------------------------------------
(* CLOD_XZ: a stream that lives as long as the call. *)

XzOpen ==
  /\ pc = "XZ"
  /\ \/ OutOfMemory("ALLOC_FAILED") /\ UNCHANGED live
     \/ live' = live \cup {"stream"} /\ pc' = "xz_loop" /\ UNCHANGED call
  /\ UNCHANGED <<ctx, in>>

\* lzma_code has returned something other than LZMA_OK, and lzma_end is called.
\* A turn without progress is LZMA_BUF_ERROR.
XzTurn ==
  /\ pc = "xz_loop"
  /\ \/ \E t \in DecoderTurns(src, call.dst_size, src.len, in) :
          /\ in' = t.to
          /\ \/ t.ret = "more" /\ t.to # in /\ UNCHANGED <<live, pc, call>>
             \/ /\ t.ret = "more" /\ t.to = in
                /\ live' = live \ {"stream"}
                /\ IF Decoded(src, in) = call.dst_size THEN Return("SHORT_BUFFER", 0)
                                                       ELSE Return("MALFORMED", NULL)
             \/ t.ret = "end" /\ live' = live \ {"stream"} /\ ReturnOutput(src.size)
             \/ t.ret = "error" /\ live' = live \ {"stream"} /\ Return("MALFORMED", NULL)
     \/ /\ in = 0
        /\ live' = live \ {"stream"}
        /\ OutOfMemory("ALLOC_FAILED")
        /\ UNCHANGED in
  /\ UNCHANGED ctx

--------------------------------------------------------------------------------
(* CLOD_ZSTD: the context is kept, and reset after an error only. *)

ZstdOpen ==
  /\ pc = "ZSTD"
  /\ \/ ~Held("zstd") /\ OutOfMemory("ALLOC_FAILED") /\ UNCHANGED <<ctx, live>>
     \/ /\ Keep("zstd", IF Held("zstd") THEN ctx["zstd"] ELSE "ready")
        /\ pc' = "zstd_loop"
        /\ UNCHANGED call
  /\ UNCHANGED in

\* What ZSTD_getFrameContentSize leads the caller to believe.
FrameContentSize(s) == IF s.good > 0 THEN ContentSize(s) ELSE 0

\* A turn of the loop around ZSTD_decompressStream.  One without progress, while
\* there is input left, is noForwardProgress_destFull.
ZstdTurn ==
  /\ pc = "zstd_loop" /\ ~call.stale /\ in < src.len
  /\ \/ \E t \in DecoderTurns(src, call.dst_size, src.len, in) :
          /\ in' = t.to
          /\ \/ t.ret = "more" /\ t.to # in /\ Keep("zstd", "within") /\ UNCHANGED <<pc, call>>
             \/ /\ t.ret = "more" /\ t.to = in
                /\ Keep("zstd", "ready")
                /\ Return("SHORT_BUFFER", FrameContentSize(src))
             \/ t.ret = "end" /\ Keep("zstd", "ready") /\ ReturnOutput(src.size)
             \/ t.ret = "error" /\ Keep("zstd", "ready") /\ Return("MALFORMED", NULL)
     \/ /\ in = 0 /\ src.good > 0   \* the decoder allocates its buffers
        /\ Keep("zstd", "ready")
        /\ OutOfMemory("MALFORMED")
        /\ UNCHANGED in

\* What comes of giving the frame to a decoder that is within another one.
ZstdStaleTurn ==
  /\ pc = "zstd_loop" /\ call.stale /\ in < src.len
  /\ \/ \E n \in 0 .. call.dst_size : Keep("zstd", "ready") /\ ReturnOutput(n)
     \/ Keep("zstd", "ready") /\ Return("SHORT_BUFFER", FrameContentSize(src))
     \/ Keep("zstd", "ready") /\ Return("MALFORMED", NULL)
     \/ Keep("zstd", "within") /\ Return("MALFORMED", NULL)
  /\ UNCHANGED in

\* The input is used up before the end of the frame.
ZstdTruncated ==
  /\ pc = "zstd_loop" /\ in = src.len
  /\ Return("MALFORMED", NULL)
  /\ UNCHANGED <<ctx, live, in>>

--------------------------------------------------------------------------------
(* CLOD_BZIP2: a stream that lives as long as the call.  The sizes are       *)
(* converted to unsigned int; one unit of a dummy stands for an empty dst.   *)

\* Mutant of BzRoom: there is no dummy.
BzRoomNoDummy == Unsigned(call.dst_size)

BzRoom == IF call.dst_size = 0 THEN 1 ELSE Unsigned(call.dst_size)

BzAvailOut == BzRoom - Decoded(src, in)

BzOpen ==
  /\ pc = "BZIP2"
  /\ \/ OutOfMemory("ALLOC_FAILED") /\ UNCHANGED live
     \/ live' = live \cup {"stream"} /\ pc' = "bz2_loop" /\ UNCHANGED call
  /\ UNCHANGED <<ctx, in>>

\* BZ_STREAM_END, with n units written.
BzEnd(n) ==
  IF call.dst_size = 0
  THEN IF n # 0 THEN Return("SHORT_BUFFER", NULL) ELSE Return("SUCCESS", 0)
  ELSE IF ~call.sized /\ n # BzRoom THEN Return("SHORT_OUTPUT", NULL)
  ELSE Return("SUCCESS", n)

\* A turn of the loop around BZ2_bzDecompress, which returns BZ_OK also when it
\* has neither read nor written anything.
BzTurn ==
  /\ pc = "bz2_loop" /\ BzAvailOut # 0
  /\ \/ \E t \in DecoderTurns(src, BzRoom, Unsigned(src.len), in) :
          /\ in' = t.to
          /\ \/ t.ret = "more" /\ UNCHANGED <<live, pc, call>>
             \/ t.ret = "end" /\ live' = live \ {"stream"} /\ BzEnd(src.size)
             \/ t.ret = "error" /\ live' = live \ {"stream"} /\ Return("MALFORMED", NULL)
     \/ /\ in = 0
        /\ live' = live \ {"stream"}
        /\ OutOfMemory("ALLOC_FAILED")
        /\ UNCHANGED in
  /\ UNCHANGED ctx

\* Mutant of BzFull: the stream is not ended.
BzFullLeaks ==
  /\ pc = "bz2_loop" /\ BzAvailOut = 0
  /\ Return("SHORT_BUFFER", 0)
  /\ UNCHANGED <<ctx, live, in>>

\* Mutant of BzFull: *actual_size is not set.
BzFullUnsized ==
  /\ pc = "bz2_loop" /\ BzAvailOut = 0
  /\ live' = live \ {"stream"}
  /\ Return("SHORT_BUFFER", NULL)
  /\ UNCHANGED <<ctx, in>>

BzFull ==
  /\ pc = "bz2_loop" /\ BzAvailOut = 0
  /\ live' = live \ {"stream"}
  /\ Return("SHORT_BUFFER", 0)
  /\ UNCHANGED <<ctx, in>>

--------------------------------------------------------------------------------
Step ==
  \/ Uncompressed \/ Unsupported \/ Libdeflate
  \/ Lz4Open \/ Lz4Turn
  \/ XzOpen \/ XzTurn
  \/ ZstdOpen \/ ZstdTurn \/ ZstdStaleTurn \/ ZstdTruncated
  \/ BzOpen \/ BzTurn \/ BzFull

Next ==
  \/ clod_decompressor_init
  \/ clod_decompressor_init_fails
  \/ clod_decompressor_free
  \/ \E m \in Methods, s \in Sources, d \in DstSizes, z \in BOOLEAN : Call(m, s, d, z)
  \/ Returned
  \/ Step

Spec == Init /\ [][Next]_vars

\* A thread that is in a call goes on with it.
FairSpec == Spec /\ WF_vars(Step)

--------------------------------------------------------------------------------
(* What clod_decompress promises. *)

\* src holds all it takes, and what comes out of it.
Intact(c) == c.method = "UNCOMPRESSED" \/ Complete(c.src)
OutputSize(c) == IF c.method = "UNCOMPRESSED" THEN c.src.len ELSE c.src.size

\* The result of a call by itself.  Of data that are not intact nothing is said
\* but that they are never taken for a document.
Expected(c) ==
  IF CaseOf(c.method) = "default" THEN c.res = "UNSUPPORTED"
  ELSE IF Intact(c)
  THEN IF c.dst_size < OutputSize(c) THEN c.res = "SHORT_BUFFER"
       ELSE IF ~c.sized /\ OutputSize(c) < c.dst_size THEN c.res = "SHORT_OUTPUT"
       ELSE c.res = "SUCCESS" /\ (c.sized => c.actual = OutputSize(c))
  ELSE \/ c.res = "MALFORMED"
       \/ c.res = "SHORT_BUFFER" /\ c.dst_size <= c.src.size
       \/ /\ c.res = "SHORT_OUTPUT" /\ c.method = "LZ4F" /\ c.src.stated
          /\ ~c.sized /\ c.src.size < c.dst_size

\* The sizes fit into the unsigned int of libbz2 (decompress.c says that it does
\* not support more).
Fits(c) == c.method = "BZIP2" => c.dst_size < UIntLimit /\ c.src.len < UIntLimit

\* A call on contexts that are ready, and with enough memory, returns what the
\* data and the buffer sizes say: a document that fits exactly, an empty one and
\* an empty buffer included, with whatever stops the libraries make.
ResultsAsDocumented ==
  pc = "returned" /\ ~call.stale /\ ~call.oom /\ Fits(call) => Expected(call)

\* However a call ends, it leaves the LZ4 context ready for the next frame, and a
\* call that does not end with MALFORMED the ZSTD context too.
ContextsReset ==
  /\ pc \in {"idle", "returned"} /\ ctx # NULL => ctx["lz4"] # "within"
  /\ pc = "returned" /\ call.method = "ZSTD" /\ call.res # "MALFORMED"
       => ctx["zstd"] # "within"

\* Between calls what is allocated is the decompressor and the contexts it
\* points to: streams end with the call, and freeing it frees everything.
NothingLeaks ==
  pc \in {"idle", "returned"} =>
    live = IF ctx = NULL THEN {} ELSE {"decompressor"} \cup {c \in Contexts : Held(c)}

\* When SHORT_BUFFER is returned *actual_size, unless it is null, is the size of
\* the output or 0; the one exception is a document of one unit that bzip2 has
\* put into the dummy.
SizeOfShortBuffer ==
  pc = "returned" /\ call.res = "SHORT_BUFFER" /\ call.sized =>
    \/ call.actual \in {0, OutputSize(call)}
    \/ call.method = "BZIP2" /\ call.dst_size = 0 /\ call.src.size = 1

\* bzip2 data that stop within the stream.
BzTruncated(c) ==
  /\ c.method = "BZIP2" /\ ~Complete(c.src)
  /\ c.src.good = c.src.len \/ c.src.len >= UIntLimit

\* A call returns, the decoding loops end: all but the one around
\* BZ2_bzDecompress on data that stop within the stream.
LoopsEnd ==
  (call # NULL /\ Fits(call) /\ ~BzTruncated(call)) ~> (pc = "returned")

--------------------------------------------------------------------------------
(* What the repository says of the code and the code does not do. *)

\* "It is not a streaming interface, but an optimisation": what a call makes of
\* intact data does not depend on the calls before it.
CallsIndependent ==
  pc = "returned" /\ ~call.oom /\ Fits(call) /\ Intact(call) => Expected(call)

\* Every call returns, with MALFORMED if the data are malformed.
CallsReturn == (call # NULL) ~> (pc = "returned")
=============================================================================
