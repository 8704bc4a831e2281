# libclod, specified

TLA+ specifications of the parts of libclod that keep state, the TLC models
that check them on small instances, and TLAPS proofs of what matters most for
instances of any size. Paths are relative to the repository (`src/...` is its
source directory).

## 1. The system

libclod is a C library: containers, parsers and storage for region files.

| part | source | state | operations | what makes it correct |
| --- | --- | --- | --- | --- |
| hash table | `src/table/table.c` | control bytes, elements, `elem_count`, `deleted_count`, `cursor` | create, destroy, len, add, set, get, del, iter; rebuild | behaves as a map; counters agree with the slots; probing finds every key; no assertion fails; nothing leaks |
| region handle | `src/region/region_open.c`, `region_read.c`, `region_impl.h` | `inside`, the mutex, the cache | open, read, close (the rest of `region.h` is not implemented) | the mutex and the count are right on every path; a handle is not freed in use |
| file cache | `src/region/file_cache.c`, `region_file.c` | slots with file, position and time of last access | `region_file_get`, `file_cache_destroy` | one open file per position, no leak, bounded, no file closed in use |
| platform layer | `src/region/platform/` | descriptors, mappings, directory offsets | files: open, get, truncate, close; directories: open, rename, iterate | size and mapping agree whatever system call fails, or the caller is told; nothing leaks; an iteration is complete |
| options | `read_opts` in `src/region/region_open.c` | the options of a storage | open | what is derived from any options stays in bounds |
| compression | `src/compression/` | contexts reused between calls | init, free, compress, decompress | calls are independent; results are the documented ones |
| NBT | `src/nbt/nbt.c` | the caller's buffer and iterator | sizes, iterator, compound add/get/del, list resize | stays in the buffer; edits keep the document well formed |
| hashes | `src/hash/` | a running state | init, add, finalise | splitting the input does not change the result |
| file names | `src/region/filename.c`, `vec_group` in `include/clod/vmath.h` | - | make; parse (no callers) | names fit and differ; positions of a group have different indexes |
| region format | `src/region/region_format/`, `header.h` | - | unfinished, not called | - |
| inline headers | `include/clod/{sstr,big_endian,vmath}.h` | - | pure helpers | inverses, bounds |

Interactions: a thread that calls `clod_region_read` passes through
`REGION_PUBLIC_ENTER`, the handle's global mutex, the file cache (which opens
and closes region files through the platform layer) and the region file's
rwmutex. The hash table calls `clod_sip64_*` as its default hash, with the
address of its control array as the seed. Nothing else shares state.

What is hard: threads that use a region file after having released the mutex
under which others close it; failures in the middle of a cache scan or of a
rebuild; long sequences of additions and deletions that wear out a table;
integer rounding in load factors and eviction thresholds; contexts that keep
state from a failed call; a truncation that fails after the file has changed;
iterators that share a descriptor's offset while entries come, go and move;
damaged NBT data whose lengths wrap or keep a loop going; pieces of a stream that
cut through words. `PROJECT.json` lists these hazards with their lines and the
properties that cover them.

## 2. The modules

### Hash table

`TableMap` is the abstract specification: what `include/clod/table.h` says. The
state is a partial function from keys to elements and the last call with its
result.

`HashTable` is `table.c`. The table is a record with the fields of `struct
clod_table`; an action per API call, with the names of the source. `add` and
`set` are one step unless they rebuild: then `RebuildStart` is the allocation,
`RebuildCopy` one turn of the loop (`clod_table_iter` and `insert`) and
`RebuildFinish` the swap and the insertion. `probe`'s and `clod_table_iter`'s
loops are written as sets of turns and their minimum, which is what a loop with
an early return computes, and which the provers can handle. The hash is a
constant `HashOf[address][key]`, any function at all; the control byte keeps 7
bits of it and the slot the rest, modulo the table size. malloc may fail at
each allocation and may return any free address.

The key passed to `get` and `del` and the first `key_size` bytes of an element
are a key; that two keys are equal is `key_size` equal and `cmp_func` = 0.
Freeing the handle itself (`free(t)`) is the step to `pc = "none"`.

`TableIter` adds a caller that walks a table with `clod_table_iter` between
other calls.

### Region storage

`RegionStorage` is a region handle used by several threads, with the file
cache. A thread's `clod_region_read` is a step per lock operation:

| step | code |
| --- | --- |
| `Enter` | `REGION_PUBLIC_ENTER` |
| `Lock` | `mutex_lock` |
| `region_file_get` | the function of that name, under the mutex: no clock, close error in the scan, open or allocation failure, hit, miss |
| `RdLock` | `rwmutex_rdlock(&rf->mtx)` |
| `Unlock` | `mutex_unlock`, on success and on failure |
| `FileGet`, `FileGetFaults` | `file_get(rf->f)`; through a dangling pointer the process may also die |
| `Leave` | `REGION_PUBLIC_LEAVE` |

`clod_region_close` closes the cached files when `inside` is 0 and ends the
process otherwise; `Tick` is the clock. A cache slot's `last_access` is kept as
its age, which stops at `EvictableMax`: `evictable_duration` never exceeds that
in a non-empty cache. `stale` marks the threads whose region file was closed
after they got it.

Left out on purpose: a call that starts on a handle that is being closed (the
caller must not), and the saturating branches of `timespec_diff_ns`.

### Compression

`Compression` holds what the two directions share: methods, results,
`clod_compression_support`, and the abstraction of the data. Data are counted
in units. A document of `n` units becomes a frame of `n + 2`: a header (which
may state the size), a unit for each of the document, and a trailer. A source
buffer is any prefix of such a frame, intact up to some unit, or the frame with
something behind it; so it can be intact, corrupt, truncated or empty.

The libraries are external. `DecoderTurns` is what one call of a streaming
decoder may do: go any distance it has input and room for, end the frame,
report corruption, or stay where it is. `EncoderTurns` and `OneCall` are its
counterparts for compression.

`Decompressor` is `decompress.c` and `Compressor` is `compress.c`. The state is
the contexts kept in the object (a ZSTD or LZ4 decoder is ready for a frame or
within one; a libdeflate compressor has a level), what is allocated, and the
call in progress. A call is a step per library call that can fail or stop:

| step | code |
| --- | --- |
| `clod_decompressor_init`, `_init_fails`, `_free` | the functions of these names; `memset` on a failed allocation ends the process |
| `Call` | the switch over the method; a case whose library is missing is the default case |
| `Uncompressed`, `Unsupported`, `Libdeflate` | cases without a loop |
| `Lz4Open`, `XzOpen`, `ZstdOpen`, `BzOpen` | what comes before the loop: context or stream, LZ4 header |
| `Lz4Turn`, `XzTurn`, `ZstdTurn`, `BzTurn` | a turn of the loop, including the return from it |
| `ZstdStaleTurn` | a turn on a context that is within an older frame: any outcome |
| `ZstdTruncated`, `BzFull` | the ends of those two loops |

Two fields of a call are history: `stale` (the context was within a frame when
the call began) and `oom` (an allocation failed). Sizes given to libbz2 are
taken modulo `UIntLimit`, as the casts in the code do. The contents of the
output are left out: what is compared is how much of the document was written.

### NBT

`Nbt` is the part of `nbt.c` that reads: `clod_nbt_payload_size`, the tag
functions, `clod_nbt_iter_next` and `clod_nbt_compound_get`, as operators on a
sequence of bytes that ends where the code's `end` points. Every read goes
through `At`, which has no value past the end, so TLC stops with an error at a
read the code must not make. The layout is the code's; the numbers of values of a
byte and of a `size_t` are constants, 16 and 2^20 in the runs, which is enough
for the type codes and lets four bytes hold a number that wraps.

`clod_nbt_payload_size` calls itself and has two loops. Here its result comes
from those of the calls and turns one level further in (`SizeResultsFrom`), which
start from nothing and are computed as many levels deep as the data allow
(`Depths`: a call or a turn passes a byte, or is around one that does). `Walk` is
the sequence of iterators that a loop over `clod_nbt_iter_next` sees, in the same
way.

A list's loop over elements of one size has no other end than its length, so it
is a multiplication where that is not negative. A negative length is at least
2^63 as a `size_t`; such a loop takes decades at a turn per cycle, and the
result of the call is `NEVER`, which is no `size_t`, and which every call around
it passes on. This is the loop as it is written: it changes nothing outside of
itself, so the language allows a compiler to put a product in its place, and then
the size wraps instead of the call not returning. Neither is what `nbt.h` says.

`NbtEditor` adds the caller's buffer and the edits in place,
`clod_nbt_compound_add`, `_del` and `clod_nbt_list_resize` (an operator for each
of its three ways), with the calls that only measure. `doc` is the document as
a tree, edited as `nbt.h` describes; the properties compare its bytes with the
buffer's. A document is a node with its items below it, and `Levels` are the
sets of nodes with that many levels below them; `Depth` bounds it for the
documents a run starts with. Calls that do something else than `nbt.h` says set `departed` and are
followed by nothing: adding a tag that is not there, growing or shrinking a
list, and a resize with type 0 (see section 3). The run nbt_edits is about
those; the run nbt about everything else.

### Platform layer and names

`MappedFiles` is `platform/unix/file.c`: `file_open`, `file_truncate` and
`file_close` with an action for each way they end, as every system call may
fail. The kernel's mappings, file sizes and descriptors are state. Of the
history only the addresses a failed call lost are kept (`stranded`). A file is
opened once, as the file cache does.

`Directory` is `dir.c` and `dir_iter.c`. An iterator has readdir's buffer; the
offset belongs to the directory, as `F_DUPFD` shares it. An entry keeps its
place in the directory until it is removed or replaced, and a new one goes to
any free place; `dir_rename` replaces what has the new name. The buffer is a
function from places to the name and the `d_type` that were read there. Entries
change while iterators run. An entry is a regular file, a symbolic link to one,
or something else: `d_type` tells the first from the second, `fstatat`, which is
called if the filesystem does not say, follows the link and does not
(`Wanted`). `dir_iter_next` is a step per turn of its loop. `touched` are the
names whose entries changed, which the properties leave out.

`RegionNames` is `read_opts`, whose fields are read up to the first invalid one,
`filename_make`, and `vec_group`, a turn of its loop at a time. Texts are sequences of characters here, since
the properties are about lengths and about which names are equal; the limits
are constants. That vanilla files are recognised by a prefix of "region" and an
extension of "mca" or "mcr" is a test of the first letter.

The three share no state with each other or with the hashes below.
`MCFoundations` checks them together, with a behaviour about one of them.

### Hashes

`SipHash` is the stream of `siphash.c`: which words are made of the pieces, of
the bytes kept between calls, and of the size. The rounds are left out: the
state is a function of the seed and of the words. `Crc` is `crc.c` and the
program that makes its tables, on words as sets of bits, next to a division of
polynomials bit by bit.

### Proof modules

| module | about |
| --- | --- |
| `NatLemmas` | remainders, least elements, functions that are computed in N steps, induction up to N |
| `HashTableProofs` | `HashTable`, also as an implementation of `TableMap`, and `TableIter` |
| `RegionStorageProofs` | `RegionStorage` |
| `DecompressorProofs`, `CompressorProofs` | `Decompressor`, `Compressor` |
| `PlatformProofs` | `MappedFiles`, `Directory`, `RegionNames` |
| `HashProofs` | `SipHash`, `Crc` |
| `NbtProofs` | `Nbt`, `NbtEditor` |

The provers cannot use an induction theorem that has a predicate as a
parameter. `NatLemmas` has one about sets of numbers instead (BoundedInduction),
and shows that a function which is computed in N steps exists
(RecursiveFunction). With these two, what the loops of a decimal conversion, of
a file name, of a vector group and of a checksum compute could be proved by
induction on their turns, and what is computed on trees by induction on their
depth. Loops that are proved about are therefore written as
functions of the turn.

### Mutants

Each module that is checked contains, next to a definition, operators marked
"Mutant of ...": the definition with a plausible bug. No specification uses
them; substituting one for its definition makes the property it is listed with
in `PROJECT.json` fail, which shows that the property is about that code.

## 3. The runs

`tlc -config X.cfg M`, for the configurations below.

| run | config / module | checks | distinct states |
| --- | --- | --- | --- |
| table | MCHashTable | TypeOK, Counters, Probing, Assertions, RebuildCopies, HeapExact, Refinement | 88 thousand |
| table_iteration | MCTableIter | WalkIsExact, MinCapacityWithoutTombstones | 279 thousand |
| region | MCRegionStorage | TypeOK, MutexHeld, InsideCounts, CacheSound, GotItsFile, CacheBound; CallsReturn, MutexReleased | 523 thousand |
| region_use_after_close | MCRegionUseAfterClose / MCRegionStorage | NoUseAfterClose fails | |
| decompressor | MCDecompressor | TypeOK, ResultsAsDocumented, ContextsReset, NothingLeaks, SizeOfShortBuffer, LoopsEnd | 217 thousand |
| decompressor_independent | MCDecompressorIndependent / MCDecompressor | CallsIndependent fails | |
| decompressor_returns | MCDecompressorReturn / MCDecompressor | CallsReturn fails | |
| compressor | MCCompressor | ResultsAsDocumented, LevelAsAsked, NothingLeaks | 336 thousand |
| nbt | MCNbt | DocumentIntact, FreeNeverOverstated, TraversalExact, DamageContained | 16 thousand |
| nbt_edits | MCNbtEdits / MCNbt | EditsAsDocumented fails | |
| nbt_iteration | MCNbtIteration / MCNbt | IterationAsDocumented fails | |
| foundations | MCFoundations | MapSound, NothingLeaks, LossReported; LoneIterationComplete, OnePass; NameFits, NamesDistinct, GroupingInvertible; StreamingIsOneShot, CrcIsRemainder | 560 thousand |

The types of `MappedFiles` and `SipHash` are proved (section 4) and have no run.

Bounds. Three keys fill tables of 2, 4, 6 and 8 slots as far as the load factor
lets them; the hashes make two of them collide in slot and tag under one seed
and wrap around the end under the other, and the two addresses make every
rebuild change the seed. `MaxCursor` bounds the deletions between two rebuilds;
with 4 the cursor goes around a 2- and a 4-slot table. The iteration run has a
table created for two elements, so that its size is the one `min_capacity` asks
for. For regions, two threads are what it takes for one to close the other's
file; three positions and files let a cache for one processor grow to its
maximum of three slots, with `EvictableMax` = 1 giving thresholds 1, 0 and -1.
Larger caches are covered by the proof of CacheBound.

For NBT, five documents hold payloads of fixed and of variable size, nested
compounds, and lists of numbers, of compounds and of nothing, also as the first
tag, without a name; a buffer of 40 bytes has room for some of the edits and not
for others, and three calls are enough to delete, retype and look again;
`Depth` = 3 is deeper than any of them. DamageContained looks at every
prefix of the data, every byte replaced by three others, and every four bytes
replaced by each of the lengths from -1 to -12, which reach back over the header
of every tag as the size of an array, or of a list if its loop did return. Two
file objects, three sizes and three addresses let one file lose a mapping and
map again beside another; `HaveMremap` is true, under which the other way
through `file_truncate` is taken too, by files without a map. Two names at
three places in batches of any size let two iterators divide them, and let one
that is removed come back behind the offset. Coordinates of
one and two digits and of both signs, in one to three dimensions, are those
that could be confused; 4 bits divide evenly among two dimensions and not among
three. 70 bytes in pieces of ten sizes pass twice through the five bits of
SipHash's size; three bytes of every kind of pattern go through each of the
checksums, whose published check values `MCFoundations` assumes and TLC computes.

For decompression `MaxSize` = 2 gives empty, one-unit and larger documents,
buffers from empty to one unit too large, and frames cut or broken at every
place; a decoder can stop within the document. `UIntLimit` = 4 makes the
largest frames too large for libbz2's sizes. For compression `MaxSize` = 4 =
`UIntLimit` reaches the size `BZIP2` refuses.

Symmetry (of file objects, of the names in a directory, of iterators) is used in
the foundations run: it has invariants, and one property of single steps, and
the symmetric values are interchangeable in all of them.

Deadlock is checked for tables and for the foundations, where the hashes' callers
stop at a bound (`Stopped`). For regions and
compression it is not: `exit()` or a null pointer ends the process; nor for NBT,
whose callers stop at a bound.

Fairness. `FairSpec` lets every thread that can take a step of its call take
it: threads are scheduled. Nothing is assumed about who gets the mutex, so a
thread may wait for it for ever; `CallsReturn` is about threads that got it.
The `FairSpec` of `Decompressor` says that a call in progress goes on; a decoder
that can make progress makes some in each turn, how much is not assumed.

### What the violated properties show

* A region file can be closed and freed by `region_file_get` in one thread while
  another one, which got it earlier, is about to read `rf->f` (the read lock it
  holds is not looked at). Above `num_procs()` cached files the eviction
  threshold is negative, so that any miss closes every other file.
* A ZSTD frame that stops before its end leaves the context within it
  (`decompress.c:382` returns without a reset), and the next call on the same
  decompressor goes on with the broken frame. `compression.h` calls reuse "an
  optimisation".
* `BZ2_bzDecompress` returns `BZ_OK` when it has used up its input, so
  `clod_decompress` loops for ever on a bzip2 stream that stops early.
* `clod_nbt_compound_add` inserts a new tag where its iterator stopped, which is
  behind the compound's END byte, so that the tag is not in the compound
  (`nbt.c:136`, `307`; `nbt.h:98` says the iterator is at the byte after the
  last payload). The number of bytes it moves is `available() - elem_size`,
  which wraps when fewer than `elem_size` bytes follow; the growing branch of
  `clod_nbt_list_resize` has the same difference (`nbt.c:375`), and the
  shrinking one starts its iterator at the list's header (`nbt.c:391`). A resize
  with type 0, which `nbt.h:194` says keeps the type, sets it to 0. In the run,
  `clod_nbt_compound_add` on an empty document moves past the buffer.
* `clod_nbt_iter_next` over a list, an array or a string starts at the count in
  front of the elements instead of behind it, and so ends before the last of
  them (`nbt.c:157`, `181`, `202`, `222`, `243`; `nbt.h:98`, `112`). Over a
  compound it stands at each tag, as TraversalExact says; where it stands at the
  end is the point above, and TraversalExact leaves that open.

The models also follow the code, without a run of their own, where

* a list of numbers with a negative length makes `clod_nbt_payload_size` take at
  least 2^63 turns (`nbt.c:69`), although `nbt.h:52` says that it returns 0 on
  failure (`NEVER`; DamageContained says nothing of the size then);
* the size of a number is not compared with the data that are left, and so
  neither is that of a list of numbers (`nbt.c:33-38`, `74`). An iteration over
  a damaged compound gives such a tag out as its last one although it reaches
  past the end, and what `clod_nbt_compound_del` would move after it is a
  difference that wraps (`nbt.c:327`). The next turn, and the size of the
  compound, are compared with the data (DamageContained);
* a table below its `min_capacity` may have to allocate because tombstones count
  towards the load factor (`table.h:36` promises it does not;
  MinCapacityWithoutTombstones is the part that holds);
* `clod_region_read` returns with the read lock held: it is only released when
  `file_get` fails, which it never does (`region_read.c:37`);
* `read_opts` never returns zero, for which `clod_region_open` looks, so invalid
  options are not refused, and the storage works with those read before the
  first invalid one (`region_open.c:96`, `103`; NameFits is stated for these,
  too); with vanilla-compatible options the default compression stays zero, and
  the default extension is "mcr" (`region.h:201` says "mca");
* a failed `mremap` in `file_truncate` drops the map, keeps the new size and
  leaks the mapping (`file.c:105`; `stranded`). The error is the only notice of
  it (LossReported): a second call with that size returns OK without a map, and
  so `file_get` hands out no bytes with that size, for which MapSound makes an
  exception;
* the way through `mmap` returns `true`, which is INVALID_USAGE, when it works
  (`file.c:127`);
* all iterators of a directory share one offset, so a second one does not start
  at the beginning (`dir_iter.c:12`; OnePass, and `alone` in
  LoneIterationComplete);
* an iteration gives out a symbolic link to a regular file only on filesystems
  that do not tell `d_type` (`dir_iter.c:48`, `58`; LoneIterationComplete allows
  both);
* a name that is removed and made again during an iteration can be given out
  twice (OnePass is about names whose entries do not change);
* `vec_group` shifts by 64 when one dimension gives all bits of a word, which C
  leaves undefined (`vmath.h:64`; `Undefined`, and GroupingInvertible is about
  fewer bits);
* allocations that fail in `LZ4F_decompress` and `ZSTD_decompressStream` are
  reported as malformed data, and those in `LZ4F_compressFrame` as a short
  buffer (`OutOfMemory` in `Lz4Turn`, `ZstdTurn` and `Compressor`'s `Lz4`);
* `clod_decompressor_init` and `clod_compressor_init` write through a null
  pointer when `malloc` fails;
* bzip2 with an empty buffer and a one-byte document returns SHORT_BUFFER
  without a write to `*actual_size` (the exception in SizeOfShortBuffer);
* `clod_compression_support` is true of `CLOD_MINECRAFT_LZ4`, which has no case
  in either switch (`CaseOf`).

## 4. What is proved

Each for all constants that satisfy the modules' assumptions, which are

* typing; `NULL`, `NONE` being none of the other values; finitely many threads
  and file objects;
* for the cache (`CacheAssumption`), `EvictableMax % CacheMax < EvictableMax
  \div CacheMax`: with 10^10 ns that is true of every machine with fewer than
  10^5 processors;
* for a directory (`DirAssumption`), that it has finitely many places. That an
  entry keeps its place until it is removed or replaced is part of the model of
  the kernel, not of the code;
* for names (`NamesAssumption`, `CoordAssumption`), that the default of two
  dimensions is allowed, that `vec_group` has limited its bits to 64 (its
  property says nothing of exactly 64), and that no coordinate is longer in
  decimal than the constant `filename.h` reserves for one. For an `int64_t` that is 20, and the header reserves 20;
* for NBT (`NbtAssumption`, `EditorAssumption`), that a byte has at least the 13
  values the types need, that a `size_t` has more values than four bytes, and
  the buffer fewer bytes than that; that the caller starts with a document, and
  asks for names of bytes, for list types that exist, or 0, and for lengths
  that are positive as 32-bit numbers with a sign, as which the code reads them.

`HashTableProofs`. The inductive invariant is the conjunction of TypeOK,
Counters, Probing, HeapExact and RebuildCopies. Probing is the heart: tags,
unique keys, and no EMPTY slot between a key's home slot and its slot. It needs
TypeOK for the arithmetic of slots and Counters to know that a table with a low
load factor has a free slot; RebuildCopies is needed to know that the new
table of a rebuild holds a subset of the old one's elements, so that `insert`
finds neither a duplicate nor a full table. That the iterator visits each slot
exactly once from any cursor is the bijection of `i -> (i + c) % n`
(`NatLemmas`). From the invariant follow the theorems TypeCorrect,
CountersCorrect, ProbingCorrect, RebuildCorrect, HeapCorrect and
AssertionsCorrect. MinCapacityCorrect is about the two integer divisions: no table
is ever made smaller than `min_capacity` asks for, and in a table of that size
`LF`, which rounds down, stays below the limit until there are `min_capacity`
elements or tombstones.

Its second half is about the table's clients. ImplementsMap: `Spec => Map!MapSpec` under the mapping
`contents <- Contents`, the map the occupied slots of `t` represent. Every
action is shown to be the map's action of the same name, or to leave the map
alone (RebuildStart, RebuildCopy); that RebuildFinish is the map's add or set
needs RebuildCopies. WalkCorrect: in the middle of an undisturbed walk the keys
yielded are those the iterator has gone past, and the ones of the beginning are
yielded or ahead of it (MidWalk). `insert` without a rebuild moves no key and not
the cursor (InsertExtends), and a step of the iterator moves one key from ahead
to past, since it visits each slot once.

`RegionStorageProofs`. The inductive invariant is TypeOK, MutexHeld,
InsideCounts, CacheSound, the bound on the cache without its corollary about
cardinality, and two helpers (a thread in a call has a position; a closed
handle has no cache). The bound is inductive because the threshold is negative
above `CacheMax` slots: the miss that appends slot `CacheMax + 2` has just
emptied all others, and from then on there is always an empty slot. Theorems:
TypeCorrect, MutualExclusion, CountCorrect, CacheCorrect, CacheBounded. For
FileCorrect the threads between `region_file_get` and `mutex_unlock` are added: such
a thread's file is cached, because only the owner of the mutex evicts (MutexHeld)
and what it has just opened or hit is not evicted in the same call.

`DecompressorProofs`, for documents and buffers of any size, any width of
unsigned int and any set of libraries. The inductive invariant adds to TypeOK
and ResultsAsDocumented: which case of the switch a label belongs to (InCall),
what is allocated at every point of a call (Allocated), when a context can be
within a frame (Within), and how far a loop has come (Position). Position is
what the results need: the bzip2 loop is never left for want of room by a
document that fits, and the ZSTD loop is never at the end of a frame it has not
reported. Theorems: TypeCorrect, ResultsCorrect, ContextsCorrect, LeakFree. That
the size reported with SHORT_BUFFER is right (ShortBufferSize) is shown for each
return of each loop from that invariant.

`CompressorProofs`, in the same generality. The counterpart of Within is
CacheRight: a libdeflate compressor kept for a level has that level's preset,
whichever of the three methods that share it made it. Position says that no loop
has written the whole frame without returning, nor gone past the room.
Theorems: TypeCorrect, ResultsCorrect, LevelCorrect, LeakFree.

`PlatformProofs`. Mapped files, for any number of file objects, files, sizes and
addresses, with and without mremap. TypeOK, the two parts of MapSound (OwnMap,
EmptyHasNoMap) and NothingLeaks are inductive together: OwnMap needs NothingLeaks
to know that a new mapping is at no other file object's address, and NothingLeaks
needs OwnMap to know that a munmap takes one file object's mapping only. Each way through
`file_truncate` is an instance of one lemma (Retarget). LossReported is an action
property: only the steps that return an error leave a file object with bytes
and no map. Theorems: TypeCorrect, MapsSound, LossesReported, LeakFree.

Directories, for any names, places and iterators. Pass says that the buffers lie
behind the common offset and have no place in common, and that a name whose
entry has not changed is where it was read and not given out while it is in a
buffer; OnePassCorrect follows. Lone says of an iterator that is alone that every
unchanged regular file behind the offset was given out or is in its buffer, and
that the buffer is right about unchanged entries; LoneIterationCorrect follows,
as an iterator is done when the offset is at the end and its buffer is empty.

Names, for any limits, options and coordinates. The invariant is only that the
options are those `read_opts` leaves, also when it stops half-way; the work is in
the operators. NameLengthCorrect adds up the parts. NamesCorrect:
the texts of two numbers differ (by induction on the number of turns of the
division by 10), none contains a dot, and so a name determines its coordinates
one after the other. GroupingCorrect: the bits taken are never more than are
left, and are all of them in the end (TakeBound); each turn adds its bits above
those the index has (PackBound); read from the last turn back to the first, the
index gives the low bits of each coordinate and the group the others
(PackInjective, DivModInjective), for negative coordinates, too, as `%` and
`\div` here are the `&` and `>>` of two's complement.

`HashProofs`. SipHash, for every stream, length and set of piece sizes. The invariant
says of the words and of the kept bytes that they are the stream so far, and
that the size is its length modulo 32; StreamingIsOneShot follows by dividing
by 8. Theorems: SipTypeCorrect, StreamingCorrect.

Checksums, for data of any length and any bytes. Division shifts the byte in bit
by bit, where the table's entry was made from the byte and the high byte of the
register at once. Related says how the two registers differ after each of the eight
bits: by what has not been shifted in yet. The five loops of `crc.c` are
then two cases, a shift to the left and, mirrored, to the right (DirectAdd,
ReflectedAdd). Theorem: CrcCorrect.

`NbtProofs`, for every document, however deep and long, every buffer and every
sequence of calls. The inductive invariant is EditorInv: `free` is at most what
is behind the data, and, until a call departs from `nbt.h`, the data are the
bytes of `doc`, a document one level deeper with each edit at most, within an
intact buffer. That says of the data what DocumentIntact does; it has to say of
`doc`, too, that it is a document, since only then do the traversals find what
an edit takes away. The proof has three parts.

1. Traversal. The bytes of a node lie within those of its parent at an offset
   that is the length of what comes before (ListLayout, CompoundLayout). By
   induction on the level, `clod_nbt_payload_size` on the bytes of a node is
   their number (SizeStep, Sized), for which the loop over a list is followed
   from its last element back and the one over a compound from its END
   (ListSized, CompoundSized); the length of a document's list is not negative,
   so that no call in it is `NEVER`. A walk over a compound stands at its tags
   (CompoundWalk), a search finds the one of that name (SearchAt), and by
   induction on the path a caller who descends by name is at the node of that
   path (PathAt).
2. Splicing. Spliced says that one sequence is another with some bytes in the
   place of others. If the bytes of a node are spliced, those of its parent are
   at the node's offset (ChildReplaced), and so, up the path, those of the
   document (ChangedAt). Deleting a tag and changing the type of a list are
   such changes of a node (DeletedAt, RetypedAt), and what the memmoves do to
   the buffer is the same change of its bytes (CutBytes, RetypedBytes).
3. The calls. Each either refuses, or splices data and document alike
   (CallKept), or departs; then only `free` and `end` matter, whose changes
   cancel out (Departed).

Theorems: EditorInvariant, EditsKeepTheDocument, FreeIsThere, and
TraversalsAreExact, which is the first part on the data the invariant describes.

Only model-checked:

* the liveness properties CallsReturn, MutexReleased and LoopsEnd: a leads-to
  under fairness needs ENABLED, which the prover does not support;
* DamageContained, which is about the damage listed in it, not about every
  sequence of bytes;
* the violated properties of section 3, which are false.

All other properties of the runs are theorems.

## 5. Plan

Done: hash table (map, iteration, proofs, refinement), region handle and file
cache, compression in both directions, NBT (model and proofs), the platform
layer, options and names, hashes; proofs of every safety property of the runs
except DamageContained.

Next: DamageContained for any sequence of bytes, for which no sum of the sizes
in a compound may wrap; write, mtime, delete and iteration of region storage
when they are implemented.

## 6. What is not modelled and why

* `crc_tables.h` is generated data; the program that makes it is modelled.
* `region_format/` and `header.h` are unfinished and called by nothing.
* `error.c` only prints.
* The rounds of SipHash are arithmetic on 64-bit words; neither the stream nor
  the table depends on what they compute. The byte that `siphash.c:17` shares
  between the size and the number of kept bytes is two variables, one modulo 32
  and one modulo 8; that the two never touch in the byte is read off the masks.
* Callers of `dir_iter_*`, `dir_rename`, `file_truncate` and `vec_group`: the
  repository has none but the unfinished `format.c:43` and tests, so that in the
  models they are called with anything, at any time.
* `filename_parse_pos` has no callers, and adds the distance from the start of
  the name to an offset from the start (`filename.c:79`), so that it looks for
  the rest of a name in the wrong place.
* Write, mtime, delete and iteration of region storage are declared in
  `region.h` and not implemented.
* `sstr.h`, `divi64` and the widths of `big_endian.h` that NBT does not use are
  pure helpers. (The loop of `clod_sstr_contains`, `sstr.h:78`, stops one place
  early; nothing calls it.)
* The contents of compressed data and of chunks; composing a compressor with a
  decompressor would only compare counts of units, which the two modules'
  ResultsAsDocumented already state.
