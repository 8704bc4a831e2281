------------------------------ MODULE MappedFiles ------------------------------
(***************************************************************************)
(* platform/unix/file.c: files that are mapped into memory.                *)
(*                                                                         *)
(* Every system call may fail.  The kernel's side is here as far as the    *)
(* code can tell: which files exist and how long they are, the mappings in *)
(* the address space, and the number of open descriptors.  A call is one   *)
(* step: the file cache opens and closes files under the storage's mutex.  *)
(***************************************************************************)
EXTENDS Integers, FiniteSets

CONSTANTS
  Files,       \* file objects
  Inodes,      \* the files of the directory
  Sizes,       \* sizes of files
  Addrs,       \* the places in the address space
  NULL,        \* no object, no map
  HaveMremap   \* HAVE_MREMAP

ASSUME FilesAssumption ==
  /\ IsFiniteSet(Files)
  /\ Sizes \subseteq Nat /\ 0 \in Sizes
  /\ NULL \notin Addrs
  /\ HaveMremap \in BOOLEAN

VARIABLES
  exists,    \* the files that are there
  disk,      \* the sizes of the files
  file,      \* the structs of the open file objects
  live,      \* the mappings in the address space
  stranded,  \* the addresses that were let go of while still mapped
  fds,       \* the number of open descriptors
  res        \* the result of the last call

vars == <<exists, disk, file, live, stranded, fds, res>>

Mappings == [addr : Addrs, ino : Inodes, size : Sizes]
FileStructs == [map : Addrs \cup {NULL}, size : Sizes, ino : Inodes, writeable : BOOLEAN]
Results == {"OK", "INVALID_USAGE", "NOT_FOUND"}

ASSUME NullAssumption == NULL \notin FileStructs

Open == {f \in Files : file[f] # NULL}
OpenInodes == {file[f].ino : f \in Open}
AddrsOf(mappings) == {m.addr : m \in mappings}

Init ==
  /\ exists \in SUBSET Inodes
  /\ disk \in [Inodes -> Sizes]
  /\ file = [f \in Files |-> NULL]
  /\ live = {}
  /\ stranded = {}
  /\ fds = 0
  /\ res = "OK"

--------------------------------------------------------------------------------
(* file_open *)

\* openat fails, because there is no such file or for another reason.
file_open_nothing(ino, create) ==
  /\ res' \in {"INVALID_USAGE"} \cup (IF ~create /\ ino \notin exists THEN {"NOT_FOUND"} ELSE {})
  /\ UNCHANGED <<exists, disk, file, live, stranded, fds>>

\* openat finds or creates a file.  The file cache opens each one once.
Openat(ino, create) ==
  /\ ino \notin OpenInodes
  /\ create \/ ino \in exists
  /\ exists' = exists \cup {ino}
  /\ disk' = IF ino \in exists THEN disk ELSE [disk EXCEPT ![ino] = 0]

\* The places for a mapping of that many bytes when `mappings' are there, and
\* the mapping; nothing is mapped for an empty file.
Places(mappings, size) == IF size = 0 THEN {NULL} ELSE Addrs \ AddrsOf(mappings)
Mapping(a, ino, size) == IF a = NULL THEN {} ELSE {[addr |-> a, ino |-> ino, size |-> size]}

\* A mutant of file_open_undone: the descriptor stays open.
file_open_undone_open(ino, create) ==
  /\ Openat(ino, create)
  /\ res' = "INVALID_USAGE"
  /\ fds' = fds + 1
  /\ UNCHANGED <<file, live, stranded>>

\* statx, mmap or malloc fails: what was made is undone, but for a new file,
\* and for the mapping if malloc fails and then munmap too.
file_open_undone(ino, create) ==
  /\ Openat(ino, create)
  /\ \/ UNCHANGED <<live, stranded>>
     \/ \E a \in Places(live, disk'[ino]) :
          /\ live' = live \cup Mapping(a, ino, disk'[ino])
          /\ stranded' = stranded \cup ({a} \ {NULL})
  /\ res' = "INVALID_USAGE"
  /\ UNCHANGED <<file, fds>>

file_open(f, ino, create, writeable) ==
  /\ file[f] = NULL
  /\ Openat(ino, create)
  /\ \E a \in Places(live, disk'[ino]) :
       /\ file' = [file EXCEPT ![f] = [map |-> a, size |-> disk'[ino], ino |-> ino, writeable |-> writeable]]
       /\ live' = live \cup Mapping(a, ino, disk'[ino])
  /\ fds' = fds + 1
  /\ res' = "OK"
  /\ UNCHANGED stranded

--------------------------------------------------------------------------------
(* file_truncate *)

\* What munmap leaves of the mappings, and what is lost when it fails.
Own(f) == {m \in live : m.addr = file[f].map}
Munmap(f, works) == IF works THEN live \ Own(f) ELSE live
Lost(f, works) == IF works THEN {} ELSE {file[f].map} \ {NULL}

\* The size is what it should be, or ftruncate fails.
file_truncate_nothing(f, new_size) ==
  /\ file[f] # NULL
  /\ res' = IF file[f].size = new_size THEN "OK" ELSE "INVALID_USAGE"
  /\ UNCHANGED <<exists, disk, file, live, stranded, fds>>

\* ftruncate works, which takes a descriptor to write with.
Ftruncate(f, new_size) ==
  /\ file[f] # NULL
  /\ file[f].writeable
  /\ file[f].size # new_size
  /\ disk' = [disk EXCEPT ![file[f].ino] = new_size]
  /\ UNCHANGED <<exists, fds>>

SetFile(f, map, new_size) ==
  file' = [file EXCEPT ![f] = [map |-> map, size |-> new_size, ino |-> file[f].ino, writeable |-> file[f].writeable]]

Remaps(f, new_size) == HaveMremap /\ file[f].map # NULL /\ new_size > 0

\* A mutant of file_truncate_remap: the struct keeps the old size.
file_truncate_remap_old(f, new_size) ==
  /\ Ftruncate(f, new_size)
  /\ Remaps(f, new_size)
  /\ \E a \in Places(live \ Own(f), new_size) :
       /\ SetFile(f, a, file[f].size)
       /\ live' = (live \ Own(f)) \cup Mapping(a, file[f].ino, new_size)
  /\ res' = "OK"
  /\ UNCHANGED stranded

file_truncate_remap(f, new_size) ==
  /\ Ftruncate(f, new_size)
  /\ Remaps(f, new_size)
  /\ \E a \in Places(live \ Own(f), new_size) :
       /\ SetFile(f, a, new_size)
       /\ live' = (live \ Own(f)) \cup Mapping(a, file[f].ino, new_size)
  /\ res' = "OK"
  /\ UNCHANGED stranded

\* A mutant of file_truncate_remap_fails: the error does not end the call.
file_truncate_remap_fails_on(f, new_size) ==
  /\ Ftruncate(f, new_size)
  /\ Remaps(f, new_size)
  /\ SetFile(f, NULL, new_size)
  /\ stranded' = stranded \cup {file[f].map}
  /\ res' = "OK"
  /\ UNCHANGED live

\* mremap fails: the mapping is still there and the struct forgets it.
file_truncate_remap_fails(f, new_size) ==
  /\ Ftruncate(f, new_size)
  /\ Remaps(f, new_size)
  /\ SetFile(f, NULL, new_size)
  /\ stranded' = stranded \cup {file[f].map}
  /\ res' = "INVALID_USAGE"
  /\ UNCHANGED live

\* munmap, whose result is ignored, and a new mmap, if there is something to
\* map.  The code returns true, which is CLOD_REGION_INVALID_USAGE.
file_truncate_map(f, new_size) ==
  /\ Ftruncate(f, new_size)
  /\ ~Remaps(f, new_size)
  /\ \E works \in BOOLEAN :
       /\ stranded' = stranded \cup Lost(f, works)
       /\ \E a \in Places(Munmap(f, works), new_size) :
            /\ SetFile(f, a, new_size)
            /\ live' = Munmap(f, works) \cup Mapping(a, file[f].ino, new_size)
  /\ res' = "INVALID_USAGE"

file_truncate_map_fails(f, new_size) ==
  /\ Ftruncate(f, new_size)
  /\ ~Remaps(f, new_size)
  /\ new_size > 0
  /\ \E works \in BOOLEAN : stranded' = stranded \cup Lost(f, works) /\ live' = Munmap(f, works)
  /\ SetFile(f, NULL, new_size)
  /\ res' = "INVALID_USAGE"

--------------------------------------------------------------------------------
(* file_close: close may report an error, but the descriptor is gone.      *)

file_close(f) ==
  /\ file[f] # NULL
  /\ \E works, closes \in BOOLEAN :
       /\ stranded' = stranded \cup Lost(f, works)
       /\ live' = Munmap(f, works)
       /\ res' = IF closes /\ (works \/ file[f].map = NULL) THEN "OK" ELSE "INVALID_USAGE"
  /\ file' = [file EXCEPT ![f] = NULL]
  /\ fds' = fds - 1
  /\ UNCHANGED <<exists, disk>>

--------------------------------------------------------------------------------

FileNext(f) ==
  \/ \E ino \in Inodes, create, writeable \in BOOLEAN : file_open(f, ino, create, writeable)
  \/ \E new_size \in Sizes :
       \/ file_truncate_nothing(f, new_size)
       \/ file_truncate_remap(f, new_size)
       \/ file_truncate_remap_fails(f, new_size)
       \/ file_truncate_map(f, new_size)
       \/ file_truncate_map_fails(f, new_size)
  \/ file_close(f)

Next ==
  \/ \E ino \in Inodes, create \in BOOLEAN : file_open_nothing(ino, create) \/ file_open_undone(ino, create)
  \/ \E f \in Files : FileNext(f)

Spec == Init /\ [][Next]_vars

--------------------------------------------------------------------------------
(* Properties *)

\* The type invariant of file.c.
TypeOK ==
  /\ exists \subseteq Inodes
  /\ disk \in [Inodes -> Sizes]
  /\ file \in [Files -> FileStructs \cup {NULL}]
  /\ live \subseteq Mappings
  /\ stranded \subseteq Addrs
  /\ fds \in Nat
  /\ res \in Results

OwnMap ==
  /\ \A f \in Open :
       /\ file[f].size = disk[file[f].ino]
       /\ file[f].map # NULL => [addr |-> file[f].map, ino |-> file[f].ino, size |-> file[f].size] \in live
  /\ \A f, g \in Open : f # g => file[f].ino # file[g].ino /\ (file[f].map = file[g].map => file[f].map = NULL)
  /\ \A m, n \in live : m.addr = n.addr => m = n

EmptyHasNoMap == \A f \in Open : file[f].size = 0 => file[f].map = NULL

\* Whoever gets the data of a file from file_get can read as many bytes as it
\* says: the file is that long, and if there is a map, it is a live mapping of
\* exactly that much of it, which no other file object has, so that file_close
\* and file_truncate unmap all of it and nothing else.  An empty file has none:
\* file_truncate asserts the old size before every mremap and munmap, which fail
\* on nothing, and a file goes to size zero and back in any order of calls.
MapSound == OwnMap /\ EmptyHasNoMap

\* The bytes of a file never become unreadable without an error: a call after
\* which a file object has bytes that it has not mapped, and did not have before,
\* returns CLOD_REGION_INVALID_USAGE (file_open, file_truncate).
Unreadable(f) == file[f] # NULL /\ file[f].map = NULL /\ file[f].size > 0
LossReported ==
  [][\A f \in Files : Unreadable(f)' /\ ~(Unreadable(f) /\ file'[f] = file[f]) => res' = "INVALID_USAGE"]_vars

\* Every mapping belongs to a file object, or was lost for ever in an mremap or
\* a munmap that failed, and every descriptor belongs to one: no early return
\* of file_open leaks what it made, and file_close gives back everything.
NothingLeaks ==
  /\ AddrsOf(live) = stranded \cup ({file[f].map : f \in Open} \ {NULL})
  /\ \A f \in Open : file[f].map \notin stranded
  /\ fds = Cardinality(Open)
================================================================================
