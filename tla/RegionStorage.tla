--------------------------- MODULE RegionStorage ---------------------------
(***************************************************************************)
(* A region storage handle shared by threads: clod_region_open, _read and  *)
(* _close (src/region/region_open.c, region_read.c) and the file cache     *)
(* they go through (file_cache.c, region_file.c).                          *)
(*                                                                         *)
(* A thread's call of clod_region_read is one step for each lock operation *)
(* and for each access to shared state outside the global mutex.           *)
(* region_file_get runs under the mutex and is one step; what it closes is *)
(* nevertheless visible to threads that use a region file after having     *)
(* released the mutex.                                                     *)
(*                                                                         *)
(* A cache slot is NULL (rf == nullptr; its other fields are then not      *)
(* read) or a file, its position and `age', the time since last_access.    *)
(* Time is counted in units of which evictable_max holds EvictableMax, and *)
(* ages stop at EvictableMax: no threshold of a non-empty cache is higher. *)
(*                                                                         *)
(* A caller does not start a call on a handle it has closed.               *)
(***************************************************************************)
EXTENDS Integers, Sequences, FiniteSets, FiniteSetsExt

CONSTANTS
    Threads,       \* the threads that use the handle
    Positions,     \* region positions they ask for
    Files,         \* addresses of struct region_file
    CacheMax,      \* num_procs()
    EvictableMax,  \* evictable_max, in units of time
    NULL

ASSUME CacheAssumption ==
    /\ CacheMax \in Nat \ {0}
    /\ EvictableMax \in Nat
    /\ EvictableMax % CacheMax < EvictableMax \div CacheMax

\* What a cache slot holds.
SlotType == [rf : Files, pos : Positions, age : 0 .. EvictableMax]

ASSUME NullFileAssumption == NULL \notin Files \cup Threads \cup SlotType

ASSUME ThreadsAssumption == IsFiniteSet(Threads)

VARIABLES
    handle,   \* "closed", "open", or "exited": the process has ended
    inside,   \* r->inside
    mtx,      \* owner of r->mtx, or NULL
    cache,    \* the file cache: a sequence of slots
    open,     \* the region files that are open: allocated, mapped, with an fd
    readers,  \* readers[f]: threads that hold f's rwmutex for reading
    pc,       \* pc[u]: where thread u is in clod_region_read
    want,     \* want[u]: the position it reads
    rf,       \* rf[u]: the region file it got
    stale     \* threads whose rf has been closed since they got it

vars == <<handle, inside, mtx, cache, open, readers, pc, want, rf, stale>>

Init ==
    /\ handle = "closed"
    /\ inside = 0
    /\ mtx = NULL
    /\ cache = <<>>
    /\ open = {}
    /\ readers = [f \in Files |-> {}]
    /\ pc = [u \in Threads |-> "out"]
    /\ want = [u \in Threads |-> NULL]
    /\ rf = [u \in Threads |-> NULL]
    /\ stale = {}

\* An open that fails (memory, directory) returns nullptr and changes nothing.
clod_region_open ==
    /\ handle = "closed"
    /\ handle' = "open"
    /\ inside' = 0
    /\ mtx' = NULL
    /\ cache' = <<>>
    /\ UNCHANGED <<open, readers, pc, want, rf, stale>>

-----------------------------------------------------------------------------
(* The file cache.                                                         *)

\* Mutant of evictable_duration: the share is not multiplied by the length.
EvictableDurationFlat(len) == EvictableMax - EvictableMax \div CacheMax

\* How old a file may get in a cache of the given length; below 0 when the
\* cache is longer than CacheMax.
evictable_duration(len) == EvictableMax - (EvictableMax \div CacheMax) * len

Slots == 1 .. Len(cache)

\* Mutant of Hits: the comparison does not look at the coordinates.
HitsAnywhere(p) == {i \in Slots : cache[i] # NULL}

Hits(p) == {i \in Slots : cache[i] # NULL /\ cache[i].pos = p}

Empties == {i \in Slots : cache[i] = NULL}

\* The slots region_file_get's scan finds too old: those before the hit.
Evictable(p) ==
    {i \in Slots : /\ cache[i] # NULL
                   /\ cache[i].age > evictable_duration(Len(cache))
                   /\ \A h \in Hits(p) : i < h}

\* Mutant of Evict: the slot keeps its pointer to the closed file.
EvictKeeps(S) == cache

\* The cache after the files in slots S have been closed.
Evict(S) == [i \in Slots |-> IF i \in S THEN NULL ELSE cache[i]]

Entry(f, p, age) == [rf |-> f, pos |-> p, age |-> age]

\* The cache after that, with file f for position p in the first slot that
\* was empty before the scan, or in a new one.
Place(S, f, p) ==
    IF Empties # {}
    THEN [Evict(S) EXCEPT ![Min(Empties)] = Entry(f, p, 0)]
    ELSE Append(Evict(S), Entry(f, p, 0))

\* region_file_close of the files in slots S: their rwmutex and mapping are
\* gone for everyone who still has a pointer to them.
CloseSlots(S) ==
    LET closed == {cache[i].rf : i \in S}
    IN  /\ open' = open \ closed
        /\ readers' = [f \in Files |-> IF f \in closed THEN {} ELSE readers[f]]
        /\ stale' = stale \cup {u \in Threads : rf[u] \in closed}

\* The thread gives up; it still holds the mutex.
Fail(u) ==
    /\ pc' = [pc EXCEPT ![u] = "fail"]
    /\ UNCHANGED <<handle, inside, mtx, want, rf>>

\* monotonic_now failed.
GetNoClock(u) ==
    /\ UNCHANGED <<cache, open, readers, stale>>
    /\ Fail(u)

\* Closing the file in slot i reports an error: the scan stops there.
GetCloseFails(u) ==
    \E i \in Evictable(want[u]) :
        LET S == {j \in Evictable(want[u]) : j <= i}
        IN  /\ cache' = Evict(S)
            /\ CloseSlots(S)
            /\ Fail(u)

\* The file cannot be opened, or there is no memory to keep it in the cache
\* and it is closed again.
GetOpenFails(u) ==
    /\ Hits(want[u]) = {}
    /\ cache' = Evict(Evictable(want[u]))
    /\ CloseSlots(Evictable(want[u]))
    /\ Fail(u)

GetHit(u) ==
    /\ Hits(want[u]) # {}
    /\ LET h == Min(Hits(want[u]))
       IN  /\ cache' = [Evict(Evictable(want[u])) EXCEPT
                           ![h] = Entry(cache[h].rf, cache[h].pos, 0)]
           /\ rf' = [rf EXCEPT ![u] = cache[h].rf]
    /\ CloseSlots(Evictable(want[u]))
    /\ pc' = [pc EXCEPT ![u] = "rdlock"]
    /\ UNCHANGED <<handle, inside, mtx, want>>

GetMiss(u) ==
    /\ Hits(want[u]) = {}
    /\ LET S      == Evictable(want[u])
           closed == {cache[i].rf : i \in S}
       IN  \E f \in Files \ (open \ closed) :
              /\ cache' = Place(S, f, want[u])
              /\ open' = (open \ closed) \cup {f}
              /\ readers' = [g \in Files |-> IF g \in closed \cup {f} THEN {}
                                             ELSE readers[g]]
              /\ stale' = stale \cup {v \in Threads : rf[v] \in closed}
              /\ rf' = [rf EXCEPT ![u] = f]
    /\ pc' = [pc EXCEPT ![u] = "rdlock"]
    /\ UNCHANGED <<handle, inside, mtx, want>>

region_file_get(u) ==
    /\ pc[u] = "get"
    /\ \/ GetNoClock(u)
       \/ GetCloseFails(u)
       \/ GetOpenFails(u)
       \/ GetHit(u)
       \/ GetMiss(u)

-----------------------------------------------------------------------------
(* clod_region_read, step by step.                                         *)

Goto(u, label) == pc' = [pc EXCEPT ![u] = label]

\* REGION_PUBLIC_ENTER.
Enter(u, p) ==
    /\ handle = "open"
    /\ pc[u] = "out"
    /\ inside' = inside + 1
    /\ want' = [want EXCEPT ![u] = p]
    /\ Goto(u, "lock")
    /\ UNCHANGED <<handle, mtx, cache, open, readers, rf, stale>>

\* Mutant of Lock: the mutex does not exclude.
LockNoWait(u) ==
    /\ pc[u] = "lock"
    /\ mtx' = u
    /\ Goto(u, "get")
    /\ UNCHANGED <<handle, inside, cache, open, readers, want, rf, stale>>

Lock(u) ==
    /\ pc[u] = "lock"
    /\ mtx = NULL
    /\ mtx' = u
    /\ Goto(u, "get")
    /\ UNCHANGED <<handle, inside, cache, open, readers, want, rf, stale>>

\* Mutant of RdLock: the file is locked exclusively.
RdLockExclusive(u) ==
    /\ pc[u] = "rdlock"
    /\ readers[rf[u]] = {}
    /\ readers' = [readers EXCEPT ![rf[u]] = {u}]
    /\ Goto(u, "unlock")
    /\ UNCHANGED <<handle, inside, mtx, cache, open, want, rf, stale>>

\* No one ever locks for writing, so the lock does not block.
RdLock(u) ==
    /\ pc[u] = "rdlock"
    /\ readers' = [readers EXCEPT ![rf[u]] = @ \cup {u}]
    /\ Goto(u, "unlock")
    /\ UNCHANGED <<handle, inside, mtx, cache, open, want, rf, stale>>

\* Mutant of Unlock: the error path keeps the mutex.
UnlockNotOnFailure(u) ==
    /\ pc[u] \in {"unlock", "fail"}
    /\ mtx' = IF pc[u] = "unlock" THEN NULL ELSE mtx
    /\ Goto(u, IF pc[u] = "unlock" THEN "file_get" ELSE "leave")
    /\ UNCHANGED <<handle, inside, cache, open, readers, want, rf, stale>>

\* Mutant of Unlock: the error path returns without REGION_PUBLIC_LEAVE.
UnlockSkipsLeave(u) ==
    /\ pc[u] \in {"unlock", "fail"}
    /\ mtx' = NULL
    /\ Goto(u, IF pc[u] = "unlock" THEN "file_get" ELSE "out")
    /\ UNCHANGED <<handle, inside, cache, open, readers, want, rf, stale>>

\* mutex_unlock, after the read lock or on the error path.
Unlock(u) ==
    /\ pc[u] \in {"unlock", "fail"}
    /\ mtx' = NULL
    /\ Goto(u, IF pc[u] = "unlock" THEN "file_get" ELSE "leave")
    /\ UNCHANGED <<handle, inside, cache, open, readers, want, rf, stale>>

\* file_get(rf->f) reads through the pointer and always succeeds, so that the
\* branch that releases the read lock is not taken.
FileGet(u) ==
    /\ pc[u] = "file_get"
    /\ rf' = [rf EXCEPT ![u] = NULL]
    /\ stale' = stale \ {u}
    /\ Goto(u, "leave")
    /\ UNCHANGED <<handle, inside, mtx, cache, open, readers, want>>

\* Reading through the pointer of a closed file may end the process instead.
FileGetFaults(u) ==
    /\ pc[u] = "file_get"
    /\ u \in stale
    /\ handle' = "exited"
    /\ UNCHANGED <<inside, mtx, cache, open, readers, pc, want, rf, stale>>

\* Mutant of Leave: the count is decremented twice.
LeaveTwice(u) ==
    /\ pc[u] = "leave"
    /\ inside' = inside - 2
    /\ want' = [want EXCEPT ![u] = NULL]
    /\ Goto(u, "out")
    /\ UNCHANGED <<handle, mtx, cache, open, readers, rf, stale>>

\* REGION_PUBLIC_LEAVE.
Leave(u) ==
    /\ pc[u] = "leave"
    /\ inside' = inside - 1
    /\ want' = [want EXCEPT ![u] = NULL]
    /\ Goto(u, "out")
    /\ UNCHANGED <<handle, mtx, cache, open, readers, rf, stale>>

-----------------------------------------------------------------------------
(* clod_region_close, and time.                                            *)

\* The handle is still in use: the process ends.
clod_region_close_in_use ==
    /\ handle = "open"
    /\ inside # 0
    /\ handle' = "exited"
    /\ UNCHANGED <<inside, mtx, cache, open, readers, pc, want, rf, stale>>

clod_region_close ==
    /\ handle = "open"
    /\ inside = 0
    /\ handle' = "closed"
    /\ CloseSlots(Slots \ Empties)
    /\ cache' = <<>>
    /\ UNCHANGED <<inside, mtx, pc, want, rf>>

Tick ==
    /\ handle = "open"
    /\ cache' = [i \in Slots |->
                    IF cache[i] # NULL /\ cache[i].age < EvictableMax
                    THEN Entry(cache[i].rf, cache[i].pos, cache[i].age + 1)
                    ELSE cache[i]]
    /\ UNCHANGED <<handle, inside, mtx, open, readers, pc, want, rf, stale>>

\* A thread's own steps within a call; exit() stops them all.
Step(u) ==
    /\ handle # "exited"
    /\ \/ Lock(u)
       \/ region_file_get(u)
       \/ RdLock(u)
       \/ Unlock(u)
       \/ FileGet(u)
       \/ FileGetFaults(u)
       \/ Leave(u)

Next ==
    \/ clod_region_open
    \/ \E u \in Threads, p \in Positions : Enter(u, p)
    \/ \E u \in Threads : Step(u)
    \/ clod_region_close_in_use
    \/ clod_region_close
    \/ Tick

Spec == Init /\ [][Next]_vars

\* A thread that can take a step of its call takes it: threads are scheduled.
\* Nothing is assumed about who gets the mutex.
FairSpec == Spec /\ \A u \in Threads : WF_vars(Step(u))

-----------------------------------------------------------------------------
(* Properties.                                                             *)

Labels == {"out", "lock", "get", "rdlock", "unlock", "fail", "file_get", "leave"}

\* The variables have the types of the C objects they stand for; in particular
\* `inside' is never negative (REGION_PUBLIC_LEAVE asserts it was positive).
TypeOK ==
    /\ handle \in {"closed", "open", "exited"}
    /\ inside \in Nat
    /\ mtx \in Threads \cup {NULL}
    /\ cache \in Seq(SlotType \cup {NULL})
    /\ open \subseteq Files
    /\ readers \in [Files -> SUBSET Threads]
    /\ pc \in [Threads -> Labels]
    /\ want \in [Threads -> Positions \cup {NULL}]
    /\ rf \in [Threads -> Files \cup {NULL}]
    /\ stale \subseteq Threads

Critical(u) == pc[u] \in {"get", "rdlock", "unlock", "fail"}

\* "global mutex must be held" (file_cache.c): a thread is between mutex_lock
\* and mutex_unlock exactly when it owns the mutex, on the error paths too, so
\* that no two threads are ever in the file cache together.
MutexHeld == \A u \in Threads : Critical(u) <=> mtx = u

\* The count REGION_PUBLIC_ENTER and _LEAVE keep is the number of threads in a
\* call, on every path out of it; so clod_region_close, which only looks at the
\* count, never frees the handle and its mutex under a thread's feet.
InsideCounts ==
    /\ inside = Cardinality({u \in Threads : pc[u] # "out"})
    /\ handle = "closed" => \A u \in Threads : pc[u] = "out"

Cached == {i \in Slots : cache[i] # NULL}

\* The cache holds at most one file for a position and no file twice, and the
\* open files are exactly the cached ones: whichever way region_file_get and
\* clod_region_close end (an eviction that fails half-way, an open that fails,
\* a cache that cannot grow), no descriptor or mapping is leaked, none is
\* cached after it was closed.
CacheSound ==
    /\ \A i, j \in Cached :
          cache[i].pos = cache[j].pos \/ cache[i].rf = cache[j].rf => i = j
    /\ open = {cache[i].rf : i \in Cached}

\* A thread that holds the mutex after region_file_get has the cached, open
\* file of the position it asked for.
GotItsFile ==
    \A u \in Threads :
        pc[u] \in {"rdlock", "unlock"} =>
            /\ u \notin stale
            /\ \E i \in Cached : cache[i].rf = rf[u] /\ cache[i].pos = want[u]

\* The cache is bounded by the number of processors: two slots more at most,
\* and one open file more at most.  A slot evicted in a scan is not reused in
\* that scan, so the cache does grow past CacheMax; from then on the eviction
\* threshold is negative, and once it has CacheMax + 2 slots (it never
\* shrinks) it holds at most one file: every miss evicts all others.
CacheBound ==
    /\ Len(cache) <= CacheMax + 2
    /\ Cardinality(Cached) <= CacheMax + 1
    /\ Len(cache) = CacheMax + 2 => \A i, j \in Cached : i = j

\* A thread that got past the mutex returns from its call, whatever the other
\* threads do: nothing it waits for afterwards can block it.
CallsReturn ==
    \A u \in Threads :
        pc[u] \notin {"out", "lock"} ~> (pc[u] = "out" \/ handle = "exited")

\* The mutex is always released again, so that the threads waiting for it are
\* never all stuck.
MutexReleased == []<>(mtx = NULL \/ handle = "exited")

\* README.md: "Multithreaded usage is supported".  No thread goes through the
\* pointer region_file_get gave it after the cache has closed and freed the
\* region file.
NoUseAfterClose ==
    \A u \in Threads : pc[u] = "file_get" => u \notin stale
=============================================================================
