------------------------ MODULE RegionStorageProofs ------------------------
(***************************************************************************)
(* Proofs about RegionStorage, for any finite set of threads and any       *)
(* positions, number of processors and eviction time that satisfy          *)
(* CacheAssumption.                                                        *)
(***************************************************************************)
EXTENDS RegionStorage, NatLemmas, FiniteSetTheorems, SequenceTheorems

-----------------------------------------------------------------------------
(* The cache as a sequence.                                                *)

CacheSeq == Seq(SlotType \cup {NULL})

\* The length of an initial interval is determined by its elements.
LEMMA IntervalLength ==
    ASSUME NEW m \in Nat, NEW n \in Nat, 1 .. m = 1 .. n
    PROVE  m = n
<1>1. m > n => m \in 1 .. m /\ m \notin 1 .. n
  OBVIOUS
<1>2. n > m => n \in 1 .. n /\ n \notin 1 .. m
  OBVIOUS
<1> QED BY <1>1, <1>2

\* Closing files changes neither the length of the cache nor the other slots.
LEMMA EvictSeq ==
    ASSUME cache \in CacheSeq, NEW S
    PROVE  /\ Evict(S) \in CacheSeq
           /\ Len(Evict(S)) = Len(cache)
           /\ \A i \in Slots : Evict(S)[i] = IF i \in S THEN NULL ELSE cache[i]
<1>1. Len(cache) \in Nat /\ cache \in [1 .. Len(cache) -> SlotType \cup {NULL}]
  BY LenProperties DEF CacheSeq
<1>2. Evict(S) \in [1 .. Len(cache) -> SlotType \cup {NULL}]
  BY <1>1 DEF Evict, Slots
<1>3. Evict(S) \in CacheSeq
  BY <1>1, <1>2, SeqDef DEF CacheSeq
<1>4. Len(Evict(S)) \in Nat /\ DOMAIN Evict(S) = 1 .. Len(Evict(S))
  BY <1>3, LenProperties DEF CacheSeq
<1>5. DOMAIN Evict(S) = 1 .. Len(cache)
  BY <1>2
<1>6. Len(Evict(S)) = Len(cache)
  BY <1>1, <1>4, <1>5, IntervalLength
<1> QED BY <1>3, <1>6 DEF Evict

\* A new file goes to a slot that was empty or to one more slot at the end.
LEMMA PlaceSeq ==
    ASSUME cache \in CacheSeq, NEW S, NEW f \in Files, NEW p \in Positions
    PROVE  LET c == Place(S, f, p)
           IN  /\ c \in CacheSeq
               /\ Len(c) = IF Empties # {} THEN Len(cache) ELSE Len(cache) + 1
               /\ \E k \in 1 .. Len(c) :
                     /\ k \in Slots => cache[k] = NULL
                     /\ c[k] = Entry(f, p, 0)
                     /\ \A i \in 1 .. Len(c) :
                           i # k => i \in Slots /\ c[i] = Evict(S)[i]
<1>1. Len(cache) \in Nat
  BY LenProperties DEF CacheSeq
<1>2. Entry(f, p, 0) \in SlotType \cup {NULL}
  BY CacheAssumption DEF Entry, SlotType
<1>3. CASE Empties # {}
  <2> DEFINE k == Min(Empties)
  <2>1. Empties \subseteq Nat
    BY <1>1 DEF Empties, Slots
  <2>2. k \in Slots /\ cache[k] = NULL
    BY <1>3, <2>1, MinNat DEF Empties
  <2> HIDE DEF k
  <2>3. LET c == [Evict(S) EXCEPT ![k] = Entry(f, p, 0)]
        IN  /\ c \in CacheSeq
            /\ Len(c) = Len(cache)
            /\ \A j \in Slots : c[j] = IF j = k THEN Entry(f, p, 0) ELSE Evict(S)[j]
    BY <2>2, <1>2, EvictSeq, ExceptSeq DEF CacheSeq, Slots
  <2>4. Place(S, f, p) = [Evict(S) EXCEPT ![k] = Entry(f, p, 0)]
    BY <1>3 DEF Place, k
  <2> QED BY <1>3, <2>2, <2>3, <2>4 DEF Slots
<1>4. CASE Empties = {}
  <2> DEFINE c == Append(Evict(S), Entry(f, p, 0))
             k == Len(cache) + 1
  <2>1. /\ c \in CacheSeq
        /\ Len(c) = Len(cache) + 1
        /\ \A i \in 1 .. Len(cache) : c[i] = Evict(S)[i]
        /\ c[k] = Entry(f, p, 0)
    BY <1>1, <1>2, EvictSeq, AppendProperties DEF CacheSeq
  <2>2. Place(S, f, p) = c
    BY <1>4 DEF Place
  <2> HIDE DEF c
  <2>3. k \in 1 .. Len(c) /\ k \notin Slots
    BY <1>1, <2>1 DEF Slots
  <2>4. \A i \in 1 .. Len(c) : i # k => i \in Slots /\ c[i] = Evict(S)[i]
    BY <1>1, <2>1 DEF Slots
  <2> QED BY <1>4, <2>1, <2>2, <2>3, <2>4
<1> QED BY <1>3, <1>4

-----------------------------------------------------------------------------
(* The inductive invariant.                                                *)

\* A thread in a call knows its position.
Wants == \A u \in Threads : pc[u] # "out" => want[u] \in Positions

\* The bound on the cache in the form in which it is inductive.
Length ==
    /\ Len(cache) <= CacheMax + 2
    /\ Len(cache) = CacheMax + 2 => \A i, j \in Cached : i = j

\* A closed handle has no cache.
ClosedEmpty == handle = "closed" => cache = <<>>

IInv ==
    /\ TypeOK
    /\ ClosedEmpty
    /\ Wants
    /\ MutexHeld
    /\ InsideCounts
    /\ CacheSound
    /\ Length

\* The cache has thread u's file, for the position it wants.
HasFile(u) == \E i \in Cached : cache[i].rf = rf[u] /\ cache[i].pos = want[u]

\* A scan closes files that are cached.
LEMMA EvictableCached ==
    ASSUME NEW p
    PROVE  Evictable(p) \subseteq Cached /\ Cached \subseteq Slots
BY DEF Evictable, Cached

\* Beyond CacheMax slots every file the scan passes is too old: the threshold
\* is negative and no age is.
LEMMA AllEvictable ==
    ASSUME TypeOK, NEW p, Len(cache) > CacheMax, Hits(p) = {}
    PROVE  Evictable(p) = Cached
<1>1. Len(cache) \in Nat
  BY LenProperties DEF TypeOK
<1> DEFINE q == EvictableMax \div CacheMax
           r == EvictableMax % CacheMax
<1>2. q \in Nat /\ r \in Nat /\ EvictableMax = CacheMax * q + r /\ r < q
  BY CacheAssumption, ModRange
<1> HIDE DEF q, r
<1>3. evictable_duration(Len(cache)) = CacheMax * q + r - q * Len(cache)
  <2>1. evictable_duration(Len(cache)) = EvictableMax - q * Len(cache)
    BY DEF evictable_duration, q
  <2> QED BY <2>1, <1>1, <1>2, CacheAssumption
<1>4. PICK d \in Nat : Len(cache) = CacheMax + 1 + d
  <2>1. Len(cache) - CacheMax - 1 \in Nat /\ Len(cache) = CacheMax + 1 + (Len(cache) - CacheMax - 1)
    BY <1>1, CacheAssumption
  <2> QED BY <2>1
<1>5. q * Len(cache) = CacheMax * q + q + q * d
  BY <1>2, <1>4, CacheAssumption
<1>6. q * d \in Nat
  BY <1>2, <1>4
<1>7. evictable_duration(Len(cache)) \in Int /\ evictable_duration(Len(cache)) < 0
  <2> DEFINE a == CacheMax * q
             b == q * d
  <2>1. a \in Nat /\ b \in Nat
    BY <1>2, <1>6, CacheAssumption
  <2>2. evictable_duration(Len(cache)) = a + r - (a + q + b)
    BY <1>3, <1>5
  <2> HIDE DEF a, b
  <2> QED BY <1>2, <2>1, <2>2
<1>8. \A i \in Cached : cache[i].age \in Nat
  <2>1. \A i \in Slots : cache[i] \in SlotType \cup {NULL}
    BY ElementOfSeq DEF TypeOK, Slots
  <2> QED BY <2>1, CacheAssumption DEF Cached, SlotType
<1> QED BY <1>7, <1>8 DEF Evictable, Cached

\* A step that closes the files in some slots and changes nothing in the
\* others but their age keeps the cache sound and bounded.
LEMMA SubCache ==
    ASSUME TypeOK, CacheSound, Length, NEW S, S \subseteq Cached,
           cache' \in CacheSeq, Len(cache') = Len(cache),
           \A i \in S : cache'[i] = NULL,
           \A i \in Slots \ S :
              /\ cache'[i] = NULL <=> cache[i] = NULL
              /\ cache[i] # NULL => /\ cache'[i].rf = cache[i].rf
                                    /\ cache'[i].pos = cache[i].pos,
           open' = open \ {cache[i].rf : i \in S}
    PROVE  CacheSound' /\ Length'
<1>1. Slots' = Slots
  BY DEF Slots
<1>2. Cached' = Cached \ S
  BY <1>1 DEF Cached
<1>3. \A i \in Cached' : /\ i \in Cached
                         /\ cache'[i].rf = cache[i].rf
                         /\ cache'[i].pos = cache[i].pos
  BY <1>2 DEF Cached
<1>4. open' = {cache'[i].rf : i \in Cached'}
  <2>1. open = {cache[i].rf : i \in Cached}
    BY DEF CacheSound
  <2>2. ASSUME NEW f \in open' PROVE f \in {cache'[i].rf : i \in Cached'}
    <3>1. PICK i \in Cached : f = cache[i].rf
      BY <2>1
    <3>2. i \in Cached'
      BY <3>1, <1>2
    <3> QED BY <3>1, <3>2, <1>3
  <2>3. ASSUME NEW i \in Cached' PROVE cache'[i].rf \in open'
    <3>1. i \in Cached /\ i \notin S /\ cache'[i].rf = cache[i].rf
      BY <1>2, <1>3
    <3>2. \A j \in S : cache[j].rf # cache[i].rf
      BY <3>1 DEF CacheSound
    <3> QED BY <3>1, <3>2, <2>1
  <2> QED BY <2>2, <2>3
<1>5. \A i, j \in Cached' :
         cache'[i].pos = cache'[j].pos \/ cache'[i].rf = cache'[j].rf => i = j
  BY <1>3 DEF CacheSound
<1>6. CacheSound'
  BY <1>4, <1>5 DEF CacheSound
<1>7. Length'
  BY <1>2 DEF Length
<1> QED BY <1>6, <1>7

\* What region_file_get, when it fails after having closed the files in slots
\* S, and clod_region_close leave of the files.
LEMMA EvictStep ==
    ASSUME TypeOK, CacheSound, Length, NEW S, S \subseteq Cached,
           cache' = Evict(S), CloseSlots(S)
    PROVE  /\ cache' \in CacheSeq
           /\ open' \subseteq Files
           /\ readers' \in [Files -> SUBSET Threads]
           /\ stale' \subseteq Threads
           /\ CacheSound' /\ Length'
<1>1. cache \in CacheSeq
  BY DEF TypeOK, CacheSeq
<1>2. /\ cache' \in CacheSeq
      /\ Len(cache') = Len(cache)
      /\ \A i \in Slots : cache'[i] = IF i \in S THEN NULL ELSE cache[i]
  BY <1>1, EvictSeq
<1>3. S \subseteq Slots
  BY DEF Cached
<1>4. CacheSound' /\ Length'
  BY <1>2, <1>3, SubCache DEF CloseSlots
<1>5. open' \subseteq Files /\ readers' \in [Files -> SUBSET Threads] /\ stale' \subseteq Threads
  BY DEF CloseSlots, TypeOK
<1> QED BY <1>2, <1>4, <1>5

\* A hit: the files before it may be closed, its own age is reset.
LEMMA HitStep ==
    ASSUME TypeOK, CacheSound, Length, Wants, NEW u \in Threads,
           pc[u] = "get", GetHit(u)
    PROVE  /\ TypeOK' /\ CacheSound' /\ Length'
           /\ HasFile(u)'
<1> DEFINE p == want[u]
           S == Evictable(p)
           h == Min(Hits(p))
<1>1. cache \in CacheSeq /\ Len(cache) \in Nat
  BY LenProperties DEF TypeOK, CacheSeq
<1>2. p \in Positions
  BY DEF Wants
<1>3. Hits(p) \subseteq Nat /\ Hits(p) # {}
  BY <1>1 DEF Hits, Slots, GetHit
<1>4. h \in Hits(p)
  BY <1>3, MinNat
<1>5. h \in Slots /\ cache[h] # NULL /\ cache[h].pos = p /\ h \notin S
  <2> HIDE DEF h
  <2>1. h \in Slots /\ cache[h] # NULL /\ cache[h].pos = p
    BY <1>4 DEF Hits
  <2>2. h \notin S
    <3>1. h \in Nat /\ ~(h < h)
      BY <1>3, <1>4
    <3> QED BY <3>1, <1>4 DEF Evictable
  <2> QED BY <2>1, <2>2
<1>6. cache[h] \in SlotType
  <2>1. cache[h] \in SlotType \cup {NULL}
    BY <1>1, <1>5, ElementOfSeq DEF CacheSeq, Slots
  <2> QED BY <2>1, <1>5
<1>7. /\ cache' = [Evict(S) EXCEPT ![h] = Entry(cache[h].rf, p, 0)]
      /\ CloseSlots(S)
      /\ rf' = [rf EXCEPT ![u] = cache[h].rf]
      /\ pc' = [pc EXCEPT ![u] = "rdlock"]
      /\ UNCHANGED <<handle, inside, mtx, want>>
  BY <1>5 DEF GetHit
<1> HIDE DEF p, S, h
<1>8. Entry(cache[h].rf, p, 0) \in SlotType
  BY <1>2, <1>6, CacheAssumption DEF Entry, SlotType
<1>9. /\ cache' \in CacheSeq
      /\ Len(cache') = Len(cache)
      /\ \A j \in Slots : cache'[j] = IF j = h THEN Entry(cache[h].rf, p, 0)
                                      ELSE IF j \in S THEN NULL ELSE cache[j]
  BY <1>1, <1>5, <1>7, <1>8, EvictSeq, ExceptSeq DEF CacheSeq, Slots
<1>10. S \subseteq Cached
  BY EvictableCached DEF S
<1>11. Entry(cache[h].rf, p, 0) # NULL
  BY <1>8, NullFileAssumption
<1>12. CacheSound' /\ Length'
  <2>1. \A i \in S : cache'[i] = NULL
    BY <1>5, <1>9, <1>10 DEF Cached
  <2>2. \A i \in Slots \ S :
           /\ cache'[i] = NULL <=> cache[i] = NULL
           /\ cache[i] # NULL => cache'[i].rf = cache[i].rf /\ cache'[i].pos = cache[i].pos
    BY <1>5, <1>9, <1>11 DEF Entry
  <2>3. open' = open \ {cache[i].rf : i \in S}
    BY <1>7 DEF CloseSlots
  <2> QED BY <1>9, <1>10, <2>1, <2>2, <2>3, SubCache
<1>13. TypeOK'
  <2>1. open' \subseteq Files /\ readers' \in [Files -> SUBSET Threads] /\ stale' \subseteq Threads
    BY <1>7 DEF CloseSlots, TypeOK
  <2>2. cache[h].rf \in Files
    BY <1>6 DEF SlotType
  <2> QED BY <1>7, <1>9, <2>1, <2>2 DEF TypeOK, CacheSeq, Labels
<1>14. HasFile(u)'
  <2>1. h \in Cached'
    BY <1>5, <1>9, <1>11 DEF Cached, Slots
  <2>2. cache'[h].rf = rf'[u] /\ cache'[h].pos = want'[u]
    BY <1>5, <1>7, <1>9 DEF Entry, TypeOK, p
  <2> QED BY <2>1, <2>2 DEF HasFile
<1> QED BY <1>12, <1>13, <1>14

\* A miss: the files that are too old are closed and the new one is cached.
\* The cache grows past CacheMax + 1 slots only when the scan has emptied all
\* of them, and past CacheMax + 2 never, because there is an empty slot then.
LEMMA MissStep ==
    ASSUME TypeOK, CacheSound, Length, Wants, NEW u \in Threads,
           pc[u] = "get", GetMiss(u)
    PROVE  /\ TypeOK' /\ CacheSound' /\ Length'
           /\ HasFile(u)'
<1> DEFINE p == want[u]
           S == Evictable(p)
           closed == {cache[i].rf : i \in S}
<1>1. cache \in CacheSeq /\ Len(cache) \in Nat
  BY LenProperties DEF TypeOK, CacheSeq
<1>2. p \in Positions
  BY DEF Wants
<1>3. PICK f \in Files \ (open \ closed) :
         /\ cache' = Place(S, f, p)
         /\ open' = (open \ closed) \cup {f}
         /\ readers' = [g \in Files |-> IF g \in closed \cup {f} THEN {}
                                        ELSE readers[g]]
         /\ stale' = stale \cup {v \in Threads : rf[v] \in closed}
         /\ rf' = [rf EXCEPT ![u] = f]
  BY DEF GetMiss
<1>4. /\ Hits(p) = {}
      /\ pc' = [pc EXCEPT ![u] = "rdlock"]
      /\ UNCHANGED <<handle, inside, mtx, want>>
  BY DEF GetMiss
<1>5. S \subseteq Cached /\ Cached \subseteq Slots
  BY EvictableCached
<1>6. Len(cache) > CacheMax => S = Cached
  BY <1>4, AllEvictable
<1> HIDE DEF p, S
<1>7. /\ cache' \in CacheSeq
      /\ Len(cache') = IF Empties # {} THEN Len(cache) ELSE Len(cache) + 1
  BY <1>1, <1>2, <1>3, PlaceSeq
<1>8. PICK k \in 1 .. Len(cache') :
         /\ k \in Slots => cache[k] = NULL
         /\ cache'[k] = Entry(f, p, 0)
         /\ \A i \in 1 .. Len(cache') :
               i # k => i \in Slots /\ cache'[i] = Evict(S)[i]
  <2> DEFINE c == Place(S, f, p)
  <2>1. cache' = c /\ f \in Files
    BY <1>3
  <2>2. \E k \in 1 .. Len(c) :
           /\ k \in Slots => cache[k] = NULL
           /\ c[k] = Entry(f, p, 0)
           /\ \A i \in 1 .. Len(c) :
                 i # k => i \in Slots /\ c[i] = Evict(S)[i]
    BY <1>1, <1>2, <2>1, PlaceSeq, Zenon
  <2> HIDE DEF c
  <2> QED BY <2>1, <2>2
<1>9. \A i \in Slots : Evict(S)[i] = IF i \in S THEN NULL ELSE cache[i]
  BY <1>1, EvictSeq
<1>10. Entry(f, p, 0) \in SlotType /\ Entry(f, p, 0) # NULL
  BY <1>2, CacheAssumption, NullFileAssumption DEF Entry, SlotType
<1>11. /\ k \in Cached' /\ k \notin Cached
       /\ \A i \in Cached' : i # k => i \in Cached \ S /\ cache'[i] = cache[i]
  BY <1>8, <1>9, <1>10 DEF Cached, Slots
<1>12. \A i \in Cached \ S : i \in Cached' /\ i # k /\ cache'[i] = cache[i]
  <2> SUFFICES ASSUME NEW i \in Cached \ S
               PROVE  i \in Cached' /\ i # k /\ cache'[i] = cache[i]
    OBVIOUS
  <2>1. i \in Slots /\ cache[i] # NULL /\ i # k
    BY <1>11 DEF Cached
  <2>2. i \in 1 .. Len(cache')
    BY <2>1, <1>1, <1>7 DEF Slots
  <2> QED BY <2>1, <2>2, <1>8, <1>9 DEF Cached, Slots
<1>13. \A i \in Cached \ S : cache[i].rf \in open \ closed /\ cache[i].pos # p
  <2> SUFFICES ASSUME NEW i \in Cached \ S
               PROVE  cache[i].rf \in open \ closed /\ cache[i].pos # p
    OBVIOUS
  <2>1. cache[i].rf \in open
    BY DEF CacheSound
  <2>2. \A j \in S : cache[j].rf # cache[i].rf
    BY <1>5 DEF CacheSound
  <2>3. cache[i].pos # p
    BY <1>4 DEF Hits, Cached
  <2> QED BY <2>1, <2>2, <2>3
<1>14. cache'[k].rf = f /\ cache'[k].pos = p
  BY <1>8 DEF Entry
<1>15. \A i, j \in Cached' :
          cache'[i].pos = cache'[j].pos \/ cache'[i].rf = cache'[j].rf => i = j
  <2> SUFFICES ASSUME NEW i \in Cached', NEW j \in Cached', i # j
               PROVE  cache'[i].pos # cache'[j].pos /\ cache'[i].rf # cache'[j].rf
    OBVIOUS
  <2>1. CASE i = k
    BY <2>1, <1>3, <1>11, <1>13, <1>14
  <2>2. CASE j = k
    BY <2>2, <1>3, <1>11, <1>13, <1>14
  <2>3. CASE i # k /\ j # k
    BY <2>3, <1>11 DEF CacheSound
  <2> QED BY <2>1, <2>2, <2>3
<1>16. open' = {cache'[i].rf : i \in Cached'}
  <2>1. ASSUME NEW g \in open' PROVE g \in {cache'[i].rf : i \in Cached'}
    <3>1. CASE g = f
      BY <3>1, <1>11, <1>14
    <3>2. CASE g \in open \ closed
      <4>1. PICK i \in Cached : g = cache[i].rf
        BY <3>2 DEF CacheSound
      <4>2. i \notin S
        BY <3>2, <4>1
      <4> QED BY <4>1, <4>2, <1>12
    <3> QED BY <3>1, <3>2, <1>3
  <2>2. ASSUME NEW i \in Cached' PROVE cache'[i].rf \in open'
    BY <1>3, <1>11, <1>13, <1>14
  <2> QED BY <2>1, <2>2
<1>17. CacheSound'
  BY <1>15, <1>16 DEF CacheSound
<1>18. Length'
  <2>1. CASE Len(cache) <= CacheMax
    BY <2>1, <1>1, <1>7, CacheAssumption DEF Length
  <2>2. CASE Len(cache) > CacheMax
    <3>1. \A i \in Cached' : i = k
      BY <2>2, <1>6, <1>11
    <3>2. CASE Len(cache) = CacheMax + 1
      BY <3>1, <3>2, <1>7, CacheAssumption DEF Length
    <3>3. CASE Len(cache) = CacheMax + 2
      <4>1. 1 \in Slots /\ 2 \in Slots
        BY <3>3, CacheAssumption DEF Slots
      <4>2. ~(1 \in Cached /\ 2 \in Cached)
        BY <3>3 DEF Length
      <4>3. Empties # {}
        BY <4>1, <4>2 DEF Empties, Cached
      <4> QED BY <3>1, <3>3, <4>3, <1>7, CacheAssumption DEF Length
    <3> QED BY <2>2, <3>2, <3>3, <1>1, CacheAssumption DEF Length
  <2> QED BY <2>1, <2>2, <1>1, CacheAssumption
<1>19. TypeOK'
  BY <1>3, <1>4, <1>7 DEF TypeOK, CacheSeq, Labels
<1>20. HasFile(u)'
  <2>1. rf'[u] = f /\ want'[u] = p
    BY <1>3, <1>4 DEF TypeOK, p
  <2> QED BY <2>1, <1>11, <1>14 DEF HasFile
<1> QED BY <1>17, <1>18, <1>19, <1>20

\* clod_region_close closes every cached file.
LEMMA CloseStep ==
    ASSUME TypeOK, CacheSound, clod_region_close
    PROVE  TypeOK' /\ CacheSound' /\ Length'
<1>1. Slots \ Empties = Cached
  BY DEF Empties, Cached
<1>2. /\ open' = open \ {cache[i].rf : i \in Cached}
      /\ cache' = <<>>
      /\ handle' = "closed"
      /\ readers' \in [Files -> SUBSET Threads]
      /\ stale' \subseteq Threads
      /\ UNCHANGED <<inside, mtx, pc, want, rf>>
  BY <1>1 DEF clod_region_close, CloseSlots, TypeOK
<1>3. open' = {}
  BY <1>2 DEF CacheSound
<1>4. cache' \in CacheSeq /\ Len(cache') = 0
  BY <1>2, EmptySeq DEF CacheSeq
<1>5. Cached' = {}
  BY <1>4 DEF Cached, Slots
<1> QED BY <1>2, <1>3, <1>4, <1>5, CacheAssumption DEF TypeOK, CacheSeq, CacheSound, Length

\* Time passes.
LEMMA TickStep ==
    ASSUME TypeOK, CacheSound, Length, Tick
    PROVE  /\ TypeOK' /\ CacheSound' /\ Length'
           /\ \A u \in Threads : HasFile(u) => HasFile(u)'
<1>1. Len(cache) \in Nat /\ \A i \in Slots : cache[i] \in SlotType \cup {NULL}
  BY LenProperties, ElementOfSeq DEF TypeOK, Slots
<1> DEFINE older(i) == Entry(cache[i].rf, cache[i].pos, cache[i].age + 1)
           c == [i \in Slots |->
                    IF cache[i] # NULL /\ cache[i].age < EvictableMax
                    THEN older(i) ELSE cache[i]]
<1>2. cache' = c /\ UNCHANGED <<handle, inside, mtx, open, readers, pc, want, rf, stale>>
  BY DEF Tick
<1>3. \A i \in Slots : cache[i] # NULL /\ cache[i].age < EvictableMax =>
         /\ older(i) \in SlotType /\ older(i) # NULL
         /\ older(i).rf = cache[i].rf /\ older(i).pos = cache[i].pos
  BY <1>1, CacheAssumption, NullFileAssumption DEF Entry, SlotType
<1> HIDE DEF older
<1>4. c \in [1 .. Len(cache) -> SlotType \cup {NULL}]
  BY <1>1, <1>3 DEF Slots
<1>5. c \in CacheSeq
  BY <1>1, <1>4, SeqDef DEF CacheSeq
<1>6. Len(c) = Len(cache)
  <2>1. Len(c) \in Nat /\ DOMAIN c = 1 .. Len(c)
    BY <1>5, LenProperties DEF CacheSeq
  <2>2. DOMAIN c = 1 .. Len(cache)
    BY DEF Slots
  <2> HIDE DEF c
  <2> QED BY <2>1, <2>2, <1>1, IntervalLength
<1>7. \A i \in Slots :
         /\ cache'[i] = NULL <=> cache[i] = NULL
         /\ cache[i] # NULL => cache'[i].rf = cache[i].rf /\ cache'[i].pos = cache[i].pos
  BY <1>2, <1>3
<1> HIDE DEF c
<1>8. CacheSound' /\ Length'
  <2>1. open' = open \ {cache[i].rf : i \in {}}
    BY <1>2
  <2> QED BY <1>2, <1>5, <1>6, <1>7, <2>1, SubCache
<1>9. TypeOK'
  BY <1>2, <1>5 DEF TypeOK, CacheSeq
<1>10. \A u \in Threads : HasFile(u) => HasFile(u)'
  <2>1. \A i \in Cached : /\ i \in Cached'
                          /\ cache'[i].rf = cache[i].rf /\ cache'[i].pos = cache[i].pos
    BY <1>2, <1>6, <1>7 DEF Cached, Slots
  <2> QED BY <1>2, <2>1 DEF HasFile
<1> QED BY <1>8, <1>9, <1>10

-----------------------------------------------------------------------------
(* The steps.                                                              *)

\* region_file_get, whichever way it ends.
LEMMA GetStep ==
    ASSUME IInv, NEW u \in Threads, region_file_get(u)
    PROVE  /\ TypeOK' /\ CacheSound' /\ Length'
           /\ pc[u] = "get" /\ \E l \in {"fail", "rdlock"} : pc' = [pc EXCEPT ![u] = l]
           /\ UNCHANGED <<handle, inside, mtx, want>>
<1>1. TypeOK /\ CacheSound /\ Length /\ Wants /\ pc[u] = "get"
  BY DEF IInv, region_file_get
<1>2. ASSUME NEW S, S \subseteq Cached, cache' = Evict(S), CloseSlots(S), Fail(u)
      PROVE  TypeOK' /\ CacheSound' /\ Length'
  <2>1. /\ cache' \in CacheSeq
        /\ open' \subseteq Files
        /\ readers' \in [Files -> SUBSET Threads]
        /\ stale' \subseteq Threads
        /\ CacheSound' /\ Length'
    BY <1>1, <1>2, EvictStep
  <2> QED BY <1>1, <1>2, <2>1 DEF TypeOK, CacheSeq, Fail, Labels
<1>3. CASE GetNoClock(u)
  <2>1. TypeOK'
    BY <1>1, <1>3 DEF TypeOK, GetNoClock, Fail, Labels
  <2>2. CacheSound' /\ Length'
    BY <1>1, <1>3 DEF CacheSound, Length, Cached, Slots, GetNoClock
  <2> QED BY <1>1, <1>3, <2>1, <2>2 DEF GetNoClock, Fail
<1>4. CASE GetCloseFails(u)
  <2>1. PICK i \in Evictable(want[u]) :
           LET S == {j \in Evictable(want[u]) : j <= i}
           IN  cache' = Evict(S) /\ CloseSlots(S) /\ Fail(u)
    BY <1>4 DEF GetCloseFails
  <2>2. {j \in Evictable(want[u]) : j <= i} \subseteq Cached
    BY EvictableCached
  <2>3. TypeOK' /\ CacheSound' /\ Length'
    BY <2>1, <2>2, <1>2
  <2> QED BY <1>1, <2>1, <2>3 DEF Fail
<1>5. CASE GetOpenFails(u)
  <2>1. TypeOK' /\ CacheSound' /\ Length'
    BY <1>5, <1>2, EvictableCached DEF GetOpenFails
  <2> QED BY <1>1, <1>5, <2>1 DEF GetOpenFails, Fail
<1>6. CASE GetHit(u)
  BY <1>1, <1>6, HitStep DEF GetHit
<1>7. CASE GetMiss(u)
  BY <1>1, <1>7, MissStep DEF GetMiss
<1> QED BY <1>3, <1>4, <1>5, <1>6, <1>7 DEF region_file_get

\* A step that leaves the cache and the open files alone.
LEMMA CacheUnchanged ==
    ASSUME CacheSound, Length, UNCHANGED <<cache, open>>
    PROVE  CacheSound' /\ Length'
BY DEF CacheSound, Length, Cached, Slots

\* A step of thread u that moves from one place in the call to another one in
\* the call does not change who is in a call.
LEMMA InsideUnchanged ==
    ASSUME TypeOK, InsideCounts, NEW u \in Threads, pc[u] # "out",
           NEW l \in Labels \ {"out"}, pc' = [pc EXCEPT ![u] = l],
           UNCHANGED <<handle, inside>>
    PROVE  InsideCounts'
<1>1. \A v \in Threads : pc'[v] = "out" <=> pc[v] = "out"
  BY DEF TypeOK
<1>2. {v \in Threads : pc'[v] # "out"} = {v \in Threads : pc[v] # "out"}
  BY <1>1
<1> QED BY <1>1, <1>2 DEF InsideCounts

\* A step inside a call: the cases for the mutex.
LEMMA MutexStep ==
    ASSUME TypeOK, MutexHeld, NEW u \in Threads, NEW l \in Labels,
           pc' = [pc EXCEPT ![u] = l],
           \/ /\ mtx = NULL /\ mtx' = u
              /\ l \in {"get", "rdlock", "unlock", "fail"}
           \/ /\ mtx = u /\ mtx' = NULL
              /\ l \notin {"get", "rdlock", "unlock", "fail"}
           \/ /\ mtx' = mtx
              /\ l \in {"get", "rdlock", "unlock", "fail"} <=> Critical(u)
    PROVE  MutexHeld'
<1>1. \A v \in Threads : pc'[v] = IF v = u THEN l ELSE pc[v]
  BY DEF TypeOK
<1>2. NULL \notin Threads
  BY NullFileAssumption
<1> QED BY <1>1, <1>2 DEF MutexHeld, Critical

\* The steps of a thread's call.
LEMMA StepInv ==
    ASSUME IInv, NEW u \in Threads, Step(u)
    PROVE  IInv'
<1>1. TypeOK /\ Wants /\ MutexHeld /\ InsideCounts /\ CacheSound /\ Length
  BY DEF IInv
<1>10. pc[u] # "out"
  BY DEF Step, Lock, region_file_get, RdLock, Unlock, FileGet, FileGetFaults, Leave
<1>11. handle # "closed"
  BY <1>1, <1>10 DEF InsideCounts
<1>12. handle' # "closed"
  <2>1. CASE region_file_get(u)
    BY <1>11, <2>1, GetStep
  <2> QED BY <1>11, <2>1 DEF Step, Lock, RdLock, Unlock, FileGet, FileGetFaults, Leave
<1>13. ClosedEmpty'
  BY <1>12 DEF ClosedEmpty
<1>2. CASE Lock(u)
  <2>1. TypeOK' /\ Wants'
    BY <1>1, <1>2 DEF TypeOK, Wants, Lock, Goto, Labels
  <2>2. MutexHeld'
    BY <1>1, <1>2, MutexStep DEF Lock, Goto, Labels
  <2>3. InsideCounts'
    BY <1>1, <1>2, InsideUnchanged DEF Lock, Goto, Labels
  <2>4. CacheSound' /\ Length'
    BY <1>1, <1>2, CacheUnchanged DEF Lock
  <2> QED BY <1>13, <2>1, <2>2, <2>3, <2>4 DEF IInv
<1>3. CASE region_file_get(u)
  <2>1. /\ TypeOK' /\ CacheSound' /\ Length'
        /\ pc[u] = "get"
        /\ UNCHANGED <<handle, inside, mtx, want>>
    BY <1>3, GetStep
  <2>2. PICK l \in {"fail", "rdlock"} : pc' = [pc EXCEPT ![u] = l]
    BY <1>3, GetStep
  <2>3. Wants'
    BY <1>1, <2>1, <2>2 DEF Wants, TypeOK
  <2>4. MutexHeld'
    BY <1>1, <2>1, <2>2, MutexStep DEF Critical, Labels
  <2>5. InsideCounts'
    BY <1>1, <2>1, <2>2, InsideUnchanged DEF Labels
  <2> QED BY <1>13, <2>1, <2>3, <2>4, <2>5 DEF IInv
<1>4. CASE RdLock(u)
  <2>1. TypeOK' /\ Wants'
    BY <1>1, <1>4 DEF TypeOK, Wants, RdLock, Goto, Labels
  <2>2. MutexHeld'
    BY <1>1, <1>4, MutexStep DEF RdLock, Goto, Labels, Critical
  <2>3. InsideCounts'
    BY <1>1, <1>4, InsideUnchanged DEF RdLock, Goto, Labels
  <2>4. CacheSound' /\ Length'
    BY <1>1, <1>4, CacheUnchanged DEF RdLock
  <2> QED BY <1>13, <2>1, <2>2, <2>3, <2>4 DEF IInv
<1>5. CASE Unlock(u)
  <2>1. PICK l \in {"file_get", "leave"} : pc' = [pc EXCEPT ![u] = l]
    BY <1>5 DEF Unlock, Goto
  <2>2. TypeOK' /\ Wants'
    BY <1>1, <1>5, <2>1 DEF TypeOK, Wants, Unlock, Labels
  <2>3. mtx = u
    BY <1>1, <1>5 DEF MutexHeld, Critical, Unlock
  <2>4. MutexHeld'
    BY <1>1, <1>5, <2>1, <2>3, MutexStep DEF Unlock, Labels
  <2>5. InsideCounts'
    BY <1>1, <1>5, <2>1, InsideUnchanged DEF Unlock, Labels
  <2>6. CacheSound' /\ Length'
    BY <1>1, <1>5, CacheUnchanged DEF Unlock
  <2> QED BY <1>13, <2>2, <2>4, <2>5, <2>6 DEF IInv
<1>6. CASE FileGet(u)
  <2>1. TypeOK' /\ Wants'
    BY <1>1, <1>6 DEF TypeOK, Wants, FileGet, Goto, Labels
  <2>2. MutexHeld'
    BY <1>1, <1>6, MutexStep DEF FileGet, Goto, Labels, Critical
  <2>3. InsideCounts'
    BY <1>1, <1>6, InsideUnchanged DEF FileGet, Goto, Labels
  <2>4. CacheSound' /\ Length'
    BY <1>1, <1>6, CacheUnchanged DEF FileGet
  <2> QED BY <1>13, <2>1, <2>2, <2>3, <2>4 DEF IInv
<1>7. CASE FileGetFaults(u)
  <2>1. TypeOK' /\ Wants' /\ MutexHeld' /\ InsideCounts'
    BY <1>1, <1>7 DEF TypeOK, Wants, MutexHeld, Critical, InsideCounts, FileGetFaults
  <2>2. CacheSound' /\ Length'
    BY <1>1, <1>7, CacheUnchanged DEF FileGetFaults
  <2> QED BY <1>13, <2>1, <2>2 DEF IInv
<1>8. CASE Leave(u)
  <2> DEFINE in == {v \in Threads : pc[v] # "out"}
  <2>1. \A v \in Threads : pc'[v] = IF v = u THEN "out" ELSE pc[v]
    BY <1>1, <1>8 DEF TypeOK, Leave, Goto
  <2>2. in' = in \ {u} /\ u \in in
    BY <2>1, <1>8 DEF Leave
  <2>3. IsFiniteSet(in)
    BY ThreadsAssumption, FS_Subset
  <2>4. Cardinality(in) \in Nat /\ Cardinality(in \ {u}) \in Nat
        /\ Cardinality(in \ {u}) = Cardinality(in) - 1
    BY <2>2, <2>3, FS_RemoveElement, FS_CardinalityType
  <2>5. inside = Cardinality(in) /\ inside' = inside - 1
    BY <1>1, <1>8 DEF InsideCounts, Leave
  <2>6. handle' = "closed" => \A v \in Threads : pc'[v] = "out"
    BY <1>1, <1>8, <2>1 DEF InsideCounts, Leave
  <2>7. InsideCounts'
    BY <2>2, <2>4, <2>5, <2>6 DEF InsideCounts
  <2>8. TypeOK'
    BY <1>1, <1>8, <2>4, <2>5 DEF TypeOK, Leave, Goto, Labels
  <2>9. Wants'
    BY <1>1, <1>8, <2>1 DEF Wants, TypeOK, Leave
  <2>10. MutexHeld'
    BY <1>1, <1>8, MutexStep DEF Leave, Goto, Labels, Critical
  <2>11. CacheSound' /\ Length'
    BY <1>1, <1>8, CacheUnchanged DEF Leave
  <2> QED BY <1>13, <2>7, <2>8, <2>9, <2>10, <2>11 DEF IInv
<1> QED BY <1>2, <1>3, <1>4, <1>5, <1>6, <1>7, <1>8 DEF Step

\* A thread enters a call.
LEMMA EnterInv ==
    ASSUME IInv, NEW u \in Threads, NEW p \in Positions, Enter(u, p)
    PROVE  IInv'
<1>1. TypeOK /\ Wants /\ MutexHeld /\ InsideCounts /\ CacheSound /\ Length
  BY DEF IInv
<1> DEFINE in == {v \in Threads : pc[v] # "out"}
<1>2. \A v \in Threads : pc'[v] = IF v = u THEN "lock" ELSE pc[v]
  BY <1>1 DEF TypeOK, Enter, Goto
<1>3. in' = in \cup {u} /\ u \notin in
  BY <1>2 DEF Enter
<1>4. IsFiniteSet(in)
  BY ThreadsAssumption, FS_Subset
<1>5. Cardinality(in \cup {u}) = Cardinality(in) + 1
  BY <1>3, <1>4, FS_AddElement
<1>6. InsideCounts'
  BY <1>1, <1>3, <1>5 DEF InsideCounts, Enter
<1>7. TypeOK' /\ Wants'
  BY <1>1 DEF TypeOK, Wants, Enter, Goto, Labels
<1>8. MutexHeld'
  BY <1>1, MutexStep DEF Enter, Goto, Labels, Critical
<1>9. CacheSound' /\ Length'
  BY <1>1, CacheUnchanged DEF Enter
<1>10. ClosedEmpty'
  BY DEF ClosedEmpty, Enter
<1> QED BY <1>6, <1>7, <1>8, <1>9, <1>10 DEF IInv

\* The handle is opened: no thread is in a call and nothing is open.
LEMMA OpenInv ==
    ASSUME IInv, clod_region_open
    PROVE  IInv'
<1>1. TypeOK /\ Wants /\ MutexHeld /\ InsideCounts /\ CacheSound /\ Length
  BY DEF IInv
<1>2. cache = <<>> /\ \A v \in Threads : pc[v] = "out"
  BY DEF IInv, ClosedEmpty, InsideCounts, clod_region_open
<1>3. /\ UNCHANGED <<cache, open, readers, pc, want, rf, stale>>
      /\ handle' = "open" /\ inside' = 0 /\ mtx' = NULL
  BY <1>2 DEF clod_region_open
<1>4. TypeOK' /\ Wants' /\ ClosedEmpty'
  BY <1>1, <1>3 DEF TypeOK, Wants, ClosedEmpty
<1>5. MutexHeld'
  BY <1>2, <1>3, NullFileAssumption DEF MutexHeld, Critical
<1>6. InsideCounts'
  <2>1. {v \in Threads : pc'[v] # "out"} = {}
    BY <1>2, <1>3
  <2> QED BY <2>1, <1>3, FS_EmptySet DEF InsideCounts
<1>7. CacheSound' /\ Length'
  BY <1>1, <1>3, CacheUnchanged
<1> QED BY <1>4, <1>5, <1>6, <1>7 DEF IInv

\* The handle is closed: a count of 0 means that no thread is in a call.
LEMMA CloseInv ==
    ASSUME IInv, clod_region_close
    PROVE  IInv'
<1>1. TypeOK /\ Wants /\ MutexHeld /\ InsideCounts /\ CacheSound /\ Length
  BY DEF IInv
<1>2. TypeOK' /\ CacheSound' /\ Length'
  BY <1>1, CloseStep
<1>3. inside = 0 /\ handle' = "closed" /\ cache' = <<>> /\ UNCHANGED <<inside, mtx, pc, want, rf>>
  BY DEF clod_region_close
<1>4. Wants' /\ MutexHeld' /\ ClosedEmpty'
  BY <1>1, <1>3 DEF Wants, MutexHeld, Critical, ClosedEmpty
<1>5. {v \in Threads : pc[v] # "out"} = {}
  <2>1. IsFiniteSet({v \in Threads : pc[v] # "out"})
    BY ThreadsAssumption, FS_Subset
  <2> QED BY <2>1, <1>1, <1>3, FS_EmptySet DEF InsideCounts
<1>6. InsideCounts'
  BY <1>1, <1>3, <1>5 DEF InsideCounts
<1> QED BY <1>2, <1>4, <1>6 DEF IInv

\* Steps that change neither threads nor the count: exit(), time, stuttering.
LEMMA OtherInv ==
    ASSUME IInv, clod_region_close_in_use \/ Tick \/ UNCHANGED vars
    PROVE  IInv'
<1>1. TypeOK /\ Wants /\ MutexHeld /\ InsideCounts /\ CacheSound /\ Length
  BY DEF IInv
<1>2. UNCHANGED <<inside, mtx, pc, want>> /\ handle' \in {handle, "exited"}
  BY DEF clod_region_close_in_use, Tick, vars
<1>3. Wants' /\ MutexHeld'
  BY <1>1, <1>2 DEF Wants, MutexHeld, Critical
<1>4. InsideCounts'
  BY <1>1, <1>2 DEF InsideCounts
<1>5. ClosedEmpty'
  BY DEF IInv, ClosedEmpty, clod_region_close_in_use, Tick, vars
<1>6. TypeOK' /\ CacheSound' /\ Length'
  <2>1. CASE Tick
    BY <1>1, <2>1, TickStep
  <2>2. CASE clod_region_close_in_use \/ UNCHANGED vars
    <3>1. TypeOK'
      BY <1>1, <2>2 DEF TypeOK, clod_region_close_in_use, vars
    <3>2. CacheSound' /\ Length'
      BY <1>1, <2>2, CacheUnchanged DEF clod_region_close_in_use, vars
    <3> QED BY <3>1, <3>2
  <2> QED BY <2>1, <2>2
<1> QED BY <1>3, <1>4, <1>5, <1>6 DEF IInv

\* The initial state.
LEMMA InitInv ==
    ASSUME Init
    PROVE  IInv
<1>1. cache \in CacheSeq /\ Len(cache) = 0
  BY EmptySeq DEF Init, CacheSeq
<1>2. Cached = {}
  BY <1>1 DEF Cached, Slots
<1>3. TypeOK /\ Wants /\ ClosedEmpty
  BY <1>1 DEF Init, TypeOK, CacheSeq, Wants, ClosedEmpty, Labels
<1>4. MutexHeld
  BY NullFileAssumption DEF Init, MutexHeld, Critical
<1>5. InsideCounts
  <2>1. {v \in Threads : pc[v] # "out"} = {}
    BY DEF Init
  <2> QED BY <2>1, FS_EmptySet DEF Init, InsideCounts
<1>6. CacheSound /\ Length
  BY <1>1, <1>2, CacheAssumption DEF Init, CacheSound, Length
<1> QED BY <1>3, <1>4, <1>5, <1>6 DEF IInv

-----------------------------------------------------------------------------
(* The theorems.                                                           *)

\* The inductive invariant holds in every reachable state.
THEOREM Invariance == Spec => []IInv
<1>1. Init => IInv
  BY InitInv
<1>2. IInv /\ [Next]_vars => IInv'
  BY StepInv, EnterInv, OpenInv, CloseInv, OtherInv DEF Next
<1> QED BY <1>1, <1>2, PTL DEF Spec

\* The variables of a region handle keep their types; `inside' is never
\* negative, as REGION_PUBLIC_LEAVE asserts.
THEOREM TypeCorrect == Spec => []TypeOK
<1>1. IInv => TypeOK
  BY DEF IInv
<1> QED BY <1>1, Invariance, PTL

\* A thread is between mutex_lock and mutex_unlock exactly when it owns the
\* global mutex, for any number of threads and on every error path.
THEOREM MutualExclusion == Spec => []MutexHeld
<1>1. IInv => MutexHeld
  BY DEF IInv
<1> QED BY <1>1, Invariance, PTL

\* `inside' is the number of threads in a call, and no thread is in a call of
\* a closed handle.
THEOREM CountCorrect == Spec => []InsideCounts
<1>1. IInv => InsideCounts
  BY DEF IInv
<1> QED BY <1>1, Invariance, PTL

\* The open files are exactly the cached ones, one for each position: nothing
\* leaks and nothing is closed twice, however region_file_get ends.
THEOREM CacheCorrect == Spec => []CacheSound
<1>1. IInv => CacheSound
  BY DEF IInv
<1> QED BY <1>1, Invariance, PTL

\* A thread has a file only from region_file_get to file_get.
Fresh ==
    \A u \in Threads :
        pc[u] \notin {"rdlock", "unlock", "file_get"} => rf[u] = NULL /\ u \notin stale

\* Closing files makes no thread stale that has no file.
LEMMA StaleOnlyHolders ==
    ASSUME TypeOK, NEW S, S \subseteq Cached, NEW u \in Threads, rf[u] = NULL,
           u \notin stale, stale' = stale \cup {v \in Threads : rf[v] \in {cache[i].rf : i \in S}}
    PROVE  u \notin stale'
<1>1. \A i \in S : cache[i].rf \in Files
  <2>1. \A i \in Slots : cache[i] \in SlotType \cup {NULL}
    BY ElementOfSeq DEF TypeOK, Slots
  <2> QED BY <2>1 DEF Cached, SlotType
<1> QED BY <1>1, NullFileAssumption

\* region_file_get makes stale only threads that are past the mutex with a file,
\* and gives its caller the file of its position.
LEMMA GetFile ==
    ASSUME IInv, Fresh, GotItsFile, NEW u \in Threads, region_file_get(u)
    PROVE  Fresh' /\ GotItsFile'
<1>1. TypeOK /\ CacheSound /\ Length /\ Wants /\ MutexHeld /\ pc[u] = "get"
  BY DEF IInv, region_file_get
<1>2. rf[u] = NULL /\ u \notin stale
  BY <1>1 DEF Fresh
<1>3. \A v \in Threads : v # u => pc[v] \notin {"get", "rdlock", "unlock"}
  BY <1>1 DEF MutexHeld, Critical
<1>4. PICK S \in SUBSET Cached :
         stale' = stale \cup {v \in Threads : rf[v] \in {cache[i].rf : i \in S}}
  <2>1. CASE GetNoClock(u)
    <3>1. stale' = stale \cup {v \in Threads : rf[v] \in {cache[i].rf : i \in {}}}
      BY <2>1 DEF GetNoClock
    <3> QED BY <3>1
  <2>2. CASE GetCloseFails(u)
    <3>1. PICK i \in Evictable(want[u]) : CloseSlots({j \in Evictable(want[u]) : j <= i})
      BY <2>2 DEF GetCloseFails
    <3> QED BY <3>1, EvictableCached DEF CloseSlots
  <2>3. CASE GetOpenFails(u) \/ GetHit(u)
    BY <2>3, EvictableCached DEF GetOpenFails, GetHit, CloseSlots
  <2>4. CASE GetMiss(u)
    BY <2>4, EvictableCached DEF GetMiss
  <2> QED BY <2>1, <2>2, <2>3, <2>4 DEF region_file_get
<1>5. \A v \in Threads : rf[v] = NULL /\ v \notin stale => v \notin stale'
  BY <1>1, <1>4, StaleOnlyHolders
<1>6. \A v \in Threads : v # u => rf'[v] = rf[v] /\ pc'[v] = pc[v]
  BY <1>1 DEF TypeOK, region_file_get, GetNoClock, GetCloseFails, GetOpenFails, Fail, GetHit, GetMiss
<1>7. CASE GetNoClock(u) \/ GetCloseFails(u) \/ GetOpenFails(u)
  <2>1. pc'[u] = "fail" /\ rf' = rf
    BY <1>1, <1>7 DEF TypeOK, GetNoClock, GetCloseFails, GetOpenFails, Fail
  <2>2. Fresh'
    BY <2>1, <1>2, <1>5, <1>6 DEF Fresh
  <2>3. GotItsFile'
    BY <2>1, <1>3, <1>6 DEF GotItsFile
  <2> QED BY <2>2, <2>3
<1>8. CASE GetHit(u) \/ GetMiss(u)
  <2>1. pc'[u] = "rdlock"
    BY <1>1, <1>8 DEF TypeOK, GetHit, GetMiss
  <2>2. HasFile(u)'
    BY <1>1, <1>8, HitStep, MissStep
  <2>3. Fresh'
    BY <2>1, <1>5, <1>6 DEF Fresh
  <2>4. GotItsFile'
    BY <2>1, <2>2, <1>2, <1>3, <1>5, <1>6 DEF GotItsFile, HasFile
  <2> QED BY <2>3, <2>4
<1> QED BY <1>7, <1>8 DEF region_file_get

\* Every step.
LEMMA GotItsFileStep ==
    ASSUME IInv, Fresh, GotItsFile, [Next]_vars
    PROVE  Fresh' /\ GotItsFile'
<1>1. TypeOK /\ CacheSound /\ Length /\ Wants /\ MutexHeld /\ InsideCounts
  BY DEF IInv
<1>2. ASSUME NEW u \in Threads, Step(u)
      PROVE  Fresh' /\ GotItsFile'
  <2>1. CASE region_file_get(u)
    BY <2>1, GetFile
  <2>2. CASE ~region_file_get(u)
    <3>1. UNCHANGED <<cache>> /\ \A v \in Threads : v # u => pc'[v] = pc[v] /\ want'[v] = want[v] /\ rf'[v] = rf[v]
      BY <1>1, <1>2, <2>2 DEF TypeOK, Step, Lock, RdLock, Unlock, FileGet, FileGetFaults, Leave, Goto
    <3>2. /\ stale' \in {stale, stale \ {u}}
          /\ Fresh'
      BY <1>1, <1>2, <2>2 DEF TypeOK, Step, Lock, RdLock, Unlock, FileGet, FileGetFaults, Leave, Goto, Fresh
    <3>3. pc'[u] \in {"rdlock", "unlock"} =>
             pc[u] \in {"rdlock", "unlock"} /\ want'[u] = want[u] /\ rf'[u] = rf[u]
      BY <1>1, <1>2, <2>2 DEF TypeOK, Step, Lock, RdLock, Unlock, FileGet, FileGetFaults, Leave, Goto
    <3> QED BY <3>1, <3>2, <3>3 DEF GotItsFile, Cached, Slots
  <2> QED BY <2>1, <2>2
<1>3. ASSUME NEW u \in Threads, NEW p \in Positions, Enter(u, p)
      PROVE  Fresh' /\ GotItsFile'
  BY <1>1, <1>3 DEF Enter, Goto, TypeOK, Fresh, GotItsFile, Cached, Slots
<1>4. CASE clod_region_open
  <2>1. \A v \in Threads : pc[v] = "out"
    BY <1>1, <1>4 DEF InsideCounts, clod_region_open
  <2> QED BY <2>1, <1>4 DEF clod_region_open, Fresh, GotItsFile
<1>5. CASE clod_region_close
  <2>1. \A v \in Threads : pc[v] = "out"
    <3>1. IsFiniteSet({v \in Threads : pc[v] # "out"})
      BY ThreadsAssumption, FS_Subset
    <3> QED BY <3>1, <1>1, <1>5, FS_EmptySet DEF InsideCounts, clod_region_close
  <2>2. \A v \in Threads : v \notin stale' /\ rf'[v] = NULL
    <3>1. Slots \ Empties \subseteq Cached
      BY DEF Empties, Cached
    <3> QED BY <3>1, <2>1, <1>1, <1>5, StaleOnlyHolders DEF Fresh, clod_region_close, CloseSlots
  <2> QED BY <2>1, <2>2, <1>5 DEF clod_region_close, Fresh, GotItsFile
<1>6. CASE clod_region_close_in_use \/ UNCHANGED vars
  BY <1>6 DEF clod_region_close_in_use, vars, Fresh, GotItsFile, Cached, Slots
<1>7. CASE Tick
  <2>1. \A v \in Threads : HasFile(v) => HasFile(v)'
    BY <1>1, <1>7, TickStep
  <2> QED BY <2>1, <1>7 DEF Tick, Fresh, GotItsFile, HasFile
<1> QED BY <1>2, <1>3, <1>4, <1>5, <1>6, <1>7 DEF Next

\* A thread that holds the mutex after region_file_get has the cached, open
\* file of the position it asked for: neither another thread's scan nor
\* clod_region_close can take it away before the mutex is released.
THEOREM FileCorrect == Spec => []GotItsFile
<1>1. Init => Fresh /\ GotItsFile
  BY DEF Init, Fresh, GotItsFile
<1>2. IInv /\ Fresh /\ GotItsFile /\ [Next]_vars => (Fresh /\ GotItsFile)'
  BY GotItsFileStep
<1> QED BY <1>1, <1>2, Invariance, PTL DEF Spec

\* The cache never has more than num_procs() + 2 slots nor more than
\* num_procs() + 1 open files.
THEOREM CacheBounded == Spec => []CacheBound
<1>1. IInv => CacheBound
  <2> SUFFICES ASSUME IInv PROVE CacheBound
    OBVIOUS
  <2>1. Len(cache) \in Nat
    BY LenProperties DEF IInv, TypeOK
  <2>2. Len(cache) <= CacheMax + 2
    BY DEF IInv, Length
  <2>3. Len(cache) = CacheMax + 2 => \A i, j \in Cached : i = j
    BY DEF IInv, Length
  <2>4. IsFiniteSet(Slots) /\ Cardinality(Slots) = Len(cache)
    BY <2>1, FS_Interval DEF Slots
  <2>5. Cached \in SUBSET Slots
    BY DEF Cached
  <2>6. IsFiniteSet(Cached) /\ Cardinality(Cached) \in Nat /\ Cardinality(Cached) <= Len(cache)
    BY <2>4, <2>5, FS_Subset, FS_CardinalityType
  <2>7. CASE Len(cache) = CacheMax + 2
    <3>1. CASE Cached = {}
      BY <3>1, <2>2, <2>3, FS_EmptySet, CacheAssumption DEF CacheBound
    <3>2. CASE Cached # {}
      <4>1. PICK i \in Cached : Cached = {i}
        BY <3>2, <2>3, <2>7
      <4>2. Cardinality(Cached) = 1
        BY <4>1, FS_Singleton
      <4> QED BY <4>2, <2>2, <2>3, CacheAssumption DEF CacheBound
    <3> QED BY <3>1, <3>2
  <2>8. CASE Len(cache) # CacheMax + 2
    BY <2>8, <2>1, <2>2, <2>6, CacheAssumption DEF CacheBound
  <2> QED BY <2>7, <2>8
<1> QED BY <1>1, Invariance, PTL
=============================================================================
