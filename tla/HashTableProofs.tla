-------------------------- MODULE HashTableProofs --------------------------
(***************************************************************************)
(* Proofs about HashTable, for all keys, elements, hash functions, minimum *)
(* capacities and addresses: what every step keeps, that the table         *)
(* implements the map of TableMap, so that each call returns what the map  *)
(* would, and that a walk with clod_table_iter is exact (TableIter).       *)
(***************************************************************************)
EXTENDS TableIter, NatLemmas, FiniteSetTheorems

-----------------------------------------------------------------------------
(* One table.                                                              *)

TableOK(tb) == TableType(tb) /\ CountersOf(tb) /\ ProbingOf(tb)

\* A key has a home slot and a control byte that is neither EMPTY nor REMOVED.
LEMMA PositionType ==
    ASSUME NEW tb, TableType(tb), tb.table_size > 0, NEW k \in Keys
    PROVE  /\ get_position(tb, k).index \in Slots(tb)
           /\ get_position(tb, k).ctl \in 128 .. 255
<1> DEFINE h == HashOf[tb.addr][k]
<1>1. h \in Nat /\ tb.table_size \in Nat
  BY HashAssumption DEF TableType
<1>2. h \div 128 \in Nat /\ h % 128 \in 0 .. 127
  BY <1>1
<1>3. (h \div 128) % tb.table_size \in 0 .. tb.table_size - 1
  BY <1>1, <1>2, ModRange
<1> QED BY <1>2, <1>3 DEF get_position, CTL_OCCUPIED, Slots

\* The probe stays within the table.
LEMMA ProbeSlotType ==
    ASSUME NEW tb, TableType(tb), tb.table_size > 0,
           NEW pos, pos.index \in Slots(tb), NEW i \in Nat
    PROVE  ProbeSlot(tb, pos, i) \in Slots(tb)
<1>1. tb.table_size \in Nat /\ pos.index + i \in Nat
  BY DEF TableType, Slots
<1> QED BY <1>1, ModRange DEF ProbeSlot, Slots

\* probe returns the slot of a stored key, and only that.
LEMMA ProbeFinds ==
    ASSUME NEW tb, TableType(tb), ProbingOf(tb), tb.table_size > 0, NEW k \in Keys
    PROVE  LET existing == probe(tb, get_position(tb, k), k).existing
           IN  /\ \A i \in Occupied(tb) : KeyAt(tb, i) = k => existing = i
               /\ existing # INDEX_NIL =>
                     existing \in Occupied(tb) /\ KeyAt(tb, existing) = k
<1> DEFINE pos == get_position(tb, k)
           stops == Stops(tb, pos, k)
           at == ProbeSlot(tb, pos, Min(stops))
<1>1. pos.index \in Slots(tb) /\ pos.ctl \in 128 .. 255
  BY PositionType
<1>2. stops \subseteq Nat
  BY DEF Stops, Slots, TableType
<1>3. probe(tb, pos, k).existing =
        IF stops # {} /\ tb.control[at] # CTL_EMPTY THEN at ELSE INDEX_NIL
  BY DEF probe
<1>4. ASSUME stops # {}, tb.control[at] # CTL_EMPTY
      PROVE  at \in Occupied(tb) /\ KeyAt(tb, at) = k
  <2>1. Min(stops) \in stops
    BY <1>2, <1>4, MinNat
  <2>2. Min(stops) \in Nat
    BY <2>1, <1>2
  <2>3. at \in Slots(tb)
    BY <1>1, <2>2, ProbeSlotType
  <2>4. tb.control[at] = pos.ctl /\ KeyOf[tb.elements[at]] = k
    BY <2>1, <1>4 DEF Stops, Matches, key_equal
  <2> QED BY <2>3, <2>4, <1>1 DEF Occupied, CTL_IS_OCCUPIED, KeyAt
<1>5. ASSUME NEW i \in Occupied(tb), KeyAt(tb, i) = k
      PROVE  stops # {} /\ tb.control[at] # CTL_EMPTY /\ at = i
  <2>1. tb.control[i] = pos.ctl
    BY <1>5 DEF ProbingOf, Tagged
  <2>2. PICK d \in Slots(tb) : /\ ProbeSlot(tb, pos, d) = i
                               /\ \A c \in 0 .. d - 1 :
                                   tb.control[ProbeSlot(tb, pos, c)] # CTL_EMPTY
    BY <1>5 DEF ProbingOf, Reachable
  <2>3. d \in stops
    BY <2>1, <2>2, <1>5 DEF Stops, Matches, key_equal, KeyAt
  <2>4. Min(stops) \in stops /\ Min(stops) <= d
    BY <2>3, <1>2, MinNat
  <2>5. Min(stops) = d \/ Min(stops) \in 0 .. d - 1
    BY <2>3, <2>4, <1>2
  <2>6. tb.control[at] # CTL_EMPTY
    BY <2>1, <2>2, <2>5, <1>1 DEF CTL_EMPTY
  <2>7. at \in Occupied(tb) /\ KeyAt(tb, at) = k
    BY <2>3, <2>6, <1>4
  <2> QED BY <2>3, <2>6, <2>7, <1>5 DEF ProbingOf, UniqueKeys
<1> QED BY <1>3, <1>4, <1>5

Free(tb, i) == tb.control[i] \in {CTL_EMPTY, CTL_REMOVED}

\* A probe that does not find the key, in a table that is not full, reports a
\* free slot that it reached without meeting an EMPTY slot before.
LEMMA ProbeFree ==
    ASSUME NEW tb, TableType(tb), tb.table_size > 0, NEW k \in Keys,
           probe(tb, get_position(tb, k), k).existing = INDEX_NIL,
           \E i \in Slots(tb) : Free(tb, i)
    PROVE  LET pos == get_position(tb, k)
               av  == probe(tb, pos, k).available
           IN  /\ av \in Slots(tb)
               /\ Free(tb, av)
               /\ \E d \in Slots(tb) :
                     /\ ProbeSlot(tb, pos, d) = av
                     /\ \A c \in 0 .. d - 1 :
                           tb.control[ProbeSlot(tb, pos, c)] # CTL_EMPTY
<1> DEFINE pos == get_position(tb, k)
           stops == Stops(tb, pos, k)
           tombs == Tombstones(tb, pos, k)
           at == ProbeSlot(tb, pos, Min(stops))
           av == probe(tb, pos, k).available
           Good(d) == /\ d \in Slots(tb)
                      /\ Free(tb, ProbeSlot(tb, pos, d))
                      /\ \A c \in 0 .. d - 1 :
                            tb.control[ProbeSlot(tb, pos, c)] # CTL_EMPTY
<1>1. pos.index \in Slots(tb) /\ pos.ctl \in 128 .. 255 /\ tb.table_size \in Nat
  BY PositionType DEF TableType
<1>2. stops \subseteq Slots(tb) /\ tombs \subseteq Slots(tb) /\ Slots(tb) \subseteq Nat
  BY <1>1 DEF Stops, Tombstones, Turns, Slots
<1>3. \A i \in Slots(tb) : ProbeSlot(tb, pos, i) \in Slots(tb)
  BY <1>1, <1>2, ProbeSlotType
<1>4. ~(stops # {} /\ tb.control[at] # CTL_EMPTY)
  <2>1. stops # {} => at \in Slots(tb)
    BY <1>2, <1>3, MinNat
  <2> QED BY <2>1, <1>1 DEF probe, INDEX_NIL, Slots
<1>5. av = Available(tb, pos, k)
  BY <1>4 DEF probe
<1>6. \A c \in Slots(tb) : c \notin stops => tb.control[ProbeSlot(tb, pos, c)] # CTL_EMPTY
  BY DEF Stops
<1>7. CASE tombs # {}
  <2>1. Min(tombs) \in tombs
    BY <1>7, <1>2, MinNat
  <2>2. av = ProbeSlot(tb, pos, Min(tombs))
    BY <1>5, <1>7 DEF Available
  <2>3. tb.control[av] = CTL_REMOVED /\ \A s \in stops : Min(tombs) <= s
    BY <2>1, <2>2 DEF Tombstones, Turns
  <2>4. \A c \in 0 .. Min(tombs) - 1 : c \in Slots(tb) /\ c \notin stops
    BY <2>1, <2>3, <1>1, <1>2 DEF Slots
  <2>5. Good(Min(tombs))
    BY <2>1, <2>2, <2>3, <2>4, <1>2, <1>6 DEF Free
  <2> QED BY <2>5, <2>2, <1>3
<1>8. CASE tombs = {} /\ stops # {}
  <2>1. Min(stops) \in stops /\ \A s \in stops : Min(stops) <= s
    BY <1>8, <1>2, MinNat
  <2>2. av = at
    BY <1>5, <1>8 DEF Available
  <2>3. tb.control[av] = CTL_EMPTY
    BY <2>2, <1>4, <1>8
  <2>4. \A c \in 0 .. Min(stops) - 1 : c \in Slots(tb) /\ c \notin stops
    BY <2>1, <1>1, <1>2 DEF Slots
  <2>5. Good(Min(stops))
    BY <2>1, <2>2, <2>3, <2>4, <1>2, <1>6 DEF Free
  <2> QED BY <2>5, <2>2, <1>3
<1>9. CASE tombs = {} /\ stops = {}
  <2>1. PICK s \in Slots(tb) : Free(tb, s)
    OBVIOUS
  <2>2. PICK i \in Slots(tb) : (i + pos.index) % tb.table_size = s
    <3> HIDE DEF pos
    <3>1. pos.index \in Nat /\ s \in 0 .. tb.table_size - 1
      BY <1>1 DEF Slots
    <3>2. \E i \in 0 .. tb.table_size - 1 : (i + pos.index) % tb.table_size = s
      BY <3>1, <1>1, RotateSurjective
    <3> QED BY <3>2 DEF Slots
  <2>3. ProbeSlot(tb, pos, i) = s
    BY <2>2, <1>1, <1>2 DEF ProbeSlot, Slots
  <2>4. i \in Turns(tb, pos, k)
    BY <1>9 DEF Turns
  <2> QED BY <2>1, <2>3, <2>4, <1>9, <1>6 DEF Free, Tombstones
<1> QED BY <1>7, <1>8, <1>9

\* A table whose counters say so has an EMPTY slot.
LEMMA RoomLeft ==
    ASSUME NEW tb, TableType(tb), CountersOf(tb),
           tb.elem_count < tb.table_size
    PROVE  \E i \in Slots(tb) : Free(tb, i)
<1>1. tb.table_size \in Nat /\ tb.control \in [Slots(tb) -> ControlBytes]
  BY DEF TableType
<1>2. SUFFICES ASSUME \A i \in Slots(tb) : ~Free(tb, i) PROVE FALSE
  OBVIOUS
<1>3. Slots(tb) \subseteq Occupied(tb)
  BY <1>1, <1>2 DEF Free, Occupied, CTL_IS_OCCUPIED, ControlBytes
<1>4. Occupied(tb) = Slots(tb)
  BY <1>3 DEF Occupied
<1>5. Cardinality(Slots(tb)) = tb.table_size
  <2>1. Cardinality(0 .. tb.table_size - 1) =
          IF 0 > tb.table_size - 1 THEN 0 ELSE (tb.table_size - 1) - 0 + 1
    BY <1>1, FS_Interval
  <2> QED BY <2>1, <1>1 DEF Slots
<1> QED BY <1>1, <1>4, <1>5 DEF CountersOf

\* The sets behind the counters are finite.
LEMMA FiniteSlots ==
    ASSUME NEW tb, TableType(tb)
    PROVE  /\ IsFiniteSet(Slots(tb))
           /\ IsFiniteSet(Occupied(tb))
           /\ IsFiniteSet(Removed(tb))
<1>1. tb.table_size \in Nat
  BY DEF TableType
<1>2. IsFiniteSet(Slots(tb))
  BY <1>1, FS_Interval DEF Slots
<1> QED BY <1>2, FS_Subset DEF Occupied, Removed

\* A fresh table.
LEMMA CreateOK ==
    ASSUME NEW size \in Nat, NEW addr \in Addrs \cup {NULL},
           size > 0 => addr \in Addrs
    PROVE  /\ TableOK(create(size, addr))
           /\ Occupied(create(size, addr)) = {}
<1> DEFINE tb == create(size, addr)
<1>1. TableType(tb)
  BY SizeAssumption DEF TableType, create, Table, Slots, ControlBytes, CTL_EMPTY
<1>2. Occupied(tb) = {} /\ Removed(tb) = {}
  BY DEF create, Table, Occupied, Removed, Slots, CTL_EMPTY, CTL_REMOVED, CTL_IS_OCCUPIED
<1>3. CountersOf(tb)
  BY <1>2, FS_EmptySet DEF CountersOf, create, Table
<1>4. ProbingOf(tb)
  <2> HIDE DEF tb
  <2> QED BY <1>2 DEF ProbingOf, Tagged, UniqueKeys, Reachable
<1> QED BY <1>1, <1>2, <1>3, <1>4 DEF TableOK

\* Occupying a free slot that a probe for the key can reach.
LEMMA OccupyOK ==
    ASSUME NEW tb, TableOK(tb), tb.table_size > 0, NEW e \in Elements,
           \A i \in Occupied(tb) : KeyAt(tb, i) # KeyOf[e],
           NEW av \in Slots(tb), Free(tb, av),
           \E d \in Slots(tb) :
              /\ ProbeSlot(tb, get_position(tb, KeyOf[e]), d) = av
              /\ \A c \in 0 .. d - 1 :
                    tb.control[ProbeSlot(tb, get_position(tb, KeyOf[e]), c)] # CTL_EMPTY,
           NEW tb2, tb2 = Occupy(tb, av, get_position(tb, KeyOf[e]).ctl, e)
    PROVE  /\ TableOK(tb2)
           /\ Occupied(tb2) = Occupied(tb) \cup {av}
<1> DEFINE k == KeyOf[e]
           pos == get_position(tb, k)
<1>1. /\ tb.table_size \in Nat
      /\ tb.control \in [Slots(tb) -> ControlBytes]
      /\ tb.elements \in [Slots(tb) -> Elements \cup {NULL}]
      /\ tb.elem_count \in Nat
      /\ tb.deleted_count \in Nat
  BY DEF TableOK, TableType
<1>2. k \in Keys
  BY KeyAssumption
<1>3. pos.ctl \in 128 .. 255
  BY <1>2, PositionType DEF TableOK
<1>4. /\ tb2.table_size = tb.table_size
      /\ tb2.control = [tb.control EXCEPT ![av] = pos.ctl]
      /\ tb2.elements = [tb.elements EXCEPT ![av] = e]
      /\ tb2.elem_count = tb.elem_count + 1
      /\ tb2.deleted_count = IF tb.control[av] = CTL_REMOVED
                             THEN tb.deleted_count - 1 ELSE tb.deleted_count
      /\ tb2.cursor = tb.cursor
      /\ tb2.addr = tb.addr
      /\ tb2 = [table_size |-> tb2.table_size, control |-> tb2.control,
                elements |-> tb2.elements, elem_count |-> tb2.elem_count,
                deleted_count |-> tb2.deleted_count, cursor |-> tb2.cursor,
                addr |-> tb2.addr]
  BY DEF Occupy, Table
<1>5. Slots(tb2) = Slots(tb)
  BY <1>4 DEF Slots
<1>6. \A i \in Slots(tb) : /\ tb2.control[i] = IF i = av THEN pos.ctl ELSE tb.control[i]
                           /\ tb2.elements[i] = IF i = av THEN e ELSE tb.elements[i]
  BY <1>1, <1>4
<1>7. av \notin Occupied(tb)
  BY DEF Free, Occupied, CTL_IS_OCCUPIED, CTL_EMPTY, CTL_REMOVED
<1>8. Occupied(tb2) = Occupied(tb) \cup {av}
  BY <1>3, <1>5, <1>6 DEF Occupied, CTL_IS_OCCUPIED
<1>9. Removed(tb2) = Removed(tb) \ {av}
  BY <1>3, <1>5, <1>6 DEF Removed, CTL_REMOVED
<1>10. av \in Removed(tb) <=> tb.control[av] = CTL_REMOVED
  BY DEF Removed
<1>11. CountersOf(tb2)
  <2>1. Cardinality(Occupied(tb2)) = Cardinality(Occupied(tb)) + 1
    BY <1>7, <1>8, FiniteSlots, FS_AddElement DEF TableOK
  <2>2. Cardinality(Removed(tb2)) = IF av \in Removed(tb)
                                    THEN Cardinality(Removed(tb)) - 1
                                    ELSE Cardinality(Removed(tb))
    BY <1>9, FiniteSlots, FS_RemoveElement DEF TableOK
  <2> QED BY <2>1, <2>2, <1>4, <1>10 DEF TableOK, CountersOf
<1>12. tb2.deleted_count \in Nat
  <2>1. IsFiniteSet(Removed(tb2))
    BY <1>9, FiniteSlots, FS_RemoveElement DEF TableOK
  <2> QED BY <2>1, <1>11, FS_CardinalityType DEF CountersOf
<1>13. TableType(tb2)
  <2>1. tb2.control \in [Slots(tb2) -> ControlBytes]
    BY <1>1, <1>3, <1>4, <1>5 DEF ControlBytes
  <2>2. tb2.elements \in [Slots(tb2) -> Elements \cup {NULL}]
    BY <1>1, <1>4, <1>5
  <2>3. /\ tb.cursor \in 0 .. MaxCursor /\ tb.addr \in Addrs \cup {NULL}
        /\ tb.table_size > 0 => tb.addr \in Addrs
    BY DEF TableOK, TableType
  <2> QED BY <2>1, <2>2, <2>3, <1>1, <1>4, <1>12 DEF TableType
<1>14. \A key : get_position(tb2, key) = get_position(tb, key)
  BY <1>4 DEF get_position
<1>15. \A p, i : ProbeSlot(tb2, p, i) = ProbeSlot(tb, p, i)
  BY <1>4 DEF ProbeSlot
<1>16. \A i \in Occupied(tb) : i \in Slots(tb) /\ i # av /\ KeyAt(tb2, i) = KeyAt(tb, i)
  BY <1>6, <1>7 DEF KeyAt, Occupied
<1>17. KeyAt(tb2, av) = k
  BY <1>6 DEF KeyAt
<1>18. Tagged(tb2)
  BY <1>6, <1>8, <1>14, <1>16, <1>17 DEF Tagged, TableOK, ProbingOf
<1>19. UniqueKeys(tb2)
  BY <1>8, <1>16, <1>17 DEF UniqueKeys, TableOK, ProbingOf
<1>20. Reachable(tb2)
  <2> SUFFICES ASSUME NEW i \in Occupied(tb2)
               PROVE  LET p == get_position(tb, KeyAt(tb2, i))
                      IN  \E d \in Slots(tb) :
                             /\ ProbeSlot(tb, p, d) = i
                             /\ \A c \in 0 .. d - 1 :
                                   tb2.control[ProbeSlot(tb, p, c)] # CTL_EMPTY
    BY <1>5, <1>14, <1>15 DEF Reachable
  <2> DEFINE p == get_position(tb, KeyAt(tb2, i))
  <2>1. KeyAt(tb2, i) \in Keys
    BY <1>8, <1>16, <1>17, <1>2, KeyAssumption DEF TableOK, ProbingOf, Tagged, KeyAt
  <2>2. p.index \in Slots(tb)
    BY <2>1, PositionType DEF TableOK
  <2>3. \E d \in Slots(tb) :
           /\ ProbeSlot(tb, p, d) = i
           /\ \A c \in 0 .. d - 1 : tb.control[ProbeSlot(tb, p, c)] # CTL_EMPTY
    <3>1. CASE i = av
      BY <3>1, <1>17
    <3>2. CASE i \in Occupied(tb)
      BY <3>2, <1>16 DEF TableOK, ProbingOf, Reachable
    <3> QED BY <3>1, <3>2, <1>8
  <2>4. PICK d \in Slots(tb) :
           /\ ProbeSlot(tb, p, d) = i
           /\ \A c \in 0 .. d - 1 : tb.control[ProbeSlot(tb, p, c)] # CTL_EMPTY
    BY <2>3
  <2>5. ASSUME NEW c \in 0 .. d - 1
        PROVE  tb2.control[ProbeSlot(tb, p, c)] # CTL_EMPTY
    <3>1. c \in Nat
      OBVIOUS
    <3>2. ProbeSlot(tb, p, c) \in Slots(tb)
      BY <3>1, <2>2, ProbeSlotType DEF TableOK
    <3> QED BY <3>2, <2>4, <1>3, <1>6 DEF CTL_EMPTY
  <2> QED BY <2>4, <2>5
<1> QED BY <1>8, <1>11, <1>13, <1>18, <1>19, <1>20 DEF TableOK, ProbingOf

\* Replacing an element by one with the same key.
LEMMA ReplaceOK ==
    ASSUME NEW tb, TableOK(tb), NEW e \in Elements,
           NEW i \in Occupied(tb), KeyAt(tb, i) = KeyOf[e],
           NEW tb2, tb2 = Replace(tb, i, e)
    PROVE  /\ TableOK(tb2)
           /\ Occupied(tb2) = Occupied(tb)
           /\ \A j \in Occupied(tb) : KeyAt(tb2, j) = KeyAt(tb, j)
<1>1. /\ tb.table_size \in Nat
      /\ tb.control \in [Slots(tb) -> ControlBytes]
      /\ tb.elements \in [Slots(tb) -> Elements \cup {NULL}]
      /\ i \in Slots(tb)
  BY DEF TableOK, TableType, Occupied
<1>2. /\ tb2.table_size = tb.table_size
      /\ tb2.control = tb.control
      /\ tb2.elements = [tb.elements EXCEPT ![i] = e]
      /\ tb2.elem_count = tb.elem_count
      /\ tb2.deleted_count = tb.deleted_count
      /\ tb2.cursor = tb.cursor
      /\ tb2.addr = tb.addr
      /\ tb2 = [table_size |-> tb2.table_size, control |-> tb2.control,
                elements |-> tb2.elements, elem_count |-> tb2.elem_count,
                deleted_count |-> tb2.deleted_count, cursor |-> tb2.cursor,
                addr |-> tb2.addr]
  BY DEF Replace, Table
<1>3. /\ Slots(tb2) = Slots(tb)
      /\ Occupied(tb2) = Occupied(tb)
      /\ Removed(tb2) = Removed(tb)
  BY <1>2 DEF Slots, Occupied, Removed
<1>4. TableType(tb2)
  <2>1. tb2.elements \in [Slots(tb2) -> Elements \cup {NULL}]
    BY <1>1, <1>2, <1>3
  <2> QED BY <2>1, <1>2, <1>3 DEF TableOK, TableType
<1>5. CountersOf(tb2)
  BY <1>2, <1>3 DEF TableOK, CountersOf
<1>6. \A j \in Occupied(tb) : KeyAt(tb2, j) = KeyAt(tb, j)
  BY <1>1, <1>2 DEF KeyAt, Occupied
<1>7. \A key : get_position(tb2, key) = get_position(tb, key)
  BY <1>2 DEF get_position
<1>8. \A p, j : ProbeSlot(tb2, p, j) = ProbeSlot(tb, p, j)
  BY <1>2 DEF ProbeSlot
<1>9. Tagged(tb2)
  BY <1>1, <1>2, <1>3, <1>6, <1>7 DEF Tagged, TableOK, ProbingOf, Occupied
<1>10. UniqueKeys(tb2)
  BY <1>3, <1>6 DEF UniqueKeys, TableOK, ProbingOf
<1>11. Reachable(tb2)
  BY <1>2, <1>3, <1>6, <1>7, <1>8 DEF Reachable, TableOK, ProbingOf
<1> QED BY <1>3, <1>4, <1>5, <1>6, <1>9, <1>10, <1>11 DEF TableOK, ProbingOf

\* Turning an occupied slot into a tombstone.
LEMMA RemoveOK ==
    ASSUME NEW tb, TableOK(tb), NEW i \in Occupied(tb), tb.cursor < MaxCursor,
           NEW tb2, tb2 = Remove(tb, i)
    PROVE  /\ TableOK(tb2)
           /\ Occupied(tb2) = Occupied(tb) \ {i}
<1>1. /\ tb.table_size \in Nat
      /\ tb.control \in [Slots(tb) -> ControlBytes]
      /\ tb.elements \in [Slots(tb) -> Elements \cup {NULL}]
      /\ tb.elem_count \in Nat
      /\ tb.deleted_count \in Nat
      /\ tb.cursor \in 0 .. MaxCursor
      /\ tb.addr \in Addrs \cup {NULL}
      /\ tb.table_size > 0 => tb.addr \in Addrs
      /\ i \in Slots(tb)
  BY DEF TableOK, TableType, Occupied
<1>2. /\ tb2.table_size = tb.table_size
      /\ tb2.control = [tb.control EXCEPT ![i] = CTL_REMOVED]
      /\ tb2.elements = tb.elements
      /\ tb2.elem_count = tb.elem_count - 1
      /\ tb2.deleted_count = tb.deleted_count + 1
      /\ tb2.cursor = tb.cursor + 1
      /\ tb2.addr = tb.addr
      /\ tb2 = [table_size |-> tb2.table_size, control |-> tb2.control,
                elements |-> tb2.elements, elem_count |-> tb2.elem_count,
                deleted_count |-> tb2.deleted_count, cursor |-> tb2.cursor,
                addr |-> tb2.addr]
  BY DEF Remove, Table
<1>3. Slots(tb2) = Slots(tb)
  BY <1>2 DEF Slots
<1>4. \A j \in Slots(tb) : tb2.control[j] = IF j = i THEN CTL_REMOVED ELSE tb.control[j]
  BY <1>1, <1>2
<1>5. Occupied(tb2) = Occupied(tb) \ {i}
  BY <1>3, <1>4 DEF Occupied, CTL_IS_OCCUPIED, CTL_REMOVED
<1>6. Removed(tb2) = Removed(tb) \cup {i}
  BY <1>1, <1>3, <1>4 DEF Removed
<1>7. i \notin Removed(tb)
  BY DEF Removed, Occupied, CTL_IS_OCCUPIED, CTL_REMOVED
<1>8. CountersOf(tb2)
  <2>1. Cardinality(Occupied(tb2)) = Cardinality(Occupied(tb)) - 1
    BY <1>5, FiniteSlots, FS_RemoveElement DEF TableOK
  <2>2. Cardinality(Removed(tb2)) = Cardinality(Removed(tb)) + 1
    BY <1>6, <1>7, FiniteSlots, FS_AddElement DEF TableOK
  <2> QED BY <2>1, <2>2, <1>2 DEF TableOK, CountersOf
<1>9. tb2.elem_count \in Nat
  <2>1. IsFiniteSet(Occupied(tb2))
    BY <1>5, FiniteSlots, FS_RemoveElement DEF TableOK
  <2> QED BY <2>1, <1>8, FS_CardinalityType DEF CountersOf
<1>10. TableType(tb2)
  <2>1. tb2.control \in [Slots(tb2) -> ControlBytes]
    BY <1>1, <1>2, <1>3 DEF ControlBytes
  <2>2. tb2.cursor \in 0 .. MaxCursor
    BY <1>1, <1>2, SizeAssumption
  <2> QED BY <2>1, <2>2, <1>1, <1>2, <1>3, <1>9 DEF TableType
<1>11. \A key : get_position(tb2, key) = get_position(tb, key)
  BY <1>2 DEF get_position
<1>12. \A p, j : ProbeSlot(tb2, p, j) = ProbeSlot(tb, p, j)
  BY <1>2 DEF ProbeSlot
<1>13. \A j : KeyAt(tb2, j) = KeyAt(tb, j)
  BY <1>2 DEF KeyAt
<1>14. Tagged(tb2)
  BY <1>2, <1>3, <1>4, <1>5, <1>11, <1>13 DEF Tagged, TableOK, ProbingOf, Occupied
<1>15. UniqueKeys(tb2)
  BY <1>5, <1>13 DEF UniqueKeys, TableOK, ProbingOf
<1>16. Reachable(tb2)
  <2> SUFFICES ASSUME NEW j \in Occupied(tb)
               PROVE  LET p == get_position(tb, KeyAt(tb, j))
                      IN  \E d \in Slots(tb) :
                             /\ ProbeSlot(tb, p, d) = j
                             /\ \A c \in 0 .. d - 1 :
                                   tb2.control[ProbeSlot(tb, p, c)] # CTL_EMPTY
    BY <1>3, <1>5, <1>11, <1>12, <1>13 DEF Reachable
  <2> DEFINE p == get_position(tb, KeyAt(tb, j))
  <2>1. KeyAt(tb, j) \in Keys /\ tb.table_size > 0
    BY KeyAssumption, <1>1 DEF TableOK, ProbingOf, Tagged, KeyAt, Slots
  <2>2. p.index \in Slots(tb)
    BY <2>1, PositionType DEF TableOK
  <2>3. PICK d \in Slots(tb) :
           /\ ProbeSlot(tb, p, d) = j
           /\ \A c \in 0 .. d - 1 : tb.control[ProbeSlot(tb, p, c)] # CTL_EMPTY
    BY DEF TableOK, ProbingOf, Reachable
  <2>4. ASSUME NEW c \in 0 .. d - 1
        PROVE  tb2.control[ProbeSlot(tb, p, c)] # CTL_EMPTY
    <3>1. c \in Nat
      OBVIOUS
    <3>2. ProbeSlot(tb, p, c) \in Slots(tb)
      BY <3>1, <2>1, <2>2, ProbeSlotType DEF TableOK
    <3> QED BY <3>2, <2>3, <1>4 DEF CTL_EMPTY, CTL_REMOVED
  <2> QED BY <2>3, <2>4
<1> QED BY <1>5, <1>8, <1>10, <1>14, <1>15, <1>16 DEF TableOK, ProbingOf

\* insert, when the key is stored already.
LEMMA InsertExisting ==
    ASSUME NEW tb, TableOK(tb), NEW e \in Elements, NEW replace \in BOOLEAN,
           NEW i \in Occupied(tb), KeyAt(tb, i) = KeyOf[e]
    PROVE  /\ insert(tb, replace, e).ret = tb.elements[i]
           /\ insert(tb, replace, e).table =
                IF replace THEN Replace(tb, i, e) ELSE tb
           /\ TableOK(insert(tb, replace, e).table)
<1>1. i \in Slots(tb) /\ tb.table_size \in Nat
  BY DEF Occupied, TableOK, TableType
<1>2. tb.table_size > 0 /\ i # INDEX_NIL
  BY <1>1 DEF Slots, INDEX_NIL
<1>3. KeyOf[e] \in Keys
  BY KeyAssumption
<1>4. probe(tb, get_position(tb, KeyOf[e]), KeyOf[e]).existing = i
  BY <1>2, <1>3, ProbeFinds DEF TableOK
<1>5. /\ insert(tb, replace, e).ret = tb.elements[i]
      /\ insert(tb, replace, e).table = IF replace THEN Replace(tb, i, e) ELSE tb
  BY <1>2, <1>4 DEF insert
<1> QED BY <1>5, ReplaceOK

\* insert, when it is not and there is room.
LEMMA InsertNew ==
    ASSUME NEW tb, TableOK(tb), NEW e \in Elements, NEW replace \in BOOLEAN,
           tb.elem_count < tb.table_size,
           \A i \in Occupied(tb) : KeyAt(tb, i) # KeyOf[e]
    PROVE  LET tb2 == insert(tb, replace, e).table
           IN  /\ insert(tb, replace, e).ret = NULL
               /\ TableOK(tb2)
               /\ probe(tb, get_position(tb, KeyOf[e]), KeyOf[e]).available # INDEX_NIL
               /\ \E av \in Slots(tb) :
                     /\ av \notin Occupied(tb)
                     /\ Free(tb, av)
                     /\ Occupied(tb2) = Occupied(tb) \cup {av}
                     /\ tb2 = Occupy(tb, av, get_position(tb, KeyOf[e]).ctl, e)
<1> DEFINE pos == get_position(tb, KeyOf[e])
           res == probe(tb, pos, KeyOf[e])
<1>1. KeyOf[e] \in Keys /\ tb.table_size > 0
  BY KeyAssumption DEF TableOK, TableType
<1>2. res.existing = INDEX_NIL
  BY <1>1, ProbeFinds DEF TableOK
<1>3. \E i \in Slots(tb) : Free(tb, i)
  BY RoomLeft DEF TableOK
<1>4. /\ res.available \in Slots(tb)
      /\ Free(tb, res.available)
      /\ \E d \in Slots(tb) :
            /\ ProbeSlot(tb, pos, d) = res.available
            /\ \A c \in 0 .. d - 1 :
                  tb.control[ProbeSlot(tb, pos, c)] # CTL_EMPTY
  BY <1>1, <1>2, <1>3, ProbeFree DEF TableOK
<1>5. /\ insert(tb, replace, e).ret = NULL
      /\ insert(tb, replace, e).table = Occupy(tb, res.available, pos.ctl, e)
  BY <1>2 DEF insert
<1> HIDE DEF res
<1>6. /\ TableOK(insert(tb, replace, e).table)
      /\ Occupied(insert(tb, replace, e).table) = Occupied(tb) \cup {res.available}
  BY <1>1, <1>4, <1>5, OccupyOK
<1>7. res.available \notin Occupied(tb) /\ res.available # INDEX_NIL
  BY <1>4 DEF Free, Occupied, CTL_IS_OCCUPIED, CTL_EMPTY, CTL_REMOVED, Slots, INDEX_NIL
<1> QED BY <1>4, <1>5, <1>6, <1>7 DEF res

\* insert, when there is room: what the invariant needs to know.
LEMMA InsertOK ==
    ASSUME NEW tb, TableOK(tb), NEW e \in Elements, NEW replace \in BOOLEAN,
           tb.elem_count < tb.table_size
    PROVE  /\ TableOK(insert(tb, replace, e).table)
           /\ insert(tb, replace, e).table.addr = tb.addr
           /\ InsertAsserts(tb, e)
<1> DEFINE pos == get_position(tb, KeyOf[e])
           res == probe(tb, pos, KeyOf[e])
<1>1. KeyOf[e] \in Keys /\ tb.table_size \in Nat /\ tb.table_size > 0
  BY KeyAssumption DEF TableOK, TableType
<1>2. pos.index < tb.table_size
  BY <1>1, PositionType DEF TableOK, Slots
<1>3. CASE \E i \in Occupied(tb) : KeyAt(tb, i) = KeyOf[e]
  <2>1. PICK i \in Occupied(tb) : KeyAt(tb, i) = KeyOf[e]
    BY <1>3
  <2>2. /\ TableOK(insert(tb, replace, e).table)
        /\ insert(tb, replace, e).table = IF replace THEN Replace(tb, i, e) ELSE tb
    BY <2>1, InsertExisting
  <2>3. res.existing = i /\ i # INDEX_NIL
    BY <2>1, <1>1, ProbeFinds DEF TableOK, Occupied, Slots, INDEX_NIL
  <2> QED BY <2>2, <2>3, <1>2 DEF Replace, Table, InsertAsserts
<1>4. CASE \A i \in Occupied(tb) : KeyAt(tb, i) # KeyOf[e]
  <2>1. /\ TableOK(insert(tb, replace, e).table)
        /\ res.available # INDEX_NIL
        /\ \E av \in Slots(tb) :
              insert(tb, replace, e).table = Occupy(tb, av, pos.ctl, e)
    BY <1>4, InsertNew
  <2>2. insert(tb, replace, e).table.addr = tb.addr
    BY <2>1 DEF Occupy, Table
  <2> QED BY <2>1, <2>2, <1>2 DEF InsertAsserts
<1> QED BY <1>3, <1>4

-----------------------------------------------------------------------------
(* The iterator.                                                           *)

\* What a call of clod_table_iter returns, and what is left to visit after it.
LEMMA IterStep ==
    ASSUME NEW tb, TableOK(tb), NEW n \in Nat
    PROVE  /\ IsFiniteSet(IterAhead(tb, n))
           /\ iterate(tb, n).element = NULL <=> IterAhead(tb, n) = {}
           /\ IterAhead(tb, n) # {} =>
                 \E m \in IterAhead(tb, n) :
                    /\ m \in Slots(tb)
                    /\ n <= m
                    /\ IterSlot(tb, m) \in Occupied(tb)
                    /\ iterate(tb, n).element = tb.elements[IterSlot(tb, m)]
                    /\ iterate(tb, n).element \in Elements
                    /\ iterate(tb, n).internal = m + 1
                    /\ IterAhead(tb, m + 1) = IterAhead(tb, n) \ {m}
<1> DEFINE ahead == IterAhead(tb, n)
<1>1. tb.table_size \in Nat /\ tb.cursor \in Nat
  BY SizeAssumption DEF TableOK, TableType
<1>2. ahead \subseteq Slots(tb) /\ Slots(tb) \subseteq Nat
  BY <1>1 DEF IterAhead, Slots
<1>3. IsFiniteSet(ahead)
  BY <1>2, FiniteSlots, FS_Subset DEF TableOK
<1>4. ASSUME ahead # {}
      PROVE  LET m == Min(ahead)
             IN  /\ m \in ahead
                 /\ m \in Slots(tb)
                 /\ n <= m
                 /\ IterSlot(tb, m) \in Occupied(tb)
                 /\ iterate(tb, n).element = tb.elements[IterSlot(tb, m)]
                 /\ iterate(tb, n).element \in Elements
                 /\ iterate(tb, n).internal = m + 1
                 /\ IterAhead(tb, m + 1) = ahead \ {m}
  <2> DEFINE m == Min(ahead)
  <2>1. m \in ahead /\ \A y \in ahead : m <= y
    BY <1>2, <1>4, MinNat
  <2>2. /\ iterate(tb, n).element = tb.elements[IterSlot(tb, m)]
        /\ iterate(tb, n).internal = m + 1
    BY <1>4 DEF iterate
  <2> HIDE DEF m
  <2>3. m \in Slots(tb) /\ n <= m /\ CTL_IS_OCCUPIED(tb.control[IterSlot(tb, m)])
    BY <2>1, <1>1 DEF IterAhead, Slots
  <2>4. IterSlot(tb, m) \in Slots(tb)
    <3>1. m + tb.cursor \in Nat /\ tb.table_size > 0
      BY <2>3, <1>1 DEF Slots
    <3> QED BY <3>1, <1>1, ModRange DEF IterSlot, Slots
  <2>5. IterSlot(tb, m) \in Occupied(tb)
    BY <2>3, <2>4 DEF Occupied
  <2>6. tb.elements[IterSlot(tb, m)] \in Elements
    BY <2>5 DEF TableOK, ProbingOf, Tagged
  <2>7. IterAhead(tb, m + 1) \subseteq ahead \ {m}
    BY <2>3, <1>1 DEF IterAhead, Slots
  <2>8. ahead \ {m} \subseteq IterAhead(tb, m + 1)
    <3> SUFFICES ASSUME NEW j \in ahead, j # m PROVE j \in IterAhead(tb, m + 1)
      OBVIOUS
    <3>1. j \in Nat /\ m \in Nat /\ m <= j
      BY <2>1, <1>2
    <3> QED BY <3>1 DEF IterAhead
  <2> QED BY <2>1, <2>2, <2>3, <2>5, <2>6, <2>7, <2>8 DEF m
<1>5. ahead = {} => iterate(tb, n).element = NULL
  BY DEF iterate
<1>6. ahead # {} => iterate(tb, n).element # NULL
  BY <1>4, NullAssumption
<1> QED BY <1>3, <1>4, <1>5, <1>6

\* The slots a walk yields are occupied ones.
LEMMA WalkOccupied ==
    ASSUME NEW tb, TableOK(tb), NEW j \in IterAhead(tb, 0)
    PROVE  /\ j \in 0 .. tb.table_size - 1
           /\ tb.table_size > 0
           /\ IterSlot(tb, j) \in Occupied(tb)
<1>1. tb.table_size \in Nat /\ tb.cursor \in Nat
  BY SizeAssumption DEF TableOK, TableType
<1>2. j \in 0 .. tb.table_size - 1 /\ CTL_IS_OCCUPIED(tb.control[IterSlot(tb, j)])
  BY DEF IterAhead, Slots
<1>3. tb.table_size > 0 /\ j + tb.cursor \in Nat
  BY <1>2, <1>1
<1>4. IterSlot(tb, j) \in Slots(tb)
  BY <1>3, <1>1, ModRange DEF IterSlot, Slots
<1> QED BY <1>2, <1>3, <1>4 DEF Occupied

\* A whole walk visits every occupied slot once.
LEMMA WalkBijection ==
    ASSUME NEW tb, TableOK(tb)
    PROVE  /\ \A i, j \in IterAhead(tb, 0) :
                 IterSlot(tb, i) = IterSlot(tb, j) => i = j
           /\ \A s \in Occupied(tb) :
                 \E j \in IterAhead(tb, 0) : IterSlot(tb, j) = s
           /\ Cardinality(IterAhead(tb, 0)) = Cardinality(Occupied(tb))
<1>1. tb.table_size \in Nat /\ tb.cursor \in Nat
  BY SizeAssumption DEF TableOK, TableType
<1>2. \A j \in IterAhead(tb, 0) :
         /\ j \in 0 .. tb.table_size - 1
         /\ tb.table_size > 0
         /\ IterSlot(tb, j) \in Occupied(tb)
  BY WalkOccupied
<1>3. \A i, j \in IterAhead(tb, 0) : IterSlot(tb, i) = IterSlot(tb, j) => i = j
  BY <1>1, <1>2, RotateInjective DEF IterSlot
<1>4. ASSUME NEW s \in Occupied(tb)
      PROVE  \E j \in IterAhead(tb, 0) : IterSlot(tb, j) = s
  <2>1. s \in 0 .. tb.table_size - 1 /\ CTL_IS_OCCUPIED(tb.control[s])
    BY DEF Occupied, Slots
  <2> tb.table_size > 0
    BY <2>1, <1>1
  <2>2. PICK j \in 0 .. tb.table_size - 1 : (j + tb.cursor) % tb.table_size = s
    BY <2>1, <1>1, RotateSurjective
  <2>3. IterSlot(tb, j) = s /\ j >= 0
    BY <2>2 DEF IterSlot
  <2> QED BY <2>1, <2>3 DEF IterAhead, Slots
<1>5. Cardinality(IterAhead(tb, 0)) = Cardinality(Occupied(tb))
  <2> DEFINE f == [j \in IterAhead(tb, 0) |-> IterSlot(tb, j)]
  <2>1. f \in Bijection(IterAhead(tb, 0), Occupied(tb))
    BY <1>2, <1>3, <1>4 DEF Bijection, Injection, Surjection, IsInjective
  <2>2. ExistsBijection(IterAhead(tb, 0), Occupied(tb))
    BY <2>1 DEF ExistsBijection
  <2>3. IsFiniteSet(IterAhead(tb, 0))
    BY IterStep
  <2> QED BY <2>2, <2>3, FS_Bijection
<1> QED BY <1>3, <1>4, <1>5

-----------------------------------------------------------------------------
(* Sizes.                                                                  *)

\* A table that does not need to be rebuilt has a free slot.
LEMMA NoRebuildRoom ==
    ASSUME NEW tb, TableType(tb), ~NeedsRebuild(tb)
    PROVE  tb.elem_count + tb.deleted_count < tb.table_size
<1> DEFINE n == tb.table_size
           x == (tb.elem_count + tb.deleted_count) * 100
           q == x \div n
           r == x % n
<1>1. n \in Nat /\ tb.elem_count \in Nat /\ tb.deleted_count \in Nat
  BY DEF TableType
<1>2. n > 0 /\ q < 85
  BY <1>1 DEF NeedsRebuild, LF, LF_MAX, LF_DENOMINATOR
<1>3. x \in Nat
  BY <1>1
<1>4. x = n * q + r /\ q \in Nat /\ r \in 0 .. n - 1
  <2> HIDE DEF x, n
  <2> QED BY <1>1, <1>2, <1>3, ModRange
<1> HIDE DEF n, q, r
<1>5. n * q <= n * 84
  BY <1>1, <1>2, <1>4
<1> QED BY <1>1, <1>2, <1>4, <1>5 DEF n

\* rebuild makes room for one element more than there are.
LEMMA RebuildRoom ==
    ASSUME NEW n \in Nat
    PROVE  LET size == CreateSize(LF_CAPACITY_TO_SIZE(LF_MIN, n + 1))
           IN  size \in Nat /\ size > n + 1
<1>1. LF_CAPACITY_TO_SIZE(LF_MIN, n + 1) \in Nat
      /\ LF_CAPACITY_TO_SIZE(LF_MIN, n + 1) > n + 1
  BY DEF LF_CAPACITY_TO_SIZE, LF_MIN, LF_DENOMINATOR
<1>2. LF_CAPACITY_TO_SIZE(LF_MAX, MinCapacity) \in Nat
  BY SizeAssumption DEF LF_CAPACITY_TO_SIZE, LF_MAX, LF_DENOMINATOR
<1> QED BY <1>1, <1>2 DEF CreateSize

-----------------------------------------------------------------------------
(* The invariant.                                                          *)

IInv == TypeOK /\ Counters /\ Probing /\ HeapExact /\ RebuildCopies

\* In the invariant's states every table that exists is well formed.
LEMMA TablesOK ==
    ASSUME IInv
    PROVE  /\ pc # "none" => TableOK(t)
           /\ pc = "rebuild" => TableOK(new)
BY DEF IInv, TypeOK, Counters, Probing, TableOK

\* What is to be shown of a state between calls.
LEMMA IdleInv ==
    ASSUME pc' = "idle", TableOK(t'), iter' \in Nat,
           heap' = {t.addr}' \cap Addrs
    PROVE  IInv'
<1>1. TypeOK'
  BY DEF TypeOK, TableOK
<1>2. Counters' /\ Probing'
  BY DEF Counters, Probing, TableOK
<1>3. HeapExact' /\ RebuildCopies'
  BY DEF HeapExact, RebuildCopies
<1> QED BY <1>1, <1>2, <1>3 DEF IInv

\* Every call of insert is made on a table with room.
LEMMA AllInserts ==
    ASSUME IInv
    PROVE  Assertions
<1>1. ASSUME pc = "idle", ~NeedsRebuild(t), NEW e \in Elements
      PROVE  InsertAsserts(t, e)
  <2>1. TableOK(t)
    BY <1>1, TablesOK
  <2>2. t.elem_count < t.table_size
    <3>1. t.elem_count + t.deleted_count < t.table_size
      BY <2>1, <1>1, NoRebuildRoom DEF TableOK
    <3> QED BY <2>1, <3>1 DEF TableOK, TableType
  <2> QED BY <2>1, <2>2, InsertOK
<1>2. ASSUME pc = "idle"
      PROVE  RebuildSize(t) >= t.elem_count
  <2>1. t.elem_count \in Nat
    BY <1>2, TablesOK DEF TableOK, TableType
  <2> QED BY <2>1 DEF RebuildSize, LF_CAPACITY_TO_SIZE, LF_MIN, LF_DENOMINATOR
<1>3. ASSUME pc = "rebuild"
      PROVE  LET turn == iterate(t, iter)
             IN  InsertAsserts(new, IF turn.element = NULL THEN arg.e ELSE turn.element)
  <2>1. TableOK(t) /\ TableOK(new) /\ iter \in Nat /\ arg.e \in Elements
    BY <1>3, TablesOK DEF IInv, TypeOK
  <2>2. iterate(t, iter).element \in Elements \cup {NULL}
    BY <2>1, IterStep
  <2>3. new.elem_count < new.table_size
    <3>1. Cardinality(IterAhead(t, iter)) \in Nat
      BY <2>1, IterStep, FS_CardinalityType
    <3>2. /\ new.elem_count + Cardinality(IterAhead(t, iter)) = t.elem_count
          /\ new.table_size > t.elem_count
      BY <1>3 DEF IInv, RebuildCopies
    <3> QED BY <2>1, <3>1, <3>2 DEF TableOK, TableType
  <2> QED BY <2>1, <2>2, <2>3, InsertOK
<1> QED BY <1>1, <1>2, <1>3 DEF Assertions

\* rebuild's first step.
LEMMA RebuildStartInv ==
    ASSUME IInv, pc = "idle", NEW op \in {"add", "set"}, NEW e \in Elements,
           RebuildStart(op, e)
    PROVE  IInv'
<1> DEFINE size == CreateSize(RebuildSize(t))
<1>1. TableOK(t) /\ t.elem_count \in Nat
  BY TablesOK DEF TableOK, TableType
<1>2. size \in Nat /\ size > t.elem_count + 1
  BY <1>1, RebuildRoom DEF RebuildSize
<1>3. PICK a \in Addrs \ heap : new' = create(size, a) /\ heap' = heap \cup {a}
  <2>1. size > 0
    BY <1>1, <1>2
  <2> QED BY <2>1 DEF RebuildStart, Alloc
<1>4. /\ pc' = "rebuild" /\ arg' = [op |-> op, e |-> e] /\ iter' = 0 /\ t' = t
  BY DEF RebuildStart
<1>5. TableOK(new') /\ Occupied(new') = {}
  BY <1>2, <1>3, CreateOK
<1>6. new'.table_size = size /\ new'.elem_count = 0 /\ new'.addr = a
  BY <1>3 DEF create, Table
<1>7. TypeOK'
  <2>1. heap' \subseteq Addrs
    BY <1>3 DEF IInv, TypeOK
  <2> QED BY <2>1, <1>1, <1>4, <1>5 DEF TypeOK, TableOK
<1>8. Counters' /\ Probing'
  BY <1>1, <1>4, <1>5 DEF Counters, Probing, TableOK
<1>9. HeapExact'
  <2>1. heap = {b \in Addrs : t.addr = b}
    BY DEF IInv, HeapExact
  <2> QED BY <2>1, <1>3, <1>4, <1>6 DEF HeapExact
<1>10. RebuildCopies'
  <2>1. Elems(new') = {}
    BY <1>5 DEF Elems
  <2>2. Cardinality(IterAhead(t, 0)) = t.elem_count
    BY <1>1, WalkBijection DEF TableOK, CountersOf
  <2>3. {t.elements[IterSlot(t, j)] : j \in IterAhead(t, 0) \ IterAhead(t, 0)} = {}
    OBVIOUS
  <2> QED BY <2>1, <2>2, <2>3, <1>1, <1>2, <1>4, <1>6 DEF RebuildCopies
<1> QED BY <1>7, <1>8, <1>9, <1>10 DEF IInv

\* One turn of rebuild's loop: the key is not in the new table yet.
LEMMA RebuildCopyInv ==
    ASSUME IInv, RebuildCopy
    PROVE  IInv'
<1> DEFINE turn == iterate(t, iter)
           ins == insert(new, FALSE, turn.element)
<1>1. pc = "rebuild" /\ turn.element # NULL
  BY DEF RebuildCopy
<1>2. TableOK(t) /\ TableOK(new) /\ iter \in Nat
  BY <1>1, TablesOK DEF IInv, TypeOK
<1>3. PICK m \in IterAhead(t, iter) :
         /\ m \in Slots(t)
         /\ iter <= m
         /\ IterSlot(t, m) \in Occupied(t)
         /\ turn.element = t.elements[IterSlot(t, m)]
         /\ turn.element \in Elements
         /\ turn.internal = m + 1
         /\ IterAhead(t, m + 1) = IterAhead(t, iter) \ {m}
  BY <1>1, <1>2, IterStep
<1>4. m \in Nat /\ m \in IterAhead(t, 0)
  BY <1>2, <1>3 DEF IterAhead, Slots, TableOK, TableType
<1>5. /\ IsFiniteSet(IterAhead(t, iter))
      /\ Cardinality(IterAhead(t, iter)) \in Nat
      /\ Cardinality(IterAhead(t, m + 1)) = Cardinality(IterAhead(t, iter)) - 1
      /\ Cardinality(IterAhead(t, m + 1)) \in Nat
  <2>1. IsFiniteSet(IterAhead(t, iter)) /\ IsFiniteSet(IterAhead(t, m + 1))
    BY <1>2, <1>4, IterStep
  <2>2. Cardinality(IterAhead(t, iter) \ {m}) = Cardinality(IterAhead(t, iter)) - 1
    BY <2>1, <1>3, FS_RemoveElement
  <2> QED BY <2>1, <2>2, <1>3, FS_CardinalityType
<1>6. /\ Elems(new) = {t.elements[IterSlot(t, j)] :
                         j \in IterAhead(t, 0) \ IterAhead(t, iter)}
      /\ new.elem_count + Cardinality(IterAhead(t, iter)) = t.elem_count
      /\ new.table_size > t.elem_count
  BY <1>1 DEF IInv, RebuildCopies
<1>7. new.elem_count < new.table_size
  BY <1>2, <1>5, <1>6 DEF TableOK, TableType
<1>8. \A i \in Occupied(new) : KeyAt(new, i) # KeyOf[turn.element]
  <2> SUFFICES ASSUME NEW i \in Occupied(new), KeyAt(new, i) = KeyOf[turn.element]
               PROVE  FALSE
    OBVIOUS
  <2>1. new.elements[i] \in Elems(new)
    BY DEF Elems
  <2>2. PICK j \in IterAhead(t, 0) \ IterAhead(t, iter) :
           new.elements[i] = t.elements[IterSlot(t, j)]
    BY <2>1, <1>6
  <2>3. KeyAt(t, IterSlot(t, j)) = KeyAt(t, IterSlot(t, m))
    BY <2>2, <1>3 DEF KeyAt
  <2>4. IterSlot(t, j) \in Occupied(t)
    <3>1. j \in Slots(t) /\ CTL_IS_OCCUPIED(t.control[IterSlot(t, j)])
      BY <2>2 DEF IterAhead
    <3>2. t.table_size \in Nat /\ t.cursor \in 0 .. MaxCursor
      BY <1>2 DEF TableOK, TableType
    <3>3. IterSlot(t, j) \in Slots(t)
      <4>1. j + t.cursor \in Nat /\ t.table_size > 0
        BY <3>1, <3>2, SizeAssumption DEF Slots
      <4> QED BY <3>2, <4>1, ModRange DEF IterSlot, Slots
    <3> QED BY <3>1, <3>3 DEF Occupied
  <2>5. IterSlot(t, j) = IterSlot(t, m)
    BY <2>3, <2>4, <1>2, <1>3 DEF TableOK, ProbingOf, UniqueKeys
  <2>6. j = m
    BY <2>2, <2>5, <1>2, <1>4, WalkBijection
  <2> QED BY <2>2, <2>6, <1>3
<1>9. /\ ins.ret = NULL
      /\ TableOK(ins.table)
      /\ \E av \in Slots(new) :
            /\ av \notin Occupied(new)
            /\ Occupied(ins.table) = Occupied(new) \cup {av}
            /\ ins.table = Occupy(new, av, get_position(new, KeyOf[turn.element]).ctl,
                                  turn.element)
  <2> DEFINE x == turn.element
  <2>1. x \in Elements
    BY <1>3
  <2> HIDE DEF x
  <2>2. \A i \in Occupied(new) : KeyAt(new, i) # KeyOf[x]
    BY <1>8 DEF x
  <2>3. /\ insert(new, FALSE, x).ret = NULL
        /\ TableOK(insert(new, FALSE, x).table)
        /\ \E av \in Slots(new) :
              /\ av \notin Occupied(new)
              /\ Occupied(insert(new, FALSE, x).table) = Occupied(new) \cup {av}
              /\ insert(new, FALSE, x).table
                   = Occupy(new, av, get_position(new, KeyOf[x]).ctl, x)
    BY <1>2, <1>7, <2>1, <2>2, InsertNew
  <2> QED BY <2>3 DEF x
<1>10. /\ new' = ins.table /\ iter' = m + 1
       /\ UNCHANGED <<t, pc, arg, heap>>
  BY <1>3, <1>9 DEF RebuildCopy
<1>11. PICK av \in Slots(new) :
          /\ av \notin Occupied(new)
          /\ Occupied(new') = Occupied(new) \cup {av}
          /\ new' = Occupy(new, av, get_position(new, KeyOf[turn.element]).ctl, turn.element)
  BY <1>9, <1>10
<1>12. /\ new'.addr = new.addr
       /\ new'.table_size = new.table_size
       /\ new'.elem_count = new.elem_count + 1
       /\ new'.elements = [new.elements EXCEPT ![av] = turn.element]
  BY <1>11 DEF Occupy, Table
<1>13. TypeOK'
  <2>1. TableType(new)' /\ TableType(t)'
    BY <1>2, <1>9, <1>10 DEF TableOK
  <2>2. iter' \in Nat
    BY <1>4, <1>10
  <2> QED BY <2>1, <2>2, <1>1, <1>10 DEF IInv, TypeOK
<1>14. Counters' /\ Probing'
  BY <1>1, <1>2, <1>9, <1>10 DEF Counters, Probing, TableOK
<1>15. HeapExact'
  BY <1>10, <1>12 DEF IInv, HeapExact
<1>16. RebuildCopies'
  <2>1. Elems(new') = Elems(new) \cup {turn.element}
    <3>1. new.elements \in [Slots(new) -> Elements \cup {NULL}]
      BY <1>2 DEF TableOK, TableType
    <3>2. new'.elements[av] = turn.element
      BY <3>1, <1>12
    <3>3. \A i \in Occupied(new) : new'.elements[i] = new.elements[i]
      BY <3>1, <1>11, <1>12 DEF Occupied
    <3> QED BY <3>2, <3>3, <1>11 DEF Elems
  <2>2. IterAhead(t, 0) \ IterAhead(t, m + 1)
          = (IterAhead(t, 0) \ IterAhead(t, iter)) \cup {m}
    BY <1>3, <1>4
  <2>3. Elems(new') = {t.elements[IterSlot(t, j)] :
                         j \in IterAhead(t, 0) \ IterAhead(t, m + 1)}
    BY <2>1, <2>2, <1>3, <1>6
  <2>4. new'.elem_count + Cardinality(IterAhead(t, m + 1)) = t.elem_count
    BY <1>2, <1>5, <1>6, <1>12 DEF TableOK, TableType
  <2> QED BY <2>3, <2>4, <1>6, <1>10, <1>12 DEF RebuildCopies
<1> QED BY <1>13, <1>14, <1>15, <1>16 DEF IInv

\* At the end of the loop the new table holds what the old one does.
LEMMA RebuildComplete ==
    ASSUME IInv, pc = "rebuild", iterate(t, iter).element = NULL
    PROVE  /\ TableOK(t) /\ TableOK(new)
           /\ Elems(new) = Elems(t)
           /\ new.elem_count = t.elem_count
           /\ new.elem_count < new.table_size
<1>1. TableOK(t) /\ TableOK(new) /\ iter \in Nat
  BY TablesOK DEF IInv, TypeOK
<1>2. IterAhead(t, iter) = {}
  BY <1>1, IterStep
<1>3. /\ Elems(new) = {t.elements[IterSlot(t, j)] : j \in IterAhead(t, 0)}
      /\ new.elem_count + Cardinality({}) = t.elem_count
      /\ new.table_size > t.elem_count
  BY <1>2 DEF IInv, RebuildCopies
<1>4. new.elem_count = t.elem_count /\ new.elem_count < new.table_size
  BY <1>1, <1>3, FS_EmptySet DEF TableOK, TableType
<1>5. \A j \in IterAhead(t, 0) : IterSlot(t, j) \in Occupied(t)
  <2> SUFFICES ASSUME NEW j \in IterAhead(t, 0) PROVE IterSlot(t, j) \in Occupied(t)
    OBVIOUS
  <2>1. j \in Slots(t) /\ CTL_IS_OCCUPIED(t.control[IterSlot(t, j)])
    BY DEF IterAhead
  <2>2. t.table_size \in Nat /\ t.cursor \in 0 .. MaxCursor
    BY <1>1 DEF TableOK, TableType
  <2>3. j + t.cursor \in Nat /\ t.table_size > 0
    BY <2>1, <2>2, SizeAssumption DEF Slots
  <2>4. IterSlot(t, j) \in Slots(t)
    BY <2>2, <2>3, ModRange DEF IterSlot, Slots
  <2> QED BY <2>1, <2>4 DEF Occupied
<1>6. Elems(new) = Elems(t)
  <2>1. Elems(new) \subseteq Elems(t)
    BY <1>3, <1>5 DEF Elems
  <2>2. \A s \in Occupied(t) : \E j \in IterAhead(t, 0) : IterSlot(t, j) = s
    BY <1>1, WalkBijection
  <2>3. Elems(t) \subseteq Elems(new)
    BY <1>3, <2>2 DEF Elems
  <2> QED BY <2>1, <2>3
<1> QED BY <1>1, <1>4, <1>6

\* The swap at the end of a rebuild, and the insertion that asked for it.
LEMMA RebuildFinishInv ==
    ASSUME IInv, RebuildFinish
    PROVE  IInv'
<1>1. pc = "rebuild" /\ iterate(t, iter).element = NULL
  BY DEF RebuildFinish
<1>2. TableOK(new) /\ new.elem_count < new.table_size /\ arg.e \in Elements
  BY <1>1, RebuildComplete DEF IInv, TypeOK
<1>3. t' = insert(new, arg.op = "set", arg.e).table
  BY DEF RebuildFinish
<1>4. TableOK(t') /\ t'.addr = new.addr
  <2> DEFINE r == (arg.op = "set")
  <2>1. r \in BOOLEAN
    OBVIOUS
  <2>2. t' = insert(new, r, arg.e).table
    BY <1>3
  <2> HIDE DEF r
  <2> QED BY <1>2, <2>1, <2>2, InsertOK
<1>5. heap' = {t.addr}' \cap Addrs
  <2>1. heap = {a \in Addrs : t.addr = a \/ new.addr = a} /\ t.addr # new.addr
    BY <1>1 DEF IInv, HeapExact
  <2>2. heap' = heap \ {t.addr}
    BY DEF RebuildFinish
  <2> QED BY <2>1, <2>2, <1>4
<1>6. pc' = "idle" /\ iter' \in Nat
  BY DEF RebuildFinish
<1> QED BY <1>4, <1>5, <1>6, IdleInv

\* Between calls the only array is the table's.
LEMMA IdleHeap ==
    ASSUME IInv, pc = "idle"
    PROVE  heap = {t.addr} \cap Addrs /\ iter \in Nat /\ TableOK(t)
BY TablesOK DEF IInv, HeapExact, TypeOK

\* add and set, when the table has room.
LEMMA InsertNowInv ==
    ASSUME IInv, pc = "idle", NEW op \in {"add", "set"}, NEW e \in Elements,
           InsertNow(op, e)
    PROVE  IInv'
<1>1. TableOK(t) /\ heap = {t.addr} \cap Addrs /\ iter \in Nat
  BY IdleHeap
<1>2. t.elem_count < t.table_size
  <2>1. t.elem_count + t.deleted_count < t.table_size
    BY <1>1, NoRebuildRoom DEF TableOK, InsertNow
  <2> QED BY <1>1, <2>1 DEF TableOK, TableType
<1>3. TableOK(t') /\ t'.addr = t.addr
  <2> DEFINE r == (op = "set")
  <2>1. r \in BOOLEAN
    OBVIOUS
  <2>2. t' = insert(t, r, e).table
    BY DEF InsertNow
  <2> HIDE DEF r
  <2> QED BY <1>1, <1>2, <2>1, <2>2, InsertOK
<1>4. pc' = "idle" /\ heap' = {t.addr}' \cap Addrs /\ iter' \in Nat
  BY <1>1, <1>3 DEF InsertNow
<1> QED BY <1>3, <1>4, IdleInv

\* clod_table_del, whether the key is there or not.
LEMMA DelInv ==
    ASSUME IInv, NEW key \in Keys, clod_table_del(key)
    PROVE  IInv'
<1>1. /\ pc = "idle" /\ TableOK(t) /\ heap = {t.addr} \cap Addrs /\ iter \in Nat
  BY IdleHeap DEF clod_table_del
<1>2. CASE Find(key) = INDEX_NIL
  <2>1. t' = t /\ pc' = "idle" /\ iter' = iter /\ heap' = heap
    BY <1>1, <1>2 DEF clod_table_del
  <2> QED BY <1>1, <2>1, IdleInv
<1>3. CASE Find(key) # INDEX_NIL
  <2>1. Find(key) \in Occupied(t)
    <3>1. t.table_size # 0
      BY <1>3 DEF Find
    <3>2. t.table_size > 0 /\ TableType(t) /\ ProbingOf(t)
      BY <3>1, <1>1 DEF TableOK, TableType
    <3> QED BY <1>3, <3>1, <3>2, ProbeFinds DEF Find
  <2>2. /\ t.cursor < MaxCursor /\ t' = Remove(t, Find(key))
        /\ pc' = "idle" /\ iter' = iter /\ heap' = heap
    BY <1>1, <1>3 DEF clod_table_del
  <2>3. TableOK(t')
    BY <2>1, <2>2, <1>1, RemoveOK
  <2>4. t'.addr = t.addr
    BY <2>2 DEF Remove, Table
  <2> QED BY <2>2, <2>3, <2>4, <1>1, IdleInv
<1> QED BY <1>2, <1>3

\* A new table is empty and owns its array.
LEMMA CreateInv ==
    ASSUME IInv, clod_table_create
    PROVE  IInv'
<1> DEFINE size == CreateSize(LF_CAPACITY_TO_SIZE(LF_MAX, MinCapacity))
<1>1. pc = "none" /\ pc' = "idle" /\ iter' = iter
  BY DEF clod_table_create
<1>2. size \in Nat
  BY SizeAssumption DEF CreateSize, LF_CAPACITY_TO_SIZE, LF_MAX, LF_DENOMINATOR
<1>3. PICK a \in Alloc(size) : t' = create(size, a) /\ heap' = heap \cup ({a} \ {NULL})
  BY DEF clod_table_create
<1>4. a \in Addrs \cup {NULL} /\ (size > 0 => a \in Addrs)
  BY <1>2, <1>3 DEF Alloc
<1>5. TableOK(t') /\ t'.addr = a
  BY <1>2, <1>3, <1>4, CreateOK DEF create, Table
<1>6. heap = {} /\ iter \in Nat
  BY <1>1 DEF IInv, HeapExact, TypeOK
<1>7. heap' = {t.addr}' \cap Addrs
  BY <1>3, <1>4, <1>5, <1>6, NullAssumption
<1> QED BY <1>1, <1>5, <1>6, <1>7, IdleInv

\* A destroyed table owns nothing.
LEMMA DestroyInv ==
    ASSUME IInv, clod_table_destroy
    PROVE  IInv'
<1>1. pc = "idle" /\ pc' = "none" /\ iter' = iter /\ heap' = heap \ {t.addr}
  BY DEF clod_table_destroy
<1>2. heap = {t.addr} \cap Addrs /\ iter \in Nat
  BY <1>1, IdleHeap
<1>3. heap' = {}
  BY <1>1, <1>2
<1> QED BY <1>1, <1>2, <1>3 DEF IInv, TypeOK, Counters, Probing, HeapExact, RebuildCopies

\* Calls that change nothing but their result.
LEMMA UnchangedInv ==
    ASSUME IInv, UNCHANGED <<t, new, pc, arg, iter, heap>>
    PROVE  IInv'
BY DEF IInv, TypeOK, Counters, Probing, HeapExact, RebuildCopies

\* The inductive step.
LEMMA NextInv ==
    ASSUME IInv, [Next]_vars
    PROVE  IInv'
<1>1. CASE clod_table_create_fails
  BY <1>1, UnchangedInv DEF clod_table_create_fails
<1>2. CASE clod_table_create
  BY <1>2, CreateInv
<1>3. CASE clod_table_destroy
  BY <1>3, DestroyInv
<1>4. CASE clod_table_len
  BY <1>4, UnchangedInv DEF clod_table_len
<1>5. ASSUME NEW e \in Elements, clod_table_add(e)
      PROVE  IInv'
  <2>1. CASE InsertNow("add", e)
    BY <1>5, <2>1, InsertNowInv DEF clod_table_add
  <2>2. CASE RebuildAllocFails("add", e)
    BY <2>2, UnchangedInv DEF RebuildAllocFails
  <2>3. CASE RebuildStart("add", e)
    BY <1>5, <2>3, RebuildStartInv DEF clod_table_add
  <2> QED BY <1>5, <2>1, <2>2, <2>3 DEF clod_table_add
<1>6. ASSUME NEW e \in Elements, clod_table_set(e)
      PROVE  IInv'
  <2>1. CASE InsertNow("set", e)
    BY <1>6, <2>1, InsertNowInv DEF clod_table_set
  <2>2. CASE RebuildAllocFails("set", e)
    BY <2>2, UnchangedInv DEF RebuildAllocFails
  <2>3. CASE RebuildStart("set", e)
    BY <1>6, <2>3, RebuildStartInv DEF clod_table_set
  <2> QED BY <1>6, <2>1, <2>2, <2>3 DEF clod_table_set
<1>7. ASSUME NEW k \in Keys, clod_table_get(k)
      PROVE  IInv'
  BY <1>7, UnchangedInv DEF clod_table_get
<1>8. ASSUME NEW k \in Keys, clod_table_del(k)
      PROVE  IInv'
  BY <1>8, DelInv
<1>9. CASE RebuildCopy
  BY <1>9, RebuildCopyInv
<1>10. CASE RebuildFinish
  BY <1>10, RebuildFinishInv
<1>11. CASE UNCHANGED vars
  BY <1>11, UnchangedInv DEF vars
<1> QED
  BY <1>1, <1>2, <1>3, <1>4, <1>5, <1>6, <1>7, <1>8, <1>9, <1>10, <1>11 DEF Next

\* Before the first table is created there is nothing to be wrong.
LEMMA InitInv == Init => IInv
BY DEF Init, IInv, TypeOK, Counters, Probing, HeapExact, RebuildCopies

\* The inductive invariant holds in every reachable state.
THEOREM Invariance == Spec => []IInv
<1>1. Init => IInv
  BY InitInv
<1>2. IInv /\ [Next]_vars => IInv'
  BY NextInv
<1> QED BY <1>1, <1>2, PTL DEF Spec

\* Type correctness: the counters of struct clod_table never wrap below zero.
THEOREM TypeCorrect == Spec => []TypeOK
<1>1. IInv => TypeOK
  BY DEF IInv
<1> QED BY <1>1, Invariance, PTL

\* elem_count and deleted_count count the occupied slots and the tombstones.
THEOREM CountersCorrect == Spec => []Counters
<1>1. IInv => Counters
  BY DEF IInv
<1> QED BY <1>1, Invariance, PTL

\* Every stored key is stored once and is found by a probe from its home slot.
THEOREM ProbingCorrect == Spec => []Probing
<1>1. IInv => Probing
  BY DEF IInv
<1> QED BY <1>1, Invariance, PTL

\* A rebuild copies every element exactly once.
THEOREM RebuildCorrect == Spec => []RebuildCopies
<1>1. IInv => RebuildCopies
  BY DEF IInv
<1> QED BY <1>1, Invariance, PTL

\* No slot array is leaked or freed in use.
THEOREM HeapCorrect == Spec => []HeapExact
<1>1. IInv => HeapExact
  BY DEF IInv
<1> QED BY <1>1, Invariance, PTL

\* The assertions of table.c never fail.
THEOREM AssertionsCorrect == Spec => []Assertions
<1>1. IInv => Assertions
  BY AllInserts
<1> QED BY <1>1, Invariance, PTL

-----------------------------------------------------------------------------
(* Room for min_capacity elements.                                         *)

LeastSize == LF_CAPACITY_TO_SIZE(LF_MAX, MinCapacity)

\* No table is ever made smaller than min_capacity asks for.
Roomy ==
    /\ pc # "none" => t.table_size >= LeastSize
    /\ pc = "rebuild" => new.table_size >= LeastSize

\* The size create() settles on, rounded up: LF_MAX percent of it is at least
\* the capacity.
LEMMA LeastSizeRounds ==
    /\ LeastSize \in Nat
    /\ LeastSize * 85 >= MinCapacity * 100
    /\ \A size \in Nat : CreateSize(size) >= LeastSize
<1>1. LeastSize \in Nat /\ LeastSize * 85 >= MinCapacity * 100
  BY SizeAssumption DEF LeastSize, LF_CAPACITY_TO_SIZE, LF_MAX, LF_DENOMINATOR
<1>2. \A size \in Nat : CreateSize(size) = IF size < LeastSize THEN LeastSize ELSE size
  BY DEF CreateSize, LeastSize
<1> QED BY <1>1, <1>2

\* insert does not change the size.
LEMMA InsertSize ==
    ASSUME NEW tb, NEW r, NEW e
    PROVE  insert(tb, r, e).table.table_size = tb.table_size
BY DEF insert, Replace, Occupy, Table

\* A table of that size is not rebuilt before it has min_capacity elements or
\* tombstones: LF rounds down.
LEMMA RoomyNoRebuild ==
    ASSUME NEW tb, TableType(tb), tb.table_size >= LeastSize,
           tb.elem_count < MinCapacity, tb.deleted_count = 0
    PROVE  ~NeedsRebuild(tb)
<1> DEFINE n == tb.table_size
           x == tb.elem_count * 100
           q == x \div n
           r == x % n
<1>1. n \in Nat /\ tb.elem_count \in Nat /\ LeastSize \in Nat
  BY LeastSizeRounds DEF TableType
<1>2. n * 85 >= MinCapacity * 100 /\ MinCapacity >= 1
  BY <1>1, LeastSizeRounds, SizeAssumption
<1>3. n > 0
  BY <1>1, <1>2, SizeAssumption
<1>4. x \in Nat /\ x < MinCapacity * 100
  BY <1>1, SizeAssumption
<1>5. x = n * q + r /\ q \in Nat /\ r \in 0 .. n - 1
  <2> HIDE DEF x, n
  <2> QED BY <1>1, <1>3, <1>4, ModRange
<1>6. LF(tb) = q
  <2>1. tb.elem_count + tb.deleted_count = tb.elem_count
    BY <1>1
  <2> QED BY <2>1 DEF LF, LF_DENOMINATOR
<1> HIDE DEF q, r
<1>7. q < 85
  <2>1. q >= 85 => n * q >= n * 85
    BY <1>1, <1>5
  <2> HIDE DEF x, n
  <2> QED BY <2>1, <1>1, <1>2, <1>4, <1>5, SizeAssumption DEF n
<1> QED BY <1>3, <1>5, <1>6, <1>7 DEF NeedsRebuild, LF_MAX

\* Every step keeps the tables that large.
LEMMA RoomyStep ==
    ASSUME IInv, Roomy, [Next]_vars
    PROVE  Roomy'
<1>1. ASSUME NEW op, NEW e, pc = "idle", InsertNow(op, e)
      PROVE  Roomy'
  BY <1>1, InsertSize DEF Roomy, InsertNow
<1>2. ASSUME NEW op, NEW e, pc = "idle", RebuildAllocFails(op, e)
      PROVE  Roomy'
  BY <1>2 DEF Roomy, RebuildAllocFails
<1>3. ASSUME NEW op, NEW e, pc = "idle", RebuildStart(op, e)
      PROVE  Roomy'
  <2>1. t.elem_count \in Nat
    BY <1>3, TablesOK DEF TableOK, TableType
  <2>2. RebuildSize(t) \in Nat
    BY <2>1 DEF RebuildSize, LF_CAPACITY_TO_SIZE, LF_MIN, LF_DENOMINATOR
  <2>3. new'.table_size = CreateSize(RebuildSize(t)) /\ t' = t /\ pc' = "rebuild"
    BY <1>3 DEF RebuildStart, create, Table
  <2> QED BY <1>3, <2>2, <2>3, LeastSizeRounds DEF Roomy
<1>4. CASE clod_table_create
  <2>1. t'.table_size = CreateSize(LeastSize) /\ pc' = "idle"
    BY <1>4 DEF clod_table_create, create, Table, LeastSize
  <2> QED BY <2>1, LeastSizeRounds DEF Roomy
<1>5. CASE clod_table_destroy
  BY <1>5 DEF clod_table_destroy, Roomy
<1>6. ASSUME NEW k \in Keys, clod_table_del(k)
      PROVE  Roomy'
  BY <1>6 DEF clod_table_del, Roomy, Remove, Table
<1>7. CASE RebuildCopy
  <2>1. t' = t /\ pc = "rebuild"
    BY <1>7 DEF RebuildCopy
  <2>2. \/ pc' = "idle"
        \/ pc' = pc /\ new' = insert(new, FALSE, iterate(t, iter).element).table
    BY <1>7 DEF RebuildCopy
  <2>3. pc' = "idle" \/ new'.table_size = new.table_size
    BY <2>2, InsertSize
  <2> QED BY <2>1, <2>3 DEF Roomy
<1>8. CASE RebuildFinish
  BY <1>8, InsertSize DEF RebuildFinish, Roomy
<1>9. ASSUME UNCHANGED <<t, new, pc>>
      PROVE  Roomy'
  BY <1>9 DEF Roomy
<1>10. ASSUME NEW e \in Elements, clod_table_add(e) \/ clod_table_set(e)
       PROVE  Roomy'
  BY <1>1, <1>2, <1>3, <1>10 DEF clod_table_add, clod_table_set
<1>11. ASSUME NEW k \in Keys, clod_table_get(k)
       PROVE  Roomy'
  BY <1>9, <1>11 DEF clod_table_get
<1>12. CASE clod_table_create_fails \/ clod_table_len \/ UNCHANGED vars
  BY <1>9, <1>12 DEF clod_table_create_fails, clod_table_len, vars
<1> QED BY <1>4, <1>5, <1>6, <1>7, <1>8, <1>10, <1>11, <1>12 DEF Next

\* min_capacity elements fit without a rebuild in every table that has no
\* tombstones, a rebuilt one too, whatever min_capacity is.
THEOREM MinCapacityCorrect == Spec => []MinCapacityWithoutTombstones
<1>1. Init => Roomy
  BY DEF Init, Roomy
<1>2. IInv /\ Roomy /\ [Next]_vars => Roomy'
  BY RoomyStep
<1>3. IInv /\ Roomy => MinCapacityWithoutTombstones
  BY TablesOK, RoomyNoRebuild DEF TableOK, Roomy, MinCapacityWithoutTombstones
<1> QED BY <1>1, <1>2, <1>3, Invariance, PTL DEF Spec

-----------------------------------------------------------------------------
(* Sets of elements and the maps they represent.                           *)

DistinctKeys(E) ==
    /\ E \subseteq Elements
    /\ \A x, y \in E : KeyOf[x] = KeyOf[y] => x = y

\* What a map holds at the key of one of its elements.
LEMMA MapOfHit ==
    ASSUME NEW E, DistinctKeys(E), NEW e \in E
    PROVE  MapOf(E)[KeyOf[e]] = e /\ KeyOf[e] \in Keys /\ e # NULL
<1>1. KeyOf[e] \in Keys /\ e # NULL
  BY KeyAssumption, NullAssumption DEF DistinctKeys
<1>2. (CHOOSE x \in E : KeyOf[x] = KeyOf[e]) = e
  BY DEF DistinctKeys
<1> QED BY <1>1, <1>2 DEF MapOf

\* What it holds elsewhere.
LEMMA MapOfMiss ==
    ASSUME NEW E, NEW k \in Keys, \A e \in E : KeyOf[e] # k
    PROVE  MapOf(E)[k] = NULL
BY DEF MapOf

\* Putting an element at its key, in place of the one that was there, if any.
LEMMA MapOfPut ==
    ASSUME NEW E, DistinctKeys(E), NEW F, DistinctKeys(F), NEW e \in F,
           \A x : KeyOf[x] # KeyOf[e] => (x \in E <=> x \in F)
    PROVE  MapOf(F) = [MapOf(E) EXCEPT ![KeyOf[e]] = e]
<1>1. KeyOf[e] \in Keys /\ MapOf(F)[KeyOf[e]] = e
  BY MapOfHit
<1>2. ASSUME NEW k \in Keys, k # KeyOf[e]
      PROVE  MapOf(F)[k] = MapOf(E)[k]
  <2>1. CASE \E x \in E : KeyOf[x] = k
    <3>1. PICK x \in E : KeyOf[x] = k
      BY <2>1
    <3>2. x \in F
      BY <3>1, <1>2
    <3> QED BY <3>1, <3>2, MapOfHit
  <2>2. CASE \A x \in E : KeyOf[x] # k
    <3>1. \A x \in F : KeyOf[x] # k
      BY <2>2, <1>2
    <3> QED BY <2>2, <3>1, MapOfMiss
  <2> QED BY <2>1, <2>2
<1>3. MapOf(F) = [k \in Keys |-> MapOf(F)[k]] /\ MapOf(E) = [k \in Keys |-> MapOf(E)[k]]
  BY DEF MapOf
<1> HIDE DEF MapOf
<1> QED BY <1>1, <1>2, <1>3

\* Taking the element at a key away.
LEMMA MapOfTake ==
    ASSUME NEW E, DistinctKeys(E), NEW e \in E
    PROVE  MapOf(E \ {e}) = [MapOf(E) EXCEPT ![KeyOf[e]] = NULL]
<1> DEFINE F == E \ {e}
<1>1. DistinctKeys(F) /\ KeyOf[e] \in Keys
  BY KeyAssumption DEF DistinctKeys
<1>2. MapOf(F)[KeyOf[e]] = NULL
  <2>1. \A x \in F : KeyOf[x] # KeyOf[e]
    BY DEF DistinctKeys
  <2> QED BY <1>1, <2>1, MapOfMiss
<1>3. ASSUME NEW k \in Keys, k # KeyOf[e]
      PROVE  MapOf(F)[k] = MapOf(E)[k]
  <2>1. CASE \E x \in E : KeyOf[x] = k
    <3>1. PICK x \in E : KeyOf[x] = k
      BY <2>1
    <3>2. x \in F
      BY <3>1, <1>3
    <3> HIDE DEF F
    <3> QED BY <1>1, <3>1, <3>2, MapOfHit
  <2>2. CASE \A x \in E : KeyOf[x] # k
    BY <2>2, MapOfMiss
  <2> QED BY <2>1, <2>2
<1> HIDE DEF F
<1>4. MapOf(F) = [k \in Keys |-> MapOf(F)[k]] /\ MapOf(E) = [k \in Keys |-> MapOf(E)[k]]
  BY DEF MapOf
<1> QED BY <1>2, <1>3, <1>4 DEF F

-----------------------------------------------------------------------------
(* The operations of a table on the map it represents.                     *)

\* The elements of a table have different keys.
LEMMA ElemsDistinct ==
    ASSUME NEW tb, TableOK(tb)
    PROVE  DistinctKeys(Elems(tb))
<1>1. Elems(tb) \subseteq Elements
  BY DEF Elems, TableOK, ProbingOf, Tagged
<1>2. ASSUME NEW x \in Elems(tb), NEW y \in Elems(tb), KeyOf[x] = KeyOf[y]
      PROVE  x = y
  <2>1. PICK i \in Occupied(tb) : x = tb.elements[i]
    BY DEF Elems
  <2>2. PICK j \in Occupied(tb) : y = tb.elements[j]
    BY DEF Elems
  <2>3. i = j
    BY <2>1, <2>2, <1>2 DEF TableOK, ProbingOf, UniqueKeys, KeyAt
  <2> QED BY <2>1, <2>2, <2>3
<1> QED BY <1>1, <1>2 DEF DistinctKeys

\* What insert returns and what it does to the map.
LEMMA InsertMap ==
    ASSUME NEW tb, TableOK(tb), NEW e \in Elements, NEW replace \in BOOLEAN,
           tb.elem_count < tb.table_size
    PROVE  LET M  == MapOf(Elems(tb))
               M2 == MapOf(Elems(insert(tb, replace, e).table))
           IN  /\ insert(tb, replace, e).ret = M[KeyOf[e]]
               /\ M2 = IF M[KeyOf[e]] = NULL \/ replace
                       THEN [M EXCEPT ![KeyOf[e]] = e] ELSE M
<1> DEFINE E == Elems(tb)
           tb2 == insert(tb, replace, e).table
           F == Elems(tb2)
<1>1. KeyOf[e] \in Keys /\ DistinctKeys(E)
  BY KeyAssumption, ElemsDistinct
<1>2. /\ tb.elements \in [Slots(tb) -> Elements \cup {NULL}]
      /\ Occupied(tb) \subseteq Slots(tb)
  BY DEF TableOK, TableType, Occupied
<1>3. DistinctKeys(F)
  BY InsertOK, ElemsDistinct
<1>4. CASE \E i \in Occupied(tb) : KeyAt(tb, i) = KeyOf[e]
  <2>1. PICK i \in Occupied(tb) : KeyAt(tb, i) = KeyOf[e]
    BY <1>4
  <2>2. /\ insert(tb, replace, e).ret = tb.elements[i]
        /\ tb2 = IF replace THEN Replace(tb, i, e) ELSE tb
    BY <2>1, InsertExisting
  <2>3. tb.elements[i] \in E /\ KeyOf[tb.elements[i]] = KeyOf[e]
    BY <2>1 DEF Elems, KeyAt
  <2>4. MapOf(E)[KeyOf[e]] = tb.elements[i] /\ MapOf(E)[KeyOf[e]] # NULL
    <3> HIDE DEF E
    <3> QED BY <2>3, <1>1, MapOfHit
  <2>5. CASE ~replace
    BY <2>2, <2>4, <2>5
  <2>6. CASE replace
    <3>1. tb2 = Replace(tb, i, e)
      BY <2>2, <2>6
    <3>2. Occupied(tb2) = Occupied(tb) /\ tb2.elements = [tb.elements EXCEPT ![i] = e]
      BY <3>1, <2>1, ReplaceOK DEF Replace, Table
    <3> HIDE DEF tb2
    <3>3. e \in F
      BY <3>2, <1>2 DEF Elems
    <3>4. \A x : KeyOf[x] # KeyOf[e] => (x \in E <=> x \in F)
      BY <3>2, <2>3, <1>2 DEF Elems
    <3>5. MapOf(F) = [MapOf(E) EXCEPT ![KeyOf[e]] = e]
      <4> HIDE DEF E, F
      <4> QED BY <3>3, <3>4, <1>1, <1>3, MapOfPut
    <3> QED BY <3>5, <2>2, <2>4, <2>6 DEF tb2
  <2> QED BY <2>5, <2>6
<1>5. CASE \A i \in Occupied(tb) : KeyAt(tb, i) # KeyOf[e]
  <2>1. insert(tb, replace, e).ret = NULL
    BY <1>5, InsertNew
  <2>2. PICK av \in Slots(tb) :
           /\ av \notin Occupied(tb)
           /\ Occupied(tb2) = Occupied(tb) \cup {av}
           /\ tb2 = Occupy(tb, av, get_position(tb, KeyOf[e]).ctl, e)
    BY <1>5, InsertNew
  <2>3. tb2.elements = [tb.elements EXCEPT ![av] = e]
    BY <2>2 DEF Occupy, Table
  <2>4. MapOf(E)[KeyOf[e]] = NULL
    <3>1. \A x \in E : KeyOf[x] # KeyOf[e]
      BY <1>5 DEF Elems, KeyAt
    <3> QED BY <3>1, <1>1, MapOfMiss
  <2> HIDE DEF tb2
  <2>5. F = E \cup {e}
    <3>1. tb2.elements[av] = e
      BY <2>3, <1>2
    <3>2. \A i \in Occupied(tb) : tb2.elements[i] = tb.elements[i]
      BY <2>2, <2>3, <1>2
    <3> QED BY <2>2, <3>1, <3>2 DEF Elems
  <2>6. MapOf(F) = [MapOf(E) EXCEPT ![KeyOf[e]] = e]
    <3> HIDE DEF E, F
    <3> QED BY <2>5, <1>1, <1>3, MapOfPut
  <2> QED BY <2>1, <2>4, <2>6 DEF tb2
<1> QED BY <1>4, <1>5

\* What get and del find.
LEMMA FindMap ==
    ASSUME TableOK(t), NEW k \in Keys
    PROVE  /\ Find(k) = INDEX_NIL => MapOf(Elems(t))[k] = NULL
           /\ Find(k) # INDEX_NIL =>
                 /\ Find(k) \in Occupied(t)
                 /\ MapOf(Elems(t))[k] = t.elements[Find(k)]
                 /\ KeyOf[t.elements[Find(k)]] = k
<1>1. t.table_size \in Nat
  BY DEF TableOK, TableType
<1>2. CASE t.table_size = 0
  <2>1. Occupied(t) = {}
    BY <1>2 DEF Occupied, Slots
  <2>2. Elems(t) = {}
    BY <2>1 DEF Elems
  <2> QED BY <2>2, <1>2, MapOfMiss DEF Find
<1>3. CASE t.table_size > 0
  <2>1. /\ \A i \in Occupied(t) : KeyAt(t, i) = k => Find(k) = i
        /\ Find(k) # INDEX_NIL => Find(k) \in Occupied(t) /\ KeyAt(t, Find(k)) = k
    BY <1>1, <1>3, ProbeFinds DEF Find, TableOK
  <2>2. \A i \in Occupied(t) : i # INDEX_NIL
    BY DEF Occupied, Slots, INDEX_NIL
  <2>3. ASSUME Find(k) = INDEX_NIL
        PROVE  MapOf(Elems(t))[k] = NULL
    <3>1. \A x \in Elems(t) : KeyOf[x] # k
      BY <2>1, <2>2, <2>3 DEF Elems, KeyAt
    <3> QED BY <3>1, MapOfMiss
  <2>4. ASSUME Find(k) # INDEX_NIL
        PROVE  MapOf(Elems(t))[k] = t.elements[Find(k)]
    <3>1. t.elements[Find(k)] \in Elems(t) /\ KeyOf[t.elements[Find(k)]] = k
      BY <2>1, <2>4 DEF Elems, KeyAt
    <3> QED BY <3>1, ElemsDistinct, MapOfHit
  <2> QED BY <2>1, <2>3, <2>4 DEF KeyAt
<1> QED BY <1>1, <1>2, <1>3

\* The number of keys in the map is the number of occupied slots.
LEMMA LenMap ==
    ASSUME NEW tb, TableOK(tb)
    PROVE  Cardinality({k \in Keys : MapOf(Elems(tb))[k] # NULL}) = tb.elem_count
<1> DEFINE E == Elems(tb)
           K == {k \in Keys : MapOf(E)[k] # NULL}
           f == [i \in Occupied(tb) |-> KeyAt(tb, i)]
<1>1. DistinctKeys(E)
  BY ElemsDistinct
<1>2. \A i \in Occupied(tb) : KeyAt(tb, i) \in K
  <2> SUFFICES ASSUME NEW i \in Occupied(tb) PROVE KeyAt(tb, i) \in K
    OBVIOUS
  <2>1. tb.elements[i] \in E
    BY DEF Elems
  <2> HIDE DEF E
  <2> QED BY <2>1, <1>1, MapOfHit DEF KeyAt
<1>3. \A k \in K : \E i \in Occupied(tb) : KeyAt(tb, i) = k
  <2> SUFFICES ASSUME NEW k \in K, \A i \in Occupied(tb) : KeyAt(tb, i) # k
               PROVE  FALSE
    OBVIOUS
  <2>1. \A x \in E : KeyOf[x] # k
    BY DEF Elems, KeyAt
  <2> QED BY <2>1, MapOfMiss
<1>4. \A i, j \in Occupied(tb) : KeyAt(tb, i) = KeyAt(tb, j) => i = j
  BY DEF TableOK, ProbingOf, UniqueKeys
<1>5. f \in Bijection(Occupied(tb), K)
  <2> HIDE DEF K
  <2> QED BY <1>2, <1>3, <1>4 DEF Bijection, Injection, Surjection, IsInjective
<1>6. ExistsBijection(Occupied(tb), K)
  BY <1>5 DEF ExistsBijection
<1>7. IsFiniteSet(Occupied(tb))
  BY FiniteSlots DEF TableOK
<1>8. Cardinality(K) = Cardinality(Occupied(tb))
  <2> HIDE DEF K
  <2> QED BY <1>6, <1>7, FS_Bijection
<1> QED BY <1>8 DEF TableOK, CountersOf

-----------------------------------------------------------------------------
(* Step simulation.                                                        *)

\* The abstract value of the table, between calls and during a rebuild.
LEMMA AliveContents ==
    /\ pc # "none" => Contents = MapOf(Elems(t))
    /\ pc' # "none" => Contents' = MapOf(Elems(t'))
BY DEF Contents

\* Without a table the map is empty.
LEMMA EmptyContents ==
    /\ pc = "none" => Contents = [k \in Keys |-> NULL]
    /\ pc' = "none" => Contents' = [k \in Keys |-> NULL]
BY DEF Contents, MapOf

\* A finished add or set that did not fail.
LEMMA InsertSimulates ==
    ASSUME NEW tb, TableOK(tb), tb.elem_count < tb.table_size,
           NEW op \in {"add", "set"}, NEW e \in Elements,
           pc # "none", pc' # "none",
           MapOf(Elems(tb)) = Contents,
           t' = insert(tb, op = "set", e).table,
           last' = Call(op, e, insert(tb, op = "set", e).ret)
    PROVE  Map!MapAdd(e) \/ Map!MapSet(e)
<1> DEFINE r == (op = "set")
           M == Contents
<1>1. r \in BOOLEAN
  OBVIOUS
<1> HIDE DEF r
<1>2. /\ insert(tb, r, e).ret = M[KeyOf[e]]
      /\ MapOf(Elems(insert(tb, r, e).table))
           = IF M[KeyOf[e]] = NULL \/ r THEN [M EXCEPT ![KeyOf[e]] = e] ELSE M
  BY <1>1, InsertMap
<1>3. Contents' = IF M[KeyOf[e]] = NULL \/ r THEN [M EXCEPT ![KeyOf[e]] = e] ELSE M
  BY <1>2, AliveContents DEF r
<1>4. last' = Call(op, e, M[KeyOf[e]])
  BY <1>2 DEF r
<1> HIDE DEF M
<1>5. CASE op = "add"
  <2>1. ~r
    BY <1>5 DEF r
  <2> QED BY <2>1, <1>3, <1>4, <1>5 DEF Map!MapAdd, Map!Call, Call, M
<1>6. CASE op = "set"
  <2>1. r
    BY <1>6 DEF r
  <2> QED BY <2>1, <1>3, <1>4, <1>6 DEF Map!MapSet, Map!Call, Call, M
<1> QED BY <1>5, <1>6

\* A call that could not allocate.
LEMMA AllocFailSimulates ==
    ASSUME pc = "idle", NEW op \in {"add", "set"}, NEW e \in Elements,
           RebuildAllocFails(op, e)
    PROVE  Map!MapAdd(e) \/ Map!MapSet(e)
<1>1. /\ UNCHANGED <<t, pc>> /\ last' = Call(op, e, e)
  BY DEF RebuildAllocFails, Return
<1>2. Contents' = Contents
  BY <1>1 DEF Contents
<1> QED BY <1>1, <1>2 DEF Map!MapAdd, Map!MapSet, Map!MapAllocFails, Map!Call, Call

\* Every step of the hash table is a step of the map, or changes nothing.
LEMMA StepSimulation ==
    ASSUME IInv, [Next]_vars
    PROVE  [Map!MapNext]_(Map!mapVars)
<1> USE DEF Return
<1>1. CASE clod_table_create_fails
  <2>1. pc = "none" /\ UNCHANGED <<t, pc>> /\ last' = Call("create", NULL, FALSE)
    BY <1>1 DEF clod_table_create_fails
  <2>2. Contents' = Contents
    BY <2>1 DEF Contents
  <2> QED BY <2>1, <2>2 DEF Map!MapNext, Map!MapCreateFails, Map!Call, Call
<1>2. CASE clod_table_create
  <2>1. pc = "none" /\ pc' = "idle" /\ last' = Call("create", NULL, TRUE)
    BY <1>2 DEF clod_table_create
  <2>2. Elems(t') = {}
    <3> DEFINE size == CreateSize(LF_CAPACITY_TO_SIZE(LF_MAX, MinCapacity))
    <3>1. size \in Nat
      BY SizeAssumption DEF CreateSize, LF_CAPACITY_TO_SIZE, LF_MAX, LF_DENOMINATOR
    <3>2. PICK a \in Alloc(size) : t' = create(size, a)
      BY <1>2 DEF clod_table_create
    <3>3. Occupied(t') = {}
      BY <3>1, <3>2, CreateOK DEF Alloc
    <3> QED BY <3>3 DEF Elems
  <2>3. Contents' = [k \in Keys |-> NULL]
    BY <2>1, <2>2, AliveContents DEF MapOf
  <2> QED BY <2>1, <2>3 DEF Map!MapNext, Map!MapCreate, Map!EmptyMap, Map!Call, Call
<1>3. CASE clod_table_destroy
  <2>1. pc = "idle" /\ pc' = "none" /\ last' = Call("destroy", NULL, NULL)
    BY <1>3 DEF clod_table_destroy
  <2>2. Contents' = [k \in Keys |-> NULL]
    BY <2>1, EmptyContents
  <2> QED BY <2>1, <2>2 DEF Map!MapNext, Map!MapDestroy, Map!EmptyMap, Map!Call, Call
<1>4. CASE clod_table_len
  <2>1. pc = "idle" /\ UNCHANGED <<t, pc>> /\ last' = Call("len", NULL, t.elem_count)
    BY <1>4 DEF clod_table_len
  <2>2. Contents' = Contents
    BY <2>1 DEF Contents
  <2>3. t.elem_count = Cardinality({k \in Keys : Contents[k] # NULL})
    BY <2>1, TablesOK, AliveContents, LenMap
  <2> QED BY <2>1, <2>2, <2>3 DEF Map!MapNext, Map!MapLen, Map!Call, Call,
                               Map!Cardinality, Map!IsFiniteSet, Cardinality, IsFiniteSet
<1>5. ASSUME NEW op \in {"add", "set"}, NEW e \in Elements, pc = "idle",
             InsertNow(op, e)
      PROVE  Map!MapAdd(e) \/ Map!MapSet(e)
  <2>1. TableOK(t)
    BY <1>5, IdleHeap
  <2>2. t.elem_count < t.table_size
    <3>1. t.elem_count + t.deleted_count < t.table_size
      BY <2>1, <1>5, NoRebuildRoom DEF TableOK, InsertNow
    <3> QED BY <2>1, <3>1 DEF TableOK, TableType
  <2>3. /\ pc' # "none" /\ pc # "none"
        /\ t' = insert(t, op = "set", e).table
        /\ last' = Call(op, e, insert(t, op = "set", e).ret)
    BY <1>5 DEF InsertNow
  <2>4. MapOf(Elems(t)) = Contents
    BY <2>3, AliveContents
  <2> QED BY <2>1, <2>2, <2>3, <2>4, InsertSimulates
<1>6. ASSUME NEW op \in {"add", "set"}, NEW e \in Elements, pc = "idle",
             RebuildStart(op, e)
      PROVE  UNCHANGED Map!mapVars
  <2>1. t' = t /\ pc' = "rebuild" /\ last' = last
    BY <1>6 DEF RebuildStart
  <2>2. Contents' = Contents
    BY <2>1, <1>6, AliveContents
  <2> QED BY <2>1, <2>2, <1>6 DEF Map!mapVars
<1>7. ASSUME NEW e \in Elements, clod_table_add(e) \/ clod_table_set(e)
      PROVE  [Map!MapNext]_(Map!mapVars)
  <2>1. PICK op \in {"add", "set"} :
           /\ pc = "idle"
           /\ InsertNow(op, e) \/ RebuildAllocFails(op, e) \/ RebuildStart(op, e)
    BY <1>7 DEF clod_table_add, clod_table_set
  <2>2. CASE RebuildStart(op, e)
    BY <2>1, <2>2, <1>6
  <2>3. CASE InsertNow(op, e) \/ RebuildAllocFails(op, e)
    <3>1. Map!MapAdd(e) \/ Map!MapSet(e)
      BY <2>1, <2>3, <1>5, AllocFailSimulates
    <3> QED BY <3>1 DEF Map!MapNext
  <2> QED BY <2>1, <2>2, <2>3
<1>8. ASSUME NEW k \in Keys, clod_table_get(k)
      PROVE  Map!MapGet(k)
  <2>1. /\ pc = "idle" /\ UNCHANGED <<t, pc>>
        /\ last' = Call("get", k, IF Find(k) = INDEX_NIL THEN NULL ELSE t.elements[Find(k)])
    BY <1>8 DEF clod_table_get
  <2>2. Contents' = Contents
    BY <2>1 DEF Contents
  <2>3. last' = Call("get", k, Contents[k])
    BY <2>1, TablesOK, AliveContents, FindMap
  <2> QED BY <2>1, <2>2, <2>3 DEF Map!MapGet, Map!Call, Call
<1>9. ASSUME NEW k \in Keys, clod_table_del(k)
      PROVE  Map!MapDel(k)
  <2>1. pc = "idle" /\ pc' = "idle" /\ TableOK(t)
    BY <1>9, TablesOK DEF clod_table_del
  <2>2. Contents = MapOf(Elems(t)) /\ Contents' = MapOf(Elems(t'))
    BY <2>1, AliveContents
  <2>3. CASE Find(k) = INDEX_NIL
    <3>1. t' = t /\ last' = Call("del", k, NULL)
      BY <1>9, <2>3 DEF clod_table_del
    <3>2. Contents[k] = NULL
      BY <2>1, <2>2, <2>3, FindMap
    <3>3. Contents' = [Contents EXCEPT ![k] = NULL]
      <4>1. Contents' = Contents
        BY <2>2, <3>1
      <4>2. Contents = [j \in Keys |-> Contents[j]]
        BY DEF Contents, MapOf
      <4> QED BY <4>1, <4>2, <3>2
    <3> QED BY <2>1, <3>1, <3>2, <3>3 DEF Map!MapDel, Map!Call, Call
  <2>4. CASE Find(k) # INDEX_NIL
    <3> DEFINE i == Find(k)
               x == t.elements[i]
    <3>1. t' = Remove(t, i) /\ last' = Call("del", k, x) /\ t.cursor < MaxCursor
      BY <1>9, <2>4 DEF clod_table_del
    <3>2. i \in Occupied(t) /\ Contents[k] = x /\ KeyOf[x] = k
      BY <2>1, <2>2, <2>4, FindMap
    <3>3. Occupied(t') = Occupied(t) \ {i} /\ t'.elements = t.elements
      BY <2>1, <3>1, <3>2, RemoveOK DEF Remove, Table
    <3>4. Elems(t') = Elems(t) \ {x}
      <4>1. \A j \in Occupied(t) : t.elements[j] = x => j = i
        BY <2>1, <3>2 DEF TableOK, ProbingOf, UniqueKeys, KeyAt
      <4> HIDE DEF i
      <4> QED BY <3>2, <3>3, <4>1 DEF Elems
    <3>5. x \in Elems(t) /\ DistinctKeys(Elems(t))
      BY <2>1, <3>2, ElemsDistinct DEF Elems
    <3> HIDE DEF x
    <3>6. Contents' = [Contents EXCEPT ![k] = NULL]
      BY <2>2, <3>2, <3>4, <3>5, MapOfTake
    <3> QED BY <2>1, <3>1, <3>2, <3>6 DEF Map!MapDel, Map!Call, Call
  <2> QED BY <2>3, <2>4
<1>10. CASE RebuildCopy
  <2>1. /\ pc = "rebuild" /\ pc' # "none" /\ t' = t
    BY <1>10 DEF RebuildCopy
  <2>2. CASE last' = last
    <3>1. Contents' = Contents
      BY <2>1, AliveContents
    <3> QED BY <2>1, <2>2, <3>1 DEF Map!mapVars
  <2>3. CASE last' # last
    <3>1. last' = Call(arg.op, arg.e, arg.e)
      BY <1>10, <2>3 DEF RebuildCopy
    <3>2. arg.op \in {"add", "set"} /\ arg.e \in Elements
      BY <2>1 DEF IInv, TypeOK
    <3>3. Contents' = Contents
      BY <2>1, AliveContents
    <3>4. Map!MapAdd(arg.e) \/ Map!MapSet(arg.e)
      BY <2>1, <3>1, <3>2, <3>3
         DEF Map!MapAdd, Map!MapSet, Map!MapAllocFails, Map!Call, Call
    <3> QED BY <3>2, <3>4 DEF Map!MapNext
  <2> QED BY <2>2, <2>3
<1>11. CASE RebuildFinish
  <2>1. /\ pc = "rebuild" /\ pc' = "idle" /\ iterate(t, iter).element = NULL
        /\ t' = insert(new, arg.op = "set", arg.e).table
        /\ last' = Call(arg.op, arg.e, insert(new, arg.op = "set", arg.e).ret)
    BY <1>11 DEF RebuildFinish
  <2>2. /\ TableOK(new) /\ Elems(new) = Elems(t) /\ new.elem_count < new.table_size
    BY <2>1, RebuildComplete
  <2>3. arg.op \in {"add", "set"} /\ arg.e \in Elements
    BY <2>1 DEF IInv, TypeOK
  <2>4. MapOf(Elems(new)) = Contents
    BY <2>1, <2>2, AliveContents
  <2>5. Map!MapAdd(arg.e) \/ Map!MapSet(arg.e)
    BY <2>1, <2>2, <2>3, <2>4, InsertSimulates
  <2> QED BY <2>3, <2>5 DEF Map!MapNext
<1>12. CASE UNCHANGED vars
  <2>1. UNCHANGED <<t, pc, last>>
    BY <1>12 DEF vars
  <2> QED BY <2>1 DEF Map!mapVars, Contents
<1>13. ASSUME NEW k \in Keys, clod_table_get(k) \/ clod_table_del(k)
       PROVE  Map!MapNext
  BY <1>8, <1>9, <1>13 DEF Map!MapNext
<1> QED
  BY <1>1, <1>2, <1>3, <1>4, <1>7, <1>10, <1>11, <1>12, <1>13 DEF Next

\* The hash table of table.c implements the map of table.h.
THEOREM ImplementsMap == Spec => Refinement
<1>1. Init => Map!MapInit
  BY EmptyContents DEF Init, Map!MapInit, Map!EmptyMap, Map!Call, Call
<1>2. IInv /\ [Next]_vars => [Map!MapNext]_(Map!mapVars)
  BY StepSimulation
<1> QED BY <1>1, <1>2, Invariance, PTL DEF Spec, Refinement, Map!MapSpec

-----------------------------------------------------------------------------
(* The walk.                                                               *)

\* Table tb2 has every key of tb in the slot where tb has it, and the same
\* order of slots.
Extends(tb, tb2) ==
    /\ tb2.table_size = tb.table_size
    /\ tb2.cursor = tb.cursor
    /\ \A i \in Occupied(tb) : i \in Occupied(tb2) /\ KeyAt(tb2, i) = KeyAt(tb, i)

\* The keys a walk that is at _internal = n has gone past, and the ones it
\* has ahead.
Past(tb, n) ==
    {KeyAt(tb, IterSlot(tb, j)) : j \in IterAhead(tb, 0) \ IterAhead(tb, n)}

Ahead(tb, n) == {KeyAt(tb, IterSlot(tb, j)) : j \in IterAhead(tb, n)}

\* In the middle of an undisturbed walk every key has been yielded at most
\* once; the ones yielded are behind the iterator, and the ones of the
\* beginning that have not been yielded are ahead of it.
MidWalk ==
    stable /\ it # 0 =>
        /\ \A k \in Keys : seen[k] <= 1
        /\ \A k \in Keys : seen[k] = 1 => k \in Past(t, it)
        /\ \A k \in start : seen[k] = 1 \/ k \in Ahead(t, it)

WalkType ==
    /\ it \in Nat
    /\ seen \in [Keys -> Nat]
    /\ start \subseteq Keys
    /\ stable \in BOOLEAN
    /\ done \in BOOLEAN
    /\ pc = "none" => it = 0

WInv == WalkType /\ MidWalk /\ WalkIsExact

\* insert moves no key.
LEMMA InsertExtends ==
    ASSUME NEW tb, TableOK(tb), NEW e \in Elements, NEW replace \in BOOLEAN,
           tb.elem_count < tb.table_size
    PROVE  Extends(tb, insert(tb, replace, e).table)
<1> DEFINE tb2 == insert(tb, replace, e).table
<1>1. CASE \E i \in Occupied(tb) : KeyAt(tb, i) = KeyOf[e]
  <2>1. PICK i \in Occupied(tb) : KeyAt(tb, i) = KeyOf[e]
    BY <1>1
  <2>2. tb2 = IF replace THEN Replace(tb, i, e) ELSE tb
    BY <2>1, InsertExisting
  <2>3. CASE replace
    <3>1. /\ Occupied(Replace(tb, i, e)) = Occupied(tb)
          /\ \A j \in Occupied(tb) : KeyAt(Replace(tb, i, e), j) = KeyAt(tb, j)
      BY <2>1, ReplaceOK
    <3>2. /\ Replace(tb, i, e).table_size = tb.table_size
          /\ Replace(tb, i, e).cursor = tb.cursor
      BY DEF Replace, Table
    <3> QED BY <2>2, <2>3, <3>1, <3>2 DEF Extends
  <2>4. CASE ~replace
    BY <2>2, <2>4 DEF Extends
  <2> QED BY <2>3, <2>4
<1>2. CASE \A i \in Occupied(tb) : KeyAt(tb, i) # KeyOf[e]
  <2> DEFINE ctl == get_position(tb, KeyOf[e]).ctl
  <2>1. PICK av \in Slots(tb) : /\ av \notin Occupied(tb)
                                /\ Occupied(tb2) = Occupied(tb) \cup {av}
                                /\ tb2 = Occupy(tb, av, ctl, e)
    BY <1>2, InsertNew
  <2> HIDE DEF tb2, ctl
  <2>2. /\ tb2.table_size = tb.table_size
        /\ tb2.cursor = tb.cursor
        /\ tb2.elements = [tb.elements EXCEPT ![av] = e]
    BY <2>1 DEF Occupy, Table
  <2>3. tb.elements \in [Slots(tb) -> Elements \cup {NULL}]
    BY DEF TableOK, TableType
  <2>4. \A i \in Occupied(tb) : KeyAt(tb2, i) = KeyAt(tb, i)
    BY <2>1, <2>2, <2>3 DEF KeyAt, Occupied
  <2> QED BY <2>1, <2>2, <2>4 DEF Extends, tb2
<1> QED BY <1>1, <1>2

\* A call that leaves the walk undisturbed only adds keys: a deletion moves
\* the cursor, a rebuild changes the address.
LEMMA UndisturbedExtends ==
    ASSUME IInv, Next, pc # "none", pc' # "none",
           t'.addr = t.addr, t'.cursor = t.cursor
    PROVE  Extends(t, t')
<1>1. TableOK(t) /\ t.cursor \in Nat
  BY TablesOK, SizeAssumption DEF TableOK, TableType
<1>2. ASSUME t' = t
      PROVE  Extends(t, t')
  BY <1>2 DEF Extends
<1>3. ASSUME NEW op \in {"add", "set"}, NEW e \in Elements, pc = "idle", InsertNow(op, e)
      PROVE  Extends(t, t')
  <2>1. t.elem_count < t.table_size
    <3>1. t.elem_count + t.deleted_count < t.table_size
      BY <1>1, <1>3, NoRebuildRoom DEF TableOK, InsertNow
    <3> QED BY <1>1, <3>1 DEF TableOK, TableType
  <2> DEFINE r == (op = "set")
  <2>2. r \in BOOLEAN
    OBVIOUS
  <2>3. t' = insert(t, r, e).table
    BY <1>3 DEF InsertNow
  <2> HIDE DEF r
  <2> QED BY <1>1, <2>1, <2>2, <2>3, InsertExtends
<1>4. ASSUME NEW e \in Elements, clod_table_add(e) \/ clod_table_set(e)
      PROVE  Extends(t, t')
  <2>1. PICK op \in {"add", "set"} :
           /\ pc = "idle"
           /\ InsertNow(op, e) \/ RebuildAllocFails(op, e) \/ RebuildStart(op, e)
    BY <1>4 DEF clod_table_add, clod_table_set
  <2>2. RebuildAllocFails(op, e) \/ RebuildStart(op, e) => t' = t
    BY DEF RebuildAllocFails, RebuildStart
  <2> QED BY <2>1, <2>2, <1>2, <1>3
<1>5. ASSUME NEW k \in Keys, clod_table_del(k)
      PROVE  t' = t
  <2>1. CASE Find(k) = INDEX_NIL
    BY <1>5, <2>1 DEF clod_table_del
  <2>2. CASE Find(k) # INDEX_NIL
    <3>1. t'.cursor = t.cursor + 1
      BY <1>5, <2>2 DEF clod_table_del, Remove, Table
    <3> QED BY <3>1, <1>1
  <2> QED BY <2>1, <2>2
<1>6. ~RebuildFinish
  <2> SUFFICES ASSUME RebuildFinish PROVE FALSE
    OBVIOUS
  <2>1. pc = "rebuild" /\ t' = insert(new, arg.op = "set", arg.e).table
    BY DEF RebuildFinish
  <2>2. insert(new, arg.op = "set", arg.e).table.addr = new.addr
    BY DEF insert, Replace, Occupy, Table
  <2>3. t.addr # new.addr
    BY <2>1 DEF IInv, HeapExact
  <2> QED BY <2>1, <2>2, <2>3
<1>7. clod_table_create_fails \/ clod_table_len \/ RebuildCopy => t' = t
  BY DEF clod_table_create_fails, clod_table_len, RebuildCopy
<1>8. ~clod_table_create /\ ~clod_table_destroy
  BY DEF clod_table_create, clod_table_destroy
<1>9. \A k \in Keys : clod_table_get(k) => t' = t
  BY DEF clod_table_get
<1> QED BY <1>2, <1>4, <1>5, <1>6, <1>7, <1>8, <1>9 DEF Next

\* In a table that has only gained keys, the keys behind the iterator are
\* still behind it and the ones ahead still ahead.
LEMMA ExtendsWalk ==
    ASSUME NEW tb, TableOK(tb), NEW tb2, Extends(tb, tb2), NEW n \in Nat
    PROVE  Past(tb, n) \subseteq Past(tb2, n) /\ Ahead(tb, n) \subseteq Ahead(tb2, n)
<1>1. tb.table_size \in Nat /\ tb.cursor \in Nat
  BY SizeAssumption DEF TableOK, TableType
<1>2. Slots(tb2) = Slots(tb) /\ \A j : IterSlot(tb2, j) = IterSlot(tb, j)
  BY DEF Extends, Slots, IterSlot
<1>3. ASSUME NEW m \in Nat, NEW j \in IterAhead(tb, m)
      PROVE  /\ j \in IterAhead(tb2, m)
             /\ KeyAt(tb2, IterSlot(tb2, j)) = KeyAt(tb, IterSlot(tb, j))
  <2>1. j \in Slots(tb) /\ j >= m /\ CTL_IS_OCCUPIED(tb.control[IterSlot(tb, j)])
    BY DEF IterAhead
  <2>2. IterSlot(tb, j) \in Slots(tb)
    <3>1. j + tb.cursor \in Nat /\ tb.table_size > 0
      BY <2>1, <1>1 DEF Slots
    <3> QED BY <3>1, <1>1, ModRange DEF IterSlot, Slots
  <2>3. IterSlot(tb, j) \in Occupied(tb)
    BY <2>1, <2>2 DEF Occupied
  <2>4. IterSlot(tb, j) \in Occupied(tb2) /\ KeyAt(tb2, IterSlot(tb, j)) = KeyAt(tb, IterSlot(tb, j))
    BY <2>3 DEF Extends
  <2> QED BY <2>1, <2>4, <1>2 DEF IterAhead, Occupied
<1>4. ASSUME NEW j \in IterAhead(tb, 0), j \notin IterAhead(tb, n)
      PROVE  j \notin IterAhead(tb2, n)
  BY <1>4 DEF IterAhead
<1>5. Ahead(tb, n) \subseteq Ahead(tb2, n)
  BY <1>3 DEF Ahead
<1>6. Past(tb, n) \subseteq Past(tb2, n)
  BY <1>3, <1>4 DEF Past
<1> QED BY <1>5, <1>6

\* What a call of clod_table_iter that yields an element does to the two sets.
LEMMA YieldStep ==
    ASSUME NEW tb, TableOK(tb), NEW n \in Nat, iterate(tb, n).element # NULL
    PROVE  LET r == iterate(tb, n)
               k == KeyOf[r.element]
           IN  /\ r.internal \in Nat \ {0}
               /\ k \in Keys
               /\ k \notin Past(tb, n)
               /\ Past(tb, n) \cup {k} \subseteq Past(tb, r.internal)
               /\ Ahead(tb, n) \subseteq Ahead(tb, r.internal) \cup {k}
<1> DEFINE r == iterate(tb, n)
           k == KeyOf[r.element]
<1>1. PICK m \in IterAhead(tb, n) :
         /\ m \in Slots(tb)
         /\ n <= m
         /\ IterSlot(tb, m) \in Occupied(tb)
         /\ r.element = tb.elements[IterSlot(tb, m)]
         /\ r.element \in Elements
         /\ r.internal = m + 1
         /\ IterAhead(tb, m + 1) = IterAhead(tb, n) \ {m}
  BY IterStep
<1>2. m \in Nat /\ tb.table_size \in Nat
  BY <1>1 DEF Slots, TableOK, TableType
<1>3. k \in Keys /\ k = KeyAt(tb, IterSlot(tb, m))
  BY <1>1, KeyAssumption DEF KeyAt
<1> HIDE DEF k
<1>4. IterAhead(tb, n) \subseteq IterAhead(tb, 0)
  BY DEF IterAhead, Slots
<1>5. \A j \in IterAhead(tb, 0) : IterSlot(tb, j) \in Occupied(tb)
  BY WalkOccupied
<1>6. k \notin Past(tb, n)
  <2> SUFFICES ASSUME NEW j \in IterAhead(tb, 0), j \notin IterAhead(tb, n),
                      k = KeyAt(tb, IterSlot(tb, j))
               PROVE  FALSE
    BY DEF Past
  <2>1. IterSlot(tb, j) = IterSlot(tb, m)
    BY <1>1, <1>3, <1>5 DEF TableOK, ProbingOf, UniqueKeys
  <2> QED BY <2>1, <1>1, <1>4, WalkBijection
<1>7. Past(tb, n) \cup {k} \subseteq Past(tb, m + 1)
  BY <1>1, <1>3, <1>4 DEF Past
<1>8. Ahead(tb, n) \subseteq Ahead(tb, m + 1) \cup {k}
  BY <1>1, <1>3 DEF Ahead
<1> QED BY <1>1, <1>2, <1>3, <1>6, <1>7, <1>8 DEF k

\* At the beginning of a walk every stored key is ahead; at its end none is.
LEMMA WalkEnds ==
    ASSUME NEW tb, TableOK(tb)
    PROVE  /\ KeysOf(tb) \subseteq Ahead(tb, 0)
           /\ KeysOf(tb) \subseteq Keys
           /\ \A n \in Nat : iterate(tb, n).element = NULL =>
                 Ahead(tb, n) = {} /\ iterate(tb, n).internal = 0
<1>1. KeysOf(tb) \subseteq Ahead(tb, 0)
  BY WalkBijection DEF KeysOf, Ahead
<1>2. KeysOf(tb) \subseteq Keys
  BY KeyAssumption DEF KeysOf, KeyAt, TableOK, ProbingOf, Tagged
<1>3. ASSUME NEW n \in Nat, iterate(tb, n).element = NULL
      PROVE  Ahead(tb, n) = {} /\ iterate(tb, n).internal = 0
  <2>1. IterAhead(tb, n) = {}
    BY <1>3, IterStep
  <2> QED BY <2>1 DEF Ahead, iterate
<1> QED BY <1>1, <1>2, <1>3

\* A call of clod_table_iter.
LEMMA IterWalk ==
    ASSUME IInv, WInv, clod_table_iter
    PROVE  WInv'
<1> DEFINE r == iterate(t, it)
           sofar == IF it = 0 THEN NotSeen ELSE seen
           from == IF it = 0 THEN KeysOf(t) ELSE start
           k == KeyOf[r.element]
<1>1. /\ pc = "idle" /\ TableOK(t) /\ it \in Nat /\ seen \in [Keys -> Nat]
      /\ start \subseteq Keys /\ stable \in BOOLEAN
  BY TablesOK DEF clod_table_iter, WInv, WalkType
<1>2. /\ stable' = (it = 0 \/ stable)
      /\ it' = r.internal
      /\ done' = (r.element = NULL)
      /\ seen' = IF r.element # NULL /\ stable'
                 THEN [sofar EXCEPT ![k] = @ + 1] ELSE sofar
      /\ start' = from
      /\ t' = t /\ pc' = pc
  BY DEF clod_table_iter, vars
<1>3. sofar \in [Keys -> Nat] /\ from \subseteq Keys
  BY <1>1, WalkEnds DEF NotSeen
<1>4. ASSUME stable'
      PROVE  /\ \A x \in Keys : sofar[x] <= 1
             /\ \A x \in Keys : sofar[x] = 1 => x \in Past(t, it)
             /\ \A x \in from : sofar[x] = 1 \/ x \in Ahead(t, it)
  <2>1. CASE it = 0
    BY <2>1, <1>1, WalkEnds DEF NotSeen
  <2>2. CASE it # 0
    BY <2>2, <1>2, <1>4 DEF WInv, MidWalk
  <2> QED BY <2>1, <2>2
<1>5. stable' \in BOOLEAN /\ done' \in BOOLEAN
  BY <1>1, <1>2
<1> HIDE DEF sofar, from
<1>6. CASE r.element = NULL
  <2>1. it' = 0 /\ Ahead(t, it) = {}
    BY <1>1, <1>2, <1>6, WalkEnds
  <2>2. seen' = sofar /\ start' = from
    BY <1>2, <1>6
  <2>3. WalkType'
    BY <1>3, <1>5, <2>1, <2>2 DEF WalkType
  <2>4. MidWalk'
    BY <2>1 DEF MidWalk
  <2>5. WalkIsExact'
    BY <1>3, <1>4, <2>1, <2>2 DEF WalkIsExact
  <2> QED BY <2>3, <2>4, <2>5 DEF WInv
<1>7. CASE r.element # NULL
  <2>1. /\ r.internal \in Nat \ {0}
        /\ k \in Keys
        /\ k \notin Past(t, it)
        /\ Past(t, it) \cup {k} \subseteq Past(t, r.internal)
        /\ Ahead(t, it) \subseteq Ahead(t, r.internal) \cup {k}
    BY <1>1, <1>7, YieldStep
  <2> HIDE DEF k, r
  <2>2. ~done'
    BY <1>2, <1>7
  <2>3. WalkType'
    <3>1. seen' \in [Keys -> Nat]
      BY <1>2, <1>3, <2>1
    <3> QED BY <3>1, <1>1, <1>2, <1>3, <1>5, <2>1 DEF WalkType
  <2>4. ASSUME stable'
        PROVE  MidWalk'
    <3>1. seen' = [sofar EXCEPT ![k] = @ + 1]
      BY <1>2, <1>7, <2>4
    <3>2. sofar[k] = 0
      BY <1>3, <1>4, <2>1, <2>4
    <3>3. \A x \in Keys : seen'[x] = IF x = k THEN 1 ELSE sofar[x]
      BY <1>3, <3>1, <3>2
    <3>4. \A x \in Keys : seen'[x] <= 1
      BY <1>4, <2>4, <3>3
    <3>5. \A x \in Keys : seen'[x] = 1 => x \in Past(t', it')
      BY <1>2, <1>4, <2>1, <2>4, <3>3
    <3>6. \A x \in start' : seen'[x] = 1 \/ x \in Ahead(t', it')
      BY <1>2, <1>3, <1>4, <2>1, <2>4, <3>3
    <3> QED BY <3>4, <3>5, <3>6 DEF MidWalk
  <2>5. MidWalk'
    BY <2>4 DEF MidWalk
  <2>6. WalkIsExact'
    BY <2>2 DEF WalkIsExact
  <2> QED BY <2>3, <2>5, <2>6 DEF WInv
<1> QED BY <1>6, <1>7

\* Any other call.
LEMMA OtherWalk ==
    ASSUME IInv, WInv, OtherCall
    PROVE  WInv'
<1>1. WalkType /\ MidWalk
  BY DEF WInv
<1>2. /\ Next
      /\ it' = IF pc' = "none" THEN 0 ELSE it
      /\ stable' = /\ stable
                   /\ pc' # "none"
                   /\ pc # "none" => t'.addr = t.addr /\ t'.cursor = t.cursor
      /\ done' = FALSE
      /\ seen' = IF stable' THEN seen ELSE NotSeen
      /\ start' = IF stable' THEN start ELSE {}
  BY DEF OtherCall
<1>3. WalkType'
  BY <1>1, <1>2 DEF WalkType, NotSeen
<1>4. ASSUME stable', it' # 0
      PROVE  MidWalk'
  <2>1. /\ stable /\ pc' # "none" /\ it' = it /\ it # 0 /\ pc # "none"
        /\ seen' = seen /\ start' = start
        /\ t'.addr = t.addr /\ t'.cursor = t.cursor
    BY <1>1, <1>2, <1>4 DEF WalkType
  <2>2. Extends(t, t')
    BY <1>2, <2>1, UndisturbedExtends
  <2>3. Past(t, it) \subseteq Past(t', it) /\ Ahead(t, it) \subseteq Ahead(t', it)
    BY <1>1, <2>1, <2>2, TablesOK, ExtendsWalk DEF WalkType
  <2> QED BY <1>1, <2>1, <2>3 DEF MidWalk
<1>5. MidWalk'
  BY <1>4 DEF MidWalk
<1>6. WalkIsExact'
  BY <1>2 DEF WalkIsExact
<1> QED BY <1>3, <1>5, <1>6 DEF WInv

\* A walk with clod_table_iter that no deletion and no rebuild disturbs yields
\* every key that was stored when it began exactly once and no key twice,
\* whatever else is called on the way and however the slots wrap around the
\* deletion cursor.
THEOREM WalkCorrect == IterSpec => []WalkIsExact
<1>1. IterInit => IInv /\ WInv
  <2> SUFFICES ASSUME IterInit PROVE IInv /\ WInv
    OBVIOUS
  <2>1. IInv
    BY InitInv DEF IterInit
  <2>2. it = 0 /\ seen \in [Keys -> Nat] /\ start = {}
    BY DEF IterInit, NotSeen
  <2>3. stable \in BOOLEAN /\ done \in BOOLEAN /\ ~done
    BY DEF IterInit
  <2>4. WalkType /\ MidWalk /\ WalkIsExact
    BY <2>2, <2>3 DEF WalkType, MidWalk, WalkIsExact
  <2> QED BY <2>1, <2>4 DEF WInv
<1>2. IInv /\ WInv /\ [IterNext]_<<vars, iterVars>> => (IInv /\ WInv)'
  <2> SUFFICES ASSUME IInv, WInv, [IterNext]_<<vars, iterVars>>
               PROVE  IInv' /\ WInv'
    OBVIOUS
  <2>1. [Next]_vars
    BY DEF IterNext, clod_table_iter, OtherCall
  <2>2. IInv'
    BY <2>1, NextInv
  <2>3. ASSUME UNCHANGED <<vars, iterVars>> PROVE WInv'
    <3>1. UNCHANGED <<t, pc, it, seen, start, stable, done>>
      BY <2>3 DEF vars, iterVars
    <3>2. WalkType'
      BY <3>1 DEF WInv, WalkType
    <3>3. MidWalk'
      BY <3>1 DEF WInv, MidWalk
    <3>4. WalkIsExact'
      BY <3>1 DEF WInv, WalkIsExact
    <3> QED BY <3>2, <3>3, <3>4 DEF WInv
  <2> QED BY <2>2, <2>3, IterWalk, OtherWalk DEF IterNext
<1>3. WInv => WalkIsExact
  BY DEF WInv
<1> QED BY <1>1, <1>2, <1>3, PTL DEF IterSpec
=============================================================================
