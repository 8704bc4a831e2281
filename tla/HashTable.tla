----------------------------- MODULE HashTable -----------------------------
(***************************************************************************)
(* The open-addressed hash table of src/table/table.c.                     *)
(*                                                                         *)
(* A table is a record: table_size slots, a control byte per slot (EMPTY,  *)
(* REMOVED, or 128 + 7 bits of the hash of the key stored there), an       *)
(* element per slot, the counters, and `addr', the address of its control  *)
(* array, which the code uses as the seed of the hash function: the same   *)
(* keys hash differently after a rebuild.  An element is a pointer the     *)
(* caller owns; KeyOf gives the key it starts with, so that key_equal      *)
(* (sizes equal and cmp_func = 0) is equality of keys.                     *)
(*                                                                         *)
(* Every API call is one step, except that a call of add or set which has  *)
(* to rebuild is a start step, one step for each turn of rebuild's loop,   *)
(* and a last step that swaps the tables and inserts the argument.         *)
(***************************************************************************)
EXTENDS Integers, FiniteSets, FiniteSetsExt

CONSTANTS
    Keys,         \* the keys
    Elements,     \* what the caller may store
    KeyOf,        \* the key each element begins with
    Addrs,        \* addresses malloc may return
    HashOf,       \* HashOf[a][k]: hash_func(seed a, key k)
    MinCapacity,  \* opts.min_capacity
    MaxCursor,    \* bound on the number of deletions between two rebuilds
    NULL          \* nullptr

ASSUME KeyAssumption == KeyOf \in [Elements -> Keys]

ASSUME HashAssumption == HashOf \in [Addrs -> [Keys -> Nat]]

ASSUME NullAssumption == NULL \notin Elements \cup Keys \cup Addrs

ASSUME SizeAssumption == MinCapacity \in Nat /\ MaxCursor \in Nat

VARIABLES
    t,      \* the table
    new,    \* rebuild's local table, or NULL
    pc,     \* "none": not created; "idle": between calls; "rebuild"
    arg,    \* the call that is rebuilding: its name and element
    iter,   \* the _internal field of rebuild's iterator
    heap,   \* slot arrays that are allocated
    last    \* the last finished call

vars == <<t, new, pc, arg, iter, heap, last>>

CTL_EMPTY == 0

CTL_REMOVED == 1

CTL_OCCUPIED(hash) == 128 + (hash % 128)

CTL_IS_OCCUPIED(ctl) == ctl >= 128

INDEX_NIL == -1

LF_MAX == 85

LF_MIN == 50

LF_DENOMINATOR == 100

LF(tb) ==
    ((tb.elem_count + tb.deleted_count) * LF_DENOMINATOR) \div tb.table_size

\* Mutant of LF_CAPACITY_TO_SIZE: the size is the capacity times the factor.
LF_CAPACITY_TO_SIZE_inverted(lf, capacity) == (capacity * lf) \div LF_DENOMINATOR

LF_CAPACITY_TO_SIZE(lf, capacity) ==
    (capacity * LF_DENOMINATOR + lf - 1) \div lf

Slots(tb) == 0 .. tb.table_size - 1

-----------------------------------------------------------------------------
(* The static functions.                                                   *)

get_position(tb, key) ==
    LET hash == HashOf[tb.addr][key]
    IN  [ctl   |-> CTL_OCCUPIED(hash),
         index |-> (hash \div 128) % tb.table_size]

\* struct clod_table; its opts are the constants.
Table(size, control, elements, elem_count, deleted_count, cursor, addr) ==
    [table_size    |-> size,
     control       |-> control,
     elements      |-> elements,
     elem_count    |-> elem_count,
     deleted_count |-> deleted_count,
     cursor        |-> cursor,
     addr          |-> addr]

\* The size create() settles on.
CreateSize(size) ==
    LET least == LF_CAPACITY_TO_SIZE(LF_MAX, MinCapacity)
    IN  IF size < least THEN least ELSE size

\* The table create() makes at address addr.  malloc leaves the elements
\* uninitialised; they are not read before the slot is occupied.
create(size, addr) ==
    Table(size, [i \in 0 .. size - 1 |-> CTL_EMPTY],
          [i \in 0 .. size - 1 |-> NULL], 0, 0, 0, addr)

\* The addresses create() can get from malloc; a table of size 0 has none.
Alloc(size) == IF size > 0 THEN Addrs \ heap ELSE {NULL}

key_equal(tb, index, key) == KeyOf[tb.elements[index]] = key

\* The slot the probe looks at in its i-th turn.
ProbeSlot(tb, pos, i) == (pos.index + i) % tb.table_size

Matches(tb, pos, key, index) ==
    tb.control[index] = pos.ctl /\ key_equal(tb, index, key)

\* The turns at which the probe's loop would return.
Stops(tb, pos, key) ==
    {i \in Slots(tb) : LET index == ProbeSlot(tb, pos, i)
                       IN  \/ tb.control[index] = CTL_EMPTY
                           \/ Matches(tb, pos, key, index)}

\* The turns up to which the probe runs: up to the first stop, if any.
Turns(tb, pos, key) ==
    {i \in Slots(tb) : \A s \in Stops(tb, pos, key) : i <= s}

Tombstones(tb, pos, key) ==
    {i \in Turns(tb, pos, key) :
        tb.control[ProbeSlot(tb, pos, i)] = CTL_REMOVED}

\* The free slot a probe that finds nothing reports: the first tombstone it
\* went past, else the empty slot it stopped at, else none.
Available(tb, pos, key) ==
    LET stops == Stops(tb, pos, key)
        tombs == Tombstones(tb, pos, key)
    IN  IF tombs # {} THEN ProbeSlot(tb, pos, Min(tombs))
        ELSE IF stops # {} THEN ProbeSlot(tb, pos, Min(stops))
        ELSE INDEX_NIL

probe(tb, pos, key) ==
    LET stops == Stops(tb, pos, key)
        at    == ProbeSlot(tb, pos, Min(stops))
    IN  IF stops # {} /\ tb.control[at] # CTL_EMPTY
        THEN [existing |-> at, available |-> INDEX_NIL]
        ELSE [existing |-> INDEX_NIL, available |-> Available(tb, pos, key)]

\* Element e takes the place of the one in slot i, which has the same key.
Replace(tb, i, e) ==
    Table(tb.table_size, tb.control, [tb.elements EXCEPT ![i] = e],
          tb.elem_count, tb.deleted_count, tb.cursor, tb.addr)

\* Mutant of Occupy: every free slot is counted as a reused tombstone.
OccupyReclaims(tb, i, ctl, e) ==
    Table(tb.table_size, [tb.control EXCEPT ![i] = ctl],
          [tb.elements EXCEPT ![i] = e], tb.elem_count + 1,
          tb.deleted_count - 1, tb.cursor, tb.addr)

\* Element e takes the free slot i; a tombstone is one no longer.
Occupy(tb, i, ctl, e) ==
    Table(tb.table_size,
          [tb.control EXCEPT ![i] = ctl],
          [tb.elements EXCEPT ![i] = e],
          tb.elem_count + 1,
          IF tb.control[i] = CTL_REMOVED
          THEN tb.deleted_count - 1 ELSE tb.deleted_count,
          tb.cursor, tb.addr)

\* Mutant of insert: the element that is there stays, whatever `replace' says.
InsertNeverReplaces(tb, replace, e) ==
    LET pos == get_position(tb, KeyOf[e])
        res == probe(tb, pos, KeyOf[e])
    IN  IF res.existing # INDEX_NIL
        THEN [ret |-> tb.elements[res.existing], table |-> tb]
        ELSE [ret |-> NULL, table |-> Occupy(tb, res.available, pos.ctl, e)]

\* The table and the result insert() leaves; its assertions are stated as
\* the invariant Assertions below.
insert(tb, replace, e) ==
    LET pos == get_position(tb, KeyOf[e])
        res == probe(tb, pos, KeyOf[e])
    IN  IF res.existing # INDEX_NIL
        THEN [ret   |-> tb.elements[res.existing],
              table |-> IF replace THEN Replace(tb, res.existing, e) ELSE tb]
        ELSE [ret   |-> NULL,
              table |-> Occupy(tb, res.available, pos.ctl, e)]

\* The slot clod_table_iter looks at.
IterSlot(tb, internal) == (internal + tb.cursor) % tb.table_size

\* Mutant of IterAhead: _internal is advanced before the slot is looked at.
IterAheadSkipsFirst(tb, internal) ==
    {j \in Slots(tb) : /\ j > internal
                       /\ CTL_IS_OCCUPIED(tb.control[IterSlot(tb, j)])}

\* The turns clod_table_iter has left from _internal on that find an element.
IterAhead(tb, internal) ==
    {j \in Slots(tb) : /\ j >= internal
                       /\ CTL_IS_OCCUPIED(tb.control[IterSlot(tb, j)])}

\* Mutant of iterate: _internal is advanced twice for an occupied slot.
IterateSkips(tb, internal) ==
    LET ahead == IterAhead(tb, internal)
    IN  IF ahead = {}
        THEN [element |-> NULL, internal |-> 0]
        ELSE [element  |-> tb.elements[IterSlot(tb, Min(ahead))],
              internal |-> Min(ahead) + 2]

\* One call of clod_table_iter: the element (NULL at the end) and the value
\* it leaves in _internal.
iterate(tb, internal) ==
    LET ahead == IterAhead(tb, internal)
    IN  IF ahead = {}
        THEN [element |-> NULL, internal |-> 0]
        ELSE [element  |-> tb.elements[IterSlot(tb, Min(ahead))],
              internal |-> Min(ahead) + 1]

-----------------------------------------------------------------------------
(* The API.                                                                *)

Call(op, a, val) == [op |-> op, arg |-> a, val |-> val]

Return(op, a, val) == last' = Call(op, a, val)

Init ==
    /\ t = NULL
    /\ new = NULL
    /\ pc = "none"
    /\ arg = NULL
    /\ iter = 0
    /\ heap = {}
    /\ last = Call("none", NULL, NULL)

\* malloc of the handle or of the slots fails: nullptr, nothing is kept.
clod_table_create_fails ==
    /\ pc = "none"
    /\ Return("create", NULL, FALSE)
    /\ UNCHANGED <<t, new, pc, arg, iter, heap>>

clod_table_create ==
    /\ pc = "none"
    /\ LET size == CreateSize(LF_CAPACITY_TO_SIZE(LF_MAX, MinCapacity))
       IN  \E a \in Alloc(size) :
              /\ t' = create(size, a)
              /\ heap' = heap \cup ({a} \ {NULL})
    /\ pc' = "idle"
    /\ Return("create", NULL, TRUE)
    /\ UNCHANGED <<new, arg, iter>>

clod_table_destroy ==
    /\ pc = "idle"
    /\ heap' = heap \ {t.addr}
    /\ t' = NULL
    /\ pc' = "none"
    /\ Return("destroy", NULL, NULL)
    /\ UNCHANGED <<new, arg, iter>>

clod_table_len ==
    /\ pc = "idle"
    /\ Return("len", NULL, t.elem_count)
    /\ UNCHANGED <<t, new, pc, arg, iter, heap>>

\* Mutant of NeedsRebuild: only a table beyond its size is rebuilt.
NeedsRebuildBeyondFull(tb) == tb.table_size # 0 => LF(tb) > LF_DENOMINATOR

\* The condition under which add and set rebuild first.
NeedsRebuild(tb) == tb.table_size # 0 => LF(tb) >= LF_MAX

\* The size add and set ask rebuild for.
RebuildSize(tb) == LF_CAPACITY_TO_SIZE(LF_MIN, tb.elem_count + 1)

InsertNow(op, e) ==
    /\ ~NeedsRebuild(t)
    /\ LET ins == insert(t, op = "set", e)
       IN  t' = ins.table /\ Return(op, e, ins.ret)
    /\ UNCHANGED <<new, pc, arg, iter, heap>>

\* rebuild's create() cannot allocate: the call hands the element back.
RebuildAllocFails(op, e) ==
    /\ NeedsRebuild(t)
    /\ Return(op, e, e)
    /\ UNCHANGED <<t, new, pc, arg, iter, heap>>

RebuildStart(op, e) ==
    /\ NeedsRebuild(t)
    /\ LET size == CreateSize(RebuildSize(t))
       IN  \E a \in Alloc(size) :
              /\ new' = create(size, a)
              /\ heap' = heap \cup {a}
    /\ pc' = "rebuild"
    /\ arg' = [op |-> op, e |-> e]
    /\ iter' = 0
    /\ UNCHANGED <<t, last>>

\* One turn of rebuild's loop: clod_table_iter, then insert into the new table.
\* A key that is already there makes rebuild give up.
RebuildCopy ==
    /\ pc = "rebuild"
    /\ LET it  == iterate(t, iter)
           ins == insert(new, FALSE, it.element)
       IN  /\ it.element # NULL
           /\ IF ins.ret = NULL
              THEN /\ new' = ins.table
                   /\ iter' = it.internal
                   /\ UNCHANGED <<t, pc, arg, heap, last>>
              ELSE /\ heap' = heap \ {new.addr}
                   /\ new' = NULL
                   /\ pc' = "idle"
                   /\ arg' = NULL
                   /\ iter' = 0
                   /\ Return(arg.op, arg.e, arg.e)
                   /\ UNCHANGED t

\* Mutant of RebuildFinish: the old slots are not freed.
RebuildFinishLeaks ==
    /\ pc = "rebuild"
    /\ iterate(t, iter).element = NULL
    /\ LET ins == insert(new, arg.op = "set", arg.e)
       IN  t' = ins.table /\ Return(arg.op, arg.e, ins.ret)
    /\ new' = NULL
    /\ pc' = "idle"
    /\ arg' = NULL
    /\ iter' = 0
    /\ UNCHANGED heap

\* The loop is over: the old slots are freed, the new table takes their place
\* and the call goes on to insert its element.
RebuildFinish ==
    /\ pc = "rebuild"
    /\ iterate(t, iter).element = NULL
    /\ heap' = heap \ {t.addr}
    /\ LET ins == insert(new, arg.op = "set", arg.e)
       IN  t' = ins.table /\ Return(arg.op, arg.e, ins.ret)
    /\ new' = NULL
    /\ pc' = "idle"
    /\ arg' = NULL
    /\ iter' = 0

clod_table_add(e) ==
    /\ pc = "idle"
    /\ InsertNow("add", e) \/ RebuildAllocFails("add", e) \/ RebuildStart("add", e)

clod_table_set(e) ==
    /\ pc = "idle"
    /\ InsertNow("set", e) \/ RebuildAllocFails("set", e) \/ RebuildStart("set", e)

\* The slot get and del find the key at, or INDEX_NIL.
Find(key) ==
    IF t.table_size = 0 THEN INDEX_NIL
    ELSE probe(t, get_position(t, key), key).existing

clod_table_get(key) ==
    /\ pc = "idle"
    /\ Return("get", key,
              IF Find(key) = INDEX_NIL THEN NULL ELSE t.elements[Find(key)])
    /\ UNCHANGED <<t, new, pc, arg, iter, heap>>

\* Mutant of Remove: the tombstone is not counted.
RemoveUncounted(tb, i) ==
    Table(tb.table_size, [tb.control EXCEPT ![i] = CTL_REMOVED], tb.elements,
          tb.elem_count - 1, tb.deleted_count, tb.cursor + 1, tb.addr)

\* Mutant of Remove: the slot becomes EMPTY, no tombstone is left.
RemoveEmpties(tb, i) ==
    Table(tb.table_size, [tb.control EXCEPT ![i] = CTL_EMPTY], tb.elements,
          tb.elem_count - 1, tb.deleted_count, tb.cursor + 1, tb.addr)

\* Slot i becomes a tombstone; the element pointer stays in it.
Remove(tb, i) ==
    Table(tb.table_size, [tb.control EXCEPT ![i] = CTL_REMOVED], tb.elements,
          tb.elem_count - 1, tb.deleted_count + 1, tb.cursor + 1, tb.addr)

clod_table_del(key) ==
    /\ pc = "idle"
    /\ LET index == Find(key)
       IN  IF index = INDEX_NIL
           THEN /\ Return("del", key, NULL)
                /\ UNCHANGED t
           ELSE /\ t.cursor < MaxCursor
                /\ Return("del", key, t.elements[index])
                /\ t' = Remove(t, index)
    /\ UNCHANGED <<new, pc, arg, iter, heap>>

Next ==
    \/ clod_table_create_fails
    \/ clod_table_create
    \/ clod_table_destroy
    \/ clod_table_len
    \/ \E e \in Elements : clod_table_add(e) \/ clod_table_set(e)
    \/ \E k \in Keys : clod_table_get(k) \/ clod_table_del(k)
    \/ RebuildCopy
    \/ RebuildFinish

Spec == Init /\ [][Next]_vars

-----------------------------------------------------------------------------
(* Properties.                                                             *)

ControlBytes == {CTL_EMPTY, CTL_REMOVED} \cup (128 .. 255)

TableType(tb) ==
    /\ tb \in [table_size    : Nat,
              control       : [Slots(tb) -> ControlBytes],
              elements      : [Slots(tb) -> Elements \cup {NULL}],
              elem_count    : Nat,
              deleted_count : Nat,
              cursor        : 0 .. MaxCursor,
              addr          : Addrs \cup {NULL}]
    /\ tb.table_size > 0 => tb.addr \in Addrs

\* The state variables have the types of the C objects they stand for: the
\* counters of a table never go below zero (they are size_t in struct
\* clod_table and would wrap), a control byte is one of the three kinds, and
\* a table with slots has an array.
TypeOK ==
    /\ pc \in {"none", "idle", "rebuild"}
    /\ iter \in Nat
    /\ heap \subseteq Addrs
    /\ pc # "none" => TableType(t)
    /\ pc = "rebuild" => /\ TableType(new)
                         /\ arg \in [op : {"add", "set"}, e : Elements]

Occupied(tb) == {i \in Slots(tb) : CTL_IS_OCCUPIED(tb.control[i])}

Removed(tb) == {i \in Slots(tb) : tb.control[i] = CTL_REMOVED}

CountersOf(tb) ==
    /\ tb.elem_count = Cardinality(Occupied(tb))
    /\ tb.deleted_count = Cardinality(Removed(tb))

\* elem_count and deleted_count, which insert and clod_table_del adjust one by
\* one, are the numbers of occupied slots and of tombstones in the control
\* array, through every rebuild and every reuse of a tombstone.
Counters ==
    /\ pc # "none" => CountersOf(t)
    /\ pc = "rebuild" => CountersOf(new)

KeyAt(tb, i) == KeyOf[tb.elements[i]]

\* An occupied slot holds an element and 7 bits of its key's hash under the
\* table's own seed.
Tagged(tb) ==
    \A i \in Occupied(tb) :
        /\ tb.elements[i] \in Elements
        /\ tb.control[i] = get_position(tb, KeyAt(tb, i)).ctl

UniqueKeys(tb) ==
    \A i, j \in Occupied(tb) : KeyAt(tb, i) = KeyAt(tb, j) => i = j

\* No EMPTY slot lies between the home slot of a stored key and its slot.
Reachable(tb) ==
    \A i \in Occupied(tb) :
        LET pos == get_position(tb, KeyAt(tb, i))
        IN  \E d \in Slots(tb) :
               /\ ProbeSlot(tb, pos, d) = i
               /\ \A c \in 0 .. d - 1 :
                     tb.control[ProbeSlot(tb, pos, c)] # CTL_EMPTY

ProbingOf(tb) == Tagged(tb) /\ UniqueKeys(tb) /\ Reachable(tb)

\* The invariant linear probing with tombstones rests on: each key is stored
\* once, under its tag, and a probe for it from its home slot meets no EMPTY
\* slot before it.  insert (which reuses the first tombstone), clod_table_del
\* (which leaves one) and rebuild (which changes size and seed) all keep it,
\* so probe finds every stored key and never a second copy of it.
Probing ==
    /\ pc # "none" => ProbingOf(t)
    /\ pc = "rebuild" => ProbingOf(new)

\* What insert() asserts when it is called on table tb with element e.
InsertAsserts(tb, e) ==
    LET pos == get_position(tb, KeyOf[e])
        res == probe(tb, pos, KeyOf[e])
    IN  /\ tb.elem_count < tb.table_size
        /\ pos.index < tb.table_size
        /\ res.existing # INDEX_NIL \/ res.available # INDEX_NIL

\* None of table.c's assertions can fail: add and set never reach insert with
\* a table that has no room (a small table may fill up completely, because
\* the load factor is checked before the insertion and rounded down), and
\* rebuild asks for at least as many slots as there are elements.
Assertions ==
    /\ pc = "idle" /\ ~NeedsRebuild(t) =>
          \A e \in Elements : InsertAsserts(t, e)
    /\ pc = "idle" => RebuildSize(t) >= t.elem_count
    /\ pc = "rebuild" =>
          LET it == iterate(t, iter)
          IN  InsertAsserts(new, IF it.element = NULL THEN arg.e ELSE it.element)

Elems(tb) == {tb.elements[i] : i \in Occupied(tb)}

\* While rebuild runs, the new table holds exactly the elements its iterator
\* has gone past in the old one, whose slots it visits starting from the
\* deletion cursor and wrapping around: none is lost, none is met twice (so
\* rebuild never gives up because of a duplicate key), and all fit with one
\* slot to spare for the element the call is about.
RebuildCopies ==
    pc = "rebuild" =>
        /\ Elems(new) = {t.elements[IterSlot(t, j)] :
                            j \in IterAhead(t, 0) \ IterAhead(t, iter)}
        /\ new.elem_count + Cardinality(IterAhead(t, iter)) = t.elem_count
        /\ new.table_size > t.elem_count

\* Slot arrays are neither leaked nor freed while in use: the allocated arrays
\* are the ones of the tables that exist, one each, on every path through
\* create, rebuild (its failures included) and destroy.
HeapExact ==
    /\ heap = {a \in Addrs : \/ pc # "none" /\ t.addr = a
                             \/ pc = "rebuild" /\ new.addr = a}
    /\ pc = "rebuild" => t.addr # new.addr

\* table.h: min_capacity is the "Minimum number of elements to support without
\* further allocation".  A table that has no tombstones does (one that has
\* some may have to be rebuilt to get rid of them): below
\* min_capacity elements neither add nor set rebuilds, for every rounding of
\* the two integer divisions involved.
MinCapacityWithoutTombstones ==
    pc = "idle" /\ t.elem_count < MinCapacity /\ t.deleted_count = 0
        => ~NeedsRebuild(t)

\* The map a set of elements with different keys represents.
MapOf(E) ==
    [k \in Keys |-> IF \E e \in E : KeyOf[e] = k
                   THEN CHOOSE e \in E : KeyOf[e] = k
                   ELSE NULL]

Contents == MapOf(IF pc = "none" THEN {} ELSE Elems(t))

Map == INSTANCE TableMap WITH alive <- pc # "none", contents <- Contents

\* The hash table implements the map of table.h: every call returns what the
\* map would return and changes the map accordingly, and the steps of a
\* rebuild change nothing a caller can see.
Refinement == Map!MapSpec
=============================================================================
