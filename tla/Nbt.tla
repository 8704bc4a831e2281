---------------------------------- MODULE Nbt ----------------------------------
(***************************************************************************)
(* nbt.c: finding one's way in serialised NBT data.                        *)
(*                                                                         *)
(* Data are a sequence of bytes that ends where `end' points to; a pointer *)
(* is an offset into it.  Every read goes through At, which is some number *)
(* at or past the end, one that TLC cannot choose: evaluating a read that  *)
(* the code should not make is an error.  The layout is the code's; a byte *)
(* has ByteValues values and a size_t SizeLimit (256 and 2^64 there),      *)
(* which is enough for the type codes and keeps the numbers small.         *)
(***************************************************************************)
EXTENDS Integers, Sequences

CONSTANTS
  NULL,        \* no pointer, no string
  ByteValues,  \* the number of values of a byte
  SizeLimit    \* the number of values of a size_t

\* The number of values of two bytes.
Pairs == ByteValues * ByteValues

ASSUME NbtAssumption ==
  /\ NULL \notin Nat
  /\ ByteValues \in Nat /\ ByteValues >= 13
  /\ SizeLimit \in Nat /\ SizeLimit > Pairs * Pairs

NBT == [ZERO |-> 0, INT8 |-> 1, INT16 |-> 2, INT32 |-> 3, INT64 |-> 4, FLOAT32 |-> 5, FLOAT64 |-> 6,
        INT8_ARRAY |-> 7, STRING |-> 8, LIST |-> 9, COMPOUND |-> 10, INT32_ARRAY |-> 11, INT64_ARRAY |-> 12]

payload_zero_sizes ==
  <<1, 2, 4, 8, 4, 8, 4, 2, 5, 1, 4, 4>>

type_zero_size(type) ==
  IF type \in DOMAIN payload_zero_sizes THEN payload_zero_sizes[type] ELSE 0
type_valid(type) == type_zero_size(type) # 0

\* The types whose payloads have one size.
Fixed == {NBT.INT8, NBT.INT16, NBT.INT32, NBT.INT64, NBT.FLOAT32, NBT.FLOAT64}

\* Arrays are four bytes that count the elements, and the elements.
Arrays == {NBT.INT8_ARRAY, NBT.INT32_ARRAY, NBT.INT64_ARRAY}
ElemSize(type) == CASE type = NBT.INT8_ARRAY -> 1 [] type = NBT.INT32_ARRAY -> 4 [] type = NBT.INT64_ARRAY -> 8

Word(n) == n % SizeLimit

Some == CHOOSE n \in Nat : TRUE
At(d, p) == IF p < Len(d) THEN d[p + 1] ELSE Some
available(d, p) == IF p <= Len(d) THEN Len(d) - p ELSE 0

\* big_endian.h, for two bytes and for four.
beu16_dec(d, p) == At(d, p) * ByteValues + At(d, p + 1)
beu32_dec(d, p) == beu16_dec(d, p) * Pairs + beu16_dec(d, p + 2)
bei32_dec(d, p) ==
  IF At(d, p) < ByteValues \div 2 THEN beu32_dec(d, p) ELSE beu32_dec(d, p) - Pairs * Pairs
beu16_enc(n) == <<(n \div ByteValues) % ByteValues, n % ByteValues>>
bei32_enc(n) == beu16_enc((n \div Pairs) % Pairs) \o beu16_enc(n % Pairs)

--------------------------------------------------------------------------------
(* clod_nbt_payload_size *)

ArraySize(d, p, type) ==
  LET size == Word(bei32_dec(d, p) * ElemSize(type))
  IN IF available(d, p) < 4 THEN 0
     ELSE IF available(d, p) < Word(4 + size) THEN 0
     ELSE Word(4 + size)

\* A mutant of StringSize: the two bytes of the length are not counted.
StringSizeOfText(d, p) ==
  IF available(d, p) < 2 THEN 0 ELSE IF available(d, p) < 2 + beu16_dec(d, p) THEN 0 ELSE beu16_dec(d, p)

StringSize(d, p) ==
  IF available(d, p) < 2 THEN 0
  ELSE IF available(d, p) < 2 + beu16_dec(d, p) THEN 0
  ELSE 2 + beu16_dec(d, p)

\* The result of a call that does not return: no size_t.
NEVER == SizeLimit

\* `n' bytes and then `size', which may be the result of a call.
Passed(n, size) == IF size = NEVER THEN NEVER ELSE Word(n + size)

\* What the calls and the turns of loops further in return: the size of a
\* payload at p, of a list with `n' elements left and `size' bytes passed, of a
\* compound with `size' bytes passed.
SizeResults ==
  [payload : [Nat -> [Nat -> Nat]], list : [Nat -> [Nat -> [Nat -> Nat]]], compound : [Nat -> [Nat -> Nat]]]

\* The loop over elements of one size, which has no way out, is a product.  A
\* negative length is at least half of all sizes as a size_t, and such a loop
\* over elements of one size does not end in anybody's time.
Endless(d, p) == At(d, p) \in Fixed /\ bei32_dec(d, p + 1) < 0
ListTurn(rest, d, p, n, size) ==
  LET elem_size == rest.payload[p + size][At(d, p)]
  IN IF At(d, p) \in Fixed THEN Word(size + n * type_zero_size(At(d, p)))
     ELSE IF n = 0 THEN size
     ELSE IF elem_size \in {0, NEVER} THEN elem_size
     ELSE rest.list[p][n - 1][Word(size + elem_size)]

\* A tag whose payload has no size counts as its header.
CompoundTurn(rest, d, p, size) ==
  LET name_size == beu16_dec(d, p + size + 1)
      next == Passed(size + 3 + name_size, rest.payload[p + size + 3 + name_size][At(d, p + size)])
  IN IF available(d, p) >= Word(size + 3) /\ type_valid(At(d, p + size))
     THEN IF available(d, p) < Word(size + 3 + name_size) THEN 0
          ELSE IF next = NEVER THEN NEVER
          ELSE rest.compound[p][next]
     ELSE IF available(d, p) < Word(size + 1) THEN 0
     ELSE IF At(d, p + size) = NBT.ZERO THEN size + 1
     ELSE 0

SizeCall(rest, d, p, type) ==
  CASE type \in Fixed -> type_zero_size(type)
    [] type \in Arrays -> ArraySize(d, p, type)
    [] type = NBT.STRING -> StringSize(d, p)
    [] type = NBT.LIST ->
         IF available(d, p) < 5 THEN 0
         ELSE IF At(d, p) = NBT.ZERO THEN 5
         ELSE IF ~type_valid(At(d, p)) THEN 0
         ELSE IF Endless(d, p) THEN NEVER
         ELSE rest.list[p][Word(bei32_dec(d, p + 1))][5]
    [] type = NBT.COMPOUND -> rest.compound[p][0]
    [] OTHER -> 0

SizeResultsFrom(rest, d) ==
  [payload |-> [p \in Nat |-> [type \in Nat |-> SizeCall(rest, d, p, type)]],
   list |-> [p \in Nat |-> [n \in Nat |-> [size \in Nat |-> ListTurn(rest, d, p, n, size)]]],
   compound |-> [p \in Nat |-> [size \in Nat |-> CompoundTurn(rest, d, p, size)]]]

\* The results that calls and turns have down to a depth.  Each passes a byte,
\* or has one around it that does; what goes deeper has no result that TLC
\* could choose.
Depths(d) == 2 * Len(d) + 8
SizesByDepth(d) ==
  LET results[k \in 0 .. Depths(d)] ==
        IF k = 0 THEN CHOOSE results_0 \in SizeResults : TRUE ELSE SizeResultsFrom(results[k - 1], d)
  IN results

payload_size(d, p, type) == SizesByDepth(d)[Depths(d)].payload[p][type]

--------------------------------------------------------------------------------
(* Tags *)

\* A mutant of HasHeader: the name may reach past the end.
HasHeaderUnchecked(d, tag) == available(d, tag) >= 3 /\ type_valid(At(d, tag))

\* A tag has a header: a valid type, and a name within the data.
HasHeader(d, tag) ==
  /\ available(d, tag) >= 3
  /\ type_valid(At(d, tag))
  /\ available(d, tag) >= 3 + beu16_dec(d, tag + 1)

tag_payload(d, tag) == IF HasHeader(d, tag) THEN tag + 3 + beu16_dec(d, tag + 1) ELSE NULL

tag_size(d, tag) ==
  IF HasHeader(d, tag)
  THEN Passed(3 + beu16_dec(d, tag + 1), payload_size(d, tag_payload(d, tag), At(d, tag)))
  ELSE 0

tag_name(d, tag) ==
  IF HasHeader(d, tag) THEN SubSeq(d, tag + 4, tag + 3 + beu16_dec(d, tag + 1)) ELSE NULL

--------------------------------------------------------------------------------
(* clod_nbt_iter_next: the next iterator, and whether there is an element. *)

ITER_ZERO == [tag |-> NULL, payload |-> NULL, size |-> 0, type |-> NBT.ZERO, index |-> 0]

iter_fail == [more |-> FALSE, iter |-> ITER_ZERO]

\* The call does not return.
iter_never == [more |-> FALSE, iter |-> [ITER_ZERO EXCEPT !.size = NEVER]]

\* The iterator at the end, which is at offset p.
iter_end(iter, p) ==
  [more |-> FALSE, iter |-> [iter EXCEPT !.tag = p, !.payload = NULL, !.size = 0, !.type = NBT.ZERO]]

\* The iterator at an element whose payload has that size, behind its header.
iter_at(it, header, size) ==
  CASE size = 0 -> iter_fail
    [] size = NEVER -> iter_never
    [] OTHER -> [more |-> TRUE, iter |-> [it EXCEPT !.size = Word(header + size)]]

iter_tag(d, it, payload) ==
  IF available(d, it.tag) < 1 THEN iter_fail
  ELSE IF At(d, it.tag) = NBT.ZERO THEN iter_end(it, it.tag + 1)
  ELSE IF payload = NULL THEN iter_fail
  ELSE iter_at([it EXCEPT !.payload = payload, !.type = At(d, it.tag)],
               payload - it.tag, payload_size(d, payload, At(d, it.tag)))

\* The next tag of a compound at p.
iter_compound(d, p, iter) ==
  LET tag == IF iter.payload = NULL THEN p ELSE iter.tag + iter.size
      index == IF iter.payload = NULL THEN 0 ELSE iter.index + 1
  IN iter_tag(d, [iter EXCEPT !.tag = tag, !.index = index], tag_payload(d, tag))

\* Lists, arrays and strings: the first element is looked for at p, where the
\* count is.  `header' is the size of that, the count is unsigned, and `type'
\* is that of an element, whose size it tells.
iter_counted(d, p, header, count, type, iter) ==
  LET it == IF iter.payload = NULL THEN [ITER_ZERO EXCEPT !.payload = p, !.type = type]
            ELSE [iter EXCEPT !.payload = iter.payload + iter.size, !.index = @ + 1]
  IN IF iter.payload = NULL /\ available(d, p) < header THEN iter_fail
     ELSE IF it.index >= count THEN iter_end(it, it.payload)
     ELSE iter_at(it, 0, payload_size(d, it.payload, type))

iter_next(d, p, type, iter) ==
  CASE type = NBT.COMPOUND -> iter_compound(d, p, iter)
    [] type = NBT.LIST ->
         iter_counted(d, p, 5, beu32_dec(d, p + 1), At(d, p), iter)
    [] type = NBT.STRING -> iter_counted(d, p, 2, beu16_dec(d, p), NBT.INT8, iter)
    [] type \in Arrays ->
         iter_counted(d, p, 4, beu32_dec(d, p),
                      CASE type = NBT.INT8_ARRAY -> NBT.INT8 [] type = NBT.INT32_ARRAY -> NBT.INT32 [] type = NBT.INT64_ARRAY -> NBT.INT64,
                      iter)
    [] OTHER -> [more |-> FALSE, iter |-> iter]

\* The iterators of a whole iteration, from the result of a first call; the
\* last one is the one at its end.  None takes more calls than a list can have
\* elements and a compound tags, and one.
Iters == [tag : Nat \cup {NULL}, payload : Nat \cup {NULL}, size : Nat, type : Nat, index : Nat]
Nexts == [more : BOOLEAN, iter : Iters]
Calls(d) == Pairs * Pairs + Len(d) + 1
WalksFrom(d, p, type) ==
  LET walks[k \in 0 .. Calls(d)] ==
        [next \in Nexts |->
           <<next.iter>> \o (IF next.more /\ k > 0 THEN walks[k - 1][iter_next(d, p, type, next.iter)] ELSE <<>>)]
  IN walks
Walk(d, p, type) == WalksFrom(d, p, type)[Calls(d)][iter_next(d, p, type, ITER_ZERO)]

\* The first tag of that name on a walk, or the last iterator.
FirstNamed(d, walk, name) ==
  LET hits == {i \in 1 .. Len(walk) - 1 : tag_name(d, walk[i].tag) = name}
  IN IF hits = {} THEN [hit |-> FALSE, iter |-> walk[Len(walk)]]
     ELSE [hit |-> TRUE, iter |-> walk[CHOOSE i \in hits : \A j \in hits : i <= j]]

compound_search(d, compound, name) == FirstNamed(d, Walk(d, compound, NBT.COMPOUND), name)

TagOf(found) == IF found.hit THEN found.iter.tag ELSE NULL
compound_get(d, compound, name) == TagOf(compound_search(d, compound, name))
================================================================================
