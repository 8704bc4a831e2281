------------------------------- MODULE NbtEditor -------------------------------
(***************************************************************************)
(* nbt.c: the functions that edit serialised NBT data in place, and what   *)
(* nbt.h promises of them.                                                 *)
(*                                                                         *)
(* The caller has a buffer of Capacity bytes with a root compound in its   *)
(* first `end' bytes, and counts the space behind it in `free'.  It        *)
(* reaches a payload by name, as clod_nbt_compound_get and                 *)
(* clod_nbt_tag_payload let it, and edits it.  `doc' is the document that  *)
(* nbt.h says the data hold by now.  Three calls do something else (see    *)
(* `departed'); edits stop after one of these.                             *)
(***************************************************************************)
EXTENDS Nbt, FiniteSets, SequencesExt

CONSTANTS
  Capacity,   \* the size of the buffer
  Documents,  \* the documents an editor starts with
  Names,      \* the names asked for
  AddTypes,   \* the types of tags asked for
  ListTypes,  \* the element types asked for; NBT.ZERO asks for no change
  Lengths,    \* the list lengths asked for
  Depth,      \* bounds how deep these documents nest
  MaxEdits    \* bounds the number of calls

VARIABLES
  mem,       \* the buffer
  end,       \* the offset at which the data end
  free,      \* the caller's count of free bytes
  doc,       \* the document according to nbt.h
  ok,        \* whether the last call returned true, or a tag
  pc,        \* "fault" after a memmove that leaves the buffer
  departed,  \* whether a call was made that does not do what nbt.h says
  edits      \* the number of calls

vars == <<mem, end, free, doc, ok, pc, departed, edits>>

data == SubSeq(mem, 1, end)

--------------------------------------------------------------------------------
(* Documents: a node has the fields that its type needs, and their bytes.  *)

zeros(n) == [i \in 1 .. n |-> 0]
Joined(f, n) == LET c[i \in 0 .. n] == IF i = 0 THEN <<>> ELSE c[i - 1] \o f[i] IN c
Concat(f, n) == Joined(f, n)[n]

\* A tag, or an element of a list if the name is empty: `raw' is a number,
\* the elements of an array or the text of a string, `items' the elements of
\* a list, of type `elem', or the tags of a compound.
Node(name, type, raw, elem, items) ==
  [name |-> name, type |-> type, raw |-> raw, elem |-> elem, items |-> items]
ZeroNode(name, type) ==
  Node(name, type, IF type \in Fixed THEN zeros(type_zero_size(type)) ELSE <<>>, NBT.ZERO, <<>>)

\* The lengths of lists and of arrays are positive numbers of four bytes, those
\* of strings and names numbers of two, and a name is the name of one tag.
MaxLength == (ByteValues \div 2) * ByteValues * Pairs - 1
WellFormed(node) ==
  /\ Len(node.name) < Pairs
  /\ node.type \in Fixed \cup {NBT.ZERO} => Len(node.raw) = type_zero_size(node.type)
  /\ node.type \in Arrays =>
       \E length \in 0 .. Len(node.raw) : length <= MaxLength /\ Len(node.raw) = length * ElemSize(node.type)
  /\ node.type = NBT.STRING => Len(node.raw) < Pairs
  /\ node.type = NBT.LIST =>
       Len(node.items) <= MaxLength /\ \A i \in DOMAIN node.items : node.items[i].type = node.elem
  /\ node.type = NBT.COMPOUND =>
       \A i \in DOMAIN node.items :
         /\ type_valid(node.items[i].type)
         /\ \A j \in DOMAIN node.items : node.items[i].name = node.items[j].name => i = j

\* The nodes with that many levels of nodes below them, or less.
Text == Seq(0 .. ByteValues - 1)
Types == 0 .. Len(payload_zero_sizes)
NodesAbove(items) ==
  {node \in [name : Text, type : Types, raw : Text, elem : Types, items : items] : WellFormed(node)}
Levels == LET nodes[k \in 0 .. Depth + MaxEdits] == NodesAbove(IF k = 0 THEN {<<>>} ELSE Seq(nodes[k - 1])) IN nodes
Nodes == Levels[Depth + MaxEdits]

Tagged(node, payload) == <<node.type>> \o beu16_enc(Len(node.name)) \o node.name \o payload

\* The bytes of a payload, with those of the payloads of the items.
PayloadOf(node, parts) ==
  CASE node.type \in Arrays -> bei32_enc(Len(node.raw) \div ElemSize(node.type)) \o node.raw
    [] node.type = NBT.STRING -> beu16_enc(Len(node.raw)) \o node.raw
    [] node.type = NBT.LIST -> <<node.elem>> \o bei32_enc(Len(node.items)) \o Concat(parts, Len(node.items))
    [] node.type = NBT.COMPOUND ->
         Concat([i \in DOMAIN node.items |-> Tagged(node.items[i], parts[i])], Len(node.items)) \o <<NBT.ZERO>>
    [] OTHER -> node.raw
PayloadBytes[node \in Nodes] == PayloadOf(node, [i \in DOMAIN node.items |-> PayloadBytes[node.items[i]]])
TagBytes(node) == Tagged(node, PayloadBytes[node])

Named(node, name) == {i \in DOMAIN node.items : node.type = NBT.COMPOUND /\ node.items[i].name = name}

Child(node, name) == node.items[CHOOSE i \in Named(node, name) : TRUE]

\* The nodes on a path of names, those that lead to a node, and the node there.
NodesAlong(node, path) == LET along[i \in 0 .. Len(path)] == IF i = 0 THEN node ELSE Child(along[i - 1], path[i]) IN along
PathsFrom(node) ==
  {path \in UNION {[1 .. n -> Names] : n \in 0 .. Depth} :
     \A i \in 1 .. Len(path) : Named(NodesAlong(node, path)[i - 1], path[i]) # {}}
NodeAt(node, path) == NodesAlong(node, path)[Len(path)]

\* The node with `new' in the place of a child, and the document with `new' as
\* the node at that path, from there upwards.
WithChild(node, name, new) ==
  [node EXCEPT !.items = [i \in DOMAIN @ |-> IF i \in Named(node, name) THEN new ELSE @[i]]]
Rebuilt(node, path, new) ==
  LET up[k \in 0 .. Len(path)] ==
        IF k = 0 THEN new
        ELSE WithChild(NodesAlong(node, path)[Len(path) - k], path[Len(path) - k + 1], up[k - 1])
  IN up
Changed(node, path, new) == Rebuilt(node, path, new)[Len(path)]

--------------------------------------------------------------------------------
(* The caller finds the payload at a path: NULL if there is none.          *)

FindStep(d, tag, name) ==
  IF tag = NULL THEN NULL
  ELSE IF At(d, tag) # NBT.COMPOUND THEN NULL
  ELSE compound_get(d, tag_payload(d, tag), name)
TagsAlong(d, path) == LET along[i \in 0 .. Len(path)] == IF i = 0 THEN 0 ELSE FindStep(d, along[i - 1], path[i]) IN along
PayloadAt(d, path) == tag_payload(d, TagsAlong(d, path)[Len(path)])

--------------------------------------------------------------------------------
(* The edits *)

memmove(m, dst, src, n) == [i \in DOMAIN m |-> IF dst < i /\ i <= dst + n THEN m[src + i - dst] ELSE m[i]]
Put(m, p, bytes) == [i \in DOMAIN m |-> IF p < i /\ i <= p + Len(bytes) THEN bytes[i - p] ELSE m[i]]

\* A memmove of n bytes, a size_t, and the two writes that follow it.
Move(dst, src, n, p, bytes, q, more) ==
  LET inside == src + Word(n) <= Capacity /\ dst + Word(n) <= Capacity
  IN /\ pc' = IF inside THEN pc ELSE "fault"
     /\ mem' = IF inside THEN Put(Put(memmove(mem, dst, src, Word(n)), p, bytes), q, more) ELSE mem

\* What nbt.h says of the document, and whether the code departs from it.
Promise(new, departs) == doc' = new /\ departed' = departs

Refuse == ok' = FALSE /\ UNCHANGED <<mem, end, doc, pc, departed>>

Enough == free' >= 0

CanEdit == pc = "ok" /\ ~departed /\ edits < MaxEdits /\ edits' = edits + 1

\* The calls that only measure: no compound, or no list.
compound_add_measure(name, type) ==
  /\ CanEdit
  /\ free' = IF type_valid(type) THEN free - (3 + Len(name) + type_zero_size(type)) ELSE free
  /\ Refuse

list_resize_measure(type, length) ==
  /\ CanEdit
  /\ free' = free - length * type_zero_size(type)
  /\ Refuse

AddedTag(name, type) == <<type>> \o beu16_enc(Len(name)) \o name \o zeros(type_zero_size(type))

AddedTo(node, name, type) == [node EXCEPT !.items = Append(@, ZeroNode(name, type))]

\* The place for a new tag is the iterator's at its end, behind the compound.
AddAt(path, name, type, tag) ==
  LET elem_size == Len(AddedTag(name, type))
  IN /\ free' = free - elem_size
     /\ IF ~Enough THEN Refuse
        ELSE /\ ok' = TRUE
             /\ Move(tag + elem_size, tag, available(data, tag) - elem_size, tag, AddedTag(name, type), 0, <<>>)
             /\ end' = end + elem_size
             /\ Promise(Changed(doc, path, AddedTo(NodeAt(doc, path), name, type)), TRUE)

AddFound(path, name, type, found) ==
  IF ~type_valid(type) THEN Refuse /\ UNCHANGED free
  ELSE IF found.hit THEN ok' = TRUE /\ UNCHANGED <<mem, end, free, doc, pc, departed>>
  ELSE IF found.iter.tag = NULL THEN Refuse /\ UNCHANGED free
  ELSE AddAt(path, name, type, found.iter.tag)

compound_add(path, name, type) ==
  /\ CanEdit
  /\ NodeAt(doc, path).type = NBT.COMPOUND
  /\ AddFound(path, name, type, compound_search(data, PayloadAt(data, path), name))

\* A mutant of Cut: the space is counted twice.
CutCountedTwice(p, size) ==
  /\ Move(p, p + size, available(data, p) - size, 0, <<>>, 0, <<>>)
  /\ end' = end - size
  /\ free' = free + 2 * size

\* `size' bytes at p are taken out.
Cut(p, size) ==
  /\ Move(p, p + size, available(data, p) - size, 0, <<>>, 0, <<>>)
  /\ end' = end - size
  /\ free' = free + size

DeletedFrom(node, name) == [node EXCEPT !.items = RemoveAt(@, CHOOSE i \in Named(node, name) : TRUE)]

\* A mutant of DelFound: the tag's header stays.
DelFoundPayload(path, name, found) ==
  LET header == found.iter.payload - found.iter.tag
  IN IF ~found.hit THEN Refuse /\ UNCHANGED free
     ELSE /\ ok' = TRUE
          /\ Cut(found.iter.payload, found.iter.size - header)
          /\ Promise(Changed(doc, path, DeletedFrom(NodeAt(doc, path), name)), departed)

DelFound(path, name, found) ==
  IF ~found.hit THEN Refuse /\ UNCHANGED free
  ELSE /\ ok' = TRUE
       /\ Cut(found.iter.tag, found.iter.size)
       /\ Promise(Changed(doc, path, DeletedFrom(NodeAt(doc, path), name)), departed)

compound_del(path, name) ==
  /\ CanEdit
  /\ NodeAt(doc, path).type = NBT.COMPOUND
  /\ DelFound(path, name, compound_search(data, PayloadAt(data, path), name))

\* nbt.h: type NBT.ZERO keeps the type, and another one wipes the elements.
Resized(node, type, length) ==
  LET elem == IF type = NBT.ZERO THEN node.elem ELSE type
      kept == IF elem = node.elem THEN node.items ELSE <<>>
  IN [node EXCEPT !.elem = elem,
                  !.items = [i \in 1 .. length |-> IF i <= Len(kept) THEN kept[i] ELSE ZeroNode(<<>>, elem)]]

\* The three ways of clod_nbt_list_resize with the payload at p.  A type that
\* is NBT.ZERO is taken for a change of type.
list_retype(path, p, type, length, old_size) ==
  LET new_size == 5 + length * type_zero_size(type)
      delta == new_size - old_size
  IN IF old_size = 0 THEN Refuse /\ UNCHANGED free
     ELSE /\ free' = free - delta
          /\ IF ~Enough THEN Refuse
             ELSE /\ ok' = TRUE
                  /\ Move(p + new_size, p + old_size, available(data, p) - old_size,
                          p, zeros(new_size), p, <<type>> \o bei32_enc(length))
                  /\ end' = end + delta
                  /\ Promise(Changed(doc, path, Resized(NodeAt(doc, path), type, length)), type = NBT.ZERO)

list_grow(path, p, length, old_size) ==
  LET append_size == type_zero_size(At(data, p)) * (length - beu32_dec(data, p + 1))
  IN /\ free' = free - append_size
     /\ IF ~Enough THEN Refuse
        ELSE /\ ok' = TRUE
             /\ Move(p + old_size + append_size, p + old_size, available(data, p) - old_size - append_size,
                     p + old_size, zeros(append_size), p + 1, bei32_enc(length))
             /\ end' = end + append_size
             /\ Promise(Changed(doc, path, Resized(NodeAt(doc, path), NBT.ZERO, length)), TRUE)

list_shrink(path, p, length, walk) ==
  LET last == walk[Len(walk)].tag
      cuts == {i \in 1 .. Len(walk) - 1 : walk[i].index = length}
      truncate == walk[CHOOSE i \in cuts : TRUE].payload
  IN IF last = NULL \/ cuts = {} THEN Refuse /\ UNCHANGED free
     ELSE /\ ok' = TRUE
          /\ Move(truncate, last, available(data, last), p + 1, bei32_enc(length), 0, <<>>)
          /\ free' = free + (last - truncate)
          /\ end' = end - (last - truncate)
          /\ Promise(Changed(doc, path, Resized(NodeAt(doc, path), NBT.ZERO, length)), TRUE)

ResizeAt(path, p, type, length) ==
  LET old_length == beu32_dec(data, p + 1)
  IN CASE available(data, p) < 5 -> Refuse /\ UNCHANGED free
       [] available(data, p) >= 5 /\ At(data, p) # type ->
            list_retype(path, p, type, length, payload_size(data, p, NBT.LIST))
       [] available(data, p) >= 5 /\ At(data, p) = type /\ old_length < length ->
            list_grow(path, p, length, payload_size(data, p, NBT.LIST))
       [] available(data, p) >= 5 /\ At(data, p) = type /\ old_length > length ->
            list_shrink(path, p, length, Walk(data, p, NBT.LIST))
       [] OTHER -> ok' = TRUE /\ UNCHANGED <<mem, end, free, doc, pc, departed>>

list_resize(path, type, length) ==
  /\ CanEdit
  /\ NodeAt(doc, path).type = NBT.LIST
  /\ ResizeAt(path, PayloadAt(data, path), type, length)

--------------------------------------------------------------------------------

ASSUME EditorAssumption ==
  /\ Depth \in Nat /\ MaxEdits \in Nat
  /\ Capacity \in Nat /\ Capacity < SizeLimit
  /\ \A d \in Documents : d \in Levels[Depth] /\ d.type = NBT.COMPOUND /\ Len(TagBytes(d)) <= Capacity
  /\ Names \subseteq Text
  /\ ListTypes \subseteq Types /\ Lengths \subseteq 0 .. MaxLength

\* A buffer with a document at its start and anything behind it.
Init ==
  /\ doc \in Documents
  /\ end = Len(TagBytes(doc))
  /\ mem = TagBytes(doc) \o [i \in 1 .. Capacity - end |-> ByteValues - 1]
  /\ free = Capacity - end
  /\ ok = TRUE
  /\ pc = "ok"
  /\ departed = FALSE
  /\ edits = 0

Next ==
  \/ \E name \in Names, type \in AddTypes : compound_add_measure(name, type)
  \/ \E type \in ListTypes, length \in Lengths : list_resize_measure(type, length)
  \/ \E path \in PathsFrom(doc) :
       \/ \E name \in Names, type \in AddTypes : compound_add(path, name, type)
       \/ \E name \in Names : compound_del(path, name)
       \/ \E type \in ListTypes, length \in Lengths : list_resize(path, type, length)

Spec == Init /\ [][Next]_vars

--------------------------------------------------------------------------------
(* Properties *)

\* The data are the bytes of the document nbt.h describes, whatever was
\* deleted, retyped, found or refused (clod_nbt_compound_del,
\* clod_nbt_list_resize with another type, every call without space).
DocumentIntact == departed \/ (pc = "ok" /\ data = TagBytes(doc))

\* The counter of free bytes never promises space that is not there, so that
\* the writes of a call it lets through stay in the buffer (nbt.c, *free).
FreeNeverOverstated == free <= Capacity - end

\* A walk over a compound stands at each of its tags in turn, knows the tag's
\* size, and ends with their number.  Where it ends is not said here.
WalkExact(node, walk) ==
  /\ Len(walk) = Len(node.items) + 1
  /\ \A i \in DOMAIN node.items :
       /\ tag_name(data, walk[i].tag) = node.items[i].name
       /\ SubSeq(data, walk[i].tag + 1, walk[i].tag + walk[i].size) = TagBytes(node.items[i])
  /\ walk[Len(walk)].index = Len(node.items)

\* The payload at p is the node's.
ExactAt(node, p) ==
  /\ p # NULL
  /\ payload_size(data, p, node.type) = Len(PayloadBytes[node])
  /\ SubSeq(data, p + 1, p + Len(PayloadBytes[node])) = PayloadBytes[node]
  /\ node.type = NBT.COMPOUND => WalkExact(node, Walk(data, p, NBT.COMPOUND))

\* Every node of the document is found by its names, at its bytes, with its
\* size, and an iteration over a compound stands at each of its tags in their
\* order, with their sizes (clod_nbt_payload_size, clod_nbt_compound_get,
\* clod_nbt_iter_next).
TraversalExact ==
  departed \/
    /\ tag_size(data, 0) = end
    /\ \A path \in PathsFrom(doc) : ExactAt(NodeAt(doc, path), PayloadAt(data, path))

\* The data cut short, with one byte changed, or with four bytes that read as
\* a negative length.
Damaged ==
  {SubSeq(data, 1, k) : k \in 0 .. end - 1}
  \cup {[data EXCEPT ![i] = b] : i \in 1 .. end, b \in {0, 1, ByteValues - 1}}
  \cup {Put(data, p, bei32_enc(-length)) : p \in 0 .. end - 4, length \in 1 .. 12}

\* What is left of the root can still be asked for, and the walk over it.
DamagedRoots == {d \in Damaged : HasHeader(d, 0) /\ At(d, 0) = NBT.COMPOUND}
RootSize(d) == payload_size(d, tag_payload(d, 0), NBT.COMPOUND)
RootWalk(d) == Walk(d, tag_payload(d, 0), NBT.COMPOUND)

SizeWithin(d) == RootSize(d) = NEVER \/ RootSize(d) <= available(d, tag_payload(d, 0))
TagsWithin(d, walk) ==
  /\ \A i \in 1 .. Len(walk) - 1 : walk[i].payload <= Len(d)
  /\ \A i \in 1 .. Len(walk) - 2 : walk[i].tag + walk[i].size <= Len(d)

\* nbt.h promises memory safety and not that damage is detected: the size of a
\* compound never reaches past the end of the data, and of the tags an iteration
\* over it finds only the last one may, whose payload starts within them
\* (clod_nbt_payload_size, clod_nbt_iter_next).  For a list of numbers with a
\* negative length there is no size, as the call does not return.
DamageContained == departed \/ \A d \in DamagedRoots : SizeWithin(d) /\ TagsWithin(d, RootWalk(d))

\* A walk over the elements of a list, an array or a string with the payload
\* at p, as nbt.h describes it: the first element comes behind the count, and
\* at the end the iterator points behind the last.
CountWidth(type) == CASE type = NBT.LIST -> 5 [] type \in Arrays -> 4 [] type = NBT.STRING -> 2
ElementsWalked(node, p, walk) ==
  /\ Len(walk) > 1 => walk[1].payload = p + CountWidth(node.type)
  /\ walk[Len(walk)].tag = p + Len(PayloadBytes[node])

\* What nbt.h says of an iteration, for everything that is counted.
IterationAsDocumented ==
  departed \/
    \A path \in PathsFrom(doc) :
      NodeAt(doc, path).type \in Arrays \cup {NBT.STRING, NBT.LIST} =>
        ElementsWalked(NodeAt(doc, path), PayloadAt(data, path), Walk(data, PayloadAt(data, path), NodeAt(doc, path).type))

\* What nbt.h says of every edit: the data are the document with the change,
\* and no byte outside of the buffer is touched.
EditsAsDocumented == pc = "ok" /\ data = TagBytes(doc)
================================================================================
