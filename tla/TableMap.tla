------------------------------ MODULE TableMap ------------------------------
(***************************************************************************)
(* What include/clod/table.h promises: a map from keys to the elements the *)
(* caller supplied.  The table is a partial function `contents' and every  *)
(* call is one step, which records its name, its argument and the pointer  *)
(* (or the number) it returns in `last'.  NULL is nullptr.                 *)
(*                                                                         *)
(* The module is the target of HashTable's refinement; nothing in it talks *)
(* about slots, tombstones, hashes or load factors.                        *)
(***************************************************************************)
EXTENDS Naturals, FiniteSets

CONSTANTS Keys, Elements, KeyOf, NULL

VARIABLES alive, contents, last

mapVars == <<alive, contents, last>>

EmptyMap == [k \in Keys |-> NULL]

Call(op, arg, val) == [op |-> op, arg |-> arg, val |-> val]

MapInit ==
    /\ ~alive
    /\ contents = EmptyMap
    /\ last = Call("none", NULL, NULL)

\* An empty table.
MapCreate ==
    /\ ~alive
    /\ alive'
    /\ contents' = EmptyMap
    /\ last' = Call("create", NULL, TRUE)

\* nullptr, when an allocation failed.
MapCreateFails ==
    /\ ~alive
    /\ ~alive'
    /\ UNCHANGED contents
    /\ last' = Call("create", NULL, FALSE)

MapDestroy ==
    /\ alive
    /\ ~alive'
    /\ contents' = EmptyMap
    /\ last' = Call("destroy", NULL, NULL)

MapLen ==
    /\ alive
    /\ last' = Call("len", NULL, Cardinality({k \in Keys : contents[k] # NULL}))
    /\ alive'
    /\ UNCHANGED contents

\* "the provided element on allocation failure": nothing else changes.
MapAllocFails(op, e) ==
    /\ last' = Call(op, e, e)
    /\ UNCHANGED contents

MapAdd(e) ==
    /\ alive
    /\ alive'
    /\ \/ MapAllocFails("add", e)
       \/ /\ last' = Call("add", e, contents[KeyOf[e]])
          /\ contents' = IF contents[KeyOf[e]] = NULL
                         THEN [contents EXCEPT ![KeyOf[e]] = e]
                         ELSE contents

MapSet(e) ==
    /\ alive
    /\ alive'
    /\ \/ MapAllocFails("set", e)
       \/ /\ last' = Call("set", e, contents[KeyOf[e]])
          /\ contents' = [contents EXCEPT ![KeyOf[e]] = e]

MapGet(k) ==
    /\ alive
    /\ last' = Call("get", k, contents[k])
    /\ alive'
    /\ UNCHANGED contents

MapDel(k) ==
    /\ alive
    /\ last' = Call("del", k, contents[k])
    /\ contents' = [contents EXCEPT ![k] = NULL]
    /\ alive'

MapNext ==
    \/ MapCreate
    \/ MapCreateFails
    \/ MapDestroy
    \/ MapLen
    \/ \E e \in Elements : MapAdd(e) \/ MapSet(e)
    \/ \E k \in Keys : MapGet(k) \/ MapDel(k)

MapSpec == MapInit /\ [][MapNext]_mapVars
=============================================================================
