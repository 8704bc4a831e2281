----------------------------- MODULE TableIter -----------------------------
(***************************************************************************)
(* A client that walks a hash table with clod_table_iter while it goes on  *)
(* using the table.  HashTable's actions are the client's other calls; the *)
(* iterator is the caller's struct clod_table_iter.  `seen', `start',      *)
(* `stable' and `done' observe the walk; once a deletion or a rebuild has   *)
(* disturbed it, the observers forget it until the next walk begins.       *)
(***************************************************************************)
EXTENDS HashTable

VARIABLES
    it,      \* the _internal field of the caller's iterator
    seen,    \* how often the walk has yielded each key
    start,   \* the keys stored when the walk began
    stable,  \* neither a deletion nor a rebuild since the walk began
    done     \* the last call was clod_table_iter, and it returned false

iterVars == <<it, seen, start, stable, done>>

KeysOf(tb) == {KeyAt(tb, i) : i \in Occupied(tb)}

NotSeen == [k \in Keys |-> 0]

IterInit ==
    /\ Init
    /\ it = 0
    /\ seen = NotSeen
    /\ start = {}
    /\ stable = TRUE
    /\ done = FALSE

\* One call; the walk begins at _internal = 0, where the last one left it.
clod_table_iter ==
    /\ pc = "idle"
    /\ stable' = (it = 0 \/ stable)
    /\ LET r     == iterate(t, it)
           sofar == IF it = 0 THEN NotSeen ELSE seen
       IN  /\ it' = r.internal
           /\ done' = (r.element = NULL)
           /\ seen' = IF r.element # NULL /\ stable'
                      THEN [sofar EXCEPT ![KeyOf[r.element]] = @ + 1]
                      ELSE sofar
    /\ start' = IF it = 0 THEN KeysOf(t) ELSE start
    /\ UNCHANGED vars

\* Any other call.  A walk does not outlive its table.
OtherCall ==
    /\ Next
    /\ it' = IF pc' = "none" THEN 0 ELSE it
    /\ stable' = /\ stable
                 /\ pc' # "none"
                 /\ pc # "none" => t'.addr = t.addr /\ t'.cursor = t.cursor
    /\ done' = FALSE
    /\ seen' = IF stable' THEN seen ELSE NotSeen
    /\ start' = IF stable' THEN start ELSE {}

IterNext == clod_table_iter \/ OtherCall

IterSpec == IterInit /\ [][IterNext]_<<vars, iterVars>>

\* Walking the table from a zeroed iterator until clod_table_iter returns
\* false yields every key that was there at the beginning exactly once, and
\* every other key at most once, whatever gets, replacing sets, failed calls
\* and even insertions happen on the way, as long as nothing is deleted (which
\* moves the cursor) and no insertion rebuilds.  table.h only promises this
\* for a table that is not mutated.
WalkIsExact ==
    done /\ stable =>
        /\ \A k \in start : seen[k] = 1
        /\ \A k \in Keys : seen[k] <= 1
=============================================================================
