---------------------------- MODULE MCHashTable ----------------------------
(***************************************************************************)
(* A small instance of HashTable: three keys, k1 with two elements so that *)
(* set can replace; two addresses, so that every rebuild changes the seed. *)
(* The hashes are chosen for what they do in tables of 2 to 8 slots: k1    *)
(* and k2 share the home slot and the 7 control bits under one seed, and   *)
(* wrap around the end of the table under the other.                       *)
(***************************************************************************)
EXTENDS HashTable, TLC

CONSTANTS k1, k2, k3, e1, e2, e3, f1, a1, a2

MCKeyOf == (e1 :> k1) @@ (f1 :> k1) @@ (e2 :> k2) @@ (e3 :> k3)

MCHashOf ==
    (a1 :> ((k1 :> 129) @@ (k2 :> 129) @@ (k3 :> 257))) @@
    (a2 :> ((k1 :> 1920) @@ (k2 :> 896) @@ (k3 :> 1025)))
=============================================================================
