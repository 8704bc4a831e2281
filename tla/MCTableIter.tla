---------------------------- MODULE MCTableIter ----------------------------
(***************************************************************************)
(* TableIter with one element more than the table was created for; k1 and  *)
(* k2 collide under one seed.                                              *)
(***************************************************************************)
EXTENDS TableIter, TLC

CONSTANTS k1, k2, k3, e1, e2, e3, a1, a2

MCKeyOf == (e1 :> k1) @@ (e2 :> k2) @@ (e3 :> k3)

MCHashOf ==
    (a1 :> ((k1 :> 129) @@ (k2 :> 129) @@ (k3 :> 257))) @@
    (a2 :> ((k1 :> 1920) @@ (k2 :> 896) @@ (k3 :> 1025)))
=============================================================================
