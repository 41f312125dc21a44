--------------------------- MODULE MCLocalAdapter ---------------------------
(***************************************************************************)
(* Instances of LocalAdapter for TLC.                                      *)
(***************************************************************************)
EXTENDS LocalAdapter, TLC

CONSTANTS p1, p2, p3, v1, v2, v3, k1, k2, h1

\* v1 and v2 ask for one namespace, v3 for another.
TwoForOne == [v \in Views |-> IF v = v3 THEN "b" ELSE "a"]

\* All keys collide.
OneSlot == [n \in Namespaces |-> [k \in Keys |-> h1]]

Symmetry == Permutations(Procs)
=============================================================================
