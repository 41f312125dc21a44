---------------------------- MODULE MCMemoryStore ----------------------------
(***************************************************************************)
(* Instances of MemoryStore for TLC.                                       *)
(***************************************************************************)
EXTENDS MemoryStore, TLC

CONSTANTS c1, c2, k1, k2

\* The expire of a Set: default, or negative for none.
SomeExpires == {0, -2}

Symmetry == Permutations(Clients)
=============================================================================
