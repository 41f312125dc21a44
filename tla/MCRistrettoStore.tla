-------------------------- MODULE MCRistrettoStore --------------------------
(***************************************************************************)
(* Instances of RistrettoStore for TLC.                                    *)
(***************************************************************************)
EXTENDS RistrettoStore, TLC

CONSTANTS c1, c2, k1, k2

Symmetry == Permutations(Clients)
=============================================================================
