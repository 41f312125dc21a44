--------------------------- MODULE MCRedisPatterns ---------------------------
(***************************************************************************)
(* An instance of RedisPatterns for TLC.                                   *)
(***************************************************************************)
EXTENDS RedisPatterns, TLC

CONSTANTS n1, n2, k1, k2, k3

Symmetry == Permutations({n1, n2}) \cup Permutations({k1, k2})
=============================================================================
