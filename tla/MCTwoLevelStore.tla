--------------------------- MODULE MCTwoLevelStore ---------------------------
(***************************************************************************)
(* Instances of TwoLevelStore for TLC.                                     *)
(***************************************************************************)
EXTENDS TwoLevelStore, TLC

CONSTANTS a, b, c1, c2, c3, k1, k2

OneHome == [c \in Clients |-> a]
TwoHomes == [c \in Clients |-> IF c = c3 THEN b ELSE a]

\* c1 and c2 read, c3 mutates.
ReadersAnd(mutations3) == [c \in Clients |-> IF c = c3 THEN mutations3 ELSE {"get"}]
MutatorCalls == ReadersAnd({"set", "delete", "deletePattern"})
SetCalls == ReadersAnd({"set"})
ForgetCalls == ReadersAnd({"set", "delete"})

\* c1 reads and closes its store; c3 does everything else with the other.
BroadcastCalls ==
  [c \in Clients |->
     IF c = c3 THEN {"get", "set", "delete", "invalidate", "deletePattern", "invalidatePattern"}
               ELSE {"get", "close"}]

SameShard == [k \in Keys |-> 0]

Readers == Permutations({c1, c2})
=============================================================================
