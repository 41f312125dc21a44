---------------------------- MODULE CoherentCache ----------------------------
(***************************************************************************)
(* What the stores of several processes promise about one shared origin    *)
(* without saying how: each keeps copies, may lose them at any time, and   *)
(* never goes back behind an invalidation.  Flights, guards, timers and    *)
(* messages do not appear.  TwoLevelStore implements this module.          *)
(***************************************************************************)
EXTENDS Naturals

CONSTANTS
  Caches,    \* the stores
  Readers,   \* goroutines that read
  CacheOf,   \* the store each reader calls
  Keys

VARIABLES
  ver,       \* ver[k]: the version of k at the origin
  copy,      \* copy[i][k]: the version i has a copy of, or 0
  floor,     \* floor[i][k]: i has discarded what is older
  settled,   \* settled[i][k]: reads of i that start now see nothing older
  reads      \* reads[c]: what c asked for, and its answer

vars == <<ver, copy, floor, settled, reads>>

Idle == [state |-> "idle"]
Asked(k, least) == [state |-> "asked", key |-> k, least |-> least]
Answered(k, least, v) == [state |-> "answered", key |-> k, least |-> least, version |-> v]

Init ==
  /\ ver = [k \in Keys |-> 1]
  /\ copy = [i \in Caches |-> [k \in Keys |-> 0]]
  /\ floor = [i \in Caches |-> [k \in Keys |-> 0]]
  /\ settled = [i \in Caches |-> [k \in Keys |-> 0]]
  /\ reads = [c \in Readers |-> Idle]

\* The origin changes some keys.
Change(keys) ==
  /\ ver' = [k \in Keys |-> IF k \in keys THEN ver[k] + 1 ELSE ver[k]]
  /\ UNCHANGED <<copy, floor, settled, reads>>

\* A copy is made, of nothing that was discarded.
Copy(i, k) ==
  /\ \E v \in floor[i][k] .. ver[k] : copy' = [copy EXCEPT ![i][k] = v]
  /\ UNCHANGED <<ver, floor, settled, reads>>

\* A copy is lost.
Lose(i, k) ==
  /\ copy' = [copy EXCEPT ![i][k] = 0]
  /\ UNCHANGED <<ver, floor, settled, reads>>

\* The copy and everything older than some version are discarded for good.
Discard(i, k) ==
  /\ copy' = [copy EXCEPT ![i][k] = 0]
  /\ \E v \in floor[i][k] .. ver[k] : floor' = [floor EXCEPT ![i][k] = v]
  /\ UNCHANGED <<ver, settled, reads>>

\* From now on this holds for what readers are answered, too.
Settle(i, k) ==
  /\ settled' = [settled EXCEPT ![i][k] = floor[i][k]]
  /\ UNCHANGED <<ver, copy, floor, reads>>

Ask(c, k) ==
  /\ reads[c] = Idle
  /\ reads' = [reads EXCEPT ![c] = Asked(k, settled[CacheOf[c]][k])]
  /\ UNCHANGED <<ver, copy, floor, settled>>

\* The copy is the answer.
AskAndAnswer(c, k) ==
  /\ reads[c] = Idle
  /\ copy[CacheOf[c]][k] # 0
  /\ reads' = [reads EXCEPT ![c] =
                 Answered(k, settled[CacheOf[c]][k], copy[CacheOf[c]][k])]
  /\ UNCHANGED <<ver, copy, floor, settled>>

\* Readers of one store and key are answered together: with a version of the
\* origin that is no older than what was settled when each of them asked.
Answer(i, k, readers) ==
  /\ \A c \in readers : CacheOf[c] = i /\ reads[c].state = "asked" /\ reads[c].key = k
  /\ \E v \in 0 .. ver[k] :
       /\ \A c \in readers : reads[c].least <= v
       /\ reads' = [c \in Readers |->
                      IF c \in readers THEN Answered(k, reads[c].least, v) ELSE reads[c]]
  /\ UNCHANGED <<ver, copy, floor, settled>>

Leave(c) ==
  /\ reads[c].state = "answered"
  /\ reads' = [reads EXCEPT ![c] = Idle]
  /\ UNCHANGED <<ver, copy, floor, settled>>

Next ==
  \/ \E keys \in SUBSET Keys : Change(keys)
  \/ \E i \in Caches, k \in Keys :
       \/ Copy(i, k) \/ Lose(i, k) \/ Discard(i, k) \/ Settle(i, k)
       \/ \E readers \in SUBSET Readers : Answer(i, k, readers)
  \/ \E c \in Readers, k \in Keys : Ask(c, k) \/ AskAndAnswer(c, k)
  \/ \E c \in Readers : Leave(c)

Spec == Init /\ [][Next]_vars
=============================================================================
