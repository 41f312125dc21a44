------------------------- MODULE TwoLevelStoreProofs -------------------------
(***************************************************************************)
(* Theorems about TwoLevelStore, for every number of instances, clients,   *)
(* keys and shards and every choice of failures: the fence of the          *)
(* backfills and Close; then what readers see, that TwoLevelStore          *)
(* implements CoherentCache, that stale entries of L1 are being seen to,   *)
(* and that flights do not overtake each other.                            *)
(***************************************************************************)
EXTENDS TwoLevelStore, TLAPS

USE DEF NoEntry, pubsub

ReadSteps == FlightSteps \cup {"do", "wait", "return"}

\* What a process may hold at each of its steps.
Legal(p) ==
  /\ pc[p] \in ReadSteps => p \in Clients /\ key[p] \in Keys
  /\ pc[p] \in {"commit", "forget"} => key[p] \in Keys /\ op[p] \in {"set", "delete", "invalidate"}
  /\ pc[p] \in {"scan", "bump", "erase"} => op[p] \in {"deletePattern", "invalidatePattern"} /\ key[p] = NoKey
  /\ pc[p] = "publish" => \/ op[p] \in {"set", "delete"} /\ key[p] \in Keys
                          \/ op[p] = "deletePattern" /\ key[p] = NoKey
  /\ pc[p] = "bump" => nextShard[p] \in Shards
  /\ pc[p] = "idle" => key[p] = NoKey

TypeInv == TypeOK /\ \A p \in Procs : Legal(p)

LEMMA HomeType == \A p \in Procs : Home(p) \in Instances
  BY ConstantsAssumption DEF Procs, Home

LEMMA ProceedType ==
  ASSUME TypeOK, NEW p \in Procs, NEW step \in Steps, Proceed(p, step)
  PROVE  /\ pc' = [pc EXCEPT ![p] = step]
         /\ op' \in [Procs -> Operations]
         /\ key' \in [Procs -> Keys \cup {NoKey}]
         /\ data' \in [Procs -> Nat]
         /\ step = "idle" => key'[p] = NoKey
         /\ step # "idle" => op'[p] = op[p] /\ key'[p] = key[p]
         /\ \A q \in Procs \ {p} : op'[q] = op[q] /\ key'[q] = key[q]
<1> USE DEF TypeOK, Proceed, Goto
<1>1. pc' = [pc EXCEPT ![p] = step]
  OBVIOUS
<1>2. CASE step = "idle"
  <2>1. /\ op' = [op EXCEPT ![p] = "get"]
        /\ key' = [key EXCEPT ![p] = NoKey]
        /\ data' = [data EXCEPT ![p] = 0]
    BY <1>2
  <2>2. op' \in [Procs -> Operations]
    BY <2>1 DEF Operations
  <2>3. key' \in [Procs -> Keys \cup {NoKey}]
    BY <2>1
  <2>4. data' \in [Procs -> Nat]
    BY <2>1
  <2> QED BY <1>1, <1>2, <2>1, <2>2, <2>3, <2>4
<1>3. CASE step # "idle"
  BY <1>1, <1>3
<1> QED BY <1>2, <1>3

\* What the state holds for the key of a process.
LEMMA Values ==
  ASSUME TypeOK, NEW p \in Procs, NEW k \in Keys
  PROVE  /\ Home(p) \in Instances
         /\ ShardOf[k] \in Shards
         /\ ver[k] \in Nat
         /\ l1[Home(p)][k] \in Nat
         /\ gen[Home(p)] \in [Shards -> Nat]
         /\ gen[Home(p)][ShardOf[k]] \in Nat
         /\ calls[Home(p)] \in [Keys -> Clients \cup {NoCall}]
         /\ calls[Home(p)][k] \in Clients \cup {NoCall}
         /\ floor[Home(p)][k] \in Nat
         /\ settled[Home(p)][k] \in Nat
         /\ written[Home(p)][k] \in Nat
         /\ asof[p][k] \in Nat
         /\ data[p] \in Nat
  BY HomeType, ConstantsAssumption DEF TypeOK

LEMMA InitType == Init => TypeInv
  BY DEF Init, TypeInv, TypeOK, Legal, NoWant, NoVersions, NoForget, Messages, Steps, FlightSteps,
         ReadSteps, Operations, Shards

LEMMA ForgetType ==
  ASSUME TypeInv, NEW i \in Instances, NEW k \in Keys, NEW due \in Nat, Forget(i, k, due)
  PROVE  /\ calls' \in [Instances -> [Keys -> Clients \cup {NoCall}]]
         /\ forgets' \in [Instances -> [Keys -> [due : Nat, stray : BOOLEAN]]]
<1>1. /\ calls \in [Instances -> [Keys -> Clients \cup {NoCall}]]
      /\ forgets \in [Instances -> [Keys -> [due : Nat, stray : BOOLEAN]]]
  BY DEF TypeInv, TypeOK
<1>2. PICK unmarked \in BOOLEAN :
        forgets' = [forgets EXCEPT ![i][k] = [due |-> due, stray |-> forgets[i][k].stray \/ unmarked]]
  BY DEF Forget
<1>3. (forgets[i][k].stray \/ unmarked) \in BOOLEAN
  OBVIOUS
<1>4. [due |-> due, stray |-> forgets[i][k].stray \/ unmarked] \in [due : Nat, stray : BOOLEAN]
  BY <1>3
<1>5. forgets' \in [Instances -> [Keys -> [due : Nat, stray : BOOLEAN]]]
  BY ONLY <1>1, <1>2, <1>4, i \in Instances, k \in Keys
<1>6. calls' \in [Instances -> [Keys -> Clients \cup {NoCall}]]
  BY <1>1 DEF Forget, Forgotten
<1> QED BY <1>5, <1>6

LEMMA ReadType ==
  ASSUME TypeInv, NEW p \in Procs, ReadStep(p)
  PROVE  TypeInv'
<1> USE Values DEF TypeInv, Legal, ReadSteps, FlightSteps, Steps, redis, cached,
                   promised, reading, pattern, Goto
<1>1. CASE Lead(p)
  <2>1. TypeOK'
    BY <1>1 DEF Lead, Registered, TypeOK
  <2>2. ASSUME NEW q \in Procs PROVE Legal(q)'
    BY <1>1, <2>2 DEF Lead, Registered, TypeOK
  <2> QED BY <2>1, <2>2
<1>2. CASE Join(p)
  <2>1. TypeOK'
    BY <1>2 DEF Join, InFlight, TypeOK
  <2>2. ASSUME NEW q \in Procs PROVE Legal(q)'
    BY <1>2, <2>2 DEF Join, InFlight, TypeOK
  <2> QED BY <2>1, <2>2
<1>3. CASE InnerLocal(p)
  <2>1. pc' \in [Procs -> Steps]
    BY ONLY <1>3, TypeOK DEF InnerLocal, Goto, TypeOK, Steps, FlightSteps
  <2>2. data' \in [Procs -> Nat]
    <3>1. l1[Home(p)][key[p]] \in Nat
      BY <1>3 DEF InnerLocal
    <3> HIDE Values
    <3> QED BY <1>3, <3>1 DEF InnerLocal, TypeOK
  <2>3. TypeOK'
    BY <1>3, <2>1, <2>2 DEF InnerLocal, TypeOK
  <2>4. ASSUME NEW q \in Procs PROVE Legal(q)'
    BY <1>3, <2>4 DEF InnerLocal, TypeOK
  <2> QED BY <2>3, <2>4
<1>4. CASE Begin(p)
  <2>1. TypeOK'
    BY <1>4 DEF Begin, TypeOK
  <2>2. ASSUME NEW q \in Procs PROVE Legal(q)'
    BY <1>4, <2>2 DEF Begin, TypeOK
  <2> QED BY <2>1, <2>2
<1>5. CASE GetWithTTL(p)
  <2>1. pc' \in [Procs -> Steps]
    BY ONLY <1>5, TypeOK DEF GetWithTTL, Goto, TypeOK, Steps, FlightSteps
  <2>2. data' \in [Procs -> Nat]
    BY <1>5 DEF GetWithTTL, TypeOK
  <2>3. TypeOK'
    BY <1>5, <2>1, <2>2 DEF GetWithTTL, TypeOK
  <2>4. ASSUME NEW q \in Procs PROVE Legal(q)'
    BY <1>5, <2>4 DEF GetWithTTL, TypeOK
  <2> QED BY <2>3, <2>4
<1>6. CASE CommitRead(p)
  <2>1. l1' \in [Instances -> [Keys -> Nat]]
    <3>1. key[p] \in Keys /\ data[p] \in Nat /\ Home(p) \in Instances
      BY <1>6 DEF CommitRead
    <3>2. l1' = l1 \/ l1' = [l1 EXCEPT ![Home(p)][key[p]] = data[p]]
      BY <1>6 DEF CommitRead
    <3>3. l1 \in [Instances -> [Keys -> Nat]]
      BY DEF TypeOK
    <3>4. [l1 EXCEPT ![Home(p)][key[p]] = data[p]] \in [Instances -> [Keys -> Nat]]
      BY ONLY <3>1, <3>3
    <3> QED BY ONLY <3>2, <3>3, <3>4
  <2>2. TypeOK'
    BY <1>6, <2>1 DEF CommitRead, TypeOK
  <2>3. ASSUME NEW q \in Procs PROVE Legal(q)'
    BY <1>6, <2>3 DEF CommitRead, TypeOK
  <2> QED BY <2>2, <2>3
<1>7. CASE Finish(p)
  <2>1. calls' \in [Instances -> [Keys -> Clients \cup {NoCall}]]
    BY <1>7 DEF Finish, Released, Finished, Forgotten, TypeOK
  <2>2. data' \in [Procs -> Nat]
    BY <1>7 DEF Finish, Released, Finished, Forgotten, TypeOK
  <2>3. pc' \in [Procs -> Steps]
    BY <1>7 DEF Finish, Released, Finished, Forgotten, TypeOK
  <2>4. TypeOK'
    BY <1>7, <2>1, <2>2, <2>3 DEF Finish, Released, Finished, Forgotten, TypeOK
  <2>5. ASSUME NEW q \in Procs PROVE Legal(q)'
    BY <1>7, <2>5 DEF Finish, Released, Finished, Forgotten, TypeOK
  <2> QED BY <2>4, <2>5
<1>8. CASE Return(p)
  <2>1. Proceed(p, "idle") /\ "idle" \in Steps
    BY <1>8 DEF Return
  <2>2. /\ op' \in [Procs -> Operations]
        /\ key' \in [Procs -> Keys \cup {NoKey}]
        /\ data' \in [Procs -> Nat]
        /\ pc' = [pc EXCEPT ![p] = "idle"]
        /\ key'[p] = NoKey
        /\ \A q \in Procs \ {p} : op'[q] = op[q] /\ key'[q] = key[q]
    BY <2>1, ProceedType
  <2>3. TypeOK'
    BY <1>8, <2>2 DEF Return, NoWant, TypeOK
  <2>4. ASSUME NEW q \in Procs PROVE Legal(q)'
    BY <1>8, <2>2, <2>4 DEF Return, TypeOK
  <2> QED BY <2>3, <2>4
<1> QED BY <1>1, <1>2, <1>3, <1>4, <1>5, <1>6, <1>7, <1>8 DEF ReadStep

\* A step moves p and nobody else.
Moves(p) ==
  \A q \in Procs \ {p} : /\ pc'[q] = pc[q] /\ op'[q] = op[q]
                         /\ key'[q] = key[q] /\ nextShard'[q] = nextShard[q]

LEMMA MovesLegal ==
  ASSUME TypeInv, NEW p \in Procs, Moves(p), Legal(p)'
  PROVE  \A q \in Procs : Legal(q)'
<1>1. ASSUME NEW q \in Procs \ {p} PROVE Legal(q)'
  BY <1>1 DEF TypeInv, Legal, Moves
<1> QED BY <1>1

\* A step of p that proceeds to a step p may be at leaves every process legal.
LEMMA ProceedLegal ==
  ASSUME TypeInv, NEW p \in Procs, NEW step \in Steps, Proceed(p, step),
         \A q \in Procs \ {p} : nextShard'[q] = nextShard[q],
         step \notin ReadSteps,
         step \in {"commit", "forget"} => key[p] \in Keys /\ op[p] \in {"set", "delete", "invalidate"},
         step \in {"scan", "bump", "erase"} =>
           op[p] \in {"deletePattern", "invalidatePattern"} /\ key[p] = NoKey,
         step = "publish" => \/ op[p] \in {"set", "delete"} /\ key[p] \in Keys
                             \/ op[p] = "deletePattern" /\ key[p] = NoKey,
         step = "bump" => nextShard'[p] \in Shards
  PROVE  /\ pc' \in [Procs -> Steps]
         /\ op' \in [Procs -> Operations]
         /\ key' \in [Procs -> Keys \cup {NoKey}]
         /\ data' \in [Procs -> Nat]
         /\ \A q \in Procs : Legal(q)'
<1>1. /\ pc' = [pc EXCEPT ![p] = step]
      /\ op' \in [Procs -> Operations]
      /\ key' \in [Procs -> Keys \cup {NoKey}]
      /\ data' \in [Procs -> Nat]
      /\ step = "idle" => key'[p] = NoKey
      /\ step # "idle" => op'[p] = op[p] /\ key'[p] = key[p]
      /\ \A q \in Procs \ {p} : op'[q] = op[q] /\ key'[q] = key[q]
  BY ProceedType DEF TypeInv
<1>2. pc' \in [Procs -> Steps] /\ pc'[p] = step /\ \A q \in Procs \ {p} : pc'[q] = pc[q]
  BY <1>1 DEF TypeInv, TypeOK
<1>3. Legal(p)'
  BY <1>1, <1>2 DEF Legal
<1>4. ASSUME NEW q \in Procs \ {p} PROVE Legal(q)'
  BY <1>1, <1>2, <1>4 DEF TypeInv, Legal
<1> QED BY <1>1, <1>2, <1>3, <1>4

LEMMA MutationType ==
  ASSUME TypeInv, NEW p \in Procs, MutationStep(p)
  PROVE  TypeInv'
<1> USE DEF TypeInv
<1>1. CASE CommitMutation(p)
  <2> DEFINE next == After(op[p], "commit")
  <2>1. key[p] \in Keys /\ op[p] \in {"set", "delete", "invalidate"}
    BY <1>1 DEF CommitMutation, Legal
  <2>2. next \in {"idle", "forget"} /\ next \in Steps /\ next \notin ReadSteps
    BY <2>1 DEF After, Steps, ReadSteps, FlightSteps
  <2>3. Proceed(p, next) /\ nextShard' = nextShard
    BY <1>1 DEF CommitMutation, pattern
  <2> HIDE DEF next
  <2>4. /\ pc' \in [Procs -> Steps] /\ op' \in [Procs -> Operations]
        /\ key' \in [Procs -> Keys \cup {NoKey}] /\ data' \in [Procs -> Nat]
        /\ \A q \in Procs : Legal(q)'
    BY <2>1, <2>2, <2>3, ProceedLegal
  <2>a. /\ Home(p) \in Instances /\ ShardOf[key[p]] \in Shards
        /\ ver[key[p]] \in Nat /\ data[p] \in Nat
    BY <2>1, Values
  <2>b. /\ gen \in [Instances -> [Shards -> Nat]] /\ l1 \in [Instances -> [Keys -> Nat]]
        /\ floor \in [Instances -> [Keys -> Nat]] /\ written \in [Instances -> [Keys -> Nat]]
    BY DEF TypeOK
  <2>5. gen' \in [Instances -> [Shards -> Nat]]
    <3>1. gen' = [gen EXCEPT ![Home(p)][ShardOf[key[p]]] = gen[Home(p)][ShardOf[key[p]]] + 1]
      BY <1>1 DEF CommitMutation
    <3> QED BY ONLY <3>1, <2>a, <2>b
  <2>6. l1' \in [Instances -> [Keys -> Nat]]
    <3>1. l1' = l1 \/ l1' = [l1 EXCEPT ![Home(p)][key[p]] = 0]
      BY <1>1 DEF CommitMutation, cached
    <3>2. [l1 EXCEPT ![Home(p)][key[p]] = 0] \in [Instances -> [Keys -> Nat]]
      BY ONLY <2>1, <2>a, <2>b
    <3> QED BY ONLY <3>1, <3>2, <2>b
  <2>7. floor' \in [Instances -> [Keys -> Nat]]
    <3>1. floor' = floor \/ floor' = [floor EXCEPT ![Home(p)][key[p]] = ver[key[p]]]
      BY <1>1 DEF CommitMutation, cached
    <3>2. [floor EXCEPT ![Home(p)][key[p]] = ver[key[p]]] \in [Instances -> [Keys -> Nat]]
      BY ONLY <2>1, <2>a, <2>b
    <3> QED BY ONLY <3>1, <3>2, <2>b
  <2>8. written' \in [Instances -> [Keys -> Nat]]
    <3>1. written' = written \/ written' = [written EXCEPT ![Home(p)][key[p]] = data[p]]
      BY <1>1 DEF CommitMutation
    <3>2. [written EXCEPT ![Home(p)][key[p]] = data[p]] \in [Instances -> [Keys -> Nat]]
      BY ONLY <2>1, <2>a, <2>b
    <3> QED BY ONLY <3>1, <3>2, <2>b
  <2>9. TypeOK'
    BY <1>1, <2>4, <2>5, <2>6, <2>7, <2>8 DEF CommitMutation, TypeOK, redis, reading, pattern
  <2> QED BY <2>4, <2>9
<1>2. CASE ForgetFlight(p)
  <2> DEFINE next == After(op[p], "forget")
  <2>1. key[p] \in Keys /\ op[p] \in {"set", "delete", "invalidate"}
    BY <1>2 DEF ForgetFlight, Legal
  <2>2. next \in Steps \ ReadSteps /\ next \in {"idle", "publish"} /\ (next = "publish" => op[p] # "invalidate")
    BY <2>1 DEF After, Steps, ReadSteps, FlightSteps
  <2>3. Proceed(p, next) /\ nextShard' = nextShard
    BY <1>2 DEF ForgetFlight, pattern
  <2> HIDE DEF next
  <2>4. /\ pc' \in [Procs -> Steps] /\ op' \in [Procs -> Operations]
        /\ key' \in [Procs -> Keys \cup {NoKey}] /\ data' \in [Procs -> Nat]
        /\ \A q \in Procs : Legal(q)'
    BY <2>1, <2>2, <2>3, ProceedLegal
  <2>5. /\ calls' \in [Instances -> [Keys -> Clients \cup {NoCall}]]
        /\ forgets' \in [Instances -> [Keys -> [due : Nat, stray : BOOLEAN]]]
    <3>1. Home(p) \in Instances /\ forgets[Home(p)][key[p]].due \in Nat
      BY <2>1, HomeType DEF TypeOK
    <3>2. Forget(Home(p), key[p], forgets[Home(p)][key[p]].due)
      BY <1>2 DEF ForgetFlight
    <3> QED BY <2>1, <3>1, <3>2, ForgetType
  <2>6. settled' \in [Instances -> [Keys -> Nat]]
    BY <1>2, <2>1, Values DEF ForgetFlight, TypeOK
  <2>7. TypeOK'
    BY <1>2, <2>4, <2>5, <2>6 DEF ForgetFlight, TypeOK, redis, cached, reading, pattern
  <2> QED BY <2>4, <2>7
<1>3. CASE Publish(p)
  <2> DEFINE next == After(op[p], "publish")
  <2>1. \/ op[p] \in {"set", "delete"} /\ key[p] \in Keys
        \/ op[p] = "deletePattern" /\ key[p] = NoKey
    BY <1>3 DEF Publish, Legal
  <2>2. next \in Steps \ ReadSteps /\ next \in {"idle", "commit"} /\ (next = "commit" => op[p] = "set")
    BY <2>1 DEF After, Steps, ReadSteps, FlightSteps
  <2>3. Proceed(p, next) /\ nextShard' = nextShard
    BY <1>3 DEF Publish, pattern
  <2> HIDE DEF next
  <2>4. /\ pc' \in [Procs -> Steps] /\ op' \in [Procs -> Operations]
        /\ key' \in [Procs -> Keys \cup {NoKey}] /\ data' \in [Procs -> Nat]
        /\ \A q \in Procs : Legal(q)'
    BY <2>1, <2>2, <2>3, ProceedLegal
  <2>5. inbox' \in [Instances -> Seq(Messages)]
    <3> DEFINE message == [origin |-> Home(p), value |-> key[p],
                           type |-> IF op[p] = "deletePattern" THEN "pattern" ELSE "key"]
    <3>1. message \in Messages
      BY <2>1, HomeType DEF Messages
    <3> HIDE DEF message
    <3>2. \A j \in Instances : Append(inbox[j], message) \in Seq(Messages)
      BY <3>1 DEF TypeOK
    <3>3. PICK dropped \in IF Lossy THEN SUBSET Subscribed ELSE {{}} :
            inbox' = [j \in Instances |->
                        IF Home(p) \in Subscribed /\ j \in Subscribed \ dropped
                             /\ lifecycle[j] = "open"
                          THEN Append(inbox[j], message) ELSE inbox[j]]
      BY <1>3 DEF Publish, message
    <3> QED BY <3>2, <3>3 DEF TypeOK
  <2>6. TypeOK'
    BY <1>3, <2>4, <2>5 DEF Publish, TypeOK, redis, cached, promised, reading, pattern
  <2> QED BY <2>4, <2>6
<1>4. CASE \E k \in Keys : ScanDelete(p, k)
  <2>1. PICK k \in Keys : ScanDelete(p, k)
    BY <1>4
  <2>2. /\ ver' \in [Keys -> Nat \ {0}] /\ live' \in [Keys -> BOOLEAN]
        /\ op' \in [Procs -> Operations]
    <3>1. CASE live[k]
      <4>1. /\ ver' = [ver EXCEPT ![k] = ver[k] + 1]
            /\ live' = [live EXCEPT ![k] = FALSE]
            /\ op' = [op EXCEPT ![p] = "deletePattern"]
        BY <2>1, <3>1 DEF ScanDelete
      <4> QED BY <4>1 DEF TypeOK, Operations
    <3>2. CASE ~live[k]
      BY <2>1, <3>2 DEF ScanDelete, TypeOK, redis
    <3> QED BY <3>1, <3>2
  <2>3. TypeOK'
    BY <2>1, <2>2 DEF ScanDelete, TypeOK, cached, promised, reading
  <2>4. ASSUME NEW q \in Procs PROVE Legal(q)'
    BY <2>1, <2>4 DEF ScanDelete, Legal, TypeOK, ReadSteps, FlightSteps
  <2> QED BY <2>3, <2>4
<1>5. CASE ScanReturns(p)
  <2>1. TurnToL1(p, ver') /\ pc[p] = "scan" /\ UNCHANGED <<key, data>>
    BY <1>5 DEF ScanReturns
  <2>a. ver' \in [Keys -> Nat \ {0}] /\ live' \in [Keys -> BOOLEAN]
    <3>1. CASE UNCHANGED redis
      BY <3>1 DEF TypeOK, redis
    <3>2. CASE \E keys \in SUBSET {k \in PatternKeys : live[k]} : DeleteUnseen(keys)
      BY <3>2 DEF DeleteUnseen, TypeOK
    <3> QED BY <1>5, <3>1, <3>2 DEF ScanReturns
  <2>2. todo' \in [Procs -> SUBSET Keys] /\ nextShard' \in [Procs -> Nat] /\ asof' \in [Procs -> [Keys -> Nat]]
    BY <2>1, <2>a, ConstantsAssumption DEF TurnToL1, TypeOK
  <2>3. pc' \in [Procs -> Steps] /\ pc' = [pc EXCEPT ![p] = "bump"]
    BY <2>1 DEF TurnToL1, Goto, Steps, TypeOK
  <2>4. op' \in [Procs -> Operations] /\ \A q \in Procs \ {p} : op'[q] = op[q]
    BY <1>5 DEF ScanReturns, Operations, TypeOK
  <2>5. op'[p] \in {"deletePattern", "invalidatePattern"} /\ key[p] = NoKey
    BY <1>5 DEF ScanReturns, Legal, TypeOK
  <2>6. TypeOK'
    BY <1>5, <2>1, <2>a, <2>2, <2>3, <2>4 DEF ScanReturns, TypeOK, cached, promised, reading
  <2>7. nextShard'[p] \in Shards /\ \A q \in Procs \ {p} : nextShard'[q] = nextShard[q]
    BY <2>1, ConstantsAssumption DEF TurnToL1, TypeOK, Shards
  <2>8. pc'[p] = "bump" /\ \A q \in Procs \ {p} : pc'[q] = pc[q]
    BY <2>3 DEF TypeOK
  <2>9. Legal(p)'
    BY <2>1, <2>5, <2>7, <2>8 DEF Legal, ReadSteps, FlightSteps
  <2>10. ASSUME NEW q \in Procs \ {p} PROVE Legal(q)'
    BY <2>1, <2>4, <2>7, <2>8, <2>10 DEF Legal
  <2> QED BY <2>6, <2>9, <2>10
<1>6. CASE BumpShard(p)
  <2> DEFINE last == nextShard[p] + 1 = ShardCount
             next == IF last THEN IF L1Patterns THEN "erase" ELSE After(op[p], "erase") ELSE "bump"
  <2>1. op[p] \in {"deletePattern", "invalidatePattern"} /\ key[p] = NoKey /\ nextShard[p] \in Shards
    BY <1>6 DEF BumpShard, Legal
  <2>2. /\ next \in Steps \ ReadSteps /\ next \in {"idle", "bump", "erase", "publish"}
        /\ next = "publish" => op[p] = "deletePattern"
        /\ next = "bump" => ~last
    BY <2>1 DEF After, Steps, ReadSteps, FlightSteps
  <2>3. Proceed(p, next)
    BY <1>6 DEF BumpShard
  <2>4. nextShard' = [nextShard EXCEPT ![p] = IF last THEN 0 ELSE nextShard[p] + 1]
    BY <1>6 DEF BumpShard
  <2>5. /\ nextShard' \in [Procs -> Nat]
        /\ \A q \in Procs \ {p} : nextShard'[q] = nextShard[q]
        /\ ~last => nextShard'[p] \in Shards
    BY <2>1, <2>4, ConstantsAssumption DEF TypeOK, Shards
  <2>6. todo' \in [Procs -> SUBSET Keys] /\ asof' \in [Procs -> [Keys -> Nat]]
    <3>1. \/ UNCHANGED <<todo, asof>>
          \/ todo' = [todo EXCEPT ![p] = {}] /\ asof' = [asof EXCEPT ![p] = NoVersions]
      BY <1>6 DEF BumpShard
    <3>2. NoVersions \in [Keys -> Nat]
      BY DEF NoVersions
    <3>3. todo \in [Procs -> SUBSET Keys] /\ asof \in [Procs -> [Keys -> Nat]]
      BY DEF TypeOK
    <3> QED BY ONLY <3>1, <3>2, <3>3
  <2>7. gen' \in [Instances -> [Shards -> Nat]]
    <3>1. gen' = [gen EXCEPT ![Home(p)][nextShard[p]] = gen[Home(p)][nextShard[p]] + 1]
      BY <1>6 DEF BumpShard
    <3>2. gen \in [Instances -> [Shards -> Nat]] /\ Home(p) \in Instances
      BY HomeType DEF TypeOK
    <3> QED BY ONLY <2>1, <3>1, <3>2
  <2> HIDE DEF last, next
  <2>8. /\ pc' \in [Procs -> Steps] /\ op' \in [Procs -> Operations]
        /\ key' \in [Procs -> Keys \cup {NoKey}] /\ data' \in [Procs -> Nat]
        /\ \A q \in Procs : Legal(q)'
    BY <2>1, <2>2, <2>3, <2>5, ProceedLegal
  <2>9. TypeOK'
    BY <1>6, <2>5, <2>6, <2>7, <2>8 DEF BumpShard, TypeOK, redis, cached, promised, reading
  <2> QED BY <2>8, <2>9
<1>7. CASE \E k \in Keys : EraseKey(p, k)
  <2>1. PICK k \in Keys : EraseKey(p, k)
    BY <1>7
  <2>2. Home(p) \in Instances /\ asof[p][k] \in Nat /\ floor[Home(p)][k] \in Nat
    BY Values
  <2>3. l1 \in [Instances -> [Keys -> Nat]] /\ floor \in [Instances -> [Keys -> Nat]]
    BY DEF TypeOK
  <2>4. l1' \in [Instances -> [Keys -> Nat]]
    <3>1. l1' = [l1 EXCEPT ![Home(p)][k] = 0]
      BY <2>1 DEF EraseKey
    <3> QED BY ONLY <3>1, <2>2, <2>3, k \in Keys
  <2>5. floor' \in [Instances -> [Keys -> Nat]]
    <3>1. floor' = [floor EXCEPT ![Home(p)][k] = IF asof[p][k] > floor[Home(p)][k]
                                                  THEN asof[p][k] ELSE floor[Home(p)][k]]
      BY <2>1 DEF EraseKey
    <3> QED BY ONLY <3>1, <2>2, <2>3, k \in Keys
  <2>6. TypeOK'
    BY <2>1, <2>4, <2>5 DEF EraseKey, TypeOK, redis, promised, reading
  <2>7. ASSUME NEW q \in Procs PROVE Legal(q)'
    BY <2>1, <2>7 DEF EraseKey, Legal
  <2> QED BY <2>6, <2>7
<1>8. CASE EraseReturns(p)
  <2> DEFINE next == After(op[p], "erase")
  <2>1. op[p] \in {"deletePattern", "invalidatePattern"} /\ key[p] = NoKey
    BY <1>8 DEF EraseReturns, Legal
  <2>2. next \in Steps \ ReadSteps /\ next \in {"idle", "publish"} /\ (next = "publish" => op[p] = "deletePattern")
    BY <2>1 DEF After, Steps, ReadSteps, FlightSteps
  <2>3. Proceed(p, next) /\ nextShard' = nextShard
    BY <1>8 DEF EraseReturns
  <2> HIDE DEF next
  <2>4. /\ pc' \in [Procs -> Steps] /\ op' \in [Procs -> Operations]
        /\ key' \in [Procs -> Keys \cup {NoKey}] /\ data' \in [Procs -> Nat]
        /\ \A q \in Procs : Legal(q)'
    BY <2>1, <2>2, <2>3, ProceedLegal
  <2>5. TypeOK'
    BY <1>8, <2>4 DEF EraseReturns, TypeOK, NoVersions, redis, cached, promised, reading
  <2> QED BY <2>4, <2>5
<1> QED BY <1>1, <1>2, <1>3, <1>4, <1>5, <1>6, <1>7, <1>8 DEF MutationStep

LEMMA CloseType ==
  ASSUME TypeInv, NEW p \in Procs, CloseStep(p)
  PROVE  TypeInv'
<1> USE DEF TypeInv
<1>1. Proceed(p, "idle") /\ nextShard' = nextShard
  BY DEF CloseStep, CloseLocal, CloseAgain, pattern
<1>2. "idle" \in Steps \ ReadSteps
  BY DEF Steps, ReadSteps, FlightSteps
<1>3. /\ pc' \in [Procs -> Steps] /\ op' \in [Procs -> Operations]
      /\ key' \in [Procs -> Keys \cup {NoKey}] /\ data' \in [Procs -> Nat]
      /\ \A q \in Procs : Legal(q)'
  BY <1>1, <1>2, ProceedLegal
<1>4. lifecycle' \in [Instances -> {"open", "closing", "closed"}]
  BY DEF CloseStep, CloseLocal, CloseAgain, TypeOK
<1>5. TypeOK'
  BY <1>3, <1>4 DEF CloseStep, CloseLocal, CloseAgain, TypeOK, redis, cached, promised, reading, pattern
<1> QED BY <1>3, <1>5

LEMMA CallType ==
  ASSUME TypeOK, NEW p \in Procs, NEW o \in Operations, Call(p, o)
  PROVE  mutations' \in Nat
<1>1. mutations \in Nat
  BY DEF TypeOK
<1>2. mutations' = mutations + 1
  BY DEF Call
<1> QED BY ONLY <1>1, <1>2

LEMMA InvokeType ==
  ASSUME TypeInv, NEW p \in Clients, Invoke(p)
  PROVE  TypeInv'
<1> USE DEF TypeInv
<1>p. p \in Procs
  BY DEF Procs
<1>1. ASSUME NEW k \in Keys, GetLocal(p, k) PROVE TypeInv'
  <2>1. /\ op' \in [Procs -> Operations] /\ key' \in [Procs -> Keys \cup {NoKey}]
        /\ pc' \in [Procs -> Steps]
    BY <1>1 DEF GetLocal, Goto, TypeOK, Operations, Steps, FlightSteps
  <2>2. want' \in [Procs -> [settled : Nat, written : Nat]]
    <3>1. settled[Home(p)][k] \in Nat /\ written[Home(p)][k] \in Nat
      BY <1>p, Values
    <3> QED BY <1>1, <3>1 DEF GetLocal, TypeOK
  <2>3. data' \in [Procs -> Nat]
    <3>1. l1[Home(p)][k] \in Nat
      BY <1>p, Values
    <3> QED BY <1>1, <3>1 DEF GetLocal, TypeOK
  <2>4. TypeOK'
    BY <1>1, <2>1, <2>2, <2>3 DEF GetLocal, TypeOK, redis, cached, promised, pattern
  <2>5. ASSUME NEW q \in Procs PROVE Legal(q)'
    BY <1>1, <1>p, <2>5 DEF GetLocal, Goto, Legal, TypeOK, pattern, ReadSteps, FlightSteps
  <2> QED BY <2>4, <2>5
<1>2. ASSUME NEW k \in Keys, SetRemote(p, k) PROVE TypeInv'
  <2>0. \/ UNCHANGED <<ver, live>>
        \/ /\ ver' = [ver EXCEPT ![k] = ver[k] + 1]
           /\ \E b \in BOOLEAN : live' = [live EXCEPT ![k] = b]
    BY <1>2 DEF SetRemote, redis
  <2>a. ver \in [Keys -> Nat \ {0}] /\ live \in [Keys -> BOOLEAN]
    BY DEF TypeOK
  <2>1. ver' \in [Keys -> Nat \ {0}] /\ live' \in [Keys -> BOOLEAN]
    BY ONLY <2>0, <2>a
  <2>2. CASE Proceed(p, "idle")
    <3>1. nextShard' = nextShard /\ "idle" \in Steps \ ReadSteps
      BY <1>2 DEF SetRemote, pattern, Steps, ReadSteps, FlightSteps
    <3>2. /\ pc' \in [Procs -> Steps] /\ op' \in [Procs -> Operations]
          /\ key' \in [Procs -> Keys \cup {NoKey}] /\ data' \in [Procs -> Nat]
          /\ \A q \in Procs : Legal(q)'
      BY <1>p, <2>2, <3>1, ProceedLegal
    <3>3. TypeOK'
      BY <1>2, <2>1, <3>2 DEF SetRemote, Call, TypeOK, cached, promised, reading, pattern
    <3> QED BY <3>2, <3>3
  <2>3. CASE /\ op' = [op EXCEPT ![p] = "set"]
             /\ key' = [key EXCEPT ![p] = k]
             /\ data' = [data EXCEPT ![p] = ver'[k]]
             /\ Goto(p, "forget")
    <3>1. /\ op' \in [Procs -> Operations] /\ key' \in [Procs -> Keys \cup {NoKey}]
          /\ data' \in [Procs -> Nat] /\ pc' \in [Procs -> Steps]
      BY <2>1, <2>3 DEF Goto, TypeOK, Operations, Steps
    <3>2. TypeOK'
      BY <1>2, <2>1, <3>1 DEF SetRemote, Call, TypeOK, cached, promised, reading, pattern
    <3>3. pc'[p] = "forget" /\ key'[p] = k /\ op'[p] = "set" /\ Moves(p)
      BY <1>2, <1>p, <2>3 DEF SetRemote, Goto, Moves, TypeOK, pattern
    <3>4. Legal(p)'
      BY <3>3 DEF Legal, ReadSteps, FlightSteps
    <3> QED BY <1>p, <3>2, <3>3, <3>4, MovesLegal
  <2> QED BY <1>2, <2>2, <2>3 DEF SetRemote
<1>3. ASSUME NEW k \in Keys, DeleteRemote(p, k) PROVE TypeInv'
  <2>0. \/ UNCHANGED <<ver, live>>
        \/ /\ ver' = [ver EXCEPT ![k] = ver[k] + 1]
           /\ \E b \in BOOLEAN : live' = [live EXCEPT ![k] = b]
    BY <1>3 DEF DeleteRemote, redis
  <2>a. ver \in [Keys -> Nat \ {0}] /\ live \in [Keys -> BOOLEAN]
    BY DEF TypeOK
  <2>1. ver' \in [Keys -> Nat \ {0}] /\ live' \in [Keys -> BOOLEAN]
    BY ONLY <2>0, <2>a
  <2>2. /\ op' \in [Procs -> Operations]
        /\ op' = [op EXCEPT ![p] = "delete"] \/ op' = [op EXCEPT ![p] = "invalidate"]
    BY <1>3 DEF DeleteRemote, TypeOK, Operations
  <2>3. pc' \in [Procs -> Steps] /\ key' \in [Procs -> Keys \cup {NoKey}]
    BY <1>3 DEF DeleteRemote, Call, Goto, Steps, TypeOK
  <2>4. TypeOK'
    BY <1>3, <2>1, <2>2, <2>3 DEF DeleteRemote, Call, TypeOK, cached, promised, reading, pattern
  <2>5. pc'[p] = "commit" /\ key'[p] = k /\ Moves(p)
    BY <1>3, <1>p, <2>2 DEF DeleteRemote, Goto, Moves, TypeOK, pattern
  <2>6. op'[p] \in {"delete", "invalidate"}
    BY <1>p, <2>2 DEF TypeOK
  <2>7. Legal(p)'
    BY <2>5, <2>6 DEF Legal, ReadSteps, FlightSteps
  <2> QED BY <1>p, <2>4, <2>5, <2>7, MovesLegal
<1>4. ASSUME NEW k \in Keys, InvalidateLocal(p, k) PROVE TypeInv'
  <2>1. TypeOK'
    <3>1. op' \in [Procs -> Operations] /\ pc' \in [Procs -> Steps]
      BY <1>4 DEF InvalidateLocal, Goto, Steps, Operations, TypeOK
    <3>2. key' \in [Procs -> Keys \cup {NoKey}]
      BY <1>4 DEF InvalidateLocal, TypeOK
    <3>3. mutations' \in Nat
      BY <1>4, <1>p, CallType DEF InvalidateLocal, Operations
    <3> QED
      BY <1>4, <3>1, <3>2, <3>3 DEF InvalidateLocal, TypeOK, redis, cached, promised, reading, pattern
  <2>2. pc'[p] = "commit" /\ key'[p] = k /\ op'[p] = "invalidate" /\ Moves(p)
    BY <1>4, <1>p DEF InvalidateLocal, Goto, Moves, TypeOK, pattern
  <2>3. Legal(p)'
    BY <2>2 DEF Legal, ReadSteps, FlightSteps
  <2> QED BY <1>p, <2>1, <2>2, <2>3, MovesLegal
<1>5. CASE DeletePattern(p)
  <2>1. key[p] = NoKey
    BY <1>5, <1>p DEF DeletePattern, Call, May, Legal
  <2>2. TypeOK'
    <3>1. op' \in [Procs -> Operations] /\ pc' \in [Procs -> Steps]
      BY <1>5 DEF DeletePattern, Goto, Steps, Operations, TypeOK
    <3>3. mutations' \in Nat
      BY <1>5, <1>p, CallType DEF DeletePattern, Operations
    <3>2. todo' \in [Procs -> SUBSET Keys]
      BY <1>5, ConstantsAssumption DEF DeletePattern, TypeOK
    <3> QED
      BY <1>5, <3>1, <3>2, <3>3 DEF DeletePattern, TypeOK, redis, cached, promised, reading
  <2>3. pc'[p] = "scan" /\ key'[p] = NoKey /\ op'[p] = "invalidatePattern" /\ Moves(p)
    BY <1>5, <1>p, <2>1 DEF DeletePattern, Goto, Moves, TypeOK
  <2>4. Legal(p)'
    BY <2>3 DEF Legal, ReadSteps, FlightSteps
  <2> QED BY <1>p, <2>2, <2>3, <2>4, MovesLegal
<1>6. CASE InvalidateLocalPattern(p)
  <2>1. key[p] = NoKey
    BY <1>6, <1>p DEF InvalidateLocalPattern, Call, May, Legal
  <2>2. 0 \in Shards /\ PatternKeys \subseteq Keys
    BY ConstantsAssumption DEF Shards
  <2>3. TypeOK'
    <3>1. op' \in [Procs -> Operations]
      BY <1>6 DEF InvalidateLocalPattern, Operations, TypeOK
    <3>4. mutations' \in Nat
      BY <1>6, <1>p, CallType DEF InvalidateLocalPattern, Operations
    <3>2. TurnToL1(p, ver)
      BY <1>6 DEF InvalidateLocalPattern
    <3>3. /\ todo' \in [Procs -> SUBSET Keys] /\ nextShard' \in [Procs -> Nat]
          /\ asof' \in [Procs -> [Keys -> Nat]] /\ pc' \in [Procs -> Steps]
      BY <2>2, <3>2 DEF TurnToL1, Goto, Steps, TypeOK
    <3> QED
      BY <1>6, <3>1, <3>3, <3>4 DEF InvalidateLocalPattern, TypeOK, redis, cached, promised, reading
  <2>4. /\ pc'[p] = "bump" /\ key'[p] = NoKey /\ op'[p] = "invalidatePattern" /\ nextShard'[p] = 0
        /\ Moves(p)
    BY <1>6, <1>p, <2>1 DEF InvalidateLocalPattern, TurnToL1, Goto, Moves, TypeOK
  <2>5. Legal(p)'
    BY <2>2, <2>4 DEF Legal, ReadSteps, FlightSteps
  <2> QED BY <1>p, <2>3, <2>4, <2>5, MovesLegal
<1>7. CASE Close(p)
  <2>1. key[p] = NoKey
    BY <1>7, <1>p DEF Close, May, Legal
  <2>2. /\ op' \in [Procs -> Operations] /\ pc' \in [Procs -> Steps]
        /\ lifecycle' \in [Instances -> {"open", "closing", "closed"}]
    BY <1>7 DEF Close, Goto, Steps, Operations, TypeOK
  <2>3. inbox' \in [Instances -> Seq(Messages)]
    <3>1. inbox \in [Instances -> Seq(Messages)] /\ Home(p) \in Instances
      BY <1>p, HomeType DEF TypeOK
    <3>2. \/ inbox' = inbox
          \/ \E n \in 0 .. Len(inbox[Home(p)]) :
               inbox' = [inbox EXCEPT ![Home(p)] = SubSeq(inbox[Home(p)], 1, n)]
      BY <1>7 DEF Close
    <3>3. \A n \in 0 .. Len(inbox[Home(p)]) : SubSeq(inbox[Home(p)], 1, n) \in Seq(Messages)
      BY <3>1
    <3> QED BY ONLY <3>1, <3>2, <3>3
  <2>4. TypeOK'
    BY <1>7, <2>2, <2>3 DEF Close, TypeOK, redis, cached, promised, reading, pattern
  <2>5. pc'[p] \in {"close", "drain"} /\ key'[p] = NoKey /\ Moves(p)
    BY <1>7, <1>p, <2>1 DEF Close, Goto, Moves, TypeOK, pattern
  <2>6. Legal(p)'
    BY <2>5 DEF Legal, ReadSteps, FlightSteps
  <2> QED BY <1>p, <2>4, <2>5, <2>6, MovesLegal
<1> QED BY <1>1, <1>2, <1>3, <1>4, <1>5, <1>6, <1>7 DEF Invoke

LEMMA ListenType ==
  ASSUME TypeInv, NEW i \in Subscribed, Listen(i)
  PROVE  TypeInv'
<1> USE DEF TypeInv
<1> DEFINE message == Head(inbox[i])
<1>1. i \in Procs /\ i \in Instances
  BY ConstantsAssumption DEF Procs
<1>2. inbox[i] \in Seq(Messages) /\ inbox[i] # <<>>
  BY <1>1 DEF Listen, Receives, TypeOK
<1>3. message \in Messages /\ Tail(inbox[i]) \in Seq(Messages)
  BY <1>2
<1>4. inbox' \in [Instances -> Seq(Messages)]
  BY <1>3 DEF Listen, TypeOK
<1>5. message.type = "key" => message.value \in Keys
  BY <1>3 DEF Messages
<1>6. UNCHANGED <<redis, gen, cached, promised, reading, calls, forgets, lifecycle, data,
                  mutations>>
  BY DEF Listen
<1>7. CASE UNCHANGED <<pc, op, key, pattern>>
  <2>1. TypeOK'
    BY <1>4, <1>6, <1>7 DEF TypeOK, redis, cached, promised, reading, pattern
  <2>2. ASSUME NEW q \in Procs PROVE Legal(q)'
    BY <1>7, <2>2 DEF Legal, pattern
  <2> QED BY <2>1, <2>2
<1>8. CASE /\ message.type = "key"
           /\ op' = [op EXCEPT ![i] = "invalidate"]
           /\ key' = [key EXCEPT ![i] = message.value]
           /\ Goto(i, "commit")
           /\ UNCHANGED pattern
  <2> HIDE DEF message
  <2>1. op' \in [Procs -> Operations] /\ key' \in [Procs -> Keys \cup {NoKey}] /\ pc' \in [Procs -> Steps]
    BY <1>5, <1>8 DEF Goto, TypeOK, Operations, Steps
  <2>2. TypeOK'
    BY <1>4, <1>6, <1>8, <2>1 DEF TypeOK, redis, cached, promised, reading, pattern
  <2>3. pc'[i] = "commit" /\ key'[i] = message.value /\ op'[i] = "invalidate" /\ Moves(i)
    BY <1>1, <1>8 DEF Goto, Moves, TypeOK, pattern
  <2>4. Legal(i)'
    BY <1>5, <1>8, <2>3 DEF Legal, ReadSteps, FlightSteps
  <2> QED BY <1>1, <2>2, <2>3, <2>4, MovesLegal
<1>9. CASE /\ op' = [op EXCEPT ![i] = "invalidatePattern"]
           /\ key' = [key EXCEPT ![i] = NoKey]
           /\ TurnToL1(i, ver)
  <2>1. op' \in [Procs -> Operations] /\ key' \in [Procs -> Keys \cup {NoKey}]
    BY <1>9 DEF TypeOK, Operations
  <2>2. 0 \in Shards /\ PatternKeys \subseteq Keys
    BY ConstantsAssumption DEF Shards
  <2>3. /\ todo' \in [Procs -> SUBSET Keys] /\ nextShard' \in [Procs -> Nat]
        /\ asof' \in [Procs -> [Keys -> Nat]] /\ pc' \in [Procs -> Steps]
    BY <1>9, <2>2 DEF TurnToL1, Goto, Steps, TypeOK
  <2>4. TypeOK'
    BY <1>4, <1>6, <2>1, <2>3 DEF TypeOK, redis, cached, promised, reading
  <2>5. /\ pc'[i] = "bump" /\ key'[i] = NoKey /\ op'[i] = "invalidatePattern" /\ nextShard'[i] = 0
        /\ Moves(i)
    BY <1>1, <1>9 DEF TurnToL1, Goto, Moves, TypeOK
  <2>6. Legal(i)'
    BY <2>2, <2>5 DEF Legal, ReadSteps, FlightSteps
  <2> QED BY <1>1, <2>4, <2>5, <2>6, MovesLegal
<1> QED BY <1>7, <1>8, <1>9 DEF Listen

\* sf.Forget alone.
LEMMA TimerType ==
  ASSUME TypeInv,
         (\E p \in Procs : TimerFires(p)) \/ (\E i \in Instances, k \in Keys : TimerForgets(i, k))
  PROVE  TypeInv'
<1> USE DEF TypeInv
<1>1. ASSUME NEW p \in Procs, TimerFires(p) PROVE TypeInv'
  <2>1. key[p] \in Keys
    BY <1>1 DEF TimerFires, Legal, ReadSteps
  <2>2. calls' \in [Instances -> [Keys -> Clients \cup {NoCall}]]
    <3>1. Home(p) \in Instances /\ calls \in [Instances -> [Keys -> Clients \cup {NoCall}]]
      BY HomeType DEF TypeOK
    <3>2. Forgotten(calls[Home(p)], key[p]) \in [Keys -> Clients \cup {NoCall}]
      BY <3>1 DEF Forgotten
    <3>3. calls' = calls \/ calls' = [calls EXCEPT ![Home(p)] = Forgotten(calls[Home(p)], key[p])]
      BY <1>1 DEF TimerFires
    <3> QED BY ONLY <3>1, <3>2, <3>3
  <2>3. forgets' \in [Instances -> [Keys -> [due : Nat, stray : BOOLEAN]]]
    <3>1. Home(p) \in Instances /\ forgets \in [Instances -> [Keys -> [due : Nat, stray : BOOLEAN]]]
      BY HomeType DEF TypeOK
    <3>2. \/ forgets' = forgets
          \/ forgets' = [forgets EXCEPT ![Home(p)][key[p]].due = forgets[Home(p)][key[p]].due + 1]
      BY <1>1 DEF TimerFires
    <3>3. [forgets EXCEPT ![Home(p)][key[p]].due = forgets[Home(p)][key[p]].due + 1]
            \in [Instances -> [Keys -> [due : Nat, stray : BOOLEAN]]]
      BY ONLY <2>1, <3>1
    <3> QED BY ONLY <3>1, <3>2, <3>3
  <2>4. TypeOK'
    BY <1>1, <2>2, <2>3 DEF TimerFires, TypeOK, redis, cached, promised, pattern
  <2>5. ASSUME NEW q \in Procs PROVE Legal(q)'
    BY <1>1, <2>5 DEF TimerFires, Legal, pattern
  <2> QED BY <2>4, <2>5
<1>2. ASSUME NEW i \in Instances, NEW k \in Keys, TimerForgets(i, k) PROVE TypeInv'
  <2>1. forgets[i][k].due - 1 \in Nat /\ Forget(i, k, forgets[i][k].due - 1)
    BY <1>2 DEF TimerForgets, TypeOK
  <2>2. calls' \in [Instances -> [Keys -> Clients \cup {NoCall}]] /\ UNCHANGED superseded
        /\ forgets' \in [Instances -> [Keys -> [due : Nat, stray : BOOLEAN]]]
    BY <1>2, <2>1, ForgetType DEF TimerForgets, reading
  <2>3. TypeOK'
    BY <1>2, <2>2 DEF TimerForgets, TypeOK, redis, cached, promised, reading, pattern
  <2>4. ASSUME NEW q \in Procs PROVE Legal(q)'
    BY <1>2, <2>4 DEF TimerForgets, Legal, pattern
  <2> QED BY <2>3, <2>4
<1> QED BY <1>1, <1>2

LEMMA ExpireType ==
  ASSUME TypeInv,
         \E k \in Keys : RemoteExpire(k) \/ \E i \in Instances : LocalExpire(i, k)
  PROVE  TypeInv'
<1> USE DEF TypeInv
<1>1. ASSUME NEW k \in Keys, RemoteExpire(k) PROVE TypeInv'
  <2>1. TypeOK'
    BY <1>1 DEF RemoteExpire, TypeOK, cached, promised, reading, pattern
  <2>2. ASSUME NEW q \in Procs PROVE Legal(q)'
    BY <1>1, <2>2 DEF RemoteExpire, Legal, pattern
  <2> QED BY <2>1, <2>2
<1>2. ASSUME NEW i \in Instances, NEW k \in Keys, LocalExpire(i, k) PROVE TypeInv'
  <2>1. l1' \in [Instances -> [Keys -> Nat]]
    <3>1. l1 \in [Instances -> [Keys -> Nat]]
      BY DEF TypeOK
    <3>2. l1' = [l1 EXCEPT ![i][k] = 0]
      BY <1>2 DEF LocalExpire
    <3> QED BY ONLY <3>1, <3>2, i \in Instances, k \in Keys
  <2>2. TypeOK'
    BY <1>2, <2>1 DEF LocalExpire, TypeOK, redis, promised, reading, pattern
  <2>3. ASSUME NEW q \in Procs PROVE Legal(q)'
    BY <1>2, <2>3 DEF LocalExpire, Legal, pattern
  <2> QED BY <2>2, <2>3
<1> QED BY <1>1, <1>2

LEMMA StutterType == TypeInv /\ UNCHANGED vars => TypeInv'
  BY DEF TypeInv, TypeOK, Legal, vars, redis, cached, promised, reading, pattern

LEMMA TypeInvariant == Spec => []TypeInv
<1>1. TypeInv /\ [Next]_vars => TypeInv'
  BY ReadType, MutationType, CloseType, InvokeType, ListenType, TimerType, ExpireType, StutterType
     DEF Next, Step
<1> QED BY <1>1, InitType, PTL DEF Spec

\* Every reachable state is well typed, whatever the number of instances,
\* clients and keys: among others, a timer never calls Forget twice.
THEOREM TypeCorrect == Spec => []TypeOK
<1>1. TypeInv => TypeOK
  BY DEF TypeInv
<1> QED BY <1>1, TypeInvariant, PTL

-----------------------------------------------------------------------------
(* No resurrection.  The inductive invariant says of every flight between   *)
(* its remote read and commitRead that, if its generation is still the      *)
(* guard's, it holds nothing older than the last invalidation of the key.   *)

\* The pattern operation q has bumped the guard of shard s.
Bumped(q, s) == pc[q] = "erase" \/ (pc[q] = "bump" /\ s < nextShard[q])

Reading(p) == pc[p] \in {"getWithTTL", "commitRead"}

\* commitRead would find the generation unchanged.
Current(p) == generation[p] = gen[Home(p)][ShardOf[key[p]]]

Floors == \A i \in Instances, k \in Keys : floor[i][k] <= ver[k]
AsOfs == \A q \in Procs, k \in Keys : asof[q][k] <= ver[k]
Generations == \A p \in Procs : Reading(p) => generation[p] <= gen[Home(p)][ShardOf[key[p]]]
FlightsAboveFloor ==
  \A p \in Procs : pc[p] = "commitRead" /\ Current(p) => data[p] >= floor[Home(p)][key[p]]
FlightsAbovePatterns ==
  \A p, q \in Procs :
    pc[p] = "commitRead" /\ Current(p) /\ Home(q) = Home(p) /\ Bumped(q, ShardOf[key[p]])
      => data[p] >= asof[q][key[p]]

Fencing == /\ Floors /\ AsOfs /\ Generations
           /\ FlightsAboveFloor /\ FlightsAbovePatterns
           /\ NoResurrection

\* A step that touches no guard, lowers no version, fills nothing into L1, and
\* brings no flight past its remote read and no pattern operation past a guard.
Quiet ==
  /\ \A k \in Keys : ver'[k] >= ver[k]
  /\ \A i \in Instances, k \in Keys : l1'[i][k] \in {l1[i][k], 0}
  /\ floor' = floor /\ gen' = gen
  /\ \A p \in Procs : /\ Reading(p)' => Reading(p) /\ pc'[p] = pc[p]
                      /\ Reading(p) => UNCHANGED <<key[p], data[p], generation[p]>>
  /\ \A q \in Procs, s \in Shards : Bumped(q, s)' => Bumped(q, s) /\ asof'[q] = asof[q]
  /\ \A q \in Procs, k \in Keys : asof'[q][k] \in {asof[q][k], ver'[k], 0}

LEMMA QuietKeeps ==
  ASSUME TypeInv, TypeInv', Fencing, Quiet
  PROVE  Fencing'
<1>1. Floors'
  BY DEF Fencing, Quiet, Floors, TypeInv, TypeOK
<1>2. AsOfs'
  <2>1. ASSUME NEW q \in Procs, NEW k \in Keys PROVE asof'[q][k] <= ver'[k]
    <3>1. ver[k] \in Nat /\ ver'[k] \in Nat /\ asof[q][k] \in Nat
      BY DEF TypeInv, TypeOK
    <3>2. asof[q][k] <= ver[k] /\ ver'[k] >= ver[k] /\ asof'[q][k] \in {asof[q][k], ver'[k], 0}
      BY DEF Fencing, AsOfs, Quiet
    <3> QED BY ONLY <3>1, <3>2
  <2> QED BY <2>1 DEF AsOfs
<1>3. ASSUME NEW p \in Procs, Reading(p)'
      PROVE  /\ Reading(p) /\ pc'[p] = pc[p] /\ key'[p] = key[p] /\ data'[p] = data[p]
             /\ generation'[p] = generation[p] /\ key[p] \in Keys
  <2>1. Reading(p) /\ pc'[p] = pc[p] /\ key'[p] = key[p] /\ data'[p] = data[p] /\ generation'[p] = generation[p]
    BY <1>3 DEF Quiet
  <2> QED BY <2>1 DEF Reading, TypeInv, Legal, ReadSteps, FlightSteps
<1>4. Generations'
  BY <1>3 DEF Fencing, Generations, Quiet
<1>5. FlightsAboveFloor'
  BY <1>3 DEF Fencing, FlightsAboveFloor, Current, Reading, Quiet
<1>6. FlightsAbovePatterns'
  <2>1. \A p \in Procs : key[p] \in Keys => ShardOf[key[p]] \in Shards
    BY ConstantsAssumption
  <2> QED BY <1>3, <2>1 DEF Fencing, FlightsAbovePatterns, Current, Reading, Quiet
<1>7. NoResurrection'
  BY DEF Fencing, NoResurrection, Quiet
<1> QED BY <1>1, <1>2, <1>4, <1>5, <1>6, <1>7 DEF Fencing

LEMMA QuietRead ==
  ASSUME TypeInv, Fencing, NEW p \in Procs,
         Lead(p) \/ Join(p) \/ InnerLocal(p) \/ Finish(p) \/ Return(p)
  PROVE  Quiet
<1>1. UNCHANGED <<redis, gen, cached, pattern>>
  BY DEF Lead, Join, InnerLocal, Finish, Released, Return
<1>2. ASSUME NEW q \in Procs
      PROVE  /\ Reading(q)' => Reading(q) /\ pc'[q] = pc[q]
             /\ Reading(q) => key'[q] = key[q] /\ data'[q] = data[q] /\ generation'[q] = generation[q]
             /\ pc'[q] \in {"bump", "erase"} => pc'[q] = pc[q]
  <2>1. CASE Lead(p) \/ Join(p) \/ InnerLocal(p)
    BY <2>1 DEF Lead, Join, InnerLocal, Goto, Reading, TypeInv, TypeOK, reading
  <2>2. CASE Finish(p)
    BY <2>2 DEF Finish, Released, Reading, TypeInv, TypeOK, reading
  <2>3. CASE Return(p)
    BY <2>3 DEF Return, Proceed, Goto, Reading, TypeInv, TypeOK, reading
  <2> QED BY <2>1, <2>2, <2>3
<1> QED BY <1>1, <1>2 DEF Quiet, Bumped, redis, cached, pattern, TypeInv, TypeOK

LEMMA QuietMutation ==
  ASSUME TypeInv, Fencing, NEW p \in Procs,
         \/ ForgetFlight(p) \/ Publish(p) \/ ScanReturns(p) \/ EraseReturns(p)
         \/ \E k \in Keys : ScanDelete(p, k)
  PROVE  Quiet
<1>1. /\ UNCHANGED <<gen, cached, generation>>
      /\ \A k \in Keys : ver'[k] >= ver[k] /\ ver[k] \in Nat
  <2>1. UNCHANGED <<gen, cached, generation>>
    BY DEF ForgetFlight, Publish, ScanReturns, EraseReturns, ScanDelete, reading
  <2>2. ver \in [Keys -> Nat \ {0}]
    BY DEF TypeInv, TypeOK
  <2>3. \/ ver' = ver \/ \E k \in Keys : ver' = [ver EXCEPT ![k] = ver[k] + 1]
        \/ \E keys : ver' = [k \in Keys |-> IF k \in keys THEN ver[k] + 1 ELSE ver[k]]
    BY DEF ForgetFlight, Publish, ScanReturns, DeleteUnseen, EraseReturns, ScanDelete, redis
  <2>4. \A k \in Keys : ver'[k] >= ver[k] /\ ver[k] \in Nat
    BY ONLY <2>2, <2>3
  <2> QED BY <2>1, <2>4
<1>2. pc[p] \in {"forget", "publish", "scan", "erase"}
  BY DEF ForgetFlight, Publish, ScanReturns, EraseReturns, ScanDelete
<1>3. ASSUME NEW q \in Procs
      PROVE  /\ Reading(q)' => Reading(q) /\ pc'[q] = pc[q]
             /\ Reading(q) => key'[q] = key[q] /\ data'[q] = data[q]
  <2>1. CASE ForgetFlight(p) \/ Publish(p) \/ EraseReturns(p)
    <3>1. \E step \in {"idle", "publish", "commit"} : Proceed(p, step)
      BY <2>1 DEF ForgetFlight, Publish, EraseReturns, After
    <3>2. pc' \in [Procs -> Steps] /\ pc[p] \notin {"getWithTTL", "commitRead"}
          /\ pc'[p] \notin {"getWithTTL", "commitRead"}
      BY <3>1, <1>2 DEF Proceed, Goto, TypeInv, TypeOK, Steps
    <3> QED BY <3>1, <3>2 DEF Proceed, Goto, Reading, TypeInv, TypeOK
  <2>2. CASE ScanReturns(p)
    <3>1. pc[p] = "scan" /\ pc' = [pc EXCEPT ![p] = "bump"] /\ UNCHANGED <<key, data, superseded>>
      BY <2>2 DEF ScanReturns, TurnToL1, Goto, reading
    <3>2. pc \in [Procs -> Steps]
      BY DEF TypeInv, TypeOK
    <3> QED BY ONLY <3>1, <3>2, p \in Procs, q \in Procs DEF Reading
  <2>3. CASE \E k \in Keys : ScanDelete(p, k)
    <3>1. UNCHANGED <<pc, key, data, superseded>>
      BY <2>3 DEF ScanDelete, reading
    <3> QED BY ONLY <3>1 DEF Reading
  <2> QED BY <2>1, <2>2, <2>3
<1>4. /\ \A q \in Procs, s \in Shards : Bumped(q, s)' => Bumped(q, s) /\ asof'[q] = asof[q]
      /\ \A q \in Procs, k \in Keys : asof'[q][k] \in {asof[q][k], ver'[k], 0}
  <2>1. CASE ForgetFlight(p) \/ Publish(p)
    BY <2>1, <1>2 DEF ForgetFlight, Publish, After, Proceed, Goto, Bumped, TypeInv, TypeOK, pattern
  <2>2. CASE EraseReturns(p)
    BY <2>2 DEF EraseReturns, After, Proceed, Goto, Bumped, NoVersions, TypeInv, TypeOK
  <2>3. CASE ScanReturns(p)
    BY <2>3 DEF ScanReturns, TurnToL1, Goto, Bumped, TypeInv, TypeOK, Shards
  <2>4. CASE \E k \in Keys : ScanDelete(p, k)
    BY <2>4 DEF ScanDelete, Bumped
  <2> QED BY <2>1, <2>2, <2>3, <2>4
<1> QED BY <1>1, <1>3, <1>4 DEF Quiet, cached

LEMMA QuietClose ==
  ASSUME TypeInv, Fencing, NEW p \in Procs, CloseStep(p)
  PROVE  Quiet
<1>1. UNCHANGED <<redis, gen, cached, pattern, reading>> /\ Proceed(p, "idle")
  BY DEF CloseStep, CloseLocal, CloseAgain
<1>2. pc[p] \in {"close", "drain"}
  BY DEF CloseStep, CloseLocal, CloseAgain
<1>3. /\ pc'[p] = "idle"
      /\ \A q \in Procs \ {p} : pc'[q] = pc[q] /\ key'[q] = key[q] /\ data'[q] = data[q]
  BY <1>1 DEF Proceed, Goto, TypeInv, TypeOK
<1>4. \A k \in Keys : ver[k] \in Nat
  BY DEF TypeInv, TypeOK
<1> QED BY <1>1, <1>2, <1>3, <1>4 DEF Quiet, Reading, Bumped, redis, cached, pattern, reading

LEMMA QuietInvoke ==
  ASSUME TypeInv, Fencing, NEW p \in Clients, Invoke(p)
  PROVE  Quiet
<1>p. p \in Procs
  BY DEF Procs
<1>1. ASSUME NEW k \in Keys,
             GetLocal(p, k) \/ SetRemote(p, k) \/ DeleteRemote(p, k) \/ InvalidateLocal(p, k)
      PROVE  Quiet
  <2>1. /\ UNCHANGED <<gen, cached, generation, pattern>>
        /\ pc[p] = "idle"
    BY <1>1 DEF GetLocal, SetRemote, DeleteRemote, InvalidateLocal, Call, May, reading
  <2>2. \A m \in Keys : ver'[m] >= ver[m]
    <3>1. ver \in [Keys -> Nat \ {0}]
      BY DEF TypeInv, TypeOK
    <3>2. ver' = ver \/ ver' = [ver EXCEPT ![k] = ver[k] + 1]
      BY <1>1 DEF GetLocal, SetRemote, DeleteRemote, InvalidateLocal, redis
    <3> QED BY ONLY <3>1, <3>2, k \in Keys
  <2>3. /\ \A q \in Procs \ {p} : pc'[q] = pc[q] /\ key'[q] = key[q] /\ data'[q] = data[q]
        /\ pc'[p] \in {"return", "do", "forget", "idle", "commit"}
    BY <1>1, <1>p DEF GetLocal, SetRemote, DeleteRemote, InvalidateLocal, Proceed, Goto, TypeInv, TypeOK
  <2> QED BY <2>1, <2>2, <2>3 DEF Quiet, Reading, Bumped, cached, pattern
<1>2. CASE DeletePattern(p) \/ InvalidateLocalPattern(p)
  <2>1. /\ UNCHANGED <<ver, gen, cached, generation, key, data>>
        /\ pc[p] = "idle"
    BY <1>2 DEF DeletePattern, InvalidateLocalPattern, Call, May, reading, redis
  <2>2. /\ \A q \in Procs \ {p} : pc'[q] = pc[q] /\ nextShard'[q] = nextShard[q] /\ asof'[q] = asof[q]
        /\ pc'[p] = "scan" \/ (pc'[p] = "bump" /\ nextShard'[p] = 0)
        /\ \A k \in Keys : asof'[p][k] \in {asof[p][k], ver[k]}
    BY <1>2, <1>p DEF DeletePattern, InvalidateLocalPattern, TurnToL1, Goto, TypeInv, TypeOK
  <2>3. \A k \in Keys : ver[k] \in Nat
    BY DEF TypeInv, TypeOK
  <2> QED BY <2>1, <2>2, <2>3 DEF Quiet, Reading, Bumped, cached, Shards
<1>3. CASE Close(p)
  <2>1. /\ UNCHANGED <<redis, gen, cached, generation, pattern, key, data>>
        /\ pc[p] = "idle"
    BY <1>3 DEF Close, May, reading
  <2>2. /\ \A q \in Procs \ {p} : pc'[q] = pc[q]
        /\ pc'[p] \in {"close", "drain"}
    BY <1>3, <1>p DEF Close, Goto, TypeInv, TypeOK
  <2>3. \A k \in Keys : ver[k] \in Nat
    BY DEF TypeInv, TypeOK
  <2> QED BY <2>1, <2>2, <2>3 DEF Quiet, Reading, Bumped, redis, cached, pattern
<1> QED BY <1>1, <1>2, <1>3 DEF Invoke

LEMMA QuietRest ==
  ASSUME TypeInv, Fencing,
         \/ \E p \in Procs : TimerFires(p)
         \/ \E i \in Subscribed : Listen(i)
         \/ \E i \in Instances, k \in Keys : TimerForgets(i, k) \/ LocalExpire(i, k)
         \/ \E k \in Keys : RemoteExpire(k)
  PROVE  Quiet
<1>0. \A k \in Keys : ver[k] \in Nat
  BY DEF TypeInv, TypeOK
<1>1. CASE \E p \in Procs : TimerFires(p)
  BY <1>0, <1>1 DEF TimerFires, Quiet, Reading, Bumped, redis, cached, pattern
<1>2. ASSUME NEW i \in Subscribed, Listen(i) PROVE Quiet
  <2>1. i \in Procs /\ pc[i] = "idle"
    BY <1>2 DEF Procs, Listen
  <2>2. UNCHANGED <<redis, gen, cached, generation, data>>
    BY <1>2 DEF Listen, reading
  <2>3. /\ \A q \in Procs \ {i} : /\ pc'[q] = pc[q] /\ key'[q] = key[q]
                                  /\ nextShard'[q] = nextShard[q] /\ asof'[q] = asof[q]
        /\ \/ pc'[i] \in {"idle", "commit"}
           \/ pc'[i] = "bump" /\ nextShard'[i] = 0
        /\ \A k \in Keys : asof'[i][k] \in {asof[i][k], ver[k]}
    BY <1>2, <2>1 DEF Listen, TurnToL1, Goto, TypeInv, TypeOK, pattern
  <2> QED BY <1>0, <2>1, <2>2, <2>3 DEF Quiet, Reading, Bumped, redis, cached, Shards
<1>3. CASE \E i \in Instances, k \in Keys : TimerForgets(i, k)
  BY <1>0, <1>3 DEF TimerForgets, Quiet, Reading, Bumped, redis, cached, reading, pattern
<1>4. ASSUME NEW i \in Instances, NEW k \in Keys, LocalExpire(i, k) PROVE Quiet
  BY <1>0, <1>4 DEF LocalExpire, Quiet, Reading, Bumped, redis, reading, pattern, TypeInv, TypeOK
<1>5. CASE \E k \in Keys : RemoteExpire(k)
  BY <1>0, <1>5 DEF RemoteExpire, Quiet, Reading, Bumped, cached, reading, pattern
<1> QED BY <1>1, <1>2, <1>3, <1>4, <1>5

LEMMA FencingInit == Init => Fencing
  BY DEF Init, Fencing, Floors, AsOfs, Generations, FlightsAboveFloor, FlightsAbovePatterns,
         NoResurrection, Reading, NoVersions

\* The generation a flight takes is the guard's, and it has read nothing yet.
LEMMA FencingBegin ==
  ASSUME TypeInv, TypeInv', Fencing, NEW p \in Procs, Begin(p)
  PROVE  Fencing'
<1>1. UNCHANGED <<ver, gen, l1, floor, asof, nextShard, key, data>>
  BY DEF Begin, redis, cached, pattern
<1>2. /\ pc' = [pc EXCEPT ![p] = "getWithTTL"]
      /\ generation' = [generation EXCEPT ![p] = gen[Home(p)][ShardOf[key[p]]]]
      /\ pc[p] = "begin"
  BY DEF Begin, Goto
<1>3. /\ pc'[p] = "getWithTTL" /\ generation'[p] = gen[Home(p)][ShardOf[key[p]]]
      /\ \A q \in Procs \ {p} : pc'[q] = pc[q] /\ generation'[q] = generation[q]
  BY <1>2 DEF TypeInv, TypeOK
<1>4. gen[Home(p)][ShardOf[key[p]]] \in Nat
  BY <1>2, Values DEF TypeInv, Legal, ReadSteps, FlightSteps
<1>5. Generations'
  BY <1>1, <1>3, <1>4 DEF Generations, Fencing, Reading
<1>6. FlightsAboveFloor' /\ FlightsAbovePatterns'
  BY <1>1, <1>3 DEF FlightsAboveFloor, FlightsAbovePatterns, Fencing, Current, Bumped
<1> QED BY <1>1, <1>5, <1>6 DEF Fencing, Floors, AsOfs, NoResurrection

\* What is read from Redis is what Redis has now: no invalidation stands for more.
LEMMA FencingRead ==
  ASSUME TypeInv, TypeInv', Fencing, NEW p \in Procs, GetWithTTL(p)
  PROVE  Fencing'
<1>1. UNCHANGED <<ver, gen, l1, floor, asof, nextShard, key, generation>>
  BY DEF GetWithTTL, redis, cached, pattern, reading
<1>2. pc[p] = "getWithTTL" /\ key[p] \in Keys /\ Home(p) \in Instances
  BY HomeType DEF GetWithTTL, TypeInv, Legal, ReadSteps, FlightSteps
<1>3. /\ pc'[p] \in {"commitRead", "finish"} /\ data'[p] = ver[key[p]]
      /\ \A q \in Procs \ {p} : pc'[q] = pc[q] /\ data'[q] = data[q]
  BY DEF GetWithTTL, Goto, TypeInv, TypeOK
<1>4. Generations'
  BY <1>1, <1>2, <1>3 DEF Generations, Fencing, Reading
<1>5. FlightsAboveFloor'
  BY <1>1, <1>2, <1>3 DEF FlightsAboveFloor, Fencing, Current, Floors
<1>6. FlightsAbovePatterns'
  BY <1>1, <1>2, <1>3 DEF FlightsAbovePatterns, Fencing, Current, AsOfs, Bumped
<1> QED BY <1>1, <1>4, <1>5, <1>6 DEF Fencing, Floors, AsOfs, NoResurrection

\* commitRead fills L1 only if the generation is unchanged, so with nothing
\* older than the last invalidation.
LEMMA FencingCommitRead ==
  ASSUME TypeInv, TypeInv', Fencing, NEW p \in Procs, CommitRead(p)
  PROVE  Fencing'
<1>1. UNCHANGED <<ver, gen, floor, asof, nextShard, key, data, generation>>
  BY DEF CommitRead, redis, pattern, reading
<1>2. pc[p] = "commitRead" /\ key[p] \in Keys /\ Home(p) \in Instances
  BY HomeType DEF CommitRead, TypeInv, Legal, ReadSteps, FlightSteps
<1>3. pc'[p] = "finish" /\ \A q \in Procs \ {p} : pc'[q] = pc[q]
  BY DEF CommitRead, Goto, TypeInv, TypeOK
<1>4. Generations'
  BY <1>1, <1>3 DEF Generations, Fencing, Reading
<1>5. FlightsAboveFloor' /\ FlightsAbovePatterns'
  BY <1>1, <1>3 DEF FlightsAboveFloor, FlightsAbovePatterns, Fencing, Current, Bumped
<1>6. NoResurrection'
  <2>1. CASE l1' = l1
    BY <1>1, <2>1 DEF Fencing, NoResurrection
  <2>2. CASE MayBackfill(p) /\ l1' = [l1 EXCEPT ![Home(p)][key[p]] = data[p]]
    <3>1. data[p] >= floor[Home(p)][key[p]]
      BY <1>2, <2>2 DEF MayBackfill, Fencing, FlightsAboveFloor, Current
    <3>2. l1 \in [Instances -> [Keys -> Nat]]
      BY DEF TypeInv, TypeOK
    <3>3. \A i \in Instances, k \in Keys :
            l1'[i][k] = IF i = Home(p) /\ k = key[p] THEN data[p] ELSE l1[i][k]
      BY ONLY <1>2, <2>2, <3>2
    <3> QED BY <1>1, <3>1, <3>3 DEF Fencing, NoResurrection
  <2> QED BY <2>1, <2>2 DEF CommitRead
<1> QED BY <1>1, <1>4, <1>5, <1>6 DEF Fencing, Floors, AsOfs

\* After a bump of its guard no read that is under way is current.
LEMMA BumpedGuard ==
  ASSUME TypeInv, Generations, NEW i \in Instances, NEW s \in Shards,
         gen' = [gen EXCEPT ![i][s] = gen[i][s] + 1],
         generation' = generation,
         \A q \in Procs : Reading(q)' => Reading(q) /\ key'[q] = key[q]
  PROVE  /\ Generations'
         /\ \A q \in Procs :
              Reading(q)' /\ Current(q)' => /\ Current(q)
                                            /\ ~(Home(q) = i /\ ShardOf[key[q]] = s)
<1>1. gen \in [Instances -> [Shards -> Nat]]
  BY DEF TypeInv, TypeOK
<1>2. \A j \in Instances, t \in Shards :
        /\ gen[j][t] \in Nat
        /\ gen'[j][t] = IF j = i /\ t = s THEN gen[i][s] + 1 ELSE gen[j][t]
  BY ONLY <1>1, gen' = [gen EXCEPT ![i][s] = gen[i][s] + 1], i \in Instances, s \in Shards
<1>3. ASSUME NEW q \in Procs, Reading(q)'
      PROVE  /\ Home(q) \in Instances /\ ShardOf[key[q]] \in Shards
             /\ generation[q] \in Nat
             /\ generation[q] <= gen[Home(q)][ShardOf[key[q]]]
             /\ Reading(q) /\ key'[q] = key[q]
  <2>1. Reading(q) /\ key'[q] = key[q]
    BY <1>3
  <2>2. key[q] \in Keys
    BY <2>1 DEF Reading, TypeInv, Legal, ReadSteps, FlightSteps
  <2>3. generation[q] \in Nat
    BY DEF TypeInv, TypeOK
  <2> QED BY <2>1, <2>2, <2>3, HomeType, ConstantsAssumption DEF Generations
<1>4. Generations'
  BY <1>2, <1>3 DEF Generations
<1> QED BY <1>2, <1>3, <1>4 DEF Current

\* A mutation raises the floor and the generation in one critical section.
LEMMA FencingCommitMutation ==
  ASSUME TypeInv, TypeInv', Fencing, NEW p \in Procs, CommitMutation(p)
  PROVE  Fencing'
<1>1. UNCHANGED <<ver, asof, nextShard, generation>>
  BY DEF CommitMutation, redis, pattern, reading
<1>2. /\ pc[p] = "commit" /\ key[p] \in Keys /\ Home(p) \in Instances
      /\ ShardOf[key[p]] \in Shards
  BY HomeType, ConstantsAssumption DEF CommitMutation, TypeInv, Legal
<1>3. /\ pc'[p] \in {"idle", "forget"}
      /\ \A q \in Procs \ {p} : pc'[q] = pc[q] /\ key'[q] = key[q] /\ data'[q] = data[q]
  <2>1. After(op[p], "commit") \in {"idle", "forget"}
    BY DEF After
  <2>2. Proceed(p, After(op[p], "commit"))
    BY DEF CommitMutation
  <2> QED BY <2>1, <2>2 DEF Proceed, Goto, TypeInv, TypeOK
<1>4. \A q \in Procs : Reading(q)' => /\ q # p /\ Reading(q) /\ pc'[q] = pc[q]
                                      /\ key'[q] = key[q] /\ data'[q] = data[q]
  BY <1>3 DEF Reading
<1>5. gen' = [gen EXCEPT ![Home(p)][ShardOf[key[p]]] = gen[Home(p)][ShardOf[key[p]]] + 1]
  BY DEF CommitMutation
<1>6. /\ Generations'
      /\ \A q \in Procs :
           Reading(q)' /\ Current(q)'
             => Current(q) /\ ~(Home(q) = Home(p) /\ key[q] = key[p])
  BY <1>1, <1>2, <1>4, <1>5, BumpedGuard DEF Fencing
<1>7. /\ \A k \in Keys : ver[k] \in Nat
      /\ \A i \in Instances, k \in Keys :
           \/ l1'[i][k] = l1[i][k] /\ floor'[i][k] = floor[i][k]
           \/ i = Home(p) /\ k = key[p] /\ l1'[i][k] = NoEntry /\ floor'[i][k] = ver[k]
  <2>1. /\ l1 \in [Instances -> [Keys -> Nat]] /\ floor \in [Instances -> [Keys -> Nat]]
        /\ \A k \in Keys : ver[k] \in Nat
    BY DEF TypeInv, TypeOK
  <2>2. \/ l1' = l1 /\ floor' = floor
        \/ /\ l1' = [l1 EXCEPT ![Home(p)][key[p]] = NoEntry]
           /\ floor' = [floor EXCEPT ![Home(p)][key[p]] = ver[key[p]]]
    BY DEF CommitMutation, cached
  <2> QED BY ONLY <2>1, <2>2, <1>2
<1>8. Floors' /\ NoResurrection'
  BY <1>1, <1>7 DEF Fencing, Floors, NoResurrection
<1>9. FlightsAboveFloor'
  <2>1. ASSUME NEW q \in Procs, pc'[q] = "commitRead", Current(q)'
        PROVE  data'[q] >= floor'[Home(q)][key'[q]]
    <3>1. Reading(q)'
      BY <2>1 DEF Reading
    <3>2. /\ pc[q] = "commitRead" /\ Current(q) /\ data'[q] = data[q] /\ key'[q] = key[q]
          /\ ~(Home(q) = Home(p) /\ key[q] = key[p])
      BY <1>4, <1>6, <2>1, <3>1
    <3>3. key[q] \in Keys /\ Home(q) \in Instances
      BY <3>2, HomeType DEF TypeInv, Legal, ReadSteps, FlightSteps
    <3>4. floor'[Home(q)][key[q]] = floor[Home(q)][key[q]]
      BY <1>7, <3>2, <3>3
    <3> QED BY <3>2, <3>4 DEF Fencing, FlightsAboveFloor
  <2> QED BY <2>1 DEF FlightsAboveFloor
<1>10. FlightsAbovePatterns'
  <2>1. ASSUME NEW q \in Procs, NEW r \in Procs, pc'[q] = "commitRead", Current(q)',
               Home(r) = Home(q), Bumped(r, ShardOf[key[q]])'
        PROVE  data'[q] >= asof'[r][key'[q]]
    <3>1. Reading(q)'
      BY <2>1 DEF Reading
    <3>2. pc[q] = "commitRead" /\ Current(q) /\ data'[q] = data[q] /\ key'[q] = key[q]
      BY <1>4, <1>6, <2>1, <3>1
    <3>3. Bumped(r, ShardOf[key[q]])
      BY <1>1, <1>3, <2>1, <3>2 DEF Bumped
    <3> QED BY <1>1, <2>1, <3>2, <3>3 DEF Fencing, FlightsAbovePatterns
  <2> QED BY <2>1, <1>4 DEF FlightsAbovePatterns, Reading
<1> QED BY <1>1, <1>6, <1>8, <1>9, <1>10 DEF Fencing, AsOfs

\* One more guard is bumped: the pattern operation's reading of Redis is now a
\* lower bound for the flights of that shard, and none of them is current.
LEMMA FencingBumpShard ==
  ASSUME TypeInv, TypeInv', Fencing, NEW p \in Procs, BumpShard(p)
  PROVE  Fencing'
<1>1. UNCHANGED <<ver, l1, floor, generation>>
  BY DEF BumpShard, redis, cached, reading
<1>2. /\ pc[p] = "bump" /\ nextShard[p] \in Shards /\ Home(p) \in Instances
      /\ ShardCount \in Nat
  BY HomeType, ConstantsAssumption DEF BumpShard, TypeInv, Legal
<1>3. /\ pc'[p] \in {"idle", "publish", "erase", "bump"}
      /\ \A q \in Procs \ {p} : pc'[q] = pc[q] /\ key'[q] = key[q] /\ data'[q] = data[q]
  <2>1. After(op[p], "erase") \in {"idle", "publish"}
    BY DEF After
  <2>2. \E step \in {"idle", "publish", "erase", "bump"} : Proceed(p, step)
    BY <2>1 DEF BumpShard
  <2>3. PICK step \in {"idle", "publish", "erase", "bump"} : Proceed(p, step)
    BY <2>2
  <2>4. pc'[p] = step /\ \A q \in Procs \ {p} : pc'[q] = pc[q]
    BY <2>3 DEF Proceed, Goto, TypeInv, TypeOK
  <2>5. \A q \in Procs \ {p} : key'[q] = key[q] /\ data'[q] = data[q]
    BY <2>3 DEF Proceed, TypeInv, TypeOK
  <2> QED BY <2>4, <2>5
<1>4. \A q \in Procs : Reading(q)' => /\ q # p /\ Reading(q) /\ pc'[q] = pc[q]
                                      /\ key'[q] = key[q] /\ data'[q] = data[q]
  BY <1>3 DEF Reading
<1>5. gen' = [gen EXCEPT ![Home(p)][nextShard[p]] = gen[Home(p)][nextShard[p]] + 1]
  BY DEF BumpShard
<1>6. /\ Generations'
      /\ \A q \in Procs :
           Reading(q)' /\ Current(q)'
             => Current(q) /\ ~(Home(q) = Home(p) /\ ShardOf[key[q]] = nextShard[p])
  BY <1>1, <1>2, <1>4, <1>5, BumpedGuard DEF Fencing
<1>7. /\ \A q \in Procs : asof'[q] \in {asof[q], NoVersions}
      /\ \A q \in Procs, s \in Shards :
           Bumped(q, s)' => /\ Bumped(q, s) \/ (q = p /\ s = nextShard[p])
                            /\ asof'[q] = asof[q]
  <2>1. /\ \A q \in Procs \ {p} : /\ pc'[q] = pc[q] /\ nextShard'[q] = nextShard[q]
                                  /\ asof'[q] = asof[q]
        /\ asof'[p] \in {asof[p], NoVersions}
    <3>1. asof \in [Procs -> [Keys -> Nat]] /\ nextShard \in [Procs -> Nat]
      BY DEF TypeInv, TypeOK
    <3>2. asof' = asof \/ asof' = [asof EXCEPT ![p] = NoVersions]
      BY DEF BumpShard
    <3>3. PICK s : nextShard' = [nextShard EXCEPT ![p] = s]
      BY DEF BumpShard
    <3> QED BY <1>3, <3>1, <3>2, <3>3
  <2>2. \A q \in Procs \ {p}, s \in Shards : Bumped(q, s)' => Bumped(q, s)
    BY <2>1 DEF Bumped
  <2>3. ASSUME NEW s \in Shards, Bumped(p, s)'
        PROVE  (Bumped(p, s) \/ s = nextShard[p]) /\ asof'[p] = asof[p]
    <3>1. CASE nextShard[p] + 1 = ShardCount
      <4>1. L1Patterns
        <5> SUFFICES ASSUME ~L1Patterns PROVE FALSE
          OBVIOUS
        <5>1. After(op[p], "erase") \in {"idle", "publish"} /\ Proceed(p, After(op[p], "erase"))
          BY <3>1 DEF After, BumpShard
        <5>2. pc'[p] \in {"idle", "publish"}
          BY <5>1 DEF Proceed, Goto, TypeInv, TypeOK
        <5> QED BY <2>3, <5>2 DEF Bumped
      <4>2. s <= nextShard[p] /\ s \in Nat /\ nextShard[p] \in Nat
        BY <1>2, <3>1 DEF Shards
      <4>3. asof' = asof
        BY <3>1, <4>1 DEF BumpShard
      <4> QED BY <1>2, <4>2, <4>3 DEF Bumped
    <3>2. CASE nextShard[p] + 1 # ShardCount
      <4>1. /\ asof' = asof /\ Proceed(p, "bump")
            /\ nextShard' = [nextShard EXCEPT ![p] = nextShard[p] + 1]
        BY <3>2 DEF BumpShard
      <4>2. pc'[p] = "bump" /\ nextShard'[p] = nextShard[p] + 1
        BY <4>1 DEF Proceed, Goto, TypeInv, TypeOK
      <4>3. s < nextShard[p] + 1 /\ s \in Nat /\ nextShard[p] \in Nat
        BY <1>2, <2>3, <4>2 DEF Bumped, Shards
      <4> QED BY <1>2, <4>1, <4>3 DEF Bumped
    <3> QED BY <3>1, <3>2
  <2> QED BY <2>1, <2>2, <2>3
<1>8. AsOfs'
  <2>1. ASSUME NEW q \in Procs, NEW k \in Keys PROVE asof'[q][k] <= ver'[k]
    <3>1. ver[k] \in Nat /\ NoVersions[k] = 0 /\ ver'[k] = ver[k]
      BY <1>1 DEF TypeInv, TypeOK, NoVersions
    <3>2. asof[q][k] <= ver[k]
      BY DEF Fencing, AsOfs
    <3>3. asof'[q] = asof[q] \/ asof'[q] = NoVersions
      BY <1>7
    <3> QED BY ONLY <3>1, <3>2, <3>3
  <2> QED BY <2>1 DEF AsOfs
<1>9. FlightsAboveFloor'
  BY <1>1, <1>4, <1>6 DEF Fencing, FlightsAboveFloor, Reading
<1>10. FlightsAbovePatterns'
  <2>1. ASSUME NEW q \in Procs, NEW r \in Procs, pc'[q] = "commitRead", Current(q)',
               Home(r) = Home(q), Bumped(r, ShardOf[key[q]])'
        PROVE  data'[q] >= asof'[r][key'[q]]
    <3>1. Reading(q)'
      BY <2>1 DEF Reading
    <3>2. /\ pc[q] = "commitRead" /\ Current(q) /\ data'[q] = data[q] /\ key'[q] = key[q]
          /\ ~(Home(q) = Home(p) /\ ShardOf[key[q]] = nextShard[p])
      BY <1>4, <1>6, <2>1, <3>1
    <3>3. ShardOf[key[q]] \in Shards
      BY <3>2, ConstantsAssumption DEF TypeInv, Legal, ReadSteps, FlightSteps
    <3>4. Bumped(r, ShardOf[key[q]]) /\ asof'[r] = asof[r]
      <4>1. \A s \in Shards : Bumped(r, s)' => /\ Bumped(r, s) \/ (r = p /\ s = nextShard[p])
                                               /\ asof'[r] = asof[r]
        BY <1>7
      <4> QED BY <2>1, <3>2, <3>3, <4>1 DEF Bumped
    <3> QED BY <2>1, <3>2, <3>4 DEF Fencing, FlightsAbovePatterns
  <2> QED BY <2>1 DEF FlightsAbovePatterns
<1> QED BY <1>1, <1>6, <1>8, <1>9, <1>10 DEF Fencing, Floors, NoResurrection

\* A key is erased after every guard was bumped: the floor rises to what the
\* pattern operation saw in Redis, which no current flight is below.
LEMMA FencingEraseKey ==
  ASSUME TypeInv, TypeInv', Fencing, NEW p \in Procs, NEW k \in Keys, EraseKey(p, k)
  PROVE  Fencing'
<1>1. UNCHANGED <<ver, gen, asof, nextShard, generation, pc, key, data>>
  BY DEF EraseKey, redis, reading
<1>2. pc[p] = "erase" /\ Home(p) \in Instances
  BY HomeType DEF EraseKey
<1>3. /\ l1 \in [Instances -> [Keys -> Nat]] /\ floor \in [Instances -> [Keys -> Nat]]
      /\ asof[p][k] \in Nat /\ ver[k] \in Nat
  BY DEF TypeInv, TypeOK
<1>4. \A i \in Instances, m \in Keys :
        \/ l1'[i][m] = l1[i][m] /\ floor'[i][m] = floor[i][m]
        \/ /\ i = Home(p) /\ m = k /\ l1'[i][m] = NoEntry
           /\ floor'[i][m] \in {asof[p][k], floor[i][m]}
  <2>1. /\ l1' = [l1 EXCEPT ![Home(p)][k] = NoEntry]
        /\ floor' = [floor EXCEPT ![Home(p)][k] = IF asof[p][k] > floor[Home(p)][k]
                                                    THEN asof[p][k] ELSE floor[Home(p)][k]]
    BY DEF EraseKey
  <2>2. /\ l1'[Home(p)][k] = NoEntry
        /\ floor'[Home(p)][k] \in {asof[p][k], floor[Home(p)][k]}
        /\ \A i \in Instances, m \in Keys :
             ~(i = Home(p) /\ m = k) => l1'[i][m] = l1[i][m] /\ floor'[i][m] = floor[i][m]
    BY ONLY <1>2, <1>3, <2>1, k \in Keys
  <2> QED BY <2>2
<1>5. Floors' /\ NoResurrection'
  BY <1>1, <1>4 DEF Fencing, Floors, AsOfs, NoResurrection
<1>6. FlightsAboveFloor'
  <2>1. ASSUME NEW q \in Procs, pc[q] = "commitRead", Current(q)
        PROVE  data[q] >= floor'[Home(q)][key[q]]
    <3>1. key[q] \in Keys /\ Home(q) \in Instances
      BY <2>1, HomeType DEF TypeInv, Legal, ReadSteps, FlightSteps
    <3>2. data[q] >= floor[Home(q)][key[q]]
      BY <2>1 DEF Fencing, FlightsAboveFloor
    <3>3. Home(q) = Home(p) => data[q] >= asof[p][key[q]]
      BY <1>2, <2>1 DEF Fencing, FlightsAbovePatterns, Bumped
    <3> QED BY <1>4, <3>1, <3>2, <3>3
  <2> QED BY <1>1, <2>1 DEF FlightsAboveFloor, Current
<1>7. Generations' /\ FlightsAbovePatterns' /\ AsOfs'
  BY <1>1 DEF Fencing, Generations, FlightsAbovePatterns, AsOfs, Reading, Current, Bumped
<1> QED BY <1>5, <1>6, <1>7 DEF Fencing

LEMMA FencingStutter == TypeInv /\ Fencing /\ UNCHANGED vars => Fencing'
  BY DEF vars, redis, cached, promised, reading, pattern, Fencing, Floors, AsOfs, Generations,
         FlightsAboveFloor, FlightsAbovePatterns, NoResurrection, Reading, Current, Bumped

LEMMA FencingInvariant == Spec => []Fencing
<1>1. TypeInv /\ TypeInv' /\ Fencing /\ [Next]_vars => Fencing'
  <2> SUFFICES ASSUME TypeInv, TypeInv', Fencing, [Next]_vars PROVE Fencing'
    OBVIOUS
  <2>1. CASE UNCHANGED vars
    BY <2>1, FencingStutter
  <2>2. ASSUME NEW p \in Procs, ReadStep(p) PROVE Fencing'
    BY <2>2, QuietRead, QuietKeeps, FencingBegin, FencingRead, FencingCommitRead DEF ReadStep
  <2>3. ASSUME NEW p \in Procs, MutationStep(p) PROVE Fencing'
    BY <2>3, QuietMutation, QuietKeeps, FencingCommitMutation, FencingBumpShard, FencingEraseKey
       DEF MutationStep
  <2>6. ASSUME NEW p \in Procs, CloseStep(p) PROVE Fencing'
    BY <2>6, QuietClose, QuietKeeps
  <2>4. ASSUME NEW p \in Clients, Invoke(p) PROVE Fencing'
    BY <2>4, QuietInvoke, QuietKeeps
  <2>5. CASE \/ \E p \in Procs : TimerFires(p)
             \/ \E i \in Subscribed : Listen(i)
             \/ \E i \in Instances, k \in Keys : TimerForgets(i, k) \/ LocalExpire(i, k)
             \/ \E k \in Keys : RemoteExpire(k)
    BY <2>5, QuietRest, QuietKeeps
  <2> QED BY <2>1, <2>2, <2>3, <2>4, <2>5, <2>6 DEF Next, Step
<1> QED BY <1>1, FencingInit, TypeInvariant, PTL DEF Spec

\* Whatever the number of instances, goroutines, keys and guard shards, no
\* backfill puts into L1 a value older than the one Redis had when the instance
\* last invalidated the key: commitRead's generation test is enough.
THEOREM FencingHolds == Spec => []NoResurrection
<1>1. Fencing => NoResurrection
  BY DEF Fencing
<1> QED BY <1>1, FencingInvariant, PTL

-----------------------------------------------------------------------------
(* Close.  ClosedIsQuiet is inductive as it stands: only CloseLocal closes a *)
(* store, Publish hands messages to open stores alone, and no step of        *)
(* another process gives an idle listener something to do.                   *)

\* A step of a call under way is no step of a process that is idle.
LEMMA IdleStays ==
  ASSUME TypeInv, NEW p \in Procs, Step(p) \/ TimerFires(p), NEW q \in Procs, pc[q] = "idle"
  PROVE  p # q /\ pc'[q] = "idle"
<1>1. pc[p] # "idle"
  BY DEF Step, ReadStep, MutationStep, CloseStep, Lead, Join, InnerLocal, Begin, GetWithTTL,
     CommitRead, Finish, Return, CommitMutation, ForgetFlight, Publish, ScanDelete, ScanReturns,
     BumpShard, EraseKey, EraseReturns, CloseLocal, CloseAgain, TimerFires, FlightSteps
<1>2. \/ pc' = pc \/ \E step : pc' = [pc EXCEPT ![p] = step]
      \/ pc' = [w \in Procs |-> IF w \in Released(p) THEN "return" ELSE pc[w]]
  <2>1. CASE ReadStep(p) \/ TimerFires(p)
    BY <2>1 DEF ReadStep, Lead, Join, InnerLocal, Begin, GetWithTTL, CommitRead, Finish, Return,
       TimerFires, Goto, Proceed
  <2>2. CASE MutationStep(p)
    BY <2>2 DEF MutationStep, CommitMutation, ForgetFlight, Publish, ScanDelete, ScanReturns,
       BumpShard, EraseKey, EraseReturns, TurnToL1, Goto, Proceed
  <2>3. CASE CloseStep(p)
    BY <2>3 DEF CloseStep, CloseLocal, CloseAgain, Goto, Proceed
  <2> QED BY <2>1, <2>2, <2>3 DEF Step
<1>3. q \notin Released(p)
  BY <1>1 DEF Released
<1> QED BY <1>1, <1>2, <1>3 DEF TypeInv, TypeOK

LEMMA ClosedStays ==
  ASSUME TypeInv, ClosedIsQuiet, [Next]_vars
  PROVE  ClosedIsQuiet'
<1> SUFFICES ASSUME NEW i \in Subscribed, lifecycle'[i] = "closed"
             PROVE  pc'[i] = "idle" /\ inbox'[i] = <<>>
  BY DEF ClosedIsQuiet
<1>1. i \in Procs /\ i \in Instances /\ i \notin Clients
  BY ConstantsAssumption DEF Procs
<1>2. /\ pc \in [Procs -> Steps] /\ inbox \in [Instances -> Seq(Messages)]
      /\ lifecycle \in [Instances -> {"open", "closing", "closed"}]
  BY DEF TypeInv, TypeOK
<1>3. lifecycle[i] = "closed" => pc[i] = "idle" /\ inbox[i] = <<>>
  BY DEF ClosedIsQuiet
<1>4. ASSUME NEW p \in Procs, Step(p) \/ TimerFires(p)
      PROVE  pc'[i] = "idle" /\ inbox'[i] = <<>>
  <2>1. CASE CloseLocal(p) /\ Home(p) = i
    <3>1. pc[i] = "idle" /\ inbox[i] = <<>>
      BY <2>1 DEF CloseLocal, Drained, Receives
    <3> QED BY <1>1, <1>4, <2>1, <3>1, IdleStays DEF CloseLocal
  <2>2. CASE lifecycle[i] = "closed"
    <3>1. inbox'[i] = inbox[i]
      <4>1. CASE Publish(p)
        BY <1>1, <2>2, <4>1 DEF Publish
      <4>2. CASE ~Publish(p)
        BY <1>4, <4>2 DEF Step, ReadStep, MutationStep, CloseStep, Lead, Join, InnerLocal, Begin,
           GetWithTTL, CommitRead, Finish, Return, CommitMutation, ForgetFlight, ScanDelete,
           ScanReturns, BumpShard, EraseKey, EraseReturns, CloseLocal, CloseAgain, TimerFires
      <4> QED BY <4>1, <4>2
    <3> QED BY <1>1, <1>3, <1>4, <2>2, <3>1, IdleStays
  <2>3. lifecycle' = lifecycle \/ CloseLocal(p)
    BY <1>4 DEF Step, ReadStep, MutationStep, CloseStep, Lead, Join, InnerLocal, Begin,
       GetWithTTL, CommitRead, Finish, Return, CommitMutation, ForgetFlight, Publish, ScanDelete,
       ScanReturns, BumpShard, EraseKey, EraseReturns, CloseAgain, TimerFires
  <2>4. CloseLocal(p) => lifecycle' = [lifecycle EXCEPT ![Home(p)] = "closed"]
    BY DEF CloseLocal
  <2> QED BY <1>1, <1>2, <2>1, <2>2, <2>3, <2>4
<1>5. ASSUME NEW p \in Clients, Invoke(p)
      PROVE  pc'[i] = "idle" /\ inbox'[i] = <<>>
  <2>1. \E step : pc' = [pc EXCEPT ![p] = step]
    BY <1>5 DEF Invoke, GetLocal, SetRemote, DeleteRemote, InvalidateLocal, DeletePattern,
       InvalidateLocalPattern, Close, Goto, Proceed, TurnToL1
  <2>2. pc'[i] = pc[i]
    BY <1>1, <1>2, <2>1
  <2>3. CASE Close(p)
    <3>1. \/ UNCHANGED pubsub
          \/ /\ lifecycle' = [lifecycle EXCEPT ![Home(p)] = "closing"]
             /\ \E m : inbox' = [inbox EXCEPT ![Home(p)] = m]
      BY <2>3 DEF Close
    <3> QED BY <1>1, <1>2, <1>3, <2>2, <3>1
  <2>4. CASE ~Close(p)
    BY <1>3, <1>5, <2>2, <2>4 DEF Invoke, GetLocal, SetRemote, DeleteRemote, InvalidateLocal,
       DeletePattern, InvalidateLocalPattern
  <2> QED BY <2>3, <2>4
<1>6. ASSUME NEW j \in Subscribed, Listen(j)
      PROVE  pc'[i] = "idle" /\ inbox'[i] = <<>>
  <2>1. lifecycle' = lifecycle /\ j # i
    BY <1>3, <1>6 DEF Listen, Receives
  <2>2. /\ \/ pc' = pc \/ \E step : pc' = [pc EXCEPT ![j] = step]
        /\ \E m : inbox' = [inbox EXCEPT ![j] = m]
    BY <1>6 DEF Listen, Goto, TurnToL1
  <2> QED BY <1>1, <1>2, <1>3, <2>1, <2>2
<1>7. CASE UNCHANGED <<pc, inbox, lifecycle>>
  BY <1>3, <1>7
<1>8. ASSUME \/ \E j \in Instances, k \in Keys : TimerForgets(j, k) \/ LocalExpire(j, k)
             \/ \E k \in Keys : RemoteExpire(k)
             \/ UNCHANGED vars
      PROVE  UNCHANGED <<pc, inbox, lifecycle>>
  BY <1>8 DEF TimerForgets, LocalExpire, RemoteExpire, vars
<1> QED BY <1>4, <1>5, <1>6, <1>7, <1>8 DEF Next

\* Whatever the number of stores, listeners and messages, closing and publishing
\* in any order leave the listener of a closed store idle and its channel empty:
\* waiting for the done channel is enough for Close to close L1.
THEOREM CloseIsFinal == Spec => []ClosedIsQuiet
<1>1. Init => ClosedIsQuiet
  BY ConstantsAssumption DEF Init, ClosedIsQuiet
<1> QED BY <1>1, ClosedStays, TypeInvariant, PTL DEF Spec

-----------------------------------------------------------------------------
(* The inductive invariant.  A flight that has read holds an answer for     *)
(* everybody who waits for it, and one that is still in the group, which a   *)
(* Get may therefore join, also for everybody who asks from now on.          *)

HasRead(p) == pc[p] \in {"commitRead", "finish"}

\* p leads a flight for key k of instance i.
Leads(p, i, k) == p \in Clients /\ Home(p) = i /\ key[p] = k /\ pc[p] \in FlightSteps

SettledBelowFloor == \A i \in Instances, k \in Keys : settled[i][k] <= floor[i][k]
CopiesBelowRedis == \A i \in Instances, k \in Keys : l1[i][k] <= ver[k]
WantsAreSettled ==
  \A p \in Procs : pc[p] \in ReadSteps => want[p].settled <= settled[Home(p)][key[p]]
AnswersAreWanted ==
  \A p \in Procs :
    HasRead(p) \/ pc[p] = "return" => want[p].settled <= data[p] /\ data[p] <= ver[key[p]]
RegisteredLead ==
  \A c \in Clients, i \in Instances, k \in Keys :
    calls[i][k] = c => Leads(c, i, k) /\ (HasRead(c) => data[c] >= settled[i][k])
WaitersAreLed ==
  \A w \in Procs :
    pc[w] = "wait" =>
      \E c \in Clients, k \in Keys : /\ flight[w] = c /\ key[w] = k /\ Leads(c, Home(w), k)
                                     /\ HasRead(c) => data[c] >= want[w].settled

ReadInv == /\ SettledBelowFloor /\ CopiesBelowRedis /\ WantsAreSettled
           /\ AnswersAreWanted /\ RegisteredLead /\ WaitersAreLed

LEMMA ReadInit == Init => ReadInv
<1> SUFFICES ASSUME Init PROVE ReadInv
  OBVIOUS
<1>1. \A p \in Procs : pc[p] = "idle"
  BY DEF Init
<1>2. \A i \in Instances, k \in Keys : /\ settled[i][k] = 0 /\ floor[i][k] = 0 /\ l1[i][k] = 0
                                       /\ ver[k] = 1 /\ calls[i][k] = NoCall
  BY DEF Init
<1>3. SettledBelowFloor /\ CopiesBelowRedis
  BY <1>2 DEF SettledBelowFloor, CopiesBelowRedis
<1>4. RegisteredLead
  BY <1>2, ConstantsAssumption DEF RegisteredLead
<1>5. WantsAreSettled /\ AnswersAreWanted /\ WaitersAreLed
  BY <1>1 DEF WantsAreSettled, AnswersAreWanted, WaitersAreLed, HasRead, ReadSteps, FlightSteps
<1> QED BY <1>3, <1>4, <1>5 DEF ReadInv

\* Whoever reads has a key, and the state has numbers for it.
LEMMA ReadValues ==
  ASSUME TypeInv, NEW p \in Procs, pc[p] \in ReadSteps
  PROVE  /\ p \in Clients /\ key[p] \in Keys /\ Home(p) \in Instances
         /\ ver[key[p]] \in Nat
         /\ l1[Home(p)][key[p]] \in Nat
         /\ floor[Home(p)][key[p]] \in Nat
         /\ settled[Home(p)][key[p]] \in Nat
         /\ data[p] \in Nat /\ want[p].settled \in Nat
<1>1. p \in Clients /\ key[p] \in Keys
  BY DEF TypeInv, Legal
<1>2. want[p].settled \in Nat
  BY DEF TypeInv, TypeOK
<1> QED BY <1>1, <1>2, Values DEF TypeInv

-----------------------------------------------------------------------------
(* Steps beside the reads *)

\* A step that leaves every read alone, only raises versions and floors, fills
\* nothing into L1, and settles a key only together with forgetting its flight.
Aside ==
  /\ \A q \in Procs : pc[q] \in ReadSteps \/ pc'[q] \in ReadSteps
                        => UNCHANGED <<pc[q], key[q], data[q], want[q], flight[q]>>
  /\ \A k \in Keys : ver'[k] >= ver[k]
  /\ \A i \in Instances, k \in Keys :
       /\ l1'[i][k] \in {l1[i][k], NoEntry} /\ floor'[i][k] >= floor[i][k]
       /\ \/ settled'[i][k] = settled[i][k] /\ calls'[i][k] \in {calls[i][k], NoCall}
          \/ settled'[i][k] = floor[i][k] /\ calls'[i][k] = NoCall

LEMMA AsideKeeps ==
  ASSUME TypeInv, TypeInv', ReadInv, Aside
  PROVE  ReadInv'
<1>1. ASSUME NEW i \in Instances, NEW k \in Keys
      PROVE  /\ ver[k] \in Nat /\ ver'[k] \in Nat /\ l1[i][k] \in Nat
             /\ floor[i][k] \in Nat /\ floor'[i][k] \in Nat
             /\ settled[i][k] \in Nat /\ settled'[i][k] \in Nat
             /\ settled[i][k] <= settled'[i][k] /\ settled'[i][k] <= floor'[i][k]
             /\ l1'[i][k] <= ver'[k]
  <2>1. /\ ver[k] \in Nat /\ ver'[k] \in Nat /\ l1[i][k] \in Nat
        /\ floor[i][k] \in Nat /\ floor'[i][k] \in Nat
        /\ settled[i][k] \in Nat /\ settled'[i][k] \in Nat
    BY DEF TypeInv, TypeOK
  <2>2. settled[i][k] <= floor[i][k] /\ l1[i][k] <= ver[k]
    BY DEF ReadInv, SettledBelowFloor, CopiesBelowRedis
  <2>3. /\ ver'[k] >= ver[k] /\ floor'[i][k] >= floor[i][k]
        /\ l1'[i][k] \in {l1[i][k], 0} /\ settled'[i][k] \in {settled[i][k], floor[i][k]}
    BY DEF Aside
  <2> QED BY ONLY <2>1, <2>2, <2>3
<1>2. SettledBelowFloor' /\ CopiesBelowRedis'
  BY <1>1 DEF SettledBelowFloor, CopiesBelowRedis
<1>3. ASSUME NEW q \in Procs, pc[q] \in ReadSteps \/ pc'[q] \in ReadSteps
      PROVE  /\ UNCHANGED <<pc[q], key[q], data[q], want[q], flight[q]>>
             /\ key[q] \in Keys /\ Home(q) \in Instances
             /\ data[q] \in Nat /\ want[q].settled \in Nat
  BY <1>3, ReadValues DEF Aside
<1>4. WantsAreSettled'
  BY <1>1, <1>3 DEF ReadInv, WantsAreSettled
<1>5. AnswersAreWanted'
  BY <1>1, <1>3 DEF ReadInv, AnswersAreWanted, Aside, HasRead, ReadSteps, FlightSteps
<1>6. ASSUME NEW q \in Clients, NEW i, NEW k, Leads(q, i, k)
      PROVE  Leads(q, i, k)' /\ (HasRead(q)' => HasRead(q) /\ data'[q] = data[q])
  BY <1>3, <1>6 DEF Leads, HasRead, ReadSteps, Procs
<1>7. RegisteredLead'
  <2>1. ASSUME NEW c \in Clients, NEW i \in Instances, NEW k \in Keys, calls'[i][k] = c
        PROVE  calls[i][k] = c /\ settled'[i][k] = settled[i][k]
    BY <2>1, ConstantsAssumption DEF Aside
  <2> QED BY <1>6, <2>1 DEF ReadInv, RegisteredLead
<1>8. WaitersAreLed'
  <2>1. ASSUME NEW w \in Procs, pc'[w] = "wait"
        PROVE  \E c \in Clients, k \in Keys :
                 /\ flight'[w] = c /\ key'[w] = k /\ Leads(c, Home(w), k)'
                 /\ HasRead(c)' => data'[c] >= want'[w].settled
    <3>1. UNCHANGED <<pc[w], key[w], want[w], flight[w]>>
      BY <1>3, <2>1 DEF ReadSteps
    <3>2. PICK c \in Clients, k \in Keys :
                 /\ flight[w] = c /\ key[w] = k /\ Leads(c, Home(w), k)
                 /\ HasRead(c) => data[c] >= want[w].settled
      BY <2>1, <3>1 DEF ReadInv, WaitersAreLed
    <3> QED BY <1>6, <3>1, <3>2
  <2> QED BY <2>1 DEF WaitersAreLed
<1> QED BY <1>2, <1>4, <1>5, <1>7, <1>8 DEF ReadInv

\* A step of p outside the reads changes what p holds, and nobody else.
Elsewhere(p) ==
  /\ pc[p] \notin ReadSteps /\ pc'[p] \notin ReadSteps
  /\ \A q \in Procs \ {p} : UNCHANGED <<pc[q], key[q], data[q]>>
  /\ UNCHANGED <<want, flight>>

LEMMA ProceedElsewhere ==
  ASSUME TypeInv, NEW p \in Procs, pc[p] \notin ReadSteps, NEW step \in Steps \ ReadSteps,
         Proceed(p, step), UNCHANGED <<want, flight>>
  PROVE  Elsewhere(p)
  BY DEF TypeInv, TypeOK, Proceed, Goto, Elsewhere

\* What Redis does to versions.
LEMMA VersionsRise ==
  ASSUME TypeInv,
         \/ ver' = ver \/ \E k \in Keys : ver' = [ver EXCEPT ![k] = ver[k] + 1]
         \/ \E keys : ver' = [k \in Keys |-> IF k \in keys THEN ver[k] + 1 ELSE ver[k]]
  PROVE  \A k \in Keys : ver'[k] >= ver[k]
<1>1. ver \in [Keys -> Nat \ {0}]
  BY DEF TypeInv, TypeOK
<1> QED BY ONLY <1>1, \/ ver' = ver \/ \E k \in Keys : ver' = [ver EXCEPT ![k] = ver[k] + 1]
                      \/ \E keys : ver' = [k \in Keys |-> IF k \in keys THEN ver[k] + 1 ELSE ver[k]]

\* A step of p outside the reads that settles nothing and leaves L1 alone.
LEMMA PlainAside ==
  ASSUME TypeInv, NEW p \in Procs, Elsewhere(p), \A k \in Keys : ver'[k] >= ver[k],
         UNCHANGED <<cached, settled, calls>>
  PROVE  Aside
<1>1. \A i \in Instances, k \in Keys : floor[i][k] \in Nat
  BY DEF TypeInv, TypeOK
<1> QED BY <1>1 DEF Aside, Elsewhere, cached

LEMMA AsideMutation ==
  ASSUME TypeInv, Fencing, NEW p \in Procs, MutationStep(p)
  PROVE  Aside
<1>1. CASE CommitMutation(p)
  <2>1. Elsewhere(p)
    <3>1. After(op[p], "commit") \in {"idle", "forget"}
      BY DEF After
    <3>2. Proceed(p, After(op[p], "commit")) /\ pc[p] = "commit" /\ UNCHANGED <<want, flight>>
      BY <1>1 DEF CommitMutation, reading
    <3> QED BY <3>1, <3>2, ProceedElsewhere DEF ReadSteps, FlightSteps, Steps
  <2>2. key[p] \in Keys /\ Home(p) \in Instances
    BY <1>1, HomeType DEF CommitMutation, TypeInv, Legal
  <2>3. \A i \in Instances, k \in Keys : /\ l1'[i][k] \in {l1[i][k], 0}
                                         /\ floor'[i][k] \in {floor[i][k], ver[k]}
    <3>1. l1 \in [Instances -> [Keys -> Nat]] /\ floor \in [Instances -> [Keys -> Nat]]
      BY DEF TypeInv, TypeOK
    <3>2. \/ l1' = l1 /\ floor' = floor
          \/ /\ l1' = [l1 EXCEPT ![Home(p)][key[p]] = 0]
             /\ floor' = [floor EXCEPT ![Home(p)][key[p]] = ver[key[p]]]
      BY <1>1 DEF CommitMutation, cached
    <3> QED BY ONLY <2>2, <3>1, <3>2
  <2>4. \A i \in Instances, k \in Keys : floor'[i][k] >= floor[i][k] /\ ver[k] \in Nat
    <3>1. \A i \in Instances, k \in Keys : ver[k] \in Nat /\ floor[i][k] \in Nat
      BY DEF TypeInv, TypeOK
    <3>2. \A i \in Instances, k \in Keys : floor[i][k] <= ver[k]
      BY DEF Fencing, Floors
    <3> QED BY ONLY <2>3, <3>1, <3>2
  <2>5. UNCHANGED <<ver, settled, calls>>
    BY <1>1 DEF CommitMutation, redis
  <2>6. \A q \in Procs : pc[q] \in ReadSteps \/ pc'[q] \in ReadSteps
                           => UNCHANGED <<pc[q], key[q], data[q], want[q], flight[q]>>
    BY <2>1 DEF Elsewhere
  <2>7. \A k \in Keys : ver'[k] >= ver[k]
    BY <2>5, VersionsRise
  <2> QED BY ONLY <2>3, <2>4, <2>5, <2>6, <2>7 DEF Aside
<1>2. CASE ForgetFlight(p)
  <2>1. Elsewhere(p)
    <3>1. After(op[p], "forget") \in {"idle", "publish"}
      BY DEF After
    <3>2. Proceed(p, After(op[p], "forget")) /\ pc[p] = "forget" /\ UNCHANGED <<want, flight>>
      BY <1>2 DEF ForgetFlight, reading
    <3> QED BY <3>1, <3>2, ProceedElsewhere DEF ReadSteps, FlightSteps, Steps
  <2>2. key[p] \in Keys /\ Home(p) \in Instances
    BY <1>2, HomeType DEF ForgetFlight, TypeInv, Legal
  <2>3. \A i \in Instances, k \in Keys :
          \/ settled'[i][k] = settled[i][k] /\ calls'[i][k] \in {calls[i][k], NoCall}
          \/ settled'[i][k] = floor[i][k] /\ calls'[i][k] = NoCall
    <3>1. /\ calls \in [Instances -> [Keys -> Clients \cup {NoCall}]]
          /\ settled \in [Instances -> [Keys -> Nat]]
      BY DEF TypeInv, TypeOK
    <3>2. /\ calls' = [calls EXCEPT ![Home(p)] = [calls[Home(p)] EXCEPT ![key[p]] = NoCall]]
          /\ \/ settled' = settled
             \/ settled' = [settled EXCEPT ![Home(p)][key[p]] = floor[Home(p)][key[p]]]
      BY <1>2 DEF ForgetFlight, Forget, Forgotten
    <3> QED BY ONLY <2>2, <3>1, <3>2
  <2>4. UNCHANGED <<redis, cached>> /\ \A k \in Keys : ver[k] \in Nat
    BY <1>2 DEF ForgetFlight, TypeInv, TypeOK
  <2>5. \A i \in Instances, k \in Keys : floor[i][k] \in Nat
    BY DEF TypeInv, TypeOK
  <2> QED BY <2>1, <2>3, <2>4, <2>5 DEF Aside, Elsewhere, redis, cached
<1>3. CASE Publish(p)
  <2>1. After(op[p], "publish") \in {"idle", "commit"}
    BY DEF After
  <2>2. /\ Proceed(p, After(op[p], "publish")) /\ pc[p] = "publish"
        /\ UNCHANGED <<redis, cached, settled, calls, want, flight>>
    BY <1>3 DEF Publish, reading, promised
  <2>3. Elsewhere(p)
    BY <2>1, <2>2, ProceedElsewhere DEF ReadSteps, FlightSteps, Steps
  <2> QED BY <2>2, <2>3, PlainAside, VersionsRise DEF redis
<1>4. CASE \E k \in Keys : ScanDelete(p, k)
  <2>1. /\ pc[p] = "scan" /\ UNCHANGED <<pc, key, data, want, flight, cached, settled, calls>>
        /\ \/ ver' = ver \/ \E k \in Keys : ver' = [ver EXCEPT ![k] = ver[k] + 1]
    BY <1>4 DEF ScanDelete, reading, promised, redis
  <2>2. Elsewhere(p)
    BY <2>1 DEF Elsewhere, ReadSteps, FlightSteps
  <2> QED BY <2>1, <2>2, PlainAside, VersionsRise
<1>5. CASE ScanReturns(p)
  <2>1. /\ pc[p] = "scan" /\ pc' = [pc EXCEPT ![p] = "bump"]
        /\ UNCHANGED <<key, data, want, flight, cached, settled, calls>>
        /\ \/ ver' = ver
           \/ \E keys : ver' = [k \in Keys |-> IF k \in keys THEN ver[k] + 1 ELSE ver[k]]
    BY <1>5 DEF ScanReturns, TurnToL1, Goto, DeleteUnseen, reading, promised, redis
  <2>2. Elsewhere(p)
    BY <2>1 DEF Elsewhere, ReadSteps, FlightSteps, TypeInv, TypeOK
  <2> QED BY <2>1, <2>2, PlainAside, VersionsRise
<1>6. CASE BumpShard(p) \/ EraseReturns(p)
  <2>1. \E step \in {"idle", "publish", "bump", "erase"} : Proceed(p, step)
    <3>1. After(op[p], "erase") \in {"idle", "publish"}
      BY DEF After
    <3> QED BY <1>6, <3>1 DEF BumpShard, EraseReturns
  <2>2. /\ pc[p] \in {"bump", "erase"}
        /\ UNCHANGED <<ver, want, flight, cached, settled, calls>>
    BY <1>6 DEF BumpShard, EraseReturns, reading, promised, redis
  <2>3. Elsewhere(p)
    BY <2>1, <2>2, ProceedElsewhere DEF ReadSteps, FlightSteps, Steps
  <2> QED BY <2>2, <2>3, PlainAside, VersionsRise
<1>7. CASE \E k \in Keys : EraseKey(p, k)
  <2>1. PICK k \in Keys : EraseKey(p, k)
    BY <1>7
  <2>2. \A i \in Instances, m \in Keys : /\ l1'[i][m] \in {l1[i][m], 0}
                                         /\ floor'[i][m] >= floor[i][m]
    <3>1. /\ l1 \in [Instances -> [Keys -> Nat]] /\ floor \in [Instances -> [Keys -> Nat]]
          /\ asof[p][k] \in Nat /\ Home(p) \in Instances
      BY HomeType DEF TypeInv, TypeOK
    <3>2. /\ l1' = [l1 EXCEPT ![Home(p)][k] = 0]
          /\ floor' = [floor EXCEPT ![Home(p)][k] = IF asof[p][k] > floor[Home(p)][k]
                                                      THEN asof[p][k] ELSE floor[Home(p)][k]]
      BY <2>1 DEF EraseKey
    <3> QED BY ONLY <3>1, <3>2, k \in Keys
  <2>3. UNCHANGED <<ver, settled, calls, pc, key, data, want, flight>>
        /\ \A m \in Keys : ver[m] \in Nat
    BY <2>1 DEF EraseKey, reading, promised, redis, TypeInv, TypeOK
  <2> QED BY <2>2, <2>3 DEF Aside
<1> QED BY <1>1, <1>2, <1>3, <1>4, <1>5, <1>6, <1>7 DEF MutationStep

LEMMA AsideInvoke ==
  ASSUME TypeInv, NEW p \in Clients,
         \/ \E k \in Keys : SetRemote(p, k) \/ DeleteRemote(p, k) \/ InvalidateLocal(p, k)
         \/ DeletePattern(p) \/ InvalidateLocalPattern(p) \/ Close(p)
  PROVE  Aside
<1> USE DEF Procs
<1>1. UNCHANGED <<cached, settled, calls, want, flight>>
  BY DEF SetRemote, DeleteRemote, InvalidateLocal, DeletePattern, InvalidateLocalPattern, Close,
         promised, reading
<1>2. pc[p] = "idle"
  BY DEF SetRemote, DeleteRemote, InvalidateLocal, DeletePattern, InvalidateLocalPattern, Close,
         Call, May
<1>3. \/ ver' = ver \/ \E k \in Keys : ver' = [ver EXCEPT ![k] = ver[k] + 1]
  BY DEF SetRemote, DeleteRemote, InvalidateLocal, DeletePattern, InvalidateLocalPattern, Close,
         redis
<1>4. \E step \in {"forget", "commit", "scan", "bump", "drain", "close", "idle"} :
        pc' = [pc EXCEPT ![p] = step]
  BY DEF SetRemote, DeleteRemote, InvalidateLocal, DeletePattern, InvalidateLocalPattern, Close,
         Goto, Proceed, TurnToL1
<1>5. /\ key' = key \/ \E k : key' = [key EXCEPT ![p] = k]
      /\ data' = data \/ \E v : data' = [data EXCEPT ![p] = v]
  BY DEF SetRemote, DeleteRemote, InvalidateLocal, DeletePattern, InvalidateLocalPattern, Close,
         Proceed
<1>6. Elsewhere(p)
  <2>1. /\ pc \in [Procs -> Steps] /\ key \in [Procs -> Keys \cup {NoKey}]
        /\ data \in [Procs -> Nat]
    BY DEF TypeInv, TypeOK
  <2>2. pc'[p] \notin ReadSteps /\ \A q \in Procs \ {p} : pc'[q] = pc[q]
    BY <1>4, <2>1 DEF ReadSteps, FlightSteps
  <2>3. \A q \in Procs \ {p} : key'[q] = key[q] /\ data'[q] = data[q]
    BY <1>5, <2>1
  <2> QED BY <1>1, <1>2, <2>2, <2>3 DEF Elsewhere, ReadSteps, FlightSteps
<1> QED BY <1>1, <1>3, <1>6, PlainAside, VersionsRise

LEMMA AsideClose ==
  ASSUME TypeInv, NEW p \in Procs, CloseStep(p)
  PROVE  Aside
<1>1. /\ Proceed(p, "idle") /\ pc[p] \in {"drain", "close"}
      /\ UNCHANGED <<ver, cached, settled, calls, want, flight>>
  BY DEF CloseStep, CloseLocal, CloseAgain, redis, promised, reading
<1>2. Elsewhere(p)
  BY <1>1, ProceedElsewhere DEF ReadSteps, FlightSteps, Steps
<1> QED BY <1>1, <1>2, PlainAside, VersionsRise

LEMMA AsideRest ==
  ASSUME TypeInv,
         \/ \E p \in Procs : TimerFires(p)
         \/ \E i \in Subscribed : Listen(i)
         \/ \E i \in Instances, k \in Keys : TimerForgets(i, k) \/ LocalExpire(i, k)
         \/ \E k \in Keys : RemoteExpire(k)
         \/ UNCHANGED vars
  PROVE  Aside
<1>1. /\ \A k \in Keys : ver[k] \in Nat
      /\ \A i \in Instances, k \in Keys : floor[i][k] \in Nat
  BY DEF TypeInv, TypeOK
<1>2. CASE \E p \in Procs : TimerFires(p)
  <2>1. PICK p \in Procs : TimerFires(p)
    BY <1>2
  <2>2. UNCHANGED <<ver, l1, floor, settled, pc, key, data, want, flight>>
    BY <2>1 DEF TimerFires, redis, cached, promised
  <2>3. \A i \in Instances, k \in Keys : calls'[i][k] \in {calls[i][k], NoCall}
    <3>1. calls \in [Instances -> [Keys -> Clients \cup {NoCall}]]
      BY DEF TypeInv, TypeOK
    <3>2. \/ calls' = calls
          \/ calls' = [calls EXCEPT ![Home(p)] = [calls[Home(p)] EXCEPT ![key[p]] = NoCall]]
      BY <2>1 DEF TimerFires, Forgotten
    <3> QED BY ONLY <3>1, <3>2
  <2> QED BY ONLY <1>1, <2>2, <2>3 DEF Aside
<1>3. CASE \E i \in Instances, k \in Keys : TimerForgets(i, k)
  <2>1. PICK i \in Instances, k \in Keys : TimerForgets(i, k)
    BY <1>3
  <2>2. UNCHANGED <<ver, l1, floor, settled, pc, key, data, want, flight>>
    BY <2>1 DEF TimerForgets, redis, cached, promised, reading
  <2>3. \A j \in Instances, m \in Keys : calls'[j][m] \in {calls[j][m], NoCall}
    <3>1. calls \in [Instances -> [Keys -> Clients \cup {NoCall}]]
      BY DEF TypeInv, TypeOK
    <3>2. calls' = [calls EXCEPT ![i] = [calls[i] EXCEPT ![k] = NoCall]]
      BY <2>1 DEF TimerForgets, Forget, Forgotten
    <3> QED BY ONLY <3>1, <3>2
  <2> QED BY ONLY <1>1, <2>2, <2>3 DEF Aside
<1>4. CASE \E i \in Instances, k \in Keys : LocalExpire(i, k)
  <2>1. PICK i \in Instances, k \in Keys : LocalExpire(i, k)
    BY <1>4
  <2>2. UNCHANGED <<ver, floor, settled, calls, pc, key, data, want, flight>>
    BY <2>1 DEF LocalExpire, redis, promised, reading
  <2>3. \A j \in Instances, m \in Keys : l1'[j][m] \in {l1[j][m], 0}
    <3>1. l1 \in [Instances -> [Keys -> Nat]] /\ l1' = [l1 EXCEPT ![i][k] = 0]
      BY <2>1 DEF LocalExpire, TypeInv, TypeOK
    <3> QED BY ONLY <3>1
  <2> QED BY ONLY <1>1, <2>2, <2>3 DEF Aside
<1>5. CASE (\E k \in Keys : RemoteExpire(k)) \/ UNCHANGED vars
  <2>1. UNCHANGED <<ver, l1, floor, settled, calls, pc, key, data, want, flight>>
    BY <1>5 DEF RemoteExpire, vars, redis, cached, promised, reading
  <2> QED BY ONLY <1>1, <2>1 DEF Aside
<1>6. CASE \E i \in Subscribed : Listen(i)
  <2>1. PICK i \in Subscribed : Listen(i)
    BY <1>6
  <2>2. i \in Procs /\ pc[i] = "idle" /\ UNCHANGED <<ver, cached, settled, calls, data, want, flight>>
    BY <2>1 DEF Listen, Procs, redis, promised, reading
  <2>3. Elsewhere(i)
    <3>1. pc \in [Procs -> Steps] /\ key \in [Procs -> Keys \cup {NoKey}]
      BY DEF TypeInv, TypeOK
    <3>2. \/ pc' = pc
          \/ \E step \in {"commit", "bump"} : pc' = [pc EXCEPT ![i] = step]
      BY <2>1 DEF Listen, Goto, TurnToL1
    <3>3. key' = key \/ \E k : key' = [key EXCEPT ![i] = k]
      BY <2>1 DEF Listen
    <3>4. pc'[i] \notin ReadSteps /\ \A q \in Procs \ {i} : pc'[q] = pc[q]
      BY <2>2, <3>1, <3>2 DEF ReadSteps, FlightSteps
    <3> QED BY <2>2, <3>1, <3>3, <3>4 DEF Elsewhere, ReadSteps, FlightSteps
  <2> QED BY <2>2, <2>3, PlainAside, VersionsRise
<1> QED BY <1>2, <1>3, <1>4, <1>5, <1>6

-----------------------------------------------------------------------------
(* Steps of a read *)

\* A step of one reader keeps the invariant if it does so for the reader
\* itself: a flight it leads goes on, and its answer does not get worse.
LEMMA ReaderKeeps ==
  ASSUME TypeInv, TypeInv', ReadInv, NEW p \in Clients,
         UNCHANGED <<ver, floor, settled>>, CopiesBelowRedis',
         \A q \in Procs \ {p} : UNCHANGED <<pc[q], key[q], data[q], want[q], flight[q]>>,
         \A i \in Instances, k \in Keys :
           \/ calls'[i][k] = calls[i][k]
           \/ calls'[i][k] = p /\ Leads(p, i, k)' /\ ~HasRead(p)',
         pc'[p] \in ReadSteps => want'[p].settled <= settled[Home(p)][key'[p]],
         HasRead(p)' \/ pc'[p] = "return"
           => want'[p].settled <= data'[p] /\ data'[p] <= ver[key'[p]],
         pc'[p] = "wait" => \E c \in Clients \ {p} : /\ flight'[p] = c
                                                     /\ calls[Home(p)][key'[p]] = c,
         \A i \in Instances, k \in Keys :
           Leads(p, i, k) => /\ Leads(p, i, k)'
                             /\ HasRead(p)' => \/ HasRead(p) /\ data'[p] = data[p]
                                               \/ data'[p] >= floor[i][k]
  PROVE  ReadInv'
<1>1. SettledBelowFloor'
  BY DEF ReadInv, SettledBelowFloor
<1>2. WantsAreSettled'
  BY DEF ReadInv, WantsAreSettled
<1>3. AnswersAreWanted'
  BY DEF ReadInv, AnswersAreWanted, HasRead
<1>4. ASSUME NEW q \in Clients, NEW i \in Instances, NEW k \in Keys, Leads(q, i, k)
      PROVE  /\ Leads(q, i, k)'
             /\ HasRead(q)' => \/ HasRead(q) /\ data'[q] = data[q]
                               \/ data'[q] >= floor[i][k]
  BY <1>4 DEF Leads, HasRead, Procs
<1>5. ASSUME NEW i \in Instances, NEW k \in Keys
      PROVE  floor[i][k] \in Nat /\ settled[i][k] \in Nat /\ settled[i][k] <= floor[i][k]
  BY DEF ReadInv, SettledBelowFloor, TypeInv, TypeOK
<1>6. ASSUME NEW q \in Procs
      PROVE  data[q] \in Nat /\ data'[q] \in Nat /\ want[q].settled \in Nat /\ want'[q].settled \in Nat
  BY DEF TypeInv, TypeOK
<1>7. ASSUME NEW c \in Clients, NEW i \in Instances, NEW k \in Keys, NEW n \in Nat,
             Leads(c, i, k), HasRead(c) => data[c] >= n, n <= settled[i][k], HasRead(c)'
      PROVE  data'[c] >= n
  BY <1>4, <1>5, <1>6, <1>7 DEF Procs
<1>8. RegisteredLead'
  <2>1. ASSUME NEW c \in Clients, NEW i \in Instances, NEW k \in Keys, calls'[i][k] = c
        PROVE  Leads(c, i, k)' /\ (HasRead(c)' => data'[c] >= settled[i][k])
    <3>1. CASE calls[i][k] = c
      <4>1. Leads(c, i, k) /\ (HasRead(c) => data[c] >= settled[i][k])
        BY <3>1 DEF ReadInv, RegisteredLead
      <4> QED BY <1>4, <1>5, <1>7, <4>1
    <3>2. CASE c = p /\ Leads(p, i, k)' /\ ~HasRead(p)'
      BY <3>2
    <3> QED BY <2>1, <3>1, <3>2
  <2> QED BY <2>1 DEF RegisteredLead
<1>9. WaitersAreLed'
  <2>1. ASSUME NEW w \in Procs, pc'[w] = "wait"
        PROVE  \E c \in Clients, k \in Keys :
                 /\ flight'[w] = c /\ key'[w] = k /\ Leads(c, Home(w), k)'
                 /\ HasRead(c)' => data'[c] >= want'[w].settled
    <3>1. PICK k \in Keys : k = key'[w]
      BY <2>1 DEF TypeInv, Legal, ReadSteps
    <3>2. /\ Home(w) \in Instances /\ want'[w].settled \in Nat
          /\ want'[w].settled <= settled[Home(w)][k]
      BY <1>2, <1>6, <2>1, <3>1, HomeType DEF WantsAreSettled, ReadSteps
    <3>3. PICK c \in Clients : /\ flight'[w] = c /\ Leads(c, Home(w), k)
                               /\ HasRead(c) => data[c] >= want'[w].settled
      <4>1. CASE w = p
        <5>1. PICK c \in Clients : flight'[w] = c /\ calls[Home(w)][k] = c
          BY <2>1, <3>1, <4>1
        <5>2. Leads(c, Home(w), k) /\ (HasRead(c) => data[c] >= settled[Home(w)][k])
          BY <3>2, <5>1 DEF ReadInv, RegisteredLead
        <5>3. HasRead(c) => data[c] >= want'[w].settled
          BY <1>5, <1>6, <3>2, <5>2 DEF Procs
        <5> QED BY <5>1, <5>2, <5>3
      <4>2. CASE w # p
        <5>1. UNCHANGED <<pc[w], key[w], want[w], flight[w]>>
          BY <4>2
        <5> QED BY <2>1, <3>1, <5>1 DEF ReadInv, WaitersAreLed
      <4> QED BY <4>1, <4>2
    <3>4. Leads(c, Home(w), k)' /\ (HasRead(c)' => data'[c] >= want'[w].settled)
      BY <1>4, <1>7, <3>2, <3>3
    <3> QED BY <3>1, <3>3, <3>4
  <2> QED BY <2>1 DEF WaitersAreLed
<1> QED BY <1>1, <1>2, <1>3, <1>8, <1>9 DEF ReadInv

LEMMA GetLocalKeeps ==
  ASSUME TypeInv, TypeInv', Fencing, ReadInv, NEW p \in Clients, NEW k \in Keys, GetLocal(p, k)
  PROVE  ReadInv'
<1> DEFINE i == Home(p)
<1>1. /\ i \in Instances /\ p \in Procs /\ pc[p] = "idle" /\ ver[k] \in Nat
      /\ l1[i][k] \in Nat /\ floor[i][k] \in Nat /\ settled[i][k] \in Nat
  BY Values DEF GetLocal, May, Procs, TypeInv
<1>2. UNCHANGED <<ver, l1, floor, settled, calls, flight>>
  BY DEF GetLocal, redis, cached, promised
<1>3. /\ pc \in [Procs -> Steps] /\ key \in [Procs -> Keys \cup {NoKey}] /\ data \in [Procs -> Nat]
      /\ want \in [Procs -> [settled : Nat, written : Nat]]
  BY DEF TypeInv, TypeOK
<1>4. /\ key' = [key EXCEPT ![p] = k]
      /\ want' = [want EXCEPT ![p] = [settled |-> settled[i][k], written |-> written[i][k]]]
      /\ \/ /\ l1[i][k] # 0
            /\ data' = [data EXCEPT ![p] = l1[i][k]] /\ pc' = [pc EXCEPT ![p] = "return"]
         \/ data' = data /\ pc' = [pc EXCEPT ![p] = "do"]
  BY DEF GetLocal, Goto
<1>5. \A q \in Procs \ {p} : UNCHANGED <<pc[q], key[q], data[q], want[q], flight[q]>>
  BY ONLY <1>2, <1>3, <1>4
<1>6. /\ key'[p] = k /\ want'[p].settled = settled[i][k]
      /\ \/ pc'[p] = "return" /\ data'[p] = l1[i][k] /\ l1[i][k] # 0
         \/ pc'[p] = "do"
  BY ONLY <1>1, <1>3, <1>4
<1>7. settled[i][k] <= floor[i][k] /\ l1[i][k] <= ver[k] /\ (l1[i][k] # 0 => floor[i][k] <= l1[i][k])
  BY <1>1 DEF ReadInv, SettledBelowFloor, CopiesBelowRedis, Fencing, NoResurrection
<1>8. ~HasRead(p)'
  BY <1>6 DEF HasRead
<1>9. HasRead(p)' \/ pc'[p] = "return" => want'[p].settled <= data'[p] /\ data'[p] <= ver[key'[p]]
  BY ONLY <1>1, <1>6, <1>7, <1>8
<1>10. CopiesBelowRedis'
  BY <1>2 DEF ReadInv, CopiesBelowRedis
<1>11. want'[p].settled <= settled[Home(p)][key'[p]]
  BY <1>1, <1>6
<1>12. \A j, m : ~Leads(p, j, m)
  BY <1>1 DEF Leads, FlightSteps
<1>13. pc'[p] # "wait"
  BY <1>6
<1> HIDE DEF i
<1> QED BY <1>2, <1>5, <1>9, <1>10, <1>11, <1>12, <1>13, ReaderKeeps

\* Where a step of p leaves p, when it moves nothing but p's pc.
LEMMA MovesOn ==
  ASSUME TypeInv, NEW p \in Procs, NEW step \in Steps, Goto(p, step)
  PROVE  pc'[p] = step /\ \A q \in Procs \ {p} : pc'[q] = pc[q]
  BY DEF TypeInv, TypeOK, Goto

LEMMA LeadKeeps ==
  ASSUME TypeInv, TypeInv', ReadInv, NEW p \in Procs, Lead(p)
  PROVE  ReadInv'
<1>1. /\ p \in Clients /\ key[p] \in Keys /\ Home(p) \in Instances
      /\ want[p].settled <= settled[Home(p)][key[p]]
  BY ReadValues DEF Lead, ReadInv, WantsAreSettled, ReadSteps
<1>2. /\ UNCHANGED <<ver, l1, floor, settled, key, data, want, flight>>
      /\ pc[p] = "do" /\ pc'[p] = "inner" /\ \A q \in Procs \ {p} : pc'[q] = pc[q]
  BY MovesOn DEF Lead, redis, cached, promised, Steps, FlightSteps
<1>3. \A j \in Instances, m \in Keys :
        \/ calls'[j][m] = calls[j][m]
        \/ calls'[j][m] = p /\ j = Home(p) /\ m = key[p]
  <2>1. /\ calls \in [Instances -> [Keys -> Clients \cup {NoCall}]]
        /\ calls' = [calls EXCEPT ![Home(p)] = [calls[Home(p)] EXCEPT ![key[p]] = p]]
    BY DEF TypeInv, TypeOK, Lead, Registered
  <2> QED BY ONLY <1>1, <2>1
<1>4. \A j \in Instances, m \in Keys :
        \/ calls'[j][m] = calls[j][m]
        \/ calls'[j][m] = p /\ Leads(p, j, m)' /\ ~HasRead(p)'
  BY <1>1, <1>2, <1>3 DEF Leads, HasRead, FlightSteps
<1>5. CopiesBelowRedis'
  BY <1>2 DEF ReadInv, CopiesBelowRedis
<1>6. \A j, m : ~Leads(p, j, m)
  BY <1>2 DEF Leads, FlightSteps
<1>7. ~HasRead(p)' /\ pc'[p] # "return" /\ pc'[p] # "wait"
  BY <1>2 DEF HasRead
<1> QED BY <1>1, <1>2, <1>4, <1>5, <1>6, <1>7, ReaderKeeps

LEMMA JoinKeeps ==
  ASSUME TypeInv, TypeInv', ReadInv, NEW p \in Procs, Join(p)
  PROVE  ReadInv'
<1>1. /\ p \in Clients /\ key[p] \in Keys /\ Home(p) \in Instances
      /\ want[p].settled <= settled[Home(p)][key[p]]
  BY ReadValues DEF Join, ReadInv, WantsAreSettled, ReadSteps
<1>2. /\ UNCHANGED <<ver, l1, floor, settled, calls, key, data, want>>
      /\ pc[p] = "do" /\ pc'[p] = "wait" /\ \A q \in Procs \ {p} : pc'[q] = pc[q]
  BY MovesOn DEF Join, redis, cached, promised, Steps, FlightSteps
<1>3. /\ flight'[p] = calls[Home(p)][key[p]] /\ calls[Home(p)][key[p]] \in Clients
      /\ \A q \in Procs \ {p} : flight'[q] = flight[q]
  <2>1. /\ flight \in [Procs -> Clients \cup {NoCall}]
        /\ flight' = [flight EXCEPT ![p] = calls[Home(p)][key[p]]]
        /\ calls[Home(p)][key[p]] \in Clients \cup {NoCall} /\ calls[Home(p)][key[p]] # NoCall
    BY <1>1, Values DEF TypeInv, TypeOK, Join, InFlight
  <2> QED BY <2>1
<1>4. calls[Home(p)][key[p]] # p
  BY <1>1, <1>2 DEF ReadInv, RegisteredLead, Leads, FlightSteps
<1>5. CopiesBelowRedis'
  BY <1>2 DEF ReadInv, CopiesBelowRedis
<1>6. \A j, m : ~Leads(p, j, m)
  BY <1>2 DEF Leads, FlightSteps
<1>7. ~HasRead(p)' /\ pc'[p] # "return"
  BY <1>2 DEF HasRead
<1> QED BY <1>1, <1>2, <1>3, <1>4, <1>5, <1>6, <1>7, ReaderKeeps

\* A step inside a flight keeps the invariant if what it reads for the flight
\* is no older than the last invalidation of the key.
LEMMA FlightKeeps ==
  ASSUME TypeInv, TypeInv', ReadInv, NEW p \in Procs, CopiesBelowRedis',
         UNCHANGED <<ver, floor, settled, calls, key, want, flight>>,
         \A q \in Procs \ {p} : UNCHANGED <<pc[q], data[q]>>,
         pc[p] \in FlightSteps, pc'[p] \in FlightSteps,
         HasRead(p)' => \/ HasRead(p) /\ data'[p] = data[p]
                        \/ floor[Home(p)][key[p]] <= data'[p] /\ data'[p] <= ver[key[p]]
  PROVE  ReadInv'
<1>1. /\ p \in Clients /\ key[p] \in Keys /\ Home(p) \in Instances
      /\ floor[Home(p)][key[p]] \in Nat /\ settled[Home(p)][key[p]] \in Nat
      /\ want[p].settled \in Nat /\ data'[p] \in Nat
      /\ want[p].settled <= settled[Home(p)][key[p]]
      /\ settled[Home(p)][key[p]] <= floor[Home(p)][key[p]]
  BY ReadValues DEF ReadInv, WantsAreSettled, SettledBelowFloor, ReadSteps, TypeInv, TypeOK
<1>2. HasRead(p) => want[p].settled <= data[p] /\ data[p] <= ver[key[p]]
  BY DEF ReadInv, AnswersAreWanted
<1>3. HasRead(p)' => want[p].settled <= data'[p] /\ data'[p] <= ver[key[p]]
  BY <1>1, <1>2
<1>4. pc'[p] # "return" /\ pc'[p] # "wait"
  BY DEF FlightSteps
<1>5. \A j \in Instances, m \in Keys :
         Leads(p, j, m) => /\ Leads(p, j, m)'
                           /\ HasRead(p)' => \/ HasRead(p) /\ data'[p] = data[p]
                                             \/ data'[p] >= floor[j][m]
  BY <1>1 DEF Leads
<1> QED BY <1>1, <1>3, <1>4, <1>5, ReaderKeeps

LEMMA InFlightKeeps ==
  ASSUME TypeInv, TypeInv', Fencing, ReadInv, NEW p \in Procs,
         InnerLocal(p) \/ Begin(p) \/ GetWithTTL(p) \/ CommitRead(p)
  PROVE  ReadInv'
<1>1. pc[p] \in {"inner", "begin", "getWithTTL", "commitRead"}
  BY DEF InnerLocal, Begin, GetWithTTL, CommitRead
<1>2. /\ p \in Clients /\ key[p] \in Keys /\ Home(p) \in Instances
      /\ ver[key[p]] \in Nat /\ l1[Home(p)][key[p]] \in Nat /\ floor[Home(p)][key[p]] \in Nat
      /\ data[p] \in Nat
  BY <1>1, ReadValues DEF ReadSteps, FlightSteps
<1>3. UNCHANGED <<ver, floor, settled, calls, key, want, flight>>
  BY DEF InnerLocal, Begin, GetWithTTL, CommitRead, redis, cached, promised, reading
<1>4. \E step \in {"begin", "getWithTTL", "commitRead", "finish"} : Goto(p, step)
  BY DEF InnerLocal, Begin, GetWithTTL, CommitRead
<1>5. pc'[p] \in {"begin", "getWithTTL", "commitRead", "finish"} /\ \A q \in Procs \ {p} : pc'[q] = pc[q]
  BY <1>4, MovesOn DEF Steps, FlightSteps
<1>6. \A q \in Procs \ {p} : data'[q] = data[q]
  BY DEF InnerLocal, Begin, GetWithTTL, CommitRead, TypeInv, TypeOK
<1>7. pc[p] \in FlightSteps /\ pc'[p] \in FlightSteps
  BY <1>1, <1>5 DEF FlightSteps
<1>8. CopiesBelowRedis'
  <2>1. CASE CommitRead(p)
    <3>1. data[p] <= ver[key[p]]
      BY <2>1 DEF CommitRead, ReadInv, AnswersAreWanted, HasRead
    <3>2. /\ l1 \in [Instances -> [Keys -> Nat]]
          /\ l1' = l1 \/ l1' = [l1 EXCEPT ![Home(p)][key[p]] = data[p]]
      BY <2>1 DEF CommitRead, TypeInv, TypeOK
    <3>3. \A i \in Instances, k \in Keys : \/ l1'[i][k] = l1[i][k]
                                           \/ k = key[p] /\ l1'[i][k] = data[p]
      BY ONLY <1>2, <3>2
    <3> QED BY <1>3, <3>1, <3>3 DEF ReadInv, CopiesBelowRedis
  <2>2. CASE InnerLocal(p) \/ Begin(p) \/ GetWithTTL(p)
    BY <1>3, <2>2 DEF InnerLocal, Begin, GetWithTTL, cached, ReadInv, CopiesBelowRedis
  <2> QED BY <2>1, <2>2
<1>9. HasRead(p)' => \/ HasRead(p) /\ data'[p] = data[p]
                     \/ floor[Home(p)][key[p]] <= data'[p] /\ data'[p] <= ver[key[p]]
  <2>1. floor[Home(p)][key[p]] <= ver[key[p]] /\ l1[Home(p)][key[p]] <= ver[key[p]]
    BY <1>2 DEF Fencing, Floors, ReadInv, CopiesBelowRedis
  <2>2. CASE InnerLocal(p)
    <3>1. CASE l1[Home(p)][key[p]] # 0 /\ data' = [data EXCEPT ![p] = l1[Home(p)][key[p]]]
      <4>1. data'[p] = l1[Home(p)][key[p]]
        BY <3>1 DEF TypeInv, TypeOK
      <4>2. floor[Home(p)][key[p]] <= l1[Home(p)][key[p]]
        BY <1>2, <3>1 DEF Fencing, NoResurrection
      <4> QED BY <2>1, <4>1, <4>2
    <3>2. CASE Goto(p, "begin")
      <4>1. pc'[p] = "begin"
        BY <3>2, MovesOn DEF Steps, FlightSteps
      <4> QED BY <4>1 DEF HasRead
    <3> QED BY <2>2, <3>1, <3>2 DEF InnerLocal
  <2>3. CASE Begin(p)
    <3>1. pc'[p] = "getWithTTL"
      BY <2>3, MovesOn DEF Begin, Steps, FlightSteps
    <3> QED BY <3>1 DEF HasRead
  <2>4. CASE GetWithTTL(p)
    <3>1. data'[p] = ver[key[p]]
      BY <2>4 DEF GetWithTTL, TypeInv, TypeOK
    <3> QED BY <1>2, <2>1, <3>1
  <2>5. CASE CommitRead(p)
    BY <2>5 DEF CommitRead, HasRead
  <2> QED BY <2>2, <2>3, <2>4, <2>5
<1> QED BY <1>3, <1>5, <1>6, <1>7, <1>8, <1>9, FlightKeeps

LEMMA ReturnKeeps ==
  ASSUME TypeInv, TypeInv', ReadInv, NEW p \in Procs, Return(p)
  PROVE  ReadInv'
<1>1. pc[p] = "return" /\ p \in Clients
  BY DEF Return, TypeInv, Legal, ReadSteps
<1>2. UNCHANGED <<ver, l1, floor, settled, calls>>
  BY DEF Return, redis, cached, promised
<1>3. /\ pc' = [pc EXCEPT ![p] = "idle"] /\ key' = [key EXCEPT ![p] = NoKey]
      /\ data' = [data EXCEPT ![p] = 0] /\ want' = [want EXCEPT ![p] = NoWant]
      /\ flight' = [flight EXCEPT ![p] = NoCall]
  BY DEF Return, Proceed, Goto
<1>4. pc'[p] = "idle" /\ \A q \in Procs \ {p} : UNCHANGED <<pc[q], key[q], data[q], want[q], flight[q]>>
  BY <1>3 DEF TypeInv, TypeOK
<1>5. CopiesBelowRedis'
  BY <1>2 DEF ReadInv, CopiesBelowRedis
<1>6. \A j, m : ~Leads(p, j, m)
  BY <1>1 DEF Leads, FlightSteps
<1>7. pc'[p] \notin ReadSteps /\ ~HasRead(p)'
  BY <1>4 DEF HasRead, ReadSteps, FlightSteps
<1>8. pc'[p] # "return" /\ pc'[p] # "wait"
  BY <1>4
<1> QED BY <1>1, <1>2, <1>4, <1>5, <1>6, <1>7, <1>8, ReaderKeeps

\* Whoever waits for p has p's key, and p's answer is good enough for it.
LEMMA ReleasedTogether ==
  ASSUME TypeInv, ReadInv, NEW p \in Procs, pc[p] = "finish", NEW w \in Released(p)
  PROVE  /\ w \in Clients /\ Home(w) = Home(p) /\ key[w] = key[p] /\ key[p] \in Keys
         /\ pc[w] \in {"wait", "finish"}
         /\ want[w].settled <= data[p] /\ data[p] <= ver[key[p]]
<1>1. w \in Procs /\ (w = p \/ (pc[w] = "wait" /\ flight[w] = p))
  BY DEF Released
<1>2. HasRead(p) /\ want[p].settled <= data[p] /\ data[p] <= ver[key[p]]
  BY DEF HasRead, ReadInv, AnswersAreWanted
<1>3. p \in Clients /\ key[p] \in Keys
  BY DEF TypeInv, Legal, ReadSteps, FlightSteps
<1>4. CASE w = p
  BY <1>2, <1>3, <1>4
<1>5. CASE w # p
  <2>1. PICK k \in Keys : /\ key[w] = k /\ Leads(p, Home(w), k)
                          /\ HasRead(p) => data[p] >= want[w].settled
    BY <1>1, <1>5 DEF ReadInv, WaitersAreLed
  <2>2. Home(p) = Home(w) /\ key[p] = k
    BY <2>1 DEF Leads
  <2>3. want[w].settled \in Nat /\ data[p] \in Nat
    BY <1>1 DEF TypeInv, TypeOK
  <2>4. w \in Clients
    BY <1>1, <1>5 DEF TypeInv, Legal, ReadSteps
  <2> QED BY <1>1, <1>2, <1>3, <1>5, <2>1, <2>2, <2>3, <2>4
<1> QED BY <1>4, <1>5

LEMMA FinishKeeps ==
  ASSUME TypeInv, ReadInv, NEW p \in Procs, Finish(p)
  PROVE  ReadInv'
<1>1. /\ pc[p] = "finish" /\ p \in Released(p) /\ Home(p) \in Instances
      /\ UNCHANGED <<ver, l1, floor, settled, key, want, flight>>
  BY HomeType DEF Finish, Released, redis, cached, promised, reading
<1>2. /\ \A w \in Released(p) : pc'[w] = "return" /\ data'[w] = data[p]
      /\ \A w \in Procs \ Released(p) : pc'[w] = pc[w] /\ data'[w] = data[w]
  BY DEF Finish, Released
<1>3. ASSUME NEW w \in Released(p)
      PROVE  /\ w \in Procs /\ key[w] = key[p] /\ key[p] \in Keys /\ Home(w) = Home(p)
             /\ pc[w] \in {"wait", "finish"}
             /\ want[w].settled <= data[p] /\ data[p] <= ver[key[p]]
  BY <1>1, ReleasedTogether DEF Procs
<1>4. SettledBelowFloor' /\ CopiesBelowRedis'
  BY <1>1 DEF ReadInv, SettledBelowFloor, CopiesBelowRedis
<1>5. WantsAreSettled'
  <2>1. ASSUME NEW q \in Procs, pc'[q] \in ReadSteps
        PROVE  pc[q] \in ReadSteps
    BY <1>2, <1>3, <2>1 DEF ReadSteps, FlightSteps
  <2> QED BY <1>1, <2>1 DEF ReadInv, WantsAreSettled
<1>6. AnswersAreWanted'
  <2>1. ASSUME NEW q \in Procs, HasRead(q)' \/ pc'[q] = "return"
        PROVE  want[q].settled <= data'[q] /\ data'[q] <= ver[key[q]]
    <3>1. CASE q \in Released(p)
      BY <1>2, <1>3, <3>1
    <3>2. CASE q \notin Released(p)
      BY <1>2, <2>1, <3>2 DEF ReadInv, AnswersAreWanted, HasRead
    <3> QED BY <3>1, <3>2
  <2> QED BY <1>1, <2>1 DEF AnswersAreWanted
<1>7. ASSUME NEW c \in Clients, NEW i \in Instances, NEW k \in Keys, Leads(c, i, k), c # p
      PROVE  Leads(c, i, k)' /\ (HasRead(c)' => HasRead(c) /\ data'[c] = data[c])
  <2>1. c \in Procs \ Released(p)
    BY <1>7 DEF Leads, Released, FlightSteps, Procs
  <2> QED BY <1>1, <1>2, <1>7, <2>1 DEF Leads, HasRead
<1>8. RegisteredLead'
  <2>1. ASSUME NEW c \in Clients, NEW i \in Instances, NEW k \in Keys, calls'[i][k] = c
        PROVE  calls[i][k] = c /\ c # p
    <3>1. /\ calls \in [Instances -> [Keys -> Clients \cup {NoCall}]] /\ key[p] \in Keys
          /\ calls' = [calls EXCEPT ![Home(p)] = IF calls[Home(p)][key[p]] = p
                                                   THEN [calls[Home(p)] EXCEPT ![key[p]] = NoCall]
                                                   ELSE calls[Home(p)]]
      BY <1>1, <1>3 DEF TypeInv, TypeOK, Finish, Finished, Forgotten
    <3>2. c # NoCall
      BY ConstantsAssumption
    <3>3. calls[i][k] = c
      BY ONLY <1>1, <2>1, <3>1, <3>2
    <3>4. CASE c = p
      <4>1. i = Home(p) /\ k = key[p]
        BY <3>3, <3>4 DEF ReadInv, RegisteredLead, Leads
      <4> QED BY ONLY <1>1, <2>1, <3>1, <3>2, <3>3, <3>4, <4>1
    <3> QED BY <3>3, <3>4
  <2>2. ASSUME NEW c \in Clients, NEW i \in Instances, NEW k \in Keys, calls'[i][k] = c
        PROVE  Leads(c, i, k)' /\ (HasRead(c)' => data'[c] >= settled[i][k])
    <3>1. calls[i][k] = c /\ c # p
      BY <2>1, <2>2
    <3>2. Leads(c, i, k) /\ (HasRead(c) => data[c] >= settled[i][k])
      BY <3>1 DEF ReadInv, RegisteredLead
    <3> QED BY <1>7, <3>1, <3>2
  <2> QED BY <1>1, <2>2 DEF RegisteredLead
<1>9. WaitersAreLed'
  <2>1. ASSUME NEW w \in Procs, pc'[w] = "wait"
        PROVE  \E c \in Clients, k \in Keys :
                 /\ flight[w] = c /\ key[w] = k /\ Leads(c, Home(w), k)'
                 /\ HasRead(c)' => data'[c] >= want[w].settled
    <3>1. w \notin Released(p) /\ pc[w] = "wait"
      BY <1>2, <2>1
    <3>2. PICK c \in Clients, k \in Keys :
                 /\ flight[w] = c /\ key[w] = k /\ Leads(c, Home(w), k)
                 /\ HasRead(c) => data[c] >= want[w].settled
      BY <3>1 DEF ReadInv, WaitersAreLed
    <3>3. c # p /\ Home(w) \in Instances
      BY <3>1, <3>2, HomeType DEF Released
    <3> QED BY <1>7, <3>2, <3>3
  <2> QED BY <1>1, <2>1 DEF WaitersAreLed
<1> QED BY <1>4, <1>5, <1>6, <1>8, <1>9 DEF ReadInv

LEMMA ReadInvariant == Spec => []ReadInv
<1>1. ReadInv /\ TypeInv /\ TypeInv' /\ Fencing /\ [Next]_vars => ReadInv'
  <2> SUFFICES ASSUME ReadInv, TypeInv, TypeInv', Fencing, [Next]_vars PROVE ReadInv'
    OBVIOUS
  <2>1. ASSUME NEW p \in Procs, ReadStep(p) PROVE ReadInv'
    BY <2>1, LeadKeeps, JoinKeeps, InFlightKeeps, FinishKeeps, ReturnKeeps DEF ReadStep
  <2>2. ASSUME NEW p \in Clients, NEW k \in Keys, GetLocal(p, k) PROVE ReadInv'
    BY <2>2, GetLocalKeeps
  <2>3. Aside => ReadInv'
    BY AsideKeeps
  <2>4. ASSUME NEW p \in Procs, MutationStep(p) \/ CloseStep(p) PROVE Aside
    BY <2>4, AsideMutation, AsideClose
  <2>5. ASSUME NEW p \in Clients, Invoke(p), ~\E k \in Keys : GetLocal(p, k) PROVE Aside
    BY <2>5, AsideInvoke DEF Invoke
  <2> QED BY <2>1, <2>2, <2>3, <2>4, <2>5, AsideRest DEF Next, Step
<1> QED BY <1>1, ReadInit, TypeInvariant, FencingInvariant, PTL DEF Spec

\* Whatever the number of instances, goroutines and keys, a Get that starts when
\* an invalidation is over returns nothing older than it: neither L1, nor the
\* flight the Get leads, nor the one it joins has an older answer.
THEOREM InvalidationsAreSeen == Spec => []ReadsAfterInvalidation
<1>1. ReadInv /\ TypeInv => ReadsAfterInvalidation
  <2> SUFFICES ASSUME ReadInv, TypeInv, NEW p \in Procs, pc[p] = "return"
               PROVE  data[p] >= want[p].settled
    BY DEF ReadsAfterInvalidation
  <2>1. want[p].settled <= data[p] /\ want[p].settled \in Nat /\ data[p] \in Nat
    BY DEF ReadInv, AnswersAreWanted, TypeInv, TypeOK
  <2> QED BY <2>1
<1> QED BY <1>1, ReadInvariant, TypeInvariant, PTL

-----------------------------------------------------------------------------
(* TwoLevelStore implements CoherentCache *)

\* What a reader of the CoherentCache is at, for each step of a client.
LEMMA ReadsOf ==
  ASSUME NEW c \in Clients
  PROVE  /\ pc[c] = "return" => Reads[c] = Coherent!Answered(key[c], want[c].settled, data[c])
         /\ pc[c] \in FlightSteps \cup {"do", "wait"}
              => Reads[c] = Coherent!Asked(key[c], want[c].settled)
         /\ pc[c] \notin ReadSteps => Reads[c] = Coherent!Idle
  BY DEF Reads, ReadSteps, FlightSteps, Coherent!Answered, Coherent!Asked, Coherent!Idle

LEMMA NextReadsOf ==
  ASSUME NEW c \in Clients
  PROVE  /\ pc'[c] = "return" => Reads'[c] = Coherent!Answered(key'[c], want'[c].settled, data'[c])
         /\ pc'[c] \in FlightSteps \cup {"do", "wait"}
              => Reads'[c] = Coherent!Asked(key'[c], want'[c].settled)
         /\ pc'[c] \notin ReadSteps => Reads'[c] = Coherent!Idle
  BY DEF Reads, ReadSteps, FlightSteps, Coherent!Answered, Coherent!Asked, Coherent!Idle

LEMMA ReadsDomain ==
  /\ Reads = [c \in Clients |-> Reads[c]]
  /\ Reads' = [c \in Clients |-> Reads'[c]]
  BY DEF Reads

\* A client that is not reading, or not answered yet, may do what it likes.
LEMMA SameRead ==
  ASSUME NEW c \in Clients,
         \/ UNCHANGED <<pc[c], key[c], data[c], want[c]>>
         \/ pc[c] \notin ReadSteps /\ pc'[c] \notin ReadSteps
         \/ /\ pc[c] \in ReadSteps \ {"return"} /\ pc'[c] \in ReadSteps \ {"return"}
            /\ UNCHANGED <<key[c], want[c]>>
  PROVE  Reads'[c] = Reads[c]
<1>1. CASE UNCHANGED <<pc[c], key[c], data[c], want[c]>>
  BY <1>1, ReadsOf, NextReadsOf DEF ReadSteps
<1>2. CASE pc[c] \notin ReadSteps /\ pc'[c] \notin ReadSteps
  BY <1>2, ReadsOf, NextReadsOf
<1>3. CASE /\ pc[c] \in ReadSteps \ {"return"} /\ pc'[c] \in ReadSteps \ {"return"}
           /\ UNCHANGED <<key[c], want[c]>>
  BY <1>3, ReadsOf, NextReadsOf DEF ReadSteps
<1> QED BY <1>1, <1>2, <1>3

LEMMA AsideReads ==
  ASSUME Aside
  PROVE  Reads' = Reads
<1>1. ASSUME NEW c \in Clients PROVE Reads'[c] = Reads[c]
  BY <1>1, SameRead DEF Aside, Procs
<1> QED BY <1>1, ReadsDomain

\* Steps that touch at most the origin.
LEMMA OriginStep ==
  ASSUME TypeInv, Reads' = Reads, UNCHANGED <<l1, floor, settled>>,
         \/ ver' = ver
         \/ \E k \in Keys : ver' = [ver EXCEPT ![k] = ver[k] + 1]
         \/ \E keys \in SUBSET Keys : ver' = [k \in Keys |-> IF k \in keys THEN ver[k] + 1 ELSE ver[k]]
  PROVE  [Coherent!Next]_Coherent!vars
<1>1. CASE ver' = ver
  BY <1>1 DEF Coherent!vars
<1>2. CASE \E k \in Keys : ver' = [ver EXCEPT ![k] = ver[k] + 1]
  <2>1. PICK k \in Keys : ver' = [ver EXCEPT ![k] = ver[k] + 1]
    BY <1>2
  <2>2. {k} \in SUBSET Keys /\ ver' = [m \in Keys |-> IF m \in {k} THEN ver[m] + 1 ELSE ver[m]]
    BY <2>1 DEF TypeInv, TypeOK
  <2>3. Coherent!Change({k})
    BY <2>2 DEF Coherent!Change
  <2> QED BY <2>2, <2>3 DEF Coherent!Next
<1>3. CASE \E keys \in SUBSET Keys : ver' = [k \in Keys |-> IF k \in keys THEN ver[k] + 1 ELSE ver[k]]
  <2>1. PICK keys \in SUBSET Keys : ver' = [k \in Keys |-> IF k \in keys THEN ver[k] + 1 ELSE ver[k]]
    BY <1>3
  <2>2. Coherent!Change(keys)
    BY <2>1 DEF Coherent!Change
  <2> QED BY <2>2 DEF Coherent!Next
<1> QED BY <1>1, <1>2, <1>3

LEMMA CoherentMutation ==
  ASSUME TypeInv, Fencing, ReadInv, NEW p \in Procs, MutationStep(p)
  PROVE  [Coherent!Next]_Coherent!vars
<1>1. Reads' = Reads
  BY AsideMutation, AsideReads
<1>2. CASE CommitMutation(p)
  <2>1. key[p] \in Keys /\ Home(p) \in Instances
    BY <1>2, HomeType DEF CommitMutation, TypeInv, Legal
  <2>2. UNCHANGED <<ver, settled>>
    BY <1>2 DEF CommitMutation, redis
  <2>3. \/ UNCHANGED <<l1, floor>>
        \/ /\ l1' = [l1 EXCEPT ![Home(p)][key[p]] = 0]
           /\ floor' = [floor EXCEPT ![Home(p)][key[p]] = ver[key[p]]]
    BY <1>2 DEF CommitMutation, cached
  <2>4. ver[key[p]] \in floor[Home(p)][key[p]] .. ver[key[p]]
    <3>1. /\ ver[key[p]] \in Nat /\ floor[Home(p)][key[p]] \in Nat
          /\ floor[Home(p)][key[p]] <= ver[key[p]]
      BY <2>1 DEF TypeInv, TypeOK, Fencing, Floors
    <3> QED BY ONLY <3>1
  <2>5. CASE UNCHANGED <<l1, floor>>
    BY <1>1, <2>2, <2>5 DEF Coherent!vars
  <2>6. CASE /\ l1' = [l1 EXCEPT ![Home(p)][key[p]] = 0]
             /\ floor' = [floor EXCEPT ![Home(p)][key[p]] = ver[key[p]]]
    <3>1. Coherent!Discard(Home(p), key[p])
      BY <1>1, <2>2, <2>4, <2>6 DEF Coherent!Discard
    <3> QED BY <2>1, <3>1 DEF Coherent!Next
  <2> QED BY <2>3, <2>5, <2>6
<1>3. CASE ForgetFlight(p)
  <2>1. key[p] \in Keys /\ Home(p) \in Instances
    BY <1>3, HomeType DEF ForgetFlight, TypeInv, Legal
  <2>2. /\ UNCHANGED <<ver, l1, floor>>
        /\ \/ settled' = settled
           \/ settled' = [settled EXCEPT ![Home(p)][key[p]] = floor[Home(p)][key[p]]]
    BY <1>3 DEF ForgetFlight, redis, cached
  <2>3. settled' = settled \/ Coherent!Settle(Home(p), key[p])
    BY <1>1, <2>2 DEF Coherent!Settle
  <2> QED BY <1>1, <2>1, <2>2, <2>3 DEF Coherent!Next, Coherent!vars
<1>4. CASE Publish(p) \/ BumpShard(p) \/ EraseReturns(p)
  BY <1>1, <1>4, OriginStep DEF Publish, BumpShard, EraseReturns, redis, cached, promised
<1>5. CASE \E k \in Keys : ScanDelete(p, k)
  BY <1>1, <1>5, OriginStep DEF ScanDelete, redis, cached, promised
<1>6. CASE ScanReturns(p)
  <2>1. \/ ver' = ver
        \/ \E keys \in SUBSET Keys : ver' = [k \in Keys |-> IF k \in keys THEN ver[k] + 1 ELSE ver[k]]
    <3>1. CASE UNCHANGED redis
      BY <3>1 DEF redis
    <3>2. CASE \E keys \in SUBSET {k \in PatternKeys : live[k]} : DeleteUnseen(keys)
      <4>1. PICK keys \in SUBSET {k \in PatternKeys : live[k]} : DeleteUnseen(keys)
        BY <3>2
      <4>2. keys \in SUBSET Keys
        BY ConstantsAssumption
      <4> QED BY <4>1, <4>2 DEF DeleteUnseen
    <3> QED BY <1>6, <3>1, <3>2 DEF ScanReturns
  <2> QED BY <1>1, <1>6, <2>1, OriginStep DEF ScanReturns, cached, promised
<1>7. CASE \E k \in Keys : EraseKey(p, k)
  <2>1. PICK k \in Keys : EraseKey(p, k)
    BY <1>7
  <2>2. UNCHANGED <<ver, settled>> /\ Home(p) \in Instances
    BY <2>1, HomeType DEF EraseKey, redis, promised
  <2> DEFINE v == IF asof[p][k] > floor[Home(p)][k] THEN asof[p][k] ELSE floor[Home(p)][k]
  <2>3. /\ l1' = [l1 EXCEPT ![Home(p)][k] = 0]
        /\ floor' = [floor EXCEPT ![Home(p)][k] = v]
    BY <2>1 DEF EraseKey
  <2>4. v \in floor[Home(p)][k] .. ver[k]
    <3>1. ver[k] \in Nat /\ floor[Home(p)][k] \in Nat /\ asof[p][k] \in Nat
      BY Values DEF TypeInv
    <3>2. floor[Home(p)][k] <= ver[k] /\ asof[p][k] <= ver[k]
      BY <2>2 DEF Fencing, Floors, AsOfs
    <3> QED BY ONLY <3>1, <3>2
  <2> HIDE DEF v
  <2>5. Coherent!Discard(Home(p), k)
    BY <1>1, <2>2, <2>3, <2>4 DEF Coherent!Discard
  <2> QED BY <2>2, <2>5 DEF Coherent!Next
<1> QED BY <1>2, <1>3, <1>4, <1>5, <1>6, <1>7 DEF MutationStep

LEMMA CoherentOther ==
  ASSUME TypeInv,
         \/ \E p \in Clients :
              \/ \E k \in Keys : SetRemote(p, k) \/ DeleteRemote(p, k) \/ InvalidateLocal(p, k)
              \/ DeletePattern(p) \/ InvalidateLocalPattern(p) \/ Close(p)
         \/ \E p \in Procs : CloseStep(p) \/ TimerFires(p)
         \/ \E i \in Subscribed : Listen(i)
         \/ \E i \in Instances, k \in Keys : TimerForgets(i, k) \/ LocalExpire(i, k)
         \/ \E k \in Keys : RemoteExpire(k)
         \/ UNCHANGED vars
  PROVE  [Coherent!Next]_Coherent!vars
<1>1. Reads' = Reads
  <2>1. Aside
    BY AsideInvoke, AsideClose, AsideRest
  <2> QED BY <2>1, AsideReads
<1>2. CASE \E p \in Clients :
              \/ \E k \in Keys : SetRemote(p, k) \/ DeleteRemote(p, k) \/ InvalidateLocal(p, k)
              \/ DeletePattern(p) \/ InvalidateLocalPattern(p) \/ Close(p)
  <2>1. /\ UNCHANGED <<l1, floor, settled>>
        /\ \/ ver' = ver
           \/ \E k \in Keys : ver' = [ver EXCEPT ![k] = ver[k] + 1]
    BY <1>2 DEF SetRemote, DeleteRemote, InvalidateLocal, DeletePattern, InvalidateLocalPattern,
         Close, redis, cached, promised
  <2> QED BY <1>1, <2>1, OriginStep
<1>3. CASE \E i \in Instances, k \in Keys : LocalExpire(i, k)
  <2>1. PICK i \in Instances, k \in Keys : LocalExpire(i, k)
    BY <1>3
  <2>2. Coherent!Lose(i, k)
    BY <1>1, <2>1 DEF Coherent!Lose, LocalExpire, redis, promised
  <2> QED BY <2>2 DEF Coherent!Next
<1>4. CASE \/ \E p \in Procs : CloseStep(p) \/ TimerFires(p)
           \/ \E i \in Subscribed : Listen(i)
           \/ \E i \in Instances, k \in Keys : TimerForgets(i, k)
           \/ \E k \in Keys : RemoteExpire(k)
           \/ UNCHANGED vars
  <2>1. UNCHANGED <<ver, l1, floor, settled>>
    BY <1>4 DEF CloseStep, CloseLocal, CloseAgain, TimerFires, Listen, TimerForgets, RemoteExpire,
         vars, redis, cached, promised
  <2> QED BY <1>1, <2>1, OriginStep
<1> QED BY <1>2, <1>3, <1>4

LEMMA CoherentAsk ==
  ASSUME TypeInv, NEW p \in Clients, NEW k \in Keys, GetLocal(p, k)
  PROVE  [Coherent!Next]_Coherent!vars
<1>1. /\ UNCHANGED <<ver, l1, floor, settled>> /\ pc[p] = "idle" /\ Home(p) = HomeOf[p]
  BY DEF GetLocal, May, Home, redis, cached, promised
<1>2. ASSUME NEW q \in Clients, q # p PROVE Reads'[q] = Reads[q]
  <2>1. UNCHANGED <<pc[q], key[q], data[q], want[q]>>
    BY <1>2 DEF GetLocal, Goto, TypeInv, TypeOK, Procs
  <2> QED BY <2>1, SameRead
<1>3. Reads[p] = Coherent!Idle
  BY <1>1, ReadsOf DEF ReadSteps, FlightSteps
<1>4. /\ key'[p] = k /\ want'[p].settled = settled[HomeOf[p]][k]
      /\ \/ pc'[p] = "return" /\ data'[p] = l1[HomeOf[p]][k] /\ l1[HomeOf[p]][k] # 0
         \/ pc'[p] = "do"
  <2>1. /\ pc \in [Procs -> Steps] /\ key \in [Procs -> Keys \cup {NoKey}] /\ data \in [Procs -> Nat]
        /\ want \in [Procs -> [settled : Nat, written : Nat]] /\ p \in Procs
    BY DEF TypeInv, TypeOK, Procs
  <2>2. /\ key' = [key EXCEPT ![p] = k]
        /\ want' = [want EXCEPT ![p] = [settled |-> settled[HomeOf[p]][k],
                                        written |-> written[HomeOf[p]][k]]]
        /\ \/ /\ l1[HomeOf[p]][k] # 0
              /\ data' = [data EXCEPT ![p] = l1[HomeOf[p]][k]] /\ pc' = [pc EXCEPT ![p] = "return"]
           \/ pc' = [pc EXCEPT ![p] = "do"]
    BY <1>1 DEF GetLocal, Goto
  <2> QED BY ONLY <2>1, <2>2
<1>5. CASE pc'[p] = "return" /\ data'[p] = l1[HomeOf[p]][k] /\ l1[HomeOf[p]][k] # 0
  <2>1. Reads'[p] = Coherent!Answered(k, settled[HomeOf[p]][k], l1[HomeOf[p]][k])
    BY <1>4, <1>5, NextReadsOf
  <2>2. Reads' = [Reads EXCEPT ![p] = Coherent!Answered(k, settled[HomeOf[p]][k], l1[HomeOf[p]][k])]
    BY <1>2, <2>1, ReadsDomain
  <2>3. Coherent!AskAndAnswer(p, k)
    BY <1>1, <1>3, <1>5, <2>2 DEF Coherent!AskAndAnswer
  <2> QED BY <2>3 DEF Coherent!Next
<1>6. CASE pc'[p] = "do"
  <2>1. Reads'[p] = Coherent!Asked(k, settled[HomeOf[p]][k])
    BY <1>4, <1>6, NextReadsOf
  <2>2. Reads' = [Reads EXCEPT ![p] = Coherent!Asked(k, settled[HomeOf[p]][k])]
    BY <1>2, <2>1, ReadsDomain
  <2>3. Coherent!Ask(p, k)
    BY <1>1, <1>3, <2>2 DEF Coherent!Ask
  <2> QED BY <2>3 DEF Coherent!Next
<1> QED BY <1>4, <1>5, <1>6

\* Steps of a flight before its end show the readers nothing.
LEMMA FlightReads ==
  ASSUME TypeInv, NEW p \in Procs,
         Lead(p) \/ Join(p) \/ InnerLocal(p) \/ Begin(p) \/ GetWithTTL(p) \/ CommitRead(p)
  PROVE  Reads' = Reads
<1>1. pc[p] \in FlightSteps \cup {"do"}
  BY DEF Lead, Join, InnerLocal, Begin, GetWithTTL, CommitRead, FlightSteps
<1>2. \E step \in FlightSteps \cup {"wait"} : Goto(p, step)
  BY DEF Lead, Join, InnerLocal, Begin, GetWithTTL, CommitRead, FlightSteps
<1>3. pc'[p] \in FlightSteps \cup {"wait"} /\ \A q \in Procs \ {p} : pc'[q] = pc[q]
  BY <1>2, MovesOn DEF Steps
<1>4. UNCHANGED <<key, want>> /\ \A q \in Procs \ {p} : data'[q] = data[q]
  BY DEF Lead, Join, InnerLocal, Begin, GetWithTTL, CommitRead, reading, TypeInv, TypeOK
<1>5. ASSUME NEW q \in Clients PROVE Reads'[q] = Reads[q]
  <2>1. CASE q = p
    BY <1>1, <1>3, <1>4, <2>1, SameRead DEF ReadSteps, FlightSteps
  <2>2. CASE q # p
    BY <1>3, <1>4, <2>2, SameRead DEF Procs
  <2> QED BY <2>1, <2>2
<1> QED BY <1>5, ReadsDomain

LEMMA CoherentAnswer ==
  ASSUME TypeInv, ReadInv, NEW p \in Procs, Finish(p)
  PROVE  [Coherent!Next]_Coherent!vars
<1> DEFINE i == Home(p)
           k == key[p]
           readers == Released(p)
           v == data[p]
<1>1. /\ pc[p] = "finish" /\ p \in readers /\ i \in Instances
      /\ UNCHANGED <<ver, l1, floor, settled, key, want>>
  BY HomeType DEF Finish, Released, redis, cached, promised, reading
<1>2. ASSUME NEW w \in readers
      PROVE  /\ w \in Clients /\ HomeOf[w] = i /\ key[w] = k /\ k \in Keys
             /\ Reads[w] = Coherent!Asked(k, want[w].settled)
             /\ Reads'[w] = Coherent!Answered(k, want[w].settled, v)
             /\ want[w].settled <= v /\ v <= ver[k]
  <2>1. /\ w \in Clients /\ Home(w) = i /\ key[w] = k /\ k \in Keys
        /\ pc[w] \in {"wait", "finish"} /\ want[w].settled <= v /\ v <= ver[k]
    BY <1>1, ReleasedTogether
  <2>2. pc'[w] = "return" /\ data'[w] = v /\ key'[w] = k /\ want'[w] = want[w]
    BY <1>1, <2>1 DEF Finish, Procs
  <2>3. Reads[w] = Coherent!Asked(key[w], want[w].settled)
    BY <2>1, ReadsOf DEF FlightSteps
  <2>4. Reads'[w] = Coherent!Answered(key'[w], want'[w].settled, data'[w])
    BY <2>1, <2>2, NextReadsOf
  <2> QED BY <2>1, <2>2, <2>3, <2>4 DEF Home
<1>3. ASSUME NEW q \in Clients, q \notin readers PROVE Reads'[q] = Reads[q]
  <2>1. UNCHANGED <<pc[q], key[q], data[q], want[q]>>
    BY <1>1, <1>3 DEF Finish, Procs
  <2> QED BY <2>1, SameRead
<1>4. k \in Keys /\ v \in 0 .. ver[k]
  <2>1. v \in Nat /\ k \in Keys /\ v <= ver[k] /\ ver[k] \in Nat
    BY <1>1, <1>2 DEF TypeInv, TypeOK
  <2> QED BY ONLY <2>1
<1>5. ASSUME NEW w \in readers
      PROVE  Reads[w].state = "asked" /\ Reads[w].key = k /\ Reads[w].least = want[w].settled
  <2>1. Reads[w] = [state |-> "asked", key |-> k, least |-> want[w].settled]
    BY <1>2 DEF Coherent!Asked
  <2> QED BY ONLY <2>1
<1> HIDE DEF i, k, readers, v
<1>6. Reads' = [c \in Clients |-> IF c \in readers THEN Coherent!Answered(k, Reads[c].least, v)
                                                    ELSE Reads[c]]
  BY <1>2, <1>3, <1>5, ReadsDomain
<1>7. Coherent!Answer(i, k, readers)
  BY <1>1, <1>2, <1>4, <1>5, <1>6 DEF Coherent!Answer
<1>8. readers \in SUBSET Clients
  BY <1>2
<1> QED BY <1>1, <1>4, <1>7, <1>8 DEF Coherent!Next

LEMMA CoherentRead ==
  ASSUME TypeInv, Fencing, ReadInv, NEW p \in Procs, ReadStep(p)
  PROVE  [Coherent!Next]_Coherent!vars
<1>1. CASE Lead(p) \/ Join(p) \/ InnerLocal(p) \/ Begin(p) \/ GetWithTTL(p)
  <2>1. Reads' = Reads
    BY <1>1, FlightReads
  <2> QED BY <1>1, <2>1 DEF Coherent!vars, Lead, Join, InnerLocal, Begin, GetWithTTL,
            redis, cached, promised
<1>2. CASE CommitRead(p)
  <2>1. Reads' = Reads /\ UNCHANGED <<ver, floor, settled>>
    BY <1>2, FlightReads DEF CommitRead, redis, promised
  <2>2. CASE l1' = l1
    BY <2>1, <2>2 DEF Coherent!vars
  <2>3. CASE MayBackfill(p) /\ l1' = [l1 EXCEPT ![Home(p)][key[p]] = data[p]]
    <3>1. pc[p] = "commitRead"
      BY <1>2 DEF CommitRead
    <3>2. /\ key[p] \in Keys /\ Home(p) \in Instances /\ data[p] \in Nat
          /\ floor[Home(p)][key[p]] \in Nat /\ ver[key[p]] \in Nat
      BY <3>1, ReadValues DEF ReadSteps, FlightSteps
    <3>3. floor[Home(p)][key[p]] <= data[p] /\ data[p] <= ver[key[p]]
      BY <2>3, <3>1, <3>2 DEF MayBackfill, Current, Fencing, FlightsAboveFloor, ReadInv,
         AnswersAreWanted, HasRead
    <3>4. data[p] \in floor[Home(p)][key[p]] .. ver[key[p]]
      BY ONLY <3>2, <3>3
    <3>5. Coherent!Copy(Home(p), key[p])
      BY <2>1, <2>3, <3>4 DEF Coherent!Copy
    <3> QED BY <3>2, <3>5 DEF Coherent!Next
  <2> QED BY <1>2, <2>2, <2>3 DEF CommitRead
<1>3. CASE Finish(p)
  BY <1>3, CoherentAnswer
<1>4. CASE Return(p)
  <2>1. pc[p] = "return" /\ p \in Clients /\ UNCHANGED <<ver, l1, floor, settled>>
    BY <1>4 DEF Return, TypeInv, Legal, ReadSteps, redis, cached, promised
  <2>2. pc'[p] = "idle" /\ \A q \in Procs \ {p} : UNCHANGED <<pc[q], key[q], data[q], want[q]>>
    BY <1>4 DEF Return, Proceed, Goto, TypeInv, TypeOK
  <2>3. Reads'[p] = Coherent!Idle
    BY <2>1, <2>2, NextReadsOf DEF ReadSteps, FlightSteps
  <2>4. ASSUME NEW q \in Clients, q # p PROVE Reads'[q] = Reads[q]
    BY <2>2, <2>4, SameRead DEF Procs
  <2>5. Reads' = [Reads EXCEPT ![p] = Coherent!Idle]
    BY <2>3, <2>4, ReadsDomain
  <2>6. Reads[p].state = "answered"
    <3>1. Reads[p] = [state |-> "answered", key |-> key[p], least |-> want[p].settled,
                      version |-> data[p]]
      BY <2>1, ReadsOf DEF Coherent!Answered
    <3> QED BY ONLY <3>1
  <2>7. Coherent!Leave(p)
    BY <2>1, <2>5, <2>6 DEF Coherent!Leave
  <2> QED BY <2>1, <2>7 DEF Coherent!Next
<1> QED BY <1>1, <1>2, <1>3, <1>4 DEF ReadStep

\* TwoLevelStore implements CoherentCache, whatever its constants: every step of
\* a flight, a mutation, a timer, a listener or Close is a step of the simple
\* cache or changes nothing a reader of that cache could see.
THEOREM Refinement == Spec => ImplementsCoherentCache
<1>1. Init => Coherent!Init
  <2> SUFFICES ASSUME Init PROVE Coherent!Init
    OBVIOUS
  <2>1. \A c \in Clients : Reads[c] = Coherent!Idle
    BY ReadsOf DEF Init, ReadSteps, FlightSteps, Procs
  <2>2. Reads = [c \in Clients |-> Coherent!Idle]
    BY <2>1, ReadsDomain
  <2> QED BY <2>2 DEF Init, Coherent!Init
<1>2. TypeInv /\ Fencing /\ ReadInv /\ [Next]_vars => [Coherent!Next]_Coherent!vars
  <2> SUFFICES ASSUME TypeInv, Fencing, ReadInv, [Next]_vars PROVE [Coherent!Next]_Coherent!vars
    OBVIOUS
  <2>1. ASSUME NEW p \in Procs, Step(p) PROVE [Coherent!Next]_Coherent!vars
    BY <2>1, CoherentRead, CoherentMutation, CoherentOther DEF Step
  <2>2. ASSUME NEW p \in Clients, Invoke(p) PROVE [Coherent!Next]_Coherent!vars
    BY <2>2, CoherentAsk, CoherentOther DEF Invoke
  <2> QED BY <2>1, <2>2, CoherentOther DEF Next
<1>3. ImplementsCoherentCache <=> Coherent!Init /\ [][Coherent!Next]_Coherent!vars
  BY DEF ImplementsCoherentCache, Coherent!Spec
<1> QED BY <1>1, <1>2, <1>3, TypeInvariant, FencingInvariant, ReadInvariant, PTL DEF Spec

-----------------------------------------------------------------------------
(* Stale copies.  The invariant says who will discard a stale entry of L1,  *)
(* and, of a stale answer that a flight is about to backfill, who will have  *)
(* bumped the guard by then, or else will discard what it backfills.        *)

NothingFails ==
  /\ Subscribed = Instances /\ L1Patterns
  /\ ~Lossy /\ ~RemoteMayFail /\ ~LocalMayFail

\* q has still to bump the guard of k on its own instance i.
Fences(q, i, k) ==
  /\ Home(q) = i
  /\ \/ key[q] = k /\ \/ pc[q] = "commit"
                      \/ op[q] = "set" /\ pc[q] \in {"forget", "publish"}
     \/ k \in PatternKeys /\ \/ pc[q] = "scan"
                             \/ pc[q] = "bump" /\ nextShard[q] <= ShardOf[k]

\* q has still to erase k from the L1 of its own instance i.
Erases(q, i, k) == Home(q) = i /\ pc[q] \in {"bump", "erase"} /\ k \in todo[q]

\* q has still to tell instance i of a mutation of k.
Announces(q, i, k) ==
  /\ Home(q) # i
  /\ \/ key[q] = k /\ \/ op[q] = "set" /\ pc[q] \in {"forget", "publish"}
                      \/ op[q] = "delete" /\ pc[q] \in {"commit", "forget", "publish"}
     \/ k \in PatternKeys /\ op[q] = "deletePattern"
                          /\ pc[q] \in {"scan", "bump", "erase", "publish"}

\* The message is under way.
Tells(i, n, k) ==
  /\ inbox[i][n].origin # i
  /\ \/ inbox[i][n].type = "pattern" /\ k \in PatternKeys
     \/ inbox[i][n].type = "key" /\ inbox[i][n].value = k

Fenced(i, k) == \/ \E q \in Procs : Fences(q, i, k) \/ Announces(q, i, k)
                \/ \E n \in 1 .. Len(inbox[i]) : Tells(i, n, k)

Discarded(i, k) == Fenced(i, k) \/ \E q \in Procs : Erases(q, i, k)

PatternsKept == \A q \in Procs : /\ pc[q] = "bump" => todo[q] = PatternKeys
                                 /\ pc[q] = "scan" => todo[q] \subseteq PatternKeys
StaleFlightsFenced ==
  \A p \in Procs, i \in Instances, k \in Keys :
    Home(p) = i /\ key[p] = k /\ pc[p] = "commitRead" /\ Current(p)
      /\ lifecycle[i] = "open" /\ data[p] # ver[k]
      => Fenced(i, k)
StaleCopiesDiscarded ==
  \A i \in Instances, k \in Keys :
    lifecycle[i] = "open" /\ l1[i][k] \notin {NoEntry, ver[k]} => Discarded(i, k)

StaleInv == PatternsKept /\ StaleFlightsFenced /\ StaleCopiesDiscarded

MutationSteps == {"commit", "forget", "publish", "scan", "bump", "erase"}

SameDuty(q) == UNCHANGED <<pc[q], op[q], key[q], nextShard[q], todo[q]>>

\* A step sees to what is owed: a fence stays owed until the guard is bumped,
\* and a copy until it is gone.
Settles ==
  \A i \in Instances, k \in Keys : lifecycle'[i] = "open" =>
    /\ Fenced(i, k) => Fenced(i, k)' \/ gen'[i][ShardOf[k]] # gen[i][ShardOf[k]]
    /\ Discarded(i, k) => Discarded(i, k)' \/ l1'[i][k] = NoEntry
    /\ ver'[k] # ver[k] => Fenced(i, k)'

\* What a step may do to guards, flights and L1.
Moderate ==
  /\ \A i \in Instances : lifecycle'[i] = "open" => lifecycle[i] = "open"
  /\ \A i \in Instances, s \in Shards : gen'[i][s] \in {gen[i][s], gen[i][s] + 1}
  /\ \A p \in Procs : pc'[p] = "commitRead" =>
       \/ pc[p] = "commitRead" /\ UNCHANGED <<key[p], data[p], generation[p]>>
       \/ data'[p] = ver'[key'[p]]
  /\ \A i \in Instances, k \in Keys :
       \/ l1'[i][k] \in {l1[i][k], NoEntry}
       \/ gen' = gen /\ \E p \in Procs : /\ pc[p] = "commitRead" /\ Home(p) = i /\ key[p] = k
                                         /\ Current(p) /\ ~superseded[p] /\ l1'[i][k] = data[p]

LEMMA StaleKeeps ==
  ASSUME TypeInv, Generations, StaleFlightsFenced, StaleCopiesDiscarded, Settles, Moderate
  PROVE  StaleFlightsFenced' /\ StaleCopiesDiscarded'
<1>1. ASSUME NEW p \in Procs, NEW i \in Instances, NEW k \in Keys, Home(p) = i, key'[p] = k,
             pc'[p] = "commitRead", Current(p)', lifecycle'[i] = "open", data'[p] # ver'[k]
      PROVE  Fenced(i, k)'
  <2>1. pc[p] = "commitRead" /\ key[p] = k /\ data'[p] = data[p] /\ generation'[p] = generation[p]
    BY <1>1 DEF Moderate
  <2>2. ShardOf[k] \in Shards
    BY ConstantsAssumption
  <2>3. /\ gen[i][ShardOf[k]] \in Nat /\ generation[p] \in Nat
        /\ generation[p] <= gen[i][ShardOf[k]]
        /\ gen'[i][ShardOf[k]] \in {gen[i][ShardOf[k]], gen[i][ShardOf[k]] + 1}
        /\ generation[p] = gen'[i][ShardOf[k]]
    <3>1. gen[i][ShardOf[k]] \in Nat /\ generation[p] \in Nat
      BY <2>2 DEF TypeInv, TypeOK
    <3>2. generation[p] <= gen[i][ShardOf[k]]
      BY <1>1, <2>1 DEF Generations, Reading
    <3>3. gen'[i][ShardOf[k]] \in {gen[i][ShardOf[k]], gen[i][ShardOf[k]] + 1}
      BY <2>2 DEF Moderate
    <3>4. generation[p] = gen'[i][ShardOf[k]]
      BY <1>1, <2>1 DEF Current
    <3> QED BY <3>1, <3>2, <3>3, <3>4
  <2>4. gen'[i][ShardOf[k]] = gen[i][ShardOf[k]] /\ Current(p)
    BY <1>1, <2>1, <2>3 DEF Current
  <2>5. lifecycle[i] = "open"
    BY <1>1 DEF Moderate
  <2>6. CASE data[p] = ver[k]
    BY <1>1, <2>1, <2>6 DEF Settles
  <2>7. CASE data[p] # ver[k]
    <3>1. Fenced(i, k)
      BY <1>1, <2>1, <2>4, <2>5, <2>7 DEF StaleFlightsFenced
    <3> QED BY <1>1, <2>4, <3>1 DEF Settles
  <2> QED BY <2>6, <2>7
<1>2. ASSUME NEW i \in Instances, NEW k \in Keys, lifecycle'[i] = "open", l1'[i][k] \notin {NoEntry, ver'[k]}
      PROVE  Discarded(i, k)'
  <2>1. lifecycle[i] = "open"
    BY <1>2 DEF Moderate
  <2>2. CASE ver'[k] # ver[k]
    BY <1>2, <2>2 DEF Settles, Discarded
  <2>3. CASE ver'[k] = ver[k] /\ l1'[i][k] = l1[i][k]
    BY <1>2, <2>1, <2>3 DEF Settles, StaleCopiesDiscarded
  <2>4. CASE /\ ver'[k] = ver[k] /\ gen' = gen
             /\ \E p \in Procs : /\ pc[p] = "commitRead" /\ Home(p) = i /\ key[p] = k
                                  /\ Current(p) /\ ~superseded[p] /\ l1'[i][k] = data[p]
    <3>1. Fenced(i, k)
      BY <1>2, <2>1, <2>4 DEF StaleFlightsFenced
    <3> QED BY <1>2, <2>4, <3>1 DEF Settles, Discarded
  <2> QED BY <1>2, <2>2, <2>3, <2>4 DEF Moderate
<1> QED BY <1>1, <1>2 DEF StaleFlightsFenced, StaleCopiesDiscarded

LEMMA SameDuties ==
  ASSUME NEW q \in Procs, pc[q] \in MutationSteps => SameDuty(q), NEW i, NEW k
  PROVE  /\ Fences(q, i, k) => Fences(q, i, k)'
         /\ Erases(q, i, k) => Erases(q, i, k)'
         /\ Announces(q, i, k) => Announces(q, i, k)'
  BY DEF MutationSteps, SameDuty, Fences, Erases, Announces

\* A step that is about neither mutations nor messages.
LEMMA PlainSettles ==
  ASSUME \A q \in Procs : pc[q] \in MutationSteps => SameDuty(q),
         \A i \in Instances : lifecycle'[i] = "open" => inbox'[i] = inbox[i],
         ver' = ver
  PROVE  Settles
<1> SUFFICES ASSUME NEW i \in Instances, NEW k \in Keys, lifecycle'[i] = "open"
             PROVE  /\ Fenced(i, k) => Fenced(i, k)'
                    /\ Discarded(i, k) => Discarded(i, k)'
  BY DEF Settles
<1>1. \A q \in Procs : /\ Fences(q, i, k) => Fences(q, i, k)'
                       /\ Erases(q, i, k) => Erases(q, i, k)'
                       /\ Announces(q, i, k) => Announces(q, i, k)'
  BY SameDuties
<1>2. \A n : Tells(i, n, k)' = Tells(i, n, k)
  BY DEF Tells
<1> QED BY <1>1, <1>2 DEF Fenced, Discarded

\* A step of a mutation, by what it does to the duties of p.
LEMMA DutySettles ==
  ASSUME NEW p \in Procs, \A q \in Procs \ {p} : SameDuty(q),
         \A i \in Instances, k \in Keys : lifecycle'[i] = "open" =>
           /\ Fences(p, i, k) => Fences(p, i, k)' \/ gen'[i][ShardOf[k]] # gen[i][ShardOf[k]]
           /\ Fences(p, i, k) \/ Erases(p, i, k) =>
                Fences(p, i, k)' \/ Erases(p, i, k)' \/ l1'[i][k] = NoEntry
           /\ Announces(p, i, k) => Fenced(i, k)'
           /\ (\E n \in 1 .. Len(inbox[i]) : Tells(i, n, k)) => Fenced(i, k)'
           /\ ver'[k] # ver[k] => Fences(p, i, k)' \/ Announces(p, i, k)'
  PROVE  Settles
<1> SUFFICES ASSUME NEW i \in Instances, NEW k \in Keys, lifecycle'[i] = "open"
             PROVE  /\ Fenced(i, k) => Fenced(i, k)' \/ gen'[i][ShardOf[k]] # gen[i][ShardOf[k]]
                    /\ Discarded(i, k) => Discarded(i, k)' \/ l1'[i][k] = NoEntry
                    /\ ver'[k] # ver[k] => Fenced(i, k)'
  BY DEF Settles
<1>1. \A q \in Procs \ {p} : /\ Fences(q, i, k) => Fences(q, i, k)'
                             /\ Erases(q, i, k) => Erases(q, i, k)'
                             /\ Announces(q, i, k) => Announces(q, i, k)'
  BY SameDuties
<1>2. /\ Fences(p, i, k) => Fences(p, i, k)' \/ gen'[i][ShardOf[k]] # gen[i][ShardOf[k]]
      /\ Fences(p, i, k) \/ Erases(p, i, k) =>
           Fences(p, i, k)' \/ Erases(p, i, k)' \/ l1'[i][k] = NoEntry
      /\ Announces(p, i, k) => Fenced(i, k)'
      /\ (\E n \in 1 .. Len(inbox[i]) : Tells(i, n, k)) => Fenced(i, k)'
      /\ ver'[k] # ver[k] => Fences(p, i, k)' \/ Announces(p, i, k)'
  OBVIOUS
<1>3. \A q \in Procs : Fences(q, i, k)' \/ Announces(q, i, k)' => Fenced(i, k)'
  BY DEF Fenced
<1>4. Fenced(i, k) => Fenced(i, k)' \/ gen'[i][ShardOf[k]] # gen[i][ShardOf[k]]
  BY <1>1, <1>2, <1>3 DEF Fenced
<1>5. Discarded(i, k) => Discarded(i, k)' \/ l1'[i][k] = NoEntry
  <2>1. \A q \in Procs : Fences(q, i, k)' \/ Announces(q, i, k)' \/ Erases(q, i, k)' => Discarded(i, k)'
    BY DEF Discarded, Fenced
  <2>2. Fenced(i, k)' => Discarded(i, k)'
    BY DEF Discarded
  <2> QED BY <1>1, <1>2, <2>1, <2>2 DEF Discarded, Fenced
<1> QED BY <1>2, <1>3, <1>4, <1>5

LEMMA InboxKept ==
  ASSUME NEW i, NEW k, inbox'[i] = inbox[i], NEW n \in 1 .. Len(inbox[i]), Tells(i, n, k)
  PROVE  Fenced(i, k)'
  BY DEF Tells, Fenced

LEMMA ProceedDuty ==
  ASSUME TypeInv, NEW p \in Procs, NEW step \in Steps, Proceed(p, step), UNCHANGED <<nextShard, todo>>
  PROVE  /\ \A q \in Procs \ {p} : SameDuty(q)
         /\ pc'[p] = step
         /\ step # "idle" => op'[p] = op[p] /\ key'[p] = key[p]
  BY DEF TypeInv, TypeOK, Proceed, Goto, SameDuty

LEMMA LifecycleFalls ==
  ASSUME TypeInv, [Next]_vars, NEW i \in Instances, lifecycle'[i] = "open"
  PROVE  lifecycle[i] = "open"
<1>1. ASSUME NEW p \in Procs, ReadStep(p) PROVE lifecycle' = lifecycle
  BY <1>1 DEF ReadStep, Lead, Join, InnerLocal, Begin, GetWithTTL, CommitRead, Finish, Return
<1>2. ASSUME NEW p \in Procs, MutationStep(p) PROVE lifecycle' = lifecycle
  BY <1>2 DEF MutationStep, CommitMutation, ForgetFlight, Publish, ScanDelete, ScanReturns,
     BumpShard, EraseKey, EraseReturns
<1>3. ASSUME NEW p \in Procs, CloseLocal(p) \/ CloseAgain(p) \/ Close(p) PROVE lifecycle[i] = "open"
  <2>1. lifecycle' = lifecycle \/ \E s \in {"closing", "closed"} : lifecycle' = [lifecycle EXCEPT ![Home(p)] = s]
    BY <1>3 DEF CloseLocal, CloseAgain, Close
  <2>2. lifecycle \in [Instances -> {"open", "closing", "closed"}]
    BY DEF TypeInv, TypeOK
  <2> QED BY <2>1, <2>2
<1>4. ASSUME NEW p \in Clients, NEW k \in Keys,
             GetLocal(p, k) \/ SetRemote(p, k) \/ DeleteRemote(p, k) \/ InvalidateLocal(p, k)
      PROVE  lifecycle' = lifecycle
  BY <1>4 DEF GetLocal, SetRemote, DeleteRemote, InvalidateLocal
<1>5. ASSUME NEW p \in Clients, DeletePattern(p) \/ InvalidateLocalPattern(p)
      PROVE  lifecycle' = lifecycle
  BY <1>5 DEF DeletePattern, InvalidateLocalPattern
<1>6. ASSUME \/ \E p \in Procs : TimerFires(p)
             \/ \E j \in Subscribed : Listen(j)
             \/ \E j \in Instances, k \in Keys : TimerForgets(j, k) \/ LocalExpire(j, k)
             \/ \E k \in Keys : RemoteExpire(k)
             \/ UNCHANGED vars
      PROVE  lifecycle' = lifecycle
  BY <1>6 DEF TimerFires, Listen, TimerForgets, LocalExpire, RemoteExpire, vars
<1> QED BY <1>1, <1>2, <1>3, <1>4, <1>5, <1>6 DEF Next, Step, Invoke, CloseStep, Procs

LEMMA ModerateNext ==
  ASSUME TypeInv, Fencing, [Next]_vars
  PROVE  Moderate
<1> DEFINE Guarded == \A i \in Instances, s \in Shards : gen'[i][s] \in {gen[i][s], gen[i][s] + 1}
           Read == \A p \in Procs : pc'[p] = "commitRead" =>
                     \/ pc[p] = "commitRead" /\ UNCHANGED <<key[p], data[p], generation[p]>>
                     \/ data'[p] = ver'[key'[p]]
           Filled == \A i \in Instances, k \in Keys :
                       \/ l1'[i][k] \in {l1[i][k], NoEntry}
                       \/ /\ gen' = gen
                          /\ \E p \in Procs : /\ pc[p] = "commitRead" /\ Home(p) = i /\ key[p] = k
                                               /\ Current(p) /\ ~superseded[p] /\ l1'[i][k] = data[p]
<1> SUFFICES Guarded /\ Read /\ Filled
  BY LifecycleFalls DEF Moderate
<1>1. CASE Quiet
  <2>1. Guarded /\ Filled
    BY <1>1 DEF Quiet
  <2>2. ASSUME NEW p \in Procs, pc'[p] = "commitRead"
        PROVE  pc[p] = "commitRead" /\ UNCHANGED <<key[p], data[p], generation[p]>>
    <3>1. Reading(p)' => Reading(p) /\ pc'[p] = pc[p]
      BY <1>1 DEF Quiet
    <3>2. Reading(p) /\ pc'[p] = pc[p]
      BY <2>2, <3>1 DEF Reading
    <3> QED BY <1>1, <2>2, <3>2 DEF Quiet
  <2> QED BY <2>1, <2>2
<1>2. ASSUME NEW p \in Procs, Begin(p) PROVE Guarded /\ Read /\ Filled
  <2>1. UNCHANGED <<gen, l1, key, data>> /\ pc' = [pc EXCEPT ![p] = "getWithTTL"]
        /\ \A q \in Procs \ {p} : generation'[q] = generation[q]
    BY <1>2 DEF Begin, cached, Goto, TypeInv, TypeOK
  <2>2. \A q \in Procs : pc'[q] = "commitRead" => q # p /\ pc[q] = "commitRead"
    BY <2>1 DEF TypeInv, TypeOK
  <2> QED BY <2>1, <2>2
<1>3. ASSUME NEW p \in Procs, GetWithTTL(p) PROVE Guarded /\ Read /\ Filled
  <2>1. UNCHANGED <<gen, l1, key, generation, ver>>
    BY <1>3 DEF GetWithTTL, cached, redis, reading
  <2>2. /\ \A q \in Procs \ {p} : pc'[q] = pc[q] /\ data'[q] = data[q]
        /\ data'[p] = ver[key[p]]
    BY <1>3 DEF GetWithTTL, Goto, TypeInv, TypeOK
  <2> QED BY <2>1, <2>2
<1>4. ASSUME NEW p \in Procs, CommitRead(p) PROVE Guarded /\ Read /\ Filled
  <2>1. /\ UNCHANGED <<gen, key, data, generation, ver>> /\ pc' = [pc EXCEPT ![p] = "finish"]
        /\ pc[p] = "commitRead"
        /\ l1' = l1 \/ (Current(p) /\ ~superseded[p] /\ l1' = [l1 EXCEPT ![Home(p)][key[p]] = data[p]])
    BY <1>4 DEF CommitRead, redis, reading, Goto, MayBackfill, Current
  <2>2. \A q \in Procs : pc'[q] = "commitRead" => pc[q] = "commitRead"
    BY <2>1 DEF TypeInv, TypeOK
  <2>3. \A i \in Instances, k \in Keys :
          \/ l1'[i][k] = l1[i][k]
          \/ i = Home(p) /\ k = key[p] /\ Current(p) /\ ~superseded[p] /\ l1'[i][k] = data[p]
    <3>1. l1 \in [Instances -> [Keys -> Nat]]
      BY DEF TypeInv, TypeOK
    <3> QED BY <2>1, <3>1
  <2> QED BY <2>1, <2>2, <2>3
<1>5. ASSUME NEW p \in Procs, CommitMutation(p) \/ BumpShard(p) \/ (\E k \in Keys : EraseKey(p, k))
      PROVE  Guarded /\ Read /\ Filled
  <2>1. /\ UNCHANGED <<ver, generation>>
        /\ pc[p] \notin {"getWithTTL", "commitRead"}
        /\ \A q \in Procs \ {p} : pc'[q] = pc[q] /\ key'[q] = key[q] /\ data'[q] = data[q]
        /\ pc'[p] # "commitRead"
    <3>1. After(op[p], "commit") # "commitRead" /\ After(op[p], "erase") # "commitRead"
      BY DEF After
    <3> QED BY <1>5, <3>1 DEF CommitMutation, BumpShard, EraseKey, redis, reading, Proceed, Goto, TypeInv, TypeOK
  <2>2. Guarded
    <3>1. gen \in [Instances -> [Shards -> Nat]]
      BY DEF TypeInv, TypeOK
    <3>2. gen' = gen \/ \E i, s : gen' = [gen EXCEPT ![i][s] = gen[i][s] + 1]
      BY <1>5 DEF CommitMutation, BumpShard, EraseKey
    <3> QED BY <3>1, <3>2
  <2>3. Filled
    <3>1. l1 \in [Instances -> [Keys -> Nat]]
      BY DEF TypeInv, TypeOK
    <3>2. l1' = l1 \/ \E i, k : l1' = [l1 EXCEPT ![i][k] = NoEntry]
      BY <1>5 DEF CommitMutation, BumpShard, EraseKey, cached
    <3> QED BY <3>1, <3>2
  <2> QED BY <2>1, <2>2, <2>3
<1>6. CASE UNCHANGED vars
  BY <1>6 DEF vars, redis, cached, reading
<1>7. ASSUME NEW p \in Procs, ReadStep(p) \/ MutationStep(p) \/ CloseStep(p)
      PROVE  Guarded /\ Read /\ Filled
  BY <1>1, <1>2, <1>3, <1>4, <1>5, <1>7, QuietRead, QuietMutation, QuietClose DEF ReadStep, MutationStep
<1>8. ASSUME NEW p \in Clients, Invoke(p) PROVE Quiet
  BY <1>8, QuietInvoke
<1> QED BY <1>1, <1>6, <1>7, <1>8, QuietRest DEF Next, Step

-----------------------------------------------------------------------------

\* Reads, timers, expiry, Close, and calls that leave Redis alone.
LEMMA SettlesPlainly ==
  ASSUME TypeInv,
         \/ \E p \in Procs : ReadStep(p) \/ CloseStep(p) \/ TimerFires(p)
         \/ \E p \in Clients : \/ (\E k \in Keys : GetLocal(p, k) \/ InvalidateLocal(p, k))
                               \/ DeletePattern(p) \/ InvalidateLocalPattern(p) \/ Close(p)
         \/ \E i \in Instances, k \in Keys : TimerForgets(i, k) \/ LocalExpire(i, k)
         \/ \E k \in Keys : RemoteExpire(k)
         \/ UNCHANGED vars
  PROVE  Settles
<1> USE DEF redis, reading, pattern
<1>1. ver' = ver
  BY DEF ReadStep, CloseStep, TimerFires, Lead, Join, InnerLocal, Begin, GetWithTTL, CommitRead,
     Finish, Return, CloseLocal, CloseAgain, GetLocal, InvalidateLocal, DeletePattern,
     InvalidateLocalPattern, Close, TimerForgets, LocalExpire, RemoteExpire, vars
<1>2. ASSUME NEW i \in Instances, lifecycle'[i] = "open" PROVE inbox'[i] = inbox[i]
  <2>1. ASSUME NEW p \in Clients, Close(p) PROVE inbox'[i] = inbox[i]
    <3>1. \/ inbox' = inbox
          \/ /\ \E n \in 0 .. Len(inbox[Home(p)]) :
                  inbox' = [inbox EXCEPT ![Home(p)] = SubSeq(inbox[Home(p)], 1, n)]
             /\ lifecycle' = [lifecycle EXCEPT ![Home(p)] = "closing"]
      BY <2>1 DEF Close
    <3>2. /\ lifecycle \in [Instances -> {"open", "closing", "closed"}]
          /\ inbox \in [Instances -> Seq(Messages)]
      BY DEF TypeInv, TypeOK
    <3>3. i = Home(p) => inbox' = inbox
      BY <1>2, <3>1, <3>2
    <3>4. i # Home(p) => inbox'[i] = inbox[i]
      BY <3>1, <3>2
    <3> QED BY <3>3, <3>4
  <2>2. (~\E p \in Clients : Close(p)) => inbox' = inbox
    BY DEF ReadStep, CloseStep, TimerFires, Lead, Join, InnerLocal, Begin, GetWithTTL, CommitRead,
       Finish, Return, CloseLocal, CloseAgain, GetLocal, InvalidateLocal, DeletePattern,
       InvalidateLocalPattern, TimerForgets, LocalExpire, RemoteExpire, vars
  <2> QED BY <2>1, <2>2
<1>t. /\ pc \in [Procs -> Steps] /\ op \in [Procs -> Operations] /\ key \in [Procs -> Keys \cup {NoKey}]
      /\ nextShard \in [Procs -> Nat] /\ todo \in [Procs -> SUBSET Keys]
  BY DEF TypeInv, TypeOK
<1>3. ASSUME NEW p \in Procs, pc[p] \notin MutationSteps,
             UNCHANGED <<op, key, nextShard, todo>> \/ (\E o, k, s, t :
                /\ op' = op \/ op' = [op EXCEPT ![p] = o]
                /\ key' = key \/ key' = [key EXCEPT ![p] = k]
                /\ nextShard' = nextShard \/ nextShard' = [nextShard EXCEPT ![p] = s]
                /\ todo' = todo \/ todo' = [todo EXCEPT ![p] = t]),
             pc' = pc \/ \E s : pc' = [pc EXCEPT ![p] = s]
      PROVE  \A q \in Procs : pc[q] \in MutationSteps => SameDuty(q)
  BY <1>t, <1>3 DEF SameDuty
<1>4. ASSUME NEW p \in Procs, Lead(p) \/ Join(p) \/ InnerLocal(p) \/ Begin(p) \/ GetWithTTL(p) \/ CommitRead(p)
      PROVE  \A q \in Procs : pc[q] \in MutationSteps => SameDuty(q)
  <2>1. /\ pc[p] \notin MutationSteps /\ UNCHANGED <<op, key, nextShard, todo>>
        /\ \E s : pc' = [pc EXCEPT ![p] = s]
    BY <1>4 DEF Lead, Join, InnerLocal, Begin, GetWithTTL, CommitRead, Goto, MutationSteps
  <2> QED BY <1>3, <2>1
<1>5. ASSUME NEW p \in Procs, Finish(p)
      PROVE  \A q \in Procs : pc[q] \in MutationSteps => SameDuty(q)
  BY <1>5 DEF Finish, Released, MutationSteps, SameDuty
<1>6. ASSUME NEW p \in Procs, Return(p) \/ CloseStep(p)
      PROVE  \A q \in Procs : pc[q] \in MutationSteps => SameDuty(q)
  <2>1. pc[p] \notin MutationSteps /\ Proceed(p, "idle") /\ UNCHANGED <<nextShard, todo>>
    BY <1>6 DEF Return, CloseStep, CloseLocal, CloseAgain, MutationSteps
  <2> QED BY <1>t, <2>1 DEF Proceed, Goto, SameDuty
<1>7. ASSUME NEW p \in Clients,
             \/ (\E k \in Keys : GetLocal(p, k) \/ InvalidateLocal(p, k))
             \/ DeletePattern(p) \/ InvalidateLocalPattern(p) \/ Close(p)
      PROVE  \A q \in Procs : pc[q] \in MutationSteps => SameDuty(q)
  <2>1. pc[p] = "idle" /\ p \in Procs
    BY <1>7 DEF GetLocal, InvalidateLocal, DeletePattern, InvalidateLocalPattern, Close, Call, May, Procs
  <2>2. ASSUME NEW q \in Procs \ {p} PROVE SameDuty(q)
    BY <1>t, <1>7 DEF GetLocal, InvalidateLocal, DeletePattern, InvalidateLocalPattern, Close,
       TurnToL1, Goto, SameDuty
  <2> QED BY <2>1, <2>2 DEF MutationSteps
<1>8. ASSUME \/ \E p \in Procs : TimerFires(p)
             \/ \E i \in Instances, k \in Keys : TimerForgets(i, k) \/ LocalExpire(i, k)
             \/ \E k \in Keys : RemoteExpire(k)
             \/ UNCHANGED vars
      PROVE  \A q \in Procs : pc[q] \in MutationSteps => SameDuty(q)
  BY <1>8 DEF TimerFires, TimerForgets, LocalExpire, RemoteExpire, vars, SameDuty
<1>9. \A q \in Procs : pc[q] \in MutationSteps => SameDuty(q)
  BY <1>4, <1>5, <1>6, <1>7, <1>8 DEF ReadStep
<1> QED BY <1>1, <1>2, <1>9, PlainSettles

\* What a call owes the moment it has changed Redis.
LEMMA SettlesSet ==
  ASSUME TypeInv, NothingFails, NEW p \in Clients, NEW k \in Keys, SetRemote(p, k) \/ DeleteRemote(p, k)
  PROVE  Settles
<1>p. p \in Procs
  BY DEF Procs
<1>1. /\ UNCHANGED <<inbox, l1, gen, nextShard, todo>> /\ pc[p] = "idle"
      /\ ver' = [ver EXCEPT ![k] = ver[k] + 1]
  BY DEF NothingFails, SetRemote, DeleteRemote, Call, May, redis, cached, pattern
<1>2. ver \in [Keys -> Nat \ {0}]
  BY DEF TypeInv, TypeOK
<1>3. \E o \in {"set", "delete"}, step \in {"forget", "commit"} :
        /\ o = "set" <=> step = "forget"
        /\ op' = [op EXCEPT ![p] = o] /\ key' = [key EXCEPT ![p] = k] /\ pc' = [pc EXCEPT ![p] = step]
  BY <1>1, <1>2 DEF NothingFails, SetRemote, DeleteRemote, Goto
<1>4. \A q \in Procs \ {p} : SameDuty(q)
  BY <1>p, <1>1, <1>3 DEF SameDuty, TypeInv, TypeOK
<1>5. /\ key'[p] = k
      /\ \/ op'[p] = "set" /\ pc'[p] = "forget"
         \/ op'[p] = "delete" /\ pc'[p] = "commit"
  BY <1>p, <1>3 DEF TypeInv, TypeOK
<1>6. ASSUME NEW i \in Instances PROVE Fences(p, i, k)' \/ Announces(p, i, k)'
  BY <1>5 DEF Fences, Announces, Home
<1>7. ASSUME NEW i \in Instances, NEW j \in Keys
      PROVE  /\ ~Fences(p, i, j) /\ ~Erases(p, i, j) /\ ~Announces(p, i, j)
             /\ (\E n \in 1 .. Len(inbox[i]) : Tells(i, n, j)) => Fenced(i, j)'
             /\ ver'[j] # ver[j] => Fences(p, i, j)' \/ Announces(p, i, j)'
  <2>1. ~Fences(p, i, j) /\ ~Erases(p, i, j) /\ ~Announces(p, i, j)
    BY <1>1 DEF Fences, Erases, Announces
  <2>2. (\E n \in 1 .. Len(inbox[i]) : Tells(i, n, j)) => Fenced(i, j)'
    BY <1>1, InboxKept
  <2>3. ver'[j] # ver[j] => j = k
    BY <1>1, <1>2
  <2> QED BY <1>6, <2>1, <2>2, <2>3
<1> QED BY <1>p, <1>4, <1>7, DutySettles

LEMMA SettlesCommit ==
  ASSUME TypeInv, NothingFails, NEW p \in Procs, CommitMutation(p)
  PROVE  Settles
<1>1. /\ UNCHANGED <<ver, inbox, nextShard, todo>> /\ pc[p] = "commit"
      /\ gen' = [gen EXCEPT ![Home(p)][ShardOf[key[p]]] = gen[Home(p)][ShardOf[key[p]]] + 1]
      /\ l1' = [l1 EXCEPT ![Home(p)][key[p]] = 0]
      /\ Proceed(p, After(op[p], "commit"))
  BY DEF NothingFails, CommitMutation, redis, pattern
<1>2. /\ key[p] \in Keys /\ op[p] \in {"set", "delete", "invalidate"} /\ Home(p) \in Instances
      /\ gen \in [Instances -> [Shards -> Nat]] /\ l1 \in [Instances -> [Keys -> Nat]]
  BY <1>1, HomeType DEF TypeInv, TypeOK, Legal
<1>3. After(op[p], "commit") = IF op[p] = "set" THEN "idle" ELSE "forget"
  BY DEF After
<1>4. /\ \A q \in Procs \ {p} : SameDuty(q)
      /\ op[p] = "delete" => pc'[p] = "forget" /\ op'[p] = op[p] /\ key'[p] = key[p]
  BY <1>1, <1>3, ProceedDuty DEF Steps
<1>5. gen'[Home(p)][ShardOf[key[p]]] # gen[Home(p)][ShardOf[key[p]]] /\ l1'[Home(p)][key[p]] = 0
  BY <1>1, <1>2, ConstantsAssumption
<1>6. ASSUME NEW i \in Instances, NEW k \in Keys
      PROVE  /\ Fences(p, i, k) => i = Home(p) /\ k = key[p]
             /\ ~Erases(p, i, k)
             /\ Announces(p, i, k) => Announces(p, i, k)'
             /\ (\E n \in 1 .. Len(inbox[i]) : Tells(i, n, k)) => Fenced(i, k)'
             /\ ver'[k] = ver[k]
  <2>1. (Fences(p, i, k) => i = Home(p) /\ k = key[p]) /\ ~Erases(p, i, k)
    BY <1>1 DEF Fences, Erases
  <2>2. Announces(p, i, k) => Announces(p, i, k)'
    BY <1>1, <1>2, <1>4 DEF Announces
  <2> QED BY <1>1, <2>1, <2>2, InboxKept
<1>7. \A i, k : Announces(p, i, k)' => Fenced(i, k)'
  BY DEF Fenced
<1> QED BY <1>4, <1>5, <1>6, <1>7, DutySettles

LEMMA SettlesForget ==
  ASSUME TypeInv, NEW p \in Procs, ForgetFlight(p)
  PROVE  Settles
<1>1. /\ UNCHANGED <<ver, inbox, nextShard, todo, gen, l1>> /\ pc[p] = "forget"
      /\ Proceed(p, After(op[p], "forget"))
  BY DEF ForgetFlight, redis, pattern, cached
<1>2. op[p] \in {"set", "delete", "invalidate"}
  BY <1>1 DEF TypeInv, Legal
<1>3. After(op[p], "forget") = IF op[p] = "invalidate" THEN "idle" ELSE "publish"
  BY DEF After
<1>4. /\ \A q \in Procs \ {p} : SameDuty(q)
      /\ op[p] \in {"set", "delete"} => pc'[p] = "publish" /\ op'[p] = op[p] /\ key'[p] = key[p]
  BY <1>1, <1>3, ProceedDuty DEF Steps
<1>6. ASSUME NEW i \in Instances, NEW k \in Keys
      PROVE  /\ Fences(p, i, k) => Fences(p, i, k)'
             /\ ~Erases(p, i, k)
             /\ Announces(p, i, k) => Announces(p, i, k)'
             /\ (\E n \in 1 .. Len(inbox[i]) : Tells(i, n, k)) => Fenced(i, k)'
             /\ ver'[k] = ver[k]
  <2>1. (Fences(p, i, k) => Fences(p, i, k)') /\ ~Erases(p, i, k)
    BY <1>1, <1>2, <1>4 DEF Fences, Erases
  <2>2. Announces(p, i, k) => Announces(p, i, k)'
    BY <1>1, <1>2, <1>4 DEF Announces
  <2> QED BY <1>1, <2>1, <2>2, InboxKept
<1>7. \A i, k : Announces(p, i, k)' => Fenced(i, k)'
  BY DEF Fenced
<1> QED BY <1>4, <1>6, <1>7, DutySettles

\* The message takes over what the sender owed the other stores.
LEMMA SettlesPublish ==
  ASSUME TypeInv, NothingFails, NEW p \in Procs, Publish(p),
         \A i \in Instances : lifecycle'[i] = "open" => lifecycle[i] = "open"
  PROVE  Settles
<1> DEFINE message == [origin |-> Home(p), value |-> key[p],
                       type |-> IF op[p] = "deletePattern" THEN "pattern" ELSE "key"]
<1>1. /\ UNCHANGED <<ver, nextShard, todo, gen, l1>> /\ pc[p] = "publish"
      /\ \A i \in Instances : lifecycle[i] = "open" => inbox'[i] = Append(inbox[i], message)
      /\ Proceed(p, After(op[p], "publish"))
  <2>1. /\ UNCHANGED <<ver, nextShard, todo, gen, l1>> /\ pc[p] = "publish"
        /\ Proceed(p, After(op[p], "publish"))
        /\ \E dropped \in {{}} :
             inbox' = [j \in Instances |->
                         IF Home(p) \in Subscribed /\ j \in Subscribed \ dropped /\ lifecycle[j] = "open"
                           THEN Append(inbox[j], message) ELSE inbox[j]]
    BY DEF Publish, NothingFails, redis, pattern, cached
  <2> QED BY <2>1, HomeType DEF NothingFails
<1>2. /\ \/ op[p] \in {"set", "delete"}
         \/ op[p] = "deletePattern"
      /\ inbox \in [Instances -> Seq(Messages)]
  BY <1>1 DEF TypeInv, TypeOK, Legal
<1>3. After(op[p], "publish") = IF op[p] = "set" THEN "commit" ELSE "idle"
  BY DEF After
<1>4. /\ \A q \in Procs \ {p} : SameDuty(q)
      /\ op[p] = "set" => pc'[p] = "commit" /\ key'[p] = key[p]
  BY <1>1, <1>3, ProceedDuty DEF Steps
<1>6. ASSUME NEW i \in Instances, NEW k \in Keys, lifecycle'[i] = "open"
      PROVE  /\ Fences(p, i, k) => Fences(p, i, k)'
             /\ ~Erases(p, i, k)
             /\ Announces(p, i, k) => Fenced(i, k)'
             /\ (\E n \in 1 .. Len(inbox[i]) : Tells(i, n, k)) => Fenced(i, k)'
             /\ ver'[k] = ver[k]
  <2>1. (Fences(p, i, k) => Fences(p, i, k)') /\ ~Erases(p, i, k)
    BY <1>1, <1>2, <1>4 DEF Fences, Erases
  <2>2. /\ inbox'[i] = Append(inbox[i], message)
        /\ Len(inbox'[i]) = Len(inbox[i]) + 1 /\ Len(inbox[i]) \in Nat
        /\ inbox'[i][Len(inbox[i]) + 1] = message
        /\ \A n \in 1 .. Len(inbox[i]) : inbox'[i][n] = inbox[i][n]
    BY <1>1, <1>2, <1>6
  <2>3. Announces(p, i, k) => Fenced(i, k)'
    <3>1. ASSUME Announces(p, i, k)
          PROVE  /\ message.origin # i
                 /\ \/ message.type = "pattern" /\ k \in PatternKeys
                    \/ message.type = "key" /\ message.value = k
      BY <1>1, <1>2, <3>1 DEF Announces
    <3>2. PICK n \in 1 .. Len(inbox'[i]) : inbox'[i][n] = message
      BY <2>2
    <3> QED BY <3>1, <3>2 DEF Tells, Fenced
  <2>4. ASSUME NEW n \in 1 .. Len(inbox[i]), Tells(i, n, k) PROVE Fenced(i, k)'
    <3>1. n \in 1 .. Len(inbox'[i]) /\ inbox'[i][n] = inbox[i][n]
      BY <2>2
    <3> QED BY <2>4, <3>1 DEF Tells, Fenced
  <2> QED BY <1>1, <2>1, <2>3, <2>4
<1> QED BY <1>4, <1>6, DutySettles

LEMMA SettlesScan ==
  ASSUME TypeInv, PatternsKept, NEW p \in Procs, NEW j \in Keys, ScanDelete(p, j)
  PROVE  Settles
<1>1. /\ UNCHANGED <<inbox, nextShard, gen, l1, pc, key>> /\ pc[p] = "scan" /\ j \in PatternKeys
      /\ todo' = [todo EXCEPT ![p] = todo[p] \ {j}]
      /\ \/ ver' = [ver EXCEPT ![j] = ver[j] + 1] /\ op' = [op EXCEPT ![p] = "deletePattern"]
         \/ UNCHANGED <<ver, op>>
  BY DEF ScanDelete, PatternsKept, redis, cached
<1>2. \A q \in Procs \ {p} : SameDuty(q)
  BY <1>1 DEF SameDuty, TypeInv, TypeOK
<1>3. op'[p] = op[p] \/ op'[p] = "deletePattern"
  BY <1>1 DEF TypeInv, TypeOK
<1>4. \A k \in Keys : ver'[k] # ver[k] => k = j /\ op'[p] = "deletePattern"
  BY <1>1 DEF TypeInv, TypeOK
<1>5. key[p] = NoKey
  BY <1>1 DEF TypeInv, Legal
<1>6. ASSUME NEW i \in Instances, NEW k \in Keys
      PROVE  /\ Fences(p, i, k) => Fences(p, i, k)'
             /\ ~Erases(p, i, k)
             /\ Announces(p, i, k) => Announces(p, i, k)'
             /\ (\E n \in 1 .. Len(inbox[i]) : Tells(i, n, k)) => Fenced(i, k)'
             /\ ver'[k] # ver[k] => Fences(p, i, k)' \/ Announces(p, i, k)'
  <2>1. (Fences(p, i, k) => Fences(p, i, k)') /\ ~Erases(p, i, k)
    BY <1>1 DEF Fences, Erases
  <2>2. Announces(p, i, k) => Announces(p, i, k)'
    BY <1>1, <1>3 DEF Announces
  <2>3. ver'[k] # ver[k] => Fences(p, i, k)' \/ Announces(p, i, k)'
    BY <1>1, <1>4 DEF Fences, Announces
  <2> QED BY <1>1, <2>1, <2>2, <2>3, InboxKept
<1>7. \A i, k : Announces(p, i, k)' => Fenced(i, k)'
  BY DEF Fenced
<1> QED BY <1>2, <1>6, <1>7, DutySettles

LEMMA SettlesScanReturns ==
  ASSUME TypeInv, NothingFails, NEW p \in Procs, ScanReturns(p)
  PROVE  Settles
<1>1. /\ UNCHANGED <<ver, inbox, gen, l1, key>> /\ pc[p] = "scan"
      /\ op' = [op EXCEPT ![p] = "deletePattern"]
      /\ todo' = [todo EXCEPT ![p] = PatternKeys]
      /\ nextShard' = [nextShard EXCEPT ![p] = 0]
      /\ pc' = [pc EXCEPT ![p] = "bump"]
  BY DEF ScanReturns, TurnToL1, Goto, NothingFails, redis, cached
<1>2. \A q \in Procs \ {p} : SameDuty(q)
  BY <1>1 DEF SameDuty, TypeInv, TypeOK
<1>3. op'[p] = "deletePattern" /\ nextShard'[p] = 0 /\ pc'[p] = "bump"
  BY <1>1 DEF TypeInv, TypeOK
<1>5. key[p] = NoKey /\ NoKey \notin Keys /\ \A k \in Keys : 0 <= ShardOf[k]
  BY <1>1, ConstantsAssumption DEF TypeInv, Legal, Shards
<1>6. ASSUME NEW i \in Instances, NEW k \in Keys
      PROVE  /\ Fences(p, i, k) => Fences(p, i, k)'
             /\ ~Erases(p, i, k)
             /\ Announces(p, i, k) => Announces(p, i, k)'
             /\ (\E n \in 1 .. Len(inbox[i]) : Tells(i, n, k)) => Fenced(i, k)'
             /\ ver'[k] = ver[k]
  <2>1. (Fences(p, i, k) => Fences(p, i, k)') /\ ~Erases(p, i, k)
    BY <1>1, <1>3, <1>5 DEF Fences, Erases
  <2>2. Announces(p, i, k) => Announces(p, i, k)'
    BY <1>1, <1>3, <1>5 DEF Announces
  <2> QED BY <1>1, <2>1, <2>2, InboxKept
<1>7. \A i, k : Announces(p, i, k)' => Fenced(i, k)'
  BY DEF Fenced
<1> QED BY <1>2, <1>6, <1>7, DutySettles

\* A guard is bumped, and the key is still to be erased.
LEMMA SettlesBump ==
  ASSUME TypeInv, NothingFails, PatternsKept, NEW p \in Procs, BumpShard(p)
  PROVE  Settles
<1> DEFINE last == nextShard[p] + 1 = ShardCount
<1>1. /\ UNCHANGED <<ver, inbox, l1, todo>> /\ pc[p] = "bump"
      /\ gen' = [gen EXCEPT ![Home(p)][nextShard[p]] = gen[Home(p)][nextShard[p]] + 1]
      /\ nextShard' = [nextShard EXCEPT ![p] = IF last THEN 0 ELSE nextShard[p] + 1]
      /\ Proceed(p, IF last THEN "erase" ELSE "bump")
  BY DEF BumpShard, NothingFails, redis, cached
<1>2. UNCHANGED <<op, key>> /\ pc' = [pc EXCEPT ![p] = IF last THEN "erase" ELSE "bump"]
  BY <1>1 DEF Proceed, Goto
<1>3. \A q \in Procs \ {p} : SameDuty(q)
  BY <1>1, <1>2 DEF SameDuty, TypeInv, TypeOK
<1>4. /\ pc'[p] = IF last THEN "erase" ELSE "bump"
      /\ nextShard'[p] = IF last THEN 0 ELSE nextShard[p] + 1
  BY <1>1, <1>2 DEF TypeInv, TypeOK
<1>5. /\ nextShard[p] \in Shards /\ key[p] = NoKey /\ NoKey \notin Keys
      /\ Home(p) \in Instances /\ gen \in [Instances -> [Shards -> Nat]]
      /\ PatternKeys \subseteq todo[p] /\ \A k \in Keys : ShardOf[k] \in Shards
  BY <1>1, ConstantsAssumption, HomeType DEF TypeInv, TypeOK, Legal, PatternsKept
<1>6. ASSUME NEW i \in Instances, NEW k \in Keys
      PROVE  /\ Fences(p, i, k) => Fences(p, i, k)' \/ gen'[i][ShardOf[k]] # gen[i][ShardOf[k]]
             /\ Fences(p, i, k) \/ Erases(p, i, k) => Erases(p, i, k)'
             /\ Announces(p, i, k) => Announces(p, i, k)'
             /\ (\E n \in 1 .. Len(inbox[i]) : Tells(i, n, k)) => Fenced(i, k)'
             /\ ver'[k] = ver[k]
  <2>1. ASSUME Fences(p, i, k)
        PROVE  Fences(p, i, k)' \/ gen'[i][ShardOf[k]] # gen[i][ShardOf[k]]
    <3>1. i = Home(p) /\ k \in PatternKeys /\ nextShard[p] <= ShardOf[k]
      BY <1>1, <1>5, <2>1 DEF Fences
    <3>2. CASE nextShard[p] = ShardOf[k]
      <4>1. gen[i][ShardOf[k]] \in Nat /\ gen'[i][ShardOf[k]] = gen[i][ShardOf[k]] + 1
        BY <1>1, <1>5, <3>1, <3>2
      <4> QED BY <4>1
    <3>3. CASE nextShard[p] # ShardOf[k]
      <4>1. nextShard[p] + 1 <= ShardOf[k] /\ nextShard[p] + 1 # ShardCount
        BY <1>5, <3>1, <3>3, ConstantsAssumption DEF Shards
      <4> QED BY <1>4, <3>1, <4>1 DEF Fences, Home
    <3> QED BY <3>2, <3>3
  <2>2. Fences(p, i, k) \/ Erases(p, i, k) => Erases(p, i, k)'
    BY <1>1, <1>4, <1>5 DEF Fences, Erases, Home
  <2>3. Announces(p, i, k) => Announces(p, i, k)'
    BY <1>1, <1>2, <1>4, <1>5 DEF Announces, Home
  <2> QED BY <1>1, <2>1, <2>2, <2>3, InboxKept
<1>7. \A i, k : Announces(p, i, k)' => Fenced(i, k)'
  BY DEF Fenced
<1> QED BY <1>3, <1>6, <1>7, DutySettles

LEMMA SettlesErase ==
  ASSUME TypeInv, NothingFails, NEW p \in Procs, (\E j \in Keys : EraseKey(p, j)) \/ EraseReturns(p)
  PROVE  Settles
<1>t. /\ pc[p] = "erase" /\ Home(p) \in Instances /\ l1 \in [Instances -> [Keys -> Nat]]
      /\ todo \in [Procs -> SUBSET Keys]
      /\ op[p] \in {"deletePattern", "invalidatePattern"} /\ key[p] = NoKey /\ NoKey \notin Keys
  BY HomeType, ConstantsAssumption DEF EraseKey, EraseReturns, TypeInv, TypeOK, Legal
<1>1. UNCHANGED <<ver, inbox, gen, nextShard>>
  BY DEF EraseKey, EraseReturns, redis, cached
<1>2. ASSUME NEW j \in Keys, EraseKey(p, j)
      PROVE  /\ \A q \in Procs \ {p} : SameDuty(q)
             /\ UNCHANGED <<pc, op, key>>
             /\ \A k \in Keys : k \in todo[p] => k \in todo'[p] \/ l1'[Home(p)][k] = 0
  <2>1. /\ UNCHANGED <<pc, op, key>>
        /\ todo' = [todo EXCEPT ![p] = todo[p] \ {j}]
        /\ l1' = [l1 EXCEPT ![Home(p)][j] = 0]
    BY <1>2 DEF EraseKey
  <2>2. \A q \in Procs \ {p} : SameDuty(q)
    BY <1>1, <1>t, <2>1 DEF SameDuty
  <2> QED BY <1>t, <2>1, <2>2
<1>3. ASSUME EraseReturns(p)
      PROVE  /\ \A q \in Procs \ {p} : SameDuty(q)
             /\ todo[p] = {}
             /\ op[p] = "deletePattern" => pc'[p] = "publish" /\ op'[p] = op[p]
  <2>1. /\ todo[p] = {} /\ todo' = [todo EXCEPT ![p] = {}]
        /\ Proceed(p, After(op[p], "erase"))
    BY <1>3 DEF EraseReturns, NothingFails
  <2>2. todo' = todo
    BY <1>t, <2>1
  <2>3. After(op[p], "erase") = IF op[p] = "deletePattern" THEN "publish" ELSE "idle"
    BY DEF After
  <2> QED BY <1>1, <2>1, <2>2, <2>3, ProceedDuty DEF Steps
<1>4. \A q \in Procs \ {p} : SameDuty(q)
  BY <1>2, <1>3
<1>6. ASSUME NEW i \in Instances, NEW k \in Keys
      PROVE  /\ ~Fences(p, i, k)
             /\ Erases(p, i, k) => Erases(p, i, k)' \/ l1'[i][k] = NoEntry
             /\ Announces(p, i, k) => Announces(p, i, k)'
             /\ (\E n \in 1 .. Len(inbox[i]) : Tells(i, n, k)) => Fenced(i, k)'
             /\ ver'[k] = ver[k]
  <2>1. ~Fences(p, i, k)
    BY <1>t DEF Fences
  <2>2. Erases(p, i, k) => Erases(p, i, k)' \/ l1'[i][k] = NoEntry
    BY <1>t, <1>2, <1>3 DEF Erases
  <2>3. Announces(p, i, k) => Announces(p, i, k)'
    BY <1>t, <1>2, <1>3 DEF Announces
  <2> QED BY <1>1, <2>1, <2>2, <2>3, InboxKept
<1>7. \A i, k : Announces(p, i, k)' => Fenced(i, k)'
  BY DEF Fenced
<1> QED BY <1>4, <1>6, <1>7, DutySettles

\* The listener takes over what a message stands for.
LEMMA SettlesListen ==
  ASSUME TypeInv, NEW j \in Subscribed, Listen(j)
  PROVE  Settles
<1> DEFINE message == Head(inbox[j])
<1>p. j \in Procs /\ j \in Instances /\ Home(j) = j
  BY ConstantsAssumption DEF Procs, Home
<1>1. /\ UNCHANGED <<ver, gen, l1>> /\ pc[j] = "idle" /\ inbox[j] # <<>>
      /\ inbox' = [inbox EXCEPT ![j] = Tail(inbox[j])]
      /\ \/ UNCHANGED <<pc, op, key, todo, nextShard>> /\ message.origin = j
         \/ /\ message.origin # j /\ message.type = "key"
            /\ UNCHANGED <<todo, nextShard>>
            /\ op' = [op EXCEPT ![j] = "invalidate"]
            /\ key' = [key EXCEPT ![j] = message.value]
            /\ pc' = [pc EXCEPT ![j] = "commit"]
         \/ /\ message.origin # j /\ message.type = "pattern"
            /\ op' = [op EXCEPT ![j] = "invalidatePattern"]
            /\ key' = [key EXCEPT ![j] = NoKey]
            /\ todo' = [todo EXCEPT ![j] = PatternKeys]
            /\ nextShard' = [nextShard EXCEPT ![j] = 0]
            /\ pc' = [pc EXCEPT ![j] = "bump"]
  BY DEF Listen, Receives, Goto, TurnToL1, redis, cached, pattern
<1>2. \A q \in Procs \ {j} : SameDuty(q)
  BY <1>1 DEF SameDuty, TypeInv, TypeOK
<1>3. /\ message.origin # j /\ message.type = "key" => pc'[j] = "commit" /\ key'[j] = message.value
      /\ message.origin # j /\ message.type = "pattern" => pc'[j] = "bump" /\ nextShard'[j] = 0
  BY <1>p, <1>1 DEF TypeInv, TypeOK
<1>4. inbox \in [Instances -> Seq(Messages)]
  BY DEF TypeInv, TypeOK
<1>5. ASSUME NEW i \in Instances, NEW k \in Keys, NEW n \in 1 .. Len(inbox[i]), Tells(i, n, k)
      PROVE  Fenced(i, k)'
  <2>1. CASE i # j
    <3>1. inbox'[i] = inbox[i]
      BY <1>1, <1>4, <2>1
    <3> QED BY <1>5, <3>1, InboxKept
  <2>2. CASE i = j /\ n = 1
    <3>1. /\ message.origin # j
          /\ \/ message.type = "pattern" /\ k \in PatternKeys
             \/ message.type = "key" /\ message.value = k
      BY <1>1, <1>4, <1>5, <2>2 DEF Tells
    <3>2. ShardOf[k] \in Nat
      BY ConstantsAssumption DEF Shards
    <3>3. Fences(j, j, k)'
      BY <1>p, <1>3, <3>1, <3>2 DEF Fences, Home
    <3> QED BY <1>p, <2>2, <3>3 DEF Fenced
  <2>3. CASE i = j /\ n # 1
    <3>1. inbox[j] \in Seq(Messages) /\ n \in 2 .. Len(inbox[j]) /\ inbox'[j] = Tail(inbox[j])
      BY <1>p, <1>1, <1>4, <2>3
    <3>2. PICK m \in 1 .. Len(inbox'[j]) : inbox'[j][m] = inbox[j][n]
      <4>1. n - 1 \in 1 .. Len(inbox'[j]) /\ inbox'[j][n - 1] = inbox[j][n]
        BY <3>1
      <4> QED BY <4>1
    <3> QED BY <1>5, <2>3, <3>2 DEF Tells, Fenced
  <2> QED BY <2>1, <2>2, <2>3
<1>6. ASSUME NEW i \in Instances, NEW k \in Keys
      PROVE  ~Fences(j, i, k) /\ ~Erases(j, i, k) /\ ~Announces(j, i, k) /\ ver'[k] = ver[k]
  BY <1>1 DEF Fences, Erases, Announces
<1> QED BY <1>p, <1>2, <1>5, <1>6, DutySettles

LEMMA SettlesNext ==
  ASSUME TypeInv, NothingFails, PatternsKept, [Next]_vars
  PROVE  Settles
<1>1. \A i \in Instances : lifecycle'[i] = "open" => lifecycle[i] = "open"
  BY LifecycleFalls
<1>2. ASSUME NEW p \in Procs, MutationStep(p) PROVE Settles
  BY <1>1, <1>2, SettlesCommit, SettlesForget, SettlesPublish, SettlesScan, SettlesScanReturns,
     SettlesBump, SettlesErase DEF MutationStep
<1>3. ASSUME NEW p \in Clients, Invoke(p) PROVE Settles
  BY <1>3, SettlesSet, SettlesPlainly DEF Invoke
<1>4. ASSUME NEW i \in Subscribed, Listen(i) PROVE Settles
  BY <1>4, SettlesListen
<1>5. ASSUME \/ \E p \in Procs : ReadStep(p) \/ CloseStep(p) \/ TimerFires(p)
             \/ \E i \in Instances, k \in Keys : TimerForgets(i, k) \/ LocalExpire(i, k)
             \/ \E k \in Keys : RemoteExpire(k)
             \/ UNCHANGED vars
      PROVE  Settles
  BY <1>5, SettlesPlainly
<1> QED BY <1>2, <1>3, <1>4, <1>5 DEF Next, Step

\* The keys of a pattern operation.
LEMMA PatternsStay ==
  ASSUME TypeInv, PatternsKept, [Next]_vars
  PROVE  PatternsKept'
<1> DEFINE Same(q) == pc'[q] = pc[q] /\ todo'[q] = todo[q]
           Kept(q) == \/ Same(q)
                      \/ pc'[q] \notin {"bump", "scan"}
                      \/ pc'[q] = "bump" /\ todo'[q] = PatternKeys
                      \/ pc'[q] = "scan" /\ todo'[q] \subseteq PatternKeys
<1> SUFFICES \A q \in Procs : Kept(q)
  BY DEF PatternsKept
<1>t. /\ pc \in [Procs -> Steps] /\ op \in [Procs -> Operations] /\ todo \in [Procs -> SUBSET Keys]
  BY DEF TypeInv, TypeOK
<1>1. ASSUME NEW p \in Procs, Kept(p),
             \E step : pc' = [pc EXCEPT ![p] = step],
             \E s : todo' = todo \/ todo' = [todo EXCEPT ![p] = s]
      PROVE  \A q \in Procs : Kept(q)
  BY <1>t, <1>1
<1>2. ASSUME NEW p \in Procs, Finish(p) PROVE \A q \in Procs : Kept(q)
  BY <1>2 DEF Finish, pattern
<1>3. ASSUME NEW p \in Procs, ReadStep(p) \/ CloseStep(p), ~Finish(p) PROVE \A q \in Procs : Kept(q)
  <2>1. \E step \in Steps \ {"bump", "scan"} : pc' = [pc EXCEPT ![p] = step]
    BY <1>3 DEF ReadStep, CloseStep, Lead, Join, InnerLocal, Begin, GetWithTTL, CommitRead, Return,
       CloseLocal, CloseAgain, Proceed, Goto, Steps, FlightSteps
  <2>2. todo' = todo
    BY <1>3 DEF ReadStep, CloseStep, Lead, Join, InnerLocal, Begin, GetWithTTL, CommitRead, Return,
       CloseLocal, CloseAgain, pattern
  <2>3. pc'[p] \notin {"bump", "scan"}
    BY <1>t, <2>1
  <2> QED BY <1>1, <2>1, <2>2, <2>3
<1>4. ASSUME NEW p \in Procs, CommitMutation(p) \/ ForgetFlight(p) \/ Publish(p) \/ EraseReturns(p)
      PROVE  \A q \in Procs : Kept(q)
  <2>1. \E step \in {"idle", "forget", "publish", "commit"} : pc' = [pc EXCEPT ![p] = step]
    <3>1. /\ After(op[p], "commit") \in {"idle", "forget"}
          /\ After(op[p], "forget") \in {"idle", "publish"}
          /\ After(op[p], "publish") \in {"idle", "commit"}
          /\ After(op[p], "erase") \in {"idle", "publish"}
      BY DEF After
    <3>2. \/ Goto(p, After(op[p], "commit")) \/ Goto(p, After(op[p], "forget"))
          \/ Goto(p, After(op[p], "publish")) \/ Goto(p, After(op[p], "erase"))
      BY <1>4 DEF CommitMutation, ForgetFlight, Publish, EraseReturns, Proceed
    <3> QED BY <3>1, <3>2 DEF Goto
  <2>2. todo' = todo \/ \E s : todo' = [todo EXCEPT ![p] = s]
    BY <1>4 DEF CommitMutation, ForgetFlight, Publish, EraseReturns, pattern
  <2>3. pc'[p] \notin {"bump", "scan"}
    BY <1>t, <2>1
  <2> QED BY <1>1, <2>1, <2>2, <2>3
<1>5. ASSUME NEW p \in Procs, (\E k \in Keys : ScanDelete(p, k)) \/ ScanReturns(p) \/ BumpShard(p)
                              \/ \E k \in Keys : EraseKey(p, k)
      PROVE  \A q \in Procs : Kept(q)
  <2>1. CASE \E k \in Keys : ScanDelete(p, k) \/ EraseKey(p, k)
    <3>1. /\ pc' = pc /\ pc[p] \in {"scan", "erase"}
          /\ \E k \in Keys : todo' = [todo EXCEPT ![p] = todo[p] \ {k}]
      BY <2>1 DEF ScanDelete, EraseKey
    <3>2. pc[p] = "scan" => todo'[p] \subseteq PatternKeys
      BY <1>t, <3>1 DEF PatternsKept
    <3> QED BY <1>t, <3>1, <3>2
  <2>2. CASE ScanReturns(p)
    <3>1. pc' = [pc EXCEPT ![p] = "bump"] /\ todo' = [todo EXCEPT ![p] = PatternKeys]
      BY <2>2 DEF ScanReturns, TurnToL1, Goto
    <3> QED BY <1>t, <3>1
  <2>3. CASE BumpShard(p)
    <3>1. After(op[p], "erase") \in {"idle", "publish"}
      BY DEF After
    <3>2. \/ Goto(p, "bump") /\ todo' = todo
          \/ /\ Goto(p, "erase") \/ Goto(p, After(op[p], "erase"))
             /\ todo' = todo \/ todo' = [todo EXCEPT ![p] = {}]
      BY <2>3 DEF BumpShard, Proceed
    <3>3. CASE Goto(p, "bump") /\ todo' = todo
      <4>1. pc' = [pc EXCEPT ![p] = "bump"] /\ pc[p] = "bump"
        BY <2>3, <3>3 DEF Goto, BumpShard
      <4> QED BY <1>t, <3>3, <4>1
    <3>4. CASE ~(Goto(p, "bump") /\ todo' = todo)
      <4>1. \E step \in {"erase", "idle", "publish"} : pc' = [pc EXCEPT ![p] = step]
        BY <3>1, <3>2, <3>4 DEF Goto
      <4> QED BY <1>t, <3>2, <3>4, <4>1
    <3> QED BY <3>3, <3>4
  <2> QED BY <1>5, <2>1, <2>2, <2>3
<1>6. ASSUME NEW p \in Clients, Invoke(p) PROVE \A q \in Procs : Kept(q)
  <2>p. p \in Procs
    BY DEF Procs
  <2>1. CASE DeletePattern(p)
    <3>1. /\ pc' = [pc EXCEPT ![p] = "scan"]
          /\ todo' = [todo EXCEPT ![p] = {k \in PatternKeys : live[k]}]
      BY <2>1 DEF DeletePattern, Goto
    <3> QED BY <1>t, <2>p, <3>1
  <2>2. CASE InvalidateLocalPattern(p)
    <3>1. pc' = [pc EXCEPT ![p] = "bump"] /\ todo' = [todo EXCEPT ![p] = PatternKeys]
      BY <2>2 DEF InvalidateLocalPattern, TurnToL1, Goto
    <3> QED BY <1>t, <2>p, <3>1
  <2>3. CASE ~DeletePattern(p) /\ ~InvalidateLocalPattern(p)
    <3>1. todo' = todo
      BY <1>6, <2>3 DEF Invoke, GetLocal, SetRemote, DeleteRemote, InvalidateLocal, Close, pattern
    <3>2. \E step \in Steps \ {"bump", "scan"} : pc' = [pc EXCEPT ![p] = step]
      BY <1>6, <2>3 DEF Invoke, GetLocal, SetRemote, DeleteRemote, InvalidateLocal, Close, Proceed,
         Goto, Steps
    <3> QED BY <1>t, <2>p, <3>1, <3>2
  <2> QED BY <2>1, <2>2, <2>3
<1>7. ASSUME NEW i \in Subscribed, Listen(i) PROVE \A q \in Procs : Kept(q)
  <2>1. \/ UNCHANGED <<pc, todo>>
        \/ pc' = [pc EXCEPT ![i] = "commit"] /\ todo' = todo
        \/ pc' = [pc EXCEPT ![i] = "bump"] /\ todo' = [todo EXCEPT ![i] = PatternKeys]
    BY <1>7 DEF Listen, TurnToL1, Goto, pattern
  <2> QED BY <1>t, <2>1
<1>8. ASSUME \/ \E p \in Procs : TimerFires(p)
             \/ \E i \in Instances, k \in Keys : TimerForgets(i, k) \/ LocalExpire(i, k)
             \/ \E k \in Keys : RemoteExpire(k)
             \/ UNCHANGED vars
      PROVE  \A q \in Procs : Kept(q)
  BY <1>8 DEF TimerFires, TimerForgets, LocalExpire, RemoteExpire, vars, pattern
<1>9. ASSUME NEW p \in Procs, Step(p) PROVE \A q \in Procs : Kept(q)
  BY <1>2, <1>3, <1>4, <1>5, <1>9 DEF Step, MutationStep, ReadStep, CloseStep
<1> QED BY <1>6, <1>7, <1>8, <1>9 DEF Next

\* When nothing fails, whatever the stores, keys, shards and patterns, an entry
\* of an open store's L1 that is not what Redis last had is owed an invalidation:
\* by a call or a listener of that store that has still to bump the guard or
\* erase the key, by a call of another store that has still to publish, or by a
\* message.  So L1 is wrong only while somebody is about to put it right.
THEOREM StaleCopiesAreOwed == ASSUME NothingFails PROVE Spec => []StaleIsOwed
<1>1. Init => StaleInv
  <2> SUFFICES ASSUME Init PROVE StaleInv
    OBVIOUS
  <2>1. /\ \A p \in Procs : pc[p] = "idle"
        /\ \A i \in Instances, k \in Keys : l1[i][k] = NoEntry
    BY DEF Init
  <2> QED BY <2>1 DEF StaleInv, PatternsKept, StaleFlightsFenced, StaleCopiesDiscarded
<1>2. TypeInv /\ Fencing /\ StaleInv /\ [Next]_vars => StaleInv'
  <2> SUFFICES ASSUME TypeInv, Fencing, StaleInv, [Next]_vars PROVE StaleInv'
    OBVIOUS
  <2>1. Settles /\ Moderate /\ PatternsKept'
    BY SettlesNext, ModerateNext, PatternsStay DEF StaleInv
  <2> QED BY <2>1, StaleKeeps DEF StaleInv, Fencing
<1>3. TypeInv /\ StaleInv => StaleIsOwed
  <2> SUFFICES ASSUME TypeInv, StaleInv, NEW i \in Instances, NEW k \in Keys,
                      lifecycle[i] = "open", l1[i][k] \notin {NoEntry, ver[k]}
               PROVE  Owed(i, k)
    BY DEF StaleIsOwed
  <2>1. Discarded(i, k)
    BY DEF StaleInv, StaleCopiesDiscarded
  <2>2. ASSUME NEW q \in Procs, Fences(q, i, k) \/ Announces(q, i, k) PROVE Owed(i, k)
    BY <2>2 DEF Owed, Owes, Fences, Announces
  <2>3. ASSUME NEW q \in Procs, Erases(q, i, k) PROVE Owed(i, k)
    <3>1. pc[q] = "bump" => k \in PatternKeys
      BY <2>3 DEF Erases, StaleInv, PatternsKept
    <3> QED BY <2>3, <3>1 DEF Owed, Owes, Erases
  <2>4. ASSUME NEW n \in 1 .. Len(inbox[i]), Tells(i, n, k) PROVE Owed(i, k)
    BY <2>4 DEF Owed, Tells
  <2> QED BY <2>1, <2>2, <2>3, <2>4 DEF Discarded, Fenced
<1> QED BY <1>1, <1>2, <1>3, TypeInvariant, FencingInvariant, PTL DEF Spec

-----------------------------------------------------------------------------
(* What a call or listener owes its own L1. *)

\* A step pays what it stops p from owing.
Paid(p) ==
  \A k \in Keys : Owes(p, k) /\ ~Owes(p, k)' /\ ~LocalMayFail /\ L1Patterns
                    => l1'[Home(p)][k] = NoEntry

Owing == {"commit", "forget", "publish", "scan", "bump", "erase"}

LEMMA NothingDue == ASSUME NEW q \in Procs, pc[q] \notin Owing PROVE Paid(q)
  BY DEF Paid, Owes, Owing

LEMMA StillDue ==
  ASSUME NEW q \in Procs, UNCHANGED <<pc[q], op[q], key[q], todo[q]>> PROVE Paid(q)
  BY DEF Paid, Owes

\* A step of p leaves what the others owe alone.
LEMMA OthersDue ==
  ASSUME TypeInv, NEW p \in Procs, Paid(p),
         NEW step, pc' = pc \/ pc' = [pc EXCEPT ![p] = step],
         NEW o, op' = op \/ op' = [op EXCEPT ![p] = o],
         NEW k, key' = key \/ key' = [key EXCEPT ![p] = k],
         NEW keys, todo' = todo \/ todo' = [todo EXCEPT ![p] = keys]
  PROVE  \A q \in Procs : Paid(q)
<1>1. ASSUME NEW q \in Procs \ {p} PROVE Paid(q)
  <2>1. UNCHANGED <<pc[q], op[q], key[q], todo[q]>>
    BY DEF TypeInv, TypeOK
  <2> QED BY <2>1, StillDue
<1> QED BY <1>1

LEMMA PaidCommit ==
  ASSUME TypeInv, NEW p \in Procs, CommitMutation(p)
  PROVE  Paid(p)
<1> SUFFICES ASSUME NEW k \in Keys, Owes(p, k), ~LocalMayFail
             PROVE  l1'[Home(p)][k] = NoEntry
  BY DEF Paid
<1>1. key[p] = k /\ Home(p) \in Instances
  BY HomeType DEF Owes, CommitMutation
<1>2. l1 \in [Instances -> [Keys -> Nat]] /\ l1' = [l1 EXCEPT ![Home(p)][k] = NoEntry]
  BY <1>1 DEF CommitMutation, TypeInv, TypeOK
<1> QED BY ONLY <1>1, <1>2, k \in Keys

LEMMA PaidErase ==
  ASSUME TypeInv, NEW p \in Procs, NEW m \in Keys, EraseKey(p, m)
  PROVE  Paid(p)
<1> SUFFICES ASSUME NEW k \in Keys, Owes(p, k), ~Owes(p, k)'
             PROVE  l1'[Home(p)][k] = NoEntry
  BY DEF Paid
<1>1. pc[p] = "erase" /\ pc' = pc /\ todo' = [todo EXCEPT ![p] = todo[p] \ {m}]
  BY DEF EraseKey
<1>2. k \in todo[p] /\ k \notin todo'[p]
  BY <1>1 DEF Owes
<1>3. k = m
  BY <1>1, <1>2 DEF TypeInv, TypeOK
<1>4. /\ l1 \in [Instances -> [Keys -> Nat]] /\ l1' = [l1 EXCEPT ![Home(p)][k] = NoEntry]
      /\ Home(p) \in Instances
  BY <1>3, HomeType DEF EraseKey, TypeInv, TypeOK
<1> QED BY ONLY <1>4, k \in Keys

LEMMA PaidMutation ==
  ASSUME TypeInv, PatternsKept, NEW p \in Procs, MutationStep(p)
  PROVE  Paid(p)
<1>t. /\ pc \in [Procs -> Steps] /\ op \in [Procs -> Operations]
      /\ key \in [Procs -> Keys \cup {NoKey}] /\ todo \in [Procs -> SUBSET Keys]
  BY DEF TypeInv, TypeOK
<1>1. CASE CommitMutation(p) \/ \E k \in Keys : EraseKey(p, k)
  BY <1>1, PaidCommit, PaidErase
<1>2. ASSUME ForgetFlight(p) \/ Publish(p) PROVE Paid(p)
  <2>1. CASE op[p] = "set"
    <3>1. /\ pc[p] \in {"forget", "publish"} /\ key' = key /\ op' = op
          /\ pc'[p] \in {"publish", "commit"}
      BY <1>t, <1>2, <2>1 DEF ForgetFlight, Publish, After, Proceed, Goto
    <3> QED BY <2>1, <3>1 DEF Paid, Owes
  <2>2. CASE op[p] # "set"
    BY <1>2, <2>2 DEF Paid, Owes, ForgetFlight, Publish
  <2> QED BY <2>1, <2>2
<1>3. CASE \E k \in Keys : ScanDelete(p, k)
  <2>1. pc[p] = "scan" /\ pc' = pc
    BY <1>3 DEF ScanDelete
  <2> QED BY <2>1 DEF Paid, Owes
<1>4. CASE ScanReturns(p)
  <2>1. pc[p] = "scan" /\ pc'[p] = "bump"
    BY <1>t, <1>4 DEF ScanReturns, TurnToL1, Goto
  <2> QED BY <2>1 DEF Paid, Owes
<1>5. CASE BumpShard(p)
  <2> SUFFICES ASSUME NEW k \in Keys, Owes(p, k), L1Patterns PROVE Owes(p, k)'
    BY DEF Paid
  <2>1. pc[p] = "bump" /\ pc'[p] \in {"bump", "erase"} /\ todo' = todo
    BY <1>t, <1>5 DEF BumpShard, Proceed, Goto
  <2>2. k \in PatternKeys /\ todo[p] = PatternKeys
    BY <2>1 DEF Owes, PatternsKept
  <2> QED BY <2>1, <2>2 DEF Owes
<1>6. CASE EraseReturns(p)
  BY <1>6 DEF EraseReturns, Paid, Owes
<1> QED BY <1>1, <1>2, <1>3, <1>4, <1>5, <1>6 DEF MutationStep

LEMMA AllPaid ==
  ASSUME TypeInv, PatternsKept, [Next]_vars
  PROVE  \A q \in Procs : Paid(q)
<1>t. pc \in [Procs -> Steps] /\ op \in [Procs -> Operations]
  BY DEF TypeInv, TypeOK
<1>1. ASSUME NEW p \in Procs, MutationStep(p) PROVE \A q \in Procs : Paid(q)
  <2>1. /\ \E step : pc' = pc \/ pc' = [pc EXCEPT ![p] = step]
        /\ \E o : op' = op \/ op' = [op EXCEPT ![p] = o]
        /\ \E k : key' = key \/ key' = [key EXCEPT ![p] = k]
        /\ \E keys : todo' = todo \/ todo' = [todo EXCEPT ![p] = keys]
    BY <1>1 DEF MutationStep, CommitMutation, ForgetFlight, Publish, ScanDelete, ScanReturns,
       BumpShard, EraseKey, EraseReturns, TurnToL1, Proceed, Goto, pattern
  <2> QED BY <1>1, <2>1, PaidMutation, OthersDue
<1>2. ASSUME NEW p \in Procs, ReadStep(p) \/ CloseStep(p), ~Finish(p) PROVE \A q \in Procs : Paid(q)
  <2>1. /\ \E step : pc' = [pc EXCEPT ![p] = step]
        /\ \E o : op' = op \/ op' = [op EXCEPT ![p] = o]
        /\ \E k : key' = key \/ key' = [key EXCEPT ![p] = k]
        /\ todo' = todo
    BY <1>2 DEF ReadStep, CloseStep, Lead, Join, InnerLocal, Begin, GetWithTTL, CommitRead, Return,
       CloseLocal, CloseAgain, Proceed, Goto, pattern
  <2>2. pc[p] \notin Owing
    BY <1>2 DEF ReadStep, CloseStep, Lead, Join, InnerLocal, Begin, GetWithTTL, CommitRead, Return,
       CloseLocal, CloseAgain, Owing
  <2> QED BY <2>1, <2>2, NothingDue, OthersDue
<1>3. ASSUME NEW p \in Procs, Finish(p) PROVE \A q \in Procs : Paid(q)
  <2>1. /\ UNCHANGED <<op, key, todo>> /\ pc[p] = "finish"
        /\ \A q \in Procs : pc'[q] = IF q \in Released(p) THEN "return" ELSE pc[q]
    BY <1>3 DEF Finish, pattern
  <2>2. ASSUME NEW q \in Procs PROVE Paid(q)
    <3>1. CASE q \in Released(p)
      <4>1. pc[q] \notin Owing
        BY <2>1, <3>1 DEF Released, Owing
      <4> QED BY <4>1, NothingDue
    <3>2. CASE q \notin Released(p)
      BY <2>1, <3>2, StillDue
    <3> QED BY <3>1, <3>2
  <2> QED BY <2>2
<1>4. ASSUME NEW p \in Clients, Invoke(p) PROVE \A q \in Procs : Paid(q)
  <2>1. p \in Procs /\ pc[p] = "idle"
    BY <1>4 DEF Procs, Invoke, GetLocal, SetRemote, DeleteRemote, InvalidateLocal, DeletePattern,
       InvalidateLocalPattern, Close, Call, May
  <2>2. /\ \E step : pc' = [pc EXCEPT ![p] = step]
        /\ \E o : op' = op \/ op' = [op EXCEPT ![p] = o]
        /\ \E k : key' = key \/ key' = [key EXCEPT ![p] = k]
        /\ \E keys : todo' = todo \/ todo' = [todo EXCEPT ![p] = keys]
    BY <1>4 DEF Invoke, GetLocal, SetRemote, DeleteRemote, InvalidateLocal, DeletePattern,
       InvalidateLocalPattern, Close, TurnToL1, Proceed, Goto, pattern
  <2> QED BY <2>1, <2>2, NothingDue, OthersDue DEF Owing
<1>5. ASSUME NEW i \in Subscribed, Listen(i) PROVE \A q \in Procs : Paid(q)
  <2>1. i \in Procs /\ pc[i] = "idle"
    BY <1>5, ConstantsAssumption DEF Procs, Listen
  <2>2. /\ \E step : pc' = pc \/ pc' = [pc EXCEPT ![i] = step]
        /\ \E o : op' = op \/ op' = [op EXCEPT ![i] = o]
        /\ \E k : key' = key \/ key' = [key EXCEPT ![i] = k]
        /\ \E keys : todo' = todo \/ todo' = [todo EXCEPT ![i] = keys]
    BY <1>5 DEF Listen, TurnToL1, Goto, pattern
  <2> QED BY <2>1, <2>2, NothingDue, OthersDue DEF Owing
<1>6. ASSUME \/ \E p \in Procs : TimerFires(p)
             \/ \E i \in Instances, k \in Keys : TimerForgets(i, k) \/ LocalExpire(i, k)
             \/ \E k \in Keys : RemoteExpire(k)
             \/ UNCHANGED vars
      PROVE  \A q \in Procs : Paid(q)
  <2>1. UNCHANGED <<pc, op, key, todo>>
    BY <1>6 DEF TimerFires, TimerForgets, LocalExpire, RemoteExpire, vars, pattern
  <2> QED BY <2>1, StillDue
<1>7. ASSUME NEW p \in Procs, Step(p) PROVE \A q \in Procs : Paid(q)
  BY <1>1, <1>2, <1>3, <1>7 DEF Step
<1> QED BY <1>4, <1>5, <1>6, <1>7 DEF Next

\* Whatever the stores, keys, shards and patterns, and however Redis, Pub/Sub and
\* the timers fail: a call or listener that has turned to invalidating a key is
\* not done with it before the key is out of its own L1, as long as L1 itself
\* does not fail and can delete patterns.
THEOREM DebtsPaid == Spec => DebtsArePaid
<1>1. Init => PatternsKept
  BY DEF Init, PatternsKept
<1>2. TypeInv /\ PatternsKept /\ [Next]_vars => PatternsKept'
  BY PatternsStay
<1>3. TypeInv /\ PatternsKept /\ [Next]_vars =>
        [\A p \in Procs, k \in Keys :
           Owes(p, k) /\ ~Owes(p, k)' /\ ~LocalMayFail /\ L1Patterns
             => l1'[Home(p)][k] = NoEntry]_vars
  BY AllPaid DEF Paid
<1> QED BY <1>1, <1>2, <1>3, TypeInvariant, PTL DEF Spec, DebtsArePaid

-----------------------------------------------------------------------------
(* Backfills of one store.  A flight that its timer has not released is the *)
(* one in the group, so no two of a key may backfill, until a Forget has     *)
(* released a flight of the key that was not marked.                        *)

Unreleased(p) == pc[p] \in FlightSteps /\ ~superseded[p]

\* No Forget has released an unmarked flight of p's key.
Orderly(p) == ~forgets[Home(p)][key[p]].stray

UnreleasedRegistered ==
  \A p \in Procs : Unreleased(p) /\ Orderly(p) => calls[Home(p)][key[p]] = p
UnreleasedNewer ==
  \A p \in Procs : pc[p] = "commitRead" /\ ~superseded[p] /\ Orderly(p)
                     => data[p] >= l1[Home(p)][key[p]]

ApartInv == UnreleasedRegistered /\ UnreleasedNewer

\* What a step may do to p.
Tame(p) ==
  Unreleased(p)' /\ Orderly(p)' =>
    \/ /\ Unreleased(p) /\ Orderly(p) /\ key'[p] = key[p]
       /\ calls'[Home(p)][key[p]] = calls[Home(p)][key[p]]
    \/ pc'[p] = "inner" /\ calls'[Home(p)][key'[p]] = p

LEMMA TameKeeps ==
  ASSUME TypeInv, TypeInv', ApartInv, Moderate, CopiesBelowRedis', \A p \in Procs : Tame(p)
  PROVE  ApartInv'
<1>1. UnreleasedRegistered'
  BY DEF Tame, ApartInv, UnreleasedRegistered
<1>2. ASSUME NEW p \in Procs, pc'[p] = "commitRead", ~superseded'[p], Orderly(p)'
      PROVE  data'[p] >= l1'[Home(p)][key'[p]]
  <2>1. /\ key'[p] \in Keys /\ Home(p) \in Instances
        /\ data'[p] \in Nat /\ l1'[Home(p)][key'[p]] \in Nat /\ ver'[key'[p]] \in Nat
    BY <1>2, HomeType DEF TypeInv, TypeOK, Legal, ReadSteps, FlightSteps
  <2>2. CASE data'[p] = ver'[key'[p]]
    BY <2>1, <2>2 DEF CopiesBelowRedis
  <2>3. CASE pc[p] = "commitRead" /\ key'[p] = key[p] /\ data'[p] = data[p]
    <3>1. Unreleased(p) /\ Orderly(p)
      BY <1>2 DEF Tame, Unreleased, FlightSteps
    <3>2. data[p] >= l1[Home(p)][key[p]] /\ calls[Home(p)][key[p]] = p
      BY <2>3, <3>1 DEF Unreleased, ApartInv, UnreleasedNewer, UnreleasedRegistered
    <3>3. \A q \in Procs : pc[q] = "commitRead" /\ ~superseded[q] /\ Home(q) = Home(p) /\ key[q] = key[p]
                             => q = p
      BY <3>1, <3>2 DEF Unreleased, Orderly, FlightSteps, ApartInv, UnreleasedRegistered
    <3>4. l1'[Home(p)][key[p]] \in {l1[Home(p)][key[p]], 0, data[p]}
      BY <2>1, <2>3, <3>3 DEF Moderate
    <3> QED BY <2>1, <2>3, <3>2, <3>4
  <2> QED BY <1>2, <2>2, <2>3 DEF Moderate
<1> QED BY <1>1, <1>2 DEF ApartInv, UnreleasedNewer

LEMMA OthersTame ==
  ASSUME NEW q \in Procs, UNCHANGED <<pc[q], key[q], superseded[q]>>,
         Orderly(q)' => Orderly(q),
         Unreleased(q) /\ Orderly(q) => calls'[Home(q)][key[q]] = calls[Home(q)][key[q]]
  PROVE  Tame(q)
  BY DEF Tame, Unreleased

\* p itself does not lead a flight, and the step releases none.
LEMMA TameBeside ==
  ASSUME TypeInv, NEW p \in Procs, NEW step, NEW k,
         pc' = [pc EXCEPT ![p] = step], step \notin FlightSteps,
         key' = key \/ key' = [key EXCEPT ![p] = k],
         superseded' = superseded \/ superseded' = [superseded EXCEPT ![p] = FALSE],
         UNCHANGED <<calls, forgets>>
  PROVE  \A q \in Procs : Tame(q)
<1>1. ASSUME NEW q \in Procs \ {p} PROVE Tame(q)
  <2>1. UNCHANGED <<pc[q], key[q], superseded[q]>>
    BY DEF TypeInv, TypeOK
  <2> QED BY <2>1, OthersTame DEF Orderly
<1>2. pc'[p] = step
  BY DEF TypeInv, TypeOK
<1>3. Tame(p)
  BY <1>2 DEF Tame, Unreleased
<1> QED BY <1>1, <1>3

LEMMA TameFlight ==
  ASSUME TypeInv, ApartInv, NEW p \in Procs,
         InnerLocal(p) \/ Begin(p) \/ GetWithTTL(p) \/ CommitRead(p)
  PROVE  \A q \in Procs : Tame(q)
<1>1. /\ UNCHANGED <<key, calls, forgets, superseded>> /\ pc[p] \in FlightSteps
      /\ \E step \in FlightSteps : pc' = [pc EXCEPT ![p] = step]
  BY DEF InnerLocal, Begin, GetWithTTL, CommitRead, Goto, reading, FlightSteps
<1>2. ASSUME NEW q \in Procs \ {p} PROVE Tame(q)
  <2>1. pc'[q] = pc[q]
    BY <1>1 DEF TypeInv, TypeOK
  <2> QED BY <1>1, <2>1, OthersTame DEF Orderly
<1>3. Tame(p)
  BY <1>1 DEF Tame, Unreleased, Orderly
<1> QED BY <1>2, <1>3

LEMMA TameLead ==
  ASSUME TypeInv, ApartInv, NEW p \in Procs, Lead(p)
  PROVE  \A q \in Procs : Tame(q)
<1>1. /\ UNCHANGED <<key, forgets>> /\ pc[p] = "do"
      /\ pc' = [pc EXCEPT ![p] = "inner"]
      /\ calls[Home(p)][key[p]] = NoCall
      /\ calls' = [calls EXCEPT ![Home(p)][key[p]] = p]
      /\ superseded' = [superseded EXCEPT ![p] = FALSE]
  BY DEF Lead, Goto, Registered, InFlight
<1>2. /\ calls \in [Instances -> [Keys -> Clients \cup {NoCall}]]
      /\ \A q \in Procs : Home(q) \in Instances
      /\ p \in Clients /\ key[p] \in Keys /\ NoCall \notin Clients
  BY <1>1, HomeType, ConstantsAssumption DEF TypeInv, TypeOK, Legal, ReadSteps
<1>3. ASSUME NEW q \in Procs \ {p} PROVE Tame(q)
  <2>1. UNCHANGED <<pc[q], superseded[q]>>
    BY <1>1 DEF TypeInv, TypeOK
  <2>2. ASSUME Unreleased(q), Orderly(q)
        PROVE  calls'[Home(q)][key[q]] = calls[Home(q)][key[q]]
    <3>1. calls[Home(q)][key[q]] = q /\ q \in Clients /\ key[q] \in Keys
      BY <2>2 DEF ApartInv, UnreleasedRegistered, Unreleased, TypeInv, Legal, ReadSteps
    <3>2. ~(Home(q) = Home(p) /\ key[q] = key[p])
      BY <1>1, <1>2, <3>1
    <3> QED BY <1>1, <1>2, <3>1, <3>2
  <2> QED BY <1>1, <2>1, <2>2, OthersTame DEF Orderly
<1>4. Tame(p)
  <2>1. pc'[p] = "inner" /\ calls'[Home(p)][key[p]] = p
    BY <1>1, <1>2 DEF TypeInv, TypeOK
  <2> QED BY <1>1, <2>1 DEF Tame
<1> QED BY <1>3, <1>4

LEMMA TameFinish ==
  ASSUME TypeInv, ApartInv, NEW p \in Procs, Finish(p)
  PROVE  \A q \in Procs : Tame(q)
<1>1. /\ UNCHANGED <<key, superseded, forgets>> /\ pc[p] = "finish"
      /\ calls' = [calls EXCEPT ![Home(p)] = Finished(calls[Home(p)], key[p], p)]
      /\ \A q \in Procs : pc'[q] = IF q \in Released(p) THEN "return" ELSE pc[q]
  BY DEF Finish, reading
<1>2. calls \in [Instances -> [Keys -> Clients \cup {NoCall}]] /\ \A q \in Procs : Home(q) \in Instances
  BY HomeType DEF TypeInv, TypeOK
<1>3. ASSUME NEW q \in Procs, q \in Released(p) PROVE Tame(q)
  <2>1. pc'[q] = "return"
    BY <1>1, <1>3
  <2> QED BY <2>1 DEF Tame, Unreleased, FlightSteps
<1>4. ASSUME NEW q \in Procs, q \notin Released(p) PROVE Tame(q)
  <2>1. pc'[q] = pc[q] /\ q # p
    BY <1>1, <1>4 DEF Released
  <2>2. ASSUME Unreleased(q), Orderly(q)
        PROVE  calls'[Home(q)][key[q]] = calls[Home(q)][key[q]]
    <3>1. calls[Home(q)][key[q]] = q /\ key[q] \in Keys
      BY <2>2 DEF ApartInv, UnreleasedRegistered, Unreleased, TypeInv, Legal, ReadSteps
    <3>2. CASE calls[Home(p)][key[p]] # p
      BY <1>1, <1>2, <3>2 DEF Finished
    <3>3. CASE calls[Home(p)][key[p]] = p
      <4>1. calls' = [calls EXCEPT ![Home(p)][key[p]] = NoCall]
        BY <1>1, <3>3 DEF Finished, Forgotten
      <4> QED BY <1>2, <2>1, <3>1, <3>3, <4>1
    <3> QED BY <3>2, <3>3
  <2> QED BY <1>1, <2>1, <2>2, OthersTame DEF Orderly
<1> QED BY <1>3, <1>4

\* What Forget does to the key it is called for, and that it does nothing else.
LEMMA ForgetCells ==
  ASSUME TypeInv, NEW i \in Instances, NEW k \in Keys, NEW due \in Nat, Forget(i, k, due)
  PROVE  /\ forgets'[i][k].stray = (forgets[i][k].stray \/ (calls[i][k] # NoCall /\ ~superseded[calls[i][k]]))
         /\ \A j \in Instances, m \in Keys : j # i \/ m # k =>
              calls'[j][m] = calls[j][m] /\ forgets'[j][m] = forgets[j][m]
<1>1. /\ calls \in [Instances -> [Keys -> Clients \cup {NoCall}]]
      /\ forgets \in [Instances -> [Keys -> [due : Nat, stray : BOOLEAN]]]
  BY DEF TypeInv, TypeOK
<1> DEFINE unmarked == calls[i][k] # NoCall /\ ~superseded[calls[i][k]]
           cell == [due |-> due, stray |-> forgets[i][k].stray \/ unmarked]
<1>2. /\ calls' = [calls EXCEPT ![i] = [calls[i] EXCEPT ![k] = NoCall]]
      /\ forgets' = [forgets EXCEPT ![i][k] = cell]
  BY DEF Forget, Forgotten, InFlight
<1>3. cell.stray = (forgets[i][k].stray \/ unmarked)
  OBVIOUS
<1> HIDE DEF cell
<1>4. forgets'[i][k] = cell
  BY ONLY <1>1, <1>2, i \in Instances, k \in Keys
<1>5. \A j \in Instances, m \in Keys : j # i \/ m # k =>
        calls'[j][m] = calls[j][m] /\ forgets'[j][m] = forgets[j][m]
  BY ONLY <1>1, <1>2, i \in Instances, k \in Keys
<1> QED BY <1>3, <1>4, <1>5

\* A Forget either is the stray one or releases a marked flight, or none.
LEMMA TameForget ==
  ASSUME TypeInv, ApartInv, NEW i \in Instances, NEW k \in Keys, NEW due \in Nat,
         Forget(i, k, due), NEW q \in Procs, UNCHANGED <<pc[q], key[q], superseded>>
  PROVE  Tame(q)
<1> SUFFICES ASSUME Unreleased(q), Orderly(q)'
             PROVE  Orderly(q) /\ calls'[Home(q)][key[q]] = calls[Home(q)][key[q]]
  BY DEF Tame, Unreleased
<1>1. q \in Clients /\ key[q] \in Keys /\ Home(q) \in Instances
  BY HomeType DEF Unreleased, TypeInv, Legal, ReadSteps
<1>2. CASE Home(q) = i /\ key[q] = k
  <2>1. ~forgets[i][k].stray /\ ~(calls[i][k] # NoCall /\ ~superseded[calls[i][k]])
    BY <1>2, ForgetCells DEF Orderly
  <2>2. calls[i][k] = q
    BY <1>2, <2>1 DEF ApartInv, UnreleasedRegistered, Orderly
  <2> QED BY <1>1, <2>1, <2>2, ConstantsAssumption DEF Unreleased
<1>3. CASE Home(q) # i \/ key[q] # k
  BY <1>1, <1>3, ForgetCells DEF Orderly
<1> QED BY <1>2, <1>3

\* A timer whose goroutine goes on at once releases the flight that it marks.
LEMMA TameTimer ==
  ASSUME TypeInv, ApartInv, NEW p \in Procs, TimerFires(p)
  PROVE  \A q \in Procs : Tame(q)
<1>1. /\ UNCHANGED <<pc, key>> /\ pc[p] \in FlightSteps /\ ~superseded[p]
      /\ superseded' = [superseded EXCEPT ![p] = TRUE]
  BY DEF TimerFires
<1>2. /\ calls \in [Instances -> [Keys -> Clients \cup {NoCall}]]
      /\ forgets \in [Instances -> [Keys -> [due : Nat, stray : BOOLEAN]]]
      /\ \A q \in Procs : Home(q) \in Instances
      /\ key[p] \in Keys
  BY <1>1, HomeType DEF TypeInv, TypeOK, Legal, ReadSteps
<1>3. ASSUME NEW q \in Procs \ {p}, Unreleased(q), Orderly(q)'
      PROVE  Orderly(q) /\ calls'[Home(q)][key[q]] = calls[Home(q)][key[q]]
  <2>1. key[q] \in Keys
    BY <1>3 DEF Unreleased, TypeInv, Legal, ReadSteps
  <2>2. CASE calls' = [calls EXCEPT ![Home(p)] = Forgotten(calls[Home(p)], key[p])] /\ forgets' = forgets
    <3>1. Orderly(q)
      BY <1>1, <1>3, <2>2 DEF Orderly
    <3>2. ~(Home(q) = Home(p) /\ key[q] = key[p])
      BY <1>1, <1>3, <3>1 DEF ApartInv, UnreleasedRegistered, Unreleased, Orderly
    <3> QED BY <1>2, <2>1, <2>2, <3>1, <3>2 DEF Forgotten
  <2>3. CASE /\ forgets' = [forgets EXCEPT ![Home(p)][key[p]].due = forgets[Home(p)][key[p]].due + 1]
             /\ calls' = calls
    <3>1. forgets'[Home(q)][key[q]].stray = forgets[Home(q)][key[q]].stray
      BY ONLY <1>2, <2>1, <2>3, q \in Procs
    <3> QED BY <1>1, <1>3, <2>3, <3>1 DEF Orderly
  <2> QED BY <2>2, <2>3 DEF TimerFires
<1>4. ASSUME NEW q \in Procs \ {p} PROVE Tame(q)
  <2>1. superseded'[q] = superseded[q]
    BY <1>1 DEF TypeInv, TypeOK
  <2> QED BY <1>1, <1>3, <2>1 DEF Tame, Unreleased
<1>5. Tame(p)
  <2>1. superseded'[p] = TRUE
    BY <1>1 DEF TypeInv, TypeOK
  <2> QED BY <2>1 DEF Tame, Unreleased
<1> QED BY <1>4, <1>5

LEMMA TameRead ==
  ASSUME TypeInv, ApartInv, NEW p \in Procs, ReadStep(p)
  PROVE  \A q \in Procs : Tame(q)
<1>1. CASE Join(p)
  <2>1. UNCHANGED <<key, superseded, calls, forgets>> /\ pc' = [pc EXCEPT ![p] = "wait"]
    BY <1>1 DEF Join, Goto
  <2> QED BY <2>1, TameBeside DEF FlightSteps
<1>2. CASE Return(p)
  <2>1. /\ key' = [key EXCEPT ![p] = NoKey] /\ UNCHANGED <<calls, forgets>>
        /\ superseded' = [superseded EXCEPT ![p] = FALSE]
        /\ pc' = [pc EXCEPT ![p] = "idle"]
    BY <1>2 DEF Return, Proceed, Goto
  <2> QED BY <2>1, TameBeside DEF FlightSteps
<1> QED BY <1>1, <1>2, TameFlight, TameLead, TameFinish DEF ReadStep

LEMMA TameMutation ==
  ASSUME TypeInv, ApartInv, NEW p \in Procs, MutationStep(p)
  PROVE  \A q \in Procs : Tame(q)
<1>1. ASSUME NEW step, Proceed(p, step), UNCHANGED <<calls, forgets, superseded>>,
             step \in {"idle", "forget", "publish", "commit", "bump", "erase"}
      PROVE  \A q \in Procs : Tame(q)
  <2>1. /\ pc' = [pc EXCEPT ![p] = step]
        /\ key' = key \/ key' = [key EXCEPT ![p] = NoKey]
    BY <1>1 DEF Proceed, Goto
  <2> QED BY <1>1, <2>1, TameBeside DEF FlightSteps
<1>2. CASE CommitMutation(p)
  <2>1. After(op[p], "commit") \in {"idle", "forget"}
    BY DEF After
  <2> QED BY <1>1, <1>2, <2>1 DEF CommitMutation, reading
<1>3. CASE Publish(p)
  <2>1. After(op[p], "publish") \in {"idle", "commit"}
    BY DEF After
  <2> QED BY <1>1, <1>3, <2>1 DEF Publish, reading
<1>4. CASE BumpShard(p) \/ EraseReturns(p)
  <2>1. /\ UNCHANGED <<calls, forgets, superseded>>
        /\ Proceed(p, "bump") \/ Proceed(p, "erase") \/ Proceed(p, After(op[p], "erase"))
    BY <1>4 DEF BumpShard, EraseReturns, reading
  <2>2. After(op[p], "erase") \in {"idle", "publish"}
    BY DEF After
  <2> QED BY <1>1, <2>1, <2>2
<1>5. CASE ForgetFlight(p)
  <2>1. /\ key[p] \in Keys /\ Home(p) \in Instances
        /\ forgets[Home(p)][key[p]].due \in Nat
    BY <1>5, HomeType DEF ForgetFlight, TypeInv, TypeOK, Legal
  <2>2. /\ Forget(Home(p), key[p], forgets[Home(p)][key[p]].due) /\ UNCHANGED superseded
        /\ Proceed(p, After(op[p], "forget"))
    BY <1>5 DEF ForgetFlight, reading
  <2>3. pc' = [pc EXCEPT ![p] = After(op[p], "forget")] /\ \A q \in Procs \ {p} : key'[q] = key[q]
    BY <2>2 DEF Proceed, Goto, TypeInv, TypeOK
  <2>4. ASSUME NEW q \in Procs \ {p} PROVE Tame(q)
    <3>1. UNCHANGED <<pc[q], key[q], superseded>>
      BY <2>2, <2>3 DEF TypeInv, TypeOK
    <3> QED BY <2>1, <2>2, <3>1, TameForget
  <2>5. Tame(p)
    <3>1. After(op[p], "forget") \in {"idle", "publish"}
      BY DEF After
    <3>2. pc'[p] \in {"idle", "publish"}
      BY <2>3, <3>1 DEF TypeInv, TypeOK
    <3> QED BY <3>2 DEF Tame, Unreleased, FlightSteps
  <2> QED BY <2>4, <2>5
<1>6. CASE (\E k \in Keys : ScanDelete(p, k) \/ EraseKey(p, k)) \/ ScanReturns(p)
  <2>1. UNCHANGED <<key, calls, forgets, superseded>>
    BY <1>6 DEF ScanDelete, EraseKey, ScanReturns, reading
  <2>2. \E step \in {"scan", "bump", "erase"} : pc' = [pc EXCEPT ![p] = step]
    <3>1. ASSUME NEW k \in Keys, ScanDelete(p, k) \/ EraseKey(p, k)
          PROVE  pc' = pc /\ pc[p] \in {"scan", "erase"}
      BY <3>1 DEF ScanDelete, EraseKey
    <3>2. pc = [pc EXCEPT ![p] = pc[p]]
      BY DEF TypeInv, TypeOK
    <3>3. ScanReturns(p) => pc' = [pc EXCEPT ![p] = "bump"]
      BY DEF ScanReturns, TurnToL1, Goto
    <3> QED BY <1>6, <3>1, <3>2, <3>3
  <2> QED BY <2>1, <2>2, TameBeside DEF FlightSteps
<1> QED BY <1>2, <1>3, <1>4, <1>5, <1>6 DEF MutationStep

LEMMA TameInvoke ==
  ASSUME TypeInv, NEW p \in Clients, Invoke(p)
  PROVE  \A q \in Procs : Tame(q)
<1>1. p \in Procs /\ UNCHANGED <<calls, forgets, superseded>>
  BY DEF Procs, Invoke, GetLocal, SetRemote, DeleteRemote, InvalidateLocal, DeletePattern,
         InvalidateLocalPattern, Close, reading
<1>2. \E step \in {"do", "return", "forget", "commit", "idle", "scan", "bump", "drain", "close"} :
        pc' = [pc EXCEPT ![p] = step]
  BY DEF Invoke, GetLocal, SetRemote, DeleteRemote, InvalidateLocal, DeletePattern,
         InvalidateLocalPattern, Close, TurnToL1, Proceed, Goto
<1>3. key' = key \/ \E k : key' = [key EXCEPT ![p] = k]
  BY DEF Invoke, GetLocal, SetRemote, DeleteRemote, InvalidateLocal, DeletePattern,
         InvalidateLocalPattern, Close, Proceed
<1> QED BY <1>1, <1>2, <1>3, TameBeside DEF FlightSteps

LEMMA TameRest ==
  ASSUME TypeInv, ApartInv,
         \/ \E p \in Procs : CloseStep(p)
         \/ \E i \in Subscribed : Listen(i)
         \/ \E i \in Instances, k \in Keys : TimerForgets(i, k) \/ LocalExpire(i, k)
         \/ \E k \in Keys : RemoteExpire(k)
         \/ UNCHANGED vars
  PROVE  \A q \in Procs : Tame(q)
<1>1. ASSUME NEW p \in Procs, CloseStep(p) PROVE \A q \in Procs : Tame(q)
  <2>1. Proceed(p, "idle") /\ UNCHANGED <<calls, forgets, superseded>>
    BY <1>1 DEF CloseStep, CloseLocal, CloseAgain, reading
  <2> QED BY <2>1, TameBeside DEF Proceed, Goto, FlightSteps
<1>2. ASSUME NEW i \in Subscribed, Listen(i) PROVE \A q \in Procs : Tame(q)
  <2>1. i \in Procs
    BY ConstantsAssumption DEF Procs
  <2>2. /\ UNCHANGED <<calls, forgets, superseded>>
        /\ \/ UNCHANGED <<pc, key>>
           \/ /\ \E k : key' = [key EXCEPT ![i] = k]
              /\ \E step \in {"commit", "bump"} : pc' = [pc EXCEPT ![i] = step]
    BY <1>2 DEF Listen, TurnToL1, Goto, reading
  <2>3. CASE UNCHANGED <<pc, key>>
    BY <2>2, <2>3, OthersTame DEF Orderly
  <2>4. CASE ~UNCHANGED <<pc, key>>
    BY <2>1, <2>2, <2>4, TameBeside DEF FlightSteps
  <2> QED BY <2>3, <2>4
<1>3. ASSUME NEW i \in Instances, NEW k \in Keys, TimerForgets(i, k)
      PROVE  \A q \in Procs : Tame(q)
  <2>1. UNCHANGED <<pc, key, superseded>> /\ Forget(i, k, forgets[i][k].due - 1)
    BY <1>3 DEF TimerForgets, reading
  <2>2. forgets[i][k].due - 1 \in Nat
    <3>1. forgets[i][k].due \in Nat
      BY DEF TypeInv, TypeOK
    <3> QED BY <1>3, <3>1 DEF TimerForgets
  <2> QED BY <2>1, <2>2, TameForget
<1>4. ASSUME \/ \E i \in Instances, k \in Keys : LocalExpire(i, k)
             \/ \E k \in Keys : RemoteExpire(k)
             \/ UNCHANGED vars
      PROVE  \A q \in Procs : Tame(q)
  <2>1. UNCHANGED <<pc, key, superseded, calls, forgets>>
    BY <1>4 DEF LocalExpire, RemoteExpire, vars, reading
  <2> QED BY <2>1, OthersTame DEF Orderly
<1> QED BY <1>1, <1>2, <1>3, <1>4

LEMMA ApartNext ==
  ASSUME TypeInv, ApartInv, [Next]_vars
  PROVE  \A q \in Procs : Tame(q)
  BY TameRead, TameMutation, TameInvoke, TameTimer, TameRest DEF Next, Step

\* Whatever the number of stores, readers, keys and timers, whatever fails and
\* however late a timer's goroutine is: until a Forget has released a flight of
\* the key that was not marked, the entry of an older flight does not replace
\* that of a newer one.  This is the conclusion of commitRead's comment, with
\* what it takes.
THEOREM BackfillsRise == Spec => NewerBackfillStays
<1>1. Init => ApartInv
  <2> SUFFICES ASSUME Init PROVE ApartInv
    OBVIOUS
  <2>1. \A p \in Procs : pc[p] = "idle"
    BY DEF Init
  <2> QED BY <2>1 DEF ApartInv, FlightSteps, UnreleasedRegistered, Unreleased, UnreleasedNewer
<1>2. TypeInv /\ TypeInv' /\ Fencing /\ ReadInv' /\ ApartInv /\ [Next]_vars => ApartInv'
  BY ApartNext, ModerateNext, TameKeeps DEF ReadInv
<1>3. ASSUME TypeInv, Fencing, ApartInv, [Next]_vars, NEW i \in Instances, NEW k \in Keys,
             ~forgets[i][k].stray, l1'[i][k] # NoEntry
      PROVE  l1'[i][k] >= l1[i][k]
  <2>1. l1[i][k] \in Nat
    BY <1>3 DEF TypeInv, TypeOK
  <2>2. CASE l1'[i][k] = l1[i][k]
    BY <2>1, <2>2
  <2>3. CASE \E p \in Procs : /\ pc[p] = "commitRead" /\ Home(p) = i /\ key[p] = k
                              /\ ~superseded[p] /\ l1'[i][k] = data[p]
    BY <1>3, <2>3 DEF ApartInv, UnreleasedNewer, Orderly
  <2>4. Moderate
    BY <1>3, ModerateNext
  <2> QED BY <1>3, <2>2, <2>3, <2>4 DEF Moderate
<1>4. TypeInv /\ Fencing /\ ApartInv /\ [Next]_vars =>
        [\A i \in Instances, k \in Keys :
           ~forgets[i][k].stray /\ l1'[i][k] # NoEntry => l1'[i][k] >= l1[i][k]]_vars
  BY <1>3
<1> QED BY <1>1, <1>2, <1>4, TypeInvariant, FencingInvariant, ReadInvariant, PTL DEF Spec, NewerBackfillStays
====
