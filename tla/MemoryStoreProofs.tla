-------------------------- MODULE MemoryStoreProofs --------------------------
(***************************************************************************)
(* Theorems about MemoryStore, for any number of clients, keys and items,  *)
(* any default expiration and any expire that callers pass.                *)
(***************************************************************************)
EXTENDS MemoryStore, TLAPS

\* What a goroutine may hold at each of its steps.
Legal(p) ==
  /\ pc[p] \in {"store", "load", "check", "drop", "hit", "remove"} => key[p] \in Keys
  /\ pc[p] \in {"store", "check", "drop", "hit"} => item[p] \in Item
  /\ began[p] <= now
  /\ pc[p] = "drop" => Expired(item[p], now)
  /\ pc[p] = "hit" => ~Expired(item[p], began[p])
  /\ op[p] = "clean" <=> p = Cleaner
  /\ pc[p] = "remove" => p # Cleaner

TypeInv == TypeOK /\ horizon <= now /\ \A p \in Procs : Legal(p)

LEMMA ProcsAre == Cleaner \in Procs /\ Clients \subseteq Procs /\ \A p \in Clients : p # Cleaner
  BY ConstantsAssumption DEF Procs

LEMMA InitType == Init => TypeInv
<1> SUFFICES ASSUME Init PROVE TypeInv
  OBVIOUS
<1>1. TypeOK
  <2>1. visited \in [Procs -> SUBSET Keys]
    BY DEF Init
  <2>2. due \in [Procs -> SUBSET Keys]
    BY DEF Init
  <2>3. /\ data \in [Keys -> Item \cup {NoItem}] /\ item \in [Procs -> Item \cup {NoItem}]
        /\ key \in [Procs -> Keys \cup {NoKey}] /\ began \in [Procs -> Nat]
    BY DEF Init
  <2>4. items \in 0 .. MaxItems /\ now \in 1 .. MaxTime /\ horizon \in Nat
    <3>1. MaxItems \in Nat /\ MaxTime \in Nat /\ MaxTime > 0
      BY ConstantsAssumption
    <3>2. items = 0 /\ now = 1 /\ horizon = 0
      BY DEF Init
    <3> QED BY ONLY <3>1, <3>2
  <2>5. pc \in [Procs -> Steps] /\ op \in [Procs -> Operations]
    BY DEF Init, Steps, Operations
  <2>6. stopped \in BOOLEAN
    BY DEF Init
  <2> QED BY <2>1, <2>2, <2>3, <2>4, <2>5, <2>6 DEF TypeOK
<1>2. ASSUME NEW p \in Procs PROVE Legal(p)
  BY ConstantsAssumption DEF Init, Legal
<1> QED BY <1>1, <1>2 DEF Init, TypeInv

\* What stays as it is for the goroutines beside p.
Beside(p) ==
  /\ now' = now
  /\ \A q \in Procs \ {p} : UNCHANGED <<pc[q], op[q], key[q], item[q], began[q]>>

LEMMA BesideLegal ==
  ASSUME TypeInv, NEW p \in Procs, Beside(p), Legal(p)'
  PROVE  \A q \in Procs : Legal(q)'
<1>1. ASSUME NEW q \in Procs \ {p} PROVE Legal(q)'
  BY DEF TypeInv, Legal, Beside, Expired
<1> QED BY <1>1

\* A call returns.
LEMMA ReturnType ==
  ASSUME TypeInv, NEW p \in Procs, Return(p), now' = now
  PROVE  /\ pc' \in [Procs -> Steps] /\ op' \in [Procs -> Operations]
         /\ key' \in [Procs -> Keys \cup {NoKey}] /\ item' \in [Procs -> Item \cup {NoItem}]
         /\ visited' \in [Procs -> SUBSET Keys] /\ began' \in [Procs -> Nat]
         /\ horizon' \in Nat /\ horizon' <= now
         /\ \A q \in Procs : Legal(q)'
<1>1. /\ pc' = [pc EXCEPT ![p] = "idle"]
      /\ op' = [op EXCEPT ![p] = IF p = Cleaner THEN "clean" ELSE "get"]
      /\ key' = [key EXCEPT ![p] = NoKey]
      /\ item' = [item EXCEPT ![p] = NoItem]
      /\ visited' = [visited EXCEPT ![p] = {}]
      /\ horizon' = IF p = Cleaner THEN 0 ELSE horizon
      /\ began' = [began EXCEPT ![p] = 0]
  BY DEF Return, Goto
<1>2. now \in Nat /\ horizon \in Nat /\ horizon <= now
  BY ConstantsAssumption DEF TypeInv, TypeOK
<1>3. visited' \in [Procs -> SUBSET Keys]
  BY <1>1 DEF TypeInv, TypeOK
<1>4. /\ pc' \in [Procs -> Steps] /\ op' \in [Procs -> Operations]
      /\ key' \in [Procs -> Keys \cup {NoKey}] /\ item' \in [Procs -> Item \cup {NoItem}]
      /\ began' \in [Procs -> Nat]
  BY <1>1 DEF TypeInv, TypeOK, Steps, Operations
<1>5. Beside(p)
  BY <1>1 DEF TypeInv, TypeOK, Beside
<1>6. Legal(p)'
  BY <1>1, <1>2 DEF TypeInv, TypeOK, Legal
<1> QED BY <1>1, <1>2, <1>3, <1>4, <1>5, <1>6, BesideLegal

\* What deletes or stores one key's item.
LEMMA DataType ==
  ASSUME TypeInv, NEW k, NEW i \in Item \cup {NoItem}
  PROVE  [data EXCEPT ![k] = i] \in [Keys -> Item \cup {NoItem}]
  BY DEF TypeInv, TypeOK

LEMMA DueType ==
  ASSUME TypeInv
  PROVE  /\ StillDue \in [Procs -> SUBSET Keys] /\ Present \in SUBSET Keys
<1>1. ASSUME NEW q \in Procs PROVE {k \in due[q] : data'[k] # NoItem} \in SUBSET Keys
  BY DEF TypeInv, TypeOK
<1> QED BY <1>1 DEF StillDue, Present

LEMMA EffectiveType ==
  ASSUME NEW expire \in Expires
  PROVE  Effective(expire) \in Int
  BY ConstantsAssumption DEF Effective

LEMMA CallType ==
  ASSUME TypeInv, NEW p \in Clients,
         \/ \E k \in Keys : Get(p, k) \/ Delete(p, k) \/ (\E expire \in Expires : Set(p, k, expire))
         \/ Sweep(p, "deletePattern") \/ Sweep(p, "flush")
  PROVE  TypeInv'
<1>0. p \in Procs /\ p # Cleaner /\ now \in Nat
  BY ProcsAre, ConstantsAssumption DEF TypeInv, TypeOK
<1>1. ASSUME NEW k \in Keys, Get(p, k) PROVE TypeInv'
  <2>1. TypeOK'
    BY <1>0, <1>1 DEF TypeInv, TypeOK, Get, Call, Goto, Steps, Operations
  <2>2. Beside(p) /\ Legal(p)' /\ horizon' <= now'
    BY <1>0, <1>1 DEF TypeInv, TypeOK, Beside, Legal, Get, Call, Goto
  <2> QED BY <1>0, <2>1, <2>2, BesideLegal DEF TypeInv
<1>2. ASSUME NEW k \in Keys, Delete(p, k) PROVE TypeInv'
  <2>1. TypeOK'
    BY <1>0, <1>2 DEF TypeInv, TypeOK, Delete, Call, Goto, Steps, Operations, call
  <2>2. Beside(p) /\ Legal(p)' /\ horizon' <= now'
    BY <1>0, <1>2 DEF TypeInv, TypeOK, Beside, Legal, Delete, Call, Goto, call
  <2> QED BY <1>0, <2>1, <2>2, BesideLegal DEF TypeInv
<1>3. ASSUME NEW k \in Keys, NEW expire \in Expires, Set(p, k, expire) PROVE TypeInv'
  <2>1. Expiration(expire) \in Nat
    BY <1>0, EffectiveType DEF Expiration
  <2>2. [id |-> items + 1, expiration |-> Expiration(expire)] \in Item /\ items + 1 \in 0 .. MaxItems
    BY <1>3, <2>1, ConstantsAssumption DEF Set, Item, TypeInv, TypeOK
  <2>3. TypeOK'
    BY <1>0, <1>3, <2>2 DEF TypeInv, TypeOK, Set, Call, Goto, Steps, Operations, call
  <2>4. Beside(p) /\ Legal(p)' /\ horizon' <= now'
    BY <1>0, <1>3, <2>2 DEF TypeInv, TypeOK, Beside, Legal, Set, Call, Goto, call
  <2> QED BY <1>0, <2>3, <2>4, BesideLegal DEF TypeInv
<1>4. ASSUME NEW o \in {"deletePattern", "flush"}, Sweep(p, o) PROVE TypeInv'
  <2>1. TypeOK'
    BY <1>0, <1>4, DueType DEF TypeInv, TypeOK, Sweep, Call, Goto, Steps, Operations
  <2>2. Beside(p) /\ Legal(p)' /\ horizon' <= now'
    BY <1>0, <1>4 DEF TypeInv, TypeOK, Beside, Legal, Sweep, Call, Goto
  <2> QED BY <1>0, <2>1, <2>2, BesideLegal DEF TypeInv
<1> QED BY <1>1, <1>2, <1>3, <1>4

LEMMA EndType ==
  ASSUME TypeInv, NEW p \in Procs, Store(p) \/ Hit(p) \/ EndOfRange(p)
  PROVE  TypeInv'
<1>1. Return(p) /\ UNCHANGED <<items, now, stopped, due>>
  BY DEF Store, Hit, EndOfRange
<1>2. data' \in [Keys -> Item \cup {NoItem}]
  BY DataType DEF Store, Hit, EndOfRange, TypeInv, TypeOK
<1> QED BY <1>1, <1>2, ReturnType DEF TypeInv, TypeOK

LEMMA LoadType ==
  ASSUME TypeInv, NEW p \in Procs, Load(p)
  PROVE  TypeInv'
<1>1. pc[p] = "load" /\ key[p] \in Keys /\ UNCHANGED <<data, items, now, stopped, due>>
  BY DEF Load, TypeInv, Legal
<1>2. CASE Return(p)
  BY <1>1, <1>2, ReturnType DEF TypeInv, TypeOK
<1>3. CASE /\ data[key[p]] # NoItem
           /\ item' = [item EXCEPT ![p] = data[key[p]]]
           /\ Goto(p, "check")
           /\ UNCHANGED <<op, key, visited, horizon, began>>
  <2>1. data[key[p]] \in Item
    BY <1>1, <1>3 DEF TypeInv, TypeOK
  <2>2. TypeOK'
    BY <1>1, <1>3, <2>1 DEF TypeInv, TypeOK, Goto, Steps
  <2>3. Beside(p) /\ Legal(p)' /\ horizon' <= now'
    BY <1>1, <1>3, <2>1 DEF TypeInv, TypeOK, Beside, Legal, Goto
  <2> QED BY <2>2, <2>3, BesideLegal DEF TypeInv
<1> QED BY <1>2, <1>3 DEF Load

LEMMA CheckType ==
  ASSUME TypeInv, NEW p \in Procs, Check(p)
  PROVE  TypeInv'
<1>1. /\ pc[p] = "check" /\ key[p] \in Keys /\ item[p] \in Item
      /\ UNCHANGED <<data, items, now, stopped, op, key, item, call>>
  BY DEF Check, TypeInv, Legal
<1>2. item[p].expiration \in Nat /\ now \in Nat /\ began[p] \in Nat /\ began[p] <= now
  BY <1>1, ConstantsAssumption DEF TypeInv, TypeOK, Legal, Item
<1>3. TypeOK'
  BY <1>1 DEF TypeInv, TypeOK, Check, Goto, Steps, call
<1>4. Beside(p) /\ Legal(p)' /\ horizon' <= now'
  BY <1>1, <1>2 DEF TypeInv, TypeOK, Beside, Legal, Check, Goto, Fresh, Expired, call
<1> QED BY <1>3, <1>4, BesideLegal DEF TypeInv

LEMMA RemoveType ==
  ASSUME TypeInv, NEW p \in Procs, Drop(p) \/ Remove(p)
  PROVE  TypeInv'
<1>1. /\ key[p] \in Keys /\ UNCHANGED <<items, now, stopped>> /\ due' = StillDue
      /\ pc[p] = "remove" => p # Cleaner
  BY DEF Drop, Remove, TypeInv, Legal
<1>2. data' \in [Keys -> Item \cup {NoItem}] /\ due' \in [Procs -> SUBSET Keys]
  <2>1. [data EXCEPT ![key[p]] = NoItem] \in [Keys -> Item \cup {NoItem}]
    BY DataType
  <2> QED BY <1>1, <2>1, DueType DEF Drop, Remove, Dropped, TypeInv, TypeOK
<1>3. CASE Return(p)
  BY <1>1, <1>2, <1>3, ReturnType DEF TypeInv, TypeOK
<1>4. CASE /\ Goto(p, "range") /\ key' = [key EXCEPT ![p] = NoKey]
           /\ item' = item \/ item' = [item EXCEPT ![p] = NoItem]
           /\ UNCHANGED <<op, visited, horizon, began>>
  <2>1. TypeOK'
    BY <1>1, <1>2, <1>4 DEF TypeInv, TypeOK, Goto, Steps
  <2>2. Beside(p) /\ Legal(p)' /\ horizon' <= now'
    BY <1>1, <1>4 DEF TypeInv, TypeOK, Beside, Legal, Goto
  <2> QED BY <2>1, <2>2, BesideLegal DEF TypeInv
<1> QED BY <1>3, <1>4 DEF Drop, Remove

LEMMA VisitType ==
  ASSUME TypeInv, NEW p \in Procs, NEW k \in Keys, Visit(p, k)
  PROVE  TypeInv'
<1>1. /\ pc[p] = "range" /\ data[k] \in Item
      /\ UNCHANGED <<data, items, now, stopped, op, horizon, began>>
      /\ visited' \in [Procs -> SUBSET Keys] /\ due' \in [Procs -> SUBSET Keys]
  BY DEF Visit, TypeInv, TypeOK
<1>2. CASE /\ op[p] = "clean" /\ Expired(data[k], horizon)
           /\ key' = [key EXCEPT ![p] = k]
           /\ item' = [item EXCEPT ![p] = data[k]]
           /\ Goto(p, "drop")
  <2>1. Expired(data[k], now)
    <3>1. data[k].expiration \in Nat /\ now \in Nat /\ horizon \in Nat /\ horizon <= now
      BY <1>1, ConstantsAssumption DEF TypeInv, TypeOK, Item
    <3> QED BY <1>2, <3>1 DEF Expired
  <2>2. TypeOK'
    BY <1>1, <1>2 DEF TypeInv, TypeOK, Goto, Steps
  <2>3. Beside(p) /\ Legal(p)' /\ horizon' <= now'
    BY <1>1, <1>2, <2>1 DEF TypeInv, TypeOK, Beside, Legal, Goto, Expired
  <2> QED BY <2>2, <2>3, BesideLegal DEF TypeInv
<1>3. CASE /\ op[p] # "clean"
           /\ key' = [key EXCEPT ![p] = k]
           /\ Goto(p, "remove")
           /\ item' = item
  <2>1. TypeOK'
    BY <1>1, <1>3 DEF TypeInv, TypeOK, Goto, Steps
  <2>2. Beside(p) /\ Legal(p)' /\ horizon' <= now'
    BY <1>1, <1>3 DEF TypeInv, TypeOK, Beside, Legal, Goto
  <2> QED BY <2>1, <2>2, BesideLegal DEF TypeInv
<1>4. CASE UNCHANGED <<pc, key, item>>
  <2>1. TypeOK'
    BY <1>1, <1>4 DEF TypeInv, TypeOK
  <2>2. Beside(p) /\ Legal(p)' /\ horizon' <= now'
    BY <1>1, <1>4 DEF TypeInv, TypeOK, Beside, Legal
  <2> QED BY <2>1, <2>2, BesideLegal DEF TypeInv
<1> QED BY <1>2, <1>3, <1>4 DEF Visit

LEMMA CleanerType ==
  ASSUME TypeInv, CleanerTicks \/ CleanerStops
  PROVE  TypeInv'
<1>0. Cleaner \in Procs /\ now \in Nat
  BY ProcsAre, ConstantsAssumption DEF TypeInv, TypeOK
<1>1. CASE CleanerTicks
  <2>1. TypeOK'
    BY <1>0, <1>1, DueType DEF TypeInv, TypeOK, CleanerTicks, Goto, Steps
  <2>2. Beside(Cleaner) /\ Legal(Cleaner)' /\ horizon' <= now'
    BY <1>0, <1>1 DEF TypeInv, TypeOK, Beside, Legal, CleanerTicks, Goto
  <2> QED BY <1>0, <2>1, <2>2, BesideLegal DEF TypeInv
<1>2. CASE CleanerStops
  <2>1. TypeOK'
    BY <1>0, <1>2 DEF TypeInv, TypeOK, CleanerStops, Goto, Steps, call
  <2>2. Beside(Cleaner) /\ Legal(Cleaner)' /\ horizon' <= now'
    BY <1>0, <1>2 DEF TypeInv, TypeOK, Beside, Legal, CleanerStops, Goto, call
  <2> QED BY <1>0, <2>1, <2>2, BesideLegal DEF TypeInv
<1> QED BY <1>1, <1>2

LEMMA ClockType ==
  ASSUME TypeInv, Close \/ Tick \/ UNCHANGED vars
  PROVE  TypeInv'
<1>1. UNCHANGED <<data, items, pc, op, key, item, visited, due, horizon, began>>
  BY DEF Close, Tick, vars, call
<1>2. now \in Nat /\ now' \in 1 .. MaxTime /\ now' >= now
  <2>1. MaxTime \in Nat /\ now \in 1 .. MaxTime
    BY ConstantsAssumption DEF TypeInv, TypeOK
  <2>2. now' = now \/ (now < MaxTime /\ now' = now + 1)
    BY DEF Close, Tick, vars
  <2> QED BY <2>1, <2>2
<1>3. TypeOK'
  <2>1. stopped' \in BOOLEAN /\ items' = items
    BY DEF Close, Tick, vars, TypeInv, TypeOK
  <2> QED BY <1>1, <1>2, <2>1 DEF TypeInv, TypeOK
<1>4. ASSUME NEW p \in Procs PROVE Legal(p)'
  <2>1. /\ began[p] \in Nat /\ began[p] <= now
        /\ pc[p] = "drop" => item[p].expiration \in Nat
    BY DEF TypeInv, TypeOK, Legal, Item
  <2> QED BY <1>1, <1>2, <2>1 DEF TypeInv, Legal, Expired
<1> QED BY <1>1, <1>2, <1>3, <1>4, ConstantsAssumption DEF TypeInv, TypeOK

LEMMA TypeInvariant == Spec => []TypeInv
<1>1. TypeInv /\ [Next]_vars => TypeInv'
  BY CallType, EndType, LoadType, CheckType, RemoveType, VisitType, CleanerType, ClockType
     DEF Next, Work
<1> QED BY <1>1, InitType, PTL DEF Spec

\* Every reachable state is well typed: no expiration is negative, no goroutine
\* deletes or stores under a key it does not have.
THEOREM TypeCorrect == Spec => []TypeOK
<1>1. TypeInv => TypeOK
  BY DEF TypeInv
<1> QED BY <1>1, TypeInvariant, PTL

\* Whatever happens to the map and the clock between a Get's load, its check
\* and its return, it returns nothing that had expired when it began.
THEOREM HitsHadNotExpired == Spec => []HitsAreFresh
<1>1. TypeInv => HitsAreFresh
  BY ProcsAre DEF TypeInv, Legal, HitsAreFresh
<1> QED BY <1>1, TypeInvariant, PTL

\* What one step does to a key that has an item which has not expired.
LEMMA FreshStays ==
  ASSUME TypeInv, [Next]_vars, NEW k \in Keys,
         data[k] # NoItem, ~Expired(data[k], now), data'[k] = NoItem
  PROVE  \E p \in Clients : pc[p] = "remove" /\ key[p] = k
<1>1. PICK p \in Procs : Store(p) \/ Drop(p) \/ Remove(p)
  BY DEF Next, Work, Get, Set, Delete, Sweep, Load, Check, Hit, Visit, EndOfRange,
     CleanerTicks, CleanerStops, Close, Tick, vars
<1>2. CASE Store(p)
  <2>1. item[p] \in Item /\ data' = [data EXCEPT ![key[p]] = item[p]]
    BY <1>2 DEF Store, TypeInv, Legal
  <2> QED BY <2>1, ConstantsAssumption DEF TypeInv, TypeOK
<1>3. CASE Drop(p)
  <2>1. Expired(item[p], now) /\ key[p] \in Keys /\ data' = Dropped(p)
    BY <1>3 DEF Drop, TypeInv, Legal
  <2> QED BY <2>1 DEF Dropped, TypeInv, TypeOK
<1>4. CASE Remove(p)
  <2>1. /\ pc[p] = "remove" /\ p # Cleaner /\ key[p] \in Keys
        /\ data' = [data EXCEPT ![key[p]] = NoItem]
    BY <1>4 DEF Remove, TypeInv, Legal
  <2> QED BY <2>1 DEF TypeInv, TypeOK, Procs
<1> QED BY <1>1, <1>2, <1>3, <1>4

\* For any number of Gets, sweeps and stores: what has not expired is not taken
\* away by a Get or the cleaner that looked at an older item.
THEOREM FreshWritesStay == Spec => NoLostWrite
<1>1. TypeInv /\ [Next]_vars =>
        [\A k \in Keys :
           data[k] # NoItem /\ ~Expired(data[k], now) /\ data'[k] = NoItem
             => \E p \in Clients : pc[p] = "remove" /\ key[p] = k]_vars
  BY FreshStays
<1> QED BY <1>1, TypeInvariant, PTL DEF Spec, NoLostWrite
=============================================================================
