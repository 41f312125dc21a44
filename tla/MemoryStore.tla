----------------------------- MODULE MemoryStore -----------------------------
(***************************************************************************)
(* persist.MemoryStore: a sync.Map from keys to items with an expiration,  *)
(* shared by its callers and a goroutine that removes what has expired.    *)
(* sync.Map is linearizable per key and Range is not a snapshot, so every  *)
(* call on the map is a step, and so is every reading of the clock that is *)
(* followed by one.                                                        *)
(*                                                                         *)
(* An item is a pointer in the code: its id stands for its identity.       *)
(***************************************************************************)
EXTENDS Integers, FiniteSets

CONSTANTS
  Clients,            \* goroutines that use the store
  Cleaner,            \* the goroutine of cleanupLoop
  Keys,
  PatternKeys,        \* the keys the one pattern of the model matches
  NoKey, NoItem,
  DefaultExpiration,
  Expires,            \* what callers of Set may pass
  MaxTime,            \* bound: readings of the clock
  MaxItems            \* bound: calls of Set

Procs == Clients \cup {Cleaner}

Item == [id : 1 .. MaxItems, expiration : Nat]

ASSUME ConstantsAssumption ==
  /\ Cleaner \notin Clients
  /\ NoKey \notin Keys
  /\ NoItem \notin Item
  /\ PatternKeys \subseteq Keys
  /\ DefaultExpiration \in Int
  /\ Expires \subseteq Int
  /\ MaxTime \in Nat \ {0}
  /\ MaxItems \in Nat

VARIABLES
  data,       \* MemoryStore.data
  items,      \* items made so far
  now,        \* the clock
  stopped,    \* stopCleanup is closed
  pc, op, key,
  item,       \* the item a Set has made, or a Get or a Range has loaded
  visited,    \* the keys a Range has passed
  due,        \* the keys it has still to pass
  horizon,    \* the time deleteExpired took before its Range
  began       \* history: when the current Get began

vars == <<data, items, now, stopped, pc, op, key, item, visited, due,
          horizon, began>>
call == <<visited, due, horizon, began>>

Operations == {"get", "set", "delete", "deletePattern", "flush", "clean"}

Steps == {"idle", "store", "load", "check", "drop", "hit", "remove", "range", "stopped"}

TypeOK ==
  /\ data \in [Keys -> Item \cup {NoItem}]
  /\ items \in 0 .. MaxItems
  /\ now \in 1 .. MaxTime
  /\ stopped \in BOOLEAN
  /\ pc \in [Procs -> Steps]
  /\ op \in [Procs -> Operations]
  /\ key \in [Procs -> Keys \cup {NoKey}]
  /\ item \in [Procs -> Item \cup {NoItem}]
  /\ visited \in [Procs -> SUBSET Keys]
  /\ due \in [Procs -> SUBSET Keys]
  /\ horizon \in Nat
  /\ began \in [Procs -> Nat]

Init ==
  /\ data = [k \in Keys |-> NoItem]
  /\ items = 0
  /\ now = 1
  /\ stopped = FALSE
  /\ pc = [p \in Procs |-> "idle"]
  /\ op = [p \in Procs |-> IF p = Cleaner THEN "clean" ELSE "get"]
  /\ key = [p \in Procs |-> NoKey]
  /\ item = [p \in Procs |-> NoItem]
  /\ visited = [p \in Procs |-> {}]
  /\ due = [p \in Procs |-> {}]
  /\ horizon = 0
  /\ began = [p \in Procs |-> 0]

Goto(p, step) == pc' = [pc EXCEPT ![p] = step]

\* p returns and its variables go out of scope.
Return(p) ==
  /\ Goto(p, "idle")
  /\ op' = [op EXCEPT ![p] = IF p = Cleaner THEN "clean" ELSE "get"]
  /\ key' = [key EXCEPT ![p] = NoKey]
  /\ item' = [item EXCEPT ![p] = NoItem]
  /\ visited' = [visited EXCEPT ![p] = {}]
  /\ horizon' = IF p = Cleaner THEN 0 ELSE horizon
  /\ began' = [began EXCEPT ![p] = 0]

\* An expiration of 0, from an expire that is negative or a default of 0, is
\* never reached.
Expired(i, time) == i.expiration > 0 /\ time > i.expiration

\* A Range passes every key that has an item from its beginning to its end; one
\* that is deleted or stored meanwhile it may pass or not.
StillDue == [q \in Procs |-> {k \in due[q] : data'[k] # NoItem}]
Present == {k \in Keys : data[k] # NoItem}

\* Whatever the key holds by now is deleted.
Dropped_Slip(p) == [data EXCEPT ![key[p]] = NoItem]

\* CompareAndDelete: the key's item goes only if it is the one that p loaded.
Dropped(p) == IF data[key[p]] = item[p] THEN [data EXCEPT ![key[p]] = NoItem] ELSE data

-----------------------------------------------------------------------------

Call(p, o, k) ==
  /\ p \in Clients
  /\ pc[p] = "idle"
  /\ op' = [op EXCEPT ![p] = o]
  /\ key' = [key EXCEPT ![p] = k]

Effective(expire) == IF expire = 0 THEN DefaultExpiration ELSE expire

\* The test for a negative expire is left out.
Expiration_Slip(expire) == IF Effective(expire) # 0 THEN now + Effective(expire) ELSE 0

\* A default stands in for an expire of 0; there is no expiration unless the
\* result is positive.
Expiration(expire) == IF Effective(expire) > 0 THEN now + Effective(expire) ELSE 0

\* SetWithContext computes the expiration ...
Set(p, k, expire) ==
  /\ Call(p, "set", k)
  /\ items < MaxItems
  /\ items' = items + 1
  /\ item' = [item EXCEPT ![p] = [id |-> items + 1, expiration |-> Expiration(expire)]]
  /\ Goto(p, "store")
  /\ UNCHANGED <<data, now, stopped, call>>

\* ... and stores the item.
Store(p) ==
  /\ pc[p] = "store"
  /\ data' = [data EXCEPT ![key[p]] = item[p]]
  /\ Return(p)
  /\ UNCHANGED <<items, now, stopped, due>>

\* Get is called; it loads the item, ...
Get(p, k) ==
  /\ Call(p, "get", k)
  /\ began' = [began EXCEPT ![p] = now]
  /\ Goto(p, "load")
  /\ UNCHANGED <<data, items, now, stopped, item, visited, due, horizon>>

Load(p) ==
  /\ pc[p] = "load"
  /\ IF data[key[p]] = NoItem
       THEN Return(p)
       ELSE /\ item' = [item EXCEPT ![p] = data[key[p]]]
            /\ Goto(p, "check")
            /\ UNCHANGED <<op, key, visited, horizon, began>>
  /\ UNCHANGED <<data, items, now, stopped, due>>

\* The item is not looked at.
Fresh_Slip(p) == TRUE

\* Whether Get's item has not expired by the clock that is read after the load.
Fresh(p) == ~Expired(item[p], now)

\* ... and decides; what has expired is removed.
Check(p) ==
  /\ pc[p] = "check"
  /\ Goto(p, IF Fresh(p) THEN "hit" ELSE "drop")
  /\ UNCHANGED <<data, items, now, stopped, op, key, item, call>>

Drop(p) ==
  /\ pc[p] = "drop"
  /\ data' = Dropped(p)
  /\ due' = StillDue
  /\ IF p = Cleaner
       THEN /\ Goto(p, "range")
            /\ key' = [key EXCEPT ![p] = NoKey]
            /\ item' = [item EXCEPT ![p] = NoItem]
            /\ UNCHANGED <<op, visited, horizon, began>>
       ELSE Return(p)
  /\ UNCHANGED <<items, now, stopped>>

Hit(p) ==
  /\ pc[p] = "hit"
  /\ Return(p)
  /\ UNCHANGED <<data, items, now, stopped, due>>

\* Delete
Delete(p, k) ==
  /\ Call(p, "delete", k)
  /\ Goto(p, "remove")
  /\ UNCHANGED <<data, items, now, stopped, item, call>>

\* Delete's and Range's calls of sync.Map.Delete
Remove(p) ==
  /\ pc[p] = "remove"
  /\ data' = [data EXCEPT ![key[p]] = NoItem]
  /\ due' = StillDue
  /\ IF op[p] = "delete"
       THEN Return(p)
       ELSE /\ Goto(p, "range")
            /\ key' = [key EXCEPT ![p] = NoKey]
            /\ UNCHANGED <<op, item, visited, horizon, began>>
  /\ UNCHANGED <<items, now, stopped>>

\* DeletePattern and Flush range over the map.
Sweep(p, o) ==
  /\ Call(p, o, NoKey)
  /\ o \in {"deletePattern", "flush"}
  /\ due' = [due EXCEPT ![p] = Present]
  /\ Goto(p, "range")
  /\ UNCHANGED <<data, items, now, stopped, item, visited, horizon, began>>

\* Range hands the key's item, if it has one, to its callback.
Visit(p, k) ==
  /\ pc[p] = "range"
  /\ k \notin visited[p]
  /\ data[k] # NoItem
  /\ visited' = [visited EXCEPT ![p] = @ \cup {k}]
  /\ due' = [due EXCEPT ![p] = @ \ {k}]
  /\ \/ /\ op[p] = "clean" /\ Expired(data[k], horizon)
        /\ key' = [key EXCEPT ![p] = k]
        /\ item' = [item EXCEPT ![p] = data[k]]
        /\ Goto(p, "drop")
     \/ /\ op[p] = "flush" \/ (op[p] = "deletePattern" /\ k \in PatternKeys)
        /\ key' = [key EXCEPT ![p] = k]
        /\ Goto(p, "remove")
        /\ item' = item
     \/ /\ \/ op[p] = "clean" /\ ~Expired(data[k], horizon)
           \/ op[p] = "deletePattern" /\ k \notin PatternKeys
        /\ UNCHANGED <<pc, key, item>>
  /\ UNCHANGED <<data, items, now, stopped, op, horizon, began>>

EndOfRange(p) ==
  /\ pc[p] = "range"
  /\ due[p] = {}
  /\ Return(p)
  /\ UNCHANGED <<data, items, now, stopped, due>>

\* The ticker of cleanupLoop: deleteExpired reads the clock once.
CleanerTicks ==
  /\ pc[Cleaner] = "idle"
  /\ horizon' = now
  /\ due' = [due EXCEPT ![Cleaner] = Present]
  /\ Goto(Cleaner, "range")
  /\ UNCHANGED <<data, items, now, stopped, op, key, item, visited, began>>

\* The channel is closed while nobody looks.
CleanerStops_Slip == FALSE

\* The other case of cleanupLoop's select.
CleanerStops ==
  /\ pc[Cleaner] = "idle"
  /\ stopped
  /\ Goto(Cleaner, "stopped")
  /\ UNCHANGED <<data, items, now, stopped, op, key, item, call>>

\* Close, which may be called again; a closed store still serves its callers.
Close ==
  /\ ~stopped
  /\ stopped' = TRUE
  /\ UNCHANGED <<data, items, now, pc, op, key, item, call>>

Tick ==
  /\ now < MaxTime
  /\ now' = now + 1
  /\ UNCHANGED <<data, items, stopped, pc, op, key, item, call>>

Work(p) ==
  \/ Store(p) \/ Load(p) \/ Check(p) \/ Drop(p) \/ Hit(p) \/ Remove(p)
  \/ (\E k \in Keys : Visit(p, k)) \/ EndOfRange(p)

Next ==
  \/ \E p \in Clients :
       \/ \E k \in Keys : Get(p, k) \/ Delete(p, k) \/ (\E expire \in Expires : Set(p, k, expire))
       \/ Sweep(p, "deletePattern") \/ Sweep(p, "flush")
  \/ \E p \in Procs : Work(p)
  \/ CleanerTicks \/ CleanerStops \/ Close \/ Tick

\* Goroutines are scheduled; select takes each of its ready cases in the end.
Fairness == (\A p \in Procs : WF_vars(Work(p))) /\ SF_vars(CleanerStops)

Spec == Init /\ [][Next]_vars /\ Fairness

-----------------------------------------------------------------------------
(* Properties *)

\* An item that has not expired leaves the map only by a Set of its key or by a
\* Delete, DeletePattern or Flush that has come to its key.  Neither a Get nor
\* the cleaner, which decide on an item they loaded before, takes away what
\* was stored meanwhile.
NoLostWrite ==
  [][\A k \in Keys :
       data[k] # NoItem /\ ~Expired(data[k], now) /\ data'[k] = NoItem
         => \E p \in Clients : pc[p] = "remove" /\ key[p] = k]_vars

\* What a Get returns had not expired when the Get began.
HitsAreFresh ==
  \A p \in Clients : pc[p] = "hit" => ~Expired(item[p], began[p])

\* After Close the cleaner ends, even if it is in the middle of a sweep while
\* callers go on storing.
CleanerEnds == stopped ~> pc[Cleaner] = "stopped"
=============================================================================
