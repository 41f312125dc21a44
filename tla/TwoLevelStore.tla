---------------------------- MODULE TwoLevelStore ----------------------------
(***************************************************************************)
(* persist.TwoLevelStore: processes that each keep a local cache (L1) in   *)
(* front of one shared Redis (L2), coalesce concurrent reads of a key with *)
(* singleflight, fence L1 backfills with sharded generation counters, and  *)
(* tell each other about mutations over Redis Pub/Sub.                     *)
(*                                                                         *)
(* A value is represented by its version: ver[k] counts the mutations      *)
(* Redis has applied to k, so a smaller version is an older value.         *)
(* Critical sections (commitRead, commitMutation, begin) are one step;     *)
(* everything outside the guard's lock interleaves.                        *)
(***************************************************************************)
EXTENDS Naturals, Sequences, Singleflight

CONSTANTS
  Instances,       \* TwoLevelStore objects, normally one per process
  Clients,         \* goroutines that call a store
  HomeOf,          \* the instance each client calls
  Calls,           \* the operations each client may call
  Keys,
  ShardCount,      \* twoLevelGuardShards
  ShardOf,         \* maphash(key) % twoLevelGuardShards
  PatternKeys,     \* the keys the one pattern of the model matches
  NoKey,
  Subscribed,      \* the instances whose invalidation subscriber started
  L1Patterns,      \* L1 implements LocalStoreWithPattern
  Timers,          \* sfForgetTimeout > 0
  Lossy,           \* Pub/Sub may drop a message for a subscriber
  RemoteMayFail,   \* Redis calls may return an error
  LocalMayFail,    \* the injected LocalStore may fail
  MaxMutations,    \* bound: mutating calls in a behaviour
  MaxLateForgets   \* bound: timer goroutines between Store and Forget, per key

\* Each operator whose name ends in _Slip is a plausible mistake in the code of
\* the definition it stands before; a property is shown to notice it.

Operations == {"get", "set", "delete", "invalidate",
               "deletePattern", "invalidatePattern", "close"}

Shards == 0 .. ShardCount - 1

\* The listener goroutine of instance i is the process named i.
Procs == Clients \cup Subscribed
Home(p) == IF p \in Clients THEN HomeOf[p] ELSE p

ASSUME ConstantsAssumption ==
  /\ Clients \cap Instances = {}
  /\ NoCall \notin Clients
  /\ NoKey \notin Keys
  /\ HomeOf \in [Clients -> Instances]
  /\ Calls \in [Clients -> SUBSET Operations]
  /\ ShardCount \in Nat \ {0}
  /\ ShardOf \in [Keys -> Shards]
  /\ PatternKeys \subseteq Keys
  /\ Subscribed \subseteq Instances
  /\ {L1Patterns, Timers, Lossy, RemoteMayFail, LocalMayFail} \subseteq BOOLEAN
  /\ MaxMutations \in Nat
  /\ MaxLateForgets \in Nat

VARIABLES
  ver,         \* ver[k]: mutations of k that Redis has applied
  live,        \* live[k]: k exists in Redis
  l1,          \* l1[i][k]: version held by the local cache, or NoEntry
  gen,         \* gen[i][s]: twoLevelKeyGuard.generation
  calls,       \* calls[i]: the singleflight group
  forgets,     \* forgets[i][k].due: timers that have marked their flight and not yet called
               \* Forget; .stray, history: a Forget has released a flight that was not marked
  inbox,       \* inbox[i]: messages Pub/Sub has still to hand to i's listener
  lifecycle,   \* lifecycle[i]: how far Close of i has come
  pc,          \* the next step of each process
  op,          \* the operation it executes
  key,         \* its key
  data,        \* the version it has read, or has written
  generation,  \* the generation a flight took before its remote read
  superseded,  \* the flight's superseded flag
  flight,      \* the leader a waiter waits for
  nextShard,   \* bumpAllGuards: the next guard
  todo,        \* keys a pattern operation has still to visit
  mutations,   \* mutating calls begun so far
  asof,        \* history: ver when a pattern operation turned to L1
  floor,       \* history: the version of k in Redis that i's last invalidation of k stands for
  settled,     \* history: floor at the last Forget that followed a commitMutation
  written,     \* history: newest version whose Set has returned on i
  want         \* history: settled and written when the current Get began

redis    == <<ver, live>>
cached   == <<l1, floor>>
promised == <<settled, written>>
reading  == <<generation, superseded, flight, want>>
pattern  == <<nextShard, todo, asof>>
pubsub   == <<inbox, lifecycle>>
vars == <<redis, gen, cached, promised, reading, pattern, calls, forgets,
          pubsub, pc, op, key, data, mutations>>

NoEntry == 0

\* The one pattern of the model needs no name.
Messages == [origin : Instances, type : {"key"}, value : Keys]
            \cup [origin : Instances, type : {"pattern"}, value : {NoKey}]

\* The steps a leader goes through inside the function it gave to sf.Do.
FlightSteps == {"inner", "begin", "getWithTTL", "commitRead", "finish"}

Steps == FlightSteps \cup
         {"idle", "do", "wait", "return", "commit", "forget", "publish",
          "scan", "bump", "erase", "close", "drain"}

TypeOK ==
  /\ ver \in [Keys -> Nat \ {0}]
  /\ live \in [Keys -> BOOLEAN]
  /\ l1 \in [Instances -> [Keys -> Nat]]
  /\ gen \in [Instances -> [Shards -> Nat]]
  /\ calls \in [Instances -> [Keys -> Clients \cup {NoCall}]]
  /\ forgets \in [Instances -> [Keys -> [due : Nat, stray : BOOLEAN]]]
  /\ inbox \in [Instances -> Seq(Messages)]
  /\ lifecycle \in [Instances -> {"open", "closing", "closed"}]
  /\ pc \in [Procs -> Steps]
  /\ op \in [Procs -> Operations]
  /\ key \in [Procs -> Keys \cup {NoKey}]
  /\ data \in [Procs -> Nat]
  /\ generation \in [Procs -> Nat]
  /\ superseded \in [Procs -> BOOLEAN]
  /\ flight \in [Procs -> Clients \cup {NoCall}]
  /\ nextShard \in [Procs -> Nat]
  /\ todo \in [Procs -> SUBSET Keys]
  /\ mutations \in Nat
  /\ asof \in [Procs -> [Keys -> Nat]]
  /\ floor \in [Instances -> [Keys -> Nat]]
  /\ settled \in [Instances -> [Keys -> Nat]]
  /\ written \in [Instances -> [Keys -> Nat]]
  /\ want \in [Procs -> [settled : Nat, written : Nat]]

NoVersions == [k \in Keys |-> 0]
NoWant == [settled |-> 0, written |-> 0]
NoForget == [due |-> 0, stray |-> FALSE]

Init ==
  /\ ver = [k \in Keys |-> 1]
  /\ live \in [Keys -> BOOLEAN]
  /\ l1 = [i \in Instances |-> [k \in Keys |-> NoEntry]]
  /\ gen = [i \in Instances |-> [s \in Shards |-> 0]]
  /\ calls = [i \in Instances |-> [k \in Keys |-> NoCall]]
  /\ forgets = [i \in Instances |-> [k \in Keys |-> NoForget]]
  /\ inbox = [i \in Instances |-> <<>>]
  /\ lifecycle = [i \in Instances |-> "open"]
  /\ pc = [p \in Procs |-> "idle"]
  /\ op = [p \in Procs |-> "get"]
  /\ key = [p \in Procs |-> NoKey]
  /\ data = [p \in Procs |-> 0]
  /\ generation = [p \in Procs |-> 0]
  /\ superseded = [p \in Procs |-> FALSE]
  /\ flight = [p \in Procs |-> NoCall]
  /\ nextShard = [p \in Procs |-> 0]
  /\ todo = [p \in Procs |-> {}]
  /\ mutations = 0
  /\ asof = [p \in Procs |-> NoVersions]
  /\ floor = [i \in Instances |-> [k \in Keys |-> 0]]
  /\ settled = [i \in Instances |-> [k \in Keys |-> 0]]
  /\ written = [i \in Instances |-> [k \in Keys |-> 0]]
  /\ want = [p \in Procs |-> NoWant]

Goto(p, step) == pc' = [pc EXCEPT ![p] = step]

\* The call goes on, or it returns and its variables go out of scope.
Proceed(p, step) ==
  /\ Goto(p, step)
  /\ IF step = "idle"
       THEN /\ op' = [op EXCEPT ![p] = "get"]
            /\ key' = [key EXCEPT ![p] = NoKey]
            /\ data' = [data EXCEPT ![p] = 0]
       ELSE UNCHANGED <<op, key, data>>

May(p, o) == p \in Clients /\ pc[p] = "idle" /\ o \in Calls[p]

-----------------------------------------------------------------------------
(* Get *)

\* The call and its first look at L1.
GetLocal(p, k) ==
  LET i == Home(p) IN
  /\ May(p, "get")
  /\ op' = [op EXCEPT ![p] = "get"]
  /\ key' = [key EXCEPT ![p] = k]
  /\ want' = [want EXCEPT ![p] = [settled |-> settled[i][k], written |-> written[i][k]]]
  /\ \/ /\ l1[i][k] # NoEntry
        /\ data' = [data EXCEPT ![p] = l1[i][k]]
        /\ Goto(p, "return")
     \/ /\ l1[i][k] = NoEntry \/ LocalMayFail
        /\ data' = data
        /\ Goto(p, "do")
  /\ UNCHANGED <<redis, gen, cached, promised, pattern, calls, forgets, pubsub,
                 generation, superseded, flight, mutations>>

\* sf.Do finds no call: p leads one, and its Forget timer is armed.
Lead(p) ==
  LET i == Home(p) IN
  /\ pc[p] = "do"
  /\ ~InFlight(calls[i], key[p])
  /\ calls' = [calls EXCEPT ![i] = Registered(@, key[p], p)]
  /\ superseded' = [superseded EXCEPT ![p] = FALSE]
  /\ Goto(p, "inner")
  /\ UNCHANGED <<redis, gen, cached, promised, pattern, forgets, pubsub, op, key,
                 data, generation, flight, want, mutations>>

\* sf.Do finds a call: p waits for it.
Join(p) ==
  LET i == Home(p) IN
  /\ pc[p] = "do"
  /\ InFlight(calls[i], key[p])
  /\ flight' = [flight EXCEPT ![p] = calls[i][key[p]]]
  /\ Goto(p, "wait")
  /\ UNCHANGED <<redis, gen, cached, promised, pattern, calls, forgets, pubsub,
                 op, key, data, generation, superseded, want, mutations>>

\* The leader's second look at L1.
InnerLocal(p) ==
  LET i == Home(p) IN
  /\ pc[p] = "inner"
  /\ \/ /\ l1[i][key[p]] # NoEntry
        /\ data' = [data EXCEPT ![p] = l1[i][key[p]]]
        /\ Goto(p, "finish")
     \/ /\ l1[i][key[p]] = NoEntry \/ LocalMayFail
        /\ data' = data
        /\ Goto(p, "begin")
  /\ UNCHANGED <<redis, gen, cached, promised, reading, pattern, calls, forgets,
                 pubsub, op, key, mutations>>

\* guard.begin
Begin(p) ==
  /\ pc[p] = "begin"
  /\ generation' = [generation EXCEPT ![p] = gen[Home(p)][ShardOf[key[p]]]]
  /\ Goto(p, "getWithTTL")
  /\ UNCHANGED <<redis, gen, cached, promised, pattern, calls, forgets, pubsub, op,
                 key, data, superseded, flight, want, mutations>>

\* remote.getWithTTL and localBackfillTTL.  GET and PTTL are not atomic, so a
\* value that was read may or may not come with a TTL that allows a backfill.  A
\* miss and an error leave by the same path: nothing is backfilled.
GetWithTTL(p) ==
  /\ pc[p] = "getWithTTL"
  /\ data' = [data EXCEPT ![p] = ver[key[p]]]
  /\ \/ live[key[p]] /\ Goto(p, "commitRead")
     \/ Goto(p, "finish")
  /\ UNCHANGED <<redis, gen, cached, promised, reading, pattern, calls, forgets,
                 pubsub, op, key, mutations>>

\* The generation is not compared.
MayBackfill_GenerationSlip(p) == ~superseded[p]

\* The superseded flag is not looked at.
MayBackfill_SupersededSlip(p) == generation[p] = gen[Home(p)][ShardOf[key[p]]]

\* commitRead's test: the generation is the one the flight took, and the
\* flight has not been released.
MayBackfill(p) ==
  /\ generation[p] = gen[Home(p)][ShardOf[key[p]]]
  /\ ~superseded[p]

\* guard.commitRead around local.Set, whose error is ignored.
CommitRead(p) ==
  LET i == Home(p) IN
  /\ pc[p] = "commitRead"
  /\ \/ MayBackfill(p) /\ l1' = [l1 EXCEPT ![i][key[p]] = data[p]]
     \/ (~MayBackfill(p) \/ LocalMayFail) /\ l1' = l1
  /\ Goto(p, "finish")
  /\ UNCHANGED <<redis, gen, floor, promised, reading, pattern, calls, forgets,
                 pubsub, op, key, data, mutations>>

\* A call that was forgotten does not wake its waiters.
Released_Slip(p) ==
  {p} \cup {w \in Procs : /\ pc[w] = "wait" /\ flight[w] = p
                          /\ calls[Home(p)][key[p]] = p}

\* The goroutines that have p's result: the leader and every waiter.
Released(p) == {p} \cup {w \in Procs : pc[w] = "wait" /\ flight[w] = p}

\* The flight ends: the timer is stopped and the call leaves the map.
Finish(p) ==
  LET i == Home(p)
      released == Released(p)
  IN
  /\ pc[p] = "finish"
  /\ calls' = [calls EXCEPT ![i] = Finished(@, key[p], p)]
  /\ data' = [w \in Procs |-> IF w \in released THEN data[p] ELSE data[w]]
  /\ pc' = [w \in Procs |-> IF w \in released THEN "return" ELSE pc[w]]
  /\ UNCHANGED <<redis, gen, cached, promised, reading, pattern, forgets, pubsub,
                 op, key, mutations>>

\* Get returns.
Return(p) ==
  /\ pc[p] = "return"
  /\ Proceed(p, "idle")
  /\ generation' = [generation EXCEPT ![p] = 0]
  /\ superseded' = [superseded EXCEPT ![p] = FALSE]
  /\ flight' = [flight EXCEPT ![p] = NoCall]
  /\ want' = [want EXCEPT ![p] = NoWant]
  /\ UNCHANGED <<redis, gen, cached, promised, pattern, calls, forgets, pubsub,
                 mutations>>

\* sf.Forget releases whatever call the key has.  Timers mark their own before.
Forget(i, k, due) ==
  LET released == calls[i][k]
      unmarked == InFlight(calls[i], k) /\ ~superseded[released]
  IN
  /\ calls' = [calls EXCEPT ![i] = Forgotten(@, k)]
  /\ forgets' = [forgets EXCEPT ![i][k] = [due |-> due, stray |-> @.stray \/ unmarked]]

\* The Forget timer of a flight that is still running marks the flight.  Its
\* goroutine goes on to call Forget, or is preempted before it does.
TimerFires(p) ==
  LET i == Home(p)
      k == key[p]
  IN
  /\ Timers
  /\ pc[p] \in FlightSteps
  /\ ~superseded[p]
  /\ superseded' = [superseded EXCEPT ![p] = TRUE]
  /\ \/ /\ calls' = [calls EXCEPT ![i] = Forgotten(@, k)]
        /\ forgets' = forgets
     \/ /\ forgets[i][k].due < MaxLateForgets
        /\ forgets' = [forgets EXCEPT ![i][k].due = @ + 1]
        /\ calls' = calls
  /\ UNCHANGED <<redis, gen, cached, promised, pattern, pubsub, pc, op, key, data,
                 generation, flight, want, mutations>>

\* Forget is called whether or not a timer has fired.
TimerForgets_Slip(i, k) ==
  /\ Forget(i, k, forgets[i][k].due - 1)
  /\ UNCHANGED <<redis, gen, cached, promised, reading, pattern, pubsub, pc, op,
                 key, data, mutations>>

\* The timer's goroutine calls Forget, however late, for whatever call the
\* key has by then.
TimerForgets(i, k) ==
  /\ forgets[i][k].due > 0
  /\ Forget(i, k, forgets[i][k].due - 1)
  /\ UNCHANGED <<redis, gen, cached, promised, reading, pattern, pubsub, pc, op,
                 key, data, mutations>>

-----------------------------------------------------------------------------
(* Mutations *)

Call(p, o) ==
  /\ May(p, o)
  /\ mutations < MaxMutations
  /\ mutations' = mutations + 1

\* Delete does not publish.
After_BroadcastSlip(o, step) ==
  CASE step = "commit"  -> IF o = "set" THEN "idle" ELSE "forget"
    [] step = "forget"  -> IF o = "set" THEN "publish" ELSE "idle"
    [] step = "publish" -> IF o = "set" THEN "commit" ELSE "idle"
    [] step = "erase"   -> IF o = "deletePattern" THEN "publish" ELSE "idle"

\* Set does not delete the key from its own L1.
After_LocalSlip(o, step) ==
  CASE step = "commit"  -> IF o = "set" THEN "idle" ELSE "forget"
    [] step = "forget"  -> IF o = "invalidate" THEN "idle" ELSE "publish"
    [] step = "publish" -> "idle"
    [] step = "erase"   -> IF o = "deletePattern" THEN "publish" ELSE "idle"

\* What an operation does after a step of it.  Set forgets the flight before
\* it invalidates L1; the others after.
After(o, step) ==
  CASE step = "commit"  -> IF o = "set" THEN "idle" ELSE "forget"
    [] step = "forget"  -> IF o = "invalidate" THEN "idle" ELSE "publish"
    [] step = "publish" -> IF o = "set" THEN "commit" ELSE "idle"
    [] step = "erase"   -> IF o = "deletePattern" THEN "publish" ELSE "idle"

\* SetWithContext writes Redis.  An error is returned at once, whether or not
\* Redis has applied the write.
SetRemote(p, k) ==
  /\ Call(p, "set")
  /\ \/ /\ ver' = [ver EXCEPT ![k] = @ + 1]
        /\ live' = [live EXCEPT ![k] = TRUE]
     \/ RemoteMayFail /\ UNCHANGED redis
  /\ \/ /\ ver'[k] # ver[k]
        /\ op' = [op EXCEPT ![p] = "set"]
        /\ key' = [key EXCEPT ![p] = k]
        /\ data' = [data EXCEPT ![p] = ver'[k]]
        /\ Goto(p, "forget")
     \/ RemoteMayFail /\ Proceed(p, "idle")
  /\ UNCHANGED <<gen, cached, promised, reading, pattern, calls, forgets, pubsub>>

\* Delete deletes in Redis.  After an error it goes on to clear L1 and differs
\* from InvalidateLocal in nothing: it does not publish.
DeleteRemote(p, k) ==
  /\ Call(p, "delete")
  /\ key' = [key EXCEPT ![p] = k]
  /\ \/ /\ ver' = [ver EXCEPT ![k] = @ + 1]
        /\ live' = [live EXCEPT ![k] = FALSE]
        /\ \/ op' = [op EXCEPT ![p] = "delete"]
           \/ RemoteMayFail /\ op' = [op EXCEPT ![p] = "invalidate"]
     \/ /\ RemoteMayFail
        /\ op' = [op EXCEPT ![p] = "invalidate"]
        /\ UNCHANGED redis
  /\ Goto(p, "commit")
  /\ UNCHANGED <<gen, cached, promised, reading, pattern, calls, forgets, pubsub,
                 data>>

\* InvalidateLocal leaves Redis alone.
InvalidateLocal(p, k) ==
  /\ Call(p, "invalidate")
  /\ key' = [key EXCEPT ![p] = k]
  /\ op' = [op EXCEPT ![p] = "invalidate"]
  /\ Goto(p, "commit")
  /\ UNCHANGED <<redis, gen, cached, promised, reading, pattern, calls, forgets,
                 pubsub, data>>

\* commitMutation around local.Delete, whose error is only logged.
CommitMutation(p) ==
  LET i == Home(p)
      k == key[p]
  IN
  /\ pc[p] = "commit"
  /\ gen' = [gen EXCEPT ![i][ShardOf[k]] = gen[i][ShardOf[k]] + 1]
  /\ \/ /\ l1' = [l1 EXCEPT ![i][k] = NoEntry]
        /\ floor' = [floor EXCEPT ![i][k] = ver[k]]
        /\ written' = IF op[p] = "set" /\ data[p] > written[i][k]
                        THEN [written EXCEPT ![i][k] = data[p]]
                        ELSE written
     \/ LocalMayFail /\ UNCHANGED <<cached, written>>
  /\ Proceed(p, After(op[p], "commit"))
  /\ UNCHANGED <<redis, settled, reading, pattern, calls, forgets, pubsub, mutations>>

\* The flight is left in the group.
ForgetFlight_Slip(p) ==
  LET i == Home(p)
      k == key[p]
  IN
  /\ pc[p] = "forget"
  /\ settled' = IF op[p] = "set" THEN settled
                ELSE [settled EXCEPT ![i][k] = floor[i][k]]
  /\ Proceed(p, After(op[p], "forget"))
  /\ UNCHANGED <<redis, gen, cached, written, reading, pattern, calls, forgets, pubsub,
                 mutations>>

\* sf.Forget
ForgetFlight(p) ==
  LET i == Home(p)
      k == key[p]
  IN
  /\ pc[p] = "forget"
  /\ Forget(i, k, forgets[i][k].due)
  /\ settled' = IF op[p] = "set" THEN settled
                ELSE [settled EXCEPT ![i][k] = floor[i][k]]
  /\ Proceed(p, After(op[p], "forget"))
  /\ UNCHANGED <<redis, gen, cached, written, reading, pattern, pubsub, mutations>>

\* publishInvalidation.  Every subscriber that is open gets the message, the
\* sender's own included, unless Pub/Sub drops it.  Its error is only logged.
Publish(p) ==
  LET i == Home(p)
      message == [origin |-> i, value |-> key[p],
                  type |-> IF op[p] = "deletePattern" THEN "pattern" ELSE "key"]
  IN
  /\ pc[p] = "publish"
  /\ \E dropped \in IF Lossy THEN SUBSET Subscribed ELSE {{}} :
       inbox' = [j \in Instances |->
                   IF i \in Subscribed /\ j \in Subscribed \ dropped /\ lifecycle[j] = "open"
                     THEN Append(inbox[j], message) ELSE inbox[j]]
  /\ Proceed(p, After(op[p], "publish"))
  /\ UNCHANGED <<redis, gen, cached, promised, reading, pattern, calls, forgets,
                 lifecycle, mutations>>

\* The loop over the guards starts at 1.
TurnToL1_Slip(p, versions) ==
  /\ todo' = [todo EXCEPT ![p] = PatternKeys]
  /\ nextShard' = [nextShard EXCEPT ![p] = 1]
  /\ asof' = [asof EXCEPT ![p] = versions]
  /\ Goto(p, "bump")

\* invalidateLocalPattern begins; versions are those Redis has then.
TurnToL1(p, versions) ==
  /\ todo' = [todo EXCEPT ![p] = PatternKeys]
  /\ nextShard' = [nextShard EXCEPT ![p] = 0]
  /\ asof' = [asof EXCEPT ![p] = versions]
  /\ Goto(p, "bump")

\* DeletePattern scans Redis and deletes what it finds, key by key.
DeletePattern(p) ==
  /\ Call(p, "deletePattern")
  /\ op' = [op EXCEPT ![p] = "invalidatePattern"]
  /\ todo' = [todo EXCEPT ![p] = {k \in PatternKeys : live[k]}]
  /\ Goto(p, "scan")
  /\ UNCHANGED <<redis, gen, cached, promised, reading, nextShard, asof, calls, forgets,
                 pubsub, key, data>>

\* A key the scan returned is deleted.  SCAN returns every key that stays, and
\* may return one that appears meanwhile.  Once a key was there to delete,
\* n > 0 and the operation will publish.
ScanDelete(p, k) ==
  /\ pc[p] = "scan"
  /\ k \in todo[p] \/ (k \in PatternKeys /\ live[k])
  /\ \/ /\ live[k]
        /\ ver' = [ver EXCEPT ![k] = @ + 1]
        /\ live' = [live EXCEPT ![k] = FALSE]
        /\ op' = [op EXCEPT ![p] = "deletePattern"]
     \/ ~live[k] /\ UNCHANGED <<redis, op>>
  /\ todo' = [todo EXCEPT ![p] = @ \ {k}]
  /\ UNCHANGED <<gen, cached, promised, reading, nextShard, asof, calls, forgets, pubsub,
                 pc, key, data, mutations>>

\* Redis deletes keys, and their replies are lost: they are not counted.
DeleteUnseen(keys) ==
  /\ ver' = [k \in Keys |-> IF k \in keys THEN ver[k] + 1 ELSE ver[k]]
  /\ live' = [k \in Keys |-> live[k] /\ k \notin keys]

\* An error is returned at once.
ScanReturns_Slip(p) ==
  /\ pc[p] = "scan"
  /\ \/ /\ todo[p] = {}
        /\ op' = [op EXCEPT ![p] = "deletePattern"]
        /\ TurnToL1(p, ver)
        /\ UNCHANGED <<redis, key, data>>
     \/ /\ RemoteMayFail
        /\ \E keys \in SUBSET {k \in PatternKeys : live[k]} : DeleteUnseen(keys)
        /\ Proceed(p, "idle")
        /\ todo' = [todo EXCEPT ![p] = {}]
        /\ UNCHANGED <<nextShard, asof>>
  /\ UNCHANGED <<gen, cached, promised, reading, calls, forgets, pubsub, mutations>>

\* remote.DeletePattern returns: without an error it publishes even if it
\* deleted nothing, with one only if it counted something.
ScanReturns(p) ==
  /\ pc[p] = "scan"
  /\ \/ todo[p] = {} /\ op' = [op EXCEPT ![p] = "deletePattern"] /\ UNCHANGED redis
     \/ /\ RemoteMayFail
        /\ op' = op
        /\ \E keys \in SUBSET {k \in PatternKeys : live[k]} : DeleteUnseen(keys)
  /\ TurnToL1(p, ver')
  /\ UNCHANGED <<gen, cached, promised, reading, calls, forgets, pubsub, key,
                 data, mutations>>

\* InvalidateLocalPattern
InvalidateLocalPattern(p) ==
  /\ Call(p, "invalidatePattern")
  /\ op' = [op EXCEPT ![p] = "invalidatePattern"]
  /\ TurnToL1(p, ver)
  /\ UNCHANGED <<redis, gen, cached, promised, reading, calls, forgets, pubsub, key,
                 data>>

\* bumpAllGuards bumps one guard after another, each under its own lock; then
\* L1's DeletePattern runs if it has one.
BumpShard(p) ==
  LET i == Home(p)
      s == nextShard[p]
      last == s + 1 = ShardCount
      next == IF L1Patterns THEN "erase" ELSE After(op[p], "erase")
  IN
  /\ pc[p] = "bump"
  /\ gen' = [gen EXCEPT ![i][s] = gen[i][s] + 1]
  /\ nextShard' = [nextShard EXCEPT ![p] = IF last THEN 0 ELSE s + 1]
  /\ IF last
       THEN Proceed(p, next)
       ELSE Proceed(p, "bump")
  /\ IF last /\ ~L1Patterns
       THEN todo' = [todo EXCEPT ![p] = {}] /\ asof' = [asof EXCEPT ![p] = NoVersions]
       ELSE UNCHANGED <<todo, asof>>
  /\ UNCHANGED <<redis, cached, promised, reading, calls, forgets, pubsub, mutations>>

\* local.DeletePattern removes one matching key.
EraseKey(p, k) ==
  LET i == Home(p) IN
  /\ pc[p] = "erase"
  /\ k \in todo[p]
  /\ l1' = [l1 EXCEPT ![i][k] = NoEntry]
  /\ floor' = [floor EXCEPT ![i][k] = IF asof[p][k] > floor[i][k]
                                         THEN asof[p][k] ELSE floor[i][k]]
  /\ todo' = [todo EXCEPT ![p] = @ \ {k}]
  /\ UNCHANGED <<redis, gen, promised, reading, nextShard, asof, calls, forgets, pubsub, pc,
                 op, key, data, mutations>>

\* local.DeletePattern returns; its error is only logged.
EraseReturns(p) ==
  /\ pc[p] = "erase"
  /\ todo[p] = {} \/ LocalMayFail
  /\ todo' = [todo EXCEPT ![p] = {}]
  /\ asof' = [asof EXCEPT ![p] = NoVersions]
  /\ Proceed(p, After(op[p], "erase"))
  /\ UNCHANGED <<redis, gen, cached, promised, reading, nextShard, calls, forgets,
                 pubsub, mutations>>

-----------------------------------------------------------------------------
(* The subscriber, Close, expiry and eviction *)

\* The listener ends when the subscription is closed, whatever it has not read.
Receives_Slip(i) == lifecycle[i] = "open" /\ inbox[i] # <<>>

\* The channel is read until it is empty, also when the subscription is closed.
Receives(i) == inbox[i] # <<>>

\* listenInvalidations takes a message.  It ignores its own instance's; a key
\* is invalidated as by InvalidateLocal, a pattern as by InvalidateLocalPattern.
Listen(i) ==
  LET message == Head(inbox[i]) IN
  /\ i \in Subscribed
  /\ pc[i] = "idle"
  /\ Receives(i)
  /\ inbox' = [inbox EXCEPT ![i] = Tail(@)]
  /\ \/ /\ message.origin = i
        /\ UNCHANGED <<pc, op, key, pattern>>
     \/ /\ message.origin # i
        /\ message.type = "key"
        /\ op' = [op EXCEPT ![i] = "invalidate"]
        /\ key' = [key EXCEPT ![i] = message.value]
        /\ Goto(i, "commit")
        /\ UNCHANGED pattern
     \/ /\ message.origin # i
        /\ message.type = "pattern"
        /\ op' = [op EXCEPT ![i] = "invalidatePattern"]
        /\ key' = [key EXCEPT ![i] = NoKey]
        /\ TurnToL1(i, ver)
  /\ UNCHANGED <<redis, gen, cached, promised, reading, calls, forgets, lifecycle,
                 data, mutations>>

\* Close.  closeOnce lets the first call in, which closes the subscription: what
\* has not reached the channel is lost.  The others wait for it.
Close(p) ==
  LET i == Home(p) IN
  /\ May(p, "close")
  /\ op' = [op EXCEPT ![p] = "close"]
  /\ \/ /\ lifecycle[i] = "open"
        /\ lifecycle' = [lifecycle EXCEPT ![i] = "closing"]
        /\ \E n \in 0 .. Len(inbox[i]) : inbox' = [inbox EXCEPT ![i] = SubSeq(@, 1, n)]
        /\ Goto(p, "drain")
     \/ /\ lifecycle[i] # "open"
        /\ Goto(p, "close")
        /\ UNCHANGED pubsub
  /\ UNCHANGED <<redis, gen, cached, promised, reading, pattern, calls, forgets, key,
                 data, mutations>>

\* L1 is closed without waiting for the listener.
Drained_Slip(i) == TRUE

\* The listener has closed its done channel, or there is none.
Drained(i) == i \in Subscribed => pc[i] = "idle" /\ ~Receives(i)

\* closeInvalidation returns, and L1 is closed.
CloseLocal(p) ==
  LET i == Home(p) IN
  /\ pc[p] = "drain"
  /\ Drained(i)
  /\ lifecycle' = [lifecycle EXCEPT ![i] = "closed"]
  /\ Proceed(p, "idle")
  /\ UNCHANGED <<redis, gen, cached, promised, reading, pattern, calls, forgets, inbox,
                 mutations>>

\* closeOnce.Do of a later call returns.
CloseAgain(p) ==
  /\ pc[p] = "close"
  /\ lifecycle[Home(p)] = "closed"
  /\ Proceed(p, "idle")
  /\ UNCHANGED <<redis, gen, cached, promised, reading, pattern, calls, forgets, pubsub,
                 mutations>>

\* Redis expires k: no mutation, so its version stays.
RemoteExpire(k) ==
  /\ live[k]
  /\ live' = [live EXCEPT ![k] = FALSE]
  /\ UNCHANGED <<ver, gen, cached, promised, reading, pattern, calls, forgets, pubsub,
                 pc, op, key, data, mutations>>

\* L1 expires or evicts an entry.
LocalExpire(i, k) ==
  /\ l1[i][k] # NoEntry
  /\ l1' = [l1 EXCEPT ![i][k] = NoEntry]
  /\ UNCHANGED <<redis, gen, floor, promised, reading, pattern, calls, forgets,
                 pubsub, pc, op, key, data, mutations>>

-----------------------------------------------------------------------------

\* The steps of a call that is under way.
ReadStep(p) ==
  \/ Lead(p) \/ Join(p) \/ InnerLocal(p) \/ Begin(p) \/ GetWithTTL(p)
  \/ CommitRead(p) \/ Finish(p) \/ Return(p)

MutationStep(p) ==
  \/ CommitMutation(p) \/ ForgetFlight(p) \/ Publish(p)
  \/ (\E k \in Keys : ScanDelete(p, k)) \/ ScanReturns(p)
  \/ BumpShard(p) \/ (\E k \in Keys : EraseKey(p, k)) \/ EraseReturns(p)

CloseStep(p) == CloseLocal(p) \/ CloseAgain(p)

Step(p) == ReadStep(p) \/ MutationStep(p) \/ CloseStep(p)

Invoke(p) ==
  \/ \E k \in Keys : \/ GetLocal(p, k) \/ SetRemote(p, k)
                     \/ DeleteRemote(p, k) \/ InvalidateLocal(p, k)
  \/ DeletePattern(p)
  \/ InvalidateLocalPattern(p)
  \/ Close(p)

Next ==
  \/ \E p \in Procs : Step(p) \/ TimerFires(p)
  \/ \E p \in Clients : Invoke(p)
  \/ \E i \in Subscribed : Listen(i)
  \/ \E i \in Instances, k \in Keys : TimerForgets(i, k) \/ LocalExpire(i, k)
  \/ \E k \in Keys : RemoteExpire(k)

\* Goroutines are scheduled and Redis calls have timeouts, so a call under way
\* goes on; so does the listener while messages wait, and a fired timer.
Fairness ==
  /\ \A p \in Procs : WF_vars(Step(p))
  /\ \A i \in Subscribed : WF_vars(Listen(i))
  /\ \A i \in Instances, k \in Keys : WF_vars(TimerForgets(i, k))

Spec == Init /\ [][Next]_vars /\ Fairness

-----------------------------------------------------------------------------
(* Properties *)

\* L1 never holds a value older than the one Redis had when this instance last
\* invalidated the key, by Set, Delete, InvalidateLocal, a pattern or a message:
\* a read that was in flight cannot put back what the invalidation removed.
\* This is the order discipline the comment of twoLevelKeyGuard argues for.
NoResurrection ==
  \A i \in Instances, k \in Keys :
    l1[i][k] # NoEntry => l1[i][k] >= floor[i][k]

\* A Get that starts after Delete, InvalidateLocal or an invalidation message
\* has forgotten the key's flight does not return a value from before the
\* invalidation, neither from L1 nor by joining a flight that has one.
ReadsAfterInvalidation ==
  \A p \in Procs : pc[p] = "return" => data[p] >= want[p].settled

\* A Get that starts after a Set has returned on the same instance sees that
\* Set or something newer: what the comment in SetWithContext and the type's
\* documentation say of the flight that Set forgets.
ReadsAfterSet ==
  \A p \in Procs : pc[p] = "return" => data[p] >= want[p].written

\* p has still to invalidate k on its own instance: a call or the listener
\* before its critical section, or on its way to k in L1.
Owes(p, k) ==
  \/ key[p] = k /\ \/ pc[p] = "commit"
                   \/ op[p] = "set" /\ pc[p] \in {"forget", "publish"}
  \/ k \in PatternKeys /\ pc[p] \in {"scan", "bump"}
  \/ pc[p] = "erase" /\ k \in todo[p]

\* Somebody has still to invalidate k on instance i: one of its own, a remote
\* call that has yet to publish, or a message on its way.
Owed(i, k) ==
  \/ \E p \in Procs : Home(p) = i /\ Owes(p, k)
  \/ \E p \in Procs :
       /\ Home(p) # i
       /\ \/ key[p] = k /\ op[p] \in {"set", "delete"}
                        /\ pc[p] \in {"commit", "forget", "publish"}
          \/ k \in PatternKeys /\ op[p] = "deletePattern"
                               /\ pc[p] \in {"scan", "bump", "erase", "publish"}
  \/ \E n \in 1 .. Len(inbox[i]) :
       /\ inbox[i][n].origin # i
       /\ \/ inbox[i][n].type = "pattern" /\ k \in PatternKeys
          \/ inbox[i][n].type = "key" /\ inbox[i][n].value = k

\* As long as nothing fails, an entry of L1 that is not the value Redis last
\* had is about to be invalidated: no interleaving of reads, mutations and
\* messages leaves an open store a stale entry nobody will remove.
StaleIsOwed ==
  \A i \in Instances, k \in Keys :
    lifecycle[i] = "open" /\ l1[i][k] \notin {NoEntry, ver[k]} => Owed(i, k)

\* A call or listener that has turned to invalidating a key gets it out of its
\* own L1, unless L1 itself fails or has no pattern deletion: a Redis that fails
\* halfway through Delete or DeletePattern, or a message that cannot be sent,
\* does not excuse it.  What Redis has lost by then must not be served from L1.
DebtsArePaid ==
  [][\A p \in Procs, k \in Keys :
       Owes(p, k) /\ ~Owes(p, k)' /\ ~LocalMayFail /\ L1Patterns
         => l1'[Home(p)][k] = NoEntry]_vars

\* The calls of the model being finitely many, the L1 of every store that is not
\* closed ends up with what Redis last had, or nothing, for good.
Convergence ==
  <>[](\A i \in Instances, k \in Keys :
         lifecycle[i] = "open" => l1[i][k] \in {NoEntry, ver[k]})

\* Close closes L1 only when the listener will not touch it again: neither the
\* message it is at nor one still in the channel reaches a closed L1.
ClosedIsQuiet ==
  \A i \in Subscribed : lifecycle[i] = "closed" => pc[i] = "idle" /\ inbox[i] = <<>>

\* Every Get returns: no waiter is left behind by a Forget, a late timer or a
\* leader that takes over.
GetReturns == \A p \in Clients : pc[p] = "do" ~> pc[p] = "idle"

\* As long as every Forget of k has found its flight marked, the entry of an
\* older flight does not replace that of a newer one.  The comment of commitRead
\* concludes it from a new leader existing only after a Forget, and the old one
\* being marked before; the Forget of a mutation, or of a timer's goroutine that
\* was preempted after marking its own flight, marks nothing.
NewerBackfillStays ==
  [][\A i \in Instances, k \in Keys :
       ~forgets[i][k].stray /\ l1'[i][k] # NoEntry => l1'[i][k] >= l1[i][k]]_vars

\* The reads of a CoherentCache.
Reads ==
  [c \in Clients |->
     CASE pc[c] = "return" -> [state |-> "answered", key |-> key[c], least |-> want[c].settled,
                               version |-> data[c]]
       [] pc[c] \in FlightSteps \cup {"do", "wait"} ->
            [state |-> "asked", key |-> key[c], least |-> want[c].settled]
       [] OTHER -> [state |-> "idle"]]

Coherent == INSTANCE CoherentCache
              WITH Caches <- Instances, Readers <- Clients, CacheOf <- HomeOf,
                   copy <- l1, reads <- Reads

\* Whatever flights, guards, timers and messages do, a reader of a two-level
\* store sees what it would see of a CoherentCache: a version Redis has had, not
\* older than the last invalidation that was over when it asked; and whenever
\* L1 changes, its entry is lost, discarded, or filled with nothing discarded.
ImplementsCoherentCache == Coherent!Spec
=============================================================================
