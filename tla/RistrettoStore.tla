--------------------------- MODULE RistrettoStore ---------------------------
(***************************************************************************)
(* ristrettoadapter.Store, the wrapper that New puts around a Ristretto    *)
(* cache: Ristretto cannot enumerate its keys, so the wrapper tracks those *)
(* it has set, and DeletePattern walks the tracked keys.                   *)
(*                                                                         *)
(* Ristretto is external: a Set of a key it does not hold and every Del    *)
(* go through a buffer that one goroutine works off in order; the policy   *)
(* may refuse what is set and evict what it holds.                         *)
(*                                                                         *)
(* A value is its version, the number of the Set that wrote it.  keyCount  *)
(* is the size of tracked: LoadOrStore and the counter's Add are one step. *)
(***************************************************************************)
EXTENDS Naturals, Sequences, FiniteSets

CONSTANTS
  Clients,
  Keys,
  PatternKeys,     \* the keys the one pattern of the model matches
  NoKey, NoClient,
  PruneEvery,      \* trackedKeyPruneEvery
  BufferSize,      \* of Ristretto's buffer
  MaxSets          \* bound: calls of Set

ASSUME ConstantsAssumption ==
  /\ NoKey \notin Keys
  /\ NoClient \notin Clients
  /\ PatternKeys \subseteq Keys
  /\ {PruneEvery, BufferSize} \subseteq Nat \ {0}
  /\ MaxSets \in Nat

VARIABLES
  waitOnMutation, \* Store.waitOnMutation, chosen with WithWait and never changed
  cache,      \* cache[k]: the version Ristretto holds, or NoValue
  buffer,     \* what its goroutine has still to work off
  tracked,    \* Store.keys
  mutations,  \* Store.mutations % trackedKeyPruneEvery
  pruning,    \* Store.pruning
  sets,       \* versions given out
  pc, op, key,
  version,    \* the version a Set writes
  todo,       \* the keys a Range has still to pass
  overlaps,   \* history: the call a client is in has overlapped another
  returned,   \* history: the keys and versions of the Sets that have returned and
              \* overlapped no other call
  asof,       \* history: returned when a DeletePattern was called
  erased      \* history: what the DeletePatterns that have returned were to delete

ristretto == <<cache, buffer>>
history == <<returned, asof, erased>>
histories == <<overlaps, history>>
call == <<op, key, version>>
vars == <<waitOnMutation, ristretto, tracked, mutations, pruning, sets, pc, call, todo, histories>>

NoValue == 0
Written == Keys \X Nat

Item == [type : {"new"}, key : Keys, version : Nat]
        \cup [type : {"delete"}, key : Keys]
        \cup [type : {"wait"}, client : Clients]

Operations == {"set", "delete", "deletePattern", "stats"}

Steps == {"idle", "put", "remove", "untrack", "wait", "waiting", "sync", "track",
          "maybePrune", "prune", "look", "drop", "range", "return"}

TypeOK ==
  /\ waitOnMutation \in BOOLEAN
  /\ cache \in [Keys -> Nat]
  /\ buffer \in Seq(Item)
  /\ tracked \subseteq Keys
  /\ mutations \in 0 .. PruneEvery - 1
  /\ pruning \in BOOLEAN
  /\ sets \in 0 .. MaxSets
  /\ pc \in [Clients -> Steps]
  /\ op \in [Clients -> Operations]
  /\ key \in [Clients -> Keys \cup {NoKey}]
  /\ version \in [Clients -> Nat]
  /\ todo \in [Clients -> SUBSET Keys]
  /\ overlaps \in [Clients -> BOOLEAN]
  /\ returned \subseteq Written
  /\ asof \in [Clients -> SUBSET Written]
  /\ erased \subseteq Written

Init ==
  /\ waitOnMutation \in BOOLEAN
  /\ cache = [k \in Keys |-> NoValue]
  /\ buffer = <<>>
  /\ tracked = {}
  /\ mutations = 0
  /\ pruning = FALSE
  /\ sets = 0
  /\ pc = [c \in Clients |-> "idle"]
  /\ op = [c \in Clients |-> "stats"]
  /\ key = [c \in Clients |-> NoKey]
  /\ version = [c \in Clients |-> NoValue]
  /\ todo = [c \in Clients |-> {}]
  /\ overlaps = [c \in Clients |-> FALSE]
  /\ returned = {}
  /\ asof = [c \in Clients |-> {}]
  /\ erased = {}

Goto(c, step) == pc' = [pc EXCEPT ![c] = step]

-----------------------------------------------------------------------------
(* Ristretto *)

Room == Len(buffer) < BufferSize

\* Cache.Del
Del(k) ==
  /\ Room
  /\ cache' = [cache EXCEPT ![k] = NoValue]
  /\ buffer' = Append(buffer, [type |-> "delete", key |-> k])

\* Where the caller of Cache.Wait goes on.
AfterWait(c) ==
  CASE op[c] = "set" -> "sync" [] op[c] = "delete" -> "maybePrune" [] op[c] = "deletePattern" -> "return"

\* Its goroutine works off the head of the buffer.  A Set may be refused.
Process ==
  LET item == Head(buffer) IN
  /\ buffer # <<>>
  /\ buffer' = Tail(buffer)
  /\ CASE item.type = "new" ->
            /\ \/ cache' = [cache EXCEPT ![item.key] = item.version]
               \/ cache' = cache
            /\ pc' = pc
       [] item.type = "delete" ->
            cache' = [cache EXCEPT ![item.key] = NoValue] /\ pc' = pc
       [] item.type = "wait" ->
            cache' = cache /\ Goto(item.client, AfterWait(item.client))
  /\ UNCHANGED <<waitOnMutation, tracked, mutations, pruning, sets, call, todo, histories>>

\* An entry expires or is evicted.
Evict(k) ==
  /\ cache[k] # NoValue
  /\ cache' = [cache EXCEPT ![k] = NoValue]
  /\ UNCHANGED <<waitOnMutation, buffer, tracked, mutations, pruning, sets, pc, call, todo, histories>>

-----------------------------------------------------------------------------
(* The wrapper *)

Call(c, o, k, step) ==
  /\ pc[c] = "idle"
  /\ op' = [op EXCEPT ![c] = o]
  /\ key' = [key EXCEPT ![c] = k]
  /\ LET busy == {d \in Clients : pc[d] # "idle"} IN
       overlaps' = [d \in Clients |-> overlaps[d] \/ d \in busy \/ (d = c /\ busy # {})]
  /\ Goto(c, step)

\* SetWithContext
Set(c, k) ==
  /\ sets < MaxSets
  /\ sets' = sets + 1
  /\ Call(c, "set", k, "put")
  /\ version' = [version EXCEPT ![c] = sets + 1]
  /\ UNCHANGED <<waitOnMutation, ristretto, tracked, mutations, pruning, todo, history>>

\* Without WithWait nobody waits for Ristretto's goroutine.
AfterMutation_Slip(c) ==
  CASE op[c] = "set" -> "track" [] op[c] = "delete" -> "maybePrune" [] OTHER -> "return"

\* wait, and what follows it.
AfterMutation(c) ==
  CASE waitOnMutation                         -> "wait"
    [] ~waitOnMutation /\ op[c] = "set"       -> "track"
    [] ~waitOnMutation /\ op[c] = "delete"    -> "maybePrune"
    [] ~waitOnMutation /\ op[c] = "deletePattern" -> "return"

\* Cache.Set updates a value it holds at once, and drops a new one if its
\* buffer is full; a Set that was not accepted returns nil all the same.
Put(c) ==
  /\ pc[c] = "put"
  /\ \/ /\ cache[key[c]] # NoValue
        /\ cache' = [cache EXCEPT ![key[c]] = version[c]]
        /\ buffer' = buffer
        /\ Goto(c, AfterMutation(c))
     \/ /\ cache[key[c]] = NoValue /\ Room
        /\ buffer' = Append(buffer, [type |-> "new", key |-> key[c], version |-> version[c]])
        /\ cache' = cache
        /\ Goto(c, AfterMutation(c))
     \/ /\ cache[key[c]] = NoValue /\ ~Room
        /\ UNCHANGED ristretto
        /\ Goto(c, "return")
  /\ UNCHANGED <<waitOnMutation, tracked, mutations, pruning, sets, call, todo, histories>>

\* Cache.Wait queues behind everything the buffer holds.
Wait(c) ==
  /\ pc[c] = "wait"
  /\ Room
  /\ buffer' = Append(buffer, [type |-> "wait", client |-> c])
  /\ Goto(c, "waiting")
  /\ UNCHANGED <<waitOnMutation, cache, tracked, mutations, pruning, sets, call, todo, histories>>

\* syncTrackedKey looks whether the value was admitted, and then tracks or
\* untracks the key.
Sync(c) ==
  /\ pc[c] = "sync"
  /\ Goto(c, IF cache[key[c]] # NoValue THEN "track" ELSE "untrack")
  /\ UNCHANGED <<waitOnMutation, ristretto, tracked, mutations, pruning, sets, call, todo, histories>>

\* trackKey
TrackKey(c) ==
  /\ pc[c] = "track"
  /\ tracked' = tracked \cup {key[c]}
  /\ Goto(c, IF waitOnMutation THEN "return" ELSE "maybePrune")
  /\ UNCHANGED <<waitOnMutation, ristretto, mutations, pruning, sets, call, todo, histories>>

\* Delete calls Cache.Del, as Range's callback does for a key that matches.
Delete(c, k) ==
  /\ Call(c, "delete", k, "remove")
  /\ UNCHANGED <<waitOnMutation, ristretto, tracked, mutations, pruning, sets, version, todo, history>>

Remove(c) ==
  /\ pc[c] = "remove"
  /\ Del(key[c])
  /\ Goto(c, "untrack")
  /\ UNCHANGED <<waitOnMutation, tracked, mutations, pruning, sets, call, todo, histories>>

\* untrackKey
UntrackKey(c) ==
  /\ pc[c] = "untrack"
  /\ tracked' = tracked \ {key[c]}
  /\ Goto(c, CASE op[c] = "delete"        -> AfterMutation(c)
               [] op[c] = "deletePattern" -> "range"
               [] op[c] = "set"           -> "return")
  /\ UNCHANGED <<waitOnMutation, ristretto, mutations, pruning, sets, call, todo, histories>>

\* The remainder is left out.
NextMutation_Slip == mutations + 1

NextMutation == (mutations + 1) % PruneEvery

\* maybePruneTrackedKeys
MaybePrune(c) ==
  /\ pc[c] = "maybePrune"
  /\ IF tracked = {}
       THEN Goto(c, "return") /\ mutations' = mutations
       ELSE /\ mutations' = NextMutation
            /\ Goto(c, IF mutations' = 0 THEN "prune" ELSE "return")
  /\ UNCHANGED <<waitOnMutation, ristretto, tracked, pruning, sets, call, todo, histories>>

\* DeletePattern and Stats begin by pruning.
DeletePattern(c) ==
  /\ Call(c, "deletePattern", NoKey, "prune")
  /\ asof' = [asof EXCEPT ![c] = {w \in returned : w[1] \in PatternKeys}]
  /\ UNCHANGED <<waitOnMutation, ristretto, tracked, mutations, pruning, sets, version, todo, returned, erased>>

Stats(c) ==
  /\ Call(c, "stats", NoKey, "prune")
  /\ UNCHANGED <<waitOnMutation, ristretto, tracked, mutations, pruning, sets, version, todo, history>>

AfterPrune(c) ==
  IF op[c] = "deletePattern"
    THEN todo' = [todo EXCEPT ![c] = tracked \cap PatternKeys] /\ Goto(c, "range")
    ELSE todo' = [todo EXCEPT ![c] = {}] /\ Goto(c, "return")

\* pruneTrackedKeys: only one goroutine prunes, the others go on.
Prune(c) ==
  /\ pc[c] = "prune"
  /\ IF tracked = {} \/ pruning
       THEN AfterPrune(c) /\ pruning' = pruning
       ELSE /\ pruning' = TRUE
            /\ todo' = [todo EXCEPT ![c] = tracked]
            /\ Goto(c, "look")
  /\ UNCHANGED <<waitOnMutation, ristretto, tracked, mutations, sets, call, histories>>

\* Its Range looks for a tracked key in Ristretto ...
Look(c, k) ==
  /\ pc[c] = "look"
  /\ k \in todo[c]
  /\ IF cache[k] = NoValue
       THEN key' = [key EXCEPT ![c] = k] /\ Goto(c, "drop")
       ELSE UNCHANGED <<pc, key>>
  /\ todo' = [todo EXCEPT ![c] = @ \ {k}]
  /\ UNCHANGED <<waitOnMutation, ristretto, tracked, mutations, pruning, sets, op, version, histories>>

\* ... and untracks one that is not there.
DropKey(c) ==
  /\ pc[c] = "drop"
  /\ tracked' = tracked \ {key[c]}
  /\ Goto(c, "look")
  /\ UNCHANGED <<waitOnMutation, ristretto, mutations, pruning, sets, call, todo, histories>>

\* pruneTrackedKeys gives up its flag.
Pruned(c) ==
  /\ pc[c] = "look"
  /\ todo[c] = {}
  /\ pruning' = FALSE
  /\ AfterPrune(c)
  /\ UNCHANGED <<waitOnMutation, ristretto, tracked, mutations, sets, call, histories>>

\* DeletePattern's Range comes to a tracked key that matches.
Match(c, k) ==
  /\ pc[c] = "range"
  /\ k \in todo[c]
  /\ todo' = [todo EXCEPT ![c] = @ \ {k}]
  /\ key' = [key EXCEPT ![c] = k]
  /\ Goto(c, "remove")
  /\ UNCHANGED <<waitOnMutation, ristretto, tracked, mutations, pruning, sets, op, version, histories>>

EndOfRange(c) ==
  /\ pc[c] = "range"
  /\ todo[c] = {}
  /\ Goto(c, AfterMutation(c))
  /\ UNCHANGED <<waitOnMutation, ristretto, tracked, mutations, pruning, sets, call, todo, histories>>

\* The call returns.
Return(c) ==
  /\ pc[c] = "return"
  /\ Goto(c, "idle")
  /\ op' = [op EXCEPT ![c] = "stats"]
  /\ key' = [key EXCEPT ![c] = NoKey]
  /\ version' = [version EXCEPT ![c] = NoValue]
  /\ overlaps' = [overlaps EXCEPT ![c] = FALSE]
  /\ returned' = IF op[c] = "set" /\ ~overlaps[c] THEN returned \cup {<<key[c], version[c]>>} ELSE returned
  /\ erased' = erased \cup asof[c]
  /\ asof' = [asof EXCEPT ![c] = {}]
  /\ UNCHANGED <<waitOnMutation, ristretto, tracked, mutations, pruning, sets, todo>>

Work(c) ==
  \/ Put(c) \/ Wait(c) \/ Sync(c) \/ TrackKey(c) \/ Remove(c) \/ UntrackKey(c)
  \/ MaybePrune(c) \/ Prune(c) \/ DropKey(c) \/ Pruned(c) \/ EndOfRange(c) \/ Return(c)
  \/ \E k \in Keys : Look(c, k) \/ Match(c, k)

Next ==
  \/ \E c \in Clients :
       \/ \E k \in Keys : Set(c, k) \/ Delete(c, k)
       \/ DeletePattern(c) \/ Stats(c) \/ Work(c)
  \/ Process
  \/ \E k \in Keys : Evict(k)

Spec == Init /\ [][Next]_vars

-----------------------------------------------------------------------------
(* Properties *)

\* With WithWait, once DeletePattern has returned, no matching key holds a value
\* whose Set had returned before DeletePattern was called and had overlapped no
\* other call: what "DeletePattern deletes keys by pattern" says, although it
\* only deletes what is tracked and others set, delete and prune meanwhile.
PatternDeletes ==
  waitOnMutation => \A k \in Keys : <<k, cache[k]>> \notin erased

\* With WithWait, such a value is tracked for as long as Ristretto holds it:
\* nobody's pruning, deleting or setting takes the key out under it.
HeldIsTracked ==
  waitOnMutation => \A k \in Keys : <<k, cache[k]>> \in returned => k \in tracked
=============================================================================
