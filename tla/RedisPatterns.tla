---------------------------- MODULE RedisPatterns ----------------------------
(***************************************************************************)
(* persist.RedisStore's bulk deletions on a sharded Redis.  DeletePattern  *)
(* scans every node at once and deletes what each batch of SCAN returns    *)
(* with a pipeline of single-key DELs; DeleteKeys sends such a pipeline    *)
(* through the client, which routes every command to its node.             *)
(*                                                                         *)
(* What a glob matches is the subject of module Glob: here it is a set.    *)
(***************************************************************************)
EXTENDS Naturals, FiniteSets

CONSTANTS
  Nodes,       \* the masters of a cluster or the shards of a ring
  Keys,
  Matching,    \* the keys scanPattern matches
  Named,       \* the keys DeleteKeys is given
  Router,      \* stands for s.client where DeleteKeys has no node
  MayFail,     \* commands and replies may be lost
  MaxStores,   \* bound: keys that others store meanwhile
  MaxMoves     \* bound: slots that move to another node

Workers == Nodes \cup {Router}

ASSUME ConstantsAssumption ==
  /\ Router \notin Nodes
  /\ Matching \subseteq Keys
  /\ Named \subseteq Keys
  /\ MayFail \in BOOLEAN
  /\ {MaxStores, MaxMoves} \subseteq Nat

VARIABLES
  exists, place,  \* Redis: which keys exist, and on which node a key belongs
  op,             \* the call under way
  step,           \* each goroutine's next step
  seen,           \* the keys SCAN has returned
  last,           \* the cursor SCAN returned was 0
  batch,          \* the DELs of a pipeline without a result
  acked, broken,  \* what deleteEachKey has seen: keys deleted, any error
  deleted,        \* DeletePattern's counter
  expired,        \* the call's ctx is done
  stores, moves,
  removed,        \* history: keys this call has really removed
  lost,           \* history: a reply that reported a deletion was lost
  intact          \* history: keys to delete that exist on their node since the call began

redis  == <<exists, place>>
client == <<op, step, seen, last, batch, acked, broken, deleted, expired>>
bounds == <<stores, moves>>
history == <<removed, lost, intact>>
vars == <<redis, client, bounds, history>>

TypeOK ==
  /\ exists \in [Keys -> BOOLEAN]
  /\ place \in [Keys -> Nodes]
  /\ op \in {"none", "pattern", "keys"}
  /\ step \in [Workers -> {"idle", "scan", "delete", "done", "failed"}]
  /\ seen \in [Nodes -> SUBSET Matching]
  /\ last \in [Workers -> BOOLEAN]
  /\ batch \in [Workers -> SUBSET (Matching \cup Named)]
  /\ acked \in [Workers -> Nat]
  /\ broken \in [Workers -> BOOLEAN]
  /\ deleted \in Nat
  /\ expired \in BOOLEAN
  /\ stores \in Nat /\ moves \in Nat /\ removed \in Nat
  /\ lost \in BOOLEAN
  /\ intact \subseteq Keys

Init ==
  /\ exists \in [Keys -> BOOLEAN]
  /\ place \in [Keys -> Nodes]
  /\ op = "none"
  /\ step = [w \in Workers |-> "idle"]
  /\ seen = [n \in Nodes |-> {}]
  /\ last = [w \in Workers |-> FALSE]
  /\ batch = [w \in Workers |-> {}]
  /\ acked = [w \in Workers |-> 0]
  /\ broken = [w \in Workers |-> FALSE]
  /\ deleted = 0
  /\ expired = FALSE
  /\ stores = 0 /\ moves = 0 /\ removed = 0
  /\ lost = FALSE
  /\ intact = {}

Goto(w, s) == step' = [step EXCEPT ![w] = s]

-----------------------------------------------------------------------------

\* DeletePattern: eachNode calls scanNode for every node at once.
DeletePattern ==
  /\ op = "none"
  /\ op' = "pattern"
  /\ step' = [w \in Workers |-> IF w \in Nodes THEN "scan" ELSE "done"]
  /\ intact' = {k \in Matching : exists[k]}
  /\ UNCHANGED <<redis, seen, last, batch, acked, broken, deleted, expired, bounds,
                 removed, lost>>

\* DeleteKeys
DeleteKeys ==
  /\ op = "none"
  /\ op' = "keys"
  /\ step' = [w \in Workers |-> IF w = Router THEN "delete" ELSE "done"]
  /\ batch' = [batch EXCEPT ![Router] = Named]
  /\ last' = [last EXCEPT ![Router] = TRUE]
  /\ intact' = {k \in Named : exists[k]}
  /\ UNCHANGED <<redis, seen, acked, broken, deleted, expired, bounds, removed, lost>>

\* The match pattern is left out of the command.
Found_Slip(n) == {k \in Keys : exists[k] /\ place[k] = n}

\* What SCAN may return on node n.
Found(n) == {k \in Matching : exists[k] /\ place[k] = n}

\* A batch without keys ends the loop.
AfterBatch_Slip(keys, end) == IF keys = {} THEN "done" ELSE "delete"

\* What scanNode does with a batch of keys: an empty one has no pipeline, and
\* the loop ends with the cursor, or with the ctx.
AfterBatch(keys, end) ==
  CASE keys # {}                      -> "delete"
    [] keys = {} /\ end               -> "done"
    [] keys = {} /\ ~end /\ expired   -> "failed"
    [] keys = {} /\ ~end /\ ~expired  -> "scan"

\* One SCAN.  Redis returns a key that stays from the first to the last call of
\* an iteration at least once, and any other key as often as it likes.
Scan(n) ==
  /\ step[n] = "scan"
  /\ \/ \E keys \in SUBSET Found(n), end \in BOOLEAN :
          /\ end => \A k \in intact : place[k] = n => k \in seen[n] \cup keys
          /\ seen' = [seen EXCEPT ![n] = @ \cup keys]
          /\ batch' = [batch EXCEPT ![n] = keys]
          /\ last' = [last EXCEPT ![n] = end]
          /\ Goto(n, AfterBatch(keys, end))
     \/ /\ MayFail \/ expired
        /\ Goto(n, "failed")
        /\ UNCHANGED <<seen, batch, last>>
  /\ UNCHANGED <<redis, op, acked, broken, deleted, expired, bounds, history>>

\* The result of one DEL of w's pipeline.
Result(w, k, count, error) ==
  /\ batch' = [batch EXCEPT ![w] = @ \ {k}]
  /\ acked' = [acked EXCEPT ![w] = @ + count]
  /\ broken' = [broken EXCEPT ![w] = @ \/ error]

\* The node executes the DEL and the reply says what it did.
Delete(w, k) ==
  /\ step[w] = "delete"
  /\ k \in batch[w]
  /\ w = Router \/ place[k] = w
  /\ Result(w, k, IF exists[k] THEN 1 ELSE 0, FALSE)
  /\ exists' = [exists EXCEPT ![k] = FALSE]
  /\ removed' = IF exists[k] THEN removed + 1 ELSE removed
  /\ intact' = intact \ {k}
  /\ UNCHANGED <<place, op, step, seen, last, deleted, expired, bounds, lost>>

\* The node executes the DEL and the reply is lost: an error, unless the driver
\* sends the command again and is told that the key does not exist.
DeleteUnseen(w, k) ==
  /\ MayFail
  /\ step[w] = "delete"
  /\ k \in batch[w]
  /\ exists[k]
  /\ w = Router \/ place[k] = w
  /\ \E error \in BOOLEAN : Result(w, k, 0, error)
  /\ exists' = [exists EXCEPT ![k] = FALSE]
  /\ removed' = removed + 1
  /\ lost' = TRUE
  /\ intact' = intact \ {k}
  /\ UNCHANGED <<place, op, step, seen, last, deleted, expired, bounds>>

\* The DEL is not executed: the node refuses a key whose slot has moved away,
\* cannot be reached, or the ctx is done.
DeleteFails(w, k) ==
  /\ step[w] = "delete"
  /\ k \in batch[w]
  /\ (w \in Nodes /\ place[k] # w) \/ MayFail \/ expired
  /\ Result(w, k, 0, TRUE)
  /\ UNCHANGED <<redis, op, step, seen, last, deleted, expired, bounds, history>>

\* A pipeline with an error adds nothing to the count.
Counted_Slip(w) == IF broken[w] THEN deleted ELSE deleted + acked[w]

\* deleteEachKey returns what was deleted next to its error.
Counted(w) == deleted + acked[w]

\* The errors of single commands are dropped.
AfterPipeline_Slip(w) == IF last[w] THEN "done" ELSE IF expired THEN "failed" ELSE "scan"

\* What scanNode's loop does after deleteEachKey.
AfterPipeline(w) ==
  CASE broken[w]                             -> "failed"
    [] ~broken[w] /\ last[w]                 -> "done"
    [] ~broken[w] /\ ~last[w] /\ expired     -> "failed"
    [] ~broken[w] /\ ~last[w] /\ ~expired    -> "scan"

\* deleteEachKey has the result of every command.
Collect(w) ==
  /\ step[w] = "delete"
  /\ batch[w] = {}
  /\ deleted' = Counted(w)
  /\ acked' = [acked EXCEPT ![w] = 0]
  /\ broken' = [broken EXCEPT ![w] = FALSE]
  /\ Goto(w, AfterPipeline(w))
  /\ UNCHANGED <<redis, op, seen, last, batch, expired, bounds, history>>

\* The caller's ctx is cancelled or times out.
CtxEnds ==
  /\ op # "none"
  /\ ~expired
  /\ expired' = TRUE
  /\ UNCHANGED <<redis, op, step, seen, last, batch, acked, broken, deleted, bounds, history>>

\* Another client stores a key.
Set(k) ==
  /\ stores < MaxStores
  /\ stores' = stores + 1
  /\ exists' = [exists EXCEPT ![k] = TRUE]
  /\ UNCHANGED <<place, client, moves, history>>

\* Another client deletes a key, or it expires.
Vanish(k) ==
  /\ exists[k]
  /\ exists' = [exists EXCEPT ![k] = FALSE]
  /\ intact' = intact \ {k}
  /\ UNCHANGED <<place, client, bounds, removed, lost>>

\* The slot of a key moves to another node.
Migrate(k, n) ==
  /\ moves < MaxMoves
  /\ n # place[k]
  /\ moves' = moves + 1
  /\ place' = [place EXCEPT ![k] = n]
  /\ intact' = intact \ {k}
  /\ UNCHANGED <<exists, client, stores, removed, lost>>

Ended == \A w \in Workers : step[w] \in {"done", "failed"}

\* The call has returned.
Returned == Ended /\ UNCHANGED vars

Next ==
  \/ DeletePattern \/ DeleteKeys \/ CtxEnds \/ Returned
  \/ \E n \in Nodes : Scan(n)
  \/ \E w \in Workers : Collect(w)
  \/ \E w \in Workers, k \in Keys : Delete(w, k) \/ DeleteUnseen(w, k) \/ DeleteFails(w, k)
  \/ \E k \in Keys : Set(k) \/ Vanish(k)
  \/ \E k \in Keys, n \in Nodes : Migrate(k, n)

Spec == Init /\ [][Next]_vars

-----------------------------------------------------------------------------
(* Properties *)

\* A call that returns without an error leaves none of its keys that existed
\* when it began, was not stored anew and whose slot did not move meanwhile:
\* no node, no batch and no single failed command is passed over in silence.
SuccessIsComplete ==
  Ended /\ (\A w \in Workers : step[w] = "done") => intact = {}

\* The count DeletePattern returns, with or without an error, is what it really
\* deleted; it is too small only if a reply was lost.  TwoLevelStore decides by
\* it whether a failed call is announced to other instances.
CountIsTrue ==
  Ended => deleted <= removed /\ (~lost => deleted = removed)
=============================================================================
