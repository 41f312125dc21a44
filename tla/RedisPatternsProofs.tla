------------------------- MODULE RedisPatternsProofs -------------------------
(***************************************************************************)
(* Theorems about RedisPatterns, for any number of nodes and keys, and     *)
(* however many stores and moves of slots happen meanwhile; and about the  *)
(* pattern it hands to Redis, for prefixes, globs and keys of any length   *)
(* (module Glob).                                                          *)
(***************************************************************************)
EXTENDS RedisPatterns, Glob, TLAPS, WellFoundedInduction, SequenceTheorems

\* Whom a call puts to work, and what a goroutine without a pipeline holds.
WorkersInv ==
  /\ op = "none" => /\ \A w \in Workers : step[w] = "idle"
                    /\ \A n \in Nodes : seen[n] = {}
  /\ op = "pattern" => step[Router] = "done"
  /\ op = "keys" => last[Router] /\ \A n \in Nodes : step[n] = "done"
  /\ \A w \in Workers :
       step[w] # "delete" => batch[w] = {} /\ ~broken[w] /\ acked[w] = 0

LEMMA RouterApart == /\ Router \in Workers /\ Nodes \subseteq Workers
                     /\ \A n \in Nodes : n # Router
                     /\ Matching \subseteq Keys /\ Named \subseteq Keys
  BY ConstantsAssumption DEF Workers

LEMMA InitType == Init => TypeOK /\ WorkersInv
<1> SUFFICES ASSUME Init PROVE TypeOK /\ WorkersInv
  OBVIOUS
<1>1. seen \in [Nodes -> SUBSET Matching]
  BY DEF Init
<1>2. batch \in [Workers -> SUBSET (Matching \cup Named)]
  BY DEF Init
<1>3. acked \in [Workers -> Nat] /\ broken \in [Workers -> BOOLEAN] /\ last \in [Workers -> BOOLEAN]
  BY DEF Init
<1>4. step \in [Workers -> {"idle", "scan", "delete", "done", "failed"}]
  BY DEF Init
<1>5. TypeOK
  BY <1>1, <1>2, <1>3, <1>4 DEF Init, TypeOK
<1>6. WorkersInv
  <2>1. \A w \in Workers : batch[w] = {} /\ ~broken[w] /\ acked[w] = 0 /\ step[w] = "idle"
    BY DEF Init
  <2>2. \A n \in Nodes : seen[n] = {}
    BY DEF Init
  <2>3. op = "none"
    BY DEF Init
  <2> QED BY <2>1, <2>2, <2>3 DEF WorkersInv
<1> QED BY <1>5, <1>6

LEMMA BeginType ==
  ASSUME TypeOK, WorkersInv, DeletePattern \/ DeleteKeys
  PROVE  TypeOK' /\ WorkersInv'
<1>1. CASE DeletePattern
  <2>1. TypeOK'
    BY <1>1, RouterApart DEF TypeOK, DeletePattern, redis, bounds
  <2>2. WorkersInv'
    BY <1>1, RouterApart DEF TypeOK, WorkersInv, DeletePattern
  <2> QED BY <2>1, <2>2
<1>2. CASE DeleteKeys
  <2>1. TypeOK'
    BY <1>2, RouterApart DEF TypeOK, DeleteKeys, redis, bounds
  <2>2. WorkersInv'
    BY <1>2, RouterApart DEF TypeOK, WorkersInv, DeleteKeys
  <2> QED BY <2>1, <2>2
<1> QED BY <1>1, <1>2

LEMMA ScanType ==
  ASSUME TypeOK, WorkersInv, NEW n \in Nodes, Scan(n)
  PROVE  TypeOK' /\ WorkersInv'
<1>1. /\ step[n] = "scan" /\ op = "pattern"
      /\ UNCHANGED <<redis, op, acked, broken, deleted, expired, bounds, history>>
  BY RouterApart DEF Scan, TypeOK, WorkersInv
<1>2. CASE Goto(n, "failed") /\ UNCHANGED <<seen, batch, last>>
  <2>1. TypeOK'
    BY <1>1, <1>2, RouterApart DEF TypeOK, Goto, redis, bounds, history
  <2>2. WorkersInv'
    BY <1>1, <1>2, RouterApart DEF TypeOK, WorkersInv, Goto
  <2> QED BY <2>1, <2>2
<1>3. ASSUME NEW keys \in SUBSET Found(n), NEW end \in BOOLEAN,
             seen' = [seen EXCEPT ![n] = seen[n] \cup keys],
             batch' = [batch EXCEPT ![n] = keys],
             last' = [last EXCEPT ![n] = end],
             Goto(n, AfterBatch(keys, end))
      PROVE  TypeOK' /\ WorkersInv'
  <2>1. /\ AfterBatch(keys, end) \in {"delete", "done", "failed", "scan"}
        /\ AfterBatch(keys, end) # "delete" => keys = {}
    BY DEF AfterBatch, TypeOK
  <2>2. keys \subseteq Matching
    BY DEF Found
  <2>3. TypeOK'
    BY <1>1, <1>3, <2>1, <2>2, RouterApart DEF TypeOK, Goto, redis, bounds, history
  <2>4. WorkersInv'
    BY <1>1, <1>3, <2>1, RouterApart DEF TypeOK, WorkersInv, Goto
  <2> QED BY <2>3, <2>4
<1> QED BY <1>2, <1>3 DEF Scan

LEMMA ResultType ==
  ASSUME TypeOK, WorkersInv, NEW w \in Workers, step[w] = "delete", NEW k, NEW count \in {0, 1},
         NEW error \in BOOLEAN, Result(w, k, count, error), UNCHANGED <<op, step, seen, last>>
  PROVE  /\ batch' \in [Workers -> SUBSET (Matching \cup Named)]
         /\ acked' \in [Workers -> Nat]
         /\ broken' \in [Workers -> BOOLEAN]
         /\ WorkersInv'
<1>1. /\ batch' = [batch EXCEPT ![w] = batch[w] \ {k}]
      /\ acked' = [acked EXCEPT ![w] = acked[w] + count]
      /\ broken' = [broken EXCEPT ![w] = broken[w] \/ error]
  BY DEF Result
<1>2. /\ batch \in [Workers -> SUBSET (Matching \cup Named)]
      /\ acked \in [Workers -> Nat]
      /\ broken \in [Workers -> BOOLEAN]
  BY DEF TypeOK
<1>3. /\ batch' \in [Workers -> SUBSET (Matching \cup Named)]
      /\ acked' \in [Workers -> Nat]
      /\ broken' \in [Workers -> BOOLEAN]
  BY ONLY <1>1, <1>2, count \in {0, 1}, error \in BOOLEAN
<1>4. \A v \in Workers \ {w} : UNCHANGED <<batch[v], acked[v], broken[v]>>
  BY ONLY <1>1, <1>2
<1>5. WorkersInv'
  BY <1>4 DEF WorkersInv
<1> QED BY <1>3, <1>5

LEMMA DeleteType ==
  ASSUME TypeOK, WorkersInv, NEW w \in Workers, NEW k \in Keys,
         Delete(w, k) \/ DeleteUnseen(w, k) \/ DeleteFails(w, k)
  PROVE  TypeOK' /\ WorkersInv'
<1>1. /\ step[w] = "delete" /\ UNCHANGED <<op, step, seen, last, place, deleted, expired, bounds>>
      /\ \E count \in {0, 1}, error \in BOOLEAN : Result(w, k, count, error)
  BY DEF Delete, DeleteUnseen, DeleteFails, redis
<1>2. /\ exists' \in [Keys -> BOOLEAN] /\ removed' \in Nat /\ lost' \in BOOLEAN
      /\ intact' \subseteq Keys
  <2>1. CASE Delete(w, k)
    <3>1. exists' = [exists EXCEPT ![k] = FALSE] /\ removed' \in {removed, removed + 1}
      BY <2>1 DEF Delete
    <3> QED BY <2>1, <3>1 DEF TypeOK, Delete
  <2>2. CASE DeleteUnseen(w, k)
    BY <2>2 DEF TypeOK, DeleteUnseen
  <2>3. CASE DeleteFails(w, k)
    BY <2>3 DEF TypeOK, DeleteFails, redis, history
  <2> QED BY <2>1, <2>2, <2>3
<1>3. /\ batch' \in [Workers -> SUBSET (Matching \cup Named)]
      /\ acked' \in [Workers -> Nat]
      /\ broken' \in [Workers -> BOOLEAN]
      /\ WorkersInv'
  BY <1>1, ResultType
<1> QED BY <1>1, <1>2, <1>3 DEF TypeOK, bounds

LEMMA CollectType ==
  ASSUME TypeOK, WorkersInv, NEW w \in Workers, Collect(w)
  PROVE  TypeOK' /\ WorkersInv'
<1>1. /\ step[w] = "delete" /\ batch[w] = {}
      /\ UNCHANGED <<redis, op, seen, last, batch, expired, bounds, history>>
      /\ deleted' = deleted + acked[w]
      /\ acked' = [acked EXCEPT ![w] = 0] /\ broken' = [broken EXCEPT ![w] = FALSE]
      /\ step' = [step EXCEPT ![w] = AfterPipeline(w)]
  BY DEF Collect, Counted, Goto
<1>2. AfterPipeline(w) \in {"failed", "done", "scan"} /\ (last[w] => AfterPipeline(w) # "scan")
  BY DEF AfterPipeline, TypeOK
<1>3. TypeOK'
  BY <1>1, <1>2 DEF TypeOK, redis, bounds, history
<1>4. WorkersInv'
  <2>1. op = "pattern" => w # Router
    BY <1>1 DEF WorkersInv
  <2>2. op = "keys" => w \notin Nodes
    BY <1>1 DEF WorkersInv
  <2>3. op # "none"
    BY <1>1 DEF WorkersInv
  <2>4. \A v \in Workers \ {w} : UNCHANGED <<step[v], acked[v], broken[v]>>
    BY <1>1 DEF TypeOK
  <2>5. step'[w] = AfterPipeline(w) /\ ~broken'[w] /\ acked'[w] = 0
    BY <1>1 DEF TypeOK
  <2> QED BY <1>1, <1>2, <2>1, <2>2, <2>3, <2>4, <2>5, RouterApart DEF WorkersInv
<1> QED BY <1>3, <1>4

\* What happens beside the call.
Aside == CtxEnds \/ Returned \/ UNCHANGED vars \/ (\E k \in Keys : Set(k) \/ Vanish(k))
           \/ (\E k \in Keys, n \in Nodes : Migrate(k, n))

LEMMA AsideType ==
  ASSUME TypeOK, WorkersInv, Aside
  PROVE  /\ TypeOK' /\ WorkersInv'
         /\ UNCHANGED <<op, step, seen, last, batch, acked, broken, deleted, removed, lost>>
         /\ \A k \in Keys : k \in intact' => k \in intact /\ place'[k] = place[k]
<1>1. UNCHANGED <<op, step, seen, last, batch, acked, broken, deleted, removed, lost>>
  BY DEF Aside, CtxEnds, Returned, Set, Vanish, Migrate, vars, client, history
<1>2. CASE CtxEnds \/ Returned \/ UNCHANGED vars
  BY <1>1, <1>2 DEF CtxEnds, Returned, TypeOK, WorkersInv, vars, client, redis, bounds, history
<1>3. ASSUME NEW k \in Keys, Set(k) \/ Vanish(k)
      PROVE  TypeOK' /\ (\A m \in Keys : m \in intact' => m \in intact /\ place'[m] = place[m])
  <2>1. /\ exists' \in [Keys -> BOOLEAN] /\ place' = place /\ stores' \in Nat /\ moves' = moves
        /\ expired' = expired /\ intact' \subseteq intact
    <3>1. exists' \in [Keys -> BOOLEAN]
      BY <1>3 DEF Set, Vanish, TypeOK
    <3>2. place' = place /\ expired' = expired /\ moves' = moves
      BY <1>3 DEF Set, Vanish, client, bounds
    <3>3. stores' \in Nat
      BY <1>3 DEF Set, Vanish, TypeOK, bounds
    <3>4. intact' \subseteq intact
      BY <1>3 DEF Set, Vanish, history
    <3> QED BY <3>1, <3>2, <3>3, <3>4
  <2> QED BY <1>1, <2>1 DEF TypeOK
<1>4. ASSUME NEW k \in Keys, NEW n \in Nodes, Migrate(k, n)
      PROVE  TypeOK' /\ (\A m \in Keys : m \in intact' => m \in intact /\ place'[m] = place[m])
  BY <1>1, <1>4 DEF Migrate, TypeOK, client, bounds, history
<1>5. WorkersInv'
  BY <1>1 DEF WorkersInv
<1> QED BY <1>1, <1>2, <1>3, <1>4, <1>5 DEF Aside

LEMMA StepsOfACall ==
  ASSUME [Next]_vars
  PROVE  \/ DeletePattern \/ DeleteKeys
         \/ \E n \in Nodes : Scan(n)
         \/ \E w \in Workers : Collect(w)
         \/ \E w \in Workers, k \in Keys : Delete(w, k) \/ DeleteUnseen(w, k) \/ DeleteFails(w, k)
         \/ Aside
  BY DEF Next, Aside

LEMMA TypeInvariant == Spec => [](TypeOK /\ WorkersInv)
<1>1. TypeOK /\ WorkersInv /\ [Next]_vars => TypeOK' /\ WorkersInv'
  BY StepsOfACall, BeginType, ScanType, DeleteType, CollectType, AsideType
<1> QED BY <1>1, InitType, PTL DEF Spec

\* Every reachable state is well typed, whatever nodes, keys and failures.
THEOREM TypeCorrect == Spec => []TypeOK
  BY TypeInvariant, PTL

-----------------------------------------------------------------------------
(* Nothing is passed over.  A key that is to be deleted and still stands is  *)
(* ahead of its node's iteration, or in a pipeline, or an error knows of it. *)

\* k is in w's pipeline, or an error has come back with it or after it.
InHand(w, k) == step[w] = "delete" /\ (k \in batch[w] \/ broken[w])

\* The last batch of an iteration has passed every such key of the node.
AheadOf(n, k) ==
  /\ step[n] \in {"scan", "delete", "failed"}
  /\ k \in seen[n] => step[n] = "failed" \/ InHand(n, k)
  /\ step[n] = "delete" /\ last[n] => k \in seen[n]

IntactInv ==
  /\ op = "none" => intact = {}
  /\ op = "pattern" => \A k \in intact : AheadOf(place[k], k)
  /\ op = "keys" => \A k \in intact : step[Router] = "failed" \/ InHand(Router, k)

LEMMA IntactInit == Init => IntactInv
  BY DEF Init, IntactInv

LEMMA BeginIntact ==
  ASSUME TypeOK, WorkersInv, IntactInv, DeletePattern \/ DeleteKeys
  PROVE  IntactInv'
<1>1. CASE DeletePattern
  <2>1. op' = "pattern" /\ place' = place /\ \A n \in Nodes : step'[n] = "scan" /\ seen'[n] = {}
    BY <1>1, RouterApart DEF DeletePattern, WorkersInv, redis
  <2>2. \A k \in Keys : place[k] \in Nodes
    BY DEF TypeOK
  <2>3. intact' \subseteq Keys
    BY <1>1, RouterApart DEF DeletePattern
  <2> QED BY <2>1, <2>2, <2>3 DEF IntactInv, AheadOf, InHand
<1>2. CASE DeleteKeys
  <2>1. op' = "keys" /\ step'[Router] = "delete" /\ batch'[Router] = Named /\ intact' \subseteq Named
    BY <1>2, RouterApart DEF DeleteKeys, TypeOK
  <2> QED BY <2>1 DEF IntactInv, InHand
<1> QED BY <1>1, <1>2

LEMMA ScanIntact ==
  ASSUME TypeOK, WorkersInv, IntactInv, NEW n \in Nodes, Scan(n)
  PROVE  IntactInv'
<1>1. /\ step[n] = "scan" /\ op = "pattern" /\ batch[n] = {} /\ ~broken[n]
      /\ UNCHANGED <<place, op, broken, intact>> /\ n \in Workers
  BY RouterApart DEF Scan, TypeOK, WorkersInv, redis, history
<1>2. /\ \A m \in Nodes \ {n} : UNCHANGED <<step[m], seen[m], batch[m], last[m]>>
      /\ \/ step'[n] = "failed" /\ seen' = seen
         \/ \E keys \in SUBSET Found(n), end \in BOOLEAN :
              /\ end => \A k \in intact : place[k] = n => k \in seen[n] \cup keys
              /\ seen'[n] = seen[n] \cup keys /\ batch'[n] = keys /\ last'[n] = end
              /\ step'[n] = AfterBatch(keys, end)
  <2>1. CASE Goto(n, "failed") /\ UNCHANGED <<seen, batch, last>>
    BY <1>1, <2>1 DEF Goto, TypeOK
  <2>2. ASSUME NEW keys \in SUBSET Found(n), NEW end \in BOOLEAN,
               end => \A k \in intact : place[k] = n => k \in seen[n] \cup keys,
               seen' = [seen EXCEPT ![n] = seen[n] \cup keys],
               batch' = [batch EXCEPT ![n] = keys],
               last' = [last EXCEPT ![n] = end],
               Goto(n, AfterBatch(keys, end))
        PROVE  /\ \A m \in Nodes \ {n} : UNCHANGED <<step[m], seen[m], batch[m], last[m]>>
               /\ seen'[n] = seen[n] \cup keys /\ batch'[n] = keys /\ last'[n] = end
               /\ step'[n] = AfterBatch(keys, end)
    BY <1>1, <2>2, RouterApart DEF Goto, TypeOK
  <2> QED BY <2>1, <2>2 DEF Scan
<1>3. ASSUME NEW k \in intact, NEW m, m = place[k] PROVE AheadOf(m, k)'
  <2>1. m \in Nodes /\ AheadOf(m, k)
    BY <1>1, <1>3 DEF IntactInv, TypeOK
  <2>2. CASE m # n
    BY <1>1, <1>2, <2>1, <2>2 DEF AheadOf, InHand
  <2>3. CASE m = n /\ step'[n] = "failed" /\ seen' = seen
    BY <2>3 DEF AheadOf
  <2>4. ASSUME m = n, NEW keys \in SUBSET Found(n), NEW end \in BOOLEAN,
               end => k \in seen[n] \cup keys,
               seen'[n] = seen[n] \cup keys, batch'[n] = keys, last'[n] = end,
               step'[n] = AfterBatch(keys, end)
        PROVE  AheadOf(m, k)'
    <3>1. k \notin seen[n]
      BY <1>1, <2>1, <2>4 DEF AheadOf, InHand
    <3>2. /\ AfterBatch(keys, end) \in {"delete", "done", "failed", "scan"}
          /\ AfterBatch(keys, end) # "delete" => keys = {}
          /\ AfterBatch(keys, end) = "done" => end
      BY DEF AfterBatch, TypeOK
    <3> QED BY <2>4, <3>1, <3>2 DEF AheadOf, InHand
  <2> QED BY <1>2, <1>3, <2>2, <2>3, <2>4
<1> QED BY <1>1, <1>3 DEF IntactInv, AheadOf, InHand

LEMMA DeleteIntact ==
  ASSUME TypeOK, WorkersInv, IntactInv, NEW w \in Workers, NEW k \in Keys,
         Delete(w, k) \/ DeleteUnseen(w, k) \/ DeleteFails(w, k)
  PROVE  IntactInv'
<1>1. UNCHANGED <<op, step, seen, last, place>> /\ step[w] = "delete" /\ op # "none"
  BY DEF Delete, DeleteUnseen, DeleteFails, redis, WorkersInv
<1>2. /\ \A v \in Workers \ {w} : UNCHANGED <<batch[v], broken[v]>>
      /\ batch'[w] = batch[w] \ {k} /\ (broken[w] => broken'[w])
      /\ k \in intact' => broken'[w]
      /\ intact' \subseteq intact
  BY DEF Delete, DeleteUnseen, DeleteFails, Result, TypeOK, history
<1>3. ASSUME NEW m \in intact', NEW v \in Workers, InHand(v, m) PROVE InHand(v, m)'
  BY <1>1, <1>2, <1>3 DEF InHand
<1>4. intact \subseteq Keys /\ \A m \in Keys : place[m] \in Workers
  BY RouterApart DEF TypeOK
<1>5. CASE op = "pattern"
  <2>1. ASSUME NEW m \in intact', NEW n, n = place[m] PROVE AheadOf(n, m)'
    BY <1>1, <1>2, <1>3, <1>4, <1>5, <2>1 DEF IntactInv, AheadOf
  <2> QED BY <1>1, <1>5, <2>1 DEF IntactInv, AheadOf, InHand
<1>6. CASE op = "keys"
  BY <1>1, <1>2, <1>3, <1>6, RouterApart DEF IntactInv
<1> QED BY <1>1, <1>5, <1>6 DEF TypeOK

LEMMA CollectIntact ==
  ASSUME TypeOK, WorkersInv, IntactInv, NEW w \in Workers, Collect(w)
  PROVE  IntactInv'
<1>1. /\ step[w] = "delete" /\ batch[w] = {} /\ op # "none"
      /\ UNCHANGED <<place, op, seen, last, batch, intact>>
      /\ broken' = [broken EXCEPT ![w] = FALSE]
      /\ step' = [step EXCEPT ![w] = AfterPipeline(w)]
  BY DEF Collect, Goto, redis, history, WorkersInv
<1>2. /\ AfterPipeline(w) \in {"failed", "done", "scan"}
      /\ broken[w] => AfterPipeline(w) = "failed"
      /\ AfterPipeline(w) = "done" => last[w]
  BY DEF AfterPipeline, TypeOK
<1>3. /\ \A v \in Workers \ {w} : UNCHANGED <<step[v], broken[v]>>
      /\ step'[w] = AfterPipeline(w)
  BY <1>1 DEF TypeOK
<1>4. intact \subseteq Keys /\ \A m \in Keys : place[m] \in Workers
  BY RouterApart DEF TypeOK
<1>5. CASE op = "pattern"
  <2>1. ASSUME NEW k \in intact, NEW n, n = place[k] PROVE AheadOf(n, k)'
    <3>1. AheadOf(n, k) /\ n \in Workers
      BY <1>4, <1>5, <2>1 DEF IntactInv
    <3>2. CASE n # w
      BY <1>1, <1>3, <3>1, <3>2 DEF AheadOf, InHand
    <3>3. CASE n = w
      BY <1>1, <1>2, <1>3, <3>1, <3>3 DEF AheadOf, InHand
    <3> QED BY <3>2, <3>3
  <2> QED BY <1>1, <1>5, <2>1 DEF IntactInv, AheadOf, InHand
<1>6. CASE op = "keys"
  <2>1. ASSUME NEW k \in intact PROVE step'[Router] = "failed" \/ InHand(Router, k)'
    <3>1. CASE w = Router
      BY <1>1, <1>2, <1>3, <1>6, <3>1 DEF IntactInv, InHand
    <3>2. CASE w # Router
      BY <1>1, <1>3, <1>6, <3>2, RouterApart DEF IntactInv, InHand
    <3> QED BY <3>1, <3>2
  <2> QED BY <1>1, <1>6, <2>1 DEF IntactInv, InHand
<1> QED BY <1>1, <1>5, <1>6 DEF TypeOK

LEMMA AsideIntact ==
  ASSUME TypeOK, WorkersInv, IntactInv, Aside
  PROVE  IntactInv'
<1>1. /\ UNCHANGED <<op, step, seen, last, batch, broken>>
      /\ \A k \in Keys : k \in intact' => k \in intact /\ place'[k] = place[k]
      /\ intact' \subseteq Keys
  BY AsideType DEF TypeOK
<1>2. ASSUME NEW k \in intact' PROVE k \in intact /\ place'[k] = place[k]
  BY <1>1
<1> QED BY <1>1, <1>2 DEF IntactInv, AheadOf, InHand

LEMMA IntactInvariant == Spec => []IntactInv
<1>1. TypeOK /\ WorkersInv /\ IntactInv /\ [Next]_vars => IntactInv'
  BY StepsOfACall, BeginIntact, ScanIntact, DeleteIntact, CollectIntact, AsideIntact
<1> QED BY <1>1, IntactInit, TypeInvariant, PTL DEF Spec

\* Whatever the nodes, batches, lost replies and moving slots, a call that
\* returns without an error has passed over none of its keys.
THEOREM SuccessLeavesNothing == Spec => []SuccessIsComplete
<1>1. TypeOK /\ WorkersInv /\ IntactInv => SuccessIsComplete
  <2> SUFFICES ASSUME TypeOK, WorkersInv, IntactInv, NEW k \in intact,
                      \A w \in Workers : step[w] = "done"
               PROVE  FALSE
    BY DEF SuccessIsComplete
  <2>1. step[Router] = "done" /\ step[place[k]] = "done"
    BY RouterApart DEF TypeOK
  <2> QED BY <2>1, RouterApart DEF TypeOK, WorkersInv, IntactInv, AheadOf, InHand
<1> QED BY <1>1, TypeInvariant, IntactInvariant, PTL

-----------------------------------------------------------------------------
(* The count.  What the pipelines have acknowledged is a sum over goroutines, *)
(* which the proof has at hand as a function from sets of goroutines to sums. *)

IsTally(s) ==
  /\ s \in [SUBSET Workers -> Nat]
  /\ \A W \in SUBSET Workers, w \in Workers : w \notin W => s[W \cup {w}] = s[W] + acked[w]
  /\ \A W \in SUBSET Workers : (\A w \in W : step[w] # "delete") => s[W] = 0

CountInv ==
  \E s : /\ IsTally(s)
         /\ deleted + s[Workers] <= removed
         /\ ~lost => deleted + s[Workers] = removed

\* One goroutine's sum is raised by count.
LEMMA TallyAdd ==
  ASSUME TypeOK, NEW s, IsTally(s), NEW w \in Workers, NEW count \in Nat, step[w] = "delete",
         acked' = [acked EXCEPT ![w] = acked[w] + count], step' = step
  PROVE  \E t : IsTally(t)' /\ t[Workers] = s[Workers] + count
<1> DEFINE t == [W \in SUBSET Workers |-> IF w \in W THEN s[W] + count ELSE s[W]]
<1>1. /\ s \in [SUBSET Workers -> Nat] /\ acked \in [Workers -> Nat]
      /\ acked'[w] = acked[w] + count /\ \A u \in Workers \ {w} : acked'[u] = acked[u]
  BY DEF IsTally, TypeOK
<1>2. t \in [SUBSET Workers -> Nat]
  BY <1>1
<1>3. ASSUME NEW W \in SUBSET Workers, NEW u \in Workers, u \notin W
      PROVE  t[W \cup {u}] = t[W] + acked'[u]
  <2>1. W \cup {u} \in SUBSET Workers /\ s[W \cup {u}] = s[W] + acked[u] /\ s[W] \in Nat
    BY <1>1, <1>3 DEF IsTally
  <2>2. CASE u = w
    BY <1>1, <1>3, <2>1, <2>2
  <2>3. CASE u # w
    BY <1>1, <1>3, <2>1, <2>3
  <2> QED BY <2>2, <2>3
<1>4. ASSUME NEW W \in SUBSET Workers, \A u \in W : step[u] # "delete"
      PROVE  t[W] = 0
  BY <1>4 DEF IsTally
<1>5. IsTally(t)'
  BY <1>2, <1>3, <1>4 DEF IsTally
<1>6. t[Workers] = s[Workers] + count
  OBVIOUS
<1> QED BY <1>5, <1>6

\* One goroutine's sum is taken out.
LEMMA TallyTake ==
  ASSUME TypeOK, NEW s, IsTally(s), NEW w \in Workers,
         acked' = [acked EXCEPT ![w] = 0], \A u \in Workers \ {w} : step'[u] = step[u]
  PROVE  \E t : IsTally(t)' /\ t[Workers] \in Nat /\ s[Workers] = t[Workers] + acked[w]
<1> DEFINE t == [W \in SUBSET Workers |-> s[W \ {w}]]
<1>1. /\ s \in [SUBSET Workers -> Nat] /\ acked \in [Workers -> Nat]
      /\ acked'[w] = 0 /\ \A u \in Workers \ {w} : acked'[u] = acked[u]
  BY DEF IsTally, TypeOK
<1>2. t \in [SUBSET Workers -> Nat]
  BY <1>1
<1>3. ASSUME NEW W \in SUBSET Workers, NEW u \in Workers, u \notin W
      PROVE  t[W \cup {u}] = t[W] + acked'[u]
  <2>1. W \cup {u} \in SUBSET Workers /\ W \ {w} \in SUBSET Workers /\ s[W \ {w}] \in Nat
    BY <1>1
  <2>2. CASE u = w
    <3>1. (W \cup {u}) \ {w} = W \ {w}
      BY <2>2
    <3>2. t[W \cup {u}] = s[(W \cup {u}) \ {w}] /\ t[W] = s[W \ {w}]
      BY <2>1
    <3>3. acked'[u] = 0
      BY <1>1, <2>2
    <3>4. s[(W \cup {u}) \ {w}] = s[W \ {w}]
      BY ONLY <3>1, Zenon
    <3> HIDE DEF t
    <3> QED BY <2>1, <3>2, <3>3, <3>4
  <2>3. CASE u # w
    <3>1. (W \cup {u}) \ {w} = (W \ {w}) \cup {u} /\ u \notin W \ {w}
      BY <1>3, <2>3
    <3>2. s[(W \ {w}) \cup {u}] = s[W \ {w}] + acked[u]
      BY <2>1, <3>1 DEF IsTally
    <3> QED BY <1>1, <2>1, <2>3, <3>1, <3>2
  <2> QED BY <2>2, <2>3
<1>4. ASSUME NEW W \in SUBSET Workers, \A u \in W : step'[u] # "delete"
      PROVE  t[W] = 0
  <2>1. W \ {w} \in SUBSET Workers /\ \A u \in W \ {w} : step[u] # "delete"
    BY <1>4
  <2> QED BY <2>1 DEF IsTally
<1>5. IsTally(t)'
  BY <1>2, <1>3, <1>4 DEF IsTally
<1>6. t[Workers] \in Nat /\ s[Workers] = t[Workers] + acked[w]
  <2>1. /\ Workers \ {w} \in SUBSET Workers /\ w \notin Workers \ {w}
        /\ (Workers \ {w}) \cup {w} = Workers
    OBVIOUS
  <2> QED BY <1>1, <2>1 DEF IsTally
<1> QED BY <1>5, <1>6

\* No sum changes and nobody stops to delete.
LEMMA TallyStays ==
  ASSUME NEW s, IsTally(s), UNCHANGED acked,
         \A w \in Workers : step[w] = "delete" => step'[w] = "delete"
  PROVE  IsTally(s)'
<1>1. ASSUME NEW W \in SUBSET Workers, \A w \in W : step'[w] # "delete"
      PROVE  \A w \in W : step[w] # "delete"
  BY <1>1
<1> QED BY <1>1 DEF IsTally

LEMMA CountInit == Init => CountInv
<1> SUFFICES ASSUME Init PROVE CountInv
  OBVIOUS
<1> DEFINE s == [W \in SUBSET Workers |-> 0]
<1>1. acked = [w \in Workers |-> 0] /\ deleted = 0 /\ removed = 0
  BY DEF Init
<1>2. IsTally(s)
  <2>1. s \in [SUBSET Workers -> Nat]
    OBVIOUS
  <2>2. ASSUME NEW W \in SUBSET Workers, NEW w \in Workers PROVE s[W \cup {w}] = s[W] + acked[w]
    <3>1. W \cup {w} \in SUBSET Workers
      OBVIOUS
    <3> QED BY <1>1, <3>1
  <2> QED BY <2>1, <2>2 DEF IsTally
<1>3. s[Workers] = 0
  OBVIOUS
<1> HIDE DEF s
<1> QED BY <1>1, <1>2, <1>3 DEF CountInv

LEMMA DeleteCount ==
  ASSUME TypeOK, CountInv, NEW w \in Workers, NEW k \in Keys,
         Delete(w, k) \/ DeleteUnseen(w, k) \/ DeleteFails(w, k)
  PROVE  CountInv'
<1>1. PICK s : /\ IsTally(s)
               /\ deleted + s[Workers] <= removed
               /\ ~lost => deleted + s[Workers] = removed
  BY DEF CountInv
<1>2. s[Workers] \in Nat /\ deleted \in Nat /\ removed \in Nat
  BY <1>1 DEF IsTally, TypeOK
<1>3. PICK count \in {0, 1} :
        /\ acked' = [acked EXCEPT ![w] = acked[w] + count]
        /\ \/ removed' = removed + count /\ lost' = lost
           \/ removed' = removed + 1 /\ count = 0 /\ lost'
  <2>1. CASE Delete(w, k)
    <3>1. CASE exists[k]
      BY <2>1, <3>1 DEF Delete, Result
    <3>2. CASE ~exists[k]
      <4>1. acked' = [acked EXCEPT ![w] = acked[w] + 0] /\ removed' = removed + 0 /\ lost' = lost
        BY <1>2, <2>1, <3>2 DEF Delete, Result
      <4> QED BY <4>1
    <3> QED BY <3>1, <3>2
  <2>2. CASE DeleteUnseen(w, k)
    BY <2>2 DEF DeleteUnseen, Result
  <2>3. CASE DeleteFails(w, k)
    <3>1. acked' = [acked EXCEPT ![w] = acked[w] + 0] /\ removed' = removed + 0 /\ lost' = lost
      BY <1>2, <2>3 DEF DeleteFails, Result, history
    <3> QED BY <3>1
  <2> QED BY <2>1, <2>2, <2>3
<1>4. step[w] = "delete" /\ step' = step /\ deleted' = deleted
  BY DEF Delete, DeleteUnseen, DeleteFails
<1>5. PICK t : IsTally(t)' /\ t[Workers] = s[Workers] + count
  <2>1. count \in Nat /\ IsTally(s) /\ acked' = [acked EXCEPT ![w] = acked[w] + count]
    BY <1>1, <1>3
  <2> QED BY <1>4, <2>1, TallyAdd
<1> QED BY <1>1, <1>2, <1>3, <1>4, <1>5 DEF CountInv

LEMMA CollectCount ==
  ASSUME TypeOK, CountInv, NEW w \in Workers, Collect(w)
  PROVE  CountInv'
<1>1. PICK s : /\ IsTally(s)
               /\ deleted + s[Workers] <= removed
               /\ ~lost => deleted + s[Workers] = removed
  BY DEF CountInv
<1>2. /\ acked' = [acked EXCEPT ![w] = 0] /\ deleted' = deleted + acked[w]
      /\ removed' = removed /\ lost' = lost
      /\ \A u \in Workers \ {w} : step'[u] = step[u]
  BY DEF Collect, Counted, Goto, history, TypeOK
<1>3. PICK t : IsTally(t)' /\ t[Workers] \in Nat /\ s[Workers] = t[Workers] + acked[w]
  BY <1>1, <1>2, TallyTake
<1>4. deleted \in Nat /\ removed \in Nat /\ acked[w] \in Nat
  BY DEF TypeOK
<1> QED BY <1>1, <1>2, <1>3, <1>4 DEF CountInv

LEMMA OthersCount ==
  ASSUME TypeOK, WorkersInv, CountInv,
         DeletePattern \/ DeleteKeys \/ Aside \/ \E n \in Nodes : Scan(n)
  PROVE  CountInv'
<1>1. UNCHANGED <<acked, deleted, removed, lost>>
  BY AsideType DEF DeletePattern, DeleteKeys, Scan, history
<1>2. \A w \in Workers : step[w] = "delete" => step'[w] = "delete"
  BY AsideType DEF DeletePattern, DeleteKeys, Scan, Goto, WorkersInv, TypeOK
<1>3. PICK s : /\ IsTally(s)
               /\ deleted + s[Workers] <= removed
               /\ ~lost => deleted + s[Workers] = removed
  BY DEF CountInv
<1>4. IsTally(s)'
  BY <1>1, <1>2, <1>3, TallyStays
<1> QED BY <1>1, <1>3, <1>4 DEF CountInv

LEMMA CountInvariant == Spec => []CountInv
<1>1. TypeOK /\ WorkersInv /\ CountInv /\ [Next]_vars => CountInv'
  BY StepsOfACall, DeleteCount, CollectCount, OthersCount
<1> QED BY <1>1, CountInit, TypeInvariant, PTL DEF Spec

\* Whatever the nodes, batches, retries and lost replies, the count of a call
\* that has returned is what it deleted, and at most that if a reply was lost.
THEOREM CountHolds == Spec => []CountIsTrue
<1>1. TypeOK /\ CountInv => CountIsTrue
  <2> SUFFICES ASSUME TypeOK, CountInv, Ended
               PROVE  deleted <= removed /\ (~lost => deleted = removed)
    BY DEF CountIsTrue
  <2>1. PICK s : /\ IsTally(s)
                 /\ deleted + s[Workers] <= removed
                 /\ ~lost => deleted + s[Workers] = removed
    BY DEF CountInv
  <2>2. s[Workers] = 0
    BY <2>1 DEF IsTally, Ended
  <2> QED BY <2>1, <2>2 DEF TypeOK
<1> QED BY <1>1, TypeInvariant, CountInvariant, PTL

-----------------------------------------------------------------------------
(* Induction over data.  The library's theorems on induction take a          *)
(* predicate; these take a set, which is a value.                            *)

\* A set with zero and with every successor has all natural numbers.
LEMMA InductiveSet ==
  ASSUME NEW S, 0 \in S, \A n \in Nat : n \in S => n + 1 \in S
  PROVE  Nat \subseteq S
<1> DEFINE R == {ss \in Nat \X Nat : ss[1] < ss[2]}
           Rest == Nat \ S
<1>1. IsWellFoundedOn(R, Nat)
  BY NatLessThanWellFounded DEF OpToRel
<1>2. \A x, y \in Nat : x < y => <<x, y>> \in R
  OBVIOUS
<1> HIDE DEF R
<1>3. SUFFICES ASSUME Rest # {} PROVE FALSE
  OBVIOUS
<1>4. Rest \subseteq Nat
  OBVIOUS
<1>5. PICK x \in Rest : \A y \in Rest : <<y, x>> \notin R
  BY <1>1, <1>3, <1>4, WFMin
<1>6. x # 0 /\ x - 1 \in Nat /\ x = (x - 1) + 1
  OBVIOUS
<1>7. x - 1 \in Rest
  BY <1>6
<1>8. <<x - 1, x>> \in R
  BY <1>2, <1>6
<1> QED BY <1>5, <1>7, <1>8

Stepwise(N, S, base, rule) ==
  {f \in [0 .. N -> S] : f[0] = base /\ \A n \in 1 .. N : f[n] = rule[n][f[n - 1]]}

\* A function on 0 .. N may be defined step by step.
LEMMA StepByStep ==
  ASSUME NEW N \in Nat, NEW S, NEW base \in S, NEW rule \in [1 .. N -> [S -> S]]
  PROVE  Stepwise(N, S, base, rule) # {}
<1> USE DEF Stepwise
<1> DEFINE UpTo(m) == Stepwise(m, S, base, rule)
           Done == {m \in Nat : m <= N => UpTo(m) # {}}
<1>1. 0 \in Done
  <2>1. [n \in 0 .. 0 |-> base] \in UpTo(0)
    OBVIOUS
  <2> QED BY <2>1
<1>2. ASSUME NEW m \in Nat, m \in Done PROVE m + 1 \in Done
  <2>1. SUFFICES ASSUME m + 1 <= N PROVE UpTo(m + 1) # {}
    OBVIOUS
  <2>2. PICK f \in UpTo(m) : TRUE
    BY <1>2, <2>1
  <2> DEFINE g == [n \in 0 .. m + 1 |-> IF n = m + 1 THEN rule[n][f[m]] ELSE f[n]]
  <2>3. f[m] \in S /\ m + 1 \in 1 .. N /\ f[0] = base
    BY <2>1, <2>2
  <2>4. rule[m + 1][f[m]] \in S
    BY <2>3
  <2>5. g \in [0 .. m + 1 -> S]
    BY <2>2, <2>4
  <2>6. g[0] = base
    BY <2>3
  <2>7. ASSUME NEW n \in 1 .. m + 1 PROVE g[n] = rule[n][g[n - 1]]
    <3>1. CASE n = m + 1
      BY <3>1
    <3>2. CASE n # m + 1
      <4>1. n \in 1 .. m /\ n - 1 \in 0 .. m /\ n - 1 # m + 1 /\ n \in 0 .. m + 1 /\ n - 1 \in 0 .. m + 1
        BY <3>2
      <4> QED BY <2>2, <3>2, <4>1
    <3> QED BY <3>1, <3>2
  <2>8. g \in UpTo(m + 1)
    BY <2>5, <2>6, <2>7
  <2> QED BY <2>8
<1>3. Nat \subseteq Done
  <2> HIDE DEF Done
  <2> QED BY <1>1, <1>2, InductiveSet
<1>4. UpTo(N) # {}
  BY <1>3
<1> QED BY <1>4

\* A set that has a number of an interval if it has all greater ones has them all.
LEMMA Downward ==
  ASSUME NEW lo \in Nat, NEW hi \in Nat, NEW S,
         \A n \in lo .. hi : (\A m \in n + 1 .. hi : m \in S) => n \in S
  PROVE  lo .. hi \subseteq S
<1> DEFINE Done == {d \in Nat : \A n \in lo .. hi : n + d > hi => n \in S}
<1>1. 0 \in Done
  OBVIOUS
<1>2. ASSUME NEW d \in Nat, d \in Done PROVE d + 1 \in Done
  <2>1. SUFFICES ASSUME NEW n \in lo .. hi, n + (d + 1) > hi PROVE n \in S
    OBVIOUS
  <2>2. ASSUME NEW m \in n + 1 .. hi PROVE m \in S
    <3>1. m \in lo .. hi /\ m + d > hi
      BY <2>1
    <3> QED BY <1>2, <3>1
  <2> QED BY <2>2
<1>3. Nat \subseteq Done
  <2> HIDE DEF Done
  <2> QED BY <1>1, <1>2, InductiveSet
<1>4. ASSUME NEW n \in lo .. hi PROVE n \in S
  <2>1. hi + 1 \in Done
    BY <1>3
  <2>2. n + (hi + 1) > hi
    OBVIOUS
  <2> QED BY <2>1, <2>2
<1> QED BY <1>4

\* A step of a definition looks at greater arguments only.
LooksAhead(lo, hi, S, rule) ==
  \A n \in lo .. hi : \A f, g \in [lo .. hi -> S] :
    (\A m \in n + 1 .. hi : f[m] = g[m]) => rule[n][f] = rule[n][g]

Defined(lo, hi, S, rule) == {f \in [lo .. hi -> S] : \A n \in lo .. hi : f[n] = rule[n][f]}

\* A function on an interval may be defined by what it is at greater arguments.
LEMMA DownwardFunction ==
  ASSUME NEW lo \in Nat, NEW hi \in Nat, lo <= hi, NEW S, NEW x \in S,
         NEW rule \in [lo .. hi -> [[lo .. hi -> S] -> S]],
         LooksAhead(lo, hi, S, rule)
  PROVE  Defined(lo, hi, S, rule) # {}
<1> USE DEF LooksAhead, Defined
<1> DEFINE F == [lo .. hi -> S]
           From(m) == {f \in F : \A n \in lo .. hi : n + m > hi => f[n] = rule[n][f]}
           Done == {m \in Nat : m <= hi + 1 - lo => From(m) # {}}
<1>1. 0 \in Done
  <2>1. [n \in lo .. hi |-> x] \in From(0)
    OBVIOUS
  <2> QED BY <2>1
<1>2. ASSUME NEW m \in Nat, m \in Done PROVE m + 1 \in Done
  <2>1. SUFFICES ASSUME m + 1 <= hi + 1 - lo PROVE From(m + 1) # {}
    OBVIOUS
  <2>2. PICK f \in From(m) : TRUE
    BY <1>2, <2>1
  <2> DEFINE k == hi - m
             y == rule[k][f]
             g == [f EXCEPT ![k] = y]
  <2>3. k \in lo .. hi
    BY <2>1
  <2>4. f \in F /\ y \in S
    BY <2>2, <2>3
  <2> HIDE DEF y
  <2>5. g \in F /\ g[k] = y /\ \A n \in lo .. hi : n # k => g[n] = f[n]
    BY <2>3, <2>4
  <2> HIDE DEF g
  <2>6. ASSUME NEW n \in lo .. hi, n + (m + 1) > hi PROVE g[n] = rule[n][g]
    <3>1. \A l \in n + 1 .. hi : f[l] = g[l]
      <4>1. ASSUME NEW l \in n + 1 .. hi PROVE f[l] = g[l]
        <5>1. l \in lo .. hi /\ l # k
          BY <2>6
        <5> QED BY <2>5, <5>1
      <4> QED BY <4>1
    <3>2. rule[n][f] = rule[n][g]
      BY <2>4, <2>5, <3>1
    <3>3. CASE n = k
      BY <2>5, <3>2, <3>3 DEF y
    <3>4. CASE n # k
      <4>1. n + m > hi
        BY <2>6, <3>4
      <4>2. f[n] = rule[n][f]
        BY <2>2, <4>1
      <4> QED BY <2>5, <3>2, <3>4, <4>2
    <3> QED BY <3>3, <3>4
  <2>7. g \in From(m + 1)
    <3> HIDE DEF F
    <3> QED BY <2>5, <2>6
  <2> QED BY <2>7
<1>3. Nat \subseteq Done
  <2> HIDE DEF Done
  <2> QED BY <1>1, <1>2, InductiveSet
<1> DEFINE m == hi + 1 - lo
<1>4. m \in Nat /\ m <= hi + 1 - lo /\ \A n \in lo .. hi : n + m > hi
  OBVIOUS
<1> HIDE DEF m
<1>5. From(m) # {}
  BY <1>3, <1>4
<1> QED BY <1>4, <1>5

-----------------------------------------------------------------------------
(* One piece after the other *)

\* Every piece has an item of S, and the next one begins behind it.
Forward(S, pieces) ==
  \A n \in 1 .. Len(pieces) :
    /\ pieces[n].item \in S
    /\ pieces[n].next \in n + 1 .. Len(pieces) + 1

\* The items from each place on.
Readings(S, pieces) ==
  {f \in [1 .. Len(pieces) + 1 -> Seq(S)] :
     /\ OneByOne(pieces) = f[1]
     /\ f[Len(pieces) + 1] = <<>>
     /\ \A n \in 1 .. Len(pieces) : f[n] = <<pieces[n].item>> \o f[pieces[n].next]}

\* A sequence with one more element in front.
LEMMA Prepend ==
  ASSUME NEW S, NEW x \in S, NEW s \in Seq(S)
  PROVE  <<x>> \o s \in Seq(S)
OBVIOUS

\* A loop over a text is well-defined.
LEMMA OneByOneDefined ==
  ASSUME NEW S, NEW pieces, Len(pieces) \in Nat, Forward(S, pieces)
  PROVE  Readings(S, pieces) # {}
<1> DEFINE N == Len(pieces)
           hi == N + 1
           T == Seq(S)
           F == [1 .. hi -> T]
           At(f, n) == IF n > N THEN <<>> ELSE <<pieces[n].item>> \o f[pieces[n].next]
           rule == [n \in 1 .. hi |-> [f \in F |-> At(f, n)]]
           Whole(g) == [n \in 1 .. hi |-> At(g, n)]
           items == CHOOSE g : g = Whole(g)
<1>1. N \in Nat /\ 1 \in Nat /\ hi \in Nat /\ 1 <= hi
  OBVIOUS
<1>2. \A n \in 1 .. N : pieces[n].item \in S /\ pieces[n].next \in n + 1 .. hi
  BY DEF Forward
<1>3. OneByOne(pieces) = items[1]
  BY DEF OneByOne
<1> HIDE DEF items, N
<1>4. rule \in [1 .. hi -> [F -> T]]
  <2>1. ASSUME NEW n \in 1 .. hi, NEW f \in F PROVE At(f, n) \in T
    <3>1. CASE n > N
      BY <3>1
    <3>2. CASE ~(n > N)
      <4>1. n \in 1 .. N
        BY <1>1, <3>2
      <4>2. pieces[n].next \in 1 .. hi
        BY <1>1, <1>2, <4>1
      <4>3. pieces[n].item \in S /\ f[pieces[n].next] \in Seq(S)
        BY <1>2, <4>1, <4>2
      <4>4. <<pieces[n].item>> \o f[pieces[n].next] \in Seq(S)
        BY <4>3, Prepend
      <4> QED BY <3>2, <4>4
    <3> QED BY <3>1, <3>2
  <2> HIDE DEF F, T, At
  <2> QED BY <2>1
<1>5. LooksAhead(1, hi, T, rule)
  <2>1. ASSUME NEW n \in 1 .. hi, NEW f \in F, NEW g \in F,
               \A m \in n + 1 .. hi : f[m] = g[m]
        PROVE  rule[n][f] = rule[n][g]
    <3>1. At(f, n) = At(g, n)
      <4>1. CASE n > N
        BY <4>1
      <4>2. CASE ~(n > N)
        <5>1. n \in 1 .. N
          BY <1>1, <4>2
        <5> QED BY <1>2, <2>1, <5>1
      <4> QED BY <4>1, <4>2
    <3> HIDE DEF T, At
    <3> QED BY <3>1
  <2> HIDE DEF rule, T
  <2> QED BY <2>1 DEF LooksAhead
<1>6. <<>> \in T
  OBVIOUS
<1>7. PICK f \in F : \A n \in 1 .. hi : f[n] = rule[n][f]
  <2> HIDE DEF hi, rule, T
  <2>1. Defined(1, hi, T, rule) # {}
    BY <1>1, <1>4, <1>5, <1>6, DownwardFunction
  <2> QED BY <2>1 DEF Defined
<1>8. \A n \in 1 .. hi : f[n] = At(f, n)
  <2> HIDE DEF T, At
  <2> QED BY <1>7
<1>9. f = Whole(f)
  <2> HIDE DEF T, At
  <2> QED BY <1>8
<1>10. items = Whole(items)
  <2>1. \E g : g = Whole(g)
    BY <1>9
  <2> HIDE DEF Whole
  <2> QED BY <2>1 DEF items
<1>11. \A n \in 1 .. hi : items[n] = At(items, n)
  <2> HIDE DEF At
  <2> QED BY <1>10
<1> DEFINE Same == {n \in 1 .. hi : items[n] = f[n]}
<1>12. ASSUME NEW n \in 1 .. hi, \A m \in n + 1 .. hi : m \in Same PROVE n \in Same
  <2>1. At(items, n) = At(f, n)
    <3>1. CASE n > N
      BY <3>1
    <3>2. CASE ~(n > N)
      <4>1. n \in 1 .. N
        BY <1>1, <3>2
      <4>2. pieces[n].next \in Same
        BY <1>2, <1>12, <4>1
      <4> QED BY <4>2
    <3> QED BY <3>1, <3>2
  <2> HIDE DEF At
  <2> QED BY <1>8, <1>11, <2>1
<1>13. 1 .. hi \subseteq Same
  <2> HIDE DEF hi, Same
  <2> QED BY <1>1, <1>12, Downward
<1>14. items[1] = f[1]
  BY <1>1, <1>13
<1>15. f[hi] = <<>>
  <2>1. hi \in 1 .. hi /\ hi > N
    BY <1>1
  <2>2. f[hi] = At(f, hi)
    <3> HIDE DEF hi, At, T
    <3> QED BY <1>8, <2>1
  <2> QED BY <2>1, <2>2
<1>16. \A n \in 1 .. N : f[n] = <<pieces[n].item>> \o f[pieces[n].next]
  BY <1>1, <1>8
<1> HIDE DEF T, At, rule
<1>17. f \in Readings(S, pieces)
  BY <1>3, <1>14, <1>15, <1>16 DEF Readings, T, N
<1> QED BY <1>17

\* It returns a sequence of items.
LEMMA OneByOneType ==
  ASSUME NEW S, NEW pieces, Len(pieces) \in Nat, Forward(S, pieces)
  PROVE  OneByOne(pieces) \in Seq(S)
<1>1. PICK f \in Readings(S, pieces) : TRUE
  BY OneByOneDefined
<1>2. 1 \in 1 .. Len(pieces) + 1
  OBVIOUS
<1> QED BY <1>1, <1>2 DEF Readings

\* From k places on, the pieces are those of the rest.
Behind(k, pieces, rest) ==
  /\ Len(pieces) = Len(rest) + k
  /\ \A n \in 1 .. Len(rest) : /\ pieces[n + k].item = rest[n].item
                              /\ pieces[n + k].next = rest[n].next + k

\* What is left behind k places is read as if it were all.
LEMMA OneByOneRest ==
  ASSUME NEW S, NEW k \in Nat, NEW pieces, NEW rest,
         Len(rest) \in Nat,
         Forward(S, rest), NEW f \in Readings(S, pieces),
         Behind(k, pieces, rest)
  PROVE  f[k + 1] = OneByOne(rest)
<1> DEFINE N == Len(rest)
<1>1. N \in Nat /\ N + 1 \in Nat
  OBVIOUS
<1>2. PICK g \in Readings(S, rest) : TRUE
  BY OneByOneDefined
<1>3. /\ OneByOne(rest) = g[1] /\ g[N + 1] = <<>>
      /\ \A n \in 1 .. N : g[n] = <<rest[n].item>> \o g[rest[n].next]
  BY <1>2 DEF Readings
<1>4. /\ f[(N + k) + 1] = <<>>
      /\ \A n \in 1 .. N + k : f[n] = <<pieces[n].item>> \o f[pieces[n].next]
  BY DEF Readings, Behind
<1>5. \A n \in 1 .. N : rest[n].next \in n + 1 .. N + 1
  BY DEF Forward
<1> DEFINE Same == {n \in 1 .. N + 1 : f[n + k] = g[n]}
<1>6. ASSUME NEW n \in 1 .. N + 1, \A m \in n + 1 .. N + 1 : m \in Same PROVE n \in Same
  <2>1. CASE n = N + 1
    <3>1. n + k = (N + k) + 1
      BY <1>1, <2>1
    <3> QED BY <1>3, <1>4, <2>1, <3>1
  <2>2. CASE n # N + 1
    <3>1. n \in 1 .. N /\ n + k \in 1 .. N + k
      BY <1>1, <2>2
    <3>2. f[rest[n].next + k] = g[rest[n].next]
      BY <1>5, <1>6, <3>1
    <3>3. f[n + k] = <<rest[n].item>> \o f[rest[n].next + k]
      BY <1>4, <3>1 DEF Behind
    <3> QED BY <1>3, <3>1, <3>2, <3>3
  <2> QED BY <2>1, <2>2
<1>7. 1 .. N + 1 \subseteq Same
  <2> HIDE DEF Same, N
  <2> QED BY <1>1, <1>6, Downward
<1>8. f[1 + k] = g[1] /\ 1 + k = k + 1
  BY <1>1, <1>7
<1> QED BY <1>3, <1>8

\* The items of the pieces are x and those of the rest.
FirstOf(x, pieces, rest) == OneByOne(pieces) = <<x>> \o OneByOne(rest)

\* If the first piece is k places long, the rest is behind them.
LEMMA OneByOneFirst ==
  ASSUME NEW S, NEW k \in Nat \ {0}, NEW x, NEW pieces, NEW rest,
         Len(rest) \in Nat, Forward(S, pieces), Forward(S, rest),
         pieces[1].item = x, pieces[1].next = k + 1, Behind(k, pieces, rest)
  PROVE  FirstOf(x, pieces, rest)
<1>1. Len(pieces) \in Nat /\ 1 \in 1 .. Len(pieces)
  BY DEF Behind
<1>2. PICK f \in Readings(S, pieces) : TRUE
  BY <1>1, OneByOneDefined
<1>3. f[k + 1] = OneByOne(rest)
  <2>1. k \in Nat
    OBVIOUS
  <2> QED BY <1>2, <2>1, OneByOneRest
<1>4. OneByOne(pieces) = f[1] /\ f[1] = <<pieces[1].item>> \o f[pieces[1].next]
  BY <1>1, <1>2 DEF Readings
<1> QED BY <1>3, <1>4 DEF FirstOf

-----------------------------------------------------------------------------
(* What Redis's loops over a glob compute *)

Item == [star : BOOLEAN, of : SUBSET Chars]
Class == [end : Nat, of : SUBSET Chars]

\* What RedisMembers is at one place, given what it is further on.
MembersAt(text, class, n) ==
  IF n > Len(text) THEN [end |-> Len(text), of |-> {}]
  ELSE IF n < Len(text) /\ text[n] = "\\" THEN More({text[n + 1]}, class[n + 2])
  ELSE IF text[n] = "]" THEN [end |-> n, of |-> {}]
  ELSE IF n + 2 <= Len(text) /\ text[n + 1] = "-"
         THEN More(Sorted(text[n], text[n + 2]), class[n + 3])
  ELSE More({text[n]}, class[n + 1])

\* The characters of a text.
LEMMA TextType ==
  ASSUME NEW text \in Seq(Chars)
  PROVE  Len(text) \in Nat /\ \A n \in 1 .. Len(text) : text[n] \in Chars
BY ElementOfSeq

\* A range is a set of characters.
LEMMA SortedType ==
  ASSUME NEW a, NEW b
  PROVE  Sorted(a, b) \in SUBSET Chars
BY DEF Sorted, FromTo

\* A step of the class looks at what follows only.
LEMMA MembersStep ==
  ASSUME NEW text \in Seq(Chars), NEW first \in 1 .. Len(text) + 1,
         NEW n \in first .. Len(text) + 3, NEW f \in [first .. Len(text) + 3 -> Class]
  PROVE  /\ MembersAt(text, f, n) \in Class
         /\ \A g : (\A m \in n + 1 .. Len(text) + 3 : f[m] = g[m])
                     => MembersAt(text, f, n) = MembersAt(text, g, n)
<1> DEFINE L == Len(text)
<1>1. L \in Nat /\ \A m \in 1 .. L : text[m] \in Chars
  BY TextType
<1>2. first \in Nat /\ first >= 1
  BY <1>1
<1>3. ASSUME NEW m \in 1 .. 3, n <= L
      PROVE  /\ n + m \in first .. L + 3 /\ n + m \in n + 1 .. L + 3
             /\ f[n + m] \in Class
  <2>1. n + m \in first .. L + 3 /\ n + m \in n + 1 .. L + 3
    BY <1>1, <1>3
  <2> QED BY <2>1
<1>4. n \in Nat /\ n >= 1
  BY <1>1, <1>2
<1>5. CASE n > L
  BY <1>1, <1>5 DEF MembersAt, Class
<1>6. CASE n <= L
  <2>1. /\ f[n + 1] \in Class /\ f[n + 2] \in Class /\ f[n + 3] \in Class
        /\ \A m \in 1 .. 3 : n + m \in n + 1 .. L + 3
    BY <1>3, <1>6
  <2>2. text[n] \in Chars /\ (n < L => text[n + 1] \in Chars)
    BY <1>1, <1>4, <1>6
  <2>3. Sorted(text[n], text[n + 2]) \in SUBSET Chars
    BY SortedType
  <2>4. ASSUME NEW c \in Class, NEW set \in SUBSET Chars
        PROVE  More(set, c) \in Class
    BY DEF Class, More
  <2>5. MembersAt(text, f, n) \in Class
    <3>1. [end |-> n, of |-> {}] \in Class
      BY <1>4 DEF Class
    <3>2. {text[n]} \in SUBSET Chars /\ (n < L => {text[n + 1]} \in SUBSET Chars)
      BY <2>2
    <3> HIDE DEF Class
    <3>3. ~(n > L)
      BY <1>1, <1>4, <1>6
    <3> QED BY <2>1, <2>3, <2>4, <3>1, <3>2, <3>3 DEF MembersAt
  <2>6. ASSUME NEW g, \A m \in n + 1 .. L + 3 : f[m] = g[m]
        PROVE  MembersAt(text, f, n) = MembersAt(text, g, n)
    <3>1. f[n + 1] = g[n + 1] /\ f[n + 2] = g[n + 2] /\ f[n + 3] = g[n + 3]
      BY <2>1, <2>6
    <3> QED BY <3>1 DEF MembersAt
  <2> QED BY <2>5, <2>6
<1> QED BY <1>1, <1>4, <1>5, <1>6

\* RedisMembers is well-defined.
LEMMA MembersDefined ==
  ASSUME NEW text \in Seq(Chars), NEW first \in 1 .. Len(text) + 1
  PROVE  \E f \in [first .. Len(text) + 3 -> Class] :
           /\ RedisMembers(text, first) = f[first]
           /\ \A n \in first .. Len(text) + 3 : f[n] = MembersAt(text, f, n)
<1> DEFINE hi == Len(text) + 3
           F == [first .. hi -> Class]
           rule == [n \in first .. hi |-> [f \in F |-> MembersAt(text, f, n)]]
           Whole(g) == [n \in first .. hi |-> MembersAt(text, g, n)]
           class == CHOOSE g : g = Whole(g)
<1>1. first \in Nat /\ hi \in Nat /\ first <= hi
  BY TextType
<1>2. rule \in [first .. hi -> [F -> Class]]
  BY MembersStep
<1>3. LooksAhead(first, hi, Class, rule)
  <2>1. ASSUME NEW n \in first .. hi, NEW f \in F, NEW g \in F,
               \A m \in n + 1 .. hi : f[m] = g[m]
        PROVE  rule[n][f] = rule[n][g]
    <3>1. MembersAt(text, f, n) = MembersAt(text, g, n)
      BY <2>1, MembersStep
    <3> QED BY <3>1
  <2> HIDE DEF rule
  <2> QED BY <2>1 DEF LooksAhead
<1>4. [end |-> 0, of |-> {}] \in Class
  BY DEF Class
<1>5. PICK f \in F : \A n \in first .. hi : f[n] = rule[n][f]
  <2> HIDE DEF hi, rule
  <2>1. Defined(first, hi, Class, rule) # {}
    BY <1>1, <1>2, <1>3, <1>4, DownwardFunction
  <2> QED BY <2>1 DEF Defined
<1>6. f = Whole(f)
  <2>1. ASSUME NEW n \in first .. hi PROVE f[n] = MembersAt(text, f, n)
    BY <1>5
  <2> QED BY <2>1
<1>7. class = Whole(class)
  <2> HIDE DEF Whole
  <2> QED BY <1>6
<1>8. RedisMembers(text, first) = class[first]
  BY DEF RedisMembers, MembersAt
<1> HIDE DEF class
<1>9. \A n \in first .. hi : class[n] = MembersAt(text, class, n)
  BY <1>7
<1> DEFINE T == {n \in first .. hi : class[n] = f[n]}
<1>10. ASSUME NEW n \in first .. hi, \A m \in n + 1 .. hi : m \in T PROVE n \in T
  <2>1. MembersAt(text, f, n) = MembersAt(text, class, n)
    BY <1>10, MembersStep
  <2>2. f[n] = MembersAt(text, f, n)
    BY <1>6
  <2> QED BY <1>9, <2>1, <2>2
<1>11. first .. hi \subseteq T
  <2> HIDE DEF hi, T
  <2> QED BY <1>1, <1>10, Downward
<1>12. RedisMembers(text, first) = f[first]
  BY <1>1, <1>8, <1>11
<1>13. \A n \in first .. hi : f[n] = MembersAt(text, f, n)
  BY <1>6
<1> QED BY <1>12, <1>13

\* A class ends behind its beginning and within the text.
LEMMA MembersType ==
  ASSUME NEW text \in Seq(Chars), NEW first \in 1 .. Len(text) + 1
  PROVE  /\ RedisMembers(text, first) \in Class
         /\ RedisMembers(text, first).end \in first - 1 .. Len(text)
<1> DEFINE L == Len(text)
<1>1. L \in Nat /\ first \in Nat /\ first >= 1
  BY TextType
<1>2. PICK f \in [first .. L + 3 -> Class] :
        /\ RedisMembers(text, first) = f[first]
        /\ \A n \in first .. L + 3 : f[n] = MembersAt(text, f, n)
  BY MembersDefined
<1> HIDE DEF L
<1> DEFINE T == {n \in first .. L + 1 : f[n].end \in n - 1 .. L}
<1>3. ASSUME NEW n \in first .. L + 1, \A m \in n + 1 .. L + 1 : m \in T PROVE n \in T
  <2>1. n \in Nat /\ n \in first .. L + 3 /\ n >= 1
    BY <1>1
  <2>2. f[n] = MembersAt(text, f, n)
    BY <1>2, <2>1
  <2>3. CASE n > L
    <3>1. f[n].end = L
      BY <2>2, <2>3 DEF MembersAt, L
    <3> QED BY <1>1, <2>1, <2>3, <3>1
  <2>4. CASE ~(n > L)
    <3>1. ASSUME NEW m \in n + 1 .. L + 1 PROVE f[m] \in Class /\ f[m].end \in n .. L
      <4>1. m \in T /\ m \in first .. L + 3
        BY <1>1, <1>3, <2>1
      <4>2. f[m].end \in m - 1 .. L
        BY <4>1
      <4> QED BY <1>1, <2>1, <4>1, <4>2
    <3>2. n + 1 \in n + 1 .. L + 1 /\ (n < L => n + 2 \in n + 1 .. L + 1)
          /\ (n + 2 <= L => n + 3 \in n + 1 .. L + 1)
      BY <1>1, <2>1, <2>4
    <3>3. \/ n < L /\ f[n] = More({text[n + 1]}, f[n + 2])
          \/ f[n] = [end |-> n, of |-> {}]
          \/ n + 2 <= L /\ f[n] = More(Sorted(text[n], text[n + 2]), f[n + 3])
          \/ f[n] = More({text[n]}, f[n + 1])
      BY <2>2, <2>4 DEF MembersAt, L
    <3>4. \A c \in Class : \A set : More(set, c).end = c.end
      BY DEF More
    <3>5. f[n].end \in n .. L
      <4>1. CASE n < L /\ f[n] = More({text[n + 1]}, f[n + 2])
        BY <3>1, <3>2, <3>4, <4>1
      <4>2. CASE f[n] = [end |-> n, of |-> {}]
        BY <1>1, <2>1, <2>4, <4>2
      <4>3. CASE n + 2 <= L /\ f[n] = More(Sorted(text[n], text[n + 2]), f[n + 3])
        BY <3>1, <3>2, <3>4, <4>3
      <4>4. CASE f[n] = More({text[n]}, f[n + 1])
        BY <3>1, <3>2, <3>4, <4>4
      <4> QED BY <3>3, <4>1, <4>2, <4>3, <4>4
    <3> QED BY <1>1, <2>1, <3>5
  <2> QED BY <2>3, <2>4
<1>4. first .. L + 1 \subseteq T
  <2>1. first \in Nat /\ L + 1 \in Nat
    BY <1>1
  <2> HIDE DEF T
  <2> QED BY <1>3, <2>1, Downward
<1>5. first \in first .. L + 1 /\ first \in first .. L + 3
  BY <1>1 DEF L
<1> QED BY <1>2, <1>4, <1>5 DEF L

\* The text v with k characters before it.
Shifted(text, v, k) ==
  /\ k \in Nat
  /\ Len(text) = Len(v) + k
  /\ \A i \in 1 .. Len(v) : text[i + k] = v[i]

\* A class as it is found k places further on.
ShiftedClass(c, k) == [end |-> c.end + k, of |-> c.of]

\* What stands before a class does not change it.
LEMMA MembersShift ==
  ASSUME NEW text \in Seq(Chars), NEW v \in Seq(Chars), NEW k, Shifted(text, v, k),
         NEW first \in 1 .. Len(v) + 1
  PROVE  RedisMembers(text, first + k) = ShiftedClass(RedisMembers(v, first), k)
<1> DEFINE L == Len(v)
<1>1. /\ k \in Nat /\ L \in Nat /\ first \in Nat /\ first >= 1
      /\ first + k \in 1 .. Len(text) + 1 /\ Len(text) = L + k
  BY TextType DEF Shifted
<1>2. PICK f \in [first + k .. Len(text) + 3 -> Class] :
        /\ RedisMembers(text, first + k) = f[first + k]
        /\ \A n \in first + k .. Len(text) + 3 : f[n] = MembersAt(text, f, n)
  BY <1>1, MembersDefined
<1>3. PICK g \in [first .. L + 3 -> Class] :
        /\ RedisMembers(v, first) = g[first]
        /\ \A n \in first .. L + 3 : g[n] = MembersAt(v, g, n)
  BY MembersDefined
<1>4. \A i \in 1 .. L : text[i + k] = v[i]
  BY DEF Shifted
<1> HIDE DEF L
<1> DEFINE T == {n \in first .. L + 3 : f[n + k] = ShiftedClass(g[n], k)}
<1>5. ASSUME NEW n \in first .. L + 3, \A m \in n + 1 .. L + 3 : m \in T PROVE n \in T
  <2>1. n \in Nat /\ n >= 1 /\ n + k \in first + k .. Len(text) + 3
    BY <1>1
  <2>2. f[n + k] = MembersAt(text, f, n + k) /\ g[n] = MembersAt(v, g, n)
    BY <1>2, <1>3, <2>1
  <2>3. CASE n > L
    <3>1. n + k > Len(text)
      BY <1>1, <2>1, <2>3
    <3>2. g[n] = [end |-> L, of |-> {}] /\ f[n + k] = [end |-> L + k, of |-> {}]
      BY <1>1, <2>2, <2>3, <3>1 DEF MembersAt, L
    <3>3. f[n + k] = ShiftedClass(g[n], k)
      <4>1. g[n].end = L /\ g[n].of = {}
        BY <3>2
      <4> QED BY <3>2, <4>1 DEF ShiftedClass
    <3> QED BY <1>5, <3>3
  <2>4. CASE ~(n > L)
    <3>1. /\ ~(n + k > Len(text)) /\ (n + k < Len(text) <=> n < L)
          /\ (n + k) + 2 <= Len(text) <=> n + 2 <= L
          /\ (n + k) + 1 = (n + 1) + k /\ (n + k) + 2 = (n + 2) + k /\ (n + k) + 3 = (n + 3) + k
      BY <1>1, <2>1, <2>4
    <3>2. /\ text[n + k] = v[n]
          /\ n < L => text[(n + k) + 1] = v[n + 1]
          /\ n + 2 <= L => text[(n + k) + 1] = v[n + 1] /\ text[(n + k) + 2] = v[n + 2]
      BY <1>1, <1>4, <2>1, <2>4, <3>1
    <3>3. ASSUME NEW m \in n + 1 .. L + 3 PROVE f[m + k] = ShiftedClass(g[m], k) /\ g[m] \in Class
      <4>1. m \in T /\ m \in first .. L + 3
        BY <1>1, <1>5, <2>1
      <4> QED BY <4>1
    <3>4. /\ n + 1 \in n + 1 .. L + 3 /\ n + 2 \in n + 1 .. L + 3 /\ n + 3 \in n + 1 .. L + 3
      BY <1>1, <2>1, <2>4
    <3>5. /\ f[(n + k) + 1] = ShiftedClass(g[n + 1], k) /\ g[n + 1] \in Class
          /\ f[(n + k) + 2] = ShiftedClass(g[n + 2], k) /\ g[n + 2] \in Class
          /\ f[(n + k) + 3] = ShiftedClass(g[n + 3], k) /\ g[n + 3] \in Class
      BY <3>1, <3>3, <3>4
    <3>6. ASSUME NEW c \in Class, NEW set
          PROVE  More(set, ShiftedClass(c, k)) = ShiftedClass(More(set, c), k)
      BY DEF More, ShiftedClass
    <3>7. [end |-> n + k, of |-> {}] = ShiftedClass([end |-> n, of |-> {}], k)
      BY DEF ShiftedClass
    <3>8. MembersAt(text, f, n + k) = ShiftedClass(MembersAt(v, g, n), k)
      <4>1. CASE n < L /\ v[n] = "\\"
        <5>1. MembersAt(v, g, n) = More({v[n + 1]}, g[n + 2])
          BY <2>4, <4>1 DEF MembersAt, L
        <5>2. MembersAt(text, f, n + k) = More({v[n + 1]}, f[(n + k) + 2])
          BY <3>1, <3>2, <4>1 DEF MembersAt
        <5> QED BY <3>5, <3>6, <5>1, <5>2
      <4>2. CASE ~(n < L /\ v[n] = "\\") /\ v[n] = "]"
        <5>1. MembersAt(v, g, n) = [end |-> n, of |-> {}]
          BY <2>4, <4>2 DEF MembersAt, L
        <5>2. MembersAt(text, f, n + k) = [end |-> n + k, of |-> {}]
          BY <3>1, <3>2, <4>2 DEF MembersAt
        <5> QED BY <3>7, <5>1, <5>2
      <4>3. CASE ~(n < L /\ v[n] = "\\") /\ v[n] # "]" /\ n + 2 <= L /\ v[n + 1] = "-"
        <5>1. MembersAt(v, g, n) = More(Sorted(v[n], v[n + 2]), g[n + 3])
          BY <2>4, <4>3 DEF MembersAt, L
        <5>2. MembersAt(text, f, n + k) = More(Sorted(v[n], v[n + 2]), f[(n + k) + 3])
          BY <3>1, <3>2, <4>3 DEF MembersAt
        <5> QED BY <3>5, <3>6, <5>1, <5>2
      <4>4. CASE ~(n < L /\ v[n] = "\\") /\ v[n] # "]" /\ ~(n + 2 <= L /\ v[n + 1] = "-")
        <5>1. MembersAt(v, g, n) = More({v[n]}, g[n + 1])
          BY <2>4, <4>4 DEF MembersAt, L
        <5>2. MembersAt(text, f, n + k) = More({v[n]}, f[(n + k) + 1])
          BY <3>1, <3>2, <4>4 DEF MembersAt
        <5> QED BY <3>5, <3>6, <5>1, <5>2
      <4> QED BY <4>1, <4>2, <4>3, <4>4
    <3> QED BY <2>2, <3>8
  <2> QED BY <2>3, <2>4
<1>6. first .. L + 3 \subseteq T
  <2>1. L + 3 \in Nat /\ first \in Nat
    BY <1>1
  <2> HIDE DEF T
  <2> QED BY <1>5, <2>1, Downward
<1>7. first \in first .. L + 3
  BY <1>1 DEF L
<1> QED BY <1>2, <1>3, <1>6, <1>7

\* Where a class that begins at n ends, and what it matches.
LEMMA ClassType ==
  ASSUME NEW text \in Seq(Chars), NEW n \in 1 .. Len(text)
  PROVE  RedisClass(text, n).of \in SUBSET Chars /\ RedisClass(text, n).end \in n .. Len(text)
<1> DEFINE L == Len(text)
<1>1. L \in Nat /\ n \in Nat /\ n >= 1 /\ n <= L
  BY TextType
<1>2. CASE n < L /\ text[n + 1] = "^"
  <2> DEFINE c == RedisMembers(text, n + 2)
  <2>1. n + 2 \in 1 .. L + 1
    BY <1>1, <1>2
  <2>2. c \in Class /\ c.end \in (n + 2) - 1 .. L
    BY <2>1, MembersType
  <2>3. RedisClass(text, n) = [c EXCEPT !.of = Chars \ @]
    BY <1>2 DEF RedisClass
  <2> HIDE DEF c, L
  <2>4. RedisClass(text, n).of = Chars \ c.of /\ RedisClass(text, n).end = c.end
    BY <2>2, <2>3 DEF Class
  <2> QED BY <1>1, <2>2, <2>4 DEF L
<1>3. CASE ~(n < L /\ text[n + 1] = "^")
  <2> DEFINE c == RedisMembers(text, n + 1)
  <2>1. n + 1 \in 1 .. L + 1
    BY <1>1
  <2>2. c \in Class /\ c.end \in (n + 1) - 1 .. L
    BY <2>1, MembersType
  <2>3. RedisClass(text, n) = c
    BY <1>3 DEF RedisClass
  <2> HIDE DEF c, L
  <2>4. c.of \in SUBSET Chars
    BY <2>2 DEF Class
  <2> QED BY <1>1, <2>2, <2>3, <2>4 DEF L
<1> QED BY <1>2, <1>3

\* What stands before a class, negated or not, does not change it.
LEMMA ClassShift ==
  ASSUME NEW text \in Seq(Chars), NEW v \in Seq(Chars), NEW k, Shifted(text, v, k),
         NEW n \in 1 .. Len(v)
  PROVE  /\ RedisClass(text, n + k).of = RedisClass(v, n).of
         /\ RedisClass(text, n + k).end = RedisClass(v, n).end + k
<1> DEFINE L == Len(v)
<1>1. /\ L \in Nat /\ k \in Nat /\ Len(text) = L + k /\ n \in Nat /\ n >= 1 /\ n <= L
  BY TextType DEF Shifted
<1>2. (n + k) + 1 = (n + 1) + k /\ (n + k) + 2 = (n + 2) + k /\ (n + k < Len(text) <=> n < L)
  BY <1>1
<1>3. n < L => text[(n + k) + 1] = v[n + 1]
  <2>1. n < L => text[(n + 1) + k] = v[n + 1]
    BY <1>1 DEF Shifted
  <2> QED BY <1>2, <2>1
<1>4. CASE n < L /\ v[n + 1] = "^"
  <2> DEFINE c == RedisMembers(v, n + 2)
             d == RedisMembers(text, (n + 2) + k)
  <2>1. n + 2 \in 1 .. L + 1
    BY <1>1, <1>4
  <2>2. c \in Class /\ d = ShiftedClass(c, k)
    BY <2>1, MembersType, MembersShift
  <2>3. RedisClass(v, n) = [c EXCEPT !.of = Chars \ @]
    BY <1>4 DEF RedisClass
  <2>4. RedisClass(text, n + k) = [d EXCEPT !.of = Chars \ @]
    BY <1>2, <1>3, <1>4 DEF RedisClass
  <2> HIDE DEF c, d
  <2> QED BY <2>2, <2>3, <2>4 DEF ShiftedClass, Class
<1>5. CASE ~(n < L /\ v[n + 1] = "^")
  <2>1. n + 1 \in 1 .. L + 1
    BY <1>1
  <2>2. RedisMembers(text, (n + 1) + k) = ShiftedClass(RedisMembers(v, n + 1), k)
    BY <2>1, MembersShift
  <2>3. RedisClass(v, n) = RedisMembers(v, n + 1)
    BY <1>5 DEF RedisClass
  <2>4. RedisClass(text, n + k) = RedisMembers(text, (n + 1) + k)
    BY <1>2, <1>3, <1>5 DEF RedisClass
  <2> QED BY <2>2, <2>3, <2>4 DEF ShiftedClass
<1> QED BY <1>4, <1>5

-----------------------------------------------------------------------------
(* What Redis reads, one item after the other *)

\* A place of a text is an item, and the next one begins behind it.
LEMMA RedisPieceType ==
  ASSUME NEW text \in Seq(Chars), NEW n \in 1 .. Len(text)
  PROVE  /\ RedisPiece(text, n).item \in Item
         /\ RedisPiece(text, n).next \in n + 1 .. Len(text) + 1
<1> DEFINE L == Len(text)
           class == RedisClass(text, n)
           p == RedisPiece(text, n)
<1>1. L \in Nat /\ n \in Nat /\ n >= 1 /\ n <= L /\ \A m \in 1 .. L : text[m] \in Chars
  BY TextType
<1>2. class.of \in SUBSET Chars /\ class.end \in n .. L
  BY ClassType
<1>3. text[n] \in Chars /\ (n < L => text[n + 1] \in Chars)
  BY <1>1
<1>4. AnyNumber \in Item /\ \A set \in SUBSET Chars : OneOf(set) \in Item
  BY DEF AnyNumber, OneOf, Item
<1>5. /\ n + 1 \in n + 1 .. L + 1 /\ class.end + 1 \in n + 1 .. L + 1
      /\ n < L => n + 2 \in n + 1 .. L + 1
  BY <1>1, <1>2
<1>6. \/ p = Star(n + 1)
      \/ \E set \in SUBSET Chars, next \in n + 1 .. L + 1 : p = Char(set, next)
  <2>1. {text[n]} \in SUBSET Chars /\ (n < L => {text[n + 1]} \in SUBSET Chars)
        /\ Chars \in SUBSET Chars
    BY <1>3
  <2> HIDE DEF class
  <2> QED BY <1>2, <1>5, <2>1 DEF RedisPiece, class
<1>7. ASSUME p = Star(n + 1) PROVE p.item \in Item /\ p.next \in n + 1 .. L + 1
  BY <1>4, <1>5, <1>7 DEF Star
<1>8. ASSUME NEW set \in SUBSET Chars, NEW next \in n + 1 .. L + 1, p = Char(set, next)
      PROVE  p.item \in Item /\ p.next \in n + 1 .. L + 1
  BY <1>4, <1>8 DEF Char
<1> HIDE DEF p, class, L
<1>9. p.item \in Item /\ p.next \in n + 1 .. L + 1
  BY <1>6, <1>7, <1>8
<1> QED BY <1>9 DEF p, L

\* What stands before a place does not change what Redis reads there.
LEMMA RedisPieceShift ==
  ASSUME NEW text \in Seq(Chars), NEW v \in Seq(Chars), NEW k, Shifted(text, v, k),
         NEW n \in 1 .. Len(v)
  PROVE  /\ RedisPiece(text, n + k).item = RedisPiece(v, n).item
         /\ RedisPiece(text, n + k).next = RedisPiece(v, n).next + k
<1> DEFINE L == Len(v)
           c == RedisClass(v, n)
           d == RedisClass(text, n + k)
<1>1. /\ L \in Nat /\ k \in Nat /\ Len(text) = L + k /\ n \in Nat /\ n >= 1 /\ n <= L
  BY TextType DEF Shifted
<1>2. d.of = c.of /\ d.end = c.end + k /\ c.end \in Nat
  <2>1. c.end \in n .. L
    BY ClassType
  <2> QED BY <1>1, <2>1, ClassShift
<1>3. /\ (n + k) + 1 = (n + 1) + k /\ (n + k) + 2 = (n + 2) + k
      /\ d.end + 1 = (c.end + 1) + k
      /\ n + k < Len(text) <=> n < L
  BY <1>1, <1>2
<1>4. text[n + k] = v[n] /\ (n < L => text[(n + k) + 1] = v[n + 1])
  <2>1. n < L => text[(n + 1) + k] = v[n + 1]
    BY <1>1 DEF Shifted
  <2> QED BY <1>3, <2>1 DEF Shifted
<1> HIDE DEF L, c, d
<1>5. ASSUME NEW set, NEW next
      PROVE  /\ Char(set, next + k).item = Char(set, next).item
             /\ Char(set, next + k).next = Char(set, next).next + k
             /\ Star(next + k).item = Star(next).item
             /\ Star(next + k).next = Star(next).next + k
  BY DEF Char, Star
<1>6. RedisPiece(v, n) = IF n < L /\ v[n] = "\\" THEN Char({v[n + 1]}, n + 2)
                         ELSE IF v[n] = "*" THEN Star(n + 1)
                         ELSE IF v[n] = "?" THEN Char(Chars, n + 1)
                         ELSE IF v[n] = "[" THEN Char(c.of, c.end + 1)
                         ELSE Char({v[n]}, n + 1)
  BY DEF RedisPiece, L, c
<1>7. RedisPiece(text, n + k) = IF n < L /\ v[n] = "\\" THEN Char({v[n + 1]}, (n + 2) + k)
                                ELSE IF v[n] = "*" THEN Star((n + 1) + k)
                                ELSE IF v[n] = "?" THEN Char(Chars, (n + 1) + k)
                                ELSE IF v[n] = "[" THEN Char(c.of, (c.end + 1) + k)
                                ELSE Char({v[n]}, (n + 1) + k)
  BY <1>2, <1>3, <1>4 DEF RedisPiece, d
<1> QED BY <1>5, <1>6, <1>7

\* The matcher of a text is a sequence of items.
LEMMA ItemsType ==
  ASSUME NEW text \in Seq(Chars)
  PROVE  RedisItems(text) \in Seq(Item)
<1> DEFINE pieces == [n \in 1 .. Len(text) |-> RedisPiece(text, n)]
<1>1. Len(text) \in Nat /\ Len(pieces) = Len(text)
  OBVIOUS
<1>2. Forward(Item, pieces)
  <2>1. ASSUME NEW n \in 1 .. Len(text)
        PROVE  pieces[n].item \in Item /\ pieces[n].next \in n + 1 .. Len(text) + 1
    BY RedisPieceType
  <2> HIDE DEF pieces, Item
  <2> QED BY <1>1, <2>1 DEF Forward
<1> HIDE DEF pieces, Item
<1>3. OneByOne(pieces) \in Seq(Item)
  BY <1>1, <1>2, OneByOneType
<1> QED BY <1>3 DEF RedisItems, pieces

\* What stands behind another text, in the text they make together.
LEMMA ShiftedBehind ==
  ASSUME NEW head \in Seq(Chars), NEW v \in Seq(Chars)
  PROVE  /\ head \o v \in Seq(Chars) /\ Len(head \o v) = Len(head) + Len(v)
         /\ \A i \in 1 .. Len(head) : (head \o v)[i] = head[i]
         /\ Shifted(head \o v, v, Len(head))
<1> DEFINE text == head \o v
           k == Len(head)
<1>1. /\ text \in Seq(Chars) /\ Len(text) = k + Len(v)
      /\ \A i \in 1 .. k + Len(v) : text[i] = IF i <= k THEN head[i] ELSE v[i - k]
  BY ConcatProperties
<1>2. k \in Nat /\ Len(v) \in Nat
  OBVIOUS
<1> HIDE DEF text, k
<1>3. ASSUME NEW i \in 1 .. Len(v) PROVE text[i + k] = v[i]
  <2>1. i + k \in 1 .. k + Len(v) /\ ~(i + k <= k) /\ (i + k) - k = i
    BY <1>2
  <2> QED BY <1>1, <2>1
<1>4. Shifted(text, v, k)
  BY <1>1, <1>2, <1>3 DEF Shifted
<1>5. \A i \in 1 .. k : text[i] = head[i]
  BY <1>1, <1>2
<1> QED BY <1>1, <1>4, <1>5 DEF text, k

\* If a text begins with one item, the others are those of the rest.
LEMMA RedisFirst ==
  ASSUME NEW head \in Seq(Chars), NEW v \in Seq(Chars), head # <<>>,
         RedisPiece(head \o v, 1).next = Len(head) + 1
  PROVE  RedisItems(head \o v) = <<RedisPiece(head \o v, 1).item>> \o RedisItems(v)
<1> DEFINE k == Len(head)
           text == head \o v
           pieces == [n \in 1 .. Len(text) |-> RedisPiece(text, n)]
           rest == [n \in 1 .. Len(v) |-> RedisPiece(v, n)]
<1>1. k \in Nat \ {0} /\ Len(v) \in Nat
  BY EmptySeq
<1>2. text \in Seq(Chars) /\ Len(text) = k + Len(v) /\ Shifted(text, v, k)
  BY ShiftedBehind
<1>3. RedisPiece(text, 1).next = k + 1
  OBVIOUS
<1> HIDE DEF text, k
<1>4. /\ Len(text) \in Nat /\ Len(pieces) = Len(text) /\ Len(rest) = Len(v)
      /\ Len(pieces) = Len(rest) + k /\ 1 \in 1 .. Len(text)
  BY <1>1, <1>2
<1>5. ASSUME NEW n \in 1 .. Len(text)
      PROVE  pieces[n].item \in Item /\ pieces[n].next \in n + 1 .. Len(text) + 1
  BY <1>2, RedisPieceType
<1>6. ASSUME NEW n \in 1 .. Len(v)
      PROVE  rest[n].item \in Item /\ rest[n].next \in n + 1 .. Len(v) + 1
  BY RedisPieceType
<1>7. ASSUME NEW n \in 1 .. Len(v)
      PROVE  pieces[n + k].item = rest[n].item /\ pieces[n + k].next = rest[n].next + k
  <2>1. n + k \in 1 .. Len(text)
    BY <1>1, <1>2
  <2> QED BY <1>2, <2>1, RedisPieceShift
<1>8. pieces[1] = RedisPiece(text, 1)
  BY <1>4
<1>9. RedisItems(text) = OneByOne(pieces) /\ RedisItems(v) = OneByOne(rest)
  BY DEF RedisItems
<1> HIDE DEF pieces, rest, Item
<1>10. Forward(Item, pieces) /\ Forward(Item, rest)
  BY <1>4, <1>5, <1>6 DEF Forward
<1> DEFINE x == pieces[1].item
<1> HIDE DEF x
<1>11. FirstOf(x, pieces, rest)
  <2>1. pieces[1].item = x /\ pieces[1].next = k + 1 /\ Len(rest) \in Nat
    BY <1>1, <1>3, <1>4, <1>8 DEF x
  <2>2. Behind(k, pieces, rest)
    BY <1>4, <1>7 DEF Behind
  <2> QED BY <1>1, <1>10, <2>1, <2>2, OneByOneFirst
<1> QED BY <1>8, <1>9, <1>11 DEF text, x, FirstOf

\* What escapeGlobMeta makes of a character.
EscapedChar(c) == IF c \in Metacharacters THEN <<"\\", c>> ELSE <<c>>

\* An escaped character matches itself, whatever follows it.
LEMMA EscapedCharIsLiteral ==
  ASSUME NEW c \in Chars, "\\" \in Chars, NEW v \in Seq(Chars)
  PROVE  /\ EscapedChar(c) \in Seq(Chars)
         /\ RedisItems(EscapedChar(c) \o v) = <<OneOf({c})>> \o RedisItems(v)
<1> DEFINE head == EscapedChar(c)
           k == Len(head)
           text == head \o v
<1>1. head \in Seq(Chars) /\ k \in {1, 2} /\ (k = 2 <=> c \in Metacharacters)
      /\ head # <<>> /\ head[k] = c /\ (k = 2 => head[1] = "\\")
  BY DEF EscapedChar
<1> HIDE DEF head
<1>2. Len(text) = k + Len(v) /\ Len(v) \in Nat /\ \A i \in 1 .. k : text[i] = head[i]
  BY <1>1, ShiftedBehind
<1> HIDE DEF text
<1>3. RedisPiece(text, 1) = Char({c}, k + 1)
  <2>1. CASE k = 2
    <3>1. text[1] = "\\" /\ text[1 + 1] = c /\ 1 < Len(text) /\ 1 + 2 = k + 1
      BY <1>1, <1>2, <2>1
    <3> QED BY <3>1 DEF RedisPiece
  <2>2. CASE k = 1
    <3>1. text[1] = c /\ c # "\\" /\ c # "*" /\ c # "?" /\ c # "["
      BY <1>1, <1>2, <2>2 DEF Metacharacters
    <3> QED BY <2>2, <3>1 DEF RedisPiece
  <2> QED BY <1>1, <2>1, <2>2
<1>4. RedisPiece(text, 1).next = k + 1 /\ RedisPiece(text, 1).item = OneOf({c})
  BY <1>3 DEF Char
<1> QED BY <1>1, <1>4, RedisFirst DEF text, head

-----------------------------------------------------------------------------
(* A piece of a text that stands alone, and in another text *)

\* a and b begin with the same L characters; a has one more.
SameStart(a, b, L) ==
  /\ L >= 1 /\ Len(a) = L + 1 /\ L <= Len(b)
  /\ \A n \in 1 .. L : b[n] = a[n]

\* A class that ends within what two texts have in common is the same in both.
LEMMA MembersAlone ==
  ASSUME NEW a \in Seq(Chars), NEW b \in Seq(Chars), NEW L \in Nat, SameStart(a, b, L),
         NEW first \in 1 .. L + 2, RedisMembers(a, first).end = L
  PROVE  first <= L /\ RedisMembers(b, first) = RedisMembers(a, first)
<1>1. /\ L \in Nat /\ L >= 1 /\ Len(a) = L + 1 /\ Len(b) \in Nat /\ L <= Len(b)
      /\ first \in Nat /\ first >= 1 /\ \A n \in 1 .. L : b[n] = a[n]
  BY TextType DEF SameStart
<1>2. PICK f \in [first .. Len(a) + 3 -> Class] :
        /\ RedisMembers(a, first) = f[first]
        /\ \A n \in first .. Len(a) + 3 : f[n] = MembersAt(a, f, n)
  <2>1. first \in 1 .. Len(a) + 1
    BY <1>1
  <2> QED BY <2>1, MembersDefined
<1>3. ASSUME NEW n \in L + 1 .. L + 4, first <= n PROVE f[n].end = L + 1
  <2>1. ASSUME NEW m \in L + 2 .. L + 4, first <= m PROVE f[m].end = L + 1
    <3>1. m \in first .. Len(a) + 3 /\ m > Len(a)
      BY <1>1, <2>1
    <3>2. f[m] = [end |-> Len(a), of |-> {}]
      BY <1>2, <3>1 DEF MembersAt
    <3> QED BY <1>1, <3>2
  <2>2. CASE n # L + 1
    <3>1. n \in L + 2 .. L + 4
      BY <1>1, <2>2
    <3> QED BY <1>3, <2>1, <3>1
  <2>3. CASE n = L + 1
    <3>1. n \in first .. Len(a) + 3 /\ ~(n > Len(a)) /\ ~(n < Len(a)) /\ ~(n + 2 <= Len(a))
          /\ n + 1 \in L + 2 .. L + 4 /\ first <= n + 1
      BY <1>1, <1>3, <2>3
    <3>2. f[n] = [end |-> n, of |-> {}] \/ f[n] = More({a[n]}, f[n + 1])
      BY <1>2, <3>1 DEF MembersAt
    <3>3. f[n + 1].end = L + 1
      BY <2>1, <3>1
    <3> QED BY <2>3, <3>2, <3>3 DEF More
  <2> QED BY <2>2, <2>3
<1>4. first <= L
  <2>1. SUFFICES ASSUME ~(first <= L) PROVE FALSE
    OBVIOUS
  <2>2. first \in L + 1 .. L + 4 /\ first <= first
    BY <1>1, <2>1
  <2> QED BY <1>1, <1>2, <1>3, <2>2
<1>5. PICK g \in [first .. Len(b) + 3 -> Class] :
        /\ RedisMembers(b, first) = g[first]
        /\ \A n \in first .. Len(b) + 3 : g[n] = MembersAt(b, g, n)
  <2>1. first \in 1 .. Len(b) + 1
    BY <1>1, <1>4
  <2> QED BY <2>1, MembersDefined
<1> DEFINE Same == {n \in first .. L : f[n].end = L => g[n] = f[n]}
<1>6. ASSUME NEW n \in first .. L, \A m \in n + 1 .. L : m \in Same PROVE n \in Same
  <2>1. SUFFICES ASSUME f[n].end = L PROVE g[n] = f[n]
    OBVIOUS
  <2>2. /\ n \in Nat /\ n >= 1 /\ n <= L /\ n \in first .. Len(a) + 3 /\ n \in first .. Len(b) + 3
        /\ ~(n > Len(a)) /\ n < Len(a) /\ ~(n > Len(b)) /\ (n + 2 <= Len(a) <=> n + 1 <= L)
    BY <1>1
  <2>3. f[n] = MembersAt(a, f, n) /\ g[n] = MembersAt(b, g, n)
    BY <1>2, <1>5, <2>2
  <2>4. ASSUME NEW m \in {n + 1, n + 2, n + 3}, f[m].end = L PROVE m <= L /\ g[m] = f[m]
    <3>1. m \in first .. L + 3 /\ n < m
      BY <1>1, <2>2
    <3>2. m <= L
      <4>1. SUFFICES ASSUME ~(m <= L) PROVE FALSE
        OBVIOUS
      <4>2. m \in L + 1 .. L + 4 /\ first <= m
        BY <1>1, <3>1, <4>1
      <4> QED BY <1>1, <1>3, <2>4, <4>2
    <3>3. m \in n + 1 .. L
      BY <1>1, <2>2, <3>1, <3>2
    <3>4. m \in Same
      BY <1>6, <3>3
    <3> QED BY <2>4, <3>2, <3>4
  <2>5. b[n] = a[n] /\ (n + 1 <= L => b[n + 1] = a[n + 1]) /\ (n + 2 <= L => b[n + 2] = a[n + 2])
    BY <1>1, <2>2
  <2>6. \A set, c : More(set, c).end = c.end
    BY DEF More
  <2>7. CASE a[n] = "\\"
    <3>1. f[n] = More({a[n + 1]}, f[n + 2])
      BY <2>2, <2>3, <2>7 DEF MembersAt
    <3>2. n + 2 <= L /\ g[n + 2] = f[n + 2]
      BY <2>1, <2>4, <2>6, <3>1
    <3>3. n < Len(b) /\ n + 1 <= L
      BY <1>1, <2>2, <3>2
    <3>4. g[n] = More({b[n + 1]}, g[n + 2])
      BY <2>2, <2>3, <2>5, <2>7, <3>3 DEF MembersAt
    <3> QED BY <2>5, <3>1, <3>2, <3>3, <3>4
  <2>8. CASE a[n] = "]"
    <3>1. f[n] = [end |-> n, of |-> {}]
      BY <2>2, <2>3, <2>8 DEF MembersAt
    <3>2. g[n] = [end |-> n, of |-> {}]
      BY <2>2, <2>3, <2>5, <2>8 DEF MembersAt
    <3> QED BY <3>1, <3>2
  <2>9. CASE a[n] # "\\" /\ a[n] # "]" /\ n + 1 <= L /\ a[n + 1] = "-"
    <3>1. f[n] = More(Sorted(a[n], a[n + 2]), f[n + 3])
      BY <2>2, <2>3, <2>9 DEF MembersAt
    <3>2. n + 3 <= L /\ g[n + 3] = f[n + 3]
      BY <2>1, <2>4, <2>6, <3>1
    <3>3. n + 2 <= Len(b) /\ n + 2 <= L
      BY <1>1, <2>2, <3>2
    <3>4. g[n] = More(Sorted(b[n], b[n + 2]), g[n + 3])
      BY <2>2, <2>3, <2>5, <2>9, <3>3 DEF MembersAt
    <3> QED BY <2>5, <3>1, <3>2, <3>3, <3>4
  <2>10. CASE a[n] # "\\" /\ a[n] # "]" /\ ~(n + 1 <= L /\ a[n + 1] = "-")
    <3>1. f[n] = More({a[n]}, f[n + 1])
      BY <2>2, <2>3, <2>10 DEF MembersAt
    <3>2. n + 1 <= L /\ g[n + 1] = f[n + 1]
      BY <2>1, <2>4, <2>6, <3>1
    <3>3. b[n + 1] # "-"
      BY <2>5, <2>10, <3>2
    <3>4. g[n] = More({b[n]}, g[n + 1])
      BY <2>2, <2>3, <2>5, <2>10, <3>3 DEF MembersAt
    <3> QED BY <2>5, <3>1, <3>2, <3>4
  <2> QED BY <2>7, <2>8, <2>9, <2>10
<1>7. first .. L \subseteq Same
  <2>1. first \in Nat /\ L \in Nat
    BY <1>1
  <2> HIDE DEF Same
  <2>2. \A n \in first .. L : (\A m \in n + 1 .. L : m \in Same) => n \in Same
    BY <1>6
  <2> QED BY ONLY <2>1, <2>2, Downward
<1>8. first \in Same
  BY <1>1, <1>4, <1>7
<1> QED BY <1>2, <1>4, <1>5, <1>8

\* If Redis reads one item up to where two texts part, it reads the same in both.
LEMMA RedisPieceAlone ==
  ASSUME NEW a \in Seq(Chars), NEW b \in Seq(Chars), NEW L \in Nat, SameStart(a, b, L),
         RedisPiece(a, 1).next = L + 1
  PROVE  RedisPiece(b, 1) = RedisPiece(a, 1) /\ (a[1] = "[" => L # 1)
<1>1. /\ L \in Nat /\ L >= 1 /\ Len(a) = L + 1 /\ Len(b) \in Nat /\ L <= Len(b) /\ 1 < Len(a)
      /\ \A n \in 1 .. L : b[n] = a[n]
  BY TextType DEF SameStart
<1>2. b[1] = a[1] /\ (L >= 2 => b[1 + 1] = a[1 + 1] /\ 1 < Len(b))
  BY <1>1
<1>3. \A set, next : Char(set, next).next = next
  BY DEF Char
<1>4. CASE a[1] = "\\"
  <2>1. RedisPiece(a, 1) = Char({a[1 + 1]}, 1 + 2)
    BY <1>1, <1>4 DEF RedisPiece
  <2>2. L >= 2
    BY <1>1, <1>3, <2>1
  <2> QED BY <1>2, <1>4, <2>1, <2>2 DEF RedisPiece
<1>5. CASE a[1] = "["
  <2> DEFINE c == RedisClass(a, 1)
             d == RedisClass(b, 1)
  <2>1. RedisPiece(a, 1) = Char(c.of, c.end + 1) /\ RedisPiece(b, 1) = Char(d.of, d.end + 1)
    BY <1>2, <1>5 DEF RedisPiece
  <2>2. c.end \in 1 .. Len(a)
    <3>1. 1 \in 1 .. Len(a)
      BY <1>1
    <3> QED BY <3>1, ClassType
  <2>3. c.end = L
    <3>1. c.end + 1 = L + 1
      BY <1>3, <2>1
    <3> QED BY <1>1, <2>2, <3>1
  <2>4. CASE a[1 + 1] = "^"
    <3> DEFINE e == RedisMembers(a, 1 + 2)
    <3>1. c = [e EXCEPT !.of = Chars \ @]
      BY <1>1, <2>4 DEF RedisClass
    <3>2. e \in Class /\ 1 + 2 \in 1 .. L + 2
      <4>1. 1 + 2 \in 1 .. Len(a) + 1
        BY <1>1
      <4> QED BY <1>1, <4>1, MembersType
    <3>3. e.end = L
      <4> HIDE DEF e, c
      <4> QED BY <2>3, <3>1, <3>2 DEF Class
    <3>4. 1 + 2 <= L /\ RedisMembers(b, 1 + 2) = e
      BY <3>2, <3>3, MembersAlone
    <3>5. L >= 2
      BY <1>1, <3>4
    <3>6. d = c
      BY <1>2, <2>4, <3>1, <3>4, <3>5 DEF RedisClass
    <3> HIDE DEF c, d
    <3> QED BY <2>1, <3>5, <3>6
  <2>5. CASE a[1 + 1] # "^"
    <3>1. c = RedisMembers(a, 1 + 1)
      BY <2>5 DEF RedisClass
    <3>2. 1 + 1 \in 1 .. L + 2
      BY <1>1
    <3>3. 1 + 1 <= L /\ RedisMembers(b, 1 + 1) = c
      BY <2>3, <3>1, <3>2, MembersAlone
    <3>4. L >= 2
      BY <1>1, <3>3
    <3>5. d = c
      BY <1>2, <2>5, <3>3, <3>4 DEF RedisClass
    <3> HIDE DEF c, d
    <3> QED BY <2>1, <3>4, <3>5
  <2> QED BY <2>4, <2>5
<1>6. CASE a[1] # "\\" /\ a[1] # "["
  <2>1. RedisPiece(a, 1) = IF a[1] = "*" THEN Star(1 + 1)
                           ELSE IF a[1] = "?" THEN Char(Chars, 1 + 1)
                           ELSE Char({a[1]}, 1 + 1)
    BY <1>6 DEF RedisPiece
  <2>2. RedisPiece(b, 1) = IF a[1] = "*" THEN Star(1 + 1)
                           ELSE IF a[1] = "?" THEN Char(Chars, 1 + 1)
                           ELSE Char({a[1]}, 1 + 1)
    BY <1>2, <1>6 DEF RedisPiece
  <2> QED BY <1>6, <2>1, <2>2
<1> QED BY <1>4, <1>5, <1>6

-----------------------------------------------------------------------------
(* Texts put together *)

\* Concatenation is associative.
LEMMA Associative ==
  ASSUME NEW S
  PROVE  \A a, b, c \in Seq(S) : (a \o b) \o c = a \o (b \o c)
<1> SUFFICES ASSUME NEW a \in Seq(S), NEW b \in Seq(S), NEW c \in Seq(S)
             PROVE  (a \o b) \o c = a \o (b \o c)
  OBVIOUS
<1> QED BY ConcatAssociative

\* So is that of texts.
LEMMA TextsAssociative ==
  \A a, b, c \in Seq(Chars) : (a \o b) \o c = a \o (b \o c)
<1> SUFFICES ASSUME NEW a \in Seq(Chars), NEW b \in Seq(Chars), NEW c \in Seq(Chars)
             PROVE  (a \o b) \o c = a \o (b \o c)
  OBVIOUS
<1> QED BY ConcatAssociative

\* Sequences put one behind the other.
Flattenings(N, S, seqs) ==
  {f \in [1 .. N -> S] :
     /\ FlattenSeq(seqs) = f[N]
     /\ f[1] = seqs[1]
     /\ \A i \in 1 .. N : i > 1 => f[i] = f[i - 1] \o seqs[i]}

\* FlattenSeq appends one sequence after the other.
LEMMA FlattenDefined ==
  ASSUME NEW T, NEW N \in Nat \ {0}, NEW seqs \in [1 .. N -> Seq(T)]
  PROVE  Flattenings(N, Seq(T), seqs) # {}
<1> DEFINE S == Seq(T)
           rule == [i \in 1 .. N |-> [s \in S |-> IF i = 1 THEN seqs[i] ELSE s \o seqs[i]]]
           Whole(g) == [i \in 1 .. N |-> IF i = 1 THEN seqs[i] ELSE g[i - 1] \o seqs[i]]
           flatten == CHOOSE g : g = Whole(g)
<1>1. rule \in [1 .. N -> [S -> S]]
  <2>1. \A i \in 1 .. N : \A s \in S : (IF i = 1 THEN seqs[i] ELSE s \o seqs[i]) \in S
    OBVIOUS
  <2> HIDE DEF S
  <2> QED BY <2>1
<1>2. <<>> \in S
  OBVIOUS
<1>3. PICK h \in [0 .. N -> S] : h[0] = <<>> /\ \A i \in 1 .. N : h[i] = rule[i][h[i - 1]]
  <2> HIDE DEF S, rule
  <2>1. Stepwise(N, S, <<>>, rule) # {}
    BY <1>1, <1>2, StepByStep
  <2> QED BY <2>1 DEF Stepwise
<1> DEFINE f == [i \in 1 .. N |-> h[i]]
<1>4. f \in [1 .. N -> S]
  <2> HIDE DEF S
  <2> QED BY <1>3
<1>5. ASSUME NEW i \in 1 .. N PROVE f[i] = IF i = 1 THEN seqs[i] ELSE f[i - 1] \o seqs[i]
  <2>1. h[i] = rule[i][h[i - 1]] /\ h[i - 1] \in S
    <3>1. i - 1 \in 0 .. N
      OBVIOUS
    <3> HIDE DEF S, rule
    <3> QED BY <1>3, <3>1
  <2>2. h[i] = IF i = 1 THEN seqs[i] ELSE h[i - 1] \o seqs[i]
    <3> HIDE DEF S
    <3> QED BY <2>1
  <2>3. i # 1 => i - 1 \in 1 .. N
    OBVIOUS
  <2> QED BY <2>2, <2>3
<1>6. f = Whole(f)
  <2> HIDE DEF f
  <2>1. \A i \in 1 .. N : f[i] = Whole(f)[i]
    BY <1>5
  <2> QED BY <1>4, <2>1
<1>7. flatten = Whole(flatten)
  <2> HIDE DEF Whole
  <2> QED BY <1>6
<1>8. Len(seqs) = N
  OBVIOUS
<1>9. FlattenSeq(seqs) = flatten[N]
  BY <1>8 DEF FlattenSeq
<1> HIDE DEF flatten, f
<1> DEFINE Same == {i \in Nat : i \in 1 .. N => flatten[i] = f[i]}
<1>10. 0 \in Same
  OBVIOUS
<1>11. ASSUME NEW i \in Nat, i \in Same PROVE i + 1 \in Same
  <2>1. SUFFICES ASSUME i + 1 \in 1 .. N PROVE flatten[i + 1] = f[i + 1]
    OBVIOUS
  <2>2. flatten[i + 1] = IF i + 1 = 1 THEN seqs[i + 1] ELSE flatten[(i + 1) - 1] \o seqs[i + 1]
    BY <1>7, <2>1
  <2>3. f[i + 1] = IF i + 1 = 1 THEN seqs[i + 1] ELSE f[(i + 1) - 1] \o seqs[i + 1]
    BY <1>5, <2>1
  <2>4. i + 1 # 1 => flatten[(i + 1) - 1] = f[(i + 1) - 1]
    <3>1. i + 1 # 1 => i \in 1 .. N
      BY <2>1
    <3> QED BY <1>11, <3>1
  <2> QED BY <2>2, <2>3, <2>4
<1>12. N \in Same
  <2> HIDE DEF Same
  <2> QED BY <1>10, <1>11, InductiveSet
<1>13. FlattenSeq(seqs) = f[N]
  BY <1>9, <1>12
<1>14. f[1] = seqs[1]
  <2>1. 1 \in 1 .. N
    OBVIOUS
  <2> QED BY <1>5, <2>1
<1>15. ASSUME NEW i \in 1 .. N, i > 1 PROVE f[i] = f[i - 1] \o seqs[i]
  <2>1. f[i] = IF i = 1 THEN seqs[i] ELSE f[i - 1] \o seqs[i]
    BY <1>5
  <2>2. i # 1
    BY <1>15
  <2> HIDE DEF S
  <2> QED BY <2>1, <2>2
<1> HIDE DEF S
<1>16. f \in Flattenings(N, S, seqs)
  BY <1>4, <1>13, <1>14, <1>15 DEF Flattenings
<1> QED BY <1>16 DEF S

\* What is put together from sequences of T is one.
LEMMA FlattenType ==
  ASSUME NEW T, NEW N \in Nat, NEW seqs \in [1 .. N -> Seq(T)]
  PROVE  FlattenSeq(seqs) \in Seq(T)
<1>1. CASE N = 0
  <2>1. seqs = <<>> /\ Len(seqs) = 0
    BY <1>1
  <2> QED BY <2>1 DEF FlattenSeq
<1>2. CASE N # 0
  <2>1. N \in Nat \ {0}
    BY <1>2
  <2>2. PICK f \in [1 .. N -> Seq(T)] : FlattenSeq(seqs) = f[N]
    <3>1. Flattenings(N, Seq(T), seqs) # {}
      BY <2>1, FlattenDefined
    <3> QED BY <3>1 DEF Flattenings
  <2>3. N \in 1 .. N
    BY <2>1
  <2> QED BY <2>2, <2>3
<1> QED BY <1>1, <1>2

\* The first n characters of a string, each matching itself only.
Literally(p, n) == [i \in 1 .. n |-> OneOf({p[i]})]

\* A literal matcher has an item for each character.
LEMMA LiterallyType ==
  ASSUME NEW p \in Seq(Chars), NEW n \in 0 .. Len(p)
  PROVE  Literally(p, n) \in Seq(Item) /\ Len(Literally(p, n)) = n
<1>1. n \in Nat /\ \A i \in 1 .. n : p[i] \in Chars
  BY TextType
<1>2. \A i \in 1 .. n : OneOf({p[i]}) \in Item
  BY <1>1 DEF OneOf, Item
<1> HIDE DEF Item
<1> QED BY <1>1, <1>2 DEF Literally

\* F reads a text as some items, whatever follows.
Reads(F, text, items) == \A v \in Seq(Chars) : F[text \o v] = items \o F[v]

\* F reads each of the texts as the item at its place.
ReadsEach(F, texts, items) == \A i \in DOMAIN texts : Reads(F, texts[i], <<items[i]>>)

\* The first i elements of a sequence.
UpTo(s, i) == [j \in 1 .. i |-> s[j]]

\* A reader of texts that reads each of some texts as one item, whatever follows,
\* reads them together as these items.
LEMMA FlattenItems ==
  ASSUME NEW S, NEW F \in [Seq(Chars) -> Seq(S)], NEW N \in Nat,
         NEW seqs \in [1 .. N -> Seq(Chars)], NEW one \in [1 .. N -> S],
         ReadsEach(F, seqs, one)
  PROVE  Reads(F, FlattenSeq(seqs), one)
<1>1. ASSUME NEW i \in 0 .. N PROVE UpTo(one, i) \in Seq(S) /\ Len(UpTo(one, i)) = i
  BY DEF UpTo
<1>2. one = UpTo(one, N)
  BY DEF UpTo
<1>3. CASE N = 0
  <2>1. seqs = <<>> /\ Len(seqs) = 0 /\ one = <<>>
    BY <1>3
  <2>2. FlattenSeq(seqs) = <<>>
    BY <2>1 DEF FlattenSeq
  <2>3. ASSUME NEW v \in Seq(Chars) PROVE <<>> \o v = v /\ <<>> \o F[v] = F[v]
    <3>1. F[v] \in Seq(S)
      OBVIOUS
    <3> QED BY <3>1, ConcatEmptySeq
  <2> QED BY <2>1, <2>2, <2>3 DEF Reads
<1>4. CASE N # 0
  <2>1. N \in Nat \ {0}
    BY <1>4
  <2>2. PICK f \in [1 .. N -> Seq(Chars)] :
          /\ FlattenSeq(seqs) = f[N]
          /\ f[1] = seqs[1]
          /\ \A i \in 1 .. N : i > 1 => f[i] = f[i - 1] \o seqs[i]
    <3>1. Flattenings(N, Seq(Chars), seqs) # {}
      BY <2>1, FlattenDefined
    <3> QED BY <3>1 DEF Flattenings
  <2> DEFINE T == {i \in Nat : i \in 1 .. N => Reads(F, f[i], UpTo(one, i))}
  <2>3. 0 \in T
    OBVIOUS
  <2>4. ASSUME NEW i \in Nat, i \in T PROVE i + 1 \in T
    <3>1. SUFFICES ASSUME i + 1 \in 1 .. N PROVE Reads(F, f[i + 1], UpTo(one, i + 1))
      OBVIOUS
    <3> SUFFICES ASSUME NEW v \in Seq(Chars)
                 PROVE  F[f[i + 1] \o v] = UpTo(one, i + 1) \o F[v]
      BY DEF Reads
    <3> DEFINE e == seqs[i + 1]
               x == one[i + 1]
               R == F[v]
    <3>2. e \in Seq(Chars) /\ x \in S /\ R \in Seq(S) /\ F[e \o v] = <<x>> \o R
      BY <3>1 DEF ReadsEach, Reads
    <3> HIDE DEF e, R, x
    <3>3. <<x>> \in Seq(S) /\ Len(<<x>>) = 1
      BY <3>2
    <3>4. /\ UpTo(one, i) \in Seq(S) /\ Len(UpTo(one, i)) = i
          /\ UpTo(one, i + 1) \in Seq(S) /\ Len(UpTo(one, i + 1)) = i + 1
      <4>1. i \in 0 .. N /\ i + 1 \in 0 .. N
        BY <3>1
      <4> QED BY <1>1, <4>1
    <3>5. UpTo(one, i) \o <<x>> = UpTo(one, i + 1)
      <4> DEFINE a == UpTo(one, i) \o <<x>>
                 b == UpTo(one, i + 1)
      <4>1. a \in Seq(S) /\ Len(a) = i + 1
            /\ \A j \in 1 .. i + 1 : a[j] = IF j <= i THEN UpTo(one, i)[j] ELSE <<x>>[j - i]
        <5> QED BY <3>3, <3>4, ConcatProperties
      <4>2. ASSUME NEW j \in 1 .. i + 1 PROVE a[j] = b[j]
        <5>1. CASE j <= i
          <6>1. a[j] = UpTo(one, i)[j] /\ j \in 1 .. i
            <7> HIDE DEF a
            <7> QED BY <4>1, <5>1
          <6>2. UpTo(one, i)[j] = one[j] /\ b[j] = one[j]
            BY <6>1 DEF UpTo
          <6> HIDE DEF a, b
          <6> QED BY <6>1, <6>2
        <5>2. CASE ~(j <= i)
          <6>1. j = i + 1 /\ j - i = 1
            BY <5>2
          <6>2. a[j] = x
            <7>1. a[j] = <<x>>[j - i]
              <8> HIDE DEF a
              <8> QED BY <4>1, <5>2
            <7> HIDE DEF a
            <7> QED BY <6>1, <7>1
          <6>3. b[j] = x
            BY <6>1 DEF x, UpTo
          <6> HIDE DEF a, b
          <6> QED BY <6>2, <6>3
        <5> QED BY <5>1, <5>2
      <4>3. b \in Seq(S) /\ Len(b) = i + 1
        BY <3>4
      <4> HIDE DEF a, b
      <4>4. a = b
        BY <4>1, <4>2, <4>3, SeqEqual
      <4> QED BY <4>4 DEF a, b
    <3>6. CASE i = 0
      <4>1. f[i + 1] = e
        BY <2>2, <3>6 DEF e
      <4>2. UpTo(one, i) = <<>>
        BY <3>4, <3>6, EmptySeq
      <4>3. UpTo(one, i) \o <<x>> = <<x>>
        BY <3>3, <4>2, ConcatEmptySeq
      <4> QED BY <3>2, <3>5, <4>1, <4>3 DEF R
    <3>7. CASE i # 0
      <4>1. i \in 1 .. N /\ i + 1 > 1 /\ (i + 1) - 1 = i
        BY <3>1, <3>7
      <4>2. f[i + 1] = f[i] \o e /\ f[i] \in Seq(Chars)
        BY <2>2, <3>1, <4>1 DEF e
      <4>3. (f[i] \o e) \o v = f[i] \o (e \o v) /\ e \o v \in Seq(Chars)
        <5>1. e \o v \in Seq(Chars)
          BY <3>2, ConcatProperties
        <5>2. \A a, b, c \in Seq(Chars) : (a \o b) \o c = a \o (b \o c)
          BY TextsAssociative
        <5>3. (f[i] \o e) \o v = f[i] \o (e \o v)
          BY <3>2, <4>2, <5>2, Zenon
        <5> QED BY <5>1, <5>3
      <4>4. F[f[i] \o (e \o v)] = UpTo(one, i) \o F[e \o v]
        BY <2>4, <4>1, <4>3 DEF Reads
      <4>5. UpTo(one, i) \o (<<x>> \o R) = (UpTo(one, i) \o <<x>>) \o R
        <5>1. \A a, b, c \in Seq(S) : (a \o b) \o c = a \o (b \o c)
          BY Associative
        <5> QED BY <3>2, <3>3, <3>4, <5>1, Zenon
      <4> QED BY <3>2, <3>5, <4>2, <4>3, <4>4, <4>5 DEF R
    <3> QED BY <3>6, <3>7
  <2>5. N \in T
    <3> HIDE DEF T
    <3> QED BY <2>3, <2>4, InductiveSet
  <2>6. Reads(F, f[N], UpTo(one, N))
    BY <2>1, <2>5
  <2> QED BY <1>2, <2>2, <2>6
<1> QED BY <1>3, <1>4

\* An escaped text matches itself, whatever follows it.
LEMMA EscapedIsLiteral ==
  ASSUME "\\" \in Chars, NEW p \in Seq(Chars), NEW t \in Seq(Chars)
  PROVE  /\ Escaped(p) \in Seq(Chars)
         /\ RedisItems(Escaped(p) \o t) = Literally(p, Len(p)) \o RedisItems(t)
<1> DEFINE N == Len(p)
           seqs == [n \in 1 .. N |-> EscapedChar(p[n])]
           one == Literally(p, N)
           F == [s \in Seq(Chars) |-> RedisItems(s)]
<1>1. N \in Nat /\ DOMAIN p = 1 .. N /\ \A n \in 1 .. N : p[n] \in Chars
  BY TextType
<1>2. seqs \in [1 .. N -> Seq(Chars)]
  BY <1>1, EscapedCharIsLiteral, <<>> \in Seq(Chars)
<1>3. Escaped(p) = FlattenSeq(seqs)
  BY <1>1 DEF Escaped, EscapedChar
<1>4. one \in [1 .. N -> Item]
  <2>1. \A n \in 1 .. N : OneOf({p[n]}) \in Item
    BY <1>1 DEF OneOf, Item
  <2> HIDE DEF Item
  <2> QED BY <2>1 DEF Literally
<1>5. F \in [Seq(Chars) -> Seq(Item)]
  BY ItemsType
<1>6. ReadsEach(F, seqs, one)
  <2> SUFFICES ASSUME NEW i \in 1 .. N, NEW v \in Seq(Chars)
               PROVE  F[seqs[i] \o v] = <<one[i]>> \o F[v]
    BY <1>2 DEF ReadsEach, Reads
  <2>1. /\ EscapedChar(p[i]) \in Seq(Chars)
        /\ RedisItems(EscapedChar(p[i]) \o v) = <<OneOf({p[i]})>> \o RedisItems(v)
    BY <1>1, EscapedCharIsLiteral
  <2>2. seqs[i] = EscapedChar(p[i]) /\ one[i] = OneOf({p[i]})
    BY DEF Literally
  <2>3. seqs[i] \o v \in Seq(Chars)
    BY <2>1, <2>2, ConcatProperties
  <2>4. F[seqs[i] \o v] = RedisItems(seqs[i] \o v) /\ F[v] = RedisItems(v)
    BY <2>3
  <2> HIDE DEF seqs, one, F
  <2> QED BY <2>1, <2>2, <2>4
<1> HIDE DEF seqs, one, N
<1>7. Escaped(p) \in Seq(Chars)
  BY <1>1, <1>2, <1>3, FlattenType
<1>8. Reads(F, FlattenSeq(seqs), one)
  <2> HIDE DEF F
  <2> QED BY <1>1, <1>2, <1>4, <1>5, <1>6, FlattenItems
<1>9. FlattenSeq(seqs) \o t \in Seq(Chars)
  BY <1>3, <1>7, ConcatProperties
<1>10. F[FlattenSeq(seqs) \o t] = RedisItems(Escaped(p) \o t) /\ F[t] = RedisItems(t)
  BY <1>3, <1>9
<1> HIDE DEF F
<1> QED BY <1>7, <1>8, <1>10 DEF one, N, Reads

-----------------------------------------------------------------------------
(* What the local levels read *)

\* What the local levels find of a class.
Bracket == [end : Nat, members : Seq(Chars)]

\* What LocalMembers is at one place, given what it is further on.
LocalMembersAt(text, first, members, n) ==
  IF n > Len(text) THEN [end |-> 0, members |-> <<>>]
  ELSE IF text[n] = "]" /\ n > first THEN [end |-> n, members |-> <<>>]
  ELSE IF n < Len(text) /\ text[n] = "\\" THEN Longer(text[n + 1], members[n + 2])
  ELSE Longer(text[n], members[n + 1])

\* A step of the loop over the members looks at what follows only.
LEMMA LocalMembersStep ==
  ASSUME NEW text \in Seq(Chars), NEW first \in 1 .. Len(text) + 2,
         NEW n \in first .. Len(text) + 2, NEW f \in [first .. Len(text) + 2 -> Bracket]
  PROVE  /\ LocalMembersAt(text, first, f, n) \in Bracket
         /\ \A g : (\A m \in n + 1 .. Len(text) + 2 : f[m] = g[m])
                     => LocalMembersAt(text, first, f, n) = LocalMembersAt(text, first, g, n)
<1> DEFINE L == Len(text)
           At(g) == LocalMembersAt(text, first, g, n)
<1>1. L \in Nat /\ n \in Nat /\ n >= 1 /\ first \in Nat
      /\ \A m \in 1 .. L : text[m] \in Chars
  <2>1. L \in Nat /\ \A m \in 1 .. L : text[m] \in Chars
    BY TextType
  <2> QED BY <2>1
<1>2. <<>> \in Seq(Chars)
  OBVIOUS
<1>3. CASE n > L
  <2>1. [end |-> 0, members |-> <<>>] \in Bracket
    BY <1>2 DEF Bracket
  <2> HIDE DEF Bracket
  <2> QED BY <1>3, <2>1 DEF LocalMembersAt
<1>4. CASE n <= L
  <2>1. n + 1 \in n + 1 .. L + 2 /\ n + 2 \in n + 1 .. L + 2
    BY <1>1, <1>4
  <2>2. f[n + 1] \in Bracket /\ f[n + 2] \in Bracket
    <3>1. n + 1 \in first .. L + 2 /\ n + 2 \in first .. L + 2
      BY <1>1, <1>4
    <3> HIDE DEF Bracket
    <3> QED BY <3>1
  <2>3. text[n] \in Chars /\ (n < L => text[n + 1] \in Chars)
    BY <1>1, <1>4
  <2>4. ASSUME NEW c \in Bracket, NEW x \in Chars PROVE Longer(x, c) \in Bracket
    <3>1. c.end \in Nat /\ c.members \in Seq(Chars)
      BY DEF Bracket
    <3>2. <<x>> \o c.members \in Seq(Chars)
      BY <3>1, Prepend
    <3> QED BY <3>1, <3>2 DEF Bracket, Longer
  <2>5. [end |-> n, members |-> <<>>] \in Bracket
    BY <1>1, <1>2 DEF Bracket
  <2>6. ~(n > L)
    BY <1>1, <1>4
  <2>7. ASSUME NEW g
        PROVE  At(g) = IF text[n] = "]" /\ n > first THEN [end |-> n, members |-> <<>>]
                       ELSE IF n < L /\ text[n] = "\\" THEN Longer(text[n + 1], g[n + 2])
                       ELSE Longer(text[n], g[n + 1])
    BY <2>6 DEF LocalMembersAt
  <2> HIDE DEF At, L
  <2>8. At(f) \in Bracket
    BY <2>2, <2>3, <2>4, <2>5, <2>7
  <2>9. ASSUME NEW g, \A m \in n + 1 .. L + 2 : f[m] = g[m] PROVE At(f) = At(g)
    <3>1. f[n + 1] = g[n + 1] /\ f[n + 2] = g[n + 2]
      BY <2>1, <2>9
    <3> QED BY <2>7, <3>1
  <2> QED BY <2>8, <2>9 DEF At, L
<1> QED BY <1>1, <1>3, <1>4

\* The functions that say what LocalMembers is.
LocalBrackets(text, first) ==
  {f \in [first .. Len(text) + 2 -> Bracket] :
     /\ LocalMembers(text, first) = f[first]
     /\ \A n \in first .. Len(text) + 2 : f[n] = LocalMembersAt(text, first, f, n)}

\* LocalMembers is well-defined.
LEMMA LocalMembersDefined ==
  ASSUME NEW text \in Seq(Chars), NEW first \in 1 .. Len(text) + 2
  PROVE  LocalBrackets(text, first) # {}
<1> DEFINE hi == Len(text) + 2
           F == [first .. hi -> Bracket]
           rule == [n \in first .. hi |-> [f \in F |-> LocalMembersAt(text, first, f, n)]]
           Whole(g) == [n \in first .. hi |-> LocalMembersAt(text, first, g, n)]
           members == CHOOSE g : g = Whole(g)
<1>1. first \in Nat /\ hi \in Nat /\ first <= hi
  BY TextType
<1>2. rule \in [first .. hi -> [F -> Bracket]]
  <2>1. ASSUME NEW n \in first .. hi, NEW f \in F
        PROVE  LocalMembersAt(text, first, f, n) \in Bracket
    BY LocalMembersStep
  <2> HIDE DEF F
  <2> QED BY <2>1
<1>3. LooksAhead(first, hi, Bracket, rule)
  <2>1. ASSUME NEW n \in first .. hi, NEW f \in F, NEW g \in F,
               \A m \in n + 1 .. hi : f[m] = g[m]
        PROVE  rule[n][f] = rule[n][g]
    <3>1. LocalMembersAt(text, first, f, n) = LocalMembersAt(text, first, g, n)
      BY <2>1, LocalMembersStep
    <3> QED BY <3>1
  <2> HIDE DEF rule
  <2> QED BY <2>1 DEF LooksAhead
<1>4. [end |-> 0, members |-> <<>>] \in Bracket
  BY DEF Bracket
<1>5. PICK f \in F : \A n \in first .. hi : f[n] = rule[n][f]
  <2> HIDE DEF hi, rule
  <2>1. Defined(first, hi, Bracket, rule) # {}
    BY <1>1, <1>2, <1>3, <1>4, DownwardFunction
  <2> QED BY <2>1 DEF Defined
<1>6. f = Whole(f)
  <2>1. ASSUME NEW n \in first .. hi PROVE f[n] = LocalMembersAt(text, first, f, n)
    BY <1>5
  <2> QED BY <2>1
<1>7. members = Whole(members)
  <2> HIDE DEF Whole
  <2> QED BY <1>6
<1>8. LocalMembers(text, first) = members[first]
  BY DEF LocalMembers, LocalMembersAt
<1> HIDE DEF members
<1>9. \A n \in first .. hi : members[n] = LocalMembersAt(text, first, members, n)
  BY <1>7
<1> DEFINE T == {n \in first .. hi : members[n] = f[n]}
<1>10. ASSUME NEW n \in first .. hi, \A m \in n + 1 .. hi : m \in T PROVE n \in T
  <2>1. LocalMembersAt(text, first, f, n) = LocalMembersAt(text, first, members, n)
    BY <1>10, LocalMembersStep
  <2>2. f[n] = LocalMembersAt(text, first, f, n)
    BY <1>6
  <2> QED BY <1>9, <2>1, <2>2
<1>11. first .. hi \subseteq T
  <2> HIDE DEF hi, T
  <2> QED BY <1>1, <1>10, Downward
<1>12. LocalMembers(text, first) = f[first]
  BY <1>1, <1>8, <1>11
<1>13. \A n \in first .. hi : f[n] = LocalMembersAt(text, first, f, n)
  BY <1>6
<1>14. f \in LocalBrackets(text, first)
  BY <1>12, <1>13 DEF LocalBrackets
<1> QED BY <1>14

\* A class of the local levels that ends does so behind its first member.
LEMMA LocalMembersType ==
  ASSUME NEW text \in Seq(Chars), NEW first \in 1 .. Len(text) + 2
  PROVE  LocalMembers(text, first).end \in {0} \cup (first + 1 .. Len(text))
<1> DEFINE L == Len(text)
<1>1. L \in Nat /\ first \in Nat /\ first >= 1
  BY TextType
<1>2. PICK f \in [first .. L + 2 -> Bracket] :
        /\ LocalMembers(text, first) = f[first]
        /\ \A n \in first .. L + 2 : f[n] = LocalMembersAt(text, first, f, n)
  BY LocalMembersDefined DEF LocalBrackets
<1> HIDE DEF L
<1> DEFINE T == {n \in first .. L + 2 : f[n].end \in {0} \cup (first + 1 .. L)}
<1>3. ASSUME NEW n \in first .. L + 2, \A m \in n + 1 .. L + 2 : m \in T PROVE n \in T
  <2>1. n \in Nat /\ f[n] = LocalMembersAt(text, first, f, n)
    BY <1>1, <1>2
  <2>2. CASE n > L
    <3>1. f[n] = [end |-> 0, members |-> <<>>]
      BY <2>1, <2>2 DEF LocalMembersAt, L
    <3>2. f[n].end = 0
      BY <3>1
    <3> QED BY <3>2
  <2>3. CASE ~(n > L)
    <3>1. n + 1 \in T /\ n + 2 \in T
      BY <1>1, <1>3, <2>1, <2>3
    <3>2. \/ n > first /\ f[n] = [end |-> n, members |-> <<>>]
          \/ f[n] = Longer(text[n + 1], f[n + 2])
          \/ f[n] = Longer(text[n], f[n + 1])
      BY <2>1, <2>3 DEF LocalMembersAt, L
    <3>3. f[n].end \in {n, f[n + 1].end, f[n + 2].end} /\ (f[n].end = n => n > first \/ n \in {f[n + 1].end, f[n + 2].end})
      BY <3>2 DEF Longer
    <3>4. f[n].end \in {0} \cup (first + 1 .. L)
      BY <1>1, <2>1, <2>3, <3>1, <3>3
    <3> QED BY <3>4
  <2> QED BY <2>2, <2>3
<1>4. first .. L + 2 \subseteq T
  <2>1. first \in Nat /\ L + 2 \in Nat
    BY <1>1
  <2> HIDE DEF T
  <2> QED BY <1>3, <2>1, Downward
<1>5. first \in first .. L + 2
  BY <1>1 DEF L
<1> QED BY <1>2, <1>4, <1>5 DEF L

\* The same class with k characters before it.
LaterClass(c, k) == [end |-> IF c.end = 0 THEN 0 ELSE c.end + k, members |-> c.members]

\* What stands before a class does not change it.
LEMMA LocalMembersShift ==
  ASSUME NEW text \in Seq(Chars), NEW v \in Seq(Chars), NEW k, Shifted(text, v, k),
         NEW first \in 1 .. Len(v) + 2
  PROVE  LocalMembers(text, first + k) = LaterClass(LocalMembers(v, first), k)
<1> DEFINE L == Len(v)
<1>1. /\ k \in Nat /\ L \in Nat /\ first \in Nat /\ first >= 1
      /\ first + k \in 1 .. Len(text) + 2 /\ Len(text) = L + k
  BY TextType DEF Shifted
<1>2. PICK f \in [first + k .. Len(text) + 2 -> Bracket] :
        /\ LocalMembers(text, first + k) = f[first + k]
        /\ \A n \in first + k .. Len(text) + 2 : f[n] = LocalMembersAt(text, first + k, f, n)
  BY <1>1, LocalMembersDefined DEF LocalBrackets
<1>3. PICK g \in [first .. L + 2 -> Bracket] :
        /\ LocalMembers(v, first) = g[first]
        /\ \A n \in first .. L + 2 : g[n] = LocalMembersAt(v, first, g, n)
  BY LocalMembersDefined DEF LocalBrackets
<1>4. \A i \in 1 .. L : text[i + k] = v[i]
  BY DEF Shifted
<1> HIDE DEF L
<1> DEFINE T == {n \in first .. L + 2 : f[n + k] = LaterClass(g[n], k)}
<1>5. ASSUME NEW n \in first .. L + 2, \A m \in n + 1 .. L + 2 : m \in T PROVE n \in T
  <2>1. n \in Nat /\ n >= 1 /\ n + k \in first + k .. Len(text) + 2
    BY <1>1
  <2>2. f[n + k] = LocalMembersAt(text, first + k, f, n + k)
        /\ g[n] = LocalMembersAt(v, first, g, n)
    BY <1>2, <1>3, <2>1
  <2>3. CASE n > L
    <3>1. n + k > Len(text)
      BY <1>1, <2>1, <2>3
    <3>2. g[n] = [end |-> 0, members |-> <<>>] /\ f[n + k] = [end |-> 0, members |-> <<>>]
      BY <2>2, <2>3, <3>1 DEF LocalMembersAt, L
    <3>3. f[n + k] = LaterClass(g[n], k)
      <4>1. g[n].end = 0 /\ g[n].members = <<>>
        BY <3>2
      <4> QED BY <3>2, <4>1 DEF LaterClass
    <3> QED BY <1>5, <3>3
  <2>4. CASE ~(n > L)
    <3>1. /\ ~(n + k > Len(text)) /\ (n + k < Len(text) <=> n < L)
          /\ n + k > first + k <=> n > first
          /\ (n + k) + 1 = (n + 1) + k /\ (n + k) + 2 = (n + 2) + k
      BY <1>1, <2>1, <2>4
    <3>2. text[n + k] = v[n] /\ (n < L => text[(n + k) + 1] = v[n + 1])
      BY <1>1, <1>4, <2>1, <2>4, <3>1
    <3>3. f[(n + k) + 1] = LaterClass(g[n + 1], k) /\ f[(n + k) + 2] = LaterClass(g[n + 2], k)
      <4>1. n + 1 \in T /\ n + 2 \in T
        BY <1>1, <1>5, <2>1, <2>4
      <4> QED BY <3>1, <4>1
    <3>4. ASSUME NEW x, NEW c PROVE Longer(x, LaterClass(c, k)) = LaterClass(Longer(x, c), k)
      BY DEF Longer, LaterClass
    <3>5. f[n + k] = LaterClass(g[n], k)
      <4>1. CASE v[n] = "]" /\ n > first
        <5>1. g[n] = [end |-> n, members |-> <<>>]
          BY <2>2, <2>4, <4>1 DEF LocalMembersAt, L
        <5>2. f[n + k] = [end |-> n + k, members |-> <<>>]
          BY <2>2, <3>1, <3>2, <4>1 DEF LocalMembersAt
        <5>3. g[n].end = n /\ g[n].members = <<>> /\ n # 0
          BY <2>1, <5>1
        <5> QED BY <5>2, <5>3 DEF LaterClass
      <4>2. CASE ~(v[n] = "]" /\ n > first) /\ n < L /\ v[n] = "\\"
        <5>1. g[n] = Longer(v[n + 1], g[n + 2])
          BY <2>2, <2>4, <4>2 DEF LocalMembersAt, L
        <5>2. f[n + k] = Longer(v[n + 1], f[(n + k) + 2])
          BY <2>2, <3>1, <3>2, <4>2 DEF LocalMembersAt
        <5> QED BY <3>3, <3>4, <5>1, <5>2
      <4>3. CASE ~(v[n] = "]" /\ n > first) /\ ~(n < L /\ v[n] = "\\")
        <5>1. g[n] = Longer(v[n], g[n + 1])
          BY <2>2, <2>4, <4>3 DEF LocalMembersAt, L
        <5>2. f[n + k] = Longer(v[n], f[(n + k) + 1])
          BY <2>2, <3>1, <3>2, <4>3 DEF LocalMembersAt
        <5> QED BY <3>3, <3>4, <5>1, <5>2
      <4> QED BY <4>1, <4>2, <4>3
    <3> QED BY <1>5, <3>5
  <2> QED BY <2>3, <2>4
<1>6. first .. L + 2 \subseteq T
  <2>1. first \in Nat /\ L + 2 \in Nat
    BY <1>1
  <2> HIDE DEF T
  <2> QED BY <1>5, <2>1, Downward
<1>7. first \in T
  BY <1>1, <1>6 DEF L
<1> QED BY <1>2, <1>3, <1>7

\* A class that ends within what two texts have in common is the same in both.
LEMMA LocalMembersAlone ==
  ASSUME NEW a \in Seq(Chars), NEW b \in Seq(Chars), NEW L \in Nat, SameStart(a, b, L),
         NEW first \in 1 .. L + 2, LocalMembers(a, first).end = L
  PROVE  first <= L /\ LocalMembers(b, first) = LocalMembers(a, first)
<1>1. /\ L >= 1 /\ Len(a) = L + 1 /\ Len(b) \in Nat /\ L <= Len(b)
      /\ first \in Nat /\ first >= 1 /\ \A n \in 1 .. L : b[n] = a[n]
  BY TextType DEF SameStart
<1>2. PICK f \in [first .. Len(a) + 2 -> Bracket] :
        /\ LocalMembers(a, first) = f[first]
        /\ \A n \in first .. Len(a) + 2 : f[n] = LocalMembersAt(a, first, f, n)
  <2>1. first \in 1 .. Len(a) + 2
    BY <1>1
  <2> QED BY <2>1, LocalMembersDefined DEF LocalBrackets
<1>3. ASSUME NEW n \in L + 1 .. L + 3, first <= n PROVE f[n].end # L
  <2>1. ASSUME NEW m \in L + 2 .. L + 3, first <= m PROVE f[m].end = 0
    <3>1. m \in first .. Len(a) + 2 /\ m > Len(a)
      BY <1>1, <2>1
    <3>2. f[m] = [end |-> 0, members |-> <<>>]
      BY <1>2, <3>1 DEF LocalMembersAt
    <3> QED BY <3>2
  <2>2. CASE n # L + 1
    <3>1. n \in L + 2 .. L + 3
      BY <1>1, <2>2
    <3> QED BY <1>1, <1>3, <2>1, <3>1
  <2>3. CASE n = L + 1
    <3>1. n \in first .. Len(a) + 2 /\ ~(n > Len(a)) /\ ~(n < Len(a))
          /\ n + 1 \in L + 2 .. L + 3 /\ first <= n + 1
      BY <1>1, <1>3, <2>3
    <3>2. f[n] = [end |-> n, members |-> <<>>] \/ f[n] = Longer(a[n], f[n + 1])
      BY <1>2, <3>1 DEF LocalMembersAt
    <3>3. f[n + 1].end = 0
      BY <2>1, <3>1
    <3>4. f[n].end = n \/ f[n].end = 0
      BY <3>2, <3>3 DEF Longer
    <3> QED BY <1>1, <2>3, <3>4
  <2> QED BY <2>2, <2>3
<1>4. first <= L
  <2>1. SUFFICES ASSUME ~(first <= L) PROVE FALSE
    OBVIOUS
  <2>2. first \in L + 1 .. L + 3 /\ first <= first
    BY <1>1, <2>1
  <2> QED BY <1>2, <1>3, <2>2
<1>5. PICK g \in [first .. Len(b) + 2 -> Bracket] :
        /\ LocalMembers(b, first) = g[first]
        /\ \A n \in first .. Len(b) + 2 : g[n] = LocalMembersAt(b, first, g, n)
  <2>1. first \in 1 .. Len(b) + 2
    BY <1>1, <1>4
  <2> QED BY <2>1, LocalMembersDefined DEF LocalBrackets
<1> DEFINE Same == {n \in first .. L : f[n].end = L => g[n] = f[n]}
<1>6. ASSUME NEW n \in first .. L, \A m \in n + 1 .. L : m \in Same PROVE n \in Same
  <2>1. SUFFICES ASSUME f[n].end = L PROVE g[n] = f[n]
    OBVIOUS
  <2>2. /\ n \in Nat /\ n >= 1 /\ n <= L /\ n \in first .. Len(a) + 2 /\ n \in first .. Len(b) + 2
        /\ ~(n > Len(a)) /\ n < Len(a) /\ ~(n > Len(b))
    BY <1>1
  <2>3. f[n] = LocalMembersAt(a, first, f, n) /\ g[n] = LocalMembersAt(b, first, g, n)
    BY <1>2, <1>5, <2>2
  <2>4. ASSUME NEW m \in {n + 1, n + 2}, f[m].end = L PROVE m <= L /\ g[m] = f[m]
    <3>1. m \in first .. L + 2 /\ n < m
      BY <1>1, <2>2
    <3>2. m <= L
      <4>1. SUFFICES ASSUME ~(m <= L) PROVE FALSE
        OBVIOUS
      <4>2. m \in L + 1 .. L + 3 /\ first <= m
        BY <1>1, <3>1, <4>1
      <4> QED BY <1>3, <2>4, <4>2
    <3>3. m \in n + 1 .. L
      BY <1>1, <2>2, <3>1, <3>2
    <3>4. m \in Same
      BY <1>6, <3>3
    <3> QED BY <2>4, <3>2, <3>4
  <2>5. b[n] = a[n] /\ (n + 1 <= L => b[n + 1] = a[n + 1])
    BY <1>1, <2>2
  <2>6. \A x, c : Longer(x, c).end = c.end
    BY DEF Longer
  <2>7. CASE a[n] = "]" /\ n > first
    <3>1. f[n] = [end |-> n, members |-> <<>>]
      BY <2>2, <2>3, <2>7 DEF LocalMembersAt
    <3>2. g[n] = [end |-> n, members |-> <<>>]
      BY <2>2, <2>3, <2>5, <2>7 DEF LocalMembersAt
    <3> QED BY <3>1, <3>2
  <2>8. CASE ~(a[n] = "]" /\ n > first) /\ a[n] = "\\"
    <3>1. f[n] = Longer(a[n + 1], f[n + 2])
      BY <2>2, <2>3, <2>8 DEF LocalMembersAt
    <3>2. n + 2 <= L /\ g[n + 2] = f[n + 2]
      BY <2>1, <2>4, <2>6, <3>1
    <3>3. n < Len(b) /\ n + 1 <= L
      BY <1>1, <2>2, <3>2
    <3>4. g[n] = Longer(b[n + 1], g[n + 2])
      BY <2>2, <2>3, <2>5, <2>8, <3>3 DEF LocalMembersAt
    <3> QED BY <2>5, <3>1, <3>2, <3>3, <3>4
  <2>9. CASE ~(a[n] = "]" /\ n > first) /\ a[n] # "\\"
    <3>1. f[n] = Longer(a[n], f[n + 1])
      BY <2>2, <2>3, <2>9 DEF LocalMembersAt
    <3>2. n + 1 <= L /\ g[n + 1] = f[n + 1]
      BY <2>1, <2>4, <2>6, <3>1
    <3>3. g[n] = Longer(b[n], g[n + 1])
      BY <2>2, <2>3, <2>5, <2>9 DEF LocalMembersAt
    <3> QED BY <2>5, <3>1, <3>2, <3>3
  <2> QED BY <2>7, <2>8, <2>9
<1>7. first .. L \subseteq Same
  <2>1. first \in Nat /\ L \in Nat
    BY <1>1
  <2> HIDE DEF Same
  <2>2. \A n \in first .. L : (\A m \in n + 1 .. L : m \in Same) => n \in Same
    BY <1>6
  <2> QED BY ONLY <2>1, <2>2, Downward
<1>8. first \in Same
  BY <1>1, <1>4, <1>7
<1> QED BY <1>2, <1>4, <1>5, <1>8

\* Where a class of the local levels ends.
LEMMA LocalClassType ==
  ASSUME NEW text \in Seq(Chars), NEW n \in 1 .. Len(text)
  PROVE  LocalClass(text, n).end \in {0} \cup (n .. Len(text))
<1> DEFINE first == IF Negated(text, n + 1) THEN n + 2 ELSE n + 1
<1>1. first \in 1 .. Len(text) + 2 /\ first + 1 >= n /\ first \in Nat /\ n \in Nat
  BY TextType
<1>2. LocalClass(text, n).end = LocalMembers(text, first).end
  BY DEF LocalClass
<1> HIDE DEF first
<1>3. LocalMembers(text, first).end \in {0} \cup (first + 1 .. Len(text))
  BY <1>1, LocalMembersType
<1> QED BY <1>1, <1>2, <1>3, TextType

\* What stands before a class, negated or not, does not change it.
LEMMA LocalClassShift ==
  ASSUME NEW text \in Seq(Chars), NEW v \in Seq(Chars), NEW k, Shifted(text, v, k),
         NEW n \in 1 .. Len(v)
  PROVE  /\ LocalClass(text, n + k).of = LocalClass(v, n).of
         /\ LocalClass(text, n + k).end =
              IF LocalClass(v, n).end = 0 THEN 0 ELSE LocalClass(v, n).end + k
<1>1. /\ Len(v) \in Nat /\ k \in Nat /\ Len(text) = Len(v) + k /\ n \in Nat /\ n >= 1 /\ n <= Len(v)
  BY TextType DEF Shifted
<1>2. (n + k) + 1 = (n + 1) + k /\ (n + k) + 2 = (n + 2) + k
  BY <1>1
<1>3. Negated(text, (n + 1) + k) <=> Negated(v, n + 1)
  <2>1. (n + 1) + k <= Len(text) <=> n + 1 <= Len(v)
    BY <1>1
  <2>2. n + 1 <= Len(v) => text[(n + 1) + k] = v[n + 1]
    BY <1>1 DEF Shifted
  <2> QED BY <2>1, <2>2 DEF Negated
<1> DEFINE first == IF Negated(v, n + 1) THEN n + 2 ELSE n + 1
<1>4. first \in 1 .. Len(v) + 2
  BY <1>1
<1> DEFINE c == LocalMembers(v, first)
           d == LocalMembers(text, first + k)
<1>5. d = LaterClass(c, k)
  <2> HIDE DEF first
  <2> QED BY <1>4, LocalMembersShift
<1> DEFINE set(class) == IF Negated(v, n + 1) THEN Chars \ RegexpClass(class.members)
                         ELSE RegexpClass(class.members)
<1>6. LocalClass(v, n) = [end |-> c.end, of |-> set(c)]
  BY DEF LocalClass
<1>7. LocalClass(text, n + k) = [end |-> d.end, of |-> set(d)]
  <2>1. first + k = IF Negated(text, (n + k) + 1) THEN (n + k) + 2 ELSE (n + k) + 1
    BY <1>2, <1>3
  <2>2. Negated(text, (n + k) + 1) <=> Negated(v, n + 1)
    BY <1>2, <1>3
  <2> HIDE DEF first
  <2> QED BY <2>1, <2>2 DEF LocalClass
<1> HIDE DEF c, d, first
<1>8. d.members = c.members /\ d.end = IF c.end = 0 THEN 0 ELSE c.end + k
  BY <1>5 DEF LaterClass
<1>9. set(d) = set(c)
  BY <1>8
<1> HIDE DEF set
<1>10. LocalClass(v, n).end = c.end /\ LocalClass(text, n + k).end = d.end
       /\ LocalClass(v, n).of = set(c) /\ LocalClass(text, n + k).of = set(d)
  BY <1>6, <1>7
<1> QED BY <1>8, <1>9, <1>10

\* The items of the local levels.
LocalItem == {LocalPiece(text, n).item : text \in Seq(Chars), n \in Nat}

\* A place of a text is an item, and the next one begins behind it.
LEMMA LocalPieceType ==
  ASSUME NEW text \in Seq(Chars), NEW n \in 1 .. Len(text)
  PROVE  /\ LocalPiece(text, n).item \in LocalItem
         /\ LocalPiece(text, n).next \in n + 1 .. Len(text) + 1
<1> DEFINE class == LocalClass(text, n)
<1>1. Len(text) \in Nat /\ n \in Nat /\ n >= 1 /\ n <= Len(text)
  BY TextType
<1>2. class.end \in {0} \cup (n .. Len(text))
  BY LocalClassType
<1>3. \A set, next : Char(set, next).next = next /\ Star(next).next = next
  BY DEF Char, Star
<1>4. LocalPiece(text, n).item \in LocalItem
  BY <1>1 DEF LocalItem
<1>5. LocalPiece(text, n).next = IF n < Len(text) /\ text[n] = "\\" THEN n + 2
                                 ELSE IF text[n] = "*" THEN n + 1
                                 ELSE IF text[n] = "?" THEN n + 1
                                 ELSE IF text[n] = "[" /\ class.end # 0 THEN class.end + 1
                                 ELSE n + 1
  <2> HIDE DEF class
  <2> QED BY <1>3 DEF LocalPiece, class
<1> HIDE DEF class
<1> QED BY <1>1, <1>2, <1>4, <1>5

\* What stands before a place does not change what is read there.
LEMMA LocalPieceShift ==
  ASSUME NEW text \in Seq(Chars), NEW v \in Seq(Chars), NEW k, Shifted(text, v, k),
         NEW n \in 1 .. Len(v)
  PROVE  /\ LocalPiece(text, n + k).item = LocalPiece(v, n).item
         /\ LocalPiece(text, n + k).next = LocalPiece(v, n).next + k
<1> DEFINE L == Len(v)
           c == LocalClass(v, n)
           d == LocalClass(text, n + k)
<1>1. /\ L \in Nat /\ k \in Nat /\ Len(text) = L + k /\ n \in Nat /\ n >= 1 /\ n <= L
  BY TextType DEF Shifted
<1>2. d.of = c.of /\ (d.end # 0 <=> c.end # 0) /\ (c.end # 0 => d.end = c.end + k) /\ c.end \in Nat
  <2>1. c.end \in {0} \cup (n .. L)
    BY LocalClassType
  <2>2. d.of = c.of /\ d.end = IF c.end = 0 THEN 0 ELSE c.end + k
    BY LocalClassShift
  <2> HIDE DEF c, d
  <2> QED BY <1>1, <2>1, <2>2
<1>3. /\ (n + k) + 1 = (n + 1) + k /\ (n + k) + 2 = (n + 2) + k
      /\ c.end # 0 => d.end + 1 = (c.end + 1) + k
      /\ n + k < Len(text) <=> n < L
  <2> HIDE DEF c, d
  <2> QED BY <1>1, <1>2
<1>4. text[n + k] = v[n] /\ (n < L => text[(n + k) + 1] = v[n + 1])
  <2>1. n < L => text[(n + 1) + k] = v[n + 1]
    BY <1>1 DEF Shifted
  <2> QED BY <1>3, <2>1 DEF Shifted
<1> HIDE DEF L, c, d
<1>5. ASSUME NEW set, NEW next
      PROVE  /\ Char(set, next + k).item = Char(set, next).item
             /\ Char(set, next + k).next = Char(set, next).next + k
             /\ Star(next + k).item = Star(next).item
             /\ Star(next + k).next = Star(next).next + k
  BY DEF Char, Star
<1>6. LocalPiece(v, n) = IF n < L /\ v[n] = "\\" THEN Char({v[n + 1]}, n + 2)
                         ELSE IF v[n] = "*" THEN Star(n + 1)
                         ELSE IF v[n] = "?" THEN Char(Chars, n + 1)
                         ELSE IF v[n] = "[" /\ c.end # 0 THEN Char(c.of, c.end + 1)
                         ELSE Char({v[n]}, n + 1)
  BY DEF LocalPiece, L, c
<1>7. LocalPiece(text, n + k) = IF n < L /\ v[n] = "\\" THEN Char({v[n + 1]}, (n + 2) + k)
                                ELSE IF v[n] = "*" THEN Star((n + 1) + k)
                                ELSE IF v[n] = "?" THEN Char(Chars, (n + 1) + k)
                                ELSE IF v[n] = "[" /\ c.end # 0 THEN Char(c.of, (c.end + 1) + k)
                                ELSE Char({v[n]}, (n + 1) + k)
  BY <1>2, <1>3, <1>4 DEF LocalPiece, d
<1> QED BY <1>5, <1>6, <1>7

\* If the local levels read one item up to where two texts part, they read the same
\* in both; but not if it is a bracket that is a character, for a class may begin
\* with it.
LEMMA LocalPieceAlone ==
  ASSUME NEW a \in Seq(Chars), NEW b \in Seq(Chars), NEW L \in Nat, SameStart(a, b, L),
         LocalPiece(a, 1).next = L + 1, a[1] = "[" => L # 1
  PROVE  LocalPiece(b, 1) = LocalPiece(a, 1)
<1>1. /\ L \in Nat /\ L >= 1 /\ Len(a) = L + 1 /\ Len(b) \in Nat /\ L <= Len(b) /\ 1 < Len(a)
      /\ \A n \in 1 .. L : b[n] = a[n]
  BY TextType DEF SameStart
<1>2. b[1] = a[1] /\ (L >= 2 => b[1 + 1] = a[1 + 1] /\ 1 < Len(b))
  BY <1>1
<1>3. \A set, next : Char(set, next).next = next
  BY DEF Char
<1>4. CASE a[1] = "\\"
  <2>1. LocalPiece(a, 1) = Char({a[1 + 1]}, 1 + 2)
    BY <1>1, <1>4 DEF LocalPiece
  <2>2. L >= 2
    BY <1>1, <1>3, <2>1
  <2> QED BY <1>2, <1>4, <2>1, <2>2 DEF LocalPiece
<1>5. CASE a[1] = "["
  <2> DEFINE c == LocalClass(a, 1)
             d == LocalClass(b, 1)
  <2>1. c.end \in {0} \cup (1 .. Len(a))
    <3>1. 1 \in 1 .. Len(a)
      BY <1>1
    <3> QED BY <3>1, LocalClassType
  <2>2. c.end = L /\ L >= 2 /\ LocalPiece(a, 1) = Char(c.of, c.end + 1)
    <3>1. LocalPiece(a, 1) = IF c.end # 0 THEN Char(c.of, c.end + 1) ELSE Char({a[1]}, 1 + 1)
      BY <1>5 DEF LocalPiece
    <3> HIDE DEF c
    <3>2. (IF c.end # 0 THEN c.end + 1 ELSE 1 + 1) = L + 1
      BY <1>3, <3>1
    <3>3. L >= 2
      BY <1>1, <1>5
    <3>4. c.end # 0
      BY <3>2, <3>3
    <3>5. c.end = L
      BY <1>1, <2>1, <3>2, <3>4
    <3> QED BY <3>1, <3>3, <3>4, <3>5
  <2> DEFINE first == IF Negated(a, 1 + 1) THEN 1 + 2 ELSE 1 + 1
             e == LocalMembers(a, first)
  <2>3. Negated(b, 1 + 1) <=> Negated(a, 1 + 1)
    BY <1>1, <1>2, <2>2 DEF Negated
  <2>4. c.end = e.end
    BY DEF LocalClass
  <2>5. LocalMembers(b, first) = e
    <3>1. first \in 1 .. L + 2
      BY <1>1
    <3> HIDE DEF first, c
    <3>2. LocalMembers(a, first).end = L
      BY <2>2, <2>4
    <3> QED BY <3>1, <3>2, LocalMembersAlone
  <2>6. d = c
    BY <2>3, <2>5 DEF LocalClass
  <2> HIDE DEF c, d
  <2>7. LocalPiece(b, 1) = Char(d.of, d.end + 1)
    <3>1. d.end # 0
      BY <2>2, <2>6
    <3> QED BY <1>2, <1>5, <3>1 DEF LocalPiece, d
  <2> QED BY <2>2, <2>6, <2>7
<1>6. CASE a[1] # "\\" /\ a[1] # "["
  <2>1. LocalPiece(a, 1) = IF a[1] = "*" THEN Star(1 + 1)
                           ELSE IF a[1] = "?" THEN Char(Chars, 1 + 1)
                           ELSE Char({a[1]}, 1 + 1)
    BY <1>6 DEF LocalPiece
  <2>2. LocalPiece(b, 1) = IF a[1] = "*" THEN Star(1 + 1)
                           ELSE IF a[1] = "?" THEN Char(Chars, 1 + 1)
                           ELSE Char({a[1]}, 1 + 1)
    BY <1>2, <1>6 DEF LocalPiece
  <2> QED BY <2>1, <2>2
<1> QED BY <1>4, <1>5, <1>6

\* The matcher of a text is a sequence of items.
LEMMA LocalItemsType ==
  ASSUME NEW text \in Seq(Chars)
  PROVE  LocalItems(text) \in Seq(LocalItem)
<1> DEFINE pieces == [n \in 1 .. Len(text) |-> LocalPiece(text, n)]
<1>1. Len(text) \in Nat /\ Len(pieces) = Len(text)
  OBVIOUS
<1>2. Forward(LocalItem, pieces)
  <2>1. ASSUME NEW n \in 1 .. Len(text)
        PROVE  pieces[n].item \in LocalItem /\ pieces[n].next \in n + 1 .. Len(text) + 1
    BY LocalPieceType
  <2> HIDE DEF pieces
  <2> QED BY <1>1, <2>1 DEF Forward
<1> HIDE DEF pieces
<1>3. OneByOne(pieces) \in Seq(LocalItem)
  BY <1>1, <1>2, OneByOneType
<1> QED BY <1>3 DEF LocalItems, pieces

\* If a text begins with one item, the others are those of the rest.
LEMMA LocalFirst ==
  ASSUME NEW head \in Seq(Chars), NEW v \in Seq(Chars), head # <<>>,
         LocalPiece(head \o v, 1).next = Len(head) + 1
  PROVE  LocalItems(head \o v) = <<LocalPiece(head \o v, 1).item>> \o LocalItems(v)
<1> DEFINE k == Len(head)
           text == head \o v
           pieces == [n \in 1 .. Len(text) |-> LocalPiece(text, n)]
           rest == [n \in 1 .. Len(v) |-> LocalPiece(v, n)]
<1>1. k \in Nat \ {0} /\ Len(v) \in Nat
  BY EmptySeq
<1>2. text \in Seq(Chars) /\ Len(text) = k + Len(v) /\ Shifted(text, v, k)
  BY ShiftedBehind
<1>3. LocalPiece(text, 1).next = k + 1
  OBVIOUS
<1> HIDE DEF text, k
<1>4. /\ Len(text) \in Nat /\ Len(pieces) = Len(text) /\ Len(rest) = Len(v)
      /\ Len(pieces) = Len(rest) + k /\ 1 \in 1 .. Len(text)
  BY <1>1, <1>2
<1>5. ASSUME NEW n \in 1 .. Len(text)
      PROVE  pieces[n].item \in LocalItem /\ pieces[n].next \in n + 1 .. Len(text) + 1
  BY <1>2, LocalPieceType
<1>6. ASSUME NEW n \in 1 .. Len(v)
      PROVE  rest[n].item \in LocalItem /\ rest[n].next \in n + 1 .. Len(v) + 1
  BY LocalPieceType
<1>7. ASSUME NEW n \in 1 .. Len(v)
      PROVE  pieces[n + k].item = rest[n].item /\ pieces[n + k].next = rest[n].next + k
  <2>1. n + k \in 1 .. Len(text)
    BY <1>1, <1>2
  <2> QED BY <1>2, <2>1, LocalPieceShift
<1>8. pieces[1] = LocalPiece(text, 1)
  BY <1>4
<1>9. LocalItems(text) = OneByOne(pieces) /\ LocalItems(v) = OneByOne(rest)
  BY DEF LocalItems
<1> HIDE DEF pieces, rest
<1>10. Forward(LocalItem, pieces) /\ Forward(LocalItem, rest)
  BY <1>4, <1>5, <1>6 DEF Forward
<1> DEFINE x == pieces[1].item
<1> HIDE DEF x
<1>11. FirstOf(x, pieces, rest)
  <2>1. pieces[1].item = x /\ pieces[1].next = k + 1 /\ Len(rest) \in Nat
    BY <1>1, <1>3, <1>4, <1>8 DEF x
  <2>2. Behind(k, pieces, rest)
    BY <1>4, <1>7 DEF Behind
  <2> QED BY <1>1, <1>10, <2>1, <2>2, OneByOneFirst
<1> QED BY <1>8, <1>9, <1>11 DEF text, x, FirstOf
-----------------------------------------------------------------------------
(* What a glob means *)

\* Both readers, where the token stands alone before another item, read what it
\* means and no more.
ReadAlone(t) ==
  LET text == t.text \o <<"*">>
      piece == [item |-> [star |-> t.star, of |-> t.of], next |-> Len(t.text) + 1]
  IN LocalPiece(text, 1) = piece /\ RedisPiece(text, 1) = piece

\* A token that is read as it is meant where it stands alone is read so whatever
\* follows it.
LEMMA TokenReads ==
  ASSUME NEW t \in Token, ReadAlone(t), "*" \in Chars, NEW v \in Seq(Chars)
  PROVE  LET item == [star |-> t.star, of |-> t.of] IN
         /\ LocalItems(t.text \o v) = <<item>> \o LocalItems(v)
         /\ RedisItems(t.text \o v) = <<item>> \o RedisItems(v)
<1> DEFINE head == t.text
           L == Len(head)
           item == [star |-> t.star, of |-> t.of]
           a == head \o <<"*">>
           b == head \o v
<1>1. head \in Seq(Chars) /\ L \in Nat /\ Len(v) \in Nat
  BY DEF Token
<1>2. <<"*">> \in Seq(Chars) /\ Len(<<"*">>) = 1
  OBVIOUS
<1>3. LocalPiece(a, 1) = [item |-> item, next |-> L + 1] /\ RedisPiece(a, 1) = [item |-> item, next |-> L + 1]
  BY DEF ReadAlone
<1>4. /\ a \in Seq(Chars) /\ Len(a) = L + 1 /\ \A n \in 1 .. L : a[n] = head[n]
  <2> HIDE DEF head
  <2> QED BY <1>1, <1>2, ShiftedBehind
<1>5. /\ b \in Seq(Chars) /\ Len(b) = L + Len(v) /\ \A n \in 1 .. L : b[n] = head[n]
  <2> HIDE DEF head
  <2> QED BY <1>1, ShiftedBehind
<1> HIDE DEF a, b, item, head
<1>6. LocalPiece(a, 1).next = L + 1 /\ RedisPiece(a, 1).next = L + 1
  BY <1>3
<1>7. L >= 1 /\ head # <<>>
  <2>1. 1 \in 1 .. Len(a)
    BY <1>1, <1>4
  <2>2. RedisPiece(a, 1).next \in 1 + 1 .. Len(a) + 1
    BY <1>4, <2>1, RedisPieceType
  <2> QED BY <1>1, <1>6, <2>2
<1>8. SameStart(a, b, L)
  BY <1>1, <1>4, <1>5, <1>7 DEF SameStart
<1> HIDE DEF L
<1>9. RedisPiece(b, 1) = RedisPiece(a, 1) /\ (a[1] = "[" => L # 1)
  BY <1>1, <1>4, <1>5, <1>6, <1>8, RedisPieceAlone
<1>10. LocalPiece(b, 1) = LocalPiece(a, 1)
  BY <1>1, <1>4, <1>5, <1>6, <1>8, <1>9, LocalPieceAlone
<1>11. LocalItems(b) = <<item>> \o LocalItems(v)
  <2>1. LocalPiece(head \o v, 1).next = Len(head) + 1
    BY <1>3, <1>10 DEF b, L
  <2>2. LocalItems(head \o v) = <<LocalPiece(head \o v, 1).item>> \o LocalItems(v)
    BY <1>1, <1>7, <2>1, LocalFirst
  <2> QED BY <1>3, <1>10, <2>2 DEF b
<1>12. RedisItems(b) = <<item>> \o RedisItems(v)
  <2>1. RedisPiece(head \o v, 1).next = Len(head) + 1
    BY <1>3, <1>9 DEF b, L
  <2>2. RedisItems(head \o v) = <<RedisPiece(head \o v, 1).item>> \o RedisItems(v)
    BY <1>1, <1>7, <2>1, RedisFirst
  <2> QED BY <1>3, <1>9, <2>2 DEF b
<1> QED BY <1>11, <1>12 DEF b, item, head

-----------------------------------------------------------------------------
(* Matching *)

\* Where a match may end after one more item.
Advance(before, item, string) ==
  IF item.star THEN {m \in 0 .. Len(string) : \E k \in before : k <= m}
  ELSE {m \in 1 .. Len(string) : m - 1 \in before /\ string[m] \in item.of}

\* The functions that say where a match of the first items may end.
Reaches(items, string) ==
  {f \in [0 .. Len(items) -> SUBSET (0 .. Len(string))] :
     /\ f[0] = {0}
     /\ \A n \in 1 .. Len(items) : f[n] = Advance(f[n - 1], items[n], string)
     /\ Matches(items, string) <=> Len(string) \in f[Len(items)]}

\* Matches is well-defined: there are such sets.
LEMMA ReachDefined ==
  ASSUME NEW items \in Seq(Item), NEW string \in Seq(Chars)
  PROVE  Reaches(items, string) # {}
<1> DEFINE N == Len(items)
           S == SUBSET (0 .. Len(string))
           rule == [n \in 1 .. N |-> [before \in S |-> Advance(before, items[n], string)]]
           Whole(g) == [n \in 0 .. N |->
             IF n = 0 THEN {0}
             ELSE LET before == g[n - 1] IN
                  IF items[n].star THEN {m \in 0 .. Len(string) : \E k \in before : k <= m}
                  ELSE {m \in 1 .. Len(string) : m - 1 \in before /\ string[m] \in items[n].of}]
           reach == CHOOSE g : g = Whole(g)
<1>1. N \in Nat /\ Len(string) \in Nat
  OBVIOUS
<1>2. rule \in [1 .. N -> [S -> S]]
  <2>1. \A n \in 1 .. N : \A before \in S : Advance(before, items[n], string) \in S
    BY <1>1 DEF Advance
  <2> HIDE DEF S
  <2> QED BY <2>1
<1>3. {0} \in S
  BY <1>1
<1>4. PICK h \in [0 .. N -> S] : h[0] = {0} /\ \A n \in 1 .. N : h[n] = rule[n][h[n - 1]]
  <2> HIDE DEF S, rule, N
  <2>1. Stepwise(N, S, {0}, rule) # {}
    BY <1>1, <1>2, <1>3, StepByStep
  <2> QED BY <2>1 DEF Stepwise
<1>5. ASSUME NEW n \in 1 .. N PROVE h[n] = Advance(h[n - 1], items[n], string)
  <2>1. n - 1 \in 0 .. N
    BY <1>1
  <2> HIDE DEF S, N
  <2>2. h[n - 1] \in S /\ h[n] = rule[n][h[n - 1]]
    BY <1>4, <2>1
  <2> QED BY <2>2 DEF rule
<1>6. h = Whole(h)
  <2>1. ASSUME NEW n \in 0 .. N PROVE h[n] = Whole(h)[n]
    <3>1. CASE n = 0
      BY <1>4, <3>1
    <3>2. CASE n # 0
      <4>1. n \in 1 .. N
        BY <1>1, <3>2
      <4>2. h[n] = Advance(h[n - 1], items[n], string)
        BY <1>5, <4>1
      <4> QED BY <3>2, <4>2 DEF Advance
    <3> QED BY <3>1, <3>2
  <2>2. h = [n \in 0 .. N |-> h[n]]
    <3> HIDE DEF S, N
    <3> QED BY <1>4
  <2>3. Whole(h) = [n \in 0 .. N |-> Whole(h)[n]]
    OBVIOUS
  <2> HIDE DEF Whole, N
  <2> QED BY <2>1, <2>2, <2>3
<1>7. reach = Whole(reach)
  <2> HIDE DEF Whole
  <2> QED BY <1>6
<1>8. Matches(items, string) <=> Len(string) \in reach[N]
  BY DEF Matches
<1> HIDE DEF reach
<1> DEFINE Same == {n \in Nat : n \in 0 .. N => reach[n] = h[n]}
<1>9. 0 \in Same
  BY <1>1, <1>4, <1>7
<1>10. ASSUME NEW n \in Nat, n \in Same PROVE n + 1 \in Same
  <2>1. SUFFICES ASSUME n + 1 \in 0 .. N PROVE reach[n + 1] = h[n + 1]
    OBVIOUS
  <2>2. reach[n] = h[n] /\ (n + 1) - 1 = n /\ n + 1 \in 1 .. N /\ n + 1 # 0
    BY <1>1, <1>10, <2>1
  <2>3. h[n + 1] = Advance(h[n], items[n + 1], string)
    BY <1>5, <2>2
  <2>4. reach[n + 1] = Whole(reach)[n + 1]
    BY <1>7
  <2>5. Whole(reach)[n + 1] = Advance(reach[n], items[n + 1], string)
    BY <2>1, <2>2 DEF Advance
  <2> QED BY <2>2, <2>3, <2>4, <2>5
<1>11. N \in Same
  <2> HIDE DEF Same, N
  <2> QED BY <1>1, <1>9, <1>10, InductiveSet
<1>12. reach[N] = h[N]
  BY <1>1, <1>11
<1> HIDE DEF rule
<1>13. h \in Reaches(items, string)
  BY <1>4, <1>5, <1>8, <1>12 DEF Reaches
<1> QED BY <1>13

\* The places of a set, K further on.
Further(set, K) == {k + K : k \in set}

\* A match in the rest of a string is one in the string, further on.
LEMMA AdvanceFurther ==
  ASSUME NEW K \in Nat, NEW rest \in Seq(Chars), NEW string \in Seq(Chars), NEW item \in Item,
         Len(string) = K + Len(rest),
         \A j \in 1 .. Len(rest) : string[K + j] = rest[j],
         NEW before \in SUBSET (0 .. Len(rest))
  PROVE  Advance(Further(before, K), item, string) = Further(Advance(before, item, rest), K)
<1>1. Len(rest) \in Nat /\ \A k \in before : k \in 0 .. Len(rest)
  OBVIOUS
<1> DEFINE further == {k + K : k \in before}
<1> USE DEF Further
<1>2. CASE item.star
  <2>1. ASSUME NEW m, m \in Advance(further, item, string)
        PROVE  m \in {k + K : k \in Advance(before, item, rest)}
    <3>1. m \in 0 .. Len(string) /\ \E k \in before : k + K <= m
      BY <1>2, <2>1 DEF Advance
    <3>2. m - K \in 0 .. Len(rest) /\ \E k \in before : k <= m - K
      BY <1>1, <3>1
    <3>3. m - K \in Advance(before, item, rest) /\ m = (m - K) + K
      BY <1>2, <3>1, <3>2 DEF Advance
    <3> QED BY <3>3
  <2>2. ASSUME NEW m \in Advance(before, item, rest)
        PROVE  m + K \in Advance(further, item, string)
    <3>1. m \in 0 .. Len(rest) /\ \E k \in before : k <= m
      BY <1>2 DEF Advance
    <3>2. m + K \in 0 .. Len(string) /\ \E k \in further : k <= m + K
      <4>1. PICK k \in before : k <= m
        BY <3>1
      <4>2. k + K \in further /\ k + K <= m + K /\ m + K \in 0 .. Len(string)
        BY <1>1, <3>1, <4>1
      <4> QED BY <4>2
    <3> QED BY <1>2, <3>2 DEF Advance
  <2> QED BY <2>1, <2>2
<1>3. CASE ~item.star
  <2>1. ASSUME NEW m, m \in Advance(further, item, string)
        PROVE  m \in {k + K : k \in Advance(before, item, rest)}
    <3>1. m \in 1 .. Len(string) /\ m - 1 \in further /\ string[m] \in item.of
      BY <1>3, <2>1 DEF Advance
    <3>2. PICK k \in before : m - 1 = k + K
      BY <3>1
    <3>3. m - K \in 1 .. Len(rest) /\ (m - K) - 1 = k /\ m = K + (m - K) /\ m = (m - K) + K
      BY <1>1, <3>1, <3>2
    <3>4. rest[m - K] = string[m]
      BY <3>3
    <3>5. m - K \in Advance(before, item, rest)
      BY <1>3, <3>1, <3>3, <3>4 DEF Advance
    <3> QED BY <3>3, <3>5
  <2>2. ASSUME NEW m \in Advance(before, item, rest)
        PROVE  m + K \in Advance(further, item, string)
    <3>1. m \in 1 .. Len(rest) /\ m - 1 \in before /\ rest[m] \in item.of
      BY <1>3 DEF Advance
    <3>2. m + K \in 1 .. Len(string) /\ (m + K) - 1 = (m - 1) + K /\ K + m = m + K
      BY <1>1, <3>1
    <3>3. string[m + K] = rest[m]
      BY <3>1, <3>2
    <3>4. (m + K) - 1 \in further
      BY <3>1, <3>2
    <3> QED BY <1>3, <3>1, <3>2, <3>3, <3>4 DEF Advance
  <2> QED BY <2>1, <2>2
<1> QED BY <1>2, <1>3

\* Nothing is reached from nowhere.
LEMMA AdvanceNowhere ==
  ASSUME NEW item, NEW string
  PROVE  Advance({}, item, string) = {}
BY DEF Advance

\* One character is reached from the one before it, if it is there.
LEMMA AdvanceLiterally ==
  ASSUME NEW string \in Seq(Chars), NEW c, NEW n \in Nat
  PROVE  Advance({n}, OneOf({c}), string)
           = IF n + 1 <= Len(string) /\ string[n + 1] = c THEN {n + 1} ELSE {}
<1>1. Len(string) \in Nat
  OBVIOUS
<1>2. Advance({n}, OneOf({c}), string) = {m \in 1 .. Len(string) : m - 1 = n /\ string[m] = c}
  BY DEF Advance, OneOf
<1>3. \A m \in 1 .. Len(string) : m - 1 = n <=> m = n + 1
  BY <1>1
<1>4. CASE n + 1 <= Len(string) /\ string[n + 1] = c
  <2>1. n + 1 \in 1 .. Len(string)
    BY <1>1, <1>4
  <2>2. \A m : m \in Advance({n}, OneOf({c}), string) <=> m = n + 1
    BY <1>2, <1>3, <1>4, <2>1
  <2> QED BY <1>4, <2>2
<1>5. CASE ~(n + 1 <= Len(string) /\ string[n + 1] = c)
  <2>1. ASSUME NEW m \in 1 .. Len(string), m = n + 1, string[m] = c PROVE FALSE
    BY <1>1, <1>5, <2>1
  <2>2. \A m : m \notin Advance({n}, OneOf({c}), string)
    BY <1>2, <1>3, <2>1
  <2> QED BY <1>5, <2>2
<1> QED BY <1>4, <1>5

\* Items that are characters match what begins with them and goes on as the
\* others say.
LEMMA LiteralMatch ==
  ASSUME NEW p \in Seq(Chars), NEW R \in Seq(Item), NEW string \in Seq(Chars)
  PROVE  Matches(Literally(p, Len(p)) \o R, string)
           <=> /\ IsPrefix(p, string)
               /\ Matches(R, SubSeq(string, Len(p) + 1, Len(string)))
<1> DEFINE K == Len(p)
           N == Len(R)
           L == Literally(p, K)
           items == L \o R
           Begins(n) == n <= Len(string) /\ \A j \in 1 .. n : string[j] = p[j]
<1>1. K \in Nat /\ N \in Nat /\ Len(string) \in Nat
  OBVIOUS
<1>2. L \in Seq(Item) /\ Len(L) = K
  BY <1>1, LiterallyType
<1>3. \A j \in 1 .. K : L[j] = OneOf({p[j]})
  BY <1>1 DEF Literally
<1> HIDE DEF L, Item
<1>4. items \in Seq(Item) /\ Len(items) = K + N
      /\ \A j \in 1 .. K + N : items[j] = IF j <= K THEN L[j] ELSE R[j - K]
  BY <1>2, ConcatProperties
<1>5. /\ \A j \in 1 .. K : items[j] = OneOf({p[j]})
      /\ \A j \in 1 .. N : items[K + j] = R[j]
  <2>1. ASSUME NEW j \in 1 .. K PROVE items[j] = OneOf({p[j]})
    <3>1. j \in 1 .. K + N /\ j <= K
      BY <1>1
    <3> QED BY <1>3, <1>4, <3>1
  <2>2. ASSUME NEW j \in 1 .. N PROVE items[K + j] = R[j]
    <3>1. K + j \in 1 .. K + N /\ ~(K + j <= K) /\ (K + j) - K = j
      BY <1>1
    <3> QED BY <1>4, <3>1
  <2> QED BY <2>1, <2>2
<1> HIDE DEF items
<1>6. PICK f \in [0 .. K + N -> SUBSET (0 .. Len(string))] :
        /\ f[0] = {0}
        /\ \A n \in 1 .. K + N : f[n] = Advance(f[n - 1], items[n], string)
        /\ Matches(items, string) <=> Len(string) \in f[K + N]
  <2>1. Reaches(items, string) # {}
    BY <1>4, ReachDefined
  <2> QED BY <1>4, <2>1 DEF Reaches
<1> HIDE DEF K, N
<1> DEFINE Along == {n \in Nat : n \in 0 .. K => f[n] = IF Begins(n) THEN {n} ELSE {}}
<1>7. 0 \in Along
  <2>1. Begins(0)
    BY <1>1
  <2> HIDE DEF Begins
  <2> QED BY <1>6, <2>1
<1>8. ASSUME NEW n \in Nat, n \in Along PROVE n + 1 \in Along
  <2>1. SUFFICES ASSUME n + 1 \in 0 .. K
                 PROVE  f[n + 1] = IF Begins(n + 1) THEN {n + 1} ELSE {}
    OBVIOUS
  <2>2. n \in 0 .. K /\ n + 1 \in 1 .. K + N /\ n + 1 \in 1 .. K /\ (n + 1) - 1 = n
    BY <1>1, <2>1
  <2>3. f[n + 1] = Advance(f[n], OneOf({p[n + 1]}), string)
    BY <1>5, <1>6, <2>2
  <2>4. f[n] = IF Begins(n) THEN {n} ELSE {}
    BY <1>8, <2>2
  <2>5. Begins(n + 1) <=> Begins(n) /\ n + 1 <= Len(string) /\ string[n + 1] = p[n + 1]
    <3>1. 1 .. n + 1 = (1 .. n) \cup {n + 1}
      OBVIOUS
    <3>2. n + 1 <= Len(string) => n <= Len(string)
      BY <1>1
    <3> QED BY <3>1, <3>2
  <2> HIDE DEF Begins
  <2>6. CASE Begins(n)
    <3>1. f[n + 1] = IF n + 1 <= Len(string) /\ string[n + 1] = p[n + 1] THEN {n + 1} ELSE {}
      <4>1. f[n + 1] = Advance({n}, OneOf({p[n + 1]}), string)
        BY <2>3, <2>4, <2>6
      <4> QED BY <1>8, <4>1, AdvanceLiterally
    <3> QED BY <2>5, <2>6, <3>1
  <2>7. CASE ~Begins(n)
    <3>1. f[n + 1] = {}
      BY <2>3, <2>4, <2>7, AdvanceNowhere
    <3> QED BY <2>5, <2>7, <3>1
  <2> QED BY <2>6, <2>7
<1>9. K \in Along
  <2> HIDE DEF Along
  <2> QED BY <1>1, <1>7, <1>8, InductiveSet
<1>10. f[K] = IF Begins(K) THEN {K} ELSE {}
  <2>1. K \in 0 .. K
    BY <1>1
  <2> HIDE DEF Begins
  <2> QED BY <1>9, <2>1
<1>11. IsPrefix(p, string) <=> Begins(K)
  <2>1. ASSUME K <= Len(string)
        PROVE  SubSeq(p, 1, K) = SubSeq(string, 1, K) <=> \A j \in 1 .. K : string[j] = p[j]
    <3> DEFINE a == SubSeq(p, 1, K)
               b == SubSeq(string, 1, K)
    <3>1. a \in Seq(Chars) /\ b \in Seq(Chars) /\ Len(a) = K /\ Len(b) = K
          /\ \A j \in 1 .. K : a[j] = p[j] /\ b[j] = string[j]
      BY <1>1, <2>1 DEF K
    <3> HIDE DEF a, b
    <3>2. a = b <=> \A j \in 1 .. K : a[j] = b[j]
      BY <3>1, SeqEqual
    <3>3. SubSeq(p, 1, K) = SubSeq(string, 1, K) <=> a = b
      BY DEF a, b
    <3> QED BY <3>1, <3>2, <3>3
  <2> QED BY <2>1 DEF IsPrefix, K
<1>12. CASE ~Begins(K)
  <2> DEFINE Never == {n \in Nat : n \in 0 .. N => f[K + n] = {}}
  <2>1. 0 \in Never
    BY <1>1, <1>10, <1>12
  <2>2. ASSUME NEW n \in Nat, n \in Never PROVE n + 1 \in Never
    <3>1. SUFFICES ASSUME n + 1 \in 0 .. N PROVE f[K + (n + 1)] = {}
      OBVIOUS
    <3>2. K + (n + 1) \in 1 .. K + N /\ (K + (n + 1)) - 1 = K + n /\ n \in 0 .. N
      BY <1>1, <3>1
    <3>3. f[K + n] = {}
      BY <2>2, <3>2
    <3>4. f[K + (n + 1)] = Advance(f[(K + (n + 1)) - 1], items[K + (n + 1)], string)
      BY <1>6, <3>2
    <3> QED BY <3>2, <3>3, <3>4, AdvanceNowhere
  <2>3. N \in Never
    <3> HIDE DEF Never
    <3> QED BY <1>1, <2>1, <2>2, InductiveSet
  <2>4. f[K + N] = {}
    BY <1>1, <2>3
  <2> QED BY <1>6, <1>11, <1>12, <2>4 DEF items, L, K
<1>13. CASE Begins(K)
  <2> DEFINE rest == SubSeq(string, K + 1, Len(string))
             FurtherOn(set) == Further(set, K)
  <2>1. /\ rest \in Seq(Chars) /\ Len(string) = K + Len(rest) /\ Len(rest) \in Nat
        /\ \A j \in 1 .. Len(rest) : string[K + j] = rest[j]
    <3>1. K <= Len(string)
      BY <1>13
    <3>2. rest \in Seq(Chars)
      BY <1>1
    <3>3. Len(rest) = Len(string) - K
      BY <1>1, <3>1
    <3>4. ASSUME NEW j \in 1 .. Len(rest) PROVE string[K + j] = rest[j]
      <4>1. rest[j] = string[(K + 1) + j - 1] /\ (K + 1) + j - 1 = K + j
        BY <1>1, <3>1, <3>3
      <4> QED BY <4>1
    <3> QED BY <1>1, <3>2, <3>3, <3>4
  <2> HIDE DEF rest
  <2>2. PICK g \in [0 .. N -> SUBSET (0 .. Len(rest))] :
          /\ g[0] = {0}
          /\ \A n \in 1 .. N : g[n] = Advance(g[n - 1], R[n], rest)
          /\ Matches(R, rest) <=> Len(rest) \in g[N]
    <3>1. Reaches(R, rest) # {}
      BY <2>1, ReachDefined
    <3> QED BY <3>1 DEF Reaches, N
  <2> DEFINE Follows == {n \in Nat : n \in 0 .. N => f[K + n] = FurtherOn(g[n])}
  <2>3. 0 \in Follows
    <3>1. f[K + 0] = {K}
      BY <1>1, <1>10, <1>13
    <3>2. FurtherOn(g[0]) = {K}
      <4>1. 0 + K = K
        BY <1>1
      <4> QED BY <2>2, <4>1 DEF Further
    <3> QED BY <3>1, <3>2
  <2>4. ASSUME NEW n \in Nat, n \in Follows PROVE n + 1 \in Follows
    <3>1. SUFFICES ASSUME n + 1 \in 0 .. N PROVE f[K + (n + 1)] = FurtherOn(g[n + 1])
      OBVIOUS
    <3>2. /\ K + (n + 1) \in 1 .. K + N /\ (K + (n + 1)) - 1 = K + n /\ n \in 0 .. N
          /\ n + 1 \in 1 .. N /\ (n + 1) - 1 = n
      BY <1>1, <3>1
    <3>3. f[K + n] = FurtherOn(g[n])
      BY <2>4, <3>2
    <3>4. f[K + (n + 1)] = Advance(FurtherOn(g[n]), R[n + 1], string)
      BY <1>5, <1>6, <3>2, <3>3
    <3>5. g[n + 1] = Advance(g[n], R[n + 1], rest)
      BY <2>2, <3>2
    <3>6. g[n] \in SUBSET (0 .. Len(rest)) /\ R[n + 1] \in Item
      <4>1. g[n] \in SUBSET (0 .. Len(rest))
        BY <2>2, <3>2
      <4>2. R[n + 1] \in Item
        BY <3>2, ElementOfSeq DEF N
      <4> QED BY <4>1, <4>2
    <3>7. Advance(FurtherOn(g[n]), R[n + 1], string) = FurtherOn(Advance(g[n], R[n + 1], rest))
      BY <1>1, <2>1, <3>6, AdvanceFurther
    <3> QED BY <3>4, <3>5, <3>7
  <2>5. N \in Follows
    <3> HIDE DEF Follows
    <3> QED BY <1>1, <2>3, <2>4, InductiveSet
  <2>6. f[K + N] = FurtherOn(g[N]) /\ g[N] \in SUBSET (0 .. Len(rest))
    BY <1>1, <2>2, <2>5
  <2>7. Len(string) \in f[K + N] <=> Len(rest) \in g[N]
    BY <1>1, <2>1, <2>6 DEF Further
  <2> QED BY <1>6, <1>11, <1>13, <2>2, <2>7 DEF items, L, K, rest
<1> QED BY <1>12, <1>13

-----------------------------------------------------------------------------
(* The key prefix *)

\* The text of a glob is one.
LEMMA TextIsText ==
  ASSUME glob \in Seq(Token)
  PROVE  Text \in Seq(Chars)
<1> DEFINE texts == [n \in DOMAIN glob |-> glob[n].text]
<1>1. Len(glob) \in Nat /\ DOMAIN glob = 1 .. Len(glob)
  OBVIOUS
<1>2. ASSUME NEW n \in 1 .. Len(glob) PROVE glob[n].text \in Seq(Chars)
  <2>1. glob[n] \in Token
    BY ElementOfSeq
  <2> QED BY <2>1 DEF Token
<1>3. texts \in [1 .. Len(glob) -> Seq(Chars)]
  BY <1>1, <1>2
<1> HIDE DEF texts
<1>4. FlattenSeq(texts) \in Seq(Chars)
  BY <1>1, <1>3, FlattenType
<1> QED BY <1>4 DEF Text, texts

\* Whatever its characters, the key prefix stands for itself in a pattern
\* deletion, and leaves the caller's glob what it is without a prefix.
THEOREM PrefixesAreLiteral ==
  ASSUME prefix \in Seq(PrefixChars), glob \in Seq(Tokens)
  PROVE  PrefixIsLiteral
<1>1. prefix \in Seq(Chars)
  BY GlobAssumption
<1>2. Text \in Seq(Chars)
  <2>1. glob \in Seq(Token)
    BY GlobAssumption
  <2> QED BY <2>1, TextIsText
<1>3. <<>> \in Seq(Chars) /\ Len(<<>>) = 0
  OBVIOUS
<1> DEFINE R == RedisItems(Text)
<1>4. R \in Seq(Item)
  BY <1>2, ItemsType
<1>5. RedisItems(ScanPattern(prefix, Text)) = Literally(prefix, Len(prefix)) \o R
  BY <1>1, <1>2, EscapedIsLiteral, GlobAssumption DEF ScanPattern
<1>6. RedisItems(ScanPattern(<<>>, Text)) = R
  <2>1. RedisItems(Escaped(<<>>) \o Text) = Literally(<<>>, Len(<<>>)) \o R
    BY <1>2, <1>3, EscapedIsLiteral, GlobAssumption
  <2>2. Literally(<<>>, Len(<<>>)) = <<>>
    BY <1>3 DEF Literally
  <2> HIDE DEF R, Item
  <2>3. <<>> \o R = R
    BY <1>4
  <2> QED BY <2>1, <2>2, <2>3 DEF ScanPattern
<1>7. ASSUME NEW key \in Strings
      PROVE  Matches(Literally(prefix, Len(prefix)) \o R, key)
               <=> /\ IsPrefix(prefix, key)
                   /\ Matches(R, SubSeq(key, Len(prefix) + 1, Len(key)))
  <2>1. key \in Seq(Chars)
    BY GlobAssumption
  <2> HIDE DEF R
  <2> QED BY <1>1, <1>4, <2>1, LiteralMatch
<1> HIDE DEF R
<1> QED BY <1>5, <1>6, <1>7 DEF PrefixIsLiteral

\* Only what the items are is what matters to a match.
LEMMA SameMatches ==
  ASSUME NEW a, NEW b, NEW string, Len(a) \in Nat, Len(a) = Len(b),
         \A n \in 1 .. Len(a) : a[n].star = b[n].star /\ a[n].of = b[n].of
  PROVE  Matches(a, string) <=> Matches(b, string)
<1> DEFINE N == Len(a)
           At(items, g, n) ==
             IF n = 0 THEN {0}
             ELSE LET before == g[n - 1] IN
                  IF items[n].star THEN {m \in 0 .. Len(string) : \E k \in before : k <= m}
                  ELSE {m \in 1 .. Len(string) : m - 1 \in before /\ string[m] \in items[n].of}
           Whole(items, g) == [n \in 0 .. N |-> At(items, g, n)]
           reachA == CHOOSE g : g = Whole(a, g)
           reachB == CHOOSE g : g = Whole(b, g)
<1>1. ASSUME NEW g PROVE Whole(a, g) = Whole(b, g)
  <2>1. ASSUME NEW n \in 0 .. N PROVE At(a, g, n) = At(b, g, n)
    <3>1. CASE n = 0
      BY <3>1
    <3>2. CASE n # 0
      <4>1. a[n].star = b[n].star /\ a[n].of = b[n].of
        BY <3>2
      <4> QED BY <3>2, <4>1
    <3> QED BY <3>1, <3>2
  <2> HIDE DEF At
  <2> QED BY <2>1
<1>2. Matches(a, string) <=> Len(string) \in reachA[N]
  BY DEF Matches
<1>3. Matches(b, string) <=> Len(string) \in reachB[N]
  BY DEF Matches
<1>4. reachA = reachB
  <2> HIDE DEF Whole
  <2> QED BY <1>1
<1> HIDE DEF reachA, reachB
<1> QED BY <1>2, <1>3, <1>4

\* What the author of the glob means, as items.
Meaning == [n \in 1 .. Len(glob) |-> [star |-> glob[n].star, of |-> glob[n].of]]

\* A matcher that is what is meant matches what is meant.
LEMMA MeaningMatches ==
  ASSUME glob \in Seq(Token), NEW string
  PROVE  Matches(Meaning, string) <=> Matches(glob, string)
<1>1. Len(glob) \in Nat /\ Len(Meaning) = Len(glob)
  BY DEF Meaning
<1>2. \A n \in 1 .. Len(Meaning) : Meaning[n].star = glob[n].star /\ Meaning[n].of = glob[n].of
  BY <1>1 DEF Meaning
<1> HIDE DEF Meaning
<1> QED BY <1>1, <1>2, SameMatches

\* There is nothing to read in an empty text.
LEMMA NothingRead ==
  LocalItems(<<>>) = <<>> /\ RedisItems(<<>>) = <<>>
<1>1. ASSUME NEW pieces, Len(pieces) = 0 PROVE OneByOne(pieces) = <<>>
  <2>1. Forward({}, pieces)
    BY <1>1 DEF Forward
  <2>2. Len(pieces) \in Nat
    BY <1>1
  <2>3. PICK f \in Readings({}, pieces) : TRUE
    BY <2>1, <2>2, OneByOneDefined
  <2> QED BY <1>1, <2>3 DEF Readings
<1> DEFINE local == [n \in 1 .. Len(<<>>) |-> LocalPiece(<<>>, n)]
           remote == [n \in 1 .. Len(<<>>) |-> RedisPiece(<<>>, n)]
<1>2. Len(local) = 0 /\ Len(remote) = 0
  OBVIOUS
<1>3. LocalItems(<<>>) = OneByOne(local) /\ RedisItems(<<>>) = OneByOne(remote)
  BY DEF LocalItems, RedisItems
<1> HIDE DEF local, remote
<1> QED BY <1>1, <1>2, <1>3

\* A glob of tokens that each are read as they are meant is read as it is meant.
LEMMA GlobReads ==
  ASSUME "*" \in Chars, glob \in Seq({t \in Token : ReadAlone(t)})
  PROVE  LocalItems(Text) = Meaning /\ RedisItems(Text) = Meaning
<1> DEFINE N == Len(glob)
           texts == [n \in 1 .. N |-> glob[n].text]
           S == LocalItem \cup Item
           Local == [s \in Seq(Chars) |-> LocalItems(s)]
           Remote == [s \in Seq(Chars) |-> RedisItems(s)]
<1>1. N \in Nat /\ DOMAIN glob = 1 .. N
  OBVIOUS
<1>2. ASSUME NEW n \in 1 .. N PROVE glob[n] \in Token /\ ReadAlone(glob[n]) /\ glob[n].text \in Seq(Chars)
  <2>1. glob[n] \in {t \in Token : ReadAlone(t)}
    BY <1>1, ElementOfSeq
  <2> QED BY <2>1 DEF Token
<1>3. texts \in [1 .. N -> Seq(Chars)] /\ Text = FlattenSeq(texts)
  <2>1. Text = FlattenSeq(texts)
    BY <1>1 DEF Text
  <2> QED BY <1>2, <2>1
<1>4. Local \in [Seq(Chars) -> Seq(S)] /\ Remote \in [Seq(Chars) -> Seq(S)]
  <2>1. ASSUME NEW s \in Seq(Chars) PROVE LocalItems(s) \in Seq(S) /\ RedisItems(s) \in Seq(S)
    <3>1. LocalItems(s) \in Seq(LocalItem) /\ RedisItems(s) \in Seq(Item)
      BY LocalItemsType, ItemsType
    <3> QED BY <3>1
  <2> HIDE DEF S
  <2> QED BY <2>1
<1>5. Meaning \in [1 .. N -> S]
  <2>1. ASSUME NEW n \in 1 .. N PROVE [star |-> glob[n].star, of |-> glob[n].of] \in Item
    BY <1>2 DEF Token, Item
  <2> HIDE DEF Item
  <2> QED BY <2>1 DEF Meaning
<1>6. ReadsEach(Local, texts, Meaning) /\ ReadsEach(Remote, texts, Meaning)
  <2>1. ASSUME NEW n \in 1 .. N, NEW v \in Seq(Chars)
        PROVE  /\ Local[texts[n] \o v] = <<Meaning[n]>> \o Local[v]
               /\ Remote[texts[n] \o v] = <<Meaning[n]>> \o Remote[v]
    <3> DEFINE t == glob[n]
               item == [star |-> t.star, of |-> t.of]
               text == t.text \o v
    <3>1. t \in Token /\ ReadAlone(t) /\ t.text \in Seq(Chars)
      BY <1>2
    <3>2. LocalItems(text) = <<item>> \o LocalItems(v) /\ RedisItems(text) = <<item>> \o RedisItems(v)
      <4> HIDE DEF t
      <4> QED BY <3>1, TokenReads
    <3>3. Meaning[n] = item /\ texts[n] \o v = text
      BY DEF Meaning
    <3>4. text \in Seq(Chars)
      BY <3>1, ConcatProperties
    <3> HIDE DEF item, text
    <3>5. Local[text] = LocalItems(text) /\ Local[v] = LocalItems(v)
          /\ Remote[text] = RedisItems(text) /\ Remote[v] = RedisItems(v)
      BY <3>4
    <3> HIDE DEF Local, Remote, texts
    <3> QED BY <3>2, <3>3, <3>5
  <2> HIDE DEF Local, Remote
  <2> QED BY <1>3, <2>1 DEF ReadsEach, Reads
<1> HIDE DEF N, texts, S, Local, Remote
<1>7. Reads(Local, FlattenSeq(texts), Meaning) /\ Reads(Remote, FlattenSeq(texts), Meaning)
  <2>1. Reads(Local, FlattenSeq(texts), Meaning)
    BY <1>1, <1>3, <1>4, <1>5, <1>6, FlattenItems
  <2>2. Reads(Remote, FlattenSeq(texts), Meaning)
    BY <1>1, <1>3, <1>4, <1>5, <1>6, FlattenItems
  <2> QED BY <2>1, <2>2
<1>8. Text \in Seq(Chars)
  BY <1>1, <1>3, FlattenType
<1>9. <<>> \in Seq(Chars) /\ Text \o <<>> = Text
  BY <1>8, ConcatEmptySeq
<1>10. Local[Text] = Meaning \o Local[<<>>] /\ Remote[Text] = Meaning \o Remote[<<>>]
  BY <1>3, <1>7, <1>9 DEF Reads
<1>11. /\ Local[Text] = LocalItems(Text) /\ Local[<<>>] = <<>>
       /\ Remote[Text] = RedisItems(Text) /\ Remote[<<>>] = <<>>
  BY <1>8, <1>9, NothingRead DEF Local, Remote
<1>12. Meaning \o <<>> = Meaning
  <2>1. Meaning \in Seq(S)
    BY <1>1, <1>5
  <2> QED BY <2>1, ConcatEmptySeq
<1> QED BY <1>10, <1>11, <1>12

-----------------------------------------------------------------------------
(* Globs whose tokens are read as they are meant *)

\* Characters that mean nothing special within a class.
Plain == Chars \ {"]", "\\", "-", "^", "!"}

\* The members from the j-th on.
From(s, j) == {s[i] : i \in j .. Len(s)}

\* Without a hyphen a class is the set of its members.
LEMMA PlainRegexpClass ==
  ASSUME NEW s \in Seq(Plain)
  PROVE  RegexpClass(s) = From(s, 1)
<1> DEFINE hi == Len(s) + 3
           At(g, n) == IF n > Len(s) THEN {}
                       ELSE IF n + 2 <= Len(s) /\ s[n + 1] = "-"
                         THEN FromTo(s[n], s[n + 2]) \cup g[n + 3]
                       ELSE {s[n]} \cup g[n + 1]
           Whole(g) == [n \in 1 .. hi |-> At(g, n)]
           class == CHOOSE g : g = Whole(g)
           f == [n \in 1 .. hi |-> From(s, n)]
<1>1. Len(s) \in Nat /\ 1 \in Nat /\ hi \in Nat /\ 1 <= hi
  OBVIOUS
<1>2. ASSUME NEW n \in 1 .. Len(s) PROVE s[n] # "-"
  BY DEF Plain
<1>3. ASSUME NEW g, NEW n \in 1 .. hi
      PROVE  At(g, n) = IF n > Len(s) THEN {} ELSE {s[n]} \cup g[n + 1]
  <2>1. n + 2 <= Len(s) => s[n + 1] # "-"
    <3>1. n + 2 <= Len(s) => n + 1 \in 1 .. Len(s)
      BY <1>1
    <3> QED BY <1>2, <3>1
  <2> QED BY <2>1
<1> HIDE DEF At
<1>4. ASSUME NEW n \in 1 .. hi PROVE f[n] = At(f, n)
  <2>1. CASE n > Len(s)
    <3>1. f[n] = {}
      BY <1>1, <2>1 DEF From
    <3> QED BY <1>3, <2>1, <3>1
  <2>2. CASE ~(n > Len(s))
    <3>1. n + 1 \in 1 .. hi
      BY <1>1, <2>2
    <3>2. n .. Len(s) = {n} \cup (n + 1 .. Len(s))
      BY <1>1, <2>2
    <3>3. From(s, n) = {s[n]} \cup From(s, n + 1)
      BY <3>2 DEF From
    <3>4. f[n] = {s[n]} \cup f[n + 1]
      BY <3>1, <3>3
    <3> HIDE DEF f
    <3> QED BY <1>3, <2>2, <3>4
  <2> QED BY <2>1, <2>2
<1>5. f = Whole(f)
  <2>1. \A n \in 1 .. hi : f[n] = At(f, n)
    BY <1>4
  <2> QED BY <2>1
<1>6. class = Whole(class)
  <2> HIDE DEF Whole
  <2> QED BY <1>5
<1>7. RegexpClass(s) = class[1]
  BY DEF RegexpClass, At
<1> HIDE DEF class
<1>8. \A n \in 1 .. hi : class[n] = At(class, n)
  BY <1>6
<1> HIDE DEF f
<1> DEFINE Same == {n \in 1 .. hi : class[n] = f[n]}
<1>9. ASSUME NEW n \in 1 .. hi, \A m \in n + 1 .. hi : m \in Same PROVE n \in Same
  <2>1. At(class, n) = At(f, n)
    <3>1. CASE n > Len(s)
      BY <1>3, <3>1
    <3>2. CASE ~(n > Len(s))
      <4>1. n + 1 \in Same
        BY <1>1, <1>9, <3>2
      <4>2. class[n + 1] = f[n + 1]
        BY <4>1
      <4> QED BY <1>3, <3>2, <4>2
    <3> QED BY <3>1, <3>2
  <2>2. class[n] = At(class, n) /\ f[n] = At(f, n)
    BY <1>4, <1>8
  <2> QED BY <2>1, <2>2
<1>10. 1 .. hi \subseteq Same
  <2> HIDE DEF Same, hi
  <2> QED BY <1>1, <1>9, Downward
<1>11. class[1] = f[1]
  BY <1>1, <1>10
<1> QED BY <1>1, <1>7, <1>11 DEF f

\* In a, the members s stand behind p characters, and a bracket behind them.
Encloses(a, p, s) ==
  /\ Len(a) > p + Len(s) + 1
  /\ \A i \in 1 .. Len(s) : a[p + i] = s[i]
  /\ a[p + Len(s) + 1] = "]"

\* Redis reads plain members as their set.
LEMMA PlainMembers ==
  ASSUME NEW a \in Seq(Chars), NEW p \in Nat \ {0}, NEW s \in Seq(Plain), Encloses(a, p, s)
  PROVE  RedisMembers(a, p + 1) = [end |-> p + Len(s) + 1, of |-> From(s, 1)]
<1> DEFINE M == Len(s)
<1>1. /\ M \in Nat /\ Len(a) \in Nat /\ Len(a) > p + M + 1 /\ a[p + M + 1] = "]"
      /\ \A i \in 1 .. M : a[p + i] = s[i] /\ s[i] \in Plain
  BY DEF Encloses
<1>2. PICK f \in [p + 1 .. Len(a) + 3 -> Class] :
        /\ RedisMembers(a, p + 1) = f[p + 1]
        /\ \A n \in p + 1 .. Len(a) + 3 : f[n] = MembersAt(a, f, n)
  <2>1. p + 1 \in 1 .. Len(a) + 1
    BY <1>1
  <2> QED BY <2>1, MembersDefined
<1> HIDE DEF M
<1> DEFINE T == {j \in 1 .. M + 1 : f[p + j] = [end |-> p + M + 1, of |-> From(s, j)]}
<1>3. ASSUME NEW j \in 1 .. M + 1, \A m \in j + 1 .. M + 1 : m \in T PROVE j \in T
  <2>1. p + j \in p + 1 .. Len(a) + 3 /\ ~(p + j > Len(a)) /\ (p + j) + 1 = p + (j + 1)
    BY <1>1
  <2>2. f[p + j] = MembersAt(a, f, p + j)
    BY <1>2, <2>1
  <2>3. CASE j = M + 1
    <3>1. a[p + j] = "]" /\ p + j = p + M + 1
      BY <1>1, <2>3
    <3>2. f[p + j] = [end |-> p + M + 1, of |-> {}]
      BY <2>1, <2>2, <3>1 DEF MembersAt
    <3>3. From(s, j) = {}
      BY <1>1, <2>3 DEF From, M
    <3> QED BY <3>2, <3>3
  <2>4. CASE j # M + 1
    <3>1. j \in 1 .. M /\ j + 1 \in j + 1 .. M + 1
      BY <1>1, <2>4
    <3>2. a[p + j] = s[j] /\ s[j] # "]" /\ s[j] # "\\"
      BY <1>1, <3>1 DEF Plain
    <3>3. a[p + (j + 1)] # "-"
      <4>1. CASE j = M
        <5>1. p + (j + 1) = p + M + 1
          BY <1>1, <4>1
        <5> QED BY <1>1, <5>1
      <4>2. CASE j # M
        <5>1. j + 1 \in 1 .. M
          BY <1>1, <3>1, <4>2
        <5> QED BY <1>1, <5>1 DEF Plain
      <4> QED BY <4>1, <4>2
    <3>4. f[p + j] = More({s[j]}, f[p + (j + 1)])
      BY <2>1, <2>2, <3>2, <3>3 DEF MembersAt
    <3>5. f[p + (j + 1)] = [end |-> p + M + 1, of |-> From(s, j + 1)]
      BY <1>3, <3>1
    <3>6. From(s, j) = {s[j]} \cup From(s, j + 1)
      <4>1. j .. M = {j} \cup (j + 1 .. M)
        BY <1>1, <3>1
      <4> QED BY <4>1 DEF From, M
    <3>7. f[p + (j + 1)].end = p + M + 1 /\ f[p + (j + 1)].of = From(s, j + 1)
      BY <3>5
    <3>8. f[p + j] = [end |-> p + M + 1, of |-> {s[j]} \cup From(s, j + 1)]
      BY <3>4, <3>7 DEF More
    <3>9. f[p + j] = [end |-> p + M + 1, of |-> From(s, j)]
      BY <3>6, <3>8
    <3> QED BY <3>9
  <2> QED BY <2>3, <2>4
<1>4. 1 .. M + 1 \subseteq T
  <2>1. 1 \in Nat /\ M + 1 \in Nat
    BY <1>1
  <2> HIDE DEF T
  <2> QED BY <1>3, <2>1, Downward
<1>5. 1 \in T
  BY <1>1, <1>4
<1> QED BY <1>2, <1>5 DEF M

\* The local levels read them as they stand.
LEMMA PlainLocalMembers ==
  ASSUME NEW a \in Seq(Chars), NEW p \in Nat \ {0}, NEW s \in Seq(Plain), Len(s) >= 1,
         Encloses(a, p, s)
  PROVE  LocalMembers(a, p + 1) = [end |-> p + Len(s) + 1, members |-> s]
<1> DEFINE M == Len(s)
           Rest(j) == [i \in 1 .. (M + 1) - j |-> s[(j + i) - 1]]
<1>1. /\ M \in Nat /\ M >= 1 /\ Len(a) \in Nat /\ Len(a) > p + M + 1 /\ a[p + M + 1] = "]"
      /\ \A i \in 1 .. M : a[p + i] = s[i] /\ s[i] \in Plain /\ s[i] \in Chars
  BY DEF Encloses, Plain
<1>2. PICK f \in [p + 1 .. Len(a) + 2 -> Bracket] :
        /\ LocalMembers(a, p + 1) = f[p + 1]
        /\ \A n \in p + 1 .. Len(a) + 2 : f[n] = LocalMembersAt(a, p + 1, f, n)
  <2>1. p + 1 \in 1 .. Len(a) + 2
    BY <1>1
  <2> QED BY <2>1, LocalMembersDefined DEF LocalBrackets
<1> HIDE DEF M
<1>3. ASSUME NEW j \in 1 .. M + 1 PROVE Rest(j) \in Seq(Chars) /\ Len(Rest(j)) = (M + 1) - j
  <2>1. (M + 1) - j \in Nat
    BY <1>1
  <2>2. ASSUME NEW i \in 1 .. (M + 1) - j PROVE s[(j + i) - 1] \in Chars
    <3>1. (j + i) - 1 \in 1 .. M
      BY <1>1
    <3> QED BY <1>1, <3>1
  <2> QED BY <2>1, <2>2
<1>4. ASSUME NEW j \in 1 .. M PROVE <<s[j]>> \o Rest(j + 1) = Rest(j)
  <2> DEFINE x == s[j]
             b == <<x>> \o Rest(j + 1)
             c == Rest(j)
  <2>1. /\ j + 1 \in 1 .. M + 1 /\ j \in 1 .. M + 1 /\ (M + 1) - (j + 1) = M - j /\ x \in Chars
        /\ ((M + 1) - j) = (M - j) + 1 /\ M - j \in Nat
    BY <1>1
  <2>2. Rest(j + 1) \in Seq(Chars) /\ Len(Rest(j + 1)) = M - j /\ c \in Seq(Chars)
        /\ Len(c) = (M - j) + 1
    <3> HIDE DEF Rest
    <3> QED BY <1>3, <2>1
  <2>3. <<x>> \in Seq(Chars) /\ Len(<<x>>) = 1 /\ <<x>>[1] = x
    BY <2>1
  <2>4. /\ b \in Seq(Chars) /\ Len(b) = 1 + (M - j)
        /\ \A i \in 1 .. 1 + (M - j) : b[i] = IF i <= 1 THEN <<x>>[i] ELSE Rest(j + 1)[i - 1]
    <3> HIDE DEF Rest, x
    <3> QED BY <2>2, <2>3, ConcatProperties
  <2>5. ASSUME NEW i \in 1 .. (M - j) + 1 PROVE b[i] = c[i]
    <3>1. c[i] = s[(j + i) - 1]
      BY <2>1
    <3>2. CASE i = 1
      <4>1. 1 \in 1 .. 1 + (M - j) /\ (j + 1) - 1 = j
        BY <2>1
      <4>2. b[1] = <<x>>[1]
        <5> HIDE DEF b, x, Rest
        <5> QED BY <2>4, <4>1
      <4>3. b[i] = x /\ (j + i) - 1 = j
        <5> HIDE DEF b, x
        <5> QED BY <2>3, <3>2, <4>1, <4>2
      <4> HIDE DEF b, c
      <4> QED BY <3>1, <4>3
    <3>3. CASE i # 1
      <4>1. b[i] = Rest(j + 1)[i - 1]
        <5>1. i \in 1 .. 1 + (M - j) /\ ~(i <= 1)
          BY <2>1, <3>3
        <5> HIDE DEF b, Rest
        <5> QED BY <2>4, <5>1
      <4>2. Rest(j + 1)[i - 1] = s[((j + 1) + (i - 1)) - 1]
        <5>1. i - 1 \in 1 .. (M + 1) - (j + 1)
          BY <2>1, <3>3
        <5> QED BY <5>1
      <4>3. ((j + 1) + (i - 1)) - 1 = (j + i) - 1
        BY <2>1
      <4> HIDE DEF b, c, Rest
      <4> QED BY <3>1, <4>1, <4>2, <4>3
    <3> QED BY <3>2, <3>3
  <2>6. Len(b) = Len(c) /\ \A i \in 1 .. Len(b) : b[i] = c[i]
    <3>1. 1 + (M - j) = (M - j) + 1
      BY <2>1
    <3> HIDE DEF b, c
    <3> QED BY <2>2, <2>4, <2>5, <3>1
  <2> HIDE DEF b, c
  <2>7. b = c
    BY <2>2, <2>4, <2>6, SeqEqual
  <2> QED BY <2>7 DEF b, c, x
<1>5. Rest(1) = s /\ Rest(M + 1) = <<>>
  <2>1. Rest(1) = s
    <3>1. Rest(1) \in Seq(Chars) /\ Len(Rest(1)) = M
      <4>1. 1 \in 1 .. M + 1 /\ (M + 1) - 1 = M
        BY <1>1
      <4> HIDE DEF Rest
      <4> QED BY <1>3, <4>1
    <3>2. ASSUME NEW i \in 1 .. M PROVE Rest(1)[i] = s[i]
      <4>1. (1 + i) - 1 = i /\ i \in 1 .. (M + 1) - 1
        BY <1>1
      <4> QED BY <4>1
    <3>3. s \in Seq(Chars)
      BY DEF Plain
    <3> HIDE DEF Rest
    <3> QED BY <3>1, <3>2, <3>3, SeqEqual DEF M
  <2>2. Rest(M + 1) = <<>>
    <3>1. M + 1 \in 1 .. M + 1 /\ (M + 1) - (M + 1) = 0
      BY <1>1
    <3> HIDE DEF Rest
    <3>2. Rest(M + 1) \in Seq(Chars) /\ Len(Rest(M + 1)) = 0
      BY <1>3, <3>1
    <3> QED BY <3>2, EmptySeq
  <2> QED BY <2>1, <2>2
<1> HIDE DEF Rest
<1> DEFINE T == {j \in 1 .. M + 1 : f[p + j] = [end |-> p + M + 1, members |-> Rest(j)]}
<1>6. ASSUME NEW j \in 1 .. M + 1, \A m \in j + 1 .. M + 1 : m \in T PROVE j \in T
  <2>1. p + j \in p + 1 .. Len(a) + 2 /\ ~(p + j > Len(a)) /\ (p + j) + 1 = p + (j + 1)
    BY <1>1
  <2>2. f[p + j] = LocalMembersAt(a, p + 1, f, p + j)
    BY <1>2, <2>1
  <2>3. CASE j = M + 1
    <3>1. a[p + j] = "]" /\ p + j = p + M + 1 /\ p + j > p + 1
      BY <1>1, <2>3
    <3>2. f[p + j] = [end |-> p + M + 1, members |-> <<>>]
      BY <2>1, <2>2, <3>1 DEF LocalMembersAt
    <3> QED BY <1>5, <2>3, <3>2
  <2>4. CASE j # M + 1
    <3>1. j \in 1 .. M /\ j + 1 \in j + 1 .. M + 1
      BY <1>1, <2>4
    <3>2. a[p + j] = s[j] /\ s[j] # "]" /\ s[j] # "\\"
      BY <1>1, <3>1 DEF Plain
    <3>3. f[p + j] = Longer(s[j], f[p + (j + 1)])
      BY <2>1, <2>2, <3>2 DEF LocalMembersAt
    <3>4. f[p + (j + 1)] = [end |-> p + M + 1, members |-> Rest(j + 1)]
      BY <1>6, <3>1
    <3>5. <<s[j]>> \o Rest(j + 1) = Rest(j)
      BY <1>4, <3>1
    <3>6. f[p + (j + 1)].end = p + M + 1 /\ f[p + (j + 1)].members = Rest(j + 1)
      BY <3>4
    <3>7. f[p + j] = [end |-> p + M + 1, members |-> <<s[j]>> \o Rest(j + 1)]
      BY <3>3, <3>6 DEF Longer
    <3>8. f[p + j] = [end |-> p + M + 1, members |-> Rest(j)]
      BY <3>5, <3>7
    <3> QED BY <3>8
  <2> QED BY <2>3, <2>4
<1>7. 1 .. M + 1 \subseteq T
  <2>1. 1 \in Nat /\ M + 1 \in Nat
    BY <1>1
  <2> HIDE DEF T
  <2> QED BY <1>6, <2>1, Downward
<1>8. 1 \in T
  BY <1>1, <1>7
<1> QED BY <1>2, <1>5, <1>8 DEF M

\* In the text of a class, with more behind it, the members stand behind the head.
LEMMA ClassText ==
  ASSUME NEW h \in Seq(Chars), NEW s \in Seq(Plain), h # <<>>, {"]", "*"} \subseteq Chars,
         NEW a, a = ((h \o s) \o <<"]">>) \o <<"*">>
  PROVE  /\ a \in Seq(Chars) /\ Encloses(a, Len(h), s) /\ Len(a) = Len(h) + Len(s) + 2
         /\ \A i \in 1 .. Len(h) : a[i] = h[i]
<1> DEFINE p == Len(h)
           M == Len(s)
           b == h \o s
           c == b \o <<"]">>
<1>1. p \in Nat /\ M \in Nat /\ s \in Seq(Chars)
  BY DEF Plain
<1>2. /\ b \in Seq(Chars) /\ Len(b) = p + M
      /\ \A i \in 1 .. p + M : b[i] = IF i <= p THEN h[i] ELSE s[i - p]
  BY <1>1, ConcatProperties
<1>3. /\ <<"]">> \in Seq(Chars) /\ Len(<<"]">>) = 1 /\ <<"]">>[1] = "]"
      /\ <<"*">> \in Seq(Chars) /\ Len(<<"*">>) = 1
  OBVIOUS
<1> HIDE DEF b
<1>4. /\ c \in Seq(Chars) /\ Len(c) = (p + M) + 1
      /\ \A i \in 1 .. (p + M) + 1 : c[i] = IF i <= p + M THEN b[i] ELSE <<"]">>[i - (p + M)]
  <2> DEFINE K == p + M
             bracket == <<"]">>
  <2>1. K \in Nat /\ Len(b) = K /\ bracket \in Seq(Chars) /\ Len(bracket) = 1 /\ b \in Seq(Chars)
    BY <1>1, <1>2
  <2>2. /\ c \in Seq(Chars) /\ Len(c) = K + 1
        /\ \A i \in 1 .. K + 1 : c[i] = IF i <= K THEN b[i] ELSE bracket[i - K]
    <3>1. /\ b \o bracket \in Seq(Chars) /\ Len(b \o bracket) = Len(b) + Len(bracket)
          /\ \A i \in 1 .. Len(b) + Len(bracket) :
               (b \o bracket)[i] = IF i <= Len(b) THEN b[i] ELSE bracket[i - Len(b)]
      <4> HIDE DEF K, bracket
      <4>1. b \in Seq(Chars) /\ bracket \in Seq(Chars)
        BY <2>1
      <4> QED BY ONLY <4>1, ConcatProperties
    <3>2. c = b \o bracket
      OBVIOUS
    <3> HIDE DEF c, K, bracket
    <3> QED BY <2>1, <3>1, <3>2
  <2> QED BY <2>2
<1> HIDE DEF c
<1>5. /\ a \in Seq(Chars) /\ Len(a) = ((p + M) + 1) + 1
      /\ \A i \in 1 .. ((p + M) + 1) + 1 :
           a[i] = IF i <= (p + M) + 1 THEN c[i] ELSE <<"*">>[i - ((p + M) + 1)]
  <2> DEFINE K == (p + M) + 1
             star == <<"*">>
  <2>1. a = c \o star
    BY DEF b, c
  <2>2. K \in Nat /\ Len(c) = K /\ star \in Seq(Chars) /\ Len(star) = 1
    BY <1>1, <1>3, <1>4
  <2>3. /\ a \in Seq(Chars) /\ Len(a) = K + 1
        /\ \A i \in 1 .. K + 1 : a[i] = IF i <= K THEN c[i] ELSE star[i - K]
    <3>1. /\ c \o star \in Seq(Chars) /\ Len(c \o star) = Len(c) + Len(star)
          /\ \A i \in 1 .. Len(c) + Len(star) :
               (c \o star)[i] = IF i <= Len(c) THEN c[i] ELSE star[i - Len(c)]
      <4> HIDE DEF K, star
      <4>1. c \in Seq(Chars) /\ star \in Seq(Chars)
        BY <1>4, <2>2
      <4> QED BY ONLY <4>1, ConcatProperties
    <3> HIDE DEF K, star
    <3> QED BY <2>1, <2>2, <3>1
  <2> QED BY <2>3
<1> HIDE DEF p, M
<1>6. ASSUME NEW i \in 1 .. p + M PROVE a[i] = b[i]
  BY <1>1, <1>4, <1>5
<1>7. ASSUME NEW i \in 1 .. p PROVE a[i] = h[i]
  <2>1. i \in 1 .. p + M /\ i <= p
    BY <1>1
  <2> QED BY <1>2, <1>6, <2>1
<1>8. ASSUME NEW i \in 1 .. M PROVE a[p + i] = s[i]
  <2>1. p + i \in 1 .. p + M /\ ~(p + i <= p) /\ (p + i) - p = i
    BY <1>1
  <2> QED BY <1>2, <1>6, <2>1
<1>9. a[p + M + 1] = "]"
  <2>1. /\ p + M + 1 \in 1 .. (p + M) + 1 /\ p + M + 1 \in 1 .. ((p + M) + 1) + 1
        /\ ~(p + M + 1 <= p + M) /\ (p + M + 1) - (p + M) = 1 /\ p + M + 1 <= (p + M) + 1
    BY <1>1
  <2>2. a[p + M + 1] = c[p + M + 1] /\ c[p + M + 1] = <<"]">>[1]
    BY <1>4, <1>5, <2>1
  <2> QED BY <1>3, <2>2
<1>10. Encloses(a, p, s)
  <2>1. Len(a) > p + M + 1
    BY <1>1, <1>5
  <2> QED BY <1>8, <1>9, <2>1 DEF Encloses, M
<1>11. Len(a) = p + M + 2
  BY <1>1, <1>5
<1> QED BY <1>5, <1>7, <1>10, <1>11 DEF p, M

\* Whatever its head, both levels read the members of a class of plain characters.
LEMMA ClassMembers ==
  ASSUME NEW h \in Seq(Chars), NEW s \in Seq(Plain), h # <<>>, s # <<>>, {"]", "*"} \subseteq Chars,
         NEW a, a = ((h \o s) \o <<"]">>) \o <<"*">>
  PROVE  /\ LocalMembers(a, Len(h) + 1) = [end |-> Len(a) - 1, members |-> s]
         /\ RedisMembers(a, Len(h) + 1) = [end |-> Len(a) - 1, of |-> From(s, 1)]
         /\ a[Len(h) + 1] \in Plain /\ Len(a) > Len(h)
<1> DEFINE p == Len(h)
           M == Len(s)
<1>1. p \in Nat \ {0} /\ M \in Nat /\ M >= 1
  BY EmptySeq
<1>2. a \in Seq(Chars) /\ Encloses(a, p, s) /\ Len(a) = p + M + 2
  BY ClassText
<1>3. p + M + 1 = Len(a) - 1 /\ Len(a) > p
  BY <1>1, <1>2
<1>4. LocalMembers(a, p + 1) = [end |-> p + M + 1, members |-> s]
  <2> HIDE DEF p
  <2> QED BY <1>1, <1>2, PlainLocalMembers
<1>5. RedisMembers(a, p + 1) = [end |-> p + M + 1, of |-> From(s, 1)]
  <2> HIDE DEF p
  <2> QED BY <1>1, <1>2, PlainMembers
<1>6. a[p + 1] \in Plain
  <2>1. 1 \in 1 .. M
    BY <1>1
  <2> QED BY <1>2, <2>1 DEF Encloses
<1> QED BY <1>3, <1>4, <1>5, <1>6

\* Sets of plain characters, and of all others, as both levels write them.
ClassTokens ==
  {[text |-> (<<"[">> \o s) \o <<"]">>, star |-> FALSE, of |-> From(s, 1)] : s \in Seq(Plain) \ {<<>>}}
    \cup {[text |-> (<<"[", "^">> \o s) \o <<"]">>, star |-> FALSE, of |-> Chars \ From(s, 1)] :
            s \in Seq(Plain) \ {<<>>}}

\* A class of plain characters is read as it is meant.
LEMMA ClassTokensRead ==
  ASSUME NEW t \in Token \cap ClassTokens
  PROVE  ReadAlone(t)
<1> DEFINE text == t.text \o <<"*">>
           item == [star |-> t.star, of |-> t.of]
           piece == [item |-> item, next |-> Len(t.text) + 1]
<1>1. t.text \in Seq(Chars) /\ "*" \in Chars
  BY GlobAssumption DEF Token
<1>2. Len(text) - 1 \in Nat /\ Len(text) - 1 # 0 /\ (Len(text) - 1) + 1 = Len(t.text) + 1
      /\ text[1] = t.text[1]
  <2>1. t.text # <<>>
    <3>1. \E s \in Seq(Plain) : \/ t.text = (<<"[">> \o s) \o <<"]">>
                                \/ t.text = (<<"[", "^">> \o s) \o <<"]">>
      <4>1. ASSUME NEW s \in Seq(Plain),
                   \/ t = [text |-> (<<"[">> \o s) \o <<"]">>, star |-> FALSE, of |-> From(s, 1)]
                   \/ t = [text |-> (<<"[", "^">> \o s) \o <<"]">>, star |-> FALSE,
                           of |-> Chars \ From(s, 1)]
            PROVE  \/ t.text = (<<"[">> \o s) \o <<"]">>
                   \/ t.text = (<<"[", "^">> \o s) \o <<"]">>
        BY <4>1
      <4> QED BY <4>1 DEF ClassTokens
    <3>2. ASSUME NEW s \in Seq(Plain), NEW h \in Seq({"[", "^"}), h # <<>> PROVE Len((h \o s) \o <<"]">>) > 0
      OBVIOUS
    <3>3. <<"[">> # <<>> /\ <<"[", "^">> # <<>>
      OBVIOUS
    <3>4. Len(t.text) > 0
      BY <3>1, <3>2, <3>3
    <3> QED BY <3>4
  <2>2. /\ Len(t.text) \in Nat /\ Len(t.text) > 0 /\ Len(text) = Len(t.text) + 1
        /\ text[1] = t.text[1]
    BY <1>1, <2>1, EmptySeq
  <2> QED BY <2>2
<1>3. ASSUME NEW set, t.of = set, t.star = FALSE, t.text[1] = "[",
             LocalClass(text, 1) = [end |-> Len(text) - 1, of |-> set],
             RedisClass(text, 1) = [end |-> Len(text) - 1, of |-> set]
      PROVE  ReadAlone(t)
  <2>1. piece = Char(set, (Len(text) - 1) + 1)
    BY <1>2, <1>3 DEF Char, OneOf
  <2> HIDE DEF text, piece
  <2>2. LocalPiece(text, 1) = piece
    <3>1. /\ LocalClass(text, 1).end = Len(text) - 1 /\ LocalClass(text, 1).of = set
          /\ text[1] = "["
      BY <1>2, <1>3
    <3> QED BY <1>2, <2>1, <3>1 DEF LocalPiece
  <2>3. RedisPiece(text, 1) = piece
    BY <1>2, <1>3, <2>1 DEF RedisPiece
  <2> QED BY <2>2, <2>3 DEF ReadAlone, text, piece
<1>4. ASSUME NEW h \in {<<"[">>, <<"[", "^">>}, NEW s \in Seq(Plain), s # <<>>,
             t.text = (h \o s) \o <<"]">>
      PROVE  /\ LocalMembers(text, Len(h) + 1) = [end |-> Len(text) - 1, members |-> s]
             /\ RedisMembers(text, Len(h) + 1) = [end |-> Len(text) - 1, of |-> From(s, 1)]
             /\ text[Len(h) + 1] \in Plain /\ Len(text) > Len(h)
             /\ \A i \in 1 .. Len(h) : text[i] = h[i]
             /\ t.text[1] = "["
  <2>1. /\ s \in Seq(Chars) /\ Len(h) \in {1, 2} /\ h # <<>> /\ h[1] = "["
        /\ h \in Seq({"[", "^"})
    <3>1. CASE h = <<"[">>
      BY <3>1 DEF Plain
    <3>2. CASE h = <<"[", "^">>
      BY <3>2 DEF Plain
    <3> QED BY <3>1, <3>2
  <2>2. h \in Seq(Chars) /\ "]" \in Chars
    <3> DEFINE n == Len(h)
               M == Len(s)
    <3>1. /\ Len(t.text) = (n + M) + 1 /\ t.text[(n + M) + 1] = "]"
          /\ \A i \in 1 .. n : t.text[i] = h[i]
      BY <1>4, <2>1
    <3>2. (n + M) + 1 \in 1 .. Len(t.text) /\ \A i \in 1 .. n : i \in 1 .. Len(t.text)
      BY <2>1, <3>1
    <3>3. \A i \in 1 .. Len(t.text) : t.text[i] \in Chars
      BY <1>1, ElementOfSeq
    <3>4. "]" \in Chars /\ \A i \in 1 .. n : h[i] \in Chars
      BY <3>1, <3>2, <3>3
    <3> QED BY <2>1, <3>4
  <2>3. text = ((h \o s) \o <<"]">>) \o <<"*">> /\ {"]", "*"} \subseteq Chars
    BY <1>1, <1>4, <2>2
  <2>4. t.text[1] = "["
    BY <1>4, <2>1, <2>2
  <2> HIDE DEF text
  <2>5. /\ LocalMembers(text, Len(h) + 1) = [end |-> Len(text) - 1, members |-> s]
        /\ RedisMembers(text, Len(h) + 1) = [end |-> Len(text) - 1, of |-> From(s, 1)]
        /\ text[Len(h) + 1] \in Plain /\ Len(text) > Len(h)
    BY ONLY s \in Seq(Plain), s # <<>>, <2>1, <2>2, <2>3, ClassMembers
  <2>6. \A i \in 1 .. Len(h) : text[i] = h[i]
    BY ONLY s \in Seq(Plain), s # <<>>, <2>1, <2>2, <2>3, ClassText
  <2> QED BY <2>4, <2>5, <2>6
<1>5. ASSUME NEW s \in Seq(Plain), s # <<>>,
             t = [text |-> (<<"[">> \o s) \o <<"]">>, star |-> FALSE, of |-> From(s, 1)]
      PROVE  ReadAlone(t)
  <2>1. t.text = (<<"[">> \o s) \o <<"]">> /\ t.star = FALSE /\ t.of = From(s, 1) /\ Len(<<"[">>) = 1
    BY <1>5
  <2> HIDE DEF text
  <2>2. /\ LocalMembers(text, 1 + 1) = [end |-> Len(text) - 1, members |-> s]
        /\ RedisMembers(text, 1 + 1) = [end |-> Len(text) - 1, of |-> From(s, 1)]
        /\ text[1 + 1] \in Plain /\ Len(text) > 1 /\ t.text[1] = "["
    BY <1>4, <1>5, <2>1
  <2>3. text[1 + 1] \notin {"^", "!"}
    BY <2>2 DEF Plain
  <2>4. LocalClass(text, 1) = [end |-> Len(text) - 1, of |-> From(s, 1)]
    <3>1. ~Negated(text, 1 + 1)
      BY <2>3 DEF Negated
    <3>2. RegexpClass(s) = From(s, 1)
      BY PlainRegexpClass
    <3> QED BY <2>2, <3>1, <3>2 DEF LocalClass
  <2>5. RedisClass(text, 1) = [end |-> Len(text) - 1, of |-> From(s, 1)]
    BY <2>2, <2>3 DEF RedisClass
  <2> QED BY <1>3, <2>1, <2>2, <2>4, <2>5
<1>6. ASSUME NEW s \in Seq(Plain), s # <<>>,
             t = [text |-> (<<"[", "^">> \o s) \o <<"]">>, star |-> FALSE,
                  of |-> Chars \ From(s, 1)]
      PROVE  ReadAlone(t)
  <2>1. /\ t.text = (<<"[", "^">> \o s) \o <<"]">> /\ t.star = FALSE /\ t.of = Chars \ From(s, 1)
        /\ Len(<<"[", "^">>) = 2 /\ <<"[", "^">>[2] = "^" /\ 2 \in 1 .. 2
    BY <1>6
  <2> HIDE DEF text
  <2>2. /\ LocalMembers(text, 1 + 2) = [end |-> Len(text) - 1, members |-> s]
        /\ RedisMembers(text, 1 + 2) = [end |-> Len(text) - 1, of |-> From(s, 1)]
        /\ text[1 + 1] = "^" /\ Len(text) > 2 /\ t.text[1] = "["
    <3> DEFINE h == <<"[", "^">>
    <3>1. h \in {<<"[">>, <<"[", "^">>} /\ Len(h) = 2 /\ h[2] = "^" /\ t.text = (h \o s) \o <<"]">>
      BY <2>1
    <3> HIDE DEF h
    <3>2. /\ LocalMembers(text, Len(h) + 1) = [end |-> Len(text) - 1, members |-> s]
          /\ RedisMembers(text, Len(h) + 1) = [end |-> Len(text) - 1, of |-> From(s, 1)]
          /\ text[Len(h) + 1] \in Plain /\ Len(text) > Len(h)
          /\ \A i \in 1 .. Len(h) : text[i] = h[i]
          /\ t.text[1] = "["
      BY <1>4, <1>6, <3>1
    <3>3. 2 + 1 = 1 + 2 /\ 1 + 1 = 2 /\ 2 \in 1 .. 2
      OBVIOUS
    <3> QED BY <3>1, <3>2, <3>3
  <2>3. 1 < Len(text) /\ 1 + 1 <= Len(text)
    BY <1>2, <2>2
  <2>4. LocalClass(text, 1) = [end |-> Len(text) - 1, of |-> Chars \ From(s, 1)]
    <3>1. Negated(text, 1 + 1)
      BY <2>2, <2>3 DEF Negated
    <3>2. RegexpClass(s) = From(s, 1)
      BY PlainRegexpClass
    <3> DEFINE found == LocalMembers(text, 1 + 2)
    <3>3. found.end = Len(text) - 1 /\ found.members = s
      BY <2>2
    <3>4. LocalClass(text, 1) = [end |-> found.end, of |-> Chars \ RegexpClass(found.members)]
      BY <3>1 DEF LocalClass
    <3> HIDE DEF found
    <3> QED BY <3>2, <3>3, <3>4
  <2>5. RedisClass(text, 1) = [end |-> Len(text) - 1, of |-> Chars \ From(s, 1)]
    <3> DEFINE found == RedisMembers(text, 1 + 2)
    <3>1. found = [end |-> Len(text) - 1, of |-> From(s, 1)]
      BY <2>2
    <3>2. RedisClass(text, 1) = [found EXCEPT !.of = Chars \ @]
      BY <2>2, <2>3 DEF RedisClass
    <3> HIDE DEF found
    <3> QED BY <3>1, <3>2
  <2> QED BY <1>3, <2>1, <2>2, <2>4, <2>5
<1> QED BY <1>5, <1>6 DEF ClassTokens

\* What a token means is what both levels match for it, in every glob and with every
\* key, if both read the token so where it stands alone: no token runs into the next.
THEOREM TokensKeepTheirMeaning ==
  ASSUME glob \in Seq({t \in Tokens : ReadAlone(t)})
  PROVE  LevelsMatchMeaning
<1>1. glob \in Seq({t \in Token : ReadAlone(t)}) /\ glob \in Seq(Token)
  <2>1. {t \in Tokens : ReadAlone(t)} \subseteq {t \in Token : ReadAlone(t)}
        /\ {t \in Tokens : ReadAlone(t)} \subseteq Token
    BY GlobAssumption
  <2> QED BY <2>1
<1>2. LocalItems(Text) = Meaning /\ RedisItems(Text) = Meaning
  BY <1>1, GlobReads, GlobAssumption
<1>3. ScanPattern(<<>>, Text) = Text
  <2>1. Escaped(<<>>) = <<>>
    <3>1. DOMAIN <<>> = {} /\ Len(<<>>) = 0
      OBVIOUS
    <3> QED BY <3>1 DEF Escaped, FlattenSeq
  <2>2. Text \in Seq(Chars)
    BY <1>1, TextIsText
  <2> QED BY <2>1, <2>2, ConcatEmptySeq DEF ScanPattern
<1>4. \A key \in Strings : Matches(Meaning, key) <=> Matches(glob, key)
  BY <1>1, MeaningMatches
<1> QED BY <1>2, <1>3, <1>4 DEF LevelsMatchMeaning

\* What globs without classes are made of: wildcards, characters that stand for
\* themselves, and escaped characters.
SimpleTokens ==
  {[text |-> <<"*">>, star |-> TRUE, of |-> {}], [text |-> <<"?">>, star |-> FALSE, of |-> Chars]}
    \cup {[text |-> <<c>>, star |-> FALSE, of |-> {c}] : c \in Chars \ {"*", "?", "[", "\\"}}
    \cup {[text |-> <<"\\", c>>, star |-> FALSE, of |-> {c}] : c \in Chars}

\* A simple token is read as it is meant.
LEMMA SimpleTokensRead ==
  ASSUME NEW t \in SimpleTokens
  PROVE  ReadAlone(t)
<1> DEFINE text == t.text \o <<"*">>
           item == [star |-> t.star, of |-> t.of]
           piece == [item |-> item, next |-> Len(t.text) + 1]
<1>1. CASE t = [text |-> <<"*">>, star |-> TRUE, of |-> {}]
  <2>1. text[1] = "*" /\ piece = Star(1 + 1)
    BY <1>1 DEF Star, AnyNumber
  <2> HIDE DEF text, piece
  <2>2. LocalPiece(text, 1) = piece /\ RedisPiece(text, 1) = piece
    BY <2>1 DEF LocalPiece, RedisPiece
  <2> QED BY <2>2 DEF ReadAlone, text, piece
<1>2. CASE t = [text |-> <<"?">>, star |-> FALSE, of |-> Chars]
  <2>1. text[1] = "?" /\ piece = Char(Chars, 1 + 1)
    BY <1>2 DEF Char, OneOf
  <2> HIDE DEF text, piece
  <2>2. LocalPiece(text, 1) = piece /\ RedisPiece(text, 1) = piece
    BY <2>1 DEF LocalPiece, RedisPiece
  <2> QED BY <2>2 DEF ReadAlone, text, piece
<1>3. ASSUME NEW c \in Chars \ {"*", "?", "[", "\\"},
             t = [text |-> <<c>>, star |-> FALSE, of |-> {c}]
      PROVE  ReadAlone(t)
  <2>1. text[1] = c /\ piece = Char({c}, 1 + 1)
    BY <1>3 DEF Char, OneOf
  <2> HIDE DEF text, piece
  <2>2. LocalPiece(text, 1) = piece /\ RedisPiece(text, 1) = piece
    BY <2>1 DEF LocalPiece, RedisPiece
  <2> QED BY <2>2 DEF ReadAlone, text, piece
<1>4. ASSUME NEW c \in Chars, t = [text |-> <<"\\", c>>, star |-> FALSE, of |-> {c}]
      PROVE  ReadAlone(t)
  <2>1. 1 < Len(text) /\ text[1] = "\\" /\ text[1 + 1] = c /\ piece = Char({c}, 1 + 2)
    BY <1>4 DEF Char, OneOf
  <2> HIDE DEF text, piece
  <2>2. LocalPiece(text, 1) = piece /\ RedisPiece(text, 1) = piece
    BY <2>1 DEF LocalPiece, RedisPiece
  <2> QED BY <2>2 DEF ReadAlone, text, piece
<1> QED BY <1>1, <1>2, <1>3, <1>4 DEF SimpleTokens

\* Every glob of wildcards, characters, escaped characters and classes of plain
\* characters, whatever its length and its characters, matches what it means, and the
\* same keys in every level.
THEOREM UsualGlobsMatch ==
  ASSUME glob \in Seq(Tokens \cap (SimpleTokens \cup ClassTokens))
  PROVE  LevelsMatchMeaning
<1>1. Tokens \cap (SimpleTokens \cup ClassTokens) \subseteq {t \in Tokens : ReadAlone(t)}
  <2> HIDE DEF SimpleTokens, ClassTokens
  <2> QED BY SimpleTokensRead, ClassTokensRead, GlobAssumption
<1> HIDE DEF SimpleTokens, ClassTokens
<1>2. glob \in Seq({t \in Tokens : ReadAlone(t)})
  BY <1>1
<1> QED BY <1>2, TokensKeepTheirMeaning
=============================================================================
