----------------------------- MODULE Middleware -----------------------------
(***************************************************************************)
(* gincache.Middleware: requests that read a response from a store, or run *)
(* the rest of the handler chain, coalesced per flight key by singleflight *)
(* and fenced when a leader was released by its Forget timer.              *)
(*                                                                         *)
(* A request runs its handler at most once, so the response it produces is *)
(* named by the request: store[s][k], result[r] and reply[r] say whose     *)
(* response they hold.  The version of a response is that of the origin    *)
(* data its handler saw.                                                   *)
(***************************************************************************)
EXTENDS Naturals

CONSTANTS
  Requests,      \* goroutines that serve one request each
  Stores, Keys,
  Identified,    \* the stores storeIdentity finds an address for
  Deployments,   \* how the middleware may be used, see Deployment
  NoResponse,    \* a store has no entry, a flight no result
  Legacy,        \* a stored response that today's criteria reject
  Outdated,      \* the stores that may have one from an earlier version
  Failed,        \* the request was answered by Recovery
  Own,           \* gin's own response writer
  StoreMayFail

\* cached: the strategy caches the request and it has no Range header.
\* coalesced: its middleware was made without WithDisableSingleFlight; two
\* middlewares may share their stores.  Coalesced requests are those of one
\* middleware, whose default store is one store.
Shape == [store : Stores, key : Keys, custom : BOOLEAN, noStore : BOOLEAN,
          cached : BOOLEAN, coalesced : BOOLEAN]

\* private stands for all that cacheDecision and replayable both reject.
AllKinds == {"good", "private", "tooLarge", "hijacked", "panic"}

\* shapes: what requests may be; kinds: what handlers may do; timers:
\* singleFlightForgetTimeout > 0; changes: a bound on changes of the origin data.
Deployment == [shapes : SUBSET Shape, kinds : SUBSET AllKinds, timers : BOOLEAN, changes : Nat]

ASSUME ConstantsAssumption ==
  /\ Identified \subseteq Stores
  /\ Outdated \subseteq Stores
  /\ \A d \in Deployments :
       /\ d.shapes \subseteq Shape
       /\ d.kinds \subseteq AllKinds
       /\ d.timers \in BOOLEAN
       /\ d.changes \in Nat
       /\ \A x, y \in d.shapes :
            x.coalesced /\ y.coalesced /\ ~x.custom /\ ~y.custom => x.store = y.store
  /\ {NoResponse, Legacy, Failed, Own} \cap Requests = {}
  /\ NoResponse \notin {Legacy, Failed} /\ Legacy # Failed
  /\ StoreMayFail \in BOOLEAN

VARIABLES
  deployment,  \* the one the model is in
  origin,      \* the version of the data behind the handlers
  store,       \* store[s][k]: the entry
  stale,       \* responses whose age has passed their lifetime
  pc, req,     \* each request's next step and shape
  made,        \* made[r]: the response r's handler produced; until then the origin's
               \* version when it began
  runs,        \* how often r's handler chain ran
  reply,       \* whose response r was answered with
  result,      \* what r has from the flight it led or joined
  registered,  \* the leaders whose flights are in the singleflight group
  leader,      \* the leader a waiter waits for
  timer,       \* the Forget timer of r's flight
  superseded,  \* the flag of r's flight
  writer,      \* r's c.Writer: Own, or the wrapper some request first allocated
  pool         \* writerPool

world   == <<deployment, origin, store, stale>>
flights == <<registered, timer, superseded>>
writers == <<writer, pool>>
vars == <<world, pc, req, made, runs, reply, result, flights, leader, writers>>

Responses == Requests \cup {Legacy}
NotMade == [kind |-> "good", version |-> 0]

\* The steps of a leader inside the function it gave to sfGroup.Do.
FlightSteps == {"inner", "handler", "lock", "write", "finish"}

TypeOK ==
  /\ deployment \in Deployments
  /\ origin \in Nat
  /\ store \in [Stores -> [Keys -> Responses \cup {NoResponse}]]
  /\ stale \subseteq Requests
  /\ pc \in [Requests -> FlightSteps \cup
                         {"idle", "lookup", "do", "wait", "answer", "next", "recover", "done"}]
  /\ req \in [Requests -> Shape]
  /\ made \in [Requests -> [kind : AllKinds, version : Nat]]
  /\ runs \in [Requests -> Nat]
  /\ reply \in [Requests -> Requests \cup {NoResponse, Failed}]
  /\ result \in [Requests -> Responses \cup {NoResponse}]
  /\ registered \subseteq Requests
  /\ leader \in [Requests -> Requests \cup {NoResponse}]
  /\ timer \in [Requests -> {"off", "armed", "fired", "late"}]
  /\ superseded \in [Requests -> BOOLEAN]
  /\ writer \in [Requests -> Requests \cup {Own}]
  /\ pool \subseteq Requests

Init ==
  /\ deployment \in Deployments
  /\ origin = 1
  /\ \E old \in SUBSET Outdated :
       store = [s \in Stores |-> [k \in Keys |-> IF s \in old THEN Legacy ELSE NoResponse]]
  /\ stale = {}
  /\ pc = [r \in Requests |-> "idle"]
  /\ req \in [Requests -> deployment.shapes]
  /\ made = [r \in Requests |-> NotMade]
  /\ runs = [r \in Requests |-> 0]
  /\ reply = [r \in Requests |-> NoResponse]
  /\ result = [r \in Requests |-> NoResponse]
  /\ registered = {}
  /\ leader = [r \in Requests |-> NoResponse]
  /\ timer = [r \in Requests |-> "off"]
  /\ superseded = [r \in Requests |-> FALSE]
  /\ writer = [r \in Requests |-> Own]
  /\ pool = {}

Goto(r, step) == pc' = [pc EXCEPT ![r] = step]

Entry(r) == store[req[r].store][req[r].key]

\* The store's address is left out of the key.
FlightKey_Slip(r) == <<"d", req[r].key>>

\* flightKey
FlightKey(r) ==
  CASE ~req[r].custom                                 -> <<"d", req[r].key>>
    [] req[r].custom /\ req[r].store \in Identified   -> <<"p", req[r].store, req[r].key>>
    [] req[r].custom /\ req[r].store \notin Identified -> <<"u", r, req[r].key>>

\* sfGroup.Forget
Forgotten(f) == {q \in registered : FlightKey(q) # f}

\* replayable: what today's criteria accept and what is still fresh.
Replayable(e) == e \in Requests /\ made[e].kind # "private" /\ e \notin stale

\* unshareable
Unshareable(r) == req[r].noStore \/ made[r].kind \in {"hijacked", "tooLarge"}

\* cacheDecision, and the test of noStore before it.
Cached(r, kind) == kind = "good" /\ ~req[r].noStore

-----------------------------------------------------------------------------

\* handle: a request the middleware leaves alone goes straight on.
Arrive(r) ==
  /\ pc[r] = "idle"
  /\ Goto(r, IF req[r].cached THEN "lookup" ELSE "next")
  /\ UNCHANGED <<world, req, made, runs, reply, result, flights, leader, writers>>

\* writeResponse: r is answered with e.
Serve(r, e) ==
  /\ reply' = [reply EXCEPT ![r] = e]
  /\ Goto(r, "done")

\* executeHandler puts a wrapper, pooled or new, around the writer, and c.Next
\* begins: no data it reads will be older than what there is now.
EnterHandler(r) ==
  /\ made' = [made EXCEPT ![r].version = origin]
  /\ \E w \in IF pool = {} THEN {r} ELSE pool : /\ writer' = [writer EXCEPT ![r] = w]
                                                /\ pool' = pool \ {w}
  /\ Goto(r, "handler")

\* handleWithParams looks into the store.
Lookup(r) ==
  /\ pc[r] = "lookup"
  /\ \/ Replayable(Entry(r)) /\ Serve(r, Entry(r)) /\ UNCHANGED <<made, writers>>
     \/ /\ ~Replayable(Entry(r)) \/ StoreMayFail
        /\ IF req[r].coalesced
             THEN Goto(r, "do") /\ UNCHANGED <<made, writers>>
             ELSE EnterHandler(r)
        /\ reply' = reply
  /\ UNCHANGED <<world, req, runs, result, flights, leader>>

\* sfGroup.Do finds no flight; scheduleForget arms the timer.
Lead(r) ==
  /\ pc[r] = "do"
  /\ \A q \in registered : FlightKey(q) # FlightKey(r)
  /\ registered' = registered \cup {r}
  /\ timer' = [timer EXCEPT ![r] = IF deployment.timers THEN "armed" ELSE "off"]
  /\ Goto(r, "inner")
  /\ UNCHANGED <<world, req, made, runs, reply, result, superseded, leader, writers>>

\* sfGroup.Do finds a flight.
Join(r) ==
  /\ pc[r] = "do"
  /\ \E q \in registered : /\ FlightKey(q) = FlightKey(r)
                           /\ leader' = [leader EXCEPT ![r] = q]
  /\ Goto(r, "wait")
  /\ UNCHANGED <<world, req, made, runs, reply, result, flights, writers>>

\* The leader looks into the store again.
InnerLookup(r) ==
  /\ pc[r] = "inner"
  /\ \/ /\ Replayable(Entry(r))
        /\ result' = [result EXCEPT ![r] = Entry(r)]
        /\ Goto(r, "finish")
        /\ UNCHANGED <<made, writers>>
     \/ /\ ~Replayable(Entry(r)) \/ StoreMayFail
        /\ EnterHandler(r)
        /\ result' = result
  /\ UNCHANGED <<world, req, runs, reply, flights, leader>>

\* A panic leaves c.Writer at the wrapper that goes back to the pool.
LeaveHandler_Slip(r) ==
  /\ writer' = IF made'[r].kind = "panic" THEN writer ELSE [writer EXCEPT ![r] = Own]
  /\ pool' = pool \cup {writer[r]}

\* c.Writer is restored before it is given back to the pool.
LeaveHandler_OrderSlip(r) ==
  /\ writer' = [writer EXCEPT ![r] = Own]
  /\ pool' = pool \cup {writer'[r]}

\* executeHandler's deferred function, which a panic runs too.
LeaveHandler(r) ==
  /\ writer' = [writer EXCEPT ![r] = Own]
  /\ pool' = pool \cup {writer[r]}

\* The handler chain returns or panics; what it wrote went to the client.  It
\* read the data behind it at any time since it began.
HandlerReturns(r, kind) ==
  /\ pc[r] = "handler"
  /\ \E version \in made[r].version .. origin :
       made' = [made EXCEPT ![r] = [kind |-> kind, version |-> version]]
  /\ runs' = [runs EXCEPT ![r] = @ + 1]
  /\ reply' = [reply EXCEPT ![r] = IF kind = "panic" THEN Failed ELSE r]
  /\ LeaveHandler(r)
  /\ Goto(r, CASE Cached(r, kind) /\ req[r].coalesced    -> "lock"
               [] Cached(r, kind) /\ ~req[r].coalesced   -> "write"
               [] ~Cached(r, kind) /\ req[r].coalesced   -> "finish"
               [] ~Cached(r, kind) /\ ~req[r].coalesced  -> IF kind = "panic" THEN "recover" ELSE "done")
  /\ UNCHANGED <<world, req, result, flights, leader>>

\* The lock of a flight's shard, which all flights of the model share.
Locked == \E q \in Requests : pc[q] = "write" /\ req[q].coalesced

\* The superseded flag is not looked at.
CheckFence_Slip(r) ==
  /\ pc[r] = "lock"
  /\ ~Locked
  /\ Goto(r, "write")
  /\ UNCHANGED <<world, req, made, runs, reply, result, flights, leader, writers>>

\* cacheResponseFenced takes the lock of the flight's shard and looks at the flag.
CheckFence(r) ==
  /\ pc[r] = "lock"
  /\ ~Locked
  /\ Goto(r, IF superseded[r] THEN "finish" ELSE "write")
  /\ UNCHANGED <<world, req, made, runs, reply, result, flights, leader, writers>>

\* writeCacheEntry, whose error is only logged; the lock is released.
Write(r) ==
  /\ pc[r] = "write"
  /\ \/ store' = [store EXCEPT ![req[r].store][req[r].key] = r]
     \/ StoreMayFail /\ store' = store
  /\ Goto(r, IF req[r].coalesced THEN "finish" ELSE "done")
  /\ UNCHANGED <<deployment, origin, stale, req, made, runs, reply, result, flights, leader, writers>>

\* The timer of a flight that has ended goes on.
StopTimer_Slip(r) == timer' = timer

\* stopForget
StopTimer(r) == timer' = [timer EXCEPT ![r] = IF @ = "armed" THEN "off" ELSE @]

\* A leader that ran its handler is treated like a waiter.
AfterFlight_Slip(r, q) ==
  IF runs[r] = 1 /\ made[r].kind = "panic" THEN "recover" ELSE "answer"

\* Where q goes when the flight r led has ended: singleflight panics in the
\* leader and in every waiter if the handler did, and a leader that ran its
\* handler has answered already.
AfterFlight(r, q) ==
  CASE runs[r] = 1 /\ made[r].kind = "panic"            -> "recover"
    [] runs[r] = 1 /\ made[r].kind # "panic" /\ q = r   -> "done"
    [] runs[r] = 0 \/ (made[r].kind # "panic" /\ q # r) -> "answer"

\* Whom the end of r's flight releases.
Released(r) == {r} \cup {q \in Requests : pc[q] = "wait" /\ leader[q] = r}

\* The flight ends and its waiters wake up with its result.
Finish(r) ==
  LET released == Released(r)
      shared == IF runs[r] = 0 THEN result[r]
                ELSE IF Unshareable(r) THEN NoResponse ELSE r
  IN
  /\ pc[r] = "finish"
  /\ registered' = registered \ {r}
  /\ StopTimer(r)
  /\ pc' = [q \in Requests |-> IF q \in released THEN AfterFlight(r, q) ELSE pc[q]]
  /\ result' = [q \in Requests |-> IF q \notin released THEN result[q]
                                    ELSE IF pc'[q] = "answer" THEN shared ELSE NoResponse]
  /\ leader' = [q \in Requests |-> IF q \in released THEN NoResponse ELSE leader[q]]
  /\ superseded' = [superseded EXCEPT ![r] = FALSE]
  /\ UNCHANGED <<world, req, made, runs, reply, writers>>

\* Replayed if today's criteria allow it, and else the handler chain.
Answer(r) ==
  /\ pc[r] = "answer"
  /\ IF Replayable(result[r])
       THEN Serve(r, result[r])
       ELSE Goto(r, "next") /\ reply' = reply
  /\ result' = [result EXCEPT ![r] = NoResponse]
  /\ UNCHANGED <<world, req, made, runs, flights, leader, writers>>

\* c.Next(): the handler chain without wrapper and without caching; it may
\* panic, which nothing here stops.
HandlerNext(r) ==
  /\ pc[r] = "next"
  /\ runs' = [runs EXCEPT ![r] = @ + 1]
  /\ \/ Serve(r, r) /\ made' = made
     \/ /\ "panic" \in deployment.kinds
        /\ made' = [made EXCEPT ![r] = [kind |-> "panic", version |-> origin]]
        /\ Goto(r, "recover")
        /\ reply' = reply
  /\ UNCHANGED <<world, req, result, flights, leader, writers>>

\* gin's Recovery answers with c.Writer.
Recover(r) ==
  /\ pc[r] = "recover"
  /\ reply' = [reply EXCEPT ![r] = Failed]
  /\ Goto(r, "done")
  /\ UNCHANGED <<world, req, made, runs, result, flights, leader, writers>>

\* The Forget timer of a flight marks it, and its goroutine calls Forget at
\* once or is preempted before it does.
TimerFires(r) ==
  /\ timer[r] = "armed"
  /\ superseded' = [superseded EXCEPT ![r] = TRUE]
  /\ \/ /\ timer' = [timer EXCEPT ![r] = "off"]
        /\ registered' = Forgotten(FlightKey(r))
     \/ /\ timer' = [timer EXCEPT ![r] = "fired"]
        /\ registered' = registered
  /\ UNCHANGED <<world, pc, req, made, runs, reply, result, leader, writers>>

\* It calls Forget, however late, for whatever flight the key has by then.
TimerForgets(r) ==
  /\ timer[r] = "fired"
  /\ timer' = [timer EXCEPT ![r] = "late"]
  /\ registered' = Forgotten(FlightKey(r))
  /\ UNCHANGED <<world, pc, req, made, runs, reply, result, superseded, leader, writers>>

\* The data behind the handlers changes.
OriginChanges ==
  /\ origin <= deployment.changes
  /\ origin' = origin + 1
  /\ UNCHANGED <<deployment, store, stale, pc, req, made, runs, reply, result, flights, leader, writers>>

\* A response somebody holds gets older than the lifetime it declared.
GoesStale(r) ==
  /\ \/ \E s \in Stores, k \in Keys : store[s][k] = r
     \/ \E q \in Requests : result[q] = r
  /\ r \notin stale
  /\ stale' = stale \cup {r}
  /\ UNCHANGED <<deployment, origin, store, pc, req, made, runs, reply, result, flights, leader, writers>>

\* An entry expires, is evicted or is deleted.
EntryGoes(s, k) ==
  /\ store[s][k] # NoResponse
  /\ store' = [store EXCEPT ![s][k] = NoResponse]
  /\ UNCHANGED <<deployment, origin, stale, pc, req, made, runs, reply, result, flights, leader, writers>>

\* Every request was answered; anything else without a next step is a deadlock.
Terminated ==
  /\ \A r \in Requests : pc[r] = "done"
  /\ UNCHANGED vars

Step(r) ==
  \/ Lookup(r) \/ Lead(r) \/ Join(r) \/ InnerLookup(r)
  \/ \E kind \in deployment.kinds : HandlerReturns(r, kind)
  \/ CheckFence(r) \/ Write(r) \/ Finish(r) \/ Answer(r) \/ HandlerNext(r) \/ Recover(r)

Next ==
  \/ \E r \in Requests : Arrive(r) \/ Step(r) \/ TimerFires(r) \/ TimerForgets(r) \/ GoesStale(r)
  \/ OriginChanges
  \/ Terminated
  \/ \E s \in Stores, k \in Keys : EntryGoes(s, k)

Spec == Init /\ [][Next]_vars

-----------------------------------------------------------------------------
(* Properties *)

\* No request runs its handler chain twice, and none that was answered with
\* another request's response, or for which another's panic was raised, runs
\* it at all: c.Next() is the fallback of every path but is taken at most once.
AnsweredOnce ==
  \A r \in Requests :
    /\ runs[r] <= 1
    /\ pc[r] = "done" /\ reply[r] # r => runs[r] = 0 \/ made[r].kind = "panic"

\* A response is handed to another request, through the store or the flight,
\* only if it is complete and may be cached, its own request did not declare
\* no-store, and both requests use the same store and key.
SharedSafely ==
  \A r \in Requests :
    reply[r] \in Requests \ {r} =>
      LET e == reply[r] IN
      /\ made[e].kind = "good"
      /\ ~req[e].noStore
      /\ req[e].store = req[r].store /\ req[e].key = req[r].key

\* No wrapper is the writer of two requests, or of one and free for others.
NoSharedWriter ==
  \A r \in Requests :
    writer[r] # Own => /\ writer[r] \notin pool
                       /\ \A q \in Requests \ {r} : writer[q] # writer[r]

Leading(r) == pc[r] \in FlightSteps /\ req[r].coalesced

\* Whoever waits waits for a flight that is still under way, whatever timers have
\* forgotten and whatever its handler does: nobody misses the end of the flight
\* it joined, be it a result, nothing or a panic.
WaitersHaveLeader ==
  \A r \in Requests : pc[r] = "wait" => leader[r] \in Requests /\ Leading(leader[r])

\* No timer's goroutine was preempted between marking its flight and Forget.
NobodyLate == \A r \in Requests : timer[r] # "late"

\* Two goroutines produce the response of one flight key only after a timer
\* has released the first: no timer releases a later flight, unless its
\* goroutine was late with Forget.
OneLeader ==
  NobodyLate =>
    \A r, q \in Requests :
      r # q /\ Leading(r) /\ Leading(q) /\ FlightKey(r) = FlightKey(q)
        => superseded[r] \/ superseded[q]

\* An entry is not replaced by a response made from older data: what the
\* comment of cacheResponseFenced says its lock and flag guarantee, and they do
\* unless a timer's goroutine was late with Forget.
NewerEntryStays ==
  [][\A s \in Stores, k \in Keys :
       NobodyLate /\ store[s][k] \in Requests /\ store'[s][k] \in Requests
         => made'[store'[s][k]].version >= made[store[s][k]].version]_vars
=============================================================================
