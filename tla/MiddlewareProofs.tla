-------------------------- MODULE MiddlewareProofs --------------------------
(***************************************************************************)
(* Theorems about Middleware, for any number of requests, stores and keys  *)
(* and every way to use the middleware.                                    *)
(***************************************************************************)
EXTENDS Middleware, TLAPS

Steps == FlightSteps \cup {"idle", "lookup", "do", "wait", "answer", "next", "recover", "done"}

\* The steps of a request whose handler chain has not run.
Unanswered == {"idle", "lookup", "do", "wait", "inner", "handler", "answer", "next"}

\* r ran its handler chain, which answered it unless it panicked.
Answered(r) == runs[r] = 1 /\ (reply[r] = r \/ made[r].kind = "panic")

\* What a request may hold at each of its steps.
Legal(r) ==
  /\ req[r] \in deployment.shapes
  /\ runs[r] \in {0, 1}
  /\ pc[r] \in Unanswered => runs[r] = 0
  /\ pc[r] \in {"lock", "write"} => /\ Answered(r) /\ made[r].kind = "good"
                                    /\ ~req[r].noStore
  /\ pc[r] \in {"finish", "done"} => runs[r] = 0 \/ Answered(r)
  /\ pc[r] = "recover" => runs[r] = 0 \/ made[r].kind = "panic"
  /\ pc[r] \in {"do", "wait", "inner", "lock", "finish"} => req[r].coalesced
  /\ pc[r] = "handler" => writer[r] # Own

TypeInv == TypeOK /\ \A r \in Requests : Legal(r)

LEMMA InitType == Init => TypeInv
<1> SUFFICES ASSUME Init PROVE TypeInv
  OBVIOUS
<1>1. deployment.shapes \subseteq Shape
  BY ConstantsAssumption DEF Init
<1>2. TypeOK
  <2>1. store \in [Stores -> [Keys -> Responses \cup {NoResponse}]]
    BY DEF Init, Responses
  <2>2. req \in [Requests -> Shape]
    BY <1>1 DEF Init
  <2>3. made \in [Requests -> [kind : AllKinds, version : Nat]]
    BY DEF Init, NotMade, AllKinds
  <2> QED BY <2>1, <2>2, <2>3 DEF Init, TypeOK, FlightSteps
<1>3. ASSUME NEW r \in Requests PROVE Legal(r)
  BY DEF Init, Legal
<1> QED BY <1>2, <1>3 DEF TypeInv

\* What stays as it is for the requests beside r.
Beside(r) ==
  /\ \A q \in Requests \ {r} : UNCHANGED <<pc[q], made[q], runs[q], reply[q], writer[q]>>
  /\ UNCHANGED <<deployment, req>>

LEMMA BesideLegal ==
  ASSUME TypeInv, NEW r \in Requests, Beside(r), Legal(r)'
  PROVE  \A q \in Requests : Legal(q)'
<1>1. ASSUME NEW q \in Requests \ {r} PROVE Legal(q)'
  BY DEF TypeInv, Legal, Beside, Answered
<1> QED BY <1>1

\* What Entry returns.
LEMMA EntryType ==
  ASSUME TypeInv, NEW r \in Requests
  PROVE  /\ req[r].store \in Stores /\ req[r].key \in Keys
         /\ Entry(r) \in Responses \cup {NoResponse}
  BY DEF TypeInv, TypeOK, Shape, Entry

\* A step by r alone that keeps to its steps.
LEMMA ArriveType ==
  ASSUME TypeInv, NEW r \in Requests, Arrive(r)
  PROVE  TypeInv'
<1>1. TypeOK'
  BY DEF TypeInv, TypeOK, Arrive, Goto, world, flights, writers
<1>2. Beside(r)
  BY DEF TypeInv, TypeOK, Beside, Arrive, Goto, world, writers
<1>3. Legal(r)'
  BY DEF TypeInv, TypeOK, Legal, Answered, Arrive, Goto, Unanswered, world, writers
<1> QED BY <1>1, <1>2, <1>3, BesideLegal DEF TypeInv

LEMMA EnterType ==
  ASSUME TypeInv, NEW r \in Requests, EnterHandler(r)
  PROVE  /\ writer' \in [Requests -> Requests \cup {Own}] /\ pool' \subseteq Requests
         /\ writer'[r] # Own /\ \A q \in Requests \ {r} : writer'[q] = writer[q]
         /\ pc' = [pc EXCEPT ![r] = "handler"]
         /\ made' \in [Requests -> [kind : AllKinds, version : Nat]]
         /\ made'[r].version = origin /\ \A q \in Requests \ {r} : made'[q] = made[q]
<1>1. pool \subseteq Requests /\ writer \in [Requests -> Requests \cup {Own}]
  BY DEF TypeInv, TypeOK
<1>2. PICK w \in IF pool = {} THEN {r} ELSE pool : /\ writer' = [writer EXCEPT ![r] = w]
                                                   /\ pool' = pool \ {w}
  BY DEF EnterHandler
<1>3. w \in Requests /\ w # Own
  BY <1>1, ConstantsAssumption
<1>4. /\ made \in [Requests -> [kind : AllKinds, version : Nat]] /\ origin \in Nat
      /\ made' = [made EXCEPT ![r].version = origin]
  BY DEF TypeInv, TypeOK, EnterHandler
<1>5. /\ made' \in [Requests -> [kind : AllKinds, version : Nat]]
      /\ made'[r].version = origin /\ \A q \in Requests \ {r} : made'[q] = made[q]
  BY ONLY <1>4, r \in Requests
<1> QED BY <1>1, <1>2, <1>3, <1>5 DEF EnterHandler, Goto

LEMMA LookupType ==
  ASSUME TypeInv, NEW r \in Requests, Lookup(r)
  PROVE  TypeInv'
<1>1. /\ pc[r] = "lookup" /\ UNCHANGED <<world, req, runs, result, flights, leader>>
  BY DEF Lookup
<1>2. CASE Replayable(Entry(r)) /\ Serve(r, Entry(r)) /\ UNCHANGED <<made, writers>>
  <2>1. TypeOK'
    BY <1>1, <1>2 DEF TypeInv, TypeOK, Serve, Goto, Replayable, world, flights, writers
  <2>2. Beside(r) /\ Legal(r)'
    BY <1>1, <1>2 DEF TypeInv, TypeOK, Legal, Beside, Answered, Unanswered, Serve, Goto, world, writers
  <2> QED BY <2>1, <2>2, BesideLegal DEF TypeInv
<1>3. CASE req[r].coalesced /\ Goto(r, "do") /\ UNCHANGED <<made, writers>> /\ reply' = reply
  <2>1. TypeOK'
    BY <1>1, <1>3 DEF TypeInv, TypeOK, Goto, world, flights, writers
  <2>2. Beside(r) /\ Legal(r)'
    BY <1>1, <1>3 DEF TypeInv, TypeOK, Legal, Beside, Answered, Unanswered, Goto, world, writers
  <2> QED BY <2>1, <2>2, BesideLegal DEF TypeInv
<1>4. CASE EnterHandler(r) /\ reply' = reply
  <2>1. TypeOK'
    BY <1>1, <1>4, EnterType DEF TypeInv, TypeOK, FlightSteps, world, flights
  <2>2. Beside(r) /\ Legal(r)'
    BY <1>1, <1>4, EnterType DEF TypeInv, TypeOK, Legal, Beside, Answered, Unanswered, world
  <2> QED BY <2>1, <2>2, BesideLegal DEF TypeInv
<1> QED BY <1>2, <1>3, <1>4 DEF Lookup

LEMMA FlightType ==
  ASSUME TypeInv, NEW r \in Requests, Lead(r) \/ Join(r)
  PROVE  TypeInv'
<1>1. CASE Lead(r)
  <2>1. TypeOK'
    BY <1>1 DEF TypeInv, TypeOK, Lead, Goto, FlightSteps, world, writers
  <2>2. Beside(r) /\ Legal(r)'
    BY <1>1 DEF TypeInv, TypeOK, Legal, Beside, Answered, Unanswered, Lead, Goto, world, writers
  <2> QED BY <2>1, <2>2, BesideLegal DEF TypeInv
<1>2. CASE Join(r)
  <2>1. TypeOK'
    BY <1>2 DEF TypeInv, TypeOK, Join, Goto, world, flights, writers
  <2>2. Beside(r) /\ Legal(r)'
    BY <1>2 DEF TypeInv, TypeOK, Legal, Beside, Answered, Unanswered, Join, Goto, world, writers
  <2> QED BY <2>1, <2>2, BesideLegal DEF TypeInv
<1> QED BY <1>1, <1>2

LEMMA InnerLookupType ==
  ASSUME TypeInv, NEW r \in Requests, InnerLookup(r)
  PROVE  TypeInv'
<1>1. pc[r] = "inner" /\ UNCHANGED <<world, req, runs, reply, flights, leader>>
  BY DEF InnerLookup
<1>2. CASE /\ result' = [result EXCEPT ![r] = Entry(r)] /\ Goto(r, "finish")
           /\ UNCHANGED <<made, writers>>
  <2>1. TypeOK'
    BY <1>1, <1>2, EntryType DEF TypeInv, TypeOK, Goto, FlightSteps, world, flights, writers
  <2>2. Beside(r) /\ Legal(r)'
    BY <1>1, <1>2 DEF TypeInv, TypeOK, Legal, Beside, Answered, Unanswered, Goto, world, writers
  <2> QED BY <2>1, <2>2, BesideLegal DEF TypeInv
<1>3. CASE EnterHandler(r) /\ result' = result
  <2>1. TypeOK'
    BY <1>1, <1>3, EnterType DEF TypeInv, TypeOK, FlightSteps, world, flights
  <2>2. Beside(r) /\ Legal(r)'
    BY <1>1, <1>3, EnterType DEF TypeInv, TypeOK, Legal, Beside, Answered, Unanswered, world
  <2> QED BY <2>1, <2>2, BesideLegal DEF TypeInv
<1> QED BY <1>2, <1>3 DEF InnerLookup

LEMMA HandlerType ==
  ASSUME TypeInv, NEW r \in Requests, NEW kind \in deployment.kinds, HandlerReturns(r, kind)
  PROVE  TypeInv'
<1>1. kind \in AllKinds /\ writer[r] \in Requests /\ pc[r] = "handler"
  BY ConstantsAssumption DEF TypeInv, TypeOK, Legal, HandlerReturns
<1>2. PICK step \in {"lock", "write", "finish", "recover", "done"} : Goto(r, step)
  BY DEF HandlerReturns
<1>3. /\ (step \in {"lock", "write"} => Cached(r, kind)) /\ (step \in {"lock", "finish"} => req[r].coalesced)
      /\ (step = "recover" => kind = "panic")
  <2>1. pc'[r] = step
    BY <1>2 DEF TypeInv, TypeOK, Goto
  <2>2. pc'[r] = CASE Cached(r, kind) /\ req[r].coalesced    -> "lock"
               [] Cached(r, kind) /\ ~req[r].coalesced   -> "write"
               [] ~Cached(r, kind) /\ req[r].coalesced   -> "finish"
               [] ~Cached(r, kind) /\ ~req[r].coalesced  -> IF kind = "panic" THEN "recover" ELSE "done"
    BY DEF TypeInv, TypeOK, Goto, HandlerReturns
  <2>3. req[r].coalesced \in BOOLEAN /\ Cached(r, kind) \in BOOLEAN
    BY DEF TypeInv, TypeOK, Shape, Cached
  <2> QED BY <2>1, <2>2, <2>3
<1>m. PICK version \in made[r].version .. origin :
        made' = [made EXCEPT ![r] = [kind |-> kind, version |-> version]]
  BY DEF HandlerReturns
<1>n. version \in Nat
  BY DEF TypeInv, TypeOK
<1>4. /\ made'[r].kind = kind /\ runs'[r] = 1 /\ reply'[r] = (IF kind = "panic" THEN Failed ELSE r)
      /\ writer'[r] = Own /\ pc'[r] = step
  BY <1>1, <1>2, <1>m DEF TypeInv, TypeOK, Legal, Unanswered, HandlerReturns, LeaveHandler, Goto
<1>5. TypeOK'
  BY <1>1, <1>2, <1>m, <1>n DEF TypeInv, TypeOK, HandlerReturns, LeaveHandler, Goto, FlightSteps, world, flights
<1>6. Beside(r)
  BY <1>2, <1>m DEF TypeInv, TypeOK, Beside, HandlerReturns, LeaveHandler, Goto, world
<1>7. Legal(r)'
  BY <1>3, <1>4, <1>6 DEF TypeInv, Legal, Answered, Unanswered, Cached, Beside
<1> QED BY <1>5, <1>6, <1>7, BesideLegal DEF TypeInv

LEMMA WriteType ==
  ASSUME TypeInv, NEW r \in Requests, CheckFence(r) \/ Write(r)
  PROVE  TypeInv'
<1>1. CASE CheckFence(r)
  <2>1. TypeOK'
    BY <1>1 DEF TypeInv, TypeOK, CheckFence, Goto, FlightSteps, world, flights, writers
  <2>2. Beside(r) /\ Legal(r)'
    BY <1>1 DEF TypeInv, TypeOK, Legal, Beside, Answered, Unanswered, CheckFence, Goto, world, writers
  <2> QED BY <2>1, <2>2, BesideLegal DEF TypeInv
<1>2. CASE Write(r)
  <2>1. store' \in [Stores -> [Keys -> Responses \cup {NoResponse}]]
    <3>1. /\ store \in [Stores -> [Keys -> Responses \cup {NoResponse}]] /\ r \in Responses
          /\ req[r].store \in Stores /\ req[r].key \in Keys
      BY EntryType DEF TypeInv, TypeOK, Responses
    <3>2. store' = store \/ store' = [store EXCEPT ![req[r].store][req[r].key] = r]
      BY <1>2 DEF Write
    <3> QED BY ONLY <3>1, <3>2
  <2>2. TypeOK'
    BY <1>2, <2>1 DEF TypeInv, TypeOK, Write, Goto, FlightSteps, flights, writers
  <2>3. Beside(r) /\ Legal(r)'
    BY <1>2 DEF TypeInv, TypeOK, Legal, Beside, Answered, Unanswered, Write, Goto, writers
  <2> QED BY <2>2, <2>3, BesideLegal DEF TypeInv
<1> QED BY <1>1, <1>2

\* Where the end of r's flight leaves those it releases.
LEMMA FinishSteps ==
  ASSUME TypeInv, NEW r \in Requests, Finish(r)
  PROVE  /\ pc[r] = "finish" /\ r \in Released(r)
         /\ \A q \in Released(r) : /\ pc'[q] = AfterFlight(r, q) /\ leader'[q] = NoResponse
                                   /\ pc'[q] \in {"recover", "done", "answer"}
                                   /\ pc'[q] = "recover" => made[r].kind = "panic"
                                   /\ pc'[q] = "done" => q = r /\ Answered(r)
                                   /\ pc'[q] = "answer" => /\ q # r \/ runs[r] = 0
                                                           /\ runs[r] = 0 \/ made[r].kind # "panic"
         /\ \A q \in Requests \ Released(r) :
              UNCHANGED <<pc[q], result[q], leader[q]>>
<1>1. pc[r] = "finish" /\ r \in Released(r) /\ runs[r] \in {0, 1} /\ (runs[r] = 0 \/ Answered(r))
  BY DEF TypeInv, Legal, Finish, Released
<1>2. ASSUME NEW q \in Released(r)
      PROVE  /\ pc'[q] = AfterFlight(r, q) /\ leader'[q] = NoResponse
             /\ pc'[q] \in {"recover", "done", "answer"}
             /\ pc'[q] = "recover" => made[r].kind = "panic"
             /\ pc'[q] = "done" => q = r /\ Answered(r)
             /\ pc'[q] = "answer" => /\ q # r \/ runs[r] = 0
                                     /\ runs[r] = 0 \/ made[r].kind # "panic"
  <2>1. q \in Requests
    BY DEF Released
  <2>2. pc'[q] = AfterFlight(r, q) /\ leader'[q] = NoResponse
    BY <2>1 DEF Finish
  <2>3. AfterFlight(r, q) \in {"recover", "done", "answer"}
    BY <1>1 DEF AfterFlight
  <2>4. AfterFlight(r, q) = "recover" => made[r].kind = "panic"
    BY <1>1 DEF AfterFlight
  <2>5. AfterFlight(r, q) = "done" => q = r /\ Answered(r)
    BY <1>1 DEF AfterFlight
  <2>6. AfterFlight(r, q) = "answer" => /\ q # r \/ runs[r] = 0
                                        /\ runs[r] = 0 \/ made[r].kind # "panic"
    BY <1>1 DEF AfterFlight
  <2> QED BY <2>2, <2>3, <2>4, <2>5, <2>6
<1>3. ASSUME NEW q \in Requests \ Released(r) PROVE UNCHANGED <<pc[q], result[q], leader[q]>>
  BY DEF Finish
<1> QED BY <1>1, <1>2, <1>3

\* What the end of r's flight gives to those it releases.
LEMMA FinishResults ==
  ASSUME TypeInv, NEW r \in Requests, Finish(r), NEW q \in Released(r)
  PROVE  \/ result'[q] = NoResponse
         \/ pc'[q] = "answer" /\ runs[r] = 0 /\ result'[q] = result[r]
         \/ pc'[q] = "answer" /\ runs[r] = 1 /\ ~Unshareable(r) /\ result'[q] = r
<1>1. runs[r] \in {0, 1} /\ q \in Requests
  BY DEF TypeInv, Legal, Released
<1> QED BY <1>1 DEF Finish

LEMMA FinishType ==
  ASSUME TypeInv, NEW r \in Requests, Finish(r)
  PROVE  TypeInv'
<1>1. UNCHANGED <<world, req, made, runs, reply, writers>>
  BY DEF Finish
<1>2. pc' \in [Requests -> Steps]
  <2>1. pc' = [q \in Requests |-> pc'[q]]
    BY DEF Finish
  <2>2. ASSUME NEW q \in Requests PROVE pc'[q] \in Steps
    BY FinishSteps DEF TypeInv, TypeOK, Steps
  <2> QED BY <2>1, <2>2
<1>3. result' \in [Requests -> Responses \cup {NoResponse}]
  <2>1. result' = [q \in Requests |-> result'[q]]
    BY DEF Finish
  <2>2. ASSUME NEW q \in Requests PROVE result'[q] \in Responses \cup {NoResponse}
    BY FinishSteps, FinishResults DEF TypeInv, TypeOK, Responses
  <2> QED BY <2>1, <2>2
<1>4. leader' \in [Requests -> Requests \cup {NoResponse}]
  BY DEF TypeInv, TypeOK, Finish
<1>5. /\ timer' \in [Requests -> {"off", "armed", "fired", "late"}]
      /\ superseded' \in [Requests -> BOOLEAN] /\ registered' \subseteq Requests
  BY DEF TypeInv, TypeOK, Finish, StopTimer
<1>6. TypeOK'
  BY <1>1, <1>2, <1>3, <1>4, <1>5 DEF TypeInv, TypeOK, Steps, world, writers
<1>7. ASSUME NEW q \in Requests PROVE Legal(q)'
  <2>1. CASE q \in Released(r)
    <3>1. runs[q] = 0 \/ q = r
      BY <2>1 DEF Released, TypeInv, Legal, Unanswered
    <3>2. /\ pc'[q] \in {"recover", "done", "answer"}
          /\ pc'[q] = "recover" => made[r].kind = "panic"
          /\ pc'[q] = "done" => q = r /\ Answered(r)
          /\ pc'[q] = "answer" => q # r \/ runs[r] = 0
      BY <2>1, FinishSteps
    <3> QED BY <1>1, <3>1, <3>2 DEF TypeInv, Legal, Answered, Unanswered, world, writers
  <2>2. CASE q \notin Released(r)
    BY <1>1, <2>2, FinishSteps DEF TypeInv, Legal, Answered, Unanswered, world, writers
  <2> QED BY <2>1, <2>2
<1> QED BY <1>6, <1>7 DEF TypeInv

LEMMA AnswerType ==
  ASSUME TypeInv, NEW r \in Requests, Answer(r) \/ HandlerNext(r) \/ Recover(r)
  PROVE  TypeInv'
<1>1. CASE Answer(r)
  <2>1. TypeOK'
    BY <1>1 DEF TypeInv, TypeOK, Answer, Serve, Replayable, Goto, world, flights, writers
  <2>2. Beside(r) /\ Legal(r)'
    BY <1>1 DEF TypeInv, TypeOK, Legal, Beside, Answered, Unanswered, Answer, Serve, Goto, world, writers
  <2> QED BY <2>1, <2>2, BesideLegal DEF TypeInv
<1>2. CASE HandlerNext(r)
  <2>0. pc[r] = "next" /\ runs[r] = 0 /\ UNCHANGED <<world, req, result, flights, leader, writers>>
        /\ runs' = [runs EXCEPT ![r] = runs[r] + 1]
    BY <1>2 DEF HandlerNext, TypeInv, Legal, Unanswered
  <2>1. CASE Serve(r, r) /\ made' = made
    <3>1. TypeOK'
      BY <2>0, <2>1 DEF TypeInv, TypeOK, Serve, Goto, world, flights, writers
    <3>2. Beside(r) /\ Legal(r)'
      BY <2>0, <2>1 DEF TypeInv, TypeOK, Legal, Beside, Answered, Unanswered, Serve, Goto, world, writers
    <3> QED BY <3>1, <3>2, BesideLegal DEF TypeInv
  <2>2. CASE /\ made' = [made EXCEPT ![r] = [kind |-> "panic", version |-> origin]]
             /\ Goto(r, "recover") /\ reply' = reply
    <3>1. made' \in [Requests -> [kind : AllKinds, version : Nat]] /\ made'[r].kind = "panic"
      BY <2>2 DEF TypeInv, TypeOK, AllKinds
    <3>2. TypeOK'
      BY <2>0, <2>2, <3>1 DEF TypeInv, TypeOK, Goto, world, flights, writers
    <3>3. Beside(r)
      BY <2>0, <2>2 DEF TypeInv, TypeOK, Beside, Goto, world, writers
    <3>4. Legal(r)'
      BY <2>0, <2>2, <3>1 DEF TypeInv, TypeOK, Legal, Answered, Unanswered, Goto, world, writers
    <3> QED BY <3>2, <3>3, <3>4, BesideLegal DEF TypeInv
  <2> QED BY <1>2, <2>1, <2>2 DEF HandlerNext
<1>3. CASE Recover(r)
  <2>1. TypeOK'
    BY <1>3 DEF TypeInv, TypeOK, Recover, Goto, world, flights, writers
  <2>2. Beside(r) /\ Legal(r)'
    BY <1>3 DEF TypeInv, TypeOK, Legal, Beside, Answered, Unanswered, Recover, Goto, world, writers
  <2> QED BY <2>1, <2>2, BesideLegal DEF TypeInv
<1> QED BY <1>1, <1>2, <1>3

\* Timers, clocks and stores touch nothing a request holds.
LEMMA WorldType ==
  ASSUME TypeInv,
         \/ \E r \in Requests : TimerFires(r) \/ TimerForgets(r) \/ GoesStale(r)
         \/ OriginChanges
         \/ \E s \in Stores, k \in Keys : EntryGoes(s, k)
         \/ UNCHANGED vars
  PROVE  TypeInv'
<1>1. UNCHANGED <<deployment, pc, req, made, runs, reply, result, leader, writer, pool>>
  BY DEF TimerFires, TimerForgets, GoesStale, OriginChanges, EntryGoes, vars, world, writers
<1>2. /\ timer' \in [Requests -> {"off", "armed", "fired", "late"}]
      /\ superseded' \in [Requests -> BOOLEAN] /\ registered' \subseteq Requests
  BY DEF TypeInv, TypeOK, TimerFires, TimerForgets, GoesStale, OriginChanges, EntryGoes, vars,
     world, flights, Forgotten
<1>3. store' \in [Stores -> [Keys -> Responses \cup {NoResponse}]]
  <2>1. CASE \E s \in Stores, k \in Keys : EntryGoes(s, k)
    <3>1. PICK s \in Stores, k \in Keys : EntryGoes(s, k)
      BY <2>1
    <3>2. /\ store \in [Stores -> [Keys -> Responses \cup {NoResponse}]]
          /\ store' = [store EXCEPT ![s][k] = NoResponse]
      BY <3>1 DEF TypeInv, TypeOK, EntryGoes
    <3> QED BY ONLY <3>2
  <2>2. CASE store' = store
    BY <2>2 DEF TypeInv, TypeOK
  <2> QED BY <2>1, <2>2 DEF TimerFires, TimerForgets, GoesStale, OriginChanges, vars, world
<1>4. stale' \subseteq Requests /\ origin' \in Nat
  BY DEF TypeInv, TypeOK, TimerFires, TimerForgets, GoesStale, OriginChanges, EntryGoes, vars, world
<1>5. TypeOK'
  BY <1>1, <1>2, <1>3, <1>4 DEF TypeInv, TypeOK
<1>6. ASSUME NEW q \in Requests PROVE Legal(q)'
  BY <1>1 DEF TypeInv, Legal, Answered, Unanswered
<1> QED BY <1>5, <1>6 DEF TypeInv

LEMMA TypeInvariant == Spec => []TypeInv
<1>1. TypeInv /\ [Next]_vars => TypeInv'
  <2> SUFFICES ASSUME TypeInv, [Next]_vars PROVE TypeInv'
    OBVIOUS
  <2>1. ASSUME NEW r \in Requests, Arrive(r) \/ Step(r) PROVE TypeInv'
    BY <2>1, ArriveType, LookupType, FlightType, InnerLookupType, HandlerType, WriteType,
       FinishType, AnswerType DEF Step
  <2> QED BY <2>1, WorldType DEF Next, Terminated
<1> QED BY <1>1, InitType, PTL DEF Spec

\* Every reachable state is well typed, whatever the requests, the stores and
\* the ways to use the middleware: no wrapper that is gin's own writer gets
\* into the pool, and no waiter is given what is no response.
THEOREM TypeCorrect == Spec => []TypeOK
<1>1. TypeInv => TypeOK
  BY DEF TypeInv
<1> QED BY <1>1, TypeInvariant, PTL

\* Whatever flights, panics, stale entries and failing stores do, no request
\* runs its handler chain twice, and one answered by others never runs it.
THEOREM HandlersRunOnce == Spec => []AnsweredOnce
<1>1. TypeInv => AnsweredOnce
  <2> SUFFICES ASSUME TypeInv, NEW r \in Requests
               PROVE  /\ runs[r] <= 1
                      /\ pc[r] = "done" /\ reply[r] # r => runs[r] = 0 \/ made[r].kind = "panic"
    BY DEF AnsweredOnce
  <2>1. Legal(r)
    BY DEF TypeInv
  <2> QED BY <2>1 DEF Legal, Answered
<1> QED BY <1>1, TypeInvariant, PTL

-----------------------------------------------------------------------------
(* Who leads and who waits.  Beside the steps named here no step touches the *)
(* group, the timers, or who leads and who waits.                            *)

Early == {"idle", "lookup", "do"}

Inside ==
  /\ UNCHANGED <<deployment, req, leader, registered, timer, superseded>>
  /\ \A q \in Requests : /\ Leading(q)' <=> Leading(q)
                         /\ pc'[q] = "wait" <=> pc[q] = "wait"
                         /\ pc'[q] \in Early => pc[q] \in Early

Flight(r) == Lead(r) \/ Join(r) \/ Finish(r) \/ TimerFires(r) \/ TimerForgets(r)

LEMMA OneMoves ==
  ASSUME TypeInv, NEW r \in Requests, NEW step, Goto(r, step),
         UNCHANGED <<deployment, req, leader, flights>>,
         pc[r] # "wait", step # "wait", step \in Early => pc[r] \in Early,
         req[r].coalesced => (pc[r] \in FlightSteps <=> step \in FlightSteps)
  PROVE  Inside
<1>1. pc'[r] = step /\ \A q \in Requests \ {r} : pc'[q] = pc[q]
  BY DEF TypeInv, TypeOK, Goto
<1>2. ASSUME NEW q \in Requests
      PROVE  /\ Leading(q)' <=> Leading(q)
             /\ pc'[q] = "wait" <=> pc[q] = "wait"
             /\ pc'[q] \in Early => pc[q] \in Early
  <2>1. CASE q = r
    BY <1>1, <2>1 DEF Leading
  <2>2. CASE q # r
    BY <1>1, <2>2 DEF Leading
  <2> QED BY <2>1, <2>2
<1> QED BY <1>2 DEF Inside, flights

LEMMA FlightsAside ==
  ASSUME TypeInv, [Next]_vars
  PROVE  Inside \/ \E r \in Requests : Flight(r)
<1> USE DEF Early, FlightSteps
<1>1. ASSUME NEW r \in Requests, Arrive(r) \/ Lookup(r) PROVE Inside
  <2>1. \/ \E step \in {"lookup", "next", "done", "do"} : Goto(r, step)
        \/ ~req[r].coalesced /\ Goto(r, "handler")
    BY <1>1 DEF Arrive, Lookup, Serve, EnterHandler
  <2>2. pc[r] \in Early /\ UNCHANGED <<deployment, req, leader, flights>>
    BY <1>1 DEF Arrive, Lookup, world
  <2> QED BY <2>1, <2>2, OneMoves
<1>2. ASSUME NEW r \in Requests, InnerLookup(r) PROVE Inside
  <2>1. \E step \in {"finish", "handler"} : Goto(r, step)
    BY <1>2 DEF InnerLookup, EnterHandler
  <2> QED BY <1>2, <2>1, OneMoves DEF InnerLookup, world
<1>3. ASSUME NEW r \in Requests, NEW kind \in deployment.kinds, HandlerReturns(r, kind) PROVE Inside
  <2>1. req[r].coalesced \in BOOLEAN /\ Cached(r, kind) \in BOOLEAN
    BY DEF TypeInv, TypeOK, Shape, Cached
  <2>2. \/ req[r].coalesced /\ \E step \in {"lock", "finish"} : Goto(r, step)
        \/ ~req[r].coalesced /\ \E step \in {"write", "recover", "done"} : Goto(r, step)
    BY <1>3, <2>1 DEF HandlerReturns
  <2> QED BY <1>3, <2>2, OneMoves DEF HandlerReturns, world
<1>4. ASSUME NEW r \in Requests, CheckFence(r) PROVE Inside
  <2>1. \E step \in {"finish", "write"} : Goto(r, step)
    BY <1>4 DEF CheckFence
  <2> QED BY <1>4, <2>1, OneMoves DEF CheckFence, world
<1>5. ASSUME NEW r \in Requests, Write(r) PROVE Inside
  <2>1. \/ req[r].coalesced /\ Goto(r, "finish")
        \/ ~req[r].coalesced /\ Goto(r, "done")
    BY <1>5 DEF Write
  <2> QED BY <1>5, <2>1, OneMoves DEF Write
<1>6. ASSUME NEW r \in Requests, Answer(r) \/ HandlerNext(r) \/ Recover(r) PROVE Inside
  <2>1. \E step \in {"done", "next", "recover"} : Goto(r, step)
    BY <1>6 DEF Answer, HandlerNext, Recover, Serve
  <2>2. pc[r] \in {"answer", "next", "recover"} /\ UNCHANGED <<deployment, req, leader, flights>>
    BY <1>6 DEF Answer, HandlerNext, Recover, world
  <2> QED BY <2>1, <2>2, OneMoves
<1>7. ASSUME \/ \E r \in Requests : GoesStale(r)
             \/ OriginChanges
             \/ \E s \in Stores, k \in Keys : EntryGoes(s, k)
             \/ UNCHANGED vars
      PROVE  Inside
  BY <1>7 DEF GoesStale, OriginChanges, EntryGoes, vars, world, flights, Inside, Leading
<1>8. ASSUME NEW r \in Requests, Arrive(r) \/ Step(r) PROVE Inside \/ Flight(r)
  BY <1>1, <1>2, <1>3, <1>4, <1>5, <1>6, <1>8 DEF Step, Flight
<1> QED BY <1>7, <1>8 DEF Next, Flight, Terminated

RegisteredLead == \A q \in registered : Leading(q)
OneRegistered == \A p, q \in registered : FlightKey(p) = FlightKey(q) => p = q
WaitersAreLed ==
  \A w \in Requests :
    pc[w] = "wait" => /\ leader[w] \in Requests /\ Leading(leader[w])
                      /\ FlightKey(leader[w]) = FlightKey(w)
NotYetLeading == \A q \in Requests : pc[q] \in Early => timer[q] = "off" /\ ~superseded[q]
ArmedLead == \A q \in Requests : timer[q] = "armed" => Leading(q) /\ ~superseded[q]
CurrentRegistered ==
  NobodyLate => \A q \in Requests : Leading(q) /\ ~superseded[q] => q \in registered

FlightInv == /\ RegisteredLead /\ OneRegistered /\ WaitersAreLed
             /\ NotYetLeading /\ ArmedLead /\ CurrentRegistered

LEMMA FlightInit == Init => FlightInv
  BY DEF Init, FlightInv, RegisteredLead, OneRegistered, WaitersAreLed, NotYetLeading, ArmedLead,
     CurrentRegistered, Leading, FlightSteps

\* Requests do not change, and so neither do their flight keys.
LEMMA SameKey ==
  ASSUME req' = req
  PROVE  \A q : FlightKey(q)' = FlightKey(q)
  BY DEF FlightKey

LEMMA InsideKeeps ==
  ASSUME TypeInv, FlightInv, Inside
  PROVE  FlightInv'
<1>1. \A q : FlightKey(q)' = FlightKey(q)
  BY SameKey DEF Inside
<1>2. RegisteredLead' /\ OneRegistered'
  BY <1>1 DEF FlightInv, RegisteredLead, OneRegistered, Inside, TypeInv, TypeOK
<1>3. WaitersAreLed'
  BY <1>1 DEF FlightInv, WaitersAreLed, Inside
<1>4. NotYetLeading' /\ ArmedLead' /\ CurrentRegistered'
  BY DEF FlightInv, NotYetLeading, ArmedLead, CurrentRegistered, NobodyLate, Inside
<1> QED BY <1>2, <1>3, <1>4 DEF FlightInv

LEMMA LeadKeeps ==
  ASSUME TypeInv, FlightInv, NEW r \in Requests, Lead(r)
  PROVE  FlightInv'
<1>1. /\ pc[r] = "do" /\ req[r].coalesced /\ timer[r] = "off" /\ ~superseded[r]
      /\ \A q \in registered : FlightKey(q) # FlightKey(r)
      /\ registered' = registered \cup {r} /\ timer'[r] \in {"armed", "off"}
  BY DEF Lead, TypeInv, TypeOK, Legal, FlightInv, NotYetLeading, Early
<1>2. /\ UNCHANGED <<req, superseded, leader>>
      /\ pc'[r] = "inner" /\ \A q \in Requests \ {r} : pc'[q] = pc[q] /\ timer'[q] = timer[q]
  BY DEF Lead, Goto, world, TypeInv, TypeOK
<1>3. \A q : FlightKey(q)' = FlightKey(q)
  BY <1>2, SameKey
<1>4. ASSUME NEW q \in Requests
      PROVE  Leading(q)' <=> Leading(q) \/ q = r
  BY <1>1, <1>2 DEF Leading, FlightSteps
<1>5. registered \subseteq Requests
  BY DEF TypeInv, TypeOK
<1>6. RegisteredLead'
  BY <1>1, <1>4, <1>5 DEF FlightInv, RegisteredLead
<1>7. OneRegistered'
  BY <1>1, <1>3 DEF FlightInv, OneRegistered
<1>8. WaitersAreLed'
  BY <1>2, <1>3, <1>4 DEF FlightInv, WaitersAreLed
<1>9. NotYetLeading' /\ ArmedLead'
  BY <1>1, <1>2, <1>4 DEF FlightInv, NotYetLeading, ArmedLead, Early
<1>10. CurrentRegistered'
  <2>1. NobodyLate' => NobodyLate
    BY <1>1, <1>2 DEF NobodyLate
  <2> QED BY <1>1, <1>2, <1>4, <2>1 DEF FlightInv, CurrentRegistered
<1> QED BY <1>6, <1>7, <1>8, <1>9, <1>10 DEF FlightInv

LEMMA JoinKeeps ==
  ASSUME TypeInv, FlightInv, NEW r \in Requests, Join(r)
  PROVE  FlightInv'
<1>1. pc[r] = "do" /\ UNCHANGED <<req, registered, timer, superseded>>
  BY DEF Join, flights
<1>2. pc'[r] = "wait" /\ \A q \in Requests \ {r} : pc'[q] = pc[q] /\ leader'[q] = leader[q]
  BY DEF Join, Goto, TypeInv, TypeOK
<1>3. PICK p \in registered : FlightKey(p) = FlightKey(r) /\ leader'[r] = p
  BY DEF Join, TypeInv, TypeOK
<1>4. \A q : FlightKey(q)' = FlightKey(q)
  BY <1>1, SameKey
<1>5. ASSUME NEW q \in Requests
      PROVE  Leading(q)' <=> Leading(q)
  BY <1>1, <1>2 DEF Leading, FlightSteps
<1>6. registered \subseteq Requests
  BY DEF TypeInv, TypeOK
<1>7. RegisteredLead' /\ OneRegistered'
  BY <1>1, <1>4, <1>5, <1>6 DEF FlightInv, RegisteredLead, OneRegistered
<1>8. WaitersAreLed'
  <2>1. p \in Requests /\ Leading(p)'
    BY <1>3, <1>5, <1>6 DEF FlightInv, RegisteredLead
  <2>2. ASSUME NEW w \in Requests, pc'[w] = "wait"
        PROVE  /\ leader'[w] \in Requests /\ FlightKey(leader'[w]) = FlightKey(w)
               /\ \E q \in Requests : leader'[w] = q /\ Leading(q)'
    <3>1. CASE w = r
      BY <1>3, <2>1, <3>1
    <3>2. CASE w # r
      BY <1>2, <1>5, <2>2, <3>2 DEF FlightInv, WaitersAreLed
    <3> QED BY <3>1, <3>2
  <2> QED BY <1>1, <1>4, <2>2 DEF WaitersAreLed, Leading, FlightKey
<1>9. NotYetLeading' /\ ArmedLead' /\ CurrentRegistered'
  BY <1>1, <1>2, <1>5 DEF FlightInv, NotYetLeading, ArmedLead, CurrentRegistered, NobodyLate, Early
<1> QED BY <1>7, <1>8, <1>9 DEF FlightInv

LEMMA FinishKeeps ==
  ASSUME TypeInv, FlightInv, NEW r \in Requests, Finish(r)
  PROVE  FlightInv'
<1>1. /\ pc[r] = "finish" /\ r \in Released(r) /\ req' = req /\ registered' = registered \ {r}
      /\ timer'[r] # "armed"
      /\ \A q \in Requests \ {r} : timer'[q] = timer[q] /\ superseded'[q] = superseded[q]
      /\ timer[r] = "late" => timer'[r] = "late"
  <2>1. /\ timer \in [Requests -> {"off", "armed", "fired", "late"}]
        /\ superseded \in [Requests -> BOOLEAN]
        /\ timer' = [timer EXCEPT ![r] = IF timer[r] = "armed" THEN "off" ELSE timer[r]]
        /\ superseded' = [superseded EXCEPT ![r] = FALSE]
    BY DEF Finish, StopTimer, TypeInv, TypeOK
  <2>2. /\ timer'[r] # "armed" /\ (timer[r] = "late" => timer'[r] = "late")
        /\ \A q \in Requests \ {r} : timer'[q] = timer[q] /\ superseded'[q] = superseded[q]
    BY ONLY <2>1, r \in Requests
  <2>3. req' = req /\ registered' = registered \ {r}
    BY DEF Finish
  <2> QED BY <2>2, <2>3, FinishSteps
<1>2. /\ \A q \in Released(r) : pc'[q] \in {"recover", "done", "answer"}
      /\ \A q \in Requests \ Released(r) : pc'[q] = pc[q] /\ leader'[q] = leader[q]
  BY FinishSteps
<1>3. \A q : FlightKey(q)' = FlightKey(q)
  BY <1>1, SameKey
<1>4. ASSUME NEW q \in Requests
      PROVE  Leading(q)' <=> Leading(q) /\ q # r
  <2>1. CASE q \in Released(r)
    BY <1>2, <2>1 DEF Leading, FlightSteps, Released
  <2>2. CASE q \notin Released(r)
    BY <1>1, <1>2, <2>2 DEF Leading
  <2> QED BY <2>1, <2>2
<1>5. RegisteredLead' /\ OneRegistered'
  BY <1>1, <1>3, <1>4 DEF FlightInv, RegisteredLead, OneRegistered, TypeInv, TypeOK
<1>6. WaitersAreLed'
  <2>1. ASSUME NEW w \in Requests, pc'[w] = "wait"
        PROVE  /\ leader'[w] \in Requests /\ FlightKey(leader'[w]) = FlightKey(w)
               /\ \E q \in Requests : leader'[w] = q /\ Leading(q)'
    <3>1. w \notin Released(r) /\ pc[w] = "wait" /\ leader'[w] = leader[w] /\ leader[w] # r
      BY <1>2, <2>1 DEF Released
    <3> QED BY <1>4, <3>1 DEF FlightInv, WaitersAreLed
  <2> QED BY <1>1, <1>3, <2>1 DEF WaitersAreLed, Leading, FlightKey
<1>7. NotYetLeading'
  <2>1. ASSUME NEW q \in Requests, pc'[q] \in Early
        PROVE  q # r /\ pc[q] \in Early
    BY <1>1, <1>2, <2>1 DEF Early
  <2> QED BY <1>1, <2>1 DEF FlightInv, NotYetLeading
<1>8. ArmedLead'
  BY <1>1, <1>4 DEF FlightInv, ArmedLead
<1>9. CurrentRegistered'
  <2>1. NobodyLate' => NobodyLate
    BY <1>1 DEF NobodyLate
  <2> QED BY <1>1, <1>4, <2>1 DEF FlightInv, CurrentRegistered
<1> QED BY <1>5, <1>6, <1>7, <1>8, <1>9 DEF FlightInv

\* A timer that is on time takes out only its own flight.
LEMMA TimerKeeps ==
  ASSUME TypeInv, FlightInv, NEW r \in Requests, TimerFires(r) \/ TimerForgets(r)
  PROVE  FlightInv'
<1>1. UNCHANGED <<pc, req, leader>>
  BY DEF TimerFires, TimerForgets
<1>2. registered' \subseteq registered /\ registered \subseteq Requests
  BY DEF TimerFires, TimerForgets, Forgotten, TypeInv, TypeOK
<1>3. /\ \A q : FlightKey(q)' = FlightKey(q)
      /\ \A q : Leading(q)' <=> Leading(q)
  BY <1>1, SameKey DEF Leading
<1>4. RegisteredLead' /\ OneRegistered'
  BY <1>2, <1>3 DEF FlightInv, RegisteredLead, OneRegistered
<1>5. WaitersAreLed'
  BY <1>1, <1>3 DEF FlightInv, WaitersAreLed
<1>6. NotYetLeading' /\ ArmedLead'
  <2>1. \A q \in Requests \ {r} : timer'[q] = timer[q] /\ superseded'[q] = superseded[q]
    BY DEF TimerFires, TimerForgets, TypeInv, TypeOK
  <2>2. timer[r] \in {"armed", "fired"} /\ timer'[r] \in {"off", "fired", "late"}
    BY DEF TimerFires, TimerForgets, TypeInv, TypeOK
  <2>3. pc[r] \notin Early
    BY <2>2 DEF FlightInv, NotYetLeading
  <2> QED BY <1>1, <1>3, <2>1, <2>2, <2>3 DEF FlightInv, NotYetLeading, ArmedLead
<1>7. CurrentRegistered'
  <2>1. CASE TimerForgets(r)
    BY <2>1 DEF CurrentRegistered, NobodyLate, TimerForgets, TypeInv, TypeOK
  <2>2. CASE TimerFires(r)
    <3> SUFFICES ASSUME NobodyLate', NEW q \in Requests, Leading(q), ~superseded'[q]
                 PROVE  q \in registered'
      BY <1>3 DEF CurrentRegistered
    <3>1. NobodyLate /\ timer[r] = "armed"
      BY <2>2 DEF TimerFires, NobodyLate, TypeInv, TypeOK
    <3>2. q # r /\ ~superseded[q]
      BY <2>2 DEF TimerFires, TypeInv, TypeOK
    <3>3. q \in registered /\ r \in registered
      BY <3>1, <3>2 DEF FlightInv, ArmedLead, CurrentRegistered
    <3>4. FlightKey(q) # FlightKey(r)
      BY <3>2, <3>3 DEF FlightInv, OneRegistered
    <3> QED BY <2>2, <3>3, <3>4 DEF TimerFires, Forgotten
  <2> QED BY <2>1, <2>2
<1> QED BY <1>4, <1>5, <1>6, <1>7 DEF FlightInv

LEMMA FlightInvariant == Spec => []FlightInv
<1>1. TypeInv /\ FlightInv /\ [Next]_vars => FlightInv'
  BY FlightsAside, InsideKeeps, LeadKeeps, JoinKeeps, FinishKeeps, TimerKeeps DEF Flight
<1> QED BY <1>1, FlightInit, TypeInvariant, PTL DEF Spec

\* Whatever timers forget and handlers do, whoever waits waits for a flight that
\* is under way and whose end will release it.
THEOREM WaitersAreReleased == Spec => []WaitersHaveLeader
<1>1. FlightInv => WaitersHaveLeader
  BY DEF FlightInv, WaitersAreLed, WaitersHaveLeader
<1> QED BY <1>1, FlightInvariant, PTL

\* Whatever the number of requests and flights, two goroutines produce the
\* response of one flight key only after a timer has released the first.
THEOREM LeadersAreAlone == Spec => []OneLeader
<1>1. FlightInv => OneLeader
  BY DEF FlightInv, OneRegistered, CurrentRegistered, OneLeader
<1> QED BY <1>1, FlightInvariant, PTL

-----------------------------------------------------------------------------
(* What is shared.  The inductive invariant follows a response from the      *)
(* store and the flight to the reply: who holds it, and that it was made.    *)

\* e is r's to see: made for the same entry, complete, and not declared no-store.
MadeFor(e, s, k) == /\ e \in Requests => /\ runs[e] = 1 /\ ~req[e].noStore
                                         /\ req[e].store = s /\ req[e].key = k

StoreHolds ==
  \A s \in Stores, k \in Keys :
    LET e == store[s][k] IN
    MadeFor(e, s, k) /\ (e \in Requests => made[e].kind = "good")
ResultsHold ==
  \A r \in Requests :
    LET e == result[r] IN
    /\ MadeFor(e, req[r].store, req[r].key)
    /\ e \in Requests => made[e].kind \in {"good", "private"}
RepliesHold ==
  \A r \in Requests :
    LET e == reply[r] IN
    e # r => /\ MadeFor(e, req[r].store, req[r].key)
             /\ e \in Requests => made[e].kind = "good"

SharedInv == StoreHolds /\ ResultsHold /\ RepliesHold

LEMMA SharedInit == Init => SharedInv
<1> SUFFICES ASSUME Init PROVE SharedInv
  OBVIOUS
<1>1. NoResponse \notin Requests /\ Legacy \notin Requests
  BY ConstantsAssumption
<1>2. \A s \in Stores, k \in Keys : store[s][k] \notin Requests
  BY <1>1 DEF Init
<1>3. \A r \in Requests : result[r] \notin Requests /\ reply[r] \notin Requests
  BY <1>1 DEF Init
<1> QED BY <1>2, <1>3 DEF SharedInv, StoreHolds, ResultsHold, RepliesHold, MadeFor

\* What was made stays as it is.
LEMMA MadeStays ==
  ASSUME TypeInv, [Next]_vars, NEW e \in Requests, runs[e] = 1
  PROVE  runs'[e] = 1 /\ made'[e] = made[e]
<1>1. ASSUME NEW r \in Requests, NEW kind \in deployment.kinds, HandlerReturns(r, kind)
      PROVE  runs'[e] = 1 /\ made'[e] = made[e]
  <2>1. e # r
    BY <1>1 DEF TypeInv, Legal, Unanswered, HandlerReturns
  <2> QED BY <1>1, <2>1 DEF HandlerReturns, TypeInv, TypeOK
<1>2. ASSUME NEW r \in Requests, HandlerNext(r)
      PROVE  runs'[e] = 1 /\ made'[e] = made[e]
  <2>1. e # r
    BY <1>2 DEF TypeInv, Legal, Unanswered, HandlerNext
  <2> QED BY <1>2, <2>1 DEF HandlerNext, TypeInv, TypeOK
<1>3. ASSUME NEW r \in Requests,
             \/ Arrive(r) \/ Lead(r) \/ Join(r) \/ CheckFence(r)
             \/ Write(r) \/ Finish(r) \/ Answer(r) \/ Recover(r)
             \/ TimerFires(r) \/ TimerForgets(r) \/ GoesStale(r)
      PROVE  UNCHANGED <<runs, made>>
  BY <1>3 DEF Arrive, Lead, Join, CheckFence, Write, Finish, Answer, Recover,
     TimerFires, TimerForgets, GoesStale
<1>4. ASSUME OriginChanges \/ (\E s \in Stores, k \in Keys : EntryGoes(s, k)) \/ UNCHANGED vars
      PROVE  UNCHANGED <<runs, made>>
  BY <1>4 DEF OriginChanges, EntryGoes, vars
<1>5. ASSUME NEW r \in Requests, Lookup(r) \/ InnerLookup(r)
      PROVE  runs'[e] = 1 /\ made'[e] = made[e]
  <2>1. e # r
    BY <1>5 DEF TypeInv, Legal, Unanswered, Lookup, InnerLookup
  <2>2. made' = made \/ EnterHandler(r)
    BY <1>5 DEF Lookup, InnerLookup
  <2> QED BY <1>5, <2>1, <2>2, EnterType DEF Lookup, InnerLookup
<1> QED BY <1>1, <1>2, <1>3, <1>4, <1>5 DEF Next, Step, Terminated

LEMMA MadeForStays ==
  ASSUME TypeInv, [Next]_vars, req' = req, NEW e, NEW s, NEW k, MadeFor(e, s, k)
  PROVE  MadeFor(e, s, k)' /\ (e \in Requests => made'[e] = made[e])
  BY MadeStays DEF MadeFor

LEMMA StoreHoldsNext ==
  ASSUME TypeInv, SharedInv, [Next]_vars
  PROVE  StoreHolds'
<1>1. req' = req
  BY DEF Next, Step, Arrive, Lookup, Lead, Join, InnerLookup, HandlerReturns, CheckFence, Write,
     Finish, Answer, HandlerNext, Recover, TimerFires, TimerForgets, GoesStale, OriginChanges,
     EntryGoes, Terminated, vars
<1>2. ASSUME NEW s \in Stores, NEW k \in Keys
      PROVE  \/ store'[s][k] \in {store[s][k], NoResponse}
             \/ \E r \in Requests : /\ pc[r] = "write" /\ store'[s][k] = r
                                    /\ s = req[r].store /\ k = req[r].key
  <2>1. store \in [Stores -> [Keys -> Responses \cup {NoResponse}]]
    BY DEF TypeInv, TypeOK
  <2>2. CASE \E r \in Requests : Write(r)
    <3>1. PICK r \in Requests : Write(r)
      BY <2>2
    <3>2. req[r].store \in Stores /\ req[r].key \in Keys
      BY EntryType
    <3>3. /\ pc[r] = "write"
          /\ store' = store \/ store' = [store EXCEPT ![req[r].store][req[r].key] = r]
      BY <3>1 DEF Write
    <3> QED BY <2>1, <3>2, <3>3
  <2>3. CASE \E t \in Stores, m \in Keys : EntryGoes(t, m)
    BY <2>1, <2>3 DEF EntryGoes
  <2>4. CASE store' = store
    BY <2>4
  <2> QED BY <2>2, <2>3, <2>4 DEF Next, Step, Arrive, Lookup, Lead, Join, InnerLookup,
          HandlerReturns, CheckFence, Finish, Answer, HandlerNext, Recover, TimerFires,
          TimerForgets, GoesStale, OriginChanges, Terminated, vars, world
<1>3. ASSUME NEW s \in Stores, NEW k \in Keys, NEW e, e = store'[s][k]
      PROVE  MadeFor(e, s, k)' /\ (e \in Requests => made'[e].kind = "good")
  <2>1. MadeFor(e, s, k) /\ (e \in Requests => made[e].kind = "good")
    <3>1. CASE e = store[s][k]
      BY <3>1 DEF SharedInv, StoreHolds
    <3>2. CASE e = NoResponse
      BY <3>2, ConstantsAssumption DEF MadeFor
    <3>3. CASE \E r \in Requests : pc[r] = "write" /\ e = r /\ s = req[r].store /\ k = req[r].key
      BY <3>3 DEF MadeFor, TypeInv, Legal, Answered
    <3> QED BY <1>2, <1>3, <3>1, <3>2, <3>3
  <2> QED BY <1>1, <2>1, MadeForStays
<1> QED BY <1>3 DEF StoreHolds, MadeFor

\* Coalesced requests of one flight key read and write one entry.
LEMMA SameFlightSameEntry ==
  ASSUME TypeInv, NEW q \in Requests, NEW p \in Requests,
         req[q].coalesced, req[p].coalesced, FlightKey(q) = FlightKey(p)
  PROVE  req[q].store = req[p].store /\ req[q].key = req[p].key
<1>1. /\ req[q] \in deployment.shapes /\ req[p] \in deployment.shapes
      /\ req[q].custom \in BOOLEAN /\ req[p].custom \in BOOLEAN
  BY DEF TypeInv, TypeOK, Legal, Shape
<1>2. CASE ~req[q].custom
  <2>1. FlightKey(q) = <<"d", req[q].key>>
    BY <1>2 DEF FlightKey
  <2>2. ~req[p].custom /\ req[p].key = req[q].key
    BY <1>1, <2>1 DEF FlightKey
  <2>3. deployment \in Deployments
    BY DEF TypeInv, TypeOK
  <2> QED BY <1>1, <1>2, <2>2, <2>3, ConstantsAssumption
<1>3. CASE req[q].custom /\ req[q].store \in Identified
  <2>1. FlightKey(q) = <<"p", req[q].store, req[q].key>>
    BY <1>3 DEF FlightKey
  <2> QED BY <1>1, <2>1 DEF FlightKey
<1>4. CASE req[q].custom /\ req[q].store \notin Identified
  <2>1. FlightKey(q) = <<"u", q, req[q].key>>
    BY <1>4 DEF FlightKey
  <2>2. q = p
    BY <1>1, <2>1 DEF FlightKey
  <2> QED BY <2>2
<1> QED BY <1>1, <1>2, <1>3, <1>4

\* What the end of a flight hands out is the receiver's to see.
LEMMA FlightResults ==
  ASSUME TypeInv, FlightInv, SharedInv, NEW r \in Requests, Finish(r),
         NEW q \in Released(r), NEW e, e = result'[q]
  PROVE  /\ MadeFor(e, req[q].store, req[q].key)
         /\ e \in Requests => made[e].kind \in {"good", "private"}
<1>1. q \in Requests /\ Legal(r)
  BY DEF Released, TypeInv
<1>2. req[q].store = req[r].store /\ req[q].key = req[r].key
  <2>1. CASE q = r
    BY <2>1
  <2>2. CASE q # r
    <3>1. pc[q] = "wait" /\ leader[q] = r
      BY <2>2 DEF Released
    <3>2. FlightKey(q) = FlightKey(r) /\ req[q].coalesced /\ req[r].coalesced
      BY <1>1, <3>1 DEF FlightInv, WaitersAreLed, Leading, TypeInv, Legal
    <3> QED BY <1>1, <3>2, SameFlightSameEntry
  <2> QED BY <2>1, <2>2
<1>3. CASE e = NoResponse
  BY <1>3, ConstantsAssumption DEF MadeFor
<1>4. CASE e = result[r]
  BY <1>2, <1>4 DEF SharedInv, ResultsHold
<1>5. CASE pc'[q] = "answer" /\ runs[r] = 1 /\ ~Unshareable(r) /\ e = r
  <2>1. made[r].kind # "panic"
    BY <1>5, FinishSteps
  <2>2. made[r].kind \in AllKinds
    BY DEF TypeInv, TypeOK
  <2> QED BY <1>2, <1>5, <2>1, <2>2 DEF MadeFor, Unshareable, AllKinds
<1> QED BY <1>3, <1>4, <1>5, FinishResults

LEMMA ResultsHoldNext ==
  ASSUME TypeInv, FlightInv, SharedInv, [Next]_vars
  PROVE  ResultsHold'
<1>1. req' = req
  BY DEF Next, Step, Arrive, Lookup, Lead, Join, InnerLookup, HandlerReturns, CheckFence, Write,
     Finish, Answer, HandlerNext, Recover, TimerFires, TimerForgets, GoesStale, OriginChanges,
     EntryGoes, Terminated, vars
<1>2. ASSUME NEW q \in Requests
      PROVE  \/ result'[q] \in {result[q], NoResponse}
             \/ result'[q] = Entry(q)
             \/ \E r \in Requests : Finish(r) /\ q \in Released(r)
  <2>1. CASE \E r \in Requests : Finish(r)
    BY <2>1, FinishSteps
  <2>2. CASE \E r \in Requests : InnerLookup(r) \/ Answer(r)
    BY <2>2 DEF InnerLookup, Answer, TypeInv, TypeOK
  <2>3. CASE result' = result
    BY <2>3
  <2> QED BY <2>1, <2>2, <2>3 DEF Next, Step, Arrive, Lookup, Lead, Join, HandlerReturns,
          CheckFence, Write, HandlerNext, Recover, TimerFires, TimerForgets, GoesStale,
          OriginChanges, EntryGoes, Terminated, vars
<1>3. ASSUME NEW q \in Requests, NEW e, e = result'[q]
      PROVE  MadeFor(e, req[q].store, req[q].key)' /\ (e \in Requests => made'[e].kind \in {"good", "private"})
  <2>1. /\ MadeFor(e, req[q].store, req[q].key)
        /\ e \in Requests => made[e].kind \in {"good", "private"}
    <3>1. CASE e = result[q]
      BY <3>1 DEF SharedInv, ResultsHold
    <3>2. CASE e = NoResponse
      BY <3>2, ConstantsAssumption DEF MadeFor
    <3>3. CASE e = Entry(q)
      BY <3>3, EntryType DEF Entry, SharedInv, StoreHolds
    <3>4. CASE \E r \in Requests : Finish(r) /\ q \in Released(r)
      BY <1>3, <3>4, FlightResults
    <3> QED BY <1>2, <1>3, <3>1, <3>2, <3>3, <3>4
  <2>2. PICK s, k : s = req[q].store /\ k = req[q].key
    OBVIOUS
  <2>3. MadeFor(e, s, k)' /\ (e \in Requests => made'[e] = made[e])
    BY <1>1, <2>1, <2>2, MadeForStays
  <2> QED BY <1>1, <2>1, <2>2, <2>3 DEF MadeFor
<1> QED BY <1>3 DEF ResultsHold, MadeFor

LEMMA RepliesHoldNext ==
  ASSUME TypeInv, SharedInv, [Next]_vars
  PROVE  RepliesHold'
<1>1. req' = req
  BY DEF Next, Step, Arrive, Lookup, Lead, Join, InnerLookup, HandlerReturns, CheckFence, Write,
     Finish, Answer, HandlerNext, Recover, TimerFires, TimerForgets, GoesStale, OriginChanges,
     EntryGoes, Terminated, vars
<1>2. ASSUME NEW q \in Requests
      PROVE  \/ reply'[q] \in {reply[q], q, Failed}
             \/ \E e : reply'[q] = e /\ e \in {Entry(q), result[q]} /\ Replayable(e)
  <2>1. CASE \E r \in Requests : Lookup(r) \/ Answer(r)
    BY <2>1 DEF Lookup, Answer, Serve, TypeInv, TypeOK
  <2>2. CASE \E r \in Requests, kind \in deployment.kinds : HandlerReturns(r, kind)
    BY <2>2 DEF HandlerReturns, TypeInv, TypeOK
  <2>3. CASE \E r \in Requests : HandlerNext(r) \/ Recover(r)
    BY <2>3 DEF HandlerNext, Recover, Serve, TypeInv, TypeOK
  <2>4. CASE reply' = reply
    BY <2>4
  <2> QED BY <2>1, <2>2, <2>3, <2>4 DEF Next, Step, Arrive, Lead, Join, InnerLookup,
          CheckFence, Write, Finish, TimerFires, TimerForgets, GoesStale,
          OriginChanges, EntryGoes, Terminated, vars
<1>3. ASSUME NEW q \in Requests, NEW e, e = reply'[q], e # q
      PROVE  MadeFor(e, req[q].store, req[q].key)' /\ (e \in Requests => made'[e].kind = "good")
  <2>1. /\ MadeFor(e, req[q].store, req[q].key)
        /\ e \in Requests => made[e].kind = "good"
    <3>1. CASE e = reply[q]
      BY <1>3, <3>1 DEF SharedInv, RepliesHold
    <3>2. CASE e = Failed
      BY <3>2, ConstantsAssumption DEF MadeFor
    <3>3. CASE e = Entry(q)
      BY <3>3, EntryType DEF Entry, SharedInv, StoreHolds
    <3>4. CASE e = result[q] /\ Replayable(e)
      BY <3>4 DEF Replayable, SharedInv, ResultsHold
    <3> QED BY <1>2, <1>3, <3>1, <3>2, <3>3, <3>4
  <2>2. PICK s, k : s = req[q].store /\ k = req[q].key
    OBVIOUS
  <2>3. MadeFor(e, s, k)' /\ (e \in Requests => made'[e] = made[e])
    BY <1>1, <2>1, <2>2, MadeForStays
  <2> QED BY <1>1, <2>1, <2>2, <2>3 DEF MadeFor
<1> QED BY <1>3 DEF RepliesHold, MadeFor

LEMMA SharedInvariant == Spec => []SharedInv
<1>1. TypeInv /\ FlightInv /\ SharedInv /\ [Next]_vars => SharedInv'
  BY StoreHoldsNext, ResultsHoldNext, RepliesHoldNext DEF SharedInv
<1> QED BY <1>1, SharedInit, TypeInvariant, FlightInvariant, PTL DEF Spec

\* Whatever stores, keys, flights and handlers there are, a response that reaches
\* another request is complete, cacheable and of that request's own entry.
THEOREM ResponsesSharedSafely == Spec => []SharedSafely
<1>1. SharedInv => SharedSafely
  BY DEF SharedInv, RepliesHold, SharedSafely, MadeFor
<1> QED BY <1>1, SharedInvariant, PTL

-----------------------------------------------------------------------------
(* The writers.  A wrapper is named by the request that first allocated it,  *)
(* so a request that has not entered its handler can still allocate its own. *)

Used(w) == w \in pool \/ \E q \in Requests : writer[q] = w

WrapperInv ==
  /\ NoSharedWriter
  /\ \A w \in Requests : Used(w) => runs[w] = 1 \/ pc[w] = "handler"

LEMMA EnterKeeps ==
  ASSUME TypeInv, WrapperInv, NEW r \in Requests, EnterHandler(r), runs[r] = 0, pc[r] # "handler",
         UNCHANGED runs
  PROVE  WrapperInv'
<1>1. PICK w \in IF pool = {} THEN {r} ELSE pool : /\ writer' = [writer EXCEPT ![r] = w]
                                                   /\ pool' = pool \ {w}
  BY DEF EnterHandler
<1>2. /\ writer'[r] = w /\ \A q \in Requests \ {r} : writer'[q] = writer[q]
      /\ w \in Requests /\ pc'[r] = "handler" /\ \A q \in Requests \ {r} : pc'[q] = pc[q]
  BY <1>1 DEF EnterHandler, Goto, TypeInv, TypeOK
<1>3. w \notin pool' /\ \A q \in Requests : writer[q] # w
  <2>1. CASE pool = {}
    BY <1>1, <2>1 DEF WrapperInv, Used
  <2>2. CASE pool # {}
    BY <1>1, <1>2, <2>2, ConstantsAssumption DEF WrapperInv, NoSharedWriter
  <2> QED BY <2>1, <2>2
<1>4. NoSharedWriter'
  BY <1>1, <1>2, <1>3 DEF WrapperInv, NoSharedWriter
<1>5. ASSUME NEW u \in Requests, Used(u)' PROVE runs'[u] = 1 \/ pc'[u] = "handler"
  <2>1. u = w \/ Used(u)
    BY <1>1, <1>2, <1>5 DEF Used
  <2>2. w = r \/ Used(w)
    BY <1>1 DEF Used
  <2> QED BY <1>2, <2>1, <2>2 DEF WrapperInv
<1> QED BY <1>4, <1>5 DEF WrapperInv

LEMMA LeaveKeeps ==
  ASSUME TypeInv, WrapperInv, NEW r \in Requests, NEW kind \in deployment.kinds,
         HandlerReturns(r, kind)
  PROVE  WrapperInv'
<1>1. /\ writer'[r] = Own /\ \A q \in Requests \ {r} : writer'[q] = writer[q]
      /\ pool' = pool \cup {writer[r]}
  BY DEF HandlerReturns, LeaveHandler, TypeInv, TypeOK
<1>2. /\ runs'[r] = 1 /\ \A q \in Requests \ {r} : runs'[q] = runs[q] /\ pc'[q] = pc[q]
      /\ writer[r] # Own
  BY DEF HandlerReturns, Goto, TypeInv, TypeOK, Legal, Unanswered
<1>3. NoSharedWriter'
  BY <1>1, <1>2 DEF WrapperInv, NoSharedWriter
<1>4. ASSUME NEW u \in Requests, Used(u)' PROVE runs'[u] = 1 \/ pc'[u] = "handler"
  <2>1. Used(u)
    BY <1>1, <1>4, ConstantsAssumption DEF Used
  <2> QED BY <1>2, <2>1 DEF WrapperInv
<1> QED BY <1>3, <1>4 DEF WrapperInv

LEMMA OthersKeep ==
  ASSUME TypeInv, WrapperInv, UNCHANGED <<writer, pool>>,
         \A q \in Requests : /\ runs[q] = 1 => runs'[q] = 1
                             /\ pc[q] = "handler" => pc'[q] = "handler"
  PROVE  WrapperInv'
<1>1. NoSharedWriter'
  BY DEF WrapperInv, NoSharedWriter
<1>2. ASSUME NEW u \in Requests, Used(u)' PROVE runs'[u] = 1 \/ pc'[u] = "handler"
  BY <1>2 DEF WrapperInv, Used
<1> QED BY <1>1, <1>2 DEF WrapperInv

LEMMA WrapperNext ==
  ASSUME TypeInv, WrapperInv, [Next]_vars
  PROVE  WrapperInv'
<1>1. ASSUME NEW r \in Requests, EnterHandler(r), Lookup(r) \/ InnerLookup(r) PROVE WrapperInv'
  BY <1>1, EnterKeeps DEF Lookup, InnerLookup, TypeInv, Legal, Unanswered
<1>2. ASSUME NEW r \in Requests, UNCHANGED writers, Lookup(r) \/ InnerLookup(r) PROVE WrapperInv'
  BY <1>2, OthersKeep DEF Lookup, InnerLookup, Serve, Goto, EnterHandler, writers, TypeInv, TypeOK
<1>3. ASSUME NEW r \in Requests, Arrive(r) \/ Lead(r) \/ Join(r) \/ CheckFence(r) \/ Write(r)
      PROVE  WrapperInv'
  BY <1>3, OthersKeep DEF Arrive, Lead, Join, CheckFence, Write, Goto, writers, TypeInv, TypeOK
<1>4. ASSUME NEW r \in Requests, Answer(r) \/ Recover(r) PROVE WrapperInv'
  BY <1>4, OthersKeep DEF Answer, Recover, Serve, Goto, writers, TypeInv, TypeOK
<1>5. ASSUME NEW r \in Requests, HandlerNext(r) PROVE WrapperInv'
  BY <1>5, OthersKeep DEF HandlerNext, Serve, Goto, writers, TypeInv, TypeOK, Legal, Unanswered
<1>6. ASSUME NEW r \in Requests, Finish(r) PROVE WrapperInv'
  <2>1. \A q \in Requests : pc[q] = "handler" => pc'[q] = "handler"
    BY <1>6, FinishSteps DEF Released
  <2> QED BY <1>6, <2>1, OthersKeep DEF Finish, writers
<1>7. ASSUME \/ \E r \in Requests : TimerFires(r) \/ TimerForgets(r) \/ GoesStale(r)
             \/ OriginChanges
             \/ \E s \in Stores, k \in Keys : EntryGoes(s, k)
             \/ UNCHANGED vars
      PROVE  WrapperInv'
  BY <1>7, OthersKeep DEF TimerFires, TimerForgets, GoesStale, OriginChanges, EntryGoes, vars, writers
<1>8. ASSUME NEW r \in Requests, Arrive(r) \/ Step(r) PROVE WrapperInv'
  <2>1. Lookup(r) \/ InnerLookup(r) => EnterHandler(r) \/ UNCHANGED writers
    BY DEF Lookup, InnerLookup
  <2> QED BY <1>1, <1>2, <1>3, <1>4, <1>5, <1>6, <1>8, <2>1, LeaveKeeps DEF Step
<1> QED BY <1>7, <1>8 DEF Next, Terminated

LEMMA WrapperInvariant == Spec => []WrapperInv
<1>1. Init => WrapperInv
  BY ConstantsAssumption DEF Init, WrapperInv, NoSharedWriter, Used
<1> QED BY <1>1, WrapperNext, TypeInvariant, PTL DEF Spec

\* However requests, panics and the pool interleave, no wrapper is handed to
\* two requests, and none is back in the pool while a request writes to it.
THEOREM WritersAreUnshared == Spec => []NoSharedWriter
<1>1. WrapperInv => NoSharedWriter
  BY DEF WrapperInv
<1> QED BY <1>1, WrapperInvariant, PTL

-----------------------------------------------------------------------------
(* The fence.  It orders the writes of flights; a middleware made without    *)
(* singleflight has none, nor have two flight keys for one entry.            *)

\* All requests are coalesced, and those of one entry share their flight key.
Fenced(d) ==
  \A x, y \in d.shapes :
    /\ x.coalesced /\ (x.custom => x.store \in Identified)
    /\ x.store = y.store /\ x.key = y.key => x.custom = y.custom

SameEntry(r, q) == req[r].store = req[q].store /\ req[r].key = req[q].key

\* q may still write, or is writing: no timer has taken the write away from it.
MayWrite(q) == pc[q] = "write" \/ (pc[q] \in {"handler", "lock"} /\ ~superseded[q])

\* Versions are those the origin has had by then.
Versions ==
  /\ origin \in 1..deployment.changes + 1
  /\ \A r \in Requests : pc[r] \in {"handler", "lock", "write"} => made[r].version \in 1..origin
  /\ \A s \in Stores, k \in Keys :
       store[s][k] \in Requests => made[store[s][k]].version \in 1..origin

\* The lock of the shard.
OneWriter ==
  \A r, q \in Requests :
    pc[r] = "write" /\ pc[q] = "write" /\ req[r].coalesced /\ req[q].coalesced => r = q

\* Whoever may still write an entry has nothing older than the entry, nor than
\* what the holder of the lock is about to write.
InOrder ==
  Fenced(deployment) /\ NobodyLate =>
    \A q \in Requests : MayWrite(q) =>
      /\ Entry(q) \in Requests => made[Entry(q)].version <= made[q].version
      /\ \A r \in Requests :
           pc[r] = "write" /\ SameEntry(r, q) => made[r].version <= made[q].version

FenceInv == Versions /\ OneWriter /\ InOrder

LEMMA FenceInit == Init => FenceInv
<1> SUFFICES ASSUME Init PROVE FenceInv
  OBVIOUS
<1>1. \A s \in Stores, k \in Keys : store[s][k] \notin Requests
  BY ConstantsAssumption DEF Init
<1>2. deployment.changes \in Nat
  BY ConstantsAssumption DEF Init
<1> QED BY <1>1, <1>2 DEF Init, FenceInv, Versions, OneWriter, InOrder, MayWrite

\* In a fenced deployment the requests of one entry share their flight key.
LEMMA SameEntrySameFlight ==
  ASSUME TypeInv, Fenced(deployment), NEW r \in Requests, NEW q \in Requests, SameEntry(r, q)
  PROVE  FlightKey(r) = FlightKey(q) /\ req[r].coalesced /\ req[q].coalesced
<1>1. /\ req[r] \in deployment.shapes /\ req[q] \in deployment.shapes
      /\ req[r].custom \in BOOLEAN /\ req[q].custom \in BOOLEAN
  BY DEF TypeInv, TypeOK, Legal, Shape
<1>2. /\ req[r].coalesced /\ req[q].coalesced /\ req[r].custom = req[q].custom
      /\ req[r].custom => req[r].store \in Identified
  BY <1>1 DEF Fenced, SameEntry
<1> QED BY <1>1, <1>2 DEF FlightKey, SameEntry

\* A step that lets nobody new write and writes nothing.
LEMMA NobodyWrites ==
  ASSUME TypeInv, FenceInv, UNCHANGED <<deployment, req>>,
         origin' >= origin, origin' \in 1..deployment.changes + 1,
         NobodyLate' => NobodyLate,
         \A s \in Stores, k \in Keys : store'[s][k] \in {store[s][k], NoResponse},
         \A q \in Requests : /\ pc'[q] \in {"handler", "lock", "write"} => pc'[q] = pc[q]
                             /\ pc'[q] \in {"handler", "lock"} /\ ~superseded'[q] => ~superseded[q]
                             /\ pc'[q] \in {"handler", "lock", "write"} => made'[q] = made[q],
         \A s \in Stores, k \in Keys :
           store[s][k] \in Requests => made'[store[s][k]] = made[store[s][k]]
  PROVE  FenceInv'
<1>1. origin \in Nat /\ origin' \in Nat
  BY DEF TypeInv, TypeOK, FenceInv, Versions
<1>2. ASSUME NEW s \in Stores, NEW k \in Keys, NEW e, e = store'[s][k], e \in Requests
      PROVE  e = store[s][k] /\ made'[e] = made[e]
  BY <1>2, ConstantsAssumption
<1>3. Versions'
  <2>1. ASSUME NEW q \in Requests, pc'[q] \in {"handler", "lock", "write"}
        PROVE  made'[q].version \in 1..origin'
    BY <1>1, <2>1 DEF FenceInv, Versions
  <2>2. ASSUME NEW s \in Stores, NEW k \in Keys, NEW e, e = store'[s][k], e \in Requests
        PROVE  made'[e].version \in 1..origin'
    BY <1>1, <1>2, <2>2 DEF FenceInv, Versions
  <2> QED BY <2>1, <2>2 DEF Versions
<1>4. OneWriter'
  BY DEF FenceInv, OneWriter
<1>5. InOrder'
  <2> SUFFICES ASSUME Fenced(deployment), NobodyLate, NEW q \in Requests, MayWrite(q)'
               PROVE  /\ Entry(q)' \in Requests => made'[Entry(q)'].version <= made'[q].version
                      /\ \A r \in Requests :
                           pc'[r] = "write" /\ SameEntry(r, q) => made'[r].version <= made'[q].version
    BY DEF InOrder, Fenced, SameEntry
  <2>1. MayWrite(q) /\ made'[q] = made[q]
    BY DEF MayWrite
  <2>2. ASSUME NEW e, e = Entry(q)', e \in Requests PROVE made'[e].version <= made'[q].version
    <3>1. req[q].store \in Stores /\ req[q].key \in Keys
      BY EntryType
    <3>2. e = Entry(q) /\ made'[e] = made[e]
      BY <1>2, <2>2, <3>1 DEF Entry
    <3> QED BY <2>1, <2>2, <3>2 DEF FenceInv, InOrder
  <2>3. ASSUME NEW r \in Requests, pc'[r] = "write", SameEntry(r, q)
        PROVE  made'[r].version <= made'[q].version
    <3>1. pc[r] = "write" /\ made'[r] = made[r]
      BY <2>3
    <3> QED BY <2>1, <2>3, <3>1 DEF FenceInv, InOrder
  <2> QED BY <2>2, <2>3
<1> QED BY <1>3, <1>4, <1>5 DEF FenceInv

\* What the handler reads from now on is not older than any entry.
LEMMA EnterKeepsFence ==
  ASSUME TypeInv, SharedInv, FenceInv, NEW r \in Requests, Lookup(r) \/ InnerLookup(r), EnterHandler(r)
  PROVE  FenceInv'
<1>1. /\ runs[r] = 0 /\ UNCHANGED <<deployment, req, origin, store, timer, superseded>>
  BY DEF Lookup, InnerLookup, TypeInv, Legal, Unanswered, world, flights
<1>2. /\ made'[r].version = origin /\ pc'[r] = "handler"
      /\ \A q \in Requests \ {r} : made'[q] = made[q] /\ pc'[q] = pc[q]
  BY EnterType DEF TypeInv, TypeOK
<1>3. origin \in Nat /\ origin \in 1..origin /\ \A q \in Requests : made[q].version \in Nat
  BY DEF TypeInv, TypeOK, FenceInv, Versions
<1>4. ASSUME NEW s \in Stores, NEW k \in Keys, NEW e, e = store[s][k], e \in Requests
      PROVE  made'[e] = made[e] /\ made[e].version \in 1..origin
  <2>1. e # r
    BY <1>1, <1>4 DEF SharedInv, StoreHolds, MadeFor
  <2> QED BY <1>2, <1>4, <2>1 DEF FenceInv, Versions
<1>5. Versions'
  <2>1. ASSUME NEW q \in Requests, pc'[q] \in {"handler", "lock", "write"}
        PROVE  made'[q].version \in 1..origin
    BY <1>2, <1>3, <2>1 DEF FenceInv, Versions
  <2>2. ASSUME NEW s \in Stores, NEW k \in Keys, NEW e, e = store[s][k], e \in Requests
        PROVE  made'[e].version \in 1..origin
    BY <1>4, <2>2
  <2> QED BY <1>1, <2>1, <2>2 DEF FenceInv, Versions
<1>6. OneWriter'
  BY <1>1, <1>2 DEF FenceInv, OneWriter
<1>7. InOrder'
  <2> SUFFICES ASSUME Fenced(deployment), NobodyLate, NEW q \in Requests, MayWrite(q)'
               PROVE  /\ Entry(q)' \in Requests => made'[Entry(q)'].version <= made'[q].version
                      /\ \A p \in Requests :
                           pc'[p] = "write" /\ SameEntry(p, q) => made'[p].version <= made'[q].version
    BY <1>1 DEF InOrder, Fenced, SameEntry, NobodyLate
  <2>2. made'[q].version = origin \/ (q # r /\ MayWrite(q) /\ made'[q] = made[q])
    BY <1>1, <1>2 DEF MayWrite
  <2>3. ASSUME NEW e, e = Entry(q)', e \in Requests PROVE made'[e].version <= made'[q].version
    <3>1. req[q].store \in Stores /\ req[q].key \in Keys
      BY EntryType
    <3>2. e = Entry(q) /\ made'[e] = made[e] /\ made[e].version \in 1..origin
      BY <1>1, <1>4, <2>3, <3>1 DEF Entry
    <3> QED BY <1>3, <2>2, <2>3, <3>2 DEF FenceInv, InOrder
  <2>4. ASSUME NEW p \in Requests, pc'[p] = "write", SameEntry(p, q)
        PROVE  made'[p].version <= made'[q].version
    <3>1. p # r /\ pc[p] = "write" /\ made'[p] = made[p] /\ made[p].version \in 1..origin
      BY <1>2, <2>4 DEF FenceInv, Versions
    <3> QED BY <1>3, <2>2, <2>4, <3>1 DEF FenceInv, InOrder
  <2> QED BY <2>3, <2>4
<1> QED BY <1>5, <1>6, <1>7 DEF FenceInv

\* What it has read is not older than when it began.
LEMMA HandlerKeepsFence ==
  ASSUME TypeInv, SharedInv, FenceInv, NEW r \in Requests, NEW kind \in deployment.kinds,
         HandlerReturns(r, kind)
  PROVE  FenceInv'
<1>1. /\ pc[r] = "handler" /\ runs[r] = 0
      /\ UNCHANGED <<deployment, req, origin, store, timer, superseded>>
  BY DEF HandlerReturns, TypeInv, Legal, Unanswered, world, flights
<1>2. /\ made'[r].version \in made[r].version .. origin
      /\ \A q \in Requests \ {r} : made'[q] = made[q] /\ pc'[q] = pc[q]
      /\ pc'[r] \notin {"handler", "write"} \/ ~req[r].coalesced
  <2>1. /\ made'[r].version \in made[r].version .. origin
        /\ \A q \in Requests \ {r} : made'[q] = made[q]
    <3>1. PICK version \in made[r].version .. origin :
            made' = [made EXCEPT ![r] = [kind |-> kind, version |-> version]]
      BY DEF HandlerReturns
    <3> QED BY <3>1 DEF TypeInv, TypeOK
  <2>2. \A q \in Requests \ {r} : pc'[q] = pc[q]
    BY DEF HandlerReturns, Goto, TypeInv, TypeOK
  <2>3. pc'[r] = CASE Cached(r, kind) /\ req[r].coalesced    -> "lock"
               [] Cached(r, kind) /\ ~req[r].coalesced   -> "write"
               [] ~Cached(r, kind) /\ req[r].coalesced   -> "finish"
               [] ~Cached(r, kind) /\ ~req[r].coalesced  -> IF kind = "panic" THEN "recover" ELSE "done"
    BY DEF TypeInv, TypeOK, Goto, HandlerReturns
  <2>4. req[r].coalesced \in BOOLEAN /\ Cached(r, kind) \in BOOLEAN
    BY DEF TypeInv, TypeOK, Shape, Cached
  <2>5. pc'[r] \notin {"handler", "write"} \/ ~req[r].coalesced
    BY ONLY <2>3, <2>4
  <2> QED BY <2>1, <2>2, <2>5
<1>3. /\ origin \in Nat /\ \A q \in Requests : made[q].version \in Nat
      /\ made[r].version \in 1..origin /\ made'[r].version \in 1..origin
      /\ made'[r].version >= made[r].version
  BY <1>1, <1>2 DEF TypeInv, TypeOK, FenceInv, Versions
<1>4. ASSUME NEW s \in Stores, NEW k \in Keys, NEW e, e = store[s][k], e \in Requests
      PROVE  made'[e] = made[e] /\ made[e].version \in 1..origin
  <2>1. e # r
    BY <1>1, <1>4 DEF SharedInv, StoreHolds, MadeFor
  <2> QED BY <1>2, <1>4, <2>1 DEF FenceInv, Versions
<1>5. Versions'
  <2>1. ASSUME NEW q \in Requests, pc'[q] \in {"handler", "lock", "write"}
        PROVE  made'[q].version \in 1..origin
    BY <1>2, <1>3, <2>1 DEF FenceInv, Versions
  <2>2. ASSUME NEW s \in Stores, NEW k \in Keys, NEW e, e = store[s][k], e \in Requests
        PROVE  made'[e].version \in 1..origin
    BY <1>4, <2>2
  <2> QED BY <1>1, <2>1, <2>2 DEF FenceInv, Versions
<1>6. OneWriter'
  BY <1>1, <1>2 DEF FenceInv, OneWriter
<1>7. InOrder'
  <2> SUFFICES ASSUME Fenced(deployment), NobodyLate, NEW q \in Requests, MayWrite(q)'
               PROVE  /\ Entry(q)' \in Requests => made'[Entry(q)'].version <= made'[q].version
                      /\ \A p \in Requests :
                           pc'[p] = "write" /\ SameEntry(p, q) => made'[p].version <= made'[q].version
    BY <1>1 DEF InOrder, Fenced, SameEntry, NobodyLate
  <2>1. pc'[r] # "write"
    BY <1>2 DEF Fenced, TypeInv, Legal
  <2>2. MayWrite(q) /\ made'[q].version >= made[q].version /\ made'[q].version \in Nat
    <3>1. CASE q = r
      BY <1>1, <1>3, <2>1, <3>1 DEF MayWrite
    <3>2. CASE q # r
      BY <1>1, <1>2, <1>3, <3>2 DEF MayWrite
    <3> QED BY <3>1, <3>2
  <2>3. ASSUME NEW e, e = Entry(q)', e \in Requests PROVE made'[e].version <= made'[q].version
    <3>1. req[q].store \in Stores /\ req[q].key \in Keys
      BY EntryType
    <3>2. e = Entry(q) /\ made'[e] = made[e] /\ made[e].version \in 1..origin
      BY <1>1, <1>4, <2>3, <3>1 DEF Entry
    <3>3. made[e].version <= made[q].version
      BY <2>2, <2>3, <3>2 DEF FenceInv, InOrder
    <3> QED BY <1>3, <2>2, <3>2, <3>3
  <2>4. ASSUME NEW p \in Requests, pc'[p] = "write", SameEntry(p, q)
        PROVE  made'[p].version <= made'[q].version
    <3>1. p # r /\ pc[p] = "write" /\ made'[p] = made[p]
      BY <1>2, <2>1, <2>4
    <3>2. made[p].version <= made[q].version
      BY <2>2, <2>4, <3>1 DEF FenceInv, InOrder
    <3> QED BY <1>3, <2>2, <3>1, <3>2
  <2> QED BY <2>3, <2>4
<1> QED BY <1>5, <1>6, <1>7 DEF FenceInv

\* Of two leaders of one flight key, a timer has released one, whose flag the
\* lock's holder looks at.
LEMMA CheckKeepsFence ==
  ASSUME TypeInv, FlightInv, FenceInv, NEW r \in Requests, CheckFence(r)
  PROVE  FenceInv'
<1>1. /\ pc[r] = "lock" /\ ~Locked /\ req[r].coalesced
      /\ UNCHANGED <<deployment, origin, store, req, made, timer, superseded>>
  BY DEF CheckFence, TypeInv, Legal, world, flights
<1>2. /\ pc'[r] \in {"finish", "write"} /\ (pc'[r] = "write" => ~superseded[r])
      /\ \A q \in Requests \ {r} : pc'[q] = pc[q]
  BY DEF CheckFence, Goto, TypeInv, TypeOK
<1>3. Versions'
  <2>1. ASSUME NEW q \in Requests, pc'[q] \in {"handler", "lock", "write"}
        PROVE  made'[q].version \in 1..origin
    BY <1>1, <1>2, <2>1 DEF FenceInv, Versions
  <2> QED BY <1>1, <2>1 DEF FenceInv, Versions
<1>4. OneWriter'
  BY <1>1, <1>2 DEF FenceInv, OneWriter, Locked
<1>5. InOrder'
  <2> SUFFICES ASSUME Fenced(deployment), NobodyLate, NEW q \in Requests, MayWrite(q)'
               PROVE  /\ Entry(q) \in Requests => made[Entry(q)].version <= made[q].version
                      /\ \A p \in Requests :
                           pc'[p] = "write" /\ SameEntry(p, q) => made[p].version <= made[q].version
    BY <1>1 DEF InOrder, Fenced, SameEntry, NobodyLate, Entry
  <2>1. MayWrite(q)
    BY <1>1, <1>2 DEF MayWrite
  <2>2. ASSUME NEW p \in Requests, pc'[p] = "write", SameEntry(p, q)
        PROVE  made[p].version <= made[q].version
    <3>1. CASE p # r
      BY <1>2, <2>1, <2>2, <3>1 DEF FenceInv, InOrder
    <3>2. CASE p = r /\ q = r
      BY <3>2 DEF TypeInv, TypeOK
    <3>3. CASE p = r /\ q # r
      <4>1. ~superseded[r] /\ FlightKey(r) = FlightKey(q) /\ req[q].coalesced
        BY <1>2, <2>2, <3>3, SameEntrySameFlight
      <4>2. pc[q] \in {"handler", "lock"} /\ ~superseded[q]
        BY <1>1, <2>1, <4>1 DEF MayWrite, Locked
      <4>3. Leading(r) /\ Leading(q)
        BY <1>1, <4>1, <4>2 DEF Leading, FlightSteps
      <4>4. r \in registered /\ q \in registered
        BY <4>1, <4>2, <4>3 DEF FlightInv, CurrentRegistered
      <4> QED BY <3>3, <4>1, <4>4 DEF FlightInv, OneRegistered
    <3> QED BY <3>1, <3>2, <3>3
  <2> QED BY <2>1, <2>2 DEF FenceInv, InOrder
<1> QED BY <1>3, <1>4, <1>5 DEF FenceInv

LEMMA WriteKeepsFence ==
  ASSUME TypeInv, FenceInv, NEW r \in Requests, Write(r)
  PROVE  FenceInv'
<1>1. /\ pc[r] = "write" /\ UNCHANGED <<deployment, origin, req, made, timer, superseded>>
      /\ pc'[r] \in {"finish", "done"} /\ \A q \in Requests \ {r} : pc'[q] = pc[q]
  BY DEF Write, Goto, TypeInv, TypeOK, flights
<1>2. ASSUME NEW s \in Stores, NEW k \in Keys
      PROVE  \/ store'[s][k] = store[s][k]
             \/ store'[s][k] = r /\ s = req[r].store /\ k = req[r].key
  <2>1. /\ store \in [Stores -> [Keys -> Responses \cup {NoResponse}]]
        /\ req[r].store \in Stores /\ req[r].key \in Keys
        /\ store' = store \/ store' = [store EXCEPT ![req[r].store][req[r].key] = r]
    BY EntryType DEF TypeInv, TypeOK, Write
  <2> QED BY <2>1
<1>3. Versions'
  <2>1. ASSUME NEW q \in Requests, pc'[q] \in {"handler", "lock", "write"}
        PROVE  made[q].version \in 1..origin
    BY <1>1, <2>1 DEF FenceInv, Versions
  <2>2. ASSUME NEW s \in Stores, NEW k \in Keys, NEW e, e = store'[s][k], e \in Requests
        PROVE  made[e].version \in 1..origin
    BY <1>1, <1>2, <2>2 DEF FenceInv, Versions
  <2> QED BY <1>1, <2>1, <2>2 DEF FenceInv, Versions
<1>4. OneWriter'
  BY <1>1 DEF FenceInv, OneWriter
<1>5. InOrder'
  <2> SUFFICES ASSUME Fenced(deployment), NobodyLate, NEW q \in Requests, MayWrite(q)'
               PROVE  /\ Entry(q)' \in Requests => made[Entry(q)'].version <= made[q].version
                      /\ \A p \in Requests :
                           pc'[p] = "write" /\ SameEntry(p, q) => made[p].version <= made[q].version
    BY <1>1 DEF InOrder, Fenced, SameEntry, NobodyLate
  <2>1. MayWrite(q)
    BY <1>1 DEF MayWrite
  <2>2. ASSUME NEW e, e = Entry(q)', e \in Requests PROVE made[e].version <= made[q].version
    <3>1. req[q].store \in Stores /\ req[q].key \in Keys /\ e = store'[req[q].store][req[q].key]
      BY <1>1, <2>2, EntryType DEF Entry
    <3>2. CASE e = Entry(q)
      BY <2>1, <2>2, <3>2 DEF FenceInv, InOrder
    <3>3. CASE e = r /\ SameEntry(r, q)
      BY <1>1, <2>1, <3>3 DEF FenceInv, InOrder
    <3> QED BY <1>2, <3>1, <3>2, <3>3 DEF Entry, SameEntry
  <2>3. ASSUME NEW p \in Requests, pc'[p] = "write", SameEntry(p, q)
        PROVE  made[p].version <= made[q].version
    BY <1>1, <2>1, <2>3 DEF FenceInv, InOrder
  <2> QED BY <2>2, <2>3
<1> QED BY <1>3, <1>4, <1>5 DEF FenceInv

LEMMA OthersKeepFence ==
  ASSUME TypeInv, FlightInv, SharedInv, FenceInv,
         \/ \E r \in Requests :
              \/ Arrive(r) \/ Lead(r) \/ Join(r) \/ Finish(r)
              \/ (Lookup(r) \/ InnerLookup(r)) /\ ~EnterHandler(r)
              \/ Answer(r) \/ HandlerNext(r) \/ Recover(r)
              \/ TimerFires(r) \/ TimerForgets(r) \/ GoesStale(r)
         \/ OriginChanges
         \/ \E s \in Stores, k \in Keys : EntryGoes(s, k)
         \/ UNCHANGED vars
  PROVE  FenceInv'
<1>1. UNCHANGED <<deployment, req>>
  BY DEF Arrive, Lookup, Lead, Join, InnerLookup, Finish, Answer, HandlerNext, Recover, TimerFires,
     TimerForgets, GoesStale, OriginChanges, EntryGoes, vars, world
<1>2. origin' >= origin /\ origin' \in 1..deployment.changes + 1
  <2>1. origin \in 1..deployment.changes + 1 /\ deployment.changes \in Nat /\ origin \in Nat
    BY ConstantsAssumption DEF FenceInv, Versions, TypeInv, TypeOK
  <2>2. origin' = origin \/ (origin <= deployment.changes /\ origin' = origin + 1)
    BY DEF Arrive, Lookup, Lead, Join, InnerLookup, Finish, Answer, HandlerNext, Recover, TimerFires,
       TimerForgets, GoesStale, OriginChanges, EntryGoes, vars, world
  <2> QED BY <2>1, <2>2
<1>3. NobodyLate' => NobodyLate
  <2>1. ASSUME NEW q \in Requests, timer[q] = "late" PROVE timer'[q] = "late"
    <3>1. CASE \E r \in Requests : Finish(r)
      <4>1. PICK r \in Requests : Finish(r)
        BY <3>1
      <4>2. /\ timer \in [Requests -> {"off", "armed", "fired", "late"}]
            /\ timer' = [timer EXCEPT ![r] = IF timer[r] = "armed" THEN "off" ELSE timer[r]]
        BY <4>1 DEF Finish, StopTimer, TypeInv, TypeOK
      <4> QED BY ONLY <2>1, <4>2, q \in Requests
    <3>2. CASE \E r \in Requests : Lead(r)
      <4>1. PICK r \in Requests : Lead(r)
        BY <3>2
      <4>2. CASE q = r
        <5>1. timer[r] = "off"
          BY <4>1 DEF Lead, FlightInv, NotYetLeading, Early
        <5> QED BY <2>1, <4>2, <5>1
      <4>3. CASE q # r
        BY <2>1, <4>1, <4>3 DEF Lead, TypeInv, TypeOK
      <4> QED BY <4>2, <4>3
    <3>3. CASE \E r \in Requests : TimerFires(r) \/ TimerForgets(r)
      BY <2>1, <3>3 DEF TimerFires, TimerForgets, TypeInv, TypeOK
    <3>4. CASE timer' = timer
      BY <2>1, <3>4
    <3> QED BY <3>1, <3>2, <3>3, <3>4 DEF Arrive, Lookup, Join, InnerLookup, Answer, HandlerNext,
            Recover, GoesStale, OriginChanges, EntryGoes, vars, flights
  <2> QED BY <2>1 DEF NobodyLate
<1>4. \A s \in Stores, k \in Keys : store'[s][k] \in {store[s][k], NoResponse}
  <2>1. CASE \E t \in Stores, m \in Keys : EntryGoes(t, m)
    BY <2>1 DEF EntryGoes, TypeInv, TypeOK
  <2>2. CASE store' = store
    BY <2>2
  <2> QED BY <2>1, <2>2 DEF Arrive, Lookup, Lead, Join, InnerLookup, Finish, Answer, HandlerNext,
          Recover, TimerFires, TimerForgets, GoesStale, OriginChanges, vars, world
<1>5. ASSUME NEW q \in Requests, pc'[q] \in {"handler", "lock", "write"} PROVE pc'[q] = pc[q]
  <2>1. CASE \E r \in Requests : Finish(r)
    BY <1>5, <2>1, FinishSteps
  <2>2. CASE \E r \in Requests : Arrive(r) \/ Lead(r) \/ Join(r)
    BY <1>5, <2>2 DEF Arrive, Lead, Join, Goto, TypeInv, TypeOK
  <2>5. CASE \E r \in Requests : (Lookup(r) \/ InnerLookup(r)) /\ ~EnterHandler(r)
    <3>1. PICK r \in Requests : \E step \in {"done", "do", "finish"} : Goto(r, step)
      BY <2>5 DEF Lookup, InnerLookup, Serve
    <3> QED BY <1>5, <3>1 DEF Goto, TypeInv, TypeOK
  <2>3. CASE \E r \in Requests : Answer(r) \/ HandlerNext(r) \/ Recover(r)
    BY <1>5, <2>3 DEF Answer, HandlerNext, Recover, Serve, Goto, TypeInv, TypeOK
  <2>4. CASE pc' = pc
    BY <2>4
  <2> QED BY <2>1, <2>2, <2>3, <2>4, <2>5 DEF TimerFires, TimerForgets, GoesStale, OriginChanges,
          EntryGoes, vars
<1>6. ASSUME NEW q \in Requests, pc'[q] \in {"handler", "lock"}, ~superseded'[q] PROVE ~superseded[q]
  <2>1. CASE \E r \in Requests : Finish(r)
    <3>1. PICK r \in Requests : Finish(r)
      BY <2>1
    <3>2. q # r
      BY <1>6, <3>1, FinishSteps
    <3> QED BY <1>6, <3>1, <3>2 DEF Finish, TypeInv, TypeOK
  <2>2. CASE \E r \in Requests : TimerFires(r)
    BY <1>6, <2>2 DEF TimerFires, TypeInv, TypeOK
  <2>3. CASE superseded' = superseded
    BY <1>6, <2>3
  <2> QED BY <2>1, <2>2, <2>3 DEF Arrive, Lookup, Lead, Join, InnerLookup, Answer, HandlerNext,
          Recover, TimerForgets, GoesStale, OriginChanges, EntryGoes, vars, flights
<1>7. ASSUME NEW q \in Requests, pc[q] # "next" PROVE made'[q] = made[q]
  <2>1. CASE \E r \in Requests : HandlerNext(r)
    BY <1>7, <2>1 DEF HandlerNext, TypeInv, TypeOK
  <2>2. CASE made' = made
    BY <2>2
  <2> QED BY <2>1, <2>2 DEF Arrive, Lookup, Lead, Join, InnerLookup, Finish, Answer, Recover,
          TimerFires, TimerForgets, GoesStale, OriginChanges, EntryGoes, vars
<1>8. ASSUME NEW q \in Requests, pc'[q] \in {"handler", "lock", "write"} PROVE made'[q] = made[q]
  BY <1>5, <1>7, <1>8
<1>9. ASSUME NEW s \in Stores, NEW k \in Keys, store[s][k] \in Requests
      PROVE  made'[store[s][k]] = made[store[s][k]]
  BY <1>7, <1>9 DEF SharedInv, StoreHolds, MadeFor, TypeInv, Legal, Unanswered
<1> QED BY <1>1, <1>2, <1>3, <1>4, <1>5, <1>6, <1>8, <1>9, NobodyWrites

LEMMA FenceInvariant == Spec => []FenceInv
<1>1. TypeInv /\ FlightInv /\ SharedInv /\ FenceInv /\ [Next]_vars => FenceInv'
  BY EnterKeepsFence, HandlerKeepsFence, CheckKeepsFence, WriteKeepsFence, OthersKeepFence
     DEF Next, Step, Terminated
<1> QED BY <1>1, FenceInit, TypeInvariant, FlightInvariant, SharedInvariant, PTL DEF Spec

\* Where the data behind the handlers changes, the requests of one entry go
\* through the fence and share their flight key.
FencedDeployments == \A d \in Deployments : d.changes = 0 \/ Fenced(d)

LEMMA FencedWrite ==
  ASSUME FencedDeployments, TypeInv, SharedInv, FenceInv, [Next]_vars
  PROVE  \A s \in Stores, k \in Keys :
           NobodyLate /\ store[s][k] \in Requests /\ store'[s][k] \in Requests
             => made'[store'[s][k]].version >= made[store[s][k]].version
<1> SUFFICES ASSUME NEW s \in Stores, NEW k \in Keys, NobodyLate, NEW e, e = store'[s][k],
                    e \in Requests, store[s][k] \in Requests
             PROVE  made'[e].version >= made[store[s][k]].version
  OBVIOUS
<1>0. \A q \in Requests : made[q].version \in Nat
  BY DEF TypeInv, TypeOK
<1>1. /\ runs[store[s][k]] = 1
      /\ made'[store[s][k]] = made[store[s][k]]
  BY MadeStays DEF SharedInv, StoreHolds, MadeFor
<1>2. CASE e = store[s][k]
  BY <1>0, <1>1, <1>2
<1>3. CASE \E r \in Requests : Write(r) /\ e = r /\ s = req[r].store /\ k = req[r].key
  <2>1. PICK r \in Requests : Write(r) /\ e = r /\ s = req[r].store /\ k = req[r].key
    BY <1>3
  <2>2. pc[r] = "write" /\ made' = made /\ Entry(r) = store[s][k]
    BY <2>1 DEF Write, Entry
  <2>3. CASE Fenced(deployment)
    BY <1>0, <2>1, <2>2, <2>3 DEF FenceInv, InOrder, MayWrite
  <2>4. CASE deployment.changes = 0
    <3>1. made[r].version \in 1..origin /\ made[store[s][k]].version \in 1..origin /\ origin \in 1..1
      BY <2>2, <2>4 DEF FenceInv, Versions
    <3> QED BY <2>1, <2>2, <3>1
  <2> QED BY <2>3, <2>4 DEF FencedDeployments, TypeInv, TypeOK
<1>4. \/ e = store[s][k]
      \/ \E r \in Requests : Write(r) /\ e = r /\ s = req[r].store /\ k = req[r].key
  <2>1. store \in [Stores -> [Keys -> Responses \cup {NoResponse}]] /\ e # NoResponse
    BY ConstantsAssumption DEF TypeInv, TypeOK
  <2>2. ASSUME NEW r \in Requests, Write(r)
        PROVE  e = store[s][k] \/ (e = r /\ s = req[r].store /\ k = req[r].key)
    <3>1. /\ req[r].store \in Stores /\ req[r].key \in Keys
          /\ store' = store \/ store' = [store EXCEPT ![req[r].store][req[r].key] = r]
      BY <2>2, EntryType DEF Write
    <3> QED BY <2>1, <3>1
  <2>3. CASE \E t \in Stores, m \in Keys : EntryGoes(t, m)
    BY <2>1, <2>3 DEF EntryGoes
  <2>4. CASE store' = store
    BY <2>4
  <2> QED BY <2>2, <2>3, <2>4 DEF Next, Step, Arrive, Lookup, Lead, Join, InnerLookup,
          HandlerReturns, CheckFence, Finish, Answer, HandlerNext, Recover, TimerFires,
          TimerForgets, GoesStale, OriginChanges, Terminated, vars, world
<1> QED BY <1>2, <1>3, <1>4

\* The fence does what the comment of cacheResponseFenced says, for any number
\* of flights, timers and changes: no entry is replaced by a response made from
\* older data, unless a timer's goroutine was late with Forget.
THEOREM FencedWritesHold ==
  ASSUME FencedDeployments
  PROVE  Spec => NewerEntryStays
<1>1. FencedDeployments /\ TypeInv /\ SharedInv /\ FenceInv /\ [Next]_vars
        => [\A s \in Stores, k \in Keys :
              NobodyLate /\ store[s][k] \in Requests /\ store'[s][k] \in Requests
                => made'[store'[s][k]].version >= made[store[s][k]].version]_vars
  BY FencedWrite
<1> QED BY <1>1, TypeInvariant, SharedInvariant, FenceInvariant, PTL DEF Spec, NewerEntryStays
====
