---------------------------- MODULE LocalAdapter ----------------------------
(***************************************************************************)
(* localadapter.Owner and its Stores: namespaced views of one native cache *)
(* engine (Ristretto, BigCache or FreeCache).  A channel of capacity one,  *)
(* the gate, admits one operation at a time; closing the owner is a flag   *)
(* set without the gate and work done inside it.                           *)
(*                                                                         *)
(* A record is what encodeRecord writes: the full physical key, the        *)
(* sequence number of its Set, and the logical deadline.  Engines find     *)
(* records by hash, may drop any of them and may refuse a new one.  The    *)
(* TTL an engine gets is modelled for FreeCache, whose clock counts whole  *)
(* seconds.                                                                *)
(***************************************************************************)
EXTENDS Naturals, FiniteSets

CONSTANTS
  Procs,        \* goroutines
  Views,        \* Store objects
  NamespaceOf,  \* the namespace each of them asks for
  Keys,
  SlotOf,       \* the engine's slot for a namespace and key: keys may collide
  TTLs,         \* the TTLs of Set calls, 0 for none
  Owned,        \* NewOwner, not WrapOwner
  Free,         \* nobody holds the gate
  NoRecord,
  Second,       \* units of the clock in a second
  MaxSecond,    \* the last second of FreeCache's clock, 2^32 - 1 in the code
  MaxTime,      \* bound: readings of the clock
  MaxSequence   \* the largest sequence number, 2^64 - 1 in the code

Namespaces == {NamespaceOf[v] : v \in Views}
Slots == {SlotOf[n][k] : n \in Namespaces, k \in Keys}

Operations == {"new", "get", "set", "delete", "closeView", "closeOwner"}

\* The operations that stop when their context is cancelled, and those that
\* go on when the owner is closing.
WithContext == {"set", "closeOwner"}
Closing == {"closeView", "closeOwner"}

ASSUME ConstantsAssumption ==
  /\ Free \notin Procs
  /\ Views # {} /\ Keys # {}
  /\ TTLs \subseteq Nat
  /\ Owned \in BOOLEAN
  /\ Second \in Nat \ {0}
  /\ MaxSecond \in Nat
  /\ MaxTime \in Nat \ {0}
  /\ MaxSequence \in Nat

VARIABLES
  gate,      \* who took the token out of the channel, or Free
  state,     \* Owner.state
  closes,    \* how often the native engine was closed
  bound,     \* the views NewStore returned
  closed,    \* the views that are closed
  sequence,  \* Owner.sequence
  slots,     \* the native engine
  now,       \* the clock
  pc, op, view, key,
  deadline,  \* the deadline a Set computed when it was called, 0 for none
  found      \* the record a Get returns

owner == <<state, closes, sequence>>
call  == <<op, view, key, deadline>>
vars == <<gate, owner, bound, closed, slots, now, pc, call, found>>

Record == [namespace : Namespaces, key : Keys, sequence : 1 .. MaxSequence,
           deadline : Nat, native : Nat]

TypeOK ==
  /\ gate \in Procs \cup {Free}
  /\ state \in {"active", "closing", "closed"}
  /\ closes \in Nat
  /\ bound \subseteq Views
  /\ closed \subseteq Views
  /\ sequence \in 0 .. MaxSequence
  /\ slots \in [Slots -> Record \cup {NoRecord}]
  /\ now \in 1 .. MaxTime
  /\ pc \in [Procs -> {"idle", "queue", "admitted", "native", "answer"}]
  /\ op \in [Procs -> Operations]
  /\ view \in [Procs -> Views]
  /\ key \in [Procs -> Keys]
  /\ deadline \in [Procs -> Nat]
  /\ found \in [Procs -> Record \cup {NoRecord}]

\* The view and the key of a goroutine that is in no call.
FirstView == CHOOSE v \in Views : TRUE
FirstKey == CHOOSE k \in Keys : TRUE

Init ==
  /\ gate = Free
  /\ state = "active"
  /\ closes = 0
  /\ bound = {}
  /\ closed = {}
  /\ sequence = 0
  /\ slots = [h \in Slots |-> NoRecord]
  /\ now = 1
  /\ pc = [p \in Procs |-> "idle"]
  /\ op = [p \in Procs |-> "get"]
  /\ view = [p \in Procs |-> FirstView]
  /\ key = [p \in Procs |-> FirstKey]
  /\ deadline = [p \in Procs |-> 0]
  /\ found = [p \in Procs |-> NoRecord]

Goto(p, step) == pc' = [pc EXCEPT ![p] = step]

\* p returns to its caller and its variables go out of scope.
Return(p) ==
  /\ Goto(p, "idle")
  /\ op' = [op EXCEPT ![p] = "get"]
  /\ view' = [view EXCEPT ![p] = FirstView]
  /\ key' = [key EXCEPT ![p] = FirstKey]
  /\ deadline' = [deadline EXCEPT ![p] = 0]

\* p hands the gate to somebody else and returns.
Release(p) == gate' = Free /\ Return(p)

Slot(p) == SlotOf[NamespaceOf[view[p]]][key[p]]

\* The record in the slot is one of p's key, not of one that collides.
Mine(p, record) ==
  /\ record # NoRecord
  /\ record.namespace = NamespaceOf[view[p]]
  /\ record.key = key[p]

Expired(record) == record.deadline # 0 /\ record.deadline <= now

-----------------------------------------------------------------------------

\* A call on a view that is not closed, of an owner that is not closing; any
\* other returns ErrClosed with no effect.  Close calls are always admitted.
\* NewStore is called on the owner, for a view that it has not returned yet, and
\* Close for none.
\* Owner.Close sets the state, without the gate, before it queues.
Call(p, o, v, k, ttl) ==
  /\ pc[p] = "idle"
  /\ o \notin Closing => state = "active" /\ v \notin closed
  /\ o = "new" => v \notin bound
  /\ o \notin {"new", "closeOwner"} => v \in bound
  /\ o = "closeOwner" => v = FirstView
  /\ op' = [op EXCEPT ![p] = o]
  /\ view' = [view EXCEPT ![p] = v]
  /\ key' = [key EXCEPT ![p] = k]
  /\ deadline' = [deadline EXCEPT ![p] = IF o = "set" /\ ttl > 0 THEN now + ttl ELSE 0]
  /\ state' = IF o = "closeOwner" /\ state = "active" THEN "closing" ELSE state
  /\ Goto(p, "queue")
  /\ UNCHANGED <<gate, closes, sequence, bound, closed, slots, now, found>>

\* p receives the token.
Acquire(p) ==
  /\ pc[p] = "queue"
  /\ gate = Free
  /\ gate' = p
  /\ Goto(p, "admitted")
  /\ UNCHANGED <<owner, bound, closed, slots, now, call, found>>

\* p's context is cancelled while it waits for the token.
Cancel(p) ==
  /\ pc[p] = "queue"
  /\ op[p] \in WithContext
  /\ Return(p)
  /\ UNCHANGED <<gate, owner, bound, closed, slots, now, found>>

\* The checks are those made before the gate was taken.
MayEnter_OwnerSlip(p) == op[p] \in Closing \/ view[p] \notin closed

MayEnter_ViewSlip(p) == op[p] \in Closing \/ state = "active"

\* acquire looks at the owner's state again, and the view at its own.
MayEnter(p) == op[p] \in Closing \/ (state = "active" /\ view[p] \notin closed)

\* The early return keeps the token.
Refuse_Slip(p) == gate' = gate /\ Return(p)

\* The early returns of acquire give the token back.
Refuse(p) == Release(p)

\* With the token in hand p looks again, and goes in or returns; a context that
\* was cancelled in the meantime is looked at again too.
Enter(p) ==
  /\ pc[p] = "admitted"
  /\ \/ MayEnter(p) /\ Goto(p, "native") /\ UNCHANGED <<gate, call>>
     \/ ~MayEnter(p) /\ Refuse(p)
     \/ op[p] \in WithContext /\ Refuse(p)
  /\ UNCHANGED <<owner, bound, closed, slots, now, found>>

Inside(p, o) == pc[p] = "native" /\ op[p] = o

\* NewStore: a namespace is bound once, even if its view was closed since.
NewStore(p) ==
  /\ Inside(p, "new")
  /\ bound' = IF \E v \in bound : NamespaceOf[v] = NamespaceOf[view[p]]
                THEN bound ELSE bound \cup {view[p]}
  /\ Release(p)
  /\ UNCHANGED <<owner, closed, slots, now, found>>

\* GetBytes
Get(p) ==
  LET record == slots[Slot(p)] IN
  /\ Inside(p, "get")
  /\ found' = [found EXCEPT ![p] = IF Mine(p, record) /\ ~Expired(record)
                                     THEN record ELSE NoRecord]
  /\ gate' = Free
  /\ Goto(p, "answer")
  /\ UNCHANGED <<owner, bound, closed, slots, now, call>>

\* Get returns what it has found.
Answer(p) ==
  /\ pc[p] = "answer"
  /\ found' = [found EXCEPT ![p] = NoRecord]
  /\ Return(p)
  /\ UNCHANGED <<gate, owner, bound, closed, slots, now>>

\* The deadline of p's Set passed while p waited for the gate.
Late(p) == deadline[p] # 0 /\ deadline[p] <= now

\* The sequence wraps around.
Exhausted_Slip == FALSE

\* No sequence number is left.
Exhausted == sequence = MaxSequence

\* FreeCache's time is rounded down, the TTL is not.
FreeExpiration_Slip(ttl) ==
  LET seconds == (ttl + Second - 1) \div Second
  IN  IF ttl = 0 \/ now \div Second + seconds > MaxSecond THEN 0 ELSE seconds

\* freeExpiration: whole seconds, one more because FreeCache's time is rounded
\* down, and none if its clock could not count that far.
FreeExpiration(ttl) ==
  LET seconds == ttl \div Second + (IF ttl % Second = 0 THEN 1 ELSE 2)
  IN  IF ttl = 0 \/ now \div Second + seconds > MaxSecond THEN 0 ELSE seconds

\* When FreeCache will expire a record it stores now, 0 for never.
NativeExpiry(ttl) ==
  IF FreeExpiration(ttl) = 0 THEN 0
  ELSE Second * ((now \div Second + FreeExpiration(ttl)) % (MaxSecond + 1))

\* setBytes.  What the engine gets as TTL is what is left of it; 0 means none.
Set(p) ==
  /\ Inside(p, "set")
  /\ IF Late(p) \/ Exhausted
       THEN UNCHANGED <<sequence, slots>>
       ELSE /\ sequence' = sequence + 1
            /\ \/ slots' = [slots EXCEPT ![Slot(p)] =
                    [namespace |-> NamespaceOf[view[p]], key |-> key[p],
                     sequence |-> sequence', deadline |-> deadline[p],
                     native |-> NativeExpiry(IF deadline[p] > now THEN deadline[p] - now ELSE 0)]]
               \/ slots' = slots
  /\ Release(p)
  /\ UNCHANGED <<state, closes, bound, closed, now, found>>

\* Store.Delete
Delete(p) ==
  /\ Inside(p, "delete")
  /\ slots' = IF Mine(p, slots[Slot(p)]) THEN [slots EXCEPT ![Slot(p)] = NoRecord]
              ELSE slots
  /\ Release(p)
  /\ UNCHANGED <<owner, bound, closed, now, found>>

\* Store.Close
CloseView(p) ==
  /\ Inside(p, "closeView")
  /\ closed' = closed \cup {view[p]}
  /\ Release(p)
  /\ UNCHANGED <<owner, bound, slots, now, found>>

\* Owner.Close
CloseOwner(p) ==
  /\ Inside(p, "closeOwner")
  /\ closes' = IF Owned /\ state # "closed" THEN closes + 1 ELSE closes
  /\ state' = "closed"
  /\ Release(p)
  /\ UNCHANGED <<sequence, bound, closed, slots, now, found>>

\* The engine expires or evicts a record.
Drop(h) ==
  /\ slots[h] # NoRecord
  /\ slots' = [slots EXCEPT ![h] = NoRecord]
  /\ UNCHANGED <<gate, owner, bound, closed, now, pc, call, found>>

Tick ==
  /\ now < MaxTime
  /\ now' = now + 1
  /\ UNCHANGED <<gate, owner, bound, closed, slots, pc, call, found>>

Work(p) ==
  \/ Enter(p) \/ NewStore(p) \/ Get(p) \/ Answer(p) \/ Set(p) \/ Delete(p) \/ CloseView(p) \/ CloseOwner(p)

Next ==
  \/ \E p \in Procs :
       \/ \E o \in Operations, v \in Views, k \in Keys, ttl \in TTLs : Call(p, o, v, k, ttl)
       \/ Acquire(p) \/ Cancel(p) \/ Work(p)
  \/ \E h \in Slots : Drop(h)
  \/ Tick

\* Whoever holds the token goes on, and a channel serves its receivers in the
\* order in which they came, so nobody waits for the token forever.
Fairness == \A p \in Procs : WF_vars(Work(p)) /\ SF_vars(Acquire(p))

Spec == Init /\ [][Next]_vars /\ Fairness

-----------------------------------------------------------------------------
(* Properties *)

Using(p) == pc[p] = "native" /\ op[p] \notin Closing

\* An engine that is owned is closed once, however many Close calls race or are
\* repeated after a timeout, and a borrowed one never; by then nobody is inside
\* it or goes in later, nor for a view whose Close has returned.  The flags that
\* Close sets are looked at again inside the gate, which admits one at a time.
NoUseAfterClose ==
  /\ closes = IF Owned /\ state = "closed" THEN 1 ELSE 0
  /\ \A p \in Procs : Using(p) => state # "closed" /\ view[p] \notin closed
  /\ \A p, q \in Procs : pc[p] = "native" /\ pc[q] = "native" => p = q

\* FreeCache, which counts whole seconds and may run on to the end of its 32-bit
\* clock, never expires a record before its logical deadline.
LivesUntilDeadline ==
  \A h \in Slots :
    slots[h] # NoRecord /\ slots[h].native # 0 => slots[h].native >= slots[h].deadline

\* Every call returns: each path gives the token back exactly once.
CallsReturn == \A p \in Procs : pc[p] = "queue" ~> pc[p] = "idle"
=============================================================================
