------------------------- MODULE LocalAdapterProofs -------------------------
(***************************************************************************)
(* Theorems about LocalAdapter, for any number of goroutines, views,       *)
(* namespaces and keys, however keys collide in the engine, and any length *)
(* of FreeCache's clock.                                                   *)
(***************************************************************************)
EXTENDS LocalAdapter, TLAPS

\* Whoever is past the gate has its token, and whoever uses the engine does so
\* while nobody has closed it or its view.
Legal(p) ==
  /\ pc[p] \in {"admitted", "native"} => gate = p
  /\ Using(p) => state = "active" \/ state = "closing"
  /\ Using(p) => view[p] \notin closed

TypeInv ==
  /\ TypeOK
  /\ closes = IF Owned /\ state = "closed" THEN 1 ELSE 0
  /\ \A p \in Procs : Legal(p)

LEMMA FirstType == FirstView \in Views /\ FirstKey \in Keys
  BY ConstantsAssumption DEF FirstView, FirstKey

LEMMA InitType == Init => TypeInv
<1> SUFFICES ASSUME Init PROVE TypeInv
  OBVIOUS
<1>1. TypeOK
  <2>1. now \in 1 .. MaxTime /\ sequence \in 0 .. MaxSequence /\ closes \in Nat
    <3>1. MaxTime \in Nat /\ MaxTime > 0 /\ MaxSequence \in Nat
      BY ConstantsAssumption
    <3>2. now = 1 /\ sequence = 0 /\ closes = 0
      BY DEF Init
    <3> QED BY ONLY <3>1, <3>2
  <2>2. /\ bound \subseteq Views /\ closed \subseteq Views
        /\ slots \in [Slots -> Record \cup {NoRecord}] /\ found \in [Procs -> Record \cup {NoRecord}]
    BY DEF Init
  <2>3. /\ pc \in [Procs -> {"idle", "queue", "admitted", "native", "answer"}]
        /\ op \in [Procs -> Operations]
    BY DEF Init, Operations
  <2>4. view \in [Procs -> Views] /\ key \in [Procs -> Keys] /\ deadline \in [Procs -> Nat]
    BY FirstType DEF Init
  <2> QED BY <2>1, <2>2, <2>3, <2>4 DEF Init, TypeOK
<1>2. ASSUME NEW p \in Procs PROVE Legal(p)
  BY DEF Init, Legal, Using
<1> QED BY <1>1, <1>2 DEF Init, TypeInv

\* A call returns.
LEMMA ReturnType ==
  ASSUME TypeInv, NEW p \in Procs, Return(p)
  PROVE  /\ pc' \in [Procs -> {"idle", "queue", "admitted", "native", "answer"}]
         /\ op' \in [Procs -> Operations] /\ view' \in [Procs -> Views]
         /\ key' \in [Procs -> Keys] /\ deadline' \in [Procs -> Nat]
         /\ pc'[p] = "idle"
         /\ \A q \in Procs \ {p} : UNCHANGED <<pc[q], op[q], view[q]>>
  BY FirstType DEF TypeInv, TypeOK, Return, Goto, Operations

\* What holds of everybody else after p has given the token back.
LEMMA ReleaseLegal ==
  ASSUME TypeInv, NEW p \in Procs, gate = p, Release(p),
         state' = state \/ ~Using(p), closed' = closed \/ ~Using(p)
  PROVE  \A q \in Procs : Legal(q)'
<1>1. ASSUME NEW q \in Procs PROVE Legal(q)'
  <2>1. CASE q = p
    BY <2>1, ReturnType DEF Release, Legal, Using
  <2>2. CASE q # p
    <3>1. pc'[q] = pc[q] /\ pc[q] \notin {"admitted", "native"}
      BY <2>2, ReturnType DEF Release, TypeInv, Legal
    <3> QED BY <3>1 DEF Legal, Using
  <2> QED BY <2>1, <2>2
<1> QED BY <1>1

\* The engine's slot of p's key.
LEMMA SlotType ==
  ASSUME TypeInv, NEW p \in Procs
  PROVE  /\ Slot(p) \in Slots /\ slots[Slot(p)] \in Record \cup {NoRecord}
         /\ view[p] \in Views /\ key[p] \in Keys /\ NamespaceOf[view[p]] \in Namespaces
  BY DEF TypeInv, TypeOK, Slot, Slots, Namespaces

LEMMA QueueType ==
  ASSUME TypeInv, NEW p \in Procs,
         \/ \E o \in Operations, v \in Views, k \in Keys, ttl \in TTLs : Call(p, o, v, k, ttl)
         \/ Acquire(p) \/ Cancel(p)
  PROVE  TypeInv'
<1>1. ASSUME NEW o \in Operations, NEW v \in Views, NEW k \in Keys, NEW ttl \in TTLs,
             Call(p, o, v, k, ttl)
      PROVE  TypeInv'
  <2>1. /\ pc[p] = "idle"
        /\ UNCHANGED <<gate, closes, sequence, bound, closed, slots, now, found>>
        /\ op' = [op EXCEPT ![p] = o] /\ view' = [view EXCEPT ![p] = v]
        /\ key' = [key EXCEPT ![p] = k]
        /\ pc' = [pc EXCEPT ![p] = "queue"]
    BY <1>1 DEF Call, Goto
  <2>2. state' = state \/ (state = "active" /\ state' = "closing")
    BY <1>1 DEF Call
  <2>3. deadline' \in [Procs -> Nat]
    <3>1. now \in Nat /\ ttl \in Nat
      BY ConstantsAssumption DEF TypeInv, TypeOK
    <3>2. deadline' = [deadline EXCEPT ![p] = IF o = "set" /\ ttl > 0 THEN now + ttl ELSE 0]
      BY <1>1 DEF Call
    <3>3. (IF o = "set" /\ ttl > 0 THEN now + ttl ELSE 0) \in Nat
      BY <3>1
    <3> QED BY <3>2, <3>3 DEF TypeInv, TypeOK
  <2>4. TypeOK'
    BY <2>1, <2>2, <2>3 DEF TypeInv, TypeOK
  <2>5. ASSUME NEW q \in Procs PROVE Legal(q)'
    <3>1. pc'[q] \in {"admitted", "native"} => /\ q # p /\ pc'[q] = pc[q] /\ op'[q] = op[q]
                                               /\ view'[q] = view[q]
      BY <2>1 DEF TypeInv, TypeOK
    <3> QED BY <2>1, <2>2, <3>1 DEF TypeInv, Legal, Using
  <2> QED BY <2>1, <2>2, <2>4, <2>5 DEF TypeInv
<1>2. CASE Acquire(p)
  <2>1. TypeOK'
    BY <1>2 DEF TypeInv, TypeOK, Acquire, Goto, owner, call
  <2>2. ASSUME NEW q \in Procs PROVE Legal(q)'
    BY <1>2, ConstantsAssumption DEF TypeInv, TypeOK, Legal, Using, Acquire, Goto, owner, call
  <2> QED BY <1>2, <2>1, <2>2 DEF TypeInv, Acquire, owner
<1>3. CASE Cancel(p)
  <2>1. TypeOK'
    BY <1>3, ReturnType DEF TypeInv, TypeOK, Cancel, owner
  <2>2. ASSUME NEW q \in Procs PROVE Legal(q)'
    BY <1>3, ReturnType DEF TypeInv, Legal, Using, Cancel, owner
  <2> QED BY <1>3, <2>1, <2>2 DEF TypeInv, Cancel, owner
<1> QED BY <1>1, <1>2, <1>3

LEMMA EnterType ==
  ASSUME TypeInv, NEW p \in Procs, Enter(p)
  PROVE  TypeInv'
<1>1. pc[p] = "admitted" /\ gate = p /\ UNCHANGED <<owner, bound, closed, slots, now, found>>
  BY DEF Enter, TypeInv, Legal
<1>2. CASE MayEnter(p) /\ Goto(p, "native") /\ UNCHANGED <<gate, call>>
  <2>1. TypeOK'
    BY <1>1, <1>2 DEF TypeInv, TypeOK, Goto, owner, call
  <2>2. ASSUME NEW q \in Procs PROVE Legal(q)'
    BY <1>1, <1>2 DEF TypeInv, TypeOK, Legal, Using, MayEnter, Goto, owner, call
  <2> QED BY <1>1, <2>1, <2>2 DEF TypeInv, owner
<1>3. CASE Release(p)
  <2>1. TypeOK'
    BY <1>1, <1>3, ReturnType DEF TypeInv, TypeOK, Release, owner
  <2> QED BY <1>1, <1>3, <2>1, ReleaseLegal DEF TypeInv, owner
<1> QED BY <1>2, <1>3 DEF Enter, Refuse

LEMMA GetType ==
  ASSUME TypeInv, NEW p \in Procs, Get(p) \/ Answer(p)
  PROVE  TypeInv'
<1>1. CASE Get(p)
  <2>1. /\ pc[p] = "native" /\ gate = p /\ gate' = Free
        /\ UNCHANGED <<owner, bound, closed, slots, now, call>> /\ Goto(p, "answer")
    BY <1>1 DEF Get, Inside, TypeInv, Legal
  <2>2. found' \in [Procs -> Record \cup {NoRecord}]
    <3>1. found' = [found EXCEPT ![p] = IF Mine(p, slots[Slot(p)]) /\ ~Expired(slots[Slot(p)])
                                          THEN slots[Slot(p)] ELSE NoRecord]
      BY <1>1 DEF Get
    <3>2. (IF Mine(p, slots[Slot(p)]) /\ ~Expired(slots[Slot(p)])
             THEN slots[Slot(p)] ELSE NoRecord) \in Record \cup {NoRecord}
      BY SlotType
    <3> QED BY <3>1, <3>2 DEF TypeInv, TypeOK
  <2>3. TypeOK'
    BY <2>1, <2>2 DEF TypeInv, TypeOK, Goto, owner, call
  <2>4. ASSUME NEW q \in Procs PROVE Legal(q)'
    <3>1. pc'[q] \notin {"admitted", "native"}
      BY <2>1 DEF TypeInv, TypeOK, Legal, Goto
    <3> QED BY <3>1 DEF Legal, Using
  <2> QED BY <2>1, <2>3, <2>4 DEF TypeInv, owner
<1>2. CASE Answer(p)
  <2>1. pc[p] = "answer" /\ UNCHANGED <<gate, owner, bound, closed, slots, now>> /\ Return(p)
        /\ found' = [found EXCEPT ![p] = NoRecord]
    BY <1>2 DEF Answer
  <2>2. TypeOK'
    BY <2>1, ReturnType DEF TypeInv, TypeOK, owner
  <2>3. ASSUME NEW q \in Procs PROVE Legal(q)'
    BY <2>1, ReturnType DEF TypeInv, Legal, Using, owner
  <2> QED BY <2>1, <2>2, <2>3 DEF TypeInv, owner
<1> QED BY <1>1, <1>2

\* When FreeCache expires a record is a time.
LEMMA NativeType ==
  ASSUME TypeInv, NEW ttl \in Nat
  PROVE  FreeExpiration(ttl) \in Nat /\ NativeExpiry(ttl) \in Nat
<1>1. now \in Nat /\ Second \in Nat \ {0} /\ MaxSecond \in Nat
  BY ConstantsAssumption DEF TypeInv, TypeOK
<1>2. ttl \div Second \in Nat /\ now \div Second \in Nat
  BY <1>1
<1>3. FreeExpiration(ttl) \in Nat
  BY <1>1, <1>2 DEF FreeExpiration
<1>4. now \div Second + FreeExpiration(ttl) \in Nat /\ MaxSecond + 1 \in Nat \ {0}
  BY <1>1, <1>2, <1>3
<1>5. (now \div Second + FreeExpiration(ttl)) % (MaxSecond + 1) \in Nat
  BY ONLY <1>4
<1> QED BY <1>1, <1>3, <1>5 DEF NativeExpiry

LEMMA SetType ==
  ASSUME TypeInv, NEW p \in Procs, Set(p)
  PROVE  TypeInv'
<1>1. /\ pc[p] = "native" /\ gate = p /\ Release(p)
      /\ UNCHANGED <<state, closes, bound, closed, now, found>>
  BY DEF Set, Inside, TypeInv, Legal
<1>2. sequence' \in 0 .. MaxSequence /\ slots' \in [Slots -> Record \cup {NoRecord}]
  <2>1. CASE UNCHANGED <<sequence, slots>>
    BY <2>1 DEF TypeInv, TypeOK
  <2>2. CASE ~Exhausted /\ sequence' = sequence + 1 /\ slots' = slots
    BY <2>2, ConstantsAssumption DEF Exhausted, TypeInv, TypeOK
  <2>3. ASSUME ~Exhausted, sequence' = sequence + 1, NEW native \in Nat,
               slots' = [slots EXCEPT ![Slot(p)] =
                  [namespace |-> NamespaceOf[view[p]], key |-> key[p],
                   sequence |-> sequence', deadline |-> deadline[p], native |-> native]]
        PROVE  sequence' \in 0 .. MaxSequence /\ slots' \in [Slots -> Record \cup {NoRecord}]
    <3>1. sequence' \in 1 .. MaxSequence
      BY <2>3, ConstantsAssumption DEF Exhausted, TypeInv, TypeOK
    <3>2. deadline[p] \in Nat /\ slots \in [Slots -> Record \cup {NoRecord}]
      BY DEF TypeInv, TypeOK
    <3>3. [namespace |-> NamespaceOf[view[p]], key |-> key[p],
           sequence |-> sequence', deadline |-> deadline[p], native |-> native] \in Record
      BY <3>1, <3>2, SlotType DEF Record
    <3>4. slots' \in [Slots -> Record \cup {NoRecord}]
      BY <2>3, <3>2, <3>3
    <3>5. MaxSequence \in Nat
      BY ConstantsAssumption
    <3> QED BY ONLY <3>1, <3>4, <3>5
  <2>4. NativeExpiry(IF deadline[p] > now THEN deadline[p] - now ELSE 0) \in Nat
    <3>1. deadline[p] \in Nat /\ now \in Nat
      BY ConstantsAssumption DEF TypeInv, TypeOK
    <3>2. (IF deadline[p] > now THEN deadline[p] - now ELSE 0) \in Nat
      BY <3>1
    <3> QED BY <3>2, NativeType
  <2> QED BY <2>1, <2>2, <2>3, <2>4 DEF Set
<1>3. TypeOK'
  BY <1>1, <1>2, ReturnType DEF TypeInv, TypeOK, Release
<1> QED BY <1>1, <1>3, ReleaseLegal DEF TypeInv

LEMMA NativeStepType ==
  ASSUME TypeInv, NEW p \in Procs, NewStore(p) \/ Delete(p) \/ CloseView(p) \/ CloseOwner(p)
  PROVE  TypeInv'
<1>1. /\ pc[p] = "native" /\ gate = p /\ Release(p) /\ UNCHANGED <<sequence, now, found>>
  BY DEF NewStore, Delete, CloseView, CloseOwner, Inside, TypeInv, Legal, owner
<1>2. bound' \subseteq Views /\ closed' \subseteq Views
  BY SlotType DEF NewStore, Delete, CloseView, CloseOwner, TypeInv, TypeOK
<1>3. slots' \in [Slots -> Record \cup {NoRecord}]
  BY DEF NewStore, Delete, CloseView, CloseOwner, TypeInv, TypeOK
<1>4. /\ state' \in {"active", "closing", "closed"}
      /\ closes' = IF Owned /\ state' = "closed" THEN 1 ELSE 0
  BY DEF NewStore, Delete, CloseView, CloseOwner, TypeInv, TypeOK, owner
<1>5. TypeOK'
  BY <1>1, <1>2, <1>3, <1>4, ReturnType DEF TypeInv, TypeOK, Release
<1>6. (state' = state \/ ~Using(p)) /\ (closed' = closed \/ ~Using(p))
  BY DEF NewStore, Delete, CloseView, CloseOwner, Inside, Using, Closing, owner
<1> QED BY <1>1, <1>4, <1>5, <1>6, ReleaseLegal DEF TypeInv

LEMMA WorldType ==
  ASSUME TypeInv, (\E h \in Slots : Drop(h)) \/ Tick \/ UNCHANGED vars
  PROVE  TypeInv'
<1>1. UNCHANGED <<gate, owner, bound, closed, pc, call, found>>
  BY DEF Drop, Tick, vars
<1>2. now' \in 1 .. MaxTime
  <2>1. MaxTime \in Nat /\ now \in 1 .. MaxTime
    BY ConstantsAssumption DEF TypeInv, TypeOK
  <2>2. now' = now \/ (now < MaxTime /\ now' = now + 1)
    BY DEF Drop, Tick, vars
  <2> QED BY ONLY <2>1, <2>2
<1>3. slots' \in [Slots -> Record \cup {NoRecord}]
  BY DEF Drop, Tick, vars, TypeInv, TypeOK
<1>4. TypeOK'
  BY <1>1, <1>2, <1>3 DEF TypeInv, TypeOK, owner, call
<1>5. ASSUME NEW p \in Procs PROVE Legal(p)'
  BY <1>1 DEF TypeInv, Legal, Using, owner, call
<1> QED BY <1>1, <1>4, <1>5 DEF TypeInv, owner

LEMMA TypeInvariant == Spec => []TypeInv
<1>1. TypeInv /\ [Next]_vars => TypeInv'
  BY QueueType, EnterType, GetType, SetType, NativeStepType, WorldType DEF Next, Work
<1> QED BY <1>1, InitType, PTL DEF Spec

\* Every reachable state is well typed: sequence numbers end at their largest
\* and do not wrap around, and the engine holds only records of known views.
THEOREM TypeCorrect == Spec => []TypeOK
<1>1. TypeInv => TypeOK
  BY DEF TypeInv
<1> QED BY <1>1, TypeInvariant, PTL

\* However many goroutines operate, close and are cancelled, the engine is closed
\* at most once and nobody is inside it, or in a closed view, afterwards.
THEOREM NobodyUsesAClosedEngine == Spec => []NoUseAfterClose
<1>1. TypeInv => NoUseAfterClose
  BY DEF TypeInv, Legal, NoUseAfterClose
<1> QED BY <1>1, TypeInvariant, PTL

-----------------------------------------------------------------------------
(* FreeCache's clock counts whole seconds and rounds down.                   *)

\* What division leaves.
LEMMA Rounding ==
  ASSUME NEW time \in Nat
  PROVE  /\ time \div Second \in Nat /\ time % Second \in 0 .. Second - 1
         /\ time = Second * (time \div Second) + (time % Second)
  BY ConstantsAssumption

\* A record that FreeCache will expire lives for its ttl from now.
LEMMA NativeCoversTTL ==
  ASSUME TypeInv, NEW ttl \in Nat, NativeExpiry(ttl) # 0
  PROVE  NativeExpiry(ttl) >= now + ttl
<1> DEFINE extra == IF ttl % Second = 0 THEN 1 ELSE 2
           seconds == ttl \div Second + extra
           end == now \div Second + seconds
<1>1. now \in Nat /\ Second \in Nat \ {0} /\ MaxSecond \in Nat
  BY ConstantsAssumption DEF TypeInv, TypeOK
<1>2. ttl # 0 /\ end <= MaxSecond /\ NativeExpiry(ttl) = Second * (end % (MaxSecond + 1))
  <2>1. seconds \in Nat /\ end \in Nat
    BY <1>1, Rounding
  <2>2. FreeExpiration(ttl) = IF ttl = 0 \/ end > MaxSecond THEN 0 ELSE seconds
    BY DEF FreeExpiration
  <2>3. FreeExpiration(ttl) # 0
    BY DEF NativeExpiry
  <2>4. ttl # 0 /\ ~(end > MaxSecond) /\ FreeExpiration(ttl) = seconds
    BY <2>2, <2>3
  <2>5. NativeExpiry(ttl) = Second * (end % (MaxSecond + 1))
    BY <2>3, <2>4 DEF NativeExpiry
  <2> HIDE DEF seconds, end
  <2> QED BY <1>1, <2>1, <2>4, <2>5
<1>3. end \in Nat /\ end % (MaxSecond + 1) = end
  <2>1. end \in Nat
    BY <1>1, Rounding
  <2> HIDE DEF end
  <2> QED BY <1>1, <1>2, <2>1
<1>4. /\ Second * end = Second * (now \div Second) + Second * (ttl \div Second) + Second * extra
      /\ now \div Second \in Nat /\ ttl \div Second \in Nat
  <2>1. now \div Second \in Nat /\ ttl \div Second \in Nat /\ extra \in Nat
    BY <1>1, Rounding
  <2> HIDE DEF extra
  <2> QED BY <1>1, <2>1
<1>5. now <= Second * (now \div Second) + Second - 1
  BY <1>1, Rounding
<1>6. ttl <= Second * (ttl \div Second) + Second * extra - Second
  <2>1. ttl = Second * (ttl \div Second) + (ttl % Second) /\ ttl % Second \in 0 .. Second - 1
    BY Rounding
  <2>2. CASE ttl % Second = 0
    BY <1>1, <2>1, <2>2
  <2>3. CASE ttl % Second # 0
    BY <1>1, <2>1, <2>3
  <2> QED BY <2>2, <2>3
<1>7. Second * end >= now + ttl
  <2>1. extra \in Nat
    OBVIOUS
  <2> HIDE DEF extra, end
  <2> QED BY <1>1, <1>4, <1>5, <1>6, <2>1
<1> HIDE DEF end
<1> QED BY <1>2, <1>3, <1>7

LEMMA SetCovers ==
  ASSUME TypeInv, LivesUntilDeadline, NEW p \in Procs, Set(p)
  PROVE  LivesUntilDeadline'
<1>1. CASE slots' = slots
  BY <1>1 DEF LivesUntilDeadline
<1>2. ASSUME ~Late(p), NEW native,
             native = NativeExpiry(IF deadline[p] > now THEN deadline[p] - now ELSE 0),
             slots' = [slots EXCEPT ![Slot(p)] =
                [namespace |-> NamespaceOf[view[p]], key |-> key[p],
                 sequence |-> sequence', deadline |-> deadline[p], native |-> native]]
      PROVE  LivesUntilDeadline'
  <2>1. deadline[p] \in Nat /\ now \in Nat
    BY ConstantsAssumption DEF TypeInv, TypeOK
  <2>2. native # 0 => native >= deadline[p]
    <3>1. CASE deadline[p] = 0
      <4>1. native = NativeExpiry(0)
        BY <1>2, <2>1, <3>1
      <4>2. FreeExpiration(0) = 0
        BY DEF FreeExpiration
      <4> QED BY <4>1, <4>2 DEF NativeExpiry
    <3>2. CASE deadline[p] # 0
      <4>1. deadline[p] > now /\ deadline[p] - now \in Nat
        BY <1>2, <2>1, <3>2 DEF Late
      <4>2. native = NativeExpiry(deadline[p] - now)
        BY <1>2, <4>1
      <4>3. native # 0 => native >= now + (deadline[p] - now)
        BY <4>1, <4>2, NativeCoversTTL
      <4> QED BY <2>1, <4>3
    <3> QED BY <3>1, <3>2
  <2>3. slots \in [Slots -> Record \cup {NoRecord}] /\ Slot(p) \in Slots
    BY SlotType DEF TypeInv, TypeOK
  <2> QED BY <1>2, <2>2, <2>3 DEF LivesUntilDeadline
<1> QED BY <1>1, <1>2 DEF Set

\* Whatever the TTLs and however far its clock can count, FreeCache expires no
\* record before its logical deadline.
THEOREM RecordsOutliveTheirDeadline == Spec => []LivesUntilDeadline
<1>1. Init => LivesUntilDeadline
  BY DEF Init, LivesUntilDeadline
<1>2. TypeInv /\ LivesUntilDeadline /\ [Next]_vars => LivesUntilDeadline'
  <2> SUFFICES ASSUME TypeInv, LivesUntilDeadline, [Next]_vars PROVE LivesUntilDeadline'
    OBVIOUS
  <2>1. CASE \E p \in Procs : Set(p)
    BY <2>1, SetCovers
  <2>3. CASE \E p \in Procs : Delete(p)
    BY <2>3 DEF Delete, LivesUntilDeadline, TypeInv, TypeOK
  <2>4. CASE \E h \in Slots : Drop(h)
    BY <2>4 DEF Drop, LivesUntilDeadline, TypeInv, TypeOK
  <2>5. CASE slots' = slots
    BY <2>5 DEF LivesUntilDeadline
  <2> QED BY <2>1, <2>3, <2>4, <2>5 DEF Next, Work, Call, Acquire, Cancel, Enter, NewStore, Get,
          Answer, CloseView, CloseOwner, Tick, vars
<1> QED BY <1>1, <1>2, TypeInvariant, PTL DEF Spec
====
