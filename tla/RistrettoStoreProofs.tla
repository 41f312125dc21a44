------------------------ MODULE RistrettoStoreProofs ------------------------
(***************************************************************************)
(* Theorems about RistrettoStore, for any clients, keys and buffer.  The   *)
(* argument is about Sets that overlap no other call: whoever is about to  *)
(* untrack a key has seen or made Ristretto not hold what such a Set       *)
(* wrote, and what Ristretto has once lost it never gets back, since the   *)
(* Set that could still bring it waits for Ristretto's goroutine.          *)
(***************************************************************************)
EXTENDS RistrettoStore, TLAPS

\* What a client's step says about the call it is in.
CallInv ==
  \A c \in Clients :
    /\ pc[c] = "idle" => op[c] = "stats"
    /\ pc[c] \in {"put", "sync", "track"} => op[c] = "set"
    /\ pc[c] = "remove" => op[c] \in {"delete", "deletePattern"}
    /\ pc[c] \in {"untrack", "wait", "waiting"} => op[c] \in {"set", "delete", "deletePattern"}
    /\ pc[c] = "maybePrune" => op[c] \in {"set", "delete"}
    /\ pc[c] = "range" => op[c] = "deletePattern"
    /\ waitOnMutation /\ op[c] = "set" =>
         pc[c] \in {"put", "wait", "waiting", "sync", "track", "untrack", "return"}
    /\ op[c] \in {"set", "delete"} \/ pc[c] \in {"remove", "untrack", "drop"} => key[c] \in Keys

\* Who waits for Ristretto's goroutine is in its buffer, and only once.
BufferInv ==
  \A i \in 1 .. Len(buffer) : buffer[i].type = "wait" =>
    /\ pc[buffer[i].client] = "waiting"
    /\ \A j \in 1 .. Len(buffer) :
         buffer[j].type = "wait" /\ buffer[j].client = buffer[i].client => j = i

\* Every Set has a version of its own, and has it until it returns.
VersionInv ==
  /\ \A c \in Clients :
       /\ op[c] = "set" => version[c] \in 1 .. sets
       /\ op[c] # "set" => version[c] = NoValue
       /\ \A d \in Clients : version[c] = version[d] /\ c # d => version[c] = NoValue
  /\ \A w \in returned : w[2] \in 1 .. sets /\ \A c \in Clients : version[c] # w[2]

TypeInv == TypeOK /\ CallInv /\ BufferInv /\ VersionInv

\* A call that has overlapped no other is the only one there is.
AloneInv ==
  \A c, d \in Clients : pc[c] # "idle" /\ ~overlaps[c] /\ c # d => pc[d] = "idle"

\* The Set that put item i into the buffer has not returned, and waits behind it.
Owns(d, i) ==
  /\ op[d] = "set" /\ version[d] = buffer[i].version /\ key[d] = buffer[i].key
  /\ \/ pc[d] = "wait"
     \/ \E j \in 1 .. Len(buffer) : j > i /\ buffer[j].type = "wait" /\ buffer[j].client = d

OwnerInv ==
  \A i \in 1 .. Len(buffer) : buffer[i].type = "new" => \E d \in Clients : Owns(d, i)

Holds(w) == cache[w[1]] = w[2]

\* Who is about to untrack a key does not take it from under a value.
TrackInv ==
  /\ \A w \in returned : Holds(w) => w[1] \in tracked
  /\ \A c \in Clients :
       /\ pc[c] \in {"untrack", "drop"} => <<key[c], cache[key[c]]>> \notin returned
       /\ pc[c] = "untrack" /\ op[c] = "set" => cache[key[c]] # version[c]
       /\ pc[c] = "return" /\ op[c] = "set" /\ ~overlaps[c] /\ cache[key[c]] = version[c]
            => key[c] \in tracked

\* What a DeletePattern has still to delete is before it, and what it has passed
\* is gone.
Erasing(c) ==
  /\ op[c] # "deletePattern" => asof[c] = {}
  /\ \A w \in asof[c] : w \in returned /\ w[1] \in PatternKeys
  /\ pc[c] \in {"range", "untrack"} => \A w \in asof[c] : Holds(w) => w[1] \in todo[c]
  /\ pc[c] = "remove" => \A w \in asof[c] : Holds(w) => w[1] \in todo[c] \cup {key[c]}
  /\ pc[c] \in {"wait", "waiting", "return"} => \A w \in asof[c] : ~Holds(w)

EraseInv ==
  /\ \A w \in erased : w \in returned /\ ~Holds(w)
  /\ \A c \in Clients : Erasing(c)

HeldInv == waitOnMutation => AloneInv /\ OwnerInv /\ TrackInv /\ EraseInv

-----------------------------------------------------------------------------

LEMMA Bounds ==
  /\ NoKey \notin Keys /\ PatternKeys \subseteq Keys /\ MaxSets \in Nat
  /\ PruneEvery \in Nat \ {0} /\ BufferSize \in Nat \ {0}
  BY ConstantsAssumption

LEMMA ItemTypes ==
  ASSUME NEW item \in Item
  PROVE  \/ item.type = "new" /\ item.key \in Keys /\ item.version \in Nat
         \/ item.type = "delete" /\ item.key \in Keys
         \/ item.type = "wait" /\ item.client \in Clients
  BY DEF Item

\* The buffer loses its head, or gains a last item.
LEMMA TailItems ==
  ASSUME buffer \in Seq(Item), buffer # <<>>, buffer' = Tail(buffer)
  PROVE  /\ buffer' \in Seq(Item) /\ Head(buffer) = buffer[1] /\ Head(buffer) \in Item
         /\ Len(buffer) \in Nat \ {0} /\ Len(buffer') = Len(buffer) - 1
         /\ \A i \in 1 .. Len(buffer') : i + 1 \in 1 .. Len(buffer) /\ buffer'[i] = buffer[i + 1]
  OBVIOUS

LEMMA AppendItems ==
  ASSUME buffer \in Seq(Item), NEW item \in Item, buffer' = Append(buffer, item)
  PROVE  /\ buffer' \in Seq(Item) /\ Len(buffer) \in Nat /\ Len(buffer') = Len(buffer) + 1
         /\ \A i \in 1 .. Len(buffer) : i \in 1 .. Len(buffer') /\ buffer'[i] = buffer[i]
         /\ buffer'[Len(buffer) + 1] = item
  OBVIOUS

LEMMA TypeInit == Init => TypeInv /\ HeldInv
<1> SUFFICES ASSUME Init PROVE TypeInv /\ HeldInv
  OBVIOUS
<1>1. /\ 0 \in 0 .. PruneEvery - 1 /\ 0 \in 0 .. MaxSets /\ <<>> \in Seq(Item) /\ Len(<<>>) = 0
  BY Bounds
<1>2. TypeOK
  BY <1>1 DEF Init, TypeOK, NoValue, Operations, Steps
<1>3. CallInv
  BY DEF Init, CallInv
<1>4. BufferInv /\ OwnerInv
  BY <1>1 DEF Init, BufferInv, OwnerInv
<1>5. VersionInv
  BY DEF Init, VersionInv, NoValue
<1>6. AloneInv /\ TrackInv /\ EraseInv
  BY DEF Init, AloneInv, TrackInv, EraseInv, Erasing
<1> QED BY <1>2, <1>3, <1>4, <1>5, <1>6 DEF TypeInv, HeldInv

LEMMA AfterPruneTypes ==
  ASSUME TypeOK, NEW c \in Clients, AfterPrune(c)
  PROVE  todo' \in [Clients -> SUBSET Keys] /\ pc' \in [Clients -> Steps]
<1>1. \E s \in SUBSET Keys : todo' = [todo EXCEPT ![c] = s]
  BY DEF AfterPrune, TypeOK
<1>2. \E s \in Steps : pc' = [pc EXCEPT ![c] = s]
  BY DEF AfterPrune, Goto, Steps
<1> QED BY <1>1, <1>2 DEF TypeOK

LEMMA TypeNext == TypeInv /\ [Next]_vars => TypeOK'
<1> SUFFICES ASSUME TypeInv, [Next]_vars PROVE TypeOK'
  OBVIOUS
<1> USE DEF TypeOK, Steps, Operations, Goto, NoValue, ristretto, history, histories, call
<1>1. TypeOK /\ CallInv
  BY DEF TypeInv
<1>2. ASSUME NEW c \in Clients, NEW k \in Keys, Set(c, k) PROVE TypeOK'
  BY <1>1, <1>2, Bounds DEF Set, Call
<1>3. ASSUME NEW c \in Clients, NEW k \in Keys, Delete(c, k) PROVE TypeOK'
  BY <1>1, <1>3 DEF Delete, Call
<1>4. ASSUME NEW c \in Clients, DeletePattern(c) PROVE TypeOK'
  BY <1>1, <1>4 DEF DeletePattern, Call
<1>5. ASSUME NEW c \in Clients, Stats(c) PROVE TypeOK'
  BY <1>1, <1>5 DEF Stats, Call
<1>6. ASSUME NEW c \in Clients, Put(c) PROVE TypeOK'
  <2>1. key[c] \in Keys /\ version[c] \in Nat /\ AfterMutation(c) \in Steps /\ op[c] = "set"
    BY <1>1, <1>6 DEF CallInv, Put, AfterMutation
  <2>2. [type |-> "new", key |-> key[c], version |-> version[c]] \in Item
    BY <2>1 DEF Item
  <2>3. buffer' \in Seq(Item)
    BY <1>1, <1>6, <2>2, AppendItems DEF Put
  <2> QED BY <1>1, <1>6, <2>1, <2>3 DEF Put
<1>7. ASSUME NEW c \in Clients, Wait(c) PROVE TypeOK'
  <2>1. [type |-> "wait", client |-> c] \in Item
    BY DEF Item
  <2>2. buffer' \in Seq(Item)
    BY <1>1, <1>7, <2>1, AppendItems DEF Wait
  <2> QED BY <1>1, <1>7, <2>2 DEF Wait
<1>8. ASSUME NEW c \in Clients, Sync(c) PROVE TypeOK'
  BY <1>1, <1>8 DEF Sync
<1>9. ASSUME NEW c \in Clients, TrackKey(c) PROVE TypeOK'
  BY <1>1, <1>9 DEF TrackKey, CallInv
<1>10. ASSUME NEW c \in Clients, Remove(c) PROVE TypeOK'
  <2>1. key[c] \in Keys
    BY <1>1, <1>10 DEF CallInv, Remove
  <2>2. [type |-> "delete", key |-> key[c]] \in Item
    BY <2>1 DEF Item
  <2>3. buffer' \in Seq(Item)
    BY <1>1, <1>10, <2>2, AppendItems DEF Remove, Del
  <2> QED BY <1>1, <1>10, <2>1, <2>3 DEF Remove, Del
<1>11. ASSUME NEW c \in Clients, UntrackKey(c) PROVE TypeOK'
  BY <1>1, <1>11 DEF UntrackKey, CallInv, AfterMutation
<1>12. ASSUME NEW c \in Clients, MaybePrune(c) PROVE TypeOK'
  <2>1. NextMutation \in 0 .. PruneEvery - 1
    BY <1>1, Bounds DEF NextMutation
  <2> QED BY <1>1, <1>12, <2>1 DEF MaybePrune
<1>13. ASSUME NEW c \in Clients, Prune(c) PROVE TypeOK'
  <2>0. AfterPrune(c) \/ (todo' = [todo EXCEPT ![c] = tracked] /\ Goto(c, "look"))
    BY <1>13 DEF Prune
  <2>1. todo' \in [Clients -> SUBSET Keys] /\ pc' \in [Clients -> Steps]
    BY <1>1, <2>0, AfterPruneTypes
  <2>2. pruning' \in BOOLEAN
    BY <1>1, <1>13 DEF Prune
  <2> QED BY <1>1, <1>13, <2>1, <2>2 DEF Prune
<1>14. ASSUME NEW c \in Clients, DropKey(c) PROVE TypeOK'
  BY <1>1, <1>14 DEF DropKey
<1>15. ASSUME NEW c \in Clients, Pruned(c) PROVE TypeOK'
  <2>1. todo' \in [Clients -> SUBSET Keys] /\ pc' \in [Clients -> Steps]
    BY <1>1, <1>15, AfterPruneTypes DEF Pruned
  <2>2. pruning' \in BOOLEAN
    BY <1>15 DEF Pruned
  <2>3. /\ UNCHANGED <<waitOnMutation, cache, buffer, tracked, mutations, sets, op, key, version>>
        /\ UNCHANGED <<overlaps, returned, asof, erased>>
    BY <1>15 DEF Pruned
  <2> QED BY <1>1, <2>1, <2>2, <2>3
<1>16. ASSUME NEW c \in Clients, EndOfRange(c) PROVE TypeOK'
  BY <1>1, <1>16 DEF EndOfRange, CallInv, AfterMutation
<1>17. ASSUME NEW c \in Clients, Return(c) PROVE TypeOK'
  <2>1. op[c] = "set" => <<key[c], version[c]>> \in Written
    BY <1>1 DEF CallInv, Written
  <2>2. returned' \subseteq Written
    BY <1>1, <1>17, <2>1 DEF Return
  <2> QED BY <1>1, <1>17, <2>2 DEF Return
<1>18. ASSUME NEW c \in Clients, NEW k \in Keys, Look(c, k) PROVE TypeOK'
  BY <1>1, <1>18 DEF Look
<1>19. ASSUME NEW c \in Clients, NEW k \in Keys, Match(c, k) PROVE TypeOK'
  BY <1>1, <1>19 DEF Match
<1>20. CASE Process
  <2> DEFINE item == Head(buffer)
  <2>1. buffer' \in Seq(Item) /\ item \in Item /\ item = buffer[1] /\ 1 \in 1 .. Len(buffer)
    BY <1>1, <1>20, TailItems DEF Process
  <2>2. item.type = "wait" => pc[item.client] = "waiting"
    BY <2>1 DEF TypeInv, BufferInv
  <2>3. /\ UNCHANGED <<waitOnMutation, tracked, mutations, pruning, sets, call, todo, histories>>
        /\ \/ item.type = "new" /\ pc' = pc /\ cache' \in {cache, [cache EXCEPT ![item.key] = item.version]}
           \/ item.type = "delete" /\ pc' = pc /\ cache' = [cache EXCEPT ![item.key] = NoValue]
           \/ item.type = "wait" /\ cache' = cache /\ pc' = [pc EXCEPT ![item.client] = AfterWait(item.client)]
    BY <1>20, <2>1, ItemTypes DEF Process
  <2> HIDE DEF item
  <2>4. cache' \in [Keys -> Nat]
    BY <1>1, <2>1, <2>3, ItemTypes
  <2>5. item.type = "wait" => AfterWait(item.client) \in Steps
    BY <1>1, <2>1, <2>2, ItemTypes DEF CallInv, AfterWait
  <2>6. pc' \in [Clients -> Steps]
    BY <1>1, <2>3, <2>5
  <2> QED BY <1>1, <2>1, <2>3, <2>4, <2>6
<1>21. ASSUME NEW k \in Keys, Evict(k) PROVE TypeOK'
  BY <1>1, <1>21 DEF Evict
<1>22. CASE UNCHANGED vars
  BY <1>1, <1>22 DEF vars
<1> QED BY <1>2, <1>3, <1>4, <1>5, <1>6, <1>7, <1>8, <1>9, <1>10, <1>11, <1>12, <1>13, <1>14,
           <1>15, <1>16, <1>17, <1>18, <1>19, <1>20, <1>21, <1>22 DEF Next, Work

LEMMA CallNext == TypeInv /\ [Next]_vars => CallInv'
<1> SUFFICES ASSUME TypeInv, [Next]_vars PROVE CallInv'
  OBVIOUS
<1> USE DEF CallInv, Goto, ristretto, history, histories, call
<1>1. TypeOK /\ CallInv
  BY DEF TypeInv
<1>t. /\ pc \in [Clients -> Steps] /\ op \in [Clients -> Operations]
      /\ key \in [Clients -> Keys \cup {NoKey}] /\ waitOnMutation \in BOOLEAN
  BY <1>1 DEF TypeOK
<1>2. ASSUME NEW c \in Clients, NEW k \in Keys, Set(c, k) PROVE CallInv'
  BY <1>1, <1>t, <1>2 DEF Set, Call
<1>3. ASSUME NEW c \in Clients, NEW k \in Keys, Delete(c, k) PROVE CallInv'
  BY <1>1, <1>t, <1>3 DEF Delete, Call
<1>4. ASSUME NEW c \in Clients, DeletePattern(c) PROVE CallInv'
  BY <1>1, <1>t, <1>4 DEF DeletePattern, Call
<1>5. ASSUME NEW c \in Clients, Stats(c) PROVE CallInv'
  BY <1>1, <1>t, <1>5 DEF Stats, Call
<1>6. ASSUME NEW c \in Clients, Put(c) PROVE CallInv'
  BY <1>1, <1>t, <1>6 DEF Put, AfterMutation
<1>7. ASSUME NEW c \in Clients, Wait(c) PROVE CallInv'
  BY <1>1, <1>t, <1>7 DEF Wait
<1>8. ASSUME NEW c \in Clients, Sync(c) PROVE CallInv'
  BY <1>1, <1>t, <1>8 DEF Sync
<1>9. ASSUME NEW c \in Clients, TrackKey(c) PROVE CallInv'
  BY <1>1, <1>t, <1>9 DEF TrackKey
<1>10. ASSUME NEW c \in Clients, Remove(c) PROVE CallInv'
  BY <1>1, <1>t, <1>10 DEF Remove, Del
<1>11. ASSUME NEW c \in Clients, UntrackKey(c) PROVE CallInv'
  BY <1>1, <1>t, <1>11 DEF UntrackKey, AfterMutation
<1>12. ASSUME NEW c \in Clients, MaybePrune(c) PROVE CallInv'
  BY <1>1, <1>t, <1>12 DEF MaybePrune
<1>13. ASSUME NEW c \in Clients, Prune(c) PROVE CallInv'
  <2>1. UNCHANGED <<waitOnMutation, op, key>> /\ pc[c] = "prune"
    BY <1>13 DEF Prune
  <2>2. \E s \in {"look", "return"} : pc' = [pc EXCEPT ![c] = s]
        \/ (op[c] = "deletePattern" /\ pc' = [pc EXCEPT ![c] = "range"])
    BY <1>13 DEF Prune, AfterPrune
  <2> QED BY <1>1, <1>t, <2>1, <2>2
<1>14. ASSUME NEW c \in Clients, DropKey(c) PROVE CallInv'
  BY <1>1, <1>t, <1>14 DEF DropKey
<1>15. ASSUME NEW c \in Clients, Pruned(c) PROVE CallInv'
  <2>1. UNCHANGED <<waitOnMutation, op, key>> /\ pc[c] = "look"
    BY <1>15 DEF Pruned
  <2>2. \/ pc' = [pc EXCEPT ![c] = "return"]
        \/ op[c] = "deletePattern" /\ pc' = [pc EXCEPT ![c] = "range"]
    BY <1>15 DEF Pruned, AfterPrune
  <2> QED BY <1>1, <1>t, <2>1, <2>2
<1>16. ASSUME NEW c \in Clients, EndOfRange(c) PROVE CallInv'
  BY <1>1, <1>t, <1>16 DEF EndOfRange, AfterMutation
<1>17. ASSUME NEW c \in Clients, Return(c) PROVE CallInv'
  BY <1>1, <1>t, <1>17 DEF Return
<1>18. ASSUME NEW c \in Clients, NEW k \in Keys, Look(c, k) PROVE CallInv'
  BY <1>1, <1>t, <1>18 DEF Look
<1>19. ASSUME NEW c \in Clients, NEW k \in Keys, Match(c, k) PROVE CallInv'
  BY <1>1, <1>t, <1>19 DEF Match
<1>20. CASE Process
  <2>1. UNCHANGED <<waitOnMutation, op, key>>
    BY <1>20 DEF Process
  <2>2. /\ buffer \in Seq(Item) /\ buffer # <<>> /\ Head(buffer) = buffer[1] /\ buffer[1] \in Item
        /\ 1 \in 1 .. Len(buffer)
    BY <1>1, <1>20 DEF Process, TypeOK
  <2>3. \/ pc' = pc
        \/ \E c \in Clients : pc[c] = "waiting" /\ pc' = [pc EXCEPT ![c] = AfterWait(c)]
    <3>1. pc' = pc \/ (buffer[1].type = "wait" /\ Goto(buffer[1].client, AfterWait(buffer[1].client)))
      BY <1>20, <2>2, ItemTypes DEF Process
    <3>2. buffer[1].type = "wait" => buffer[1].client \in Clients /\ pc[buffer[1].client] = "waiting"
      BY <2>2, ItemTypes DEF TypeInv, BufferInv
    <3> QED BY <3>1, <3>2
  <2>4. ASSUME NEW c \in Clients, pc[c] = "waiting", pc' = [pc EXCEPT ![c] = AfterWait(c)]
        PROVE  CallInv'
    <3>1. pc'[c] = AfterWait(c) /\ \A d \in Clients : d # c => pc'[d] = pc[d]
      BY <1>t, <2>4
    <3>2. \/ op[c] = "set" /\ AfterWait(c) = "sync"
          \/ op[c] = "delete" /\ AfterWait(c) = "maybePrune"
          \/ op[c] = "deletePattern" /\ AfterWait(c) = "return"
      BY <1>1, <2>4 DEF AfterWait
    <3> QED BY <1>1, <2>1, <3>1, <3>2
  <2> QED BY <1>1, <2>1, <2>3, <2>4
<1>21. ASSUME NEW k \in Keys, Evict(k) PROVE CallInv'
  BY <1>1, <1>21 DEF Evict
<1>22. CASE UNCHANGED vars
  BY <1>1, <1>22 DEF vars
<1> QED BY <1>2, <1>3, <1>4, <1>5, <1>6, <1>7, <1>8, <1>9, <1>10, <1>11, <1>12, <1>13, <1>14,
           <1>15, <1>16, <1>17, <1>18, <1>19, <1>20, <1>21, <1>22 DEF Next, Work

-----------------------------------------------------------------------------

ClientStep(c) ==
  \/ \E k \in Keys : Set(c, k) \/ Delete(c, k)
  \/ DeletePattern(c) \/ Stats(c) \/ Work(c)

\* A client's step leaves the others where they are.
LEMMA OneClient ==
  ASSUME TypeInv, NEW c \in Clients, ClientStep(c)
  PROVE  /\ pc[c] # "waiting"
         /\ \A d \in Clients : d # c =>
              /\ pc'[d] = pc[d] /\ op'[d] = op[d] /\ key'[d] = key[d]
              /\ version'[d] = version[d] /\ todo'[d] = todo[d] /\ asof'[d] = asof[d]
         /\ waitOnMutation' = waitOnMutation
         /\ pc[c] = "wait" => Wait(c)
         /\ pc'[c] = "waiting" => buffer' = Append(buffer, [type |-> "wait", client |-> c])
         /\ \/ buffer' = buffer
            \/ buffer' = Append(buffer, [type |-> "wait", client |-> c]) /\ pc'[c] = "waiting"
            \/ buffer' = Append(buffer, [type |-> "delete", key |-> key[c]]) /\ pc[c] = "remove"
            \/ /\ buffer' = Append(buffer, [type |-> "new", key |-> key[c], version |-> version[c]])
               /\ pc[c] = "put" /\ UNCHANGED <<op, key, version>> /\ pc'[c] = AfterMutation(c)
<1> USE DEF Goto, ristretto, history, histories, call
<1>1. /\ pc \in [Clients -> Steps] /\ op \in [Clients -> Operations]
      /\ key \in [Clients -> Keys \cup {NoKey}] /\ version \in [Clients -> Nat]
      /\ todo \in [Clients -> SUBSET Keys] /\ asof \in [Clients -> SUBSET Written]
  BY DEF TypeInv, TypeOK
<1>2. CASE \E k \in Keys : Set(c, k) \/ Delete(c, k)
  BY <1>1, <1>2 DEF Set, Delete, Call
<1>3. CASE DeletePattern(c) \/ Stats(c)
  BY <1>1, <1>3 DEF DeletePattern, Stats, Call
<1>4. CASE Put(c)
  <2>1. op[c] = "set" /\ AfterMutation(c) # "waiting"
    BY <1>4 DEF Put, TypeInv, CallInv, AfterMutation
  <2>2. /\ pc[c] = "put" /\ UNCHANGED <<op, key, version, todo, asof, waitOnMutation>>
        /\ pc' = [pc EXCEPT ![c] = "return"] \/ pc' = [pc EXCEPT ![c] = AfterMutation(c)]
        /\ \/ buffer' = buffer
           \/ /\ buffer' = Append(buffer, [type |-> "new", key |-> key[c], version |-> version[c]])
              /\ pc' = [pc EXCEPT ![c] = AfterMutation(c)]
    BY <1>4 DEF Put
  <2> QED BY <1>1, <2>1, <2>2
<1>5. CASE Wait(c) \/ Sync(c) \/ TrackKey(c)
  BY <1>1, <1>5 DEF Wait, Sync, TrackKey
<1>6. CASE Remove(c)
  BY <1>1, <1>6 DEF Remove, Del
<1>7. CASE UntrackKey(c) \/ EndOfRange(c)
  BY <1>1, <1>7 DEF TypeInv, CallInv, UntrackKey, EndOfRange, AfterMutation
<1>8. CASE MaybePrune(c) \/ DropKey(c)
  BY <1>1, <1>8 DEF MaybePrune, DropKey
<1>9. CASE Prune(c)
  <2>1. (\E s \in SUBSET Keys : todo' = [todo EXCEPT ![c] = s])
        /\ (\E s \in {"look", "range", "return"} : pc' = [pc EXCEPT ![c] = s])
    BY <1>9 DEF Prune, AfterPrune, TypeInv, TypeOK
  <2> QED BY <1>1, <1>9, <2>1 DEF Prune
<1>10. CASE Pruned(c)
  <2>1. (\E s \in SUBSET Keys : todo' = [todo EXCEPT ![c] = s])
        /\ (\E s \in {"look", "range", "return"} : pc' = [pc EXCEPT ![c] = s])
    BY <1>10 DEF Pruned, AfterPrune, TypeInv, TypeOK
  <2> QED BY <1>1, <1>10, <2>1 DEF Pruned
<1>11. CASE Return(c)
  BY <1>1, <1>11 DEF Return
<1>12. CASE \E k \in Keys : Look(c, k) \/ Match(c, k)
  BY <1>1, <1>12 DEF Look, Match
<1> QED BY <1>2, <1>3, <1>4, <1>5, <1>6, <1>7, <1>8, <1>9, <1>10, <1>11, <1>12
        DEF ClientStep, Work

\* Ristretto's step takes an item and may send a client on.
LEMMA OneItem ==
  ASSUME TypeInv, Process
  PROVE  /\ UNCHANGED <<waitOnMutation, tracked, sets, op, key, version, todo>>
         /\ UNCHANGED <<overlaps, returned, asof, erased>>
         /\ buffer' = Tail(buffer) /\ buffer \in Seq(Item) /\ buffer # <<>>
         /\ buffer[1] \in Item /\ 1 \in 1 .. Len(buffer)
         /\ \/ pc' = pc /\ buffer[1].type = "delete" /\ cache' = [cache EXCEPT ![buffer[1].key] = NoValue]
            \/ pc' = pc /\ buffer[1].type = "new"
               /\ (cache' = cache \/ cache' = [cache EXCEPT ![buffer[1].key] = buffer[1].version])
            \/ /\ buffer[1].type = "wait" /\ buffer[1].client \in Clients /\ cache' = cache
               /\ pc[buffer[1].client] = "waiting"
               /\ pc' = [pc EXCEPT ![buffer[1].client] = AfterWait(buffer[1].client)]
<1>1. /\ buffer \in Seq(Item) /\ buffer # <<>> /\ buffer' = Tail(buffer)
      /\ Head(buffer) = buffer[1] /\ buffer[1] \in Item /\ 1 \in 1 .. Len(buffer)
  BY DEF Process, TypeInv, TypeOK
<1>2. buffer[1].type = "wait" => pc[buffer[1].client] = "waiting"
  BY <1>1 DEF TypeInv, BufferInv
<1>3. UNCHANGED <<waitOnMutation, tracked, mutations, pruning, sets, call, todo, histories>>
  BY DEF Process
<1>4. \/ pc' = pc /\ buffer[1].type = "delete" /\ cache' = [cache EXCEPT ![buffer[1].key] = NoValue]
      \/ pc' = pc /\ buffer[1].type = "new"
         /\ (cache' = cache \/ cache' = [cache EXCEPT ![buffer[1].key] = buffer[1].version])
      \/ /\ buffer[1].type = "wait" /\ buffer[1].client \in Clients /\ cache' = cache
         /\ pc' = [pc EXCEPT ![buffer[1].client] = AfterWait(buffer[1].client)]
  BY <1>1, ItemTypes DEF Process, Goto
<1> QED BY <1>1, <1>2, <1>3, <1>4 DEF call, histories, history

LEMMA WaiterTypes ==
  ASSUME TypeInv, NEW i \in 1 .. Len(buffer)
  PROVE  buffer[i] \in Item /\ (buffer[i].type = "wait" => buffer[i].client \in Clients)
<1>1. buffer[i] \in Item
  BY DEF TypeInv, TypeOK
<1> QED BY <1>1, ItemTypes

LEMMA BufferGains ==
  ASSUME TypeInv, NEW c \in Clients, ClientStep(c), NEW item \in Item, buffer' = Append(buffer, item),
         item.type = "wait" => item.client = c /\ pc'[c] = "waiting"
  PROVE  BufferInv'
<1> SUFFICES ASSUME NEW i \in 1 .. Len(buffer'), buffer'[i].type = "wait"
             PROVE  /\ pc'[buffer'[i].client] = "waiting"
                    /\ \A j \in 1 .. Len(buffer') :
                         buffer'[j].type = "wait" /\ buffer'[j].client = buffer'[i].client => j = i
  BY DEF BufferInv
<1>1. /\ Len(buffer) \in Nat /\ Len(buffer') = Len(buffer) + 1
      /\ \A j \in 1 .. Len(buffer) : buffer'[j] = buffer[j] /\ buffer[j] \in Item
      /\ buffer'[Len(buffer) + 1] = item
  BY AppendItems DEF TypeInv, TypeOK
<1>2. \A j \in 1 .. Len(buffer) : buffer[j].type = "wait" =>
        buffer[j].client \in Clients /\ buffer[j].client # c /\ pc'[buffer[j].client] = "waiting"
  <2> SUFFICES ASSUME NEW j \in 1 .. Len(buffer), buffer[j].type = "wait"
               PROVE  buffer[j].client \in Clients /\ buffer[j].client # c /\ pc'[buffer[j].client] = "waiting"
    OBVIOUS
  <2>1. buffer[j].client \in Clients /\ pc[buffer[j].client] = "waiting"
    BY <1>1, ItemTypes DEF TypeInv, BufferInv
  <2> QED BY <2>1, OneClient
<1>3. CASE i \in 1 .. Len(buffer)
  BY <1>1, <1>2, <1>3 DEF TypeInv, BufferInv
<1>4. CASE i = Len(buffer) + 1
  BY <1>1, <1>2, <1>4
<1> QED BY <1>1, <1>3, <1>4

LEMMA BufferKept ==
  ASSUME TypeInv, buffer' = buffer, \A d \in Clients : pc[d] = "waiting" => pc'[d] = "waiting"
  PROVE  BufferInv'
<1>1. \A i \in 1 .. Len(buffer) : buffer[i].type = "wait" => buffer[i].client \in Clients
  BY WaiterTypes
<1> QED BY <1>1 DEF TypeInv, BufferInv

LEMMA BufferNext == TypeInv /\ [Next]_vars => BufferInv'
<1> SUFFICES ASSUME TypeInv, [Next]_vars PROVE BufferInv'
  OBVIOUS
<1>1. ASSUME NEW c \in Clients, ClientStep(c) PROVE BufferInv'
  <2>1. CASE buffer' = buffer
    BY <1>1, <2>1, OneClient, BufferKept
  <2>2. CASE buffer' = Append(buffer, [type |-> "wait", client |-> c]) /\ pc'[c] = "waiting"
    <3>1. [type |-> "wait", client |-> c] \in Item
      BY DEF Item
    <3> QED BY <1>1, <2>2, <3>1, BufferGains
  <2>3. CASE buffer' = Append(buffer, [type |-> "delete", key |-> key[c]]) /\ pc[c] = "remove"
    <3>1. [type |-> "delete", key |-> key[c]] \in Item
      BY <2>3 DEF Item, TypeInv, CallInv
    <3> QED BY <1>1, <2>3, <3>1, BufferGains
  <2>4. CASE /\ buffer' = Append(buffer, [type |-> "new", key |-> key[c], version |-> version[c]])
             /\ pc[c] = "put"
    <3>1. [type |-> "new", key |-> key[c], version |-> version[c]] \in Item
      BY <2>4 DEF Item, TypeInv, TypeOK, CallInv
    <3> QED BY <1>1, <2>4, <3>1, BufferGains
  <2> QED BY <1>1, <2>1, <2>2, <2>3, <2>4, OneClient
<1>2. CASE Process
  <2> SUFFICES ASSUME NEW i \in 1 .. Len(buffer'), buffer'[i].type = "wait"
               PROVE  /\ pc'[buffer'[i].client] = "waiting"
                      /\ \A j \in 1 .. Len(buffer') :
                           buffer'[j].type = "wait" /\ buffer'[j].client = buffer'[i].client => j = i
    BY DEF BufferInv
  <2>1. /\ Len(buffer) \in Nat \ {0} /\ Len(buffer') = Len(buffer) - 1
        /\ \A j \in 1 .. Len(buffer') : j + 1 \in 1 .. Len(buffer) /\ buffer'[j] = buffer[j + 1]
    BY <1>2, OneItem, TailItems
  <2>2. /\ pc[buffer'[i].client] = "waiting" /\ buffer'[i].client \in Clients
        /\ \A j \in 1 .. Len(buffer) :
             buffer[j].type = "wait" /\ buffer[j].client = buffer'[i].client => j = i + 1
    <3>1. i + 1 \in 1 .. Len(buffer) /\ buffer'[i] = buffer[i + 1]
      BY <2>1
    <3> QED BY <3>1, WaiterTypes DEF TypeInv, BufferInv
  <2>3. ASSUME NEW j \in 1 .. Len(buffer'), buffer'[j].type = "wait",
               buffer'[j].client = buffer'[i].client
        PROVE  j = i
    <3>1. j + 1 \in 1 .. Len(buffer) /\ buffer'[j] = buffer[j + 1]
      BY <2>1
    <3>2. j + 1 = i + 1
      BY <2>2, <2>3, <3>1
    <3> QED BY <2>1, <3>2
  <2>4. i + 1 # 1 /\ 1 \in 1 .. Len(buffer)
    BY <2>1
  <2>5. buffer[1].type = "wait" => buffer[1].client # buffer'[i].client
    BY <2>2, <2>4
  <2>6. pc'[buffer'[i].client] = "waiting"
    BY <1>2, <2>2, <2>5, OneItem DEF TypeInv, TypeOK
  <2> QED BY <2>3, <2>6
<1>3. CASE \E k \in Keys : Evict(k)
  BY <1>3, BufferKept DEF Evict
<1>4. CASE UNCHANGED vars
  BY <1>4, BufferKept DEF vars, ristretto
<1> QED BY <1>1, <1>2, <1>3, <1>4 DEF Next, ClientStep

\* Only Set and Return change versions, and calls what a client is at.
LEMMA VersionNext == TypeInv /\ [Next]_vars => VersionInv'
<1> SUFFICES ASSUME TypeInv, [Next]_vars PROVE VersionInv'
  OBVIOUS
<1> USE DEF VersionInv, NoValue
<1>1. /\ VersionInv /\ sets \in Nat /\ op \in [Clients -> Operations] /\ version \in [Clients -> Nat]
      /\ pc \in [Clients -> Steps] /\ returned \subseteq Written
  BY Bounds DEF TypeInv, TypeOK
<1>2. ASSUME NEW c \in Clients, NEW k \in Keys, Set(c, k) PROVE VersionInv'
  <2>1. /\ op' = [op EXCEPT ![c] = "set"] /\ version' = [version EXCEPT ![c] = sets + 1]
        /\ sets' = sets + 1 /\ returned' = returned
    BY <1>2 DEF Set, Call, history
  <2>2. \A d \in Clients : version[d] \in 0 .. sets
    BY <1>1
  <2>3. \A d \in Clients : version'[d] = IF d = c THEN sets + 1 ELSE version[d]
    BY <1>1, <2>1
  <2>4. \A d \in Clients : op'[d] = IF d = c THEN "set" ELSE op[d]
    BY <1>1, <2>1
  <2>5. \A d \in Clients : /\ op'[d] = "set" => version'[d] \in 1 .. sets'
                           /\ op'[d] # "set" => version'[d] = NoValue
    BY <1>1, <2>1, <2>3, <2>4
  <2>6. \A d, e \in Clients : version'[d] = version'[e] /\ d # e => version'[d] = NoValue
    BY <1>1, <2>2, <2>3
  <2>7. \A w \in returned' : w[2] \in 1 .. sets' /\ \A d \in Clients : version'[d] # w[2]
    BY <1>1, <2>1, <2>3
  <2> QED BY <2>5, <2>6, <2>7
<1>3. ASSUME NEW c \in Clients, NEW o \in {"delete", "deletePattern", "stats"}, NEW k, NEW s, Call(c, o, k, s),
             UNCHANGED <<version, sets, returned>>
      PROVE  VersionInv'
  <2>1. op[c] = "stats" /\ \A d \in Clients : op'[d] = IF d = c THEN o ELSE op[d]
    BY <1>1, <1>3 DEF Call, TypeInv, CallInv
  <2> QED BY <1>1, <1>3, <2>1
<1>4. ASSUME NEW c \in Clients, Return(c) PROVE VersionInv'
  <2>1. /\ sets' = sets
        /\ \A d \in Clients : version'[d] = IF d = c THEN NoValue ELSE version[d]
        /\ \A d \in Clients : op'[d] = IF d = c THEN "stats" ELSE op[d]
        /\ \/ returned' = returned
           \/ op[c] = "set" /\ returned' = returned \cup {<<key[c], version[c]>>}
    BY <1>1, <1>4 DEF Return
  <2>2. \A d, e \in Clients : version'[d] = version'[e] /\ d # e => version'[d] = NoValue
    BY <1>1, <2>1
  <2>3. \A w \in returned : w[2] \in 1 .. sets' /\ \A d \in Clients : version'[d] # w[2]
    BY <1>1, <2>1
  <2>4. op[c] = "set" => version[c] \in 1 .. sets' /\ \A d \in Clients : version'[d] # version[c]
    BY <1>1, <2>1
  <2>5. \A w \in returned' : w[2] \in 1 .. sets' /\ \A d \in Clients : version'[d] # w[2]
    BY <2>1, <2>3, <2>4
  <2> QED BY <1>1, <2>1, <2>2, <2>5
<1>5. ASSUME UNCHANGED <<op, version, sets, returned>> PROVE VersionInv'
  BY <1>1, <1>5
<1>6. ASSUME NEW c \in Clients, NEW k \in Keys, Delete(c, k) PROVE VersionInv'
  BY <1>3, <1>6 DEF Delete, history
<1>7. ASSUME NEW c \in Clients, DeletePattern(c) \/ Stats(c) PROVE VersionInv'
  BY <1>3, <1>7 DEF DeletePattern, Stats, history
<1>8. ASSUME NEW c \in Clients, Work(c), ~Return(c) PROVE UNCHANGED <<op, version, sets, returned>>
  BY <1>8 DEF Work, Put, Wait, Sync, TrackKey, Remove, UntrackKey, MaybePrune, Prune, DropKey,
     Pruned, EndOfRange, Look, Match, call, histories, history
<1>9. Process \/ (\E k \in Keys : Evict(k)) \/ UNCHANGED vars => UNCHANGED <<op, version, sets, returned>>
  BY DEF Process, Evict, vars, call, histories, history
<1> QED BY <1>2, <1>4, <1>5, <1>6, <1>7, <1>8, <1>9 DEF Next

LEMMA TypeInvariant == Spec => []TypeInv
<1>1. TypeInv /\ [Next]_vars => TypeInv'
  BY TypeNext, CallNext, BufferNext, VersionNext DEF TypeInv
<1> QED BY <1>1, TypeInit, PTL DEF Spec

\* Every variable keeps its type: those who wait for Ristretto's goroutine are
\* those its buffer sends on, each where its call goes on.
THEOREM TypeCorrect == Spec => []TypeOK
<1>1. TypeInv => TypeOK
  BY DEF TypeInv
<1> QED BY <1>1, TypeInvariant, PTL

-----------------------------------------------------------------------------

\* Whoever begins a call marks all that are in one, and itself if there are any.
LEMMA AloneNext == TypeInv /\ AloneInv /\ [Next]_vars => AloneInv'
<1> SUFFICES ASSUME TypeInv, AloneInv, [Next]_vars PROVE AloneInv'
  OBVIOUS
<1>1. pc \in [Clients -> Steps] /\ overlaps \in [Clients -> BOOLEAN]
  BY DEF TypeInv, TypeOK
<1>2. ASSUME NEW c \in Clients, NEW o, NEW k, NEW s, s # "idle", Call(c, o, k, s) PROVE AloneInv'
  <2>1. \A d \in Clients : pc'[d] = IF d = c THEN s ELSE pc[d]
    BY <1>1, <1>2 DEF Call, Goto
  <2>2. \A d \in Clients : overlaps'[d] =
          (overlaps[d] \/ pc[d] # "idle" \/ (d = c /\ \E e \in Clients : pc[e] # "idle"))
    BY <1>2 DEF Call
  <2> SUFFICES ASSUME NEW d \in Clients, NEW e \in Clients, pc'[d] # "idle", ~overlaps'[d], d # e
               PROVE  pc'[e] = "idle"
    BY DEF AloneInv
  <2>3. pc[d] = "idle" /\ d = c
    BY <2>1, <2>2
  <2> QED BY <2>1, <2>2, <2>3
<1>3. ASSUME \A d \in Clients : pc[d] = "idle" => pc'[d] = "idle", overlaps' = overlaps
      PROVE  AloneInv'
  BY <1>3 DEF AloneInv
<1>4. ASSUME NEW c \in Clients, NEW k \in Keys, Set(c, k) \/ Delete(c, k) PROVE AloneInv'
  BY <1>2, <1>4 DEF Set, Delete
<1>5. ASSUME NEW c \in Clients, DeletePattern(c) \/ Stats(c) PROVE AloneInv'
  BY <1>2, <1>5 DEF DeletePattern, Stats
<1>6. ASSUME NEW c \in Clients, Return(c) PROVE AloneInv'
  BY <1>1, <1>6 DEF Return, AloneInv, Goto
<1>7. ASSUME NEW c \in Clients, Work(c), ~Return(c) PROVE AloneInv'
  <2>1. pc[c] # "idle" /\ overlaps' = overlaps
    BY <1>7 DEF Work, Put, Wait, Sync, TrackKey, Remove, UntrackKey, MaybePrune, Prune, DropKey,
       Pruned, EndOfRange, Look, Match, histories
  <2> QED BY <1>3, <1>7, <2>1, OneClient DEF ClientStep
<1>8. CASE Process
  BY <1>1, <1>3, <1>8, OneItem
<1>9. CASE (\E k \in Keys : Evict(k)) \/ UNCHANGED vars
  BY <1>3, <1>9 DEF Evict, vars, histories
<1> QED BY <1>4, <1>5, <1>6, <1>7, <1>8, <1>9 DEF Next

\* With WithWait, the buffer never holds an item of a Set that has gone on.
LEMMA OwnerNext == TypeInv /\ OwnerInv /\ waitOnMutation /\ [Next]_vars => OwnerInv'
<1> SUFFICES ASSUME TypeInv, OwnerInv, waitOnMutation, [Next]_vars PROVE OwnerInv'
  OBVIOUS
<1>0. /\ buffer \in Seq(Item) /\ Len(buffer) \in Nat
      /\ \A d \in Clients, i \in 1 .. Len(buffer) :
           Owns(d, i) => op[d] = "set" /\ pc[d] \in {"wait", "waiting"}
  BY DEF TypeInv, TypeOK, BufferInv, Owns
<1>1. ASSUME NEW c \in Clients, ClientStep(c), NEW d \in Clients, d # c, NEW i \in 1 .. Len(buffer), Owns(d, i),
             Len(buffer') \in Nat, Len(buffer') >= Len(buffer),
             \A j \in 1 .. Len(buffer) : buffer'[j] = buffer[j]
      PROVE  Owns(d, i)'
  <2>1. pc'[d] = pc[d] /\ op'[d] = op[d] /\ version'[d] = version[d] /\ key'[d] = key[d]
    BY <1>1, OneClient
  <2>2. \A j \in 1 .. Len(buffer) : j \in 1 .. Len(buffer')
    BY <1>0, <1>1
  <2> QED BY <1>1, <2>1, <2>2 DEF Owns
<1>2. ASSUME NEW c \in Clients, ClientStep(c), pc[c] # "wait",
             Len(buffer') \in Nat, Len(buffer') >= Len(buffer),
             \A j \in 1 .. Len(buffer) : buffer'[j] = buffer[j],
             NEW i \in 1 .. Len(buffer), buffer[i].type = "new"
      PROVE  \E d \in Clients : Owns(d, i)'
  <2>1. PICK d \in Clients : Owns(d, i)
    BY <1>2 DEF OwnerInv
  <2>2. d # c
    BY <1>0, <1>2, <2>1, OneClient
  <2> QED BY <1>1, <1>2, <2>1, <2>2
<1>3. ASSUME NEW c \in Clients, ClientStep(c), pc[c] # "wait", NEW item \in Item,
             buffer' = Append(buffer, item),
             \A n \in Nat : n = Len(buffer) + 1 /\ item.type = "new" => Owns(c, n)'
      PROVE  OwnerInv'
  <2>1. /\ Len(buffer') = Len(buffer) + 1 /\ buffer'[Len(buffer) + 1] = item
        /\ \A j \in 1 .. Len(buffer) : buffer'[j] = buffer[j]
    BY <1>0, <1>3, AppendItems
  <2> SUFFICES ASSUME NEW i \in 1 .. Len(buffer'), buffer'[i].type = "new"
               PROVE  \E d \in Clients : Owns(d, i)'
    BY DEF OwnerInv
  <2>2. CASE i \in 1 .. Len(buffer)
    <3>1. Len(buffer') \in Nat /\ Len(buffer') >= Len(buffer)
      BY <1>0, <2>1
    <3> QED BY <1>2, <1>3, <2>1, <2>2, <3>1
  <2>3. CASE i = Len(buffer) + 1
    BY <1>3, <2>1, <2>3
  <2> QED BY <1>0, <2>1, <2>2, <2>3
<1>4. ASSUME NEW c \in Clients, ClientStep(c), pc[c] # "wait" PROVE OwnerInv'
  <2>1. CASE buffer' = buffer
    <3>1. Len(buffer') \in Nat /\ Len(buffer') >= Len(buffer)
      BY <1>0, <2>1
    <3>2. \A i \in 1 .. Len(buffer) : buffer[i].type = "new" => \E d \in Clients : Owns(d, i)'
      BY <1>2, <1>4, <2>1, <3>1
    <3> QED BY <2>1, <3>2 DEF OwnerInv
  <2>2. CASE buffer' = Append(buffer, [type |-> "wait", client |-> c])
    BY <1>3, <1>4, <2>2 DEF Item
  <2>3. CASE buffer' = Append(buffer, [type |-> "delete", key |-> key[c]]) /\ pc[c] = "remove"
    <3>1. [type |-> "delete", key |-> key[c]] \in Item
      BY <2>3 DEF Item, TypeInv, CallInv
    <3> QED BY <1>3, <1>4, <2>3, <3>1
  <2>4. CASE /\ buffer' = Append(buffer, [type |-> "new", key |-> key[c], version |-> version[c]])
             /\ pc[c] = "put" /\ UNCHANGED <<op, key, version>> /\ pc'[c] = AfterMutation(c)
    <3> DEFINE item == [type |-> "new", key |-> key[c], version |-> version[c]]
    <3>1. item \in Item
      BY <2>4 DEF Item, TypeInv, TypeOK, CallInv
    <3>2. pc'[c] = "wait" /\ op'[c] = "set"
      BY <2>4 DEF AfterMutation, TypeInv, CallInv
    <3>3. buffer'[Len(buffer) + 1] = item
      BY <1>0, <2>4, <3>1, AppendItems
    <3>4. ASSUME NEW n \in Nat, n = Len(buffer) + 1 PROVE Owns(c, n)'
      BY <2>4, <3>2, <3>3, <3>4 DEF Owns
    <3> QED BY <1>3, <1>4, <2>4, <3>1, <3>4
  <2> QED BY <1>4, <2>1, <2>2, <2>3, <2>4, OneClient
<1>5. ASSUME NEW c \in Clients, Wait(c) PROVE OwnerInv'
  <2> DEFINE item == [type |-> "wait", client |-> c]
  <2>1. /\ item \in Item /\ buffer' = Append(buffer, item) /\ UNCHANGED <<op, key, version>>
        /\ pc[c] = "wait"
    BY <1>5 DEF Item, Wait, call
  <2>2. /\ Len(buffer') = Len(buffer) + 1 /\ buffer'[Len(buffer) + 1] = item
        /\ \A j \in 1 .. Len(buffer) : buffer'[j] = buffer[j]
    BY <1>0, <2>1, AppendItems
  <2> SUFFICES ASSUME NEW i \in 1 .. Len(buffer'), buffer'[i].type = "new"
               PROVE  \E d \in Clients : Owns(d, i)'
    BY DEF OwnerInv
  <2>3. i \in 1 .. Len(buffer) /\ buffer[i].type = "new"
    BY <1>0, <2>2
  <2>4. PICK d \in Clients : Owns(d, i)
    BY <2>3 DEF OwnerInv
  <2>5. CASE d = c
    <3>1. Len(buffer) + 1 \in 1 .. Len(buffer') /\ Len(buffer) + 1 > i
      BY <1>0, <2>2, <2>3
    <3> QED BY <2>1, <2>2, <2>3, <2>4, <2>5, <3>1 DEF Owns
  <2>6. CASE d # c
    <3>1. Len(buffer') \in Nat /\ Len(buffer') >= Len(buffer) /\ ClientStep(c)
      BY <1>0, <1>5, <2>2 DEF ClientStep, Work
    <3> QED BY <1>1, <2>2, <2>3, <2>4, <2>6, <3>1
  <2> QED BY <2>5, <2>6
<1>6. CASE Process
  <2>1. /\ Len(buffer) \in Nat \ {0} /\ Len(buffer') = Len(buffer) - 1
        /\ \A j \in 1 .. Len(buffer') : j + 1 \in 1 .. Len(buffer) /\ buffer'[j] = buffer[j + 1]
    BY <1>6, OneItem, TailItems
  <2> SUFFICES ASSUME NEW i \in 1 .. Len(buffer'), buffer'[i].type = "new"
               PROVE  \E d \in Clients : Owns(d, i)'
    BY DEF OwnerInv
  <2>2. i + 1 \in 1 .. Len(buffer) /\ buffer'[i] = buffer[i + 1]
    BY <2>1
  <2>3. PICK d \in Clients : Owns(d, i + 1)
    BY <2>2 DEF OwnerInv
  <2>4. UNCHANGED <<op, key, version>>
    BY <1>6, OneItem
  <2>5. CASE pc[d] = "wait"
    <3>1. pc'[d] = "wait"
      BY <1>6, <2>5, OneItem DEF TypeInv, TypeOK
    <3> QED BY <2>2, <2>3, <2>4, <3>1 DEF Owns
  <2>6. ASSUME NEW j \in 1 .. Len(buffer), j > i + 1, buffer[j].type = "wait", buffer[j].client = d
        PROVE  Owns(d, i)'
    <3>1. j - 1 \in 1 .. Len(buffer') /\ j - 1 > i /\ (j - 1) + 1 = j
      BY <2>1, <2>6
    <3>2. buffer'[j - 1] = buffer[j]
      BY <2>1, <3>1
    <3> QED BY <2>2, <2>3, <2>4, <2>6, <3>1, <3>2 DEF Owns
  <2> QED BY <2>3, <2>5, <2>6 DEF Owns
<1>7. CASE (\E k \in Keys : Evict(k)) \/ UNCHANGED vars
  <2>1. UNCHANGED <<buffer, pc, op, key, version>>
    BY <1>7 DEF Evict, vars, ristretto, call
  <2> QED BY <2>1 DEF OwnerInv, Owns
<1>8. ASSUME NEW c \in Clients, ClientStep(c) PROVE OwnerInv'
  BY <1>4, <1>5, <1>8, OneClient
<1> QED BY <1>6, <1>7, <1>8 DEF Next, ClientStep

-----------------------------------------------------------------------------

\* What a step brings into Ristretto is of a Set under way that has not come to
\* look for it.
Incoming(v) == \E d \in Clients : op[d] = "set" /\ pc[d] \in {"put", "wait", "waiting"} /\ v = version[d]

LEMMA CacheWrites ==
  ASSUME TypeInv, OwnerInv, [Next]_vars, NEW k \in Keys
  PROVE  cache'[k] = cache[k] \/ cache'[k] = NoValue \/ Incoming(cache'[k])
<1>1. cache \in [Keys -> Nat]
  BY DEF TypeInv, TypeOK
<1>2. CASE Process
  <2>1. ASSUME buffer[1].type = "new", cache' = [cache EXCEPT ![buffer[1].key] = buffer[1].version],
               k = buffer[1].key
        PROVE  Incoming(cache'[k])
    <3>1. 1 \in 1 .. Len(buffer) /\ cache'[k] = buffer[1].version
      BY <1>1, <1>2, <2>1, OneItem
    <3>2. PICK d \in Clients : Owns(d, 1)
      BY <2>1, <3>1 DEF OwnerInv
    <3>3. pc[d] \in {"wait", "waiting"}
      BY <3>2 DEF Owns, TypeInv, BufferInv
    <3> QED BY <3>1, <3>2, <3>3 DEF Owns, Incoming
  <2> QED BY <1>1, <1>2, <2>1, OneItem
<1>3. ASSUME NEW c \in Clients, Put(c) PROVE cache'[k] = cache[k] \/ Incoming(cache'[k])
  <2>1. op[c] = "set" /\ pc[c] = "put"
    BY <1>3 DEF Put, TypeInv, CallInv
  <2>2. cache' = cache \/ cache' = [cache EXCEPT ![key[c]] = version[c]]
    BY <1>3 DEF Put, ristretto
  <2> QED BY <1>1, <2>1, <2>2 DEF Incoming
<1>4. ASSUME NEW c \in Clients, Remove(c) PROVE cache'[k] = cache[k] \/ cache'[k] = NoValue
  BY <1>1, <1>4 DEF Remove, Del
<1>5. ASSUME NEW j \in Keys, Evict(j) PROVE cache'[k] = cache[k] \/ cache'[k] = NoValue
  BY <1>1, <1>5 DEF Evict
<1>6. ASSUME NEW c \in Clients, NEW j \in Keys, Set(c, j) \/ Delete(c, j) PROVE cache' = cache
  BY <1>6 DEF Set, Delete, ristretto
<1>7. ASSUME NEW c \in Clients, DeletePattern(c) \/ Stats(c) PROVE cache' = cache
  BY <1>7 DEF DeletePattern, Stats, ristretto
<1>8. ASSUME NEW c \in Clients, Work(c), ~Put(c), ~Remove(c) PROVE cache' = cache
  BY <1>8 DEF Work, Wait, Sync, TrackKey, UntrackKey, MaybePrune, Prune, DropKey,
     Pruned, EndOfRange, Return, Look, Match, ristretto
<1>9. UNCHANGED vars => cache' = cache
  BY DEF vars, ristretto
<1> QED BY <1>2, <1>3, <1>4, <1>5, <1>6, <1>7, <1>8, <1>9 DEF Next

\* So what Ristretto has lost of those that have returned stays lost ...
LEMMA NothingReturns ==
  ASSUME TypeInv, OwnerInv, [Next]_vars, NEW w \in returned, cache'[w[1]] = w[2]
  PROVE  Holds(w)
<1>1. w[1] \in Keys /\ w[2] # NoValue /\ \A d \in Clients : version[d] # w[2]
  BY DEF TypeInv, TypeOK, VersionInv, Written, NoValue
<1> QED BY <1>1, CacheWrites DEF Holds, Incoming

\* ... and so does what is under way and has come further.
LEMMA NothingComesLate ==
  ASSUME TypeInv, OwnerInv, [Next]_vars, NEW c \in Clients, op[c] = "set",
         pc[c] \notin {"put", "wait", "waiting"}, cache'[key[c]] = version[c]
  PROVE  cache[key[c]] = version[c]
<1>1. /\ key[c] \in Keys /\ version[c] # NoValue
      /\ \A d \in Clients : version[d] = version[c] => d = c
  BY DEF TypeInv, CallInv, VersionInv, NoValue
<1> QED BY <1>1, CacheWrites DEF Incoming

\* What a client's step does to the tracked keys and to the history.
LEMMA Effects ==
  ASSUME TypeInv, waitOnMutation, NEW c \in Clients, ClientStep(c)
  PROVE  /\ \/ tracked \subseteq tracked'
            \/ pc[c] \in {"untrack", "drop"} /\ tracked' = tracked \ {key[c]}
         /\ \/ returned' = returned
            \/ /\ pc[c] = "return" /\ op[c] = "set" /\ ~overlaps[c]
               /\ returned' = returned \cup {<<key[c], version[c]>>} /\ UNCHANGED <<cache, tracked>>
               /\ pc'[c] = "idle"
         /\ \A d \in Clients : ~overlaps'[d] /\ pc'[d] # "idle" => ~overlaps[d]
         /\ pc'[c] \in {"untrack", "drop"} => cache'[key'[c]] = NoValue /\ key'[c] \in Keys
         /\ pc'[c] = "return" /\ op'[c] = "set" =>
              /\ UNCHANGED <<cache, key, version, op>>
              /\ \/ cache[key[c]] = NoValue
                 \/ key[c] \in tracked'
                 \/ pc[c] = "untrack"
<1> USE DEF Goto, ristretto, history, histories, call
<1>1. /\ pc \in [Clients -> Steps] /\ overlaps \in [Clients -> BOOLEAN]
      /\ key \in [Clients -> Keys \cup {NoKey}] /\ cache \in [Keys -> Nat]
      /\ op \in [Clients -> Operations]
  BY DEF TypeInv, TypeOK
<1>2. ASSUME NEW o, NEW k, NEW s, s \notin {"untrack", "drop", "return", "idle"}, Call(c, o, k, s)
      PROVE  /\ \A d \in Clients : ~overlaps'[d] /\ pc'[d] # "idle" => ~overlaps[d]
             /\ pc'[c] = s
  BY <1>1, <1>2 DEF Call
<1>3. CASE \E k \in Keys : Set(c, k) \/ Delete(c, k)
  <2>1. UNCHANGED <<tracked, returned>>
    BY <1>3 DEF Set, Delete
  <2>2. ASSUME NEW k \in Keys, Call(c, "set", k, "put") \/ Call(c, "delete", k, "remove")
        PROVE  /\ \A d \in Clients : ~overlaps'[d] /\ pc'[d] # "idle" => ~overlaps[d]
               /\ pc'[c] \in {"put", "remove"}
    BY <1>2, <2>2
  <2> QED BY <1>3, <2>1, <2>2 DEF Set, Delete
<1>4. CASE DeletePattern(c) \/ Stats(c)
  <2>1. UNCHANGED <<tracked, returned>>
    BY <1>4 DEF DeletePattern, Stats
  <2>2. ASSUME Call(c, "deletePattern", NoKey, "prune") \/ Call(c, "stats", NoKey, "prune")
        PROVE  /\ \A d \in Clients : ~overlaps'[d] /\ pc'[d] # "idle" => ~overlaps[d]
               /\ pc'[c] = "prune"
    BY <1>2, <2>2
  <2> QED BY <1>4, <2>1, <2>2 DEF DeletePattern, Stats
<1>5. CASE Put(c)
  BY <1>1, <1>5 DEF Put, AfterMutation
<1>6. CASE Wait(c) \/ Sync(c) \/ TrackKey(c)
  BY <1>1, <1>6 DEF Wait, Sync, TrackKey, TypeInv, CallInv
<1>7. CASE Remove(c)
  BY <1>1, <1>7 DEF Remove, Del, TypeInv, CallInv
<1>8. CASE UntrackKey(c) \/ EndOfRange(c)
  <2>1. /\ UNCHANGED <<cache, returned, overlaps, op, key, version>>
        /\ \/ pc[c] = "untrack" /\ tracked' = tracked \ {key[c]}
           \/ tracked' = tracked
        /\ \/ pc' = [pc EXCEPT ![c] = AfterMutation(c)] /\ op[c] \in {"delete", "deletePattern"}
           \/ pc' = [pc EXCEPT ![c] = "range"]
           \/ pc' = [pc EXCEPT ![c] = "return"] /\ pc[c] = "untrack"
    BY <1>8 DEF UntrackKey, EndOfRange, TypeInv, CallInv
  <2>2. AfterMutation(c) = "wait" \/ op[c] \notin {"delete", "deletePattern"}
    BY DEF AfterMutation
  <2> QED BY <1>1, <2>1, <2>2
<1>9. CASE MaybePrune(c) \/ DropKey(c)
  BY <1>1, <1>9 DEF MaybePrune, DropKey, TypeInv, CallInv
<1>10. CASE Prune(c)
  <2>1. /\ pc[c] = "prune" /\ UNCHANGED <<tracked, returned, overlaps, op>>
        /\ \E s \in {"look", "range", "return"} : pc' = [pc EXCEPT ![c] = s]
    BY <1>10 DEF Prune, AfterPrune
  <2>2. op[c] # "set"
    BY <2>1 DEF TypeInv, CallInv
  <2> QED BY <1>1, <2>1, <2>2
<1>11. CASE Pruned(c)
  <2>1. /\ pc[c] = "look" /\ UNCHANGED <<tracked, returned, overlaps, op>>
        /\ \E s \in {"look", "range", "return"} : pc' = [pc EXCEPT ![c] = s]
    BY <1>11 DEF Pruned, AfterPrune
  <2>2. op[c] # "set"
    BY <2>1 DEF TypeInv, CallInv
  <2> QED BY <1>1, <2>1, <2>2
<1>12. CASE Return(c)
  BY <1>1, <1>12 DEF Return
<1>13. CASE \E k \in Keys : Look(c, k) \/ Match(c, k)
  BY <1>1, <1>13 DEF Look, Match, TypeInv, CallInv
<1> QED BY <1>2, <1>3, <1>4, <1>5, <1>6, <1>7, <1>8, <1>9, <1>10, <1>11, <1>12, <1>13
        DEF ClientStep, Work

LEMMA TrackNext ==
  ASSUME TypeInv, waitOnMutation, AloneInv, OwnerInv, TrackInv, [Next]_vars
  PROVE  TrackInv'
<1>1. /\ \A w \in returned : w \in Written /\ w = <<w[1], w[2]>> /\ w[2] # NoValue
      /\ cache \in [Keys -> Nat]
  BY DEF TypeInv, TypeOK, VersionInv, Written, NoValue
<1>2. ASSUME NEW c \in Clients, ClientStep(c) PROVE TrackInv'
  <2>1. \A w \in returned' : cache'[w[1]] = w[2] => w[1] \in tracked'
    <3>1. ASSUME NEW w \in returned, cache'[w[1]] = w[2] PROVE w[1] \in tracked'
      <4>1. Holds(w) /\ w[1] \in tracked
        BY <3>1, NothingReturns DEF TrackInv
      <4>2. pc[c] \in {"untrack", "drop"} => w[1] # key[c]
        BY <1>1, <4>1 DEF TrackInv, Holds
      <4> QED BY <1>2, <4>1, <4>2, Effects
    <3>2. ASSUME pc[c] = "return", op[c] = "set", ~overlaps[c], UNCHANGED <<cache, tracked>>,
                 cache'[key[c]] = version[c]
          PROVE  key[c] \in tracked'
      BY <3>2 DEF TrackInv
    <3> QED BY <1>2, <3>1, <3>2, Effects
  <2>2. ASSUME NEW d \in Clients, pc'[d] \in {"untrack", "drop"}
        PROVE  <<key'[d], cache'[key'[d]]>> \notin returned'
    <3>1. CASE d = c
      <4>1. cache'[key'[d]] = NoValue /\ returned' = returned
        BY <1>2, <2>2, <3>1, Effects
      <4> QED BY <1>1, <4>1
    <3>2. CASE d # c
      <4>1. pc[d] \in {"untrack", "drop"} /\ key'[d] = key[d] /\ key[d] \in Keys
        BY <1>2, <2>2, <3>2, OneClient DEF TypeInv, CallInv
      <4>2. returned' = returned
        BY <1>2, <3>2, <4>1, Effects DEF AloneInv
      <4>3. <<key[d], cache[key[d]]>> \notin returned
        BY <4>1 DEF TrackInv
      <4>4. ASSUME <<key[d], cache'[key[d]]>> \in returned PROVE FALSE
        BY <4>3, <4>4, NothingReturns DEF Holds
      <4> QED BY <4>1, <4>2, <4>4
    <3> QED BY <3>1, <3>2
  <2>3. ASSUME NEW d \in Clients, pc'[d] = "untrack", op'[d] = "set"
        PROVE  cache'[key'[d]] # version'[d]
    <3>1. CASE d = c
      <4>1. cache'[key'[d]] = NoValue
        BY <1>2, <2>3, <3>1, Effects
      <4>2. VersionInv'
        BY VersionNext
      <4>3. version'[d] # NoValue
        BY <2>3, <4>2 DEF VersionInv, NoValue
      <4> QED BY <4>1, <4>3
    <3>2. CASE d # c
      <4>1. pc[d] = "untrack" /\ key'[d] = key[d] /\ op[d] = "set" /\ version'[d] = version[d]
        BY <1>2, <2>3, <3>2, OneClient
      <4>2. cache[key[d]] # version[d]
        BY <4>1 DEF TrackInv
      <4> QED BY <4>1, <4>2, NothingComesLate
    <3> QED BY <3>1, <3>2
  <2>4. ASSUME NEW d \in Clients, pc'[d] = "return", op'[d] = "set", ~overlaps'[d],
               cache'[key'[d]] = version'[d]
        PROVE  key'[d] \in tracked'
    <3>1. CASE d = c
      <4>1. /\ UNCHANGED <<cache, key, version, op>>
            /\ cache[key[c]] = NoValue \/ key[c] \in tracked' \/ pc[c] = "untrack"
        BY <1>2, <2>4, <3>1, Effects
      <4>2. version[c] # NoValue
        BY <2>4, <3>1, <4>1 DEF TypeInv, VersionInv, NoValue
      <4>3. pc[c] # "untrack"
        BY <2>4, <3>1, <4>1 DEF TrackInv
      <4> QED BY <2>4, <3>1, <4>1, <4>2, <4>3
    <3>2. CASE d # c
      <4>1. /\ pc[d] = "return" /\ key'[d] = key[d] /\ op[d] = "set" /\ version'[d] = version[d]
            /\ ~overlaps[d]
        BY <1>2, <2>4, <3>2, OneClient, Effects
      <4>2. key[d] \in tracked
        BY <2>4, <4>1, NothingComesLate DEF TrackInv
      <4>3. pc[c] = "idle"
        BY <3>2, <4>1 DEF AloneInv
      <4> QED BY <1>2, <4>1, <4>2, <4>3, Effects
    <3> QED BY <3>1, <3>2
  <2> QED BY <2>1, <2>2, <2>3, <2>4 DEF TrackInv, Holds
<1>3. ASSUME UNCHANGED <<tracked, returned, overlaps, key, version, op>>,
             \A d \in Clients : pc'[d] \in {"untrack", "drop", "return"} =>
               pc[d] = pc'[d] \/ (pc'[d] = "return" /\ op[d] # "set")
      PROVE  TrackInv'
  <2>1. \A w \in returned' : cache'[w[1]] = w[2] => w[1] \in tracked'
    BY <1>3, NothingReturns DEF TrackInv
  <2>2. ASSUME NEW d \in Clients, pc'[d] \in {"untrack", "drop"}
        PROVE  <<key'[d], cache'[key'[d]]>> \notin returned'
    <3>1. <<key[d], cache[key[d]]>> \notin returned
      BY <1>3, <2>2 DEF TrackInv
    <3>2. ASSUME <<key[d], cache'[key[d]]>> \in returned PROVE FALSE
      BY <3>1, <3>2, NothingReturns DEF Holds
    <3> QED BY <1>3, <3>2
  <2>3. ASSUME NEW d \in Clients, pc'[d] = "untrack", op'[d] = "set"
        PROVE  cache'[key'[d]] # version'[d]
    <3>1. pc[d] = "untrack" /\ op[d] = "set"
      BY <1>3, <2>3
    <3> QED BY <1>3, <3>1, NothingComesLate DEF TrackInv
  <2>4. ASSUME NEW d \in Clients, pc'[d] = "return", op'[d] = "set", ~overlaps'[d],
               cache'[key'[d]] = version'[d]
        PROVE  key'[d] \in tracked'
    <3>1. pc[d] = "return" /\ op[d] = "set"
      BY <1>3, <2>4
    <3> QED BY <1>3, <2>4, <3>1, NothingComesLate DEF TrackInv
  <2> QED BY <2>1, <2>2, <2>3, <2>4 DEF TrackInv, Holds
<1>4. CASE Process
  <2>1. UNCHANGED <<tracked, returned, overlaps, key, version, op>>
    BY <1>4, OneItem
  <2>2. pc' = pc \/ \E d \in Clients : pc[d] = "waiting" /\ pc' = [pc EXCEPT ![d] = AfterWait(d)]
    BY <1>4, OneItem
  <2>3. ASSUME NEW d \in Clients, pc[d] = "waiting", pc' = [pc EXCEPT ![d] = AfterWait(d)],
               NEW e \in Clients, pc'[e] \in {"untrack", "drop", "return"}
        PROVE  pc[e] = pc'[e] \/ (pc'[e] = "return" /\ op[e] # "set")
    <3>1. op[d] \in {"set", "delete", "deletePattern"} /\ pc \in [Clients -> Steps]
      BY <2>3 DEF TypeInv, TypeOK, CallInv
    <3> QED BY <2>3, <3>1 DEF AfterWait
  <2> QED BY <1>3, <2>1, <2>2, <2>3
<1>5. CASE (\E k \in Keys : Evict(k)) \/ UNCHANGED vars
  BY <1>3, <1>5 DEF Evict, vars, call, histories, history
<1> QED BY <1>2, <1>4, <1>5 DEF Next, ClientStep

-----------------------------------------------------------------------------

\* A DeletePattern on its way, seen from the client whose step it is.
LEMMA ErasingNext ==
  ASSUME TypeInv, waitOnMutation, OwnerInv, TrackInv, EraseInv, [Next]_vars,
         NEW c \in Clients, ClientStep(c)
  PROVE  Erasing(c)' /\ returned \subseteq returned' /\ (erased' = erased \/ erased' = erased \cup asof[c])
         /\ (erased' # erased => pc[c] = "return")
<1> USE DEF Goto, ristretto, history, histories, call
<1>1. /\ pc \in [Clients -> Steps] /\ op \in [Clients -> Operations] /\ asof \in [Clients -> SUBSET Written]
      /\ key \in [Clients -> Keys \cup {NoKey}] /\ cache \in [Keys -> Nat] /\ Erasing(c)
      /\ todo \in [Clients -> SUBSET Keys]
  BY DEF TypeInv, TypeOK, EraseInv
<1>2. /\ \A w \in returned : w[1] \in Keys /\ w[2] # NoValue
      /\ \A w \in asof[c] : w \in returned /\ w[1] \in PatternKeys
      /\ \A w \in asof[c] : Holds(w)' => Holds(w)
  <2>1. \A w \in returned : w[1] \in Keys /\ w[2] # NoValue
    BY DEF TypeInv, TypeOK, VersionInv, Written, NoValue
  <2>2. \A w \in asof[c] : w \in returned /\ w[1] \in PatternKeys
    BY <1>1 DEF Erasing
  <2>3. \A w \in returned : cache'[w[1]] = w[2] => Holds(w)
    BY NothingReturns
  <2> QED BY <2>1, <2>2, <2>3 DEF Holds
<1>3. ASSUME asof'[c] = {} PROVE Erasing(c)'
  BY <1>3 DEF Erasing
<1>4. op[c] # "deletePattern" => asof[c] = {}
  BY <1>1 DEF Erasing
<1>5. CASE \E k \in Keys : Set(c, k) \/ Delete(c, k)
  <2>1. pc[c] = "idle" /\ UNCHANGED <<returned, asof, erased>>
    BY <1>5 DEF Set, Delete, Call
  <2>2. asof'[c] = {}
    BY <1>4, <2>1 DEF TypeInv, CallInv
  <2> QED BY <1>3, <2>1, <2>2
<1>6. CASE Stats(c)
  <2>1. pc[c] = "idle" /\ UNCHANGED <<returned, asof, erased>>
    BY <1>6 DEF Stats, Call
  <2>2. asof'[c] = {}
    BY <1>4, <2>1 DEF TypeInv, CallInv
  <2> QED BY <1>3, <2>1, <2>2
<1>7. CASE DeletePattern(c)
  <2>1. /\ pc'[c] = "prune" /\ op'[c] = "deletePattern" /\ UNCHANGED <<returned, erased>>
        /\ asof'[c] = {w \in returned : w[1] \in PatternKeys}
    BY <1>1, <1>7 DEF DeletePattern, Call
  <2> QED BY <2>1 DEF Erasing
<1>8. CASE Put(c) \/ Sync(c) \/ TrackKey(c) \/ MaybePrune(c)
  <2>1. op[c] \in {"set", "delete"} /\ UNCHANGED <<returned, asof, erased>>
    BY <1>8 DEF Put, Sync, TrackKey, MaybePrune, TypeInv, CallInv
  <2> QED BY <1>3, <1>4, <2>1
<1>9. CASE Wait(c)
  <2>1. /\ UNCHANGED <<op, returned, asof, erased, todo, key>> /\ pc[c] = "wait" /\ pc'[c] = "waiting"
    BY <1>1, <1>9 DEF Wait
  <2> QED BY <1>1, <1>2, <2>1 DEF Erasing
<1>10. CASE Remove(c)
  <2>1. /\ UNCHANGED <<op, returned, asof, erased, todo, key>> /\ pc[c] = "remove" /\ pc'[c] = "untrack"
        /\ key[c] \in Keys /\ cache'[key[c]] = NoValue
    BY <1>1, <1>10 DEF Remove, Del, TypeInv, CallInv
  <2>2. \A w \in asof[c] : Holds(w)' => w[1] \in todo[c]
    BY <1>1, <1>2, <2>1 DEF Erasing, Holds
  <2> QED BY <1>1, <1>2, <2>1, <2>2 DEF Erasing
<1>11. CASE UntrackKey(c)
  <2>1. /\ UNCHANGED <<op, returned, asof, erased, todo, key>> /\ pc[c] = "untrack"
        /\ op[c] = "deletePattern" => pc'[c] = "range"
    BY <1>1, <1>11 DEF UntrackKey, TypeInv, CallInv
  <2>2. CASE op[c] = "deletePattern"
    BY <1>1, <1>2, <2>1, <2>2 DEF Erasing
  <2>3. CASE op[c] # "deletePattern"
    BY <1>3, <1>4, <2>1, <2>3
  <2> QED BY <2>1, <2>2, <2>3
<1>12. ASSUME AfterPrune(c), UNCHANGED <<cache, tracked, op, returned, asof, key>>, pc[c] \in {"prune", "look"}
       PROVE  Erasing(c)'
  <2>1. CASE op[c] = "deletePattern"
    <3>1. todo'[c] = tracked \cap PatternKeys /\ pc'[c] = "range"
      BY <1>1, <1>12, <2>1 DEF AfterPrune
    <3>2. \A w \in asof[c] : Holds(w) => w[1] \in todo'[c]
      BY <1>2, <3>1 DEF TrackInv
    <3> QED BY <1>2, <1>12, <2>1, <3>1, <3>2 DEF Erasing
  <2>2. CASE op[c] # "deletePattern"
    BY <1>3, <1>4, <1>12, <2>2
  <2> QED BY <2>1, <2>2
<1>13. ASSUME UNCHANGED <<op, returned, asof>>, pc'[c] \in {"look", "drop"} PROVE Erasing(c)'
  BY <1>1, <1>2, <1>13 DEF Erasing
<1>14. CASE Prune(c)
  <2>1. /\ UNCHANGED <<cache, tracked, op, returned, asof, key, erased>> /\ pc[c] = "prune"
        /\ AfterPrune(c) \/ Goto(c, "look")
    BY <1>14 DEF Prune
  <2> QED BY <1>1, <1>12, <1>13, <2>1
<1>15. CASE Pruned(c)
  BY <1>12, <1>15 DEF Pruned
<1>16. CASE DropKey(c)
  BY <1>1, <1>13, <1>16 DEF DropKey
<1>17. ASSUME NEW k \in Keys, Look(c, k)
       PROVE  UNCHANGED <<op, returned, asof, erased>> /\ pc'[c] \in {"look", "drop"}
  BY <1>1, <1>17 DEF Look
<1>18. CASE EndOfRange(c)
  <2>1. /\ UNCHANGED <<op, returned, asof, erased>> /\ pc[c] = "range" /\ pc'[c] = "wait" /\ todo[c] = {}
    BY <1>1, <1>18 DEF EndOfRange, AfterMutation
  <2> QED BY <1>1, <1>2, <2>1 DEF Erasing
<1>19. ASSUME NEW k \in Keys, Match(c, k) PROVE Erasing(c)' /\ UNCHANGED <<returned, erased>>
  <2>1. /\ UNCHANGED <<op, returned, asof, erased>> /\ pc[c] = "range" /\ pc'[c] = "remove"
        /\ key'[c] = k /\ todo'[c] = todo[c] \ {k}
    BY <1>1, <1>19 DEF Match
  <2>2. \A w \in asof[c] : Holds(w)' => w[1] \in todo'[c] \cup {key'[c]}
    BY <1>1, <1>2, <2>1 DEF Erasing
  <2> QED BY <1>1, <1>2, <2>1, <2>2 DEF Erasing
<1>20. CASE Return(c)
  BY <1>1, <1>3, <1>20 DEF Return
<1> QED BY <1>5, <1>6, <1>7, <1>8, <1>9, <1>10, <1>11, <1>13, <1>14, <1>15, <1>16, <1>17, <1>18, <1>19, <1>20
        DEF ClientStep, Work

LEMMA EraseNext ==
  ASSUME TypeInv, waitOnMutation, OwnerInv, TrackInv, EraseInv, [Next]_vars
  PROVE  EraseInv'
<1>1. \A w \in returned : Holds(w)' => Holds(w)
  BY NothingReturns DEF Holds
<1>2. ASSUME NEW d \in Clients, returned \subseteq returned', UNCHANGED <<op, key>>, pc'[d] = pc[d],
             todo'[d] = todo[d], asof'[d] = asof[d]
      PROVE  Erasing(d)'
  BY <1>1, <1>2 DEF EraseInv, Erasing
<1>3. ASSUME NEW c \in Clients, ClientStep(c) PROVE EraseInv'
  <2>1. \A w \in erased' : w \in returned' /\ ~Holds(w)'
    <3>1. \A w \in erased : w \in returned' /\ ~Holds(w)'
      BY <1>1, <1>3, ErasingNext DEF EraseInv
    <3>2. pc[c] = "return" => \A w \in asof[c] : w \in returned' /\ ~Holds(w)'
      BY <1>1, <1>3, ErasingNext DEF EraseInv, Erasing
    <3> QED BY <1>3, <3>1, <3>2, ErasingNext
  <2>2. ASSUME NEW d \in Clients, d # c PROVE Erasing(d)'
    <3>1. /\ op'[d] = op[d] /\ key'[d] = key[d] /\ pc'[d] = pc[d] /\ todo'[d] = todo[d]
          /\ asof'[d] = asof[d] /\ returned \subseteq returned' /\ Erasing(d)
      BY <1>3, <2>2, OneClient, ErasingNext DEF EraseInv
    <3> QED BY <1>1, <3>1 DEF Erasing
  <2> QED BY <1>3, <2>1, <2>2, ErasingNext DEF EraseInv
<1>4. ASSUME UNCHANGED <<returned, erased, op, key, todo, asof>>,
             \A d \in Clients : \/ pc'[d] = pc[d]
                                \/ op[d] # "deletePattern"
                                \/ pc[d] = "waiting" /\ pc'[d] = "return"
      PROVE  EraseInv'
  <2>1. \A w \in erased' : w \in returned' /\ ~Holds(w)'
    BY <1>1, <1>4 DEF EraseInv
  <2>2. ASSUME NEW d \in Clients PROVE Erasing(d)'
    <3>1. CASE pc'[d] = pc[d]
      BY <1>2, <1>4, <3>1
    <3>2. CASE op[d] # "deletePattern"
      BY <1>4, <3>2 DEF EraseInv, Erasing
    <3>3. CASE pc[d] = "waiting" /\ pc'[d] = "return"
      BY <1>1, <1>4, <3>3 DEF EraseInv, Erasing
    <3> QED BY <1>4, <3>1, <3>2, <3>3
  <2> QED BY <2>1, <2>2 DEF EraseInv
<1>5. CASE Process
  <2>1. UNCHANGED <<returned, erased, op, key, todo, asof>>
    BY <1>5, OneItem
  <2>2. pc' = pc \/ \E d \in Clients : pc[d] = "waiting" /\ pc' = [pc EXCEPT ![d] = AfterWait(d)]
    BY <1>5, OneItem
  <2>3. \A d \in Clients : op[d] = "deletePattern" => AfterWait(d) = "return"
    BY DEF AfterWait
  <2>4. pc \in [Clients -> Steps]
    BY DEF TypeInv, TypeOK
  <2> QED BY <1>4, <2>1, <2>2, <2>3, <2>4
<1>6. CASE (\E k \in Keys : Evict(k)) \/ UNCHANGED vars
  BY <1>4, <1>6 DEF Evict, vars, call, histories, history
<1> QED BY <1>3, <1>5, <1>6 DEF Next, ClientStep

LEMMA HeldInvariant == Spec => [](TypeInv /\ HeldInv)
<1>1. TypeInv /\ HeldInv /\ [Next]_vars => HeldInv'
  <2> SUFFICES ASSUME TypeInv, HeldInv, [Next]_vars, waitOnMutation' PROVE HeldInv'
    BY DEF HeldInv
  <2>1. waitOnMutation
    <3>1. ASSUME NEW c \in Clients, ClientStep(c) PROVE waitOnMutation' = waitOnMutation
      BY <3>1, OneClient
    <3>2. Process => waitOnMutation' = waitOnMutation
      BY OneItem
    <3>3. (\E k \in Keys : Evict(k)) \/ UNCHANGED vars => waitOnMutation' = waitOnMutation
      BY DEF Evict, vars
    <3> QED BY <3>1, <3>2, <3>3 DEF Next, ClientStep
  <2> QED BY <2>1, AloneNext, OwnerNext, TrackNext, EraseNext DEF HeldInv
<1> QED BY <1>1, TypeInit, TypeInvariant, PTL DEF Spec

\* With WithWait: whatever clients set, delete and prune at the same time and
\* Ristretto refuses, evicts and delays, what a Set has written that overlapped
\* no other call is tracked for as long as Ristretto holds it.
THEOREM HeldStaysTracked == Spec => []HeldIsTracked
<1>1. TypeInv /\ HeldInv => HeldIsTracked
  <2> SUFFICES ASSUME TypeInv, HeldInv, waitOnMutation, NEW k \in Keys, <<k, cache[k]>> \in returned
               PROVE  k \in tracked
    BY DEF HeldIsTracked
  <2> QED BY DEF HeldInv, TrackInv, Holds
<1> QED BY <1>1, HeldInvariant, PTL

\* With WithWait: what such a Set had written before a DeletePattern was called
\* that matches it is gone when the DeletePattern returns, and never comes back.
THEOREM PatternsDelete == Spec => []PatternDeletes
<1>1. TypeInv /\ HeldInv => PatternDeletes
  <2> SUFFICES ASSUME TypeInv, HeldInv, waitOnMutation, NEW k \in Keys, <<k, cache[k]>> \in erased
               PROVE  FALSE
    BY DEF PatternDeletes
  <2> QED BY DEF HeldInv, EraseInv, Holds
<1> QED BY <1>1, HeldInvariant, PTL
====
