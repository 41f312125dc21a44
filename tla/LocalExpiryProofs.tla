-------------------------- MODULE LocalExpiryProofs --------------------------
(***************************************************************************)
(* Theorems about LocalExpiry, for every localTTL, every TTL that writers  *)
(* give, every delay of a reply, and any number of writes.                 *)
(***************************************************************************)
EXTENDS LocalExpiry, TLAPS

Entry == [version : Versions, expiration : Nat, ownTTL : BOOLEAN]

TypeInv ==
  /\ now \in Nat \ {0} /\ now <= Never
  /\ version \in Versions
  /\ deadline \in [Versions -> Nat]
  /\ retired \in [Versions -> Nat]
  /\ pc \in {"idle", "get", "pttl", "commitRead"}
  /\ value \in Versions
  /\ readAt \in Nat
  /\ remaining \in Int
  /\ sameEntry \in BOOLEAN
  /\ l1 \in Entry

\* What a reader has on its way was in Redis when GET ran, not long ago, and an
\* own TTL counts from then at the latest.
FlightInv ==
  pc \in {"pttl", "commitRead"} =>
    /\ value \in 1 .. version
    /\ readAt <= now /\ now <= readAt + MaxDelay
    /\ readAt <= deadline[value] /\ readAt <= retired[value]
    /\ pc = "commitRead" /\ sameEntry /\ MayBackfill /\ deadline[value] # Never
         => remaining # NoExpiry /\ readAt + remaining <= deadline[value]

\* An entry of L1 expires localTTL after it was cached, and so localTTL and one
\* reply after its original was last seen; or one reply after its original.
LocalInv ==
  l1.version # 0 =>
    /\ l1.version \in 1 .. version
    /\ l1.expiration > 0
    /\ l1.expiration <= now + LocalTTL
    /\ l1.expiration <= deadline[l1.version] + LocalTTL + MaxDelay
    /\ l1.expiration <= retired[l1.version] + LocalTTL + MaxDelay
    /\ l1.ownTTL /\ deadline[l1.version] # Never
         => l1.expiration <= deadline[l1.version] + MaxDelay

ExpiryInv == TypeInv /\ FlightInv /\ LocalInv

LEMMA Bounds == /\ LocalTTL \in Nat \ {0} /\ MaxDelay \in Nat /\ MaxTime \in Nat
                /\ MaxVersion \in Nat /\ Never \in Nat /\ \A ttl \in RemoteTTLs : ttl \in Nat
  BY ConstantsAssumption DEF Never

LEMMA ExpiryInit == Init => ExpiryInv
<1> SUFFICES ASSUME Init PROVE ExpiryInv
  OBVIOUS
<1>1. NoEntry \in Entry /\ NoEntry.version = 0 /\ 0 \in Versions
  BY Bounds DEF NoEntry, Entry, Versions
<1>2. TypeInv
  <2>1. 1 <= Never /\ Never \in Nat
    BY Bounds DEF Never
  <2> QED BY <1>1, <2>1 DEF Init, TypeInv
<1> QED BY <1>1, <1>2 DEF Init, ExpiryInv, FlightInv, LocalInv

\* A write or a deletion retires the last version at most, and now.
LEMMA RetiredType ==
  ASSUME ExpiryInv
  PROVE  /\ Retired \in [Versions -> Nat]
         /\ \A v \in Versions : Retired[v] = retired[v] \/ Retired[v] = now
  BY DEF ExpiryInv, TypeInv, Retired

LEMMA WriterKeeps ==
  ASSUME ExpiryInv, (\E ttl \in RemoteTTLs : RemoteSet(ttl)) \/ RemoteDelete
  PROVE  ExpiryInv'
<1>1. /\ UNCHANGED <<now, pc, value, readAt, remaining, sameEntry, l1>>
      /\ retired' \in [Versions -> Nat]
      /\ \A v \in Versions : retired'[v] = retired[v] \/ retired'[v] = now
  BY RetiredType DEF RemoteSet, RemoteDelete, flight
<1>2. /\ version' \in Versions /\ version' >= version /\ version \in Nat
      /\ deadline' \in [Versions -> Nat]
      /\ \A v \in 1 .. version : deadline'[v] = deadline[v]
  <2>0. /\ now \in Nat /\ version \in Versions /\ deadline \in [Versions -> Nat]
        /\ MaxVersion \in Nat /\ Never \in Nat
    BY Bounds DEF ExpiryInv, TypeInv
  <2>1. CASE RemoteDelete
    BY <2>0, <2>1 DEF RemoteDelete, Versions
  <2>2. ASSUME NEW ttl \in RemoteTTLs, RemoteSet(ttl)
        PROVE  /\ version' \in Versions /\ version' >= version
               /\ deadline' \in [Versions -> Nat]
               /\ \A v \in 1 .. version : deadline'[v] = deadline[v]
    <3>1. ttl \in Nat /\ (IF ttl = 0 THEN Never ELSE now + ttl) \in Nat
      BY <2>0, Bounds
    <3>2. /\ version < MaxVersion /\ version' = version + 1
          /\ deadline' = [deadline EXCEPT ![version + 1] = IF ttl = 0 THEN Never ELSE now + ttl]
      BY <2>2 DEF RemoteSet
    <3>3. version' \in Versions /\ version' >= version /\ version + 1 \notin 1 .. version
          /\ 1 .. version \subseteq Versions
      BY <2>0, <3>2 DEF Versions
    <3> QED BY <2>0, <3>1, <3>2, <3>3
  <2> QED BY <2>0, <2>1, <2>2 DEF Versions
<1>3. TypeInv'
  BY <1>1, <1>2 DEF ExpiryInv, TypeInv
<1>4. now \in Nat /\ 1 .. version \subseteq Versions /\ retired \in [Versions -> Nat]
      /\ deadline \in [Versions -> Nat]
  BY Bounds DEF ExpiryInv, TypeInv, Versions
<1>5. FlightInv'
  <2> SUFFICES ASSUME pc \in {"pttl", "commitRead"} PROVE FlightInv'
    BY <1>1 DEF FlightInv
  <2>1. /\ value \in 1 .. version /\ readAt <= now /\ readAt \in Nat
        /\ readAt <= retired[value] /\ value \in Versions
    BY <1>4 DEF ExpiryInv, FlightInv, TypeInv
  <2>2. value \in 1 .. version' /\ deadline'[value] = deadline[value] /\ readAt <= retired'[value]
    BY <1>1, <1>2, <1>4, <2>1 DEF Versions
  <2> QED BY <1>1, <2>2 DEF ExpiryInv, FlightInv, MayBackfill
<1>6. LocalInv'
  <2> SUFFICES ASSUME l1.version # 0 PROVE LocalInv'
    BY <1>1 DEF LocalInv
  <2>1. /\ l1.version \in 1 .. version /\ l1.version \in Versions /\ l1.expiration \in Nat
        /\ l1.expiration <= now + LocalTTL
        /\ l1.expiration <= retired[l1.version] + LocalTTL + MaxDelay
    BY <1>4 DEF ExpiryInv, LocalInv, TypeInv, Entry
  <2>2. l1.version \in 1 .. version' /\ deadline'[l1.version] = deadline[l1.version]
    BY <1>2, <2>1 DEF Versions
  <2>3. l1.expiration <= retired'[l1.version] + LocalTTL + MaxDelay
    BY <1>1, <1>4, <2>1, Bounds
  <2> QED BY <1>1, <2>2, <2>3 DEF ExpiryInv, LocalInv
<1> QED BY <1>3, <1>5, <1>6 DEF ExpiryInv

LEMMA ReadKeeps ==
  ASSUME ExpiryInv, GetLocal \/ ReadValue \/ ReadTTL
  PROVE  ExpiryInv'
<1>1. UNCHANGED <<now, version, deadline, retired, l1>>
  BY DEF GetLocal, ReadValue, ReadTTL, remote
<1>2. LocalInv'
  BY <1>1 DEF ExpiryInv, LocalInv
<1>3. /\ now \in Nat /\ version \in Nat /\ deadline \in [Versions -> Nat] /\ retired \in [Versions -> Nat]
      /\ 0 \in Versions /\ version \in Versions /\ MaxDelay \in Nat /\ Never \in Nat
  BY Bounds DEF ExpiryInv, TypeInv, Versions
<1>4. CASE GetLocal
  BY <1>1, <1>2, <1>4 DEF ExpiryInv, TypeInv, FlightInv, GetLocal
<1>5. CASE ReadValue
  <2>1. CASE Return
    BY <1>1, <1>2, <1>3, <2>1 DEF ExpiryInv, TypeInv, FlightInv, Return
  <2>2. CASE Live /\ pc' = "pttl" /\ value' = version /\ readAt' = now /\ UNCHANGED <<remaining, sameEntry>>
    <3>1. TypeInv'
      BY <1>1, <1>3, <2>2 DEF ExpiryInv, TypeInv
    <3>2. version \in 1 .. version /\ now < deadline[version] /\ retired[version] = Never
      BY <1>3, <2>2 DEF Live
    <3>3. now <= Never /\ version <= version /\ now <= now + MaxDelay
      BY <1>3 DEF ExpiryInv, TypeInv
    <3>4. FlightInv'
      BY <1>1, <1>3, <2>2, <3>2, <3>3 DEF FlightInv
    <3> QED BY <1>2, <3>1, <3>4 DEF ExpiryInv
  <2> QED BY <1>5, <2>1, <2>2 DEF ReadValue
<1>6. CASE ReadTTL
  <2>1. pc = "pttl" /\ pc' = "commitRead" /\ UNCHANGED <<value, readAt>> /\ sameEntry' = (version = value)
    BY <1>6 DEF ReadTTL
  <2>2. /\ value \in 1 .. version /\ readAt <= now /\ now <= readAt + MaxDelay /\ readAt \in Nat
        /\ readAt <= deadline[value] /\ readAt <= retired[value]
    BY <2>1 DEF ExpiryInv, FlightInv, TypeInv
  <2>3. \/ ~Live /\ remaining' = KeyMissing
        \/ Live /\ deadline[version] = Never /\ remaining' = NoExpiry
        \/ Live /\ deadline[version] # Never /\ remaining' = deadline[version] - now
    BY <1>6 DEF ReadTTL
  <2>4. remaining' \in Int
    BY <1>3, <2>3 DEF KeyMissing, NoExpiry
  <2>5. TypeInv'
    BY <1>1, <2>1, <2>4 DEF ExpiryInv, TypeInv
  <2>6. sameEntry' /\ MayBackfill' /\ deadline[value] # Never
          => remaining' # NoExpiry /\ readAt + remaining' <= deadline[value]
    <3>1. CASE ~Live /\ remaining' = KeyMissing
      BY <3>1 DEF MayBackfill, KeyMissing, NoExpiry
    <3>2. CASE Live /\ deadline[version] = Never
      BY <2>1, <3>2
    <3>3. ASSUME Live, remaining' = deadline[version] - now, sameEntry'
          PROVE  remaining' # NoExpiry /\ readAt + remaining' <= deadline[value]
      <4>1. now < deadline[version] /\ version = value
        BY <2>1, <3>3 DEF Live
      <4>2. deadline[version] \in Nat /\ remaining' = deadline[version] - now
        BY <1>3, <3>3
      <4>3. readAt \in Nat /\ readAt <= now /\ now \in Nat
        BY <1>3, <2>2
      <4>4. remaining' # NoExpiry /\ readAt + remaining' <= deadline[version]
        BY ONLY <4>1, <4>2, <4>3 DEF NoExpiry
      <4> QED BY <4>1, <4>4
    <3> QED BY <2>3, <3>1, <3>2, <3>3
  <2>7. FlightInv'
    BY <1>1, <2>1, <2>2, <2>6 DEF FlightInv, Never
  <2> QED BY <1>2, <2>5, <2>7 DEF ExpiryInv
<1> QED BY <1>4, <1>5, <1>6

LEMMA CommitKeeps ==
  ASSUME ExpiryInv, CommitRead
  PROVE  ExpiryInv'
<1>1. /\ pc = "commitRead" /\ Return /\ UNCHANGED <<now, version, deadline, retired>>
      /\ l1' = IF MayBackfill
                 THEN [version |-> value, expiration |-> Expiration(BackfillTTL), ownTTL |-> sameEntry]
                 ELSE l1
  BY DEF CommitRead, remote
<1>2. /\ now \in Nat \ {0} /\ remaining \in Int /\ readAt \in Nat /\ value \in Versions
      /\ LocalTTL \in Nat \ {0} /\ MaxDelay \in Nat /\ sameEntry \in BOOLEAN
      /\ deadline \in [Versions -> Nat] /\ retired \in [Versions -> Nat]
  BY Bounds DEF ExpiryInv, TypeInv
<1>3. FlightInv'
  BY <1>1 DEF FlightInv, Return
<1>4. ASSUME l1' \in Entry PROVE TypeInv'
  <2>1. 0 \in Versions
    BY Bounds DEF Versions
  <2> QED BY <1>1, <1>4, <2>1 DEF ExpiryInv, TypeInv, Return
<1>5. CASE ~MayBackfill
  BY <1>1, <1>3, <1>4, <1>5 DEF ExpiryInv, LocalInv, TypeInv
<1>6. CASE MayBackfill
  <2>1. /\ BackfillTTL \in Nat \ {0} /\ BackfillTTL <= LocalTTL
        /\ remaining # NoExpiry => BackfillTTL <= remaining
    BY <1>2, <1>6 DEF MayBackfill, BackfillTTL, NoExpiry
  <2>2. Expiration(BackfillTTL) = now + BackfillTTL
    BY <2>1 DEF Expiration
  <2> DEFINE e == now + BackfillTTL
  <2>3. l1' = [version |-> value, expiration |-> e, ownTTL |-> sameEntry]
    BY <1>1, <1>6, <2>2
  <2>4. e \in Nat /\ e > 0 /\ e <= now + LocalTTL
    BY <1>2, <2>1
  <2>5. /\ value \in 1 .. version /\ now <= readAt + MaxDelay
        /\ readAt <= deadline[value] /\ readAt <= retired[value]
        /\ sameEntry /\ deadline[value] # Never
             => remaining # NoExpiry /\ readAt + remaining <= deadline[value]
    BY <1>1, <1>6 DEF ExpiryInv, FlightInv
  <2>6. /\ e <= deadline[value] + LocalTTL + MaxDelay /\ e <= retired[value] + LocalTTL + MaxDelay
        /\ sameEntry /\ deadline[value] # Never => e <= deadline[value] + MaxDelay
    <3>1. deadline[value] \in Nat /\ retired[value] \in Nat
      BY <1>2
    <3>2. e <= deadline[value] + LocalTTL + MaxDelay /\ e <= retired[value] + LocalTTL + MaxDelay
      BY <1>2, <2>1, <2>5, <3>1
    <3>3. ASSUME sameEntry, deadline[value] # Never PROVE e <= deadline[value] + MaxDelay
      <4>1. BackfillTTL <= remaining /\ readAt + remaining <= deadline[value] /\ now <= readAt + MaxDelay
        BY <2>1, <2>5, <3>3
      <4> QED BY ONLY <1>2, <2>1, <3>1, <4>1
    <3> QED BY <3>2, <3>3
  <2> HIDE DEF e
  <2>7. l1' \in Entry /\ l1'.version = value /\ l1'.expiration = e /\ l1'.ownTTL = sameEntry
    BY <1>2, <2>3, <2>4 DEF Entry
  <2>8. LocalInv'
    BY <1>1, <2>4, <2>5, <2>6, <2>7 DEF LocalInv, Never
  <2> QED BY <1>3, <1>4, <2>7, <2>8 DEF ExpiryInv
<1> QED BY <1>5, <1>6

LEMMA ClockKeeps ==
  ASSUME ExpiryInv, LocalExpire \/ Tick \/ UNCHANGED vars
  PROVE  ExpiryInv'
<1>1. UNCHANGED <<version, deadline, retired, pc, value, readAt, remaining, sameEntry>>
  BY DEF LocalExpire, Tick, vars, remote, flight
<1>2. /\ now \in Nat \ {0} /\ now' \in Nat \ {0} /\ now' >= now /\ now' <= Never
      /\ pc \in {"pttl", "commitRead"} /\ now' # now => now' <= readAt + MaxDelay
  <2>1. now \in Nat \ {0} /\ readAt \in Nat /\ MaxDelay \in Nat /\ now <= Never /\ MaxTime \in Nat
    BY Bounds DEF ExpiryInv, TypeInv
  <2>2. \/ now' = now
        \/ /\ now' = now + 1 /\ now < MaxTime
           /\ pc \in {"pttl", "commitRead"} => now < readAt + MaxDelay
    BY DEF LocalExpire, Tick, vars
  <2> QED BY <2>1, <2>2 DEF Never
<1>3. l1' = l1 \/ (l1' \in Entry /\ l1'.version = 0)
  <2>1. NoEntry \in Entry /\ NoEntry.version = 0
    BY Bounds DEF NoEntry, Entry, Versions
  <2> QED BY <2>1 DEF LocalExpire, Tick, vars
<1>4. TypeInv'
  BY <1>1, <1>2, <1>3 DEF ExpiryInv, TypeInv, Never
<1>5. FlightInv'
  <2>1. readAt \in Nat
    BY DEF ExpiryInv, TypeInv
  <2> QED BY <1>1, <1>2, <2>1 DEF ExpiryInv, FlightInv, MayBackfill, Never
<1>6. LocalInv'
  <2>1. l1.expiration \in Nat /\ LocalTTL \in Nat
    BY Bounds DEF ExpiryInv, TypeInv, Entry
  <2> QED BY <1>1, <1>2, <1>3, <2>1 DEF ExpiryInv, LocalInv, Never
<1> QED BY <1>4, <1>5, <1>6 DEF ExpiryInv

LEMMA ExpiryInvariant == Spec => []ExpiryInv
<1>1. ExpiryInv /\ [Next]_vars => ExpiryInv'
  BY WriterKeeps, ReadKeeps, CommitKeeps, ClockKeeps DEF Next
<1> QED BY <1>1, ExpiryInit, PTL DEF Spec

\* For any TTLs, writes and delays: L1 answers with what is gone from Redis for
\* at most localTTL and the time of one reply.
THEOREM StalenessIsBounded == Spec => []StalenessBounded
<1>1. ExpiryInv => StalenessBounded
  <2> SUFFICES ASSUME ExpiryInv, Readable
               PROVE  now <= Gone(l1.version) + LocalTTL + MaxDelay
    BY DEF StalenessBounded
  <2>1. /\ l1.expiration > 0 /\ l1.version \in Versions
        /\ l1.expiration <= deadline[l1.version] + LocalTTL + MaxDelay
        /\ l1.expiration <= retired[l1.version] + LocalTTL + MaxDelay
    BY DEF ExpiryInv, LocalInv, Readable, TypeInv, Entry
  <2>2. l1.expiration \in Nat /\ now \in Nat /\ now <= l1.expiration
    BY <2>1 DEF ExpiryInv, TypeInv, Entry, Readable
  <2>3. deadline[l1.version] \in Nat /\ retired[l1.version] \in Nat
    BY <2>1 DEF ExpiryInv, TypeInv
  <2> QED BY <2>1, <2>2, <2>3, Bounds DEF Gone
<1> QED BY <1>1, ExpiryInvariant, PTL

\* For any TTLs, writes and delays: an entry of L1 that has its original's TTL
\* outlives the original by the time of one reply at most.
THEOREM EntriesOutliveByDelay == Spec => []OutlivesByDelay
<1>1. ExpiryInv => OutlivesByDelay
  <2> SUFFICES ASSUME ExpiryInv, Readable, l1.ownTTL, deadline[l1.version] # Never
               PROVE  now <= deadline[l1.version] + MaxDelay
    BY DEF OutlivesByDelay
  <2>1. /\ l1.expiration > 0 /\ l1.version \in Versions
        /\ l1.expiration <= deadline[l1.version] + MaxDelay
    BY DEF ExpiryInv, LocalInv, Readable, TypeInv, Entry
  <2>2. l1.expiration \in Nat /\ now \in Nat /\ now <= l1.expiration
    BY <2>1 DEF ExpiryInv, TypeInv, Entry, Readable
  <2>3. deadline[l1.version] \in Nat
    BY <2>1 DEF ExpiryInv, TypeInv
  <2> QED BY <2>1, <2>2, <2>3, Bounds
<1> QED BY <1>1, ExpiryInvariant, PTL
=============================================================================
