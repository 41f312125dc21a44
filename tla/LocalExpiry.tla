----------------------------- MODULE LocalExpiry -----------------------------
(***************************************************************************)
(* How long an entry of L1 lives: the TTL that TwoLevelStore.Get takes     *)
(* from Redis when it backfills L1, against the clock.  One key, one       *)
(* instance that reads, and writers that its broadcasts do not reach, so   *)
(* nothing but expiry removes what it has cached.                          *)
(*                                                                         *)
(* The pipeline of getWithTTL runs GET and PTTL as two commands, and the   *)
(* reply takes its time.  Redis has an entry while now < deadline;         *)
(* MemoryStore has one while now <= expiration.                            *)
(***************************************************************************)
EXTENDS Integers

CONSTANTS
  LocalTTL,     \* Store.localTTL
  RemoteTTLs,   \* what writers give as TTL, 0 for none
  MaxDelay,     \* bound: from GET in Redis to the backfill
  MaxTime,      \* bound: readings of the clock
  MaxVersion    \* bound: writes

ASSUME ConstantsAssumption ==
  /\ LocalTTL \in Nat \ {0}
  /\ RemoteTTLs \subseteq Nat
  /\ {MaxDelay, MaxTime, MaxVersion} \subseteq Nat

VARIABLES
  now,
  version,    \* the version of the entry in Redis, 0 before the first
  deadline,   \* deadline[v]: when Redis expires version v, or Never
  retired,    \* retired[v]: when v was replaced or deleted, or Never
  pc,
  value,      \* the version GET returned
  readAt,     \* history: when GET ran in Redis
  remaining,  \* what PTTL returned
  sameEntry,  \* history: GET and PTTL saw the same entry
  l1          \* the entry of L1

remote == <<version, deadline, retired>>
flight == <<pc, value, readAt, remaining, sameEntry>>
vars == <<now, remote, flight, l1>>

Never == MaxTime + 1
Versions == 0 .. MaxVersion

\* Version 0 stands for no entry.  ownTTL says that the TTL is that of the entry
\* the value was read from.
NoEntry == [version |-> 0, expiration |-> 0, ownTTL |-> TRUE]

\* What go-redis makes of PTTL's two special replies.
KeyMissing == -2
NoExpiry == -1

Init ==
  /\ now = 1
  /\ version = 0
  /\ deadline = [v \in Versions |-> Never]
  /\ retired = [v \in Versions |-> Never]
  /\ pc = "idle"
  /\ value = 0
  /\ readAt = 0
  /\ remaining = 0
  /\ sameEntry = TRUE
  /\ l1 = NoEntry

\* Redis holds the version that was written last.
Live == version # 0 /\ retired[version] = Never /\ now < deadline[version]

\* MemoryStore.Get would find L1's entry; an expiration of 0 is never reached.
Readable == l1.version # 0 /\ (l1.expiration = 0 \/ now <= l1.expiration)

\* The writer retires what Redis has.
Retired == IF Live THEN [retired EXCEPT ![version] = now] ELSE retired

-----------------------------------------------------------------------------

\* Another instance sets the key, or deletes it.
RemoteSet(ttl) ==
  /\ version < MaxVersion
  /\ version' = version + 1
  /\ deadline' = [deadline EXCEPT ![version + 1] = IF ttl = 0 THEN Never ELSE now + ttl]
  /\ retired' = Retired
  /\ UNCHANGED <<now, flight, l1>>

RemoteDelete ==
  /\ Live
  /\ retired' = Retired
  /\ UNCHANGED <<now, version, deadline, flight, l1>>

\* A Get that misses L1.
GetLocal ==
  /\ pc = "idle"
  /\ ~Readable
  /\ pc' = "get"
  /\ UNCHANGED <<now, remote, value, readAt, remaining, sameEntry, l1>>

\* The flight ends and its variables go out of scope.
Return ==
  /\ pc' = "idle"
  /\ value' = 0
  /\ readAt' = 0
  /\ remaining' = 0
  /\ sameEntry' = TRUE

\* GET
ReadValue ==
  /\ pc = "get"
  /\ IF Live
       THEN /\ pc' = "pttl"
            /\ value' = version
            /\ readAt' = now
            /\ UNCHANGED <<remaining, sameEntry>>
       ELSE Return
  /\ UNCHANGED <<now, remote, l1>>

\* PTTL
ReadTTL ==
  /\ pc = "pttl"
  /\ remaining' = CASE ~Live                               -> KeyMissing
                    [] Live /\ deadline[version] = Never   -> NoExpiry
                    [] Live /\ deadline[version] # Never   -> deadline[version] - now
  /\ sameEntry' = (version = value)
  /\ pc' = "commitRead"
  /\ UNCHANGED <<now, remote, value, readAt, l1>>

\* L1's own TTL is taken.
BackfillTTL_OwnSlip == LocalTTL

\* localBackfillTTL
BackfillTTL ==
  IF remaining = NoExpiry \/ remaining > LocalTTL THEN LocalTTL ELSE remaining

\* Whatever is not a time is taken for one.
MayBackfill_Slip == TRUE

\* Its second result: an entry that is gone from Redis is not backfilled.
MayBackfill == remaining = NoExpiry \/ remaining > 0

\* MemoryStore.Set
Expiration(ttl) ==
  CASE ttl > 0 -> now + ttl
    [] ttl = 0 -> now + LocalTTL
    [] ttl < 0 -> 0

\* Get backfills L1, however late the reply is.
CommitRead ==
  /\ pc = "commitRead"
  /\ l1' = IF MayBackfill
             THEN [version |-> value, expiration |-> Expiration(BackfillTTL), ownTTL |-> sameEntry]
             ELSE l1
  /\ Return
  /\ UNCHANGED <<now, remote>>

\* L1 evicts its entry, or MemoryStore removes an expired one.
LocalExpire ==
  /\ l1 # NoEntry
  /\ l1' = NoEntry
  /\ UNCHANGED <<now, remote, flight>>

Tick ==
  /\ now < MaxTime
  /\ pc \in {"pttl", "commitRead"} => now < readAt + MaxDelay
  /\ now' = now + 1
  /\ UNCHANGED <<remote, flight, l1>>

Next ==
  \/ \E ttl \in RemoteTTLs : RemoteSet(ttl)
  \/ RemoteDelete \/ GetLocal \/ ReadValue \/ ReadTTL \/ CommitRead \/ LocalExpire \/ Tick

Spec == Init /\ [][Next]_vars

-----------------------------------------------------------------------------
(* Properties *)

\* When v ceased to be what Redis answers with.
Gone(v) == IF deadline[v] < retired[v] THEN deadline[v] ELSE retired[v]

\* L1 answers with a value that is gone from Redis for at most localTTL and
\* the time a reply takes, whatever writers do between GET, PTTL and the
\* backfill: the staleness bound that a deployment without broadcast has.
StalenessBounded ==
  Readable /\ Gone(l1.version) # Never => now <= Gone(l1.version) + LocalTTL + MaxDelay

\* An entry of L1 outlives the expiry of the Redis entry it was copied from by
\* the time the reply took, no more: localTTL does not come on top.
OutlivesByDelay ==
  Readable /\ l1.ownTTL /\ deadline[l1.version] # Never => now <= deadline[l1.version] + MaxDelay
=============================================================================
