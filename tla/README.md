# TLA+ models of gincache

This directory models gincache: the two-level store with its backfill fence and
its invalidation broadcast, the middleware's request flights and its arithmetic
of freshness, the in-memory store, the adapters around native cache engines, and
the pattern deletions of the Redis store with the globs behind them.
Each module is translated from the Go source; `PROJECT.json` names, for every
definition, the lines it stands for. An abstract specification, `CoherentCache`,
says what the two-level store promises. TLC checks small instances; TLAPS proves
the safety properties of all modules, and that the two-level store implements
`CoherentCache`, for every value of the constants.

    tlc -workers 2 -config TwoLevelStore.cfg MCTwoLevelStore.tla
    tlapm TwoLevelStoreProofs.tla

Paths below are relative to the repository (`src/` in `PROJECT.json`).

## Inventory

| Component | State | Operations | What is hard | What makes it correct |
|---|---|---|---|---|
| `persist/twolevel.go`: `TwoLevelStore` | L1 entries, 256 guards with a generation each, a singleflight group, the flights' `superseded` flags, timers | Get, Set, Delete, DeletePattern, InvalidateLocal, InvalidateLocalPattern | a read in flight while a mutation commits; forgotten flights; late timers; pattern operations over many guards | a backfill never undoes an invalidation; reads after an invalidation do not see what it removed; every Get returns |
| The same: broadcast | Pub/Sub subscription, `closeOnce` | publishInvalidation, listenInvalidations, Close | order of messages and reads, lost messages, an instance's own messages, closing while the listener works | without losses, every stale entry is about to be removed; nothing touches a closed L1 |
| The same: backfill TTL | remaining TTL of a key, `localTTL` | localBackfillTTL, `getWithTTL` | GET and PTTL are not atomic, replies are late | bounded staleness |
| `cache.go`: `Middleware` | singleflight group, timers, 256 write guards, a pool of response writers | handle, handleWithParams, executeWithSingleFlightSafe, executeHandler, cacheResponseFenced | leaders and waiters, panics in a flight, custom stores, timers, stale entries | no handler chain runs twice, no response is shared that must not be, no older response lands last |
| `cache.go`: freshness | the age fields of a `ResponseCache` | parseCacheControl, declaredLifetime, headerAge, cacheDecision, replayable, replayAge | durations that overflow, several readings of several clocks, contradicting headers in random order, entries of earlier versions | nothing is replayed beyond the lifetime it declares, ages are not understated, entries last as long as their TTL |
| `cache.go`: conditional requests, headers | none | notModified, etagMatches, cloneCachedHeaders, ... | string matching | RFC 9110 comparisons |
| `persist/memory.go`: `MemoryStore` | a `sync.Map` of items, a cleaner goroutine | Get, Set, Delete, DeletePattern, Flush, Close, cleanupLoop | decisions on an item that is replaced meanwhile | no unexpired item is lost, the cleaner ends |
| `persist/internal/localadapter`: `Owner`, `Store` | a one-slot channel (the gate), the owner's state, views, sequence number, records in a native engine | NewStore, GetBytes, SetBytes, Delete, Close of a view and of the owner | closing while operations queue, cancelled contexts, colliding hashes, TTLs that run out in the queue | nothing uses a closed engine, records are never mixed up |
| `persist/ristrettoadapter/adapter.go`: `Store` | tracked keys, pruning flag, mutation counter | Set, Delete, DeletePattern, Stats | Ristretto buffers and refuses sets, tracked and held keys diverge | with `WithWait`, DeletePattern finds what is held |
| `persist/*adapter/owner.go`, `namespace.go` | the native engines | wrappers of `localadapter` | translation of TTLs to each engine | no TTL becomes "for ever" |
| `persist/redis.go`: `RedisStore` | Redis | getWithTTL, SET, DEL, DeletePattern over the nodes of a cluster | partial failure of a pattern deletion | every matching key of every node is deleted or an error is returned, and the count is true |
| `persist/internal/pattern`, `escapeGlobMeta` | none | glob to regular expression | quoting | L1 and Redis match what the glob means, and Redis nothing outside of the key prefix |
| options, statistics, version, examples, contract tests | counters | | nothing interleaves | |

How they interact: the middleware reads and writes a `CacheStore`; that is a
`MemoryStore`, a `RedisStore`, a `TwoLevelStore` or one of the adapters, and
requests reach it from as many goroutines as the server has. A `TwoLevelStore`
calls a `LocalStore` (L1, inside the guard's lock) and a `RedisStore` (L2,
outside it), and other processes through Redis Pub/Sub. Singleflight groups in
the middleware and in the `TwoLevelStore` coalesce calls; both arm a timer that
calls `Forget`. Every store calls into libraries (sync.Map, go-redis, Ristretto,
BigCache, FreeCache, singleflight), which are modelled from how they are used
and marked external.

## Modules

| Module | Models | State and actions |
|---|---|---|
| `Singleflight` | `singleflight.Group` as it is used | operators on a function from keys to the call's leader: `Registered`, `Forgotten`, `Finished` |
| `TwoLevelStore` | `twolevel.go`, with Redis, L1 and Pub/Sub around it | `gen` is the guards' generations, `calls` the singleflight group, `forgets` the timers between their two statements (`due`) and whether a Forget has released an unmarked flight (`stray`, a history), `inbox` undelivered messages, `lifecycle` how far Close has come, `pc`, `op`, `key`, `data`, `generation`, `superseded`, `flight` the goroutines' local variables. One action per stretch between two critical sections or calls |
| `CoherentCache` | what stores in front of one origin promise | copies, the floor below which each store has discarded, and readers' questions and answers; no flight, guard, timer or message |
| `TwoLevelStoreProofs` | | theorems about `TwoLevelStore`: types, the fence and Close; readers, the refinement, stale entries and the order of backfills |
| `LocalExpiry` | `localBackfillTTL`, `getWithTTL` and the expirations of Redis and `MemoryStore` | one key against a clock; GET (`ReadValue`), PTTL (`ReadTTL`) and the backfill (`CommitRead`) are separate steps |
| `Middleware` | `cache.go` from `handle` to the answer | a request runs its handler at most once, so a response is named by its request; `registered`, `timer`, `superseded` are the flights, `writer` and `pool` the response writers; `deployment` is how the middleware is used (which requests, handlers, timers), chosen at the start. A handler may have read its data at any time between its start and its return |
| `Freshness` | `cache.go`: headers to lifetimes and ages, the decisions to store and to replay, the Age that is sent | one response: `born` is when its origin made it, which the code never sees, `header` what it says of that, `entry` the two fields of `ResponseCache`; the properties compare the code's decisions with `born`. Durations wrap at `MaxDuration` |
| `LocalAdapter` | `localadapter/owner.go`, `store.go`, `record.go` | `gate` is the token in the channel, `state` and `closes` the owner, `slots` the engine, with the time (`native`) at which FreeCache will expire a record, from `freecacheadapter/owner.go` |
| `MemoryStore` | `memory.go` | `data` is the `sync.Map`; an item's `id` is its pointer; one step per call of the map; `due` are the keys a Range has still to pass |
| `RistrettoStore` | `ristrettoadapter/adapter.go` over Ristretto | `tracked`, `pruning`, `mutations` are the wrapper's; `cache` and `buffer` are Ristretto |
| `RedisPatterns` | `redis.go`: eachNode, scanNode, deleteEachKey, DeletePattern, DeleteKeys | one goroutine per node with its cursor (`seen`, `last`), its pipeline (`batch`) and what came back (`acked`, `broken`); `exists` and `place` are Redis |
| `Glob` | `internal/pattern`, `scanPattern`, `escapeGlobMeta`, and Redis's matcher (external) | a glob is a sequence of tokens that carry what they mean; `LocalPiece` and `RedisPiece` are what the two matchers find at one place, `LocalItems` and `RedisItems` what their loops make of a glob. `prefix` and `glob` are what they are applied to; `MCGlob` enumerates it |
| `MiddlewareProofs`, `FreshnessProofs`, `RedisPatternsProofs`, `MemoryStoreProofs`, `LocalAdapterProofs`, `LocalExpiryProofs`, `RistrettoStoreProofs` | | theorems about the module of that name; those about `Glob` are in `RedisPatternsProofs` |
| `MC*` | | instances for TLC |

Operators whose name ends in `_Slip` are plausible mistakes in the definition
they stand before. `PROJECT.json` lists under `mutants` which property notices
which of them; the models themselves never use one.

### Values and histories

A value is its version. In `TwoLevelStore`, `ver[k]` counts the mutations Redis
has applied to `k`: a smaller number is an older value, and "stale" is a
comparison. Variables marked *history* are read by properties only:
`floor[i][k]` is the version Redis had when instance `i` last invalidated `k`
(for a pattern, the version when the operation turned to L1), `settled` the
same once the flight was forgotten too, `written` the newest version whose Set
has returned, `want` what the last two were when a Get began.

## Properties and runs

Times are for two workers on a small machine.

| Run | Instance | Checks | States |
|---|---|---|---|
| `TwoLevelStore` | one instance, two readers, one mutator (set, delete, pattern deletion), one key, two guards, failing Redis calls, early and late timers | `TypeOK`, `NoResurrection`, `ReadsAfterInvalidation`, `DebtsArePaid`, `NewerBackfillStays` | 2.4 million, 90 s |
| `TwoLevelStoreBroadcast` | two instances that hear each other, one reader that may close its store, one client that calls everything else on the other, nothing fails | `StaleIsOwed`, `ClosedIsQuiet`, `Convergence`, `ImplementsCoherentCache` | 380 thousand, 70 s |
| `TwoLevelStoreReturns` | one instance, two readers, one Set or Delete, prompt and late timers, failing L1 calls | `GetReturns` | 170 thousand, 90 s |
| `ReadYourWrites` | one instance, two readers, one setter | `ReadsAfterSet`, violated | |
| `Middleware` | three requests in one of two deployments: each of any of six shapes, handlers that return, return something private or too large, or panic; or all for one entry, with timers and data that changes once. An outdated entry may be in the default store; stores may fail | `TypeOK`, `AnsweredOnce`, `SharedSafely`, `NoSharedWriter`, `OneLeader`, `NewerEntryStays` | 2.3 million, 90 s |
| `LocalAdapter` | two goroutines, three views of two namespaces, one slot, one sequence number, a clock of three readings, a native clock of two seconds and a maximum of two | `TypeOK`, `NoUseAfterClose`, `LivesUntilDeadline`, `CallsReturn` | 390 thousand, 75 s |
| `MemoryStore` | two callers and the cleaner, one key, three items, a clock of three readings | `TypeOK`, `HitsAreFresh`, `NoLostWrite`, `CleanerEnds` | 650 thousand, 50 s |
| `RistrettoStore` | two callers, two keys of which the pattern matches one, two sets, with and without `WithWait` | `TypeOK`, `PatternDeletes`, `HeldIsTracked` | 1.5 million, 30 s |
| `LocalExpiry` | TTLs below, at and above `localTTL`, replies that take up to two ticks, two versions | `StalenessBounded`, `OutlivesByDelay` | 170 thousand |
| `Freshness` | seven `Cache-Control`s, six `Expires`, up to two `Date`s and three `Age`s, responses born up to 37 ticks before, durations of at most 15 ticks, two ticks per second, clocks that differ by -3 to 1 | `TypeOK`, `ReplayedWhileFresh`, `AgeNotUnderstated`, `TTLWithinLifetime`, `LastsItsTTL`, `OrderIsImmaterial` | 1.3 million, 15 s |
| `RedisPatterns` | two nodes, three keys of which two match, lost commands and replies, one stored key, one moved slot | `TypeOK`, `SuccessIsComplete`, `CountIsTrue` | 260 thousand |
| `Glob` | all globs of up to three of twelve tokens under no prefix and six prefixes of one character, against all keys of up to three of ten characters | `LevelsMatchMeaning`, `PrefixIsLiteral` | 13195, 1 minute |

Why the bounds are enough for the cases that matter:

* Two mutations (`MaxMutations`) let one commit while the reader's flight is
  under way and another after it; a third adds no new relation between a flight
  and an invalidation, because a flight carries one generation.
* A Delete whose Redis call fails goes on exactly as InvalidateLocal does, so the
  first run needs no InvalidateLocal to see that path. L1 calls fail in the run
  about Get returning only; the proofs cover their failure in every mutation.
  There one mutation is enough for a Forget of a flight that has waiters.
* Two readers and a mutator give a leader, its successor after a Forget, and a
  waiter; the races of a Forget need no fourth goroutine. Three requests play
  the same parts in the middleware.
* In the run with two instances one reader and one busy client are enough: the
  second instance needs a listener and somebody who caches there, the first
  somebody who mutates. The reader closes its store at any point of that.
* Two guards are enough for a pattern operation that has passed one and not the
  other; the key is under the first, which is the one a loop that starts too
  late would miss.
* The two readers, the requests, Ristretto's two callers and Redis's nodes are
  symmetric, and no temporal property is checked with symmetry except the action
  properties `DebtsArePaid`, `NewerBackfillStays` and `NewerEntryStays`, which treat
  all readers, or all requests, alike.
* One slot makes every key of `LocalAdapter` collide; two views of one
  namespace and one of another are the smallest set with both relations. One
  sequence number lets it run out. The native clock overflows within the run, so
  the records that FreeCache could not count are among the states.
* `MemoryStore` has an empty pattern next to Flush, which ranges over the one
  key: a Range that removes what it passes and one that does not.
* In `Freshness` a duration of 15 ticks overflows with ages and lifetimes that
  headers of a few seconds give, in every sum and difference the code computes:
  `Age` plus delay, resident time plus initial age, lifetime minus age, `Expires`
  minus `Date`. Two ticks per second make the rounding of headers visible.
* Two nodes are enough for one that fails or loses a slot while the other is
  fine; the third key is one that must survive.
* In `Glob` three tokens are enough for each token to stand between any two
  others. The longest effect of a character on its neighbours is an unclosed
  bracket or an escape, and each is among the prefixes of one character.
* In `LocalExpiry` the clock runs to 9, beyond any sum of two TTLs and a delay
  that the properties speak of.

Deadlock is checked in every run. In `Middleware`, `Terminated` is the only
step of a state in which every request was answered, so a waiter that nobody
releases would end in a deadlock: every behaviour of the model is finite up to
`Terminated`, each action being possible only so many times, so the absence of
deadlocks says that every request is answered.

### What the properties say

* `NoResurrection`: the purpose of `twoLevelKeyGuard`. L1 never holds a version
  older than the one Redis had when the instance last invalidated the key.
* `ReadsAfterInvalidation`: `NoResurrection` is about L1; a reader may also get
  an old value by joining a flight. After Delete or InvalidateLocal has
  forgotten the flight, no new reader does.
* `ImplementsCoherentCache`: the store as its readers see it. A refinement mapping
  hides flights, guards, timers and messages: `copy` is L1, `reads` comes from the
  readers' steps, and `ver`, `floor` and `settled` keep their names. Every step
  must be one of `CoherentCache` or change nothing of it, so an entry may appear
  in L1 only with a version that was not discarded, and an answer may not be older
  than what was settled when the reader asked, whichever path gave it.
* `ClosedIsQuiet`: Close waits for the listener before it closes L1.
* `StaleIsOwed` and `Convergence`: with working broadcasts, staleness is always
  somebody's pending work, and it ends.
* `DebtsArePaid`: Delete and DeletePattern go on to L1 after an error of Redis, which
  may have deleted keys all the same. Whoever has turned to invalidating a key
  gets it out of its own L1, whatever else fails; a Set whose write failed has not
  turned to it (see `StalenessBounded`), and an L1 that fails, or has no pattern
  deletion, is the formula's condition.
* `NewerBackfillStays`, `NewerEntryStays`: a flight that its timer released
  does not write over what its successor wrote. The comments conclude it from the
  order of the timer's two statements, mark and Forget; but a Forget that comes
  late, or from a mutation, releases a flight nobody has marked. Both formulas
  say so: the one of the store is about a key as long as no Forget has released
  an unmarked flight of it (`forgets[i][k].stray`), that of the middleware is about
  behaviours in which no timer was late (`NobodyLate`). Without these conditions
  both are false (see Findings).
* `AnsweredOnce`, `SharedSafely`, `NoSharedWriter`: every path of a request ends
  in `c.Next()`, a replay or a recovered panic, never in two of them; what is
  shared is complete, cacheable, and from the same store and key.
* `NoLostWrite`: `CompareAndDelete` is what keeps Get and the cleaner from
  removing an item stored after the one they looked at.
* `NoUseAfterClose`, `CallsReturn`: the second look at the state under the gate
  is what makes the flag set outside the gate safe, and every early return gives
  the token back. `LivesUntilDeadline`: an engine that counts whole seconds with
  32 bits does not drop a record before its deadline.
* `WaitersHaveLeader` is proved and not checked by a run of its own: a waiter's flight
  is under way, forgotten or not. A waiter left behind is a deadlock of `Middleware`.
* `PatternDeletes`, `HeldIsTracked`: about Sets that overlapped no other call;
  afterwards the other caller may do anything.
* `ReplayedWhileFresh`, `AgeNotUnderstated`, `TTLWithinLifetime`: the code sees
  headers, the property the instant of birth behind them. The slack they allow
  is named: the moment between two readings of the clock, a second where only an
  `Age` tells of the past, and the difference of two machines' clocks.
  `LastsItsTTL` is the opposite: an entry is not given up early.
* `OrderIsImmaterial`: what several directives of one name come to does not depend
  on the order in which a server, or a proxy that joins field lines, sends them.
* `SuccessIsComplete`, `CountIsTrue`: what a key has to do to escape a DeletePattern
  that reports success (be stored, or move, while it runs), and what the count
  means to `TwoLevelStore`, which announces a failed call only if it is positive.
* `LevelsMatchMeaning`: a glob means the same to L1 and Redis, where their syntaxes
  differ in a dozen details. `PrefixIsLiteral`: however a glob is parsed, the prefix
  before it takes no part in that, so no DeletePattern leaves its namespace.

### Fairness

`TwoLevelStore` assumes weak fairness of the steps of a call under way
(goroutines are scheduled; Redis calls have timeouts and end with or without an
error), of the listener while messages wait, and of a timer's goroutine between
its two statements. No fairness is assumed of new calls, of expiry, or of
timers firing. `LocalAdapter` assumes weak fairness of the goroutine that holds
the token and strong fairness of receiving it: receivers of a Go channel are
queued in order. `MemoryStore` assumes weak fairness of the steps of a call and
strong fairness of the cleaner's stop case, because a `select` chooses among
ready cases at random. The other modules check safety only and assume nothing.

## Proofs

Every theorem is about all values of the constants that the module's
`ConstantsAssumption` allows: any number of stores, goroutines, keys, nodes or
requests, and any bound on mutations, messages and clocks. Where a hypothesis
goes beyond that it is named here. Every invariant below was checked by TLC on
the instance of its run before it was proved.

| Property | Theorem | Beyond `ConstantsAssumption` |
|---|---|---|
| `TwoLevelStore!TypeOK`, `NoResurrection`, `ClosedIsQuiet` | `TwoLevelStoreProofs`: `TypeCorrect`, `FencingHolds`, `CloseIsFinal` | |
| `ReadsAfterInvalidation`, `ImplementsCoherentCache` | `TwoLevelStoreProofs`: `InvalidationsAreSeen`, `Refinement` | |
| `StaleIsOwed` | `TwoLevelStoreProofs`: `StaleCopiesAreOwed` | `NothingFails` |
| `DebtsArePaid`, `NewerBackfillStays` | `TwoLevelStoreProofs`: `DebtsPaid`, `BackfillsRise` | |
| `Middleware!TypeOK`, `AnsweredOnce`, `WaitersHaveLeader`, `OneLeader`, `SharedSafely`, `NoSharedWriter` | `MiddlewareProofs`: `TypeCorrect`, `HandlersRunOnce`, `WaitersAreReleased`, `LeadersAreAlone`, `ResponsesSharedSafely`, `WritersAreUnshared` | |
| `NewerEntryStays` | `MiddlewareProofs`: `FencedWritesHold` | `FencedDeployments` |
| `Freshness!TypeOK`, `ReplayedWhileFresh`, `AgeNotUnderstated`, `TTLWithinLifetime`, `LastsItsTTL`, `OrderIsImmaterial` | `FreshnessProofs`: `TypeCorrect`, `ReplayedFresh`, `AgeTold`, `TTLIsWithinLifetime`, `EntryLasts`, `OrderImmaterial` | |
| `Glob!PrefixIsLiteral` | `RedisPatternsProofs`: `PrefixesAreLiteral` | |
| `Glob!LevelsMatchMeaning` | `RedisPatternsProofs`: `TokensKeepTheirMeaning`, `UsualGlobsMatch` | tokens that are `ReadAlone`; that are among `SimpleTokens` and `ClassTokens` |
| `RedisPatterns!TypeOK`, `SuccessIsComplete`, `CountIsTrue` | `RedisPatternsProofs`: `TypeCorrect`, `SuccessLeavesNothing`, `CountHolds` | |
| `MemoryStore!TypeOK`, `HitsAreFresh`, `NoLostWrite` | `MemoryStoreProofs`: `TypeCorrect`, `HitsHadNotExpired`, `FreshWritesStay` | |
| `LocalAdapter!TypeOK`, `NoUseAfterClose`, `LivesUntilDeadline` | `LocalAdapterProofs`: `TypeCorrect`, `NobodyUsesAClosedEngine`, `RecordsOutliveTheirDeadline` | |
| `StalenessBounded`, `OutlivesByDelay` | `LocalExpiryProofs`: `StalenessIsBounded`, `EntriesOutliveByDelay` | |
| `RistrettoStore!TypeOK`, `HeldIsTracked`, `PatternDeletes` | `RistrettoStoreProofs`: `TypeCorrect`, `HeldStaysTracked`, `PatternsDelete` | |

### The arguments

Types. `TypeOK` is seldom inductive, because a step reads `key[p]` as a key
where the type also allows none. Each `TypeInv` adds what a process's variables
are at each of its steps (`Legal(p)`).

`FencingHolds`. The inductive invariant `Fencing` says that a flight whose
generation is still current has read (or will read) something at least as new as
the floor: `FlightsAboveFloor`. A mutation raises the floor and bumps the
generation in one critical section, so afterwards no current flight is older. A
pattern operation bumps first and raises floors later, one key at a time, so the
invariant needs `FlightsAbovePatterns`: once a pattern operation has passed a
guard, every flight that is current under it is at least as new as `asof`, the
versions noted before the first bump. `Floors`, `AsOfs` and `Generations` say that
neither histories nor flights run ahead of Redis or of the guards. Steps that
leave all of that alone are `Quiet` and share one lemma.

`CloseIsFinal`. The property is inductive given the types: publishers pass over
stores that are not open, and a listener with nothing to read stays idle.

`InvalidationsAreSeen`. `ReadInv` follows the answer a reader will get. A flight
that has read holds at least what its leader wants; one that is still in the
group, which a Get may join, at least what is settled (`RegisteredLead`); and
whoever waits, waits for a flight that is under way and, once it has read, holds
what he wants, although it may have left the group (`WaitersAreLed`). `settled` is
raised by Forget, which takes the flight out of the group in the same step.

`Refinement`. Steps that touch neither versions, L1, floors nor readers stutter
(`CoherentMutation`, `CoherentOther`); a question asks for what is settled then; an
answer takes a version between that and Redis's, by `ReadInv`; a backfill fills in
what is not below the floor, by `Fencing`.

`StaleCopiesAreOwed`. `Owed` is too weak to be inductive: an entry that a pattern
operation will erase is not safe from a flight with an old answer, which needs a
guard to be bumped. `StaleInv` separates the two debts. A stale answer of a current
flight is `Fenced`: a call, a listener or a message has still to bump its guard. A
stale entry is `Discarded`: fenced, or still in the list of keys a pattern operation
will erase. Each step settles a debt, by a bump or an erasure, hands it on (publish
to the message, the message to the listener), or leaves it (`Settles`, one lemma per
action); no step does more to guards, flights and L1 than `Moderate` says. The
hypothesis `NothingFails` is the property's own condition and the configuration of
its run: every store listens, Pub/Sub loses nothing, Redis and L1 report no error,
L1 can delete patterns. Timers are not restricted, nor is when stores are closed.

`DebtsPaid`. A call owes its own L1 a key from its first step that is not a Redis
call until the critical section that deletes it, or the erasure by pattern. That
the keys a pattern operation will erase are all that match (`PatternsKept`) is the
invariant it takes; every other step hands the debt on to the next (`Paid`).

`BackfillsRise`. Until a Forget has released an unmarked flight of a key, a flight
of it that no timer has marked is the one in the group (`UnreleasedRegistered`), so
two flights of a key cannot both pass commitRead's test, and what the unmarked one
read is not older than L1 (`UnreleasedNewer`). Each Forget, prompt or late, of a
timer or a mutation, finds a marked flight, or none, or ends the condition
(`TameForget`). Nothing is asked of the constants: late timers and mutations are
among the behaviours, and the formula says from where on it promises nothing. The
first remark under Findings shows why it cannot promise more.

`Middleware`. `FlightInv` is the counterpart of `ReadInv` for flights: who is
registered leads, at most one flight per key is, waiters are led, an armed timer
belongs to a flight that is under way and not marked, and, unless a timer is late,
an unmarked flight is registered. `SharedInv` says of everything that is stored,
held by a flight, or sent that it was made for this store and key and may be shared
as far as it has come. `WrapperInv` adds to `NoSharedWriter` that wrappers in use were
allocated by requests that entered their handler, so a fresh one is new. `FenceInv`:
whoever may still write an entry has nothing older than the entry, nor than what
the holder of the lock is about to write.

The hypothesis of `FencedWritesHold`, `FencedDeployments`, says how the middleware is
used where data changes: all requests of the entry are coalesced, custom stores are
identified by an address, and an entry has one flight key. The code fences no other
writes (`cacheResponse` of the plain paths takes no lock), so the property is not
claimed for them. `ConstantsAssumption` of `Middleware` has coalesced requests on the
default store share one store: one middleware has one (`cache.go:568-580`, `888-890`).

`Freshness`. What a loop over a header of any length computes takes induction over
the header. The library's induction theorems cannot be used (their parameter is an
operator), but induction over a *set* of numbers can: `InductiveSet` follows from
the order of the naturals, `StepByStep` from it that a function defined from
one number to the next exists. `DirectiveMeans` and `MaxAgeBounds` then say what
the loops return: the least legal value of a directive unless one is illegal, the
greatest legal Age. `Wrapped` may overflow in any sum; the saturation lemmas say
what is left of an addition after the code's test for it.

The invariant `Inv` relates the fields of the entry to the birth nobody saw. A
Date is not before the birth; `initialAge` is not less than the age at the time of
the response, up to `Slack`; what `executeHandler` made of several readings of the
clock is consistent; a TTL together with the age at the time it was computed does
not exceed any lifetime the headers declare; a reply's age is what that clock
says. Each property is arithmetic from there: `FreshByLifetime` turns a bound on
the age into one against every header. `OrderIsImmaterial` is more than the
rotations TLC looks at: `SameLifetime` is about any two headers with the same
values of each directive, repetitions included.

`ConstantsAssumption` has the configured durations not negative (`cache.go` treats
others as no caching), births not later than a second after the start, because a
date is rounded down to one, and a second that a duration can hold.

`RedisPatterns`. `IntactInv`: a key that was there from the beginning and stayed put
is still ahead of the cursor of its node (`AheadOf`), or in the batch in hand, or
its goroutine has failed. For the count, what pipelines have acknowledged is a sum
over goroutines; to say how a sum over a set changes would take an induction, so `CountInv` has
it as a function from sets of goroutines to sums that adds up (`IsTally`), and each
step says how that function changes.

`Glob`. Both matchers read a glob from left to right, one piece after the other
(`OneByOne`). The lemmas whose names end in `Shift` say that what stands before a
place does not change what is read there; those that end in `Alone`, that a piece
which ends where two texts part is the same in both. So an escaped character is an
item of its own whatever surrounds it, and by induction over the texts that are
put together (`FlattenItems`) an escaped prefix is as many literal items
(`EscapedIsLiteral`). `LiteralMatch`: such items reach one place of the key, or
none, and the items behind them go on from there as from the beginning.
`PrefixesAreLiteral` is about all globs, not only those that `Tokens` can write.

`FlattenItems` also gives `LevelsMatchMeaning`. Its condition is `ReadAlone`: with
nothing but a `*` behind it, a token is read as it is meant. That this is a
condition on each token alone, and not on pairs of them, is what the two `Alone`
lemmas are for, and it would not hold of every matcher: an unterminated `[` reads
to the end of the glob. `UsualGlobsMatch` has a condition on how the glob is
written only: wildcards, characters that stand for themselves, escaped
characters, and classes `[...]` and `[^...]` of any number of characters other than
`]`, `\`, `-`, `^` and `!`. A class with ranges or escapes is left to the first
theorem and to TLC, which has such classes among its tokens.
`GlobAssumption` asks that the codes of an alphabet differ and that `*` and `\`,
which the proofs write themselves, are characters.

`MemoryStore`. A goroutine that is about to drop an item has found it expired, and
items stay expired; `CompareAndDelete` removes that item or none.

`LocalAdapter`. Who is past the gate has its token and has looked at the state with
it in hand. `LivesUntilDeadline` needs the rounding argument of `freeExpiration`: the
engine's whole seconds, one more than the TTL's because its time is rounded down,
are not before the deadline, and a record its clock could not count to gets no
native expiry at all.

`LocalExpiry`. `FlightInv` bounds when a reader saw what it holds, `LocalInv` carries
that over to the entry's expiration.

`RistrettoStore`. `HeldInv` is about Sets that overlapped no other call. `AloneInv`:
while such a call runs, nobody else's does. `OwnerInv`: an item in Ristretto's buffer
belongs to a Set that waits behind it, so what such a Set wrote, once it is gone,
never comes back. `TrackInv`: who is about to untrack a key has seen or made Ristretto
not hold it. `EraseInv`: a DeletePattern has still to look at every matching key that
is held. All of it is for stores with `WithWait`, as are the properties.

### What stays with TLC

* Liveness: `Convergence`, `GetReturns`, `CallsReturn`, `CleanerEnds`. Fairness and
  ENABLED are out of the prover's reach.
* `LevelsMatchMeaning` for classes with ranges or escaped members, of which nothing is
  proved but that they keep their meaning in any glob if they have it alone.
* `ReadsAfterSet`, which does not hold.

`FencingHolds` also settles a doubt the documentation leaves open: `twolevel.go:42-44`
warns that a pattern mutation may let a read in flight backfill an old value. If
L1 implements `DeletePattern` and honours it, it does not; the floor of a key is
raised only by an L1 that did delete it.

## Findings

* `ReadYourWrites` (`twolevel.go:440`): Set forgets the flight before it
  invalidates L1. A flight that starts in between can serve L1's old value to a
  Get that starts after Set has returned. The documentation of the type says
  that the next read after a Set goes through to Redis.

Remarks that no run of its own shows:

* A timer's goroutine preempted between `superseded.Store(true)` and `Forget`
  (`twolevel.go:607-608`) releases a later flight without marking it, and its
  older value then replaces a newer one in L1 for as long as L1 keeps it. The
  comments at `twolevel.go:126-130` and `606` conclude that this cannot happen. TLC
  finds it, as a violation of `NewerBackfillStays` without its condition on
  `stray`, where the Sets come from a second instance (`Instances = {a, b}`,
  `HomeOf <- TwoHomes`, `Calls <- SetCalls`), and none with `MaxLateForgets = 0`. On
  the instance of the run `TwoLevelStore` the unconditional form fails without any
  timer: the Forget of a Set (`440`) releases a flight nobody has marked, which may
  still replace its successor's entry, but only until the Set's own invalidation
  a few lines later (`447`). The
  middleware's timer has the same two statements (`cache.go:1044-1045`) under the
  same comment (`1190-1194`); without its condition `NobodyLate`,
  `NewerEntryStays` fails in the same way.
* Ristretto: a Delete that untracks a key (`adapter.go:164-165`) after a concurrent
  Set has tracked it leaves the key held and not tracked until it is set again,
  and DeletePattern does not find it. To see it, let `returned` in `RistrettoStore`
  include Sets that overlap other calls.
* `headerDate` ignores two `Date`s and `replayAge` takes the first: such a response
  is stored with a TTL it may not reach. The direction is the safe one;
  `LastsItsTTL` excludes it.
* Globs outside of `Glob`'s tokens mean different things to L1 and Redis. The
  local matcher takes a glob byte by byte (`string(glob[i])`, `pattern.go:40`, `62`),
  so each byte of a literal character outside of ASCII becomes a character of its
  own and the glob matches no key that contains it, while Redis compares bytes
  with bytes; `?` is a character to the one and a byte to the other. `[!x]` negates in L1 only, `[]x]` has a member `]` in
  L1 only, an unterminated `[` is itself in L1 and a class in Redis, `\-` in a
  class still makes a range in L1, a reversed range does not compile in L1 and is
  turned around by Redis, `[[:alpha:]]` is a class of regexp only, and `*` and `?`
  do not match a line feed in L1.
* go-redis's `Ring.ForEachShard` passes over shards that it holds to be down, so a
  DeletePattern over a ring may succeed without them. Its nodes in
  `RedisPatterns` are those that are up.
* "Stale for localTTL at most" (`twolevel.go:25`) and "an L1 entry does not
  outlive its L2 entry" (`twolevel.go:383`) hold up to the time a reply takes;
  `StalenessBounded` and `OutlivesByDelay` include it.
* Without `WithWait`, DeletePattern prunes keys whose Set is still in
  Ristretto's buffer and misses them; `PatternDeletes` is stated for stores
  with `WithWait`.
* When a mutation's Forget releases a flight between its second look at L1 and
  `guard.begin`, the flight takes the new generation, is not marked, and may
  backfill an older value than its successor. No invalidation is undone, and a
  broadcast still removes the entry.
* The documentation (README.md:550-551) has Set fill L1; the code deletes from it.
* CHANGELOG.md:24 and 37 report two failing scenarios of
  `TestTwoLevelStoreBackfillDoesNotResurrectMutatedKey`. The code as modelled
  fences both. The test may see a pipeline of the client's connection set-up
  before the one with GET; that is a guess, not a result.

## Simplifications

* A critical section is one step: L1 calls inside the guard's lock do not
  interleave with each other. A real L1 has its own expiry and eviction, which
  may happen between any two steps.
* GET and PTTL are one step of `TwoLevelStore`, with a free choice whether the
  value may be backfilled; `LocalExpiry` splits them.
* The pattern of a model is a set of keys.
* The flights of `Middleware` share one write guard; two flights under
  different guards write different entries unless they have one flight key.
  Coalescing and non-coalescing middlewares over one store are modelled by
  `coalesced`.
* `private` stands for every reason for which both `cacheDecision` and
  `replayable` reject a response. Age is an event: a response goes stale at any
  time after it is held by a store or a flight.
* In `RistrettoStore` the key counter is the size of `tracked`.
* TLC checks `Owned`, `L1Patterns` and the absence of losses with one value each;
  the proofs cover all values of the last two.
* `FreeExpiration` and the addition that FreeCache makes are one step: both see the
  same second. Every Set of `LocalAdapter` has a TTL; a Set without one has no
  deadline and no native expiry.
* `hijacked` responses are in no deployment of the `Middleware` run: they differ
  from those that are too large only in what the client got.
* In `Freshness` a directive is a name and a number, a date is a second. The
  parsing of strings (quotes, white space, lists in one field line, three date
  formats) is left out, as are the status code and a caller's own criteria.
* A panic in the listener of a broadcast, which would end it, is not modelled: none
  of the calls it makes panics on the messages of the model.

## Not modelled

Statistics and counters; the making of request keys; conditional requests, entity
tags, hop-by-hop and `Vary` headers, and serialisation, which are string functions
without state; BigCache's and Ristretto's translation of a TTL, because the one has
no TTL per entry and the other's is exact; `Close` and `ResetStats` of the Ristretto
wrapper; option constructors, examples and test support.

## Plan

Done: all modules above, the refinement, and the theorems about every safety
property that is within the provers' reach. Left, in this order:

1. `TwoLevelStore` composed with `RistrettoStore` as L1, so that pattern invalidation
   meets an L1 that misses keys; an abstract specification of a `LocalStore` that
   `MemoryStore` implements.
2. `etagMatches` and the merging of headers as pure operators.
