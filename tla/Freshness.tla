------------------------------ MODULE Freshness ------------------------------
(***************************************************************************)
(* How old a response is, how long it may be reused, and what the          *)
(* middleware makes of that: the lifetime its headers declare, the age it  *)
(* has when the handler returns, the TTL it is stored with, and the test   *)
(* and the Age header of every replay.                                     *)
(*                                                                         *)
(* The module follows one response.  born is when its origin generated it, *)
(* which no cache knows: the headers tell, within the precision of HTTP.   *)
(* Instants and durations are integers; a time.Duration holds at most      *)
(* MaxDuration, Go's + wraps around and Time.Sub saturates.                *)
(***************************************************************************)
EXTENDS Integers, Sequences

CONSTANTS
  Second,       \* ticks of the model's clock per second
  MaxDuration,  \* math.MaxInt64
  Illegal,      \* a header value that does not parse
  Controls,     \* Cache-Control headers a response may carry
  Ahead,        \* Expires headers: seconds after the Date, or Illegal
  Malformed,    \* responses may carry two Dates, or an Age that is too large
  Births,       \* instants before the run at which a response may be born
  Expires,      \* durations the middleware may be configured with
  Skews,        \* the replaying process's clock minus the storing one's
  MaxPause,     \* bound: time between the readings of the clock after a handler
  MaxClock      \* bound: the last instant

Names == {"s-maxage", "max-age", "private"}
HeaderTimes == Int \cup {Illegal}
Header == [control : Seq([name : Names, value : HeaderTimes]), expires : Seq(HeaderTimes),
           date : Seq(HeaderTimes), age : Seq(HeaderTimes)]

ASSUME ConstantsAssumption ==
  /\ Second \in Nat \ {0}
  /\ MaxDuration \in Nat
  /\ Second <= MaxDuration
  /\ Illegal \notin Int
  /\ Controls \subseteq Seq([name : Names, value : Nat \cup {Illegal}])
  /\ Ahead \subseteq Seq(HeaderTimes)
  /\ Malformed \in BOOLEAN
  /\ \A b \in Births : b \in Int /\ b <= Second
  /\ Expires \subseteq 0 .. MaxDuration
  /\ Skews \subseteq Int
  /\ MaxPause \in Nat
  /\ MaxClock \in Nat

VARIABLES
  now,     \* the clock
  pc,      \* what becomes of the response
  start,   \* when its handler was called
  born,    \* when it was generated
  pause,   \* the clock's advance between two of executeHandler's readings of it
  header,  \* its headers
  entry,   \* what the ResponseCache says of its age
  delay,   \* responseDelay
  expire,  \* the duration the middleware was configured with
  ttl,     \* the TTL it was stored with
  skew,    \* of the clock of the process that replays it
  reply    \* a replay: accepted or sent, when, and with which Age

response == <<start, born, pause, header, entry, delay>>
stored == <<expire, ttl>>
replayed == <<skew, reply>>
vars == <<now, pc, response, stored, replayed>>

-----------------------------------------------------------------------------
(* Durations *)

Larger(a, b) == IF a > b THEN a ELSE b
Smaller(a, b) == IF a < b THEN a ELSE b

\* The sum of two durations as Go computes it.
Wrapped(n) ==
  ((n + MaxDuration + 1) % (2 * (MaxDuration + 1))) - (MaxDuration + 1)

\* Time.Sub
Minus(t, u) == Smaller(MaxDuration, Larger(0 - MaxDuration - 1, t - u))

\* The operands are swapped.
Since_Slip(t, clock) == Minus(t, clock)

\* time.Since(t) by a clock
Since(t, clock) == Minus(clock, t)

\* A plain sum.
SaturatingAdd_Slip(a, b) == Wrapped(a + b)

\* saturatingAdd
SaturatingAdd(a, b) ==
  LET sum == Wrapped(a + b) IN IF sum >= a THEN sum ELSE MaxDuration

\* nonNegative
NonNegative(n) == Larger(n, 0)

\* parseDeltaSeconds of a legal value
DeltaSeconds(v) ==
  IF v > MaxDuration \div Second THEN MaxDuration ELSE v * Second

-----------------------------------------------------------------------------
(* Headers *)

Nothing == [has |-> FALSE, value |-> 0]
Lifetime(v) == [has |-> TRUE, value |-> v]

\* The first of several values counts.
MergeFreshness_Slip(current, v) ==
  CASE current.has                  -> current
    [] ~current.has /\ v = Illegal  -> Lifetime(0)
    [] ~current.has /\ v # Illegal  -> Lifetime(DeltaSeconds(v))

\* mergeFreshness: an illegal value, and two that differ, mean stale.
MergeFreshness(current, v) ==
  IF v # Illegal /\ (~current.has \/ current.value = DeltaSeconds(v))
    THEN Lifetime(DeltaSeconds(v))
    ELSE Lifetime(0)

\* What parseCacheControl makes of all occurrences of one directive.
Directive(control, name) ==
  LET merged[n \in 0 .. Len(control)] ==
        IF n = 0 THEN Nothing
        ELSE IF control[n].name = name THEN MergeFreshness(merged[n - 1], control[n].value)
        ELSE merged[n - 1]
  IN merged[Len(control)]

\* parseCacheControl: s-maxage goes before max-age.
CacheControl(control) ==
  LET shared == Directive(control, "s-maxage") IN
  IF shared.has THEN shared ELSE Directive(control, "max-age")

\* DefaultCacheableResponse; "private" stands for what it rejects.
CacheableResponse(h) == \A n \in DOMAIN h.control : h.control[n].name # "private"

\* headerDate: the only Date, if it parses.
HasDate(h) == Len(h.date) = 1 /\ h.date[1] # Illegal
Date(h) == h.date[1] * Second

\* declaredLifetime
DeclaredLifetime(h, receivedAt) ==
  CASE CacheControl(h.control).has -> CacheControl(h.control)
    [] ~CacheControl(h.control).has /\ Len(h.expires) = 0 -> Nothing
    [] ~CacheControl(h.control).has /\ (Len(h.expires) > 1 \/ h.expires = <<Illegal>>) -> Lifetime(0)
    [] OTHER -> Lifetime(Minus(h.expires[1] * Second, IF HasDate(h) THEN Date(h) ELSE receivedAt))

\* maxAgeValue, of values that are all illegal too.
MaxAgeValue(values) ==
  LET largest[n \in 0 .. Len(values)] ==
        IF n = 0 THEN 0
        ELSE IF values[n] = Illegal THEN largest[n - 1]
        ELSE Larger(largest[n - 1], DeltaSeconds(values[n]))
  IN largest[Len(values)]

\* headerAge at the instant t
HeaderAge(h, responseDelay, t) ==
  Larger(IF HasDate(h) THEN Larger(Since(Date(h), t), 0) ELSE 0,
         SaturatingAdd(MaxAgeValue(h.age), responseDelay))

-----------------------------------------------------------------------------
(* Decisions *)

\* The difference is taken before the comparison.
ResponseFreshness_Slip(h, responseDelay, t) ==
  LET lifetime == DeclaredLifetime(h, t)
      rest == Wrapped(lifetime.value - HeaderAge(h, responseDelay, t))
  IN [lifetime EXCEPT !.value = IF lifetime.has THEN rest ELSE 0]

\* responseFreshness at the instant t
ResponseFreshness(h, responseDelay, t) ==
  LET lifetime == DeclaredLifetime(h, t)
      age == HeaderAge(h, responseDelay, t)
  IN [lifetime EXCEPT !.value = IF lifetime.has /\ lifetime.value > age THEN @ - age ELSE 0]

\* cacheDecision
MayStore(h, rest) == CacheableResponse(h) /\ (rest.has => rest.value > 0)
TTL(duration, rest) ==
  IF duration > 0 /\ rest.has THEN Smaller(duration, rest.value) ELSE duration

\* replayAge of an entry of today's form, by a clock that says t.  Header.Get
\* looks at the first of several Dates.
EntryAge(h, e, t) ==
  LET byDate == IF Len(h.date) > 0 /\ h.date[1] # Illegal THEN Larger(Since(Date(h), t), 0) ELSE 0 IN
  IF e.responseTime > 0
    THEN Larger(byDate, SaturatingAdd(Larger(Since(e.responseTime, t), 0), NonNegative(e.initialAge)))
    ELSE Larger(byDate, MaxAgeValue(h.age))

\* replayAge has an answer: an older entry needs a Date.
AgeKnown(h, e) == e.responseTime > 0 \/ (Len(h.date) > 0 /\ h.date[1] # Illegal)

\* The Expires of an entry without Date is compared with the present.
ReceivedAt_Slip(e, t) == t

\* From when replayable counts the Expires of an entry without Date.
ReceivedAt(e, t) == IF e.responseTime > 0 THEN e.responseTime ELSE t

\* replayable
Replayable(h, e, t) ==
  LET lifetime == DeclaredLifetime(h, ReceivedAt(e, t)) IN
  /\ CacheableResponse(h)
  /\ AgeKnown(h, e)
  /\ lifetime.has => lifetime.value > EntryAge(h, e, t)

-----------------------------------------------------------------------------
(* The response *)

\* The run begins when the clock is past zero, which stands for "unknown".
Beginning == Second

NoReply == [step |-> "none", at |-> 0, age |-> 0]

\* A Date and an Expires made at an instant of birth.
Dates(b) ==
  {<<>>, <<b \div Second>>, <<Illegal>>}
  \cup (IF Malformed THEN {<<b \div Second, b \div Second>>} ELSE {})
ExpiresOf(b) ==
  {[n \in DOMAIN x |-> IF x[n] = Illegal THEN Illegal ELSE b \div Second + x[n]] : x \in Ahead}

\* What caches on the way may say: that of one that sent the response at the
\* instant sent, rounded down to a second; next to it, a lower and an illegal one.
Ages(b, sent) ==
  LET age == (sent - b) \div Second IN
  {<<age>>, <<Illegal, age, 0>>} \cup (IF Malformed THEN {<<age + MaxDuration>>} ELSE {})

\* The headers of a response born at b, sent no later than t: a cache before
\* this one gives its Age unless the Date tells it.
Headers(b, t) ==
  {h \in [control : Controls, expires : ExpiresOf(b), date : Dates(b),
          age : {<<>>} \cup UNION {Ages(b, s) : s \in Larger(b, start) .. t}] :
     /\ h.control = <<>> \/ h.expires = <<>>
     /\ b < start => HasDate(h) \/ h.age # <<>>}

TypeOK ==
  /\ now \in Nat
  /\ pc \in {"handler", "made", "stored", "dropped"}
  /\ expire \in Nat
  /\ start \in Nat
  /\ born \in Int
  /\ pause \in Nat
  /\ header \in Header
  /\ entry \in [responseTime : Nat, initialAge : (0 - MaxDuration - 1) .. MaxDuration]
  /\ delay \in 0 .. MaxDuration
  /\ ttl \in 0 .. MaxDuration
  /\ skew \in Int
  /\ reply \in [step : {"none", "accepted", "rejected", "sent"}, at : Nat, age : 0 .. MaxDuration]

Bare == [control |-> <<>>, expires |-> <<>>, date |-> <<>>, age |-> <<>>]

\* A response whose handler has just been called, or an entry in the store: one
\* of an earlier version, which has no response time, or a damaged one.
Init ==
  /\ now = Beginning
  /\ start = Beginning
  /\ expire = 0
  /\ skew = 0
  /\ ttl = 0
  /\ delay = 0
  /\ pause = 0
  /\ reply = NoReply
  /\ \/ /\ pc = "handler"
        /\ born = Beginning
        /\ header = Bare
        /\ entry = [responseTime |-> 0, initialAge |-> 0]
     \/ /\ pc = "stored"
        /\ born \in Births
        /\ header \in Headers(born, Beginning)
        /\ entry = [responseTime |-> 0, initialAge |-> 0]
     \/ /\ pc = "stored"
        /\ born = Beginning
        /\ header = Bare
        /\ entry = [responseTime |-> Beginning, initialAge |-> 0 - Second]

Tick ==
  /\ now < MaxClock
  /\ now' = now + 1
  /\ UNCHANGED <<pc, response, stored, replayed>>

\* executeHandler after c.Next(): the delay is measured, and a moment later
\* the response time and the age.
HandlerReturns ==
  /\ pc = "handler"
  /\ \E moment \in 0 .. Smaller(MaxPause, MaxClock - now), birth \in Births \cup start .. now :
     \E h \in Headers(birth, now) :
       LET taken == Since(start, now) IN
       /\ pause' = moment
       /\ now' = now + moment
       /\ born' = birth
       /\ header' = h
       /\ delay' = taken
       /\ entry' = [responseTime |-> now + moment,
                    initialAge |-> Larger(HeaderAge(h, taken, now + moment), 0)]
  /\ pc' = "made"
  /\ UNCHANGED <<start, stored, replayed>>

\* cacheDecision, and the write with the TTL it returns.
Store ==
  LET rest == ResponseFreshness(header, delay, now) IN
  /\ pc = "made"
  /\ \/ /\ MayStore(header, rest)
        /\ pc' = "stored"
        /\ \E duration \in Expires : expire' = duration /\ ttl' = TTL(duration, rest)
     \/ ~MayStore(header, rest) /\ pc' = "dropped" /\ UNCHANGED stored
  /\ UNCHANGED <<now, response, replayed>>

\* replayable, for a lookup of the entry or for a waiter of the flight.
Replay ==
  /\ pc # "handler"
  /\ reply.step = "none"
  /\ \E s \in Skews :
       /\ skew' = s
       /\ reply' = [reply EXCEPT !.at = now,
                      !.step = IF Replayable(header, entry, now + s) THEN "accepted" ELSE "rejected"]
  /\ UNCHANGED <<now, pc, response, stored>>

\* writeResponse reads the clock again.
Send ==
  /\ reply.step = "accepted"
  /\ reply' = [step |-> "sent", at |-> now,
               age |-> EntryAge(header, entry, now + skew) \div Second]
  /\ UNCHANGED <<now, pc, response, stored, skew>>

Next == Tick \/ HandlerReturns \/ Store \/ Replay \/ Send

Spec == Init /\ [][Next]_vars

-----------------------------------------------------------------------------
(* Properties *)

\* By how much an age may be understated: by the moment between executeHandler's
\* readings of the clock, by a second if all that is known of the time before is
\* an Age, and by what the replaying process's clock is behind.
Slack ==
  pause + (IF born < start /\ ~HasDate(header) THEN Second - 1 ELSE 0)
Behind == Larger(0, 0 - skew)

\* The directive that governs, as RFC 9111 4.2.1 has it.
Governing ==
  LET of(name) == {header.control[n].value : n \in {m \in DOMAIN header.control :
                                                      header.control[m].name = name}}
  IN IF of("s-maxage") # {} THEN of("s-maxage") ELSE of("max-age")

\* At the instant t the response is younger than every lifetime its headers
\* declare, give or take a slack.
FreshAt(t, slack) ==
  LET age == t - born - slack IN
  IF Governing # {} THEN \A v \in Governing : v # Illegal /\ age < v * Second
  ELSE \A n \in DOMAIN header.expires :
         /\ header.expires[n] # Illegal
         /\ IF HasDate(header) THEN age < header.expires[n] * Second - Date(header)
                               ELSE t - slack < header.expires[n] * Second

\* No response is replayed that is older than any lifetime it declares: neither
\* an entry that outlived its lifetime in the store, nor one of an earlier
\* version, nor the result a waiter gets, whatever overflows on the way.
ReplayedWhileFresh ==
  reply.step = "accepted" => FreshAt(reply.at, Slack + Behind)

\* The Age a client is told is at least the response's age, in whole seconds, or
\* what a duration can hold: an age never wraps around to a small one.
AgeNotUnderstated ==
  reply.step = "sent" =>
    reply.age >= Smaller(reply.at - born - Slack - Behind, MaxDuration) \div Second

\* A response is stored only if it is fresh, and its TTL, counted from when it
\* was made, does not outlast the lifetime it declares; it is never the zero that
\* leaves the TTL to the store, unless the middleware was configured so.
TTLWithinLifetime ==
  pc = "stored" /\ expire > 0 =>
    /\ ttl \in 1 .. expire
    /\ FreshAt(entry.responseTime + ttl - 1, Slack)

\* An entry is replayed until its TTL, counted from when it was made, runs out:
\* the time it has spent here is not subtracted twice.  Not so of a response with
\* two Dates, which headerDate ignores and replayAge does not.
LastsItsTTL ==
  pc = "stored" /\ Len(header.date) < 2 /\ now < entry.responseTime + ttl
    => Replayable(header, entry, now)

\* The order in which directives and field lines arrive, which for a map of
\* headers is random, does not change the lifetime.
OrderIsImmaterial ==
  \A n \in DOMAIN header.control :
    LET turned == SubSeq(header.control, n, Len(header.control))
                  \o SubSeq(header.control, 1, n - 1)
    IN CacheControl(turned) = CacheControl(header.control)
=============================================================================
