--------------------------- MODULE FreshnessProofs ---------------------------
(***************************************************************************)
(* Proofs of the safety properties of Freshness.                           *)
(***************************************************************************)
EXTENDS Freshness, TLAPS, WellFoundedInduction, SequenceTheorems

-----------------------------------------------------------------------------
(* Induction over data.  The library's theorems on induction take a          *)
(* predicate; these take a set, which is a value.                            *)

\* A set with zero and with every successor has all natural numbers.
LEMMA InductiveSet ==
  ASSUME NEW S, 0 \in S, \A n \in Nat : n \in S => n + 1 \in S
  PROVE  Nat \subseteq S
<1> DEFINE R == {ss \in Nat \X Nat : ss[1] < ss[2]}
           Rest == Nat \ S
<1>1. IsWellFoundedOn(R, Nat)
  BY NatLessThanWellFounded DEF OpToRel
<1>2. \A x, y \in Nat : x < y => <<x, y>> \in R
  OBVIOUS
<1> HIDE DEF R
<1>3. SUFFICES ASSUME Rest # {} PROVE FALSE
  OBVIOUS
<1>4. Rest \subseteq Nat
  OBVIOUS
<1>5. PICK x \in Rest : \A y \in Rest : <<y, x>> \notin R
  BY <1>1, <1>3, <1>4, WFMin
<1>6. x # 0 /\ x - 1 \in Nat /\ x = (x - 1) + 1
  OBVIOUS
<1>7. x - 1 \in Rest
  BY <1>6
<1>8. <<x - 1, x>> \in R
  BY <1>2, <1>6
<1> QED BY <1>5, <1>7, <1>8

Stepwise(N, S, base, step) ==
  {f \in [0 .. N -> S] : f[0] = base /\ \A n \in 1 .. N : f[n] = step[n][f[n - 1]]}

\* A function on 0 .. N may be defined step by step.
LEMMA StepByStep ==
  ASSUME NEW N \in Nat, NEW S, NEW base \in S, NEW step \in [1 .. N -> [S -> S]]
  PROVE  Stepwise(N, S, base, step) # {}
<1> USE DEF Stepwise
<1> DEFINE UpTo(m) == Stepwise(m, S, base, step)
           Done == {m \in Nat : m <= N => UpTo(m) # {}}
<1>1. 0 \in Done
  <2>1. [n \in 0 .. 0 |-> base] \in UpTo(0)
    OBVIOUS
  <2> QED BY <2>1
<1>2. ASSUME NEW m \in Nat, m \in Done PROVE m + 1 \in Done
  <2>1. SUFFICES ASSUME m + 1 <= N PROVE UpTo(m + 1) # {}
    OBVIOUS
  <2>2. PICK f \in UpTo(m) : TRUE
    BY <1>2, <2>1
  <2> DEFINE g == [n \in 0 .. m + 1 |-> IF n = m + 1 THEN step[n][f[m]] ELSE f[n]]
  <2>3. f[m] \in S /\ m + 1 \in 1 .. N /\ f[0] = base
    BY <2>1, <2>2
  <2>4. step[m + 1][f[m]] \in S
    BY <2>3
  <2>5. g \in [0 .. m + 1 -> S]
    BY <2>2, <2>4
  <2>6. g[0] = base
    BY <2>3
  <2>7. ASSUME NEW n \in 1 .. m + 1 PROVE g[n] = step[n][g[n - 1]]
    <3>1. CASE n = m + 1
      BY <3>1
    <3>2. CASE n # m + 1
      <4>1. n \in 1 .. m /\ n - 1 \in 0 .. m /\ n - 1 # m + 1 /\ n \in 0 .. m + 1 /\ n - 1 \in 0 .. m + 1
        BY <3>2
      <4> QED BY <2>2, <3>2, <4>1
    <3> QED BY <3>1, <3>2
  <2>8. g \in UpTo(m + 1)
    BY <2>5, <2>6, <2>7
  <2> QED BY <2>8
<1>3. Nat \subseteq Done
  <2> HIDE DEF Done
  <2> QED BY <1>1, <1>2, InductiveSet
<1>4. UpTo(N) # {}
  BY <1>3
<1> QED BY <1>4

-----------------------------------------------------------------------------
(* Durations *)

\* A number lies less than a divisor above a multiple of it.
LEMMA Division ==
  ASSUME NEW n \in Int, NEW d \in Nat \ {0}
  PROVE  n \div d \in Int /\ (n \div d) * d <= n /\ n < (n \div d) * d + d
OBVIOUS

LEMMA Remainder ==
  ASSUME NEW n \in Int, NEW d \in Nat \ {0}
  PROVE  n \div d \in Int /\ n % d \in Int /\ n = d * (n \div d) + (n % d) /\ 0 <= n % d /\ n % d < d
OBVIOUS

LEMMA DivisionMonotonic ==
  ASSUME NEW m \in Int, NEW n \in Int, NEW d \in Nat \ {0}, m <= n
  PROVE  m \div d <= n \div d
<1> DEFINE a == m \div d
           b == n \div d
<1>1. a \in Int /\ b \in Int /\ a * d <= n /\ n < b * d + d
  BY Division
<1> HIDE DEF a, b
<1>2. a * d < (b + 1) * d
  BY <1>1
<1>3. a < b + 1
  BY <1>1, <1>2
<1> QED BY <1>1, <1>3 DEF a, b

LEMMA LargerSmaller ==
  ASSUME NEW a \in Int, NEW b \in Int
  PROVE  /\ Larger(a, b) \in {a, b} /\ Larger(a, b) >= a /\ Larger(a, b) >= b
         /\ Smaller(a, b) \in {a, b} /\ Smaller(a, b) <= a /\ Smaller(a, b) <= b
BY DEF Larger, Smaller

\* Time.Sub and time.Since.
LEMMA MinusBounds ==
  ASSUME NEW t \in Int, NEW u \in Int
  PROVE  /\ Minus(t, u) \in (0 - MaxDuration - 1) .. MaxDuration
         /\ Minus(t, u) >= Smaller(t - u, MaxDuration)
         /\ Minus(t, u) > 0 - MaxDuration - 1 => Minus(t, u) <= t - u
BY ConstantsAssumption DEF Minus, Smaller, Larger

\* saturatingAdd of durations that are not negative.
LEMMA Saturates ==
  ASSUME NEW a \in 0 .. MaxDuration, NEW b \in 0 .. MaxDuration
  PROVE  SaturatingAdd(a, b) = Smaller(a + b, MaxDuration)
<1> DEFINE half == MaxDuration + 1
           width == 2 * half
           q == (a + b + half) \div width
           r == (a + b + half) % width
<1>1. MaxDuration \in Nat
  BY ConstantsAssumption
<1>2. half \in Nat \ {0} /\ width \in Nat \ {0} /\ width = 2 * half
  BY <1>1
<1>3. a + b + half \in Nat
  BY <1>1
<1> HIDE DEF width
<1>4. q \in Int /\ r \in Int /\ a + b + half = width * q + r /\ 0 <= r /\ r < width
  <2>1. a + b + half \in Int
    BY <1>3
  <2> QED BY <1>2, <2>1, Remainder
<1>5. Wrapped(a + b) = r - half
  <2>1. Wrapped(a + b) = ((a + b + MaxDuration + 1) % (2 * (MaxDuration + 1))) - (MaxDuration + 1)
    BY DEF Wrapped
  <2>2. a + b + MaxDuration + 1 = a + b + half
    BY <1>1
  <2> QED BY <2>1, <2>2 DEF width
<1> HIDE DEF q, r
<1>6. CASE a + b <= MaxDuration
  <2>1. a + b + half < width /\ a + b + half >= 0
    BY <1>1, <1>2, <1>6
  <2>2. q = 0
    BY <1>2, <1>3, <1>4, <2>1
  <2>3. r = a + b + half
    BY <1>2, <1>3, <1>4, <2>2
  <2>4. Wrapped(a + b) = a + b
    BY <1>1, <1>5, <2>3
  <2> QED BY <1>1, <1>6, <2>4 DEF SaturatingAdd, Smaller
<1>7. CASE a + b > MaxDuration
  <2>1. a + b + half >= width /\ a + b + half < 2 * width
    BY <1>1, <1>2, <1>7
  <2>2. q = 1
    BY <1>2, <1>3, <1>4, <2>1
  <2>3. r = a + b + half - width
    BY <1>2, <1>3, <1>4, <2>2
  <2>4. Wrapped(a + b) < a
    BY <1>1, <1>2, <1>5, <2>3
  <2> QED BY <1>1, <1>5, <1>4, <1>7, <2>4 DEF SaturatingAdd, Smaller
<1> QED BY <1>1, <1>6, <1>7

\* A number of seconds as a duration.
LEMMA DeltaBounds ==
  ASSUME NEW v \in Int
  PROVE  /\ DeltaSeconds(v) \in Int
         /\ DeltaSeconds(v) <= MaxDuration
         /\ DeltaSeconds(v) <= v * Second
         /\ DeltaSeconds(v) >= Smaller(v * Second, MaxDuration)
         /\ v >= 0 => DeltaSeconds(v) >= 0
<1> DEFINE most == MaxDuration \div Second
<1>1. MaxDuration \in Nat /\ Second \in Nat \ {0}
  BY ConstantsAssumption
<1>2. most \in Int /\ most * Second <= MaxDuration /\ MaxDuration < most * Second + Second
  BY <1>1, Division
<1>3. DeltaSeconds(v) = IF v > most THEN MaxDuration ELSE v * Second
  BY DEF DeltaSeconds
<1> HIDE DEF most
<1>4. v * Second \in Int /\ (v >= 0 => v * Second >= 0)
  BY <1>1
<1>5. CASE v > most
  <2>1. v >= most + 1
    BY <1>2, <1>5
  <2>2. v * Second >= (most + 1) * Second
    BY <1>1, <1>2, <2>1
  <2>3. (most + 1) * Second = most * Second + Second
    BY <1>1, <1>2
  <2>4. most * Second \in Int
    BY <1>1, <1>2
  <2> QED BY <1>1, <1>2, <1>3, <1>4, <1>5, <2>2, <2>3, <2>4 DEF Smaller
<1>6. CASE ~(v > most)
  <2>1. v * Second <= most * Second
    BY <1>1, <1>2, <1>6
  <2>2. most * Second \in Int
    BY <1>1, <1>2
  <2> QED BY <1>1, <1>2, <1>3, <1>4, <1>6, <2>1, <2>2 DEF Smaller
<1> QED BY <1>5, <1>6

-----------------------------------------------------------------------------
(* What the loops over the headers compute *)

ControlHeader == Seq([name : Names, value : HeaderTimes])

\* The values of one directive.
Values(control, name) ==
  {control[n].value : n \in {m \in DOMAIN control : control[m].name = name}}

\* All are legal and mean the same duration.
Agree(values) ==
  \A u, v \in values : u # Illegal /\ v # Illegal /\ DeltaSeconds(u) = DeltaSeconds(v)

\* The lifetime that the values of a directive come to.
Means(values, lifetime) ==
  /\ values = {} => lifetime = Nothing
  /\ values # {} /\ ~Agree(values) => lifetime = Lifetime(0)
  /\ values # {} /\ Agree(values) => \A v \in values : lifetime = Lifetime(DeltaSeconds(v))

\* One more value.
LEMMA MergeMeans ==
  ASSUME NEW values \in SUBSET HeaderTimes, NEW lifetime, Means(values, lifetime),
         NEW v \in HeaderTimes
  PROVE  Means(values \cup {v}, MergeFreshness(lifetime, v))
<1> DEFINE more == values \cup {v}
           merged == MergeFreshness(lifetime, v)
<1>1. more # {} /\ v \in more
  OBVIOUS
<1>2. CASE v = Illegal
  <2>1. ~Agree(more) /\ merged = Lifetime(0)
    BY <1>1, <1>2 DEF Agree, MergeFreshness
  <2> QED BY <1>1, <2>1 DEF Means
<1>3. CASE v # Illegal /\ values = {}
  <2>1. more = {v} /\ ~lifetime.has
    BY <1>3 DEF Means, Nothing
  <2>2. Agree(more) /\ merged = Lifetime(DeltaSeconds(v))
    BY <1>3, <2>1 DEF Agree, MergeFreshness
  <2> QED BY <2>1, <2>2 DEF Means
<1>4. CASE v # Illegal /\ values # {} /\ Agree(values)
  <2>1. PICK u \in values : u # Illegal /\ lifetime = Lifetime(DeltaSeconds(u))
    BY <1>4 DEF Means, Agree
  <2>2. lifetime.has /\ lifetime.value = DeltaSeconds(u)
    BY <2>1 DEF Lifetime
  <2>3. CASE DeltaSeconds(u) = DeltaSeconds(v)
    <3>1. merged = Lifetime(DeltaSeconds(v))
      BY <1>4, <2>2, <2>3 DEF MergeFreshness
    <3>2. \A w \in more : w # Illegal /\ DeltaSeconds(w) = DeltaSeconds(v)
      BY <1>4, <2>1, <2>3 DEF Agree
    <3> QED BY <3>1, <3>2 DEF Means, Agree
  <2>4. CASE DeltaSeconds(u) # DeltaSeconds(v)
    <3>1. merged = Lifetime(0)
      BY <1>4, <2>2, <2>4 DEF MergeFreshness
    <3>2. ~Agree(more)
      BY <2>1, <2>4 DEF Agree
    <3> QED BY <1>1, <3>1, <3>2 DEF Means
  <2> QED BY <2>3, <2>4
<1>5. CASE v # Illegal /\ values # {} /\ ~Agree(values)
  <2>1. lifetime = Lifetime(0)
    BY <1>5 DEF Means
  <2>2. lifetime.has /\ lifetime.value = 0
    BY <2>1 DEF Lifetime
  <2>3. merged = Lifetime(0)
    BY <1>5, <2>2 DEF MergeFreshness
  <2>4. ~Agree(more)
    BY <1>5 DEF Agree
  <2> QED BY <1>1, <2>3, <2>4 DEF Means
<1> QED BY <1>2, <1>3, <1>4, <1>5

\* Directive is well-defined, and looks at the values only.
LEMMA DirectiveMeans ==
  ASSUME NEW control \in ControlHeader, NEW name
  PROVE  Means(Values(control, name), Directive(control, name))
<1> DEFINE N == Len(control)
           S == [has : BOOLEAN, value : Int]
           Merging(g) ==
             [n \in 0 .. N |->
                IF n = 0 THEN Nothing
                ELSE IF control[n].name = name THEN MergeFreshness(g[n - 1], control[n].value)
                ELSE g[n - 1]]
           merged == CHOOSE g : g = Merging(g)
           step == [n \in 1 .. N |-> [r \in S |->
                      IF control[n].name = name THEN MergeFreshness(r, control[n].value) ELSE r]]
<1>1. N \in Nat /\ \A n \in 1 .. N : control[n].value \in HeaderTimes
  <2>1. N \in Nat /\ DOMAIN control = 1 .. N
    BY DEF ControlHeader
  <2>2. ASSUME NEW n \in 1 .. N PROVE control[n] \in [name : Names, value : HeaderTimes]
    BY <2>1, ElementOfSeq DEF ControlHeader
  <2> QED BY <2>1, <2>2
<1>2. step \in [1 .. N -> [S -> S]]
  <2>1. ASSUME NEW n \in 1 .. N, NEW r \in S PROVE MergeFreshness(r, control[n].value) \in S
    <3>1. control[n].value # Illegal => DeltaSeconds(control[n].value) \in Int
      BY <1>1, DeltaBounds DEF HeaderTimes
    <3> QED BY <3>1 DEF MergeFreshness, Lifetime
  <2> QED BY <2>1
<1>3. Nothing \in S
  BY DEF Nothing
<1>4. PICK f \in [0 .. N -> S] : f[0] = Nothing /\ \A n \in 1 .. N : f[n] = step[n][f[n - 1]]
  <2>1. N \in Nat
    BY <1>1
  <2> HIDE DEF N, S, step
  <2>2. Stepwise(N, S, Nothing, step) # {}
    BY <2>1, <1>2, <1>3, StepByStep
  <2> QED BY <2>2 DEF Stepwise
<1>5. f = Merging(f)
  <2>1. ASSUME NEW n \in 0 .. N, n # 0
        PROVE  f[n] = IF control[n].name = name THEN MergeFreshness(f[n - 1], control[n].value) ELSE f[n - 1]
    <3>1. n \in 1 .. N /\ n - 1 \in 0 .. N
      BY <1>1, <2>1
    <3>2. f[n - 1] \in S
      BY <3>1
    <3>3. f[n] = step[n][f[n - 1]]
      BY <1>4, <3>1
    <3> HIDE DEF S
    <3> QED BY <3>1, <3>2, <3>3
  <2>2. ASSUME NEW n \in 0 .. N PROVE f[n] = Merging(f)[n]
    BY <1>4, <2>1, <2>2
  <2>3. DOMAIN f = 0 .. N /\ DOMAIN Merging(f) = 0 .. N
    OBVIOUS
  <2> QED BY <2>2, <2>3
<1>6. merged = Merging(merged)
  <2> HIDE DEF Merging
  <2> QED BY <1>5
<1>7. Directive(control, name) = merged[N]
  BY DEF Directive
<1> HIDE DEF merged
<1>8. merged[0] = Nothing
  BY <1>1, <1>6
<1>9. ASSUME NEW n \in 1 .. N
      PROVE  merged[n] = IF control[n].name = name THEN MergeFreshness(merged[n - 1], control[n].value)
                                                   ELSE merged[n - 1]
  <2>1. n \in 0 .. N /\ n # 0
    BY <1>1
  <2>2. merged[n] = Merging(merged)[n]
    BY <1>6
  <2> HIDE DEF N
  <2> QED BY <2>1, <2>2
<1> DEFINE First(m) == {control[n].value : n \in {k \in 1 .. m : control[k].name = name}}
           Right == {m \in Nat : m <= N => Means(First(m), merged[m])}
<1>10. 0 \in Right
  BY <1>8 DEF Means
<1>11. ASSUME NEW m \in Nat, m \in Right PROVE m + 1 \in Right
  <2>1. SUFFICES ASSUME m + 1 <= N PROVE Means(First(m + 1), merged[m + 1])
    OBVIOUS
  <2>2. m + 1 \in 1 .. N /\ (m + 1) - 1 = m /\ m <= N
    BY <1>1, <2>1
  <2>3. Means(First(m), merged[m])
    BY <1>11, <2>2
  <2>4. First(m) \in SUBSET HeaderTimes
    BY <1>1, <2>2
  <2>5. CASE control[m + 1].name = name
    <3>1. First(m + 1) = First(m) \cup {control[m + 1].value}
      <4>1. 1 .. m + 1 = 1 .. m \cup {m + 1}
        OBVIOUS
      <4> QED BY <2>5, <4>1
    <3>2. merged[m + 1] = MergeFreshness(merged[m], control[m + 1].value)
      BY <1>9, <2>2, <2>5
    <3>3. control[m + 1].value \in HeaderTimes
      BY <1>1, <2>2
    <3> HIDE DEF First
    <3> QED BY <2>3, <2>4, <3>1, <3>2, <3>3, MergeMeans
  <2>6. CASE control[m + 1].name # name
    <3>1. First(m + 1) = First(m)
      <4>1. 1 .. m + 1 = 1 .. m \cup {m + 1}
        OBVIOUS
      <4> QED BY <2>6, <4>1
    <3>2. merged[m + 1] = merged[m]
      BY <1>9, <2>2, <2>6
    <3> QED BY <2>3, <3>1, <3>2
  <2> QED BY <2>5, <2>6
<1>12. N \in Right
  <2> HIDE DEF Right
  <2> QED BY <1>1, <1>10, <1>11, InductiveSet
<1>13. First(N) = Values(control, name)
  BY DEF Values, ControlHeader
<1>14. Means(First(N), merged[N])
  <2> HIDE DEF First, N
  <2> QED BY <1>1, <1>12
<1> QED BY <1>7, <1>13, <1>14

\* maxAgeValue is well-defined, and at least each of the legal values.
LEMMA MaxAgeBounds ==
  ASSUME NEW values \in Seq(HeaderTimes)
  PROVE  /\ MaxAgeValue(values) \in 0 .. MaxDuration
         /\ \A n \in DOMAIN values :
              values[n] # Illegal => DeltaSeconds(values[n]) <= MaxAgeValue(values)
<1> DEFINE N == Len(values)
           S == 0 .. MaxDuration
           Enlarging(g) ==
             [n \in 0 .. N |->
                IF n = 0 THEN 0
                ELSE IF values[n] = Illegal THEN g[n - 1]
                ELSE Larger(g[n - 1], DeltaSeconds(values[n]))]
           largest == CHOOSE g : g = Enlarging(g)
           step == [n \in 1 .. N |-> [r \in S |->
                      IF values[n] = Illegal THEN r ELSE Larger(r, DeltaSeconds(values[n]))]]
<1>1. N \in Nat /\ DOMAIN values = 1 .. N /\ \A n \in 1 .. N : values[n] \in HeaderTimes
  BY ElementOfSeq
<1>2. \A n \in 1 .. N : values[n] # Illegal =>
        /\ DeltaSeconds(values[n]) \in Int
        /\ DeltaSeconds(values[n]) <= MaxDuration
  BY <1>1, DeltaBounds DEF HeaderTimes
<1>3. 0 \in S /\ MaxDuration \in Nat
  BY ConstantsAssumption
<1>4. step \in [1 .. N -> [S -> S]]
  <2>1. ASSUME NEW n \in 1 .. N, NEW r \in S, values[n] # Illegal
        PROVE  Larger(r, DeltaSeconds(values[n])) \in S
    BY <1>2, <1>3, <2>1 DEF Larger
  <2> QED BY <2>1
<1>5. PICK f \in [0 .. N -> S] : f[0] = 0 /\ \A n \in 1 .. N : f[n] = step[n][f[n - 1]]
  <2>1. N \in Nat
    BY <1>1
  <2> HIDE DEF N, S, step
  <2>2. Stepwise(N, S, 0, step) # {}
    BY <2>1, <1>3, <1>4, StepByStep
  <2> QED BY <2>2 DEF Stepwise
<1>6. f = Enlarging(f)
  <2>1. ASSUME NEW n \in 0 .. N, n # 0
        PROVE  f[n] = IF values[n] = Illegal THEN f[n - 1] ELSE Larger(f[n - 1], DeltaSeconds(values[n]))
    <3>1. n \in 1 .. N /\ n - 1 \in 0 .. N
      BY <1>1, <2>1
    <3>2. f[n - 1] \in S
      BY <3>1
    <3>3. f[n] = step[n][f[n - 1]]
      BY <1>5, <3>1
    <3> HIDE DEF S
    <3> QED BY <3>1, <3>2, <3>3
  <2>2. ASSUME NEW n \in 0 .. N PROVE f[n] = Enlarging(f)[n]
    BY <1>5, <2>1, <2>2
  <2>3. DOMAIN f = 0 .. N /\ DOMAIN Enlarging(f) = 0 .. N
    OBVIOUS
  <2> QED BY <2>2, <2>3
<1>7. largest = Enlarging(largest)
  <2> HIDE DEF Enlarging
  <2> QED BY <1>6
<1>8. MaxAgeValue(values) = largest[N]
  BY DEF MaxAgeValue
<1> HIDE DEF largest
<1>9. largest[0] = 0
  BY <1>1, <1>7
<1>10. ASSUME NEW n \in 1 .. N
       PROVE  largest[n] = IF values[n] = Illegal THEN largest[n - 1]
                                                  ELSE Larger(largest[n - 1], DeltaSeconds(values[n]))
  <2>1. n \in 0 .. N /\ n # 0
    BY <1>1
  <2>2. largest[n] = Enlarging(largest)[n]
    BY <1>7
  <2> HIDE DEF N
  <2> QED BY <2>1, <2>2
<1> DEFINE Right == {m \in Nat : m <= N =>
                       /\ largest[m] \in 0 .. MaxDuration
                       /\ \A n \in 1 .. m : values[n] # Illegal => DeltaSeconds(values[n]) <= largest[m]}
<1>11. 0 \in Right
  BY <1>3, <1>9
<1>12. ASSUME NEW m \in Nat, m \in Right PROVE m + 1 \in Right
  <2>1. SUFFICES ASSUME m + 1 <= N
                 PROVE  /\ largest[m + 1] \in 0 .. MaxDuration
                        /\ \A n \in 1 .. m + 1 :
                             values[n] # Illegal => DeltaSeconds(values[n]) <= largest[m + 1]
    OBVIOUS
  <2>2. m + 1 \in 1 .. N /\ (m + 1) - 1 = m /\ m <= N
    BY <1>1, <2>1
  <2>3. /\ largest[m] \in 0 .. MaxDuration
        /\ \A n \in 1 .. m : values[n] # Illegal => DeltaSeconds(values[n]) <= largest[m]
    BY <1>12, <2>2
  <2>4. largest[m + 1] = IF values[m + 1] = Illegal THEN largest[m]
                                                    ELSE Larger(largest[m], DeltaSeconds(values[m + 1]))
    BY <1>10, <2>2
  <2>5. values[m + 1] # Illegal => /\ DeltaSeconds(values[m + 1]) \in Int
                                   /\ DeltaSeconds(values[m + 1]) <= MaxDuration
    BY <1>2, <2>2
  <2>6. /\ largest[m + 1] \in 0 .. MaxDuration
        /\ largest[m] <= largest[m + 1]
        /\ values[m + 1] # Illegal => DeltaSeconds(values[m + 1]) <= largest[m + 1]
    BY <1>3, <2>3, <2>4, <2>5 DEF Larger
  <2>7. ASSUME NEW n \in 1 .. m + 1, values[n] # Illegal PROVE DeltaSeconds(values[n]) <= largest[m + 1]
    <3>1. CASE n = m + 1
      BY <2>6, <2>7, <3>1
    <3>2. CASE n # m + 1
      <4>1. n \in 1 .. m /\ n \in 1 .. N
        BY <2>2, <3>2
      <4>2. DeltaSeconds(values[n]) \in Int /\ DeltaSeconds(values[n]) <= largest[m]
        BY <1>2, <2>3, <2>7, <4>1
      <4> QED BY <1>3, <2>3, <2>6, <4>2
    <3> QED BY <3>1, <3>2
  <2> QED BY <2>6, <2>7
<1>13. N \in Right
  <2> HIDE DEF Right
  <2> QED BY <1>1, <1>11, <1>12, InductiveSet
<1>14. /\ largest[N] \in 0 .. MaxDuration
       /\ \A n \in 1 .. N : values[n] # Illegal => DeltaSeconds(values[n]) <= largest[N]
  <2> HIDE DEF N
  <2> QED BY <1>1, <1>13
<1> QED BY <1>1, <1>8, <1>14

-----------------------------------------------------------------------------
(* Ages *)

LEMMA DateType ==
  ASSUME NEW h \in Header, Len(h.date) > 0, h.date[1] # Illegal
  PROVE  Date(h) \in Int
<1>1. h.date \in Seq(HeaderTimes)
  BY DEF Header
<1>2. h.date[1] \in HeaderTimes
  BY <1>1, ElementOfSeq
<1>3. h.date[1] \in Int /\ Second \in Int
  BY <1>2, ConstantsAssumption DEF HeaderTimes
<1> QED BY <1>3 DEF Date

\* headerAge is not less than any of the three things that are known.
LEMMA HeaderAgeBounds ==
  ASSUME NEW h \in Header, NEW d \in 0 .. MaxDuration, NEW t \in Int
  PROVE  /\ HeaderAge(h, d, t) \in 0 .. MaxDuration
         /\ HeaderAge(h, d, t) >= Smaller(MaxAgeValue(h.age) + d, MaxDuration)
         /\ HasDate(h) => HeaderAge(h, d, t) >= Smaller(t - Date(h), MaxDuration)
<1> DEFINE byAge == MaxAgeValue(h.age)
           byDate == Since(Date(h), t)
<1>1. MaxDuration \in Nat
  BY ConstantsAssumption
<1>2. h.age \in Seq(HeaderTimes)
  BY DEF Header
<1>3. byAge \in 0 .. MaxDuration
  BY <1>2, MaxAgeBounds
<1>4. SaturatingAdd(byAge, d) = Smaller(byAge + d, MaxDuration)
  BY <1>3, Saturates
<1>5. HasDate(h) => Date(h) \in Int
  BY DateType DEF HasDate
<1>6. HasDate(h) => /\ byDate \in (0 - MaxDuration - 1) .. MaxDuration
                    /\ byDate >= Smaller(t - Date(h), MaxDuration)
  BY <1>5, MinusBounds DEF Since
<1>7. HeaderAge(h, d, t) = Larger(IF HasDate(h) THEN Larger(byDate, 0) ELSE 0, SaturatingAdd(byAge, d))
  BY DEF HeaderAge
<1> HIDE DEF byAge, byDate
<1>8. SaturatingAdd(byAge, d) \in 0 .. MaxDuration
  BY <1>1, <1>3, <1>4 DEF Smaller
<1>9. CASE HasDate(h)
  <2>1. Date(h) \in Int
    BY <1>5, <1>9
  <2> QED BY <1>1, <1>3, <1>4, <1>6, <1>7, <1>8, <1>9, <2>1 DEF Larger, Smaller, byAge
<1>10. CASE ~HasDate(h)
  BY <1>1, <1>3, <1>4, <1>7, <1>8, <1>10 DEF Larger, Smaller, byAge
<1> QED BY <1>9, <1>10

LEMMA HeaderAgeGrows ==
  ASSUME NEW h \in Header, NEW d \in 0 .. MaxDuration, NEW t \in Int, NEW u \in Int, t <= u
  PROVE  HeaderAge(h, d, t) <= HeaderAge(h, d, u)
<1> DEFINE arrived == SaturatingAdd(MaxAgeValue(h.age), d)
<1>1. MaxDuration \in Nat
  BY ConstantsAssumption
<1>2. MaxAgeValue(h.age) \in 0 .. MaxDuration
  BY MaxAgeBounds DEF Header
<1>3. arrived \in Int
  BY <1>1, <1>2, Saturates DEF Smaller
<1>4. HasDate(h) => Date(h) \in Int
  BY DateType DEF HasDate
<1>5. HasDate(h) => /\ Since(Date(h), t) \in Int /\ Since(Date(h), u) \in Int
                    /\ Since(Date(h), t) <= Since(Date(h), u)
  BY <1>1, <1>4 DEF Since, Minus, Larger, Smaller
<1>6. \A s : HeaderAge(h, d, s) = Larger(IF HasDate(h) THEN Larger(Since(Date(h), s), 0) ELSE 0, arrived)
  BY DEF HeaderAge
<1> HIDE DEF arrived
<1> QED BY <1>3, <1>5, <1>6 DEF Larger

\* replayAge, likewise; an entry of today's form and one of an earlier version.
LEMMA EntryAgeBounds ==
  ASSUME NEW h \in Header, NEW t \in Int,
         NEW e \in [responseTime : Nat, initialAge : (0 - MaxDuration - 1) .. MaxDuration]
  PROVE  /\ EntryAge(h, e, t) \in 0 .. MaxDuration
         /\ e.responseTime > 0 =>
              /\ EntryAge(h, e, t) >= Smaller(t - e.responseTime, MaxDuration)
              /\ EntryAge(h, e, t)
                   >= Smaller(Larger(t - e.responseTime, 0) + NonNegative(e.initialAge), MaxDuration)
         /\ Len(h.date) > 0 /\ h.date[1] # Illegal
              => EntryAge(h, e, t) >= Smaller(t - Date(h), MaxDuration)
         /\ \A rest \in Int :
              /\ e.responseTime > 0
              /\ Larger(t - e.responseTime, 0) + NonNegative(e.initialAge) <= rest
              /\ Len(h.date) > 0 /\ h.date[1] # Illegal => t - Date(h) <= rest
              => EntryAge(h, e, t) <= rest
<1> DEFINE dated == Len(h.date) > 0 /\ h.date[1] # Illegal
           byDate == IF dated THEN Larger(Since(Date(h), t), 0) ELSE 0
           here == Larger(Since(e.responseTime, t), 0)
           before == NonNegative(e.initialAge)
           byAge == MaxAgeValue(h.age)
<1>1. MaxDuration \in Nat
  BY ConstantsAssumption
<1>2. byAge \in 0 .. MaxDuration
  BY MaxAgeBounds DEF Header
<1>3. dated => Date(h) \in Int
  BY DateType
<1>4. byDate \in 0 .. MaxDuration
  BY <1>1, <1>3 DEF Since, Minus, Larger, Smaller
<1>5. dated => byDate >= Smaller(t - Date(h), MaxDuration) /\ byDate <= Larger(t - Date(h), 0)
  BY <1>1, <1>3 DEF Since, Minus, Larger, Smaller
<1>6. e.responseTime \in Nat /\ e.initialAge \in (0 - MaxDuration - 1) .. MaxDuration
  OBVIOUS
<1>7. /\ here \in 0 .. MaxDuration
      /\ here >= Smaller(t - e.responseTime, MaxDuration)
      /\ here <= Larger(t - e.responseTime, 0)
  BY <1>1, <1>6 DEF Since, Minus, Larger, Smaller
<1>8. before \in 0 .. MaxDuration
  BY <1>1, <1>6 DEF NonNegative, Larger
<1>9. SaturatingAdd(here, before) = Smaller(here + before, MaxDuration)
  BY <1>7, <1>8, Saturates
<1>10. EntryAge(h, e, t) = IF e.responseTime > 0 THEN Larger(byDate, SaturatingAdd(here, before))
                                                 ELSE Larger(byDate, byAge)
  BY DEF EntryAge
<1>11. ~dated => byDate = 0
  OBVIOUS
<1> HIDE DEF byDate, here, byAge
<1>12. CASE e.responseTime > 0
  <2>1. EntryAge(h, e, t) = Larger(byDate, Smaller(here + before, MaxDuration))
    BY <1>9, <1>10, <1>12
  <2> HIDE DEF before
  <2>2. EntryAge(h, e, t) \in 0 .. MaxDuration /\ EntryAge(h, e, t) >= byDate
    BY <1>1, <1>4, <1>7, <1>8, <2>1 DEF Larger, Smaller
  <2>3. /\ EntryAge(h, e, t) >= Smaller(t - e.responseTime, MaxDuration)
        /\ EntryAge(h, e, t) >= Smaller(Larger(t - e.responseTime, 0) + before, MaxDuration)
    BY <1>1, <1>4, <1>6, <1>7, <1>8, <2>1 DEF Larger, Smaller
  <2>4. dated => EntryAge(h, e, t) >= Smaller(t - Date(h), MaxDuration)
    BY <1>1, <1>3, <1>4, <1>5, <2>2 DEF Smaller
  <2>5. ASSUME NEW rest \in Int, Larger(t - e.responseTime, 0) + before <= rest,
               dated => t - Date(h) <= rest
        PROVE  EntryAge(h, e, t) <= rest
    <3>1. here + before <= rest /\ rest >= 0
      BY <1>6, <1>7, <1>8, <2>5 DEF Larger
    <3>2. byDate <= rest
      BY <1>3, <1>4, <1>5, <1>11, <2>5, <3>1 DEF Larger
    <3> QED BY <1>1, <1>4, <1>7, <1>8, <2>1, <3>1, <3>2 DEF Larger, Smaller
  <2> QED BY <2>2, <2>3, <2>4, <2>5 DEF before
<1>13. CASE ~(e.responseTime > 0)
  <2>1. EntryAge(h, e, t) = Larger(byDate, byAge)
    BY <1>10, <1>13
  <2>2. EntryAge(h, e, t) \in 0 .. MaxDuration /\ EntryAge(h, e, t) >= byDate
    BY <1>1, <1>2, <1>4, <2>1 DEF Larger
  <2>3. dated => EntryAge(h, e, t) >= Smaller(t - Date(h), MaxDuration)
    BY <1>1, <1>3, <1>4, <1>5, <2>2 DEF Smaller
  <2> QED BY <1>13, <2>2, <2>3
<1> QED BY <1>12, <1>13

-----------------------------------------------------------------------------
(* Lifetimes *)

\* What a Cache-Control header declares, if anything.
LEMMA DirectiveType ==
  ASSUME NEW control \in ControlHeader, NEW name
  PROVE  /\ Directive(control, name) \in [has : BOOLEAN, value : Int]
         /\ Directive(control, name).value <= MaxDuration
         /\ Directive(control, name).has <=> Values(control, name) # {}
         /\ Directive(control, name).value > 0 =>
              \A v \in Values(control, name) :
                v \in Int /\ Directive(control, name).value <= v * Second
<1> DEFINE values == Values(control, name)
           lifetime == Directive(control, name)
<1>1. values \subseteq HeaderTimes
  <2>1. ASSUME NEW n \in DOMAIN control PROVE control[n] \in [name : Names, value : HeaderTimes]
    <3>1. n \in 1 .. Len(control)
      BY DEF ControlHeader
    <3> QED BY <3>1, ElementOfSeq DEF ControlHeader
  <2> QED BY <2>1 DEF Values
<1>2. Means(values, lifetime)
  BY DirectiveMeans
<1>3. MaxDuration \in Nat
  BY ConstantsAssumption
<1> HIDE DEF values, lifetime
<1>4. CASE values = {}
  <2>1. lifetime = Nothing
    BY <1>2, <1>4 DEF Means
  <2> QED BY <1>3, <1>4, <2>1 DEF Nothing, values, lifetime
<1>5. CASE values # {} /\ ~Agree(values)
  <2>1. lifetime = Lifetime(0)
    BY <1>2, <1>5 DEF Means
  <2> QED BY <1>3, <1>5, <2>1 DEF Lifetime, values, lifetime
<1>6. CASE values # {} /\ Agree(values)
  <2>1. \A v \in values : v \in Int /\ lifetime = Lifetime(DeltaSeconds(v))
    BY <1>1, <1>2, <1>6 DEF Means, Agree, HeaderTimes
  <2>2. ASSUME NEW v \in values
        PROVE  /\ v \in Int
               /\ lifetime.has
               /\ lifetime \in [has : BOOLEAN, value : Int]
               /\ lifetime.value <= MaxDuration
               /\ lifetime.value <= v * Second
    <3>1. v \in Int /\ lifetime = Lifetime(DeltaSeconds(v))
      BY <2>1
    <3>2. /\ DeltaSeconds(v) \in Int
          /\ DeltaSeconds(v) <= MaxDuration
          /\ DeltaSeconds(v) <= v * Second
      BY <3>1, DeltaBounds
    <3> QED BY <3>1, <3>2 DEF Lifetime
  <2> QED BY <1>6, <2>2 DEF values, lifetime
<1> QED BY <1>4, <1>5, <1>6

\* The directive that governs, of any header.
GoverningOf(control) ==
  IF Values(control, "s-maxage") # {} THEN Values(control, "s-maxage") ELSE Values(control, "max-age")

LEMMA CacheControlType ==
  ASSUME NEW control \in ControlHeader
  PROVE  /\ CacheControl(control) \in [has : BOOLEAN, value : Int]
         /\ CacheControl(control).value <= MaxDuration
         /\ CacheControl(control).has <=> GoverningOf(control) # {}
         /\ CacheControl(control).value > 0 =>
              \A v \in GoverningOf(control) :
                v \in Int /\ CacheControl(control).value <= v * Second
<1>1. CASE Values(control, "s-maxage") # {}
  <2>1. Directive(control, "s-maxage").has
    BY <1>1, DirectiveType
  <2>2. CacheControl(control) = Directive(control, "s-maxage")
    BY <2>1 DEF CacheControl
  <2>3. GoverningOf(control) = Values(control, "s-maxage")
    BY <1>1 DEF GoverningOf
  <2> QED BY <2>2, <2>3, DirectiveType
<1>2. CASE Values(control, "s-maxage") = {}
  <2>1. ~Directive(control, "s-maxage").has
    BY <1>2, DirectiveType
  <2>2. CacheControl(control) = Directive(control, "max-age")
    BY <2>1 DEF CacheControl
  <2>3. GoverningOf(control) = Values(control, "max-age")
    BY <1>2 DEF GoverningOf
  <2> QED BY <2>2, <2>3, DirectiveType
<1> QED BY <1>1, <1>2

LEMMA GoverningIs ==
  Governing = GoverningOf(header.control)
BY DEF Governing, GoverningOf, Values

\* The only Expires, as a duration.
LEMMA ExpiresType ==
  ASSUME NEW h \in Header, Len(h.expires) = 1, h.expires # <<Illegal>>
  PROVE  h.expires[1] \in Int /\ h.expires[1] * Second \in Int
<1>1. h.expires \in Seq(HeaderTimes) /\ 1 \in DOMAIN h.expires
  BY DEF Header
<1>2. h.expires[1] \in HeaderTimes /\ h.expires = <<h.expires[1]>>
  BY <1>1, ElementOfSeq
<1>3. h.expires[1] \in Int /\ Second \in Int
  BY <1>2, ConstantsAssumption DEF HeaderTimes
<1> QED BY <1>3

\* From when on the Expires counts.
From(h, receivedAt) == IF HasDate(h) THEN Date(h) ELSE receivedAt

LEMMA ExpiresLength ==
  ASSUME NEW h \in Header
  PROVE  /\ Len(h.expires) = 0 \/ Len(h.expires) = 1 \/ Len(h.expires) > 1
         /\ h.expires = <<Illegal>> => Len(h.expires) = 1
<1> DEFINE n == Len(h.expires)
<1>1. n \in Nat
  BY DEF Header
<1>2. h.expires = <<Illegal>> => n = 1
  OBVIOUS
<1> HIDE DEF n
<1>3. n = 0 \/ n = 1 \/ n > 1
  BY <1>1
<1> QED BY <1>2, <1>3 DEF n

LEMMA LifetimeCases ==
  ASSUME NEW h \in Header, NEW receivedAt \in Int
  PROVE  LET lifetime == DeclaredLifetime(h, receivedAt) IN
         \/ CacheControl(h.control).has /\ lifetime = CacheControl(h.control)
         \/ ~CacheControl(h.control).has /\ Len(h.expires) = 0 /\ lifetime = Nothing
         \/ /\ ~CacheControl(h.control).has
            /\ Len(h.expires) > 1 \/ h.expires = <<Illegal>>
            /\ lifetime = Lifetime(0)
         \/ /\ ~CacheControl(h.control).has /\ Len(h.expires) = 1 /\ h.expires # <<Illegal>>
            /\ lifetime = Lifetime(Minus(h.expires[1] * Second, From(h, receivedAt)))
<1>1. CASE CacheControl(h.control).has
  BY <1>1 DEF DeclaredLifetime
<1>2. CASE ~CacheControl(h.control).has /\ Len(h.expires) = 0
  <2>1. h.expires # <<Illegal>>
    BY <1>2
  <2> QED BY <1>2, <2>1 DEF DeclaredLifetime
<1>3. CASE ~CacheControl(h.control).has /\ (Len(h.expires) > 1 \/ h.expires = <<Illegal>>)
  <2>1. Len(h.expires) # 0
    BY <1>3
  <2> QED BY <1>3, <2>1 DEF DeclaredLifetime
<1>4. CASE ~CacheControl(h.control).has /\ Len(h.expires) = 1 /\ h.expires # <<Illegal>>
  BY <1>4 DEF DeclaredLifetime, From
<1> QED BY <1>1, <1>2, <1>3, <1>4, ExpiresLength

LEMMA LifetimeType ==
  ASSUME NEW h \in Header, NEW receivedAt \in Int
  PROVE  /\ DeclaredLifetime(h, receivedAt) \in [has : BOOLEAN, value : Int]
         /\ DeclaredLifetime(h, receivedAt).value <= MaxDuration
<1>1. MaxDuration \in Nat
  BY ConstantsAssumption
<1>2. h.control \in ControlHeader
  BY DEF Header, ControlHeader
<1>3. From(h, receivedAt) \in Int
  BY DateType DEF From, HasDate
<1>4. ASSUME Len(h.expires) = 1, h.expires # <<Illegal>>
      PROVE  /\ Minus(h.expires[1] * Second, From(h, receivedAt)) \in Int
             /\ Minus(h.expires[1] * Second, From(h, receivedAt)) <= MaxDuration
  <2> DEFINE e == h.expires[1] * Second
  <2>1. e \in Int
    BY <1>4, ExpiresType
  <2> HIDE DEF e
  <2>2. Minus(e, From(h, receivedAt)) \in (0 - MaxDuration - 1) .. MaxDuration
    BY <1>3, <2>1, MinusBounds
  <2> QED BY <1>1, <2>2 DEF e
<1>5. /\ Nothing \in [has : BOOLEAN, value : Int] /\ Nothing.value = 0
      /\ \A n \in Int : Lifetime(n) \in [has : BOOLEAN, value : Int] /\ Lifetime(n).value = n
  BY DEF Nothing, Lifetime
<1> QED BY <1>1, <1>2, <1>4, <1>5, LifetimeCases, CacheControlType

\* The lifetime of a response without Date shrinks as it is read later.
LEMMA LifetimeShrinks ==
  ASSUME NEW h \in Header, NEW s \in Int, NEW t \in Int, s <= t
  PROVE  /\ DeclaredLifetime(h, s).has = DeclaredLifetime(h, t).has
         /\ DeclaredLifetime(h, t).value <= DeclaredLifetime(h, s).value
<1>1. MaxDuration \in Nat
  BY ConstantsAssumption
<1>2. /\ DeclaredLifetime(h, s) \in [has : BOOLEAN, value : Int]
      /\ DeclaredLifetime(h, t) \in [has : BOOLEAN, value : Int]
  BY LifetimeType
<1>3. CASE CacheControl(h.control).has \/ Len(h.expires) = 0 \/ Len(h.expires) > 1 \/ h.expires = <<Illegal>>
  <2>1. \/ CacheControl(h.control).has
        \/ ~CacheControl(h.control).has /\ Len(h.expires) = 0
        \/ /\ ~CacheControl(h.control).has /\ Len(h.expires) # 0
           /\ Len(h.expires) > 1 \/ h.expires = <<Illegal>>
    BY <1>3, ExpiresLength
  <2>2. DeclaredLifetime(h, s) =
          IF CacheControl(h.control).has THEN CacheControl(h.control)
          ELSE IF Len(h.expires) = 0 THEN Nothing ELSE Lifetime(0)
    BY <2>1 DEF DeclaredLifetime
  <2>3. DeclaredLifetime(h, t) =
          IF CacheControl(h.control).has THEN CacheControl(h.control)
          ELSE IF Len(h.expires) = 0 THEN Nothing ELSE Lifetime(0)
    BY <2>1 DEF DeclaredLifetime
  <2> QED BY <1>2, <2>2, <2>3
<1>4. CASE ~CacheControl(h.control).has /\ Len(h.expires) = 1 /\ h.expires # <<Illegal>>
  <2> DEFINE e == h.expires[1] * Second
  <2>1. e \in Int
    BY <1>4, ExpiresType
  <2>2. From(h, s) \in Int /\ From(h, t) \in Int /\ From(h, s) <= From(h, t)
    BY DateType DEF From, HasDate
  <2> HIDE DEF e
  <2>3. Minus(e, From(h, t)) <= Minus(e, From(h, s))
    BY <1>1, <2>1, <2>2 DEF Minus, Larger, Smaller
  <2>4. /\ DeclaredLifetime(h, s) = Lifetime(Minus(e, From(h, s)))
        /\ DeclaredLifetime(h, t) = Lifetime(Minus(e, From(h, t)))
    BY <1>4 DEF e, DeclaredLifetime, From
  <2> QED BY <2>3, <2>4 DEF Lifetime
<1> QED BY <1>3, <1>4, ExpiresLength

\* A response with something left of its lifetime is fresh, in the sense of the
\* properties: rest is an upper bound of its age.
LEMMA FreshByLifetime ==
  ASSUME header \in Header, born \in Int,
         NEW receivedAt \in Int, NEW t \in Int, NEW slack \in Int, NEW rest \in Nat,
         DeclaredLifetime(header, receivedAt).has =>
           /\ rest < DeclaredLifetime(header, receivedAt).value
           /\ t - born - slack <= rest
           /\ t - slack <= receivedAt + rest
  PROVE  FreshAt(t, slack)
<1> DEFINE lifetime == DeclaredLifetime(header, receivedAt)
           control == header.control
<1>1. header.control \in ControlHeader /\ header.expires \in Seq(HeaderTimes)
  BY DEF Header, ControlHeader
<1>2. lifetime \in [has : BOOLEAN, value : Int]
  BY LifetimeType
<1>3. Governing = GoverningOf(control)
  BY GoverningIs
<1>4. /\ CacheControl(control) \in [has : BOOLEAN, value : Int]
      /\ CacheControl(control).has <=> Governing # {}
      /\ CacheControl(control).value > 0 =>
           \A v \in Governing : v \in Int /\ CacheControl(control).value <= v * Second
  BY <1>1, <1>3, CacheControlType
<1>5. Illegal \notin Int /\ Second \in Int
  BY ConstantsAssumption
<1> HIDE DEF lifetime
<1>6. CASE CacheControl(control).has
  <2>1. lifetime = CacheControl(control)
    BY <1>6, LifetimeCases DEF lifetime
  <2>2. lifetime.has
    BY <1>6, <2>1
  <2>3. rest < lifetime.value /\ t - born - slack <= rest
    BY <2>2 DEF lifetime
  <2>4. CacheControl(control).value > 0
    BY <1>2, <2>1, <2>3
  <2>5. ASSUME NEW v \in Governing PROVE v # Illegal /\ t - born - slack < v * Second
    <3>1. v \in Int /\ lifetime.value <= v * Second
      BY <1>4, <2>1, <2>4
    <3>2. v * Second \in Int
      BY <1>5, <3>1
    <3>3. lifetime.value \in Int
      BY <1>2
    <3>4. t - born - slack < v * Second
      BY <2>3, <3>1, <3>2, <3>3
    <3> QED BY <1>5, <3>1, <3>4
  <2> QED BY <1>4, <1>6, <2>5 DEF FreshAt
<1>7. CASE ~CacheControl(control).has
  <2>1. Governing = {}
    BY <1>4, <1>7
  <2>2. CASE lifetime = Nothing /\ Len(header.expires) = 0
    <3>1. DOMAIN header.expires = {}
      BY <1>1, <2>2
    <3> QED BY <2>1, <3>1 DEF FreshAt
  <2>3. CASE lifetime = Lifetime(0)
    <3>1. lifetime.has /\ lifetime.value = 0
      BY <2>3 DEF Lifetime
    <3>2. rest < 0
      BY <3>1 DEF lifetime
    <3> QED BY <3>2
  <2>4. CASE /\ Len(header.expires) = 1 /\ header.expires # <<Illegal>>
             /\ lifetime = Lifetime(Minus(header.expires[1] * Second, From(header, receivedAt)))
    <3> DEFINE e == header.expires[1] * Second
               from == From(header, receivedAt)
    <3>1. DOMAIN header.expires = {1}
      BY <1>1, <2>4
    <3>2. header.expires[1] # Illegal /\ e \in Int
      BY <1>5, <2>4, ExpiresType
    <3>3. from \in Int
      BY DateType DEF From, HasDate
    <3>4. lifetime.has /\ lifetime.value = Minus(e, from)
      BY <2>4 DEF Lifetime
    <3>5. rest < Minus(e, from) /\ t - born - slack <= rest /\ t - slack <= receivedAt + rest
      BY <3>4 DEF lifetime
    <3> HIDE DEF e, from
    <3>6. rest < e - from
      <4>1. MaxDuration \in Nat
        BY ConstantsAssumption
      <4>2. /\ Minus(e, from) \in (0 - MaxDuration - 1) .. MaxDuration
            /\ Minus(e, from) > 0 - MaxDuration - 1 => Minus(e, from) <= e - from
        BY <3>2, <3>3, MinusBounds
      <4> QED BY <3>2, <3>3, <3>5, <4>1, <4>2
    <3>7. HasDate(header) => from = Date(header)
      BY DEF from, From
    <3>8. ~HasDate(header) => from = receivedAt
      BY DEF from, From
    <3>9. HasDate(header) => t - born - slack < e - Date(header)
      BY <3>2, <3>3, <3>5, <3>6, <3>7
    <3>10. ~HasDate(header) => t - slack < e
      BY <3>2, <3>3, <3>5, <3>6, <3>8
    <3> QED BY <2>1, <3>1, <3>2, <3>9, <3>10 DEF FreshAt, e
  <2> QED BY <1>7, <2>2, <2>3, <2>4, LifetimeCases DEF lifetime
<1> QED BY <1>6, <1>7

-----------------------------------------------------------------------------
(* Types *)

LEMMA BareType == Bare \in Header
<1>1. <<>> \in Seq([name : Names, value : HeaderTimes]) /\ <<>> \in Seq(HeaderTimes)
  OBVIOUS
<1> QED BY <1>1 DEF Bare, Header

\* Of the headers that a response born at b may come with until t: its Date is
\* its birth, and if it is older than the run, a Date or an Age tells.
LEMMA HeadersTell ==
  ASSUME start \in Nat, NEW b \in Int, NEW t \in Int, NEW h \in Headers(b, t)
  PROVE  /\ h \in Header
         /\ Len(h.date) > 0 /\ h.date[1] # Illegal => Date(h) <= b
         /\ b < start /\ ~HasDate(h) =>
              \E sent \in start .. t :
                MaxAgeValue(h.age) >= Smaller(sent - b - (Second - 1), MaxDuration)
<1>1. Second \in Nat \ {0} /\ MaxDuration \in Nat /\ Illegal \notin Int
  BY ConstantsAssumption
<1>2. /\ h \in [control : Controls, expires : ExpiresOf(b), date : Dates(b),
                age : {<<>>} \cup UNION {Ages(b, s) : s \in Larger(b, start) .. t}]
      /\ b < start => HasDate(h) \/ h.age # <<>>
  BY DEF Headers
<1>3. b \div Second \in Int
  BY <1>1, Division
<1>4. h.control \in Seq([name : Names, value : HeaderTimes])
  <2>1. Controls \subseteq Seq([name : Names, value : Nat \cup {Illegal}])
    BY ConstantsAssumption
  <2>2. h.control \in Seq([name : Names, value : Nat \cup {Illegal}])
    BY <1>2, <2>1
  <2>3. ASSUME NEW n \in 1 .. Len(h.control) PROVE h.control[n] \in [name : Names, value : HeaderTimes]
    <3>1. h.control[n] \in [name : Names, value : Nat \cup {Illegal}]
      BY <2>2, <2>3, ElementOfSeq
    <3> QED BY <3>1 DEF HeaderTimes
  <2>4. Len(h.control) \in Nat /\ h.control \in [1 .. Len(h.control) -> [name : Names, value : HeaderTimes]]
    BY <2>2, <2>3
  <2> DEFINE T == [name : Names, value : HeaderTimes]
  <2> HIDE DEF T
  <2>5. \A n \in Nat : [1 .. n -> T] \subseteq Seq(T)
    OBVIOUS
  <2> QED BY <2>4, <2>5 DEF T
<1>5. h.expires \in Seq(HeaderTimes)
  <2>1. PICK x \in Ahead : h.expires = [n \in DOMAIN x |-> IF x[n] = Illegal THEN Illegal ELSE b \div Second + x[n]]
    BY <1>2 DEF ExpiresOf
  <2>2. x \in Seq(HeaderTimes)
    BY <2>1, ConstantsAssumption
  <2>3. DOMAIN x = 1 .. Len(x) /\ Len(x) \in Nat
    BY <2>2
  <2>4. ASSUME NEW n \in DOMAIN x
        PROVE  (IF x[n] = Illegal THEN Illegal ELSE b \div Second + x[n]) \in HeaderTimes
    <3>1. x[n] \in HeaderTimes
      BY <2>2, <2>3, ElementOfSeq
    <3> QED BY <1>3, <3>1 DEF HeaderTimes
  <2>5. h.expires \in [1 .. Len(x) -> HeaderTimes]
    BY <2>1, <2>3, <2>4
  <2> QED BY <2>3, <2>5
<1>6. \/ h.date = <<>> \/ h.date = <<Illegal>>
      \/ h.date = <<b \div Second>> \/ h.date = <<b \div Second, b \div Second>>
  BY <1>2 DEF Dates
<1>7. h.date \in Seq(HeaderTimes)
  <2>1. b \div Second \in HeaderTimes /\ Illegal \in HeaderTimes
    BY <1>3 DEF HeaderTimes
  <2> DEFINE day == b \div Second
  <2> HIDE DEF day
  <2>2. \A x, y \in HeaderTimes : <<>> \in Seq(HeaderTimes) /\ <<x>> \in Seq(HeaderTimes)
                                  /\ <<x, y>> \in Seq(HeaderTimes)
    OBVIOUS
  <2> QED BY <1>6, <2>1, <2>2
<1>8. ASSUME h.age # <<>>
      PROVE  /\ h.age \in Seq(HeaderTimes)
             /\ \E sent \in start .. t :
                  MaxAgeValue(h.age) >= Smaller(sent - b - (Second - 1), MaxDuration)
  <2>1. PICK sent \in Larger(b, start) .. t : h.age \in Ages(b, sent)
    BY <1>2, <1>8
  <2>2. sent \in start .. t /\ sent \in Int /\ sent >= b
    BY <2>1 DEF Larger
  <2> DEFINE a == (sent - b) \div Second
  <2>3. a \in Int /\ sent - b < a * Second + Second
    BY <1>1, <2>2, Division
  <2>4. \/ h.age = <<a>> \/ h.age = <<Illegal, a, 0>> \/ h.age = <<a + MaxDuration>>
    BY <2>1 DEF Ages
  <2> HIDE DEF a
  <2>5. h.age \in Seq(HeaderTimes)
    <3>1. a \in HeaderTimes /\ a + MaxDuration \in HeaderTimes /\ Illegal \in HeaderTimes /\ 0 \in HeaderTimes
      BY <1>1, <2>3 DEF HeaderTimes
    <3>2. \A x, y, z \in HeaderTimes : <<x>> \in Seq(HeaderTimes) /\ <<x, y, z>> \in Seq(HeaderTimes)
      OBVIOUS
    <3> QED BY <2>4, <3>1, <3>2
  <2>6. PICK n \in DOMAIN h.age : h.age[n] \in Int /\ h.age[n] >= a
    <3>1. CASE h.age = <<a>>
      <4>1. 1 \in DOMAIN h.age /\ h.age[1] = a
        BY <3>1
      <4> QED BY <2>3, <4>1
    <3>2. CASE h.age = <<Illegal, a, 0>>
      <4>1. 2 \in DOMAIN h.age /\ h.age[2] = a
        BY <3>2
      <4> QED BY <2>3, <4>1
    <3>3. CASE h.age = <<a + MaxDuration>>
      <4>1. 1 \in DOMAIN h.age /\ h.age[1] = a + MaxDuration
        BY <3>3
      <4> QED BY <1>1, <2>3, <4>1
    <3> QED BY <2>4, <3>1, <3>2, <3>3
  <2> DEFINE v == h.age[n]
  <2>7. v \in Int /\ v >= a /\ v # Illegal
    BY <1>1, <2>6
  <2>8. DeltaSeconds(v) \in Int /\ DeltaSeconds(v) >= Smaller(v * Second, MaxDuration)
    BY <2>7, DeltaBounds
  <2>9. DeltaSeconds(v) <= MaxAgeValue(h.age) /\ MaxAgeValue(h.age) \in Int
    <3>1. MaxAgeValue(h.age) \in 0 .. MaxDuration
      BY <2>5, MaxAgeBounds
    <3> QED BY <1>1, <2>5, <2>7, <3>1, MaxAgeBounds
  <2>10. v * Second >= a * Second /\ a * Second \in Int /\ v * Second \in Int
    <3> HIDE DEF v
    <3> QED BY <1>1, <2>3, <2>7
  <2> HIDE DEF v
  <2>11. MaxAgeValue(h.age) >= Smaller(sent - b - (Second - 1), MaxDuration)
    BY <1>1, <2>2, <2>3, <2>8, <2>9, <2>10 DEF Smaller
  <2> QED BY <2>2, <2>5, <2>11
<1>9. h \in Header
  <2>1. h.age \in Seq(HeaderTimes)
    <3>1. CASE h.age = <<>>
      BY <3>1
    <3> QED BY <1>8, <3>1
  <2> QED BY <1>2, <1>4, <1>5, <1>7, <2>1 DEF Header
<1>10. ASSUME Len(h.date) > 0, h.date[1] # Illegal PROVE Date(h) <= b
  <2>1. h.date[1] = b \div Second
    BY <1>6, <1>10
  <2>2. (b \div Second) * Second <= b
    BY <1>1, Division
  <2> QED BY <2>1, <2>2 DEF Date
<1> QED BY <1>2, <1>8, <1>9, <1>10

\* The TTL is what was configured, or less.
LEMMA TTLType ==
  ASSUME NEW duration \in 0 .. MaxDuration, NEW rest \in [has : BOOLEAN, value : Int],
         rest.has => rest.value > 0
  PROVE  /\ TTL(duration, rest) \in 0 .. duration
         /\ duration > 0 => TTL(duration, rest) > 0
         /\ duration > 0 /\ rest.has => TTL(duration, rest) <= rest.value
BY ConstantsAssumption DEF TTL, Smaller

\* What responseFreshness returns.
LEMMA FreshnessType ==
  ASSUME NEW h \in Header, NEW d \in 0 .. MaxDuration, NEW t \in Int
  PROVE  LET rest == ResponseFreshness(h, d, t) IN
         /\ rest \in [has : BOOLEAN, value : Int]
         /\ rest.has = DeclaredLifetime(h, t).has
         /\ rest.value > 0 =>
              rest.has /\ rest.value = DeclaredLifetime(h, t).value - HeaderAge(h, d, t)
<1>1. DeclaredLifetime(h, t) \in [has : BOOLEAN, value : Int]
  BY LifetimeType
<1>2. HeaderAge(h, d, t) \in Int
  BY HeaderAgeBounds
<1> QED BY <1>1, <1>2 DEF ResponseFreshness

\* The handler was called before, at an instant that is not the unknown one.
TypeInv == TypeOK /\ 0 < start /\ start <= now

LEMMA InitType ==
  ASSUME Init
  PROVE  TypeInv
<1>1. Second \in Nat \ {0} /\ MaxDuration \in Nat /\ Second <= MaxDuration
  BY ConstantsAssumption
<1>2. Beginning \in Nat /\ 0 < Beginning /\ 0 - Second \in (0 - MaxDuration - 1) .. MaxDuration
      /\ 0 \in (0 - MaxDuration - 1) .. MaxDuration /\ 0 \in 0 .. MaxDuration
  BY <1>1 DEF Beginning
<1>3. header \in Header
  <2>1. CASE header = Bare
    BY <2>1, BareType
  <2>2. CASE born \in Births /\ header \in Headers(born, Beginning)
    <3>1. born \in Int
      BY <2>2, ConstantsAssumption
    <3>2. start \in Nat
      BY <1>2 DEF Init
    <3> QED BY <1>2, <2>2, <3>1, <3>2, HeadersTell
  <2> QED BY <2>1, <2>2 DEF Init
<1>4. born \in Int
  BY <1>2, ConstantsAssumption DEF Init
<1>5. entry \in [responseTime : Nat, initialAge : (0 - MaxDuration - 1) .. MaxDuration]
  BY <1>2 DEF Init
<1> QED BY <1>2, <1>3, <1>4, <1>5 DEF Init, TypeInv, TypeOK, NoReply

LEMMA StepType ==
  ASSUME TypeInv, [Next]_vars
  PROVE  TypeInv'
<1>1. Second \in Nat \ {0} /\ MaxDuration \in Nat
  BY ConstantsAssumption
<1>2. CASE Tick
  BY <1>2 DEF TypeInv, TypeOK, Tick, response, stored, replayed
<1>3. CASE HandlerReturns
  <2> DEFINE taken == Since(start, now)
  <2>1. PICK moment \in 0 .. Smaller(MaxPause, MaxClock - now), birth \in Births \cup start .. now :
          \E h \in Headers(birth, now) :
            /\ pause' = moment /\ now' = now + moment /\ born' = birth /\ header' = h
            /\ delay' = taken
            /\ entry' = [responseTime |-> now + moment,
                         initialAge |-> Larger(HeaderAge(h, taken, now + moment), 0)]
    BY <1>3 DEF HandlerReturns
  <2>2. PICK h \in Headers(birth, now) :
            /\ pause' = moment /\ now' = now + moment /\ born' = birth /\ header' = h
            /\ delay' = taken
            /\ entry' = [responseTime |-> now + moment,
                         initialAge |-> Larger(HeaderAge(h, taken, now + moment), 0)]
    BY <2>1
  <2>3. moment \in Nat /\ now \in Nat /\ start \in Nat /\ start <= now
    BY ConstantsAssumption DEF Smaller, TypeInv, TypeOK
  <2>4. birth \in Int
    BY <2>3, ConstantsAssumption
  <2>5. h \in Header
    BY <2>3, <2>4, HeadersTell
  <2>6. taken \in 0 .. MaxDuration
    BY <1>1, <2>3 DEF Since, Minus, Larger, Smaller
  <2> HIDE DEF taken
  <2>7. HeaderAge(h, taken, now + moment) \in 0 .. MaxDuration
    BY <2>3, <2>5, <2>6, HeaderAgeBounds
  <2>8. Larger(HeaderAge(h, taken, now + moment), 0) \in (0 - MaxDuration - 1) .. MaxDuration
    BY <1>1, <2>7 DEF Larger
  <2>9. entry' \in [responseTime : Nat, initialAge : (0 - MaxDuration - 1) .. MaxDuration]
    BY <2>2, <2>3, <2>8
  <2>10. now + moment \in Nat /\ start <= now + moment
    BY <2>3
  <2>11. pc' = "made" /\ UNCHANGED <<start, expire, ttl, skew, reply>>
    BY <1>3 DEF HandlerReturns, stored, replayed
  <2> QED BY <2>2, <2>3, <2>4, <2>5, <2>6, <2>9, <2>10, <2>11 DEF TypeInv, TypeOK
<1>4. CASE Store
  <2> DEFINE rest == ResponseFreshness(header, delay, now)
  <2>1. rest \in [has : BOOLEAN, value : Int]
    <3>1. header \in Header /\ delay \in 0 .. MaxDuration /\ now \in Int
      BY DEF TypeInv, TypeOK
    <3> QED BY <3>1, FreshnessType
  <2> HIDE DEF rest
  <2>2. \/ /\ MayStore(header, rest) /\ pc' = "stored"
           /\ \E duration \in Expires : expire' = duration /\ ttl' = TTL(duration, rest)
        \/ pc' = "dropped" /\ UNCHANGED stored
    BY <1>4 DEF Store, rest
  <2>3. ASSUME MayStore(header, rest), pc' = "stored",
               NEW duration \in Expires, expire' = duration, ttl' = TTL(duration, rest)
        PROVE  TypeInv'
    <3>1. duration \in 0 .. MaxDuration /\ (rest.has => rest.value > 0)
      BY <2>3, ConstantsAssumption DEF MayStore
    <3>2. TTL(duration, rest) \in 0 .. duration
      BY <2>1, <3>1, TTLType
    <3>3. duration \in Nat /\ TTL(duration, rest) \in 0 .. MaxDuration
      BY <1>1, <3>1, <3>2
    <3> QED BY <1>4, <2>3, <3>3 DEF Store, TypeInv, TypeOK, response, replayed
  <2>4. CASE pc' = "dropped" /\ UNCHANGED stored
    BY <1>4, <2>4 DEF Store, TypeInv, TypeOK, response, stored, replayed
  <2> QED BY <2>2, <2>3, <2>4
<1>5. CASE Replay
  BY <1>5, ConstantsAssumption DEF Replay, TypeInv, TypeOK, response, stored
<1>6. CASE Send
  <2> DEFINE age == EntryAge(header, entry, now + skew)
  <2>1. age \in 0 .. MaxDuration
    BY EntryAgeBounds DEF TypeInv, TypeOK
  <2>2. reply' = [step |-> "sent", at |-> now, age |-> age \div Second]
    BY <1>6 DEF Send
  <2> HIDE DEF age
  <2> DEFINE q == age \div Second
  <2>3. q \in Int /\ q * Second <= age /\ age < q * Second + Second /\ age \in Nat /\ age <= MaxDuration
    BY <1>1, <2>1, Division
  <2>4. reply' = [step |-> "sent", at |-> now, age |-> q]
    BY <2>2
  <2> HIDE DEF q
  <2>5. q >= 0
    BY <1>1, <2>3
  <2>6. q <= q * Second
    BY <1>1, <2>3, <2>5
  <2>7. q \in 0 .. MaxDuration
    BY <1>1, <2>3, <2>5, <2>6
  <2> QED BY <1>6, <2>4, <2>7 DEF Send, TypeInv, TypeOK, response, stored
<1>7. CASE UNCHANGED vars
  BY <1>7 DEF TypeInv, TypeOK, vars, response, stored, replayed
<1> QED BY <1>2, <1>3, <1>4, <1>5, <1>6, <1>7 DEF Next

\* Every header, duration and age is one, whatever is added to what.
THEOREM TypeCorrect == Spec => []TypeOK
<1>1. TypeInv => TypeOK
  BY DEF TypeInv
<1> QED BY <1>1, InitType, StepType, PTL DEF Spec

-----------------------------------------------------------------------------
(* The inductive invariant *)

SlackOf(moment, b, s, h) == moment + (IF b < s /\ ~HasDate(h) THEN Second - 1 ELSE 0)

\* The Date is not later than the birth.
Dated(h, b) == Len(h.date) > 0 /\ h.date[1] # Illegal => Date(h) <= b

\* An entry says of the response at least its age when it was made.
Aged(e, b, slack) == NonNegative(e.initialAge) >= Smaller(e.responseTime - b - slack, MaxDuration)

\* It was made by executeHandler.
Made(h, d, e) == e.responseTime > 0 /\ e.initialAge = HeaderAge(h, d, e.responseTime)

\* A TTL does not outlast what was left of the lifetime at the response time.
Lasting(h, d, e, duration, t) ==
  LET lifetime == DeclaredLifetime(h, e.responseTime) IN
  /\ t \in 1 .. duration
  /\ CacheableResponse(h)
  /\ lifetime.has => t + HeaderAge(h, d, e.responseTime) <= lifetime.value

\* What the replaying process's clock showed.
Clock(r, s) == r.at + s

\* A reply is what replayable and replayAge made it.
Replied(h, e, r, s) ==
  /\ r.step = "accepted" => Replayable(h, e, Clock(r, s))
  /\ r.step = "sent" => AgeKnown(h, e) /\ r.age = EntryAge(h, e, Clock(r, s)) \div Second

Inv ==
  /\ Dated(header, born)
  /\ entry.responseTime <= now
  /\ pc # "handler" /\ entry.responseTime > 0 => Aged(entry, born, SlackOf(pause, born, start, header))
  /\ pc = "made" \/ ttl > 0 => Made(header, delay, entry)
  /\ pc = "stored" /\ (expire > 0 \/ ttl > 0) => Lasting(header, delay, entry, expire, ttl)
  /\ reply.step # "none" => pc # "handler"
  /\ Replied(header, entry, reply, skew)

LEMMA InitInv ==
  ASSUME Init
  PROVE  Inv
<1>1. Second \in Nat \ {0} /\ MaxDuration \in Nat /\ now = Second /\ start = Second /\ pause = 0
  BY ConstantsAssumption DEF Init, Beginning
<1>2. Dated(header, born)
  <2>1. CASE header = Bare
    BY <2>1 DEF Dated, Bare
  <2>2. CASE born \in Births /\ header \in Headers(born, Beginning)
    <3>1. born \in Int /\ start \in Nat /\ Beginning \in Int
      BY <1>1, <2>2, ConstantsAssumption DEF Beginning
    <3> QED BY <2>2, <3>1, HeadersTell DEF Dated
  <2> QED BY <2>1, <2>2 DEF Init
<1>3. entry.responseTime <= now
  BY <1>1 DEF Init, Beginning
<1>4. ASSUME pc # "handler", entry.responseTime > 0
      PROVE  Aged(entry, born, SlackOf(pause, born, start, header))
  <2>1. born = Second /\ entry = [responseTime |-> Second, initialAge |-> 0 - Second]
    BY <1>1, <1>4 DEF Init, Beginning
  <2>2. SlackOf(pause, born, start, header) = 0
    BY <1>1, <2>1 DEF SlackOf
  <2> QED BY <1>1, <2>1, <2>2 DEF Aged, NonNegative, Larger, Smaller
<1>5. pc # "made" /\ ttl = 0 /\ expire = 0 /\ reply.step = "none"
  BY DEF Init, NoReply
<1> QED BY <1>2, <1>3, <1>4, <1>5 DEF Inv, Replied

LEMMA HandlerReturnsInv ==
  ASSUME TypeInv, Inv, HandlerReturns
  PROVE  Inv'
<1> DEFINE taken == Since(start, now)
<1>1. PICK moment \in 0 .. Smaller(MaxPause, MaxClock - now), birth \in Births \cup start .. now :
        \E h \in Headers(birth, now) :
          /\ pause' = moment /\ now' = now + moment /\ born' = birth /\ header' = h
          /\ delay' = taken
          /\ entry' = [responseTime |-> now + moment,
                       initialAge |-> Larger(HeaderAge(h, taken, now + moment), 0)]
  BY DEF HandlerReturns
<1>2. PICK h \in Headers(birth, now) :
          /\ pause' = moment /\ now' = now + moment /\ born' = birth /\ header' = h
          /\ delay' = taken
          /\ entry' = [responseTime |-> now + moment,
                       initialAge |-> Larger(HeaderAge(h, taken, now + moment), 0)]
  BY <1>1
<1>3. moment \in Nat /\ now \in Nat /\ start \in Nat /\ start <= now /\ entry.responseTime \in Nat
      /\ Second \in Nat \ {0} /\ MaxDuration \in Nat
  BY ConstantsAssumption DEF Smaller, TypeInv, TypeOK
<1>4. birth \in Int
  BY <1>3, ConstantsAssumption
<1>5. /\ h \in Header
      /\ Dated(h, birth)
      /\ birth < start /\ ~HasDate(h) =>
           \E sent \in start .. now :
             MaxAgeValue(h.age) >= Smaller(sent - birth - (Second - 1), MaxDuration)
  <2>1. start \in Nat /\ birth \in Int /\ now \in Int
    BY <1>3, <1>4
  <2>2. /\ h \in Header
        /\ Len(h.date) > 0 /\ h.date[1] # Illegal => Date(h) <= birth
        /\ birth < start /\ ~HasDate(h) =>
             \E sent \in start .. now :
               MaxAgeValue(h.age) >= Smaller(sent - birth - (Second - 1), MaxDuration)
    BY <2>1, HeadersTell
  <2> QED BY <2>2 DEF Dated
<1>6. taken \in 0 .. MaxDuration /\ taken >= Smaller(now - start, MaxDuration)
  BY <1>3 DEF Since, Minus, Larger, Smaller
<1> DEFINE t == now + moment
           age == HeaderAge(h, taken, t)
           e == [responseTime |-> t, initialAge |-> age]
           slack == SlackOf(moment, birth, start, h)
<1> HIDE DEF taken
<1>7. t \in Nat /\ now <= t
  BY <1>3
<1>8. /\ age \in 0 .. MaxDuration
      /\ age >= Smaller(MaxAgeValue(h.age) + taken, MaxDuration)
      /\ HasDate(h) => age >= Smaller(t - Date(h), MaxDuration)
  BY <1>5, <1>6, <1>7, HeaderAgeBounds
<1>9. entry' = e
  <2>1. Larger(age, 0) = age
    BY <1>3, <1>8 DEF Larger
  <2> QED BY <1>2, <2>1
<1>10. MaxAgeValue(h.age) \in 0 .. MaxDuration
  BY <1>5, MaxAgeBounds DEF Header
<1> HIDE DEF age
<1>11. Aged(e, birth, slack)
  <2>1. age >= Smaller(t - birth - slack, MaxDuration)
    <3>1. CASE HasDate(h)
      <4>1. Date(h) \in Int /\ Date(h) <= birth
        BY <1>5, <3>1, DateType DEF HasDate, Dated
      <4>2. slack = moment
        BY <1>3, <3>1 DEF SlackOf
      <4> QED BY <1>3, <1>4, <1>8, <3>1, <4>1, <4>2 DEF Smaller
    <3>2. CASE ~HasDate(h) /\ birth < start
      <4>1. PICK sent \in start .. now :
              MaxAgeValue(h.age) >= Smaller(sent - birth - (Second - 1), MaxDuration)
        BY <1>5, <3>2
      <4>2. slack = moment + (Second - 1)
        BY <3>2 DEF SlackOf
      <4> QED BY <1>3, <1>4, <1>6, <1>8, <1>10, <4>1, <4>2 DEF Smaller
    <3>3. CASE ~HasDate(h) /\ ~(birth < start)
      <4>1. slack = moment
        BY <1>3, <3>3 DEF SlackOf
      <4> QED BY <1>3, <1>4, <1>6, <1>8, <1>10, <3>3, <4>1 DEF Smaller
    <3> QED BY <3>1, <3>2, <3>3
  <2> HIDE DEF slack, t
  <2>2. NonNegative(e.initialAge) = age
    BY <1>3, <1>8 DEF NonNegative, Larger
  <2> QED BY <2>1, <2>2 DEF Aged
<1>12. Made(h, taken, e)
  <2>1. t > 0
    BY <1>3, <1>7 DEF TypeInv
  <2> QED BY <2>1 DEF Made, age
<1> HIDE DEF t, e, slack
<1>13. /\ pause' = moment /\ born' = birth /\ header' = h /\ delay' = taken
       /\ now' = t /\ entry' = e
  BY <1>2, <1>9 DEF t
<1>14. /\ pc = "handler" /\ pc' = "made"
       /\ start' = start /\ reply' = reply
  BY DEF HandlerReturns, stored, replayed
<1>15. reply.step = "none"
  BY <1>14 DEF Inv
<1>16. SlackOf(pause', born', start', header') = slack
  BY <1>13, <1>14 DEF slack
<1>17. Dated(header', born') /\ Aged(entry', born', SlackOf(pause', born', start', header'))
       /\ Made(header', delay', entry')
  BY <1>5, <1>11, <1>12, <1>13, <1>16
<1>18. entry'.responseTime <= now'
  BY <1>7, <1>13 DEF e
<1>19. Replied(header', entry', reply', skew')
  BY <1>14, <1>15 DEF Replied
<1> QED BY <1>14, <1>17, <1>18, <1>19 DEF Inv

LEMMA StoreInv ==
  ASSUME TypeInv, Inv, Store
  PROVE  Inv'
<1> DEFINE rest == ResponseFreshness(header, delay, now)
           rt == entry.responseTime
<1>1. header \in Header /\ delay \in 0 .. MaxDuration /\ now \in Int /\ rt \in Int /\ rt <= now
  BY DEF TypeInv, TypeOK, Inv
<1>2. /\ rest \in [has : BOOLEAN, value : Int]
      /\ rest.has = DeclaredLifetime(header, now).has
      /\ rest.value > 0 =>
           rest.has /\ rest.value = DeclaredLifetime(header, now).value - HeaderAge(header, delay, now)
  BY <1>1, FreshnessType
<1> HIDE DEF rest
<1>3. \/ /\ MayStore(header, rest) /\ pc' = "stored"
         /\ \E duration \in Expires : expire' = duration /\ ttl' = TTL(duration, rest)
      \/ pc' = "dropped" /\ UNCHANGED stored
  BY DEF Store, rest
<1>4. pc = "made" /\ UNCHANGED <<now, response, replayed>>
  BY DEF Store
<1>5. UNCHANGED <<now, start, born, pause, header, entry, delay, skew, reply>>
  BY <1>4 DEF response, replayed
<1>6. Made(header, delay, entry)
  BY <1>4 DEF Inv
<1>7. pc' # "handler"
  BY <1>3
<1>8. pc' = "stored" /\ (expire' > 0 \/ ttl' > 0) => Lasting(header, delay, entry, expire', ttl')
  <2>1. SUFFICES ASSUME MayStore(header, rest), NEW duration \in Expires,
                        expire' = duration, ttl' = TTL(duration, rest),
                        expire' > 0 \/ ttl' > 0
                 PROVE  Lasting(header, delay, entry, expire', ttl')
    BY <1>3
  <2>2. duration \in 0 .. MaxDuration /\ (rest.has => rest.value > 0) /\ CacheableResponse(header)
    BY <2>1, ConstantsAssumption DEF MayStore
  <2> DEFINE s == TTL(duration, rest)
             lifetime == DeclaredLifetime(header, rt)
             age == HeaderAge(header, delay, rt)
  <2>3. /\ s \in 0 .. duration /\ (duration > 0 => s > 0)
        /\ duration > 0 /\ rest.has => s <= rest.value
    BY <1>2, <2>2, TTLType
  <2>4. MaxDuration \in Nat
    BY ConstantsAssumption
  <2>5. duration > 0 \/ s > 0
    BY <2>1
  <2> HIDE DEF s
  <2>6. duration > 0 /\ s \in 1 .. duration
    BY <2>2, <2>3, <2>4, <2>5
  <2>7. ASSUME lifetime.has PROVE s + age <= lifetime.value
    <3> DEFINE later == DeclaredLifetime(header, now)
               laterAge == HeaderAge(header, delay, now)
    <3>1. lifetime.has = later.has /\ later.value <= lifetime.value
      BY <1>1, LifetimeShrinks
    <3>2. rest.has /\ rest.value = later.value - laterAge
      BY <1>2, <2>2, <2>7, <3>1
    <3>3. age \in Int /\ laterAge \in Int /\ age <= laterAge
      BY <1>1, <2>4, HeaderAgeGrows, HeaderAgeBounds
    <3>4. later.value \in Int /\ lifetime.value \in Int
      BY <1>1, LifetimeType
    <3>5. s <= rest.value
      BY <2>3, <2>6, <3>2
    <3> HIDE DEF later, laterAge, age, lifetime
    <3> QED BY <2>6, <3>1, <3>2, <3>3, <3>4, <3>5
  <2>8. Lasting(header, delay, entry, duration, s)
    BY <2>2, <2>6, <2>7 DEF Lasting
  <2> QED BY <2>1, <2>8 DEF s
<1>9. Dated(header, born) /\ entry.responseTime <= now /\ Replied(header, entry, reply, skew)
  BY DEF Inv
<1>10. entry.responseTime > 0 => Aged(entry, born, SlackOf(pause, born, start, header))
  BY <1>4 DEF Inv
<1>11. reply.step # "none" => pc' # "handler"
  BY <1>7
<1> QED BY <1>5, <1>6, <1>8, <1>9, <1>10, <1>11 DEF Inv

LEMMA ReplayInv ==
  ASSUME TypeInv, Inv, Replay
  PROVE  Inv'
<1>1. PICK s \in Skews :
        /\ skew' = s
        /\ reply' = [reply EXCEPT !.at = now,
                       !.step = IF Replayable(header, entry, now + s) THEN "accepted" ELSE "rejected"]
  BY DEF Replay
<1>2. pc # "handler" /\ UNCHANGED <<now, pc, start, born, pause, header, entry, delay, expire, ttl>>
  BY DEF Replay, response, stored
<1>3. /\ reply'.at = now
      /\ reply'.step = IF Replayable(header, entry, now + s) THEN "accepted" ELSE "rejected"
  BY <1>1 DEF TypeInv, TypeOK
<1>4. Replied(header, entry, reply', s)
  <2>1. Clock(reply', s) = now + s
    BY <1>3 DEF Clock
  <2> QED BY <1>3, <2>1 DEF Replied
<1> QED BY <1>1, <1>2, <1>4 DEF Inv

LEMMA SendInv ==
  ASSUME TypeInv, Inv, Send
  PROVE  Inv'
<1> DEFINE age == EntryAge(header, entry, now + skew) \div Second
<1>1. reply.step = "accepted" /\ reply' = [step |-> "sent", at |-> now, age |-> age]
  BY DEF Send
<1> HIDE DEF age
<1>2. UNCHANGED <<now, pc, start, born, pause, header, entry, delay, expire, ttl, skew>>
  BY DEF Send, response, stored
<1>3. AgeKnown(header, entry) /\ pc # "handler"
  BY <1>1 DEF Inv, Replied, Replayable
<1>4. Replied(header, entry, reply', skew)
  <2>1. reply'.step = "sent" /\ reply'.age = age /\ reply'.at = now
    BY <1>1
  <2>2. Clock(reply', skew) = now + skew
    BY <2>1 DEF Clock
  <2> QED BY <1>3, <2>1, <2>2 DEF Replied, age
<1> QED BY <1>2, <1>3, <1>4 DEF Inv

LEMMA StepInv ==
  ASSUME TypeInv, Inv, [Next]_vars
  PROVE  Inv'
<1>1. CASE Tick
  <2>1. UNCHANGED <<pc, start, born, pause, header, entry, delay, expire, ttl, skew, reply>>
    BY <1>1 DEF Tick, response, stored, replayed
  <2>2. entry.responseTime <= now'
    BY <1>1 DEF Tick, Inv, TypeInv, TypeOK
  <2> QED BY <2>1, <2>2 DEF Inv
<1>2. CASE UNCHANGED vars
  BY <1>2 DEF Inv, vars, response, stored, replayed
<1> QED BY <1>1, <1>2, HandlerReturnsInv, StoreInv, ReplayInv, SendInv DEF Next

LEMMA InvCorrect == Spec => [](TypeInv /\ Inv)
<1>1. TypeInv /\ Inv /\ [Next]_vars => TypeInv' /\ Inv'
  BY StepType, StepInv
<1> QED BY <1>1, InitType, InitInv, PTL DEF Spec

-----------------------------------------------------------------------------
(* The properties *)

\* The age an entry is given in a replay is not less than the response's.
LEMMA AgeBound ==
  ASSUME TypeInv, Inv, pc # "handler", AgeKnown(header, entry), NEW t \in Int
  PROVE  EntryAge(header, entry, t) >= Smaller(t - born - Slack, MaxDuration)
<1>1. /\ MaxDuration \in Nat /\ Second \in Nat \ {0}
      /\ header \in Header /\ born \in Int /\ pause \in Nat
      /\ entry \in [responseTime : Nat, initialAge : (0 - MaxDuration - 1) .. MaxDuration]
  BY ConstantsAssumption DEF TypeInv, TypeOK
<1>2. Slack \in Nat /\ Slack = SlackOf(pause, born, start, header)
  BY <1>1 DEF Slack, SlackOf
<1> DEFINE age == EntryAge(header, entry, t)
           rt == entry.responseTime
           before == NonNegative(entry.initialAge)
<1>3. /\ age \in 0 .. MaxDuration
      /\ rt > 0 => age >= Smaller(Larger(t - rt, 0) + before, MaxDuration)
      /\ Len(header.date) > 0 /\ header.date[1] # Illegal => age >= Smaller(t - Date(header), MaxDuration)
  BY <1>1, EntryAgeBounds
<1>4. rt \in Nat /\ before \in 0 .. MaxDuration
  BY <1>1 DEF NonNegative, Larger
<1>5. rt > 0 => before >= Smaller(rt - born - Slack, MaxDuration)
  BY <1>2 DEF Inv, Aged
<1> HIDE DEF age, rt, before
<1>6. CASE rt > 0
  <2>1. age >= Smaller(t - born - Slack, MaxDuration)
    BY <1>1, <1>2, <1>3, <1>4, <1>5, <1>6 DEF Larger, Smaller
  <2> QED BY <2>1 DEF age
<1>7. CASE ~(rt > 0)
  <2>1. Len(header.date) > 0 /\ header.date[1] # Illegal
    BY <1>7 DEF AgeKnown, rt
  <2>2. Date(header) \in Int /\ Date(header) <= born
    BY <1>1, <2>1, DateType DEF Inv, Dated
  <2>3. age >= Smaller(t - Date(header), MaxDuration)
    BY <1>3, <2>1
  <2>4. age >= Smaller(t - born - Slack, MaxDuration)
    BY <1>1, <1>2, <1>3, <2>2, <2>3 DEF Smaller
  <2> QED BY <2>4 DEF age
<1> QED BY <1>6, <1>7

\* The replaying process's clock is behind the storing one's by no more than Behind.
LEMMA ClockBehind ==
  ASSUME TypeInv
  PROVE  /\ reply.at \in Nat /\ Clock(reply, skew) \in Int /\ Behind \in Nat
         /\ Clock(reply, skew) >= reply.at - Behind
BY DEF TypeInv, TypeOK, Clock, Behind, Larger

\* Whatever overflows, no response is replayed that is older, by the origin's
\* account, than its headers let it become; not one of an earlier version either.
THEOREM ReplayedFresh == Spec => []ReplayedWhileFresh
<1>1. ASSUME TypeInv, Inv PROVE ReplayedWhileFresh
  <2>1. SUFFICES ASSUME reply.step = "accepted" PROVE FreshAt(reply.at, Slack + Behind)
    BY DEF ReplayedWhileFresh
  <2> DEFINE t == Clock(reply, skew)
             rt == entry.responseTime
             receivedAt == ReceivedAt(entry, t)
             lifetime == DeclaredLifetime(header, receivedAt)
             age == EntryAge(header, entry, t)
             at == reply.at
             slack == Slack + Behind
  <2>2. Replayable(header, entry, t) /\ pc # "handler"
    BY <1>1, <2>1 DEF Inv, Replied
  <2>3. AgeKnown(header, entry) /\ (lifetime.has => lifetime.value > age)
    BY <2>2 DEF Replayable
  <2>4. at \in Nat /\ t \in Int /\ Behind \in Nat /\ t >= at - Behind
    BY <1>1, ClockBehind
  <2>5. /\ MaxDuration \in Nat /\ Second \in Nat \ {0}
        /\ header \in Header /\ born \in Int /\ pause \in Nat /\ rt \in Nat
        /\ entry \in [responseTime : Nat, initialAge : (0 - MaxDuration - 1) .. MaxDuration]
    BY <1>1, ConstantsAssumption DEF TypeInv, TypeOK
  <2>6. Slack \in Nat
    BY <2>5 DEF Slack
  <2>7. receivedAt = (IF rt > 0 THEN rt ELSE t) /\ receivedAt \in Int
    BY <2>4, <2>5 DEF ReceivedAt
  <2>8. /\ age \in 0 .. MaxDuration
        /\ rt > 0 => age >= Smaller(t - rt, MaxDuration)
    BY <2>4, <2>5, EntryAgeBounds
  <2>9. age >= Smaller(t - born - Slack, MaxDuration)
    BY <1>1, <2>2, <2>3, <2>4, AgeBound
  <2>10. lifetime.value \in Int /\ lifetime.value <= MaxDuration
    BY <2>5, <2>7, LifetimeType
  <2> HIDE DEF t, rt, receivedAt, lifetime, age, at
  <2>11. ASSUME lifetime.has
         PROVE  /\ age < lifetime.value
                /\ at - born - slack <= age
                /\ at - slack <= receivedAt + age
    <3>1. age < lifetime.value /\ age < MaxDuration
      BY <2>3, <2>5, <2>8, <2>10, <2>11
    <3>2. t - born - Slack <= age
      BY <2>4, <2>5, <2>6, <2>8, <2>9, <3>1 DEF Smaller
    <3>3. t <= receivedAt + age
      BY <2>4, <2>5, <2>7, <2>8, <3>1 DEF Smaller
    <3>4. at - born - slack <= age
      BY <2>4, <2>5, <2>6, <2>8, <3>2
    <3>5. at - slack <= receivedAt + age
      BY <2>4, <2>6, <2>7, <2>8, <3>3
    <3> QED BY <3>1, <3>4, <3>5
  <2>12. at \in Int /\ slack \in Int /\ age \in Nat
    BY <2>4, <2>5, <2>6, <2>8
  <2> HIDE DEF slack
  <2>13. FreshAt(at, slack)
    BY <2>5, <2>7, <2>11, <2>12, FreshByLifetime DEF lifetime
  <2> QED BY <2>13 DEF at, slack
<1> QED BY <1>1, InvCorrect, PTL

\* A client is never told less than the response's age, which does not wrap
\* around: the Age header is the full seconds of it, or of the longest duration.
THEOREM AgeTold == Spec => []AgeNotUnderstated
<1>1. ASSUME TypeInv, Inv PROVE AgeNotUnderstated
  <2> DEFINE t == Clock(reply, skew)
             age == EntryAge(header, entry, t)
             least == Smaller(reply.at - born - Slack - Behind, MaxDuration)
  <2>1. SUFFICES ASSUME reply.step = "sent" PROVE reply.age >= least \div Second
    BY DEF AgeNotUnderstated
  <2>2. AgeKnown(header, entry) /\ reply.age = age \div Second /\ pc # "handler"
    BY <1>1, <2>1 DEF Inv, Replied
  <2>3. reply.at \in Nat /\ t \in Int /\ Behind \in Nat /\ t >= reply.at - Behind
    BY <1>1, ClockBehind
  <2>4. /\ MaxDuration \in Nat /\ Second \in Nat \ {0}
        /\ header \in Header /\ born \in Int /\ pause \in Nat
        /\ entry \in [responseTime : Nat, initialAge : (0 - MaxDuration - 1) .. MaxDuration]
    BY <1>1, ConstantsAssumption DEF TypeInv, TypeOK
  <2>5. Slack \in Nat
    BY <2>4 DEF Slack
  <2>6. age \in 0 .. MaxDuration
    BY <2>3, <2>4, EntryAgeBounds
  <2>7. age >= Smaller(t - born - Slack, MaxDuration)
    BY <1>1, <2>2, <2>3, AgeBound
  <2> HIDE DEF t, age
  <2>8. least \in Int /\ least <= age
    BY <2>3, <2>4, <2>5, <2>6, <2>7 DEF Smaller
  <2>9. age \in Int
    BY <2>4, <2>6
  <2> HIDE DEF least
  <2>10. least \div Second <= age \div Second
    BY <2>4, <2>8, <2>9, DivisionMonotonic
  <2>11. least \div Second \in Int /\ age \div Second \in Int
    BY <2>4, <2>8, <2>9
  <2> QED BY <2>2, <2>10, <2>11
<1> QED BY <1>1, InvCorrect, PTL

\* What is stored has a TTL, when one is configured, and within it stays as
\* fresh as every header of the response demands.
THEOREM TTLIsWithinLifetime == Spec => []TTLWithinLifetime
<1>1. ASSUME TypeInv, Inv PROVE TTLWithinLifetime
  <2> DEFINE rt == entry.responseTime
             age == HeaderAge(header, delay, rt)
             lifetime == DeclaredLifetime(header, rt)
  <2>1. SUFFICES ASSUME pc = "stored", expire > 0
                 PROVE  ttl \in 1 .. expire /\ FreshAt(rt + ttl - 1, Slack)
    BY DEF TTLWithinLifetime
  <2>2. /\ MaxDuration \in Nat /\ Second \in Nat \ {0}
        /\ header \in Header /\ born \in Int /\ pause \in Nat /\ rt \in Nat
        /\ delay \in 0 .. MaxDuration
    BY <1>1, ConstantsAssumption DEF TypeInv, TypeOK
  <2>3. ttl \in 1 .. expire /\ expire \in Nat /\ (lifetime.has => ttl + age <= lifetime.value)
    BY <1>1, <2>1 DEF Inv, Lasting, TypeInv, TypeOK
  <2>4. rt > 0 /\ entry.initialAge = age
    <3>1. ttl > 0
      BY <2>3
    <3> QED BY <1>1, <3>1 DEF Inv, Made
  <2>5. age \in 0 .. MaxDuration
    <3>1. rt \in Int
      BY <2>2
    <3> QED BY <2>2, <3>1, HeaderAgeBounds
  <2>6. lifetime.value \in Int /\ lifetime.value <= MaxDuration
    BY <2>2, LifetimeType
  <2>7. Slack \in Nat /\ Slack = SlackOf(pause, born, start, header)
    BY <2>2 DEF Slack, SlackOf
  <2> HIDE DEF age, lifetime, rt
  <2>8. age >= Smaller(rt - born - Slack, MaxDuration)
    <3>1. NonNegative(entry.initialAge) = age
      BY <2>2, <2>4, <2>5 DEF NonNegative, Larger
    <3>2. Aged(entry, born, Slack)
      BY <1>1, <2>1, <2>4, <2>7 DEF Inv, rt
    <3> QED BY <3>1, <3>2 DEF Aged, rt
  <2> DEFINE rest == ttl - 1 + age
             t == rt + ttl - 1
  <2>9. rest \in Nat /\ t \in Int
    BY <2>2, <2>3, <2>5
  <2>10. ASSUME lifetime.has
         PROVE  rest < lifetime.value /\ t - born - Slack <= rest /\ t - Slack <= rt + rest
    <3>1. ttl + age <= lifetime.value /\ age < MaxDuration
      BY <2>2, <2>3, <2>5, <2>6, <2>10
    <3>2. rt - born - Slack <= age
      BY <2>2, <2>5, <2>7, <2>8, <3>1 DEF Smaller
    <3> QED BY <2>2, <2>3, <2>5, <2>6, <2>7, <3>1, <3>2
  <2>11. rt \in Int /\ Slack \in Int
    BY <2>2, <2>7
  <2> HIDE DEF rest, t
  <2>12. FreshAt(t, Slack)
    BY <2>2, <2>9, <2>10, <2>11, FreshByLifetime DEF lifetime
  <2> QED BY <2>3, <2>12 DEF t
<1> QED BY <1>1, InvCorrect, PTL

\* An entry is replayed as long as its TTL runs: what was subtracted from the
\* lifetime for the TTL is not subtracted again.
THEOREM EntryLasts == Spec => []LastsItsTTL
<1>1. ASSUME TypeInv, Inv PROVE LastsItsTTL
  <2> DEFINE rt == entry.responseTime
             age == HeaderAge(header, delay, rt)
             lifetime == DeclaredLifetime(header, rt)
  <2>1. SUFFICES ASSUME pc = "stored", Len(header.date) < 2, now < rt + ttl
                 PROVE  Replayable(header, entry, now)
    BY DEF LastsItsTTL
  <2>2. /\ MaxDuration \in Nat /\ ttl \in Nat /\ now \in Nat
        /\ header \in Header /\ rt \in Nat /\ delay \in 0 .. MaxDuration
        /\ entry \in [responseTime : Nat, initialAge : (0 - MaxDuration - 1) .. MaxDuration]
    BY <1>1, ConstantsAssumption DEF TypeInv, TypeOK
  <2>3. rt <= now
    BY <1>1 DEF Inv
  <2>4. ttl > 0
    BY <2>1, <2>2, <2>3
  <2>5. Made(header, delay, entry) /\ Lasting(header, delay, entry, expire, ttl)
    BY <1>1, <2>1, <2>4 DEF Inv
  <2>6. rt > 0 /\ entry.initialAge = age
    BY <2>5 DEF Made
  <2>7. CacheableResponse(header) /\ (lifetime.has => ttl + age <= lifetime.value)
    BY <2>5 DEF Lasting
  <2>8. /\ age \in 0 .. MaxDuration
        /\ HasDate(header) => age >= Smaller(rt - Date(header), MaxDuration)
    <3>1. rt \in Int
      BY <2>2
    <3> QED BY <2>2, <3>1, HeaderAgeBounds
  <2>9. lifetime.value \in Int /\ lifetime.value <= MaxDuration
    BY <2>2, LifetimeType
  <2>10. ReceivedAt(entry, now) = rt /\ AgeKnown(header, entry)
    BY <2>6 DEF ReceivedAt, AgeKnown
  <2>11. Len(header.date) > 0 /\ header.date[1] # Illegal => HasDate(header)
    <3> DEFINE n == Len(header.date)
    <3>1. n \in Nat /\ n < 2
      BY <2>1, <2>2 DEF Header
    <3> HIDE DEF n
    <3>2. n > 0 => n = 1
      BY <3>1
    <3> QED BY <3>2 DEF n, HasDate
  <2>12. HasDate(header) => Date(header) \in Int
    BY <2>2, DateType DEF HasDate
  <2> HIDE DEF age, lifetime
  <2>13. ASSUME lifetime.has PROVE lifetime.value > EntryAge(header, entry, now)
    <3> DEFINE rest == (now - rt) + age
    <3>1. rest \in Int /\ rest < lifetime.value /\ age < MaxDuration
      BY <2>1, <2>2, <2>4, <2>7, <2>8, <2>9, <2>13
    <3>2. Larger(now - rt, 0) + NonNegative(entry.initialAge) <= rest
      <4>1. NonNegative(entry.initialAge) = age
        BY <2>2, <2>6, <2>8 DEF NonNegative, Larger
      <4>2. Larger(now - rt, 0) = now - rt
        BY <2>2, <2>3 DEF Larger
      <4> QED BY <2>2, <2>8, <4>1, <4>2
    <3>3. Len(header.date) > 0 /\ header.date[1] # Illegal => now - Date(header) <= rest
      <4>1. HasDate(header) => now - Date(header) <= rest
        BY <2>2, <2>8, <2>12, <3>1 DEF Smaller
      <4> QED BY <2>11, <4>1
    <3> HIDE DEF rest
    <3>4. EntryAge(header, entry, now) <= rest
      <4>1. now \in Int
        BY <2>2
      <4> QED BY <2>2, <2>6, <3>1, <3>2, <3>3, <4>1, EntryAgeBounds
    <3>5. EntryAge(header, entry, now) \in 0 .. MaxDuration
      BY <2>2, EntryAgeBounds
    <3> QED BY <2>2, <2>9, <3>1, <3>4, <3>5
  <2> QED BY <2>7, <2>10, <2>13 DEF Replayable, lifetime
<1> QED BY <1>1, InvCorrect, PTL

\* The values of a directive determine its lifetime.
LEMMA MeansUnique ==
  ASSUME NEW values, NEW one, NEW other, Means(values, one), Means(values, other)
  PROVE  one = other
<1>1. CASE values = {} \/ ~Agree(values)
  BY <1>1 DEF Means
<1>2. CASE values # {} /\ Agree(values)
  <2>1. PICK v \in values : TRUE
    BY <1>2
  <2> QED BY <1>2, <2>1 DEF Means
<1> QED BY <1>1, <1>2

\* A sequence and the one that begins with its n-th element have the same elements.
LEMMA Turning ==
  ASSUME NEW T, NEW s \in Seq(T), NEW n \in DOMAIN s
  PROVE  LET turned == SubSeq(s, n, Len(s)) \o SubSeq(s, 1, n - 1) IN
         /\ turned \in Seq(T)
         /\ \A i \in DOMAIN s : \E j \in DOMAIN turned : turned[j] = s[i]
         /\ \A j \in DOMAIN turned : \E i \in DOMAIN s : turned[j] = s[i]
<1> DEFINE N == Len(s)
           back == SubSeq(s, n, N)
           front == SubSeq(s, 1, n - 1)
           turned == back \o front
           k == N - n + 1
<1>1. N \in Nat /\ DOMAIN s = 1 .. N /\ n \in 1 .. N
  OBVIOUS
<1> HIDE DEF N
<1>2. k \in Nat /\ n - 1 \in Nat /\ k + (n - 1) = N
  BY <1>1
<1>3. back \in Seq(T) /\ Len(back) = k /\ \A i \in 1 .. k : back[i] = s[n + i - 1]
  BY <1>1, SubSeqProperties DEF N
<1>4. front \in Seq(T) /\ Len(front) = n - 1 /\ \A i \in 1 .. n - 1 : front[i] = s[i]
  BY <1>1, SubSeqProperties DEF N
<1> HIDE DEF back, front
<1>5. /\ turned \in Seq(T) /\ Len(turned) = N
      /\ \A i \in 1 .. N : turned[i] = IF i <= k THEN back[i] ELSE front[i - k]
  <2>1. /\ turned \in Seq(T) /\ Len(turned) = Len(back) + Len(front)
        /\ \A i \in 1 .. Len(back) + Len(front) :
             turned[i] = IF i <= Len(back) THEN back[i] ELSE front[i - Len(back)]
    BY <1>3, <1>4, ConcatProperties
  <2>2. Len(back) + Len(front) = N
    BY <1>2, <1>3, <1>4
  <2> HIDE DEF turned, k
  <2> QED BY <1>3, <2>1, <2>2
<1>6. DOMAIN turned = 1 .. N
  BY <1>5
<1> HIDE DEF turned
<1>7. ASSUME NEW i \in 1 .. N PROVE \E j \in 1 .. N : turned[j] = s[i]
  <2>1. CASE i >= n
    <3>1. i - n + 1 \in 1 .. k /\ i - n + 1 \in 1 .. N /\ n + (i - n + 1) - 1 = i /\ i - n + 1 <= k
      BY <1>1, <2>1
    <3>2. turned[i - n + 1] = s[i]
      BY <1>3, <1>5, <3>1
    <3> QED BY <3>1, <3>2
  <2>2. CASE i < n
    <3>1. i + k \in 1 .. N /\ ~(i + k <= k) /\ (i + k) - k = i /\ i \in 1 .. n - 1
      BY <1>1, <2>2
    <3>2. turned[i + k] = s[i]
      BY <1>4, <1>5, <3>1
    <3> QED BY <3>1, <3>2
  <2> QED BY <1>1, <2>1, <2>2
<1>8. ASSUME NEW j \in 1 .. N PROVE \E i \in 1 .. N : turned[j] = s[i]
  <2>1. CASE j <= k
    <3>1. j \in 1 .. k /\ n + j - 1 \in 1 .. N
      BY <1>1, <2>1
    <3> QED BY <1>3, <1>5, <2>1, <3>1
  <2>2. CASE ~(j <= k)
    <3>1. j - k \in 1 .. n - 1 /\ j - k \in 1 .. N
      BY <1>1, <2>2
    <3> QED BY <1>4, <1>5, <2>2, <3>1
  <2> QED BY <2>1, <2>2
<1>9. turned = SubSeq(s, n, Len(s)) \o SubSeq(s, 1, n - 1)
  BY DEF turned, back, front, N
<1> DEFINE Turned(other) ==
             /\ other \in Seq(T)
             /\ \A i \in DOMAIN s : \E j \in DOMAIN other : other[j] = s[i]
             /\ \A j \in DOMAIN other : \E i \in DOMAIN s : other[j] = s[i]
<1>10. Turned(turned)
  BY <1>1, <1>5, <1>6, <1>7, <1>8
<1> QED BY <1>9, <1>10

\* What two Cache-Control headers with the same values declare.
LEMMA SameLifetime ==
  ASSUME NEW one \in ControlHeader, NEW other \in ControlHeader,
         \A name : Values(one, name) = Values(other, name)
  PROVE  CacheControl(one) = CacheControl(other)
<1>1. ASSUME NEW name PROVE Directive(one, name) = Directive(other, name)
  <2>1. Means(Values(one, name), Directive(one, name)) /\ Means(Values(other, name), Directive(other, name))
    BY DirectiveMeans
  <2> QED BY <2>1, MeansUnique
<1> QED BY <1>1 DEF CacheControl

\* A server may send its directives and field lines in any order.
THEOREM OrderImmaterial == Spec => []OrderIsImmaterial
<1>1. ASSUME TypeInv PROVE OrderIsImmaterial
  <2> DEFINE control == header.control
  <2>1. control \in ControlHeader
    BY <1>1 DEF TypeInv, TypeOK, Header, ControlHeader
  <2> SUFFICES ASSUME NEW n \in DOMAIN control
               PROVE  CacheControl(SubSeq(control, n, Len(control)) \o SubSeq(control, 1, n - 1))
                        = CacheControl(control)
    BY DEF OrderIsImmaterial
  <2> DEFINE turned == SubSeq(control, n, Len(control)) \o SubSeq(control, 1, n - 1)
  <2>2. /\ turned \in ControlHeader
        /\ \A i \in DOMAIN control : \E j \in DOMAIN turned : turned[j] = control[i]
        /\ \A j \in DOMAIN turned : \E i \in DOMAIN control : turned[j] = control[i]
    BY <2>1, Turning DEF ControlHeader
  <2> HIDE DEF turned, control
  <2>3. ASSUME NEW name PROVE Values(turned, name) = Values(control, name)
    BY <2>2 DEF Values
  <2>4. CacheControl(turned) = CacheControl(control)
    BY <2>1, <2>2, <2>3, SameLifetime
  <2> QED BY <2>4 DEF turned, control
<1> QED BY <1>1, InvCorrect, PTL
=============================================================================
