---------------------------- MODULE LimiterProofs ----------------------------
(***************************************************************************)
(* What one node's limiter keeps for any keys, limits, demand, cluster     *)
(* sizes and orders of its maps: the caps of its configuration, the bound  *)
(* on a key's debt, the attempts no tick has measured, a hot set that does *)
(* not flap, and the history of a key through changes of share and drops.  *)
(***************************************************************************)
EXTENDS Limiter, FiniteSetTheorems, WellFoundedInduction, TLAPS

----------------------------------------------------------------------------
\* Numbers.

\* A set of numbers has a least one.
LEMMA LeastOf ==
    ASSUME NEW T, T \subseteq Nat, T # {}
    PROVE  \E x \in T : \A y \in T : x <= y
  <1> DEFINE less == OpToRel(<, Nat)
  <1>1. IsWellFoundedOn(less, Nat)
    BY NatLessThanWellFounded
  <1>2. \A x, y \in Nat : y < x => <<y, x>> \in less
    BY DEF OpToRel
  <1> HIDE DEF less
  <1>3. PICK x \in T : \A y \in T : ~(<<y, x>> \in less)
    BY <1>1, WFMin
  <1>4. \A y \in T : x \in Nat /\ y \in Nat /\ ~(y < x)
    BY <1>2, <1>3
  <1>5. \A y \in T : x <= y
    BY <1>4
  <1> QED
    BY <1>5

\* Induction over numbers, on a set instead of a predicate.
LEMMA OneByOne ==
    ASSUME NEW S, 0 \in S, \A n \in Nat : n \in S => n + 1 \in S
    PROVE  Nat \subseteq S
  <1>1. SUFFICES ASSUME Nat \ S # {} PROVE FALSE
    OBVIOUS
  <1>2. PICK x \in Nat \ S : \A y \in Nat \ S : x <= y
    BY <1>1, LeastOf
  <1>3. x # 0 /\ x - 1 \in Nat /\ x - 1 + 1 = x
    BY <1>2
  <1>4. x - 1 \in S
    BY <1>2, <1>3
  <1> QED
    BY <1>2, <1>3, <1>4

\* A bounded set of numbers has a greatest one, which is what Max returns.
LEMMA MaxIs ==
    ASSUME NEW S, S \subseteq Nat, S # {}, NEW n \in Nat, \A s \in S : s <= n
    PROVE  Max(S) \in S /\ \A s \in S : s <= Max(S)
  <1> DEFINE T == {k \in Nat : \E s \in S : k = n - s}
  <1>1. T # {} /\ T \subseteq Nat
    <2>1. PICK s \in S : TRUE
      OBVIOUS
    <2>2. n - s \in T
      BY <2>1
    <2> QED
      BY <2>2
  <1>2. PICK k \in T : \A j \in T : k <= j
    BY <1>1, LeastOf
  <1>3. PICK m \in S : k = n - m
    BY <1>2
  <1>4. \A s \in S : s <= m
    <2> SUFFICES ASSUME NEW s \in S PROVE s <= m
      OBVIOUS
    <2>1. n - s \in T /\ n - s \in Nat /\ s \in Nat /\ m \in Nat
      OBVIOUS
    <2>2. n - m <= n - s
      BY <1>2, <1>3, <2>1
    <2> QED
      BY <2>1, <2>2
  <1>5. \E x \in S : \A y \in S : x >= y
    BY <1>4
  <1>6. Max(S) \in S /\ \A y \in S : Max(S) >= y
    BY <1>5 DEF Max
  <1> QED
    BY <1>6

\* Division of numbers.
LEMMA Division ==
    ASSUME NEW a \in Nat, NEW d \in Nat \ {0}
    PROVE  /\ a \div d \in Nat
           /\ \A n \in Nat : a < d * (n + 1) => a \div d <= n
           /\ \A n \in Nat : d * n <= a => n <= a \div d
  <1>1. a \div d \in Nat
    OBVIOUS
  <1> DEFINE x == a \div d
  <1>2. d * x <= a /\ a < d * (x + 1)
    OBVIOUS
  <1> HIDE DEF x
  <1>3. x \in Nat
    BY <1>1 DEF x
  <1>4. ASSUME NEW n \in Nat, a < d * (n + 1) PROVE x <= n
    <2>1. CASE x >= n + 1
      <3>1. d * (n + 1) <= d * x
        BY <1>3, <2>1
      <3> QED
        BY <1>2, <1>3, <1>4, <3>1
    <2> QED
      BY <1>3, <2>1
  <1>5. ASSUME NEW n \in Nat, d * n <= a PROVE n <= x
    <2>1. CASE n >= x + 1
      <3>1. d * (x + 1) <= d * n
        BY <1>3, <2>1
      <3> QED
        BY <1>2, <1>3, <1>5, <3>1
    <2> QED
      BY <1>3, <2>1
  <1> QED
    BY <1>1, <1>4, <1>5 DEF x

\* A product grows with its factors.
LEMMA Products ==
    ASSUME NEW a \in Nat, NEW b \in Nat, NEW c \in Nat, a <= b
    PROVE  a * c <= b * c /\ a * c \in Nat /\ b * c \in Nat
  OBVIOUS

\* The finest unit that holds an interval exists, and rounds it to one.
LEMMA EncodeType ==
    ASSUME NEW interval \in Nat \ {0}, interval <= MaxInterval
    PROVE  LET e == EncodeInterval(interval) IN
           e.unit \in DOMAIN Units /\ e.value \in Nat \ {0}
  <1> DEFINE n == Len(Units)
             fits(u) == DivCeil(interval, Units[u]) < IntervalLimit
             F == {u \in 1 .. n : fits(u)}
  <1>1. /\ n \in Nat \ {0} /\ DOMAIN Units = 1 .. n
        /\ \A u \in 1 .. n : Units[u] \in Nat \ {0}
        /\ IntervalLimit \in Nat \ {0, 1}
    BY UnitsAssumption
  <1>2. \A u \in 1 .. n : DivCeil(interval, Units[u]) \in Nat \ {0}
    <2> SUFFICES ASSUME NEW u \in 1 .. n PROVE DivCeil(interval, Units[u]) \in Nat \ {0}
      OBVIOUS
    <2>1. Units[u] \in Nat \ {0} /\ interval + Units[u] - 1 \in Nat
      BY <1>1
    <2>2. Units[u] * 1 <= interval + Units[u] - 1
      BY <1>1
    <2> QED
      BY <2>1, <2>2, Division, SMTT(40) DEF DivCeil
  <1>3. fits(n)
    <2> DEFINE m == Units[n]
               l == IntervalLimit
    <2>1. m \in Nat \ {0} /\ l \in Nat \ {0, 1} /\ interval <= (l - 1) * m
      BY <1>1 DEF MaxInterval
    <2> HIDE DEF m, l
    <2>2. l - 2 \in Nat /\ (l - 1) * m + m = l * m /\ m * ((l - 1) + 1) = l * m
      BY <2>1
    <2>3. interval + m - 1 < m * ((l - 1) + 1) /\ interval + m - 1 \in Nat /\ l - 1 \in Nat
      BY <2>1, <2>2
    <2>4. (interval + m - 1) \div m <= l - 1
      BY <2>1, <2>3, Division
    <2>5. (interval + m - 1) \div m < l
      BY <2>1, <2>3, <2>4, Division
    <2> QED
      BY <2>5 DEF DivCeil, m, l
  <1> HIDE DEF fits
  <1>4. F \subseteq Nat /\ F # {}
    BY <1>1, <1>3
  <1>5. PICK least \in F : \A v \in F : least <= v
    BY <1>4, LeastOf
  <1>6. least \in DOMAIN Units /\ fits(least) /\ \A v \in 1 .. least - 1 : ~fits(v)
    BY <1>1, <1>5
  <1> DEFINE unit == CHOOSE u \in DOMAIN Units : fits(u) /\ \A v \in 1 .. u - 1 : ~fits(v)
  <1>7. unit \in DOMAIN Units
    BY <1>6
  <1>8. EncodeInterval(interval) = [value |-> DivCeil(interval, Units[unit]), unit |-> unit]
    BY DEF EncodeInterval, fits
  <1> HIDE DEF unit
  <1> QED
    BY <1>1, <1>2, <1>7, <1>8

\* A quota made of a rate is one: its interval is not zero, its burst is kept.
LEMMA PerSecondType ==
    ASSUME NEW rate \in Nat, NEW burst
    PROVE  LET q == PerSecond(rate, burst) IN
           /\ q = [interval |-> q.interval, burst |-> burst]
           /\ q.interval \in Nat \ {0}
  <1> DEFINE asked == IF rate = 0 THEN MaxInterval ELSE DivCeil(OneSec, rate)
             held == AtMost(AtLeast(asked, 1), MaxInterval)
             e == EncodeInterval(held)
  <1>1. MaxInterval \in Nat \ {0}
    <2>1. Units[Len(Units)] \in Nat \ {0} /\ IntervalLimit - 1 \in Nat \ {0}
      BY UnitsAssumption
    <2>2. \A a, b \in Nat \ {0} : a * b \in Nat \ {0}
      OBVIOUS
    <2> QED
      BY <2>1, <2>2 DEF MaxInterval
  <1>2. asked \in Nat
    <2>1. CASE rate # 0
      <3>1. OneSec + rate - 1 \in Nat /\ rate \in Nat \ {0}
        BY <2>1, UnitsAssumption
      <3> QED
        BY <2>1, <3>1, Division DEF DivCeil
    <2> QED
      BY <1>1, <2>1
  <1> HIDE DEF asked
  <1>3. held \in Nat \ {0} /\ held <= MaxInterval
    BY <1>1, <1>2 DEF AtMost, AtLeast
  <1>4. PerSecond(rate, burst) = [interval |-> e.value * Units[e.unit], burst |-> burst]
    BY DEF PerSecond, WithInterval, asked
  <1> HIDE DEF held
  <1>5. e.unit \in DOMAIN Units /\ e.value \in Nat \ {0}
    BY <1>3, EncodeType
  <1>6. Units[e.unit] \in Nat \ {0}
    BY <1>5, UnitsAssumption
  <1>7. e.value * Units[e.unit] \in Nat \ {0}
    <2>1. \A a, b \in Nat \ {0} : a * b \in Nat \ {0}
      OBVIOUS
    <2> QED
      BY <1>5, <1>6, <2>1
  <1> HIDE DEF e
  <1> QED
    BY <1>4, <1>7

\* A finite set of numbers has a bound: by induction over its size.
LEMMA Bounded ==
    ASSUME NEW S, S \subseteq Nat, IsFiniteSet(S)
    PROVE  \E n \in Nat : \A s \in S : s <= n
  <1> DEFINE Good == {k \in Nat : \A T \in SUBSET S :
                        Cardinality(T) = k => \E n \in Nat : \A s \in T : s <= n}
  <1>1. \A T \in SUBSET S : IsFiniteSet(T) /\ Cardinality(T) \in Nat
    BY FS_Subset, FS_CardinalityType
  <1>2. 0 \in Good
    <2>1. \A T \in SUBSET S : Cardinality(T) = 0 => T = {}
      BY <1>1, FS_EmptySet
    <2> QED
      BY <2>1
  <1>3. ASSUME NEW k \in Nat, k \in Good PROVE k + 1 \in Good
    <2>0. k + 1 \in Nat
      OBVIOUS
    <2> SUFFICES ASSUME NEW T \in SUBSET S, Cardinality(T) = k + 1
                 PROVE  \E n \in Nat : \A s \in T : s <= n
      BY <2>0, Zenon
    <2>1. IsFiniteSet(T) /\ T # {}
      BY <1>1, FS_EmptySet
    <2>2. PICK x \in T : TRUE
      BY <2>1
    <2> DEFINE U == T \ {x}
    <2>3. Cardinality(U) = Cardinality(T) - 1
      BY <2>1, <2>2, FS_RemoveElement
    <2>4. U \in SUBSET S /\ Cardinality(U) = k
      BY <2>3
    <2>5. PICK n \in Nat : \A s \in U : s <= n
      BY <1>3, <2>4
    <2>6. x \in Nat /\ n + x \in Nat /\ \A s \in T : s \in Nat /\ (s = x \/ s \in U)
      BY <2>2
    <2>7. \A s \in T : s <= n + x
      BY <2>5, <2>6
    <2> QED
      BY <2>6, <2>7
  <1> HIDE DEF Good
  <1>4. Cardinality(S) \in Good
    BY <1>1, <1>2, <1>3, OneByOne
  <1> QED
    BY <1>4 DEF Good

----------------------------------------------------------------------------
\* What is computed of a limit, and of a key's state.

\* The rates a key may be given are rates.
LEMMA RatesType ==
    ASSUME NEW limit \in Limits, NEW n \in Sizes, NEW c \in {NoCap} \cup Sizes, NEW rate \in Nat
    PROVE  /\ ColdRate(limit, n) \in Nat /\ Floor(limit, n) \in Nat
           /\ Capped(rate, limit, c) \in Nat
  <1>1. limit.rate \in Nat /\ n \in Nat \ {0}
    BY LimitsAssumption, LimiterAssumption
  <1>p. \A a, b \in Nat \ {0} : a * b \in Nat \ {0}
    OBVIOUS
  <1>2. n * Alpha \in Nat \ {0} /\ Beta * n \in Nat \ {0}
    BY <1>1, <1>p, LimiterAssumption
  <1>3. c # NoCap => Beta * c \in Nat \ {0}
    BY <1>p, LimiterAssumption
  <1> QED
    BY <1>1, <1>2, <1>3, Division DEF ColdRate, Floor, Capped, AtMost

\* A quota for one of the limits.
LEMMA QuotaType ==
    ASSUME NEW rate \in Nat, NEW limit \in Limits
    PROVE  PerSecond(rate, limit.burst) \in Quotas
  BY PerSecondType DEF Quotas

\* No limit has a larger burst than the largest.
LEMMA LargestIs ==
    ASSUME Limits # {}
    PROVE  LargestBurst \in Nat \ {0} /\ \A l \in Limits : l.burst <= LargestBurst
  <1> DEFINE B == {l.burst : l \in Limits}
  <1>1. B \subseteq Nat \ {0} /\ B # {} /\ B \subseteq Nat
    BY LimitsAssumption
  <1>2. IsFiniteSet(B)
    <2> DEFINE f == [l \in Limits |-> l.burst]
    <2>1. f \in Surjection(Limits, B)
      BY DEF Surjection
    <2> QED
      BY <2>1, LimitsAssumption, FS_Surjection
  <1>3. PICK n \in Nat : \A b \in B : b <= n
    BY <1>1, <1>2, Bounded
  <1>4. Max(B) \in B /\ \A b \in B : b <= Max(B)
    BY <1>1, <1>3, MaxIs
  <1>5. LargestBurst = Max(B)
    BY DEF LargestBurst
  <1> QED
    BY <1>1, <1>4, <1>5

\* No key's quota has a larger burst than the largest.
LEMMA QuotaIs ==
    ASSUME NEW q \in Quotas
    PROVE  /\ q.interval \in Nat \ {0} /\ q.burst \in Nat \ {0}
           /\ LargestBurst \in Nat \ {0} /\ q.burst <= LargestBurst
  <1>1. PICK l \in Limits : q.burst = l.burst
    BY DEF Quotas
  <1>2. q.interval \in Nat \ {0} /\ l.burst \in Nat \ {0}
    BY LimitsAssumption DEF Quotas
  <1> QED
    BY <1>1, <1>2, LargestIs

\* A key owes no more than the largest burst at its quota.
OwesABurst(g) == g.tat <= now + LargestBurst * g.applied.interval

\* A request is admitted to a key that owes a burst less one request at most.
LEMMA AdmittedOwes ==
    ASSUME NEW g \in KeyState, now \in Times, Admits(g)
    PROVE  LET t == IF g.tat = NoTat THEN now ELSE g.tat IN
           t \in Nat /\ t <= now + g.applied.interval * (g.applied.burst - 1)
  <1> DEFINE i == g.applied.interval
             b == g.applied.burst
  <1>1. i \in Nat \ {0} /\ b \in Nat \ {0}
    BY QuotaIs DEF KeyState
  <1>2. now \in Nat /\ MaxNanos \in Nat /\ g.tat \in Nanos \cup {NoTat} /\ Nanos \subseteq Nat
    BY LimiterAssumption, MaxNanosAssumption DEF Times, KeyState, Nanos
  <1> HIDE DEF i, b
  <1>3. i * (b - 1) \in Nat
    BY <1>1
  <1>4. Tau(g.applied) \in Nat /\ Tau(g.applied) <= i * (b - 1)
    <2>1. MaxTau \in Nat
      BY MaxNanosAssumption DEF MaxTau
    <2> QED
      BY <1>2, <1>3, <2>1 DEF Tau, SatMul, AtMost, i, b
  <1>5. CASE g.tat = NoTat
    BY <1>2, <1>3, <1>5 DEF i, b
  <1>6. CASE g.tat # NoTat
    <2>1. now >= SatSub(g.tat, Tau(g.applied)) /\ g.tat \in Nat
      BY <1>2, <1>6 DEF Admits, Earliest
    <2> QED
      BY <1>2, <1>3, <1>4, <1>6, <2>1 DEF SatSub, i, b
  <1> QED
    BY <1>5, <1>6

\* Gcra::check keeps the type of the TAT; an admission is charged an interval,
\* and one that would take the debt past the burst is denied.
LEMMA CheckKeeps ==
    ASSUME NEW g \in KeyState, now \in Times, OwesABurst(g)
    PROVE  /\ Checked1(g) \in Nanos \cup {NoTat}
           /\ Checked1(g) <= now + LargestBurst * g.applied.interval
  <1> DEFINE i == g.applied.interval
             b == g.applied.burst
             B == LargestBurst
  <1>1. i \in Nat \ {0} /\ b \in Nat \ {0} /\ B \in Nat \ {0} /\ b <= B
    BY QuotaIs DEF KeyState
  <1>2. now \in Nat /\ MaxNanos \in Nat /\ g.tat \in Nanos \cup {NoTat} /\ Nanos \subseteq Nat
    BY LimiterAssumption, MaxNanosAssumption DEF Times, KeyState, Nanos
  <1>3. g.tat <= now + B * i
    BY DEF OwesABurst
  <1> HIDE DEF i, b, B
  <1>4. i * (b - 1) \in Nat /\ i * (b - 1) + i = b * i /\ b * i <= B * i /\ B * i \in Nat
    <2>1. b * i <= B * i /\ B * i \in Nat
      BY <1>1, Products
    <2>2. i * (b - 1) \in Nat /\ i * (b - 1) + i = b * i
      BY <1>1
    <2> QED
      BY <2>1, <2>2
  <1>6. CASE ~Admits(g)
    BY <1>2, <1>3, <1>6 DEF Checked1, B, i
  <1>7. CASE Admits(g)
    <2> DEFINE t == IF g.tat = NoTat THEN now ELSE g.tat
    <2>1. t \in Nat /\ t <= now + i * (b - 1)
      BY <1>7, AdmittedOwes DEF i, b
    <2>2. Checked1(g) = AtMost(AtLeast(t, now) + i, MaxNanos)
      BY <1>7 DEF Checked1, Advance, SatAdd, i
    <2> HIDE DEF t
    <2>3. AtLeast(t, now) \in Nat /\ AtLeast(t, now) + i <= now + i * (b - 1) + i
      BY <1>1, <1>2, <1>4, <2>1 DEF AtLeast
    <2>4. AtLeast(t, now) + i \in Nat /\ AtLeast(t, now) + i <= now + B * i
      BY <1>1, <1>2, <1>4, <2>3
    <2>5. Checked1(g) \in Nat /\ Checked1(g) <= MaxNanos /\ Checked1(g) <= now + B * i
      BY <1>1, <1>2, <1>4, <2>2, <2>4 DEF AtMost
    <2> QED
      BY <1>2, <2>5 DEF B, i, Nanos
  <1> QED
    BY <1>6, <1>7

\* carry_tat carries a debt of a burst at most over to one of a burst at most.
LEMMA CarryKeeps ==
    ASSUME NEW tat \in Nanos, NEW old \in Quotas, NEW new \in Quotas, now \in Times,
           tat <= now + LargestBurst * old.interval
    PROVE  /\ CarryTat(tat, old, new, now) \in Nanos
           /\ CarryTat(tat, old, new, now) <= now + LargestBurst * new.interval
  <1> DEFINE a == SatSub(tat, now)
             b == new.interval
             c == old.interval
             B == LargestBurst
             computed == RoundedRatio(a, b, c)
             full == AtLeast(old.burst, new.burst) * b
  <1>1. /\ b \in Nat \ {0} /\ c \in Nat \ {0} /\ B \in Nat \ {0}
        /\ AtLeast(old.burst, new.burst) \in Nat /\ AtLeast(old.burst, new.burst) <= B
    BY QuotaIs DEF AtLeast
  <1>2. now \in Nat /\ tat \in Nat /\ MaxNanos \in Nat
    BY LimiterAssumption, MaxNanosAssumption DEF Times, Nanos
  <1>3. B * c \in Nat /\ B * b \in Nat /\ tat <= now + B * c
    BY <1>1
  <1>4. a \in Nat /\ a <= B * c
    BY <1>2, <1>3 DEF SatSub
  <1> HIDE DEF a
  <1>5. full \in Nat /\ full <= B * b
    BY <1>1, Products
  <1> HIDE DEF b, c, B, full
  <1>6. computed \in Nat /\ computed <= B * b
    <2> DEFINE x == 2 * a * b + c
               d == 2 * c
    <2>1. a * b <= (B * c) * b /\ a * b \in Nat /\ (B * c) * b \in Nat
      BY <1>1, <1>3, <1>4, Products
    <2>2. x \in Nat /\ d \in Nat \ {0} /\ x = 2 * (a * b) + c
      BY <1>1, <1>4, <2>1
    <2>3. d * (B * b + 1) = 2 * ((B * c) * b) + 2 * c
      BY <1>1
    <2>4. x < d * (B * b + 1)
      BY <1>1, <2>1, <2>2, <2>3
    <2> HIDE DEF x, d
    <2>5. x \div d \in Nat /\ x \div d <= B * b
      BY <1>3, <2>2, <2>4, Division
    <2> QED
      BY <2>5 DEF RoundedRatio, x, d
  <1> HIDE DEF computed
  <1> DEFINE v == IF tat = MaxNanos THEN AtLeast(computed, full) ELSE computed
  <1>7. v \in Nat /\ v <= B * b
    BY <1>3, <1>5, <1>6 DEF AtLeast
  <1>8. CarryTat(tat, old, new, now) = SatAdd(now, v)
    BY DEF CarryTat, a, b, c, computed, full
  <1> HIDE DEF v
  <1>9. SatAdd(now, v) \in Nat /\ SatAdd(now, v) <= MaxNanos /\ SatAdd(now, v) <= now + B * b
    BY <1>2, <1>3, <1>7 DEF SatAdd, AtMost
  <1> QED
    BY <1>2, <1>8, <1>9 DEF Nanos, B, b

\* Gcra::set_quota keeps the type of a key's state and its bound.
LEMMA RequotedKeeps ==
    ASSUME NEW g \in KeyState, NEW q \in Quotas, now \in Times, OwesABurst(g)
    PROVE  Requoted(g, q) \in KeyState /\ OwesABurst(Requoted(g, q))
  <1>1. CASE q = g.applied
    BY <1>1 DEF Requoted
  <1>2. CASE q # g.applied
    <2> DEFINE t == IF g.tat = NoTat THEN NoTat ELSE CarryTat(g.tat, g.applied, q, now)
    <2>1. t \in Nanos \cup {NoTat} /\ t <= now + LargestBurst * q.interval
      <3>1. CASE g.tat = NoTat
        <4>1. now \in Nat /\ LargestBurst * q.interval \in Nat
          BY QuotaIs, LimiterAssumption DEF Times
        <4> QED
          BY <3>1, <4>1 DEF NoTat
      <3>2. CASE g.tat # NoTat
        <4>1. g.tat \in Nanos /\ g.applied \in Quotas
          BY <3>2 DEF KeyState
        <4> QED
          BY <3>2, <4>1, CarryKeeps DEF OwesABurst
      <3> QED
        BY <3>1, <3>2
    <2>2. Requoted(g, q) = [g EXCEPT !.tat = t, !.applied = q]
      BY <1>2 DEF Requoted
    <2> HIDE DEF t
    <2>3. Requoted(g, q) \in KeyState
      BY <2>1, <2>2 DEF KeyState
    <2>4. Requoted(g, q).tat = t /\ Requoted(g, q).applied = q
      BY <2>2 DEF KeyState
    <2> QED
      BY <2>1, <2>3, <2>4 DEF OwesABurst
  <1> QED
    BY <1>1, <1>2

----------------------------------------------------------------------------
\* The hot set.

\* A hot set of keys, no larger than it may be.
HotSetOK(h) ==
    /\ h \in [DOMAIN h -> HotEntry]
    /\ DOMAIN h \subseteq Keys
    /\ IsFiniteSet(DOMAIN h) /\ Cardinality(DOMAIN h) <= HotSetSize

\* The weakest key of a hot set has the least demand in it.
LEMMA WeakestIs ==
    ASSUME NEW h, HotSetOK(h), DOMAIN h # {}
    PROVE  /\ Weakest(h) \in DOMAIN h
           /\ \A j \in DOMAIN h : h[Weakest(h)].demand <= h[j].demand
  <1>1. \A k \in DOMAIN h : h[k].demand \in Nat /\ k \in Nat
    BY DemandAssumption DEF HotSetOK, HotEntry, Rates
  <1>2. PICK d \in {h[k].demand : k \in DOMAIN h} : \A e \in {h[k].demand : k \in DOMAIN h} : d <= e
    BY <1>1, LeastOf
  <1> DEFINE W == {k \in DOMAIN h : h[k].demand = d}
             isWeakest(k) == \A j \in DOMAIN h \ {k} :
                                \/ h[k].demand < h[j].demand
                                \/ h[k].demand = h[j].demand /\ k < j
  <1>3. PICK w \in W : \A v \in W : w <= v
    <2>1. W \subseteq Nat /\ W # {}
      BY <1>1, <1>2
    <2> QED
      BY <2>1, LeastOf
  <1>4. ASSUME NEW j \in DOMAIN h \ {w}
        PROVE  \/ h[w].demand < h[j].demand
               \/ h[w].demand = h[j].demand /\ w < j
    <2>1. h[w].demand = d /\ d <= h[j].demand /\ w \in DOMAIN h
      BY <1>2, <1>3
    <2>2. CASE h[j].demand = d
      <3>1. w <= j /\ w # j
        BY <1>3, <2>2
      <3> QED
        BY <1>1, <2>1, <2>2, <3>1
    <2>3. CASE h[j].demand # d
      BY <1>1, <2>1, <2>3
    <2> QED
      BY <2>2, <2>3
  <1>5. Weakest(h) \in DOMAIN h /\ isWeakest(Weakest(h))
    BY <1>3, <1>4 DEF Weakest
  <1>6. ASSUME NEW j \in DOMAIN h PROVE h[Weakest(h)].demand <= h[j].demand
    <2>1. CASE j = Weakest(h)
      BY <1>1, <2>1
    <2>2. CASE j # Weakest(h)
      BY <1>1, <1>5, <2>2
    <2> QED
      BY <2>1, <2>2
  <1> QED
    BY <1>5, <1>6

\* insert() puts one key in.
LEMMA InsertKeeps ==
    ASSUME NEW f, HotSetOK(f), NEW k \in Keys, k \notin DOMAIN f, Cardinality(DOMAIN f) < HotSetSize,
           NEW rate \in Rates, NEW primary \in BOOLEAN, NEW time \in Times
    PROVE  /\ HotSetOK(Insert(f, k, rate, primary, time))
           /\ DOMAIN Insert(f, k, rate, primary, time) = DOMAIN f \cup {k}
  <1> DEFINE e == [demand |-> rate, primary |-> primary, cooling |-> NotCooling, since |-> time]
             D == DOMAIN f \cup {k}
             g == Insert(f, k, rate, primary, time)
  <1>1. e \in HotEntry
    BY DEF HotEntry
  <1> HIDE DEF e
  <1>2. g = [x \in D |-> IF x = k THEN e ELSE f[x]]
    BY DEF Insert, e
  <1> HIDE DEF g
  <1>3. DOMAIN g = D /\ g \in [D -> HotEntry]
    BY <1>1, <1>2 DEF HotSetOK
  <1>4. IsFiniteSet(D) /\ Cardinality(D) = Cardinality(DOMAIN f) + 1
    BY FS_AddElement DEF HotSetOK
  <1>5. Cardinality(D) <= HotSetSize
    BY <1>4, FS_CardinalityType, HotSetAssumption DEF HotSetOK
  <1> QED
    BY <1>3, <1>4, <1>5 DEF HotSetOK, g

\* Without takes a key out.
LEMMA WithoutKeeps ==
    ASSUME NEW h, HotSetOK(h), NEW k
    PROVE  /\ HotSetOK(Without(h, k)) /\ DOMAIN Without(h, k) = DOMAIN h \ {k}
           /\ k \in DOMAIN h => Cardinality(DOMAIN Without(h, k)) < HotSetSize
  <1> DEFINE g == Without(h, k)
             D == DOMAIN h \ {k}
  <1>1. g = [x \in D |-> h[x]]
    BY DEF Without, Restrict
  <1> HIDE DEF g
  <1>2. DOMAIN g = D /\ g \in [D -> HotEntry]
    BY <1>1 DEF HotSetOK
  <1>3. IsFiniteSet(D) /\ Cardinality(D) =
           IF k \in DOMAIN h THEN Cardinality(DOMAIN h) - 1 ELSE Cardinality(DOMAIN h)
    BY FS_RemoveElement DEF HotSetOK
  <1>4. Cardinality(D) <= HotSetSize /\ (k \in DOMAIN h => Cardinality(D) < HotSetSize)
    BY <1>3, FS_CardinalityType, HotSetAssumption DEF HotSetOK
  <1> QED
    BY <1>2, <1>3, <1>4 DEF HotSetOK, g

\* promote() keeps the hot set one; a full one loses its weakest to the key.
LEMMA PromoteKeeps ==
    ASSUME NEW h, HotSetOK(h), NEW k \in Keys, NEW rate \in Rates, NEW primary \in BOOLEAN,
           NEW time \in Times
    PROVE  /\ HotSetOK(Promote(h, k, rate, primary, time))
           /\ DOMAIN Promote(h, k, rate, primary, time) \subseteq DOMAIN h \cup {k}
  <1> DEFINE w == Weakest(h)
             g == Promote(h, k, rate, primary, time)
  <1>1. CASE k \in DOMAIN h
    <2>1. g = [h EXCEPT ![k].demand = rate, ![k].primary = primary, ![k].cooling = NotCooling]
      BY <1>1 DEF Promote
    <2>2. DOMAIN g = DOMAIN h /\ g \in [DOMAIN h -> HotEntry]
      BY <1>1, <2>1 DEF HotSetOK, HotEntry
    <2> QED
      BY <2>2 DEF HotSetOK
  <1>2. CASE k \notin DOMAIN h /\ Cardinality(DOMAIN h) < HotSetSize
    <2>1. g = Insert(h, k, rate, primary, time)
      BY <1>2 DEF Promote
    <2>2. k \notin DOMAIN h /\ Cardinality(DOMAIN h) < HotSetSize
      BY <1>2
    <2>3. HotSetOK(Insert(h, k, rate, primary, time))
      BY <2>2, InsertKeeps
    <2>4. DOMAIN Insert(h, k, rate, primary, time) = DOMAIN h \cup {k}
      BY DEF Insert
    <2> QED
      BY <2>1, <2>3, <2>4
  <1>3. CASE /\ k \notin DOMAIN h /\ ~(Cardinality(DOMAIN h) < HotSetSize)
             /\ Beats(rate, h[w].demand)
    <2> DEFINE o == Without(h, w)
    <2>1. g = Insert(o, k, rate, primary, time)
      BY <1>3 DEF Promote
    <2>2. DOMAIN h # {}
      BY <1>3, FS_EmptySet, HotSetAssumption
    <2>3. w \in DOMAIN h
      BY <2>2, WeakestIs
    <2>4. HotSetOK(o) /\ DOMAIN o = DOMAIN h \ {w} /\ Cardinality(DOMAIN o) < HotSetSize
      BY <2>3, WithoutKeeps
    <2> HIDE DEF o
    <2>5. k \notin DOMAIN o
      BY <1>3, <2>4
    <2>6. HotSetOK(Insert(o, k, rate, primary, time))
      BY <2>4, <2>5, InsertKeeps
    <2>7. DOMAIN Insert(o, k, rate, primary, time) = DOMAIN o \cup {k}
      BY DEF Insert
    <2> QED
      BY <2>1, <2>4, <2>6, <2>7
  <1>4. CASE /\ k \notin DOMAIN h /\ ~(Cardinality(DOMAIN h) < HotSetSize)
             /\ ~ Beats(rate, h[w].demand)
    <2>1. g = h
      BY <1>4 DEF Promote
    <2> QED
      BY <2>1
  <1> QED
    BY <1>1, <1>2, <1>3, <1>4

\* cool() keeps the hot set one, with the same keys.
LEMMA CoolKeeps ==
    ASSUME NEW h, HotSetOK(h), NEW k, NEW rate \in Rates, NEW time \in Times
    PROVE  HotSetOK(Cool(h, k, rate, time)) /\ DOMAIN Cool(h, k, rate, time) = DOMAIN h
  <1> DEFINE g == Cool(h, k, rate, time)
  <1>1. CASE k \notin DOMAIN h
    BY <1>1 DEF Cool
  <1>2. CASE k \in DOMAIN h
    <2>1. PICK p \in BOOLEAN, c \in Times \cup {NotCooling} :
             g = [h EXCEPT ![k].demand = rate, ![k].primary = p, ![k].cooling = c]
      <3> DEFINE e == h[k]
                 expired == e.primary /\ e.cooling # NotCooling /\ time - e.cooling >= Cooldown
                 starts == e.primary /\ e.cooling = NotCooling
                 c == IF starts THEN time ELSE IF expired THEN NotCooling ELSE e.cooling
                 p == e.primary /\ ~expired
      <3>1. e \in HotEntry
        BY <1>2 DEF HotSetOK
      <3>2. c \in Times \cup {NotCooling}
        BY <3>1 DEF HotEntry
      <3>3. p \in BOOLEAN
        OBVIOUS
      <3>4. g = [h EXCEPT ![k].demand = rate, ![k].primary = p, ![k].cooling = c]
        BY <1>2 DEF Cool
      <3> QED
        BY <3>2, <3>3, <3>4
    <2>2. DOMAIN g = DOMAIN h /\ g \in [DOMAIN h -> HotEntry]
      BY <1>2, <2>1 DEF HotSetOK, HotEntry
    <2> QED
      BY <2>2 DEF HotSetOK
  <1> QED
    BY <1>1, <1>2

\* update_with() keeps the hot set one, and puts no other key in.
LEMMA UpdateKeeps ==
    ASSUME NEW h, HotSetOK(h), NEW k \in Keys, NEW rate \in Rates, NEW threshold,
           NEW time \in Times, NEW elsewhere
    PROVE  /\ HotSetOK(UpdateWith(h, k, rate, threshold, time, elsewhere))
           /\ DOMAIN UpdateWith(h, k, rate, threshold, time, elsewhere) \subseteq DOMAIN h \cup {k}
  <1> DEFINE c == Cool(h, k, rate, time)
             g == UpdateWith(h, k, rate, threshold, time, elsewhere)
  <1>1. HotSetOK(c) /\ DOMAIN c = DOMAIN h
    BY CoolKeeps
  <1>2. \/ g = Promote(h, k, rate, TRUE, time)
        \/ g = c
        \/ g = Without(c, k)
        \/ g = Promote(c, k, rate, FALSE, time)
    BY DEF UpdateWith
  <1> HIDE DEF c, g
  <1>3. HotSetOK(g) /\ DOMAIN g \subseteq DOMAIN h \cup {k}
    <2>1. CASE g = Promote(h, k, rate, TRUE, time)
      BY <2>1, PromoteKeeps
    <2>2. CASE g = c
      BY <1>1, <2>2
    <2>3. CASE g = Without(c, k)
      BY <1>1, <2>3, WithoutKeeps
    <2>4. CASE g = Promote(c, k, rate, FALSE, time)
      BY <1>1, <2>4, PromoteKeeps
    <2> QED
      BY <1>2, <2>1, <2>2, <2>3, <2>4
  <1> QED
    BY <1>3 DEF g

----------------------------------------------------------------------------
\* What update_with() does to the hot set, key by key.

\* A key wants to be hot by what a tick feeds: above its cold rate, or hot elsewhere.
Wants(f) == f[1] > f[2] \/ f[3]

\* A full hot set holds no key that this demand beats.
LeftOut(h, r) ==
    /\ ~(Cardinality(DOMAIN h) < HotSetSize)
    /\ \A j \in DOMAIN h : ~Beats(r, h[j].demand)

\* What promote() makes of the hot set h for a key that is not in it: the key joins,
\* or takes the place of a weakest key that it beats, or is left out.
Admitted(h, g, k, r) ==
    \/ Cardinality(DOMAIN h) < HotSetSize /\ DOMAIN g = DOMAIN h \cup {k}
    \/ /\ ~(Cardinality(DOMAIN h) < HotSetSize)
       /\ \E w \in DOMAIN h :
             /\ Beats(r, h[w].demand)
             /\ \A j \in DOMAIN h : h[w].demand <= h[j].demand
             /\ DOMAIN g = (DOMAIN h \ {w}) \cup {k}
    \/ g = h /\ LeftOut(h, r)

LEMMA PromoteDoes ==
    ASSUME NEW h, HotSetOK(h), NEW k \in Keys, NEW r \in Rates, NEW primary \in BOOLEAN,
           NEW time \in Times, NEW g, g = Promote(h, k, r, primary, time)
    PROVE  /\ \A j \in DOMAIN g \ {k} : j \in DOMAIN h /\ g[j] = h[j]
           /\ k \in DOMAIN g => g[k].demand = r
           /\ k \in DOMAIN h => DOMAIN g = DOMAIN h
           /\ k \notin DOMAIN h => Admitted(h, g, k, r)
  <1> DEFINE w == Weakest(h)
             e == [demand |-> r, primary |-> primary, cooling |-> NotCooling, since |-> time]
  <1>1. CASE k \in DOMAIN h
    <2>1. g = [h EXCEPT ![k].demand = r, ![k].primary = primary, ![k].cooling = NotCooling]
      BY <1>1 DEF Promote
    <2>2. h[k] \in HotEntry /\ h \in [DOMAIN h -> HotEntry]
      BY <1>1 DEF HotSetOK
    <2>3. DOMAIN g = DOMAIN h /\ \A j \in DOMAIN h \ {k} : g[j] = h[j]
      BY <1>1, <2>1, <2>2
    <2>4. g[k].demand = r
      BY <1>1, <2>1, <2>2 DEF HotEntry
    <2> QED
      BY <1>1, <2>3, <2>4
  <1>2. CASE k \notin DOMAIN h /\ Cardinality(DOMAIN h) < HotSetSize
    <2>1. g = [j \in DOMAIN h \cup {k} |-> IF j = k THEN e ELSE h[j]]
      BY <1>2 DEF Promote, Insert
    <2> QED
      BY <1>2, <2>1 DEF Admitted
  <1>3. CASE /\ k \notin DOMAIN h /\ ~(Cardinality(DOMAIN h) < HotSetSize)
             /\ Beats(r, h[w].demand)
    <2> DEFINE o == Without(h, w)
    <2>1. g = Insert(o, k, r, primary, time)
      BY <1>3 DEF Promote
    <2>2. o = [j \in DOMAIN h \ {w} |-> h[j]]
      BY DEF Without, Restrict
    <2> HIDE DEF o
    <2>3. g = [j \in DOMAIN o \cup {k} |-> IF j = k THEN e ELSE o[j]]
      BY <2>1 DEF Insert
    <2>4. DOMAIN h # {}
      BY <1>3, FS_EmptySet, HotSetAssumption
    <2>5. w \in DOMAIN h /\ \A j \in DOMAIN h : h[w].demand <= h[j].demand
      BY <2>4, WeakestIs
    <2> HIDE DEF w, e
    <2>6. DOMAIN g = (DOMAIN h \ {w}) \cup {k} /\ \A j \in DOMAIN g \ {k} : g[j] = h[j]
      BY <2>2, <2>3
    <2>7. g[k].demand = r
      BY <2>3 DEF e
    <2>8. Admitted(h, g, k, r)
      BY <1>3, <2>5, <2>6 DEF Admitted
    <2> QED
      BY <1>3, <2>6, <2>7, <2>8
  <1>4. CASE /\ k \notin DOMAIN h /\ ~(Cardinality(DOMAIN h) < HotSetSize)
             /\ ~ Beats(r, h[w].demand)
    <2>1. g = h
      BY <1>4 DEF Promote
    <2>2. DOMAIN h # {}
      BY <1>4, FS_EmptySet, HotSetAssumption
    <2>3. w \in DOMAIN h /\ \A j \in DOMAIN h : h[w].demand <= h[j].demand
      BY <2>2, WeakestIs
    <2>4. r \in Nat /\ \A j \in DOMAIN h : h[j].demand \in Nat
      BY DemandAssumption DEF HotSetOK, HotEntry, Rates
    <2> HIDE DEF w
    <2>5. \A j \in DOMAIN h : ~Beats(r, h[j].demand)
      BY <1>4, <2>3, <2>4 DEF Beats
    <2> QED
      BY <1>4, <2>1, <2>5 DEF Admitted, LeftOut
  <1> QED
    BY <1>1, <1>2, <1>3, <1>4

\* cool() changes only the key's entry; a primary key that was not cooling stays so.
LEMMA CoolDoes ==
    ASSUME NEW h, HotSetOK(h), NEW k, NEW r \in Rates, NEW time \in Times,
           NEW g, g = Cool(h, k, r, time)
    PROVE  /\ DOMAIN g = DOMAIN h /\ \A j \in DOMAIN h \ {k} : g[j] = h[j]
           /\ k \notin DOMAIN h => g = h
           /\ k \in DOMAIN h =>
                 /\ g[k].demand = r
                 /\ h[k].primary /\ h[k].cooling = NotCooling => g[k].primary
  <1>1. CASE k \notin DOMAIN h
    BY <1>1 DEF Cool
  <1>2. CASE k \in DOMAIN h
    <2> DEFINE e == h[k]
               expired == e.primary /\ e.cooling # NotCooling /\ time - e.cooling >= Cooldown
               starts == e.primary /\ e.cooling = NotCooling
    <2>1. PICK p, c :
             /\ g = [h EXCEPT ![k].demand = r, ![k].primary = p, ![k].cooling = c]
             /\ p = (e.primary /\ ~expired)
      <3> DEFINE c == IF starts THEN time ELSE IF expired THEN NotCooling ELSE e.cooling
                 p == e.primary /\ ~expired
      <3>1. g = [h EXCEPT ![k].demand = r, ![k].primary = p, ![k].cooling = c]
        BY <1>2 DEF Cool
      <3> QED
        BY <3>1
    <2>2. e \in HotEntry /\ h \in [DOMAIN h -> HotEntry]
      BY <1>2 DEF HotSetOK
    <2>3. DOMAIN g = DOMAIN h /\ \A j \in DOMAIN h \ {k} : g[j] = h[j]
      BY <1>2, <2>1, <2>2
    <2>4. g[k].demand = r
      BY <1>2, <2>1, <2>2 DEF HotEntry
    <2>5. g[k].primary = p
      <3>1. g = [h EXCEPT ![k].demand = r, ![k].primary = p, ![k].cooling = c]
        BY <2>1
      <3> QED
        BY <1>2, <2>2, <3>1, ZenonT(40) DEF HotEntry
    <2>6. h[k].primary /\ h[k].cooling = NotCooling => p
      BY <2>1
    <2> QED
      BY <1>2, <2>3, <2>4, <2>5, <2>6
  <1> QED
    BY <1>1, <1>2

\* update_with() at one key: the others stay as they are or leave; the key is in
\* with its demand only if it wants to be, or is still primary; one that wants to
\* stay, or whose cooldown only starts, stays; one outside that wants in is promoted.
LEMMA UpdateDoes ==
    ASSUME NEW h, HotSetOK(h), NEW k \in Keys, NEW r \in Rates, NEW t \in Nat,
           NEW time \in Times, NEW e \in BOOLEAN,
           NEW g, g = UpdateWith(h, k, r, t, time, e)
    PROVE  /\ \A j \in DOMAIN g \ {k} : j \in DOMAIN h /\ g[j] = h[j]
           /\ k \in DOMAIN g => g[k].demand = r /\ (r > t \/ e \/ g[k].primary)
           /\ k \in DOMAIN h /\ (r > t \/ e \/ (h[k].primary /\ h[k].cooling = NotCooling)) =>
                 DOMAIN g = DOMAIN h
           /\ k \notin DOMAIN h =>
                 IF r > t \/ e THEN Admitted(h, g, k, r) ELSE g = h
  <1> DEFINE c == Cool(h, k, r, time)
  <1>1. HotSetOK(c)
    BY CoolKeeps
  <1>2. /\ DOMAIN c = DOMAIN h /\ \A j \in DOMAIN h \ {k} : c[j] = h[j]
        /\ k \notin DOMAIN h => c = h
        /\ k \in DOMAIN h =>
              /\ c[k].demand = r
              /\ h[k].primary /\ h[k].cooling = NotCooling => c[k].primary
    BY CoolDoes
  <1>3. /\ r > t => g = Promote(h, k, r, TRUE, time)
        /\ ~(r > t) /\ k \in DOMAIN c /\ (c[k].primary \/ e) => g = c
        /\ ~(r > t) /\ k \in DOMAIN c /\ ~(c[k].primary \/ e) => g = Without(c, k)
        /\ ~(r > t) /\ k \notin DOMAIN c /\ e => g = Promote(c, k, r, FALSE, time)
        /\ ~(r > t) /\ k \notin DOMAIN c /\ ~e => g = c
    BY DEF UpdateWith
  <1> HIDE DEF c
  <1>4. CASE r > t
    <2>1. g = Promote(h, k, r, TRUE, time)
      BY <1>3, <1>4
    <2>2. /\ \A j \in DOMAIN g \ {k} : j \in DOMAIN h /\ g[j] = h[j]
          /\ k \in DOMAIN g => g[k].demand = r
          /\ k \in DOMAIN h => DOMAIN g = DOMAIN h
          /\ k \notin DOMAIN h => Admitted(h, g, k, r)
      BY <2>1, PromoteDoes
    <2> QED
      BY <1>4, <2>2
  <1>5. CASE ~(r > t) /\ k \in DOMAIN c /\ (c[k].primary \/ e)
    <2>1. g = c
      BY <1>3, <1>5
    <2> QED
      BY <1>2, <1>5, <2>1
  <1>6. CASE ~(r > t) /\ k \in DOMAIN c /\ ~(c[k].primary \/ e)
    <2>1. g = [j \in DOMAIN c \ {k} |-> c[j]]
      BY <1>3, <1>6 DEF Without, Restrict
    <2>2. DOMAIN g = DOMAIN h \ {k} /\ \A j \in DOMAIN g : g[j] = h[j]
      BY <1>2, <2>1
    <2> QED
      BY <1>2, <1>6, <2>2
  <1>7. CASE ~(r > t) /\ k \notin DOMAIN c /\ e
    <2>1. g = Promote(h, k, r, FALSE, time)
      BY <1>2, <1>3, <1>7
    <2>2. /\ \A j \in DOMAIN g \ {k} : j \in DOMAIN h /\ g[j] = h[j]
          /\ k \in DOMAIN g => g[k].demand = r
          /\ k \in DOMAIN h => DOMAIN g = DOMAIN h
          /\ k \notin DOMAIN h => Admitted(h, g, k, r)
      BY <2>1, PromoteDoes
    <2> QED
      BY <1>2, <1>7, <2>2
  <1>8. CASE ~(r > t) /\ k \notin DOMAIN c /\ ~e
    <2>1. g = h
      BY <1>2, <1>3, <1>8
    <2> QED
      BY <1>2, <1>8, <2>1
  <1> QED
    BY <1>4, <1>5, <1>6, <1>7, <1>8

----------------------------------------------------------------------------
\* Pass one of a tick, key by key.

\* f is what the first m visits make of the hot set and of the keys kept.
Visits(f, folded, order, n, foreign, m) ==
    /\ f = [i \in 0 .. m |-> f[i]]
    /\ f[0] = [hot |-> hot, kept |-> {}]
    /\ \A i \in 1 .. m : f[i] = Visit(f[i - 1], order[i], folded, n, foreign)

\* It exists, however many keys there are.
LEMMA VisitsExist ==
    ASSUME NEW folded, NEW order, NEW n, NEW foreign
    PROVE  \A m \in Nat : \E f : Visits(f, folded, order, n, foreign, m)
  <1> DEFINE S == {m \in Nat : \E f : Visits(f, folded, order, n, foreign, m)}
  <1>1. 0 \in S
    <2> DEFINE f == [i \in 0 .. 0 |-> [hot |-> hot, kept |-> {}]]
    <2>1. Visits(f, folded, order, n, foreign, 0)
      BY DEF Visits
    <2> QED
      BY <2>1
  <1>2. ASSUME NEW m \in Nat, m \in S PROVE m + 1 \in S
    <2>1. PICK f : Visits(f, folded, order, n, foreign, m)
      BY <1>2
    <2> DEFINE g == [i \in 0 .. m + 1 |->
                       IF i = m + 1 THEN Visit(f[m], order[m + 1], folded, n, foreign) ELSE f[i]]
    <2>2. g[0] = [hot |-> hot, kept |-> {}]
      <3>1. g[0] = f[0]
        OBVIOUS
      <3> QED
        BY <2>1, <3>1 DEF Visits
    <2>3. ASSUME NEW i \in 1 .. m + 1 PROVE g[i] = Visit(g[i - 1], order[i], folded, n, foreign)
      <3>1. g[i - 1] = f[i - 1]
        OBVIOUS
      <3>2. CASE i = m + 1
        BY <3>1, <3>2
      <3>3. CASE i \in 1 .. m
        <4>1. g[i] = f[i]
          BY <3>3
        <4>2. f[i] = Visit(f[i - 1], order[i], folded, n, foreign)
          BY <2>1, <3>3 DEF Visits
        <4> QED
          BY <3>1, <4>1, <4>2
      <3> QED
        BY <3>2, <3>3
    <2>4. g = [i \in 0 .. m + 1 |-> g[i]]
      OBVIOUS
    <2> HIDE DEF g
    <2>5. Visits(g, folded, order, n, foreign, m + 1)
      BY <2>2, <2>3, <2>4 DEF Visits
    <2> QED
      BY <2>5
  <1> HIDE DEF S
  <1>3. Nat \subseteq S
    BY <1>1, <1>2, OneByOne
  <1> QED
    BY <1>3 DEF S

\* The recursive function in PassOne is one.
LEMMA PassOneIs ==
    ASSUME NEW folded, NEW order, NEW n, NEW foreign, Len(order) \in Nat
    PROVE  \E f : /\ Visits(f, folded, order, n, foreign, Len(order))
                  /\ PassOne(folded, order, n, foreign) = f[Len(order)]
  <1> DEFINE m == Len(order)
             F(f) == [i \in 0 .. m |->
                        IF i = 0 THEN [hot |-> hot, kept |-> {}]
                        ELSE Visit(f[i - 1], order[i], folded, n, foreign)]
             h == CHOOSE f : f = F(f)
  <1>1. PassOne(folded, order, n, foreign) = h[m]
    BY DEF PassOne
  <1>2. PICK f : Visits(f, folded, order, n, foreign, m)
    BY VisitsExist
  <1>3. f = F(f)
    <2>1. f = [i \in 0 .. m |-> f[i]]
      BY <1>2 DEF Visits
    <2>2. ASSUME NEW i \in 0 .. m
          PROVE  f[i] = IF i = 0 THEN [hot |-> hot, kept |-> {}]
                        ELSE Visit(f[i - 1], order[i], folded, n, foreign)
      <3>1. i = 0 \/ i \in 1 .. m
        OBVIOUS
      <3> QED
        BY <1>2, <3>1 DEF Visits
    <2> QED
      BY <2>1, <2>2
  <1>4. h = F(h)
    BY <1>3
  <1> HIDE DEF h
  <1>5. Visits(h, folded, order, n, foreign, m)
    <2>1. h = [i \in 0 .. m |-> h[i]]
      BY <1>4
    <2>2. h[0] = [hot |-> hot, kept |-> {}]
      BY <1>4
    <2>3. ASSUME NEW i \in 1 .. m PROVE h[i] = Visit(h[i - 1], order[i], folded, n, foreign)
      <3>1. i \in 0 .. m /\ i # 0
        OBVIOUS
      <3>2. F(h)[i] = Visit(h[i - 1], order[i], folded, n, foreign)
        BY <3>1
      <3> QED
        BY <1>4, <3>2
    <2> QED
      BY <2>1, <2>2, <2>3 DEF Visits
  <1> QED
    BY <1>1, <1>5

\* An order of the keys comes to every one of them.
LEMMA OrderIs ==
    ASSUME NEW order \in Orders, IsFiniteSet(Tracked)
    PROVE  /\ Len(order) = Cardinality(Tracked) /\ Len(order) \in Nat
           /\ \A i \in 1 .. Len(order) : order[i] \in Tracked
           /\ \A k \in Tracked : \E i \in 1 .. Len(order) : order[i] = k
  <1> DEFINE m == Cardinality(Tracked)
             D == 1 .. m
  <1>1. m \in Nat
    BY FS_CardinalityType
  <1>2. order \in [D -> Tracked] /\ IsInjective(order)
    BY DEF Orders
  <1>3. Len(order) = m
    BY <1>1, <1>2
  <1>4. order \in Injection(D, Tracked)
    BY <1>2 DEF Injection
  <1>5. Cardinality(D) = m
    BY <1>1, FS_Interval
  <1>6. order \in Surjection(D, Tracked)
    BY <1>4, <1>5, FS_Injection
  <1> QED
    BY <1>1, <1>2, <1>3, <1>6 DEF Surjection

\* What pass one leaves: the hot set is one, its keys are kept, and so is every
\* key with demand, with a debt or with attempts that wait to be measured.
PassOneOK(one, folded) ==
    /\ HotSetOK(one.hot)
    /\ one.kept \subseteq Tracked
    /\ DOMAIN one.hot \subseteq one.kept
    /\ \A k \in Tracked : folded[k].pending \/ folded[k].rate > 0 \/ HasDebt(folded[k]) =>
          k \in one.kept

LEMMA PassOneKeeps ==
    ASSUME IsFiniteSet(Tracked), Tracked \subseteq Keys, HotSetOK(hot), DOMAIN hot \subseteq Tracked,
           now \in Times,
           NEW folded \in [Tracked -> KeyState], NEW order \in Orders, NEW n, NEW foreign
    PROVE  PassOneOK(PassOne(folded, order, n, foreign), folded)
  <1> DEFINE m == Len(order)
  <1>1. /\ m \in Nat
        /\ \A i \in 1 .. m : order[i] \in Tracked
        /\ \A k \in Tracked : \E i \in 1 .. m : order[i] = k
    BY OrderIs
  <1>2. PICK f : /\ Visits(f, folded, order, n, foreign, m)
                 /\ PassOne(folded, order, n, foreign) = f[m]
    BY <1>1, PassOneIs
  <1> DEFINE waits(k) == folded[k].pending \/ folded[k].rate > 0 \/ HasDebt(folded[k])
             good(i) == /\ HotSetOK(f[i].hot)
                        /\ f[i].kept \subseteq Tracked
                        /\ DOMAIN f[i].hot \subseteq f[i].kept \cup {order[j] : j \in i + 1 .. m}
                        /\ \A j \in 1 .. i : waits(order[j]) => order[j] \in f[i].kept
             S == {i \in Nat : i <= m => good(i)}
  <1> HIDE DEF m
  <1>3. 0 \in S
    <2>1. f[0] = [hot |-> hot, kept |-> {}]
      BY <1>2 DEF Visits
    <2>2. Tracked \subseteq {order[j] : j \in 0 + 1 .. m}
      BY <1>1
    <2>3. good(0)
      BY <2>1, <2>2
    <2> QED
      BY <2>3
  <1>4. ASSUME NEW i \in Nat, i \in S PROVE i + 1 \in S
    <2> SUFFICES ASSUME i + 1 <= m PROVE good(i + 1)
      OBVIOUS
    <2>1. PICK j \in 1 .. m : j = i + 1
      BY <1>1
    <2> DEFINE k == order[j]
               hotNow == UpdateWith(f[i].hot, k, folded[k].rate, ColdRate(folded[k].limit, n), now,
                                    Elsewhere(folded[k], k, foreign))
               kept == f[i].kept
    <2>2. good(i)
      BY <1>1, <1>4, <2>1
    <2>3. f[j] = Visit(f[i], order[j], folded, n, foreign)
      <3>1. j - 1 = i
        BY <2>1
      <3> QED
        BY <1>2, <3>1 DEF Visits
    <2>4. f[j] = [hot |-> hotNow,
                  kept |-> IF Keep(folded[k], k, hotNow) THEN kept \cup {k} ELSE kept]
      BY <2>3 DEF Visit
    <2>5. k \in Tracked /\ k \in Keys /\ folded[k].rate \in Rates
      BY <1>1 DEF KeyState
    <2>6. HotSetOK(hotNow) /\ DOMAIN hotNow \subseteq DOMAIN f[i].hot \cup {k}
      <3>1. HotSetOK(f[i].hot) /\ now \in Times
        BY <2>2
      <3> QED
        <4> DEFINE h == f[i].hot
                   r == folded[k].rate
                   c == ColdRate(folded[k].limit, n)
                   e == Elsewhere(folded[k], k, foreign)
        <4>1. HotSetOK(h) /\ k \in Keys /\ r \in Rates
          BY <2>5, <3>1
        <4>2. hotNow = UpdateWith(h, k, r, c, now, e)
          OBVIOUS
        <4> HIDE DEF h, r, c, e, k, hotNow
        <4>3. HotSetOK(UpdateWith(h, k, r, c, now, e))
          BY <3>1, <4>1, UpdateKeeps
        <4>4. DOMAIN UpdateWith(h, k, r, c, now, e) \subseteq DOMAIN h \cup {k}
          BY <3>1, <4>1, UpdateKeeps
        <4> QED
          BY <4>2, <4>3, <4>4 DEF h
    <2>7. k \in DOMAIN hotNow \/ waits(k) => Keep(folded[k], k, hotNow)
      BY DEF Keep
    <2> HIDE DEF hotNow
    <2>8. {order[l] : l \in i + 1 .. m} = {k} \cup {order[l] : l \in j + 1 .. m}
      <3>1. \A l \in i + 1 .. m : l = j \/ l \in j + 1 .. m
        BY <1>1, <2>1
      <3>2. \A l \in j + 1 .. m : l \in i + 1 .. m
        BY <1>1, <2>1
      <3>3. j \in i + 1 .. m
        BY <1>1, <2>1
      <3> QED
        BY <3>1, <3>2, <3>3
    <2>9. f[j].hot = hotNow /\ (k \in DOMAIN hotNow \/ waits(k) => k \in f[j].kept)
          /\ kept \subseteq f[j].kept /\ f[j].kept \subseteq kept \cup {k}
      BY <2>4, <2>7
    <2>10. HotSetOK(f[j].hot) /\ f[j].kept \subseteq Tracked
      BY <2>2, <2>5, <2>6, <2>9
    <2>11. DOMAIN f[j].hot \subseteq f[j].kept \cup {order[l] : l \in j + 1 .. m}
      BY <2>2, <2>6, <2>8, <2>9
    <2>12. \A l \in 1 .. j : waits(order[l]) => order[l] \in f[j].kept
      <3>1. \A l \in 1 .. j : l = j \/ l \in 1 .. i
        BY <2>1
      <3> QED
        BY <2>2, <2>9, <3>1
    <2> QED
      BY <2>1, <2>10, <2>11, <2>12
  <1> HIDE DEF S
  <1>5. m \in S
    <2>1. Nat \subseteq S
      BY <1>3, <1>4, OneByOne
    <2> QED
      BY <1>1, <2>1
  <1>6. good(m)
    BY <1>1, <1>5 DEF S
  <1>7. {order[j] : j \in m + 1 .. m} = {}
    BY <1>1
  <1>8. \A k \in Tracked : waits(k) => k \in f[m].kept
    BY <1>1, <1>6
  <1> QED
    BY <1>2, <1>6, <1>7, <1>8 DEF PassOneOK

----------------------------------------------------------------------------
\* Pass one and the demand it is fed.

\* What a tick feeds is of the types it should be.
FedOK(F, K) ==
    /\ K \subseteq Keys
    /\ \A k \in K : F[k][1] \in Rates /\ F[k][2] \in Nat /\ F[k][3] \in BOOLEAN

\* A hot key has the demand that was fed, and wants to be hot or is still primary.
HotFor(e, f) == e.demand = f[1] /\ (Wants(f) \/ e.primary)

\* This holds of the keys visited so far.
Measured(h, F, seen) == \A j \in DOMAIN h \cap seen : HotFor(h[j], F[j])

\* It holds of them all, and none of those yet to be visited is cooling.
Warm(h, F, seen) ==
    \A j \in DOMAIN h : HotFor(h[j], F[j]) /\ (j \notin seen => h[j].cooling = NotCooling)

\* The keys of S outside the hot set that want to be in are left out.
OthersLeftOut(h, F, S) == \A j \in S \ DOMAIN h : Wants(F[j]) => LeftOut(h, F[j][1])

\* The hot set is updated with what is fed for the key k.
UpdatedFor(g, h, F, k) ==
    \E time \in Times : g = UpdateWith(h, k, F[k][1], F[k][2], time, F[k][3])

\* update_with(), told of what is fed.
LEMMA VisitDoes ==
    ASSUME NEW h, HotSetOK(h), NEW F, NEW K, FedOK(F, K), NEW k \in K, NEW g, UpdatedFor(g, h, F, k)
    PROVE  /\ \A j \in DOMAIN g \ {k} : j \in DOMAIN h /\ g[j] = h[j]
           /\ k \in DOMAIN g => HotFor(g[k], F[k])
           /\ k \in DOMAIN h /\ (Wants(F[k]) \/ (h[k].primary /\ h[k].cooling = NotCooling)) =>
                 DOMAIN g = DOMAIN h
           /\ k \notin DOMAIN h =>
                 IF Wants(F[k]) THEN Admitted(h, g, k, F[k][1]) ELSE g = h
  <1> DEFINE r == F[k][1]
             t == F[k][2]
             e == F[k][3]
  <1>1. k \in Keys /\ r \in Rates /\ t \in Nat /\ e \in BOOLEAN
    BY DEF FedOK
  <1>2. Wants(F[k]) <=> r > t \/ e
    BY DEF Wants
  <1>3. PICK time \in Times : g = UpdateWith(h, k, r, t, time, e)
    BY DEF UpdatedFor
  <1> HIDE DEF r, t, e
  <1>4. /\ \A j \in DOMAIN g \ {k} : j \in DOMAIN h /\ g[j] = h[j]
        /\ k \in DOMAIN g => g[k].demand = r /\ (r > t \/ e \/ g[k].primary)
        /\ k \in DOMAIN h /\ (r > t \/ e \/ (h[k].primary /\ h[k].cooling = NotCooling)) =>
              DOMAIN g = DOMAIN h
        /\ k \notin DOMAIN h =>
              IF r > t \/ e THEN Admitted(h, g, k, r) ELSE g = h
    BY <1>1, <1>3, UpdateDoes
  <1>5. k \in DOMAIN g => HotFor(g[k], F[k])
    BY <1>2, <1>4 DEF HotFor, r
  <1>6. k \notin DOMAIN h => IF Wants(F[k]) THEN Admitted(h, g, k, F[k][1]) ELSE g = h
    BY <1>2, <1>4 DEF r
  <1>7. k \in DOMAIN h /\ (Wants(F[k]) \/ (h[k].primary /\ h[k].cooling = NotCooling)) =>
           DOMAIN g = DOMAIN h
    BY <1>2, <1>4
  <1> QED
    BY <1>4, <1>5, <1>6, <1>7

\* A visit brings the key's entry up to date.
LEMMA MeasuredOnVisit ==
    ASSUME NEW h, HotSetOK(h), NEW F, NEW K, FedOK(F, K), NEW k \in K, NEW g, UpdatedFor(g, h, F, k),
           NEW seen, Measured(h, F, seen)
    PROVE  Measured(g, F, seen \cup {k})
  <1>1. /\ \A j \in DOMAIN g \ {k} : j \in DOMAIN h /\ g[j] = h[j]
        /\ k \in DOMAIN g => HotFor(g[k], F[k])
    BY VisitDoes
  <1> QED
    BY <1>1 DEF Measured

\* A key that is left out of a hot set is left out of a full one with no less demand.
LEMMA StillLeftOut ==
    ASSUME NEW h, HotSetOK(h), NEW g, HotSetOK(g), NEW r \in Rates, LeftOut(h, r),
           ~(Cardinality(DOMAIN g) < HotSetSize),
           \A j \in DOMAIN g : \E i \in DOMAIN h : h[i].demand <= g[j].demand
    PROVE  LeftOut(g, r)
  <1>1. r \in Nat /\ (\A j \in DOMAIN h : h[j].demand \in Nat) /\ \A j \in DOMAIN g : g[j].demand \in Nat
    BY DemandAssumption DEF HotSetOK, HotEntry, Rates
  <1>2. ASSUME NEW j \in DOMAIN g PROVE ~Beats(r, g[j].demand)
    <2>1. PICK i \in DOMAIN h : h[i].demand <= g[j].demand
      OBVIOUS
    <2>2. ~Beats(r, h[i].demand)
      BY DEF LeftOut
    <2> QED
      BY <1>1, <2>1, <2>2 DEF Beats
  <1> QED
    BY <1>2 DEF LeftOut

\* A visit that leaves the keys of the hot set and their demands as they are leaves
\* out whom it left out.
LEMMA SameLeftOut ==
    ASSUME NEW h, HotSetOK(h), NEW g, HotSetOK(g), DOMAIN g = DOMAIN h,
           \A j \in DOMAIN g : g[j].demand = h[j].demand, NEW r \in Rates, LeftOut(h, r)
    PROVE  LeftOut(g, r)
  <1>1. \A j \in DOMAIN h : h[j].demand \in Nat
    BY DemandAssumption DEF HotSetOK, HotEntry, Rates
  <1>2. \A j \in DOMAIN g : h[j].demand <= g[j].demand /\ j \in DOMAIN h
    BY <1>1
  <1>3. ~(Cardinality(DOMAIN g) < HotSetSize)
    BY DEF LeftOut
  <1> QED
    BY <1>2, <1>3, StillLeftOut

\* In a warm hot set a visit never makes a key leave but to a newcomer that beats it,
\* so that whoever was left out stays left out.
LEMMA WarmOnVisit ==
    ASSUME NEW h, HotSetOK(h), NEW F, NEW K, FedOK(F, K), DOMAIN h \subseteq K,
           NEW k \in K, NEW g, HotSetOK(g), UpdatedFor(g, h, F, k),
           NEW seen, seen \subseteq K, k \notin seen, Warm(h, F, seen)
    PROVE  /\ Warm(g, F, seen \cup {k})
           /\ OthersLeftOut(h, F, seen) => OthersLeftOut(g, F, seen \cup {k})
           /\ OthersLeftOut(h, F, K) => DOMAIN g = DOMAIN h /\ OthersLeftOut(g, F, K)
  <1>1. /\ \A j \in DOMAIN g \ {k} : j \in DOMAIN h /\ g[j] = h[j]
        /\ k \in DOMAIN g => HotFor(g[k], F[k])
        /\ k \in DOMAIN h /\ (Wants(F[k]) \/ (h[k].primary /\ h[k].cooling = NotCooling)) =>
              DOMAIN g = DOMAIN h
        /\ k \notin DOMAIN h => IF Wants(F[k]) THEN Admitted(h, g, k, F[k][1]) ELSE g = h
    BY VisitDoes
  <1>2. /\ \A j \in DOMAIN h : HotFor(h[j], F[j])
        /\ k \in DOMAIN h => h[k].cooling = NotCooling
    BY DEF Warm
  <1>3. Warm(g, F, seen \cup {k})
    BY <1>1 DEF Warm
  <1>4. \A j \in K : F[j][1] \in Rates /\ F[j][1] \in Nat
    BY DemandAssumption DEF FedOK, Rates
  <1>5. ASSUME DOMAIN g = DOMAIN h, NEW S, S \subseteq K, OthersLeftOut(h, F, S)
        PROVE  OthersLeftOut(g, F, S)
    <2>1. \A j \in DOMAIN g : g[j].demand = h[j].demand
      BY <1>1, <1>2, <1>5 DEF HotFor
    <2> SUFFICES ASSUME NEW j \in S \ DOMAIN g, Wants(F[j]) PROVE LeftOut(g, F[j][1])
      BY DEF OthersLeftOut
    <2>2. LeftOut(h, F[j][1]) /\ F[j][1] \in Rates
      BY <1>4, <1>5 DEF OthersLeftOut
    <2> QED
      BY <1>5, <2>1, <2>2, SameLeftOut
  <1>6. CASE k \in DOMAIN h
    <2>1. DOMAIN g = DOMAIN h
      BY <1>1, <1>2, <1>6 DEF HotFor
    <2>2. OthersLeftOut(h, F, seen) => OthersLeftOut(h, F, seen \cup {k})
      BY <1>6 DEF OthersLeftOut
    <2>3. OthersLeftOut(h, F, seen) => OthersLeftOut(g, F, seen \cup {k})
      BY <1>5, <2>1, <2>2
    <2>4. OthersLeftOut(h, F, K) => OthersLeftOut(g, F, K)
      BY <1>5, <2>1
    <2> QED
      BY <1>3, <2>1, <2>3, <2>4
  <1>7. CASE k \notin DOMAIN h /\ ~Wants(F[k])
    <2>1. g = h
      BY <1>1, <1>7
    <2>2. OthersLeftOut(h, F, seen) => OthersLeftOut(g, F, seen \cup {k})
      BY <1>7, <2>1 DEF OthersLeftOut
    <2> QED
      BY <1>3, <2>1, <2>2
  <1>8. CASE k \notin DOMAIN h /\ Wants(F[k]) /\ g = h /\ LeftOut(h, F[k][1])
    <2>1. OthersLeftOut(h, F, seen) => OthersLeftOut(g, F, seen \cup {k})
      BY <1>8 DEF OthersLeftOut
    <2> QED
      BY <1>3, <1>8, <2>1
  <1>9. CASE /\ k \notin DOMAIN h /\ Wants(F[k])
             /\ Cardinality(DOMAIN h) < HotSetSize /\ DOMAIN g = DOMAIN h \cup {k}
    <2>1. ~OthersLeftOut(h, F, K)
      BY <1>9 DEF OthersLeftOut, LeftOut
    <2>2. ASSUME OthersLeftOut(h, F, seen) PROVE OthersLeftOut(g, F, seen \cup {k})
      BY <1>9, <2>2 DEF OthersLeftOut, LeftOut
    <2> QED
      BY <1>3, <2>1, <2>2
  <1>10. ASSUME k \notin DOMAIN h, Wants(F[k]), ~(Cardinality(DOMAIN h) < HotSetSize),
                NEW w \in DOMAIN h, Beats(F[k][1], h[w].demand),
                \A j \in DOMAIN h : h[w].demand <= h[j].demand,
                DOMAIN g = (DOMAIN h \ {w}) \cup {k}
         PROVE  /\ ~OthersLeftOut(h, F, K)
                /\ OthersLeftOut(h, F, seen) => OthersLeftOut(g, F, seen \cup {k})
    <2>1. ~OthersLeftOut(h, F, K)
      BY <1>10 DEF OthersLeftOut, LeftOut
    <2>2. ASSUME OthersLeftOut(h, F, seen) PROVE OthersLeftOut(g, F, seen \cup {k})
      <3>1. h[w].demand \in Nat /\ F[k][1] \in Nat /\ h[w].demand <= F[k][1]
            /\ h[w].demand = F[w][1]
        <4>1. h[w].demand = F[w][1] /\ F[w][1] \in Nat /\ F[k][1] \in Nat
          BY <1>2, <1>4 DEF HotFor
        <4> QED
          BY <1>10, <4>1 DEF Beats
      <3>2. \A j \in DOMAIN g : h[w].demand <= g[j].demand
        <4>1. k \in DOMAIN g => g[k].demand = F[k][1]
          BY <1>1 DEF HotFor
        <4>2. \A j \in DOMAIN g \ {k} : h[w].demand <= g[j].demand
          BY <1>1, <1>10
        <4> QED
          BY <3>1, <4>1, <4>2
      <3>3. ~(Cardinality(DOMAIN g) < HotSetSize)
        <4>1. /\ IsFiniteSet(DOMAIN h \ {w})
              /\ Cardinality(DOMAIN h \ {w}) = Cardinality(DOMAIN h) - 1
          BY FS_RemoveElement DEF HotSetOK
        <4>2. Cardinality(DOMAIN g) = Cardinality(DOMAIN h \ {w}) + 1
          BY <1>10, <4>1, FS_AddElement
        <4>3. Cardinality(DOMAIN h) \in Nat
          BY FS_CardinalityType DEF HotSetOK
        <4> QED
          BY <1>10, <4>1, <4>2, <4>3
      <3>4. ASSUME NEW j \in seen, j \notin DOMAIN g, j # w, Wants(F[j])
            PROVE  LeftOut(g, F[j][1])
        <4>1. j \notin DOMAIN h
          BY <1>10, <3>4
        <4>2. LeftOut(h, F[j][1]) /\ F[j][1] \in Rates
          BY <1>4, <2>2, <3>4, <4>1 DEF OthersLeftOut
        <4> QED
          BY <3>2, <3>3, <4>2, StillLeftOut
      <3>5. LeftOut(g, F[w][1])
        <4>1. \A j \in DOMAIN g : ~Beats(F[w][1], g[j].demand)
          <5> TAKE j \in DOMAIN g
          <5>1. g[j].demand \in Nat /\ F[w][1] \in Nat /\ F[w][1] <= g[j].demand
            BY <3>1, <3>2, DemandAssumption DEF HotSetOK, HotEntry, Rates
          <5> QED
            BY <5>1 DEF Beats
        <4> QED
          BY <3>3, <4>1 DEF LeftOut
      <3> QED
        BY <1>10, <3>4, <3>5 DEF OthersLeftOut
    <2> QED
      BY <2>1, <2>2
  <1>11. CASE k \notin DOMAIN h /\ Wants(F[k])
    <2>1. Admitted(h, g, k, F[k][1])
      BY <1>1, <1>11
    <2> QED
      BY <1>3, <1>8, <1>9, <1>10, <1>11, <2>1 DEF Admitted
  <1> QED
    BY <1>6, <1>7, <1>11

\* What a tick feeds for each key.
LEMMA FeedIs ==
    ASSUME Tracked \subseteq Keys, NEW folded \in [Tracked -> KeyState], NEW n \in Sizes, NEW foreign
    PROVE  LET F == Feed(folded, n, foreign) IN
           /\ FedOK(F, Tracked) /\ DOMAIN F = Tracked
           /\ \A k \in Tracked :
                 /\ F[k][1] = folded[k].rate
                 /\ F[k][2] = ColdRate(folded[k].limit, n)
                 /\ F[k][3] = Elsewhere(folded[k], k, foreign)
  <1> DEFINE F == Feed(folded, n, foreign)
  <1>1. DOMAIN F = Tracked
    BY DEF Feed
  <1>2. ASSUME NEW k \in Tracked
        PROVE  /\ F[k][1] = folded[k].rate
               /\ F[k][2] = ColdRate(folded[k].limit, n)
               /\ F[k][3] = Elsewhere(folded[k], k, foreign)
    <2> DEFINE a == folded[k].rate
               b == ColdRate(folded[k].limit, n)
               c == Elsewhere(folded[k], k, foreign)
    <2>1. F[k] = <<a, b, c>>
      BY DEF Feed
    <2> HIDE DEF a, b, c, F
    <2>2. F[k][1] = a /\ F[k][2] = b /\ F[k][3] = c
      BY <2>1
    <2> QED
      BY <2>2 DEF a, b, c
  <1>3. ASSUME NEW k \in Tracked
        PROVE  F[k][1] \in Rates /\ F[k][2] \in Nat /\ F[k][3] \in BOOLEAN
    <2>1. folded[k].rate \in Rates /\ folded[k].limit \in Limits
      BY DEF KeyState
    <2>2. ColdRate(folded[k].limit, n) \in Nat
      BY <2>1, RatesType
    <2>3. Elsewhere(folded[k], k, foreign) \in BOOLEAN
      BY DEF Elsewhere
    <2> HIDE DEF F
    <2>4. F[k][1] \in Rates /\ F[k][2] \in Nat
      BY <1>2, <2>1, <2>2
    <2>5. F[k][3] \in BOOLEAN
      BY <1>2, <2>3, Zenon
    <2> QED
      BY <2>4, <2>5
  <1> HIDE DEF F
  <1>4. FedOK(F, Tracked)
    BY <1>3 DEF FedOK
  <1> QED
    BY <1>1, <1>2, <1>4 DEF F

\* Pass one brings every hot key's entry up to date; from a warm hot set it ends with
\* every other key left out that wants to be in, and if they all were left out at its
\* start, no key has joined or left.
LEMMA PassOneSettles ==
    ASSUME IsFiniteSet(Tracked), Tracked \subseteq Keys, HotSetOK(hot), DOMAIN hot \subseteq Tracked,
           now \in Times, NEW folded \in [Tracked -> KeyState], NEW order \in Orders,
           NEW n \in Sizes, NEW foreign, NEW F, F = Feed(folded, n, foreign),
           NEW one, one = PassOne(folded, order, n, foreign)
    PROVE  /\ DOMAIN one.hot \subseteq Tracked /\ Measured(one.hot, F, Tracked)
           /\ Warm(hot, F, {}) => OthersLeftOut(one.hot, F, Tracked)
           /\ Warm(hot, F, {}) /\ OthersLeftOut(hot, F, Tracked) => DOMAIN one.hot = DOMAIN hot
  <1> DEFINE m == Len(order)
  <1>1. /\ m \in Nat
        /\ \A i \in 1 .. m : order[i] \in Tracked
        /\ \A k \in Tracked : \E i \in 1 .. m : order[i] = k
    BY OrderIs
  <1>2. \A i, j \in 1 .. m : order[i] = order[j] => i = j
    <2>1. m = Cardinality(Tracked)
      BY OrderIs
    <2>2. DOMAIN order = 1 .. m /\ IsInjective(order)
      BY <2>1 DEF Orders
    <2> HIDE DEF m
    <2> QED
      BY <2>2 DEF IsInjective
  <1>3. PICK f : /\ Visits(f, folded, order, n, foreign, m)
                 /\ PassOne(folded, order, n, foreign) = f[m]
    BY <1>1, PassOneIs
  <1>4. /\ FedOK(F, Tracked)
        /\ \A k \in Tracked :
              /\ F[k][1] = folded[k].rate
              /\ F[k][2] = ColdRate(folded[k].limit, n)
              /\ F[k][3] = Elsewhere(folded[k], k, foreign)
    BY FeedIs
  <1> DEFINE seen(i) == {order[j] : j \in 1 .. i}
             good(i) ==
                /\ HotSetOK(f[i].hot)
                /\ DOMAIN f[i].hot \subseteq Tracked
                /\ Measured(f[i].hot, F, seen(i))
                /\ Warm(hot, F, {}) =>
                      /\ Warm(f[i].hot, F, seen(i))
                      /\ OthersLeftOut(f[i].hot, F, seen(i))
                /\ Warm(hot, F, {}) /\ OthersLeftOut(hot, F, Tracked) =>
                      /\ DOMAIN f[i].hot = DOMAIN hot
                      /\ OthersLeftOut(f[i].hot, F, Tracked)
             S == {i \in Nat : i <= m => good(i)}
  <1> HIDE DEF m
  <1>5. 0 \in S
    <2>1. f[0].hot = hot
      BY <1>3 DEF Visits
    <2>2. seen(0) = {}
      OBVIOUS
    <2> HIDE DEF seen
    <2>3. Measured(hot, F, {}) /\ OthersLeftOut(hot, F, {})
      BY DEF Measured, OthersLeftOut
    <2>4. good(0)
      BY <2>1, <2>2, <2>3
    <2> QED
      BY <2>4
  <1>6. ASSUME NEW i \in Nat, i \in S PROVE i + 1 \in S
    <2> SUFFICES ASSUME i + 1 <= m PROVE good(i + 1)
      OBVIOUS
    <2>1. PICK j \in 1 .. m : j = i + 1
      BY <1>1
    <2> DEFINE k == order[j]
               h == f[i].hot
               g == f[j].hot
               old == seen(i)
    <2>2. good(i)
      BY <1>1, <1>6, <2>1
    <2>3. f[j] = Visit(f[i], order[j], folded, n, foreign)
      <3>1. j - 1 = i
        BY <2>1
      <3> QED
        BY <1>3, <3>1 DEF Visits
    <2>4. g = UpdateWith(h, k, folded[k].rate, ColdRate(folded[k].limit, n), now,
                         Elsewhere(folded[k], k, foreign))
      BY <2>3 DEF Visit
    <2>5. k \in Tracked
      BY <1>1
    <2>6. seen(j) = old \cup {k} /\ k \notin old /\ old \subseteq Tracked
      <3>1. \A l \in 1 .. j : l = j \/ l \in 1 .. i
        BY <2>1
      <3>2. \A l \in 1 .. i : l \in 1 .. j /\ l \in 1 .. m /\ l # j
        BY <1>1, <2>1
      <3>3. j \in 1 .. j /\ j \in 1 .. m
        BY <1>1
      <3> QED
        BY <1>1, <1>2, <3>1, <3>2, <3>3
    <2>7. UpdatedFor(g, h, F, k)
      BY <1>4, <2>4, <2>5 DEF UpdatedFor
    <2>8. HotSetOK(g) /\ DOMAIN g \subseteq DOMAIN h \cup {k}
      <3> DEFINE r == folded[k].rate
                 c == ColdRate(folded[k].limit, n)
                 e == Elsewhere(folded[k], k, foreign)
      <3>1. HotSetOK(h) /\ k \in Keys /\ r \in Rates
        BY <2>2, <2>5 DEF KeyState
      <3>2. g = UpdateWith(h, k, r, c, now, e)
        BY <2>4
      <3> HIDE DEF h, g, r, c, e, k
      <3>3. HotSetOK(UpdateWith(h, k, r, c, now, e))
        BY <3>1, UpdateKeeps
      <3>4. DOMAIN UpdateWith(h, k, r, c, now, e) \subseteq DOMAIN h \cup {k}
        BY <3>1, UpdateKeeps
      <3> QED
        BY <3>2, <3>3, <3>4
    <2>9. HotSetOK(h) /\ DOMAIN h \subseteq Tracked
      BY <2>2
    <2> DEFINE warm == Warm(hot, F, {})
               left == OthersLeftOut(hot, F, Tracked)
    <2>10. /\ Measured(h, F, old)
           /\ warm => Warm(h, F, old) /\ OthersLeftOut(h, F, old)
           /\ warm /\ left => DOMAIN h = DOMAIN hot /\ OthersLeftOut(h, F, Tracked)
      BY <2>2
    <2> HIDE DEF h, g, k, old, warm, left
    <2>11. Measured(g, F, old \cup {k})
      BY <1>4, <2>5, <2>7, <2>9, <2>10, MeasuredOnVisit
    <2>12. ASSUME warm
           PROVE  /\ Warm(g, F, old \cup {k})
                  /\ OthersLeftOut(h, F, old) => OthersLeftOut(g, F, old \cup {k})
                  /\ OthersLeftOut(h, F, Tracked) =>
                        DOMAIN g = DOMAIN h /\ OthersLeftOut(g, F, Tracked)
      <3>1. Warm(h, F, old)
        BY <2>10, <2>12
      <3>2. old \subseteq Tracked /\ k \notin old /\ HotSetOK(g)
        BY <2>6, <2>8
      <3>3. FedOK(F, Tracked)
        BY <1>4
      <3>4. DOMAIN h \subseteq Tracked /\ k \in Tracked /\ HotSetOK(h) /\ UpdatedFor(g, h, F, k)
        BY <2>5, <2>7, <2>9
      <3> HIDE DEF seen
      <3> QED
        BY <3>1, <3>2, <3>3, <3>4, WarmOnVisit
    <2>13. DOMAIN g \subseteq Tracked
      BY <2>5, <2>8, <2>9
    <2>14. warm => Warm(g, F, seen(j)) /\ OthersLeftOut(g, F, seen(j))
      BY <2>6, <2>10, <2>12
    <2>15. warm /\ left => DOMAIN g = DOMAIN hot /\ OthersLeftOut(g, F, Tracked)
      BY <2>10, <2>12
    <2>16. Measured(g, F, seen(j))
      BY <2>6, <2>11
    <2>17. good(j)
      BY <2>8, <2>13, <2>14, <2>15, <2>16 DEF g, warm, left
    <2> QED
      BY <2>1, <2>17
  <1> HIDE DEF S
  <1>7. m \in S
    <2>1. Nat \subseteq S
      BY <1>5, <1>6, OneByOne
    <2> QED
      BY <1>1, <2>1
  <1>8. good(m)
    BY <1>1, <1>7 DEF S
  <1>9. seen(m) = Tracked
    BY <1>1
  <1> HIDE DEF seen
  <1>10. one.hot = f[m].hot
    BY <1>3
  <1> QED
    BY <1>8, <1>9, <1>10

----------------------------------------------------------------------------
\* The inductive invariant.

\* More keys are tracked than may be right after a tick only if attempts came since.
OverOnlyByAttempts ==
    lastTick = now /\ Cardinality(Tracked) > MaxTrackedKeys => \E k \in Tracked : keys[k].pending

LimiterInv ==
    /\ TypeOK
    /\ IsFiniteSet(Tracked)
    /\ HotSetOK(hot)
    /\ DOMAIN hot \cup shadows \subseteq Tracked
    /\ lastTick <= now
    /\ OverOnlyByAttempts
    /\ \A k \in Tracked : OwesABurst(keys[k])

\* No key at first.
LEMMA LimiterInit == Init => LimiterInv
  <1> SUFFICES ASSUME Init PROVE LimiterInv
    OBVIOUS
  <1>1. Tracked = {} /\ DOMAIN hot = {} /\ shadows = {} /\ now = 0 /\ lastTick = Never
        /\ cap = NoCap
    BY DEF Init, Tracked, EmptyHotSet
  <1>2. IsFiniteSet({}) /\ Cardinality({}) = 0
    BY FS_EmptySet
  <1>3. HotSetOK(hot)
    <2>1. hot \in [DOMAIN hot -> HotEntry]
      BY <1>1 DEF Init, EmptyHotSet
    <2> QED
      BY <1>1, <1>2, <2>1, HotSetAssumption DEF HotSetOK
  <1>4. keys \in [Tracked -> KeyState]
    BY <1>1 DEF Init, Tracked
  <1>5. 0 \in Times /\ Never \in Times \cup {Never} /\ Never <= 0
    BY LimiterAssumption DEF Times, Never
  <1>6. TypeOK
    BY <1>1, <1>3, <1>4, <1>5 DEF TypeOK, HotSetOK
  <1>7. OverOnlyByAttempts
    BY <1>1 DEF OverOnlyByAttempts, Never
  <1> QED
    BY <1>1, <1>2, <1>3, <1>5, <1>6, <1>7 DEF LimiterInv

\* entry() leaves every key a state, one more key at most tracked, and no key with
\* more debt than it may have.
LEMMA EntryKeeps ==
    ASSUME LimiterInv, NEW k \in Keys, NEW limit \in Limits, NEW n \in Sizes
    PROVE  LET e == Entry(k, limit, n) IN
           /\ e \in [Tracked \cup {k} -> KeyState]
           /\ \A j \in Tracked \cup {k} : OwesABurst(e[j])
  <1> DEFINE new == [limit |-> limit, rate |-> 0, pending |-> FALSE, measured |-> FALSE,
                     last |-> IF lastTick = Never THEN now ELSE lastTick,
                     tat |-> NoTat, applied |-> ColdQuota(limit, n)]
             e == Entry(k, limit, n)
  <1>1. keys \in [Tracked -> KeyState] /\ now \in Times /\ lastTick \in Times \cup {Never}
        /\ cap \in {NoCap} \cup Sizes
    BY DEF LimiterInv, TypeOK
  <1>2. ColdQuota(limit, n) \in Quotas
    BY <1>1, RatesType, QuotaType DEF ColdQuota
  <1>3. 0 \in Rates
    BY DemandAssumption DEF Rates
  <1>4. (IF lastTick = Never THEN now ELSE lastTick) \in Times
    BY <1>1
  <1>5. new \in KeyState
    BY <1>2, <1>3, <1>4 DEF KeyState
  <1>6. OwesABurst(new)
    <2>1. LargestBurst \in Nat /\ ColdQuota(limit, n).interval \in Nat
      BY <1>2, QuotaIs
    <2>2. \A a, b \in Nat : a * b \in Nat
      OBVIOUS
    <2>3. LargestBurst * ColdQuota(limit, n).interval \in Nat
      BY <2>1, <2>2
    <2> QED
      BY <1>1, <2>3 DEF OwesABurst, NoTat, Times
  <1>7. CASE k \in Tracked
    <2>1. e = [keys EXCEPT ![k].limit = limit] /\ Tracked \cup {k} = Tracked
      BY <1>7 DEF Entry
    <2>2. e \in [Tracked -> KeyState]
      BY <1>1, <1>7, <2>1 DEF KeyState
    <2>3. \A j \in Tracked : e[j].tat = keys[j].tat /\ e[j].applied = keys[j].applied
      BY <1>1, <1>7, <2>1 DEF KeyState
    <2>4. \A j \in Tracked : OwesABurst(e[j])
      BY <2>3 DEF LimiterInv, OwesABurst
    <2> QED
      BY <2>1, <2>2, <2>4
  <1>8. CASE k \notin Tracked
    <2>1. e = [j \in Tracked \cup {k} |-> IF j = k THEN new ELSE keys[j]]
      BY <1>8 DEF Entry
    <2> HIDE DEF new, e
    <2>2. e \in [Tracked \cup {k} -> KeyState]
      BY <1>1, <1>5, <2>1
    <2>3. \A j \in Tracked \cup {k} : OwesABurst(e[j])
      BY <1>6, <2>1 DEF LimiterInv
    <2> QED
      BY <2>2, <2>3 DEF e
  <1> QED
    BY <1>7, <1>8

\* A call that leaves the hot set alone and the key it was for with attempts that
\* no tick has measured.
LEMMA CallKeeps ==
    ASSUME LimiterInv, NEW k \in Keys, NEW g \in [Tracked \cup {k} -> KeyState],
           keys' = g, g[k].pending, \A j \in Tracked \cup {k} : OwesABurst(g[j]),
           UNCHANGED <<now, hot, cap, lastTick>>,
           shadows' \subseteq shadows \cup ({k} \cap Checked)
    PROVE  LimiterInv'
  <1>1. Tracked' = Tracked \cup {k}
    BY DEF Tracked
  <1>2. IsFiniteSet(Tracked')
    BY <1>1, FS_AddElement DEF LimiterInv
  <1>3. HotSetOK(hot')
    BY DEF LimiterInv
  <1>4. keys' \in [Tracked' -> KeyState]
    BY <1>1
  <1>5. TypeOK'
    BY <1>1, <1>3, <1>4 DEF LimiterInv, TypeOK, HotSetOK
  <1>6. DOMAIN hot' \cup shadows' \subseteq Tracked'
    BY <1>1 DEF LimiterInv
  <1>7. OverOnlyByAttempts'
    BY <1>1 DEF OverOnlyByAttempts
  <1>8. \A j \in Tracked' : OwesABurst(keys[j])'
    BY <1>1 DEF OwesABurst
  <1> QED
    BY <1>2, <1>3, <1>5, <1>6, <1>7, <1>8 DEF LimiterInv, HotSetOK

LEMMA CheckInKeeps ==
    ASSUME LimiterInv, NEW k \in Checked, NEW limit \in Limits, NEW n \in Sizes,
           NEW traced \in BOOLEAN, CheckIn(k, limit, traced, n)
    PROVE  LimiterInv'
  <1> DEFINE e == Entry(k, limit, n)
             D == Tracked \cup {k}
             g == [e EXCEPT ![k].pending = TRUE, ![k].tat = Checked1(e[k])]
  <1>1. k \in Keys
    BY DemandAssumption
  <1>2. e \in [D -> KeyState] /\ \A j \in D : OwesABurst(e[j])
    BY <1>1, EntryKeeps
  <1>3. now \in Times
    BY DEF LimiterInv, TypeOK
  <1>4. keys' = g /\ UNCHANGED <<now, hot, cap, lastTick>>
        /\ shadows' \subseteq shadows \cup ({k} \cap Checked)
    BY DEF CheckIn
  <1>5. /\ Checked1(e[k]) \in Nanos \cup {NoTat}
        /\ Checked1(e[k]) <= now + LargestBurst * e[k].applied.interval
    BY <1>2, <1>3, CheckKeeps
  <1> HIDE DEF e
  <1>6. g \in [D -> KeyState] /\ g[k].pending
    BY <1>2, <1>5, ZenonT(40) DEF KeyState
  <1>7. \A j \in D : OwesABurst(g[j])
    <2>1. \A j \in D : g[j].applied = e[j].applied
      BY <1>2 DEF KeyState
    <2>2. \A j \in D : g[j].tat = IF j = k THEN Checked1(e[k]) ELSE e[j].tat
      BY <1>2 DEF KeyState
    <2> HIDE DEF g
    <2> QED
      BY <1>2, <1>5, <2>1, <2>2 DEF OwesABurst
  <1> HIDE DEF g
  <1> QED
    BY <1>1, <1>4, <1>6, <1>7, CallKeeps

LEMMA RecordKeeps ==
    ASSUME LimiterInv, NEW k \in Keys, NEW limit \in Limits, NEW n \in Sizes, Record(k, limit, n)
    PROVE  LimiterInv'
  <1> DEFINE e == Entry(k, limit, n)
             D == Tracked \cup {k}
             g == [e EXCEPT ![k].pending = TRUE]
  <1>1. e \in [D -> KeyState] /\ \A j \in D : OwesABurst(e[j])
    BY EntryKeeps
  <1>2. keys' = g /\ UNCHANGED <<now, hot, cap, lastTick>>
        /\ shadows' \subseteq shadows \cup ({k} \cap Checked)
    BY DEF Record
  <1> HIDE DEF e
  <1>3. g \in [D -> KeyState] /\ g[k].pending
    BY <1>1 DEF KeyState
  <1>4. \A j \in D : g[j].applied = e[j].applied /\ g[j].tat = e[j].tat
    BY <1>1 DEF KeyState
  <1> HIDE DEF g
  <1>5. \A j \in D : OwesABurst(g[j])
    BY <1>1, <1>4 DEF OwesABurst
  <1> QED
    BY <1>2, <1>3, <1>5, CallKeeps

LEMMA ClockKeeps ==
    ASSUME LimiterInv, AdvanceClock
    PROVE  LimiterInv'
  <1>1. UNCHANGED <<keys, hot, shadows, cap, lastTick>> /\ now' = now + 1 /\ now' \in Times
        /\ lastTick < now' /\ lastTick' <= now' /\ now \in Nat
    BY LimiterAssumption DEF AdvanceClock, LimiterInv, TypeOK, Times, Never
  <1>2. HotSetOK(hot)' /\ IsFiniteSet(Tracked)' /\ Tracked' = Tracked
    BY <1>1 DEF LimiterInv, HotSetOK, Tracked
  <1>3. TypeOK'
    BY <1>1, <1>2 DEF LimiterInv, TypeOK
  <1>4. OverOnlyByAttempts'
    BY <1>1 DEF OverOnlyByAttempts
  <1>5. ASSUME NEW k \in Tracked PROVE OwesABurst(keys[k])'
    <2>1. keys[k] \in KeyState /\ OwesABurst(keys[k])
      BY DEF LimiterInv, TypeOK
    <2>2. LargestBurst \in Nat /\ keys[k].applied.interval \in Nat /\ keys[k].tat \in Int
      BY <2>1, QuotaIs DEF KeyState, Nanos, NoTat
    <2>3. \A a, b \in Nat : a * b \in Nat
      OBVIOUS
    <2>4. LargestBurst * keys[k].applied.interval \in Nat
      BY <2>2, <2>3
    <2> QED
      BY <1>1, <2>1, <2>2, <2>4 DEF OwesABurst
  <1> QED
    BY <1>1, <1>2, <1>3, <1>4, <1>5 DEF LimiterInv, HotSetOK

LEMMA SetCapKeeps ==
    ASSUME LimiterInv, NEW c \in {NoCap} \cup Sizes, SetCap(c)
    PROVE  LimiterInv'
  <1>1. cap' = c /\ UNCHANGED <<now, keys, hot, shadows, lastTick>>
    BY DEF SetCap
  <1>2. TypeOK' /\ HotSetOK(hot)' /\ OverOnlyByAttempts' /\ Tracked' = Tracked
    BY <1>1 DEF LimiterInv, TypeOK, HotSetOK, OverOnlyByAttempts, Tracked
  <1>3. \A k \in Tracked : OwesABurst(keys[k])'
    BY <1>1 DEF LimiterInv, OwesABurst
  <1> QED
    BY <1>1, <1>2, <1>3 DEF LimiterInv, HotSetOK

----------------------------------------------------------------------------
\* A tick.

\* Demand::tick at every key.
Folded(rate) == [k \in Tracked |-> Fold(keys[k], rate[k])]

\* A folded key is one, with the debt it had; a key whose attempts waited has
\* demand now, or they still wait.
LEMMA FoldKeeps ==
    ASSUME LimiterInv, NEW rate \in [Tracked -> Rates], \A k \in Tracked : MayFold(keys[k], rate[k])
    PROVE  /\ Folded(rate) \in [Tracked -> KeyState]
           /\ \A k \in Tracked : OwesABurst(Folded(rate)[k])
           /\ \A k \in Tracked : keys[k].pending =>
                 Folded(rate)[k].pending \/ Folded(rate)[k].rate > 0
  <1>1. now \in Times /\ keys \in [Tracked -> KeyState]
    BY DEF LimiterInv, TypeOK
  <1>2. ASSUME NEW k \in Tracked
        PROVE  /\ Fold(keys[k], rate[k]) \in KeyState
               /\ OwesABurst(Fold(keys[k], rate[k]))
               /\ keys[k].pending => \/ Fold(keys[k], rate[k]).pending
                                     \/ Fold(keys[k], rate[k]).rate > 0
    <2> DEFINE s == keys[k]
               t == Fold(s, rate[k])
    <2>1. s \in KeyState /\ OwesABurst(s) /\ rate[k] \in Rates /\ MayFold(s, rate[k])
      BY <1>1 DEF LimiterInv
    <2> HIDE DEF s
    <2>2. CASE now = s.last
      <3>1. t = s
        BY <2>2 DEF Fold
      <3> QED
        BY <2>1, <3>1 DEF s
    <2>3. CASE now # s.last
      <3>1. t = [s EXCEPT !.rate = rate[k], !.pending = FALSE, !.measured = TRUE, !.last = now]
        BY <2>3 DEF Fold
      <3>2. t \in KeyState /\ t.tat = s.tat /\ t.applied = s.applied /\ t.rate = rate[k]
        BY <1>1, <2>1, <3>1 DEF KeyState
      <3>3. s.pending => rate[k] > 0
        BY <2>1, <2>3 DEF MayFold
      <3> HIDE DEF t
      <3>4. OwesABurst(t)
        BY <2>1, <3>2 DEF OwesABurst
      <3>5. s.pending => t.rate > 0
        BY <3>2, <3>3
      <3> QED
        BY <3>2, <3>4, <3>5 DEF s, t
    <2> QED
      BY <2>2, <2>3
  <1> QED
    BY <1>2 DEF Folded

\* Pass two gives every key it keeps a quota.
LEMMA WantedType ==
    ASSUME NEW state \in KeyState, cap \in {NoCap} \cup Sizes, NEW k, NEW hotNow,
           NEW n \in Sizes, NEW foreign, NEW share \in ShareRates
    PROVE  Wanted(state, k, hotNow, n, foreign, share) \in Quotas
  <1> DEFINE limit == state.limit
             rate == IF k \in DOMAIN hotNow THEN share
                     ELSE IF Elsewhere(state, k, foreign)
                     THEN AtMost(Floor(limit, n), ColdRate(limit, n))
                     ELSE ColdRate(limit, n)
  <1>1. limit \in Limits /\ share \in Nat
    BY LimiterAssumption DEF KeyState
  <1>2. ColdRate(limit, n) \in Nat /\ Floor(limit, n) \in Nat
    BY <1>1, RatesType
  <1>3. rate \in Nat
    BY <1>1, <1>2 DEF AtMost
  <1>4. Wanted(state, k, hotNow, n, foreign, share) = PerSecond(Capped(rate, limit, cap), limit.burst)
    BY DEF Wanted
  <1> HIDE DEF limit, rate
  <1> QED
    BY <1>1, <1>3, <1>4, RatesType, QuotaType

\* enforce_cap(): only cold keys go, none while there are not too many, and in the
\* end there are not, for the hot keys alone are never too many.
LEMMA ReclaimKeeps ==
    ASSUME NEW hotNow, HotSetOK(hotNow), NEW quoted, IsFiniteSet(DOMAIN quoted),
           DOMAIN hotNow \subseteq DOMAIN quoted, NEW victims, Reclaims(quoted, hotNow, victims)
    PROVE  /\ victims \subseteq DOMAIN quoted /\ victims \cap DOMAIN hotNow = {}
           /\ Cardinality(DOMAIN quoted \ victims) <= MaxTrackedKeys
           /\ Cardinality(DOMAIN quoted) <= MaxTrackedKeys => victims = {}
  <1> DEFINE K == DOMAIN quoted
             H == DOMAIN hotNow
             cold == K \ H
             excess == AtLeast(Cardinality(K) - MaxTrackedKeys, 0)
  <1>1. victims \subseteq cold /\ Cardinality(victims) = AtMost(excess, Cardinality(cold))
    BY DEF Reclaims
  <1>2. Cardinality(K) \in Nat /\ IsFiniteSet(H) /\ Cardinality(H) \in Nat
        /\ Cardinality(H) <= HotSetSize
    BY FS_CardinalityType DEF HotSetOK
  <1>3. IsFiniteSet(cold) /\ Cardinality(cold) = Cardinality(K) - Cardinality(H)
    <2>1. K \cap H = H
      OBVIOUS
    <2> QED
      BY <2>1, FS_Difference
  <1>4. IsFiniteSet(victims) /\ Cardinality(victims) \in Nat
    BY <1>1, <1>3, FS_Subset, FS_CardinalityType
  <1>5. Cardinality(K \ victims) = Cardinality(K) - Cardinality(victims)
    <2>1. K \cap victims = victims
      BY <1>1
    <2> QED
      BY <2>1, FS_Difference
  <1>6. Cardinality(victims) = excess
    <2>1. \A a, b, m \in Nat : b <= m /\ b <= a => AtMost(AtLeast(a - m, 0), a - b) = AtLeast(a - m, 0)
      BY DEF AtLeast, AtMost
    <2>2. Cardinality(H) <= MaxTrackedKeys /\ MaxTrackedKeys \in Nat
      BY <1>2, HotSetAssumption, LimiterAssumption
    <2>3. Cardinality(H) <= Cardinality(K)
      BY <1>2, FS_Subset
    <2> HIDE DEF K, H, cold
    <2>4. AtMost(excess, Cardinality(K) - Cardinality(H)) = excess
      BY <1>2, <2>1, <2>2, <2>3
    <2> QED
      BY <1>1, <1>3, <2>4
  <1>7. Cardinality(K \ victims) <= MaxTrackedKeys
    BY <1>2, <1>5, <1>6, LimiterAssumption DEF AtLeast
  <1>8. Cardinality(K) <= MaxTrackedKeys => victims = {}
    BY <1>2, <1>4, <1>6, FS_EmptySet, LimiterAssumption DEF AtLeast
  <1> QED
    BY <1>1, <1>7, <1>8

\* What a tick leaves: the invariant, and every key whose attempts waited while
\* there were not too many keys.
LEMMA TickKeeps ==
    ASSUME LimiterInv, NEW n \in Sizes, NEW foreign, NEW rate \in [Tracked -> Rates],
           \A k \in Tracked : MayFold(keys[k], rate[k]), NEW share \in ShareRates,
           Tick(n, foreign, rate, share)
    PROVE  /\ LimiterInv'
           /\ \A k \in Tracked : keys[k].pending /\ Cardinality(Tracked) <= MaxTrackedKeys =>
                 k \in Tracked'
  <1> DEFINE folded == Folded(rate)
  <1>1. PICK order, one, quoted, victims :
           /\ order \in Orders
           /\ one = PassOne(folded, order, n, foreign)
           /\ quoted = [k \in one.kept |->
                          Requoted(folded[k], Wanted(folded[k], k, one.hot, n, foreign, share))]
           /\ Reclaims(quoted, one.hot, victims)
           /\ keys' = Restrict(quoted, one.kept \ victims)
           /\ hot' = one.hot
           /\ shadows' = shadows \cap (one.kept \ victims)
           /\ lastTick' = now
           /\ UNCHANGED <<now, cap>>
    BY DEF Tick, Folded
  <1> DEFINE K == one.kept \ victims
  <1>2. /\ now \in Times /\ cap \in {NoCap} \cup Sizes /\ Tracked \subseteq Keys
        /\ IsFiniteSet(Tracked) /\ HotSetOK(hot) /\ DOMAIN hot \subseteq Tracked
        /\ shadows \subseteq Checked
    BY DEF LimiterInv, TypeOK
  <1>3. /\ folded \in [Tracked -> KeyState]
        /\ \A k \in Tracked : OwesABurst(folded[k])
        /\ \A k \in Tracked : keys[k].pending => folded[k].pending \/ folded[k].rate > 0
    BY FoldKeeps
  <1> HIDE DEF folded
  <1>4. PassOneOK(one, folded)
    BY <1>1, <1>2, <1>3, PassOneKeeps
  <1>5. /\ HotSetOK(one.hot) /\ one.kept \subseteq Tracked /\ DOMAIN one.hot \subseteq one.kept
        /\ \A k \in Tracked : folded[k].pending \/ folded[k].rate > 0 => k \in one.kept
    BY <1>4 DEF PassOneOK
  <1>6. IsFiniteSet(one.kept) /\ Cardinality(one.kept) <= Cardinality(Tracked)
    BY <1>2, <1>5, FS_Subset
  <1>7. DOMAIN quoted = one.kept
    BY <1>1
  <1>8. /\ victims \subseteq one.kept /\ victims \cap DOMAIN one.hot = {}
        /\ Cardinality(K) <= MaxTrackedKeys
        /\ Cardinality(one.kept) <= MaxTrackedKeys => victims = {}
    <2>1. IsFiniteSet(DOMAIN quoted) /\ DOMAIN one.hot \subseteq DOMAIN quoted
      BY <1>5, <1>6, <1>7
    <2>2. /\ victims \subseteq DOMAIN quoted /\ victims \cap DOMAIN one.hot = {}
          /\ Cardinality(DOMAIN quoted \ victims) <= MaxTrackedKeys
          /\ Cardinality(DOMAIN quoted) <= MaxTrackedKeys => victims = {}
      BY <1>1, <1>5, <2>1, ReclaimKeeps, SMTT(40)
    <2> QED
      BY <1>7, <2>2
  <1>9. \A k \in one.kept : quoted[k] \in KeyState /\ OwesABurst(quoted[k])
    <2> TAKE k \in one.kept
    <2> DEFINE q == Wanted(folded[k], k, one.hot, n, foreign, share)
    <2>1. folded[k] \in KeyState /\ OwesABurst(folded[k])
      BY <1>3, <1>5
    <2>2. q \in Quotas
      BY <1>2, <2>1, WantedType
    <2>3. quoted[k] = Requoted(folded[k], q)
      BY <1>1
    <2> HIDE DEF q
    <2> QED
      BY <1>2, <2>1, <2>2, <2>3, RequotedKeeps
  <1>10. keys' = [k \in K |-> quoted[k]]
    BY <1>1 DEF Restrict
  <1> HIDE DEF K
  <1>11. Tracked' = K /\ K \subseteq one.kept /\ keys' \in [K -> KeyState]
    BY <1>9, <1>10 DEF Tracked, K
  <1>12. IsFiniteSet(Tracked')
    BY <1>6, <1>11, FS_Subset
  <1>13. DOMAIN hot' \cup shadows' \subseteq Tracked' /\ shadows' \subseteq Checked
    BY <1>1, <1>2, <1>5, <1>8, <1>11 DEF K
  <1>14. HotSetOK(hot')
    BY <1>1, <1>5
  <1>15. TypeOK'
    BY <1>1, <1>2, <1>5, <1>11, <1>13, <1>14 DEF TypeOK, HotSetOK
  <1>16. OverOnlyByAttempts'
    <2>1. Cardinality(Tracked') <= MaxTrackedKeys /\ Cardinality(Tracked') \in Nat
      BY <1>8, <1>11, <1>12, FS_CardinalityType
    <2> QED
      BY <2>1, LimiterAssumption DEF OverOnlyByAttempts
  <1>17. \A k \in Tracked' : OwesABurst(keys[k])'
    BY <1>1, <1>9, <1>10, <1>11 DEF OwesABurst
  <1>18. lastTick' <= now'
    BY <1>1, <1>2 DEF Times
  <1>19. LimiterInv'
    BY <1>12, <1>13, <1>14, <1>15, <1>16, <1>17, <1>18 DEF LimiterInv, HotSetOK
  <1>20. ASSUME NEW k \in Tracked, keys[k].pending, Cardinality(Tracked) <= MaxTrackedKeys
         PROVE  k \in Tracked'
    <2>1. k \in one.kept
      BY <1>3, <1>5, <1>20
    <2>2. victims = {}
      <3>1. Cardinality(one.kept) \in Nat /\ Cardinality(Tracked) \in Nat
        BY <1>2, <1>6, FS_CardinalityType
      <3> QED
        BY <1>6, <1>8, <1>20, <3>1, LimiterAssumption
    <2> QED
      BY <1>11, <2>1, <2>2 DEF K
  <1> QED
    BY <1>19, <1>20

----------------------------------------------------------------------------
\* Every step, and the theorems.

LEMMA LimiterStep ==
    ASSUME LimiterInv, [Next]_vars
    PROVE  LimiterInv'
  <1>1. CASE AdvanceClock
    BY <1>1, ClockKeeps
  <1>2. CASE \E k \in Keys, limit \in Limits, n \in Sizes :
                k \in Checked /\ \E traced \in BOOLEAN : CheckIn(k, limit, traced, n)
    BY <1>2, CheckInKeeps
  <1>3. CASE \E k \in Keys, limit \in Limits, n \in Sizes : Record(k, limit, n)
    BY <1>3, RecordKeeps
  <1>4. CASE \E c \in {NoCap} \cup Sizes : SetCap(c)
    BY <1>4, SetCapKeeps
  <1>5. CASE \E n \in Sizes, foreign \in SUBSET Foreign,
                rate \in {f \in [Tracked -> Rates] :
                            \A k \in Tracked : f[k] \in RatesOf[k] /\ MayFold(keys[k], f[k])},
                share \in ShareRates : Tick(n, foreign, rate, share)
    BY <1>5, TickKeeps
  <1>6. CASE UNCHANGED vars
    <2>1. UNCHANGED <<now, keys, hot, shadows, cap, lastTick>>
      BY <1>6 DEF vars
    <2>2. TypeOK' /\ HotSetOK(hot)' /\ OverOnlyByAttempts' /\ Tracked' = Tracked
      BY <2>1 DEF LimiterInv, TypeOK, HotSetOK, OverOnlyByAttempts, Tracked
    <2>3. \A k \in Tracked : OwesABurst(keys[k])'
      BY <2>1 DEF LimiterInv, OwesABurst
    <2> QED
      BY <2>1, <2>2, <2>3 DEF LimiterInv, HotSetOK
  <1> QED
    BY <1>1, <1>2, <1>3, <1>4, <1>5, <1>6 DEF Next

LEMMA LimiterAlways == Spec => []LimiterInv
  BY LimiterInit, LimiterStep, PTL DEF Spec

\* The caps of the configuration hold at every tick, in whatever order the maps are
\* walked: hot keys and shadows are tracked, so that enforce_cap, which never takes
\* a hot key, always gets under max_tracked_keys.
THEOREM CapsHold == Spec => []CapsKept
  <1>1. LimiterInv => CapsKept
    <2> SUFFICES ASSUME LimiterInv PROVE CapsKept
      OBVIOUS
    <2>1. TypeOK /\ DOMAIN hot \cup shadows \subseteq Tracked
          /\ Cardinality(DOMAIN hot) <= HotSetSize
      BY DEF LimiterInv, HotSetOK
    <2>2. lastTick = now /\ (\A k \in Tracked : ~keys[k].pending) =>
             Cardinality(Tracked) <= MaxTrackedKeys
      <3>1. Cardinality(Tracked) \in Nat
        BY FS_CardinalityType DEF LimiterInv
      <3> QED
        BY <3>1, LimiterAssumption DEF LimiterInv, OverOnlyByAttempts
    <2> QED
      BY <2>1, <2>2 DEF CapsKept
  <1> QED
    BY <1>1, LimiterAlways, PTL

\* A key never owes more than one burst at the quota in force, whatever changes of
\* share Gcra::set_quota carried its debt through.
THEOREM DebtIsBounded == Spec => []DebtBounded
  <1>1. LimiterInv => DebtBounded
    BY DEF LimiterInv, DebtBounded, OwesABurst
  <1> QED
    BY <1>1, LimiterAlways, PTL

\* Attempts that no tick has measured keep their key through every tick, save for
\* the cap on the tracked keys.
THEOREM NoAttemptIsLost == Spec => NoAttemptLost
  <1> DEFINE Keeps == \A k \in Tracked :
                         keys[k].pending /\ Cardinality(Tracked) <= MaxTrackedKeys => k \in DOMAIN keys'
  <1>1. ASSUME LimiterInv, [Next]_vars PROVE [Keeps]_vars
    <2>1. CASE AdvanceClock
      BY <2>1 DEF AdvanceClock, Tracked
    <2>2. CASE \E k \in Keys, limit \in Limits, n \in Sizes :
                  \/ k \in Checked /\ \E traced \in BOOLEAN : CheckIn(k, limit, traced, n)
                  \/ Record(k, limit, n)
      <3>1. PICK k \in Keys, limit \in Limits, n \in Sizes :
               \/ k \in Checked /\ \E traced \in BOOLEAN : CheckIn(k, limit, traced, n)
               \/ Record(k, limit, n)
        BY <2>2
      <3>2. DOMAIN Entry(k, limit, n) = Tracked \cup {k}
        BY <1>1, EntryKeeps
      <3>3. DOMAIN keys' = DOMAIN Entry(k, limit, n)
        BY <3>1 DEF CheckIn, Record
      <3> QED
        BY <3>2, <3>3
    <2>3. CASE \E c \in {NoCap} \cup Sizes : SetCap(c)
      BY <2>3 DEF SetCap, Tracked
    <2>4. CASE \E n \in Sizes, foreign \in SUBSET Foreign,
                  rate \in {f \in [Tracked -> Rates] :
                              \A k \in Tracked : f[k] \in RatesOf[k] /\ MayFold(keys[k], f[k])},
                  share \in ShareRates : Tick(n, foreign, rate, share)
      BY <1>1, <2>4, TickKeeps DEF Tracked
    <2>5. CASE UNCHANGED vars
      BY <2>5
    <2> QED
      BY <1>1, <2>1, <2>2, <2>3, <2>4, <2>5 DEF Next
  <1> QED
    BY <1>1, LimiterAlways, PTL DEF Spec, NoAttemptLost

----------------------------------------------------------------------------
\* The hot set over the ticks.

\* What is fed and counted between ticks, beside the invariant: every hot key has
\* the demand that was fed and a reason to be hot; after a tick fed with the same
\* demand while no key cooled, the keys outside are left out for good.
SettledInv ==
    /\ LimiterInv
    /\ steady \in 0 .. 2
    /\ DOMAIN hot \subseteq DOMAIN fed
    /\ \A k \in DOMAIN hot : HotFor(hot[k], fed[k])
    /\ steady >= 1 => OthersLeftOut(hot, fed, DOMAIN fed)

LEMMA TickSettles ==
    ASSUME SettledInv, NEW n \in Sizes, NEW foreign, NEW rate \in [Tracked -> Rates],
           \A k \in Tracked : MayFold(keys[k], rate[k]), NEW share \in ShareRates,
           Tick(n, foreign, rate, share)
    PROVE  SettledInv' /\ (steady' = 2 /\ fed' = fed => DOMAIN hot' = DOMAIN hot)
  <1> DEFINE cools == \E k \in DOMAIN hot : hot[k].cooling # NotCooling
  <1>1. PICK folded, order, one, F :
           /\ folded = Folded(rate) /\ order \in Orders
           /\ F = Feed(folded, n, foreign)
           /\ one = PassOne(folded, order, n, foreign)
           /\ hot' = one.hot
           /\ fed' = F
           /\ steady' = IF F = fed /\ ~cools THEN AtMost(steady + 1, 2) ELSE 0
    BY DEF Tick, Folded
  <1>2. LimiterInv /\ IsFiniteSet(Tracked) /\ Tracked \subseteq Keys /\ HotSetOK(hot)
        /\ DOMAIN hot \subseteq Tracked /\ now \in Times
    BY DEF SettledInv, LimiterInv, TypeOK
  <1>3. folded \in [Tracked -> KeyState]
    BY <1>1, <1>2, FoldKeeps
  <1>4. DOMAIN F = Tracked
    BY <1>1, <1>3 DEF Feed
  <1>5. /\ DOMAIN one.hot \subseteq Tracked /\ Measured(one.hot, F, Tracked)
        /\ Warm(hot, F, {}) => OthersLeftOut(one.hot, F, Tracked)
        /\ Warm(hot, F, {}) /\ OthersLeftOut(hot, F, Tracked) => DOMAIN one.hot = DOMAIN hot
    BY <1>1, <1>2, <1>3, PassOneSettles
  <1>6. LimiterInv'
    BY <1>2, TickKeeps
  <1>7. steady \in 0 .. 2 /\ steady' \in 0 .. 2 /\ (steady' = 2 => steady >= 1)
    BY <1>1 DEF SettledInv, AtMost
  <1>8. steady' >= 1 => F = fed /\ Warm(hot, F, {})
    <2>1. steady' >= 1 => F = fed /\ ~cools
      BY <1>1
    <2>2. F = fed /\ ~cools => Warm(hot, F, {})
      BY DEF SettledInv, Warm
    <2> QED
      BY <2>1, <2>2
  <1>9. steady' >= 1 => OthersLeftOut(one.hot, F, Tracked)
    BY <1>5, <1>8
  <1>10. \A k \in DOMAIN one.hot : HotFor(one.hot[k], F[k])
    BY <1>5 DEF Measured
  <1>11. steady' = 2 => DOMAIN one.hot = DOMAIN hot
    <2> SUFFICES ASSUME steady' = 2 PROVE DOMAIN one.hot = DOMAIN hot
      OBVIOUS
    <2>1. steady >= 1 /\ F = fed /\ Warm(hot, F, {})
      BY <1>7, <1>8
    <2>2. OthersLeftOut(hot, F, Tracked)
      BY <1>4, <2>1 DEF SettledInv
    <2> QED
      BY <1>5, <2>1, <2>2
  <1>12. DOMAIN hot' \subseteq DOMAIN fed' /\ \A k \in DOMAIN hot' : HotFor(hot'[k], fed'[k])
    BY <1>1, <1>4, <1>5, <1>10
  <1>13. steady' >= 1 => OthersLeftOut(hot', fed', DOMAIN fed')
    BY <1>1, <1>4, <1>9
  <1>14. SettledInv'
    BY <1>6, <1>7, <1>12, <1>13 DEF SettledInv
  <1> QED
    BY <1>1, <1>11, <1>14

\* Every other step leaves the hot set and what was fed as they are.
LEMMA SettledStep ==
    ASSUME SettledInv, [Next]_vars
    PROVE  SettledInv' /\ (steady' = 2 /\ fed' = fed => DOMAIN hot' = DOMAIN hot)
  <1>1. LimiterInv'
    BY LimiterStep DEF SettledInv
  <1>2. CASE UNCHANGED <<hot, fed, steady>>
    BY <1>1, <1>2 DEF SettledInv
  <1>3. CASE \E n \in Sizes, foreign \in SUBSET Foreign,
                rate \in {f \in [Tracked -> Rates] :
                            \A k \in Tracked : f[k] \in RatesOf[k] /\ MayFold(keys[k], f[k])},
                share \in ShareRates : Tick(n, foreign, rate, share)
    BY <1>3, TickSettles
  <1>4. CASE \/ AdvanceClock
             \/ \E k \in Keys, limit \in Limits, n \in Sizes :
                   \/ k \in Checked /\ \E traced \in BOOLEAN : CheckIn(k, limit, traced, n)
                   \/ k \notin Checked /\ Record(k, limit, n)
             \/ \E c \in {NoCap} \cup Sizes : SetCap(c)
             \/ UNCHANGED vars
    <2>1. UNCHANGED <<hot, fed, steady>>
      BY <1>4, ZenonT(40) DEF AdvanceClock, CheckIn, Record, SetCap, vars
    <2> QED
      BY <1>2, <2>1
  <1> QED
    BY <1>3, <1>4 DEF Next

\* The hot set does not flap: once two ticks were fed with the same demand while no
\* key cooled, a third one lets no key in and none go, whatever order Limiter::tick
\* walks the keys in. The margin of promote() is what it takes: a key that was left
\* out, or lost its place, cannot beat the weakest key of a set that only got busier.
THEOREM HotSetIsSteady == Spec => HotSetSettles
  <1>1. Init => SettledInv
    <2> SUFFICES ASSUME Init PROVE SettledInv
      OBVIOUS
    <2>1. LimiterInv
      BY LimiterInit
    <2>2. steady = 0 /\ DOMAIN hot = {}
      BY DEF Init, EmptyHotSet
    <2> QED
      BY <2>1, <2>2 DEF SettledInv
  <1>2. SettledInv /\ [Next]_vars => SettledInv'
    BY SettledStep
  <1>3. SettledInv /\ [Next]_vars =>
           [steady' = 2 /\ fed' = fed => DOMAIN hot' = DOMAIN hot]_vars
    BY SettledStep
  <1> QED
    BY <1>1, <1>2, <1>3, PTL DEF Spec, HotSetSettles

----------------------------------------------------------------------------
\* How much a key was admitted, against the debt it is left with.

\* A division rounded up is the least number that times the divisor is enough.
LEMMA DivCeilIs ==
    ASSUME NEW a \in Nat, NEW d \in Nat \ {0}
    PROVE  /\ DivCeil(a, d) \in Nat
           /\ a <= d * DivCeil(a, d)
           /\ \A n \in Nat : a <= d * n => DivCeil(a, d) <= n
  <1> DEFINE x == a + d - 1
             q == x \div d
  <1>1. x \in Nat /\ q \in Nat /\ d * q <= x /\ x < d * (q + 1)
    OBVIOUS
  <1>2. DivCeil(a, d) = q
    BY DEF DivCeil
  <1> HIDE DEF q
  <1>3. d * (q + 1) = d * q + d /\ d * q \in Nat
    BY <1>1
  <1>4. a <= d * q
    BY <1>1, <1>3
  <1>5. ASSUME NEW n \in Nat, a <= d * n PROVE q <= n
    <2>1. d * (n + 1) = d * n + d /\ d * n \in Nat
      OBVIOUS
    <2>2. x < d * (n + 1)
      BY <1>5, <2>1
    <2> HIDE DEF x
    <2>3. x \div d <= n
      BY <1>1, <2>2, Division
    <2> QED
      BY <2>3 DEF q
  <1> QED
    BY <1>1, <1>2, <1>4, <1>5

\* It grows with what is divided and shrinks with the divisor.
LEMMA DivCeilGrows ==
    ASSUME NEW a \in Nat, NEW b \in Nat, NEW c \in Nat \ {0}, NEW d \in Nat \ {0},
           a <= b, c <= d
    PROVE  DivCeil(a, d) <= DivCeil(b, c)
  <1>1. DivCeil(b, c) \in Nat /\ b <= c * DivCeil(b, c)
    BY DivCeilIs
  <1>2. c * DivCeil(b, c) <= d * DivCeil(b, c) /\ c * DivCeil(b, c) \in Nat
        /\ d * DivCeil(b, c) \in Nat
    BY <1>1, Products
  <1>3. a <= d * DivCeil(b, c)
    BY <1>1, <1>2
  <1> QED
    BY <1>1, <1>3, DivCeilIs

\* The unit an interval is held in: the finest that holds it.
Fits(interval, u) == DivCeil(interval, Units[u]) < IntervalLimit
HeldIn(interval, u) ==
    /\ u \in 1 .. Len(Units)
    /\ Fits(interval, u)
    /\ \A v \in 1 .. u - 1 : ~Fits(interval, v)

LEMMA EncodeIs ==
    ASSUME NEW interval \in Nat \ {0}, interval <= MaxInterval
    PROVE  \E u : HeldIn(interval, u)
                  /\ EncodeInterval(interval) = [value |-> DivCeil(interval, Units[u]), unit |-> u]
  <1> DEFINE n == Len(Units)
             F == {u \in 1 .. n : Fits(interval, u)}
  <1>1. /\ n \in Nat \ {0} /\ DOMAIN Units = 1 .. n
        /\ \A u \in 1 .. n : Units[u] \in Nat \ {0}
        /\ IntervalLimit \in Nat \ {0, 1}
    BY UnitsAssumption
  <1>2. Fits(interval, n)
    <2>1. Units[n] \in Nat \ {0} /\ IntervalLimit - 1 \in Nat
      BY <1>1
    <2>2. MaxInterval = Units[n] * (IntervalLimit - 1)
      BY <2>1 DEF MaxInterval
    <2>3. DivCeil(interval, Units[n]) <= IntervalLimit - 1 /\ DivCeil(interval, Units[n]) \in Nat
      BY <2>1, <2>2, DivCeilIs
    <2> QED
      BY <1>1, <2>3 DEF Fits
  <1>3. F \subseteq Nat /\ F # {}
    BY <1>1, <1>2
  <1>4. PICK least \in F : \A v \in F : least <= v
    BY <1>3, LeastOf
  <1>5. least \in DOMAIN Units /\ Fits(interval, least) /\ \A v \in 1 .. least - 1 : ~Fits(interval, v)
    BY <1>1, <1>4
  <1> DEFINE unit == CHOOSE u \in DOMAIN Units :
                        Fits(interval, u) /\ \A v \in 1 .. u - 1 : ~Fits(interval, v)
  <1>6. HeldIn(interval, unit)
    BY <1>1, <1>5 DEF HeldIn
  <1>7. EncodeInterval(interval) = [value |-> DivCeil(interval, Units[unit]), unit |-> unit]
    BY DEF EncodeInterval, Fits
  <1> QED
    BY <1>6, <1>7

\* A longer interval is held as no shorter a one.
LEMMA EncodeGrows ==
    ASSUME NEW a \in Nat \ {0}, NEW b \in Nat \ {0}, a <= b, b <= MaxInterval
    PROVE  LET e == EncodeInterval(a)
               f == EncodeInterval(b)
           IN  e.value * Units[e.unit] <= f.value * Units[f.unit]
  <1>1. MaxInterval \in Nat
    <2>1. Units[Len(Units)] \in Nat \ {0} /\ IntervalLimit - 1 \in Nat \ {0}
      BY UnitsAssumption
    <2> QED
      BY <2>1 DEF MaxInterval
  <1>2. PICK u : HeldIn(a, u) /\ EncodeInterval(a) = [value |-> DivCeil(a, Units[u]), unit |-> u]
    <2>1. a <= MaxInterval
      BY <1>1
    <2> QED
      BY <2>1, EncodeIs
  <1>3. PICK v : HeldIn(b, v) /\ EncodeInterval(b) = [value |-> DivCeil(b, Units[v]), unit |-> v]
    BY EncodeIs
  <1>4. u \in Nat /\ v \in Nat /\ Units[u] \in Nat \ {0} /\ Units[v] \in Nat \ {0}
        /\ IntervalLimit \in Nat
    BY <1>2, <1>3, UnitsAssumption DEF HeldIn
  <1> DEFINE x == DivCeil(a, Units[u])
             y == DivCeil(b, Units[v])
  <1>5. x \in Nat /\ y \in Nat /\ b <= Units[v] * y
    BY <1>4, DivCeilIs
  <1>6. CASE u = v
    <2>1. x <= y
      BY <1>4, <1>6, DivCeilGrows
    <2> HIDE DEF x, y
    <2>2. x * Units[v] <= y * Units[v]
      BY <1>4, <1>5, <2>1, Products
    <2> QED
      BY <1>2, <1>3, <1>6, <2>2 DEF x, y
  <1>7. CASE u < v
    \* b does not fit in the unit a is held in.
    <2>1. ~Fits(b, u)
      BY <1>3, <1>4, <1>7, <1>2 DEF HeldIn
    <2> DEFINE w == DivCeil(b, Units[u])
    <2>2. w \in Nat /\ \A k \in Nat : b <= Units[u] * k => w <= k
      BY <1>4, DivCeilIs
    <2>6. ~(w < IntervalLimit)
      BY <2>1 DEF Fits
    <2>7. x < IntervalLimit
      BY <1>2 DEF HeldIn, Fits
    <2> HIDE DEF x, w
    <2>3. ~(b <= Units[u] * x)
      BY <1>4, <1>5, <2>2, <2>6, <2>7
    <2>4. Units[u] * x \in Nat /\ Units[u] * x <= Units[v] * y /\ Units[v] * y \in Nat
      BY <1>4, <1>5, <2>3
    <2>5. Units[u] * x = x * Units[u] /\ Units[v] * y = y * Units[v]
      BY <1>4, <1>5
    <2> QED
      BY <1>2, <1>3, <2>4, <2>5 DEF x, y
  <1>8. CASE v < u
    \* a would fit in the unit b is held in.
    <2>1. ~Fits(a, v)
      BY <1>3, <1>4, <1>8, <1>2 DEF HeldIn
    <2> DEFINE w == DivCeil(a, Units[v])
    <2>2. w \in Nat
      BY <1>4, DivCeilIs
    <2>3. w <= y
      <3>1. a \in Nat /\ b \in Nat /\ Units[v] <= Units[v]
        BY <1>4
      <3> QED
        BY <1>4, <3>1, DivCeilGrows
    <2>4. ~(w < IntervalLimit)
      BY <2>1 DEF Fits
    <2>5. y < IntervalLimit
      BY <1>3 DEF HeldIn, Fits
    <2> HIDE DEF w, y
    <2> QED
      BY <1>4, <1>5, <2>2, <2>3, <2>4, <2>5
  <1> QED
    BY <1>4, <1>6, <1>7, <1>8

\* The higher the rate, the shorter the interval of its quota.
LEMMA PerSecondShrinks ==
    ASSUME NEW r \in Nat, NEW s \in Nat, r <= s, NEW b, NEW c
    PROVE  PerSecond(s, b).interval <= PerSecond(r, c).interval
  <1> DEFINE asked(x) == IF x = 0 THEN MaxInterval ELSE DivCeil(OneSec, x)
             held(x) == AtMost(AtLeast(asked(x), 1), MaxInterval)
  <1>1. MaxInterval \in Nat \ {0}
    <2>1. Units[Len(Units)] \in Nat \ {0} /\ IntervalLimit - 1 \in Nat \ {0}
      BY UnitsAssumption
    <2>2. \A x, y \in Nat \ {0} : x * y \in Nat \ {0}
      OBVIOUS
    <2> QED
      BY <2>1, <2>2 DEF MaxInterval
  <1>2. OneSec \in Nat
    BY UnitsAssumption
  <1>3. asked(r) \in Nat /\ asked(s) \in Nat
    BY <1>1, <1>2, DivCeilIs
  <1>4. r # 0 => asked(s) <= asked(r)
    BY <1>2, DivCeilGrows
  <1>5. r = 0 => asked(r) = MaxInterval
    OBVIOUS
  <1> HIDE DEF asked
  <1>6. held(s) \in Nat \ {0} /\ held(r) \in Nat \ {0} /\ held(s) <= held(r) /\ held(r) <= MaxInterval
    BY <1>1, <1>3, <1>4, <1>5 DEF AtMost, AtLeast
  <1>7. /\ PerSecond(s, b).interval =
             EncodeInterval(held(s)).value * Units[EncodeInterval(held(s)).unit]
        /\ PerSecond(r, c).interval =
             EncodeInterval(held(r)).value * Units[EncodeInterval(held(r)).unit]
    BY DEF PerSecond, WithInterval, asked
  <1> HIDE DEF held
  <1> QED
    BY <1>6, <1>7, EncodeGrows

\* A quota the limiter may give a key: of its share, of the cold rate, or of the
\* floor it is held to while it is hot at a peer, with or without the cap.
MayBeGiven(rate, limit) ==
    \/ rate \in ShareRates
    \/ \E n \in Sizes : \/ rate = ColdRate(limit, n)
                        \/ rate = AtMost(Floor(limit, n), ColdRate(limit, n))
GivenInterval(i) ==
    \E limit \in Limits, c \in {NoCap} \cup Sizes, rate \in Nat :
        /\ MayBeGiven(rate, limit)
        /\ i = PerSecond(Capped(rate, limit, c), limit.burst).interval

\* No share is larger than a limit.
SharesWithin == \A share \in ShareRates, limit \in Limits : share <= limit.rate

\* The clock stays in the half of the word that MAX_TAU leaves it.
ClockWithin == Horizon + MaxTau < MaxNanos

\* Either every limit has the same burst or no debt is long enough to saturate a TAT.
OneBurst == \A limit \in Limits : limit.burst = LargestBurst
NoneSaturates == \A i \in Nat : GivenInterval(i) => Horizon + LargestBurst * i < MaxNanos

\* No limit has a shorter interval than the fastest.
LEMMA FastestIs ==
    /\ FastestInterval \in Nat \ {0}
    /\ \A l \in Limits : FastestInterval <= PerSecond(l.rate, l.burst).interval
  <1> DEFINE I == {PerSecond(l.rate, l.burst).interval : l \in Limits}
  <1>1. \A l \in Limits : PerSecond(l.rate, l.burst).interval \in Nat \ {0}
    BY LimitsAssumption, PerSecondType
  <1>2. I \subseteq Nat \ {0} /\ I \subseteq Nat /\ I # {}
    BY <1>1, LimitsAssumption
  <1>3. \E x \in I : \A y \in I : x <= y
    BY <1>2, LeastOf
  <1>4. Min(I) \in I /\ \A y \in I : Min(I) <= y
    BY <1>3 DEF Min
  <1>5. FastestInterval = Min(I)
    BY DEF FastestInterval
  <1> QED
    BY <1>2, <1>4, <1>5

\* A part of a limit is no more than the limit.
LEMMA PartIsLess ==
    ASSUME NEW a \in Nat, NEW d \in Nat \ {0}
    PROVE  a \div d \in Nat /\ a \div d <= a
  <1>1. a < d * (a + 1)
    <2>1. 1 * (a + 1) <= d * (a + 1) /\ d * (a + 1) \in Nat
      BY Products
    <2> QED
      BY <2>1
  <1> QED
    BY <1>1, Division

\* No key is given a shorter interval than that of the fastest limit.
LEMMA GivenIsSlower ==
    ASSUME SharesWithin, NEW i, GivenInterval(i)
    PROVE  i \in Nat \ {0} /\ FastestInterval <= i
  <1>1. PICK limit \in Limits, c \in {NoCap} \cup Sizes, rate \in Nat :
           MayBeGiven(rate, limit) /\ i = PerSecond(Capped(rate, limit, c), limit.burst).interval
    BY DEF GivenInterval
  <1>2. limit.rate \in Nat
    BY LimitsAssumption
  <1>p. \A a, b \in Nat \ {0} : a * b \in Nat \ {0}
    OBVIOUS
  <1>3. \A n \in Sizes : /\ ColdRate(limit, n) \in Nat /\ ColdRate(limit, n) <= limit.rate
                         /\ Floor(limit, n) \in Nat
    <2> TAKE n \in Sizes
    <2>1. n * Alpha \in Nat \ {0} /\ Beta * n \in Nat \ {0}
      BY <1>p, LimiterAssumption
    <2> QED
      BY <1>2, <2>1, PartIsLess DEF ColdRate, Floor
  <1>4. rate <= limit.rate
    <2>1. CASE rate \in ShareRates
      BY <2>1 DEF SharesWithin
    <2>2. CASE rate \notin ShareRates
      <3>1. PICK n \in Sizes : \/ rate = ColdRate(limit, n)
                               \/ rate = AtMost(Floor(limit, n), ColdRate(limit, n))
        BY <1>1, <2>2 DEF MayBeGiven
      <3>2. /\ ColdRate(limit, n) \in Nat /\ ColdRate(limit, n) <= limit.rate
            /\ Floor(limit, n) \in Nat
        BY <1>3
      <3> QED
        BY <1>2, <3>1, <3>2 DEF AtMost
    <2> QED
      BY <2>1, <2>2
  <1>5. Capped(rate, limit, c) \in Nat /\ Capped(rate, limit, c) <= limit.rate
    <2>1. c # NoCap => limit.rate \div (Beta * c) \in Nat
      BY <1>2, <1>p, Division, LimiterAssumption
    <2>2. Capped(rate, limit, c) \in Nat /\ Capped(rate, limit, c) <= rate
      BY <1>1, <2>1 DEF Capped, AtMost
    <2> QED
      BY <1>2, <1>4, <2>2
  <1>6. PerSecond(limit.rate, limit.burst).interval <= i
    BY <1>1, <1>2, <1>5, PerSecondShrinks
  <1>7. i \in Nat \ {0}
    BY <1>1, <1>5, PerSecondType
  <1>8. FastestInterval \in Nat /\ FastestInterval <= PerSecond(limit.rate, limit.burst).interval
        /\ PerSecond(limit.rate, limit.burst).interval \in Nat
    BY <1>2, FastestIs, PerSecondType
  <1> QED
    BY <1>6, <1>7, <1>8

\* What a key not seen before starts with, and what pass two wants, may be given.
LEMMA ColdIsGiven ==
    ASSUME NEW limit \in Limits, NEW n \in Sizes, cap \in {NoCap} \cup Sizes
    PROVE  GivenInterval(ColdQuota(limit, n).interval)
  <1>1. ColdRate(limit, n) \in Nat
    BY RatesType
  <1>2. MayBeGiven(ColdRate(limit, n), limit)
    BY DEF MayBeGiven
  <1> QED
    BY <1>1, <1>2 DEF GivenInterval, ColdQuota

LEMMA WantedIsGiven ==
    ASSUME NEW state \in KeyState, cap \in {NoCap} \cup Sizes, NEW k, NEW hotNow,
           NEW n \in Sizes, NEW foreign, NEW share \in ShareRates
    PROVE  GivenInterval(Wanted(state, k, hotNow, n, foreign, share).interval)
  <1> DEFINE limit == state.limit
             rate == IF k \in DOMAIN hotNow THEN share
                     ELSE IF Elsewhere(state, k, foreign)
                     THEN AtMost(Floor(limit, n), ColdRate(limit, n))
                     ELSE ColdRate(limit, n)
  <1>1. limit \in Limits /\ share \in Nat
    BY LimiterAssumption DEF KeyState
  <1>2. ColdRate(limit, n) \in Nat /\ Floor(limit, n) \in Nat
    BY <1>1, RatesType
  <1>3. rate \in Nat
    BY <1>1, <1>2 DEF AtMost
  <1>4. MayBeGiven(rate, limit)
    BY DEF MayBeGiven
  <1>5. Wanted(state, k, hotNow, n, foreign, share) = PerSecond(Capped(rate, limit, cap), limit.burst)
    BY DEF Wanted
  <1> HIDE DEF limit, rate
  <1> QED
    BY <1>1, <1>3, <1>4, <1>5 DEF GivenInterval

\* A common factor cancels; a product grows with an integer factor.
LEMMA Cancel ==
    ASSUME NEW a \in Int, NEW b \in Int, NEW c \in Nat \ {0}, c * a <= c * b
    PROVE  a <= b
  <1>1. CASE a > b
    <2>1. PICK x \in Nat \ {0} : a = b + x
      <3>1. a - b \in Nat \ {0} /\ a = b + (a - b)
        BY <1>1
      <3> QED
        BY <3>1
    <2>2. c * x \in Nat \ {0} /\ c * (b + x) = c * b + c * x
      OBVIOUS
    <2> QED
      BY <2>1, <2>2
  <1> QED
    BY <1>1

LEMMA Grows ==
    ASSUME NEW a \in Int, NEW b \in Int, NEW c \in Nat, a <= b
    PROVE  c * a <= c * b /\ c * a \in Int /\ c * b \in Int
  <1>1. PICK x \in Nat : b = a + x
    <2>1. b - a \in Nat /\ b = a + (b - a)
      OBVIOUS
    <2> QED
      BY <2>1
  <1>2. c * x \in Nat /\ c * (a + x) = c * a + c * x /\ c * a \in Int
    OBVIOUS
  <1> QED
    BY <1>1, <1>2

\* A key is ahead by e half nanoseconds of what its limits give.  Its debt in
\* requests accounts for them, or its TAT is saturated and they are a burst at most.
Behind(g, at, e) ==
    \/ g.applied.interval * e <= 2 * FastestInterval * SatSub(g.tat, at)
    \/ g.tat = MaxNanos /\ e <= 2 * FastestInterval * LargestBurst

\* What is known of a key's state.
LEMMA StateIs ==
    ASSUME NEW g \in KeyState, now \in Times, OwesABurst(g)
    PROVE  /\ g.applied.interval \in Nat \ {0} /\ LargestBurst \in Nat \ {0}
           /\ FastestInterval \in Nat \ {0}
           /\ g.tat \in Int /\ now \in Nat /\ MaxNanos \in Nat
           /\ SatSub(g.tat, now) \in Nat
           /\ SatSub(g.tat, now) <= LargestBurst * g.applied.interval
           /\ LargestBurst * g.applied.interval \in Nat
  <1>1. g.applied.interval \in Nat \ {0} /\ LargestBurst \in Nat \ {0}
    BY QuotaIs DEF KeyState
  <1>2. FastestInterval \in Nat \ {0}
    BY FastestIs
  <1>3. g.tat \in Int /\ now \in Nat /\ MaxNanos \in Nat
    BY LimiterAssumption, MaxNanosAssumption DEF Times, KeyState, Nanos, NoTat
  <1>4. \A a, b \in Nat : a * b \in Nat
    OBVIOUS
  <1>5. LargestBurst * g.applied.interval \in Nat
    BY <1>1, <1>4
  <1>6. SatSub(g.tat, now) \in Nat /\ SatSub(g.tat, now) <= LargestBurst * g.applied.interval
    BY <1>3, <1>5 DEF SatSub, OwesABurst
  <1> QED
    BY <1>1, <1>2, <1>3, <1>5, <1>6

\* A key is ahead by a burst of the fastest limit at most.
LEMMA BehindABurst ==
    ASSUME NEW g \in KeyState, now \in Times, OwesABurst(g), NEW e \in Int, Behind(g, now, e)
    PROVE  e <= 2 * FastestInterval * LargestBurst
  <1> DEFINE i == g.applied.interval
             B == LargestBurst
             F == FastestInterval
             d == SatSub(g.tat, now)
  <1>1. i \in Nat \ {0} /\ B \in Nat \ {0} /\ F \in Nat \ {0} /\ d \in Nat /\ d <= B * i
        /\ B * i \in Nat
    BY StateIs
  <1>2. i * e <= 2 * F * d \/ e <= 2 * F * B
    BY DEF Behind
  <1> HIDE DEF i, B, F, d
  <1>3. CASE i * e <= 2 * F * d
    <2>1. 2 * F \in Nat /\ 2 * F * B \in Int /\ 2 * F * d \in Int /\ i * e \in Int
      BY <1>1
    <2>2. (2 * F) * d <= (2 * F) * (B * i) /\ (2 * F) * (B * i) \in Int
      BY <1>1, <2>1, Grows
    <2>3. (2 * F) * (B * i) = i * (2 * F * B)
      BY <1>1
    <2>4. i * e <= i * (2 * F * B)
      BY <1>3, <2>1, <2>2, <2>3
    <2> QED
      BY <1>1, <2>1, <2>4, Cancel DEF F, B
  <1> QED
    BY <1>2, <1>3 DEF F, B

\* A key that is not ahead needs no debt.
LEMMA NotAhead ==
    ASSUME NEW g \in KeyState, NEW at \in Nat, NEW e \in Int, e <= 0
    PROVE  Behind(g, at, e)
  <1> DEFINE i == g.applied.interval
             F == FastestInterval
             d == SatSub(g.tat, at)
  <1>1. i \in Nat \ {0} /\ F \in Nat \ {0}
    BY QuotaIs, FastestIs DEF KeyState
  <1>2. g.tat \in Int
    BY MaxNanosAssumption DEF KeyState, Nanos, NoTat
  <1>3. d \in Nat
    BY <1>2 DEF SatSub
  <1> HIDE DEF i, F, d
  <1>4. i * e <= i * 0 /\ i * e \in Int
    BY <1>1, Grows
  <1>5. 2 * F * d \in Nat
    <2>1. \A a, b \in Nat : a * b \in Nat
      OBVIOUS
    <2>2. 2 * F \in Nat
      BY <1>1
    <2> QED
      BY <1>3, <2>1, <2>2
  <1>6. i * e <= 2 * F * d
    BY <1>1, <1>4, <1>5
  <1> QED
    BY <1>6 DEF Behind, i, F, d

\* A key without a debt is not ahead.
LEMMA NoDebtNotAhead ==
    ASSUME ClockWithin, NEW g \in KeyState, now \in Times, ~HasDebt(g), NEW e \in Int,
           Behind(g, now, e)
    PROVE  e <= 0
  <1>1. g.applied.interval \in Nat \ {0} /\ FastestInterval \in Nat
    BY QuotaIs, FastestIs DEF KeyState
  <1>2. now \in Nat /\ g.tat \in Int /\ MaxNanos \in Nat /\ now < MaxNanos
    <2>1. MaxTau \in Nat
      BY MaxNanosAssumption DEF MaxTau
    <2> QED
      BY <2>1, LimiterAssumption, MaxNanosAssumption DEF Times, KeyState, Nanos, NoTat, ClockWithin
  <1>3. g.tat <= now
    BY <1>2 DEF HasDebt, NoTat
  <1>4. SatSub(g.tat, now) = 0
    BY <1>2, <1>3 DEF SatSub, NoTat
  <1>5. g.tat # MaxNanos
    BY <1>2, <1>3
  <1>6. g.applied.interval * e <= g.applied.interval * 0
    BY <1>1, <1>4, <1>5 DEF Behind
  <1> QED
    BY <1>1, <1>6, Cancel

\* Gcra::check: an admission is paid for by the interval it charges.
LEMMA CheckBehind ==
    ASSUME ClockWithin, NEW g \in KeyState, now \in Times, OwesABurst(g),
           NEW h, h.applied = g.applied, h.tat = Checked1(g),
           NEW e \in Int, Behind(g, now, e)
    PROVE  Behind(h, now, e + IF Admits(g) THEN 2 * FastestInterval ELSE 0)
  <1> DEFINE i == g.applied.interval
             b == g.applied.burst
             B == LargestBurst
             F == FastestInterval
             d == SatSub(g.tat, now)
             t == IF g.tat = NoTat THEN now ELSE g.tat
             top == AtLeast(t, now)
  <1>1. CASE ~Admits(g)
    BY <1>1 DEF Behind, Checked1
  <1>2. CASE Admits(g)
    <2>1. /\ i \in Nat \ {0} /\ B \in Nat \ {0} /\ F \in Nat \ {0} /\ d \in Nat
          /\ g.tat \in Int /\ now \in Nat /\ MaxNanos \in Nat
      BY StateIs
    <2>2. b \in Nat \ {0} /\ b <= B /\ i * (b - 1) \in Nat
      BY <2>1, QuotaIs DEF KeyState
    <2>3. t \in Nat /\ t <= now + i * (b - 1)
      BY <1>2, AdmittedOwes
    <2>4. top \in Nat /\ top = now + d /\ d <= i * (b - 1)
      BY <2>1, <2>2, <2>3 DEF AtLeast, SatSub, NoTat
    <2>5. h.tat = AtMost(top + i, MaxNanos) /\ h.applied.interval = i
      BY <1>2 DEF Checked1, Advance, SatAdd
    <2>6. g.tat # MaxNanos
      <3>1. MaxTau \in Nat /\ Horizon \in Nat /\ Horizon + MaxTau < MaxNanos /\ now <= Horizon
        BY MaxNanosAssumption, LimiterAssumption DEF MaxTau, ClockWithin, Times
      <3>2. Tau(g.applied) <= MaxTau /\ Tau(g.applied) \in Nat
        BY <2>1, <2>2, <3>1 DEF Tau, SatMul, AtMost
      <3>3. MaxNanos >= Tau(g.applied) /\ now < MaxNanos - Tau(g.applied)
        BY <2>1, <3>1, <3>2
      <3> SUFFICES ASSUME g.tat = MaxNanos PROVE FALSE
        OBVIOUS
      <3>4. g.tat # NoTat
        BY <2>1 DEF NoTat
      <3>5. now >= SatSub(MaxNanos, Tau(g.applied))
        BY <1>2, <3>4 DEF Admits, Earliest
      <3>6. SatSub(MaxNanos, Tau(g.applied)) = MaxNanos - Tau(g.applied)
        BY <3>3 DEF SatSub
      <3> QED
        BY <2>1, <3>2, <3>3, <3>5, <3>6
    <2>7. i * e <= 2 * F * d
      BY <2>6 DEF Behind
    <2> HIDE DEF i, b, B, F, d, t, top
    <2>8. i * (e + 2 * F) = i * e + 2 * F * i /\ 2 * F * (d + i) = 2 * F * d + 2 * F * i
          /\ i * e \in Int /\ 2 * F * i \in Nat /\ 2 * F * d \in Nat
      <3>1. \A x, y \in Nat : x * y \in Nat
        OBVIOUS
      <3>2. 2 * F \in Nat /\ 2 * F * i \in Nat /\ 2 * F * d \in Nat
        BY <2>1, <3>1
      <3> QED
        BY <2>1, <3>2
    <2>9. i * (e + 2 * F) <= 2 * F * (d + i)
      BY <2>7, <2>8
    <2>10. CASE top + i <= MaxNanos
      <3>1. SatSub(h.tat, now) = d + i
        BY <2>1, <2>4, <2>5, <2>10 DEF SatSub, AtMost
      <3> QED
        BY <1>2, <2>5, <2>9, <3>1 DEF Behind, F
    <2>11. CASE top + i > MaxNanos
      <3>1. h.tat = MaxNanos
        BY <2>1, <2>4, <2>5, <2>11 DEF AtMost
      <3>2. d + i <= i * B
        <4>1. i * (b - 1) + i = i * b /\ i * b <= i * B /\ i * B \in Int
          BY <2>1, <2>2, Grows
        <4> QED
          BY <2>1, <2>2, <2>4, <4>1
      <3>3. (2 * F) * (d + i) <= (2 * F) * (i * B) /\ (2 * F) * (i * B) \in Int
            /\ (2 * F) * (i * B) = i * (2 * F * B) /\ 2 * F * B \in Int
            /\ (2 * F) * (d + i) \in Int
        <4>1. 2 * F \in Nat /\ i * B \in Int /\ d + i \in Int /\ 2 * F * B \in Int
          BY <2>1
        <4>2. (2 * F) * (i * B) = i * (2 * F * B)
          BY <2>1
        <4> QED
          BY <3>2, <4>1, <4>2, Grows
      <3>4. e + 2 * F \in Int /\ i * (e + 2 * F) \in Int
        BY <2>1
      <3>5. i * (e + 2 * F) <= i * (2 * F * B)
        BY <2>9, <3>3, <3>4
      <3>6. e + 2 * F <= 2 * F * B
        BY <2>1, <3>3, <3>4, <3>5, Cancel
      <3> QED
        BY <1>2, <3>1, <3>6 DEF Behind, F, B
    <2> QED
      BY <2>1, <2>4, <2>10, <2>11
  <1> QED
    BY <1>1, <1>2

\* The clock moves: the bucket leaks at least as fast as the debt.
LEMMA ClockBehind ==
    ASSUME NEW g \in KeyState, now \in Times, OwesABurst(g),
           FastestInterval <= g.applied.interval, NEW e \in Int, Behind(g, now, e),
           NEW f \in Int, f <= 0 \/ f = e - 2
    PROVE  Behind(g, now + 1, f)
  <1> DEFINE i == g.applied.interval
             F == FastestInterval
             d == SatSub(g.tat, now)
             c == SatSub(g.tat, now + 1)
  <1>1. i \in Nat \ {0} /\ F \in Nat \ {0} /\ d \in Nat /\ g.tat \in Int /\ now \in Nat
        /\ LargestBurst \in Nat
    BY StateIs
  <1>2. CASE f <= 0
    <2>1. now + 1 \in Nat
      BY <1>1
    <2> QED
      BY <1>2, <2>1, NotAhead
  <1>3. CASE f = e - 2 /\ f > 0 /\ i * e <= 2 * F * d
    <2>1. c = d - 1 /\ d # 0
      <3>1. d # 0
        <4>1. SUFFICES ASSUME d = 0 PROVE FALSE
          OBVIOUS
        <4> HIDE DEF i, d, F
        <4>2. i * e <= i * 0
          BY <1>1, <1>3, <4>1
        <4>3. e <= 0
          BY <1>1, <4>2, Cancel
        <4> QED
          BY <1>3, <4>3
      <3> QED
        BY <1>1, <3>1 DEF SatSub
    <2> HIDE DEF i, F, d, c
    <2>2. i * f = i * e - 2 * i /\ i * e \in Int
      BY <1>1, <1>3
    <2>3. 2 * F * (d - 1) = 2 * F * d - 2 * F /\ 2 * F * d \in Int
      BY <1>1
    <2>4. i * f <= 2 * F * c
      BY <1>1, <1>3, <2>1, <2>2, <2>3 DEF i, F
    <2> QED
      BY <2>4 DEF Behind, i, F, c
  <1>4. CASE f = e - 2 /\ g.tat = MaxNanos /\ e <= 2 * F * LargestBurst
    <2>1. 2 * F * LargestBurst \in Int
      BY <1>1
    <2> QED
      BY <1>4, <2>1 DEF Behind
  <1> QED
    BY <1>2, <1>3, <1>4 DEF Behind

\* f64::round takes half a nanosecond at most.
LEMMA RoundedIs ==
    ASSUME NEW a \in Nat, NEW b \in Nat \ {0}, NEW c \in Nat \ {0}
    PROVE  /\ RoundedRatio(a, b, c) \in Nat
           /\ 2 * (a * b) <= 2 * (c * RoundedRatio(a, b, c)) + c
  <1> DEFINE p == a * b
             x == 2 * p + c
             d == 2 * c
             r == x \div d
  <1>1. p \in Nat
    OBVIOUS
  <1>2. RoundedRatio(a, b, c) = r
    <2>1. 2 * a * b = 2 * p
      OBVIOUS
    <2> QED
      BY <2>1 DEF RoundedRatio
  <1> HIDE DEF p
  <1>3. x \in Nat /\ d \in Nat \ {0} /\ r \in Nat /\ x < d * (r + 1)
    BY <1>1
  <1> HIDE DEF r
  <1>4. d * (r + 1) = 2 * (c * r) + 2 * c /\ c * r \in Nat
    BY <1>3
  <1>5. 2 * p <= 2 * (c * r) + c
    BY <1>1, <1>3, <1>4
  <1> QED
    BY <1>2, <1>3, <1>5 DEF p

\* Gcra::set_quota: the debt carried over accounts for what it did, less the half
\* nanosecond it may be rounded down by.
LEMMA RequoteBehind ==
    ASSUME NEW g \in KeyState, NEW q \in Quotas, now \in Times, OwesABurst(g),
           FastestInterval <= q.interval, NEW h, h = Requoted(g, q),
           OneBurst \/ (g.tat # MaxNanos /\ h.tat # MaxNanos),
           NEW e \in Int, Behind(g, now, e),
           NEW f \in Int, f <= 0 \/ f = IF RoundedDown(g, h) THEN e - 1 ELSE e
    PROVE  Behind(h, now, f)
  <1> DEFINE i == g.applied.interval
             j == q.interval
             B == LargestBurst
             F == FastestInterval
             d == SatSub(g.tat, now)
             c == SatSub(h.tat, now)
  <1>1. /\ i \in Nat \ {0} /\ B \in Nat \ {0} /\ F \in Nat \ {0} /\ d \in Nat /\ d <= B * i
        /\ g.tat \in Int /\ now \in Nat /\ MaxNanos \in Nat
    BY StateIs
  <1>2. j \in Nat \ {0} /\ F <= j
    BY QuotaIs
  <1>3. h \in KeyState /\ h.applied = q
    <2>1. h \in KeyState
      BY RequotedKeeps
    <2>2. CASE q = g.applied
      BY <2>1, <2>2 DEF Requoted
    <2>3. CASE q # g.applied
      BY <2>1, <2>3 DEF Requoted, KeyState
    <2> QED
      BY <2>2, <2>3
  <1>4. c \in Nat /\ h.tat \in Int
    <2>1. h.tat \in Int
      BY <1>3, MaxNanosAssumption DEF KeyState, Nanos, NoTat
    <2> QED
      BY <1>1, <2>1 DEF SatSub
  <1>5. CASE f <= 0
    BY <1>1, <1>3, <1>5, NotAhead
  <1> SUFFICES ASSUME f > 0 PROVE Behind(h, now, f)
    BY <1>5
  <1>6. f = (IF RoundedDown(g, h) THEN e - 1 ELSE e) /\ f <= e
    OBVIOUS
  <1>7. 2 * F * B \in Nat /\ 2 * F * d \in Nat /\ 2 * F * c \in Nat
    <2>1. \A x, y \in Nat : x * y \in Nat
      OBVIOUS
    <2> HIDE DEF B, F, d, c
    <2>2. 2 * F \in Nat
      BY <1>1
    <2> QED
      BY <1>1, <1>4, <2>1, <2>2
  \* The debt carried over is enough for what it was for.
  <1>8. ASSUME i * e <= 2 * F * d, RoundedDown(g, h) => 2 * (d * j) <= 2 * (i * c) + i,
               ~RoundedDown(g, h) => d * j <= c * i
        PROVE  Behind(h, now, f)
    <2> HIDE DEF i, j, B, F, d, c
    <2>1. j * (i * e) <= j * (2 * F * d)
      BY <1>1, <1>2, <1>7, <1>8, Grows
    <2>2. j * (2 * F * d) = (2 * F) * (d * j) /\ d * j \in Nat /\ c * i \in Nat /\ i * c = c * i
      BY <1>1, <1>2, <1>4
    <2>3. CASE ~RoundedDown(g, h)
      <3>1. (2 * F) * (d * j) <= (2 * F) * (c * i) /\ (2 * F) * (d * j) \in Int
            /\ (2 * F) * (c * i) \in Int
        BY <1>1, <1>8, <2>2, <2>3, Grows
      <3>2. (2 * F) * (c * i) = i * (2 * F * c) /\ j * (i * e) = i * (j * e)
            /\ j * e \in Int /\ i * (j * e) \in Int
        BY <1>1, <1>2, <1>4
      <3>3. i * (j * e) <= i * (2 * F * c)
        BY <2>1, <2>2, <3>1, <3>2
      <3>4. j * e <= 2 * F * c
        BY <1>1, <1>7, <3>2, <3>3, Cancel
      <3> QED
        BY <1>3, <1>6, <2>3, <3>4 DEF Behind, F, c, j
    <2>4. CASE RoundedDown(g, h)
      <3>1. F * (2 * (d * j)) <= F * (2 * (i * c) + i) /\ F * (2 * (d * j)) \in Int
            /\ F * (2 * (i * c) + i) \in Int
        <4>1. 2 * (d * j) \in Int /\ 2 * (i * c) + i \in Int
          BY <1>1, <2>2
        <4> QED
          BY <1>1, <1>8, <2>4, <4>1, Grows
      <3>2. F * i <= j * i /\ F * i \in Nat /\ j * i \in Nat
        BY <1>1, <1>2, Products
      <3>3. /\ F * (2 * (d * j)) = (2 * F) * (d * j)
            /\ F * (2 * (i * c) + i) = i * (2 * F * c) + F * i
            /\ j * (i * e) = i * (j * e) /\ j * e \in Int /\ i * (j * e) \in Int
            /\ i * (2 * F * c) \in Int
        BY <1>1, <1>2, <1>4
      <3>4. i * (j * e) <= i * (2 * F * c) + j * i
        BY <2>1, <2>2, <3>1, <3>2, <3>3
      <3>5. j * (e - 1) = j * e - j /\ i * (j * e - j) = i * (j * e) - j * i
        BY <1>1, <1>2, <3>3
      <3>6. i * (j * (e - 1)) <= i * (2 * F * c) /\ j * (e - 1) \in Int
        BY <3>2, <3>3, <3>4, <3>5, <1>2
      <3>7. j * (e - 1) <= 2 * F * c
        BY <1>1, <1>7, <3>6, Cancel
      <3> QED
        BY <1>3, <1>6, <2>4, <3>7 DEF Behind, F, c, j
    <2> QED
      BY <2>3, <2>4
  <1>9. CASE q = g.applied
    <2>1. h = g
      BY <1>9 DEF Requoted
    <2>2. ~RoundedDown(g, h)
      <3>1. d * i \in Nat
        BY <1>1
      <3> QED
        BY <2>1, <3>1 DEF RoundedDown
    <2> QED
      BY <1>6, <2>1, <2>2
  <1>10. CASE q # g.applied /\ g.tat = NoTat
    <2>1. d = 0 /\ g.tat # MaxNanos
      BY <1>1, <1>10 DEF SatSub, NoTat
    <2>2. i * e <= i * 0
      BY <1>1, <2>1 DEF Behind
    <2> HIDE DEF i
    <2>3. e <= 0
      BY <1>1, <2>2, Cancel
    <2> QED
      BY <1>6, <2>3
  <1>11. CASE q # g.applied /\ g.tat # NoTat
    <2> DEFINE computed == RoundedRatio(d, j, i)
               full == AtLeast(g.applied.burst, q.burst) * j
               v == IF g.tat = MaxNanos THEN AtLeast(computed, full) ELSE computed
    <2>1. h.tat = SatAdd(now, v)
      <3>1. h = [g EXCEPT !.tat = CarryTat(g.tat, g.applied, q, now), !.applied = q]
        BY <1>11 DEF Requoted
      <3>2. h.tat = CarryTat(g.tat, g.applied, q, now)
        BY <3>1 DEF KeyState
      <3> QED
        BY <3>2 DEF CarryTat
    <2>2. computed \in Nat /\ 2 * (d * j) <= 2 * (i * computed) + i
      BY <1>1, <1>2, RoundedIs
    <2>3. full \in Nat /\ (OneBurst => full = B * j)
      <3>1. g.applied \in Quotas
        BY DEF KeyState
      <3>2. g.applied.burst \in Nat /\ q.burst \in Nat
        BY <3>1, QuotaIs
      <3>3. AtLeast(g.applied.burst, q.burst) \in Nat
        BY <3>2 DEF AtLeast
      <3>4. OneBurst => g.applied.burst = B /\ q.burst = B
        BY <3>1 DEF OneBurst, Quotas
      <3>5. \A x, y \in Nat : x * y \in Nat
        OBVIOUS
      <3> QED
        BY <1>2, <3>3, <3>4, <3>5 DEF AtLeast
    <2> HIDE DEF computed, full
    <2>4. v \in Nat /\ computed <= v
      BY <2>2, <2>3 DEF AtLeast
    <2>5. h.tat = MaxNanos \/ (h.tat = now + v /\ c = v)
      BY <1>1, <2>1, <2>4 DEF SatAdd, AtMost, SatSub
    \* A saturated TAT carries a burst.
    <2>6. CASE h.tat = MaxNanos
      <3>1. e <= 2 * F * B
        BY BehindABurst
      <3> QED
        BY <1>1, <1>6, <1>7, <2>6, <3>1 DEF Behind
    <2>7. CASE h.tat # MaxNanos /\ i * e <= 2 * F * d
      <3>1. c = v
        BY <2>5, <2>7
      <3>2. RoundedDown(g, h) => 2 * (d * j) <= 2 * (i * c) + i
        <4> HIDE DEF i, j, d, c, v
        <4>1. computed * i <= c * i /\ computed * i \in Nat /\ c * i \in Nat
          BY <1>1, <2>2, <2>4, <3>1, Products
        <4>2. i * computed = computed * i /\ i * c = c * i /\ d * j \in Nat
          BY <1>1, <1>2, <1>4, <2>2
        <4> QED
          BY <1>1, <2>2, <4>1, <4>2
      <3>3. ~RoundedDown(g, h) => d * j <= c * i
        <4>1. d * j \in Nat /\ c * i \in Nat
          BY <1>1, <1>2, <1>4, Products
        <4>2. RoundedDown(g, h) <=> c * i < d * j
          BY <1>3, <2>7 DEF RoundedDown
        <4> HIDE DEF i, j, d, c
        <4> QED
          BY <4>1, <4>2
      <3> QED
        BY <1>8, <2>7, <3>2, <3>3
    <2>8. CASE h.tat # MaxNanos /\ g.tat = MaxNanos /\ e <= 2 * F * B
      <3>1. OneBurst
        BY <2>8
      <3>2. c = v /\ B * j <= v /\ B * j \in Nat
        BY <2>2, <2>3, <2>5, <2>8, <3>1 DEF AtLeast
      <3> HIDE DEF i, j, B, F, d, c, v
      <3>3. j * f <= j * (2 * F * B) /\ j * f \in Int
        BY <1>2, <1>6, <1>7, <2>8, Grows
      <3>4. (2 * F) * (B * j) <= (2 * F) * c
        BY <1>1, <1>4, <3>2, Grows
      <3>5. j * (2 * F * B) = (2 * F) * (B * j) /\ (2 * F) * (B * j) \in Int
        BY <1>1, <1>2
      <3>6. j * f <= 2 * F * c
        BY <1>7, <3>3, <3>4, <3>5
      <3> QED
        BY <1>3, <3>6 DEF Behind, F, c, j
    <2> QED
      BY <2>6, <2>7, <2>8 DEF Behind
  <1> QED
    BY <1>9, <1>10, <1>11

\* What a key was admitted that its debt has to account for.
Ahead(k) == level[k] - 2 * FastestInterval * LargestBurst * cut[k]

\* Every key's debt accounts for what it was admitted, and a key that is not
\* tracked was admitted nothing that would have to be accounted for.
HistoryInv ==
    /\ level \in [Checked -> Nat] /\ cut \in [Checked -> Nat]
    /\ \A k \in Tracked : GivenInterval(keys[k].applied.interval)
    /\ \A k \in Checked \cap Tracked : Behind(keys[k], now, Ahead(k))
    /\ \A k \in Checked \ Tracked : Ahead(k) <= 0

LEMMA BurstOfFastest == 2 * FastestInterval * LargestBurst \in Nat
  <1>1. FastestInterval \in Nat /\ LargestBurst \in Nat
    BY LimitsAssumption, FastestIs, LargestIs
  <1>2. \A a, b \in Nat : a * b \in Nat
    OBVIOUS
  <1>3. 2 * FastestInterval \in Nat
    BY <1>1
  <1> QED
    BY <1>1, <1>2, <1>3

LEMMA AheadIs ==
    ASSUME HistoryInv, NEW k \in Checked
    PROVE  Ahead(k) \in Int /\ level[k] \in Nat /\ cut[k] \in Nat
           /\ 2 * FastestInterval * LargestBurst * cut[k] \in Nat
  <1>1. level[k] \in Nat /\ cut[k] \in Nat
    BY DEF HistoryInv
  <1>2. \A a, b \in Nat : a * b \in Nat
    OBVIOUS
  <1>3. 2 * FastestInterval * LargestBurst * cut[k] \in Nat
    BY <1>1, <1>2, BurstOfFastest
  <1> QED
    BY <1>1, <1>3 DEF Ahead

LEMMA HistoryInit == Init => HistoryInv
  <1> SUFFICES ASSUME Init PROVE HistoryInv
    OBVIOUS
  <1>1. level = [k \in Checked |-> 0] /\ cut = [k \in Checked |-> 0] /\ Tracked = {}
    BY DEF Init, Tracked
  <1>2. \A k \in Checked : Ahead(k) <= 0
    BY <1>1, BurstOfFastest DEF Ahead
  <1> QED
    BY <1>1, <1>2 DEF HistoryInv

\* entry() leaves every key it knows its debt; a new one has none, at the cold quota.
LEMMA EntryGives ==
    ASSUME LimiterInv, NEW k \in Keys, NEW limit \in Limits, NEW n \in Sizes, NEW e,
           e = Entry(k, limit, n)
    PROVE  /\ \A j \in Tracked : e[j].tat = keys[j].tat /\ e[j].applied = keys[j].applied
           /\ k \notin Tracked => e[k].tat = NoTat /\ e[k].applied = ColdQuota(limit, n)
  <1>1. keys \in [Tracked -> KeyState]
    BY DEF LimiterInv, TypeOK
  <1>2. CASE k \in Tracked
    <2>1. e = [keys EXCEPT ![k].limit = limit]
      BY <1>2 DEF Entry
    <2> QED
      BY <1>1, <1>2, <2>1 DEF KeyState
  <1>3. CASE k \notin Tracked
    <2> DEFINE new == [limit |-> limit, rate |-> 0, pending |-> FALSE, measured |-> FALSE,
                       last |-> IF lastTick = Never THEN now ELSE lastTick,
                       tat |-> NoTat, applied |-> ColdQuota(limit, n)]
    <2>1. e = [j \in Tracked \cup {k} |-> IF j = k THEN new ELSE keys[j]]
      BY <1>3 DEF Entry
    <2>2. new.tat = NoTat /\ new.applied = ColdQuota(limit, n)
      OBVIOUS
    <2> HIDE DEF new
    <2> QED
      BY <1>3, <2>1, <2>2
  <1> QED
    BY <1>2, <1>3

\* A call for one key leaves the debts of the others alone.
LEMMA CallHistory ==
    ASSUME LimiterInv, HistoryInv, NEW k \in Keys, NEW g \in [Tracked \cup {k} -> KeyState],
           keys' = g, UNCHANGED <<now, cut>>, level' \in [Checked -> Nat],
           \A j \in Tracked \ {k} : g[j].tat = keys[j].tat /\ g[j].applied = keys[j].applied,
           \A j \in Checked \ {k} : level'[j] = level[j],
           GivenInterval(g[k].applied.interval),
           k \in Checked =>
              Behind(g[k], now, level'[k] - 2 * FastestInterval * LargestBurst * cut[k])
    PROVE  HistoryInv'
  <1>1. Tracked' = Tracked \cup {k}
    BY DEF Tracked
  <1>2. \A j \in Tracked' : GivenInterval(g[j].applied.interval)
    BY <1>1 DEF HistoryInv
  <1>3. \A j \in Checked \ {k} : Ahead(j)' = Ahead(j)
    BY DEF Ahead
  <1>4. ASSUME NEW j \in Checked \cap Tracked' PROVE Behind(g[j], now, Ahead(j)')
    <2>1. CASE j = k
      BY <2>1, <1>4 DEF Ahead
    <2>2. CASE j # k
      <3>1. j \in Tracked /\ Behind(keys[j], now, Ahead(j)) /\ Ahead(j)' = Ahead(j)
        BY <1>1, <1>3, <2>2 DEF HistoryInv
      <3>2. g[j].tat = keys[j].tat /\ g[j].applied = keys[j].applied
        BY <2>2, <3>1
      <3> QED
        BY <3>1, <3>2 DEF Behind
    <2> QED
      BY <2>1, <2>2
  <1>5. \A j \in Checked \ Tracked' : Ahead(j)' <= 0
    BY <1>1, <1>3 DEF HistoryInv
  <1>6. \A j \in Checked \cap Tracked' : Behind(keys[j], now, Ahead(j))'
    BY <1>4 DEF Behind
  <1>7. \A j \in Tracked' : GivenInterval(keys[j].applied.interval)'
    BY <1>2 DEF GivenInterval
  <1>8. cut' \in [Checked -> Nat]
    BY DEF HistoryInv
  <1> QED
    BY <1>5, <1>6, <1>7, <1>8 DEF HistoryInv

LEMMA CheckInHistory ==
    ASSUME LimiterInv, HistoryInv, ClockWithin, NEW k \in Checked, NEW limit \in Limits,
           NEW n \in Sizes, NEW traced \in BOOLEAN, CheckIn(k, limit, traced, n)
    PROVE  HistoryInv'
  <1> DEFINE D == Tracked \cup {k}
             F == FastestInterval
  <1>1. PICK e : e = Entry(k, limit, n)
    OBVIOUS
  <1>2. PICK g : g = [e EXCEPT ![k].pending = TRUE, ![k].tat = Checked1(e[k])]
    OBVIOUS
  <1>3. /\ keys' = g /\ UNCHANGED <<now, cut>>
        /\ level' = [level EXCEPT ![k] = @ + IF Admits(e[k]) THEN 2 * F ELSE 0]
    BY <1>1, <1>2 DEF CheckIn
  <1>4. k \in Keys /\ now \in Times /\ cap \in {NoCap} \cup Sizes
    BY DemandAssumption DEF LimiterInv, TypeOK
  <1>5. e \in [D -> KeyState] /\ \A j \in D : OwesABurst(e[j])
    BY <1>1, <1>4, EntryKeeps
  <1>6. /\ \A j \in Tracked : e[j].tat = keys[j].tat /\ e[j].applied = keys[j].applied
        /\ k \notin Tracked => e[k].tat = NoTat /\ e[k].applied = ColdQuota(limit, n)
    BY <1>1, <1>4, EntryGives
  <1>7. Checked1(e[k]) \in Nanos \cup {NoTat}
    BY <1>4, <1>5, CheckKeeps
  <1>8. /\ g \in [D -> KeyState] /\ g[k].tat = Checked1(e[k]) /\ g[k].applied = e[k].applied
        /\ \A j \in D \ {k} : g[j] = e[j]
    BY <1>2, <1>5, <1>7, ZenonT(40) DEF KeyState
  <1>9. \A j \in Tracked \ {k} : g[j].tat = keys[j].tat /\ g[j].applied = keys[j].applied
    BY <1>6, <1>8
  <1>10. GivenInterval(e[k].applied.interval)
    <2>1. CASE k \in Tracked
      BY <1>6, <2>1 DEF HistoryInv
    <2>2. CASE k \notin Tracked
      BY <1>4, <1>6, <2>2, ColdIsGiven
    <2> QED
      BY <2>1, <2>2
  <1>11. Behind(e[k], now, Ahead(k))
    <2>1. CASE k \in Tracked
      BY <1>6, <2>1 DEF HistoryInv, Behind
    <2>2. CASE k \notin Tracked
      <3>1. Ahead(k) <= 0 /\ Ahead(k) \in Int
        BY <2>2, AheadIs DEF HistoryInv
      <3>2. e[k] \in KeyState /\ now \in Nat
        BY <1>4, <1>5, LimiterAssumption DEF Times
      <3> QED
        BY <3>1, <3>2, NotAhead
    <2> QED
      BY <2>1, <2>2
  <1>12. Behind(g[k], now, Ahead(k) + IF Admits(e[k]) THEN 2 * F ELSE 0)
    <2>1. Ahead(k) \in Int /\ e[k] \in KeyState /\ OwesABurst(e[k])
      BY <1>5, AheadIs
    <2> QED
      BY <1>4, <1>8, <1>11, <2>1, CheckBehind
  <1>13. /\ level' \in [Checked -> Nat] /\ \A j \in Checked \ {k} : level'[j] = level[j]
         /\ level'[k] - 2 * F * LargestBurst * cut[k] =
               Ahead(k) + IF Admits(e[k]) THEN 2 * F ELSE 0
    <2>1. level \in [Checked -> Nat] /\ 2 * F \in Nat
      BY FastestIs DEF HistoryInv
    <2>2. level[k] \in Nat /\ 2 * F * LargestBurst * cut[k] \in Nat
      BY AheadIs
    <2>3. level'[k] = level[k] + IF Admits(e[k]) THEN 2 * F ELSE 0
      BY <1>3, <2>1
    <2>4. level' \in [Checked -> Nat] /\ \A j \in Checked \ {k} : level'[j] = level[j]
      BY <1>3, <2>1
    <2> HIDE DEF F
    <2> QED
      BY <2>1, <2>2, <2>3, <2>4 DEF Ahead, F
  <1>14. Behind(g[k], now, level'[k] - 2 * F * LargestBurst * cut[k])
    BY <1>12, <1>13
  <1>15. GivenInterval(g[k].applied.interval)
    BY <1>8, <1>10
  <1> QED
    BY <1>3, <1>4, <1>8, <1>9, <1>13, <1>14, <1>15, CallHistory

LEMMA RecordHistory ==
    ASSUME LimiterInv, HistoryInv, NEW k \in Keys \ Checked, NEW limit \in Limits,
           NEW n \in Sizes, Record(k, limit, n)
    PROVE  HistoryInv'
  <1> DEFINE D == Tracked \cup {k}
  <1>1. PICK e : e = Entry(k, limit, n)
    OBVIOUS
  <1>2. PICK g : g = [e EXCEPT ![k].pending = TRUE]
    OBVIOUS
  <1>3. keys' = g /\ UNCHANGED <<now, cut, level>>
    BY <1>1, <1>2 DEF Record
  <1>4. cap \in {NoCap} \cup Sizes /\ level \in [Checked -> Nat]
    BY DEF LimiterInv, TypeOK, HistoryInv
  <1>5. e \in [D -> KeyState]
    BY <1>1, EntryKeeps
  <1>6. /\ \A j \in Tracked : e[j].tat = keys[j].tat /\ e[j].applied = keys[j].applied
        /\ k \notin Tracked => e[k].applied = ColdQuota(limit, n)
    BY <1>1, EntryGives
  <1>7. /\ g \in [D -> KeyState]
        /\ \A j \in D : g[j].tat = e[j].tat /\ g[j].applied = e[j].applied
    BY <1>2, <1>5, ZenonT(40) DEF KeyState
  <1>8. GivenInterval(g[k].applied.interval)
    <2>1. CASE k \in Tracked
      BY <1>6, <1>7, <2>1 DEF HistoryInv
    <2>2. CASE k \notin Tracked
      BY <1>4, <1>6, <1>7, <2>2, ColdIsGiven
    <2> QED
      BY <2>1, <2>2
  <1>9. \A j \in Tracked \ {k} : g[j].tat = keys[j].tat /\ g[j].applied = keys[j].applied
    BY <1>6, <1>7
  <1>10. level' \in [Checked -> Nat] /\ \A j \in Checked \ {k} : level'[j] = level[j]
    BY <1>3, <1>4
  <1> QED
    BY <1>3, <1>7, <1>8, <1>9, <1>10, CallHistory

\* The state of a tracked key.
LEMMA TrackedIs ==
    ASSUME LimiterInv, HistoryInv, SharesWithin, NEW k \in Tracked
    PROVE  /\ keys[k] \in KeyState /\ OwesABurst(keys[k]) /\ now \in Times
           /\ GivenInterval(keys[k].applied.interval)
           /\ FastestInterval <= keys[k].applied.interval
  <1>1. keys[k] \in KeyState /\ OwesABurst(keys[k]) /\ now \in Times
    BY DEF LimiterInv, TypeOK
  <1>2. GivenInterval(keys[k].applied.interval)
    BY DEF HistoryInv
  <1> QED
    BY <1>1, <1>2, GivenIsSlower

LEMMA ClockHistory ==
    ASSUME LimiterInv, HistoryInv, SharesWithin, AdvanceClock
    PROVE  HistoryInv'
  <1>1. /\ UNCHANGED <<keys, cut>> /\ now' = now + 1 /\ Tracked' = Tracked
        /\ level' = [k \in Checked |-> AtLeast(level[k] - 2, 0)]
    BY DEF AdvanceClock, Tracked
  <1>2. level' \in [Checked -> Nat] /\ cut' \in [Checked -> Nat]
    BY <1>1 DEF HistoryInv, AtLeast
  <1>3. \A k \in Tracked : GivenInterval(keys[k].applied.interval)'
    BY <1>1 DEF HistoryInv, GivenInterval
  <1>4. ASSUME NEW k \in Checked
        PROVE  Ahead(k)' \in Int /\ (Ahead(k)' <= 0 \/ Ahead(k)' = Ahead(k) - 2)
    <2>1. level[k] \in Nat /\ 2 * FastestInterval * LargestBurst * cut[k] \in Nat
      BY AheadIs
    <2>2. level'[k] = AtLeast(level[k] - 2, 0)
          /\ Ahead(k)' = level'[k] - 2 * FastestInterval * LargestBurst * cut[k]
      BY <1>1 DEF Ahead
    <2> QED
      BY <2>1, <2>2 DEF AtLeast, Ahead
  <1>5. ASSUME NEW k \in Checked \cap Tracked PROVE Behind(keys[k], now, Ahead(k))'
    <2>1. /\ keys[k] \in KeyState /\ OwesABurst(keys[k]) /\ now \in Times
          /\ FastestInterval <= keys[k].applied.interval
      BY TrackedIs
    <2>2. Ahead(k) \in Int /\ Behind(keys[k], now, Ahead(k))
      BY AheadIs DEF HistoryInv
    <2>3. PICK f : f = Ahead(k)'
      OBVIOUS
    <2>4. f \in Int /\ (f <= 0 \/ f = Ahead(k) - 2)
      BY <1>4, <2>3
    <2>5. Behind(keys[k], now + 1, f)
      BY <2>1, <2>2, <2>4, ClockBehind
    <2> QED
      BY <1>1, <2>3, <2>5 DEF Behind
  <1>6. ASSUME NEW k \in Checked \ Tracked PROVE Ahead(k)' <= 0
    <2>1. Ahead(k) <= 0 /\ Ahead(k) \in Int
      BY AheadIs DEF HistoryInv
    <2> QED
      BY <1>4, <2>1
  <1> QED
    BY <1>1, <1>2, <1>3, <1>5, <1>6 DEF HistoryInv

\* What leaves the keys, the clock and the history alone leaves this alone.
LEMMA SameHistory ==
    ASSUME HistoryInv, UNCHANGED <<keys, now, level, cut>>
    PROVE  HistoryInv'
  <1>1. Tracked' = Tracked /\ \A k \in Checked : Ahead(k)' = Ahead(k)
    BY DEF Tracked, Ahead
  <1>2. \A k \in Tracked : GivenInterval(keys[k].applied.interval)'
    BY DEF HistoryInv, GivenInterval
  <1>3. \A k \in Checked \cap Tracked : Behind(keys[k], now, Ahead(k))'
    BY <1>1 DEF HistoryInv, Behind
  <1> QED
    BY <1>1, <1>2, <1>3 DEF HistoryInv

LEMMA NotSaturated ==
    ASSUME NoneSaturates, NEW g \in KeyState, now \in Times, OwesABurst(g),
           GivenInterval(g.applied.interval)
    PROVE  g.tat # MaxNanos
  <1> DEFINE b == LargestBurst * g.applied.interval
  <1>1. g.tat \in Int /\ now \in Nat /\ b \in Nat /\ MaxNanos \in Nat
        /\ g.applied.interval \in Nat
    BY StateIs
  <1>2. Horizon + b < MaxNanos
    BY <1>1 DEF NoneSaturates
  <1>3. g.tat <= now + b
    BY DEF OwesABurst
  <1>4. now <= Horizon /\ Horizon \in Nat
    BY LimiterAssumption DEF Times
  <1> HIDE DEF b
  <1> QED
    BY <1>1, <1>2, <1>3, <1>4

\* A folded key has the debt it had.
LEMMA FoldLeaves ==
    ASSUME LimiterInv, NEW rate, NEW k \in Tracked
    PROVE  Folded(rate)[k].tat = keys[k].tat /\ Folded(rate)[k].applied = keys[k].applied
  <1>1. keys[k] \in KeyState
    BY DEF LimiterInv, TypeOK
  <1>2. Folded(rate)[k] = Fold(keys[k], rate[k])
    BY DEF Folded
  <1> QED
    BY <1>1, <1>2 DEF Fold, KeyState

\* A tick drops no debt, save for those the cap takes, and carries the others over.
LEMMA TickHistory ==
    ASSUME LimiterInv, HistoryInv, SharesWithin, ClockWithin, OneBurst \/ NoneSaturates,
           NEW n \in Sizes, NEW foreign, NEW rate \in [Tracked -> Rates],
           \A k \in Tracked : MayFold(keys[k], rate[k]), NEW share \in ShareRates,
           Tick(n, foreign, rate, share)
    PROVE  HistoryInv'
  <1> DEFINE folded == Folded(rate)
  <1> DEFINE requoted(one) ==
               [k \in one.kept |->
                  Requoted(folded[k], Wanted(folded[k], k, one.hot, n, foreign, share))]
  <1>a. PICK one \in {PassOne(folded, order, n, foreign) : order \in Orders} :
           \E victims \in SUBSET one.kept :
              /\ Reclaims(requoted(one), one.hot, victims)
              /\ keys' = Restrict(requoted(one), one.kept \ victims)
              /\ cut' = [k \in Checked |-> cut[k] + IF k \in victims THEN 1 ELSE 0]
              /\ level' = [k \in Checked |->
                             IF k \in one.kept /\ RoundedDown(folded[k], requoted(one)[k])
                             THEN AtLeast(level[k] - 1, 0) ELSE level[k]]
              /\ UNCHANGED now
    BY DEF Tick, Folded
  <1>b. PICK quoted : quoted = requoted(one)
    OBVIOUS
  <1>c. PICK order \in Orders : one = PassOne(folded, order, n, foreign)
    BY <1>a
  <1>p. PICK victims :
           /\ quoted = [k \in one.kept |->
                          Requoted(folded[k], Wanted(folded[k], k, one.hot, n, foreign, share))]
           /\ Reclaims(quoted, one.hot, victims)
           /\ keys' = Restrict(quoted, one.kept \ victims)
           /\ cut' = [k \in Checked |-> cut[k] + IF k \in victims THEN 1 ELSE 0]
           /\ level' = [k \in Checked |->
                          IF k \in one.kept /\ RoundedDown(folded[k], quoted[k])
                          THEN AtLeast(level[k] - 1, 0) ELSE level[k]]
           /\ UNCHANGED now
    BY <1>a, <1>b
  <1>1. victims \subseteq one.kept
    BY <1>p DEF Reclaims
  <1>2. /\ now \in Times /\ cap \in {NoCap} \cup Sizes /\ Tracked \subseteq Keys
        /\ IsFiniteSet(Tracked) /\ HotSetOK(hot) /\ DOMAIN hot \subseteq Tracked
    BY DEF LimiterInv, TypeOK
  <1>3. /\ folded \in [Tracked -> KeyState]
        /\ \A k \in Tracked : OwesABurst(folded[k])
        /\ \A k \in Tracked : folded[k].tat = keys[k].tat /\ folded[k].applied = keys[k].applied
    BY FoldKeeps, FoldLeaves
  <1> HIDE DEF folded
  <1>4. PassOneOK(one, folded)
    BY <1>c, <1>2, <1>3, PassOneKeeps
  <1>5. one.kept \subseteq Tracked /\ \A k \in Tracked : HasDebt(folded[k]) => k \in one.kept
    BY <1>4 DEF PassOneOK
  <1>6. keys' = [k \in one.kept \ victims |-> quoted[k]] /\ Tracked' = one.kept \ victims
    BY <1>1, <1>p DEF Restrict, Tracked
  <1>7. level' \in [Checked -> Nat] /\ cut' \in [Checked -> Nat]
    <2>1. level \in [Checked -> Nat] /\ cut \in [Checked -> Nat]
      BY DEF HistoryInv
    <2> QED
      BY <1>1, <1>p, <2>1 DEF AtLeast
  \* What a key's quota becomes.
  <1>8. ASSUME NEW k \in one.kept
        PROVE  \E q \in Quotas : /\ quoted[k] = Requoted(folded[k], q) /\ quoted[k] \in KeyState
                                 /\ OwesABurst(quoted[k]) /\ quoted[k].applied = q
                                 /\ GivenInterval(q.interval)
    <2>1. PICK q : q = Wanted(folded[k], k, one.hot, n, foreign, share)
      OBVIOUS
    <2>2. folded[k] \in KeyState /\ OwesABurst(folded[k])
      BY <1>3, <1>5
    <2>3. q \in Quotas /\ GivenInterval(q.interval)
      BY <1>2, <2>1, <2>2, WantedType, WantedIsGiven
    <2>4. quoted[k] = Requoted(folded[k], q)
      BY <1>1, <1>p, <2>1
    <2>5. quoted[k] \in KeyState /\ OwesABurst(quoted[k])
      BY <1>2, <2>2, <2>3, <2>4, RequotedKeeps
    <2>6. quoted[k].applied = q
      <3>1. CASE q = folded[k].applied
        BY <2>4, <3>1 DEF Requoted
      <3>2. CASE q # folded[k].applied
        BY <2>2, <2>4, <3>2 DEF Requoted, KeyState
      <3> QED
        BY <3>1, <3>2
    <2> QED
      BY <2>3, <2>4, <2>5, <2>6
  <1>9. \A k \in Tracked' : GivenInterval(keys[k].applied.interval)'
    <2>1. \A k \in one.kept : GivenInterval(quoted[k].applied.interval)
      BY <1>8
    <2> QED
      BY <1>6, <2>1 DEF GivenInterval
  \* What a key is ahead by, after the tick.
  <1>10. ASSUME NEW k \in Checked
         PROVE  LET lost == 2 * FastestInterval * LargestBurst
                    down == k \in one.kept /\ RoundedDown(folded[k], quoted[k])
                IN  /\ Ahead(k)' \in Int
                    /\ k \notin victims =>
                          Ahead(k)' <= 0 \/ Ahead(k)' = IF down THEN Ahead(k) - 1 ELSE Ahead(k)
                    /\ k \notin one.kept => Ahead(k)' = Ahead(k)
                    /\ k \in victims => Ahead(k)' <= Ahead(k) - lost
    <2> DEFINE lost == 2 * FastestInterval * LargestBurst
               down == k \in one.kept /\ RoundedDown(folded[k], quoted[k])
    <2>1. level[k] \in Nat /\ cut[k] \in Nat /\ lost * cut[k] \in Nat /\ lost \in Nat
      BY AheadIs, BurstOfFastest
    <2>2. /\ level'[k] = IF down THEN AtLeast(level[k] - 1, 0) ELSE level[k]
          /\ cut'[k] = cut[k] + IF k \in victims THEN 1 ELSE 0
      BY <1>1, <1>p
    <2>3. Ahead(k)' = level'[k] - lost * cut'[k] /\ Ahead(k) = level[k] - lost * cut[k]
      BY DEF Ahead
    <2> HIDE DEF lost
    <2>4. lost * (cut[k] + 1) = lost * cut[k] + lost
      BY <2>1
    <2>5. k \notin one.kept => ~down /\ k \notin victims
      BY <1>1, <1>p
    <2> HIDE DEF down
    <2>6. level'[k] \in Nat /\ level'[k] <= level[k]
          /\ (level'[k] = 0 \/ level'[k] = IF down THEN level[k] - 1 ELSE level[k])
          /\ (~down => level'[k] = level[k])
      BY <2>1, <2>2 DEF AtLeast
    <2>7. CASE k \in victims
      <3>1. lost * cut'[k] = lost * cut[k] + lost
        BY <2>2, <2>4, <2>7
      <3> QED
        BY <2>1, <2>3, <2>5, <2>6, <2>7, <3>1 DEF down, lost
    <2>8. CASE k \notin victims
      <3>1. cut'[k] = cut[k]
        BY <2>1, <2>2, <2>8
      <3> QED
        BY <2>1, <2>3, <2>5, <2>6, <2>8, <3>1 DEF down, lost
    <2> QED
      BY <2>7, <2>8
  \* A key that stays.
  <1>11. ASSUME NEW k \in Checked \cap Tracked' PROVE Behind(quoted[k], now, Ahead(k)')
    <2>1. k \in one.kept /\ k \notin victims /\ k \in Tracked
      BY <1>5, <1>6
    <2>2. PICK q \in Quotas : /\ quoted[k] = Requoted(folded[k], q) /\ quoted[k] \in KeyState
                              /\ OwesABurst(quoted[k]) /\ quoted[k].applied = q
                              /\ GivenInterval(q.interval)
      BY <1>8, <2>1
    <2>3. folded[k] \in KeyState /\ OwesABurst(folded[k])
          /\ GivenInterval(folded[k].applied.interval)
      BY <1>3, <2>1 DEF HistoryInv
    <2>4. Ahead(k) \in Int /\ Behind(folded[k], now, Ahead(k))
      BY <1>3, <2>1, AheadIs DEF HistoryInv, Behind
    <2>5. FastestInterval <= q.interval
      BY <2>2, GivenIsSlower
    <2>6. OneBurst \/ (folded[k].tat # MaxNanos /\ quoted[k].tat # MaxNanos)
      BY <1>2, <2>2, <2>3, NotSaturated
    <2>7. PICK f : f = Ahead(k)'
      OBVIOUS
    <2>8. f \in Int /\ (f <= 0 \/ f = IF RoundedDown(folded[k], quoted[k])
                                      THEN Ahead(k) - 1 ELSE Ahead(k))
      BY <1>10, <2>1, <2>7
    <2>9. Behind(quoted[k], now, f)
      BY <1>2, <2>2, <2>3, <2>4, <2>5, <2>6, <2>8, RequoteBehind
    <2> QED
      BY <2>7, <2>9
  \* A key that goes.
  <1>12. ASSUME NEW k \in Checked \ Tracked' PROVE Ahead(k)' <= 0
    <2>1. CASE k \notin Tracked
      <3>1. k \notin one.kept /\ Ahead(k) <= 0
        BY <1>5, <2>1 DEF HistoryInv
      <3> QED
        BY <1>10, <3>1
    <2>2. CASE k \in Tracked
      <3>1. folded[k] \in KeyState /\ OwesABurst(folded[k])
        BY <1>3, <2>2
      <3>2. Ahead(k) \in Int /\ Behind(folded[k], now, Ahead(k))
        BY <1>3, <2>2, AheadIs DEF HistoryInv, Behind
      <3>3. CASE k \notin one.kept
        <4>1. ~HasDebt(folded[k])
          BY <1>5, <2>2, <3>3
        <4>2. Ahead(k) <= 0
          BY <1>2, <3>1, <3>2, <4>1, NoDebtNotAhead
        <4> QED
          BY <1>10, <3>3, <4>2
      <3>4. CASE k \in victims
        <4>1. Ahead(k) <= 2 * FastestInterval * LargestBurst
          BY <1>2, <3>1, <3>2, BehindABurst
        <4>2. Ahead(k)' <= Ahead(k) - 2 * FastestInterval * LargestBurst /\ Ahead(k)' \in Int
          BY <1>10, <3>4
        <4>3. 2 * FastestInterval * LargestBurst \in Nat
          BY BurstOfFastest
        <4> QED
          BY <3>2, <4>1, <4>2, <4>3
      <3> QED
        BY <1>6, <3>3, <3>4
    <2> QED
      BY <2>1, <2>2
  <1>13. \A k \in Checked \cap Tracked' : Behind(keys[k], now, Ahead(k))'
    <2>1. \A k \in Tracked' : keys'[k] = quoted[k]
      BY <1>6
    <2>2. now' = now
      BY <1>1, <1>p
    <2> QED
      BY <1>11, <2>1, <2>2 DEF Behind
  <1> QED
    BY <1>7, <1>9, <1>12, <1>13 DEF HistoryInv

LEMMA HistoryStep ==
    ASSUME LimiterInv, HistoryInv, SharesWithin, ClockWithin, OneBurst \/ NoneSaturates,
           [Next]_vars
    PROVE  HistoryInv'
  <1>1. CASE AdvanceClock
    BY <1>1, ClockHistory
  <1>2. CASE \E k \in Keys, limit \in Limits, n \in Sizes :
                k \in Checked /\ \E traced \in BOOLEAN : CheckIn(k, limit, traced, n)
    BY <1>2, CheckInHistory
  <1>3. CASE \E k \in Keys, limit \in Limits, n \in Sizes : k \notin Checked /\ Record(k, limit, n)
    BY <1>3, RecordHistory
  <1>4. CASE \E c \in {NoCap} \cup Sizes : SetCap(c)
    BY <1>4, SameHistory DEF SetCap
  <1>5. CASE \E n \in Sizes, foreign \in SUBSET Foreign,
                rate \in {f \in [Tracked -> Rates] :
                            \A k \in Tracked : f[k] \in RatesOf[k] /\ MayFold(keys[k], f[k])},
                share \in ShareRates : Tick(n, foreign, rate, share)
    BY <1>5, TickHistory
  <1>6. CASE UNCHANGED vars
    BY <1>6, SameHistory DEF vars
  <1> QED
    BY <1>1, <1>2, <1>3, <1>4, <1>5, <1>6 DEF Next

\* A change of share, an idle key forgotten and a key that comes back give nothing
\* away: Gcra::set_quota carries the debt over and a tick drops no key with one, so
\* that a key gets one burst of the fastest limit, once more for each time the cap
\* on the tracked keys took its state.
THEOREM HistoryIsKept ==
    ASSUME SharesWithin, ClockWithin, OneBurst \/ NoneSaturates
    PROVE  Spec => []HistoryKept
  <1>1. Init => HistoryInv
    BY HistoryInit
  <1>2. LimiterInv /\ HistoryInv /\ [Next]_vars => HistoryInv'
    BY HistoryStep
  <1>3. LimiterInv /\ HistoryInv => HistoryKept
    <2> SUFFICES ASSUME LimiterInv, HistoryInv, NEW k \in Checked
                 PROVE  level[k] <= 2 * LargestBurst * FastestInterval * (1 + cut[k])
      BY DEF HistoryKept
    <2> DEFINE lost == 2 * FastestInterval * LargestBurst
    <2>1. level[k] \in Nat /\ cut[k] \in Nat /\ Ahead(k) \in Int /\ lost * cut[k] \in Nat
          /\ lost \in Nat
      BY AheadIs, BurstOfFastest
    <2>2. Ahead(k) <= lost
      <3>1. CASE k \in Tracked
        <4>1. keys[k] \in KeyState /\ now \in Times /\ OwesABurst(keys[k])
              /\ Behind(keys[k], now, Ahead(k))
          BY <3>1 DEF LimiterInv, TypeOK, HistoryInv
        <4> QED
          BY <2>1, <4>1, BehindABurst
      <3>2. CASE k \notin Tracked
        BY <2>1, <3>2 DEF HistoryInv
      <3> QED
        BY <3>1, <3>2
    <2>3. 2 * LargestBurst * FastestInterval * (1 + cut[k]) = lost + lost * cut[k]
      <3>1. FastestInterval \in Nat /\ LargestBurst \in Nat
        BY LimitsAssumption, FastestIs, LargestIs
      <3> QED
        BY <2>1, <3>1
    <2> HIDE DEF lost
    <2> QED
      BY <2>1, <2>2, <2>3 DEF Ahead, lost
  <1> QED
    BY <1>1, <1>2, <1>3, LimiterAlways, PTL DEF Spec
==============================================================================
