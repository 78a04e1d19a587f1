------------------------------- MODULE Quota -------------------------------
(***************************************************************************)
(* The arithmetic of rateguard-core/src/gcra.rs: saturating u64 time, the  *)
(* burst tolerance of a quota, one GCRA decision, and the rule that        *)
(* carries a debt from one quota to the next.  Pure operators, shared by   *)
(* the sequential limiter (Gcra) and the lock-free one (AtomicGcra).       *)
(*                                                                         *)
(* A quota is a record [interval, burst]; the interval is already the      *)
(* rounded one, as in the Rust type, so packing it into one word loses     *)
(* nothing and a word is the record itself.                                *)
(***************************************************************************)
EXTENDS Integers

CONSTANT MaxNanos            \* u64::MAX, kept as a parameter: TLC uses a narrow word

ASSUME MaxNanosAssumption == MaxNanos \in Nat /\ MaxNanos >= 2

Nanos == 0 .. MaxNanos

\* MAX_TAU: half of the word.
MaxTau == MaxNanos \div 2

AtMost(a, b) == IF a <= b THEN a ELSE b
AtLeast(a, b) == IF a >= b THEN a ELSE b

\* u64::saturating_add, saturating_sub, saturating_mul
SatAdd(a, b) == AtMost(a + b, MaxNanos)
SatSub(a, b) == IF a >= b THEN a - b ELSE 0
SatMul(a, b) == AtMost(a * b, MaxNanos)

\* Mutant: a tolerance as large as the TAT can be.
TauUncapped(q) == SatMul(q.interval, q.burst - 1)

\* tau(): the tolerance stays under MAX_TAU, so that a saturated TAT denies.
Tau(q) == AtMost(SatMul(q.interval, q.burst - 1), MaxTau)

\* The earliest moment a request passes, given the TAT.
Earliest(tat, q) == SatSub(tat, Tau(q))

\* The TAT after an admission at `now`.
Advance(tat, q, now) == SatAdd(AtLeast(tat, now), q.interval)

\* Mutant: the ratio of the intervals upside down.
InvertedRatio(a, b, c) == (2 * a * c + b) \div (2 * b)

\* f64::round of a * b / c, halves away from zero.
RoundedRatio(a, b, c) == (2 * a * b + c) \div (2 * c)

\* Mutant: the debt is carried over in time.
CarryInTime(tat, old, new, now) == AtLeast(tat, now)

\* carry_tat(): the debt is carried over in requests.  A saturated TAT is no
\* measure, so it carries the largest of what it computes to and both bursts.
CarryTat(tat, old, new, now) ==
    LET computed == RoundedRatio(SatSub(tat, now), new.interval, old.interval)
        full     == AtLeast(old.burst, new.burst) * new.interval
    IN  SatAdd(now, IF tat = MaxNanos THEN AtLeast(computed, full) ELSE computed)
=============================================================================
