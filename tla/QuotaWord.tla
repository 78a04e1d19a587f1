----------------------------- MODULE QuotaWord -----------------------------
(***************************************************************************)
(* How a rate becomes a quota, and a quota one word: the constructors of   *)
(* Quota in rateguard-core/src/gcra.rs.  An interval is counted in the     *)
(* finest unit that holds it in a fixed number of bits, rounded up.  A     *)
(* word is the record of the fields it packs; their places in it are left  *)
(* out.                                                                    *)
(***************************************************************************)
EXTENDS Quota, Sequences, TLC

CONSTANTS
    OneSec,              \* ONE_SEC, in the instance's nanoseconds
    IntervalLimit,       \* 2^INTERVAL_BITS: what the interval's bits do not hold
    Units                \* UNIT_NANOS

ASSUME UnitsAssumption ==
    /\ OneSec \in Nat \ {0} /\ IntervalLimit \in Nat \ {0, 1}
    /\ Units \in Seq(Nat \ {0}) /\ Units # <<>> /\ Units[1] = 1

MaxInterval == (IntervalLimit - 1) * Units[Len(Units)]

DivCeil(a, b) == (a + b - 1) \div b

\* encode_interval(): the finest unit that holds the interval.
EncodeInterval(interval) ==
    LET fits(u) == DivCeil(interval, Units[u]) < IntervalLimit
        unit    == CHOOSE u \in DOMAIN Units : fits(u) /\ \A v \in 1 .. u - 1 : ~fits(v)
    IN  [value |-> DivCeil(interval, Units[unit]), unit |-> unit]

\* with_interval(): the interval a quota holds is already rounded.
WithInterval(interval, burst) ==
    LET e == EncodeInterval(AtMost(AtLeast(interval, 1), MaxInterval))
    IN  [interval |-> e.value * Units[e.unit], burst |-> burst]

\* per_second(): a rate too slow to hold, zero included, gets MAX_INTERVAL.
PerSecond(rate, burst) ==
    WithInterval(IF rate = 0 THEN MaxInterval ELSE DivCeil(OneSec, rate), burst)

\* pack() and unpack(); decode() reads the same interval straight from the word.
Pack(q) == EncodeInterval(q.interval) @@ [burst |-> q.burst]
Unpack(w) == WithInterval(SatMul(w.value, Units[w.unit]), w.burst)
Decode(w) == [interval |-> w.value * Units[w.unit],
              tau |-> Tau([interval |-> w.value * Units[w.unit], burst |-> w.burst])]
=============================================================================
