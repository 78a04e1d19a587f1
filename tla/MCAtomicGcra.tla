---------------------------- MODULE MCAtomicGcra ----------------------------
(***************************************************************************)
(* AtomicGcra on small words: one quota whose burst tolerance runs into    *)
(* the cap and whose TAT saturates, and two that replace each other under  *)
(* the checks.                                                             *)
(***************************************************************************)
EXTENDS AtomicGcra, FiniteSetsExt, TLC

CONSTANTS t1, t2

TwoThreads == {t1, t2}
ThreadSymmetry == Permutations(TwoThreads)

Q(interval, burst) == [interval |-> interval, burst |-> burst]

\* Constant: with MaxNanos = 13 the tolerance 4 * 3 is cut to MaxTau = 6, and
\* the fourth admission, at 6, saturates the TAT.
CappedFirst == Q(4, 4)
CappedQuotas == {CappedFirst}

\* Changing: the share halves and doubles.
ChangeFirst == Q(2, 2)
ChangeQuotas == {ChangeFirst, Q(1, 2)}

FastestInterval == Min({q.interval : q \in Quotas})
LargestBurst == Max({q.burst : q \in Quotas})

\* A change of quota in two words gives away at most one request for each
\* check that overlaps it, and one for each tick its reading of the clock is
\* late: beyond that slack, a window admits what the fastest quota and one
\* largest burst allow.
ChangeBound ==
    \A w \in Windows : w[1] <= w[2] =>
        admitted[w] <= (w[2] - w[1]) \div FastestInterval + LargestBurst + slack
=============================================================================
