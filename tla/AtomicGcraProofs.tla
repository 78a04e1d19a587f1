-------------------------- MODULE AtomicGcraProofs --------------------------
(***************************************************************************)
(* What AtomicGcra guarantees for every number of threads, every width of  *)
(* the clock and every quota, and that it implements Gcra.                 *)
(***************************************************************************)
EXTENDS AtomicGcra, TLAPS

\* saturating_add and saturating_sub stay within the word.
LEMMA SaturatingType ==
    /\ \A a, b \in Nat : SatAdd(a, b) \in Nanos
    /\ \A a \in Nanos, b \in Nat : SatSub(a, b) \in Nanos
  BY MaxNanosAssumption DEF SatAdd, SatSub, AtMost, Nanos

\* The cap of tau() keeps the burst tolerance under the unsaturated one and
\* under half of the word.
LEMMA TauBounds ==
    ASSUME NEW q \in Quotas
    PROVE  /\ Tau(q) \in Nat
           /\ Tau(q) <= MaxTau
           /\ Tau(q) <= q.interval * (q.burst - 1)
  <1>1. /\ q.interval \in Nat
        /\ q.burst - 1 \in Nat
    BY QuotasAssumption
  <1>2. q.interval * (q.burst - 1) \in Nat
    BY <1>1
  <1>3. MaxTau \in Nat
    BY MaxNanosAssumption DEF MaxTau
  <1> QED
    BY <1>2, <1>3, MaxNanosAssumption DEF Tau, SatMul, AtMost

\* The earliest moment a request passes is a word.
LEMMA EarliestType ==
    ASSUME NEW q \in Quotas, NEW t \in Nanos
    PROVE  Earliest(t, q) \in Nanos
  BY TauBounds, SaturatingType DEF Earliest

\* The TAT an admission stores is a word.
LEMMA AdvanceType ==
    ASSUME NEW q \in Quotas, NEW t \in Nanos, NEW now \in Times
    PROVE  Advance(t, q, now) \in Nanos
  <1>1. AtLeast(t, now) \in Nat
    BY HorizonAssumption DEF AtLeast, Nanos, Times
  <1> QED
    BY <1>1, SaturatingType, QuotasAssumption DEF Advance

\* A rescaled TAT is a word again: the ratio of naturals rounds to a natural.
LEMMA CarryType ==
    ASSUME NEW old \in Quotas, NEW new \in Quotas, NEW t \in Nanos, NEW now \in Times
    PROVE  CarryTat(t, old, new, now) \in Nanos
  <1>1. /\ old.interval \in Nat \ {0} /\ new.interval \in Nat
        /\ old.burst \in Nat /\ new.burst \in Nat
    BY QuotasAssumption
  <1>2. SatSub(t, now) \in Nat
    BY MaxNanosAssumption, HorizonAssumption DEF SatSub, Nanos, Times
  <1>3. \A a, b \in Nat, c \in Nat \ {0} : RoundedRatio(a, b, c) \in Nat
    <2> SUFFICES ASSUME NEW a \in Nat, NEW b \in Nat, NEW c \in Nat \ {0}
                 PROVE  RoundedRatio(a, b, c) \in Nat
      OBVIOUS
    <2>1. 2 * a * b + c \in Nat /\ 2 * c \in Nat \ {0}
      <3>1. a * b \in Nat
        OBVIOUS
      <3>2. 2 * a * b = 2 * (a * b)
        OBVIOUS
      <3> QED BY <3>1, <3>2
    <2>2. \A x \in Nat, y \in Nat \ {0} : x \div y \in Nat
      OBVIOUS
    <2> QED BY <2>1, <2>2 DEF RoundedRatio
  <1>4. RoundedRatio(SatSub(t, now), new.interval, old.interval) \in Nat
    BY <1>1, <1>2, <1>3
  <1>5. AtLeast(old.burst, new.burst) * new.interval \in Nat
    <2>1. AtLeast(old.burst, new.burst) \in Nat
      BY <1>1 DEF AtLeast
    <2> QED BY <1>1, <2>1
  <1>6. now \in Nat
    BY HorizonAssumption DEF Times
  <1> DEFINE computed == RoundedRatio(SatSub(t, now), new.interval, old.interval)
             full == AtLeast(old.burst, new.burst) * new.interval
  <1>7. AtLeast(computed, full) \in Nat
    BY <1>4, <1>5 DEF AtLeast
  <1>8. (IF t = MaxNanos THEN AtLeast(computed, full) ELSE computed) \in Nat
    BY <1>4, <1>7
  <1> QED
    BY <1>6, <1>8, SaturatingType DEF CarryTat

----------------------------------------------------------------------------
\* AtomicGcra::new makes two words.
LEMMA TypeInit == Init => TypeOK
  <1> SUFFICES ASSUME Init PROVE TypeOK
    OBVIOUS
  <1>1. 0 \in Nanos /\ 0 \in Times
    BY MaxNanosAssumption, HorizonAssumption DEF Nanos, Times
  <1>2. Idle \in Frame
    BY <1>1, QuotasAssumption DEF Idle, Frame, PCs
  <1> QED
    BY <1>1, <1>2, QuotasAssumption DEF Init, TypeOK

\* No atomic access of any call takes the limiter out of its type.
LEMMA TypeStep == TypeOK /\ [Next]_vars => TypeOK'
  <1> SUFFICES ASSUME TypeOK, [Next]_vars PROVE TypeOK'
    OBVIOUS
  <1>0. 0 \in Nanos /\ 0 \in Times /\ Idle \in Frame
    BY MaxNanosAssumption, HorizonAssumption, QuotasAssumption
    DEF Nanos, Times, Idle, Frame, PCs
  <1>1. CASE AdvanceClock
    BY <1>1, HorizonAssumption DEF AdvanceClock, TypeOK, Times
  <1>2. ASSUME NEW p \in Threads, Check(p) PROVE TypeOK'
    <2>1. [Idle EXCEPT !.pc = "load", !.now = clock, !.quota = quota,
                       !.crossed = Changing] \in Frame
      BY <1>0 DEF TypeOK, Frame, PCs, Changing
    <2> QED
      BY <1>2, <2>1 DEF Check, TypeOK
  <1>3. ASSUME NEW p \in Threads, LoadTat(p) \/ RetryCheck(p) PROVE TypeOK'
    <2>1. frame[p].quota \in Quotas /\ frame[p] \in Frame /\ tat \in Nanos
      BY DEF TypeOK, Frame
    <2>2. Earliest(tat, frame[p].quota) \in Nanos
      BY <2>1, EarliestType
    <2>3. [frame[p] EXCEPT !.pc = "cas", !.seen = tat] \in Frame
      BY <2>1 DEF Frame, PCs
    <2> QED
      BY <1>0, <1>3, <2>2, <2>3 DEF LoadTat, RetryCheck, Decide, TypeOK
  <1>4. ASSUME NEW p \in Threads, Admit(p) PROVE TypeOK'
    <2>1. /\ frame[p].quota \in Quotas /\ frame[p].seen \in Nanos
          /\ frame[p].now \in Times
      BY DEF TypeOK, Frame
    <2>2. NextTat(frame[p]) \in Nanos
      BY <2>1, AdvanceType DEF NextTat
    <2>3. admitted' \in [Windows -> Nat]
      BY <1>4 DEF Admit, TypeOK
    <2> QED
      BY <1>0, <1>4, <2>2, <2>3 DEF Admit, TypeOK
  <1>5. ASSUME NEW p \in Threads, NEW q \in Quotas, SetQuota(p, q) PROVE TypeOK'
    <2>1. [Idle EXCEPT !.pc = "swap", !.now = clock, !.goal = q] \in Frame
      BY <1>0 DEF TypeOK, Frame, PCs
    <2> QED
      BY <1>5, <2>1 DEF SetQuota, TypeOK
  <1>6. ASSUME NEW f \in [Threads -> Frame] PROVE Crossed(f) \in [Threads -> Frame]
    BY DEF Crossed, Frame, PCs
  <1>7. ASSUME NEW p \in Threads, SwapQuota(p) PROVE TypeOK'
    <2>1. frame[p] \in Frame /\ frame[p].goal \in Quotas /\ quota \in Quotas
      BY DEF TypeOK, Frame
    <2>2. [frame[p] EXCEPT !.pc = "reload", !.quota = quota] \in Frame
      BY <2>1 DEF Frame, PCs
    <2>3. frame' \in [Threads -> Frame]
      BY <1>0, <1>6, <1>7, <2>2 DEF SwapQuota, TypeOK
    <2> QED
      BY <1>0, <1>7, <2>1, <2>3 DEF SwapQuota, TypeOK
  <1>8. ASSUME NEW p \in Threads, LoadForRescale(p) \/ RetryRescale(p) PROVE TypeOK'
    <2>1. frame[p] \in Frame /\ tat \in Nanos
      BY DEF TypeOK
    <2>2. /\ [frame[p] EXCEPT !.pc = "recas", !.seen = tat] \in Frame
          /\ [frame[p] EXCEPT !.seen = tat] \in Frame
      BY <2>1 DEF Frame, PCs
    <2> QED
      BY <1>8, <2>2 DEF LoadForRescale, RetryRescale, TypeOK
  <1>9. ASSUME NEW p \in Threads, Rescale(p) PROVE TypeOK'
    <2>1. /\ frame[p].quota \in Quotas /\ frame[p].goal \in Quotas
          /\ frame[p].seen \in Nanos /\ frame[p].now \in Times
      BY DEF TypeOK, Frame
    <2>2. Rescaled(frame[p]) \in Nanos
      BY <2>1, CarryType DEF Rescaled
    <2>3. frame' \in [Threads -> Frame]
      BY <1>0, <1>6, <1>9 DEF Rescale, TypeOK
    <2>4. slack' \in Nat
      BY <1>9, <2>1, HorizonAssumption DEF Rescale, TypeOK, SatSub, Times
    <2> QED
      BY <1>0, <1>9, <2>2, <2>3, <2>4 DEF Rescale, TypeOK
  <1>10. ASSUME NEW p \in Threads, NEW q \in Quotas, Reset(p, q) PROVE TypeOK'
    <2>1. [Idle EXCEPT !.pc = "store"] \in Frame
      BY <1>0 DEF Frame, PCs
    <2>2. frame' \in [Threads -> Frame]
      BY <1>6, <1>10, <2>1 DEF Reset, TypeOK
    <2> QED
      BY <1>10, <2>2 DEF Reset, TypeOK
  <1>11. ASSUME NEW p \in Threads, StoreTat(p) PROVE TypeOK'
    BY <1>0, <1>11 DEF StoreTat, TypeOK
  <1>12. CASE UNCHANGED vars
    BY <1>12 DEF vars, TypeOK
  <1> QED
    BY <1>1, <1>2, <1>3, <1>4, <1>5, <1>7, <1>8, <1>9, <1>10, <1>11, <1>12
    DEF Next, CheckStep, SetQuotaStep, ResetStep

\* Type correctness: the two words stay words, however the calls of the threads
\* interleave.
THEOREM TypeCorrect == Spec => []TypeOK
  BY TypeInit, TypeStep, PTL DEF Spec

----------------------------------------------------------------------------
(***************************************************************************)
(* The window bound.  It is not inductive: it says nothing of the TAT,     *)
(* which is what refuses the next request.  The strengthening: while the   *)
(* TAT is not saturated, it lies past the start of every window by one     *)
(* interval for each request admitted in the window (TatCovers).  A        *)
(* request is let on to its compare-and-swap only at a `now` within the    *)
(* tolerance of the TAT it saw (Cleared), which no saturated TAT allows.   *)
(***************************************************************************)
Steady ==
    /\ quota = FirstQuota
    /\ \A p \in Threads : frame[p].quota = FirstQuota /\ frame[p].goal = FirstQuota
    /\ \A p \in Threads : frame[p].pc \notin {"swap", "reload", "recas"}

Cleared ==
    \A p \in Threads :
        frame[p].pc = "cas" => frame[p].now >= Earliest(frame[p].seen, FirstQuota)

TatCovers ==
    \A s, e \in Times :
        s <= e /\ admitted[<<s, e>>] > 0 /\ tat < MaxNanos
            => tat >= s + admitted[<<s, e>>] * FirstQuota.interval

Bounded ==
    \A s, e \in Times :
        s <= e => admitted[<<s, e>>] * FirstQuota.interval
                    <= (e - s) + FirstQuota.burst * FirstQuota.interval

WindowInv == TypeOK /\ Steady /\ Cleared /\ TatCovers /\ Bounded

\* A request cleared against the TAT comes at most tau before it, and the TAT
\* is not saturated.
LEMMA ClearedIsClose ==
    ASSUME NEW t \in Nanos, NEW now \in Times, now >= Earliest(t, FirstQuota)
    PROVE  /\ t < MaxNanos
           /\ t <= now + FirstQuota.interval * (FirstQuota.burst - 1)
  <1>1. FirstQuota \in Quotas
    BY QuotasAssumption
  <1>2. /\ Tau(FirstQuota) \in Nat
        /\ Tau(FirstQuota) <= MaxTau
        /\ Tau(FirstQuota) <= FirstQuota.interval * (FirstQuota.burst - 1)
    BY <1>1, TauBounds
  <1>3. FirstQuota.interval * (FirstQuota.burst - 1) \in Nat
    BY <1>1, QuotasAssumption
  <1>4. now \in Nat /\ now <= Horizon /\ MaxTau \in Nat
    BY HorizonAssumption, MaxNanosAssumption DEF Times, MaxTau
  <1>5. t <= now + Tau(FirstQuota)
    BY <1>2, <1>4 DEF Earliest, SatSub, Nanos
  <1>6. t < MaxNanos
    BY <1>2, <1>4, <1>5, HorizonAssumption, MaxNanosAssumption DEF Nanos
  <1> QED
    BY <1>2, <1>3, <1>4, <1>5, <1>6 DEF Nanos

\* An admission moves the TAT at least one interval on, and past its `now`,
\* unless it saturates.
LEMMA AdvanceMoves ==
    ASSUME NEW t \in Nanos, NEW now \in Times
    PROVE  /\ Advance(t, FirstQuota, now) >= t
           /\ Advance(t, FirstQuota, now) < MaxNanos =>
                 /\ Advance(t, FirstQuota, now) >= t + FirstQuota.interval
                 /\ Advance(t, FirstQuota, now) >= now + FirstQuota.interval
  <1>1. FirstQuota.interval \in Nat \ {0}
    BY QuotasAssumption
  <1>2. now \in Nat
    BY HorizonAssumption DEF Times
  <1> QED
    BY <1>1, <1>2, MaxNanosAssumption DEF Advance, SatAdd, AtLeast, AtMost, Nanos

\* At a constant quota every access of check, set_quota and reset preserves the
\* strengthened bound.
LEMMA WindowInvariant == OneQuota => (Spec => []WindowInv)
  <1> SUFFICES ASSUME OneQuota PROVE Spec => []WindowInv
    OBVIOUS
  <1> DEFINE t == FirstQuota.interval
             b == FirstQuota.burst
  <1>q. /\ FirstQuota \in Quotas
        /\ \A q \in Quotas : q = FirstQuota
        /\ t \in Nat \ {0} /\ b \in Nat \ {0}
    BY QuotasAssumption DEF OneQuota
  <1>1. Init => WindowInv
    <2> SUFFICES ASSUME Init PROVE WindowInv
      OBVIOUS
    <2>1. TypeOK
      BY TypeInit
    <2>2. Steady /\ Cleared
      BY DEF Init, Steady, Cleared, Idle
    <2>3. \A s, e \in Times : admitted[<<s, e>>] = 0
      BY DEF Init, Windows
    <2>4. TatCovers
      BY <2>3 DEF TatCovers
    <2>5. Bounded
      <3> SUFFICES ASSUME NEW s \in Times, NEW e \in Times, s <= e
                   PROVE  0 * t <= (e - s) + b * t
        BY <2>3 DEF Bounded
      <3>1. b * t \in Nat /\ 0 * t = 0
        BY <1>q
      <3> QED
        BY <3>1, HorizonAssumption DEF Times
    <2> QED
      BY <2>1, <2>2, <2>4, <2>5 DEF WindowInv
  <1>2. WindowInv /\ [Next]_vars => WindowInv'
    <2> SUFFICES ASSUME WindowInv, [Next]_vars PROVE WindowInv'
      OBVIOUS
    <2>0. TypeOK /\ TypeOK'
      BY TypeStep DEF WindowInv
    <2>1. CASE AdvanceClock
      <3>1. UNCHANGED <<quota, tat, frame, admitted>>
        BY <2>1 DEF AdvanceClock
      <3> QED
        BY <2>0, <3>1 DEF WindowInv, Steady, Cleared, TatCovers, Bounded
    <2>2. ASSUME NEW p \in Threads, Check(p) PROVE WindowInv'
      <3>1. UNCHANGED <<quota, tat, admitted>>
        BY <2>2 DEF Check
      <3>2. Steady' /\ Cleared'
        BY <2>0, <2>2 DEF WindowInv, Check, Steady, Cleared, Idle, TypeOK
      <3> QED
        BY <2>0, <3>1, <3>2 DEF WindowInv, TatCovers, Bounded
    <2>3. ASSUME NEW p \in Threads, LoadTat(p) \/ RetryCheck(p) PROVE WindowInv'
      <3>1. UNCHANGED <<quota, tat, admitted>>
        BY <2>3 DEF LoadTat, RetryCheck
      <3>2. frame[p] \in Frame /\ frame[p].quota = FirstQuota
        BY <2>0 DEF TypeOK, WindowInv, Steady
      <3>3. Earliest(tat, FirstQuota) \in Nat /\ frame[p].now \in Nat
        BY <1>q, <2>0, <3>2, EarliestType, HorizonAssumption, MaxNanosAssumption
        DEF TypeOK, Nanos, Frame, Times
      <3>4. PICK g \in Frame :
              /\ frame' = [frame EXCEPT ![p] = g]
              /\ g.quota = FirstQuota /\ g.goal = FirstQuota
              /\ g.pc \in {"idle", "cas"}
              /\ g.pc = "cas" => g.now >= Earliest(g.seen, FirstQuota)
        <4>1. CASE frame[p].now < Earliest(tat, FirstQuota)
          <5>1. frame' = [frame EXCEPT ![p] = Idle]
            BY <2>3, <3>2, <4>1 DEF LoadTat, RetryCheck, Decide
          <5>2. Idle \in Frame /\ Idle.quota = FirstQuota /\ Idle.goal = FirstQuota
                /\ Idle.pc = "idle"
            BY <1>q, HorizonAssumption, MaxNanosAssumption
            DEF Idle, Frame, PCs, Times, Nanos
          <5> QED
            BY <5>1, <5>2
        <4>2. CASE ~(frame[p].now < Earliest(tat, FirstQuota))
          <5> DEFINE g == [frame[p] EXCEPT !.pc = "cas", !.seen = tat]
          <5>1. frame' = [frame EXCEPT ![p] = g]
            BY <2>3, <3>2, <4>2 DEF LoadTat, RetryCheck, Decide
          <5>2. g \in Frame /\ g.pc = "cas" /\ g.seen = tat /\ g.now = frame[p].now
                /\ g.quota = frame[p].quota /\ g.goal = frame[p].goal
            BY <2>0, <3>2 DEF TypeOK, Frame, PCs
          <5>3. g.now >= Earliest(g.seen, FirstQuota)
            BY <3>3, <4>2, <5>2
          <5>4. g.quota = FirstQuota /\ g.goal = FirstQuota
            BY <5>2 DEF WindowInv, Steady
          <5> QED
            BY <5>1, <5>2, <5>3, <5>4
        <4> QED
          BY <4>1, <4>2
      <3>5. Steady' /\ Cleared'
        BY <2>0, <3>1, <3>4 DEF WindowInv, Steady, Cleared, TypeOK
      <3> QED
        BY <2>0, <3>1, <3>5 DEF WindowInv, TatCovers, Bounded
    <2>4. ASSUME NEW p \in Threads, Admit(p) PROVE WindowInv'
      <3> DEFINE now == frame[p].now
                 In(s, e) == s <= now /\ now <= e
      <3>1. /\ now \in Times /\ tat \in Nanos /\ frame[p].seen = tat
            /\ tat' = Advance(tat, FirstQuota, now)
            /\ now >= Earliest(tat, FirstQuota)
        BY <2>0, <2>4 DEF TypeOK, Frame, Admit, NextTat, WindowInv, Steady, Cleared
      <3>2. \A s, e \in Times :
              admitted'[<<s, e>>] = admitted[<<s, e>>] + IF In(s, e) THEN 1 ELSE 0
        BY <2>4 DEF Admit, Windows
      <3>3. /\ tat < MaxNanos /\ tat <= now + t * (b - 1)
        BY <3>1, ClearedIsClose
      <3>4. /\ tat' >= tat
            /\ tat' < MaxNanos => tat' >= tat + t /\ tat' >= now + t
        BY <3>1, AdvanceMoves
      <3>5. Steady' /\ Cleared'
        BY <2>0, <2>4 DEF WindowInv, Admit, Steady, Cleared, Idle, TypeOK
      <3>6. ASSUME NEW s \in Times, NEW e \in Times, s <= e
            PROVE  /\ admitted'[<<s, e>>] > 0 /\ tat' < MaxNanos
                        => tat' >= s + admitted'[<<s, e>>] * t
                   /\ admitted'[<<s, e>>] * t <= (e - s) + b * t
        <4> DEFINE k == admitted[<<s, e>>]
        <4>1. /\ k \in Nat /\ s \in Nat /\ e \in Nat /\ now \in Nat
              /\ tat \in Nat /\ tat' \in Nat
          BY <2>0, <3>1, HorizonAssumption, MaxNanosAssumption
          DEF TypeOK, Windows, Times, Nanos
        <4>2. /\ k * t \in Nat /\ b * t \in Nat
              /\ (k + 1) * t = k * t + t
              /\ t * (b - 1) = b * t - t
              /\ 0 * t = 0
              /\ b * t >= t
          <5>1. \A x, y \in Nat : x * y \in Nat /\ (x + 1) * y = x * y + y /\ 0 * y = 0
            OBVIOUS
          <5>2. \A x, y \in Nat : x > 0 => x * y = y * (x - 1) + y /\ y * (x - 1) \in Nat
            OBVIOUS
          <5>3. b * t = t * (b - 1) + t /\ t * (b - 1) \in Nat
            BY <1>q, <5>2
          <5> QED
            BY <1>q, <4>1, <5>1, <5>3
        <4>3. k > 0 => tat >= s + k * t
          BY <3>3, <3>6 DEF WindowInv, TatCovers
        <4>4. k * t <= (e - s) + b * t
          BY <3>6 DEF WindowInv, Bounded
        <4> HIDE DEF k, t, b
        <4>5. CASE In(s, e)
          <5>1. admitted'[<<s, e>>] = k + 1
            BY <3>2, <4>5 DEF k
          <5>2. CASE k = 0
            BY <1>q, <3>4, <4>1, <4>2, <4>5, <5>1, <5>2
          <5>3. CASE k > 0
            BY <1>q, <3>3, <3>4, <4>1, <4>2, <4>3, <4>5, <5>1, <5>3
          <5> QED
            BY <4>1, <5>2, <5>3
        <4>6. CASE ~In(s, e)
          <5>1. admitted'[<<s, e>>] = k
            BY <3>2, <4>1, <4>6 DEF k
          <5> QED
            BY <1>q, <3>4, <4>1, <4>2, <4>3, <4>4, <5>1
        <4> QED
          BY <4>5, <4>6
      <3> QED
        BY <2>0, <3>5, <3>6 DEF WindowInv, TatCovers, Bounded
    <2>5. ASSUME NEW p \in Threads, SetQuotaStep(p) PROVE FALSE
      BY <1>q, <2>5
      DEF WindowInv, Steady, SetQuotaStep, SetQuota, SwapQuota, LoadForRescale,
          Rescale, RetryRescale
    <2>6. ASSUME NEW p \in Threads, NEW q \in Quotas, Reset(p, q) PROVE WindowInv'
      <3>1. UNCHANGED <<tat, admitted>> /\ quota' = FirstQuota
        BY <1>q, <2>6 DEF Reset
      <3>2. Steady' /\ Cleared'
        BY <2>0, <2>6, <3>1, SMTT(30)
        DEF WindowInv, Reset, Crossed, Steady, Cleared, Idle, TypeOK, Frame
      <3> QED
        BY <2>0, <3>1, <3>2 DEF WindowInv, TatCovers, Bounded
    <2>7. ASSUME NEW p \in Threads, StoreTat(p) PROVE WindowInv'
      <3>1. Steady' /\ Cleared'
        BY <2>0, <2>7 DEF WindowInv, StoreTat, Steady, Cleared, Idle, TypeOK
      <3>2. \A s, e \in Times : admitted'[<<s, e>>] = 0
        BY <2>7 DEF StoreTat, Windows
      <3>3. TatCovers'
        BY <3>2 DEF TatCovers
      <3>4. Bounded'
        <4> SUFFICES ASSUME NEW s \in Times, NEW e \in Times, s <= e
                     PROVE  0 * t <= (e - s) + b * t
          BY <3>2 DEF Bounded
        <4>1. b * t \in Nat /\ 0 * t = 0
          BY <1>q
        <4> QED
          BY <4>1, HorizonAssumption DEF Times
      <3> QED
        BY <2>0, <3>1, <3>3, <3>4 DEF WindowInv
    <2>8. CASE UNCHANGED vars
      BY <2>0, <2>8 DEF vars, WindowInv, Steady, Cleared, TatCovers, Bounded
    <2> QED
      BY <2>1, <2>2, <2>3, <2>4, <2>5, <2>6, <2>7, <2>8 DEF Next, CheckStep, ResetStep
  <1> QED
    BY <1>1, <1>2, PTL DEF Spec

\* At a constant quota, the requests admitted in any window fit the rate over
\* the window and one burst, for any number of threads racing on the TAT.
THEOREM WindowBounded == OneQuota => (Spec => []WindowBound)
  <1>1. WindowInv => WindowBound
    BY DEF WindowInv, Bounded, WindowBound, Windows
  <1> QED
    BY <1>1, WindowInvariant, PTL

----------------------------------------------------------------------------
(***************************************************************************)
(* The promise of a denial.  A retry_at given is no later than what the    *)
(* TAT of now would give, since the TAT never falls; and a request that    *)
(* reaches its compare-and-swap was cleared against that very TAT.         *)
(***************************************************************************)
Promised == \A r \in Threads : retryAt[r] <= Earliest(tat, FirstQuota)

\* A later TAT denies for longer.
LEMMA EarliestGrows ==
    ASSUME NEW a \in Nanos, NEW b \in Nanos, a <= b
    PROVE  Earliest(a, FirstQuota) <= Earliest(b, FirstQuota)
  <1>1. Tau(FirstQuota) \in Nat
    BY QuotasAssumption, TauBounds
  <1> QED
    BY <1>1, MaxNanosAssumption DEF Earliest, SatSub, Nanos

\* No access takes the TAT back behind a promise given.
LEMMA PromisedStep ==
    ASSUME OneQuota, WindowInv, Promised, [Next]_vars
    PROVE  Promised'
  <1>q. FirstQuota \in Quotas /\ \A q \in Quotas : q = FirstQuota
    BY QuotasAssumption DEF OneQuota
  <1>0. TypeOK
    BY DEF WindowInv
  <1>e. Earliest(tat, FirstQuota) \in Nat /\ \A r \in Threads : retryAt[r] \in Nat
    BY <1>q, <1>0, EarliestType, MaxNanosAssumption DEF TypeOK, Nanos
  <1>1. CASE AdvanceClock
    BY <1>1 DEF AdvanceClock, Promised
  <1>2. ASSUME NEW p \in Threads, Check(p) PROVE Promised'
    BY <1>2 DEF Check, Promised
  <1>3. ASSUME NEW p \in Threads, LoadTat(p) \/ RetryCheck(p) PROVE Promised'
    <2>1. tat' = tat /\ frame[p].quota = FirstQuota
      BY <1>3 DEF LoadTat, RetryCheck, WindowInv, Steady
    <2>2. retryAt' \in {retryAt, [retryAt EXCEPT ![p] = Earliest(tat, FirstQuota)]}
      BY <1>3, <2>1 DEF LoadTat, RetryCheck, Decide
    <2> QED
      BY <1>0, <1>e, <2>1, <2>2 DEF Promised, TypeOK
  <1>4. ASSUME NEW p \in Threads, Admit(p) PROVE Promised'
    <2>1. /\ frame[p].now \in Times /\ tat \in Nanos /\ retryAt' = retryAt
          /\ tat' = Advance(tat, FirstQuota, frame[p].now)
      BY <1>0, <1>4 DEF TypeOK, Frame, Admit, NextTat, WindowInv, Steady
    <2>2. tat' \in Nanos /\ tat' >= tat
      BY <1>q, <2>1, AdvanceType, AdvanceMoves
    <2>3. Earliest(tat', FirstQuota) \in Nat
      BY <1>q, <2>2, EarliestType, MaxNanosAssumption DEF Nanos
    <2>4. tat <= tat'
      BY <2>1, <2>2, MaxNanosAssumption DEF Nanos
    <2>5. Earliest(tat, FirstQuota) <= Earliest(tat', FirstQuota)
      BY <2>1, <2>2, <2>4, EarliestGrows
    <2> QED
      BY <1>e, <2>1, <2>3, <2>5 DEF Promised
  <1>5. ASSUME NEW p \in Threads, SetQuotaStep(p) PROVE FALSE
    BY <1>q, <1>5
    DEF WindowInv, Steady, SetQuotaStep, SetQuota, SwapQuota, LoadForRescale,
        Rescale, RetryRescale
  <1>6. ASSUME NEW p \in Threads, NEW q \in Quotas, Reset(p, q) PROVE Promised'
    BY <1>6 DEF Reset, Promised
  <1>7. ASSUME NEW p \in Threads, StoreTat(p) PROVE Promised'
    <2>1. tat' \in Nanos /\ \A r \in Threads : retryAt'[r] = 0
      BY <1>7, MaxNanosAssumption DEF StoreTat, Nanos
    <2>2. Earliest(tat', FirstQuota) \in Nat
      BY <1>q, <2>1, EarliestType, MaxNanosAssumption DEF Nanos
    <2> QED
      BY <2>1, <2>2 DEF Promised
  <1>8. CASE UNCHANGED vars
    BY <1>8 DEF vars, Promised
  <1> QED
    BY <1>1, <1>2, <1>3, <1>4, <1>5, <1>6, <1>7, <1>8 DEF Next, CheckStep, ResetStep

\* At a constant quota no thread is admitted earlier than a retry_at that any
\* thread was given, however stale the TAT it had read.
THEOREM RetryAtKept == OneQuota => (Spec => NoEarlyAdmission)
  <1> SUFFICES ASSUME OneQuota PROVE Spec => NoEarlyAdmission
    OBVIOUS
  <1>1. Init => Promised
    <2> SUFFICES ASSUME Init PROVE Promised
      OBVIOUS
    <2>1. Earliest(0, FirstQuota) \in Nanos
      BY QuotasAssumption, EarliestType, MaxNanosAssumption DEF Nanos
    <2> QED
      BY <2>1, MaxNanosAssumption DEF Init, Promised, Nanos
  <1>2. WindowInv /\ Promised /\ [Next]_vars => Promised'
    BY PromisedStep
  <1>3. WindowInv /\ Promised =>
          [\A p \in Threads : Admit(p) => \A r \in Threads : retryAt[r] <= frame[p].now]_vars
    <2> SUFFICES ASSUME WindowInv, Promised, NEW p \in Threads, Admit(p), NEW r \in Threads
                 PROVE  retryAt[r] <= frame[p].now
      OBVIOUS
    <2>1. /\ frame[p].now >= Earliest(tat, FirstQuota)
          /\ retryAt[r] <= Earliest(tat, FirstQuota)
      BY DEF WindowInv, Cleared, Promised, Admit
    <2>2. /\ tat \in Nanos /\ retryAt[r] \in Nanos /\ frame[p].now \in Times
      BY DEF WindowInv, TypeOK, Frame
    <2>3. Earliest(tat, FirstQuota) \in Nanos
      BY <2>2, QuotasAssumption, EarliestType
    <2> QED
      BY <2>1, <2>2, <2>3, MaxNanosAssumption, HorizonAssumption DEF Nanos, Times
  <1>4. Spec => []WindowInv
    BY WindowInvariant
  <1> QED
    BY <1>1, <1>2, <1>3, <1>4, PTL DEF Spec, NoEarlyAdmission
----------------------------------------------------------------------------
(***************************************************************************)
(* The concurrent limiter is the sequential one.  A check takes effect at  *)
(* the access that decides it, the load that denies it or the compare-and- *)
(* swap that admits it; a slot is renewed when reset stores the TAT; every *)
(* other access is a stutter of Gcra.                                      *)
(***************************************************************************)
\* The TAT and the calls as Gcra has them, where a TAT of 0 is none.
MappedTat == IF tat = 0 THEN -1 ELSE tat
CallOf(f) == IF f.pc \in {"load", "cas"} THEN f.now ELSE -1
MappedCall == [p \in Threads |-> CallOf(frame[p])]

\* Both limiters compute with the same quotas.
LEMMA SameArithmetic ==
    /\ \A t, q : Sequential!Earliest(t, q) = Earliest(t, q)
    /\ \A t, q, now : Sequential!Advance(t, q, now) = Advance(t, q, now)
  BY DEF Earliest, Advance, SatSub, SatAdd, SatMul, AtLeast, AtMost, Tau, MaxTau,
         Sequential!Earliest, Sequential!Advance, Sequential!SatSub, Sequential!SatAdd,
         Sequential!SatMul, Sequential!AtLeast, Sequential!AtMost, Sequential!Tau,
         Sequential!MaxTau

\* A step of one thread changes its own call only.
LEMMA OneCallMoves ==
    ASSUME TypeOK, NEW p \in Threads, NEW g, frame' = [frame EXCEPT ![p] = g]
    PROVE  MappedCall' = [MappedCall EXCEPT ![p] = CallOf(g)]
  BY DEF MappedCall, TypeOK

\* A limiter that admitted nothing denies nobody, and moves on from `now`, as
\* one whose TAT is `now`.
LEMMA FreshIsNow ==
    ASSUME NEW now \in Times
    PROVE  /\ Earliest(0, FirstQuota) = 0
           /\ Earliest(now, FirstQuota) <= now
           /\ Advance(0, FirstQuota, now) = Advance(now, FirstQuota, now)
  <1>1. Tau(FirstQuota) \in Nat
    BY QuotasAssumption, TauBounds
  <1>2. now \in Nat
    BY HorizonAssumption DEF Times
  <1> QED
    BY <1>1, <1>2 DEF Earliest, SatSub, Advance, AtLeast

\* No TAT an admission stores is taken for none.
LEMMA AdvanceIsSome ==
    ASSUME NEW t \in Nanos, NEW now \in Times
    PROVE  Advance(t, FirstQuota, now) # 0
  <1>1. FirstQuota.interval \in Nat \ {0}
    BY QuotasAssumption
  <1>2. now \in Nat
    BY HorizonAssumption DEF Times
  <1> QED
    BY <1>1, <1>2, MaxNanosAssumption DEF Advance, SatAdd, AtLeast, AtMost, Nanos

\* At a constant quota every access is one step of the sequential limiter or
\* none.
LEMMA SequentialStep ==
    ASSUME OneQuota, WindowInv, [Next]_vars
    PROVE  [Sequential!Next]_(Sequential!gcraVars)
  <1>q. FirstQuota \in Quotas /\ \A q \in Quotas : q = FirstQuota
    BY QuotasAssumption DEF OneQuota
  <1>0. TypeOK /\ quota = FirstQuota
    BY DEF WindowInv, Steady
  <1>s. ASSUME UNCHANGED <<clock, quota, tat, admitted, retryAt>>, MappedCall' = MappedCall
        PROVE  UNCHANGED Sequential!gcraVars
    BY <1>s DEF Sequential!gcraVars, MappedCall, CallOf
  <1>1. CASE AdvanceClock
    <2>1. MappedCall' = MappedCall
      BY <1>1 DEF AdvanceClock, MappedCall
    <2>2. Sequential!AdvanceClock
      BY <1>1, <2>1 DEF AdvanceClock, Sequential!AdvanceClock, MappedCall, CallOf
    <2> QED
      BY <2>2 DEF Sequential!Next
  <1>2. ASSUME NEW p \in Threads, Check(p)
        PROVE  Sequential!Call(p)
    <2> DEFINE g == [Idle EXCEPT !.pc = "load", !.now = clock, !.quota = quota,
                                 !.crossed = Changing]
    <2>1. frame' = [frame EXCEPT ![p] = g] /\ frame[p].pc = "idle"
      BY <1>2 DEF Check
    <2>2. CallOf(g) = clock
      BY DEF CallOf, Idle
    <2> HIDE DEF g
    <2>3. MappedCall' = [MappedCall EXCEPT ![p] = clock]
      BY <1>0, <2>1, <2>2, OneCallMoves
    <2>4. MappedCall[p] = -1
      BY <2>1 DEF MappedCall, CallOf
    <2>5. UNCHANGED <<clock, quota, tat, admitted, retryAt>>
      BY <1>2 DEF Check
    <2> QED
      BY <2>3, <2>4, <2>5 DEF Sequential!Call, Sequential!NoCall, MappedCall, CallOf
  <1>3. ASSUME NEW p \in Threads, LoadTat(p) \/ RetryCheck(p)
        PROVE  Sequential!Deny(p) \/ UNCHANGED Sequential!gcraVars
    <2>1. /\ frame[p].pc \in {"load", "cas"} /\ frame[p].quota = FirstQuota
          /\ frame[p].now \in Times /\ tat \in Nanos
          /\ Decide(p, tat) /\ UNCHANGED <<clock, quota, tat, admitted>>
      BY <1>0, <1>3 DEF LoadTat, RetryCheck, TypeOK, Frame, WindowInv, Steady
    <2>2. MappedCall[p] = frame[p].now /\ frame[p].now # -1
      BY <2>1, HorizonAssumption DEF MappedCall, CallOf, Times
    <2>3. CASE frame[p].now < Earliest(tat, FirstQuota)
      <3>1. /\ frame' = [frame EXCEPT ![p] = Idle]
            /\ retryAt' = [retryAt EXCEPT ![p] = Earliest(tat, FirstQuota)]
        BY <2>1, <2>3 DEF Decide
      <3>2. MappedCall' = [MappedCall EXCEPT ![p] = -1]
        <4>1. CallOf(Idle) = -1
          BY DEF CallOf, Idle
        <4> QED
          BY <1>0, <3>1, <4>1, OneCallMoves
      <3>3. tat # 0
        BY <2>1, <2>3, FreshIsNow, HorizonAssumption DEF Times
      <3>4. Sequential!TatOr(frame[p].now) = tat
        BY <2>1, <3>3, MaxNanosAssumption DEF Sequential!TatOr, Sequential!NoTat, Nanos
      <3>5. Sequential!Deny(p)
        BY <1>0, <2>1, <2>2, <2>3, <3>1, <3>2, <3>4, SameArithmetic
        DEF Sequential!Deny, Sequential!NoCall, MappedCall, CallOf
      <3> QED
        BY <3>5
    <2>4. CASE ~(frame[p].now < Earliest(tat, FirstQuota))
      <3> DEFINE g == [frame[p] EXCEPT !.pc = "cas", !.seen = tat]
      <3>1. frame' = [frame EXCEPT ![p] = g] /\ retryAt' = retryAt
        BY <2>1, <2>4 DEF Decide
      <3>2. CallOf(g) = frame[p].now
        BY <1>0 DEF CallOf, TypeOK, Frame
      <3> HIDE DEF g
      <3>3. MappedCall' = [MappedCall EXCEPT ![p] = frame[p].now]
        BY <1>0, <3>1, <3>2, OneCallMoves
      <3>4. MappedCall' = MappedCall
        BY <2>2, <3>3 DEF MappedCall
      <3> QED
        BY <1>s, <2>1, <3>1, <3>4
    <2> QED
      BY <2>3, <2>4
  <1>4. ASSUME NEW p \in Threads, Admit(p)
        PROVE  Sequential!Allow(p)
    <2>1. /\ frame[p].pc = "cas" /\ frame[p].now \in Times /\ tat \in Nanos
          /\ tat' = Advance(tat, FirstQuota, frame[p].now)
          /\ frame[p].now >= Earliest(tat, FirstQuota)
          /\ frame' = [frame EXCEPT ![p] = Idle]
          /\ UNCHANGED <<clock, quota, retryAt>>
      BY <1>0, <1>4 DEF TypeOK, Frame, Admit, NextTat, WindowInv, Steady, Cleared
    <2>2. MappedCall[p] = frame[p].now /\ frame[p].now # -1
      BY <2>1, HorizonAssumption DEF MappedCall, CallOf, Times
    <2>3. MappedCall' = [MappedCall EXCEPT ![p] = -1]
      <3>1. CallOf(Idle) = -1
        BY DEF CallOf, Idle
      <3> QED
        BY <1>0, <2>1, <3>1, OneCallMoves
    <2>4. /\ tat' # 0
          /\ frame[p].now >= Earliest(Sequential!TatOr(frame[p].now), FirstQuota)
          /\ tat' = Advance(Sequential!TatOr(frame[p].now), FirstQuota, frame[p].now)
      <3>1. tat' # 0
        BY <2>1, AdvanceIsSome
      <3>2. CASE tat = 0
        <4>1. Sequential!TatOr(frame[p].now) = frame[p].now
          BY <3>2 DEF Sequential!TatOr, Sequential!NoTat
        <4> QED
          BY <2>1, <3>1, <3>2, <4>1, FreshIsNow
      <3>3. CASE tat # 0
        <4>1. Sequential!TatOr(frame[p].now) = tat
          BY <2>1, <3>3, MaxNanosAssumption DEF Sequential!TatOr, Sequential!NoTat, Nanos
        <4> QED
          BY <2>1, <3>1, <4>1
      <3> QED
        BY <3>2, <3>3
    <2>5. admitted' = [w \in Windows |->
              admitted[w] + IF w[1] <= frame[p].now /\ frame[p].now <= w[2] THEN 1 ELSE 0]
      BY <1>4 DEF Admit
    <2> QED
      BY <1>0, <2>1, <2>2, <2>3, <2>4, <2>5, SameArithmetic
      DEF Sequential!Allow, Sequential!NoCall, Sequential!Windows, Sequential!Times,
          Windows, Times, MappedCall, CallOf
  <1>5. ASSUME NEW p \in Threads, SetQuotaStep(p) PROVE FALSE
    BY <1>q, <1>5
    DEF WindowInv, Steady, SetQuotaStep, SetQuota, SwapQuota, LoadForRescale,
        Rescale, RetryRescale
  <1>6. ASSUME NEW p \in Threads, NEW q \in Quotas, Reset(p, q)
        PROVE  UNCHANGED Sequential!gcraVars
    <2> DEFINE g == [frame EXCEPT ![p] = [Idle EXCEPT !.pc = "store"]]
    <2>1. frame' = Crossed(g) /\ frame[p].pc = "idle" /\ quota' = q
          /\ UNCHANGED <<clock, tat, admitted, retryAt>>
      BY <1>6 DEF Reset
    <2>2. \A r \in Threads : g[r] \in Frame /\ CallOf(g[r]) = CallOf(frame[r])
      <3> DEFINE stored == [Idle EXCEPT !.pc = "store"]
      <3>1. stored \in Frame /\ stored.pc = "store"
        <4>1. Idle \in Frame
          BY <1>q, HorizonAssumption, MaxNanosAssumption DEF Idle, Frame, PCs, Times, Nanos
        <4> QED
          BY <4>1 DEF Frame, PCs
      <3> HIDE DEF stored
      <3>2. ASSUME NEW r \in Threads PROVE g[r] \in Frame /\ CallOf(g[r]) = CallOf(frame[r])
        <4>1. CASE r = p
          <5>1. g[r] = stored
            BY <1>0, <4>1 DEF TypeOK, stored
          <5> QED
            BY <2>1, <3>1, <4>1, <5>1 DEF CallOf
        <4>2. CASE r # p
          BY <1>0, <4>2 DEF TypeOK
        <4> QED
          BY <4>1, <4>2
      <3> QED
        BY <3>2
    <2> HIDE DEF g
    <2>3. \A r \in Threads : CallOf(frame'[r]) = CallOf(g[r])
      BY <2>1, <2>2 DEF Crossed, CallOf, Frame
    <2>4. MappedCall' = MappedCall
      BY <2>2, <2>3 DEF MappedCall
    <2> QED
      BY <1>q, <1>0, <1>s, <2>1, <2>4
  <1>7. ASSUME NEW p \in Threads, StoreTat(p)
        PROVE  Sequential!Renew(FirstQuota)
    <2>1. frame[p].pc = "store" /\ frame' = [frame EXCEPT ![p] = Idle]
      BY <1>7 DEF StoreTat
    <2>2. CallOf(Idle) = -1 /\ MappedCall[p] = -1
      BY <2>1 DEF CallOf, Idle, MappedCall
    <2>3. MappedCall' = [MappedCall EXCEPT ![p] = -1]
      BY <1>0, <2>1, <2>2, OneCallMoves
    <2>4. MappedCall' = MappedCall
      BY <2>2, <2>3 DEF MappedCall
    <2> QED
      BY <1>0, <1>7, <2>4
      DEF StoreTat, Sequential!Renew, Sequential!NoTat, Sequential!Windows,
          Sequential!Times, Windows, Times, MappedCall, CallOf
  <1>8. CASE UNCHANGED vars
    <2>1. MappedCall' = MappedCall
      BY <1>8 DEF vars, MappedCall
    <2> QED
      BY <1>8, <1>s, <2>1 DEF vars
  <1> QED
    BY <1>q, <1>1, <1>2, <1>3, <1>4, <1>5, <1>6, <1>7, <1>8
    DEF Next, CheckStep, ResetStep, Sequential!Next

\* The concurrent limiter, at a constant quota, implements the sequential one:
\* every check is answered as one Gcra::check at the reading of its caller
\* (gcra.rs, step, reset), for any number of threads.
THEOREM AtomicIsSequential == OneQuota => (Spec => ImplementsGcra)
  <1> SUFFICES ASSUME OneQuota PROVE Spec => ImplementsGcra
    OBVIOUS
  <1>1. Init => Sequential!Init
    BY DEF Init, Idle, Windows, Times, Sequential!Init, Sequential!NoTat,
           Sequential!NoCall, Sequential!Windows, Sequential!Times
  <1>2. WindowInv /\ [Next]_vars => [Sequential!Next]_(Sequential!gcraVars)
    BY SequentialStep
  <1>3. Spec => []WindowInv
    BY WindowInvariant
  <1> QED
    BY <1>1, <1>2, <1>3, PTL DEF Spec, ImplementsGcra, Sequential!Spec
=============================================================================
