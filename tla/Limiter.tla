------------------------------ MODULE Limiter ------------------------------
(***************************************************************************)
(* Enforcement on one node: rateguard-core/src/limiter.rs, with the hot    *)
(* set of hot_set.rs and the demand of demand.rs.  `keys` holds the state  *)
(* of the tracked keys, `hot` the hot set, `shadows` which keys have a     *)
(* limiter for a limit only tried out, which decides nothing.  One action  *)
(* is one call; the calls that only read are left out.                     *)
(*                                                                         *)
(* A rate is a number in a unit in which alpha, beta and the sizes of the  *)
(* cluster divide the limits.  A key's average of attempts is abstracted:  *)
(* folding attempts in may give any rate above zero, folding none in any   *)
(* lower one; without its bias the average of a young key may be any       *)
(* higher rate.                                                            *)
(*                                                                         *)
(* History: `level` is a bucket, in half nanoseconds, that leaks at the    *)
(* fastest rate of any limit, takes one fastest interval for each          *)
(* admission and loses the half nanosecond a change of quota may round a   *)
(* debt down by; `cut` counts how often the cap on tracked keys took a     *)
(* key's state; `fed` is what the last tick fed the hot set and `steady`   *)
(* counts the ticks since it changed, or a key cooled.                     *)
(***************************************************************************)
EXTENDS QuotaWord, HotSet, SequencesExt, FiniteSetsExt

CONSTANTS
    Keys,                \* key hashes, numbers
    Checked,             \* keys enforced here; the others a runtime only records
    Limits,              \* limits [rate, burst] a key may have
    RatesOf,             \* what a key's demand averages to; 0 is under SILENT_DEMAND
    Foreign,             \* keys a peer may hold primary
    ShareRates,          \* what the share of a hot key may be
    Sizes,               \* cluster sizes
    Alpha, Beta,         \* config.alpha and config.floor_factor are one over these
    MaxTrackedKeys,
    Horizon,             \* bound on the clock
    MaxChecks            \* bound on the checks

\* Limit::validate: a limit admits something.
ASSUME LimitsAssumption ==
    /\ Limits \subseteq [rate : Nat \ {0}, burst : Nat \ {0}]
    /\ IsFiniteSet(Limits) /\ Limits # {}

ASSUME DemandAssumption ==
    /\ Keys \subseteq Nat /\ Checked \subseteq Keys
    /\ RatesOf \in [Keys -> SUBSET Nat] /\ \A k \in Keys : 0 \in RatesOf[k]

ASSUME LimiterAssumption ==
    /\ Alpha \in Nat \ {0} /\ Beta \in Nat \ {0}
    /\ Sizes \subseteq Nat \ {0} /\ ShareRates \subseteq Nat
    /\ Horizon \in Nat
    \* Config::validate: hot keys are never reclaimed.
    /\ MaxTrackedKeys \in Nat /\ MaxTrackedKeys >= HotSetSize

VARIABLES now, keys, hot, shadows, cap, lastTick, checks, level, cut, fed, steady

vars == <<now, keys, hot, shadows, cap, lastTick, checks, level, cut, fed, steady>>

NoTat == -1              \* Gcra.tat: None
Never == -1              \* last_tick: None
NoCap == 0               \* cap: None; cap d stands for the part 1/(Beta * d) of R

Tracked == DOMAIN keys
Rates == UNION {RatesOf[k] : k \in Keys}
Times == 0 .. Horizon

Quotas == [interval : Nat \ {0}, burst : {l.burst : l \in Limits}]
KeyState == [limit : Limits, rate : Rates, pending : BOOLEAN, measured : BOOLEAN,
             last : Times, tat : Nanos \cup {NoTat}, applied : Quotas]
HotEntry == [demand : Rates, primary : BOOLEAN, cooling : Times \cup {NotCooling},
             since : Times]

FastestInterval == Min({PerSecond(l.rate, l.burst).interval : l \in Limits})
LargestBurst == Max({l.burst : l \in Limits})

----------------------------------------------------------------------------
\* The rate the cap leaves of a limit, if there is one.
Capped(rate, limit, c) == IF c = NoCap THEN rate ELSE AtMost(rate, limit.rate \div (Beta * c))

ColdRate(limit, n) == limit.rate \div (n * Alpha)
Floor(limit, n) == limit.rate \div (Beta * n)

\* cold_quota(), new_key_factor(): what a key not seen before starts with.
ColdQuota(limit, n) == PerSecond(Capped(ColdRate(limit, n), limit, cap), limit.burst)

\* entry(): a key not seen before starts at the cold quota, its demand measured
\* from the last tick, or from now before the first; a known one takes the limit.
Entry(k, limit, n) ==
    LET new == [limit |-> limit, rate |-> 0, pending |-> FALSE, measured |-> FALSE,
                last |-> IF lastTick = Never THEN now ELSE lastTick,
                tat |-> NoTat, applied |-> ColdQuota(limit, n)]
    IN  IF k \in Tracked THEN [keys EXCEPT ![k].limit = limit]
        ELSE [j \in Tracked \cup {k} |-> IF j = k THEN new ELSE keys[j]]

\* Gcra::check: the TAT after a request at this moment, which a denied one leaves.
Admits(g) == g.tat = NoTat \/ now >= Earliest(g.tat, g.applied)
Checked1(g) ==
    IF Admits(g) THEN Advance(IF g.tat = NoTat THEN now ELSE g.tat, g.applied, now) ELSE g.tat

\* Gcra::set_quota
Requoted(g, q) ==
    IF q = g.applied THEN g
    ELSE [g EXCEPT !.tat = IF g.tat = NoTat THEN NoTat ELSE CarryTat(g.tat, g.applied, q, now),
                   !.applied = q]

\* The debt in requests that g's new quota h carries is less, by a fraction of one;
\* that of a saturated TAT is no measure.
RoundedDown(g, h) ==
    /\ h.tat # MaxNanos
    /\ SatSub(h.tat, now) * g.applied.interval < SatSub(g.tat, now) * h.applied.interval

\* Gcra::has_debt
HasDebt(g) == g.tat # NoTat /\ g.tat > now

Init ==
    /\ now = 0
    /\ keys = <<>>
    /\ hot = EmptyHotSet
    /\ shadows = {}
    /\ cap = NoCap
    /\ lastTick = Never
    /\ checks = 0
    /\ level = [k \in Checked |-> 0]
    /\ cut = [k \in Checked |-> 0]
    /\ fed = <<>>
    /\ steady = 0

AdvanceClock ==
    /\ now < Horizon
    /\ now' = now + 1
    /\ level' = [k \in Checked |-> AtLeast(level[k] - 2, 0)]
    /\ UNCHANGED <<keys, hot, shadows, cap, lastTick, checks, cut, fed, steady>>

\* check_in_traced(), check_in() and check(): the attempt counts whatever is decided.
CheckIn(k, limit, traced, n) ==
    LET entered == Entry(k, limit, n)
        state   == entered[k]
    IN
    /\ checks < MaxChecks
    /\ checks' = checks + 1
    /\ keys' = [entered EXCEPT ![k].pending = TRUE, ![k].tat = Checked1(state)]
    /\ shadows' = IF traced THEN shadows \cup {k} ELSE shadows \ {k}
    /\ level' = [level EXCEPT ![k] = @ + IF Admits(state) THEN 2 * FastestInterval ELSE 0]
    /\ UNCHANGED <<now, hot, cap, lastTick, cut, fed, steady>>

\* record(): attempts counted by a runtime that enforces in its own table.
Record(k, limit, n) ==
    /\ k \in Tracked => ~keys[k].pending
    /\ keys' = [Entry(k, limit, n) EXCEPT ![k].pending = TRUE]
    /\ UNCHANGED <<now, hot, shadows, cap, lastTick, checks, level, cut, fed, steady>>

\* set_cap()
SetCap(c) ==
    /\ c # cap
    /\ cap' = c
    /\ UNCHANGED <<now, keys, hot, shadows, lastTick, checks, level, cut, fed, steady>>

----------------------------------------------------------------------------
\* Demand::tick: attempts are folded in once they have an interval to be measured
\* over; at the moment of the last tick they wait.
MayFold(state, rate) ==
    IF now = state.last THEN rate = state.rate
    ELSE IF state.pending THEN rate > 0
    ELSE rate <= state.rate

Fold(state, rate) ==
    IF now = state.last THEN state
    ELSE [state EXCEPT !.rate = rate, !.pending = FALSE, !.measured = TRUE, !.last = now]

\* A key a peer holds primary counts as hot there while it has demand here.
Elsewhere(state, k, foreign) == state.rate > 0 /\ k \in foreign

\* Mutant: a key's attempts that no tick has measured yet do not keep it.
KeepMeasured(state, k, hotNow) == k \in DOMAIN hotNow \/ HasDebt(state) \/ state.rate > 0

\* The orders a map may be walked in.
Orders == {s \in [1 .. Cardinality(Tracked) -> Tracked] : IsInjective(s)}

\* Mutant: a key is dropped with its debt.
KeepDemanded(state, k, hotNow) ==
    k \in DOMAIN hotNow \/ state.rate > 0 \/ state.pending

\* What pass one of a tick keeps: `hotNow` is the hot set when the key is visited.
Keep(state, k, hotNow) ==
    k \in DOMAIN hotNow \/ HasDebt(state) \/ state.rate > 0 \/ state.pending

\* Pass one at one key: the hot set is fed its demand, and it is kept or not.
Visit(acc, k, folded, n, foreign) ==
    LET state  == folded[k]
        hotNow == UpdateWith(acc.hot, k, state.rate, ColdRate(state.limit, n), now,
                             Elsewhere(state, k, foreign))
    IN  [hot |-> hotNow,
         kept |-> IF Keep(state, k, hotNow) THEN acc.kept \cup {k} ELSE acc.kept]

\* Pass one, over the keys in the map's order: what is kept, and the hot set.
PassOne(folded, order, n, foreign) ==
    LET visit[i \in 0 .. Len(order)] ==
            IF i = 0 THEN [hot |-> hot, kept |-> {}]
            ELSE Visit(visit[i - 1], order[i], folded, n, foreign)
    IN  visit[Len(order)]

\* Pass two: the quota of a key once the hot set is settled.
Wanted(state, k, hotNow, n, foreign, share) ==
    LET limit == state.limit
        rate  == IF k \in DOMAIN hotNow THEN share
                 ELSE IF Elsewhere(state, k, foreign)
                 THEN AtMost(Floor(limit, n), ColdRate(limit, n))
                 ELSE ColdRate(limit, n)
    IN  PerSecond(Capped(rate, limit, cap), limit.burst)

\* unbiased_rate(): nothing for what was not measured, else at least the rate.
UnbiasedAtMost(state) == IF state.measured /\ state.rate > 0 THEN Max(Rates) ELSE 0
UnbiasedAtLeast(state) == IF state.measured THEN state.rate ELSE 0

\* Mutant: hot keys are reclaimed like any other.
ReclaimsAny(state, hotNow, victims) ==
    Cardinality(victims) = AtLeast(Cardinality(DOMAIN state) - MaxTrackedKeys, 0)

\* enforce_cap(): as many cold keys go as there are too many, the least demand first.
Reclaims(state, hotNow, victims) ==
    LET cold   == DOMAIN state \ DOMAIN hotNow
        excess == AtLeast(Cardinality(DOMAIN state) - MaxTrackedKeys, 0)
    IN  /\ victims \subseteq cold
        /\ Cardinality(victims) = AtMost(excess, Cardinality(cold))
        /\ \A v \in victims, w \in cold \ victims :
              \/ UnbiasedAtLeast(state[v]) < UnbiasedAtMost(state[w])
              \/ UnbiasedAtLeast(state[v]) = UnbiasedAtMost(state[w]) /\ v < w

\* What the tick feeds the hot set for each key.
Feed(folded, n, foreign) ==
    [k \in DOMAIN folded |-> <<folded[k].rate, ColdRate(folded[k].limit, n),
                               Elsewhere(folded[k], k, foreign)>>]

\* tick_with_shares() and tick(): two passes, then the caps on keys and shadows.
Tick(n, foreign, rate, share) ==
    LET folded == [k \in Tracked |-> Fold(keys[k], rate[k])]
        fedNow == Feed(folded, n, foreign)
        cools  == \E k \in DOMAIN hot : hot[k].cooling # NotCooling
    IN
    \E one \in {PassOne(folded, order, n, foreign) : order \in Orders} :
    LET quoted == [k \in one.kept |->
                     Requoted(folded[k], Wanted(folded[k], k, one.hot, n, foreign, share))]
    IN
    \E victims \in SUBSET one.kept :
        /\ Reclaims(quoted, one.hot, victims)
        /\ keys' = Restrict(quoted, one.kept \ victims)
        /\ hot' = one.hot
        /\ shadows' = shadows \cap (one.kept \ victims)
        /\ lastTick' = now
        /\ cut' = [k \in Checked |-> cut[k] + IF k \in victims THEN 1 ELSE 0]
        /\ fed' = fedNow
        /\ steady' = IF fedNow = fed /\ ~cools THEN AtMost(steady + 1, 2) ELSE 0
        /\ level' = [k \in Checked |->
                       IF k \in one.kept /\ RoundedDown(folded[k], quoted[k])
                       THEN AtLeast(level[k] - 1, 0) ELSE level[k]]
        /\ UNCHANGED <<now, cap, checks>>

Next ==
    \/ AdvanceClock
    \/ \E k \in Keys, limit \in Limits, n \in Sizes :
          \/ k \in Checked /\ \E traced \in BOOLEAN : CheckIn(k, limit, traced, n)
          \/ k \notin Checked /\ Record(k, limit, n)
    \/ \E c \in {NoCap} \cup Sizes : SetCap(c)
    \/ \E n \in Sizes, foreign \in SUBSET Foreign,
          rate \in {f \in [Tracked -> Rates] : \A k \in Tracked : f[k] \in RatesOf[k] /\ MayFold(keys[k], f[k])},
          share \in ShareRates : Tick(n, foreign, rate, share)

Spec == Init /\ [][Next]_vars

----------------------------------------------------------------------------
TypeOK ==
    /\ now \in Times
    /\ Tracked \subseteq Keys /\ DOMAIN hot \subseteq Keys /\ shadows \subseteq Checked
    /\ keys \in [Tracked -> KeyState]
    /\ hot \in [DOMAIN hot -> HotEntry]
    /\ cap \in {NoCap} \cup Sizes
    /\ lastTick \in Times \cup {Never}

\* The caps of the config hold at every tick, whatever order the keys are visited
\* in: hot keys and keys with a shadow are tracked, the hot ones are no more than
\* the hot set holds, so that reclaiming cold keys alone gets the map under
\* max_tracked_keys.
CapsKept ==
    /\ TypeOK
    /\ DOMAIN hot \cup shadows \subseteq Tracked
    /\ Cardinality(DOMAIN hot) <= HotSetSize
    /\ lastTick = now /\ (\A k \in Tracked : ~keys[k].pending) =>
          Cardinality(Tracked) <= MaxTrackedKeys

\* Forgetting an idle key is lossless, and so is every change of its share: through
\* ticks, drops and new starts a key is admitted no more in any window than the
\* fastest quota and one burst give, one burst more for each time the cap on tracked
\* keys took its state, and what the rounding of its debt to the nanosecond gives.
HistoryKept == \A k \in Checked : level[k] <= 2 * LargestBurst * FastestInterval * (1 + cut[k])

\* Nor does a change of share punish a key: it never owes more than one burst at
\* the quota in force.
DebtBounded ==
    \A k \in Tracked : keys[k].tat <= now + LargestBurst * keys[k].applied.interval

\* Attempts recorded before a tick are counted by it or still there after it: a
\* key with attempts no tick has measured is not dropped, save for the cap.
NoAttemptLost ==
    [][\A k \in Tracked : keys[k].pending /\ Cardinality(Tracked) <= MaxTrackedKeys =>
          k \in DOMAIN keys']_vars

\* The hot set does not flap: the third tick fed with the same demand changes
\* nothing in it, in whatever order the keys come, unless a key cooled meanwhile.
HotSetSettles == [][steady' = 2 /\ fed' = fed => DOMAIN hot' = DOMAIN hot]_vars
=============================================================================
