----------------------------- MODULE AtomicGcra -----------------------------
(***************************************************************************)
(* AtomicGcra (rateguard-core/src/gcra.rs): one key's limiter shared by    *)
(* many threads, as two atomic words, the quota and the TAT.  One action   *)
(* per atomic access:                                                      *)
(*   check       load quota; load TAT; compare-and-swap TAT until it holds *)
(*   set_quota   load quota; swap quota; load TAT; compare-and-swap TAT    *)
(*   reset       store quota; store TAT                                    *)
(* A caller reads the clock before it calls, so its `now` may be stale by  *)
(* the time an access happens, and two callers may act in the opposite     *)
(* order of their `now`s.                                                  *)
(*                                                                         *)
(* `admitted`, `slack` and `retryAt` are history: no code reads them.      *)
(***************************************************************************)
EXTENDS Quota

CONSTANTS
    Threads,        \* the threads calling check, set_quota and reset
    Quotas,         \* the quotas the limiter may be set to
    FirstQuota,     \* the one it is made with
    Horizon         \* bound on the clock

ASSUME QuotasAssumption ==
    /\ FirstQuota \in Quotas
    /\ \A q \in Quotas : /\ q = [interval |-> q.interval, burst |-> q.burst]
                         /\ q.interval \in Nat \ {0}
                         /\ q.burst \in Nat \ {0}

\* The limiter's own precondition: the clock stays under half of the word
\* (292 years of nanoseconds from the node's start).
ASSUME HorizonAssumption ==
    Horizon \in Nat /\ Horizon < MaxNanos - MaxTau

VARIABLES
    clock,          \* the time a caller reads
    quota,          \* AtomicGcra.quota
    tat,            \* AtomicGcra.tat; 0 is "never admitted"
    frame,          \* each thread's call in progress: pc and locals
    admitted,       \* history: admissions whose `now` fell in the window <<s, e>>
    slack,          \* history: what changes of quota may have given away
    retryAt         \* history: the retry_at of each thread's last denial

vars == <<clock, quota, tat, frame, admitted, slack, retryAt>>

Times == 0 .. Horizon
Windows == Times \X Times

PCs == {"idle", "load", "cas", "swap", "reload", "recas", "store"}

\* A call in progress: `quota` is the word a check loaded, or the one
\* set_quota replaced; `goal` the quota being set; `crossed` is history,
\* whether the quota word or a pending rescale moved under a check.
Frame == [pc : PCs, now : Times, quota : Quotas, goal : Quotas,
          seen : Nanos, crossed : BOOLEAN]

Idle == [pc |-> "idle", now |-> 0, quota |-> FirstQuota, goal |-> FirstQuota,
         seen |-> 0, crossed |-> FALSE]

TypeOK ==
    /\ clock \in Times
    /\ quota \in Quotas
    /\ tat \in Nanos
    /\ frame \in [Threads -> Frame]
    /\ admitted \in [Windows -> Nat]
    /\ slack \in Nat
    /\ retryAt \in [Threads -> Nanos]

Init ==
    /\ clock = 0
    /\ quota = FirstQuota
    /\ tat = 0
    /\ frame = [p \in Threads |-> Idle]
    /\ admitted = [w \in Windows |-> 0]
    /\ slack = 0
    /\ retryAt = [p \in Threads |-> 0]

----------------------------------------------------------------------------
\* A thread is between the two words of set_quota, or of reset.
Changing == \E p \in Threads : frame[p].pc \in {"reload", "recas", "store"}

\* Every check in flight is marked as overlapping the change.
Crossed(f) ==
    [p \in Threads |-> [f[p] EXCEPT !.crossed = @ \/ f[p].pc \in {"load", "cas"}]]

AdvanceClock ==
    /\ clock < Horizon
    /\ clock' = clock + 1
    /\ UNCHANGED <<quota, tat, frame, admitted, slack, retryAt>>

\* check(now): load the quota word (Relaxed).
Check(p) ==
    /\ frame[p].pc = "idle"
    /\ frame' = [frame EXCEPT ![p] =
                    [Idle EXCEPT !.pc = "load", !.now = clock, !.quota = quota,
                                 !.crossed = Changing]]
    /\ UNCHANGED <<clock, quota, tat, admitted, slack, retryAt>>

\* Mutant: a request is denied at the very moment it could pass.
DecideLate(p, seen) ==
    LET f == frame[p] IN
    IF f.now <= Earliest(seen, f.quota)
    THEN /\ frame' = [frame EXCEPT ![p] = Idle]
         /\ retryAt' = [retryAt EXCEPT ![p] = Earliest(seen, f.quota)]
    ELSE /\ frame' = [frame EXCEPT ![p] = [f EXCEPT !.pc = "cas", !.seen = seen]]
         /\ UNCHANGED retryAt

\* The head of step()'s loop, on a TAT just read: deny at once, or go on to
\* the compare-and-swap.
Decide(p, seen) ==
    LET f == frame[p] IN
    IF f.now < Earliest(seen, f.quota)
    THEN /\ frame' = [frame EXCEPT ![p] = Idle]
         /\ retryAt' = [retryAt EXCEPT ![p] = Earliest(seen, f.quota)]
    ELSE /\ frame' = [frame EXCEPT ![p] = [f EXCEPT !.pc = "cas", !.seen = seen]]
         /\ UNCHANGED retryAt

\* step(): the first load of the TAT.
LoadTat(p) ==
    /\ frame[p].pc = "load"
    /\ Decide(p, tat)
    /\ UNCHANGED <<clock, quota, tat, admitted, slack>>

\* The TAT stored by a check whose compare-and-swap finds it unchanged.
NextTat(f) == Advance(f.seen, f.quota, f.now)

\* Mutant: a store in place of the compare-and-swap.
AdmitBlind(p) ==
    LET f == frame[p] IN
    /\ f.pc = "cas"
    /\ tat' = NextTat(f)
    /\ admitted' = [w \in Windows |->
                      admitted[w] + IF w[1] <= f.now /\ f.now <= w[2] THEN 1 ELSE 0]
    /\ slack' = slack + IF f.crossed THEN 1 ELSE 0
    /\ frame' = [frame EXCEPT ![p] = Idle]
    /\ UNCHANGED <<clock, quota, retryAt>>

\* step(): the compare-and-swap holds, the request is admitted.
Admit(p) ==
    LET f == frame[p] IN
    /\ f.pc = "cas"
    /\ tat = f.seen
    /\ tat' = NextTat(f)
    /\ admitted' = [w \in Windows |->
                      admitted[w] + IF w[1] <= f.now /\ f.now <= w[2] THEN 1 ELSE 0]
    /\ slack' = slack + IF f.crossed THEN 1 ELSE 0
    /\ frame' = [frame EXCEPT ![p] = Idle]
    /\ UNCHANGED <<clock, quota, retryAt>>

\* step(): the compare-and-swap fails, weakly even on an unchanged TAT, and
\* the loop goes round with the TAT it found.
RetryCheck(p) ==
    /\ frame[p].pc = "cas"
    /\ Decide(p, tat)
    /\ UNCHANGED <<clock, quota, tat, admitted, slack>>

\* set_quota(q, now): the same quota changes nothing.
SetQuota(p, q) ==
    /\ frame[p].pc = "idle"
    /\ quota # q
    /\ frame' = [frame EXCEPT ![p] = [Idle EXCEPT !.pc = "swap", !.now = clock, !.goal = q]]
    /\ UNCHANGED <<clock, quota, tat, admitted, slack, retryAt>>

\* set_quota: swap the quota word.  A promise of a retry_at is void from here.
\* rescale() returns at once if another thread had set the same quota.
SwapQuota(p) ==
    LET f == frame[p] IN
    /\ f.pc = "swap"
    /\ quota' = f.goal
    /\ frame' = Crossed([frame EXCEPT ![p] =
                    IF quota = f.goal THEN Idle
                    ELSE [f EXCEPT !.pc = "reload", !.quota = quota]])
    /\ retryAt' = [r \in Threads |-> 0]
    /\ UNCHANGED <<clock, tat, admitted, slack>>

\* rescale(): the first load of the TAT.
LoadForRescale(p) ==
    /\ frame[p].pc = "reload"
    /\ frame' = [frame EXCEPT ![p] = [@ EXCEPT !.pc = "recas", !.seen = tat]]
    /\ UNCHANGED <<clock, quota, tat, admitted, slack, retryAt>>

\* Mutant: the debt is left in the intervals of the old quota.
NotRescaled(f) == f.seen

\* The TAT rescale() stores.
Rescaled(f) == CarryTat(f.seen, f.quota, f.goal, f.now)

\* rescale(): the compare-and-swap holds.  A late one acts as if the new quota
\* had been in force since its `now`: the ticks it is late are slack.
Rescale(p) ==
    LET f == frame[p] IN
    /\ f.pc = "recas"
    /\ tat = f.seen
    /\ tat' = Rescaled(f)
    /\ frame' = Crossed([frame EXCEPT ![p] = Idle])
    /\ slack' = slack + SatSub(clock, f.now)
    /\ retryAt' = [r \in Threads |-> 0]
    /\ UNCHANGED <<clock, quota, admitted>>

\* rescale(): the compare-and-swap fails, the loop takes the TAT it found.
RetryRescale(p) ==
    /\ frame[p].pc = "recas"
    /\ frame' = [frame EXCEPT ![p] = [@ EXCEPT !.seen = tat]]
    /\ UNCHANGED <<clock, quota, tat, admitted, slack, retryAt>>

\* reset(q): store the quota, for a slot handed to another key.
Reset(p, q) ==
    /\ frame[p].pc = "idle"
    /\ quota' = q
    /\ frame' = Crossed([frame EXCEPT ![p] = [Idle EXCEPT !.pc = "store"]])
    /\ UNCHANGED <<clock, tat, admitted, slack, retryAt>>

\* reset: store the TAT.  The history starts over with the slot.
StoreTat(p) ==
    /\ frame[p].pc = "store"
    /\ tat' = 0
    /\ frame' = [frame EXCEPT ![p] = Idle]
    /\ admitted' = [w \in Windows |-> 0]
    /\ slack' = 0
    /\ retryAt' = [r \in Threads |-> 0]
    /\ UNCHANGED <<clock, quota>>

CheckStep(p) == Check(p) \/ LoadTat(p) \/ Admit(p) \/ RetryCheck(p)

SetQuotaStep(p) ==
    \/ \E q \in Quotas : SetQuota(p, q)
    \/ SwapQuota(p) \/ LoadForRescale(p) \/ Rescale(p) \/ RetryRescale(p)

ResetStep(p) == (\E q \in Quotas : Reset(p, q)) \/ StoreTat(p)

Next == AdvanceClock \/ \E p \in Threads : CheckStep(p) \/ SetQuotaStep(p) \/ ResetStep(p)

Spec == Init /\ [][Next]_vars
----------------------------------------------------------------------------
\* The limiter is never asked to change: every set_quota is the early return.
OneQuota == \A q \in Quotas : q = FirstQuota

\* The promise of a rate limiter, kept by racing threads whose readings of the
\* clock reach the TAT in any order: at a constant quota, the requests
\* admitted with a `now` in any window fit the rate over the window and one
\* burst.  It rests on the compare-and-swap of step(), on the saturating
\* addition and on the cap of tau() together.
WindowBound ==
    \A w \in Windows : w[1] <= w[2] =>
        admitted[w] * FirstQuota.interval
            <= (w[2] - w[1]) + FirstQuota.burst * FirstQuota.interval

\* "retry_at is the earliest moment a request could be admitted": once one
\* thread was denied with a retry_at, no thread is admitted at an earlier
\* `now`, however stale the TAT it had read, until the quota changes.
NoEarlyAdmission ==
    [][\A p \in Threads : Admit(p) => \A r \in Threads : retryAt[r] <= frame[p].now]_vars

\* The concurrent limiter is the sequential one: with no change of quota,
\* every check is answered as one Gcra::check at the reading of its caller.
Sequential == INSTANCE Gcra WITH
    tat <- IF tat = 0 THEN -1 ELSE tat,
    call <- [p \in Threads |-> IF frame[p].pc \in {"load", "cas"} THEN frame[p].now ELSE -1]

ImplementsGcra == Sequential!Spec
=============================================================================
