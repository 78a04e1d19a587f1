-------------------------------- MODULE Gcra --------------------------------
(***************************************************************************)
(* The sequential limiter of rateguard-core/src/gcra.rs: every call takes  *)
(* effect at one instant.  It is the limiter the core and the simulator    *)
(* run, and the specification AtomicGcra is held to: a caller reads the    *)
(* clock, calls, and some time later is answered as one Gcra::check at     *)
(* that reading.                                                           *)
(*                                                                         *)
(* `admitted` and `retryAt` are the answers given: the number of           *)
(* admissions by the window their `now` fell in, and the retry_at of each  *)
(* caller's last denial.                                                   *)
(***************************************************************************)
EXTENDS Quota

CONSTANTS Threads, Quotas, FirstQuota, Horizon

VARIABLES clock, quota, tat, call, admitted, retryAt

gcraVars == <<clock, quota, tat, call, admitted, retryAt>>

Times == 0 .. Horizon
Windows == Times \X Times

NoTat == -1          \* tat: None
NoCall == -1         \* the thread is not in a call

TypeOK ==
    /\ clock \in Times
    /\ quota \in Quotas
    /\ tat \in Nanos \cup {NoTat}
    /\ call \in [Threads -> Times \cup {NoCall}]
    /\ admitted \in [Windows -> Nat]
    /\ retryAt \in [Threads -> Nanos]

\* Gcra::new: a limiter that has admitted nothing yet.
Init ==
    /\ clock = 0
    /\ quota = FirstQuota
    /\ tat = NoTat
    /\ call = [p \in Threads |-> NoCall]
    /\ admitted = [w \in Windows |-> 0]
    /\ retryAt = [p \in Threads |-> 0]

----------------------------------------------------------------------------
AdvanceClock ==
    /\ clock < Horizon
    /\ clock' = clock + 1
    /\ UNCHANGED <<quota, tat, call, admitted, retryAt>>

\* A caller reads the clock and calls check.
Call(p) ==
    /\ call[p] = NoCall
    /\ call' = [call EXCEPT ![p] = clock]
    /\ UNCHANGED <<clock, quota, tat, admitted, retryAt>>

\* self.tat.unwrap_or(now)
TatOr(now) == IF tat = NoTat THEN now ELSE tat

\* check(now): the request comes too early.
Deny(p) ==
    LET earliest == Earliest(TatOr(call[p]), quota) IN
    /\ call[p] # NoCall
    /\ call[p] < earliest
    /\ retryAt' = [retryAt EXCEPT ![p] = earliest]
    /\ call' = [call EXCEPT ![p] = NoCall]
    /\ UNCHANGED <<clock, quota, tat, admitted>>

\* check(now): admitted, and the TAT moves one interval on.
Allow(p) ==
    LET now == call[p] IN
    /\ now # NoCall
    /\ now >= Earliest(TatOr(now), quota)
    /\ tat' = Advance(TatOr(now), quota, now)
    /\ admitted' = [w \in Windows |->
                      admitted[w] + IF w[1] <= now /\ now <= w[2] THEN 1 ELSE 0]
    /\ call' = [call EXCEPT ![p] = NoCall]
    /\ UNCHANGED <<clock, quota, retryAt>>

\* set_quota(q, now): the debt is carried over in requests; the same quota
\* changes nothing, and a limiter that admitted nothing has no debt.
SetQuota(q) ==
    /\ q # quota
    /\ quota' = q
    /\ tat' = IF tat = NoTat THEN NoTat ELSE CarryTat(tat, quota, q, clock)
    /\ retryAt' = [p \in Threads |-> 0]
    /\ UNCHANGED <<clock, call, admitted>>

\* The limiter is given to another key: a fresh one, and a history from zero.
Renew(q) ==
    /\ quota' = q
    /\ tat' = NoTat
    /\ admitted' = [w \in Windows |-> 0]
    /\ retryAt' = [p \in Threads |-> 0]
    /\ UNCHANGED <<clock, call>>

Next ==
    \/ AdvanceClock
    \/ \E p \in Threads : Call(p) \/ Deny(p) \/ Allow(p)
    \/ \E q \in Quotas : SetQuota(q) \/ Renew(q)

Spec == Init /\ [][Next]_gcraVars
=============================================================================
