------------------------------- MODULE Shadow -------------------------------
(***************************************************************************)
(* A limit tried out next to the one that decides: ShadowGcra of           *)
(* rateguard-core/src/gcra.rs, a quota word that may be off and a TAT,     *)
(* changed and checked with no lock.  A compare-and-swap loop on the TAT   *)
(* is one step, the one that succeeds.                                     *)
(***************************************************************************)
EXTENDS Quota

CONSTANTS
    Users,          \* the threads that check, set and reset the shadow
    Tried,          \* quotas
    MaxCalls,       \* bound: calls in a behaviour
    MaxClock        \* bound: the clock

ASSUME TriedAssumption ==
    /\ Tried # {} /\ MaxClock \in Nat
    /\ \A q \in Tried : q.interval \in 1 .. MaxNanos /\ q.burst \in Nat \ {0}

\* The quota word 0.
Off == [interval |-> 0, burst |-> 0]

VARIABLES
    word, shadowTat,    \* the two atomics
    clock,
    doing,               \* what each thread is in the middle of
    calls,              \* calls so far
    charged,            \* history: requests admitted since the word last was or went off
    carried,            \* history: whether a debt was carried over since
    decodedOff          \* history: whether a check decoded the 0

shadowVars == <<word, shadowTat, clock, doing, calls, charged, carried, decodedOff>>

NoCall == [at |-> "idle", quota |-> Off, now |-> 0]

ShadowInit ==
    /\ word = Off /\ shadowTat = 0
    /\ clock = 0
    /\ doing = [u \in Users |-> NoCall]
    /\ calls = 0
    /\ charged = 0 /\ carried = FALSE /\ decodedOff = FALSE

Enter(u, at, quota) ==
    /\ doing[u].at = "idle" /\ calls < MaxCalls
    /\ calls' = calls + 1
    /\ doing' = [doing EXCEPT ![u] = [at |-> at, quota |-> quota, now |-> clock]]

Leaves(u) == doing' = [doing EXCEPT ![u] = NoCall]

\* What was owed is forgotten when the word goes off or on.
Forgets(old, new) ==
    IF old = Off \/ new = Off THEN charged' = 0 /\ carried' = FALSE
    ELSE UNCHANGED <<charged, carried>>

\* check(): the word is read once, off decides nothing.
ReadWord(u) ==
    /\ word # Off
    /\ Enter(u, "step", word)
    /\ UNCHANGED <<word, shadowTat, clock, charged, carried, decodedOff>>

\* Mutant: the word is read again to be decoded.
DecodedAgain(u) == word

DecodedWord(u) == doing[u].quota

\* step(): a denial changes nothing.
StepTat(u) ==
    /\ doing[u].at = "step"
    /\ LET q == DecodedWord(u)
           admitted == doing[u].now >= Earliest(shadowTat, q)
       IN  /\ shadowTat' = IF admitted THEN Advance(shadowTat, q, doing[u].now) ELSE shadowTat
           /\ charged' = IF admitted THEN charged + 1 ELSE charged
           /\ decodedOff' = (decodedOff \/ q = Off)
    /\ Leaves(u)
    /\ UNCHANGED <<word, clock, calls, carried>>

\* set(): nothing to do if the word is the same already.
StartSet(u, q) ==
    /\ word # q
    /\ Enter(u, "swap", q)
    /\ UNCHANGED <<word, shadowTat, clock, charged, carried, decodedOff>>

SwapWord(u) ==
    /\ doing[u].at = "swap"
    /\ word' = doing[u].quota
    /\ doing' = [doing EXCEPT ![u] = [at |-> "settle", old |-> word, quota |-> doing[u].quota, now |-> doing[u].now]]
    /\ Forgets(word, doing[u].quota)
    /\ UNCHANGED <<shadowTat, clock, calls, decodedOff>>

\* rescale(): the same quota again changes nothing.
Rescaled(tat, old, new, now) == IF old = new THEN tat ELSE CarryTat(tat, old, new, now)

\* Mutant: what was left of an earlier life of the shadow is kept.
TatKept(tat, old, new, now) ==
    IF new = Off THEN 0 ELSE IF old = Off THEN tat ELSE Rescaled(tat, old, new, now)

\* On to on carries the debt over; anything else starts afresh.
TatAfter(tat, old, new, now) ==
    IF Off \in {old, new} THEN 0 ELSE Rescaled(tat, old, new, now)

SettleTat(u) ==
    /\ doing[u].at = "settle"
    /\ shadowTat' = TatAfter(shadowTat, doing[u].old, doing[u].quota, doing[u].now)
    /\ carried' = (carried \/ Off \notin {doing[u].old, doing[u].quota})
    /\ Leaves(u)
    /\ UNCHANGED <<word, clock, calls, charged, decodedOff>>

\* reset(): the word, then the TAT.
ResetWord(u) ==
    /\ Enter(u, "zero", Off)
    /\ word' = Off
    /\ Forgets(word, Off)
    /\ UNCHANGED <<shadowTat, clock, decodedOff>>

ZeroTat(u) ==
    /\ doing[u].at = "zero"
    /\ shadowTat' = 0
    /\ Leaves(u)
    /\ UNCHANGED <<word, clock, calls, charged, carried, decodedOff>>

TimePasses ==
    /\ clock < MaxClock
    /\ clock' = clock + 1
    /\ UNCHANGED <<word, shadowTat, doing, calls, charged, carried, decodedOff>>

ShadowDone ==
    /\ calls = MaxCalls /\ clock = MaxClock /\ \A u \in Users : doing[u].at = "idle"
    /\ UNCHANGED shadowVars

ShadowNext ==
    \/ \E u \in Users : ReadWord(u) \/ StepTat(u) \/ SwapWord(u) \/ SettleTat(u) \/ ResetWord(u) \/ ZeroTat(u)
    \/ \E u \in Users, q \in Tried \cup {Off} : StartSet(u, q)
    \/ TimePasses
    \/ ShadowDone

----------------------------------------------------------------------------
ShadowTypeOK ==
    /\ word \in Tried \cup {Off}
    /\ shadowTat \in Nanos
    /\ doing \in [Users -> [at : {"idle", "step", "swap", "zero"}, quota : Tried \cup {Off}, now : 0..MaxClock]
                     \cup [at : {"settle"}, old : Tried \cup {Off}, quota : Tried \cup {Off}, now : 0..MaxClock]]

Longest == CHOOSE i \in {q.interval : q \in Tried} : \A q \in Tried : q.interval <= i

\* A shadow switched on starts afresh, whatever raced the change: all it can
\* owe is an interval for each request admitted since, those of checks that
\* had read the quota before the change included ("one interval's debt at
\* most", ShadowGcra::set).  And no check decodes the word of a shadow that
\* is off, however it is switched meanwhile.
ShadowForgets ==
    /\ ShadowTypeOK
    /\ ~decodedOff
    /\ (\A u \in Users : doing[u].at \in {"idle", "step"}) /\ ~carried
          => SatSub(shadowTat, clock) <= charged * Longest
=============================================================================
