------------------------------ MODULE KeyTable ------------------------------
(***************************************************************************)
(* The lock-free key table of the request path (rateguard/src/table.rs),   *)
(* with its two users: the checks of request threads (check_hashed,        *)
(* guard.rs) and the background task's tick (sync, driver.rs).             *)
(*                                                                         *)
(* One action per atomic access that another thread can tell apart.  A     *)
(* load that finds a slot taken, and a compare-and-swap that fails, are    *)
(* the same step: the slot was seen taken.  Inside a slot, the words are   *)
(* abstracted: `quota` to the class it is the quota of, the counts to      *)
(* whether there are any; the TAT is left out (AtomicGcra has it), so      *)
(* has_debt may say either.  The shadow, set and reset next to the quota,  *)
(* is left out too.  The atomics are sequentially consistent here; the     *)
(* code gets that for the one pattern that needs it from a SeqCst fence.   *)
(***************************************************************************)
EXTENDS Integers, Sequences, FiniteSets

CONSTANTS
    Keys,            \* key hashes; each is of a class of its own, named by the key
    NSlots,          \* the slots of the table are 1 .. NSlots; 0 is the overflow slot
    First, Second,   \* [Keys -> Seq(Slots)]: a key's two buckets
    Threads,         \* request threads
    MaxChecks,       \* bound: checks begun
    MaxTicks         \* bound: ticks begun

Slots == 1 .. NSlots
Overflow == 0
EMPTY == "empty"
BUSY == "busy"
Strict == "strict"   \* the quota of a free slot: the strictest of any class
Default == "default" \* the class of a slot nobody wrote one to
NoSlot == -1
Driver == "driver"   \* the background task

ASSUME BoundsAssumption == NSlots \in Nat /\ MaxChecks \in Nat /\ MaxTicks \in Nat

ASSUME NamesAssumption ==
    /\ {EMPTY, BUSY, Strict, Default} \cap Keys = {}
    /\ Driver \notin Threads

\* The canonical order: the first bucket, then the second, once if they are
\* the same (a table of one bucket).
Candidates(k) == IF First[k] = Second[k] THEN First[k] ELSE First[k] \o Second[k]

\* Buckets are not empty, and two of them share no slot.
ASSUME BucketsAssumption ==
    /\ First \in [Keys -> Seq(Slots) \ {<<>>}]
    /\ Second \in [Keys -> Seq(Slots) \ {<<>>}]
    /\ \A k \in Keys : \A i, j \in DOMAIN Candidates(k) :
          Candidates(k)[i] = Candidates(k)[j] => i = j

VARIABLES
    key,             \* Slot.key
    quota,           \* Slot.gcra.quota: Strict, or the class it is the quota of
    class,           \* Slot.class
    counted,         \* Slot.counts is not 0
    limit,           \* the core: the class a tracked key was last recorded in
    frame,           \* each thread's call in progress
    checks, ticks,   \* how many began
    calm             \* history: no check overlapped the tick begun last

vars == <<key, quota, class, counted, limit, frame, checks, ticks, calm>>
slotVars == <<key, quota, class, counted>>
history == <<checks, ticks, calm>>

AllSlots == Slots \cup {Overflow}
Classes == Keys \cup {Default}
Procs == Threads \cup {Driver}
Untracked == "untracked"

PCs == {"idle", "find", "weigh", "compare", "take", "recheck", "free", "reset", "vacate",
        "mend", "count", "fresh", "holds", "giveback", "check",
        "collect", "tally", "record", "tick", "apply", "settle", "refill", "store"}

\* i walks over slots.  `flag`: a claim takes the second bucket first; a check
\* took its slot itself; a tick found attempts in the slot it is at.  `mine` is
\* the slot a claim took, `winner` the copy that stays; `victim` a slot being
\* released or written to, with the quota it gets and the pc to go on with.
Frame == [pc : PCs, key : Keys \cup {EMPTY}, i : Nat, flag : BOOLEAN,
          mine : AllSlots \cup {NoSlot}, winner : AllSlots \cup {NoSlot},
          victim : AllSlots \cup {NoSlot}, to : Classes \cup {Strict}, next : PCs]

Idle == [pc |-> "idle", key |-> EMPTY, i |-> 1, flag |-> FALSE,
         mine |-> NoSlot, winner |-> NoSlot, victim |-> NoSlot,
         to |-> Strict, next |-> "idle"]

TypeOK ==
    /\ key \in [AllSlots -> Keys \cup {EMPTY, BUSY}]
    /\ quota \in [AllSlots -> Classes \cup {Strict}]
    /\ class \in [AllSlots -> Classes]
    /\ counted \in [AllSlots -> BOOLEAN]
    /\ limit \in [Keys -> Classes \cup {Untracked}]
    /\ frame \in [Procs -> Frame]
    /\ checks \in 0 .. MaxChecks
    /\ ticks \in 0 .. MaxTicks
    /\ calm \in BOOLEAN

Init ==
    /\ key = [s \in AllSlots |-> EMPTY]
    /\ quota = [s \in AllSlots |-> Strict]
    /\ class = [s \in AllSlots |-> Default]
    /\ counted = [s \in AllSlots |-> FALSE]
    /\ limit = [k \in Keys |-> Untracked]
    /\ frame = [p \in Procs |-> Idle]
    /\ checks = 0
    /\ ticks = 0
    /\ calm = FALSE

----------------------------------------------------------------------------
\* The slots of a bucket that are not free.
Taken(bucket) == Cardinality({i \in DOMAIN bucket : key[bucket[i]] # EMPTY})

\* The bucket with fewer taken slots first, the first one when equal.
ClaimOrder(k, swapped) == IF swapped THEN Second[k] \o First[k] ELSE First[k] \o Second[k]

Goto(p, f) == frame' = [frame EXCEPT ![p] = f]

\* The claim ends with `slot`, which it took itself or not.
Claimed(f, slot, taken) ==
    [Idle EXCEPT !.pc = "mend", !.key = f.key, !.winner = slot, !.flag = taken]

\* A check begins: claim(key) looks for the key among its candidates.
Start(t, k) ==
    /\ frame[t].pc = "idle"
    /\ checks < MaxChecks
    /\ checks' = checks + 1
    /\ calm' = FALSE
    /\ Goto(t, [Idle EXCEPT !.pc = "find", !.key = k])
    /\ UNCHANGED <<slotVars, limit, ticks>>

\* claim: load one candidate.  Found, the claim ends without taking a slot.
Find(t) ==
    LET f == frame[t]
        c == Candidates(f.key)
    IN
    /\ f.pc = "find"
    /\ \/ /\ key[c[f.i]] = f.key
          /\ Goto(t, Claimed(f, c[f.i], FALSE))
       \/ /\ key[c[f.i]] # f.key
          /\ Goto(t, IF f.i < Len(c) THEN [f EXCEPT !.i = @ + 1]
                     ELSE [f EXCEPT !.pc = "weigh", !.i = 1])
    /\ UNCHANGED <<slotVars, limit, history>>

\* claim: count the second bucket's taken slots, then the first's (here i
\* holds one more than the count).
Weigh(t) ==
    LET f == frame[t] IN
    /\ \/ /\ f.pc = "weigh"
          /\ Goto(t, [f EXCEPT !.pc = "compare", !.i = 1 + Taken(Second[f.key])])
       \/ /\ f.pc = "compare"
          /\ Goto(t, [f EXCEPT !.pc = "take", !.i = 1,
                               !.flag = f.i <= Taken(First[f.key])])
    /\ UNCHANGED <<slotVars, limit, history>>

\* claim: take the first free slot, or end on the overflow slot.
Take(t) ==
    LET f == frame[t]
        o == ClaimOrder(f.key, f.flag)
        s == o[f.i]
    IN
    /\ f.pc = "take"
    /\ \/ /\ key[s] = EMPTY
          /\ key' = [key EXCEPT ![s] = f.key]
          /\ Goto(t, [Idle EXCEPT !.pc = "recheck", !.key = f.key, !.mine = s, !.winner = s])
       \/ /\ key[s] # EMPTY
          /\ Goto(t, IF f.i < Len(o) THEN [f EXCEPT !.i = @ + 1]
                     ELSE Claimed(f, Overflow, FALSE))
          /\ UNCHANGED key
    /\ UNCHANGED <<quota, class, counted, limit, history>>

\* Mutant: every other copy is taken to come after the own one.
MineAlwaysSeen(f) == TRUE

\* The own slot is before position i in the canonical order.
MineSeen(f) == \E j \in 1 .. f.i : Candidates(f.key)[j] = f.mine

\* Mutant: no second look after a slot is taken.
RecheckLeftOut(t) ==
    LET f == frame[t] IN
    /\ f.pc = "recheck"
    /\ Goto(t, Claimed(f, f.mine, TRUE))
    /\ UNCHANGED <<slotVars, limit, history>>

\* claim: look at every candidate again.  A copy after the own one is given
\* back, one before it wins; a claim that lost gives its own back.
Recheck(t) ==
    LET f == frame[t]
        c == Candidates(f.key)
        s == c[f.i]
        on == [f EXCEPT !.i = @ + 1]
    IN
    /\ f.pc = "recheck"
    /\ \/ /\ f.i > Len(c) /\ f.winner = f.mine
          /\ Goto(t, Claimed(f, f.mine, TRUE))
       \/ /\ f.i > Len(c) /\ f.winner # f.mine
          /\ Goto(t, [f EXCEPT !.pc = "free", !.victim = f.mine,
                               !.to = quota[f.mine], !.next = "mend"])
       \/ /\ f.i <= Len(c) /\ (s = f.mine \/ key[s] # f.key)
          /\ Goto(t, on)
       \/ /\ f.i <= Len(c) /\ s # f.mine /\ key[s] = f.key /\ MineSeen(f)
          /\ Goto(t, [on EXCEPT !.pc = "free", !.victim = s,
                                !.to = quota[s], !.next = "recheck"])
       \/ /\ f.i <= Len(c) /\ s # f.mine /\ key[s] = f.key /\ ~MineSeen(f)
          /\ Goto(t, IF f.winner = f.mine THEN [on EXCEPT !.winner = s] ELSE on)
    /\ UNCHANGED <<slotVars, limit, history>>

----------------------------------------------------------------------------
\* What follows a release: the walk it interrupted, or the end of the claim.
Released(f) ==
    IF f.next = "mend" THEN Claimed(f, f.winner, FALSE)
    ELSE [f EXCEPT !.pc = f.next, !.key = IF f.next = "recheck" THEN @ ELSE EMPTY,
                   !.victim = NoSlot, !.to = Strict, !.next = "idle"]

\* Mutant: the key is stored over, not compared and swapped.
FreeUnchecked(p) ==
    LET f == frame[p] IN
    /\ f.pc = "free"
    /\ key' = [key EXCEPT ![f.victim] = BUSY]
    /\ Goto(p, [f EXCEPT !.pc = "reset"])
    /\ UNCHANGED <<quota, class, counted, limit, history>>

\* release(slot, key, quota): the slot is made BUSY if it still holds the key.
Free(p) ==
    LET f == frame[p] IN
    /\ f.pc = "free"
    /\ \/ /\ key[f.victim] = f.key
          /\ key' = [key EXCEPT ![f.victim] = BUSY]
          /\ Goto(p, [f EXCEPT !.pc = "reset"])
       \/ /\ key[f.victim] # f.key
          /\ Goto(p, Released(f))
          /\ UNCHANGED key
    /\ UNCHANGED <<quota, class, counted, limit, history>>

\* release: every field is reset ...
Reset(p) ==
    LET f == frame[p]
        s == f.victim
    IN
    /\ f.pc = "reset"
    /\ quota' = [quota EXCEPT ![s] = f.to]
    /\ counted' = [counted EXCEPT ![s] = FALSE]
    /\ class' = [class EXCEPT ![s] = Default]
    /\ Goto(p, [f EXCEPT !.pc = "vacate"])
    /\ UNCHANGED <<key, limit, history>>

\* ... and the key last.
Vacate(p) ==
    LET f == frame[p] IN
    /\ f.pc = "vacate"
    /\ key' = [key EXCEPT ![f.victim] = EMPTY]
    /\ Goto(p, Released(f))
    /\ UNCHANGED <<quota, class, counted, limit, history>>

----------------------------------------------------------------------------
\* check_hashed, after the claim: the slot is told its class, unless it is the
\* overflow slot ...
Mend(t) ==
    LET f == frame[t] IN
    /\ f.pc = "mend"
    /\ class' = IF f.winner = Overflow THEN class ELSE [class EXCEPT ![f.winner] = f.key]
    /\ Goto(t, [f EXCEPT !.pc = "count"])
    /\ UNCHANGED <<key, quota, counted, limit, history>>

\* ... the attempt is counted ...
Count(t) ==
    LET f == frame[t] IN
    /\ f.pc = "count"
    /\ counted' = [counted EXCEPT ![f.winner] = TRUE]
    /\ Goto(t, [f EXCEPT !.pc = IF f.flag THEN "fresh" ELSE "check"])
    /\ UNCHANGED <<key, quota, class, limit, history>>

\* ... a slot just taken gets the quota of its class ...
SetFresh(t) ==
    LET f == frame[t] IN
    /\ f.pc = "fresh"
    /\ quota' = [quota EXCEPT ![f.winner] = f.key]
    /\ Goto(t, [f EXCEPT !.pc = "holds"])
    /\ UNCHANGED <<key, class, counted, limit, history>>

\* ... and if the slot went to another key meanwhile, the strict one again ...
Holds(t) ==
    LET f == frame[t] IN
    /\ f.pc = "holds"
    /\ Goto(t, [f EXCEPT !.pc = IF key[f.winner] = f.key THEN "check" ELSE "giveback"])
    /\ UNCHANGED <<slotVars, limit, history>>

GiveBack(t) ==
    LET f == frame[t] IN
    /\ f.pc = "giveback"
    /\ quota' = [quota EXCEPT ![f.winner] = Strict]
    /\ Goto(t, [f EXCEPT !.pc = "check"])
    /\ UNCHANGED <<key, class, counted, limit, history>>

\* ... before the GCRA of the slot decides, and the check ends.
CheckGcra(t) ==
    /\ frame[t].pc = "check"
    /\ Goto(t, Idle)
    /\ UNCHANGED <<slotVars, limit, history>>

----------------------------------------------------------------------------
\* The background task's tick, sync: one walk over the slots to collect what
\* they counted, the core's round, one walk to give quotas out and free the
\* slots of keys the core dropped, and one over the free slots.
Tick ==
    /\ frame[Driver].pc = "idle"
    /\ ticks < MaxTicks
    /\ ticks' = ticks + 1
    /\ calm' = (\A t \in Threads : frame[t].pc = "idle")
    /\ Goto(Driver, [Idle EXCEPT !.pc = "collect"])
    /\ UNCHANGED <<slotVars, limit, checks>>

\* for_each and for_each_free: visit the slots in order, loading each key.
\* `at` is the pc of the walk, `wanted` the keys of the slots to stop at,
\* `there` where the visit begins, `after` the frame after the last slot.
Walk(at, wanted, there, after) ==
    LET f == frame[Driver] IN
    /\ f.pc = at
    /\ \/ /\ f.i > NSlots
          /\ Goto(Driver, after)
       \/ /\ f.i <= NSlots /\ key[f.i] \in wanted
          /\ Goto(Driver, [f EXCEPT !.pc = there, !.key = key[f.i], !.victim = f.i,
                                    !.i = @ + 1, !.next = at])
       \/ /\ f.i <= NSlots /\ key[f.i] \notin wanted
          /\ Goto(Driver, [f EXCEPT !.i = @ + 1])
    /\ UNCHANGED <<slotVars, limit, history>>

Collect == Walk("collect", Keys, "tally", [Idle EXCEPT !.pc = "tick"])

\* take_counts of the slot visited.
Tally ==
    LET f == frame[Driver] IN
    /\ f.pc = "tally"
    /\ counted' = [counted EXCEPT ![f.victim] = FALSE]
    /\ Goto(Driver, [f EXCEPT !.pc = "record", !.flag = counted[f.victim]])
    /\ UNCHANGED <<key, quota, class, limit, history>>

\* The limit of the slot's class is handed to the core with attempts to
\* record, or when a tracked key's differs.
Record ==
    LET f == frame[Driver]
        c == class[f.victim]
    IN
    /\ f.pc = "record"
    /\ limit' = IF f.flag \/ limit[f.key] \notin {Untracked, c}
                THEN [limit EXCEPT ![f.key] = c] ELSE limit
    /\ Goto(Driver, [Released(f) EXCEPT !.flag = FALSE])
    /\ UNCHANGED <<slotVars, history>>

\* The overflow slot's counts, then Event::Tick: the core drops the keys it
\* has no room for or that went idle, whichever these are.
CoreTick ==
    /\ frame[Driver].pc = "tick"
    /\ counted' = [counted EXCEPT ![Overflow] = FALSE]
    /\ \E dropped \in SUBSET {k \in Keys : limit[k] # Untracked} :
          limit' = [k \in Keys |-> IF k \in dropped THEN Untracked ELSE limit[k]]
    /\ Goto(Driver, [Idle EXCEPT !.pc = "apply"])
    /\ UNCHANGED <<key, quota, class, history>>

Apply == Walk("apply", Keys, "settle", [Idle EXCEPT !.pc = "refill"])

\* Mutant: a key the core dropped is taken for one it knows.
SettleUnknown(f) ==
    Goto(Driver, [f EXCEPT !.pc = "store", !.to = limit[f.key]])

\* A key the core knows gets the quota the core has for it.
SettleTracked(f) ==
    /\ limit[f.key] # Untracked
    /\ Goto(Driver, [f EXCEPT !.pc = "store", !.to = limit[f.key]])

\* An unknown one is freed if the slot has neither debt nor attempts.
SettleDropped(f) ==
    /\ limit[f.key] = Untracked /\ ~counted[f.victim]
    /\ Goto(Driver, [f EXCEPT !.pc = "free", !.to = Strict])

\* Mutant: a slot that stays is left alone.
SettleAlone(f) ==
    /\ limit[f.key] = Untracked
    /\ Goto(Driver, Released(f))

\* One with either stays, at what a new key of its class gets.
SettleKept(f) ==
    /\ limit[f.key] = Untracked
    /\ Goto(Driver, [f EXCEPT !.pc = "store", !.to = class[f.victim]])

Settle ==
    LET f == frame[Driver] IN
    /\ f.pc = "settle"
    /\ SettleTracked(f) \/ SettleDropped(f) \/ SettleKept(f)
    /\ UNCHANGED <<slotVars, limit, history>>

\* set_quota on the slot visited: whoever holds it by now.
Store ==
    LET f == frame[Driver] IN
    /\ f.pc = "store"
    /\ quota' = [quota EXCEPT ![f.victim] = f.to]
    /\ Goto(Driver, Released(f))
    /\ UNCHANGED <<key, class, counted, limit, history>>

\* The free slots, and after them the overflow slot, get the strictest quota.
Refill ==
    Walk("refill", {EMPTY}, "store",
         [Idle EXCEPT !.pc = "store", !.victim = Overflow])

----------------------------------------------------------------------------
Claiming(t) == Find(t) \/ Weigh(t) \/ Take(t) \/ Recheck(t)

Checking(t) ==
    Mend(t) \/ Count(t) \/ SetFresh(t) \/ Holds(t) \/ GiveBack(t) \/ CheckGcra(t)

Releasing(p) == Free(p) \/ Reset(p) \/ Vacate(p)

Ticking ==
    Tick \/ Collect \/ Tally \/ Record \/ CoreTick \/ Apply \/ Settle \/ Store \/ Refill

\* Everything begun has ended, and the bounds let nothing more begin.
Finished ==
    /\ \A p \in Procs : frame[p].pc = "idle"
    /\ checks = MaxChecks /\ ticks = MaxTicks
    /\ UNCHANGED vars

Next ==
    \/ \E t \in Threads : (\E k \in Keys : Start(t, k)) \/ Claiming(t) \/ Checking(t)
    \/ \E p \in Procs : Releasing(p)
    \/ Ticking
    \/ Finished

Spec == Init /\ [][Next]_vars

----------------------------------------------------------------------------
\* No key keeps two slots: while two hold it, a claim of that key is still
\* at work that will give one back (claim's second look).  With two copies
\* a key would be admitted twice its limit.
OneCopy ==
    \A r, s \in Slots :
        r # s /\ key[r] \in Keys /\ key[r] = key[s] =>
            \E t \in Threads :
                /\ frame[t].key = key[r]
                /\ frame[t].pc \in {"recheck", "free", "reset", "vacate"}

\* Racing claims never give back every copy: until a tick may free slots, a
\* key that a check has been given a slot for keeps one (the copy "earliest in
\* the canonical order wins").  Lost, the key would start afresh, without debt.
OneSurvives ==
    ticks = 0 =>
        \A t \in Threads :
            /\ frame[t].pc \in {"mend", "count", "fresh", "holds", "giveback", "check"}
            /\ frame[t].winner # Overflow
            => \E s \in Slots : key[s] = frame[t].key

\* p is resetting slot s.
Resets(p, s) == frame[p].victim = s /\ frame[p].pc \in {"reset", "vacate"}

\* A slot is BUSY exactly while one process resets it: none stays BUSY for
\* ever, out of the table, and no two reset one slot, the second wiping what
\* the next key has already put there (release's compare-and-swap).
BusyOwned ==
    \A s \in AllSlots :
        /\ key[s] = BUSY <=> \E p \in Procs : Resets(p, s)
        /\ \A p, q \in Procs : Resets(p, s) /\ Resets(q, s) => p = q

\* However two threads cross over the key and its seat: one slot, neither two
\* nor none.
ExactlyOneCopy == TypeOK /\ OneCopy /\ OneSurvives /\ BusyOwned

\* Whatever the races before it left, a tick no check overlapped sets right:
\* a taken slot has the quota of the class it names, a free slot and the
\* overflow slot the strictest one (sync; check_hashed leaves it to "the
\* background task to set right at its next tick").
TickSettles ==
    calm /\ frame[Driver].pc = "idle" =>
        /\ \A s \in Slots :
              /\ key[s] \in Keys => quota[s] = class[s]
              /\ key[s] = EMPTY => quota[s] = Strict
        /\ quota[Overflow] = Strict

\* "A slot with an attempt to count is not freed under the check"
\* (check_hashed): when the tick is about to free a slot that still holds the
\* key, no check of that key has counted its attempt there and is still to
\* take its GCRA step.
KeptUnderCheck ==
    LET d == frame[Driver] IN
    d.pc = "free" /\ key[d.victim] = d.key =>
        ~ \E t \in Threads :
            /\ frame[t].pc \in {"fresh", "holds", "check"}
            /\ frame[t].winner = d.victim /\ frame[t].key = d.key
            /\ counted[d.victim]
=============================================================================
