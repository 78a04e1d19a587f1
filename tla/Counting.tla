------------------------------ MODULE Counting ------------------------------
(***************************************************************************)
(* The counts a node reports (src/rateguard/src): a check counts its       *)
(* attempt, its shadow's denial and its own in the slot it landed on       *)
(* (guard.rs, table.rs), the background task takes them with two swaps a   *)
(* slot, adds them to the report and frees a slot it knows nothing of      *)
(* (driver.rs sync and report), and Guard::stats and the metrics tell the  *)
(* report.  One slot of one key, and the overflow slot.                    *)
(***************************************************************************)
EXTENDS Naturals, FiniteSets

CONSTANTS
    Clients,        \* the threads that check
    MaxRequests,    \* bound: checks in a behaviour
    MaxRounds,      \* bound: ticks in a behaviour
    UnknownClass    \* whether the key's class is none the node has

ASSUME ClientsAssumption == IsFiniteSet(Clients) /\ UnknownClass \in BOOLEAN

Places == {"own", "overflow"}
Counted == {"attempts", "denied", "shadow"}

VARIABLES
    held,           \* the key's slot: "held", "busy" while it is reset, or "free"
    counts,         \* Slot.counts: attempts and denials in one word
    shadowDenials,  \* Slot.shadow_denials of the key's slot
    request,        \* each thread's check
    stage,          \* where sync() is
    taken,          \* driver's Counts: this tick's so far
    tracked,        \* whether the core knows the key
    report,         \* Shared::report
    exported,       \* the metrics
    rounds, requests,   \* ticks and checks so far
    tallied, certain      \* history: what was counted; and that by no check a reset ran under

countWords == <<held, counts, shadowDenials>>
countTask == <<stage, taken, tracked, report, exported, rounds>>
countHistory == <<tallied, certain>>
countingVars == <<countWords, request, countTask, requests, countHistory>>

NoCounts == [attempts |-> 0, denials |-> 0]
NoTally == [attempts |-> 0, denied |-> 0, shadow |-> 0, overflowed |-> 0, unknown |-> 0]
NotChecking == [at |-> "idle", place |-> "own", denied |-> FALSE, under |-> FALSE, ticks |-> 0]

\* What a node tells about itself; the fields read off the core at a tick, its
\* view of the cluster and why it is held, are the tick they are of.
StatsRecord == [admitted : Nat, denied : Nat, overflowed : Nat, unknown : Nat, shadow : Nat, tick : Nat]

NoReport == [attempts |-> 0, denied |-> 0, shadow |-> 0, overflowed |-> 0, unknown |-> 0, tick |-> 0]

Saturating(a, b) == IF a > b THEN a - b ELSE 0

\* Guard::stats.
Stats(rep) ==
    [admitted |-> Saturating(rep.attempts, rep.denied), denied |-> rep.denied,
     overflowed |-> rep.overflowed, unknown |-> rep.unknown, shadow |-> rep.shadow, tick |-> rep.tick]

\* metrics.rs: what stats() would tell, once a tick.
Published(stats) ==
    [allow |-> stats.admitted, deny |-> stats.denied, overflowed |-> stats.overflowed,
     unknown |-> stats.unknown, shadow |-> stats.shadow]

CountingInit ==
    /\ held = "free"
    /\ counts = [p \in Places |-> NoCounts] /\ shadowDenials = 0
    /\ request = [c \in Clients |-> NotChecking]
    /\ stage = "idle" /\ taken = NoTally /\ tracked = FALSE
    /\ report = NoReport /\ exported = Published(Stats(NoReport))
    /\ rounds = 0 /\ requests = 0
    /\ tallied = [f \in Counted |-> 0] /\ certain = tallied

\* From the look that found nothing to count to the slot's being free again.
Resetting == stage \in {"release", "clear", "clear_shadows", "free"}

Tell(field, counted) ==
    /\ tallied' = [tallied EXCEPT ![field] = @ + 1]
    /\ certain' = IF counted THEN [certain EXCEPT ![field] = @ + 1] ELSE certain

----------------------------------------------------------------------------
\* Guard::check_hashed, one atomic access a step.

\* claim(): the key's slot, if it is not being reset, or the overflow slot.
Arrive(c, p) ==
    /\ request[c].at = "idle" /\ requests < MaxRequests
    /\ p = "own" => held # "busy"
    /\ held' = IF p = "own" THEN "held" ELSE held
    /\ request' = [request EXCEPT ![c] =
            [NotChecking EXCEPT !.at = "attempt", !.place = p, !.under = p = "own" /\ Resetting]]
    /\ requests' = requests + 1
    /\ UNCHANGED <<counts, shadowDenials, countTask, countHistory>>

CountAttempt(c) ==
    /\ request[c].at = "attempt"
    /\ counts' = [counts EXCEPT ![request[c].place].attempts = @ + 1]
    /\ request' = [request EXCEPT ![c].at = "decide"]
    /\ Tell("attempts", ~request[c].under)
    /\ UNCHANGED <<held, shadowDenials, countTask, requests>>

\* The limit decides, and its shadow, which the overflow slot has not.
DecideBoth(c) ==
    /\ request[c].at = "decide"
    /\ \E denied \in BOOLEAN, shadow \in IF request[c].place = "own" THEN BOOLEAN ELSE {FALSE} :
        request' = [request EXCEPT ![c] =
            IF ~shadow /\ ~denied THEN NotChecking
            ELSE [@ EXCEPT !.at = IF shadow THEN "shadow" ELSE "deny", !.denied = denied]]
    /\ UNCHANGED <<countWords, countTask, requests, countHistory>>

CountShadowDenial(c) ==
    /\ request[c].at = "shadow"
    /\ shadowDenials' = shadowDenials + 1
    /\ request' = [request EXCEPT ![c] = IF @.denied THEN [@ EXCEPT !.at = "deny"] ELSE NotChecking]
    /\ Tell("shadow", ~request[c].under /\ request[c].ticks <= 1)
    /\ UNCHANGED <<held, counts, countTask, requests>>

\* Counted in a dry run too, where the check is then allowed.
CountDenial(c) ==
    /\ request[c].at = "deny"
    /\ counts' = [counts EXCEPT ![request[c].place].denials = @ + 1]
    /\ request' = [request EXCEPT ![c] = NotChecking]
    /\ Tell("denied", ~request[c].under)
    /\ UNCHANGED <<held, shadowDenials, countTask, requests>>

----------------------------------------------------------------------------
\* sync(): a tick of the background task.

\* Slot::take_counts, the word.
TakeCounts ==
    /\ stage = "idle" /\ rounds < MaxRounds
    /\ rounds' = rounds + 1
    /\ IF held = "held"
       THEN /\ taken' = [NoTally EXCEPT !.attempts = counts["own"].attempts,
                                        !.denied = counts["own"].denials,
                                        !.unknown = IF UnknownClass THEN @ + counts["own"].attempts ELSE @]
            /\ counts' = [counts EXCEPT !["own"] = NoCounts]
            /\ request' = [c \in Clients |->
                    IF request[c].at = "idle" THEN request[c]
                    ELSE [request[c] EXCEPT !.ticks = IF @ = 2 THEN 2 ELSE @ + 1]]
            /\ tracked' = (tracked \/ counts["own"].attempts > 0)
            /\ stage' = "shadows"
       ELSE /\ taken' = NoTally /\ stage' = "overflow"
            /\ UNCHANGED <<counts, request, tracked>>
    /\ UNCHANGED <<held, shadowDenials, report, exported, requests, countHistory>>

\* Slot::take_counts, the shadow's denials.
TakeShadowDenials ==
    /\ stage = "shadows"
    /\ taken' = [taken EXCEPT !.shadow = shadowDenials]
    /\ shadowDenials' = 0
    /\ stage' = "overflow"
    /\ UNCHANGED <<held, counts, request, tracked, report, exported, rounds, requests, countHistory>>

\* Mutant: the checks in the overflow slot are counted apart only.
OverflowApart(tally, word) == [tally EXCEPT !.overflowed = word.attempts, !.denied = @ + word.denials]

WithOverflow(tally, word) ==
    [tally EXCEPT !.overflowed = word.attempts, !.attempts = @ + word.attempts,
                  !.denied = @ + word.denials]

TakeOverflow ==
    /\ stage = "overflow"
    /\ taken' = WithOverflow(taken, counts["overflow"])
    /\ counts' = [counts EXCEPT !["overflow"] = NoCounts]
    /\ stage' = "report"
    /\ UNCHANGED <<held, shadowDenials, request, tracked, report, exported, rounds, requests, countHistory>>

Added(rep, tally) ==
    [f \in DOMAIN rep |-> IF f = "tick" THEN rounds ELSE rep[f] + tally[f]]

\* The core's round, which forgets a key only if it had no attempts, then
\* report(): under the lock of Guard::stats.
ReportCounts ==
    /\ stage = "report"
    /\ tracked' \in {tracked} \union (IF taken.attempts > 0 THEN {} ELSE {FALSE})
    /\ report' = Added(report, taken)
    /\ exported' = Published(Stats(report'))
    /\ taken' = NoTally
    /\ stage' = "look"
    /\ UNCHANGED <<countWords, request, rounds, requests, countHistory>>

\* Mutant: a slot with counts is freed like any other.
IdleWhatever(word) == TRUE

\* Slot::has_counts, negated.
NothingCounted(word) == word = NoCounts

\* A slot the core knows nothing of is freed; if its debt has run out, which
\* is left to chance here.
LookAtSlot ==
    /\ stage = "look"
    /\ \/ /\ held = "held" /\ ~tracked /\ NothingCounted(counts["own"])
          /\ stage' = "release"
          /\ request' = [c \in Clients |->
                IF request[c].at # "idle" /\ request[c].place = "own"
                THEN [request[c] EXCEPT !.under = TRUE] ELSE request[c]]
       \/ stage' = "idle" /\ UNCHANGED request
    /\ UNCHANGED <<countWords, taken, tracked, report, exported, rounds, requests, countHistory>>

\* KeyTable::release: the key is taken away, the counts cleared, the slot free.
ReleaseStep(from, to) ==
    /\ stage = from /\ stage' = to
    /\ UNCHANGED <<request, taken, tracked, report, exported, rounds, requests, countHistory>>

ReleaseSlot ==
    \/ ReleaseStep("release", "clear") /\ held' = "busy" /\ UNCHANGED <<counts, shadowDenials>>
    \/ /\ ReleaseStep("clear", "clear_shadows")
       /\ counts' = [counts EXCEPT !["own"] = NoCounts] /\ UNCHANGED <<held, shadowDenials>>
    \/ ReleaseStep("clear_shadows", "free") /\ shadowDenials' = 0 /\ UNCHANGED <<held, counts>>
    \/ ReleaseStep("free", "idle") /\ held' = "free" /\ UNCHANGED <<counts, shadowDenials>>

\* Everything is counted and reported that the bounds have room for.
CountingOver ==
    /\ requests = MaxRequests /\ rounds = MaxRounds /\ stage = "idle"
    /\ \A c \in Clients : request[c].at = "idle"
    /\ UNCHANGED countingVars

CountingNext ==
    \/ \E c \in Clients : CountAttempt(c) \/ DecideBoth(c) \/ CountShadowDenial(c) \/ CountDenial(c)
    \/ \E c \in Clients, p \in Places : Arrive(c, p)
    \/ TakeCounts \/ TakeShadowDenials \/ TakeOverflow \/ ReportCounts \/ LookAtSlot \/ ReleaseSlot
    \/ CountingOver

----------------------------------------------------------------------------
CountingTypeOK ==
    /\ held \in {"held", "busy", "free"}
    /\ counts \in [Places -> [attempts : Nat, denials : Nat]] /\ shadowDenials \in Nat
    /\ tracked \in BOOLEAN
    /\ Stats(report) \in StatsRecord
    /\ held = "busy" => Resetting

\* Reported, or on its way there.
Known ==
    [attempts |-> report.attempts + taken.attempts + counts["own"].attempts + counts["overflow"].attempts,
     denied |-> report.denied + taken.denied + counts["own"].denials + counts["overflow"].denials,
     shadow |-> report.shadow + taken.shadow + shadowDenials]

\* No check is counted twice, and none goes uncounted but one whose slot was
\* reset under it (stats.rs: "A check that lands on a slot just as the
\* background task hands it to another key may go uncounted"), or a shadow's
\* denial two ticks behind its attempt; and as long as no slot was, no
\* denial is reported ahead of its attempt, so that what was admitted is
\* never cut off at 0 by the subtraction in Guard::stats.
CountsKept ==
    /\ CountingTypeOK
    /\ \A f \in Counted : certain[f] <= Known[f] /\ Known[f] <= tallied[f]
    /\ certain.attempts = tallied.attempts /\ certain.denied = tallied.denied
          => report.denied <= report.attempts
    /\ report.overflowed + report.unknown <= report.attempts
    /\ exported.deny <= report.denied
=============================================================================
