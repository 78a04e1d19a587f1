----------------------------- MODULE PeerDemand -----------------------------
(***************************************************************************)
(* What a node counts of one peer's demand: PeerDemand (peer_demand.rs)    *)
(* and the calls Node makes to it (node.rs: receive, acknowledged, depart, *)
(* follow_changes, round), while the peer's reports arrive late, repeated  *)
(* and out of order, from several runs of it, and the node hears of its    *)
(* deaths, returns and leaves.                                             *)
(*                                                                         *)
(* The map of peers is left out, since no entry touches another, and so    *)
(* are `primary`, which is kept and dropped with the demand it comes with, *)
(* and Heard's round, which nothing reads.  Of the peer's member record    *)
(* only the status is kept, and any news of it may come at any time: Swim  *)
(* says which does.                                                        *)
(***************************************************************************)
EXTENDS Integers, Sequences, FiniteSets

CONSTANTS
    Keys,            \* the keys that may be hot
    Loads,           \* what a report may say: subset of [Keys -> Nat], 0 if left out
    Circle,          \* 2^16: the rounds a u16 tells apart
    FirstRound,      \* the round the first run is in, which may be about to wrap
    MaxContested,    \* MAX_CONTESTED
    PastEpochs,      \* PAST_EPOCHS
    Hold,            \* hold_of(policy), in rounds
    MaxAge,          \* stale_after_rounds(N), with the hold added, in rounds
    MaxDelay,        \* bound: how many rounds a report may be on its way
    MaxEpoch,        \* bound: runs of the peer
    MaxClock         \* bound: rounds of the node

ASSUME KeysAssumption == IsFiniteSet(Keys)

ASSUME LoadsAssumption == Loads \subseteq [Keys -> Nat]

ASSUME CircleAssumption ==
    /\ Circle \in Nat /\ Circle % 4 = 0 /\ Circle > 0
    /\ FirstRound \in 0 .. Circle - 1

ASSUME RoomAssumption == MaxContested \in Nat \ {0} /\ PastEpochs \in Nat \ {0}

\* A report is younger than half a circle of rounds when it arrives, and so
\* is the gap between two that count.
ASSUME TimesAssumption ==
    /\ Hold \in Nat /\ MaxAge \in Nat /\ MaxAge > Hold
    /\ MaxDelay \in Nat /\ MaxAge + MaxDelay <= Circle \div 2
    /\ MaxEpoch \in Nat \ {0} /\ MaxClock \in Nat

VARIABLES
    clock,           \* rounds of the observing node so far
    sender,          \* the peer: its run, its round, whether it is up
    sent,            \* its reports that may still arrive, any number of times
    left,            \* the peer has said that it leaves: the leave may arrive
    peer,            \* PeerDemand.peers: the entry of the peer, or NoPeer
    status,          \* the member record: "none", "live" or "dead"
    departed,        \* Member.departed
    leftPending,     \* a Change::Left waits for follow_changes
    newest,          \* history: the newest report counted since the entry began
    newestAt,        \* history: when it was first heard
    unsettledAt,     \* history: when anything but the next report was heard
    crowded          \* history: MAX_CONTESTED dropped an entry after newestAt

senderVars == <<sender, sent, left>>
memberVars == <<status, departed, leftPending>>
history == <<newest, newestAt, unsettledAt, crowded>>
vars == <<clock, senderVars, peer, memberVars, history>>

Rounds == 0 .. Circle - 1
Times == 0 .. MaxClock
Report == [epoch : 1 .. MaxEpoch, round : Rounds, at : Times, keys : Loads]
NoReport == [epoch |-> 0]

NoSnapshot == [epoch |-> 0]
Snapshot == [epoch : 1 .. MaxEpoch, past : Seq(1 .. MaxEpoch), round : Rounds,
             heardAt : Times, keys : Loads]
Entry == [demand : Nat, heardAt : Times]
NoEntry == [demand |-> 0, heardAt |-> 0]
Never == -1
Peer == [snapshot : Snapshot \cup {NoSnapshot}, contested : [Keys -> Entry],
         heldUntil : Nat \cup {Never}]
NoPeer == [snapshot |-> NoSnapshot, contested |-> [k \in Keys |-> NoEntry],
           heldUntil |-> Never]

\* The keys with a contested entry.
Disputed(contested) == {k \in Keys : contested[k] # NoEntry}

\* Memory per peer is bounded: at most MAX_CONTESTED contested keys, and
\* PAST_EPOCHS epochs.
TypeOK ==
    /\ clock \in Times
    /\ sender \in [epoch : 1 .. MaxEpoch, round : Rounds, up : BOOLEAN]
    /\ sent \subseteq Report
    /\ left \in BOOLEAN
    /\ peer \in Peer
    /\ peer.snapshot # NoSnapshot => Len(peer.snapshot.past) <= PastEpochs
    /\ Cardinality(Disputed(peer.contested)) <= MaxContested
    /\ status \in {"none", "live", "dead"}
    /\ departed \in BOOLEAN /\ (departed => status = "dead")
    /\ leftPending \in BOOLEAN
    /\ newest \in Report \cup {NoReport}
    /\ newestAt \in Times
    /\ unsettledAt \in Times
    /\ crowded \in BOOLEAN

Init ==
    /\ clock = 0
    /\ sender = [epoch |-> 1, round |-> FirstRound, up |-> TRUE]
    /\ sent = {}
    /\ left = FALSE
    /\ peer = NoPeer
    /\ status = "none"
    /\ departed = FALSE
    /\ leftPending = FALSE
    /\ newest = NoReport
    /\ newestAt = 0
    /\ unsettledAt = 0
    /\ crowded = FALSE

----------------------------------------------------------------------------
Larger(a, b) == IF a >= b THEN a ELSE b

\* a.wrapping_sub(b)
WrappingSub(a, b) == (a - b) % Circle

\* round_is_newer: serial numbers, less than half the circle ahead.
RoundIsNewer(a, b) == a # b /\ WrappingSub(a, b) < Circle \div 2

\* IMPLAUSIBLE_JUMP: a quarter of the circle.
Implausible(a, b) == WrappingSub(a, b) >= Circle \div 4

\* Peer::contest: what each key named says, at the maximum with what was
\* contested before, heard at the later of the two times ...
Merged(contested, keys, heardAt) ==
    [k \in Keys |->
        IF keys[k] = 0 THEN contested[k]
        ELSE [demand |-> Larger(contested[k].demand, keys[k]),
              heardAt |-> Larger(contested[k].heardAt, heardAt)]]

\* Mutant: nothing is dropped.
Untrimmed(contested) == {contested}

\* ... of which the ones heard longest ago go when there are too many.  Among
\* those heard at the same time the hash of the key decides: any may go.
Trimmed(contested) ==
    {[k \in Keys |-> IF k \in stay THEN contested[k] ELSE NoEntry] :
        stay \in {s \in SUBSET Disputed(contested) :
            /\ \/ s = Disputed(contested) /\ Cardinality(s) <= MaxContested
               \/ s # Disputed(contested) /\ Cardinality(s) = MaxContested
            /\ \A i \in s, j \in Disputed(contested) \ s :
                  contested[i].heardAt >= contested[j].heardAt}}

Contest(p, keys, heardAt) == [p EXCEPT !.contested = Merged(@, keys, heardAt)]

\* PeerDemand::apply: the report replaces the snapshot.
IsTaken(old, r) ==
    \/ old = NoSnapshot
    \/ /\ \A i \in 1 .. Len(old.past) : old.past[i] # r.epoch
       /\ old.epoch # r.epoch \/ RoundIsNewer(r.round, old.round)

\* The past epochs of a snapshot that replaces `old`.
PastOf(old, r) ==
    IF old = NoSnapshot THEN <<>>
    ELSE IF old.epoch = r.epoch THEN old.past
    ELSE SubSeq(<<old.epoch>> \o old.past, 1,
                IF Len(old.past) < PastEpochs THEN Len(old.past) + 1 ELSE PastEpochs)

\* Mutant: a restart ends what the run before it said.
DropReplaced(old, r) ==
    old # NoSnapshot /\ old.epoch = r.epoch /\ Implausible(r.round, old.round)

\* Mutant: every snapshot replaced still counts.
KeepEveryReplaced(old, r) == old # NoSnapshot

\* The snapshot replaced still counts: another run of the peer, or a jump no
\* live peer makes.
KeepReplaced(old, r) ==
    /\ old # NoSnapshot
    /\ old.epoch # r.epoch \/ Implausible(r.round, old.round)

\* A peer sends the same report on every message of a round.
IsDuplicate(old, r) == old.epoch = r.epoch /\ old.round = r.round /\ old.keys = r.keys

Take(p, r, now) ==
    LET old   == p.snapshot
        taken == [p EXCEPT !.heldUntil = Never,
                           !.snapshot = [epoch |-> r.epoch, past |-> PastOf(old, r),
                                         round |-> r.round, heardAt |-> now,
                                         keys |-> r.keys]]
    IN IF KeepReplaced(old, r) THEN Contest(taken, old.keys, old.heardAt) ELSE taken

\* PeerDemand::apply, up to what contest drops.
Apply(p, r, now) ==
    IF IsTaken(p.snapshot, r) THEN Take(p, r, now)
    ELSE IF IsDuplicate(p.snapshot, r) THEN p
    ELSE Contest(p, r.keys, now)

\* PeerDemand::leave, by a peer that is held, and forgotten without a hold.
Leave(p, now) ==
    IF Hold = 0 \/ p = NoPeer THEN NoPeer ELSE [p EXCEPT !.heldUntil = now + Hold]

\* PeerDemand::expire
Expire(p, now) ==
    LET fresh(at) == now < at + MaxAge
        snapshot  == IF p.snapshot # NoSnapshot /\ fresh(p.snapshot.heardAt)
                     THEN p.snapshot ELSE NoSnapshot
        contested == [k \in Keys |-> IF fresh(p.contested[k].heardAt)
                                     THEN p.contested[k] ELSE NoEntry]
    IN IF p.heldUntil # Never
       THEN IF now < p.heldUntil THEN p ELSE NoPeer
       ELSE [p EXCEPT !.snapshot = snapshot, !.contested = contested]

\* Peer::heard: the demand counted for a key, 0 if the peer said nothing.
Heard(p, k) ==
    Larger(p.contested[k].demand, IF p.snapshot = NoSnapshot THEN 0 ELSE p.snapshot.keys[k])

----------------------------------------------------------------------------
\* The peer: one report a round (report_demand), the round wrapping.
MakeReport(load) ==
    /\ sender.up
    /\ \A r \in sent : r.at # clock
    /\ sender' = [sender EXCEPT !.round = (@ + 1) % Circle]
    /\ sent' = sent \cup {[epoch |-> sender.epoch, round |-> sender'.round,
                           at |-> clock, keys |-> load]}
    /\ UNCHANGED <<clock, left, peer, memberVars, history>>

\* Node::leave at the peer: nothing is reported afterwards.
LeaveCluster ==
    /\ sender.up
    /\ sender' = [sender EXCEPT !.up = FALSE]
    /\ left' = TRUE
    /\ UNCHANGED <<clock, sent, peer, memberVars, history>>

\* The peer starts again under its ID: another epoch, from round 0.
Restart ==
    /\ sender.epoch < MaxEpoch
    /\ sender' = [epoch |-> sender.epoch + 1, round |-> 0, up |-> TRUE]
    /\ UNCHANGED <<clock, sent, left, peer, memberVars, history>>

----------------------------------------------------------------------------
\* What news of the peer makes of its record: "same" if it is no news.
StatusAfter(news) == IF news = "same" THEN status ELSE news
DepartedAfter(news) == departed /\ news = "same"

\* MemberTable::apply: a death of a live member is logged for follow_changes.
\* News that leaves the status as it is changes a departed member only.
Learn(news) ==
    /\ news # status \/ departed
    /\ status' = StatusAfter(news)
    /\ leftPending' = (leftPending \/ (status = "live" /\ news = "dead"))

\* r is later than what was heard before, and by a plausible step.
IsNext(r) ==
    \/ newest \in {NoReport, r}
    \/ /\ r.epoch = newest.epoch
       /\ r.at - newest.at \in 1 .. Circle \div 4 - 1

\* The true order of two reports.
Later(r, s) == r.epoch > s.epoch \/ (r.epoch = s.epoch /\ r.at > s.at)

NoteReport(r, dropped) ==
    LET isNewest == newest = NoReport \/ Later(r, newest) IN
    /\ IF isNewest THEN newest' = r /\ newestAt' = clock
       ELSE UNCHANGED <<newest, newestAt>>
    /\ unsettledAt' = IF IsNext(r) THEN unsettledAt ELSE clock
    /\ crowded' = (dropped \/ (crowded /\ ~isNewest))

ApplyReport(r) ==
    LET applied == Apply(peer, r, clock) IN
    /\ \E contested \in Trimmed(applied.contested) :
          peer' = [applied EXCEPT !.contested = contested]
    /\ NoteReport(r, Cardinality(Disputed(applied.contested)) > MaxContested)

\* History starts over with the entry.
NoteDropped ==
    IF peer' = NoPeer THEN newest' = NoReport /\ newestAt' = 0 /\ crowded' = FALSE
    ELSE UNCHANGED <<newest, newestAt, crowded>>

\* Mutant: a report of a peer that left is counted.
CountsAnyway(news) == StatusAfter(news) # "none"

\* Only members are heard, and not one that left.
Counts(news) == StatusAfter(news) # "none" /\ ~DepartedAfter(news)

\* Node::receive of a message of the peer: its news, which is that it is alive,
\* then its report.
Receive(r, news) ==
    /\ news # "dead"
    /\ Learn(news)
    /\ departed' = DepartedAfter(news)
    /\ IF Counts(news) THEN ApplyReport(r) ELSE UNCHANGED <<peer, history>>
    /\ UNCHANGED <<clock, senderVars>>

\* Node::acknowledged: a helper's ACK brings the peer's report.
ReceiveRelayed(r, news) ==
    /\ Learn(news)
    /\ departed' = DepartedAfter(news)
    /\ IF DepartedAfter(news) THEN UNCHANGED <<peer, history>> ELSE ApplyReport(r)
    /\ UNCHANGED <<clock, senderVars>>

\* Node::receive of a Leave: the death is learned, unless it is old news, and
\* a dead member has departed; all it said is forgotten.
ReceiveLeave(news) ==
    /\ left
    /\ news # "live"
    /\ Learn(news)
    /\ IF StatusAfter(news) = "dead" /\ ~DepartedAfter(news)
       THEN /\ departed' = TRUE
            /\ peer' = NoPeer
            /\ NoteDropped
       ELSE UNCHANGED <<departed, peer, newest, newestAt, crowded>>
    /\ UNCHANGED <<clock, senderVars, unsettledAt>>

\* News of the peer in anyone's message, or its suspicion running out.
Hear(news) ==
    /\ Learn(news)
    /\ departed' = DepartedAfter(news)
    /\ UNCHANGED <<clock, senderVars, peer, history>>

\* forget_dead: the tombstone's time is over.
ForgetDead ==
    /\ status = "dead"
    /\ status' = "none"
    /\ departed' = FALSE
    /\ UNCHANGED <<clock, senderVars, peer, leftPending, history>>

\* follow_changes, for a peer whose death was logged.
FollowLeft(p, now) == IF departed THEN NoPeer ELSE Leave(p, now)

\* A round of the node: follow_changes, then expire.
Round ==
    LET now      == clock + 1
        followed == IF leftPending THEN FollowLeft(peer, now) ELSE peer
    IN
    /\ clock < MaxClock
    /\ clock' = now
    /\ peer' = Expire(followed, now)
    /\ leftPending' = FALSE
    /\ sent' = {r \in sent : now <= r.at + MaxDelay}
    /\ NoteDropped
    /\ unsettledAt' = IF leftPending THEN now ELSE unsettledAt
    /\ UNCHANGED <<sender, left, status, departed>>

News == {"same", "live", "dead"}

Next ==
    \/ \E load \in Loads : MakeReport(load)
    \/ LeaveCluster
    \/ Restart
    \/ \E r \in sent, news \in News : Receive(r, news) \/ ReceiveRelayed(r, news)
    \/ \E news \in News : ReceiveLeave(news)
    \/ \E news \in News \ {"same"} : Hear(news)
    \/ ForgetDead
    \/ Round

Spec == Init /\ [][Next]_vars

----------------------------------------------------------------------------
\* "A reordered one may make the node stricter for one stale window, never
\* looser": while the newest report heard of the peer is not stale, no older
\* report, of the same run or another, and no wrapping of the rounds makes the
\* node count less than it says, unless MAX_CONTESTED made it drop an entry.
NeverLooser ==
    newest # NoReport /\ clock < newestAt + MaxAge /\ ~crowded =>
        \A k \in Keys : Heard(peer, k) >= newest.keys[k]

\* What disorder added ends after two stale windows: if every report of that
\* time came in its order, without a restart, a death or an implausible jump,
\* the node counts exactly what the newest one says, a key left out of it at
\* nothing.  One window is not enough: a snapshot of a past run, taken late,
\* makes the next reports contested for a window, and each of them renews what
\* was contested before it (contest keeps the maximum and the latest time).
InOrderIsExact ==
    newest # NoReport /\ clock < newestAt + MaxAge /\ clock >= unsettledAt + 2 * MaxAge =>
        \A k \in Keys : Heard(peer, k) = newest.keys[k]

\* A peer that left on purpose counts for nothing, whichever of its leave, its
\* late reports, also through helpers, and the node's round comes first.
DepartedIsSilent == departed => peer = NoPeer
=============================================================================
