------------------------------- MODULE Policy -------------------------------
(***************************************************************************)
(* What a node does when its cluster shrinks: Node::apply_policy,          *)
(* refresh_cap, depart and share_size (node.rs), and SizeHistory           *)
(* (partition.rs).  How members come to be suspected, buried, forgotten or *)
(* heard again is the business of Swim: here each node in Observed may see *)
(* any such change, whatever the others see, so every split and every heal *)
(* is among the behaviours.                                                *)
(*                                                                         *)
(* Time is counted in a node's own rounds, as ages.  The learning cap of   *)
(* refresh_cap depends on what was heard and is in module Shares.  A node  *)
(* that left stays away, and its leave arrives within a tombstone's life.  *)
(*                                                                         *)
(* History: a sample keeps, besides the size SizeHistory holds, who was    *)
(* counted, and whether a leave was taken out of it that it did not count; *)
(* `serving` is whom a node saw alive at its last round if nothing held it *)
(* at the floor; `lapsed` says that its quorum memory ran out, or that it  *)
(* took a leave after it had forgotten a node that did not leave: the size *)
(* remembered no longer tells which node is missing.                       *)
(***************************************************************************)
EXTENDS Integers, Sequences, FiniteSets, FiniteSetsExt

CONSTANTS
    Nodes,
    Observed,          \* the nodes whose state is followed
    Founders,          \* those that know each other at the start
    Leavers,           \* bound: the nodes that may leave
    Hold,              \* HoldDown's hold, in rounds
    QuorumMemory,      \* in rounds
    HeardWithin,       \* stale_after_rounds, in rounds
    TombstoneRounds,   \* tombstone_ttl in rounds, for a refusal
    MaxMembers,        \* MemberTable::max
    Starts             \* scenarios: the policy, whether the founders have met, whose
                       \* state is followed, how many suspicions and leaves there may
                       \* be and whether a full table may be knocked at

ASSUME PolicyAssumption ==
    /\ Observed \subseteq Nodes /\ Founders \subseteq Nodes /\ Leavers \subseteq Nodes
    /\ IsFiniteSet(Nodes)
    /\ Starts \subseteq [policy : {"optimistic", "hold_down", "quorum"}, formed : BOOLEAN,
                         followed : SUBSET Observed,
                         troubles : Nat, refuses : BOOLEAN]
    /\ Hold \in Nat /\ QuorumMemory \in Nat /\ TombstoneRounds \in Nat
    /\ HeardWithin \in Nat \ {0} /\ MaxMembers \in Nat \ {0}

VARIABLES start, view, joined, samples, heldSize, quorumSize, without, floored,
          refusing, hasJoined, held, capDivisor, gone, troubles, serving, lapsed

policyVars == <<start, view, joined, samples, heldSize, quorumSize, without, floored,
                refusing, hasJoined, held, capDivisor, gone, troubles, serving, lapsed>>

Majority == -1         \* without_quorum_since: None
NoCap == 0             \* no cap; a cap d stands for the part beta/d of R

policy == start.policy

Stranger == "stranger"
LiveStatus == {"alive", "suspect"}

----------------------------------------------------------------------------
Others(o) == Nodes \ {o}
InView(o, statuses) == {p \in Others(o) : view[o][p] \in statuses}
ClusterSize(o) == 1 + Cardinality(InView(o, LiveStatus))
AliveCount(o) == 1 + Cardinality(InView(o, {"alive"}))

\* known_for_quorum(): the live, and the dead that did not say they were leaving.
KnownForQuorum(o) == ClusterSize(o) + Cardinality(InView(o, {"dead"}))

\* partition::has_quorum
HasQuorum(alive, known) == 2 * alive > known

\* hold_of(), in samples: a window of no length keeps the last one.
Window == IF policy = "hold_down" THEN Max({1, Hold}) ELSE 1

\* allocation_size(), share_size()
AllocationSize(size, heldSz) == Max({size, heldSz})
ShareSize(size, heldSz, ref) ==
    Max({AllocationSize(size, heldSz)} \cup (IF ref > 0 THEN {MaxMembers} ELSE {}))

\* A node has the other founders for seeds: it waits to join.
SeedsOf(o) == Founders \ {o}

\* refresh_cap(): the reasons to hold every key at the floor, and the smallest.
Held(o, joinedNow, floor, ref) ==
    [joining        |-> ~joinedNow /\ SeedsOf(o) # {} /\ policy # "optimistic",
     without_quorum |-> policy = "quorum" /\ floor > 0,
     members_full   |-> ref > 0]

CapDivisor(o, h, qs, share) ==
    Max({NoCap}
        \cup (IF h.joining THEN {1 + Cardinality(SeedsOf(o))} ELSE {})
        \cup (IF h.without_quorum THEN {qs} ELSE {})
        \cup (IF h.members_full THEN {share} ELSE {}))

PolicyTypeOK ==
    /\ start \in Starts
    /\ view \in [Observed -> [Nodes -> LiveStatus \cup {"dead", "departed", Stranger}]]
    /\ joined \in [Observed -> [Nodes -> 0 .. Window]]
    /\ \A o \in Observed :
          /\ Len(samples[o]) <= Window
          /\ \A i \in 1 .. Len(samples[o]) :
                samples[o][i] \in [size : 1 .. Cardinality(Nodes), seen : SUBSET Nodes,
                                   excused : BOOLEAN]
    /\ heldSize \in [Observed -> 0 .. Cardinality(Nodes)]
    /\ quorumSize \in [Observed -> 0 .. Cardinality(Nodes)]
    /\ without \in [Observed -> {Majority} \cup 0 .. QuorumMemory]
    /\ floored \in [Observed -> 0 .. HeardWithin]
    /\ refusing \in [Observed -> 0 .. TombstoneRounds]
    /\ hasJoined \in [Observed -> BOOLEAN]
    /\ held \in [Observed -> [joining : BOOLEAN, without_quorum : BOOLEAN, members_full : BOOLEAN]]
    /\ capDivisor \in [Observed -> 0 .. Max({MaxMembers, Cardinality(Nodes)})]
    /\ gone \subseteq Nodes
    /\ troubles \in 0 .. start.troubles
    /\ serving \in [Observed -> SUBSET Nodes]
    /\ lapsed \in [Observed -> BOOLEAN]

\* Node::new, add_seed and set_partition_policy; in a formed cluster the founders
\* have joined each other and run a round.
PolicyInit ==
    \E s \in Starts :
        LET with == [o \in Observed |-> IF s.formed /\ o \in Founders THEN Founders \ {o} ELSE {}]
            size == [o \in Observed |-> 1 + Cardinality(with[o])]
        IN
        /\ start = s
        /\ view = [o \in Observed |-> [p \in Nodes |-> IF p \in with[o] THEN "alive" ELSE Stranger]]
        /\ joined = [o \in Observed |-> [p \in Nodes |-> IF p \in with[o] THEN 1 ELSE 0]]
        /\ samples = [o \in Observed |->
              <<[size |-> size[o], seen |-> {o} \cup with[o], excused |-> FALSE]>>]
        /\ heldSize = size
        /\ quorumSize = size
        /\ without = [o \in Observed |-> Majority]
        /\ floored = [o \in Observed |-> 0]
        /\ refusing = [o \in Observed |-> 0]
        /\ hasJoined = [o \in Observed |-> with[o] # {}]
        /\ held = [o \in Observed |-> Held(o, with[o] # {}, 0, 0)]
        /\ capDivisor = [o \in Observed |-> CapDivisor(o, Held(o, with[o] # {}, 0, 0), size[o], size[o])]
        /\ gone = {}
        /\ troubles = 0
        /\ serving = [o \in Observed |->
              IF Held(o, with[o] # {}, 0, 0).joining THEN {} ELSE {o} \cup with[o]]
        /\ lapsed = [o \in Observed |-> FALSE]

----------------------------------------------------------------------------
\* The changes of the member table, as MemberTable::apply makes them.

UpToDate(o) == o \notin gone

\* A member answers, or a stranger is let in: `joined` dates from when it became
\* live.  A newcomer needs room in the table.
Hear(o, p) ==
    /\ UpToDate(o) /\ p \notin gone
    /\ view[o][p] # "alive"
    /\ view[o][p] = Stranger => 1 + Cardinality(InView(o, LiveStatus \cup {"dead", "departed"})) < MaxMembers
    /\ view' = [view EXCEPT ![o][p] = "alive"]
    /\ joined' = [joined EXCEPT ![o][p] = IF view[o][p] \in LiveStatus THEN @ ELSE 0]
    /\ UNCHANGED <<start, samples, heldSize, quorumSize, without, floored, refusing,
                   hasJoined, held, capDivisor, gone, troubles, serving, lapsed>>

\* A probe goes unanswered here or elsewhere.
Suspect(o, p) ==
    /\ UpToDate(o)
    /\ view[o][p] = "alive"
    /\ troubles < start.troubles /\ troubles' = troubles + 1
    /\ view' = [view EXCEPT ![o][p] = "suspect"]
    /\ UNCHANGED <<start, joined, samples, heldSize, quorumSize, without, floored, refusing,
                   hasJoined, held, capDivisor, gone, serving, lapsed>>

\* expire_suspects(), or news of the death.
Die(o, p) ==
    /\ UpToDate(o)
    /\ view[o][p] = "suspect"
    /\ view' = [view EXCEPT ![o][p] = "dead"]
    /\ UNCHANGED <<start, joined, samples, heldSize, quorumSize, without, floored, refusing,
                   hasJoined, held, capDivisor, gone, troubles, serving, lapsed>>

\* forget_dead()
Forget(o, p) ==
    /\ UpToDate(o)
    /\ view[o][p] \in {"dead", "departed"}
    /\ view' = [view EXCEPT ![o][p] = Stranger]
    /\ joined' = [joined EXCEPT ![o][p] = 0]
    /\ UNCHANGED <<start, samples, heldSize, quorumSize, without, floored, refusing,
                   hasJoined, held, capDivisor, gone, troubles, serving, lapsed>>

\* Node::leave: the node is done, and what it holds is held at the floor.
LeaveOnPurpose(p) ==
    /\ p \notin gone
    /\ troubles < start.troubles /\ troubles' = troubles + 1
    /\ gone' = gone \cup {p}
    /\ serving' = [o \in Observed |-> IF o = p THEN {} ELSE serving[o]]
    /\ UNCHANGED <<start, view, joined, samples, heldSize, quorumSize, without, floored,
                   refusing, hasJoined, held, capDivisor, lapsed>>

\* Mutant: the departed is taken out of every size, those before it joined too.
ForgetOneEver(seq, since) ==
    [i \in 1 .. Len(seq) |-> [seq[i] EXCEPT !.size = Max({@ - 1, 1})]]

\* Mutant: a size may fall to nothing.
ForgetOneToNothing(seq, since) ==
    [i \in 1 .. Len(seq) |-> IF i <= since THEN [seq[i] EXCEPT !.size = @ - 1] ELSE seq[i]]

\* SizeHistory::forget_one: the departed is taken out of the newest `since` samples.
ForgetOne(seq, since) ==
    [i \in 1 .. Len(seq) |-> IF i <= since THEN [seq[i] EXCEPT !.size = Max({@ - 1, 1})] ELSE seq[i]]

\* The history beside it: whom the samples count, and the sample made too small.
Uncounted(seq, p, since) ==
    [i \in 1 .. Len(seq) |->
        [seq[i] EXCEPT !.seen = @ \ {p}, !.excused = @ \/ (i <= since /\ p \notin seq[i].seen)]]

\* A Leave arrives: its update buries the sender, then depart() releases what
\* was held for it.
HearLeave(o, p) ==
    LET departed == [view EXCEPT ![o][p] = "departed"]
        known == 1 + Cardinality({q \in Others(o) : departed[o][q] \in LiveStatus \cup {"dead"}})
    IN
    /\ UpToDate(o) /\ p \in gone
    /\ view[o][p] \in LiveStatus \cup {"dead"}
    /\ view' = departed
    /\ samples' = [samples EXCEPT ![o] = ForgetOne(Uncounted(@, p, joined[o][p]), joined[o][p])]
    /\ quorumSize' = [quorumSize EXCEPT ![o] = Max({@ - 1, known})]
    /\ lapsed' = [lapsed EXCEPT ![o] = @ \/ \E q \in Others(o) \ gone : view[o][q] = Stranger]
    /\ UNCHANGED <<start, joined, heldSize, without, floored, refusing, hasJoined, held,
                   capDivisor, gone, troubles, serving>>

\* receive(): the full table refuses a live stranger, and the cap follows at once.
Refuse(o) ==
    LET h == [held[o] EXCEPT !.members_full = TRUE] IN
    /\ UpToDate(o)
    /\ start.refuses /\ TombstoneRounds > 0
    /\ 1 + Cardinality(InView(o, LiveStatus \cup {"dead", "departed"})) >= MaxMembers
    /\ refusing' = [refusing EXCEPT ![o] = TombstoneRounds]
    /\ held' = [held EXCEPT ![o] = h]
    /\ capDivisor' = [capDivisor EXCEPT ![o] =
          CapDivisor(o, h, quorumSize[o], ShareSize(ClusterSize(o), heldSize[o], TombstoneRounds))]
    /\ UNCHANGED <<start, view, joined, samples, heldSize, quorumSize, without, floored,
                   hasJoined, gone, troubles, serving, lapsed>>

----------------------------------------------------------------------------
\* SizeHistory::record: the newest sample comes first here.
Record(o) ==
    LET now == [size |-> ClusterSize(o), seen |-> {o} \cup InView(o, LiveStatus), excused |-> FALSE]
        all == <<now>> \o samples[o]
    IN SubSeq(all, 1, Min({Len(all), Window}))

Largest(seq) == Max({seq[i].size : i \in 1 .. Len(seq)})

\* Mutant: the size a majority is counted against is the one known, no more.
CountedForgetful(o) == KnownForQuorum(o)

\* The size a majority is counted against grows at once.
Counted(o) == Max({KnownForQuorum(o), quorumSize[o]})

\* How long the node has been without a majority, at this round.
WithoutFor(o) == IF without[o] = Majority THEN 0 ELSE Min({without[o] + 1, QuorumMemory})

\* Mutant: the size remembered is never given up.
LapsesNever(o) == FALSE

\* Members missing for the quorum memory are taken for gone.
Lapses(o) == ~HasQuorum(AliveCount(o), Counted(o)) /\ WithoutFor(o) >= QuorumMemory

\* apply_policy() and refresh_cap(), once a round.
PolicyRound(o) ==
    LET size     == ClusterSize(o)
        known    == KnownForQuorum(o)
        first    == HasQuorum(AliveCount(o), Counted(o))
        counted  == IF Lapses(o) THEN known ELSE Counted(o)
        quorum   == HasQuorum(AliveCount(o), counted)
        recorded == Record(o)
        floor    == IF policy = "quorum" /\ ~quorum THEN HeardWithin ELSE Max({floored[o] - 1, 0})
        ref      == Max({refusing[o] - 1, 0})
        joins    == hasJoined[o] \/ size > 1
        h        == Held(o, joins, floor, ref)
        qs       == IF quorum THEN known ELSE counted
    IN
    /\ UpToDate(o)
    /\ samples' = [samples EXCEPT ![o] = recorded]
    /\ heldSize' = [heldSize EXCEPT ![o] = Largest(recorded)]
    /\ joined' = [joined EXCEPT ![o] =
          [p \in Nodes |-> IF view[o][p] = Stranger THEN 0 ELSE Min({@[p] + 1, Window})]]
    /\ hasJoined' = [hasJoined EXCEPT ![o] = joins]
    /\ without' = [without EXCEPT ![o] = IF first THEN Majority ELSE WithoutFor(o)]
    /\ quorumSize' = [quorumSize EXCEPT ![o] = qs]
    /\ floored' = [floored EXCEPT ![o] = floor]
    /\ refusing' = [refusing EXCEPT ![o] = ref]
    /\ held' = [held EXCEPT ![o] = h]
    /\ capDivisor' = [capDivisor EXCEPT ![o] =
          CapDivisor(o, h, qs, ShareSize(size, Largest(recorded), ref))]
    /\ serving' = [serving EXCEPT ![o] =
          IF h.joining \/ h.without_quorum THEN {} ELSE {o} \cup InView(o, {"alive"})]
    /\ lapsed' = [lapsed EXCEPT ![o] = @ \/ Lapses(o)]
    /\ UNCHANGED <<start, view, gone, troubles>>

\* expire_suspects and forget_dead, at the ticks.
Decay(o) == \E p \in Others(o) : Die(o, p) \/ Forget(o, p)

PolicyNext ==
    \/ \E p \in Leavers : LeaveOnPurpose(p)
    \/ \E o \in start.followed :
          \/ PolicyRound(o)
          \/ Refuse(o)
          \/ Decay(o)
          \/ \E p \in Others(o) :
                Hear(o, p) \/ Suspect(o, p) \/ HearLeave(o, p)

\* Rounds come; a suspicion that is not refuted ends in death, a tombstone in
\* oblivion.  Nodes act on their own here, so one of them shows it for each.
PolicyFairness ==
    \A o \in Observed : /\ WF_policyVars(start.followed = {o} /\ PolicyRound(o))
                        /\ WF_policyVars(start.followed = {o} /\ Decay(o))

----------------------------------------------------------------------------
\* Under Quorum no two nodes serve above the floor with majorities that share no
\* node, whatever each of them saw, buried and forgot since the cluster formed, until
\* one of them has lapsed (Node::apply_policy, known_for_quorum, depart).
NoTwoWholes ==
    (policy = "quorum" /\ start.formed) =>
        \A a, b \in Observed :
            (serving[a] # {} /\ serving[b] # {} /\ ~lapsed[a] /\ ~lapsed[b])
                => serving[a] \cap serving[b] # {}

\* Under HoldDown the size the limit is shared over counts everyone seen live at
\* any round of the hold who did not say it was leaving.  The one exception is a
\* leave that arrives after the death it explains: it is also taken out of the
\* sizes recorded in between, which no longer counted the sender
\* (SizeHistory::record, forget_one).
HeldSize ==
    \A o \in Observed : \A i \in 1 .. Len(samples[o]) :
        samples[o][i].excused \/ heldSize[o] >= Cardinality(samples[o][i].seen)

\* A node is not held at the floor for good for want of a majority: once the
\* suspicions end it has one, or the quorum memory runs out (Node::apply_policy).
QuorumReturns ==
    \A o \in Observed : start.followed = {o} => []<>(~held[o].without_quorum)
=============================================================================
