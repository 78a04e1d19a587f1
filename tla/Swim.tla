-------------------------------- MODULE Swim --------------------------------
(***************************************************************************)
(* The membership half of a node: MemberTable (member.rs), the piggyback   *)
(* buffer (gossip.rs) and the parts of Node::handle and Node::leave        *)
(* (node.rs) that change them, for a cluster of nodes over datagrams that  *)
(* are lost, duplicated, delayed and reordered.  Nodes crash, leave on     *)
(* purpose, and restart under the same ID at incarnation 0.                *)
(*                                                                         *)
(* Nothing here reads the demand, the shares or the partition policy, so   *)
(* those halves of the handlers are modelled apart.  So is the bookkeeping *)
(* of probes (sequence numbers, helpers, relays): here any probe may have  *)
(* gone unanswered, and any suspicion or tombstone may have timed out by a *)
(* tick.  A tick that both expires members and runs a round is a Tick and  *)
(* a Round with nothing in between.                                        *)
(***************************************************************************)
EXTENDS Integers, FiniteSets

CONSTANTS
    Nodes,           \* PeerIds; ordered, for the walk over the members
    Seeds,           \* [Nodes -> SUBSET Nodes]: whom a node joins through
    MaxUpdates,      \* proto::MAX_UPDATES
    MaxMembers,      \* MemberTable::max, this node included
    RetransmitLimit, \* gossip::retransmit_limit: sendings of one piece of news
    MaxNet,          \* bound: datagrams in flight when a round sends one more
    Budget,          \* bound: how often each kind of fault may happen
    Starts           \* scenarios: which nodes there are, and the faults already spent

Faults == {"suspect", "lose", "duplicate", "crash", "leave"}

ASSUME NodesAssumption == Nodes \subseteq Nat \ {0} /\ IsFiniteSet(Nodes)

ASSUME SeedsAssumption ==
    Seeds \in [Nodes -> SUBSET Nodes] /\ \A n \in Nodes : n \notin Seeds[n]

ASSUME LimitsAssumption ==
    /\ MaxUpdates \in Nat /\ MaxUpdates >= 2
    /\ MaxMembers \in Nat \ {0}
    /\ RetransmitLimit \in Nat \ {0}
    /\ MaxNet \in Nat

ASSUME BudgetAssumption == Budget \in [Faults -> Nat]

ASSUME StartsAssumption ==
    Starts \subseteq [phase : [Nodes -> {"up", "absent"}], used : [Faults -> Nat]]

VARIABLES
    phase,           \* "up", "left" (Node::leave was called), "down" or never there
    inc,             \* MemberTable.incarnation of each node
    table,           \* MemberTable.members: table[n][p] is n's record of p
    gossip,          \* Gossip.queue: gossip[n][p] is news of p waiting for a ride
    behind,          \* Node.behind
    introducing,     \* Node.introducing: NotIntroducing, or the last member told
    heard,           \* the keys of Node.last_heard
    net,             \* datagrams in flight
    used,            \* faults so far
    peak,            \* history: the highest incarnation a node ever took
    leftAt           \* history: the incarnations at which a node said it was leaving

local == <<inc, table, gossip, behind, introducing, heard>>
vars == <<phase, inc, table, gossip, behind, introducing, heard, net, used, peak, leftAt>>

Status == {"alive", "suspect", "dead"}
Rank == [none |-> 0, alive |-> 1, suspect |-> 2, dead |-> 3]

\* A stranger has no record.  At incarnation -1, any news supersedes it.
NoRecord == [inc |-> -1, status |-> "none", departed |-> FALSE]
\* Only the dead have departed.
Record ==
    {r \in [inc : Nat, status : Status, departed : BOOLEAN] : r.departed => r.status = "dead"}
        \cup {NoRecord}

\* An entry of the piggyback buffer, with how often it was sent.
NoNews == [inc |-> -1, status |-> "none", sent |-> 0]
News == [inc : Nat, status : Status, sent : Nat]
Fresh(incarnation, status) == [inc |-> incarnation, status |-> status, sent |-> 0]

NotIntroducing == -1
Update == [member : Nodes, inc : Nat, status : Status]
\* A leave is sent twice, so it has a copy number.
Message == [kind : {"ping", "ack", "leave"}, from : Nodes, to : Nodes,
            updates : SUBSET Update, copy : {1, 2}]

TypeOK ==
    /\ phase \in [Nodes -> {"up", "left", "down", "absent"}]
    /\ inc \in [Nodes -> Nat]
    /\ table \in [Nodes -> [Nodes -> Record]]
    /\ gossip \in [Nodes -> [Nodes -> News \cup {NoNews}]]
    /\ behind \in [Nodes -> SUBSET Nodes]
    /\ introducing \in [Nodes -> [Nodes -> Nodes \cup {0, NotIntroducing}]]
    /\ heard \in [Nodes -> SUBSET Nodes]
    /\ net \subseteq Message
    /\ used \in [Faults -> Nat]
    /\ peak \in [Nodes -> Nat]
    /\ leftAt \in [Nodes -> SUBSET Nat]

Init ==
    /\ \E s \in Starts : phase = s.phase /\ used = s.used
    /\ inc = [n \in Nodes |-> 0]
    /\ table = [n \in Nodes |-> [p \in Nodes |-> NoRecord]]
    /\ gossip = [n \in Nodes |-> [p \in Nodes |-> NoNews]]
    /\ behind = [n \in Nodes |-> {}]
    /\ introducing = [n \in Nodes |-> [p \in Nodes |-> NotIntroducing]]
    /\ heard = [n \in Nodes |-> {}]
    /\ net = {}
    /\ peak = [n \in Nodes |-> 0]
    /\ leftAt = [n \in Nodes |-> {}]

----------------------------------------------------------------------------
\* Update::supersedes: a higher incarnation wins, then dead over suspect over
\* alive.  News never supersedes itself.
Supersedes(a, b) ==
    \/ a.inc > b.inc
    \/ a.inc = b.inc /\ Rank[a.status] > Rank[b.status]

Known(tab) == {p \in Nodes : tab[p] # NoRecord}
Dead(tab) == {p \in Nodes : tab[p].status = "dead"}
Live(tab) == {p \in Nodes : tab[p].status \in {"alive", "suspect"}}

\* Node::random_lost: the dead, and the seeds that are strangers.
Lost(n) == Dead(table[n]) \cup (Seeds[n] \ Known(table[n]))

Spend(fault) ==
    /\ used[fault] < Budget[fault]
    /\ used' = [used EXCEPT ![fault] = @ + 1]

----------------------------------------------------------------------------
\* MemberTable::apply and Node::learn, for all the updates of one message.
\* An update about a peer is taken if it supersedes the record, so of several
\* about one peer the newest decides, in whatever order they are learned.

About(updates, p) == {u \in updates : u.member = p}

\* u is the newest of the updates about its member.
IsNewest(u, updates) == \A v \in About(updates, u.member) : ~Supersedes(v, u)

Newest(updates, p) == CHOOSE u \in About(updates, p) : IsNewest(u, updates)

\* The newest update about p beats the record.
IsNews(updates, p, record) ==
    \E u \in About(updates, p) : IsNewest(u, updates) /\ Supersedes(u, record)

\* Mutant: the table has room for everyone.
AcceptedUncapped(n, from, updates) ==
    {{p \in Nodes \ {n} : IsNews(updates, p, table[n][p])}}

\* The peers whose news is accepted: members, and strangers while the table has
\* room.  The sender's own record comes first in a message.
Accepted(n, from, updates) ==
    LET tab       == table[n]
        fresh     == {p \in Nodes \ {n} : IsNews(updates, p, tab[p])}
        strangers == fresh \ Known(tab)
        known     == Cardinality(Known(tab)) + 1
        room      == IF MaxMembers > known THEN MaxMembers - known ELSE 0
    IN  {a \in SUBSET fresh :
            /\ fresh \ strangers \subseteq a
            /\ Cardinality(a \cap strangers) =
                  IF Cardinality(strangers) < room THEN Cardinality(strangers) ELSE room
            /\ from \in strangers /\ room > 0 => from \in a}

\* Any accepted news clears `departed`.
Apply(tab, updates, accepted) ==
    [p \in Nodes |->
        IF p \in accepted
        THEN LET u == Newest(updates, p)
             IN  [inc |-> u.inc, status |-> u.status, departed |-> FALSE]
        ELSE tab[p]]

\* MemberTable::refute: news about this node is never taken as fact.  What
\* beats its own record is outbid; any other accusation is answered as it is.
Own(incarnation) == [inc |-> incarnation, status |-> "alive"]

Refute(n, updates) ==
    IF IsNews(updates, n, Own(inc[n]))
    THEN Newest(updates, n).inc + 1
    ELSE inc[n]

Refuted(n, updates) ==
    \/ IsNews(updates, n, Own(inc[n]))
    \/ \E u \in About(updates, n) : u.status # "alive"

\* Gossip::push: news replaces older news about the same member, and is yet to
\* be sent.
PushLearned(queue, n, updates, accepted, ownInc) ==
    [p \in Nodes |->
        IF p \in accepted /\ Supersedes(Newest(updates, p), queue[p])
        THEN Fresh(Newest(updates, p).inc, Newest(updates, p).status)
        ELSE IF p = n /\ Refuted(n, updates) /\ Supersedes(Own(ownInc), queue[n])
        THEN Fresh(ownInc, "alive")
        ELSE queue[p]]

----------------------------------------------------------------------------
\* Node::outgoing: what n says to `to`.  Own record first, then the piggyback
\* buffer, then what is held against `to`, then introductions.

\* Mutant: nobody is told what is held against them.
NoAccusation(tab, behindOf, to) == {}

\* Whoever is held suspect or dead hears it on every message, and so does a
\* peer behind its own incarnation.
Accusation(tab, behindOf, to) ==
    IF tab[to] # NoRecord /\ (tab[to].status # "alive" \/ to \in behindOf)
    THEN {[member |-> to, inc |-> tab[to].inc, status |-> tab[to].status]}
    ELSE {}

\* Gossip::take: what is waiting, the least sent first, then in the order of
\* IDs, as far as there is room.
Take(queue, room) ==
    LET waiting == {p \in Nodes : queue[p] # NoNews}
        Before(p) == {q \in waiting : \/ queue[q].sent < queue[p].sent
                                      \/ queue[q].sent = queue[p].sent /\ q < p}
    IN  {p \in waiting : Cardinality(Before(p)) < room}

\* ... and what was sent for the last time is dropped.
Spent(queue, taken) ==
    [p \in Nodes |->
        IF p \notin taken THEN queue[p]
        ELSE IF queue[p].sent + 1 >= RetransmitLimit THEN NoNews
        ELSE [queue[p] EXCEPT !.sent = @ + 1]]

Say(of, p) == [member |-> p, inc |-> of[p].inc, status |-> of[p].status]

\* The message so far: the own record, the buffer and the accusation.
Said(own, tab, queue, behindOf, to, taken) ==
    {own} \cup {Say(queue, p) : p \in taken} \cup Accusation(tab, behindOf, to)

\* Mutant: a newcomer is told of nobody.
NoIntroduction(tab, intro, to, said) == [updates |-> said, intro |-> intro]

\* A newcomer is told of the live members in the order of their IDs, from
\* where the last message to it stopped, in the room that is left; it is done
\* once the walk runs out of members before it runs out of room.
Introduce(tab, intro, to, said) ==
    LET rest == {p \in Live(tab) : p > intro[to] /\ p # to /\ \A u \in said : u.member # p}
        room == MaxUpdates - Cardinality(said)
        told == {p \in rest : Cardinality({q \in rest : q < p}) < room}
        IsLast(p) == \A q \in told : q <= p
    IN  IF intro[to] = NotIntroducing THEN [updates |-> said, intro |-> intro]
        ELSE [updates |-> said \cup {Say(tab, p) : p \in told},
              intro |-> [intro EXCEPT ![to] =
                           IF Cardinality(rest) < room THEN NotIntroducing
                           ELSE IF \E p \in told : IsLast(p)
                                THEN CHOOSE p \in told : IsLast(p)
                           ELSE @]]

Outgoing(own, tab, queue, behindOf, intro, to) ==
    LET room  == MaxUpdates - 1 - Cardinality(Accusation(tab, behindOf, to))
        taken == Take(queue, room)
        told  == Introduce(tab, intro, to, Said(own, tab, queue, behindOf, to, taken))
    IN  [updates |-> told.updates, intro |-> told.intro, queue |-> Spent(queue, taken)]

Datagram(kind, from, to, updates) ==
    [kind |-> kind, from |-> from, to |-> to, updates |-> updates, copy |-> 1]

OwnUpdate(n, incarnation) == [member |-> n, inc |-> incarnation, status |-> "alive"]

----------------------------------------------------------------------------
\* Mutant: peers forgotten stay in the side tables.
KeepAll(peers, forgotten, tab) == peers

\* A tick that forgot members retains, of a side table, those still known.
Retain(peers, forgotten, tab) == IF forgotten = {} THEN peers ELSE peers \cap Known(tab)

\* Node::handle(Tick) without a round: some suspicions and some tombstones
\* have timed out.  A member that dies on a tick is not forgotten on it.
Tick(n, expired, forgotten) ==
    LET tab == [p \in Nodes |->
                  IF p \in expired
                  THEN [inc |-> table[n][p].inc, status |-> "dead", departed |-> FALSE]
                  ELSE IF p \in forgotten THEN NoRecord
                  ELSE table[n][p]]
    IN
    /\ phase[n] = "up"
    /\ table' = [table EXCEPT ![n] = tab]
    /\ gossip' = [gossip EXCEPT ![n] =
                    [p \in Nodes |->
                        IF p \in expired /\ Supersedes(tab[p], @[p])
                        THEN Fresh(tab[p].inc, "dead")
                        ELSE @[p]]]
    /\ introducing' = [introducing EXCEPT ![n] =
                        [p \in Nodes |-> IF p \in Live(tab) THEN @[p] ELSE NotIntroducing]]
    /\ heard' = [heard EXCEPT ![n] = Retain(@, forgotten, tab)]
    /\ behind' = [behind EXCEPT ![n] = Retain(@, forgotten, tab)]
    /\ UNCHANGED <<phase, inc, net, used, peak, leftAt>>

\* Mutant: a suspicion is raised at the next incarnation.
SuspectedAbove(tab, missed) ==
    [p \in Nodes |->
        IF p \in missed THEN [inc |-> tab[p].inc + 1, status |-> "suspect", departed |-> FALSE]
        ELSE tab[p]]

\* MemberTable::suspect, for the target of a probe nobody answered.
Suspected(tab, missed) ==
    [p \in Nodes |->
        IF p \in missed THEN [inc |-> tab[p].inc, status |-> "suspect", departed |-> FALSE]
        ELSE tab[p]]

\* Node::round: the last probe, if missed, raises a suspicion; the next target
\* is a live peer or someone lost.
Round(n, missed, target) ==
    LET tab   == Suspected(table[n], missed)
        queue == [p \in Nodes |->
                    IF p \in missed /\ Supersedes(tab[p], gossip[n][p])
                    THEN Fresh(tab[p].inc, "suspect")
                    ELSE gossip[n][p]]
        out   == Outgoing(OwnUpdate(n, inc[n]), tab, queue, behind[n], introducing[n], target)
    IN
    /\ phase[n] = "up"
    /\ Cardinality(net) < MaxNet
    /\ target \in Live(tab) \cup Lost(n)
    /\ missed \subseteq {p \in Nodes : table[n][p].status = "alive"}
    /\ IF missed = {} THEN UNCHANGED used ELSE Spend("suspect")
    /\ net' = net \cup {Datagram("ping", n, target, out.updates)}
    /\ gossip' = [gossip EXCEPT ![n] = out.queue]
    /\ introducing' = [introducing EXCEPT ![n] = out.intro]
    /\ table' = [table EXCEPT ![n] = tab]
    /\ UNCHANGED <<phase, inc, behind, heard, peak, leftAt>>

\* Whether m opens with an Alive of its sender older than the one held.
OpensBehind(n, m) ==
    \E u \in About(m.updates, m.from) :
        /\ u.status = "alive" /\ table[n][m.from].status = "alive"
        /\ table[n][m.from].inc > u.inc

\* Node::receive by a running node, with the reply to a ping built after the
\* news is learned.  `keep` leaves the datagram in flight: a duplicate.
Handle(n, m, accepted, keep) ==
    LET from     == m.from
        tab      == Apply(table[n], m.updates, accepted)
        ownInc   == Refute(n, m.updates)
        queue    == PushLearned(gossip[n], n, m.updates, accepted, ownInc)
        behindOf == IF OpensBehind(n, m) THEN behind[n] \cup {from} ELSE behind[n] \ {from}
        newcomer == from \notin Live(table[n]) /\ tab[from].status = "alive"
        intro    == IF newcomer THEN [introducing[n] EXCEPT ![from] = 0] ELSE introducing[n]
        out      == Outgoing(OwnUpdate(n, ownInc), tab, queue, behindOf, intro, from)
        rest     == IF keep THEN net ELSE net \ {m}
    IN
    /\ inc' = [inc EXCEPT ![n] = ownInc]
    /\ peak' = [peak EXCEPT ![n] = IF ownInc > @ THEN ownInc ELSE @]
    /\ table' = [table EXCEPT ![n] = tab]
    /\ behind' = [behind EXCEPT ![n] = behindOf]
    /\ heard' = [heard EXCEPT ![n] = IF from \in Known(tab) THEN @ \cup {from} ELSE @]
    /\ IF m.kind = "ping"
       THEN /\ net' = rest \cup {Datagram("ack", n, from, out.updates)}
            /\ gossip' = [gossip EXCEPT ![n] = out.queue]
            /\ introducing' = [introducing EXCEPT ![n] = out.intro]
       ELSE /\ net' = rest
            /\ gossip' = [gossip EXCEPT ![n] = queue]
            /\ introducing' = [introducing EXCEPT ![n] = intro]
    /\ UNCHANGED <<phase, leftAt>>

\* Mutant: whoever leaves has departed, dead or not.
DepartsAnyway(tab, p) == tab[p] # NoRecord /\ ~tab[p].departed

\* MemberTable::depart and Node::depart: the member is dead, and said so.
Departs(tab, p) == tab[p].status = "dead" /\ ~tab[p].departed

\* Node::receive of a Leave: the death is learned, and if the member is dead
\* now, it has departed.
HandleLeave(n, m, accepted, keep) ==
    LET from    == m.from
        tab     == Apply(table[n], m.updates, accepted)
        departs == Departs(tab, from)
    IN
    /\ table' = [table EXCEPT ![n] = IF departs THEN [tab EXCEPT ![from].departed = TRUE] ELSE tab]
    /\ gossip' = [gossip EXCEPT ![n] = PushLearned(@, n, m.updates, accepted, inc[n])]
    /\ behind' = [behind EXCEPT ![n] = @ \ {from}]
    /\ introducing' = [introducing EXCEPT ![n] =
                         IF departs THEN [@ EXCEPT ![from] = NotIntroducing] ELSE @]
    /\ heard' = [heard EXCEPT ![n] = IF departs THEN @ \ {from} ELSE @]
    /\ net' = IF keep THEN net ELSE net \ {m}
    /\ UNCHANGED <<phase, inc, peak, leftAt>>

Receive(m, keep) ==
    LET n == m.to IN
    /\ phase[n] = "up"
    /\ IF keep THEN Spend("duplicate") ELSE UNCHANGED used
    /\ \E accepted \in Accepted(n, m.from, m.updates) :
          IF m.kind = "leave"
          THEN HandleLeave(n, m, accepted, keep)
          ELSE Handle(n, m, accepted, keep)

\* A node that left handles nothing, and nobody listens at one that is down.
Unheard(m) ==
    /\ phase[m.to] # "up"
    /\ net' = net \ {m}
    /\ UNCHANGED <<phase, local, used, peak, leftAt>>

Lose(m) ==
    /\ Spend("lose")
    /\ net' = net \ {m}
    /\ UNCHANGED <<phase, local, peak, leftAt>>

\* Node::leave: the own record as Dead, at the same incarnation, twice to every
\* live peer, and nothing afterwards.
Leave(n) ==
    /\ phase[n] = "up"
    /\ Spend("leave")
    /\ phase' = [phase EXCEPT ![n] = "left"]
    /\ LET own == [member |-> n, inc |-> inc[n], status |-> "dead"] IN
       net' = net \cup {[Datagram("leave", n, p, {own}) EXCEPT !.copy = c] :
                           p \in Live(table[n]), c \in {1, 2}}
    /\ leftAt' = [leftAt EXCEPT ![n] = @ \cup {inc[n]}]
    /\ UNCHANGED <<local, peak>>

\* The process ends, by a crash or after a leave; its state is gone.
Crash(n) ==
    /\ phase[n] \in {"up", "left"}
    /\ IF phase[n] = "up" THEN Spend("crash") ELSE UNCHANGED used
    /\ phase' = [phase EXCEPT ![n] = "down"]
    /\ inc' = [inc EXCEPT ![n] = 0]
    /\ table' = [table EXCEPT ![n] = [p \in Nodes |-> NoRecord]]
    /\ gossip' = [gossip EXCEPT ![n] = [p \in Nodes |-> NoNews]]
    /\ behind' = [behind EXCEPT ![n] = {}]
    /\ introducing' = [introducing EXCEPT ![n] = [p \in Nodes |-> NotIntroducing]]
    /\ heard' = [heard EXCEPT ![n] = {}]
    /\ UNCHANGED <<net, peak, leftAt>>

\* Node::new under the same ID: incarnation 0, an empty table, the same seeds.
Restart(n) ==
    /\ phase[n] = "down"
    /\ phase' = [phase EXCEPT ![n] = "up"]
    /\ UNCHANGED <<local, net, used, peak, leftAt>>

Ticks(n) ==
    \E expired \in SUBSET {p \in Nodes : table[n][p].status = "suspect"} :
        \E forgotten \in SUBSET Dead(table[n]) : Tick(n, expired, forgotten)

Missable(n) == {{}} \cup {{p} : p \in {q \in Nodes : table[n][q].status = "alive"}}

Next ==
    \/ \E n \in Nodes : Ticks(n) \/ Leave(n) \/ Crash(n) \/ Restart(n)
    \/ \E n, target \in Nodes : \E missed \in Missable(n) : Round(n, missed, target)
    \/ \E m \in net : Unheard(m) \/ Lose(m) \/ \E keep \in BOOLEAN : Receive(m, keep)

Spec == Init /\ [][Next]_vars

\* Rounds come every protocol period, and every live peer, and at random every
\* lost one, is a target again and again.  A datagram that is not lost arrives.
Delivery(a, b) ==
    \E m \in net : m.from = a /\ m.to = b /\ (Receive(m, FALSE) \/ Unheard(m))

Fairness ==
    \A a \in Nodes : \A b \in Nodes \ {a} :
        /\ SF_vars(Round(a, {}, b))
        /\ WF_vars(Delivery(a, b))

FairSpec == Spec /\ Fairness

----------------------------------------------------------------------------
\* A node's incarnation is its own to raise: no table, buffer or datagram ever
\* holds a record of a node at an incarnation that node never took, so no
\* stale or repeated news can push a node's incarnation up but the one
\* accusation it answers.
OnlyTheOwnerRaises ==
    \A p \in Nodes :
        /\ inc[p] <= peak[p]
        /\ \A n \in Nodes : table[n][p].inc <= peak[p] /\ gossip[n][p].inc <= peak[p]
        /\ \A m \in net : \A u \in m.updates : u.member = p => u.inc <= peak[p]

\* What a node keeps is bounded, whatever order joins, leaves, deaths and forgetting
\* come in: the member table by its cap, this node included (MemberTable::apply),
\* and what is kept per peer beside it by the table, of whose members alone the
\* side tables speak (Node::handle, retain).
TablesBounded ==
    \A n \in Nodes :
        /\ Cardinality(Known(table[n])) + 1 <= MaxMembers
        /\ behind[n] \cup heard[n] \subseteq Known(table[n])
        /\ \A p \in Nodes : introducing[n][p] # NotIntroducing => p \in Known(table[n])

\* Every split heals: once faults stop, every two running nodes hold each other
\* alive for good, though one suspected, buried or forgot the other, or was
\* restarted at incarnation 0 behind a record of its predecessor.
Healing ==
    <>[](\A n, p \in Nodes :
            n # p /\ phase[n] = "up" /\ phase[p] = "up" => table[n][p].status = "alive")

\* "Dead because it said it was leaving, not because it stopped answering": a
\* member marked departed said so at the incarnation it is held dead at.
DepartedSaidSo ==
    \A n, p \in Nodes : table[n][p].departed => table[n][p].inc \in leftAt[p]
=============================================================================
