----------------------------- MODULE ProbeOrder -----------------------------
(***************************************************************************)
(* In which order one node probes its peers (node.rs): next_target,        *)
(* take_live, random_lost, the reconnects of Node::round and the places    *)
(* follow_changes gives to newcomers.  Members come, die and return as the *)
(* member table lets them, which keeps the promises of a Membership.       *)
(***************************************************************************)
EXTENDS Integers, Sequences, FiniteSets, FiniteSetsExt, SequencesExt

CONSTANTS
    ThisNode,        \* this node
    Peers,           \* the other nodes
    JoinSeeds,       \* those it knows as seeds
    ReconnectEvery,  \* reconnect_interval, in rounds
    MaxNews          \* bound: changes between two rounds

ASSUME OrderAssumption ==
    /\ ThisNode \notin Peers /\ JoinSeeds \subseteq Peers /\ IsFiniteSet(Peers)
    /\ ReconnectEvery \in Nat \ {0} /\ MaxNews \in Nat \ {0}

VARIABLES
    live, dead,      \* MemberTable: alive or suspect, and tombstones
    order,           \* Node.order from Node.next on
    changes,         \* MemberTable.changes
    followed,        \* history: the peers by the changes the rounds drained
    reconnectIn,     \* rounds to next_reconnect_at
    probed,          \* history: the last target, 0 for none
    due              \* history: not probed since they joined or the order was made

orderVars == <<live, dead, order, changes, followed, reconnectIn, probed, due>>

\* The member table is a membership.
Table == INSTANCE Membership
    WITH Others <- Peers, peers <- live, news <- changes, known <- followed

OrderTypeOK ==
    /\ live \subseteq Peers /\ dead \subseteq Peers \ live
    /\ order \in Seq(Peers) /\ IsInjective(order)
    /\ changes \in Seq([joined : BOOLEAN, peer : Peers]) /\ Len(changes) <= MaxNews
    /\ reconnectIn \in 0 .. ReconnectEvery
    /\ probed \in Peers \cup {0}
    /\ due \subseteq Peers

OrderInit ==
    /\ live = {} /\ dead = {}
    /\ order = <<>>
    /\ changes = <<>> /\ followed = {}
    /\ reconnectIn = 0
    /\ probed = 0
    /\ due = {}

\* MemberTable::apply: a stranger or a dead member is live from now on.
Joins(p) ==
    /\ p \notin live /\ Len(changes) < MaxNews
    /\ live' = live \cup {p}
    /\ dead' = dead \ {p}
    /\ changes' = Append(changes, Table!Joined(p))
    /\ due' = due \cup {p}
    /\ UNCHANGED <<order, followed, reconnectIn, probed>>

\* Mutant: who dies before its join was followed is not told of.
LeftUnlessNew(news, p) ==
    IF \E i \in DOMAIN news : news[i] = Table!Joined(p) THEN news ELSE Append(news, Table!Left(p))

WithLeft(news, p) == Append(news, Table!Left(p))

\* MemberTable::apply, depart and expire_suspects.
Dies(p) ==
    /\ p \in live /\ Len(changes) < MaxNews
    /\ live' = live \ {p}
    /\ dead' = dead \cup {p}
    /\ changes' = WithLeft(changes, p)
    /\ due' = due \ {p}
    /\ UNCHANGED <<order, followed, reconnectIn, probed>>

Forgotten(p) ==
    /\ p \in dead
    /\ dead' = dead \ {p}
    /\ UNCHANGED <<live, order, changes, followed, reconnectIn, probed, due>>

\* Mutant: newcomers wait until the peers are shuffled anew.
PlacedNever(seq, newcomers) == {seq}

\* follow_changes(): the newcomers, wherever they fall among those left to probe;
\* one that is still there keeps its place.
Placed(seq, newcomers) ==
    {s \in SetToSeqs(ToSet(seq) \cup newcomers) : SelectSeq(s, LAMBDA p : p \in ToSet(seq)) = seq}

Newcomers == {c.peer : c \in {n \in ToSet(changes) : n.joined}}

\* random_lost(): the dead, and the seeds that are strangers.
LostPeers == dead \cup (JoinSeeds \ (live \cup dead))

\* take_live(): the order from its first live peer on.
FromLive(seq) ==
    LET at == {i \in 1 .. Len(seq) : seq[i] \in live}
    IN IF at = {} THEN <<>> ELSE SubSeq(seq, Min(at), Len(seq))

\* next_target(): at the end of the order all the live peers are shuffled anew.
Nexts(seq) == IF FromLive(seq) # <<>> THEN {FromLive(seq)} ELSE SetToSeqs(live)

\* The next of the order is probed.
Probed(p, rest, anew) ==
    /\ probed' = p
    /\ order' = rest
    /\ due' = (IF anew THEN live ELSE due) \ {p}

\* Node::round: the changes are followed, then someone lost is probed if it is
\* time to reconnect, or else the next of the order, or else someone lost.
OrderRound ==
    /\ changes' = <<>>
    /\ followed' = Table!Followed(followed, changes)
    /\ \E seq \in Placed(order, Newcomers) :
          \/ /\ reconnectIn = 0 /\ LostPeers # {}
             /\ probed' \in LostPeers
             /\ order' = seq
             /\ reconnectIn' = ReconnectEvery - 1
             /\ UNCHANGED due
          \/ /\ reconnectIn > 0 \/ LostPeers = {}
             /\ live # {}
             /\ \E choice \in Nexts(seq) : Probed(Head(choice), Tail(choice), FromLive(seq) = <<>>)
             /\ reconnectIn' = IF reconnectIn > 0 THEN reconnectIn - 1 ELSE 0
          \/ /\ reconnectIn > 0 \/ LostPeers = {}
             /\ live = {}
             /\ probed' \in IF LostPeers = {} THEN {0} ELSE LostPeers
             /\ order' = <<>>
             /\ reconnectIn' = IF reconnectIn > 0 THEN reconnectIn - 1 ELSE 0
             /\ UNCHANGED due
    /\ UNCHANGED <<live, dead>>

OrderNext ==
    \/ \E p \in Peers : Joins(p) \/ Dies(p) \/ Forgotten(p)
    \/ OrderRound

----------------------------------------------------------------------------
\* No live peer is passed over: whoever was not probed since the order was made,
\* or since it joined, is still ahead in it, whoever dies, is forgotten or returns
\* in between; so a failure is found in bounded time (Node::next_target,
\* take_live, follow_changes).
ProbedInTurn == due \subseteq ToSet(order) \cup Newcomers

\* Whoever follows the changes of the member table, Node::follow_changes and
\* through it the peers' demand, ends up with its live peers: no change is
\* lost, told twice or told of the wrong peer, whatever died and came back
\* between two rounds.
ContractKept == OrderTypeOK /\ Table!Contract

\* The member table and the rounds that drain it implement a membership:
\* whatever a table holds of the dead and the forgotten, its users see peers
\* come and go and nothing else (membership.rs: "another implementation could
\* take its place").
ImplementsMembership == Table!MembershipSpec
=============================================================================
