----------------------------- MODULE Membership -----------------------------
(***************************************************************************)
(* Who is in the cluster, as the rest of a node needs to know it           *)
(* (rateguard-core/src/membership.rs): the contract of the Membership      *)
(* trait and the membership set by hand, which is all an implementation    *)
(* promises.  Changes wait to be drained, in order, a join and a leave     *)
(* that cancel out both.                                                   *)
(***************************************************************************)
EXTENDS Naturals, Sequences, FiniteSets

CONSTANT Others     \* the nodes that may be the peers of this one

VARIABLES
    peers,          \* peers(): the live peers; their order is that of their ids
    news,           \* the changes nobody has drained yet
    known           \* the peers as whoever drains the changes counts them

memberVars == <<peers, news, known>>

Joined(p) == [joined |-> TRUE, peer |-> p]
Left(p) == [joined |-> FALSE, peer |-> p]

\* cluster_size(): this node included.
ClusterSizeOf(who) == Cardinality(who) + 1

\* ManualMembership::new: everyone it is given joins.
MembershipInit ==
    /\ peers \in SUBSET Others
    /\ \E order \in [1 .. Cardinality(peers) -> peers] :
        /\ \A p \in peers : \E i \in DOMAIN order : order[i] = p
        /\ news = [i \in DOMAIN order |-> Joined(order[i])]
    /\ known = {}

\* add(), remove(): what changes nothing is no news.
Add(p) ==
    /\ p \notin peers
    /\ peers' = peers \cup {p}
    /\ news' = Append(news, Joined(p))
    /\ UNCHANGED known

Remove(p) ==
    /\ p \in peers
    /\ peers' = peers \ {p}
    /\ news' = Append(news, Left(p))
    /\ UNCHANGED known

\* What a consumer makes of the changes, one after the other.
Followed(who, changes) ==
    LET follow[i \in 0 .. Len(changes)] ==
            IF i = 0 THEN who
            ELSE IF changes[i].joined THEN follow[i - 1] \cup {changes[i].peer}
            ELSE follow[i - 1] \ {changes[i].peer}
    IN  follow[Len(changes)]

\* drain_changes()
Drain ==
    /\ news' = <<>>
    /\ known' = Followed(known, news)
    /\ UNCHANGED peers

MembershipNext == Drain \/ \E p \in Others : Add(p) \/ Remove(p)

MembershipSpec == MembershipInit /\ [][MembershipNext]_memberVars

----------------------------------------------------------------------------
\* check_contract(), and what draining is for: whoever follows the changes,
\* and those still to come, ends up with the peers; and no peer joins twice
\* with no leave in between, nor leaves twice (drain_changes: "A join and a
\* leave that cancel out are both reported").
Contract ==
    /\ peers \subseteq Others
    /\ Followed(known, news) = peers
    /\ \A i \in DOMAIN news :
        LET before == Followed(known, SubSeq(news, 1, i - 1))
        IN  news[i].joined <=> news[i].peer \notin before
=============================================================================
