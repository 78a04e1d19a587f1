------------------------------- MODULE Shares -------------------------------
(***************************************************************************)
(* How two nodes split the limit of one key: Node::apply_shares, as_of,    *)
(* informed_since, report_demand and the joining and learning caps of      *)
(* refresh_cap (node.rs), with allocation::share (allocation.rs).  One     *)
(* node is up alone, the other joins through it.                           *)
(*                                                                         *)
(* What RISE_DELAY_ROUNDS counts on is stated as the timing of the model:  *)
(* both nodes keep the same period, so their rounds alternate, and a probe *)
(* of one round and its acknowledgement arrive before the sender's next    *)
(* round, in the order sent, or are lost; of two exchanges in a row one    *)
(* succeeds.  So no peer is silent for stale_after_rounds, and a report    *)
(* out of order, which may only raise the peer's demand, is left to        *)
(* PeerDemand.                                                             *)
(*                                                                         *)
(* The key turns hot and stays hot; cooling is in Limiter.  Rates are in a *)
(* unit in which every share is a whole number.                            *)
(***************************************************************************)
EXTENDS Integers, Sequences, FiniteSetsExt

CONSTANTS
    Pair,            \* the two nodes, 1 and 2; node 2 joins through node 1
    R,               \* the limit
    BetaParts,       \* config.floor_factor is one over this
    ColdParts,       \* config.alpha is one over this
    Demands,         \* what a node may measure at a round
    RiseDelay        \* RISE_DELAY_ROUNDS

ASSUME SharesAssumption ==
    /\ Pair = {1, 2}
    /\ R \in Nat /\ BetaParts \in Nat \ {0} /\ ColdParts \in Nat \ {0}
    /\ Demands \subseteq Nat
    /\ RiseDelay \in Nat
    /\ \A own, others \in Demands :
          own + others > 0 => (R * (BetaParts - 1) * own) % (BetaParts * (own + others)) = 0

VARIABLES turn, member, joinedOn, hotness, lastReport, heardDemand, thenOwn, recent,
          appliedRate, countedAs, probes, acks, lostLast

sharesVars == <<turn, member, joinedOn, hotness, lastReport, heardDemand, thenOwn, recent,
                appliedRate, countedAs, probes, acks, lostLast>>

Peer(x) == 3 - x
Silent == -1           \* no report of the key

Size(x) == IF member[x] THEN 2 ELSE 1
Floor(n) == R \div (BetaParts * n)
Cold(n) == R \div (ColdParts * n)

\* allocation::share
Share(n, own, others) ==
    IF own + others > 0
    THEN Floor(n) + (R * (BetaParts - 1) * own) \div (BetaParts * (own + others))
    ELSE R \div n

SharesTypeOK ==
    /\ turn \in Pair
    /\ member \in [Pair -> BOOLEAN]
    \* "fresh": the node has not heard its peer since it joined, or the key turned hot.
    /\ joinedOn \in [Pair -> {"no", "fresh", "heard"}]
    /\ hotness \in [Pair -> {"cold", "fresh", "heard"}]
    /\ lastReport \in [Pair -> Demands \cup {Silent}]
    /\ heardDemand \in [Pair -> Demands \cup {Silent}]
    /\ thenOwn \in [Pair -> Demands \cup {Silent}]
    /\ recent \in [Pair -> {<<>>} \cup [1 .. RiseDelay -> 0 .. R]]
    /\ appliedRate \in [Pair -> 0 .. R]
    /\ countedAs \in [Pair -> {0, 1, 2}]
    /\ probes \in [Pair -> {"none", "sent", "answered"}]
    /\ acks \in [Pair -> Demands \cup {Silent}]
    /\ lostLast \in BOOLEAN

SharesInit ==
    /\ turn = 1
    /\ member = [x \in Pair |-> FALSE]
    /\ joinedOn = [x \in Pair |-> "no"]
    /\ hotness = [x \in Pair |-> "cold"]
    /\ lastReport = [x \in Pair |-> Silent]
    /\ heardDemand = [x \in Pair |-> Silent]
    /\ thenOwn = [x \in Pair |-> Silent]
    /\ recent = [x \in Pair |-> <<>>]
    /\ appliedRate = [x \in Pair |-> 0]
    /\ countedAs = [x \in Pair |-> 0]
    /\ probes = [x \in Pair |-> "none"]
    /\ acks = [x \in Pair |-> Silent]
    /\ lostLast = FALSE

----------------------------------------------------------------------------
\* refresh_cap(): the joiner waits to join through its seed; a node that joined
\* learns until it has heard its peer.
Waiting(x, joined) == x = 2 /\ joined = "no"
Learning(joined) == joined = "fresh"
CapOf(x, joined) ==
    IF Waiting(x, joined) THEN Floor(2) ELSE IF Learning(joined) THEN Floor(Size(x)) ELSE R

\* Mutant: the node's own demand is taken as it is now.
OwnAsNow(x, now) == now

\* as_of() and reported_demand(): the node's demand as it was in the report it had
\* made when it last heard its peer, or now if that is less.
OwnAsOf(x, now) ==
    IF member[x] /\ thenOwn[x] # Silent THEN Min({now, thenOwn[x]}) ELSE now

\* A key some node has not been heard on since it turned hot gets the floor,
\* unless there is nobody to wait for.
ShareOf(x, joined, now) ==
    IF member[x] /\ (hotness[x] # "heard" \/ Learning(joined))
    THEN Floor(Size(x))
    ELSE Share(Size(x), OwnAsOf(x, now), Max({heardDemand[x], 0}))

\* Mutant: a share rises at once.
SmallestAtOnce(share, past) == share

\* A share falls at once and rises once it has been computed as high for
\* RISE_DELAY_ROUNDS more rounds.
Smallest(share, past) == Min({share} \cup {past[i] : i \in 1 .. Len(past)})

\* The shares kept: the new one first, as many as the delay is long.
Kept(share, past) ==
    IF past = <<>> THEN [i \in 1 .. RiseDelay |-> share]
    ELSE SubSeq(<<share>> \o past, 1, RiseDelay)

\* Node::round: apply_policy, apply_shares, report_demand and the probe.  The key
\* may turn hot by this node's demand, and does if it is hot at the peer.
SharesRound(x, now, takes) ==
    LET joined == IF member[x] /\ joinedOn[x] = "no" THEN "fresh" ELSE joinedOn[x]
        hot    == hotness[x] # "cold" \/ heardDemand[x] # Silent \/ (takes /\ now > 0)
        share  == ShareOf(x, joined, now)
    IN
    /\ turn = x /\ turn' = Peer(x)
    /\ probes[x] = "none" /\ acks[x] = Silent
    /\ joinedOn' = [joinedOn EXCEPT ![x] = joined]
    /\ hotness' = [hotness EXCEPT ![x] = IF hot /\ @ = "cold" THEN "fresh" ELSE @]
    /\ countedAs' = [countedAs EXCEPT ![x] = Size(x)]
    /\ appliedRate' = [appliedRate EXCEPT ![x] =
          Min({CapOf(x, joined), IF hot THEN Smallest(share, recent[x]) ELSE Cold(Size(x))})]
    /\ recent' = [recent EXCEPT ![x] = IF hot THEN Kept(share, @) ELSE <<>>]
    /\ lastReport' = [lastReport EXCEPT ![x] = IF hot THEN now ELSE Silent]
    /\ probes' = [probes EXCEPT ![x] = IF member[x] \/ x = 2 THEN "sent" ELSE "none"]
    /\ UNCHANGED <<member, heardDemand, thenOwn, acks, lostLast>>

\* Node::receive of a message from the peer: it is a member, heard now, and its
\* report is taken.
Heard(x, report) ==
    /\ member' = [member EXCEPT ![x] = TRUE]
    /\ joinedOn' = [joinedOn EXCEPT ![x] = IF @ = "fresh" THEN "heard" ELSE @]
    /\ hotness' = [hotness EXCEPT ![x] = IF @ = "fresh" THEN "heard" ELSE @]
    /\ heardDemand' = [heardDemand EXCEPT ![x] = report]
    /\ thenOwn' = [thenOwn EXCEPT ![x] = lastReport[x]]

\* x's probe reaches its peer, which answers with its own report.
DeliverProbe(x) ==
    /\ probes[x] = "sent" /\ probes[Peer(x)] # "answered"
    /\ Heard(Peer(x), lastReport[x])
    /\ probes' = [probes EXCEPT ![x] = "answered"]
    /\ acks' = [acks EXCEPT ![x] = lastReport[Peer(x)]]
    /\ UNCHANGED <<turn, lastReport, recent, appliedRate, countedAs, lostLast>>

DeliverAck(x) ==
    /\ probes[x] = "answered"
    /\ Heard(x, acks[x])
    /\ probes' = [probes EXCEPT ![x] = "none"]
    /\ acks' = [acks EXCEPT ![x] = Silent]
    /\ lostLast' = FALSE
    /\ UNCHANGED <<turn, lastReport, recent, appliedRate, countedAs>>

\* A probe or its acknowledgement is lost, if the one before was not.
LoseProbe(x) ==
    /\ probes[x] # "none" /\ ~lostLast
    /\ probes' = [probes EXCEPT ![x] = "none"]
    /\ acks' = [acks EXCEPT ![x] = Silent]
    /\ lostLast' = TRUE
    /\ UNCHANGED <<turn, member, joinedOn, hotness, lastReport, heardDemand, thenOwn, recent,
                   appliedRate, countedAs>>

SharesNext ==
    \E x \in Pair :
        \/ \E now \in Demands, takes \in BOOLEAN : SharesRound(x, now, takes)
        \/ DeliverProbe(x) \/ DeliverAck(x) \/ LoseProbe(x)

----------------------------------------------------------------------------
\* The shares two nodes enforce add up to no more than the limit, from the round
\* on at which both count each other and hold the key hot, while demand rises and
\* falls and messages cross (Node::apply_shares, as_of, RISE_DELAY_ROUNDS).
SharesFit ==
    (\A x \in Pair : countedAs[x] = 2 /\ hotness[x] # "cold")
        => appliedRate[1] + appliedRate[2] <= R
=============================================================================
