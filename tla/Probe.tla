-------------------------------- MODULE Probe --------------------------------
(***************************************************************************)
(* The bookkeeping of probes (node.rs): ping, escalate, relay, ack and     *)
(* acknowledged, with sequence numbers, helpers and relays.  What the      *)
(* messages carry, and what a suspicion leads to, is in Swim and           *)
(* PeerDemand; the order in which peers are probed is in ProbeOrder.       *)
(*                                                                         *)
(* In the scenario "chaos" datagrams are lost, duplicated and delayed at   *)
(* will.  In "cut" only the link between two nodes is dead, and every other*)
(* datagram arrives before the next round.                                 *)
(*                                                                         *)
(* History: a datagram names the probe it was made for, its `cause`;       *)
(* `answers` are the probes whose target answered a ping made for them,    *)
(* `vouched` those their node took for answered.                           *)
(***************************************************************************)
EXTENDS Integers, FiniteSets, FiniteSetsExt

CONSTANTS
    Members,         \* PeerIds
    Probers,         \* the nodes whose rounds are run
    IndirectProbes,  \* SwimConfig.indirect_probes
    CutLink,         \* the two nodes whose link is dead in "cut"
    Weathers,        \* scenarios: {"chaos", "cut"} or one of them
    MaxSeq           \* bound on the sequence numbers of each node

ASSUME ProbeAssumption ==
    /\ Probers \subseteq Members /\ CutLink \subseteq Members /\ IsFiniteSet(Members)
    /\ 0 \notin Members      \* it stands for no one
    /\ IndirectProbes \in Nat /\ MaxSeq \in [Members -> Nat \ {0}]
    /\ Weathers \subseteq {"chaos", "cut"}

VARIABLES weather, seq, probe, relays, wire, suspects, answers, vouched

probeVars == <<weather, seq, probe, relays, wire, suspects, answers, vouched>>

NoProbe == [target |-> 0, seq |-> 0, helpers |-> {}]
NotAsked == {0}       \* Probe.helpers: None
Seqs == 1 .. Max({MaxSeq[n] : n \in Members})
Cause == [by : Members, seq : Seqs]

ProbeRecord == [target : Members, seq : Seqs, helpers : (SUBSET Members) \cup {NotAsked}]
\* An entry of Node.relays, under the seq of the ping it made.
RelayRecord == [own : Seqs, requester : Members, seq : Seqs, target : Members]
Datagram == [kind : {"ping", "ack", "ping_req"}, from : Members, to : Members,
             seq : Seqs, target : Members, cause : Cause]

ProbeTypeOK ==
    /\ weather \in Weathers
    /\ \A n \in Members : seq[n] \in 0 .. MaxSeq[n]
    /\ \A n \in Members : probe[n] = NoProbe \/ probe[n] \in ProbeRecord
    /\ \A n \in Members : relays[n] \subseteq RelayRecord
    /\ wire \subseteq Datagram
    /\ suspects \in [Members -> SUBSET Members]
    /\ answers \subseteq Cause /\ vouched \subseteq Cause

ProbeInit ==
    /\ weather \in Weathers
    /\ seq = [n \in Members |-> 0]
    /\ probe = [n \in Members |-> NoProbe]
    /\ relays = [n \in Members |-> {}]
    /\ wire = {}
    /\ suspects = [n \in Members |-> {}]
    /\ answers = {}
    /\ vouched = {}

\* What is sent of these: nothing crosses a dead link.
Carried(messages) == {m \in messages : weather = "cut" => {m.from, m.to} # CutLink}

\* A datagram is taken, with the answers it leads to.  In "chaos" it stays on the
\* wire: it may come again at any time, and one never taken is lost.
Exchange(m, messages) ==
    wire' = (IF weather = "chaos" THEN wire ELSE wire \ {m}) \cup Carried(messages)

Ping(from, to, s, cause) ==
    [kind |-> "ping", from |-> from, to |-> to, seq |-> s, target |-> to, cause |-> cause]

\* Node::ack
Ack(from, to, s, cause) ==
    [kind |-> "ack", from |-> from, to |-> to, seq |-> s, target |-> from, cause |-> cause]

----------------------------------------------------------------------------
\* Node::next_seq.  In "chaos" the numbers run out with the bound.  In "cut" they
\* start over at it, as nothing of an earlier probe is left on the wire, but never
\* come round to one in use: the code has 2^32 of them for what lasts a period.
NextSeq(n) == IF seq[n] >= MaxSeq[n] THEN 1 ELSE seq[n] + 1
InUse(n) == {probe[n].seq} \cup {r.own : r \in relays[n]}
MayNumber(n) == IF weather = "chaos" THEN seq[n] < MaxSeq[n] ELSE NextSeq(n) \notin InUse(n)

\* Node::round: a probe not answered by now makes its target a suspect; the next
\* is made.
ProbeRound(n, target) ==
    LET cause == [by |-> n, seq |-> NextSeq(n)] IN
    /\ MayNumber(n)
    /\ weather = "cut" => wire = {} /\ probe[n].helpers # NotAsked
    /\ suspects' = [suspects EXCEPT ![n] = @ \cup ({probe[n].target} \ {0})]
    /\ seq' = [seq EXCEPT ![n] = NextSeq(n)]
    /\ probe' = [probe EXCEPT ![n] = [target |-> target, seq |-> seq'[n], helpers |-> NotAsked]]
    /\ wire' = wire \cup Carried({Ping(n, target, seq'[n], cause)})
    /\ UNCHANGED <<weather, relays, answers, vouched>>

\* Mutant: nobody is asked.
HelpersNone(n) == {{}}

\* As many of the other alive members as indirect_probes says, whichever.
Helpers(n) ==
    LET able == Members \ ({n, probe[n].target} \cup suspects[n]) IN
    kSubset(Min({IndirectProbes, Cardinality(able)}), able)

\* Node::escalate: past ack_timeout, helpers are asked, once.
Escalate(n) ==
    /\ probe[n].helpers = NotAsked
    /\ \E helpers \in Helpers(n) :
          /\ probe' = [probe EXCEPT ![n].helpers = helpers]
          /\ wire' = wire \cup Carried({[kind |-> "ping_req", from |-> n, to |-> h,
                                         seq |-> probe[n].seq, target |-> probe[n].target,
                                         cause |-> [by |-> n, seq |-> probe[n].seq]] : h \in helpers})
    /\ UNCHANGED <<weather, seq, relays, suspects, answers, vouched>>

\* receive() of a Ping: answered with its own seq.
ReceivePing(m) ==
    /\ m.kind = "ping"
    /\ Exchange(m, {Ack(m.to, m.from, m.seq, m.cause)})
    /\ answers' = answers \cup {m.cause}
    /\ UNCHANGED <<weather, seq, probe, relays, suspects, vouched>>

\* Node::relay: the helper pings the target under a seq of its own.
Relay(m) ==
    LET own == NextSeq(m.to) IN
    /\ m.kind = "ping_req"
    /\ MayNumber(m.to)
    /\ seq' = [seq EXCEPT ![m.to] = own]
    /\ relays' = [relays EXCEPT ![m.to] =
          @ \cup {[own |-> own, requester |-> m.from, seq |-> m.seq, target |-> m.target]}]
    /\ Exchange(m, {Ping(m.to, m.target, own, m.cause)})
    /\ UNCHANGED <<weather, probe, suspects, answers, vouched>>

\* Mutant: an answer of the target ends the wait, whichever probe it answers.
EndsWaitLate(n, m) == probe[n] # NoProbe /\ m.from = probe[n].target

\* acknowledged(): it is this probe's, from the target or from a helper asked.
EndsWait(n, m) ==
    /\ probe[n] # NoProbe /\ probe[n].seq = m.seq
    /\ m.from \in {probe[n].target} \cup probe[n].helpers

\* The relay this answers, if any; its requester is told under its own seq.
Answered(n, m) == {r \in relays[n] : r.own = m.seq /\ r.target = m.from}

Acknowledged(m) ==
    LET n == m.to IN
    /\ m.kind = "ack"
    /\ \/ /\ EndsWait(n, m)
          /\ vouched' = vouched \cup {[by |-> n, seq |-> probe[n].seq]}
          /\ probe' = [probe EXCEPT ![n] = NoProbe]
          /\ Exchange(m, {})
          /\ UNCHANGED relays
       \/ /\ ~EndsWait(n, m)
          /\ relays' = [relays EXCEPT ![n] = @ \ Answered(n, m)]
          /\ Exchange(m, {Ack(n, r.requester, r.seq, m.cause) : r \in Answered(n, m)})
          /\ UNCHANGED <<probe, vouched>>
    /\ UNCHANGED <<weather, seq, suspects, answers>>

\* A relay is kept for a period: the requester's wait, which began before, is over.
Expire(n) ==
    \E r \in relays[n] :
        /\ probe[r.requester].seq # r.seq
        /\ relays' = [relays EXCEPT ![n] = @ \ {r}]
        /\ UNCHANGED <<weather, seq, probe, wire, suspects, answers, vouched>>

\* The suspect refutes it; see Swim.
Cleared(n) ==
    /\ suspects[n] # {}
    /\ \E p \in suspects[n] : suspects' = [suspects EXCEPT ![n] = @ \ {p}]
    /\ UNCHANGED <<weather, seq, probe, relays, wire, answers, vouched>>

ProbeNext ==
    \/ \E n \in Probers, t \in Members : t # n /\ ProbeRound(n, t)
    \/ \E n \in Probers : Escalate(n) \/ Cleared(n)
    \/ \E n \in Members : Expire(n)
    \/ \E m \in wire : ReceivePing(m) \/ Relay(m) \/ Acknowledged(m)

----------------------------------------------------------------------------
\* A node takes a probe for answered only if its target answered a ping made for
\* that very probe, by the node or by a helper, however late, repeated or crossed
\* the answers are (Node::acknowledged, relay, ack).
VouchedFor == vouched \subseteq answers

\* A dead link between two nodes that reach a third makes neither suspect the
\* other: the helper's answer arrives under the seq the requester waits for
\* (Node::escalate, relay, acknowledged).
LinkFaultTolerated == weather = "cut" => \A n \in Probers : suspects[n] = {}
=============================================================================
