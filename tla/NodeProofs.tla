----------------------------- MODULE NodeProofs -----------------------------
(***************************************************************************)
(* What holds of the parts of a node for any number of nodes and any       *)
(* length of their memories: whom a probe vouches for (Probe), who is      *)
(* probed next and what the changes of the members tell (ProbeOrder), the  *)
(* size a limit is shared over (Policy), that what two nodes take of it    *)
(* fits (Shares), and the types of the state of all four (MCNode).         *)
(***************************************************************************)
EXTENDS MCNode, FiniteSetTheorems, SequenceTheorems, WellFoundedInduction, TLAPS

----------------------------------------------------------------------------
\* Numbers, least and greatest: what is shown of the members of a set of
\* numbers one after the other.

\* A set of numbers has a least element.
LEMMA LeastOf ==
    ASSUME NEW T, T \subseteq Nat, T # {}
    PROVE  \E x \in T : \A y \in T : x <= y
  <1> DEFINE less == OpToRel(<, Nat)
  <1>1. IsWellFoundedOn(less, Nat)
    BY NatLessThanWellFounded
  <1>2. \A x, y \in Nat : y < x => <<y, x>> \in less
    BY DEF OpToRel
  <1> HIDE DEF less
  <1>3. PICK x \in T : \A y \in T : ~(<<y, x>> \in less)
    BY <1>1, WFMin
  <1>4. \A y \in T : x \in Nat /\ y \in Nat /\ ~(y < x)
    BY <1>2, <1>3
  <1>5. \A y \in T : x <= y
    BY <1>4
  <1> QED
    BY <1>5

\* Induction over numbers, on a set instead of a predicate.
LEMMA OneByOne ==
    ASSUME NEW S, 0 \in S, \A n \in Nat : n \in S => n + 1 \in S
    PROVE  Nat \subseteq S
  <1>1. SUFFICES ASSUME Nat \ S # {} PROVE FALSE
    OBVIOUS
  <1>2. PICK x \in Nat \ S : \A y \in Nat \ S : x <= y
    BY <1>1, LeastOf
  <1>3. x # 0 /\ x - 1 \in Nat /\ x - 1 + 1 = x
    BY <1>2
  <1>4. x - 1 \in S
    BY <1>2, <1>3
  <1> QED
    BY <1>2, <1>3, <1>4

\* The maximum of a bounded set of numbers.
LEMMA MaxIs ==
    ASSUME NEW S, S \subseteq Nat, S # {}, NEW n \in Nat, \A s \in S : s <= n
    PROVE  Max(S) \in S /\ \A s \in S : s <= Max(S)
  <1> DEFINE T == {k \in Nat : \E s \in S : k = n - s}
  <1>1. T # {} /\ T \subseteq Nat
    <2>1. PICK s \in S : TRUE
      OBVIOUS
    <2>2. n - s \in T
      BY <2>1
    <2> QED
      BY <2>2
  <1>2. PICK k \in T : \A j \in T : k <= j
    BY <1>1, LeastOf
  <1>3. PICK m \in S : k = n - m
    BY <1>2
  <1>4. \A s \in S : s <= m
    <2> SUFFICES ASSUME NEW s \in S PROVE s <= m
      OBVIOUS
    <2>1. n - s \in T /\ n - s \in Nat /\ s \in Nat /\ m \in Nat
      OBVIOUS
    <2>2. n - m <= n - s
      BY <1>2, <1>3, <2>1
    <2> QED
      BY <2>1, <2>2
  <1>5. \E x \in S : \A y \in S : x >= y
    BY <1>4
  <1>6. Max(S) \in S /\ \A y \in S : Max(S) >= y
    BY <1>5 DEF Max
  <1> QED
    BY <1>6


\* A finite set of numbers has a bound: by induction over its size.
LEMMA Bounded ==
    ASSUME NEW S, S \subseteq Nat, IsFiniteSet(S)
    PROVE  \E n \in Nat : \A s \in S : s <= n
  <1> DEFINE Good == {k \in Nat : \A T \in SUBSET S :
                        Cardinality(T) = k => \E n \in Nat : \A s \in T : s <= n}
  <1>1. \A T \in SUBSET S : IsFiniteSet(T) /\ Cardinality(T) \in Nat
    BY FS_Subset, FS_CardinalityType
  <1>2. 0 \in Good
    <2>1. \A T \in SUBSET S : Cardinality(T) = 0 => T = {}
      BY <1>1, FS_EmptySet
    <2> QED
      BY <2>1
  <1>3. ASSUME NEW k \in Nat, k \in Good PROVE k + 1 \in Good
    <2>0. k + 1 \in Nat
      OBVIOUS
    <2> SUFFICES ASSUME NEW T \in SUBSET S, Cardinality(T) = k + 1
                 PROVE  \E n \in Nat : \A s \in T : s <= n
      BY <2>0, Zenon
    <2>1. IsFiniteSet(T) /\ T # {}
      BY <1>1, FS_EmptySet
    <2>2. PICK x \in T : TRUE
      BY <2>1
    <2> DEFINE U == T \ {x}
    <2>3. Cardinality(U) = Cardinality(T) - 1
      BY <2>1, <2>2, FS_RemoveElement
    <2>4. U \in SUBSET S /\ Cardinality(U) = k
      BY <2>3
    <2>5. PICK n \in Nat : \A s \in U : s <= n
      BY <1>3, <2>4
    <2>6. x \in Nat /\ n + x \in Nat /\ \A s \in T : s \in Nat /\ (s = x \/ s \in U)
      BY <2>2
    <2>7. \A s \in T : s <= n + x
      BY <2>5, <2>6
    <2> QED
      BY <2>6, <2>7
  <1> HIDE DEF Good
  <1>4. Cardinality(S) \in Good
    BY <1>1, <1>2, <1>3, OneByOne
  <1> QED
    BY <1>4 DEF Good

\* The maximum of a finite set of numbers.
LEMMA MaxIsFinite ==
    ASSUME NEW S, S \subseteq Nat, S # {}, IsFiniteSet(S)
    PROVE  Max(S) \in S /\ \A s \in S : s <= Max(S)
  BY Bounded, MaxIs

\* The maximum of two numbers.
LEMMA MaxOfTwo ==
    ASSUME NEW a \in Nat, NEW b \in Nat
    PROVE  Max({a, b}) \in {a, b} /\ Max({a, b}) >= a /\ Max({a, b}) >= b
  <1> DEFINE S == {a, b}
  <1>1. S \subseteq Nat /\ S # {} /\ a + b \in Nat /\ \A s \in S : s <= a + b
    OBVIOUS
  <1> HIDE DEF S
  <1>2. Max(S) \in S /\ \A s \in S : s <= Max(S)
    BY <1>1, MaxIs
  <1> QED
    BY <1>2 DEF S

\* The minimum of two numbers.
LEMMA MinOfTwo ==
    ASSUME NEW a \in Nat, NEW b \in Nat
    PROVE  Min({a, b}) \in {a, b} /\ Min({a, b}) <= a /\ Min({a, b}) <= b
  <1> DEFINE S == {a, b}
  <1>1. S \subseteq Nat /\ S # {}
    OBVIOUS
  <1> HIDE DEF S
  <1>2. Min(S) \in S /\ \A s \in S : Min(S) <= s
    BY <1>1, LeastOf DEF Min
  <1> QED
    BY <1>2 DEF S

----------------------------------------------------------------------------
\* Datagrams lost, repeated and delayed at will, and sequence numbers that do
\* not come round: what each part of the state may hold.

ChaosSpec == ProbeInit /\ weather = "chaos" /\ [][ProbeNext]_probeVars

Numbers == Nat
Causes == [by : Members, seq : Numbers]
Waits == [target : Members, seq : Numbers, helpers : SUBSET (Members \union {0})]
Entries == [own : Numbers, requester : Members, seq : Numbers, target : Members]
Mail == [kind : {"ping", "ack", "ping_req"}, from : Members, to : Members,
         seq : Numbers, target : Members, cause : Causes]

Chaos ==
    /\ weather = "chaos"
    /\ seq \in [Members -> Numbers]
    /\ probe \in [Members -> {NoProbe} \union Waits]
    /\ relays \in [Members -> SUBSET Entries]
    /\ wire \subseteq Mail

\* A number names one thing: a node's probe, or one relay it made.
NumbersGiven ==
    /\ \A n \in Members : probe[n].seq <= seq[n]
    /\ \A n \in Members : probe[n] # NoProbe => probe[n].seq > 0
    /\ \A n \in Members : \A r \in relays[n] :
          /\ r.own > 0 /\ r.own <= seq[n] /\ r.seq <= seq[r.requester] /\ r.seq > 0
          /\ r.own # probe[n].seq
          /\ \A s \in relays[r.requester] : s.own # r.seq

Probing(m, n) == m.cause = [by |-> n, seq |-> m.seq]
OfRelay(m, n) == probe[n].seq # m.seq

RightCauses(m, n) ==
    \A r \in relays[n] : r.own = m.seq => m.cause = [by |-> r.requester, seq |-> r.seq]

Pings ==
    \A m \in wire : m.kind = "ping" =>
        /\ m.seq > 0 /\ m.seq <= seq[m.from]
        /\ Probing(m, m.from) \/ OfRelay(m, m.from)
        /\ RightCauses(m, m.from)

Asks ==
    \A m \in wire : m.kind = "ping_req" =>
        /\ m.seq > 0 /\ m.seq <= seq[m.from]
        /\ Probing(m, m.from)
        /\ \A s \in relays[m.from] : s.own # m.seq

Acks ==
    \A m \in wire : m.kind = "ack" =>
        /\ m.seq > 0 /\ m.seq <= seq[m.to]
        /\ m.cause \in answers
        /\ Probing(m, m.to) \/ OfRelay(m, m.to)
        /\ RightCauses(m, m.to)

Vouching == Chaos /\ NumbersGiven /\ Pings /\ Asks /\ Acks /\ VouchedFor

Same == probe' = probe /\ seq' = seq /\ relays' = relays

\* The next number is one more, where numbers do not come round.
LEMMA Numbering ==
    ASSUME Chaos, NEW n \in Members, MayNumber(n)
    PROVE  NextSeq(n) = seq[n] + 1 /\ seq[n] \in Nat
  BY ProbeAssumption DEF Chaos, NextSeq, MayNumber, Numbers

\* Vouching holds at the start.
LEMMA ChaosInit == ProbeInit /\ weather = "chaos" => Vouching
  <1> SUFFICES ASSUME ProbeInit, weather = "chaos" PROVE Vouching
    OBVIOUS
  <1>1. Chaos
    BY DEF ProbeInit, Chaos, Waits, Entries, Mail, Numbers, NoProbe
  <1>2. NumbersGiven
    BY DEF ProbeInit, NumbersGiven, NoProbe
  <1> QED
    BY <1>1, <1>2 DEF ProbeInit, Vouching, Pings, Asks, Acks, VouchedFor

\* Nothing is new on the wire: nothing else changes in what is there.
LEMMA ProbeRoundKeeps ==
    ASSUME Vouching, NEW n \in Members, NEW t \in Members, ProbeRound(n, t)
    PROVE  Vouching'
  <1> DEFINE own == seq[n] + 1
             p == [target |-> t, seq |-> own, helpers |-> NotAsked]
             new == Ping(n, t, own, [by |-> n, seq |-> own])
  <1>1. NextSeq(n) = own /\ own \in Nat /\ seq[n] \in Nat
    BY Numbering DEF ProbeRound, Vouching, Chaos
  <1>2. /\ seq' = [seq EXCEPT ![n] = own] /\ probe' = [probe EXCEPT ![n] = p]
        /\ wire' = wire \cup Carried({new})
        /\ relays' = relays /\ answers' = answers /\ vouched' = vouched /\ weather' = weather
    BY <1>1 DEF ProbeRound, Chaos, Vouching, Numbers
  <1>3. p \in Waits /\ p.seq = own /\ p # NoProbe
    BY <1>1 DEF Waits, NotAsked, Numbers, NoProbe
  <1>4. new \in Mail /\ new.kind = "ping" /\ new.seq = own /\ new.from = n
        /\ new.cause = [by |-> n, seq |-> own]
    BY <1>1 DEF Mail, Ping, Causes, Numbers
  <1> HIDE DEF own, p, new
  <1>5. wire' \subseteq wire \cup {new} /\ wire \subseteq wire'
    BY <1>2 DEF Carried
  <1>6. Chaos'
    BY <1>1, <1>2, <1>3, <1>4, <1>5 DEF Chaos, Vouching, Numbers
  <1>7. /\ seq'[n] = own /\ probe'[n] = p
        /\ \A q \in Members : q # n => seq'[q] = seq[q] /\ probe'[q] = probe[q]
        /\ \A q \in Members : seq[q] \in Nat /\ seq'[q] \in Nat /\ seq[q] <= seq'[q]
        /\ own = seq[n] + 1
    BY <1>1, <1>2 DEF Vouching, Chaos, Numbers, own
  <1>8. \A q \in Members : \A r \in relays[q] : r.own \in Nat /\ r.seq \in Nat /\ r.requester \in Members
    BY DEF Vouching, Chaos, Entries, Numbers
  <1>9. \A m \in wire : m.seq \in Nat /\ m.from \in Members /\ m.to \in Members
    BY DEF Vouching, Chaos, Mail, Numbers
  <1>10. NumbersGiven'
    BY <1>1, <1>2, <1>3, <1>7, <1>8 DEF Vouching, NumbersGiven
  <1>11. Pings'
    <2> SUFFICES ASSUME NEW m \in wire', m.kind = "ping"
                 PROVE  /\ m.seq > 0 /\ m.seq <= seq'[m.from]
                        /\ Probing(m, m.from) \/ probe'[m.from].seq # m.seq
                        /\ RightCauses(m, m.from)'
      BY DEF Pings, OfRelay, Probing, RightCauses
    <2>1. CASE m = new
      BY <1>1, <1>2, <1>4, <1>7, <1>8, <2>1 DEF Probing, RightCauses, Vouching, NumbersGiven
    <2>2. CASE m \in wire
      BY <1>2, <1>3, <1>7, <1>9, <2>2 DEF Vouching, Pings, OfRelay, RightCauses
    <2> QED
      BY <1>5, <2>1, <2>2
  <1>12. Asks'
    BY <1>2, <1>4, <1>5, <1>7, <1>9 DEF Vouching, Asks, Probing
  <1>13. Acks'
    <2> SUFFICES ASSUME NEW m \in wire', m.kind = "ack"
                 PROVE  /\ m.seq > 0 /\ m.seq <= seq'[m.to]
                        /\ m.cause \in answers
                        /\ Probing(m, m.to) \/ probe'[m.to].seq # m.seq
                        /\ RightCauses(m, m.to)'
      BY <1>2 DEF Acks, OfRelay, Probing, RightCauses
    <2>1. m \in wire
      BY <1>4, <1>5
    <2> QED
      BY <1>2, <1>3, <1>7, <1>9, <2>1 DEF Vouching, Acks, OfRelay, RightCauses
  <1> QED
    BY <1>2, <1>6, <1>10, <1>11, <1>12, <1>13 DEF Vouching, VouchedFor

\* What is of the right type on the wire, and what carries over for every
\* datagram that was there before, if no number is given.
LEMMA WireTypes ==
    ASSUME Vouching
    PROVE  /\ \A m \in wire : m.seq \in Nat /\ m.from \in Members /\ m.to \in Members
                              /\ m.target \in Members /\ m.cause \in Causes
           /\ \A q \in Members : \A r \in relays[q] :
                 r.own \in Nat /\ r.seq \in Nat /\ r.requester \in Members /\ r.target \in Members
           /\ \A q \in Members : seq[q] \in Nat /\ probe[q].seq \in Nat
  <1>1. \A m \in wire : m.seq \in Nat /\ m.from \in Members /\ m.to \in Members
                         /\ m.target \in Members /\ m.cause \in Causes
    BY DEF Vouching, Chaos, Mail, Numbers
  <1>2. \A q \in Members : \A r \in relays[q] :
            r.own \in Nat /\ r.seq \in Nat /\ r.requester \in Members /\ r.target \in Members
    BY DEF Vouching, Chaos, Entries, Numbers
  <1>3. \A q \in Members : seq[q] \in Nat /\ probe[q].seq \in Nat
    BY DEF Vouching, Chaos, Waits, Numbers, NoProbe
  <1> QED
    BY <1>1, <1>2, <1>3

\* Helpers are asked at the probe's own number.
LEMMA EscalateKeeps ==
    ASSUME Vouching, NEW n \in Members, Escalate(n)
    PROVE  Vouching'
  <1> DEFINE w == probe[n]
             Ask(h) == [kind |-> "ping_req", from |-> n, to |-> h, seq |-> w.seq,
                        target |-> w.target, cause |-> [by |-> n, seq |-> w.seq]]
  <1>1. PICK helpers \in Helpers(n) :
            /\ probe' = [probe EXCEPT ![n].helpers = helpers]
            /\ wire' = wire \cup Carried({[kind |-> "ping_req", from |-> n, to |-> h,
                                           seq |-> probe[n].seq, target |-> probe[n].target,
                                           cause |-> [by |-> n, seq |-> probe[n].seq]] : h \in helpers})
    BY DEF Escalate
  <1>2. w \in Waits /\ w # NoProbe /\ probe \in [Members -> {NoProbe} \union Waits]
    <2>1. probe \in [Members -> {NoProbe} \union Waits]
      BY DEF Vouching, Chaos
    <2>2. w.helpers = {0}
      BY DEF Escalate, NotAsked
    <2>3. NoProbe.helpers = {}
      BY DEF NoProbe
    <2>4. w # NoProbe
      BY <2>2, <2>3
    <2> QED
      BY <2>1, <2>4
  <1>3. w.seq \in Nat /\ w.seq > 0 /\ w.seq <= seq[n] /\ w.target \in Members
    BY <1>2 DEF Vouching, NumbersGiven, Waits, Numbers
  <1>4. helpers \subseteq Members
    BY DEF Helpers, kSubset
  <1> DEFINE p == [w EXCEPT !.helpers = helpers]
  <1>5. p \in Waits /\ p.seq = w.seq /\ p # NoProbe
    BY <1>2, <1>3, <1>4 DEF Waits, NoProbe, Numbers
  <1>6. probe' = [probe EXCEPT ![n] = p]
    BY <1>1
  <1>7. \A h \in helpers : /\ Ask(h) \in Mail /\ Ask(h).kind = "ping_req" /\ Ask(h).from = n
                           /\ Ask(h).seq = w.seq /\ Ask(h).cause = [by |-> n, seq |-> w.seq]
    BY <1>3, <1>4 DEF Mail, Causes, Numbers
  <1> HIDE DEF p, Ask
  <1>8. \A a \in wire' : a \in wire \/ \E h \in helpers : a = Ask(h)
    BY <1>1 DEF Carried, Ask
  <1>9. /\ seq' = seq /\ relays' = relays /\ answers' = answers /\ vouched' = vouched
        /\ weather' = weather
    BY DEF Escalate
  <1>10. Chaos'
    <2>1. probe' \in [Members -> {NoProbe} \union Waits]
      BY <1>2, <1>5, <1>6
    <2>2. wire' \subseteq Mail
      BY <1>7, <1>8 DEF Vouching, Chaos
    <2> QED
      BY <1>9, <2>1, <2>2 DEF Chaos, Vouching
  <1>11. \A q \in Members : probe'[q].seq = probe[q].seq /\ (probe'[q] # NoProbe <=> probe[q] # NoProbe)
    BY <1>2, <1>5, <1>6
  <1>12. NumbersGiven'
    BY <1>9, <1>11 DEF Vouching, NumbersGiven
  <1>13. \A m \in wire' : m.kind # "ping_req" => m \in wire
    BY <1>7, <1>8
  <1>14. Pings'
    BY <1>9, <1>11, <1>13, WireTypes DEF Vouching, Pings, OfRelay, Probing, RightCauses
  <1>15. Acks'
    BY <1>9, <1>11, <1>13, WireTypes DEF Vouching, Acks, OfRelay, Probing, RightCauses
  <1>16. Asks'
    <2> SUFFICES ASSUME NEW m \in wire', m.kind = "ping_req"
                 PROVE  /\ m.seq > 0 /\ m.seq <= seq[m.from] /\ Probing(m, m.from)
                        /\ \A s \in relays[m.from] : s.own # m.seq
      BY <1>9 DEF Asks, Probing
    <2>1. CASE m \in wire
      BY <2>1 DEF Vouching, Asks
    <2>2. CASE \E h \in helpers : m = Ask(h)
      BY <1>3, <1>7, <2>2 DEF Vouching, NumbersGiven, Probing
    <2> QED
      BY <1>8, <2>1, <2>2
  <1> QED
    BY <1>9, <1>10, <1>12, <1>14, <1>15, <1>16 DEF Vouching, VouchedFor

\* A relay forgotten, or a suspicion taken back.
LEMMA LessKeeps ==
    ASSUME Vouching, relays' \in [Members -> SUBSET Entries],
           \A q \in Members : relays'[q] \subseteq relays[q],
           probe' = probe, seq' = seq, wire' = wire, answers' = answers, vouched' = vouched,
           weather' = weather
    PROVE  Vouching'
  <1>1. Chaos' /\ VouchedFor'
    BY DEF Vouching, Chaos, VouchedFor
  <1>2. NumbersGiven'
    <2>1. \A q \in Members : \A r \in relays'[q] : r \in relays[q] /\ r.requester \in Members
      BY WireTypes
    <2> QED
      BY <2>1 DEF Vouching, NumbersGiven
  <1>3. Pings' /\ Acks'
    BY WireTypes DEF Vouching, Pings, Acks, OfRelay, Probing, RightCauses
  <1>4. Asks'
    BY WireTypes DEF Vouching, Asks, Probing
  <1> QED
    BY <1>1, <1>2, <1>3, <1>4 DEF Vouching

\* An entry that expires, or a probe that is cleared, vouches for nobody.
LEMMA ExpireKeeps ==
    ASSUME Vouching, NEW n \in Members, Expire(n) \/ Cleared(n)
    PROVE  Vouching'
  <1>1. relays \in [Members -> SUBSET Entries]
    BY DEF Vouching, Chaos
  <1>2. CASE Expire(n)
    <2>1. PICK r \in relays[n] : relays' = [relays EXCEPT ![n] = @ \ {r}]
      BY <1>2 DEF Expire
    <2> QED
      BY <1>1, <1>2, <2>1, LessKeeps DEF Expire
  <1>3. CASE Cleared(n)
    BY <1>1, <1>3, LessKeeps DEF Cleared
  <1> QED
    BY <1>2, <1>3

\* A ping is acknowledged at its own number.
LEMMA ReceivePingKeeps ==
    ASSUME Vouching, NEW m \in wire, ReceivePing(m)
    PROVE  Vouching'
  <1> DEFINE new == Ack(m.to, m.from, m.seq, m.cause)
  <1>1. /\ wire' \subseteq wire \cup {new}
        /\ answers' = answers \cup {m.cause}
        /\ seq' = seq /\ relays' = relays /\ probe' = probe /\ vouched' = vouched
        /\ weather' = weather
    BY DEF ReceivePing, Exchange, Carried, Vouching, Chaos
  <1>2. /\ m.seq \in Nat /\ m.from \in Members /\ m.to \in Members /\ m.cause \in Causes
        /\ m.kind = "ping"
    BY WireTypes DEF ReceivePing
  <1>3. /\ new \in Mail /\ new.kind = "ack" /\ new.to = m.from /\ new.seq = m.seq
        /\ new.cause = m.cause
    BY <1>2 DEF Ack, Mail, Numbers
  <1> HIDE DEF new
  <1>4. Chaos'
    BY <1>1, <1>3 DEF Vouching, Chaos
  <1>5. NumbersGiven' /\ Pings' /\ Asks' /\ VouchedFor'
    <2>1. NumbersGiven'
      BY <1>1 DEF Vouching, NumbersGiven
    <2>2. Pings'
      BY <1>1, <1>3 DEF Vouching, Pings, OfRelay, Probing, RightCauses
    <2>3. Asks'
      BY <1>1, <1>3 DEF Vouching, Asks, Probing
    <2> QED
      BY <1>1, <2>1, <2>2, <2>3 DEF Vouching, VouchedFor
  <1>6. Acks'
    <2> SUFFICES ASSUME NEW a \in wire', a.kind = "ack"
                 PROVE  /\ a.seq > 0 /\ a.seq <= seq[a.to] /\ a.cause \in answers'
                        /\ Probing(a, a.to) \/ OfRelay(a, a.to)
                        /\ RightCauses(a, a.to)
      BY <1>1 DEF Acks, OfRelay, Probing, RightCauses
    <2>1. CASE a \in wire
      BY <1>1, <2>1 DEF Vouching, Acks
    <2>2. CASE a = new
      BY <1>1, <1>2, <1>3, <2>2 DEF Vouching, Pings, OfRelay, Probing, RightCauses
    <2> QED
      BY <1>1, <2>1, <2>2
  <1> QED
    BY <1>4, <1>5, <1>6 DEF Vouching

\* A helper pings at a fresh number of its own and remembers whose ping it is.
LEMMA RelayKeeps ==
    ASSUME Vouching, NEW m \in wire, Relay(m)
    PROVE  Vouching'
  <1> DEFINE n == m.to
             own == seq[n] + 1
             e == [own |-> own, requester |-> m.from, seq |-> m.seq, target |-> m.target]
             new == Ping(n, m.target, own, m.cause)
  <1>1. /\ m.seq \in Nat /\ m.from \in Members /\ n \in Members /\ m.target \in Members
        /\ m.cause \in Causes /\ m.kind = "ping_req"
    BY WireTypes DEF Relay
  <1>2. NextSeq(n) = own /\ own \in Nat /\ seq[n] \in Nat
    BY <1>1, Numbering DEF Relay, Vouching
  <1>3. /\ seq' = [seq EXCEPT ![n] = own]
        /\ relays' = [relays EXCEPT ![n] = relays[n] \cup {e}]
        /\ wire' \subseteq wire \cup {new}
        /\ probe' = probe /\ answers' = answers /\ vouched' = vouched /\ weather' = weather
    BY <1>2 DEF Relay, Exchange, Carried, Vouching, Chaos
  <1>4. /\ e \in Entries /\ e.own = own /\ e.requester = m.from /\ e.seq = m.seq
    BY <1>1, <1>2 DEF Entries, Numbers
  <1>5. /\ new \in Mail /\ new.kind = "ping" /\ new.from = n /\ new.seq = own
        /\ new.cause = m.cause
    BY <1>1, <1>2 DEF Ping, Mail, Numbers
  <1>6. /\ m.seq > 0 /\ m.seq <= seq[m.from] /\ m.cause = [by |-> m.from, seq |-> m.seq]
        /\ \A s \in relays[m.from] : s.own # m.seq
    BY <1>1 DEF Vouching, Asks, Probing
  <1> HIDE DEF e, new
  <1>7. Chaos'
    BY <1>1, <1>2, <1>3, <1>4, <1>5 DEF Vouching, Chaos, Numbers
  <1>8. /\ seq'[n] = own /\ own = seq[n] + 1
        /\ \A q \in Members : q # n => seq'[q] = seq[q]
        /\ \A q \in Members : seq[q] \in Nat /\ seq'[q] \in Nat /\ seq[q] <= seq'[q]
                              /\ probe[q].seq \in Nat
    BY <1>1, <1>2, <1>3, WireTypes DEF Vouching, Chaos, Numbers
  <1> HIDE DEF own
  <1>9. /\ relays'[n] = relays[n] \cup {e}
        /\ \A q \in Members : q # n => relays'[q] = relays[q]
    BY <1>1, <1>3 DEF Vouching, Chaos
  <1>10. \A q \in Members : \A s \in relays'[q] : s \in relays[q] \/ (q = n /\ s = e)
    BY <1>9
  <1>11. NumbersGiven'
    <2> SUFFICES ASSUME NEW q \in Members, NEW r \in relays'[q]
                 PROVE  /\ r.own > 0 /\ r.own <= seq'[q] /\ r.seq <= seq'[r.requester] /\ r.seq > 0
                        /\ r.own # probe[q].seq
                        /\ \A s \in relays'[r.requester] : s.own # r.seq
      BY <1>3, <1>8 DEF Vouching, NumbersGiven
    <2>1. CASE r \in relays[q]
      BY <1>4, <1>8, <1>10, <2>1, WireTypes DEF Vouching, NumbersGiven
    <2>2. CASE q = n /\ r = e
      BY <1>1, <1>4, <1>6, <1>8, <1>10, <2>2, WireTypes DEF Vouching, NumbersGiven
    <2> QED
      BY <1>10, <2>1, <2>2
  <1>12. Pings'
    <2> SUFFICES ASSUME NEW a \in wire', a.kind = "ping"
                 PROVE  /\ a.seq > 0 /\ a.seq <= seq'[a.from]
                        /\ Probing(a, a.from) \/ OfRelay(a, a.from)
                        /\ \A r \in relays'[a.from] :
                              r.own = a.seq => a.cause = [by |-> r.requester, seq |-> r.seq]
      BY <1>3 DEF Pings, OfRelay, Probing, RightCauses
    <2>1. CASE a \in wire
      BY <1>4, <1>8, <1>10, <2>1, WireTypes DEF Vouching, Pings, RightCauses
    <2>2. CASE a = new
      BY <1>1, <1>4, <1>5, <1>6, <1>8, <1>10, <2>2, WireTypes DEF Vouching, NumbersGiven, OfRelay
    <2> QED
      BY <1>3, <2>1, <2>2
  <1>13. Asks'
    BY <1>3, <1>4, <1>5, <1>8, <1>10, WireTypes DEF Vouching, Asks, Probing
  <1>14. Acks'
    <2> SUFFICES ASSUME NEW a \in wire', a.kind = "ack"
                 PROVE  /\ a.seq > 0 /\ a.seq <= seq'[a.to] /\ a.cause \in answers
                        /\ Probing(a, a.to) \/ OfRelay(a, a.to)
                        /\ \A r \in relays'[a.to] :
                              r.own = a.seq => a.cause = [by |-> r.requester, seq |-> r.seq]
      BY <1>3 DEF Acks, OfRelay, Probing, RightCauses
    <2>1. a \in wire
      BY <1>3, <1>5
    <2> QED
      BY <1>4, <1>8, <1>10, <2>1, WireTypes DEF Vouching, Acks, RightCauses
  <1> QED
    BY <1>3, <1>7, <1>11, <1>12, <1>13, <1>14 DEF Vouching, VouchedFor

\* An acknowledgement ends the probe of its number, or goes on to whoever asked.
LEMMA AcknowledgedKeeps ==
    ASSUME Vouching, NEW m \in wire, Acknowledged(m)
    PROVE  Vouching'
  <1> DEFINE n == m.to
  <1>1. m.seq \in Nat /\ m.from \in Members /\ n \in Members /\ m.kind = "ack"
    BY WireTypes DEF Acknowledged
  <1>2. /\ m.seq > 0 /\ m.seq <= seq[n] /\ m.cause \in answers
        /\ Probing(m, n) \/ OfRelay(m, n)
        /\ RightCauses(m, n)
    BY <1>1 DEF Vouching, Acks
  <1>3. CASE EndsWait(n, m)
    <2>1. /\ vouched' = vouched \cup {[by |-> n, seq |-> probe[n].seq]}
          /\ probe' = [probe EXCEPT ![n] = NoProbe]
          /\ wire' = wire /\ relays' = relays /\ seq' = seq /\ answers' = answers
          /\ weather' = weather
      BY <1>3 DEF Acknowledged, Exchange, Carried, Vouching, Chaos
    <2>2. probe[n].seq = m.seq
      BY <1>3 DEF EndsWait
    <2>3. m.cause = [by |-> n, seq |-> probe[n].seq]
      BY <1>2, <2>2 DEF Probing, OfRelay
    <2>4. VouchedFor'
      BY <1>2, <2>1, <2>3 DEF Vouching, VouchedFor
    <2>5. \A q \in Members : probe'[q] = probe[q] \/ (probe'[q] = NoProbe /\ probe'[q].seq = 0)
      BY <2>1 DEF Vouching, Chaos, NoProbe
    <2>6. Chaos'
      BY <1>1, <2>1 DEF Vouching, Chaos
    <2>7. NumbersGiven'
      BY <2>1, <2>5, WireTypes DEF Vouching, NumbersGiven
    <2>8. Pings' /\ Acks'
      BY <2>1, <2>5, WireTypes DEF Vouching, Pings, Acks, OfRelay, Probing, RightCauses
    <2>9. Asks'
      BY <2>1 DEF Vouching, Asks, Probing
    <2> QED
      BY <2>4, <2>6, <2>7, <2>8, <2>9 DEF Vouching
  <1>4. CASE ~EndsWait(n, m)
    <2> DEFINE Told(r) == Ack(n, r.requester, r.seq, m.cause)
    <2>1. /\ relays' = [relays EXCEPT ![n] = @ \ Answered(n, m)]
          /\ \A a \in wire' : a \in wire \/ \E r \in Answered(n, m) : a = Told(r)
          /\ probe' = probe /\ seq' = seq /\ answers' = answers /\ vouched' = vouched
          /\ weather' = weather
      BY <1>4 DEF Acknowledged, Exchange, Carried, Vouching, Chaos
    <2>2. \A r \in Answered(n, m) : r \in relays[n] /\ r.own = m.seq
      BY DEF Answered
    <2>3. \A r \in Answered(n, m) :
              /\ Told(r) \in Mail /\ Told(r).kind = "ack" /\ Told(r).to = r.requester
              /\ Told(r).seq = r.seq /\ Told(r).cause = [by |-> r.requester, seq |-> r.seq]
              /\ Told(r).cause \in answers /\ r.requester \in Members
      BY <1>1, <1>2, <2>2, WireTypes DEF Ack, Mail, Numbers, RightCauses
    <2> HIDE DEF Told
    <2>4. /\ relays' \in [Members -> SUBSET Entries]
          /\ \A q \in Members : relays'[q] \subseteq relays[q]
      BY <1>1, <2>1 DEF Vouching, Chaos
    <2>5. Chaos'
      <3>1. wire' \subseteq Mail
        BY <2>1, <2>3 DEF Vouching, Chaos
      <3> QED
        BY <2>1, <2>4, <3>1 DEF Vouching, Chaos
    <2>6. NumbersGiven'
      <3>1. \A q \in Members : \A r \in relays'[q] : r \in relays[q] /\ r.requester \in Members
        BY <2>4, WireTypes
      <3> QED
        BY <2>1, <2>4, <3>1 DEF Vouching, NumbersGiven
    <2>7. Pings'
      <3> SUFFICES ASSUME NEW a \in wire', a.kind = "ping"
                   PROVE  /\ a.seq > 0 /\ a.seq <= seq[a.from]
                          /\ Probing(a, a.from) \/ OfRelay(a, a.from)
                          /\ \A s \in relays'[a.from] :
                                s.own = a.seq => a.cause = [by |-> s.requester, seq |-> s.seq]
        BY <2>1 DEF Pings, OfRelay, Probing, RightCauses
      <3>1. a \in wire
        BY <2>1, <2>3
      <3>2. a.from \in Members
        BY <3>1, WireTypes
      <3>3. relays'[a.from] \subseteq relays[a.from]
        BY <2>4, <3>2
      <3>4. /\ a.seq > 0 /\ a.seq <= seq[a.from]
            /\ Probing(a, a.from) \/ OfRelay(a, a.from)
            /\ RightCauses(a, a.from)
        BY <3>1 DEF Vouching, Pings
      <3> QED
        BY <3>3, <3>4 DEF RightCauses
    <2>8. Asks'
      <3> SUFFICES ASSUME NEW a \in wire', a.kind = "ping_req"
                   PROVE  /\ a.seq > 0 /\ a.seq <= seq[a.from] /\ Probing(a, a.from)
                          /\ \A s \in relays'[a.from] : s.own # a.seq
        BY <2>1 DEF Asks, Probing
      <3>1. a \in wire
        BY <2>1, <2>3
      <3>2. a.from \in Members
        BY <3>1, WireTypes
      <3>3. relays'[a.from] \subseteq relays[a.from]
        BY <2>4, <3>2
      <3> QED
        BY <3>1, <3>3 DEF Vouching, Asks
    <2>9. Acks'
      <3> SUFFICES ASSUME NEW a \in wire', a.kind = "ack"
                   PROVE  /\ a.seq > 0 /\ a.seq <= seq[a.to] /\ a.cause \in answers
                          /\ Probing(a, a.to) \/ OfRelay(a, a.to)
                          /\ \A s \in relays'[a.to] :
                                s.own = a.seq => a.cause = [by |-> s.requester, seq |-> s.seq]
        BY <2>1 DEF Acks, OfRelay, Probing, RightCauses
      <3>3. a.to \in Members
        <4>1. CASE a \in wire
          BY <4>1, WireTypes
        <4>2. CASE \E r \in Answered(n, m) : a = Told(r)
          BY <2>3, <4>2
        <4> QED
          BY <2>1, <4>1, <4>2
      <3>4. relays'[a.to] \subseteq relays[a.to]
        BY <2>4, <3>3
      <3>1. CASE a \in wire
        <4>1. /\ a.seq > 0 /\ a.seq <= seq[a.to] /\ a.cause \in answers
              /\ Probing(a, a.to) \/ OfRelay(a, a.to)
              /\ RightCauses(a, a.to)
          BY <3>1 DEF Vouching, Acks
        <4> QED
          BY <3>4, <4>1 DEF RightCauses
      <3>2. CASE \E r \in Answered(n, m) : a = Told(r)
        <4>1. PICK r \in Answered(n, m) : a = Told(r)
          BY <3>2
        <4>2. /\ a.to = r.requester /\ a.seq = r.seq /\ a.cause \in answers
              /\ a.cause = [by |-> r.requester, seq |-> r.seq]
          BY <2>3, <4>1
        <4>3. /\ r.seq <= seq[r.requester] /\ r.seq > 0
              /\ \A s \in relays[r.requester] : s.own # r.seq
          BY <1>1, <2>2, <4>1 DEF Vouching, NumbersGiven
        <4> QED
          BY <3>4, <4>2, <4>3 DEF Probing
      <3> QED
        BY <2>1, <3>1, <3>2
    <2> QED
      BY <2>1, <2>5, <2>6, <2>7, <2>8, <2>9 DEF Vouching, VouchedFor
  <1> QED
    BY <1>3, <1>4

\* Every step keeps Vouching.
LEMMA ChaosStep == Vouching /\ [ProbeNext]_probeVars => Vouching'
  <1> SUFFICES ASSUME Vouching, [ProbeNext]_probeVars PROVE Vouching'
    OBVIOUS
  <1>1. Probers \subseteq Members
    BY ProbeAssumption
  <1>2. CASE \E n \in Probers, t \in Members : t # n /\ ProbeRound(n, t)
    BY <1>1, <1>2, ProbeRoundKeeps
  <1>3. CASE \E n \in Probers : Escalate(n)
    BY <1>1, <1>3, EscalateKeeps
  <1>4. CASE \E n \in Members : Expire(n) \/ Cleared(n)
    BY <1>4, ExpireKeeps
  <1>5. CASE \E m \in wire : ReceivePing(m) \/ Relay(m) \/ Acknowledged(m)
    BY <1>5, ReceivePingKeeps, RelayKeeps, AcknowledgedKeeps
  <1>6. CASE UNCHANGED probeVars
    <2>1. /\ relays' = relays /\ probe' = probe /\ seq' = seq /\ wire' = wire
          /\ answers' = answers /\ vouched' = vouched /\ weather' = weather
      BY <1>6 DEF probeVars
    <2>2. relays \in [Members -> SUBSET Entries]
      BY DEF Vouching, Chaos
    <2> QED
      BY <2>1, <2>2, LessKeeps
  <1> QED
    BY <1>1, <1>2, <1>3, <1>4, <1>5, <1>6 DEF ProbeNext

\* However datagrams are lost, repeated and delayed, and whichever helpers pass
\* on whose pings, a node takes a probe for answered only if its target answered
\* a ping made for that probe, as long as no node's numbers come round.
THEOREM AnswersAreToTheProbe == ChaosSpec => []VouchedFor
  <1>1. ProbeInit /\ weather = "chaos" => Vouching
    BY ChaosInit
  <1>2. Vouching => VouchedFor
    BY DEF Vouching
  <1> QED
    BY <1>1, <1>2, ChaosStep, PTL DEF ChaosSpec

----------------------------------------------------------------------------
\* A dead link: a probe that has not been answered is on its way to be.

CutSpec == ProbeInit /\ weather = "cut" /\ [][ProbeNext]_probeVars

\* The ping itself.
PingGoes(q) ==
    \E m \in wire : /\ m.kind = "ping" /\ m.from = q /\ m.to = probe[q].target
                    /\ m.seq = probe[q].seq

\* The answer, the target's own or passed on by a helper.
AnswerComes(q) ==
    \E m \in wire : /\ m.kind = "ack" /\ m.to = q /\ m.seq = probe[q].seq
                    /\ m.from \in {probe[q].target} \cup probe[q].helpers

\* The helpers asked that reach everybody.
Able(q) == (probe[q].helpers \cap Members) \ CutLink

HelperAsked(q) ==
    \E m \in wire : /\ m.kind = "ping_req" /\ m.from = q /\ m.to \in Able(q)
                    /\ m.seq = probe[q].seq /\ m.target = probe[q].target

For(q, r) == r.requester = q /\ r.seq = probe[q].seq /\ r.target = probe[q].target

\* The ping a helper made, or its answer.
OnPath(m, h, r) ==
    /\ m.seq = r.own
    /\ \/ m.kind = "ping" /\ m.from = h /\ m.to = r.target
       \/ m.kind = "ack" /\ m.from = r.target /\ m.to = h

HelperPings(q) ==
    \E h \in Able(q) : \E r \in relays[h] : For(q, r) /\ \E m \in wire : OnPath(m, h, r)

OnItsWay(q) == PingGoes(q) \/ AnswerComes(q) \/ HelperAsked(q) \/ HelperPings(q)

\* Whose answer must come: the link is up, or helpers were asked.
Due(q) ==
    /\ probe[q] # NoProbe
    /\ probe[q].helpers # NotAsked \/ {q, probe[q].target} # CutLink

CutTypes ==
    /\ weather = "cut"
    /\ seq \in [Members -> Numbers]
    /\ probe \in [Members -> {NoProbe} \union Waits]
    /\ relays \in [Members -> SUBSET Entries]
    /\ wire \subseteq Mail
    /\ suspects \in [Members -> SUBSET Members]

Answering ==
    /\ CutTypes
    /\ \A n \in Members : \A r \in relays[n] : r.own > 0 /\ r.own # probe[n].seq
    /\ \A m \in wire : {m.from, m.to} # CutLink
    /\ \A n \in Probers : Due(n) => OnItsWay(n)
    /\ \A n \in Probers : suspects[n] = {}

\* Answering holds at the start.
LEMMA CutInit == ProbeInit /\ weather = "cut" => Answering
  <1> SUFFICES ASSUME ProbeInit, weather = "cut" PROVE Answering
    OBVIOUS
  <1>1. CutTypes
    BY DEF ProbeInit, CutTypes, Waits, Entries, Mail, Numbers, NoProbe
  <1>2. Probers \subseteq Members
    BY ProbeAssumption
  <1> QED
    BY <1>1, <1>2 DEF ProbeInit, Answering, Due

\* The numbers drawn.
LEMMA CutNumber ==
    ASSUME Answering, NEW n \in Members, MayNumber(n)
    PROVE  /\ NextSeq(n) \in Nat /\ NextSeq(n) > 0 /\ NextSeq(n) # probe[n].seq
           /\ \A r \in relays[n] : r.own # NextSeq(n)
  <1>1. NextSeq(n) \in Nat /\ NextSeq(n) > 0
    BY ProbeAssumption DEF Answering, CutTypes, NextSeq, Numbers
  <1>2. NextSeq(n) \notin InUse(n)
    BY DEF Answering, CutTypes, MayNumber
  <1> QED
    BY <1>1, <1>2 DEF InUse

\* A round starts when nothing is on its way, so nothing was waited for.
LEMMA CutRound ==
    ASSUME Answering, NEW n \in Probers, NEW t \in Members, ProbeRound(n, t)
    PROVE  Answering'
  <1> DEFINE own == NextSeq(n)
             p == [target |-> t, seq |-> own, helpers |-> NotAsked]
             new == Ping(n, t, own, [by |-> n, seq |-> own])
  <1>0. n \in Members /\ Probers \subseteq Members
    BY ProbeAssumption
  <1>1. own \in Nat /\ own > 0 /\ \A r \in relays[n] : r.own # own
    BY <1>0, CutNumber DEF ProbeRound
  <1>2. /\ seq' = [seq EXCEPT ![n] = own] /\ seq'[n] = own
        /\ wire = {} /\ probe[n].helpers # NotAsked
        /\ relays' = relays /\ weather' = weather
        /\ suspects' = [suspects EXCEPT ![n] = @ \cup ({probe[n].target} \ {0})]
    BY <1>0 DEF ProbeRound, Answering, CutTypes
  <1>3. probe' = [probe EXCEPT ![n] = p] /\ wire' = wire \cup Carried({new})
    BY <1>2 DEF ProbeRound
  <1> HIDE DEF own
  <1>4. p \in Waits /\ p.seq = own /\ p.target = t /\ p.helpers = NotAsked
    BY <1>1 DEF Waits, NotAsked, Numbers
  <1>5. /\ new \in Mail /\ new.kind = "ping" /\ new.seq = own /\ new.from = n /\ new.to = t
    BY <1>0, <1>1 DEF Mail, Ping, Causes, Numbers
  <1> HIDE DEF p, new
  <1>6. \A q \in Probers : ~OnItsWay(q)
    BY <1>2 DEF OnItsWay, PingGoes, AnswerComes, HelperAsked, HelperPings
  <1>7. \A q \in Probers : ~Due(q)
    BY <1>6 DEF Answering
  <1>8. probe[n] = NoProbe
    BY <1>2, <1>7 DEF Due
  <1>9. suspects' = suspects
    <2>1. {probe[n].target} \ {0} = {}
      BY <1>8 DEF NoProbe
    <2> QED
      BY <1>0, <1>2, <2>1 DEF Answering, CutTypes
  <1>10. wire' \subseteq {new} /\ \A m \in wire' : {m.from, m.to} # CutLink
    BY <1>2, <1>3 DEF Carried, Answering, CutTypes
  <1>11. CutTypes'
    BY <1>0, <1>1, <1>2, <1>3, <1>4, <1>5, <1>9, <1>10 DEF Answering, CutTypes, Numbers
  <1>12. probe'[n] = p /\ \A q \in Members : q # n => probe'[q] = probe[q]
    BY <1>0, <1>3 DEF Answering, CutTypes
  <1>13. \A q \in Members : \A r \in relays'[q] : r.own > 0 /\ r.own # probe'[q].seq
    BY <1>1, <1>2, <1>4, <1>12 DEF Answering
  <1>14. ASSUME NEW q \in Probers, Due(q)' PROVE OnItsWay(q)'
    <2>1. q = n
      <3>1. CASE q # n
        <4>1. probe'[q] = probe[q]
          BY <1>0, <1>12, <3>1
        <4>2. Due(q)
          BY <1>14, <4>1 DEF Due
        <4> QED
          BY <1>7, <4>2
      <3> QED
        BY <3>1
    <2>2. {n, t} # CutLink
      BY <1>4, <1>12, <1>14, <2>1 DEF Due
    <2>3. new \in wire'
      BY <1>3, <1>5, <2>2 DEF Carried
    <2>4. PingGoes(q)'
      BY <1>4, <1>5, <1>12, <2>1, <2>3 DEF PingGoes
    <2> QED
      BY <2>4 DEF OnItsWay
  <1>15. \A q \in Probers : suspects'[q] = {}
    BY <1>9 DEF Answering
  <1> QED
    BY <1>10, <1>11, <1>13, <1>14, <1>15 DEF Answering

\* What is where, of the right type.
LEMMA CutFacts ==
    ASSUME Answering
    PROVE  /\ \A m \in wire : /\ m.seq \in Nat /\ m.from \in Members /\ m.to \in Members
                              /\ m.target \in Members /\ m.cause \in Causes
                              /\ {m.from, m.to} # CutLink
           /\ \A q \in Members : \A r \in relays[q] :
                 r.own \in Nat /\ r.seq \in Nat /\ r.requester \in Members /\ r.target \in Members
           /\ Probers \subseteq Members
  BY ProbeAssumption DEF Answering, CutTypes, Mail, Entries, Numbers

\* There is somebody else to ask.
HelpToHand == IndirectProbes >= 1 /\ \A n, t \in Members : Members \ {n, t} # {}

\* Helpers are asked, and one of two nodes that do not reach each other asks a third.
LEMMA CutEscalate ==
    ASSUME HelpToHand, Answering, NEW n \in Probers, Escalate(n)
    PROVE  Answering'
  <1> DEFINE w == probe[n]
             Ask(h) == [kind |-> "ping_req", from |-> n, to |-> h, seq |-> w.seq,
                        target |-> w.target, cause |-> [by |-> n, seq |-> w.seq]]
             able == Members \ ({n, w.target} \cup suspects[n])
  <1>0. n \in Members /\ Probers \subseteq Members
    BY ProbeAssumption
  <1>1. PICK helpers \in Helpers(n) :
            /\ probe' = [probe EXCEPT ![n].helpers = helpers]
            /\ wire' = wire \cup Carried({[kind |-> "ping_req", from |-> n, to |-> h,
                                           seq |-> probe[n].seq, target |-> probe[n].target,
                                           cause |-> [by |-> n, seq |-> probe[n].seq]] : h \in helpers})
    BY DEF Escalate
  <1>2. /\ seq' = seq /\ relays' = relays /\ suspects' = suspects /\ weather' = weather
        /\ weather = "cut" /\ probe[n].helpers = NotAsked
    BY DEF Escalate, Answering, CutTypes
  <1>3. w \in Waits /\ w # NoProbe /\ probe \in [Members -> {NoProbe} \union Waits]
    <2>1. probe \in [Members -> {NoProbe} \union Waits]
      BY DEF Answering, CutTypes
    <2>2. w.helpers = {0}
      BY <1>2 DEF NotAsked
    <2>3. NoProbe.helpers = {}
      BY DEF NoProbe
    <2>4. w # NoProbe
      BY <2>2, <2>3
    <2> QED
      BY <1>0, <2>1, <2>4
  <1>4. w.seq \in Nat /\ w.target \in Members
    BY <1>3 DEF Waits, Numbers
  <1>5. helpers \subseteq able /\ helpers # {} /\ able \subseteq Members
        /\ \A h \in helpers : h \in Members /\ h # n /\ h # w.target
    <2>1. suspects[n] = {}
      BY DEF Answering
    <2>2. able # {} /\ able \subseteq Members
      BY <1>0, <1>4, <2>1 DEF HelpToHand
    <2>3. helpers \in kSubset(Min({IndirectProbes, Cardinality(able)}), able)
      BY DEF Helpers
    <2> HIDE DEF able
    <2>4. IsFiniteSet(able)
      BY <2>2, ProbeAssumption, FS_Subset
    <2>5. Cardinality(able) \in Nat /\ Cardinality(able) # 0
      BY <2>2, <2>4, FS_CardinalityType, FS_EmptySet
    <2>6. PICK k : k = Min({IndirectProbes, Cardinality(able)}) /\ k \in {IndirectProbes, Cardinality(able)}
      BY <2>5, ProbeAssumption, MinOfTwo
    <2>7. k # 0
      BY <2>5, <2>6, ProbeAssumption DEF HelpToHand
    <2>8. helpers \subseteq able /\ Cardinality(helpers) = k
      BY <2>3, <2>6 DEF kSubset
    <2>9. helpers # {}
      BY <2>7, <2>8, FS_EmptySet
    <2>10. able \subseteq Members /\ \A h \in able : h # n /\ h # w.target
      BY DEF able
    <2> QED
      BY <2>8, <2>9, <2>10
  <1> DEFINE p == [w EXCEPT !.helpers = helpers]
  <1>6. p \in Waits /\ p.seq = w.seq /\ p.target = w.target /\ p.helpers = helpers
    BY <1>3, <1>4, <1>5 DEF Waits, Numbers
  <1>7. probe' = [probe EXCEPT ![n] = p]
    BY <1>1
  <1>8. \A h \in helpers : /\ Ask(h) \in Mail /\ Ask(h).kind = "ping_req" /\ Ask(h).from = n
                           /\ Ask(h).to = h /\ Ask(h).seq = w.seq /\ Ask(h).target = w.target
    BY <1>0, <1>4, <1>5 DEF Mail, Causes, Numbers
  <1>9. /\ \A a \in wire' : a \in wire \/ \E h \in helpers : a = Ask(h)
        /\ wire \subseteq wire'
        /\ \A a \in wire' : {a.from, a.to} # CutLink
        /\ \A h \in helpers : {n, h} # CutLink => Ask(h) \in wire'
    <2>1. wire' = wire \cup Carried({Ask(h) : h \in helpers})
      BY <1>1
    <2>2. Carried({Ask(h) : h \in helpers}) =
             {a \in {Ask(h) : h \in helpers} : {a.from, a.to} # CutLink}
      BY <1>2 DEF Carried
    <2> HIDE DEF Ask
    <2>3. \A a \in wire' : {a.from, a.to} # CutLink
      BY <2>1, <2>2, CutFacts
    <2>4. ASSUME NEW h \in helpers, {n, h} # CutLink PROVE Ask(h) \in wire'
      <3>1. Ask(h) \in {Ask(x) : x \in helpers} /\ {Ask(h).from, Ask(h).to} # CutLink
        BY <1>8, <2>4
      <3> QED
        BY <2>1, <2>2, <3>1
    <2> QED
      BY <2>1, <2>2, <2>3, <2>4
  <1> HIDE DEF p, Ask, able, w
  <1>10. CutTypes'
    <2>1. probe' \in [Members -> {NoProbe} \union Waits]
      BY <1>3, <1>6, <1>7
    <2>2. wire' \subseteq Mail
      BY <1>8, <1>9 DEF Answering, CutTypes
    <2> QED
      BY <1>2, <2>1, <2>2 DEF CutTypes, Answering
  <1>11. probe'[n] = p /\ \A q \in Members : q # n => probe'[q] = probe[q]
    BY <1>0, <1>3, <1>7
  <1>12. \A q \in Members : \A r \in relays'[q] : r.own > 0 /\ r.own # probe'[q].seq
    BY <1>2, <1>6, <1>11 DEF Answering, w
  <1>13. ASSUME NEW q \in Probers, Due(q)' PROVE OnItsWay(q)'
    <2>1. CASE q # n
      <3>1. probe'[q] = probe[q]
        BY <1>0, <1>11, <2>1
      <3>2. OnItsWay(q)
        BY <1>13, <3>1 DEF Due, Answering
      <3>3. CASE PingGoes(q)
        BY <1>9, <3>1, <3>3 DEF PingGoes, OnItsWay
      <3>4. CASE AnswerComes(q)
        BY <1>9, <3>1, <3>4 DEF AnswerComes, OnItsWay
      <3>5. CASE HelperAsked(q)
        BY <1>9, <3>1, <3>5 DEF HelperAsked, Able, OnItsWay
      <3>6. CASE HelperPings(q)
        BY <1>2, <1>9, <3>1, <3>6 DEF HelperPings, Able, For, OnItsWay
      <3> QED
        BY <3>2, <3>3, <3>4, <3>5, <3>6 DEF OnItsWay
    <2>2. CASE q = n /\ {n, w.target} = CutLink
      <3>1. PICK h \in helpers : TRUE
        BY <1>5
      <3>2. h \in Members /\ h \notin CutLink /\ {n, h} # CutLink
        BY <1>5, <2>2, <3>1
      <3>3. Ask(h) \in wire'
        BY <1>9, <3>2
      <3>4. h \in Able(q)'
        BY <1>6, <1>11, <2>2, <3>2 DEF Able
      <3>5. HelperAsked(q)'
        BY <1>6, <1>8, <1>11, <2>2, <3>3, <3>4 DEF HelperAsked
      <3> QED
        BY <3>5 DEF OnItsWay
    <2>3. CASE q = n /\ {n, w.target} # CutLink
      <3>1. OnItsWay(n)
        BY <1>3, <2>3 DEF Due, Answering, w
      <3>2. Able(n) = {}
        BY <1>2, ProbeAssumption DEF Able, NotAsked
      <3>3. CASE PingGoes(n)
        BY <1>6, <1>9, <1>11, <2>3, <3>3 DEF PingGoes, OnItsWay, w
      <3>4. CASE AnswerComes(n)
        <4>1. PICK m \in wire : /\ m.kind = "ack" /\ m.to = n /\ m.seq = w.seq
                                /\ m.from \in {w.target} \cup {0}
          BY <1>2, <3>4 DEF AnswerComes, NotAsked, w
        <4>2. m.from = w.target
          BY <4>1, CutFacts, ProbeAssumption
        <4>3. m \in wire' /\ m.from \in {p.target} \cup p.helpers
          BY <1>6, <1>9, <4>2
        <4> QED
          BY <1>6, <1>11, <2>3, <4>1, <4>3 DEF AnswerComes, OnItsWay
      <3> QED
        BY <3>1, <3>2, <3>3, <3>4 DEF OnItsWay, HelperAsked, HelperPings
    <2> QED
      BY <2>1, <2>2, <2>3
  <1> QED
    BY <1>2, <1>9, <1>10, <1>12, <1>13 DEF Answering

\* The target answers, over the link the ping came by.
LEMMA CutReceivePing ==
    ASSUME Answering, NEW m \in wire, ReceivePing(m)
    PROVE  Answering'
  <1> DEFINE new == Ack(m.to, m.from, m.seq, m.cause)
  <1>1. /\ m.seq \in Nat /\ m.from \in Members /\ m.to \in Members /\ m.cause \in Causes
        /\ m.kind = "ping" /\ {m.from, m.to} # CutLink /\ Probers \subseteq Members
    BY CutFacts DEF ReceivePing
  <1>2. /\ new \in Mail /\ new.kind = "ack" /\ new.from = m.to /\ new.to = m.from
        /\ new.seq = m.seq
    BY <1>1 DEF Ack, Mail, Numbers
  <1>3. /\ wire' = (wire \ {m}) \cup Carried({new})
        /\ seq' = seq /\ relays' = relays /\ probe' = probe /\ suspects' = suspects
        /\ weather' = weather /\ weather = "cut"
    BY DEF ReceivePing, Exchange, Answering, CutTypes
  <1> HIDE DEF new
  <1>4. {new.from, new.to} # CutLink
    BY <1>1, <1>2
  <1>5. wire' = (wire \ {m}) \cup {new}
    BY <1>3, <1>4 DEF Carried
  <1>6. CutTypes'
    BY <1>2, <1>3, <1>5 DEF Answering, CutTypes
  <1>7. \A a \in wire' : {a.from, a.to} # CutLink
    BY <1>4, <1>5, CutFacts
  <1>8. ASSUME NEW q \in Probers, Due(q)' PROVE OnItsWay(q)'
    <2>1. OnItsWay(q)
      BY <1>3, <1>8 DEF Due, Answering
    <2>2. CASE PingGoes(q)
      <3>1. PICK a \in wire : /\ a.kind = "ping" /\ a.from = q /\ a.to = probe[q].target
                              /\ a.seq = probe[q].seq
        BY <2>2 DEF PingGoes
      <3>2. CASE a = m
        <4>1. AnswerComes(q)'
          BY <1>2, <1>3, <1>5, <3>1, <3>2 DEF AnswerComes
        <4> QED
          BY <4>1 DEF OnItsWay
      <3>3. CASE a # m
        BY <1>3, <1>5, <3>1, <3>3 DEF PingGoes, OnItsWay
      <3> QED
        BY <3>2, <3>3
    <2>3. CASE AnswerComes(q)
      BY <1>1, <1>3, <1>5, <2>3 DEF AnswerComes, OnItsWay
    <2>4. CASE HelperAsked(q)
      BY <1>1, <1>3, <1>5, <2>4 DEF HelperAsked, Able, OnItsWay
    <2>5. CASE HelperPings(q)
      <3>1. PICK h \in Able(q) : \E r \in relays[h] : For(q, r) /\ \E a \in wire : OnPath(a, h, r)
        BY <2>5 DEF HelperPings
      <3>2. PICK r \in relays[h] : For(q, r) /\ \E a \in wire : OnPath(a, h, r)
        BY <3>1
      <3>3. PICK a \in wire : OnPath(a, h, r)
        BY <3>2
      <3>4. \E b \in wire' : OnPath(b, h, r)
        <4>1. CASE a = m
          BY <1>1, <1>2, <1>5, <3>3, <4>1 DEF OnPath
        <4>2. CASE a # m
          BY <1>5, <3>3, <4>2
        <4> QED
          BY <4>1, <4>2
      <3>5. HelperPings(q)'
        BY <1>3, <3>1, <3>2, <3>4 DEF HelperPings, Able, For
      <3> QED
        BY <3>5 DEF OnItsWay
    <2> QED
      BY <2>1, <2>2, <2>3, <2>4, <2>5 DEF OnItsWay
  <1> QED
    BY <1>3, <1>6, <1>7, <1>8 DEF Answering

\* A helper that reaches everybody passes the ping on, under a number of its own.
LEMMA CutRelay ==
    ASSUME Answering, NEW m \in wire, Relay(m)
    PROVE  Answering'
  <1> DEFINE n == m.to
             own == NextSeq(n)
             e == [own |-> own, requester |-> m.from, seq |-> m.seq, target |-> m.target]
             new == Ping(n, m.target, own, m.cause)
  <1>1. /\ m.seq \in Nat /\ m.from \in Members /\ n \in Members /\ m.target \in Members
        /\ m.cause \in Causes /\ m.kind = "ping_req" /\ Probers \subseteq Members
    BY CutFacts DEF Relay
  <1>2. own \in Nat /\ own > 0 /\ own # probe[n].seq
    BY <1>1, CutNumber DEF Relay
  <1>3. /\ seq' = [seq EXCEPT ![n] = own]
        /\ relays' = [relays EXCEPT ![n] = relays[n] \cup {e}]
        /\ wire' = (wire \ {m}) \cup Carried({new})
        /\ probe' = probe /\ suspects' = suspects /\ weather' = weather /\ weather = "cut"
    BY <1>1 DEF Relay, Exchange, Answering, CutTypes
  <1>4. /\ e \in Entries /\ e.own = own /\ e.requester = m.from /\ e.seq = m.seq
        /\ e.target = m.target
    BY <1>1, <1>2 DEF Entries, Numbers
  <1>5. /\ new \in Mail /\ new.kind = "ping" /\ new.from = n /\ new.seq = own
        /\ new.to = m.target
    BY <1>1, <1>2 DEF Ping, Mail, Numbers
  <1> HIDE DEF own, e, new
  <1>6. /\ wire' \subseteq (wire \ {m}) \cup {new} /\ wire \ {m} \subseteq wire'
        /\ {n, m.target} # CutLink => new \in wire'
        /\ \A a \in wire' : {a.from, a.to} # CutLink
    BY <1>3, <1>5, CutFacts DEF Carried
  <1>7. CutTypes'
    BY <1>1, <1>2, <1>3, <1>4, <1>5, <1>6 DEF Answering, CutTypes, Numbers
  <1>8. /\ relays'[n] = relays[n] \cup {e}
        /\ \A q \in Members : q # n => relays'[q] = relays[q]
    BY <1>1, <1>3 DEF Answering, CutTypes
  <1>9. \A q \in Members : relays[q] \subseteq relays'[q]
    BY <1>8
  <1>10. \A q \in Members : \A r \in relays'[q] : r.own > 0 /\ r.own # probe'[q].seq
    BY <1>2, <1>3, <1>4, <1>8 DEF Answering
  <1>11. ASSUME NEW q \in Probers, Due(q)' PROVE OnItsWay(q)'
    <2>1. OnItsWay(q)
      BY <1>3, <1>11 DEF Due, Answering
    <2>2. CASE PingGoes(q)
      BY <1>1, <1>3, <1>6, <2>2 DEF PingGoes, OnItsWay
    <2>3. CASE AnswerComes(q)
      BY <1>1, <1>3, <1>6, <2>3 DEF AnswerComes, OnItsWay
    <2>4. CASE HelperAsked(q)
      <3>1. PICK a \in wire : /\ a.kind = "ping_req" /\ a.from = q /\ a.to \in Able(q)
                              /\ a.seq = probe[q].seq /\ a.target = probe[q].target
        BY <2>4 DEF HelperAsked
      <3>2. CASE a = m
        <4>1. n \in Able(q) /\ {n, m.target} # CutLink
          BY <3>1, <3>2 DEF Able
        <4>2. For(q, e) /\ OnPath(new, n, e) /\ new \in wire' /\ e \in relays'[n]
          BY <1>4, <1>5, <1>6, <1>8, <3>1, <3>2, <4>1 DEF For, OnPath
        <4>3. HelperPings(q)'
          BY <1>3, <4>1, <4>2 DEF HelperPings, Able, For
        <4> QED
          BY <4>3 DEF OnItsWay
      <3>3. CASE a # m
        BY <1>3, <1>6, <3>1, <3>3 DEF HelperAsked, Able, OnItsWay
      <3> QED
        BY <3>2, <3>3
    <2>5. CASE HelperPings(q)
      <3>1. PICK h \in Able(q) : \E r \in relays[h] : For(q, r) /\ \E a \in wire : OnPath(a, h, r)
        BY <2>5 DEF HelperPings
      <3>2. PICK r \in relays[h] : For(q, r) /\ \E a \in wire : OnPath(a, h, r)
        BY <3>1
      <3>3. PICK a \in wire : OnPath(a, h, r)
        BY <3>2
      <3>4. a \in wire' /\ r \in relays'[h]
        <4>1. a.kind # "ping_req" /\ h \in Members
          BY <3>1, <3>3 DEF OnPath, Able
        <4> QED
          BY <1>1, <1>6, <1>9, <4>1
      <3>5. HelperPings(q)'
        BY <1>3, <3>1, <3>2, <3>3, <3>4 DEF HelperPings, Able, For
      <3> QED
        BY <3>5 DEF OnItsWay
    <2> QED
      BY <2>1, <2>2, <2>3, <2>4, <2>5 DEF OnItsWay
  <1>12. \A q \in Probers : suspects'[q] = {}
    BY <1>3 DEF Answering
  <1> QED
    BY <1>6, <1>7, <1>10, <1>11, <1>12 DEF Answering

\* An answer ends the wait it is for, or goes to whoever asked.
LEMMA CutAcknowledged ==
    ASSUME Answering, NEW m \in wire, Acknowledged(m)
    PROVE  Answering'
  <1> DEFINE n == m.to
  <1>1. /\ m.seq \in Nat /\ m.from \in Members /\ n \in Members /\ m.kind = "ack"
        /\ m.cause \in Causes /\ Probers \subseteq Members
    BY CutFacts DEF Acknowledged
  <1>2. /\ seq' = seq /\ suspects' = suspects /\ weather' = weather /\ weather = "cut"
    BY DEF Acknowledged, Answering, CutTypes
  <1>3. CASE EndsWait(n, m)
    <2>1. /\ probe' = [probe EXCEPT ![n] = NoProbe]
          /\ wire' = wire \ {m} /\ relays' = relays
      BY <1>2, <1>3 DEF Acknowledged, Exchange, Carried
    <2>2. CutTypes'
      BY <1>1, <1>2, <2>1 DEF Answering, CutTypes
    <2>3. probe'[n] = NoProbe /\ \A q \in Members : q # n => probe'[q] = probe[q]
      BY <1>1, <2>1 DEF Answering, CutTypes
    <2>4. \A q \in Members : \A r \in relays'[q] : r.own > 0 /\ r.own # probe'[q].seq
      <3>1. ASSUME NEW r \in relays[n] PROVE r.own # 0
        BY <1>1, CutFacts DEF Answering
      <3> QED
        BY <2>1, <2>3, <3>1 DEF Answering, NoProbe
    <2>5. ASSUME NEW q \in Probers, Due(q)' PROVE OnItsWay(q)'
      <3>1. q # n
        BY <2>3, <2>5 DEF Due
      <3>2. probe'[q] = probe[q] /\ q \in Members
        BY <1>1, <2>3, <3>1
      <3>3. OnItsWay(q)
        BY <2>5, <3>2 DEF Due, Answering
      <3>4. CASE PingGoes(q)
        BY <1>1, <2>1, <3>2, <3>4 DEF PingGoes, OnItsWay
      <3>5. CASE AnswerComes(q)
        BY <2>1, <3>1, <3>2, <3>5 DEF AnswerComes, OnItsWay
      <3>6. CASE HelperAsked(q)
        BY <1>1, <2>1, <3>2, <3>6 DEF HelperAsked, Able, OnItsWay
      <3>7. CASE HelperPings(q)
        <4>1. PICK h \in Able(q) : \E r \in relays[h] : For(q, r) /\ \E a \in wire : OnPath(a, h, r)
          BY <3>7 DEF HelperPings
        <4>2. PICK r \in relays[h] : For(q, r) /\ \E a \in wire : OnPath(a, h, r)
          BY <4>1
        <4>3. PICK a \in wire : OnPath(a, h, r)
          BY <4>2
        <4>4. a # m
          <5> SUFFICES ASSUME a = m PROVE FALSE
            OBVIOUS
          <5>1. h = n /\ m.seq = r.own
            BY <1>1, <4>3 DEF OnPath
          <5>2. r.own > 0 /\ r.own # probe[n].seq
            BY <1>1, <4>2, <5>1 DEF Answering
          <5> QED
            BY <1>3, <5>1, <5>2 DEF EndsWait
        <4>5. HelperPings(q)'
          BY <2>1, <3>2, <4>1, <4>2, <4>3, <4>4 DEF HelperPings, Able, For
        <4> QED
          BY <4>5 DEF OnItsWay
      <3> QED
        BY <3>3, <3>4, <3>5, <3>6, <3>7 DEF OnItsWay
    <2>6. (\A a \in wire' : {a.from, a.to} # CutLink) /\ \A q \in Probers : suspects'[q] = {}
      BY <1>2, <2>1 DEF Answering
    <2> QED
      BY <2>2, <2>4, <2>5, <2>6 DEF Answering
  <1>4. CASE ~EndsWait(n, m)
    <2> DEFINE Tells(r) == Ack(n, r.requester, r.seq, m.cause)
    <2>1. /\ relays' = [relays EXCEPT ![n] = @ \ Answered(n, m)] /\ probe' = probe
          /\ wire' = (wire \ {m}) \cup Carried({Tells(r) : r \in Answered(n, m)})
      BY <1>2, <1>4 DEF Acknowledged, Exchange
    <2>2. \A r \in Answered(n, m) : r \in relays[n] /\ r.own = m.seq /\ r.target = m.from
                                    /\ r.requester \in Members /\ r.seq \in Nat
      BY <1>1, CutFacts DEF Answered
    <2>3. \A r \in Answered(n, m) :
              /\ Tells(r) \in Mail /\ Tells(r).kind = "ack" /\ Tells(r).to = r.requester
              /\ Tells(r).from = n /\ Tells(r).seq = r.seq
      BY <1>1, <2>2 DEF Ack, Mail, Numbers
    <2>4. /\ \A a \in wire' : a \in wire \/ \E r \in Answered(n, m) : a = Tells(r)
          /\ wire \ {m} \subseteq wire'
          /\ \A a \in wire' : {a.from, a.to} # CutLink
          /\ \A r \in Answered(n, m) : {n, r.requester} # CutLink => Tells(r) \in wire'
      <3>1. Carried({Tells(r) : r \in Answered(n, m)}) =
              {a \in {Tells(r) : r \in Answered(n, m)} : {a.from, a.to} # CutLink}
        BY <1>2 DEF Carried
      <3> HIDE DEF Tells
      <3>2. \A a \in wire' : {a.from, a.to} # CutLink
        BY <2>1, <3>1, CutFacts
      <3>3. ASSUME NEW r \in Answered(n, m), {n, r.requester} # CutLink PROVE Tells(r) \in wire'
        <4>1. Tells(r) \in {Tells(x) : x \in Answered(n, m)} /\ {Tells(r).from, Tells(r).to} # CutLink
          BY <2>3, <3>3
        <4> QED
          BY <2>1, <3>1, <4>1
      <3> QED
        BY <2>1, <3>1, <3>2, <3>3
    <2> HIDE DEF Tells
    <2>5. /\ relays' \in [Members -> SUBSET Entries]
          /\ relays'[n] = relays[n] \ Answered(n, m)
          /\ \A q \in Members : q # n => relays'[q] = relays[q]
      BY <1>1, <2>1 DEF Answering, CutTypes
    <2>6. CutTypes'
      <3>1. wire' \subseteq Mail
        BY <2>3, <2>4 DEF Answering, CutTypes
      <3> QED
        BY <1>2, <2>1, <2>5, <3>1 DEF Answering, CutTypes
    <2>7. \A q \in Members : \A r \in relays'[q] : r.own > 0 /\ r.own # probe'[q].seq
      BY <2>1, <2>5 DEF Answering
    <2>8. ASSUME NEW q \in Probers, Due(q)' PROVE OnItsWay(q)'
      <3>1. Due(q)
        BY <2>1, <2>8 DEF Due
      <3>2. OnItsWay(q)
        BY <3>1 DEF Answering
      <3>3. CASE PingGoes(q)
        BY <1>1, <2>1, <2>4, <3>3 DEF PingGoes, OnItsWay
      <3>4. CASE AnswerComes(q)
        <4>1. PICK a \in wire : /\ a.kind = "ack" /\ a.to = q /\ a.seq = probe[q].seq
                                /\ a.from \in {probe[q].target} \cup probe[q].helpers
          BY <3>4 DEF AnswerComes
        <4>2. a # m
          BY <1>4, <3>1, <4>1 DEF EndsWait, Due
        <4> QED
          BY <2>1, <2>4, <4>1, <4>2 DEF AnswerComes, OnItsWay
      <3>5. CASE HelperAsked(q)
        BY <1>1, <2>1, <2>4, <3>5 DEF HelperAsked, Able, OnItsWay
      <3>6. CASE HelperPings(q)
        <4>1. PICK h \in Able(q) : \E r \in relays[h] : For(q, r) /\ \E a \in wire : OnPath(a, h, r)
          BY <3>6 DEF HelperPings
        <4>2. PICK r \in relays[h] : For(q, r) /\ \E a \in wire : OnPath(a, h, r)
          BY <4>1
        <4>3. PICK a \in wire : OnPath(a, h, r)
          BY <4>2
        <4>4. h \in Members /\ h \notin CutLink /\ h \in probe[q].helpers
          BY <4>1 DEF Able
        <4>5. CASE h = n /\ r \in Answered(n, m)
          <5>1. {n, r.requester} # CutLink /\ r.requester = q /\ r.seq = probe[q].seq
            BY <4>2, <4>4, <4>5 DEF For
          <5>2. Tells(r) \in wire'
            BY <2>4, <4>5, <5>1
          <5>3. AnswerComes(q)'
            BY <2>1, <2>3, <4>4, <4>5, <5>1, <5>2 DEF AnswerComes
          <5> QED
            BY <5>3 DEF OnItsWay
        <4>6. CASE ~(h = n /\ r \in Answered(n, m))
          <5>1. r \in relays'[h]
            BY <2>5, <4>2, <4>4, <4>6
          <5>2. a # m
            BY <1>1, <4>2, <4>3, <4>6 DEF OnPath, Answered
          <5>3. HelperPings(q)'
            BY <2>1, <2>4, <4>1, <4>2, <4>3, <5>1, <5>2 DEF HelperPings, Able, For
          <5> QED
            BY <5>3 DEF OnItsWay
        <4> QED
          BY <4>5, <4>6
      <3> QED
        BY <3>2, <3>3, <3>4, <3>5, <3>6 DEF OnItsWay
    <2>9. \A q \in Probers : suspects'[q] = {}
      BY <1>2 DEF Answering
    <2> QED
      BY <2>4, <2>6, <2>7, <2>8, <2>9 DEF Answering
  <1> QED
    BY <1>3, <1>4

\* A relay is forgotten only when its requester no longer waits for it.
LEMMA CutExpire ==
    ASSUME Answering, NEW n \in Members, Expire(n)
    PROVE  Answering'
  <1>1. PICK x \in relays[n] : /\ probe[x.requester].seq # x.seq
                               /\ relays' = [relays EXCEPT ![n] = @ \ {x}]
                               /\ UNCHANGED <<weather, seq, probe, wire, suspects>>
    BY DEF Expire
  <1>2. /\ relays' \in [Members -> SUBSET Entries] /\ relays'[n] = relays[n] \ {x}
        /\ \A q \in Members : q # n => relays'[q] = relays[q]
    BY <1>1 DEF Answering, CutTypes
  <1>3. CutTypes'
    BY <1>1, <1>2 DEF Answering, CutTypes
  <1>4. \A q \in Members : \A r \in relays'[q] : r.own > 0 /\ r.own # probe'[q].seq
    BY <1>1, <1>2 DEF Answering
  <1>5. ASSUME NEW q \in Probers, Due(q)' PROVE OnItsWay(q)'
    <2>1. OnItsWay(q)
      BY <1>1, <1>5 DEF Due, Answering
    <2>2. CASE PingGoes(q)
      BY <1>1, <2>2 DEF PingGoes, OnItsWay
    <2>3. CASE AnswerComes(q)
      BY <1>1, <2>3 DEF AnswerComes, OnItsWay
    <2>4. CASE HelperAsked(q)
      BY <1>1, <2>4 DEF HelperAsked, Able, OnItsWay
    <2>5. CASE HelperPings(q)
      <3>1. PICK h \in Able(q) : \E r \in relays[h] : For(q, r) /\ \E a \in wire : OnPath(a, h, r)
        BY <2>5 DEF HelperPings
      <3>2. PICK r \in relays[h] : For(q, r) /\ \E a \in wire : OnPath(a, h, r)
        BY <3>1
      <3>3. h \in Members /\ r # x
        BY <1>1, <3>1, <3>2 DEF Able, For
      <3>4. r \in relays'[h]
        BY <1>2, <3>2, <3>3
      <3>5. HelperPings(q)'
        BY <1>1, <3>1, <3>2, <3>4 DEF HelperPings, Able, For, OnPath
      <3> QED
        BY <3>5 DEF OnItsWay
    <2> QED
      BY <2>1, <2>2, <2>3, <2>4, <2>5 DEF OnItsWay
  <1> QED
    BY <1>1, <1>3, <1>4, <1>5 DEF Answering

\* Every step keeps Answering.
LEMMA CutStep == HelpToHand /\ Answering /\ [ProbeNext]_probeVars => Answering'
  <1> SUFFICES ASSUME HelpToHand, Answering, [ProbeNext]_probeVars PROVE Answering'
    OBVIOUS
  <1>1. CASE \E n \in Probers, t \in Members : t # n /\ ProbeRound(n, t)
    BY <1>1, CutRound
  <1>2. CASE \E n \in Probers : Escalate(n)
    BY <1>2, CutEscalate
  <1>3. CASE \E n \in Probers : Cleared(n)
    BY <1>3 DEF Cleared, Answering
  <1>4. CASE \E n \in Members : Expire(n)
    BY <1>4, CutExpire
  <1>5. CASE \E m \in wire : ReceivePing(m) \/ Relay(m) \/ Acknowledged(m)
    BY <1>5, CutReceivePing, CutRelay, CutAcknowledged
  <1>6. CASE UNCHANGED probeVars
    BY <1>6 DEF probeVars, Answering, CutTypes, Due, OnItsWay, PingGoes, AnswerComes,
                HelperAsked, HelperPings, Able, For, OnPath
  <1> QED
    BY <1>1, <1>2, <1>3, <1>4, <1>5, <1>6 DEF ProbeNext

\* While only the link between two nodes is dead, nobody suspects anybody, whatever
\* the number of nodes, whichever other members are asked to help and in whatever
\* order pings, relays and answers are handled: each probe not yet answered is on
\* its way to be.
THEOREM NobodyIsSuspected ==
    ASSUME HelpToHand
    PROVE  CutSpec => []LinkFaultTolerated
  <1>1. ProbeInit /\ weather = "cut" => Answering
    BY CutInit
  <1>2. Answering /\ [ProbeNext]_probeVars => Answering'
    BY CutStep
  <1>3. Answering => LinkFaultTolerated
    BY DEF Answering, LinkFaultTolerated
  <1> QED
    BY <1>1, <1>2, <1>3, PTL DEF CutSpec

----------------------------------------------------------------------------
\* What following one change makes of the peers.
Follow(who, c) == IF c.joined THEN who \cup {c.peer} ELSE who \ {c.peer}

\* f counts the peers through the first n changes.
Follows(f, who, news, n) ==
    /\ f = [i \in 0 .. n |-> f[i]]
    /\ f[0] = who
    /\ \A i \in 1 .. n : f[i] = Follow(f[i - 1], news[i])

\* The peers after each change exist, however many changes there are.
LEMMA FollowsExists ==
    ASSUME NEW who, NEW news
    PROVE  \A n \in Nat : \E f : Follows(f, who, news, n)
  <1> DEFINE S == {n \in Nat : \E f : Follows(f, who, news, n)}
  <1>1. 0 \in S
    <2> DEFINE f == [i \in 0 .. 0 |-> who]
    <2>1. Follows(f, who, news, 0)
      BY DEF Follows
    <2> QED
      BY <2>1
  <1>2. ASSUME NEW n \in Nat, n \in S PROVE n + 1 \in S
    <2>1. PICK f : Follows(f, who, news, n)
      BY <1>2
    <2> DEFINE g == [i \in 0 .. n + 1 |-> IF i = n + 1 THEN Follow(f[n], news[n + 1]) ELSE f[i]]
    <2>2. g[0] = who
      BY <2>1 DEF Follows
    <2>3. ASSUME NEW i \in 1 .. n + 1 PROVE g[i] = Follow(g[i - 1], news[i])
      <3>1. g[i - 1] = f[i - 1]
        OBVIOUS
      <3>2. CASE i = n + 1
        BY <3>1, <3>2
      <3>3. CASE i \in 1 .. n
        <4>1. g[i] = f[i]
          BY <3>3
        <4>2. f[i] = Follow(f[i - 1], news[i])
          BY <2>1, <3>3 DEF Follows
        <4> QED
          BY <3>1, <4>1, <4>2
      <3> QED
        BY <3>2, <3>3
    <2>4. g = [i \in 0 .. n + 1 |-> g[i]]
      OBVIOUS
    <2> HIDE DEF g
    <2>5. Follows(g, who, news, n + 1)
      BY <2>2, <2>3, <2>4 DEF Follows
    <2> QED
      BY <2>5
  <1> HIDE DEF S
  <1>3. Nat \subseteq S
    BY <1>1, <1>2, OneByOne
  <1> QED
    BY <1>3 DEF S

\* Two logs that agree up to a change agree on the peers up to it.
LEMMA FollowsAgree ==
    ASSUME NEW who, NEW news, NEW other, NEW n \in Nat, NEW m \in Nat, n <= m,
           NEW f, Follows(f, who, news, n), NEW g, Follows(g, who, other, m),
           \A i \in 1 .. n : news[i] = other[i]
    PROVE  f[n] = g[n]
  <1> DEFINE S == {k \in Nat : k <= n => f[k] = g[k]}
  <1>1. 0 \in S
    BY DEF Follows
  <1>2. ASSUME NEW k \in Nat, k \in S PROVE k + 1 \in S
    <2> SUFFICES ASSUME k + 1 <= n PROVE f[k + 1] = g[k + 1]
      OBVIOUS
    <2>1. PICK j \in 1 .. n : j = k + 1
      OBVIOUS
    <2>2. j \in 1 .. m /\ j - 1 = k /\ f[k] = g[k]
      BY <1>2, <2>1
    <2>3. f[j] = Follow(f[j - 1], news[j])
      BY DEF Follows
    <2>4. g[j] = Follow(g[j - 1], other[j])
      BY <2>2 DEF Follows
    <2>5. f[j - 1] = f[k] /\ g[j - 1] = g[k]
      BY <2>2
    <2> QED
      BY <2>1, <2>2, <2>3, <2>4, <2>5
  <1> HIDE DEF S
  <1>3. Nat \subseteq S
    BY <1>1, <1>2, OneByOne
  <1> QED
    BY <1>3 DEF S

\* The recursive function in Followed is one.
LEMMA FollowedIs ==
    ASSUME NEW who, NEW news, Len(news) \in Nat
    PROVE  \E f : Follows(f, who, news, Len(news)) /\ Table!Followed(who, news) = f[Len(news)]
  <1> DEFINE n == Len(news)
             F(f) == [i \in 0 .. n |->
                        IF i = 0 THEN who
                        ELSE IF news[i].joined THEN f[i - 1] \cup {news[i].peer}
                        ELSE f[i - 1] \ {news[i].peer}]
             h == CHOOSE f : f = F(f)
  <1>1. Table!Followed(who, news) = h[n]
    BY DEF Table!Followed
  <1>2. PICK f : Follows(f, who, news, n)
    BY FollowsExists
  <1>3. f = F(f)
    BY <1>2 DEF Follows, Follow
  <1>4. h = F(h)
    BY <1>3
  <1> HIDE DEF h
  <1>5. Follows(h, who, news, n)
    <2>1. h = [i \in 0 .. n |-> h[i]]
      BY <1>4
    <2>2. h[0] = who
      BY <1>4
    <2>3. ASSUME NEW i \in 1 .. n PROVE h[i] = Follow(h[i - 1], news[i])
      <3>1. i \in 0 .. n /\ i # 0
        OBVIOUS
      <3>2. F(h)[i] = Follow(h[i - 1], news[i])
        BY <3>1 DEF Follow
      <3> QED
        BY <1>4, <3>2
    <2> QED
      BY <2>1, <2>2, <2>3 DEF Follows
  <1> QED
    BY <1>1, <1>5

\* No change, no other peers.
LEMMA FollowedNothing == \A who : Table!Followed(who, <<>>) = who
  BY FollowedIs DEF Follows

\* One more change at the end of the log is followed last.
LEMMA FollowedOneMore ==
    ASSUME NEW T, NEW who, NEW news \in Seq(T), NEW c \in T
    PROVE  Table!Followed(who, Append(news, c)) = Follow(Table!Followed(who, news), c)
  <1> DEFINE n == Len(news)
             more == Append(news, c)
  <1>1. n \in Nat /\ Len(more) = n + 1 /\ more[n + 1] = c /\ \A i \in 1 .. n : news[i] = more[i]
    OBVIOUS
  <1>2. PICK f : Follows(f, who, news, n) /\ Table!Followed(who, news) = f[n]
    BY <1>1, FollowedIs
  <1>3. PICK g : Follows(g, who, more, n + 1) /\ Table!Followed(who, more) = g[n + 1]
    <2>1. Len(more) \in Nat
      BY <1>1
    <2> HIDE DEF more
    <2> QED
      BY <1>1, <2>1, FollowedIs
  <1> HIDE DEF more, n
  <1>4. f[n] = g[n]
    BY <1>1, <1>2, <1>3, FollowsAgree
  <1>5. g[n + 1] = Follow(g[n], more[n + 1])
    <2>1. PICK j \in 1 .. n + 1 : j = n + 1
      BY <1>1
    <2>2. g[j] = Follow(g[j - 1], more[j])
      BY <1>3 DEF Follows
    <2>3. j - 1 = n
      BY <1>1, <2>1
    <2> QED
      BY <2>1, <2>2, <2>3
  <1> QED
    BY <1>1, <1>2, <1>3, <1>4, <1>5 DEF more

----------------------------------------------------------------------------
\* The minimum of a set of numbers.
LEMMA MinIs ==
    ASSUME NEW S, S \subseteq Nat, S # {}
    PROVE  Min(S) \in S /\ \A s \in S : Min(S) <= s
  BY LeastOf DEF Min

\* An order of a set names each of its elements once.
LEMMA AllOrders ==
    ASSUME NEW S, IsFiniteSet(S), NEW s \in SetToSeqs(S)
    PROVE  /\ s \in Seq(S) /\ Len(s) = Cardinality(S) /\ Cardinality(S) \in Nat
           /\ IsInjective(s) /\ ToSet(s) = S
  <1> DEFINE D == 1 .. Cardinality(S)
  <1>1. Cardinality(S) \in Nat
    BY FS_CardinalityType
  <1>2. s \in [D -> S] /\ \A i, j \in D : i # j => s[i] # s[j]
    BY DEF SetToSeqs
  <1>3. s \in Seq(S) /\ Len(s) = Cardinality(S) /\ DOMAIN s = D
    BY <1>1, <1>2
  <1>4. IsInjective(s)
    BY <1>2 DEF IsInjective
  <1>5. s \in Injection(D, S)
    BY <1>2 DEF Injection, IsInjective
  <1>6. IsFiniteSet(D) /\ Cardinality(D) = Cardinality(S)
    BY <1>1, FS_Interval
  <1>7. s \in Surjection(D, S)
    BY <1>5, <1>6, FS_Injection
  <1>8. ToSet(s) = S
    BY <1>2, <1>3, <1>7 DEF Surjection, ToSet
  <1> QED
    BY <1>1, <1>3, <1>4, <1>8

\* The order from its first live peer on leaves no live peer out.
LEMMA FromLiveKeeps ==
    ASSUME NEW s \in Seq(Peers), IsInjective(s)
    PROVE  /\ FromLive(s) \in Seq(Peers) /\ IsInjective(FromLive(s))
           /\ live \cap ToSet(s) \subseteq ToSet(FromLive(s))
  <1> DEFINE at == {i \in 1 .. Len(s) : s[i] \in live}
             r == SubSeq(s, Min(at), Len(s))
  <1>1. Len(s) \in Nat /\ DOMAIN s = 1 .. Len(s) /\ \A i \in 1 .. Len(s) : s[i] \in Peers
    OBVIOUS
  <1>2. CASE at = {}
    <2>1. FromLive(s) = <<>>
      BY <1>2 DEF FromLive
    <2>2. live \cap ToSet(s) = {}
      BY <1>1, <1>2 DEF ToSet
    <2> QED
      BY <2>1, <2>2 DEF IsInjective
  <1>3. CASE at # {}
    <2>1. FromLive(s) = r
      BY <1>3 DEF FromLive
    <2>2. PICK k \in 1 .. Len(s) : k = Min(at) /\ \A i \in at : k <= i
      <3>1. at \subseteq Nat /\ at \subseteq 1 .. Len(s)
        BY <1>1
      <3> HIDE DEF at
      <3> QED
        BY <1>3, <3>1, MinIs
    <2>3. r \in Seq(Peers) /\ Len(r) = Len(s) - k + 1
          /\ \A i \in 1 .. Len(s) - k + 1 : r[i] = s[i + k - 1]
      <3>1. r = SubSeq(s, k, Len(s))
        BY <2>2
      <3> HIDE DEF r
      <3> QED
        BY <1>1, <3>1
    <2> HIDE DEF at, r
    <2>4. IsInjective(r)
      <3> SUFFICES ASSUME NEW a \in 1 .. Len(s) - k + 1, NEW b \in 1 .. Len(s) - k + 1, r[a] = r[b]
                   PROVE  a = b
        BY <1>1, <2>3 DEF IsInjective
      <3>1. r[a] = s[a + k - 1] /\ r[b] = s[b + k - 1]
        BY <2>3
      <3>2. a + k - 1 \in DOMAIN s /\ b + k - 1 \in DOMAIN s
        BY <1>1
      <3>3. a + k - 1 = b + k - 1
        BY <3>1, <3>2 DEF IsInjective
      <3> QED
        BY <1>1, <3>3
    <2>5. ASSUME NEW p \in live \cap ToSet(s) PROVE p \in ToSet(r)
      <3>1. PICK i \in 1 .. Len(s) : s[i] = p
        BY <1>1, <2>5 DEF ToSet
      <3>2. k <= i
        BY <2>2, <2>5, <3>1 DEF at
      <3>3. i - k + 1 \in 1 .. Len(s) - k + 1 /\ (i - k + 1) + k - 1 = i
        BY <1>1, <3>2
      <3>4. r[i - k + 1] = p
        BY <2>3, <3>1, <3>3
      <3>5. i - k + 1 \in DOMAIN r
        BY <2>3, <3>3
      <3> QED
        BY <3>4, <3>5 DEF ToSet
    <2> QED
      BY <2>1, <2>3, <2>4, <2>5
  <1> QED
    BY <1>2, <1>3

\* A target taken off the order leaves the others in it.
LEMMA HeadAndTail ==
    ASSUME NEW s \in Seq(Peers), IsInjective(s), s # <<>>
    PROVE  /\ Head(s) \in Peers /\ Tail(s) \in Seq(Peers) /\ IsInjective(Tail(s))
           /\ ToSet(s) \subseteq ToSet(Tail(s)) \cup {Head(s)}
  <1>1. /\ Len(s) \in Nat /\ Len(s) > 0 /\ Head(s) = s[1] /\ Tail(s) \in Seq(Peers)
        /\ DOMAIN s = 1 .. Len(s) /\ Head(s) \in Peers
    OBVIOUS
  <1>2. DOMAIN Tail(s) = 1 .. Len(s) - 1 /\ \A i \in 1 .. Len(s) - 1 : Tail(s)[i] = s[i + 1]
    OBVIOUS
  <1>3. IsInjective(Tail(s))
    BY <1>1, <1>2 DEF IsInjective
  <1>4. ASSUME NEW p \in ToSet(s), p # Head(s) PROVE p \in ToSet(Tail(s))
    <2>1. PICK i \in 1 .. Len(s) : s[i] = p
      BY <1>1, <1>4 DEF ToSet
    <2>2. i # 1
      BY <1>1, <1>4, <2>1
    <2>3. i - 1 \in 1 .. Len(s) - 1 /\ (i - 1) + 1 = i
      BY <1>1, <2>2
    <2>4. Tail(s)[i - 1] = p
      BY <1>2, <2>1, <2>3
    <2> QED
      BY <1>2, <2>3, <2>4 DEF ToSet
  <1> QED
    BY <1>1, <1>3, <1>4

----------------------------------------------------------------------------
Change == [joined : BOOLEAN, peer : Peers]

Places ==
    /\ live \subseteq Peers /\ dead \subseteq Peers \ live
    /\ order \in Seq(Peers) /\ IsInjective(order)
    /\ reconnectIn \in 0 .. ReconnectEvery
    /\ probed \in Peers \cup {0}
    /\ due \subseteq live

News == changes \in Seq(Change) /\ Len(changes) <= MaxNews

Ordering == Places /\ News /\ ProbedInTurn /\ Table!Contract

OrderSpec == OrderInit /\ [][OrderNext]_orderVars

\* Ordering holds at the start.
LEMMA OrderingInit == OrderInit => Ordering
  <1> SUFFICES ASSUME OrderInit PROVE Ordering
    OBVIOUS
  <1>1. Places
    BY OrderAssumption DEF OrderInit, Places, IsInjective
  <1>2. News /\ ProbedInTurn
    BY OrderAssumption DEF OrderInit, News, ProbedInTurn
  <1>3. Table!Contract
    BY FollowedNothing DEF OrderInit, Table!Contract
  <1> QED
    BY <1>1, <1>2, <1>3 DEF Ordering

\* One change more is one the contract allows.
LEMMA ContractGrows ==
    ASSUME News, Table!Contract, NEW c \in Change,
           changes' = Append(changes, c), followed' = followed,
           c.joined <=> c.peer \notin live, live' = Follow(live, c)
    PROVE  Table!Contract'
  <1> DEFINE more == Append(changes, c)
  <1>1. /\ Len(changes) \in Nat /\ DOMAIN changes = 1 .. Len(changes)
        /\ Len(more) = Len(changes) + 1 /\ DOMAIN more = 1 .. Len(changes) + 1
        /\ more[Len(changes) + 1] = c
        /\ \A i \in 1 .. Len(changes) : more[i] = changes[i]
    BY DEF News
  <1>2. Table!Followed(followed, more) = Follow(live, c)
    BY FollowedOneMore DEF News, Table!Contract
  <1>3. live' \subseteq Peers
    BY DEF Table!Contract, Follow, Change
  <1>4. ASSUME NEW i \in 1 .. Len(changes) + 1
        PROVE  more[i].joined <=> more[i].peer \notin Table!Followed(followed, SubSeq(more, 1, i - 1))
    <2>1. CASE i = Len(changes) + 1
      <3>1. SubSeq(more, 1, i - 1) = changes
        BY <1>1, <2>1 DEF News
      <3> QED
        BY <1>1, <2>1, <3>1 DEF Table!Contract
    <2>2. CASE i \in 1 .. Len(changes)
      <3>1. SubSeq(more, 1, i - 1) = SubSeq(changes, 1, i - 1)
        BY <1>1, <2>2 DEF News
      <3> QED
        BY <1>1, <2>2, <3>1 DEF Table!Contract
    <2> QED
      BY <1>1, <2>1, <2>2
  <1> QED
    BY <1>1, <1>2, <1>3, <1>4 DEF Table!Contract

\* A newcomer joins between two rounds.
LEMMA JoinsKeeps ==
    ASSUME Ordering, NEW p \in Peers, Joins(p)
    PROVE  Ordering'
  <1> DEFINE c == Table!Joined(p)
  <1>1. c \in Change /\ c.joined /\ c.peer = p
    BY DEF Table!Joined, Change
  <1>2. /\ p \notin live /\ live' = Follow(live, c) /\ changes' = Append(changes, c)
        /\ followed' = followed
    BY <1>1 DEF Joins, Follow
  <1> HIDE DEF c
  <1>3. Table!Contract'
    BY <1>1, <1>2, ContractGrows DEF Ordering
  <1>4. News'
    <2>1. Len(changes) < MaxNews /\ Len(changes) \in Nat /\ MaxNews \in Nat
      BY OrderAssumption DEF Joins, Ordering, News
    <2> QED
      BY <1>1, <1>2, <2>1 DEF Ordering, News
  <1>5. Places'
    BY DEF Joins, Ordering, Places
  <1>6. ProbedInTurn'
    <2>1. ToSet(changes') = ToSet(changes) \cup {c}
      <3>1. changes \in Seq(Change) /\ Len(changes) \in Nat
        BY DEF Ordering, News
      <3> QED
        BY <1>1, <1>2, <3>1 DEF ToSet
    <2>2. Newcomers' = Newcomers \cup {p}
      BY <1>1, <2>1 DEF Newcomers
    <2> QED
      BY <2>2 DEF Joins, Ordering, ProbedInTurn
  <1> QED
    BY <1>3, <1>4, <1>5, <1>6 DEF Ordering

\* A peer dies between two rounds.
LEMMA DiesKeeps ==
    ASSUME Ordering, NEW p \in Peers, Dies(p)
    PROVE  Ordering'
  <1> DEFINE c == Table!Left(p)
  <1>1. c \in Change /\ ~c.joined /\ c.peer = p
    BY DEF Table!Left, Change
  <1>2. /\ p \in live /\ live' = Follow(live, c) /\ changes' = Append(changes, c)
        /\ followed' = followed
    BY <1>1 DEF Dies, Follow, WithLeft
  <1> HIDE DEF c
  <1>3. Table!Contract'
    BY <1>1, <1>2, ContractGrows DEF Ordering
  <1>4. News'
    <2>1. Len(changes) < MaxNews /\ Len(changes) \in Nat /\ MaxNews \in Nat
      BY OrderAssumption DEF Dies, Ordering, News
    <2> QED
      BY <1>1, <1>2, <2>1 DEF Ordering, News
  <1>5. Places'
    BY DEF Dies, Ordering, Places
  <1>6. ProbedInTurn'
    <2>1. ToSet(changes') = ToSet(changes) \cup {c}
      <3>1. changes \in Seq(Change) /\ Len(changes) \in Nat
        BY DEF Ordering, News
      <3> QED
        BY <1>1, <1>2, <3>1 DEF ToSet
    <2>2. Newcomers' = Newcomers
      BY <1>1, <2>1 DEF Newcomers
    <2> QED
      BY <2>2 DEF Dies, Ordering, ProbedInTurn
  <1> QED
    BY <1>3, <1>4, <1>5, <1>6 DEF Ordering

\* No change of the members, or none but of the dead.
LEMMA ForgottenKeeps ==
    ASSUME Ordering,
           (\E p \in Peers : Forgotten(p)) \/ UNCHANGED orderVars
    PROVE  Ordering'
  <1>1. /\ live' = live /\ order' = order /\ changes' = changes /\ followed' = followed
        /\ reconnectIn' = reconnectIn /\ probed' = probed /\ due' = due
        /\ dead' \subseteq dead
    BY DEF Forgotten, orderVars
  <1>2. Places' /\ News'
    BY <1>1 DEF Ordering, Places, News
  <1>3. ProbedInTurn'
    BY <1>1 DEF Ordering, ProbedInTurn, Newcomers
  <1>4. Table!Contract'
    BY <1>1 DEF Ordering, Table!Contract
  <1> QED
    BY <1>2, <1>3, <1>4 DEF Ordering

\* A round drains the changes and takes the next target.
LEMMA OrderRoundKeeps ==
    ASSUME Ordering, OrderRound
    PROVE  Ordering'
  <1>1. /\ changes' = <<>> /\ live' = live /\ dead' = dead
        /\ followed' = Table!Followed(followed, changes)
    BY DEF OrderRound
  <1>2. Table!Contract'
    BY <1>1, FollowedNothing DEF Ordering, Table!Contract
  <1>3. News' /\ Newcomers' = {}
    BY <1>1, OrderAssumption DEF News, Newcomers, ToSet
  <1>4. PICK s \in Placed(order, Newcomers) :
          \/ /\ reconnectIn = 0 /\ LostPeers # {}
             /\ probed' \in LostPeers
             /\ order' = s
             /\ reconnectIn' = ReconnectEvery - 1
             /\ UNCHANGED due
          \/ /\ reconnectIn > 0 \/ LostPeers = {}
             /\ live # {}
             /\ \E choice \in Nexts(s) : Probed(Head(choice), Tail(choice), FromLive(s) = <<>>)
             /\ reconnectIn' = IF reconnectIn > 0 THEN reconnectIn - 1 ELSE 0
          \/ /\ reconnectIn > 0 \/ LostPeers = {}
             /\ live = {}
             /\ probed' \in IF LostPeers = {} THEN {0} ELSE LostPeers
             /\ order' = <<>>
             /\ reconnectIn' = IF reconnectIn > 0 THEN reconnectIn - 1 ELSE 0
             /\ UNCHANGED due
    BY DEF OrderRound
  <1>5. Newcomers \subseteq Peers /\ ToSet(order) \subseteq Peers
    <2>1. ToSet(changes) \subseteq Change
      BY DEF Ordering, News, ToSet
    <2>2. Newcomers \subseteq Peers
      BY <2>1 DEF Newcomers, Change
    <2>3. ToSet(order) \subseteq Peers
      BY DEF Ordering, Places, ToSet
    <2> QED
      BY <2>2, <2>3
  <1>6. s \in Seq(Peers) /\ IsInjective(s) /\ ToSet(s) = ToSet(order) \cup Newcomers
    <2> DEFINE S == ToSet(order) \cup Newcomers
    <2>1. s \in SetToSeqs(S)
      BY DEF Placed
    <2>2. S \subseteq Peers /\ IsFiniteSet(S)
      BY <1>5, OrderAssumption, FS_Subset
    <2> HIDE DEF S
    <2>3. s \in Seq(S) /\ IsInjective(s) /\ ToSet(s) = S
      BY <2>1, <2>2, AllOrders
    <2>4. s \in Seq(Peers)
      BY <2>2, <2>3
    <2> QED
      BY <2>3, <2>4 DEF S
  <1>7. due \subseteq ToSet(s) /\ due \subseteq live
    BY <1>6 DEF Ordering, ProbedInTurn, Places
  <1>8. LostPeers \subseteq Peers
    BY OrderAssumption DEF LostPeers, Ordering, Places
  <1>9. reconnectIn \in 0 .. ReconnectEvery /\ ReconnectEvery \in Nat \ {0}
    BY OrderAssumption DEF Ordering, Places
  <1>10. reconnectIn' \in 0 .. ReconnectEvery
    BY <1>4, <1>9
  <1>11. /\ order' \in Seq(Peers) /\ IsInjective(order')
         /\ due' \subseteq live /\ due' \subseteq ToSet(order')
         /\ probed' \in Peers \cup {0}
    <2>1. CASE order' = s /\ due' = due /\ probed' \in LostPeers
      BY <1>6, <1>7, <1>8, <2>1
    <2>2. CASE /\ live # {}
               /\ \E choice \in Nexts(s) : Probed(Head(choice), Tail(choice), FromLive(s) = <<>>)
      <3>1. PICK choice \in Nexts(s) : Probed(Head(choice), Tail(choice), FromLive(s) = <<>>)
        BY <2>2
      <3>2. /\ choice \in Seq(Peers) /\ IsInjective(choice) /\ choice # <<>>
            /\ (IF FromLive(s) = <<>> THEN live ELSE due) \subseteq ToSet(choice)
        <4>1. CASE FromLive(s) # <<>>
          <5>1. choice = FromLive(s)
            BY <4>1 DEF Nexts
          <5> QED
            BY <1>6, <1>7, <4>1, <5>1, FromLiveKeeps
        <4>2. CASE FromLive(s) = <<>>
          <5>1. choice \in SetToSeqs(live)
            BY <4>2 DEF Nexts
          <5>2. live \subseteq Peers /\ IsFiniteSet(live)
            BY OrderAssumption, FS_Subset DEF Ordering, Places
          <5>3. choice \in Seq(live) /\ IsInjective(choice) /\ ToSet(choice) = live
            BY <5>1, <5>2, AllOrders
          <5>4. choice \in Seq(Peers)
            BY <5>2, <5>3
          <5>5. choice # <<>>
            BY <2>2, <5>3 DEF ToSet
          <5> QED
            BY <4>2, <5>3, <5>4, <5>5
        <4> QED
          BY <4>1, <4>2
      <3>3. /\ Head(choice) \in Peers /\ Tail(choice) \in Seq(Peers) /\ IsInjective(Tail(choice))
            /\ ToSet(choice) \subseteq ToSet(Tail(choice)) \cup {Head(choice)}
        BY <3>2, HeadAndTail
      <3>4. /\ probed' = Head(choice) /\ order' = Tail(choice)
            /\ due' = (IF FromLive(s) = <<>> THEN live ELSE due) \ {Head(choice)}
        BY <3>1 DEF Probed
      <3> QED
        BY <1>7, <3>2, <3>3, <3>4
    <2>3. CASE /\ live = {} /\ order' = <<>> /\ due' = due
               /\ probed' \in IF LostPeers = {} THEN {0} ELSE LostPeers
      BY <1>7, <1>8, <2>3 DEF IsInjective
    <2> QED
      BY <1>4, <2>1, <2>2, <2>3
  <1>12. Places'
    BY <1>1, <1>10, <1>11 DEF Ordering, Places
  <1>13. ProbedInTurn'
    BY <1>3, <1>11 DEF ProbedInTurn
  <1> QED
    BY <1>2, <1>3, <1>12, <1>13 DEF Ordering

\* Every step keeps Ordering.
LEMMA OrderingStep == Ordering /\ [OrderNext]_orderVars => Ordering'
  BY JoinsKeeps, DiesKeeps, ForgottenKeeps, OrderRoundKeeps DEF OrderNext

\* Ordering holds throughout.
LEMMA OrderingAlways == OrderSpec => []Ordering
  BY OrderingInit, OrderingStep, PTL DEF OrderSpec

\* Whatever order the peers fall in, and whoever joins, dies, is forgotten and
\* returns between any two rounds, a live peer not yet probed is still to come.
THEOREM NobodyIsPassedOver == OrderSpec => []ProbedInTurn
  <1>1. Ordering => ProbedInTurn
    BY DEF Ordering
  <1> QED
    BY <1>1, OrderingAlways, PTL

\* The changes that wait always lead from the peers as their reader counts them to
\* the live ones, with no join of a peer counted and no leave of one that is not.
THEOREM TableKeepsContract == OrderSpec => []ContractKept
  <1>1. Ordering => ContractKept
    BY DEF Ordering, ContractKept, OrderTypeOK, Places, News, Change
  <1> QED
    BY <1>1, OrderingAlways, PTL

\* The table starts as the contract does.
LEMMA TableInit == OrderInit => Table!MembershipInit
  <1> SUFFICES ASSUME OrderInit PROVE Table!MembershipInit
    OBVIOUS
  <1>1. live = {} /\ changes = <<>> /\ followed = {}
    BY DEF OrderInit
  <1>2. Cardinality(live) = 0
    BY <1>1, FS_EmptySet
  <1> DEFINE none == [i \in 1 .. 0 |-> 0]
  <1>3. none \in [1 .. Cardinality(live) -> live]
    BY <1>1, <1>2
  <1>4. changes = [i \in DOMAIN none |-> Table!Joined(none[i])]
    <2>1. DOMAIN none = {}
      OBVIOUS
    <2>2. changes = [i \in {} |-> Table!Joined(none[i])]
      BY <1>1
    <2> QED
      BY <2>1, <2>2
  <1> HIDE DEF none
  <1>5. \E o \in [1 .. Cardinality(live) -> live] :
            /\ \A p \in live : \E i \in DOMAIN o : o[i] = p
            /\ changes = [i \in DOMAIN o |-> Table!Joined(o[i])]
    <2> WITNESS none \in [1 .. Cardinality(live) -> live]
    <2> QED
      BY <1>1, <1>4
  <1>6. Table!Cardinality(live) = Cardinality(live)
    BY DEF Table!Cardinality, Cardinality
  <1> QED
    BY <1>1, <1>5, <1>6 DEF Table!MembershipInit

\* Every step of the table and of its rounds is one of the contract, or a stutter.
LEMMA TableStep == [OrderNext]_orderVars => [Table!MembershipNext]_(Table!memberVars)
  <1> SUFFICES ASSUME [OrderNext]_orderVars
               PROVE  Table!MembershipNext \/ UNCHANGED <<live, changes, followed>>
    BY DEF Table!memberVars
  <1>1. ASSUME NEW p \in Peers, Joins(p) PROVE Table!Add(p)
    BY <1>1 DEF Joins, Table!Add
  <1>2. ASSUME NEW p \in Peers, Dies(p) PROVE Table!Remove(p)
    BY <1>2 DEF Dies, WithLeft, Table!Remove
  <1>3. CASE OrderRound
    BY <1>3 DEF OrderRound, Table!Drain, Table!MembershipNext
  <1>4. CASE (\E p \in Peers : Forgotten(p)) \/ UNCHANGED orderVars
    BY <1>4 DEF Forgotten, orderVars
  <1> QED
    BY <1>1, <1>2, <1>3, <1>4 DEF OrderNext, Table!MembershipNext

\* The member table and the rounds that drain it implement a membership.
THEOREM TableIsMembership == OrderSpec => ImplementsMembership
  BY TableInit, TableStep, PTL DEF OrderSpec, ImplementsMembership, Table!MembershipSpec

----------------------------------------------------------------------------
\* The samples of the sizes seen, through rounds and leaves.

PolicySpec == PolicyInit /\ [][PolicyNext]_policyVars

\* A sample counts everyone it saw, but for those whose leave it was excused.
Sample == [size : Nat \ {0}, seen : SUBSET Nodes, excused : BOOLEAN]
Counts(s) == s \in Sample /\ (s.excused \/ s.size >= Cardinality(s.seen))

Sampled ==
    /\ start \in Starts
    /\ samples \in [Observed -> Seq(Sample)]
    /\ heldSize \in [Observed -> Nat]
    /\ \A o \in Observed : \A i \in 1 .. Len(samples[o]) :
          Counts(samples[o][i]) /\ samples[o][i].size <= heldSize[o]

\* The size a node sees is the number of those it counts with itself.
LEMMA SeenNow ==
    ASSUME NEW o \in Observed, NEW with, with \subseteq Others(o)
    PROVE  /\ Cardinality(with) \in Nat
           /\ Cardinality({o} \cup with) = 1 + Cardinality(with)
           /\ {o} \cup with \in SUBSET Nodes
  <1>1. IsFiniteSet(with) /\ o \notin with /\ with \subseteq Nodes /\ o \in Nodes
    BY PolicyAssumption, FS_Subset DEF Others
  <1>2. Cardinality(with) \in Nat
    BY <1>1, FS_CardinalityType
  <1>3. Cardinality(with \cup {o}) = Cardinality(with) + 1
    BY <1>1, FS_AddElement
  <1>4. with \cup {o} = {o} \cup with
    OBVIOUS
  <1>5. Cardinality(with \cup {o}) = 1 + Cardinality(with)
    BY <1>2, <1>3
  <1>6. Cardinality({o} \cup with) = 1 + Cardinality(with)
    BY <1>4, <1>5, Zenon
  <1>7. {o} \cup with \in SUBSET Nodes
    BY <1>1
  <1> QED
    BY <1>2, <1>6, <1>7

\* Sampled holds at the start.
LEMMA SampledInit == PolicyInit => Sampled
  <1> SUFFICES ASSUME PolicyInit PROVE Sampled
    OBVIOUS
  <1>1. PICK s \in Starts :
          LET with == [o \in Observed |-> IF s.formed /\ o \in Founders THEN Founders \ {o} ELSE {}]
              size == [o \in Observed |-> 1 + Cardinality(with[o])]
          IN /\ start = s
             /\ samples = [o \in Observed |->
                   <<[size |-> size[o], seen |-> {o} \cup with[o], excused |-> FALSE]>>]
             /\ heldSize = size
    BY DEF PolicyInit
  <1> DEFINE with(o) == IF s.formed /\ o \in Founders THEN Founders \ {o} ELSE {}
             first(o) == [size |-> 1 + Cardinality(with(o)), seen |-> {o} \cup with(o), excused |-> FALSE]
  <1>2. ASSUME NEW o \in Observed
        PROVE  /\ first(o) \in Sample /\ Counts(first(o)) /\ first(o).size \in Nat
               /\ samples[o] = <<first(o)>> /\ heldSize[o] = first(o).size
    <2>1. with(o) \subseteq Others(o)
      BY PolicyAssumption DEF Others
    <2>2. /\ Cardinality(with(o)) \in Nat /\ Cardinality({o} \cup with(o)) = 1 + Cardinality(with(o))
          /\ {o} \cup with(o) \in SUBSET Nodes
      BY <2>1, SeenNow
    <2>3. samples[o] = <<first(o)>> /\ heldSize[o] = first(o).size
      BY <1>1
    <2> HIDE DEF with
    <2> QED
      BY <2>2, <2>3 DEF Sample, Counts
  <1>3. samples = [o \in Observed |-> samples[o]] /\ heldSize = [o \in Observed |-> heldSize[o]]
    <2>1. DOMAIN samples = Observed /\ samples = [o \in DOMAIN samples |-> samples[o]]
      BY <1>1
    <2>2. DOMAIN heldSize = Observed /\ heldSize = [o \in DOMAIN heldSize |-> heldSize[o]]
      BY <1>1
    <2> QED
      BY <2>1, <2>2
  <1> HIDE DEF first
  <1>5. ASSUME NEW o \in Observed
        PROVE  /\ samples[o] \in Seq(Sample) /\ heldSize[o] \in Nat
               /\ \A i \in 1 .. Len(samples[o]) :
                     Counts(samples[o][i]) /\ samples[o][i].size <= heldSize[o]
    <2>1. PICK f : f = first(o) /\ f \in Sample /\ Counts(f) /\ f.size \in Nat
                   /\ samples[o] = <<f>> /\ heldSize[o] = f.size
      BY <1>2
    <2>2. Len(<<f>>) = 1 /\ <<f>>[1] = f /\ <<f>> \in Seq(Sample)
      BY <2>1
    <2> QED
      BY <2>1, <2>2
  <1>6. samples \in [Observed -> Seq(Sample)] /\ heldSize \in [Observed -> Nat]
    BY <1>3, <1>5
  <1>7. start \in Starts
    BY <1>1
  <1> QED
    BY <1>5, <1>6, <1>7 DEF Sampled

\* A leave takes its sender out of the samples that counted it.
LEMMA LeaveTakenOut ==
    ASSUME NEW q \in Seq(Sample), \A i \in 1 .. Len(q) : Counts(q[i]), NEW p, NEW since
    PROVE  LET r == ForgetOne(Uncounted(q, p, since), since) IN
           /\ r \in Seq(Sample) /\ Len(r) = Len(q)
           /\ \A i \in 1 .. Len(q) : Counts(r[i]) /\ r[i].size <= q[i].size
  <1> DEFINE u == Uncounted(q, p, since)
             r == ForgetOne(u, since)
  <1>1. Len(q) \in Nat
    OBVIOUS
  <1>2. /\ u = [i \in 1 .. Len(q) |-> u[i]]
        /\ \A i \in 1 .. Len(q) : u[i] = [q[i] EXCEPT !.seen = @ \ {p},
                                           !.excused = @ \/ (i <= since /\ p \notin q[i].seen)]
    BY DEF Uncounted
  <1>3. Len(u) = Len(q)
    <2> HIDE DEF u, r
    <2>1. \A i \in 1 .. Len(q) : q[i] \in Sample
      OBVIOUS
    <2>2. ASSUME NEW i \in 1 .. Len(q) PROVE u[i] \in Sample
      <3>1. PICK a \in Sample : a = q[i]
        BY <2>1
      <3>2. PICK seen \in SUBSET Nodes, e \in BOOLEAN : u[i] = [a EXCEPT !.seen = seen, !.excused = e]
        <4> DEFINE seen == a.seen \ {p}
                   e == a.excused \/ (i <= since /\ p \notin a.seen)
        <4>1. seen \in SUBSET Nodes /\ e \in BOOLEAN
          BY DEF Sample
        <4>2. u[i] = [a EXCEPT !.seen = seen, !.excused = e]
          BY <1>2, <3>1
        <4> QED
          BY <4>1, <4>2
      <3> QED
        BY <3>1, <3>2 DEF Sample
    <2>3. u \in [1 .. Len(q) -> Sample]
      BY <1>2, <2>2
    <2> QED
      BY <1>1, <2>3
  <1>4. /\ r = [i \in 1 .. Len(q) |-> r[i]]
        /\ \A i \in 1 .. Len(q) :
              r[i] = IF i <= since THEN [u[i] EXCEPT !.size = Max({@ - 1, 1})] ELSE u[i]
    BY <1>3 DEF ForgetOne
  <1> HIDE DEF r, u
  <1>5. ASSUME NEW i \in 1 .. Len(q) PROVE Counts(r[i]) /\ r[i].size <= q[i].size
    <2> DEFINE a == q[i]
               b == u[i]
               c == r[i]
               m == Max({a.size - 1, 1})
    <2>1. a \in Sample /\ (a.excused \/ a.size >= Cardinality(a.seen))
      BY DEF Counts
    <2>2. b = [a EXCEPT !.seen = @ \ {p}, !.excused = @ \/ (i <= since /\ p \notin a.seen)]
      BY <1>2
    <2> HIDE DEF a, b
    <2>3. /\ b \in Sample /\ b.size = a.size /\ b.seen = a.seen \ {p}
          /\ b.excused <=> (a.excused \/ (i <= since /\ p \notin a.seen))
      BY <2>1, <2>2 DEF Sample
    <2>4. m \in Nat /\ m >= a.size - 1 /\ m >= 1 /\ (m = a.size - 1 \/ m = 1)
      <3>1. a.size - 1 \in Nat /\ 1 \in Nat
        BY <2>1 DEF Sample
      <3>2. m \in {a.size - 1, 1} /\ m >= a.size - 1 /\ m >= 1
        BY <3>1, MaxOfTwo
      <3> QED
        BY <3>1, <3>2
    <2> HIDE DEF m
    <2>5. c = IF i <= since THEN [b EXCEPT !.size = m] ELSE b
      BY <1>4, <2>3 DEF m, b
    <2> HIDE DEF c
    <2>6. /\ c \in Sample /\ c.seen = b.seen /\ c.excused = b.excused
          /\ c.size = IF i <= since THEN m ELSE a.size
      <3>1. CASE i <= since
        <4>1. c = [b EXCEPT !.size = m]
          BY <2>5, <3>1
        <4>2. m \in Nat \ {0}
          BY <2>4
        <4> QED
          BY <2>3, <3>1, <4>1, <4>2 DEF Sample
      <3>2. CASE ~(i <= since)
        BY <2>3, <2>5, <3>2
      <3> QED
        BY <3>1, <3>2
    <2>7. IsFiniteSet(a.seen) /\ Cardinality(a.seen) \in Nat
      BY <2>1, PolicyAssumption, FS_Subset, FS_CardinalityType DEF Sample
    <2>8. /\ Cardinality(a.seen \ {p}) = IF p \in a.seen THEN Cardinality(a.seen) - 1
                                         ELSE Cardinality(a.seen)
          /\ Cardinality(a.seen \ {p}) \in Nat
      BY <2>7, FS_RemoveElement, FS_CardinalityType
    <2>9. a.size \in Nat /\ a.size >= 1
      BY <2>1 DEF Sample
    <2>10. c.excused \/ c.size >= Cardinality(c.seen)
      BY <2>1, <2>3, <2>4, <2>6, <2>7, <2>8, <2>9
    <2>11. c.size <= a.size
      BY <2>4, <2>6, <2>9
    <2> QED
      BY <2>6, <2>10, <2>11 DEF Counts, a, c
  <1>6. r \in Seq(Sample) /\ Len(r) = Len(q)
    <2>1. \A i \in 1 .. Len(q) : r[i] \in Sample
      BY <1>5 DEF Counts
    <2> QED
      BY <1>1, <1>4, <2>1
  <1> QED
    BY <1>5, <1>6 DEF r, u

\* The newest of a round's samples and as many before it as the window keeps.
LEMMA RecordIs ==
    ASSUME Sampled, NEW o \in Observed
    PROVE  /\ Record(o) \in Seq(Sample) /\ Len(Record(o)) > 0 /\ Len(Record(o)) <= Window
           /\ \A i \in 1 .. Len(Record(o)) :
                 /\ Counts(Record(o)[i])
                 /\ \/ Record(o)[i].size = ClusterSize(o)
                    \/ \E j \in 1 .. Len(samples[o]) : Record(o)[i] = samples[o][j]
  <1> DEFINE with == InView(o, LiveStatus)
             now == [size |-> ClusterSize(o), seen |-> {o} \cup with, excused |-> FALSE]
             q == samples[o]
             all == <<now>> \o q
             n == Min({Len(all), Window})
  <1>1. with \subseteq Others(o)
    BY DEF InView
  <1>2. /\ Cardinality(with) \in Nat /\ Cardinality({o} \cup with) = 1 + Cardinality(with)
        /\ {o} \cup with \in SUBSET Nodes
    BY <1>1, SeenNow
  <1>3. Counts(now)
    <2>1. now.size = 1 + Cardinality(with)
      BY DEF ClusterSize
    <2> HIDE DEF with
    <2> QED
      BY <1>2, <2>1 DEF Counts, Sample
  <1>4. q \in Seq(Sample) /\ \A i \in 1 .. Len(q) : Counts(q[i])
    BY DEF Sampled
  <1>5. Window \in Nat /\ Window >= 1
    <2>1. Max({1, Hold}) \in {1, Hold} /\ Max({1, Hold}) >= 1
      BY PolicyAssumption, MaxOfTwo
    <2> QED
      BY <2>1, PolicyAssumption DEF Window
  <1>6. Record(o) = SubSeq(all, 1, n)
    BY DEF Record
  <1> HIDE DEF now, q
  <1>7. /\ all \in Seq(Sample) /\ Len(all) = Len(q) + 1 /\ Len(q) \in Nat
        /\ \A i \in 1 .. Len(all) :
              Counts(all[i]) /\ (all[i] = now \/ \E j \in 1 .. Len(q) : all[i] = q[j])
    <2>1. now \in Sample
      BY <1>3 DEF Counts
    <2>2. all \in Seq(Sample) /\ Len(all) = Len(q) + 1 /\ Len(q) \in Nat
      BY <1>4, <2>1
    <2>3. all[1] = now /\ \A i \in 2 .. Len(all) : all[i] = q[i - 1]
      BY <1>4, <2>1
    <2>4. ASSUME NEW i \in 1 .. Len(all)
          PROVE  Counts(all[i]) /\ (all[i] = now \/ \E j \in 1 .. Len(q) : all[i] = q[j])
      <3>1. CASE i = 1
        BY <1>3, <2>3, <3>1
      <3>2. CASE i # 1
        <4>1. i \in 2 .. Len(all) /\ i - 1 \in 1 .. Len(q)
          BY <2>2, <3>2
        <4> QED
          BY <1>4, <2>3, <4>1
      <3> QED
        BY <3>1, <3>2
    <2> QED
      BY <2>2, <2>4
  <1> HIDE DEF all
  <1>8. n \in Nat /\ n >= 1 /\ n <= Len(all) /\ n <= Window
    <2>1. n \in {Len(all), Window} /\ n <= Len(all) /\ n <= Window
      BY <1>5, <1>7, MinOfTwo
    <2> QED
      BY <1>5, <1>7, <2>1
  <1> HIDE DEF n
  <1>9. /\ SubSeq(all, 1, n) \in Seq(Sample) /\ Len(SubSeq(all, 1, n)) = n
        /\ \A i \in 1 .. n : SubSeq(all, 1, n)[i] = all[i]
    BY <1>7, <1>8
  <1>10. \A i \in 1 .. n : /\ Counts(SubSeq(all, 1, n)[i])
                           /\ \/ SubSeq(all, 1, n)[i] = now
                              \/ \E j \in 1 .. Len(q) : SubSeq(all, 1, n)[i] = q[j]
    BY <1>7, <1>8, <1>9
  <1>11. now.size = ClusterSize(o)
    BY DEF now
  <1> QED
    BY <1>6, <1>8, <1>9, <1>10, <1>11 DEF q

\* The largest size in the memory is in it.
LEMMA LargestIs ==
    ASSUME NEW q \in Seq(Sample), Len(q) > 0
    PROVE  /\ Largest(q) \in Nat /\ \A i \in 1 .. Len(q) : q[i].size <= Largest(q)
           /\ \E i \in 1 .. Len(q) : Largest(q) = q[i].size
  <1> DEFINE D == 1 .. Len(q)
             S == {q[i].size : i \in D}
             f == [i \in D |-> q[i].size]
  <1>1. Len(q) \in Nat /\ IsFiniteSet(D)
    BY FS_Interval
  <1>2. \A i \in D : q[i].size \in Nat
    <2>1. \A i \in D : q[i] \in Sample
      OBVIOUS
    <2> QED
      BY <2>1 DEF Sample
  <1>3. S \subseteq Nat /\ S # {}
    BY <1>1, <1>2
  <1>4. f \in Surjection(D, S)
    BY DEF Surjection
  <1>5. IsFiniteSet(S)
    BY <1>1, <1>4, FS_Surjection
  <1>6. Largest(q) = Max(S)
    BY DEF Largest
  <1>7. (\A i \in D : q[i].size \in S) /\ \A s \in S : \E i \in D : s = q[i].size
    OBVIOUS
  <1> HIDE DEF S
  <1>8. Max(S) \in S /\ \A s \in S : s <= Max(S)
    BY <1>3, <1>5, MaxIsFinite
  <1> QED
    BY <1>3, <1>6, <1>7, <1>8

\* Only observed nodes are followed.
LEMMA FollowedAreObserved ==
    ASSUME Sampled PROVE start.followed \subseteq Observed
  BY PolicyAssumption DEF Sampled

\* Node::apply_policy samples the size, and holds to the largest one remembered.
LEMMA PolicyRoundKeeps ==
    ASSUME Sampled, NEW o \in Observed, PolicyRound(o)
    PROVE  Sampled'
  <1>1. /\ samples' = [samples EXCEPT ![o] = Record(o)] /\ start' = start
        /\ heldSize' = [heldSize EXCEPT ![o] = Largest(Record(o))]
    BY DEF PolicyRound
  <1>2. /\ Record(o) \in Seq(Sample) /\ Len(Record(o)) > 0
        /\ \A i \in 1 .. Len(Record(o)) : Counts(Record(o)[i])
    BY RecordIs
  <1>3. /\ Largest(Record(o)) \in Nat
        /\ \A i \in 1 .. Len(Record(o)) : Record(o)[i].size <= Largest(Record(o))
    BY <1>2, LargestIs
  <1>4. samples' \in [Observed -> Seq(Sample)] /\ heldSize' \in [Observed -> Nat]
    BY <1>1, <1>2, <1>3 DEF Sampled
  <1>5. ASSUME NEW x \in Observed, NEW i \in 1 .. Len(samples'[x])
        PROVE  Counts(samples'[x][i]) /\ samples'[x][i].size <= heldSize'[x]
    <2>1. CASE x = o
      <3>1. samples'[x] = Record(o) /\ heldSize'[x] = Largest(Record(o))
        BY <1>1, <2>1 DEF Sampled
      <3> QED
        BY <1>2, <1>3, <1>5, <3>1
    <2>2. CASE x # o
      <3>1. samples'[x] = samples[x] /\ heldSize'[x] = heldSize[x]
        BY <1>1, <2>2 DEF Sampled
      <3> QED
        BY <1>5, <3>1 DEF Sampled
    <2> QED
      BY <2>1, <2>2
  <1>6. Sampled' <=> /\ start' \in Starts
                     /\ samples' \in [Observed -> Seq(Sample)]
                     /\ heldSize' \in [Observed -> Nat]
                     /\ \A x \in Observed : \A i \in 1 .. Len(samples'[x]) :
                           Counts(samples'[x][i]) /\ samples'[x][i].size <= heldSize'[x]
    BY DEF Sampled, Counts
  <1> QED
    BY <1>1, <1>4, <1>5, <1>6 DEF Sampled

\* A leave heard takes a member out of the sizes it was counted in.
LEMMA HearLeaveKeeps ==
    ASSUME Sampled, NEW o \in Observed, NEW p, HearLeave(o, p)
    PROVE  Sampled'
  <1> DEFINE since == joined[o][p]
             r == ForgetOne(Uncounted(samples[o], p, since), since)
  <1>1. /\ samples' = [samples EXCEPT ![o] = r] /\ start' = start
        /\ heldSize' = heldSize
    BY DEF HearLeave, Sampled
  <1>2. /\ r \in Seq(Sample) /\ Len(r) = Len(samples[o])
        /\ \A i \in 1 .. Len(samples[o]) : Counts(r[i]) /\ r[i].size <= samples[o][i].size
    BY LeaveTakenOut DEF Sampled
  <1> HIDE DEF r
  <1>3. samples' \in [Observed -> Seq(Sample)] /\ heldSize' \in [Observed -> Nat]
    BY <1>1, <1>2 DEF Sampled
  <1>4. ASSUME NEW x \in Observed, NEW i \in 1 .. Len(samples'[x])
        PROVE  Counts(samples'[x][i]) /\ samples'[x][i].size <= heldSize'[x]
    <2>1. CASE x = o
      <3>1. samples'[x] = r /\ heldSize'[x] = heldSize[o]
        BY <1>1, <2>1 DEF Sampled
      <3>2. i \in 1 .. Len(samples[o])
        BY <1>2, <1>4, <3>1
      <3>3. /\ samples[o][i].size <= heldSize[o] /\ r[i].size <= samples[o][i].size
            /\ heldSize[o] \in Nat /\ Counts(r[i]) /\ Counts(samples[o][i])
        BY <1>2, <3>2 DEF Sampled
      <3>4. samples[o][i].size \in Nat /\ r[i].size \in Nat
        BY <3>3 DEF Counts, Sample
      <3> QED
        BY <3>1, <3>3, <3>4
    <2>2. CASE x # o
      <3>1. samples'[x] = samples[x] /\ heldSize'[x] = heldSize[x]
        BY <1>1, <2>2 DEF Sampled
      <3> QED
        BY <1>4, <3>1 DEF Sampled
    <2> QED
      BY <2>1, <2>2
  <1>5. Sampled' <=> /\ start' \in Starts
                     /\ samples' \in [Observed -> Seq(Sample)]
                     /\ heldSize' \in [Observed -> Nat]
                     /\ \A x \in Observed : \A i \in 1 .. Len(samples'[x]) :
                           Counts(samples'[x][i]) /\ samples'[x][i].size <= heldSize'[x]
    BY DEF Sampled, Counts
  <1> QED
    BY <1>1, <1>3, <1>4, <1>5 DEF Sampled

\* Every step keeps Sampled.
LEMMA SampledStep == Sampled /\ [PolicyNext]_policyVars => Sampled'
  <1> SUFFICES ASSUME Sampled, [PolicyNext]_policyVars PROVE Sampled'
    OBVIOUS
  <1>1. CASE \E o \in start.followed : PolicyRound(o)
    BY <1>1, FollowedAreObserved, PolicyRoundKeeps
  <1>2. CASE \E o \in start.followed : \E p \in Others(o) : HearLeave(o, p)
    BY <1>2, FollowedAreObserved, HearLeaveKeeps
  <1>3. ASSUME samples' = samples, heldSize' = heldSize, start' = start PROVE Sampled'
    BY <1>3 DEF Sampled, Counts
  <1>4. CASE \E p \in Leavers : LeaveOnPurpose(p)
    BY <1>3, <1>4 DEF LeaveOnPurpose
  <1>5. CASE \E o \in start.followed : Refuse(o)
    BY <1>3, <1>5 DEF Refuse
  <1>6. CASE \E o \in start.followed : Decay(o)
    BY <1>3, <1>6 DEF Decay, Die, Forget
  <1>7. CASE \E o \in start.followed : \E p \in Others(o) : Hear(o, p) \/ Suspect(o, p)
    BY <1>3, <1>7 DEF Hear, Suspect
  <1>8. CASE UNCHANGED policyVars
    BY <1>3, <1>8 DEF policyVars
  <1> QED
    BY <1>1, <1>2, <1>4, <1>5, <1>6, <1>7, <1>8 DEF PolicyNext

\* Whoever a node saw live at any round of the hold and that did not leave counts
\* in the size it shares the limit over, through every suspicion, death, return,
\* leave and round.
THEOREM HeldSizeCounts == PolicySpec => []HeldSize
  <1>1. Sampled => HeldSize
    <2> SUFFICES ASSUME Sampled, NEW o \in Observed, NEW i \in 1 .. Len(samples[o]),
                        ~samples[o][i].excused
                 PROVE  heldSize[o] >= Cardinality(samples[o][i].seen)
      BY DEF HeldSize
    <2> DEFINE s == samples[o][i]
    <2>1. Counts(s) /\ s.size <= heldSize[o] /\ heldSize[o] \in Nat
      BY DEF Sampled
    <2>2. s.size \in Nat /\ s.size >= Cardinality(s.seen)
      BY <2>1 DEF Counts, Sample
    <2>3. Cardinality(s.seen) \in Nat
      BY <2>1, PolicyAssumption, FS_Subset, FS_CardinalityType DEF Counts, Sample
    <2> HIDE DEF s
    <2> QED
      BY <2>1, <2>2, <2>3 DEF s
  <1> QED
    BY <1>1, SampledInit, SampledStep, PTL DEF PolicySpec

----------------------------------------------------------------------------
\* A majority: who may serve above the floor.

\* A node that serves alone, or whose quorum counts nobody else, is the last one.
LastOne ==
    /\ start \in Starts
    /\ view \in [Observed -> [Nodes -> LiveStatus \cup {"dead", "departed", Stranger}]]
    /\ quorumSize \in [Observed -> Nat]
    /\ serving \in [Observed -> SUBSET Nodes]
    /\ lapsed \in [Observed -> BOOLEAN]
    /\ hasJoined \in [Observed -> BOOLEAN]
    /\ floored \in [Observed -> Nat]
    /\ \A o \in Observed :
          /\ \A p \in Others(o) : view[o][p] = "departed" => p \in gone
          /\ o \in gone => serving[o] = {}
          /\ serving[o] # {} => o \in serving[o]

NobodyElse(o) == ~lapsed[o] /\ hasJoined[o] /\ quorumSize[o] <= 1 => Others(o) \subseteq gone
ServesInCompany(o) == ~lapsed[o] /\ serving[o] = {o} => Others(o) \subseteq gone

\* With the policy of a majority, in a cluster of several.
InCompany ==
    /\ LastOne
    /\ policy = "quorum" => \A o \in Observed : NobodyElse(o) /\ ServesInCompany(o)

\* A cluster of several: every node starts with somebody to join.
SeveralFound == \A o \in Observed : SeedsOf(o) # {}

\* What a node counts: itself, those alive, those live, those it may still miss.
LEMMA QuorumCounts ==
    ASSUME NEW o \in Observed
    PROVE  /\ AliveCount(o) \in Nat /\ ClusterSize(o) \in Nat /\ KnownForQuorum(o) \in Nat
           /\ 1 <= AliveCount(o) /\ AliveCount(o) <= ClusterSize(o)
           /\ ClusterSize(o) <= KnownForQuorum(o)
           /\ AliveCount(o) = 1 <=> InView(o, {"alive"}) = {}
  <1> DEFINE A == InView(o, {"alive"})
             L == InView(o, LiveStatus)
             D == InView(o, {"dead"})
  <1>1. A \subseteq L /\ L \subseteq Nodes /\ D \subseteq Nodes
    BY DEF InView, LiveStatus, Others
  <1>2. IsFiniteSet(A) /\ IsFiniteSet(L) /\ IsFiniteSet(D)
    BY <1>1, PolicyAssumption, FS_Subset
  <1>3. /\ Cardinality(A) \in Nat /\ Cardinality(L) \in Nat /\ Cardinality(D) \in Nat
        /\ Cardinality(A) <= Cardinality(L) /\ (Cardinality(A) = 0 <=> A = {})
    BY <1>1, <1>2, FS_CardinalityType, FS_Subset, FS_EmptySet
  <1>4. /\ AliveCount(o) = 1 + Cardinality(A) /\ ClusterSize(o) = 1 + Cardinality(L)
        /\ KnownForQuorum(o) = ClusterSize(o) + Cardinality(D)
    BY DEF AliveCount, ClusterSize, KnownForQuorum
  <1> HIDE DEF A, L, D
  <1>5. AliveCount(o) = 1 <=> A = {}
    BY <1>3, <1>4
  <1>6. AliveCount(o) = 1 <=> InView(o, {"alive"}) = {}
    BY <1>5 DEF A
  <1> QED
    BY <1>3, <1>4, <1>6

\* What is left of a count of rounds after one more.
LEMMA OneLess == ASSUME NEW n \in Nat PROVE Max({n - 1, 0}) \in Nat
  <1>1. CASE n = 0
    <2>1. n - 1 \in Int /\ 0 \in Int
      OBVIOUS
    <2>2. {n - 1, 0} = {-1, 0}
      BY <1>1
    <2>3. 0 \in {-1, 0} /\ \A x \in {-1, 0} : 0 >= x
      OBVIOUS
    <2>4. \E m \in {-1, 0} : \A x \in {-1, 0} : m >= x
      BY <2>3
    <2>5. Max({-1, 0}) \in {-1, 0} /\ \A x \in {-1, 0} : Max({-1, 0}) >= x
      BY <2>4 DEF Max
    <2>6. PICK m : m = Max({-1, 0}) /\ m \in {-1, 0} /\ m >= 0
      BY <2>3, <2>5
    <2>7. m \in Nat
      BY <2>6
    <2> QED
      BY <2>2, <2>6, <2>7
  <1>2. CASE n # 0
    <2>1. n - 1 \in Nat /\ 0 \in Nat
      BY <1>2
    <2>2. Max({n - 1, 0}) \in {n - 1, 0}
      BY <2>1, MaxOfTwo
    <2> QED
      BY <2>1, <2>2
  <1> QED
    BY <1>1, <1>2

\* InCompany holds at the start.
LEMMA CompanyInit == SeveralFound /\ PolicyInit => InCompany
  <1> SUFFICES ASSUME SeveralFound, PolicyInit PROVE InCompany
    OBVIOUS
  <1> DEFINE with(s, o) == IF s.formed /\ o \in Founders THEN Founders \ {o} ELSE {}
  <1>1. PICK s \in Starts :
          /\ start = s
          /\ view = [o \in Observed |-> [p \in Nodes |-> IF p \in with(s, o) THEN "alive" ELSE Stranger]]
          /\ quorumSize = [o \in Observed |-> 1 + Cardinality(with(s, o))]
          /\ hasJoined = [o \in Observed |-> with(s, o) # {}]
          /\ floored = [o \in Observed |-> 0]
          /\ serving = [o \in Observed |->
                IF Held(o, with(s, o) # {}, 0, 0).joining THEN {} ELSE {o} \cup with(s, o)]
          /\ lapsed = [o \in Observed |-> FALSE]
    <2>1. PICK s \in Starts :
          LET w == [o \in Observed |-> IF s.formed /\ o \in Founders THEN Founders \ {o} ELSE {}]
              size == [o \in Observed |-> 1 + Cardinality(w[o])]
          IN
          /\ start = s
          /\ view = [o \in Observed |-> [p \in Nodes |-> IF p \in w[o] THEN "alive" ELSE Stranger]]
          /\ quorumSize = size
          /\ hasJoined = [o \in Observed |-> w[o] # {}]
          /\ floored = [o \in Observed |-> 0]
          /\ serving = [o \in Observed |->
                IF Held(o, w[o] # {}, 0, 0).joining THEN {} ELSE {o} \cup w[o]]
          /\ lapsed = [o \in Observed |-> FALSE]
      BY DEF PolicyInit
    <2> QED
      BY <2>1
  <1> DEFINE W(o) == with(s, o)
  <1>2. ASSUME NEW o \in Observed
        PROVE  /\ W(o) \subseteq Others(o) /\ o \in Nodes /\ o \notin W(o)
               /\ Cardinality(W(o)) \in Nat /\ (W(o) # {} => Cardinality(W(o)) >= 1)
    <2>1. W(o) \subseteq Others(o) /\ o \in Nodes
      BY PolicyAssumption DEF Others
    <2>2. IsFiniteSet(W(o)) /\ o \notin W(o)
      BY <2>1, PolicyAssumption, FS_Subset DEF Others
    <2> HIDE DEF W
    <2>3. Cardinality(W(o)) \in Nat /\ (Cardinality(W(o)) = 0 <=> W(o) = {})
      BY <2>2, FS_CardinalityType, FS_EmptySet
    <2> QED
      BY <2>1, <2>2, <2>3
  <1>3. \A o \in Observed :
           /\ view[o] = [p \in Nodes |-> IF p \in W(o) THEN "alive" ELSE Stranger]
           /\ quorumSize[o] = 1 + Cardinality(W(o))
           /\ hasJoined[o] = (W(o) # {}) /\ floored[o] = 0 /\ lapsed[o] = FALSE
           /\ serving[o] = IF Held(o, W(o) # {}, 0, 0).joining THEN {} ELSE {o} \cup W(o)
    BY <1>1
  <1>4. /\ view = [o \in Observed |-> view[o]] /\ quorumSize = [o \in Observed |-> quorumSize[o]]
        /\ serving = [o \in Observed |-> serving[o]]
    BY <1>1
  <1>5. hasJoined \in [Observed -> BOOLEAN] /\ floored \in [Observed -> Nat]
        /\ lapsed \in [Observed -> BOOLEAN]
    BY <1>1
  <1> HIDE DEF W, with
  <1>6. ASSUME NEW o \in Observed
        PROVE  /\ view[o] \in [Nodes -> LiveStatus \cup {"dead", "departed", Stranger}]
               /\ quorumSize[o] \in Nat /\ serving[o] \in SUBSET Nodes
               /\ \A p \in Others(o) : view[o][p] # "departed"
               /\ o \notin gone /\ (serving[o] # {} => o \in serving[o])
               /\ hasJoined[o] => quorumSize[o] > 1
               /\ policy = "quorum" => serving[o] # {o}
    <2>1. \A p \in Nodes : view[o][p] \in {"alive", Stranger}
      BY <1>3
    <2>2. view[o] \in [Nodes -> LiveStatus \cup {"dead", "departed", Stranger}]
      BY <1>3 DEF LiveStatus
    <2>3. \A p \in Others(o) : view[o][p] # "departed"
      BY <2>1 DEF Others, Stranger
    <2>4. o \notin gone
      BY DEF PolicyInit
    <2>5. quorumSize[o] \in Nat /\ (hasJoined[o] => quorumSize[o] > 1)
      <3>1. quorumSize[o] = 1 + Cardinality(W(o)) /\ (hasJoined[o] => W(o) # {})
        BY <1>3, Zenon
      <3> QED
        BY <1>2, <3>1
    <2>6. serving[o] \in SUBSET Nodes /\ (serving[o] # {} => o \in serving[o])
      BY <1>2, <1>3 DEF Others
    <2>7. ASSUME policy = "quorum" PROVE serving[o] # {o}
      <3>1. CASE W(o) = {}
        <4>1. Held(o, W(o) # {}, 0, 0).joining
          BY <2>7, <3>1 DEF SeveralFound, Held
        <4> QED
          BY <1>3, <4>1
      <3>2. CASE W(o) # {}
        <4>1. ~Held(o, W(o) # {}, 0, 0).joining
          BY <3>2 DEF Held
        <4> QED
          BY <1>2, <1>3, <3>2, <4>1
      <3> QED
        BY <3>1, <3>2
    <2> QED
      BY <2>2, <2>3, <2>4, <2>5, <2>6, <2>7
  <1>7. LastOne
    BY <1>1, <1>4, <1>5, <1>6 DEF LastOne
  <1>8. ASSUME policy = "quorum", NEW o \in Observed PROVE NobodyElse(o) /\ ServesInCompany(o)
    <2>1. quorumSize[o] \in Nat
      BY <1>6
    <2> QED
      BY <1>6, <1>8, <2>1 DEF NobodyElse, ServesInCompany
  <1> QED
    BY <1>7, <1>8 DEF InCompany

\* Others' changes leave a node's part of InCompany alone.
LEMMA CompanyUntouched ==
    ASSUME InCompany, start' = start, gone' = gone,
           view' \in [Observed -> [Nodes -> LiveStatus \cup {"dead", "departed", Stranger}]],
           \A o \in Observed : \A p \in Others(o) :
               view'[o][p] = "departed" => view[o][p] = "departed",
           quorumSize' = quorumSize, serving' = serving, lapsed' = lapsed,
           hasJoined' = hasJoined, floored' = floored
    PROVE  InCompany'
  <1>1. LastOne'
    BY DEF InCompany, LastOne, Others
  <1>2. ASSUME policy' = "quorum", NEW o \in Observed PROVE NobodyElse(o)' /\ ServesInCompany(o)'
    <2>1. NobodyElse(o) /\ ServesInCompany(o)
      BY <1>2 DEF InCompany, policy
    <2> QED
      BY <2>1 DEF NobodyElse, ServesInCompany
  <1> QED
    BY <1>1, <1>2 DEF InCompany

\* What InCompany says of a node that is followed.
LEMMA FollowedCompany ==
    ASSUME InCompany, NEW o \in start.followed
    PROVE  o \in Observed /\ Others(o) \subseteq Nodes /\ o \in Nodes /\ o \notin Others(o)
  BY PolicyAssumption DEF InCompany, LastOne, Others

\* A round finds a majority of the nodes it knows, or keeps the size it remembers.
LEMMA CompanyRound ==
    ASSUME SeveralFound, InCompany, NEW o \in start.followed, PolicyRound(o)
    PROVE  InCompany'
  <1>0. o \in Observed /\ o \in Nodes /\ o \notin Others(o)
    BY FollowedCompany
  <1> DEFINE size    == ClusterSize(o)
             known   == KnownForQuorum(o)
             alive   == AliveCount(o)
             counted == IF Lapses(o) THEN known ELSE Counted(o)
             quorum  == HasQuorum(alive, counted)
             floor   == IF policy = "quorum" /\ ~quorum THEN HeardWithin ELSE Max({floored[o] - 1, 0})
             ref     == Max({refusing[o] - 1, 0})
             joins   == hasJoined[o] \/ size > 1
             h       == Held(o, joins, floor, ref)
             qs      == IF quorum THEN known ELSE counted
             now     == IF h.joining \/ h.without_quorum THEN {} ELSE {o} \cup InView(o, {"alive"})
  <1>1. /\ start' = start /\ view' = view /\ gone' = gone /\ o \notin gone
        /\ quorumSize' = [quorumSize EXCEPT ![o] = qs]
        /\ hasJoined' = [hasJoined EXCEPT ![o] = joins]
        /\ floored' = [floored EXCEPT ![o] = floor]
        /\ serving' = [serving EXCEPT ![o] = now]
        /\ lapsed' = [lapsed EXCEPT ![o] = @ \/ Lapses(o)]
    BY DEF PolicyRound, UpToDate
  <1>2. /\ alive \in Nat /\ size \in Nat /\ known \in Nat
        /\ 1 <= alive /\ alive <= size /\ size <= known
        /\ alive = 1 <=> InView(o, {"alive"}) = {}
    BY <1>0, QuorumCounts
  <1>3. quorumSize[o] \in Nat /\ floored[o] \in Nat /\ hasJoined[o] \in BOOLEAN
    BY <1>0 DEF InCompany, LastOne
  <1>4. Counted(o) \in Nat /\ Counted(o) >= known /\ Counted(o) >= quorumSize[o]
    <2>1. Max({known, quorumSize[o]}) \in {known, quorumSize[o]}
          /\ Max({known, quorumSize[o]}) >= known /\ Max({known, quorumSize[o]}) >= quorumSize[o]
      BY <1>2, <1>3, MaxOfTwo
    <2> QED
      BY <1>2, <1>3, <2>1 DEF Counted
  <1>5. quorum <=> 2 * alive > counted
    BY DEF HasQuorum
  <1>6. joins \in BOOLEAN
    BY <1>3
  <1>7. /\ h.joining = (~joins /\ SeedsOf(o) # {} /\ policy # "optimistic")
        /\ h.without_quorum = (policy = "quorum" /\ floor > 0)
    BY DEF Held
  <1>8. /\ floor \in Nat
        /\ (policy = "quorum" /\ ~quorum) => floor > 0
    BY <1>3, OneLess, PolicyAssumption
  <1>9. now \in SUBSET Nodes /\ (now # {} => o \in now)
    BY <1>0 DEF InView, Others
  <1>10. now = {o} => InView(o, {"alive"}) = {} /\ ~h.joining /\ ~h.without_quorum
    BY <1>0 DEF InView
  <1>11. counted \in Nat /\ counted >= known /\ qs \in Nat
         /\ (~Lapses(o) => counted >= quorumSize[o])
    BY <1>2, <1>4
  <1> HIDE DEF now, h, floor, ref, size, known, alive, counted, quorum
  <1>12. ASSUME policy = "quorum", ~lapsed[o], ~Lapses(o), joins, qs <= 1
         PROVE  Others(o) \subseteq gone
    <2>1. quorumSize[o] <= 1 /\ ~(size > 1)
      BY <1>2, <1>3, <1>5, <1>11, <1>12
    <2> QED
      BY <1>0, <1>12, <2>1 DEF InCompany, NobodyElse
  <1>13. ASSUME policy = "quorum", ~lapsed[o], ~Lapses(o), now = {o}
         PROVE  Others(o) \subseteq gone
    <2>1. alive = 1 /\ ~h.joining /\ ~h.without_quorum
      BY <1>2, <1>10, <1>13
    <2>2. joins
      BY <1>0, <1>6, <1>7, <1>13, <2>1 DEF SeveralFound
    <2>3. quorum
      BY <1>7, <1>8, <1>13, <2>1
    <2>4. qs <= 1
      BY <1>2, <1>5, <1>11, <2>1, <2>3
    <2> QED
      BY <1>12, <1>13, <2>2, <2>4
  <1> HIDE DEF qs, joins
  <1>14. LastOne'
    <2>1. /\ start' \in Starts
          /\ view' \in [Observed -> [Nodes -> LiveStatus \cup {"dead", "departed", Stranger}]]
          /\ quorumSize' \in [Observed -> Nat] /\ serving' \in [Observed -> SUBSET Nodes]
          /\ hasJoined' \in [Observed -> BOOLEAN] /\ floored' \in [Observed -> Nat]
      BY <1>0, <1>1, <1>6, <1>8, <1>9, <1>11 DEF InCompany, LastOne
    <2>2. lapsed' \in [Observed -> BOOLEAN]
      BY <1>0, <1>1 DEF InCompany, LastOne, Lapses, HasQuorum
    <2>3. ASSUME NEW x \in Observed
          PROVE  /\ \A p \in Others(x) : view'[x][p] = "departed" => p \in gone'
                 /\ x \in gone' => serving'[x] = {}
                 /\ serving'[x] # {} => x \in serving'[x]
      <3>1. CASE x = o
        <4>1. serving'[x] = now
          BY <1>0, <1>1, <3>1 DEF InCompany, LastOne
        <4> QED
          BY <1>0, <1>1, <1>9, <3>1, <4>1 DEF InCompany, LastOne
      <3>2. CASE x # o
        <4>1. serving'[x] = serving[x]
          BY <1>1, <3>2 DEF InCompany, LastOne
        <4> QED
          BY <1>1, <4>1 DEF InCompany, LastOne
      <3> QED
        BY <3>1, <3>2
    <2> QED
      BY <2>1, <2>2, <2>3 DEF LastOne, Others
  <1>15. ASSUME policy' = "quorum", NEW x \in Observed
         PROVE  NobodyElse(x)' /\ ServesInCompany(x)'
    <2>0. policy = "quorum"
      BY <1>1, <1>15 DEF policy
    <2>1. CASE x = o
      <3>1. /\ quorumSize'[x] = qs /\ (hasJoined'[x] <=> joins) /\ serving'[x] = now
            /\ lapsed'[x] <=> (lapsed[o] \/ Lapses(o))
        BY <1>0, <1>1, <2>1 DEF InCompany, LastOne
      <3> QED
        BY <1>1, <1>12, <1>13, <2>0, <2>1, <3>1 DEF NobodyElse, ServesInCompany, Others
    <2>2. CASE x # o
      <3>1. /\ quorumSize'[x] = quorumSize[x] /\ hasJoined'[x] = hasJoined[x]
            /\ serving'[x] = serving[x] /\ lapsed'[x] = lapsed[x]
        BY <1>1, <2>2 DEF InCompany, LastOne
      <3>2. NobodyElse(x) /\ ServesInCompany(x)
        BY <2>0 DEF InCompany
      <3> QED
        BY <1>1, <3>1, <3>2 DEF NobodyElse, ServesInCompany
    <2> QED
      BY <2>1, <2>2
  <1> QED
    BY <1>14, <1>15 DEF InCompany

\* A leave counts its sender out; whoever else is unknown by then has left too, or
\* the node has lapsed.
LEMMA CompanyHearLeave ==
    ASSUME InCompany, NEW o \in start.followed, NEW p \in Others(o), HearLeave(o, p)
    PROVE  InCompany'
  <1>0. o \in Observed /\ o \in Nodes /\ o \notin Others(o) /\ p \in Nodes
    BY FollowedCompany
  <1> DEFINE departed == [view EXCEPT ![o][p] = "departed"]
             seen == {q \in Others(o) : departed[o][q] \in LiveStatus \cup {"dead"}}
             known == 1 + Cardinality(seen)
             qs == Max({quorumSize[o] - 1, known})
             forgotten == \E q \in Others(o) \ gone : view[o][q] = Stranger
  <1>1. /\ start' = start /\ gone' = gone /\ p \in gone
        /\ view' = departed /\ serving' = serving /\ hasJoined' = hasJoined
        /\ floored' = floored
        /\ quorumSize' = [quorumSize EXCEPT ![o] = qs]
        /\ lapsed' = [lapsed EXCEPT ![o] = @ \/ forgotten]
    BY DEF HearLeave
  <1>2. /\ departed \in [Observed -> [Nodes -> LiveStatus \cup {"dead", "departed", Stranger}]]
        /\ departed[o][p] = "departed"
        /\ \A q \in Nodes \ {p} : departed[o][q] = view[o][q]
        /\ \A x \in Observed \ {o} : departed[x] = view[x]
    BY <1>0 DEF InCompany, LastOne
  <1> HIDE DEF departed
  <1>3. Cardinality(seen) \in Nat /\ (Cardinality(seen) = 0 => seen = {})
    <2>1. IsFiniteSet(seen)
      BY PolicyAssumption, FS_Subset DEF Others
    <2> QED
      BY <2>1, FS_CardinalityType, FS_EmptySet
  <1>4. quorumSize[o] \in Nat
    BY <1>0 DEF InCompany, LastOne
  <1>5. qs \in Nat /\ qs >= known /\ (qs = quorumSize[o] - 1 \/ qs = known)
    <2> HIDE DEF seen
    <2>1. CASE quorumSize[o] - 1 \in Nat
      <3>1. /\ qs \in {quorumSize[o] - 1, known} /\ qs >= quorumSize[o] - 1 /\ qs >= known
        BY <1>3, <2>1, MaxOfTwo
      <3> QED
        BY <1>3, <2>1, <3>1
    <2>2. CASE quorumSize[o] = 0
      <3>1. PICK k \in Nat : k = known /\ k >= 1
        BY <1>3
      <3>2. quorumSize[o] - 1 = -1
        BY <2>2
      <3>3. k \in {-1, k} /\ \A x \in {-1, k} : k >= x
        BY <3>1
      <3>4. Max({-1, k}) \in {-1, k} /\ \A x \in {-1, k} : Max({-1, k}) >= x
        BY <3>3 DEF Max
      <3>5. Max({-1, k}) = k
        <4>1. PICK m : m = Max({-1, k}) /\ m \in {-1, k} /\ m >= k
          BY <3>3, <3>4
        <4> QED
          BY <3>1, <4>1
      <3>6. qs = k
        BY <3>1, <3>2, <3>5
      <3> QED
        BY <3>1, <3>6
    <2> QED
      BY <1>4, <2>1, <2>2
  <1>6. ASSUME qs <= 1, ~forgotten PROVE Others(o) \subseteq gone
    <2>1. seen = {}
      <3> HIDE DEF seen, qs
      <3> QED
        BY <1>3, <1>5, <1>6
    <2>2. ASSUME NEW q \in Others(o), q \notin gone PROVE FALSE
      <3>1. view[o][q] # Stranger /\ q \in Nodes /\ q # p
        BY <1>1, <1>6, <2>2 DEF Others
      <3>2. departed[o][q] = view[o][q] /\ departed[o][q] \notin LiveStatus \cup {"dead"}
        BY <1>2, <2>1, <3>1
      <3>3. view[o][q] \in LiveStatus \cup {"dead", "departed", Stranger}
        BY <1>0, <3>1 DEF InCompany, LastOne
      <3>4. view[o][q] = "departed"
        BY <3>1, <3>2, <3>3
      <3> QED
        BY <1>0, <2>2, <3>4 DEF InCompany, LastOne
    <2> QED
      BY <2>2
  <1> HIDE DEF qs, forgotten, seen
  <1>7. LastOne'
    <2>1. /\ start' \in Starts
          /\ view' \in [Observed -> [Nodes -> LiveStatus \cup {"dead", "departed", Stranger}]]
          /\ quorumSize' \in [Observed -> Nat] /\ serving' \in [Observed -> SUBSET Nodes]
          /\ hasJoined' \in [Observed -> BOOLEAN] /\ floored' \in [Observed -> Nat]
      BY <1>0, <1>1, <1>2, <1>5 DEF InCompany, LastOne
    <2>2. lapsed' \in [Observed -> BOOLEAN]
      <3>1. forgotten \in BOOLEAN
        BY DEF forgotten
      <3> QED
        BY <1>0, <1>1, <3>1 DEF InCompany, LastOne
    <2>3. ASSUME NEW x \in Observed, NEW q \in Others(x), view'[x][q] = "departed" PROVE q \in gone'
      <3>1. q \in Nodes
        BY DEF Others
      <3>2. CASE x = o /\ q = p
        BY <1>1, <3>2
      <3>3. CASE ~(x = o /\ q = p)
        <4>1. view[x][q] = "departed"
          BY <1>1, <1>2, <2>3, <3>1, <3>3
        <4> QED
          BY <1>1, <2>3, <4>1 DEF InCompany, LastOne
      <3> QED
        BY <3>2, <3>3
    <2>4. ASSUME NEW x \in Observed
          PROVE  /\ x \in gone' => serving'[x] = {}
                 /\ serving'[x] # {} => x \in serving'[x]
      BY <1>1 DEF InCompany, LastOne
    <2> QED
      BY <2>1, <2>2, <2>3, <2>4 DEF LastOne, Others
  <1>8. ASSUME policy' = "quorum", NEW x \in Observed
         PROVE  NobodyElse(x)' /\ ServesInCompany(x)'
    <2>0. policy = "quorum" /\ NobodyElse(x) /\ ServesInCompany(x)
      BY <1>1, <1>8 DEF InCompany, policy
    <2>1. CASE x = o
      <3>1. /\ quorumSize'[x] = qs /\ hasJoined'[x] = hasJoined[o] /\ serving'[x] = serving[o]
            /\ lapsed'[x] <=> (lapsed[o] \/ forgotten)
        BY <1>0, <1>1, <2>1 DEF InCompany, LastOne
      <3> QED
        BY <1>1, <1>6, <2>0, <2>1, <3>1 DEF NobodyElse, ServesInCompany, Others
    <2>2. CASE x # o
      <3>1. /\ quorumSize'[x] = quorumSize[x] /\ hasJoined'[x] = hasJoined[x]
            /\ serving'[x] = serving[x] /\ lapsed'[x] = lapsed[x]
        BY <1>1, <2>2 DEF InCompany, LastOne
      <3> QED
        BY <1>1, <2>0, <3>1 DEF NobodyElse, ServesInCompany
    <2> QED
      BY <2>1, <2>2
  <1> QED
    BY <1>7, <1>8 DEF InCompany

\* A node that leaves serves nothing any more; the others have one less to wait for.
LEMMA CompanyLeaves ==
    ASSUME InCompany, NEW p \in Leavers, LeaveOnPurpose(p)
    PROVE  InCompany'
  <1>1. /\ start' = start /\ view' = view /\ quorumSize' = quorumSize /\ lapsed' = lapsed
        /\ hasJoined' = hasJoined /\ floored' = floored /\ gone' = gone \cup {p}
        /\ serving' = [o \in Observed |-> IF o = p THEN {} ELSE serving[o]]
    BY DEF LeaveOnPurpose
  <1>2. LastOne'
    BY <1>1 DEF InCompany, LastOne, Others
  <1>3. ASSUME policy' = "quorum", NEW x \in Observed
         PROVE  NobodyElse(x)' /\ ServesInCompany(x)'
    <2>1. NobodyElse(x) /\ ServesInCompany(x)
      BY <1>1, <1>3 DEF InCompany, policy
    <2> QED
      BY <1>1, <2>1 DEF NobodyElse, ServesInCompany, Others
  <1> QED
    BY <1>2, <1>3 DEF InCompany

\* Every step keeps InCompany.
LEMMA CompanyStep == SeveralFound /\ InCompany /\ [PolicyNext]_policyVars => InCompany'
  <1> SUFFICES ASSUME SeveralFound, InCompany, [PolicyNext]_policyVars PROVE InCompany'
    OBVIOUS
  <1>0. view \in [Observed -> [Nodes -> LiveStatus \cup {"dead", "departed", Stranger}]]
    BY DEF InCompany, LastOne
  <1>1. CASE \E o \in start.followed : PolicyRound(o)
    BY <1>1, CompanyRound
  <1>2. CASE \E o \in start.followed : \E p \in Others(o) : HearLeave(o, p)
    BY <1>2, CompanyHearLeave
  <1>3. CASE \E p \in Leavers : LeaveOnPurpose(p)
    BY <1>3, CompanyLeaves
  <1>4. CASE \E o \in start.followed : Refuse(o)
    BY <1>0, <1>4, CompanyUntouched DEF Refuse
  <1>5. ASSUME NEW o \in start.followed, NEW p \in Others(o), NEW status,
               status \in LiveStatus \cup {"dead", Stranger},
               view' = [view EXCEPT ![o][p] = status],
               start' = start, gone' = gone, quorumSize' = quorumSize, serving' = serving,
               lapsed' = lapsed, hasJoined' = hasJoined, floored' = floored
        PROVE  InCompany'
    <2>1. o \in Observed /\ p \in Nodes
      BY <1>5, FollowedCompany
    <2>2. view' \in [Observed -> [Nodes -> LiveStatus \cup {"dead", "departed", Stranger}]]
      BY <1>0, <1>5, <2>1
    <2>3. status # "departed"
      BY <1>5 DEF LiveStatus, Stranger
    <2>4. \A x \in Observed : \A q \in Others(x) :
             view'[x][q] = "departed" => view[x][q] = "departed"
      BY <1>0, <1>5, <2>1, <2>3 DEF Others
    <2> QED
      BY <1>5, <2>2, <2>4, CompanyUntouched
  <1>6. CASE \E o \in start.followed : \E p \in Others(o) : Die(o, p)
    BY <1>5, <1>6 DEF Die
  <1>7. CASE \E o \in start.followed : \E p \in Others(o) : Forget(o, p)
    BY <1>5, <1>7 DEF Forget
  <1>8. CASE \E o \in start.followed : \E p \in Others(o) : Hear(o, p)
    BY <1>5, <1>8 DEF Hear, LiveStatus
  <1>9. CASE \E o \in start.followed : \E p \in Others(o) : Suspect(o, p)
    BY <1>5, <1>9 DEF Suspect, LiveStatus
  <1>10. CASE UNCHANGED policyVars
    BY <1>0, <1>10, CompanyUntouched DEF policyVars
  <1> QED
    BY <1>1, <1>2, <1>3, <1>4, <1>6, <1>7, <1>8, <1>9, <1>10 DEF PolicyNext, Decay

\* Under Quorum a node with somebody to join never serves above the floor alone,
\* whatever it suspected, buried, forgot or was told, unless all the others have
\* left on purpose: so long as it has not lapsed.
THEOREM NobodyServesAlone ==
    ASSUME SeveralFound
    PROVE  PolicySpec => [](policy = "quorum" => \A o \in Observed : ServesInCompany(o))
  <1>1. InCompany => (policy = "quorum" => \A o \in Observed : ServesInCompany(o))
    BY DEF InCompany
  <1>2. (PolicyInit => InCompany) /\ (InCompany /\ [PolicyNext]_policyVars => InCompany')
    BY CompanyInit, CompanyStep
  <1> QED
    BY <1>1, <1>2, PTL DEF PolicySpec

\* Two sets of at least two nodes of at most three share one.
LEMMA TwoOfThree ==
    ASSUME Cardinality(Nodes) <= 3, NEW A \in SUBSET Nodes, NEW B \in SUBSET Nodes,
           Cardinality(A) >= 2, Cardinality(B) >= 2
    PROVE  A \cap B # {}
  <1> SUFFICES ASSUME A \cap B = {} PROVE FALSE
    OBVIOUS
  <1>1. IsFiniteSet(Nodes) /\ IsFiniteSet(A) /\ IsFiniteSet(B)
    BY PolicyAssumption, FS_Subset
  <1>2. Cardinality({}) = 0 /\ Cardinality(A \cap B) = Cardinality({})
    BY FS_EmptySet
  <1>3. /\ Cardinality(A) \in Nat /\ Cardinality(B) \in Nat /\ Cardinality(Nodes) \in Nat
    BY <1>1, FS_CardinalityType
  <1>4. IsFiniteSet(A \cup B) /\ Cardinality(A \cup B) = Cardinality(A) + Cardinality(B) - Cardinality(A \cap B)
    BY <1>1, FS_Union
  <1>5. A \cup B \subseteq Nodes
    OBVIOUS
  <1>6. Cardinality(A \cup B) <= Cardinality(Nodes)
    BY <1>1, <1>5, FS_Subset
  <1> QED
    BY <1>2, <1>3, <1>4, <1>6

\* A set with a node in it and more than that node has two.
LEMMA MoreThanOne ==
    ASSUME NEW a, NEW A \in SUBSET Nodes, a \in A, A # {a}
    PROVE  Cardinality(A) >= 2
  <1>1. PICK b \in A : b # a
    OBVIOUS
  <1>2. IsFiniteSet(A) /\ IsFiniteSet({a, b}) /\ {a, b} \subseteq A
    BY <1>1, PolicyAssumption, FS_Subset
  <1>3. Cardinality({a, b}) = 2
    <2>1. IsFiniteSet({a}) /\ Cardinality({a}) = 1 /\ b \notin {a}
      BY <1>1, FS_Singleton
    <2>2. Cardinality({a} \cup {b}) = Cardinality({a}) + 1
      BY <2>1, FS_AddElement
    <2>3. {a} \cup {b} = {a, b}
      OBVIOUS
    <2> QED
      BY <2>1, <2>2, <2>3
  <1> QED
    BY <1>2, <1>3, FS_Subset

\* Under Quorum, a cluster of up to three nodes with no lone founder never has two
\* groups serve above the floor that share no node, until one of them has lapsed.
THEOREM ThreeAreNeverTwo ==
    ASSUME SeveralFound, Cardinality(Nodes) <= 3
    PROVE  PolicySpec => []NoTwoWholes
  <1>1. InCompany => NoTwoWholes
    <2> SUFFICES ASSUME InCompany, policy = "quorum",
                        NEW a \in Observed, NEW b \in Observed,
                        serving[a] # {}, serving[b] # {}, ~lapsed[a], ~lapsed[b],
                        serving[a] \cap serving[b] = {}
                 PROVE  FALSE
      BY DEF NoTwoWholes
    <2>1. /\ a \in serving[a] /\ b \in serving[b] /\ a \notin gone /\ b \notin gone
          /\ serving[a] \in SUBSET Nodes /\ serving[b] \in SUBSET Nodes
      BY DEF InCompany, LastOne
    <2>2. a \in Others(b) /\ b \in Others(a)
      BY <2>1 DEF Others
    <2>3. serving[a] # {a} /\ serving[b] # {b}
      BY <2>1, <2>2 DEF InCompany, ServesInCompany
    <2>4. Cardinality(serving[a]) >= 2 /\ Cardinality(serving[b]) >= 2
      BY <2>1, <2>3, MoreThanOne
    <2> QED
      BY <2>1, <2>4, TwoOfThree
  <1>2. (PolicyInit => InCompany) /\ (InCompany /\ [PolicyNext]_policyVars => InCompany')
    BY CompanyInit, CompanyStep
  <1> QED
    BY <1>1, <1>2, PTL DEF PolicySpec

\* Before any tombstone goes: nobody is forgotten, and nobody leaves.
NobodyForgotten ==
    /\ gone' = gone
    /\ \A o \in Observed, p \in Nodes : view'[o][p] = Stranger => view[o][p] = Stranger

\* A cluster that formed knows all its nodes, and who serves sees most of them.
SeesMost(o) == serving[o] = {} \/ 2 * Cardinality(serving[o]) > Cardinality(Nodes)

WholeKnown ==
    /\ start \in Starts /\ gone = {}
    /\ view \in [Observed -> [Nodes -> LiveStatus \cup {"dead", "departed", Stranger}]]
    /\ quorumSize \in [Observed -> Nat] /\ floored \in [Observed -> Nat]
    /\ serving \in [Observed -> SUBSET Nodes]
    /\ start.formed =>
          \A o \in Observed : \A p \in Others(o) : view[o][p] \in LiveStatus \cup {"dead"}
    /\ start.formed /\ policy = "quorum" => \A o \in Observed : SeesMost(o)

\* A node that knows of every other counts the whole cluster.
LEMMA CountsAll ==
    ASSUME NEW o \in Observed, \A p \in Others(o) : view[o][p] \in LiveStatus \cup {"dead"}
    PROVE  KnownForQuorum(o) = Cardinality(Nodes)
  <1> DEFINE L == InView(o, LiveStatus)
             D == InView(o, {"dead"})
  <1>1. L \cup D = Others(o) /\ L \cap D = {}
    BY DEF InView, LiveStatus
  <1>2. IsFiniteSet(L) /\ IsFiniteSet(D) /\ IsFiniteSet(Nodes) /\ o \in Nodes
    BY <1>1, PolicyAssumption, FS_Subset DEF InView, Others
  <1>3. Cardinality(L \cup D) = Cardinality(L) + Cardinality(D) - Cardinality(L \cap D)
    BY <1>2, FS_Union
  <1>4. /\ Cardinality(L) \in Nat /\ Cardinality(D) \in Nat /\ Cardinality(Nodes) \in Nat
        /\ Cardinality(L \cap D) = 0
    BY <1>1, <1>2, FS_CardinalityType, FS_EmptySet
  <1>5. Cardinality(Others(o)) = Cardinality(Nodes) - 1
    BY <1>2, FS_RemoveElement DEF Others
  <1>6. KnownForQuorum(o) = (1 + Cardinality(L)) + Cardinality(D)
    BY DEF KnownForQuorum, ClusterSize
  <1> HIDE DEF L, D
  <1>7. Cardinality(Others(o)) = Cardinality(L) + Cardinality(D) - Cardinality(L \cap D)
    BY <1>1, <1>3, Zenon
  <1> QED
    BY <1>4, <1>5, <1>6, <1>7

\* WholeKnown holds at the start.
LEMMA WholeInit == Founders = Nodes /\ PolicyInit => WholeKnown
  <1> SUFFICES ASSUME Founders = Nodes, PolicyInit PROVE WholeKnown
    OBVIOUS
  <1>1. PICK s \in Starts :
          LET w == [o \in Observed |-> IF s.formed /\ o \in Founders THEN Founders \ {o} ELSE {}]
              size == [o \in Observed |-> 1 + Cardinality(w[o])]
          IN
          /\ start = s
          /\ view = [o \in Observed |-> [p \in Nodes |-> IF p \in w[o] THEN "alive" ELSE Stranger]]
          /\ quorumSize = size
          /\ floored = [o \in Observed |-> 0]
          /\ gone = {}
          /\ serving = [o \in Observed |->
                IF Held(o, w[o] # {}, 0, 0).joining THEN {} ELSE {o} \cup w[o]]
    BY DEF PolicyInit
  <1> DEFINE W(o) == IF s.formed /\ o \in Founders THEN Founders \ {o} ELSE {}
  <1>2. \A o \in Observed :
           /\ view[o] = [p \in Nodes |-> IF p \in W(o) THEN "alive" ELSE Stranger]
           /\ quorumSize[o] = 1 + Cardinality(W(o))
           /\ serving[o] = IF Held(o, W(o) # {}, 0, 0).joining THEN {} ELSE {o} \cup W(o)
    BY <1>1
  <1>3. /\ view = [o \in Observed |-> view[o]] /\ quorumSize = [o \in Observed |-> quorumSize[o]]
        /\ serving = [o \in Observed |-> serving[o]] /\ floored \in [Observed -> Nat]
    BY <1>1
  <1>4. ASSUME NEW o \in Observed
        PROVE  /\ W(o) \subseteq Others(o) /\ o \in Nodes /\ Cardinality(W(o)) \in Nat
               /\ (s.formed => W(o) = Others(o))
    <2>1. W(o) \subseteq Others(o) /\ o \in Nodes /\ (s.formed => W(o) = Others(o))
      BY PolicyAssumption DEF Others
    <2>2. IsFiniteSet(W(o))
      BY <2>1, PolicyAssumption, FS_Subset DEF Others
    <2> QED
      BY <2>1, <2>2, FS_CardinalityType
  <1> HIDE DEF W
  <1>5. ASSUME NEW o \in Observed
        PROVE  /\ view[o] \in [Nodes -> LiveStatus \cup {"dead", "departed", Stranger}]
               /\ quorumSize[o] \in Nat /\ serving[o] \in SUBSET Nodes
    <2>1. view[o] \in [Nodes -> LiveStatus \cup {"dead", "departed", Stranger}]
      BY <1>2 DEF LiveStatus
    <2>2. serving[o] \in SUBSET Nodes
      BY <1>2, <1>4 DEF Others
    <2>3. quorumSize[o] \in Nat
      <3>1. quorumSize[o] = 1 + Cardinality(W(o)) /\ Cardinality(W(o)) \in Nat
        BY <1>2, <1>4, Zenon
      <3> QED
        BY <3>1
    <2> QED
      BY <2>1, <2>2, <2>3
  <1>6. ASSUME s.formed, NEW o \in Observed
        PROVE  /\ \A p \in Others(o) : view[o][p] \in LiveStatus \cup {"dead"}
               /\ SeesMost(o)
    <2>1. W(o) = Others(o)
      BY <1>4, <1>6
    <2>2. \A p \in Others(o) : view[o][p] \in LiveStatus \cup {"dead"}
      BY <1>2, <2>1 DEF LiveStatus, Others
    <2>3. serving[o] = {} \/ serving[o] = Nodes
      BY <1>2, <1>4, <2>1, ZenonT(40) DEF Others
    <2>4. Cardinality(Nodes) \in Nat /\ (Cardinality(Nodes) = 0 <=> Nodes = {})
      BY PolicyAssumption, FS_CardinalityType, FS_EmptySet
    <2>5. SeesMost(o)
      BY <1>4, <2>3, <2>4 DEF SeesMost
    <2> QED
      BY <2>2, <2>5
  <1> QED
    BY <1>1, <1>3, <1>5, <1>6 DEF WholeKnown

\* A round counts at least the whole cluster, so whom it serves are most of it.
LEMMA WholeRound ==
    ASSUME WholeKnown, NEW o \in start.followed, PolicyRound(o)
    PROVE  WholeKnown'
  <1>0. o \in Observed /\ o \in Nodes /\ o \notin Others(o)
    BY PolicyAssumption DEF WholeKnown, Others
  <1> DEFINE size    == ClusterSize(o)
             known   == KnownForQuorum(o)
             alive   == AliveCount(o)
             counted == IF Lapses(o) THEN known ELSE Counted(o)
             quorum  == HasQuorum(alive, counted)
             floor   == IF policy = "quorum" /\ ~quorum THEN HeardWithin ELSE Max({floored[o] - 1, 0})
             ref     == Max({refusing[o] - 1, 0})
             joins   == hasJoined[o] \/ size > 1
             h       == Held(o, joins, floor, ref)
             qs      == IF quorum THEN known ELSE counted
             near    == InView(o, {"alive"})
             now     == IF h.joining \/ h.without_quorum THEN {} ELSE {o} \cup near
  <1>1. /\ start' = start /\ view' = view /\ gone' = gone
        /\ quorumSize' = [quorumSize EXCEPT ![o] = qs]
        /\ floored' = [floored EXCEPT ![o] = floor]
        /\ serving' = [serving EXCEPT ![o] = now]
    BY DEF PolicyRound
  <1>2. alive \in Nat /\ known \in Nat
    BY <1>0, QuorumCounts
  <1>3. quorumSize[o] \in Nat /\ floored[o] \in Nat
    BY <1>0 DEF WholeKnown
  <1>4. Counted(o) \in Nat /\ Counted(o) >= known
    <2>1. Max({known, quorumSize[o]}) \in {known, quorumSize[o]}
          /\ Max({known, quorumSize[o]}) >= known
      BY <1>2, <1>3, MaxOfTwo
    <2> QED
      BY <1>2, <1>3, <2>1 DEF Counted
  <1>5. quorum <=> 2 * alive > counted
    BY DEF HasQuorum
  <1>6. h.without_quorum = (policy = "quorum" /\ floor > 0)
    BY DEF Held
  <1>7. floor \in Nat /\ ((policy = "quorum" /\ ~quorum) => floor > 0)
    BY <1>3, OneLess, PolicyAssumption
  <1>8. now \in SUBSET Nodes /\ near \subseteq Nodes /\ o \notin near
    BY <1>0 DEF InView, Others
  <1>9. counted \in Nat /\ counted >= known /\ qs \in Nat
    BY <1>2, <1>4
  <1>10. Cardinality({o} \cup near) = alive
    <2>1. near \subseteq Others(o)
      BY DEF InView
    <2> HIDE DEF near
    <2>2. Cardinality({o} \cup near) = 1 + Cardinality(near)
      BY <1>0, <2>1, SeenNow
    <2> QED
      BY <2>2 DEF near, AliveCount
  <1>11. now = {} \/ (~h.without_quorum /\ now = {o} \cup near)
    OBVIOUS
  <1> HIDE DEF now, h, floor, ref, size, known, alive, counted, quorum, near, qs
  <1>12. ASSUME start.formed, policy = "quorum", now # {}
         PROVE  2 * Cardinality(now) > Cardinality(Nodes)
    <2>1. known = Cardinality(Nodes)
      BY <1>0, <1>12, CountsAll DEF WholeKnown, known
    <2>2. quorum /\ Cardinality(now) = alive
      BY <1>6, <1>7, <1>10, <1>11, <1>12
    <2> QED
      BY <1>2, <1>5, <1>9, <2>1, <2>2
  <1>13. /\ start' \in Starts /\ gone' = {}
         /\ view' \in [Observed -> [Nodes -> LiveStatus \cup {"dead", "departed", Stranger}]]
         /\ quorumSize' \in [Observed -> Nat] /\ floored' \in [Observed -> Nat]
         /\ serving' \in [Observed -> SUBSET Nodes]
    BY <1>0, <1>1, <1>7, <1>8, <1>9 DEF WholeKnown
  <1>14. start'.formed => \A x \in Observed : \A p \in Others(x) : view'[x][p] \in LiveStatus \cup {"dead"}
    BY <1>1 DEF WholeKnown
  <1>15. ASSUME start'.formed, policy' = "quorum", NEW x \in Observed PROVE SeesMost(x)'
    <2>0. start.formed /\ policy = "quorum"
      BY <1>1, <1>15 DEF policy
    <2>1. CASE x = o
      <3>1. serving'[x] = now
        BY <1>0, <1>1, <2>1 DEF WholeKnown
      <3> QED
        BY <1>12, <2>0, <3>1 DEF SeesMost
    <2>2. CASE x # o
      <3>1. serving'[x] = serving[x] /\ SeesMost(x)
        BY <1>1, <2>0, <2>2 DEF WholeKnown
      <3> QED
        BY <3>1 DEF SeesMost
    <2> QED
      BY <2>1, <2>2
  <1> QED
    BY <1>13, <1>14, <1>15 DEF WholeKnown, Others

\* Every step by which nobody is forgotten and nobody leaves keeps WholeKnown.
LEMMA WholeStep ==
    WholeKnown /\ [PolicyNext /\ NobodyForgotten]_policyVars => WholeKnown'
  <1> SUFFICES ASSUME WholeKnown, [PolicyNext /\ NobodyForgotten]_policyVars PROVE WholeKnown'
    OBVIOUS
  <1>0. /\ view \in [Observed -> [Nodes -> LiveStatus \cup {"dead", "departed", Stranger}]]
        /\ gone = {} /\ start.followed \subseteq Observed
    BY PolicyAssumption DEF WholeKnown
  <1>1. CASE \E o \in start.followed : PolicyRound(o)
    BY <1>1, WholeRound
  <1>2. CASE \E o \in start.followed : \E p \in Others(o) : HearLeave(o, p)
    BY <1>0, <1>2 DEF HearLeave
  <1>3. ASSUME view' \in [Observed -> [Nodes -> LiveStatus \cup {"dead", "departed", Stranger}]],
               \A o \in Observed : \A p \in Others(o) :
                   view[o][p] \in LiveStatus \cup {"dead"} => view'[o][p] \in LiveStatus \cup {"dead"},
               start' = start, gone' = gone, quorumSize' = quorumSize, serving' = serving,
               floored' = floored
        PROVE  WholeKnown'
    <2>1. policy' = policy /\ \A o \in Observed : SeesMost(o)' = SeesMost(o)
      BY <1>3 DEF policy, SeesMost
    <2> QED
      BY <1>3, <2>1 DEF WholeKnown, Others
  <1>4. CASE \E o \in start.followed : Refuse(o)
    BY <1>0, <1>3, <1>4 DEF Refuse
  <1>5. ASSUME NEW o \in start.followed, NEW p \in Others(o), NEW status,
               status \in LiveStatus \cup {"dead"},
               view' = [view EXCEPT ![o][p] = status],
               start' = start, gone' = gone, quorumSize' = quorumSize, serving' = serving,
               floored' = floored
        PROVE  WholeKnown'
    <2>1. o \in Observed /\ p \in Nodes
      BY <1>0, <1>5 DEF Others
    <2>2. view' \in [Observed -> [Nodes -> LiveStatus \cup {"dead", "departed", Stranger}]]
      BY <1>0, <1>5, <2>1
    <2>3. \A x \in Observed : \A q \in Others(x) :
             view[x][q] \in LiveStatus \cup {"dead"} => view'[x][q] \in LiveStatus \cup {"dead"}
      BY <1>0, <1>5, <2>1 DEF Others
    <2> QED
      BY <1>3, <1>5, <2>2, <2>3
  <1>6. CASE \E o \in start.followed : \E p \in Others(o) : Die(o, p)
    BY <1>5, <1>6 DEF Die
  <1>7. CASE NobodyForgotten /\ \E o \in start.followed : \E p \in Others(o) : Forget(o, p)
    <2>0. PICK o \in start.followed : \E p \in Others(o) : Forget(o, p)
      BY <1>7
    <2>1. PICK p \in Others(o) : Forget(o, p)
      BY <2>0
    <2>2. o \in Observed /\ p \in Nodes
      BY <1>0, <2>1 DEF Others
    <2>3. view[o][p] # Stranger /\ view'[o][p] = Stranger
      BY <1>0, <2>1, <2>2 DEF Forget, Stranger
    <2> QED
      BY <1>7, <2>2, <2>3 DEF NobodyForgotten
  <1>8. CASE \E o \in start.followed : \E p \in Others(o) : Hear(o, p)
    BY <1>5, <1>8 DEF Hear, LiveStatus
  <1>9. CASE \E o \in start.followed : \E p \in Others(o) : Suspect(o, p)
    BY <1>5, <1>9 DEF Suspect, LiveStatus
  <1>10. CASE NobodyForgotten /\ \E p \in Leavers : LeaveOnPurpose(p)
    BY <1>0, <1>10 DEF LeaveOnPurpose, NobodyForgotten
  <1>11. CASE UNCHANGED policyVars
    BY <1>0, <1>3, <1>11 DEF policyVars
  <1> QED
    BY <1>1, <1>2, <1>4, <1>6, <1>7, <1>8, <1>9, <1>10, <1>11 DEF PolicyNext, Decay

\* Any number of nodes that founded a cluster together: until the first tombstone
\* goes or the first node leaves, no two groups that share no node serve above the
\* floor, however often the cluster splits and heals and quorum memories run out.
THEOREM NoTwoMajorities ==
    ASSUME Founders = Nodes
    PROVE  PolicyInit /\ [][PolicyNext /\ NobodyForgotten]_policyVars => []NoTwoWholes
  <1>1. WholeKnown => NoTwoWholes
    <2> SUFFICES ASSUME WholeKnown, policy = "quorum", start.formed,
                        NEW a \in Observed, NEW b \in Observed,
                        serving[a] # {}, serving[b] # {}, serving[a] \cap serving[b] = {}
                 PROVE  FALSE
      BY DEF NoTwoWholes
    <2> DEFINE A == serving[a]
               B == serving[b]
    <2>1. A \subseteq Nodes /\ B \subseteq Nodes /\ A \cap B = {}
      BY DEF WholeKnown
    <2>2. 2 * Cardinality(A) > Cardinality(Nodes) /\ 2 * Cardinality(B) > Cardinality(Nodes)
      BY DEF WholeKnown, SeesMost
    <2> HIDE DEF A, B
    <2>3. IsFiniteSet(Nodes) /\ IsFiniteSet(A) /\ IsFiniteSet(B)
      BY <2>1, PolicyAssumption, FS_Subset
    <2>4. Cardinality(A \cup B) = Cardinality(A) + Cardinality(B) - Cardinality(A \cap B)
      BY <2>3, FS_Union
    <2>5. /\ Cardinality(A \cap B) = 0 /\ Cardinality(A) \in Nat /\ Cardinality(B) \in Nat
          /\ Cardinality(Nodes) \in Nat
      BY <2>1, <2>3, FS_EmptySet, FS_CardinalityType
    <2>6. Cardinality(A \cup B) <= Cardinality(Nodes)
      BY <2>1, <2>3, FS_Subset
    <2> QED
      BY <2>2, <2>4, <2>5, <2>6
  <1>2. /\ PolicyInit => WholeKnown
        /\ WholeKnown /\ [PolicyNext /\ NobodyForgotten]_policyVars => WholeKnown'
    BY WholeInit, WholeStep
  <1> QED
    BY <1>1, <1>2, PTL

----------------------------------------------------------------------------
\* Shares: numbers first.

\* What a division leaves, and what it is at least.
LEMMA DivisionIs ==
    ASSUME NEW a \in Nat, NEW d \in Nat, d > 0
    PROVE  /\ a \div d \in Nat /\ d * (a \div d) <= a
           /\ \A q \in Nat : d * q <= a => q <= a \div d
  <1> DEFINE q == a \div d
             r == a % d
  <1>1. q \in Int /\ r \in 0 .. d - 1 /\ a = d * q + r
    OBVIOUS
  <1> HIDE DEF q, r
  <1>2. q >= 0
    <2> SUFFICES ASSUME q <= -1 PROVE FALSE
      BY <1>1
    <2>1. d * q <= d * (-1)
      BY <1>1
    <2> QED
      BY <1>1, <2>1
  <1>3. ASSUME NEW p \in Nat, d * p <= a PROVE p <= q
    <2> SUFFICES ASSUME p >= q + 1 PROVE FALSE
      BY <1>1
    <2>1. d * p >= d * (q + 1)
      BY <1>1
    <2>2. d * (q + 1) = d * q + d
      BY <1>1
    <2> QED
      BY <1>1, <1>3, <2>1, <2>2
  <1> QED
    BY <1>1, <1>2, <1>3 DEF q

\* Products of numbers, enlarged and cancelled.
LEMMA Enlarge == ASSUME NEW a \in Nat, NEW b \in Nat, NEW k \in Nat, a <= b PROVE a * k <= b * k
  OBVIOUS

\* A factor common to both sides.
LEMMA Cancel ==
    ASSUME NEW a \in Nat, NEW b \in Nat, NEW k \in Nat, k > 0, a * k <= b * k PROVE a <= b
  <1> SUFFICES ASSUME a >= b + 1 PROVE FALSE
    OBVIOUS
  <1>1. a * k >= (b + 1) * k
    OBVIOUS
  <1>2. (b + 1) * k = b * k + k
    OBVIOUS
  <1> QED
    BY <1>1, <1>2

\* A node alone, and each of two, has a floor of its part of R / BetaParts.
LEMMA FloorIs ==
    /\ Floor(1) \in Nat /\ BetaParts * Floor(1) <= R /\ Floor(1) <= R
    /\ Floor(2) \in Nat /\ BetaParts * (2 * Floor(2)) <= R /\ 2 * Floor(2) <= R
  <1> USE SharesAssumption
  <1> DEFINE f == Floor(1)
             g == Floor(2)
  <1>1. f \in Nat /\ BetaParts * f <= R
    BY DivisionIs DEF Floor
  <1>2. g \in Nat /\ (BetaParts * 2) * g <= R
    <2>1. BetaParts * 2 \in Nat /\ BetaParts * 2 > 0
      OBVIOUS
    <2> QED
      BY <2>1, DivisionIs DEF Floor
  <1> HIDE DEF f, g
  <1>3. f <= BetaParts * f
    BY <1>1
  <1>4. (BetaParts * 2) * g = BetaParts * (2 * g) /\ 2 * g <= BetaParts * (2 * g)
    BY <1>2
  <1> QED
    BY <1>1, <1>2, <1>3, <1>4 DEF f, g

\* What a node's part of the demand adds to its floor.
Part(own, all) == (R * (BetaParts - 1) * own) \div (BetaParts * all)

\* That part is the largest number that still keeps to the proportion.
LEMMA PartIs ==
    ASSUME NEW own \in Nat, NEW all \in Nat, all > 0
    PROVE  /\ R * (BetaParts - 1) \in Nat /\ R * (BetaParts - 1) * own \in Nat
           /\ Part(own, all) \in Nat
           /\ (BetaParts * Part(own, all)) * all <= (R * (BetaParts - 1)) * own
           /\ \A q \in Nat : (BetaParts * q) * all <= (R * (BetaParts - 1)) * own
                                => q <= Part(own, all)
  <1> USE SharesAssumption
  <1> DEFINE X == R * (BetaParts - 1)
             d == BetaParts * all
             q == Part(own, all)
  <1>1. X \in Nat /\ X * own \in Nat
    OBVIOUS
  <1>2. d \in Nat /\ d > 0
    OBVIOUS
  <1>3. q = (X * own) \div d
    BY DEF Part
  <1> HIDE DEF X, d, q
  <1>4. q \in Nat /\ d * q <= X * own /\ \A p \in Nat : d * p <= X * own => p <= q
    BY <1>1, <1>2, <1>3, DivisionIs
  <1>5. \A p \in Nat : d * p = (BetaParts * p) * all
    BY DEF d
  <1> QED
    BY <1>1, <1>4, <1>5 DEF X, q

\* A share leaves the peer its floor, is a floor itself, and is within the limit.
LEMMA ShareIs ==
    ASSUME NEW own \in Nat, NEW others \in Nat
    PROVE  /\ Share(1, own, others) \in 0 .. R
           /\ Share(2, own, others) \in Nat
           /\ Floor(2) <= Share(2, own, others)
           /\ Share(2, own, others) + Floor(2) <= R
  <1> USE SharesAssumption
  <1> DEFINE f == Floor(1)
             g == Floor(2)
             q == Part(own, own + others)
             h == R \div 2
  <1>1. f \in Nat /\ BetaParts * f <= R /\ f <= R
        /\ g \in Nat /\ BetaParts * (2 * g) <= R /\ 2 * g <= R
    BY FloorIs
  <1>2. h \in Nat /\ 2 * h <= R /\ g <= h
    <2> HIDE DEF g
    <2> QED
      BY <1>1
  <1>3. CASE own + others = 0
    <2>1. Share(1, own, others) = R \div 1 /\ Share(2, own, others) = h
      BY <1>3 DEF Share
    <2>2. R \div 1 = R
      OBVIOUS
    <2> HIDE DEF f, g, h
    <2> QED
      BY <1>1, <1>2, <2>1, <2>2 DEF g
  <1>4. CASE own + others > 0
    <2>1. q \in Nat /\ (BetaParts * q) * (own + others) <= (R * (BetaParts - 1)) * own
          /\ R * (BetaParts - 1) \in Nat
      BY <1>4, PartIs
    <2>2. Share(1, own, others) = f + q /\ Share(2, own, others) = g + q
      BY <1>4 DEF Share, Part
    <2> DEFINE X == R * (BetaParts - 1)
               all == own + others
               p == BetaParts * q
    <2>3. X \in Nat /\ all \in Nat /\ all > 0 /\ own <= all /\ p \in Nat
      BY <1>4, <2>1
    <2>4. p * all <= X * own
      BY <2>1
    <2>5. X * own <= X * all
      <3> HIDE DEF X, all
      <3>1. own * X <= all * X
        BY <2>3, Enlarge
      <3> QED
        BY <2>3, <3>1
    <2>6. p <= X
      <3> HIDE DEF p, X, all
      <3>1. p * all <= X * all
        BY <2>3, <2>4, <2>5
      <3> QED
        BY <2>3, <3>1, Cancel
    <2>7. X + R = R * BetaParts
      OBVIOUS
    <2> HIDE DEF f, g, q, X, all
    <2>8. BetaParts * (f + q) <= R * BetaParts
      BY <1>1, <2>1, <2>3, <2>6, <2>7
    <2>9. BetaParts * (2 * g + q) <= R * BetaParts
      BY <1>1, <2>1, <2>3, <2>6, <2>7
    <2> DEFINE one == f + q
               two == 2 * g + q
    <2>10. one \in Nat /\ two \in Nat
      BY <1>1, <2>1
    <2>11. one * BetaParts <= R * BetaParts /\ two * BetaParts <= R * BetaParts
      BY <2>8, <2>9, <2>10
    <2> HIDE DEF one, two
    <2>12. one <= R /\ two <= R
      BY <2>10, <2>11, Cancel
    <2> QED
      BY <1>1, <2>1, <2>2, <2>12 DEF one, two, g
  <1> QED
    BY <1>3, <1>4

\* The more a node takes, the more it gets.
LEMMA ShareGrows ==
    ASSUME NEW own \in Nat, NEW more \in Nat, NEW others \in Nat, own <= more
    PROVE  Share(2, own, others) <= Share(2, more, others)
  <1> USE SharesAssumption
  <1> DEFINE X == R * (BetaParts - 1)
             g == Floor(2)
             all == own + others
             sum == more + others
             p == Part(own, all)
             q == Part(more, sum)
  <1>0. all \in Nat /\ sum \in Nat /\ all <= sum /\ g \in Nat /\ X \in Nat
    BY FloorIs
  <1>1. CASE sum = 0
    <2>1. own = more
      BY <1>1
    <2> QED
      BY <2>1, ShareIs
  <1>2. CASE all > 0
    <2>1. p \in Nat /\ (BetaParts * p) * all <= X * own
      BY <1>0, <1>2, PartIs
    <2>2. q \in Nat /\ \A r \in Nat : (BetaParts * r) * sum <= X * more => r <= q
      <3>1. sum > 0
        BY <1>0, <1>2
      <3> HIDE DEF sum
      <3> QED
        BY <1>0, <3>1, PartIs
    <2>3. Share(2, own, others) = g + p /\ Share(2, more, others) = g + q
      BY <1>0, <1>2 DEF Share, Part
    <2>4. own * sum <= more * all
      <3>1. own * others <= more * others
        BY Enlarge
      <3>2. own * sum = own * more + own * others /\ more * all = own * more + more * others
        OBVIOUS
      <3> QED
        BY <3>1, <3>2
    <2> DEFINE b == BetaParts * p
    <2>5. b \in Nat
      BY <2>1
    <2>6. b * sum <= X * more
      <3> HIDE DEF X, all, sum, p, b
      <3>1. (b * all) * sum <= (X * own) * sum
        <4>1. b * all <= X * own
          BY <2>1 DEF b
        <4> DEFINE l == b * all
                   r == X * own
        <4>2. l \in Nat /\ r \in Nat /\ l <= r
          BY <1>0, <2>5, <4>1
        <4> HIDE DEF l, r
        <4>3. l * sum <= r * sum
          BY <1>0, <4>2, Enlarge
        <4> QED
          BY <4>3 DEF l, r
      <3>2. X * (own * sum) <= X * (more * all)
        <4> DEFINE l == own * sum
                   r == more * all
        <4>1. l \in Nat /\ r \in Nat /\ l <= r
          BY <1>0, <2>4
        <4> HIDE DEF l, r
        <4>2. l * X <= r * X
          BY <1>0, <4>1, Enlarge
        <4>3. X * l <= X * r
          BY <1>0, <4>1, <4>2
        <4> QED
          BY <4>3 DEF l, r
      <3> DEFINE l == b * sum
                 r == X * more
      <3>3. l \in Nat /\ r \in Nat
        BY <1>0, <2>5
      <3>4. (b * all) * sum = l * all
        BY <1>0, <2>5
      <3>5. (X * own) * sum = X * (own * sum)
        BY <1>0
      <3>6. X * (more * all) = r * all
        BY <1>0
      <3>7. l * all <= r * all
        <4> HIDE DEF l, r
        <4> DEFINE A == (b * all) * sum
                   B == (X * own) * sum
                   C == X * (own * sum)
                   D == X * (more * all)
        <4>1. A \in Nat /\ B \in Nat /\ C \in Nat /\ D \in Nat
          BY <1>0, <2>5
        <4>2. A <= B /\ C <= D /\ B = C /\ A = l * all /\ D = r * all
          BY <3>1, <3>2, <3>4, <3>5, <3>6
        <4> HIDE DEF A, B, C, D
        <4> QED
          BY <4>1, <4>2
      <3> HIDE DEF l, r
      <3>8. l <= r
        BY <1>0, <1>2, <3>3, <3>7, Cancel
      <3> QED
        BY <3>8 DEF l, r
    <2>7. p <= q
      <3> HIDE DEF X, all, sum, p, q
      <3> QED
        BY <2>1, <2>2, <2>6
    <2> HIDE DEF g, p, q
    <2> QED
      BY <1>0, <2>1, <2>2, <2>3, <2>7
  <1>3. CASE all = 0 /\ sum > 0
    <2> DEFINE h == R \div 2
    <2>0. own = 0 /\ others = 0 /\ sum = more /\ more > 0
      BY <1>3
    <2>1. q \in Nat /\ \A r \in Nat : (BetaParts * r) * sum <= X * more => r <= q
      BY <1>0, <1>3, PartIs
    <2>2. Share(2, own, others) = h /\ Share(2, more, others) = g + q
      BY <2>0 DEF Share, Part
    <2>3. h \in Nat /\ 2 * h <= R /\ R <= 2 * h + 1
      OBVIOUS
    <2>4. CASE BetaParts = 1
      <3>1. g = h
        BY <2>4 DEF Floor
      <3> HIDE DEF g, h, q
      <3> QED
        BY <1>0, <2>1, <2>2, <3>1
    <2>5. CASE BetaParts >= 2
      <3> HIDE DEF h, q
      <3>1. BetaParts * h <= X
        <4> DEFINE c == BetaParts - 2
        <4>1. c \in Nat /\ c * h >= 0
          BY <2>3, <2>5
        <4>2. (2 * h) * (BetaParts - 1) = BetaParts * h + c * h
          BY <2>3
        <4> DEFINE k == BetaParts - 1
                   d == 2 * h
        <4>3. k \in Nat /\ d \in Nat /\ d <= R
          BY <2>3, <2>5
        <4>4. d * k <= R * k
          <5> HIDE DEF k, d
          <5> QED
            BY <4>3, Enlarge
        <4> HIDE DEF c
        <4>5. BetaParts * h \in Nat /\ c * h \in Nat
          BY <2>3, <4>1
        <4> QED
          BY <4>1, <4>2, <4>4, <4>5
      <3>2. (BetaParts * h) * sum <= X * sum
        <4> DEFINE b == BetaParts * h
        <4>1. b \in Nat /\ b <= X
          BY <2>3, <3>1
        <4> HIDE DEF b, X, sum
        <4>2. b * sum <= X * sum
          BY <1>0, <4>1, Enlarge
        <4> QED
          BY <4>2 DEF b
      <3>3. h <= q
        <4> HIDE DEF X, sum
        <4> QED
          BY <2>0, <2>1, <2>3, <3>2
      <3> HIDE DEF g
      <3> QED
        BY <1>0, <2>1, <2>2, <2>3, <3>3
    <2> QED
      BY <2>4, <2>5
  <1> QED
    BY <1>0, <1>1, <1>2, <1>3

\* Two shares fit if each node takes the other at no less than the other takes itself.
LEMMA SharesMeet ==
    ASSUME NEW a \in Nat, NEW b \in Nat, NEW c \in Nat, NEW d \in Nat, a <= d, c <= b
    PROVE  Share(2, a, b) + Share(2, c, d) <= R
  <1> USE SharesAssumption
  <1> DEFINE X == R * (BetaParts - 1)
             g == Floor(2)
             h == R \div 2
             s == a + b
             t == c + d
             p == Part(a, s)
             q == Part(c, t)
  <1>0. /\ s \in Nat /\ t \in Nat /\ X \in Nat /\ X + R = R * BetaParts
        /\ g \in Nat /\ BetaParts * (2 * g) <= R /\ 2 * g <= R
        /\ h \in Nat /\ 2 * h <= R
    BY FloorIs
  <1>1. ASSUME s = 0 PROVE Share(2, a, b) = h /\ c = 0
    BY <1>1 DEF Share
  <1>2. ASSUME t = 0 PROVE Share(2, c, d) = h /\ a = 0
    BY <1>2 DEF Share
  <1>3. ASSUME s > 0 PROVE Share(2, a, b) = g + p
    BY <1>3 DEF Share, Part
  <1>4. ASSUME t > 0 PROVE Share(2, c, d) = g + q
    BY <1>4 DEF Share, Part
  <1>5. ASSUME s > 0 PROVE p \in Nat /\ (BetaParts * p) * s <= X * a
    <2> HIDE DEF s
    <2> QED
      BY <1>0, <1>5, PartIs
  <1>6. ASSUME t > 0 PROVE q \in Nat /\ (BetaParts * q) * t <= X * c
    <2> HIDE DEF t
    <2> QED
      BY <1>0, <1>6, PartIs
  <1>7. ASSUME NEW n \in Nat, NEW m \in Nat, m > 0, (BetaParts * n) * m <= X * 0 PROVE n = 0
    <2> DEFINE k == BetaParts * n
    <2>1. k \in Nat /\ n <= k
      BY <1>7
    <2>2. k * m <= 0 * m
      BY <1>0, <1>7
    <2> HIDE DEF k
    <2>3. k <= 0
      BY <1>7, <2>1, <2>2, Cancel
    <2> QED
      BY <2>1, <2>3
  <1>8. CASE s = 0 /\ t = 0
    <2> HIDE DEF h, s, t
    <2> QED
      BY <1>0, <1>1, <1>2, <1>8
  <1>9. CASE s = 0 /\ t > 0
    <2> HIDE DEF X, g, h, s, t, p, q
    <2>1. q = 0
      BY <1>0, <1>1, <1>6, <1>7, <1>9
    <2> QED
      BY <1>0, <1>1, <1>4, <1>9, <2>1
  <1>10. CASE s > 0 /\ t = 0
    <2> HIDE DEF X, g, h, s, t, p, q
    <2>1. p = 0
      BY <1>0, <1>2, <1>5, <1>7, <1>10
    <2> QED
      BY <1>0, <1>2, <1>3, <1>10, <2>1
  <1>11. CASE s > 0 /\ t > 0
    <2>1. c * s <= b * t
      <3>1. c * a <= b * d
        <4>1. c * a <= b * a
          BY Enlarge
        <4>2. a * b <= d * b
          BY Enlarge
        <4>3. c * a \in Nat /\ b * a \in Nat /\ d * b \in Nat /\ b * a = a * b /\ d * b = b * d
          OBVIOUS
        <4> QED
          BY <4>1, <4>2, <4>3
      <3>2. c * s = c * a + c * b /\ b * t = c * b + b * d
        OBVIOUS
      <3> QED
        BY <3>1, <3>2
    <2> DEFINE k == BetaParts * p
               l == BetaParts * q
    <2>2. p \in Nat /\ q \in Nat /\ k \in Nat /\ l \in Nat /\ k * s <= X * a /\ l * t <= X * c
      <3> HIDE DEF p, q, s, t, X
      <3> QED
        BY <1>5, <1>6, <1>11
    \* Both parts, measured by the first node's view.
    <2>3. l * s <= X * b
      <3> HIDE DEF X, l, s, t
      <3> DEFINE A == l * t
                 B == X * c
                 C == c * s
                 D == b * t
      <3>1. A \in Nat /\ B \in Nat /\ C \in Nat /\ D \in Nat /\ A <= B /\ C <= D
        BY <1>0, <2>1, <2>2
      <3>2. A * s <= B * s /\ C * X <= D * X
        <4> HIDE DEF A, B, C, D
        <4> QED
          BY <1>0, <3>1, Enlarge
      <3>3. A * s = (l * s) * t /\ B * s = C * X /\ D * X = (X * b) * t
        BY <1>0, <2>2
      <3> DEFINE E == l * s
                 F == X * b
      <3>4. E \in Nat /\ F \in Nat
        BY <1>0, <2>2
      <3>5. A * s = E * t /\ B * s = C * X /\ D * X = F * t
        BY <3>3
      <3>6. A * s \in Nat /\ C * X \in Nat /\ D * X \in Nat
        BY <1>0, <3>1
      <3> HIDE DEF A, B, C, D, E, F
      <3>7. E * t <= F * t
        BY <3>2, <3>5, <3>6
      <3>8. E <= F
        BY <1>0, <1>11, <3>4, <3>7, Cancel
      <3> QED
        BY <3>8 DEF E, F
    <2>4. (k + l) * s <= X * s
      <3>1. (k + l) * s = k * s + l * s /\ X * s = X * a + X * b
        <4> HIDE DEF X, k, l
        <4> QED
          BY <1>0, <2>2
      <3>2. k * s \in Nat /\ l * s \in Nat /\ X * a \in Nat /\ X * b \in Nat
        <4> HIDE DEF X, k, l, s
        <4> QED
          BY <1>0, <2>2
      <3> HIDE DEF X, k, l, s
      <3> QED
        BY <2>2, <2>3, <3>1, <3>2
    <2>5. k + l <= X
      <3> DEFINE n == k + l
      <3>1. n \in Nat /\ n * s <= X * s
        BY <2>2, <2>4
      <3> HIDE DEF n, s, X
      <3>2. n <= X
        BY <1>0, <1>11, <3>1, Cancel
      <3> QED
        BY <3>2 DEF n
    <2> DEFINE v == 2 * g + p + q
    <2>6. v * BetaParts <= R * BetaParts
      <3>1. v * BetaParts = BetaParts * (2 * g) + k + l
        <4> HIDE DEF g, p, q
        <4> QED
          BY <1>0, <2>2
      <3> HIDE DEF v, k, l, X
      <3> DEFINE G == BetaParts * (2 * g)
      <3>2. G \in Nat /\ G <= R
        <4> HIDE DEF g
        <4> QED
          BY <1>0
      <3>3. v * BetaParts = G + k + l
        BY <3>1
      <3> HIDE DEF G
      <3> QED
        BY <1>0, <2>2, <2>5, <3>2, <3>3
    <2>7. v \in Nat
      <3> HIDE DEF g, p, q
      <3> QED
        BY <1>0, <2>2
    <2>8. v <= R
      <3> HIDE DEF v
      <3> QED
        BY <2>6, <2>7, Cancel
    <2> HIDE DEF g, p, q, s, t
    <2> QED
      BY <1>0, <1>3, <1>4, <1>11, <2>2, <2>8 DEF v
  <1>12. s = 0 \/ s > 0
    BY <1>0
  <1>13. t = 0 \/ t > 0
    BY <1>0
  <1> HIDE DEF s, t
  <1> QED
    BY <1>8, <1>9, <1>10, <1>11, <1>12, <1>13

----------------------------------------------------------------------------
\* Shares: the state.
SharesSpec == SharesInit /\ [][SharesNext]_sharesVars

\* The node counts its peer in its share of the key, and holds the key hot.
Enforces(x) == countedAs[x] = 2 /\ hotness[x] # "cold"

\* The node gives itself no more than the floor: it has not heard its peer since
\* it joined, or since the key turned hot.
Uninformed(x) == hotness[x] # "heard" \/ joinedOn[x] \in {"no", "fresh"}

\* The shares of a node: the two it computed last, the largest it may compute at
\* its next round as things stand, once the answer to its probe arrives, and once
\* it has heard its peer's latest report.
Views == [now : Nat, before : Nat, next : Nat, answered : Nat, heard : Nat]

View(x) ==
    [now      |-> recent[x][1],
     before   |-> recent[x][2],
     next     |-> IF Uninformed(x) THEN Floor(2)
                  ELSE Share(2, thenOwn[x], Max({heardDemand[x], 0})),
     answered |-> Share(2, lastReport[x], Max({acks[x], 0})),
     heard    |-> Share(2, lastReport[x], lastReport[Peer(x)])]

\* What the node has heard, or is about to hear, covers its peer's latest report.
Knows(x) == Uninformed(x) \/ lastReport[Peer(x)] <= heardDemand[x]
IsTold(x) == lastReport[Peer(x)] <= acks[x]

OneFits(S, T) == \E a \in S, b \in T : a + b <= R
TwoOf(a, b, c) == (a /\ b) \/ (a /\ c) \/ (b /\ c)

\* Which shares of the node M whose round comes next fit which of W, that made the
\* last one, by how far their probes pm and pw have come.  One of several shares
\* fits one of several others: a node enforces the smallest of its latest.  It is
\* late for one to fit once two of these three have happened: one node's probe was
\* answered, the other's is still under way, and the exchange before was lost.
Interlocked(M, W, pm, pw, lost, knows, told) ==
    LET mLate == TwoOf(pm = "answered", pw = "sent", lost)
        wLate == TwoOf(pw = "answered", pm = "sent", lost)
    IN
    /\ OneFits({M.now, M.before, M.heard}, {W.now, W.before})
    /\ pm = "none" \/ ~lost \/ ~mLate =>
          OneFits({M.now, M.before, M.next}, {W.now, W.before})
    /\ pm = "answered" =>
          /\ OneFits({M.now, M.before, M.answered}, {W.now, W.before})
          /\ told \/ OneFits({M.answered}, {W.now})
          /\ OneFits({M.answered}, {W.next})
    /\ pw = "answered" => OneFits({M.next}, {W.answered}) /\ OneFits({M.heard}, {W.answered})
    /\ pw = "answered" \/ (pm = "sent" /\ ~lost) => OneFits({M.next}, {W.now, W.heard})
    /\ pm # "answered" /\ pw # "answered" /\ ~lost => OneFits({M.next}, {W.next})
    /\ ~mLate => knows \/ OneFits({M.next}, {W.now})
    /\ pm = "none" \/ ~lost => knows \/ OneFits({M.now, M.next}, {W.now, W.before})
    /\ ~wLate => OneFits({M.now, M.heard}, {W.now, W.next})
    /\ (pm # "answered" /\ ~lost) \/ (pw = "none" /\ ~mLate) =>
          OneFits({M.now, M.next}, {W.now, W.next})

Interlock(m) ==
    Interlocked(View(m), View(Peer(m)), probes[m], probes[Peer(m)], lostLast,
                Knows(m), IsTold(m))

\* How far a node has come: what it knows of the key once it holds it hot.
Started(x) ==
    /\ countedAs[x] = 2 <=> joinedOn[x] # "no"
    /\ joinedOn[x] # "no" => member[x]
    /\ hotness[x] # "cold" => recent[x] # <<>> /\ lastReport[x] # Silent
    /\ hotness[x] = "heard" => thenOwn[x] # Silent
    /\ Enforces(x) =>
          /\ appliedRate[x] <= recent[x][1] /\ appliedRate[x] <= recent[x][2]
          /\ recent[x][1] + Floor(2) <= R

\* The inductive invariant.
SharesInv ==
    /\ SharesTypeOK
    /\ \A x \in Pair : Started(x)
    /\ ~(probes[1] = "answered" /\ probes[2] = "answered")
    /\ SharesFit
    /\ Enforces(1) /\ Enforces(2) => Interlock(turn)

----------------------------------------------------------------------------
\* What each step does to the interlock.

ProbeStates == {"none", "sent", "answered"}

\* A lost probe, or a lost answer, leaves every share as it is.
LEMMA LossInterlocks ==
    ASSUME NEW M \in Views, NEW W \in Views, NEW M2 \in Views, NEW W2 \in Views,
           NEW pm \in ProbeStates, NEW pw \in ProbeStates, NEW pm2 \in ProbeStates, NEW pw2 \in ProbeStates,
           NEW knows, NEW told, NEW told2,
           M2.now = M.now, M2.before = M.before, M2.next = M.next, M2.heard = M.heard,
           W2.now = W.now, W2.before = W.before, W2.next = W.next, W2.heard = W.heard,
           ~(pm = "answered" /\ pw = "answered"),
           \/ pm # "none" /\ pm2 = "none" /\ pw2 = pw /\ W2.answered = W.answered
           \/ pw # "none" /\ pw2 = "none" /\ pm2 = pm /\ M2.answered = M.answered /\ told2 = told,
           Interlocked(M, W, pm, pw, FALSE, knows, told)
    PROVE  Interlocked(M2, W2, pm2, pw2, TRUE, knows, told2)
  BY SharesAssumption DEF Interlocked, OneFits, TwoOf, Views, ProbeStates

\* After a round the other node is next; the new share is no larger than foreseen,
\* and fits what the other will compute on hearing of it.
LEMMA RoundInterlocks ==
    ASSUME NEW M \in Views, NEW W \in Views, NEW M2 \in Views, NEW W2 \in Views,
           NEW pw \in ProbeStates, NEW lost \in BOOLEAN, NEW knows,
           NEW told, NEW knows2, NEW told2,
           M2.now = W.now, M2.before = W.before, M2.next = W.next, M2.answered = W.answered,
           W2.now <= M.next, W2.before = M.now, W2.next = M.next,
           M2.heard + W2.heard <= R, knows => M2.heard + W2.now <= R,
           Interlocked(M, W, "none", pw, lost, knows, told)
    PROVE  Interlocked(M2, W2, pw, "sent", lost, knows2, told2)
  BY SharesAssumption DEF Interlocked, OneFits, TwoOf, Views, ProbeStates

\* A node that only now enforces a share starts at the floor, and nobody takes that.
LEMMA FloorInterlocks ==
    ASSUME NEW M \in Views, NEW W \in Views, NEW pm \in ProbeStates, NEW lost \in BOOLEAN,
           NEW knows, NEW told,
           M.now + W.now <= R, M.next + W.now <= R, M.answered + W.now <= R,
           M.heard + W.now <= R, W.next = W.now
    PROVE  Interlocked(M, W, pm, "sent", lost, knows, told)
  BY SharesAssumption DEF Interlocked, OneFits, TwoOf, Views, ProbeStates

\* The probe of the node whose round is next arrives.
LEMMA ProbeOfNextInterlocks ==
    ASSUME NEW M \in Views, NEW W \in Views, NEW M2 \in Views, NEW W2 \in Views,
           NEW pw \in ProbeStates, NEW lost \in BOOLEAN, NEW knows, NEW told,
           M2.now = M.now, M2.before = M.before, M2.next = M.next, M2.heard = M.heard,
           M2.answered = M.heard,
           W2.now = W.now, W2.before = W.before, W2.next = W.heard, W2.heard = W.heard,
           W2.answered = W.answered,
           pw # "answered", M.heard + W.heard <= R,
           Interlocked(M, W, "sent", pw, lost, knows, told)
    PROVE  Interlocked(M2, W2, "answered", pw, lost, knows, TRUE)
  BY SharesAssumption DEF Interlocked, OneFits, TwoOf, Views, ProbeStates

\* The probe of the node that made the last round arrives.
LEMMA ProbeOfLastInterlocks ==
    ASSUME NEW M \in Views, NEW W \in Views, NEW M2 \in Views, NEW W2 \in Views,
           NEW pm \in ProbeStates, NEW lost \in BOOLEAN, NEW knows, NEW told,
           M2.now = M.now, M2.before = M.before, M2.next = M.heard, M2.heard = M.heard,
           M2.answered = M.answered,
           W2.now = W.now, W2.before = W.before, W2.next = W.next, W2.heard = W.heard,
           W2.answered = W.heard,
           pm # "answered", M.heard + W.heard <= R,
           Interlocked(M, W, pm, "sent", lost, knows, told)
    PROVE  Interlocked(M2, W2, pm, "answered", lost, TRUE, told)
  BY SharesAssumption DEF Interlocked, OneFits, TwoOf, Views, ProbeStates

\* The answer to the node whose round is next arrives.
LEMMA AnswerToNextInterlocks ==
    ASSUME NEW M \in Views, NEW W \in Views, NEW M2 \in Views, NEW W2 \in Views,
           NEW pw \in ProbeStates, NEW lost \in BOOLEAN, NEW knows,
           NEW told, NEW told2,
           M2.now = M.now, M2.before = M.before, M2.next = M.answered, M2.heard = M.heard,
           W2.now = W.now, W2.before = W.before, W2.next = W.next, W2.heard = W.heard,
           W2.answered = W.answered,
           pw # "answered", M.heard + W.heard <= R,
           Interlocked(M, W, "answered", pw, lost, knows, told)
    PROVE  Interlocked(M2, W2, "none", pw, FALSE, told, told2)
  BY SharesAssumption DEF Interlocked, OneFits, TwoOf, Views, ProbeStates

\* The answer to the node that made the last round arrives.
LEMMA AnswerToLastInterlocks ==
    ASSUME NEW M \in Views, NEW W \in Views, NEW M2 \in Views, NEW W2 \in Views,
           NEW pm \in ProbeStates, NEW lost \in BOOLEAN, NEW knows, NEW told,
           M2.now = M.now, M2.before = M.before, M2.next = M.next, M2.heard = M.heard,
           M2.answered = M.answered,
           W2.now = W.now, W2.before = W.before, W2.next = W.answered, W2.heard = W.heard,
           pm # "answered", M.heard + W.heard <= R,
           Interlocked(M, W, pm, "answered", lost, knows, told)
    PROVE  Interlocked(M2, W2, pm, "none", FALSE, knows, told)
  BY SharesAssumption DEF Interlocked, OneFits, TwoOf, Views, ProbeStates

\* The peer of a node.
LEMMA PeerIs ==
    /\ \A x \in Pair : Peer(x) \in Pair /\ Peer(x) # x /\ Peer(Peer(x)) = x
    /\ \A x, y \in Pair : y # x => y = Peer(x)
  BY SharesAssumption DEF Peer

\* A report that is taken at no less than nothing.
LEMMA TakenAs ==
    ASSUME NEW d \in Demands \cup {Silent}
    PROVE  Max({d, 0}) \in Nat /\ (d # Silent => d \in Nat /\ Max({d, 0}) = d) /\ d <= Max({d, 0})
           /\ d \in Int
  <1>1. d \in Nat \/ d = -1
    BY SharesAssumption DEF Silent
  <1>2. \E x \in {d, 0} : \A y \in {d, 0} : x >= y
    BY <1>1
  <1>3. Max({d, 0}) \in {d, 0} /\ \A y \in {d, 0} : Max({d, 0}) >= y
    BY <1>2 DEF Max
  <1> QED
    BY <1>1, <1>3 DEF Silent

\* The shares kept are as many as the delay is long, the new one first.
LEMMA KeptIs ==
    ASSUME RiseDelay >= 2, NEW past \in {<<>>} \cup [1 .. RiseDelay -> 0 .. R], NEW share \in 0 .. R
    PROVE  /\ Kept(share, past) \in [1 .. RiseDelay -> 0 .. R] /\ Kept(share, past) # <<>>
           /\ Kept(share, past)[1] = share
           /\ Kept(share, past)[2] = IF past = <<>> THEN share ELSE past[1]
  <1> USE SharesAssumption
  <1>0. \A f \in [1 .. RiseDelay -> 0 .. R] : f \in Seq(0 .. R) /\ Len(f) = RiseDelay
    OBVIOUS
  <1>00. \A f \in Seq(0 .. R) : f \in [1 .. Len(f) -> 0 .. R]
    BY LenProperties
  <1>1. CASE past = <<>>
    <2>1. Kept(share, past) = [i \in 1 .. RiseDelay |-> share]
      BY <1>1 DEF Kept
    <2>2. Kept(share, past) \in [1 .. RiseDelay -> 0 .. R]
      BY <2>1
    <2>3. Len(Kept(share, past)) = RiseDelay
      BY <1>0, <2>2
    <2> QED
      BY <1>1, <2>1, <2>2, <2>3
  <1>2. CASE past # <<>>
    <2>1. past \in Seq(0 .. R) /\ Len(past) = RiseDelay
      BY <1>0, <1>2
    <2> DEFINE s == <<share>> \o past
    <2>2. s \in Seq(0 .. R) /\ Len(s) = RiseDelay + 1 /\ s[1] = share /\ s[2] = past[1]
      BY <2>1
    <2>3. Kept(share, past) = SubSeq(s, 1, RiseDelay)
      BY <1>2 DEF Kept
    <2> HIDE DEF s
    <2>4. /\ SubSeq(s, 1, RiseDelay) \in Seq(0 .. R) /\ Len(SubSeq(s, 1, RiseDelay)) = RiseDelay
          /\ SubSeq(s, 1, RiseDelay)[1] = s[1] /\ SubSeq(s, 1, RiseDelay)[2] = s[2]
      BY <2>2, SMTT(30)
    <2>5. SubSeq(s, 1, RiseDelay) \in [1 .. RiseDelay -> 0 .. R]
      BY <1>00, <2>4
    <2>6. SubSeq(s, 1, RiseDelay) # <<>>
      <3> DEFINE k == SubSeq(s, 1, RiseDelay)
      <3>1. Len(k) # 0
        BY <2>4
      <3> HIDE DEF k
      <3>2. k # <<>>
        BY <3>1
      <3> QED
        BY <3>2 DEF k
    <2> QED
      BY <1>2, <2>2, <2>3, <2>4, <2>5, <2>6
  <1> QED
    BY <1>1, <1>2

\* The smallest of a share and those kept is no larger than any of them.
LEMMA SmallestIs ==
    ASSUME RiseDelay >= 2, NEW past \in {<<>>} \cup [1 .. RiseDelay -> 0 .. R], NEW share \in 0 .. R
    PROVE  /\ Smallest(share, past) \in 0 .. R
           /\ Smallest(share, past) <= share
           /\ past # <<>> => Smallest(share, past) <= past[1] /\ Smallest(share, past) <= past[2]
  <1> USE SharesAssumption
  <1> DEFINE S == {share} \cup {past[i] : i \in 1 .. Len(past)}
  <1>0. \A f \in [1 .. RiseDelay -> 0 .. R] : f \in Seq(0 .. R) /\ Len(f) = RiseDelay
    OBVIOUS
  <1>1. past \in Seq(0 .. R) /\ (past # <<>> => Len(past) = RiseDelay)
    BY <1>0, EmptySeq
  <1>2. S \subseteq 0 .. R /\ share \in S
    BY <1>1
  <1>3. past # <<>> => past[1] \in S /\ past[2] \in S
    BY <1>1
  <1>4. Smallest(share, past) = Min(S)
    BY DEF Smallest
  <1> HIDE DEF S
  <1>5. Min(S) \in S /\ \A s \in S : Min(S) <= s
    <2>1. S \subseteq Nat /\ S # {}
      BY <1>2
    <2> QED
      BY <2>1, MinIs
  <1> QED
    BY <1>2, <1>3, <1>4, <1>5

\* The size a node counts, and what it gives itself before it knows its peer.
LEMMA CapsAre ==
    ASSUME SharesTypeOK, NEW x \in Pair, NEW joins
    PROVE  /\ Size(x) \in {1, 2} /\ (Size(x) = 2 <=> member[x])
           /\ Floor(Size(x)) \in 0 .. R /\ Cold(Size(x)) \in 0 .. R /\ CapOf(x, joins) \in 0 .. R
  <1> USE SharesAssumption
  <1>1. Size(x) \in {1, 2} /\ (Size(x) = 2 <=> member[x])
    BY DEF Size, SharesTypeOK
  <1>2. Floor(1) \in 0 .. R /\ Floor(2) \in 0 .. R
    BY FloorIs
  <1>3. Cold(1) \in 0 .. R
    <2> DEFINE c == R \div (ColdParts * 1)
    <2>1. ColdParts * 1 = ColdParts
      OBVIOUS
    <2>2. c \in Nat /\ ColdParts * c <= R
      BY <2>1, DivisionIs
    <2> HIDE DEF c
    <2>3. c <= ColdParts * c
      BY <2>2
    <2> QED
      BY <2>2, <2>3 DEF Cold, c
  <1>4. Cold(2) \in 0 .. R
    <2> DEFINE d == ColdParts * 2
               c == R \div d
    <2>1. d \in Nat /\ d > 0
      OBVIOUS
    <2> HIDE DEF d
    <2>2. c \in Nat /\ d * c <= R
      BY <2>1, DivisionIs
    <2> HIDE DEF c
    <2>3. c <= d * c
      BY <2>1, <2>2
    <2> QED
      BY <2>1, <2>2, <2>3 DEF Cold, c, d
  <1>5. CapOf(x, joins) \in 0 .. R
    BY <1>1, <1>2 DEF CapOf
  <1> QED
    BY <1>1, <1>2, <1>3, <1>4, <1>5

\* The share computed at a round: of two nodes it leaves the peer its floor, it is
\* the floor before the node has heard its peer, and no more than was foreseen.
LEMMA ShareOfIs ==
    ASSUME SharesTypeOK, NEW x \in Pair, NEW now \in Demands, NEW joins
    PROVE  /\ ShareOf(x, joins, now) \in 0 .. R
           /\ member[x] => ShareOf(x, joins, now) + Floor(2) <= R
           /\ member[x] /\ (hotness[x] # "heard" \/ joins = "fresh") =>
                ShareOf(x, joins, now) = Floor(2)
           /\ member[x] /\ hotness[x] = "heard" /\ joins # "fresh" /\ thenOwn[x] # Silent =>
                /\ OwnAsOf(x, now) \in Nat /\ OwnAsOf(x, now) <= now
                /\ ShareOf(x, joins, now) = Share(2, OwnAsOf(x, now), Max({heardDemand[x], 0}))
                /\ ShareOf(x, joins, now) <= Share(2, thenOwn[x], Max({heardDemand[x], 0}))
  <1> USE SharesAssumption
  <1> DEFINE own == OwnAsOf(x, now)
             others == Max({heardDemand[x], 0})
  <1>0. now \in Nat /\ thenOwn[x] \in Demands \cup {Silent} /\ heardDemand[x] \in Demands \cup {Silent}
        /\ (thenOwn[x] # Silent => thenOwn[x] \in Nat)
    BY DEF SharesTypeOK
  <1>1. others \in Nat
    BY <1>0, TakenAs
  <1>2. own \in Nat /\ own <= now /\ (member[x] /\ thenOwn[x] # Silent => own <= thenOwn[x])
    <2>1. CASE member[x] /\ thenOwn[x] # Silent
      <3>1. {now, thenOwn[x]} \subseteq Nat /\ {now, thenOwn[x]} # {}
        BY <1>0, <2>1
      <3>2. Min({now, thenOwn[x]}) \in {now, thenOwn[x]}
            /\ \A s \in {now, thenOwn[x]} : Min({now, thenOwn[x]}) <= s
        BY <3>1, MinIs
      <3> QED
        BY <1>0, <2>1, <3>2 DEF OwnAsOf
    <2>2. CASE ~(member[x] /\ thenOwn[x] # Silent)
      BY <1>0, <2>2 DEF OwnAsOf
    <2> QED
      BY <2>1, <2>2
  <1> HIDE DEF own, others
  <1>3. /\ Share(1, own, others) \in 0 .. R /\ Share(2, own, others) \in Nat
        /\ Floor(2) <= Share(2, own, others) /\ Share(2, own, others) + Floor(2) <= R
    BY <1>1, <1>2, ShareIs
  <1>4. Floor(1) \in 0 .. R /\ Floor(2) \in 0 .. R /\ 2 * Floor(2) <= R
    BY FloorIs
  <1>5. Share(Size(x), own, others) \in 0 .. R
    <2>1. Size(x) = 1 \/ Size(x) = 2
      BY DEF Size
    <2>2. Share(2, own, others) \in 0 .. R
      BY <1>3, <1>4
    <2> QED
      BY <1>3, <2>1, <2>2
  <1>6. ShareOf(x, joins, now) =
          IF member[x] /\ (hotness[x] # "heard" \/ joins = "fresh")
          THEN Floor(Size(x)) ELSE Share(Size(x), own, others)
    BY DEF ShareOf, Learning, own, others
  <1>7. member[x] => Size(x) = 2
    BY DEF Size
  <1>8. member[x] /\ thenOwn[x] # Silent => Share(2, own, others) <= Share(2, thenOwn[x], others)
    BY <1>0, <1>1, <1>2, ShareGrows
  <1>9. Floor(Size(x)) \in 0 .. R
    BY CapsAre
  <1> QED
    BY <1>2, <1>3, <1>4, <1>5, <1>6, <1>7, <1>8, <1>9 DEF own, others

\* At first nobody enforces a share.
LEMMA SharesStart == SharesInit => SharesInv
  <1> SUFFICES ASSUME SharesInit PROVE SharesInv
    OBVIOUS
  <1> USE SharesAssumption
  <1>1. SharesTypeOK
    <2>1. /\ turn \in Pair /\ lostLast \in BOOLEAN
          /\ member \in [Pair -> BOOLEAN]
          /\ joinedOn \in [Pair -> {"no", "fresh", "heard"}]
          /\ hotness \in [Pair -> {"cold", "fresh", "heard"}]
      BY DEF SharesInit
    <2>2. /\ lastReport \in [Pair -> Demands \cup {Silent}]
          /\ heardDemand \in [Pair -> Demands \cup {Silent}]
          /\ thenOwn \in [Pair -> Demands \cup {Silent}]
          /\ acks \in [Pair -> Demands \cup {Silent}]
      BY DEF SharesInit
    <2>3. /\ recent \in [Pair -> {<<>>} \cup [1 .. RiseDelay -> 0 .. R]]
          /\ appliedRate \in [Pair -> 0 .. R]
          /\ countedAs \in [Pair -> {0, 1, 2}]
          /\ probes \in [Pair -> {"none", "sent", "answered"}]
      BY DEF SharesInit
    <2> QED
      BY <2>1, <2>2, <2>3 DEF SharesTypeOK
  <1>2. \A x \in Pair : countedAs[x] = 0 /\ joinedOn[x] = "no" /\ hotness[x] = "cold"
                        /\ probes[x] = "none"
    BY DEF SharesInit
  <1>3. \A x \in Pair : Started(x)
    BY <1>2 DEF Started, Enforces
  <1>4. ~Enforces(1) /\ SharesFit
    BY <1>2 DEF Enforces, SharesFit
  <1>5. ~(probes[1] = "answered" /\ probes[2] = "answered")
    BY <1>2
  <1> QED
    BY <1>1, <1>3, <1>4, <1>5 DEF SharesInv

\* What hearing its peer changes of a node, and what it leaves of the other.
LEMMA HearingIs ==
    ASSUME SharesTypeOK, \A z \in Pair : Started(z),
           NEW x \in Pair, NEW report \in Demands \cup {Silent}, Heard(x, report),
           UNCHANGED <<lastReport, recent, appliedRate, countedAs>>
    PROVE  /\ member' \in [Pair -> BOOLEAN]
           /\ joinedOn' \in [Pair -> {"no", "fresh", "heard"}]
           /\ hotness' \in [Pair -> {"cold", "fresh", "heard"}]
           /\ heardDemand' \in [Pair -> Demands \cup {Silent}]
           /\ thenOwn' \in [Pair -> Demands \cup {Silent}]
           /\ \A z \in Pair : Started(z)' /\ (Enforces(z)' <=> Enforces(z))
           /\ Enforces(x) => ~Uninformed(x)'
           /\ thenOwn'[x] = lastReport[x] /\ heardDemand'[x] = report
           /\ \A z \in Pair \ {x} : /\ thenOwn'[z] = thenOwn[z] /\ heardDemand'[z] = heardDemand[z]
                                    /\ Uninformed(z)' <=> Uninformed(z)
  <1>1. /\ member' = [member EXCEPT ![x] = TRUE]
        /\ joinedOn' = [joinedOn EXCEPT ![x] = IF @ = "fresh" THEN "heard" ELSE @]
        /\ hotness' = [hotness EXCEPT ![x] = IF @ = "fresh" THEN "heard" ELSE @]
        /\ heardDemand' = [heardDemand EXCEPT ![x] = report]
        /\ thenOwn' = [thenOwn EXCEPT ![x] = lastReport[x]]
    BY DEF Heard
  <1>2. /\ member' \in [Pair -> BOOLEAN]
        /\ joinedOn' \in [Pair -> {"no", "fresh", "heard"}]
        /\ hotness' \in [Pair -> {"cold", "fresh", "heard"}]
        /\ heardDemand' \in [Pair -> Demands \cup {Silent}]
        /\ thenOwn' \in [Pair -> Demands \cup {Silent}]
    <2>1. /\ member \in [Pair -> BOOLEAN]
          /\ joinedOn \in [Pair -> {"no", "fresh", "heard"}]
          /\ hotness \in [Pair -> {"cold", "fresh", "heard"}]
          /\ heardDemand \in [Pair -> Demands \cup {Silent}]
          /\ thenOwn \in [Pair -> Demands \cup {Silent}]
          /\ lastReport \in [Pair -> Demands \cup {Silent}]
      BY DEF SharesTypeOK
    <2> QED
      BY <1>1, <2>1
  <1>3. /\ member'[x] = TRUE
        /\ joinedOn'[x] = IF joinedOn[x] = "fresh" THEN "heard" ELSE joinedOn[x]
        /\ hotness'[x] = IF hotness[x] = "fresh" THEN "heard" ELSE hotness[x]
        /\ heardDemand'[x] = report /\ thenOwn'[x] = lastReport[x]
    BY <1>1 DEF SharesTypeOK
  <1>4. \A z \in Pair \ {x} :
          /\ member'[z] = member[z] /\ joinedOn'[z] = joinedOn[z] /\ hotness'[z] = hotness[z]
          /\ heardDemand'[z] = heardDemand[z] /\ thenOwn'[z] = thenOwn[z]
    BY <1>1 DEF SharesTypeOK
  <1>5. \A z \in Pair : Enforces(z)' <=> Enforces(z)
    BY <1>3, <1>4 DEF Enforces, SharesTypeOK
  <1>6. \A z \in Pair : Started(z)'
    <2> SUFFICES ASSUME NEW z \in Pair PROVE Started(z)'
      OBVIOUS
    <2>1. Started(z)
      OBVIOUS
    <2>2. Enforces(z)' <=> Enforces(z)
      BY <1>5
    <2>3. /\ appliedRate' = appliedRate /\ recent' = recent /\ countedAs' = countedAs
          /\ lastReport' = lastReport
      OBVIOUS
    <2>4. CASE z = x
      BY <1>3, <2>1, <2>2, <2>3, <2>4 DEF Started, Floor, SharesTypeOK
    <2>5. CASE z # x
      BY <1>4, <2>1, <2>2, <2>3, <2>5 DEF Started, Floor
    <2> QED
      BY <2>4, <2>5
  <1>7. Enforces(x) => ~Uninformed(x)'
    BY <1>3 DEF Enforces, Uninformed, Started, SharesTypeOK
  <1>8. \A z \in Pair \ {x} : Uninformed(z)' <=> Uninformed(z)
    BY <1>4 DEF Uninformed
  <1> QED
    BY <1>2, <1>3, <1>4, <1>5, <1>6, <1>7, <1>8

\* The shares of a node that enforces one are numbers, and leave the peer its floor.
LEMMA ViewIs ==
    ASSUME SharesTypeOK, RiseDelay >= 2, NEW x \in Pair, Started(x), Enforces(x)
    PROVE  /\ recent[x] \in [1 .. RiseDelay -> 0 .. R] /\ lastReport[x] \in Nat
           /\ View(x).now = recent[x][1] /\ View(x).before = recent[x][2]
           /\ View(x).now \in Nat /\ View(x).before \in Nat
           /\ View(x).next \in Nat /\ View(x).answered \in Nat
           /\ View(x).now + Floor(2) <= R /\ View(x).next + Floor(2) <= R
           /\ View(x).answered + Floor(2) <= R
  <1> USE SharesAssumption
  <1>1. /\ lastReport[x] \in Nat /\ recent[x] \in [1 .. RiseDelay -> 0 .. R]
        /\ recent[x][1] + Floor(2) <= R
        /\ ~Uninformed(x) => thenOwn[x] \in Nat
        /\ heardDemand[x] \in Demands \cup {Silent}
        /\ acks[x] \in Demands \cup {Silent}
    <2>2. lastReport[x] # Silent /\ recent[x] # <<>> /\ recent[x][1] + Floor(2) <= R
      BY DEF Started, Enforces
    <2>3. ~Uninformed(x) => thenOwn[x] # Silent
      BY DEF Started, Uninformed
    <2>4. /\ lastReport[x] \in Demands \cup {Silent} /\ thenOwn[x] \in Demands \cup {Silent}
          /\ heardDemand[x] \in Demands \cup {Silent} /\ acks[x] \in Demands \cup {Silent}
          /\ recent[x] \in {<<>>} \cup [1 .. RiseDelay -> 0 .. R]
      BY DEF SharesTypeOK
    <2> QED
      BY <2>2, <2>3, <2>4
  <1>2. Max({heardDemand[x], 0}) \in Nat /\ Max({acks[x], 0}) \in Nat
    BY <1>1, TakenAs
  <1>3. \A a, b \in Nat : Share(2, a, b) \in Nat /\ Share(2, a, b) + Floor(2) <= R
    BY ShareIs
  <1>4. Floor(2) \in Nat /\ 2 * Floor(2) <= R
    BY FloorIs
  <1>5. recent[x][1] \in Nat /\ recent[x][2] \in Nat
    BY <1>1
  <1>6. View(x).next \in Nat /\ View(x).next + Floor(2) <= R
    <2> DEFINE h == Max({heardDemand[x], 0})
    <2>1. View(x).next = IF Uninformed(x) THEN Floor(2) ELSE Share(2, thenOwn[x], h)
      BY DEF View
    <2>2. h \in Nat
      BY <1>2
    <2> HIDE DEF h
    <2>3. CASE Uninformed(x)
      BY <1>4, <2>1, <2>3
    <2>4. CASE ~Uninformed(x)
      <3>1. thenOwn[x] \in Nat
        BY <1>1, <2>4
      <3>2. View(x).next = Share(2, thenOwn[x], h)
        BY <2>1, <2>4
      <3> QED
        BY <1>3, <2>2, <3>1, <3>2
    <2> QED
      BY <2>3, <2>4
  <1>7. View(x).answered \in Nat /\ View(x).answered + Floor(2) <= R
    BY <1>1, <1>2, <1>3 DEF View
  <1>8. View(x).now = recent[x][1] /\ View(x).before = recent[x][2]
    BY DEF View
  <1> QED
    BY <1>1, <1>5, <1>6, <1>7, <1>8

\* What two nodes give themselves on hearing each other now fits.
LEMMA ViewsAre ==
    ASSUME SharesTypeOK, \A z \in Pair : Started(z), RiseDelay >= 2, NEW x \in Pair, Enforces(x),
           Enforces(Peer(x))
    PROVE  /\ View(x) \in Views /\ lastReport[x] \in Nat
           /\ View(x).heard + View(Peer(x)).heard <= R
  <1> DEFINE y == Peer(x)
  <1>0. y \in Pair /\ Peer(y) = x
    BY PeerIs
  <1>1. /\ lastReport[x] \in Nat
        /\ View(x).now \in Nat /\ View(x).before \in Nat
        /\ View(x).next \in Nat /\ View(x).answered \in Nat
    BY ViewIs
  <1>2. lastReport[y] \in Nat
    BY <1>0, ViewIs
  <1>3. View(x).heard = Share(2, lastReport[x], lastReport[y])
        /\ View(y).heard = Share(2, lastReport[y], lastReport[x])
    BY <1>0 DEF View
  <1>4. View(x).heard + View(y).heard <= R
    BY <1>1, <1>2, <1>3, SharesMeet
  <1>5. View(x).heard \in Nat
    BY <1>1, <1>2, <1>3, ShareIs
  <1>6. View(x) \in Views
    BY <1>1, <1>5 DEF View, Views
  <1> QED
    BY <1>1, <1>4, <1>6

\* A node's probe reaches its peer.
LEMMA ProbeKeeps ==
    ASSUME RiseDelay >= 2, SharesInv, NEW x \in Pair, DeliverProbe(x)
    PROVE  SharesInv'
  <1> USE SharesAssumption
  <1> DEFINE y == Peer(x)
  <1>0. y \in Pair /\ y # x /\ Peer(y) = x /\ turn \in Pair /\ (turn # x => turn = y)
    BY PeerIs DEF SharesInv, SharesTypeOK
  <1>1. SharesTypeOK /\ \A z \in Pair : Started(z)
    BY DEF SharesInv
  <1>2. /\ probes[x] = "sent" /\ probes[y] # "answered"
        /\ Heard(y, lastReport[x])
        /\ probes' = [probes EXCEPT ![x] = "answered"]
        /\ acks' = [acks EXCEPT ![x] = lastReport[y]]
        /\ UNCHANGED <<turn, lastReport, recent, appliedRate, countedAs, lostLast>>
    BY DEF DeliverProbe
  <1>3. lastReport[x] \in Demands \cup {Silent} /\ lastReport[y] \in Demands \cup {Silent}
    BY <1>0, <1>1 DEF SharesTypeOK
  <1>4. /\ member' \in [Pair -> BOOLEAN]
        /\ joinedOn' \in [Pair -> {"no", "fresh", "heard"}]
        /\ hotness' \in [Pair -> {"cold", "fresh", "heard"}]
        /\ heardDemand' \in [Pair -> Demands \cup {Silent}]
        /\ thenOwn' \in [Pair -> Demands \cup {Silent}]
        /\ \A z \in Pair : Started(z)' /\ (Enforces(z)' <=> Enforces(z))
        /\ Enforces(y) => ~Uninformed(y)'
        /\ thenOwn'[y] = lastReport[y] /\ heardDemand'[y] = lastReport[x]
        /\ thenOwn'[x] = thenOwn[x] /\ heardDemand'[x] = heardDemand[x]
        /\ Uninformed(x)' <=> Uninformed(x)
    <2>1. UNCHANGED <<lastReport, recent, appliedRate, countedAs>>
      BY <1>2
    <2>2. PICK report \in Demands \cup {Silent} : report = lastReport[x]
      BY <1>3
    <2> HIDE DEF y
    <2>3. Heard(y, report)
      BY <1>2, <2>2
    <2> QED
      BY <1>0, <1>1, <2>1, <2>2, <2>3, HearingIs
  <1>5. /\ probes'[x] = "answered" /\ probes'[y] = probes[y]
        /\ acks'[x] = lastReport[y] /\ acks'[y] = acks[y]
    BY <1>0, <1>1, <1>2 DEF SharesTypeOK
  <1>6. SharesTypeOK'
    BY <1>1, <1>2, <1>3, <1>4 DEF SharesTypeOK
  <1>7. ~(probes[1] = "answered" /\ probes[2] = "answered")'
    BY <1>0, <1>2, <1>5
  <1>8. SharesFit'
    <2>1. (\A z \in Pair : Enforces(z))' => \A z \in Pair : Enforces(z)
      BY <1>4
    <2> QED
      BY <1>2, <2>1 DEF SharesInv, SharesFit, Enforces
  <1>9. ASSUME Enforces(1)', Enforces(2)' PROVE Interlock(turn)'
    <2>1. Enforces(x) /\ Enforces(y) /\ Interlock(turn)
      BY <1>0, <1>4, <1>9 DEF SharesInv
    <2>2. /\ View(x) \in Views /\ lastReport[x] \in Nat
          /\ View(y) \in Views /\ lastReport[y] \in Nat
          /\ View(x).heard + View(y).heard <= R
      BY <1>0, <1>1, <2>1, ViewsAre
    <2>3. Max({lastReport[x], 0}) = lastReport[x] /\ Max({lastReport[y], 0}) = lastReport[y]
      BY <1>3, <2>2, TakenAs DEF Silent
    <2>4. /\ View(x)'.now = View(x).now /\ View(x)'.before = View(x).before
          /\ View(y)'.now = View(y).now /\ View(y)'.before = View(y).before
      BY <1>2 DEF View
    <2>5. View(x)'.heard = View(x).heard /\ View(y)'.heard = View(y).heard
      BY <1>2 DEF View
    <2>6. View(x)'.next = View(x).next
      BY <1>4 DEF View
    <2>0. lastReport' = lastReport
      BY <1>2
    <2>7. View(x)'.answered = View(x).heard
      BY <1>5, <2>0, <2>3 DEF View
    <2>8. View(y)'.answered = View(y).answered
      BY <1>5, <2>0 DEF View
    <2>9. View(y)'.next = View(y).heard
      BY <1>0, <1>2, <1>4, <2>1, <2>3 DEF View
    <2>10. View(x)' \in Views /\ View(y)' \in Views
      <3>1. View(x)' = [now |-> View(x)'.now, before |-> View(x)'.before, next |-> View(x)'.next,
                        answered |-> View(x)'.answered, heard |-> View(x)'.heard]
        BY DEF View
      <3>2. View(y)' = [now |-> View(y)'.now, before |-> View(y)'.before, next |-> View(y)'.next,
                        answered |-> View(y)'.answered, heard |-> View(y)'.heard]
        BY DEF View
      <3>3. \A v \in Views : /\ v.now \in Nat /\ v.before \in Nat /\ v.next \in Nat
                              /\ v.answered \in Nat /\ v.heard \in Nat
        BY DEF Views
      <3> QED
        BY <2>2, <2>4, <2>5, <2>6, <2>7, <2>8, <2>9, <3>1, <3>2, <3>3 DEF Views
    <2>11. PICK X, Y, X2, Y2 : X = View(x) /\ Y = View(y) /\ X2 = View(x)' /\ Y2 = View(y)'
      OBVIOUS
    <2>12. PICK px, py, lost : px = probes[x] /\ py = probes[y] /\ lost = lostLast
      OBVIOUS
    <2>13. px = "sent" /\ py \in ProbeStates /\ py # "answered" /\ lost \in BOOLEAN
      BY <1>0, <1>1, <1>2, <2>12 DEF SharesTypeOK, ProbeStates
    <2>14. probes'[x] = "answered" /\ probes'[y] = py /\ lostLast' = lost
      BY <1>2, <1>5, <2>12
    <2>17. /\ X \in Views /\ Y \in Views /\ X2 \in Views /\ Y2 \in Views
           /\ X2.now = X.now /\ X2.before = X.before /\ X2.next = X.next /\ X2.heard = X.heard
           /\ X2.answered = X.heard
           /\ Y2.now = Y.now /\ Y2.before = Y.before /\ Y2.next = Y.heard /\ Y2.heard = Y.heard
           /\ Y2.answered = Y.answered /\ X.heard + Y.heard <= R /\ Y.heard + X.heard <= R
      <3>1. X.heard + Y.heard <= R /\ X.heard \in Nat /\ Y.heard \in Nat
        BY <2>2, <2>11 DEF Views
      <3>2. Y.heard + X.heard <= R
        BY <3>1
      <3> QED
        BY <2>2, <2>4, <2>5, <2>6, <2>7, <2>8, <2>9, <2>10, <2>11, <3>1, <3>2
    <2>15. CASE turn = x
      <3>1. PICK knows, told : knows = Knows(x) /\ told = IsTold(x)
        OBVIOUS
      <3>2. Interlocked(X, Y, "sent", py, lost, knows, told)
        BY <2>1, <2>11, <2>12, <2>13, <2>15, <3>1 DEF Interlock
      <3>3. Interlocked(X2, Y2, "answered", py, lost, knows, TRUE)
        BY <2>13, <2>17, <3>2, ProbeOfNextInterlocks
      <3>4. Knows(x)' = knows /\ IsTold(x)' = TRUE
        BY <1>4, <1>5, <2>0, <2>2, <3>1 DEF Knows, IsTold
      <3>5. turn' = x
        BY <1>2, <2>15
      <3> QED
        BY <2>11, <2>14, <3>3, <3>4, <3>5 DEF Interlock
    <2>16. CASE turn = y
      <3>1. PICK knows, told : knows = Knows(y) /\ told = IsTold(y)
        OBVIOUS
      <3>2. Interlocked(Y, X, py, "sent", lost, knows, told)
        BY <1>0, <2>1, <2>11, <2>12, <2>13, <2>16, <3>1 DEF Interlock
      <3>3. Interlocked(Y2, X2, py, "answered", lost, TRUE, told)
        BY <2>13, <2>17, <3>2, ProbeOfLastInterlocks
      <3>4. Knows(y)' = TRUE /\ IsTold(y)' = told
        BY <1>0, <1>4, <1>5, <2>0, <2>2, <3>1 DEF Knows, IsTold
      <3>5. turn' = y
        BY <1>2, <2>16
      <3> QED
        BY <1>0, <2>11, <2>14, <3>3, <3>4, <3>5 DEF Interlock
    <2> QED
      BY <1>0, <2>15, <2>16
  <1> QED
    BY <1>1, <1>4, <1>6, <1>7, <1>8, <1>9 DEF SharesInv

\* The answer to a node's probe reaches it.
LEMMA AnswerKeeps ==
    ASSUME RiseDelay >= 2, SharesInv, NEW x \in Pair, DeliverAck(x)
    PROVE  SharesInv'
  <1> USE SharesAssumption
  <1> DEFINE y == Peer(x)
  <1>0. y \in Pair /\ y # x /\ Peer(y) = x /\ turn \in Pair /\ (turn # x => turn = y)
    BY PeerIs DEF SharesInv, SharesTypeOK
  <1>1. SharesTypeOK /\ \A z \in Pair : Started(z)
    BY DEF SharesInv
  <1>2. /\ probes[x] = "answered"
        /\ Heard(x, acks[x])
        /\ probes' = [probes EXCEPT ![x] = "none"]
        /\ acks' = [acks EXCEPT ![x] = Silent]
        /\ lostLast' = FALSE
        /\ UNCHANGED <<turn, lastReport, recent, appliedRate, countedAs>>
    BY DEF DeliverAck
  <1>3. acks[x] \in Demands \cup {Silent} /\ probes[y] # "answered"
    BY <1>0, <1>1, <1>2 DEF SharesTypeOK, SharesInv
  <1>4. /\ member' \in [Pair -> BOOLEAN]
        /\ joinedOn' \in [Pair -> {"no", "fresh", "heard"}]
        /\ hotness' \in [Pair -> {"cold", "fresh", "heard"}]
        /\ heardDemand' \in [Pair -> Demands \cup {Silent}]
        /\ thenOwn' \in [Pair -> Demands \cup {Silent}]
        /\ \A z \in Pair : Started(z)' /\ (Enforces(z)' <=> Enforces(z))
        /\ Enforces(x) => ~Uninformed(x)'
        /\ thenOwn'[x] = lastReport[x] /\ heardDemand'[x] = acks[x]
        /\ thenOwn'[y] = thenOwn[y] /\ heardDemand'[y] = heardDemand[y]
        /\ Uninformed(y)' <=> Uninformed(y)
    <2>1. UNCHANGED <<lastReport, recent, appliedRate, countedAs>>
      BY <1>2
    <2>2. PICK report \in Demands \cup {Silent} : report = acks[x]
      BY <1>3
    <2> HIDE DEF y
    <2>3. Heard(x, report)
      BY <1>2, <2>2
    <2> QED
      BY <1>0, <1>1, <2>1, <2>2, <2>3, HearingIs
  <1>5. /\ probes'[x] = "none" /\ probes'[y] = probes[y]
        /\ acks'[x] = Silent /\ acks'[y] = acks[y]
    BY <1>0, <1>1, <1>2 DEF SharesTypeOK
  <1>6. SharesTypeOK'
    BY <1>1, <1>2, <1>4 DEF SharesTypeOK
  <1>7. ~(probes[1] = "answered" /\ probes[2] = "answered")'
    BY <1>0, <1>5
  <1>8. SharesFit'
    <2>1. (\A z \in Pair : Enforces(z))' => \A z \in Pair : Enforces(z)
      BY <1>4
    <2> QED
      BY <1>2, <2>1 DEF SharesInv, SharesFit, Enforces
  <1>9. ASSUME Enforces(1)', Enforces(2)' PROVE Interlock(turn)'
    <2>0. lastReport' = lastReport
      BY <1>2
    <2>1. Enforces(x) /\ Enforces(y) /\ Interlock(turn)
      BY <1>0, <1>4, <1>9 DEF SharesInv
    <2>2. /\ View(x) \in Views /\ lastReport[x] \in Nat
          /\ View(y) \in Views /\ lastReport[y] \in Nat
          /\ View(x).heard + View(y).heard <= R
      BY <1>0, <1>1, <2>1, ViewsAre
    <2>4. /\ View(x)'.now = View(x).now /\ View(x)'.before = View(x).before
          /\ View(y)'.now = View(y).now /\ View(y)'.before = View(y).before
      BY <1>2 DEF View
    <2>5. View(x)'.heard = View(x).heard /\ View(y)'.heard = View(y).heard
      BY <2>0 DEF View
    <2>6. View(x)'.next = View(x).answered
      BY <1>4, <2>1 DEF View
    <2>7. View(x)'.answered \in Nat
      <3>1. View(x)'.answered = Share(2, lastReport[x], Max({Silent, 0}))
        BY <1>5, <2>0 DEF View
      <3>2. Max({Silent, 0}) \in Nat
        BY TakenAs
      <3> QED
        BY <2>2, <3>1, <3>2, ShareIs
    <2>8. View(y)'.answered = View(y).answered
      BY <1>5, <2>0 DEF View
    <2>9. View(y)'.next = View(y).next
      BY <1>4 DEF View
    <2>10. View(x)' \in Views /\ View(y)' \in Views
      <3>1. View(x)' = [now |-> View(x)'.now, before |-> View(x)'.before, next |-> View(x)'.next,
                        answered |-> View(x)'.answered, heard |-> View(x)'.heard]
        BY DEF View
      <3>2. View(y)' = [now |-> View(y)'.now, before |-> View(y)'.before, next |-> View(y)'.next,
                        answered |-> View(y)'.answered, heard |-> View(y)'.heard]
        BY DEF View
      <3>3. \A v \in Views : /\ v.now \in Nat /\ v.before \in Nat /\ v.next \in Nat
                              /\ v.answered \in Nat /\ v.heard \in Nat
        BY DEF Views
      <3> QED
        BY <2>2, <2>4, <2>5, <2>6, <2>7, <2>8, <2>9, <3>1, <3>2, <3>3 DEF Views
    <2>11. PICK X, Y, X2, Y2 : X = View(x) /\ Y = View(y) /\ X2 = View(x)' /\ Y2 = View(y)'
      OBVIOUS
    <2>12. PICK py, lost : py = probes[y] /\ lost = lostLast
      OBVIOUS
    <2>13. py \in ProbeStates /\ py # "answered" /\ lost \in BOOLEAN
      BY <1>0, <1>1, <1>3, <2>12 DEF SharesTypeOK, ProbeStates
    <2>14. probes'[x] = "none" /\ probes'[y] = py /\ lostLast' = FALSE
      BY <1>2, <1>5, <2>12
    <2>15. /\ X \in Views /\ Y \in Views /\ X2 \in Views /\ Y2 \in Views
           /\ X2.now = X.now /\ X2.before = X.before /\ X2.next = X.answered /\ X2.heard = X.heard
           /\ Y2.now = Y.now /\ Y2.before = Y.before /\ Y2.next = Y.next /\ Y2.heard = Y.heard
           /\ Y2.answered = Y.answered /\ X.heard + Y.heard <= R /\ Y.heard + X.heard <= R
      <3>1. X.heard + Y.heard <= R /\ X.heard \in Nat /\ Y.heard \in Nat
        BY <2>2, <2>11 DEF Views
      <3>2. Y.heard + X.heard <= R
        BY <3>1
      <3> QED
        BY <2>2, <2>4, <2>5, <2>6, <2>8, <2>9, <2>10, <2>11, <3>1, <3>2
    <2>16. CASE turn = x
      <3>1. PICK knows, told, told2 : knows = Knows(x) /\ told = IsTold(x) /\ told2 = IsTold(x)'
        OBVIOUS
      <3>2. Interlocked(X, Y, "answered", py, lost, knows, told)
        BY <1>2, <2>1, <2>11, <2>12, <2>16, <3>1 DEF Interlock
      <3>3. Interlocked(X2, Y2, "none", py, FALSE, told, told2)
        BY <2>13, <2>15, <3>2, AnswerToNextInterlocks, ZenonT(40)
      <3>4. Knows(x)' = told
        BY <1>4, <2>0, <2>1, <3>1 DEF Knows, IsTold
      <3>5. turn' = x
        BY <1>2, <2>16
      <3> QED
        BY <2>11, <2>14, <3>1, <3>3, <3>4, <3>5 DEF Interlock
    <2>17. CASE turn = y
      <3>1. PICK knows, told : knows = Knows(y) /\ told = IsTold(y)
        OBVIOUS
      <3>2. Interlocked(Y, X, py, "answered", lost, knows, told)
        BY <1>0, <1>2, <2>1, <2>11, <2>12, <2>17, <3>1 DEF Interlock
      <3>3. Interlocked(Y2, X2, py, "none", FALSE, knows, told)
        BY <2>13, <2>15, <3>2, AnswerToLastInterlocks
      <3>4. Knows(y)' = knows /\ IsTold(y)' = told
        BY <1>0, <1>4, <1>5, <2>0, <3>1 DEF Knows, IsTold
      <3>5. turn' = y
        BY <1>2, <2>17
      <3> QED
        BY <1>0, <2>11, <2>14, <3>3, <3>4, <3>5 DEF Interlock
    <2> QED
      BY <1>0, <2>16, <2>17
  <1> QED
    BY <1>1, <1>4, <1>6, <1>7, <1>8, <1>9 DEF SharesInv

\* A probe or its answer is lost.
LEMMA LossKeeps ==
    ASSUME RiseDelay >= 2, SharesInv, NEW x \in Pair, LoseProbe(x)
    PROVE  SharesInv'
  <1> USE SharesAssumption
  <1> DEFINE y == Peer(x)
  <1>0. y \in Pair /\ y # x /\ Peer(y) = x /\ turn \in Pair /\ (turn # x => turn = y)
    BY PeerIs DEF SharesInv, SharesTypeOK
  <1>1. SharesTypeOK /\ \A z \in Pair : Started(z)
    BY DEF SharesInv
  <1>2. /\ probes[x] # "none" /\ ~lostLast
        /\ probes' = [probes EXCEPT ![x] = "none"]
        /\ acks' = [acks EXCEPT ![x] = Silent]
        /\ lostLast' = TRUE
    BY DEF LoseProbe
  <1>3. UNCHANGED <<turn, member, joinedOn, hotness, lastReport, heardDemand, thenOwn, recent,
                    appliedRate, countedAs>>
    BY DEF LoseProbe
  <1>4. \A z \in Pair : Started(z)' /\ (Enforces(z)' <=> Enforces(z))
    BY <1>1, <1>3 DEF Started, Enforces, Floor
  <1>5. /\ probes'[x] = "none" /\ probes'[y] = probes[y]
        /\ acks'[x] = Silent /\ acks'[y] = acks[y]
    BY <1>0, <1>1, <1>2 DEF SharesTypeOK
  <1>6. SharesTypeOK'
    BY <1>1, <1>2, <1>3 DEF SharesTypeOK
  <1>7. ~(probes[1] = "answered" /\ probes[2] = "answered")'
    BY <1>0, <1>5
  <1>8. SharesFit'
    BY <1>3 DEF SharesInv, SharesFit
  <1>9. ASSUME Enforces(1)', Enforces(2)' PROVE Interlock(turn)'
    <2>0. lastReport' = lastReport
      BY <1>3
    <2>1. Enforces(x) /\ Enforces(y) /\ Interlock(turn)
      BY <1>0, <1>4, <1>9 DEF SharesInv
    <2>2. /\ View(x) \in Views /\ lastReport[x] \in Nat
          /\ View(y) \in Views /\ lastReport[y] \in Nat
      BY <1>0, <1>1, <2>1, ViewsAre
    <2>4. /\ View(x)'.now = View(x).now /\ View(x)'.before = View(x).before
          /\ View(y)'.now = View(y).now /\ View(y)'.before = View(y).before
      BY <1>3 DEF View
    <2>5. View(x)'.heard = View(x).heard /\ View(y)'.heard = View(y).heard
      BY <2>0 DEF View
    <2>6. View(x)'.next = View(x).next /\ View(y)'.next = View(y).next
      BY <1>3 DEF View, Uninformed
    <2>7. View(x)'.answered \in Nat
      <3>1. View(x)'.answered = Share(2, lastReport[x], Max({Silent, 0}))
        BY <1>5, <2>0 DEF View
      <3>2. Max({Silent, 0}) \in Nat
        BY TakenAs
      <3> QED
        BY <2>2, <3>1, <3>2, ShareIs
    <2>8. View(y)'.answered = View(y).answered
      BY <1>5, <2>0 DEF View
    <2>10. View(x)' \in Views /\ View(y)' \in Views
      <3>1. View(x)' = [now |-> View(x)'.now, before |-> View(x)'.before, next |-> View(x)'.next,
                        answered |-> View(x)'.answered, heard |-> View(x)'.heard]
        BY DEF View
      <3>2. View(y)' = [now |-> View(y)'.now, before |-> View(y)'.before, next |-> View(y)'.next,
                        answered |-> View(y)'.answered, heard |-> View(y)'.heard]
        BY DEF View
      <3>3. \A v \in Views : /\ v.now \in Nat /\ v.before \in Nat /\ v.next \in Nat
                              /\ v.answered \in Nat /\ v.heard \in Nat
        BY DEF Views
      <3> QED
        BY <2>2, <2>4, <2>5, <2>6, <2>7, <2>8, <3>1, <3>2, <3>3 DEF Views
    <2>11. PICK X, Y, X2, Y2 : X = View(x) /\ Y = View(y) /\ X2 = View(x)' /\ Y2 = View(y)'
      OBVIOUS
    <2>12. PICK px, py : px = probes[x] /\ py = probes[y]
      OBVIOUS
    <2>13. /\ px \in ProbeStates /\ py \in ProbeStates /\ px # "none"
           /\ ~(px = "answered" /\ py = "answered") /\ lostLast = FALSE
      BY <1>0, <1>1, <1>2, <2>12 DEF SharesTypeOK, SharesInv, ProbeStates
    <2>14. probes'[x] = "none" /\ probes'[y] = py /\ lostLast' = TRUE /\ "none" \in ProbeStates
      BY <1>2, <1>5, <2>12 DEF ProbeStates
    <2>15. /\ X \in Views /\ Y \in Views /\ X2 \in Views /\ Y2 \in Views
           /\ X2.now = X.now /\ X2.before = X.before /\ X2.next = X.next /\ X2.heard = X.heard
           /\ Y2.now = Y.now /\ Y2.before = Y.before /\ Y2.next = Y.next /\ Y2.heard = Y.heard
           /\ Y2.answered = Y.answered
      BY <2>2, <2>4, <2>5, <2>6, <2>8, <2>10, <2>11
    <2>16. CASE turn = x
      <3>1. PICK knows, told, told2 : knows = Knows(x) /\ told = IsTold(x) /\ told2 = IsTold(x)'
        OBVIOUS
      <3>2. Interlocked(X, Y, px, py, FALSE, knows, told)
        BY <2>1, <2>11, <2>12, <2>13, <2>16, <3>1 DEF Interlock
      <3>3. Interlocked(X2, Y2, "none", py, TRUE, knows, told2)
        BY <2>13, <2>14, <2>15, <3>2, LossInterlocks
      <3>4. Knows(x)' = knows
        BY <1>3, <3>1 DEF Knows, Uninformed
      <3>5. turn' = x
        BY <1>3, <2>16
      <3> QED
        BY <2>11, <2>14, <3>1, <3>3, <3>4, <3>5 DEF Interlock
    <2>17. CASE turn = y
      <3>1. PICK knows, told : knows = Knows(y) /\ told = IsTold(y)
        OBVIOUS
      <3>2. Interlocked(Y, X, py, px, FALSE, knows, told)
        BY <1>0, <2>1, <2>11, <2>12, <2>13, <2>17, <3>1 DEF Interlock
      <3>3. Interlocked(Y2, X2, py, "none", TRUE, knows, told)
        BY <2>13, <2>14, <2>15, <3>2, LossInterlocks
      <3>4. Knows(y)' = knows /\ IsTold(y)' = told
        BY <1>3, <1>5, <3>1 DEF Knows, IsTold, Uninformed
      <3>5. turn' = y
        BY <1>3, <2>17
      <3> QED
        BY <1>0, <2>11, <2>14, <3>3, <3>4, <3>5 DEF Interlock
    <2> QED
      BY <1>0, <2>16, <2>17
  <1> QED
    BY <1>1, <1>4, <1>6, <1>7, <1>8, <1>9 DEF SharesInv

\* A round takes effect as foreseen, or starts a share at the floor.
LEMMA SharesRoundKeeps ==
    ASSUME RiseDelay >= 2, SharesInv, NEW x \in Pair, NEW now \in Demands, NEW takes \in BOOLEAN,
           SharesRound(x, now, takes)
    PROVE  SharesInv'
  <1> USE SharesAssumption
  <1> DEFINE y == Peer(x)
             J == IF member[x] /\ joinedOn[x] = "no" THEN "fresh" ELSE joinedOn[x]
             H == hotness[x] # "cold" \/ heardDemand[x] # Silent \/ (takes /\ now > 0)
  <1>0. y \in Pair /\ y # x /\ Peer(y) = x
    BY PeerIs
  <1>1. SharesTypeOK /\ \A z \in Pair : Started(z)
    BY DEF SharesInv
  <1>2. PICK joins, hot : joins = J /\ hot = H
    OBVIOUS
  <1>3. PICK share : share = ShareOf(x, joins, now)
    OBVIOUS
  <1>4. /\ turn = x /\ turn' = y
        /\ probes[x] = "none" /\ acks[x] = Silent
        /\ joinedOn' = [joinedOn EXCEPT ![x] = joins]
        /\ hotness' = [hotness EXCEPT ![x] = IF hot /\ @ = "cold" THEN "fresh" ELSE @]
        /\ countedAs' = [countedAs EXCEPT ![x] = Size(x)]
        /\ appliedRate' = [appliedRate EXCEPT ![x] =
              Min({CapOf(x, joins), IF hot THEN Smallest(share, recent[x]) ELSE Cold(Size(x))})]
        /\ recent' = [recent EXCEPT ![x] = IF hot THEN Kept(share, @) ELSE <<>>]
        /\ lastReport' = [lastReport EXCEPT ![x] = IF hot THEN now ELSE Silent]
        /\ probes' = [probes EXCEPT ![x] = IF member[x] \/ x = 2 THEN "sent" ELSE "none"]
    BY <1>2, <1>3 DEF SharesRound
  <1>5. UNCHANGED <<member, heardDemand, thenOwn, acks, lostLast>>
    BY DEF SharesRound
  \* What is computed, and what of it is enforced.
  <1>6. /\ share \in 0 .. R
        /\ member[x] => share + Floor(2) <= R
        /\ member[x] /\ (hotness[x] # "heard" \/ joins = "fresh") => share = Floor(2)
        /\ member[x] /\ hotness[x] = "heard" /\ joins # "fresh" /\ thenOwn[x] # Silent =>
             /\ OwnAsOf(x, now) \in Nat /\ OwnAsOf(x, now) <= now
             /\ share = Share(2, OwnAsOf(x, now), Max({heardDemand[x], 0}))
             /\ share <= Share(2, thenOwn[x], Max({heardDemand[x], 0}))
    BY <1>1, <1>3, ShareOfIs
  <1>7. recent[x] \in {<<>>} \cup [1 .. RiseDelay -> 0 .. R]
    BY <1>1 DEF SharesTypeOK
  <1>8. PICK past : past = recent[x]
    OBVIOUS
  <1>9. PICK kept, least, rate :
          /\ kept = Kept(share, past) /\ least = Smallest(share, past)
          /\ rate = Min({CapOf(x, joins), IF hot THEN least ELSE Cold(Size(x))})
    OBVIOUS
  <1>10. /\ kept \in [1 .. RiseDelay -> 0 .. R] /\ kept # <<>>
         /\ kept[1] = share /\ kept[2] = IF past = <<>> THEN share ELSE past[1]
    BY <1>6, <1>7, <1>8, <1>9, KeptIs
  <1>11. /\ least \in 0 .. R /\ least <= share
         /\ past # <<>> => least <= past[1] /\ least <= past[2]
    BY <1>6, <1>7, <1>8, <1>9, SmallestIs
  <1>12. rate \in 0 .. R /\ (hot => rate <= least)
    <2> DEFINE c == CapOf(x, joins)
               d == IF hot THEN least ELSE Cold(Size(x))
    <2>1. c \in 0 .. R /\ Cold(Size(x)) \in 0 .. R
      BY <1>1, CapsAre
    <2>2. d \in 0 .. R
      BY <1>11, <2>1
    <2>3. rate = Min({c, d})
      BY <1>9
    <2>4. hot => d = least
      OBVIOUS
    <2> HIDE DEF c, d
    <2>5. {c, d} \subseteq Nat /\ {c, d} # {}
      BY <2>1, <2>2
    <2>6. rate \in {c, d} /\ \A s \in {c, d} : rate <= s
      BY <2>3, <2>5, MinIs
    <2> QED
      BY <2>1, <2>2, <2>4, <2>6
  <1>13. Size(x) \in {1, 2} /\ (Size(x) = 2 <=> member[x])
    BY <1>1, CapsAre
  <1>14. /\ joinedOn'[x] = joins /\ countedAs'[x] = Size(x)
         /\ hotness'[x] = IF hot /\ hotness[x] = "cold" THEN "fresh" ELSE hotness[x]
         /\ appliedRate'[x] = rate
         /\ recent'[x] = IF hot THEN kept ELSE <<>>
         /\ lastReport'[x] = IF hot THEN now ELSE Silent
         /\ probes'[x] = IF member[x] \/ x = 2 THEN "sent" ELSE "none"
    BY <1>1, <1>4, <1>8, <1>9 DEF SharesTypeOK
  <1>15. \A z \in Pair \ {x} :
           /\ joinedOn'[z] = joinedOn[z] /\ countedAs'[z] = countedAs[z]
           /\ hotness'[z] = hotness[z] /\ appliedRate'[z] = appliedRate[z]
           /\ recent'[z] = recent[z] /\ lastReport'[z] = lastReport[z] /\ probes'[z] = probes[z]
    BY <1>1, <1>4 DEF SharesTypeOK
  <1>16. /\ joins \in {"no", "fresh", "heard"}
         /\ hot \in BOOLEAN /\ (hotness[x] # "cold" => hot)
         /\ joins = "no" <=> joinedOn[x] = "no" /\ ~member[x]
         /\ joins = "fresh" <=> joinedOn[x] = "fresh" \/ (joinedOn[x] = "no" /\ member[x])
    BY <1>1, <1>2 DEF SharesTypeOK
  <1>17. SharesTypeOK'
    <2>1. /\ turn' \in Pair
          /\ member' \in [Pair -> BOOLEAN]
          /\ heardDemand' \in [Pair -> Demands \cup {Silent}]
          /\ thenOwn' \in [Pair -> Demands \cup {Silent}]
          /\ acks' \in [Pair -> Demands \cup {Silent}]
          /\ lostLast' \in BOOLEAN
      BY <1>0, <1>1, <1>4, <1>5 DEF SharesTypeOK
    <2>2. /\ joinedOn' \in [Pair -> {"no", "fresh", "heard"}]
          /\ hotness' \in [Pair -> {"cold", "fresh", "heard"}]
          /\ lastReport' \in [Pair -> Demands \cup {Silent}]
          /\ countedAs' \in [Pair -> {0, 1, 2}]
          /\ probes' \in [Pair -> {"none", "sent", "answered"}]
      BY <1>1, <1>4, <1>13, <1>16 DEF SharesTypeOK
    <2>3. recent' \in [Pair -> {<<>>} \cup [1 .. RiseDelay -> 0 .. R]]
      BY <1>1, <1>4, <1>8, <1>9, <1>10 DEF SharesTypeOK
    <2>4. appliedRate' \in [Pair -> 0 .. R]
      BY <1>1, <1>4, <1>8, <1>9, <1>12 DEF SharesTypeOK
    <2> QED
      BY <2>1, <2>2, <2>3, <2>4 DEF SharesTypeOK
  <1>18. Started(x)'
    <2>1. Started(x)
      BY <1>1
    <2>2. countedAs'[x] = 2 <=> joinedOn'[x] # "no"
      BY <1>13, <1>14, <1>16, <2>1 DEF Started
    <2>3. joinedOn'[x] # "no" => member'[x]
      BY <1>5, <1>14, <1>16, <2>1 DEF Started
    <2>4. hotness'[x] # "cold" => hot
      BY <1>14, <1>16
    <2>5. hotness'[x] # "cold" => recent'[x] # <<>> /\ lastReport'[x] # Silent
      BY <1>10, <1>14, <2>4 DEF Silent
    <2>6. hotness'[x] = "heard" => thenOwn'[x] # Silent
      BY <1>5, <1>14, <2>1 DEF Started
    <2>7. ASSUME Enforces(x)'
          PROVE  /\ appliedRate'[x] <= recent'[x][1] /\ appliedRate'[x] <= recent'[x][2]
                 /\ recent'[x][1] + Floor(2) <= R
      <3>1. hot /\ member[x]
        BY <1>13, <1>14, <2>4, <2>7 DEF Enforces
      <3>2. recent'[x] = kept /\ appliedRate'[x] = rate
        BY <1>14, <3>1
      <3>3. rate <= share /\ (past # <<>> => rate <= past[1])
        <4>1. past # <<>> => past[1] \in Nat
          BY <1>7, <1>8
        <4> QED
          BY <1>6, <1>11, <1>12, <3>1, <4>1
      <3> QED
        BY <1>6, <1>10, <3>1, <3>2, <3>3
    <2> QED
      BY <2>2, <2>3, <2>5, <2>6, <2>7 DEF Started, Floor
  <1>19. \A z \in Pair : Started(z)'
    <2>1. Started(y)'
      BY <1>0, <1>1, <1>5, <1>15 DEF Started, Enforces, Floor
    <2> QED
      BY <1>18, <2>1, PeerIs
  <1>20. ~(probes[1] = "answered" /\ probes[2] = "answered")'
    <2>1. probes'[x] # "answered"
      BY <1>14
    <2> QED
      BY <2>1
  <1>21. ASSUME Enforces(1)', Enforces(2)' PROVE SharesFit' /\ Interlock(turn)'
    <2>0. /\ hot /\ member[x] /\ Enforces(y) /\ lastReport'[x] = now /\ lastReport'[y] = lastReport[y]
          /\ recent'[x] = kept /\ appliedRate'[x] = rate /\ probes'[x] = "sent"
      <3>1. Enforces(x)' /\ Enforces(y)'
        BY <1>0, <1>21
      <3>2. hot /\ member[x]
        BY <1>13, <1>14, <1>16, <3>1 DEF Enforces
      <3>3. Enforces(y)
        BY <1>0, <1>15, <3>1 DEF Enforces
      <3> QED
        BY <1>0, <1>14, <1>15, <3>2, <3>3
    <2>1. /\ recent[y] \in [1 .. RiseDelay -> 0 .. R] /\ lastReport[y] \in Nat
          /\ View(y).now = recent[y][1] /\ View(y).before = recent[y][2]
          /\ View(y).now \in Nat /\ View(y).before \in Nat
          /\ View(y).next \in Nat /\ View(y).answered \in Nat
          /\ View(y).now + Floor(2) <= R /\ View(y).next + Floor(2) <= R
          /\ View(y).answered + Floor(2) <= R
      BY <1>0, <1>1, <2>0, ViewIs
    <2>2. appliedRate[y] \in Nat /\ appliedRate[y] <= View(y).now /\ appliedRate[y] <= View(y).before
      BY <1>0, <1>1, <2>0, <2>1 DEF Started, SharesTypeOK
    <2>3. now \in Nat /\ rate \in Nat /\ share \in Nat /\ rate <= share /\ least <= share
          /\ Floor(2) \in Nat
      BY <1>6, <1>11, <1>12, <2>0, FloorIs
    <2>4. /\ View(y)'.now = View(y).now /\ View(y)'.before = View(y).before
          /\ View(x)'.now = share /\ View(x)'.before = IF past = <<>> THEN share ELSE past[1]
      BY <1>0, <1>10, <1>15, <2>0 DEF View
    <2>5. /\ View(x)'.heard = Share(2, now, lastReport[y])
          /\ View(y)'.heard = Share(2, lastReport[y], now)
      BY <1>0, <2>0 DEF View
    <2>6. /\ View(y)'.heard + View(x)'.heard <= R
          /\ View(x)'.heard \in Nat /\ View(y)'.heard \in Nat /\ View(y)'.heard + Floor(2) <= R
      <3> DEFINE l == lastReport[y]
      <3>1. l \in Nat /\ l <= l /\ now <= now
        BY <2>1, <2>3, SMTT(30)
      <3> HIDE DEF l
      <3>2. Share(2, l, now) + Share(2, now, l) <= R
        BY <2>3, <3>1, SharesMeet
      <3>3. Share(2, l, now) \in Nat /\ Share(2, now, l) \in Nat /\ Share(2, l, now) + Floor(2) <= R
        BY <2>3, <3>1, ShareIs
      <3> QED
        BY <2>5, <3>2, <3>3 DEF l
    <2>7. View(y)'.next = View(y).next
      BY <1>0, <1>5, <1>15 DEF View, Uninformed
    <2>8. View(y)'.answered = View(y).answered
      BY <1>0, <1>5, <2>0 DEF View
    <2>9. View(x)'.answered \in Nat
      <3>1. Max({acks[x], 0}) \in Nat
        BY <1>1, TakenAs DEF SharesTypeOK
      <3>2. View(x)'.answered = Share(2, now, Max({acks[x], 0}))
        BY <1>5, <2>0 DEF View
      <3> QED
        BY <2>3, <3>1, <3>2, ShareIs
    <2>10. View(x)'.before \in Nat
      <3>1. past # <<>> => past[1] \in Nat
        BY <1>7, <1>8
      <3> QED
        BY <2>3, <2>4, <3>1
    <2>11. ASSUME View(x)'.next \in Nat PROVE View(x)' \in Views /\ View(y)' \in Views
      <3>1. View(x)' = [now |-> View(x)'.now, before |-> View(x)'.before, next |-> View(x)'.next,
                        answered |-> View(x)'.answered, heard |-> View(x)'.heard]
        BY DEF View
      <3>2. View(y)' = [now |-> View(y)'.now, before |-> View(y)'.before, next |-> View(y)'.next,
                        answered |-> View(y)'.answered, heard |-> View(y)'.heard]
        BY DEF View
      <3> QED
        BY <2>1, <2>3, <2>4, <2>6, <2>7, <2>8, <2>9, <2>10, <2>11, <3>1, <3>2 DEF Views
    <2>12. PICK Y, Y2, X2 : Y = View(y) /\ Y2 = View(y)' /\ X2 = View(x)'
      OBVIOUS
    <2>13. PICK py, lost, knows2, told2 :
              py = probes[y] /\ lost = lostLast /\ knows2 = Knows(y)' /\ told2 = IsTold(y)'
      OBVIOUS
    <2>14. py \in ProbeStates /\ lost \in BOOLEAN
      BY <1>0, <1>1, <2>13 DEF SharesTypeOK, ProbeStates
    <2>15. ASSUME Interlocked(Y2, X2, py, "sent", lost, knows2, told2) PROVE Interlock(turn)'
      <3>1. turn' = y /\ probes'[y] = py /\ lostLast' = lost /\ probes'[x] = "sent"
        BY <1>0, <1>4, <1>5, <1>15, <2>0, <2>13
      <3> QED
        BY <1>0, <2>12, <2>13, <2>15, <3>1 DEF Interlock
    <2>16. ASSUME rate + appliedRate[y] <= R PROVE SharesFit'
      <3>1. appliedRate'[x] + appliedRate'[y] <= R
        BY <1>0, <1>15, <2>0, <2>16
      <3>2. \/ x = 1 /\ y = 2
            \/ x = 2 /\ y = 1
        BY <1>0
      <3>3. appliedRate'[x] \in Nat /\ appliedRate'[y] \in Nat
        BY <1>0, <1>15, <2>0, <2>2, <2>3
      <3>4. appliedRate'[1] + appliedRate'[2] <= R
        BY <3>1, <3>2, <3>3
      <3> QED
        BY <3>4 DEF SharesFit
    <2>17. CASE Enforces(x)
      <3>1. View(x) \in Views /\ past # <<>> /\ View(x).now = past[1] /\ View(x).before = past[2]
        <4>1. View(x) \in Views
          BY <1>0, <1>1, <2>0, <2>17, ViewsAre
        <4>2. Started(x)
          BY <1>1
        <4> QED
          BY <1>8, <2>17, <4>1, <4>2 DEF Started, Enforces, View
      <3>2. PICK X, knows, told : X = View(x) /\ knows = Knows(x) /\ told = IsTold(x)
        OBVIOUS
      <3>3. X \in Views /\ Y \in Views
        BY <1>0, <1>1, <2>0, <2>12, <2>17, <3>1, <3>2, ViewsAre
      <3>4. Interlocked(X, Y, "none", py, lost, knows, told)
        <4>1. Interlock(x)
          BY <1>0, <1>4, <2>0, <2>17 DEF SharesInv
        <4> QED
          BY <1>4, <2>12, <2>13, <3>2, <4>1 DEF Interlock
      <3>5. /\ joinedOn[x] # "no" /\ joins = joinedOn[x] /\ hotness[x] # "cold"
            /\ hotness[x] = "heard" => thenOwn[x] # Silent
            /\ Uninformed(x) <=> hotness[x] # "heard" \/ joins = "fresh"
            /\ Uninformed(x)' <=> Uninformed(x)
        <4>1. Started(x)
          BY <1>1
        <4>2. joinedOn[x] # "no" /\ hotness[x] # "cold"
              /\ (hotness[x] = "heard" => thenOwn[x] # Silent)
          BY <2>17, <4>1 DEF Started, Enforces
        <4>3. joins = joinedOn[x]
          BY <1>2, <4>2
        <4> QED
          BY <1>14, <4>2, <4>3 DEF Uninformed
      <3>6. share <= X.next
        BY <1>6, <2>0, <2>3, <3>2, <3>5 DEF View
      <3>7. View(x)'.next = X.next
        BY <1>5, <3>2, <3>5 DEF View
      <3>8. ASSUME knows PROVE Y2.heard + share <= R
        <4>1. CASE Uninformed(x)
          <5>1. share = Floor(2)
            BY <1>6, <2>0, <3>5, <4>1
          <5> QED
            BY <2>6, <2>12, <5>1
        <4>2. CASE ~Uninformed(x)
          <5>1. PICK own, h : own = OwnAsOf(x, now) /\ h = Max({heardDemand[x], 0})
            OBVIOUS
          <5>2. own \in Nat /\ own <= now /\ share = Share(2, own, h)
            BY <1>6, <2>0, <3>5, <4>2, <5>1
          <5>3. lastReport[y] <= heardDemand[x]
            BY <3>2, <3>8, <4>2 DEF Knows
          <5>4. heardDemand[x] \in Demands \cup {Silent}
            BY <1>1 DEF SharesTypeOK
          <5>5. h \in Nat /\ heardDemand[x] <= h /\ heardDemand[x] \in Int
            <6>1. heardDemand[x] \in Int
              BY <5>4, TakenAs
            <6>2. Max({heardDemand[x], 0}) \in Nat /\ heardDemand[x] <= Max({heardDemand[x], 0})
              BY <5>4, TakenAs
            <6> QED
              BY <5>1, <6>1, <6>2
          <5>6. lastReport[y] <= h
            BY <2>1, <5>3, <5>5
          <5>7. Share(2, own, h) + Share(2, lastReport[y], now) <= R
            BY <2>1, <2>3, <5>2, <5>5, <5>6, SharesMeet
          <5> QED
            BY <2>3, <2>5, <2>6, <2>12, <5>2, <5>7
        <4> QED
          BY <4>1, <4>2
      <3>9. /\ X2 \in Views /\ Y2 \in Views
            /\ Y2.now = Y.now /\ Y2.before = Y.before /\ Y2.next = Y.next /\ Y2.answered = Y.answered
            /\ X2.now <= X.next /\ X2.before = X.now /\ X2.next = X.next
            /\ Y2.heard + X2.heard <= R /\ (knows => Y2.heard + X2.now <= R)
        <4>1. X2 \in Views /\ Y2 \in Views
          BY <2>11, <2>12, <3>3, <3>7 DEF Views
        <4> QED
          BY <2>4, <2>6, <2>7, <2>8, <2>12, <3>1, <3>2, <3>6, <3>7, <3>8, <4>1
      <3>10. Interlocked(Y2, X2, py, "sent", lost, knows2, told2)
        BY <2>14, <3>3, <3>4, <3>9, RoundInterlocks
      <3>11. OneFits({X.now, X.before, X.next}, {Y.now, Y.before})
        BY <3>4 DEF Interlocked
      <3>12. rate <= X.now /\ rate <= X.before /\ rate <= X.next
             /\ appliedRate[y] <= Y.now /\ appliedRate[y] <= Y.before
        <4>1. X.now = past[1] /\ X.before = past[2] /\ X.now \in Nat /\ X.before \in Nat
              /\ X.next \in Nat
          BY <3>1, <3>2, <3>3 DEF Views
        <4>2. rate <= least /\ least <= past[1] /\ least <= past[2] /\ least \in Nat
          BY <1>11, <1>12, <2>0, <3>1
        <4>3. rate <= X.now /\ rate <= X.before
          BY <2>3, <4>1, <4>2
        <4>4. rate <= X.next
          BY <2>3, <3>6, <4>1
        <4> QED
          BY <2>2, <2>12, <4>3, <4>4
      <3>13. rate + appliedRate[y] <= R
        BY <2>2, <2>3, <3>3, <3>11, <3>12 DEF OneFits, Views
      <3> QED
        BY <2>15, <2>16, <3>10, <3>13
    <2>18. CASE ~Enforces(x)
      <3>1. hotness[x] # "heard" \/ joins = "fresh"
        <4>1. Started(x)
          BY <1>1
        <4> QED
          BY <1>16, <2>0, <2>18, <4>1 DEF Started, Enforces
      <3>2. share = Floor(2)
        BY <1>6, <2>0, <3>1
      <3>3. Uninformed(x)'
        BY <1>14, <3>1 DEF Uninformed
      <3>4. View(x)'.next = Floor(2)
        BY <3>3 DEF View
      <3>5. X2 \in Views /\ Y2 \in Views
        BY <2>3, <2>11, <2>12, <3>4
      <3>6. /\ Y2.now + X2.now <= R /\ Y2.next + X2.now <= R /\ Y2.answered + X2.now <= R
            /\ Y2.heard + X2.now <= R /\ X2.next = X2.now
        BY <2>1, <2>4, <2>6, <2>7, <2>8, <2>12, <3>2, <3>4
      <3>7. Interlocked(Y2, X2, py, "sent", lost, knows2, told2)
        BY <2>14, <3>5, <3>6, FloorInterlocks
      <3>8. rate + appliedRate[y] <= R
        BY <2>1, <2>2, <2>3, <3>2, SMTT(30)
      <3> QED
        BY <2>15, <2>16, <3>7, <3>8
    <2> QED
      BY <2>17, <2>18
  <1>22. SharesFit'
    <2>1. ~(Enforces(1)' /\ Enforces(2)') => SharesFit'
      BY DEF SharesFit, Enforces
    <2> QED
      BY <1>21, <2>1
  <1> QED
    BY <1>17, <1>19, <1>20, <1>21, <1>22 DEF SharesInv

\* Every step of the two nodes keeps the invariant.
LEMMA SharesStep == ASSUME RiseDelay >= 2 PROVE SharesInv /\ [SharesNext]_sharesVars => SharesInv'
  <1> SUFFICES ASSUME SharesInv, [SharesNext]_sharesVars PROVE SharesInv'
    OBVIOUS
  <1>1. ASSUME NEW x \in Pair, NEW now \in Demands, NEW takes \in BOOLEAN,
               SharesRound(x, now, takes)
        PROVE  SharesInv'
    BY <1>1, SharesRoundKeeps
  <1>2. ASSUME NEW x \in Pair, DeliverProbe(x) PROVE SharesInv'
    BY <1>2, ProbeKeeps
  <1>3. ASSUME NEW x \in Pair, DeliverAck(x) PROVE SharesInv'
    BY <1>3, AnswerKeeps
  <1>4. ASSUME NEW x \in Pair, LoseProbe(x) PROVE SharesInv'
    BY <1>4, LossKeeps
  <1>5. CASE UNCHANGED sharesVars
    <2>1. UNCHANGED <<turn, member, joinedOn, hotness, lastReport, heardDemand, thenOwn, recent,
                      appliedRate, countedAs, probes, acks, lostLast>>
      BY <1>5 DEF sharesVars
    <2>2. SharesTypeOK' /\ SharesFit'
      BY <2>1 DEF SharesInv, SharesTypeOK, SharesFit
    <2>3. \A x \in Pair : Started(x)' /\ (Enforces(x)' <=> Enforces(x))
      BY <2>1 DEF SharesInv, Started, Enforces, Floor
    <2>4. \A x \in Pair : View(x)' = View(x)
      BY <2>1 DEF View, Uninformed
    <2>5. Interlock(turn) => Interlock(turn)'
      BY <2>1, <2>4, PeerIs DEF Interlock, Knows, IsTold, Uninformed, SharesInv, SharesTypeOK
    <2> QED
      BY <2>1, <2>2, <2>3, <2>5, SharesAssumption DEF SharesInv
  <1> QED
    BY <1>1, <1>2, <1>3, <1>4, <1>5 DEF SharesNext

\* The shares two nodes enforce add up to no more than the limit, whatever their
\* demands, from the round on at which both count each other and hold the key hot,
\* with RISE_DELAY_ROUNDS of at least two.
THEOREM SharesStayWithinLimit == ASSUME RiseDelay >= 2 PROVE SharesSpec => []SharesFit
  <1>1. SharesInv => SharesFit
    BY DEF SharesInv
  <1>2. SharesInv /\ [SharesNext]_sharesVars => SharesInv'
    BY SharesStep
  <1> QED
    BY <1>1, <1>2, SharesStart, PTL DEF SharesSpec

----------------------------------------------------------------------------
\* Types of the probes, in either weather.

ProbeTyped ==
    /\ ProbeTypeOK
    /\ seq \in [Members -> Nat]
    /\ probe \in [Members -> {NoProbe} \cup ProbeRecord]
    /\ relays \in [Members -> SUBSET RelayRecord]

\* The numbers a node may give are those of some node.
LEMMA SeqsAre == \A n \in Members : MaxSeq[n] \in Nat \ {0} /\ 1 .. MaxSeq[n] \subseteq Seqs
  <1> SUFFICES ASSUME NEW n \in Members
               PROVE  MaxSeq[n] \in Nat \ {0} /\ 1 .. MaxSeq[n] \subseteq Seqs
    OBVIOUS
  <1> DEFINE S == {MaxSeq[m] : m \in Members}
             f == [m \in Members |-> MaxSeq[m]]
  <1>1. \A m \in Members : MaxSeq[m] \in Nat \ {0}
    BY ProbeAssumption
  <1>2. f \in Surjection(Members, S)
    BY DEF Surjection
  <1>3. IsFiniteSet(S)
    BY <1>2, ProbeAssumption, FS_Surjection
  <1>4. S \subseteq Nat /\ MaxSeq[n] \in S
    BY <1>1
  <1>5. Seqs = 1 .. Max(S)
    BY DEF Seqs
  <1> HIDE DEF S
  <1>6. Max(S) \in Nat /\ MaxSeq[n] <= Max(S)
    BY <1>3, <1>4, MaxIsFinite
  <1> QED
    BY <1>1, <1>5, <1>6

\* The next number of a node is one it may give.
LEMMA NextSeqIs ==
    ASSUME ProbeTyped, NEW n \in Members
    PROVE  NextSeq(n) \in 1 .. MaxSeq[n] /\ NextSeq(n) \in Seqs
  <1>1. seq[n] \in 0 .. MaxSeq[n] /\ MaxSeq[n] \in Nat \ {0}
    BY SeqsAre DEF ProbeTyped, ProbeTypeOK
  <1>2. NextSeq(n) \in 1 .. MaxSeq[n]
    BY <1>1 DEF NextSeq
  <1> QED
    BY <1>2, SeqsAre

LEMMA ProbeTypesStart == ProbeInit => ProbeTyped
  <1> SUFFICES ASSUME ProbeInit PROVE ProbeTyped
    OBVIOUS
  <1>1. \A n \in Members : 0 \in 0 .. MaxSeq[n]
    BY SeqsAre
  <1> QED
    BY <1>1 DEF ProbeInit, ProbeTyped, ProbeTypeOK

\* A step that sends what are datagrams and gives numbers it may.
LEMMA ProbeTypesAre ==
    ASSUME ProbeTyped, weather' = weather,
           seq' \in [Members -> Nat], \A n \in Members : seq'[n] \in 0 .. MaxSeq[n],
           probe' \in [Members -> {NoProbe} \cup ProbeRecord],
           relays' \in [Members -> SUBSET RelayRecord],
           wire' \subseteq Datagram, suspects' \in [Members -> SUBSET Members],
           answers' \subseteq Cause, vouched' \subseteq Cause
    PROVE  ProbeTyped'
  BY DEF ProbeTyped, ProbeTypeOK

LEMMA RoundIsTyped ==
    ASSUME ProbeTyped, NEW n \in Members, NEW t \in Members, ProbeRound(n, t)
    PROVE  ProbeTyped'
  <1> DEFINE own == NextSeq(n)
             p == [target |-> t, seq |-> own, helpers |-> NotAsked]
             new == Ping(n, t, own, [by |-> n, seq |-> own])
  <1>1. own \in 1 .. MaxSeq[n] /\ own \in Seqs /\ MaxSeq[n] \in Nat
    BY NextSeqIs, SeqsAre
  <1>2. /\ weather \in Weathers /\ seq \in [Members -> Nat]
        /\ \A m \in Members : seq[m] \in 0 .. MaxSeq[m]
        /\ probe \in [Members -> {NoProbe} \cup ProbeRecord]
        /\ relays \in [Members -> SUBSET RelayRecord] /\ wire \subseteq Datagram
        /\ suspects \in [Members -> SUBSET Members] /\ answers \subseteq Cause /\ vouched \subseteq Cause
    BY DEF ProbeTyped, ProbeTypeOK
  <1>3. /\ seq' = [seq EXCEPT ![n] = own] /\ seq'[n] = own
        /\ suspects' = [suspects EXCEPT ![n] = @ \cup ({probe[n].target} \ {0})]
    BY <1>2 DEF ProbeRound
  <1>4. /\ probe' = [probe EXCEPT ![n] = p] /\ wire' = wire \cup Carried({new})
        /\ UNCHANGED <<weather, relays, answers, vouched>>
    BY <1>3 DEF ProbeRound
  <1>5. p \in ProbeRecord /\ new \in Datagram
    BY <1>1 DEF ProbeRecord, Ping, Datagram, Cause
  <1>6. {probe[n].target} \ {0} \subseteq Members
    BY <1>2 DEF ProbeRecord, NoProbe
  <1> HIDE DEF own, p, new
  <1>7. wire' \subseteq Datagram
    BY <1>2, <1>4, <1>5 DEF Carried
  <1>8. seq' \in [Members -> Nat] /\ \A m \in Members : seq'[m] \in 0 .. MaxSeq[m]
    BY <1>1, <1>2, <1>3
  <1>9. probe' \in [Members -> {NoProbe} \cup ProbeRecord] /\ suspects' \in [Members -> SUBSET Members]
    BY <1>2, <1>3, <1>4, <1>5, <1>6
  <1> QED
    BY <1>2, <1>4, <1>7, <1>8, <1>9, ProbeTypesAre

LEMMA EscalateIsTyped ==
    ASSUME ProbeTyped, NEW n \in Members, Escalate(n)
    PROVE  ProbeTyped'
  <1> DEFINE Ask(h) == [kind |-> "ping_req", from |-> n, to |-> h, seq |-> probe[n].seq,
                        target |-> probe[n].target, cause |-> [by |-> n, seq |-> probe[n].seq]]
  <1>1. PICK helpers \in Helpers(n) :
           /\ probe' = [probe EXCEPT ![n].helpers = helpers]
           /\ wire' = wire \cup Carried({Ask(h) : h \in helpers})
    BY DEF Escalate
  <1>2. /\ weather \in Weathers /\ seq \in [Members -> Nat]
        /\ \A m \in Members : seq[m] \in 0 .. MaxSeq[m]
        /\ probe \in [Members -> {NoProbe} \cup ProbeRecord]
        /\ relays \in [Members -> SUBSET RelayRecord] /\ wire \subseteq Datagram
        /\ suspects \in [Members -> SUBSET Members] /\ answers \subseteq Cause /\ vouched \subseteq Cause
    BY DEF ProbeTyped, ProbeTypeOK
  <1>3. UNCHANGED <<weather, seq, relays, suspects, answers, vouched>>
    BY DEF Escalate
  <1>4. probe[n] \in ProbeRecord
    <2>1. probe[n].helpers = {0}
      BY DEF Escalate, NotAsked
    <2>2. probe[n] # NoProbe
      BY <2>1 DEF NoProbe
    <2> QED
      BY <1>2, <2>2
  <1>5. helpers \subseteq Members
    BY DEF Helpers, kSubset
  <1>6. \A h \in helpers : Ask(h) \in Datagram
    BY <1>4, <1>5 DEF ProbeRecord, Datagram, Cause
  <1> HIDE DEF Ask
  <1>7. wire' \subseteq Datagram
    BY <1>1, <1>2, <1>6 DEF Carried
  <1>8. probe' \in [Members -> {NoProbe} \cup ProbeRecord]
    <2> DEFINE p == [probe[n] EXCEPT !.helpers = helpers]
    <2>1. p \in ProbeRecord
      BY <1>4, <1>5 DEF ProbeRecord
    <2>2. probe' = [probe EXCEPT ![n] = p]
      BY <1>1
    <2> HIDE DEF p
    <2> QED
      BY <1>2, <2>1, <2>2
  <1> QED
    BY <1>2, <1>3, <1>7, <1>8, ProbeTypesAre

LEMMA ExchangeIsTyped ==
    ASSUME ProbeTyped, NEW m, NEW messages, messages \subseteq Datagram, Exchange(m, messages)
    PROVE  wire' \subseteq Datagram
  BY DEF ProbeTyped, ProbeTypeOK, Exchange, Carried

\* A datagram is received: a ping, a request or an answer.
LEMMA ReceiptIsTyped ==
    ASSUME ProbeTyped, NEW m \in wire, ReceivePing(m) \/ Relay(m) \/ Acknowledged(m)
    PROVE  ProbeTyped'
  <1>1. /\ weather \in Weathers /\ seq \in [Members -> Nat]
        /\ \A q \in Members : seq[q] \in 0 .. MaxSeq[q]
        /\ probe \in [Members -> {NoProbe} \cup ProbeRecord]
        /\ relays \in [Members -> SUBSET RelayRecord] /\ wire \subseteq Datagram
        /\ suspects \in [Members -> SUBSET Members] /\ answers \subseteq Cause /\ vouched \subseteq Cause
    BY DEF ProbeTyped, ProbeTypeOK
  <1>2. m \in Datagram
    BY <1>1
  <1>3. m.from \in Members /\ m.to \in Members /\ m.seq \in Seqs /\ m.target \in Members
        /\ m.cause \in Cause
    BY <1>2 DEF Datagram
  <1> DEFINE n == m.to
  <1>4. CASE ReceivePing(m)
    <2> DEFINE a == Ack(m.to, m.from, m.seq, m.cause)
    <2>1. a \in Datagram
      BY <1>3 DEF Ack, Datagram
    <2>2. Exchange(m, {a}) /\ answers' = answers \cup {m.cause}
          /\ UNCHANGED <<weather, seq, probe, relays, suspects, vouched>>
      BY <1>4 DEF ReceivePing
    <2> HIDE DEF a
    <2>3. wire' \subseteq Datagram
      BY <2>1, <2>2, ExchangeIsTyped
    <2> QED
      BY <1>1, <1>3, <2>2, <2>3, ProbeTypesAre
  <1>5. CASE Relay(m)
    <2> DEFINE own == NextSeq(n)
               r == [own |-> own, requester |-> m.from, seq |-> m.seq, target |-> m.target]
               p == Ping(n, m.target, own, m.cause)
    <2>1. own \in 1 .. MaxSeq[n] /\ own \in Seqs /\ MaxSeq[n] \in Nat
      BY <1>3, NextSeqIs, SeqsAre
    <2>2. r \in RelayRecord /\ p \in Datagram
      BY <1>3, <2>1 DEF RelayRecord, Ping, Datagram
    <2>3. seq' = [seq EXCEPT ![n] = own] /\ relays' = [relays EXCEPT ![n] = @ \cup {r}]
          /\ Exchange(m, {p}) /\ UNCHANGED <<weather, probe, suspects, answers, vouched>>
      BY <1>5 DEF Relay
    <2> HIDE DEF own, r, p
    <2>4. wire' \subseteq Datagram
      BY <2>2, <2>3, ExchangeIsTyped
    <2>5. seq' \in [Members -> Nat] /\ \A q \in Members : seq'[q] \in 0 .. MaxSeq[q]
      BY <1>1, <1>3, <2>1, <2>3
    <2>6. relays' \in [Members -> SUBSET RelayRecord]
      BY <1>1, <1>3, <2>2, <2>3
    <2> QED
      BY <1>1, <2>3, <2>4, <2>5, <2>6, ProbeTypesAre
  <1>6. CASE Acknowledged(m) /\ EndsWait(n, m)
    <2> DEFINE c == [by |-> n, seq |-> probe[n].seq]
    <2>1. probe[n] \in ProbeRecord
      BY <1>1, <1>3, <1>6 DEF EndsWait
    <2>2. c \in Cause
      BY <1>3, <2>1 DEF ProbeRecord, Cause
    <2>3. vouched' = vouched \cup {c} /\ probe' = [probe EXCEPT ![n] = NoProbe]
          /\ Exchange(m, {}) /\ UNCHANGED <<weather, seq, relays, suspects, answers>>
      BY <1>6 DEF Acknowledged
    <2> HIDE DEF c
    <2>4. wire' \subseteq Datagram
      BY <2>3, ExchangeIsTyped
    <2>5. probe' \in [Members -> {NoProbe} \cup ProbeRecord]
      BY <1>1, <2>3
    <2> QED
      BY <1>1, <2>2, <2>3, <2>4, <2>5, ProbeTypesAre
  <1>7. CASE Acknowledged(m) /\ ~EndsWait(n, m)
    <2> DEFINE told == {Ack(n, r.requester, r.seq, m.cause) : r \in Answered(n, m)}
    <2>1. relays' = [relays EXCEPT ![n] = @ \ Answered(n, m)] /\ Exchange(m, told)
          /\ UNCHANGED <<weather, seq, probe, suspects, answers, vouched>>
      BY <1>7 DEF Acknowledged
    <2>2. told \subseteq Datagram
      <3>1. \A r \in Answered(n, m) : r \in RelayRecord
        BY <1>1, <1>3 DEF Answered
      <3> QED
        BY <1>3, <3>1 DEF RelayRecord, Ack, Datagram
    <2> HIDE DEF told
    <2>3. wire' \subseteq Datagram
      BY <2>1, <2>2, ExchangeIsTyped
    <2>4. relays' \in [Members -> SUBSET RelayRecord]
      BY <1>1, <2>1
    <2> QED
      BY <1>1, <2>1, <2>3, <2>4, ProbeTypesAre
  <1> QED
    BY <1>4, <1>5, <1>6, <1>7

LEMMA ProbeTypesStep == ProbeTyped /\ [ProbeNext]_probeVars => ProbeTyped'
  <1> SUFFICES ASSUME ProbeTyped, [ProbeNext]_probeVars PROVE ProbeTyped'
    OBVIOUS
  <1>1. Probers \subseteq Members
    BY ProbeAssumption
  <1>2. CASE \E n \in Probers, t \in Members : t # n /\ ProbeRound(n, t)
    BY <1>1, <1>2, RoundIsTyped
  <1>3. CASE \E n \in Probers : Escalate(n)
    BY <1>1, <1>3, EscalateIsTyped
  <1>4. CASE \E n \in Probers : Cleared(n)
    <2>1. PICK n \in Probers : \E p : suspects' = [suspects EXCEPT ![n] = @ \ {p}]
      BY <1>4 DEF Cleared
    <2>2. PICK p : suspects' = [suspects EXCEPT ![n] = @ \ {p}]
      BY <2>1
    <2>3. suspects' \in [Members -> SUBSET Members]
      BY <1>1, <2>2 DEF ProbeTyped, ProbeTypeOK
    <2> QED
      BY <1>4, <2>3 DEF Cleared, ProbeTyped, ProbeTypeOK
  <1>5. CASE \E n \in Members : Expire(n)
    <2>1. PICK n \in Members : \E r : relays' = [relays EXCEPT ![n] = @ \ {r}]
      BY <1>5 DEF Expire
    <2> QED
      BY <1>5, <2>1 DEF Expire, ProbeTyped, ProbeTypeOK
  <1>6. CASE \E m \in wire : ReceivePing(m) \/ Relay(m) \/ Acknowledged(m)
    BY <1>6, ReceiptIsTyped
  <1>7. CASE UNCHANGED probeVars
    BY <1>7 DEF probeVars, ProbeTyped, ProbeTypeOK
  <1> QED
    BY <1>2, <1>3, <1>4, <1>5, <1>6, <1>7 DEF ProbeNext

----------------------------------------------------------------------------
\* Types of the policy's state.

PolicyTyped == Sampled /\ PolicyTypeOK

\* A node and some of the others are no more than there are nodes.
LEMMA SizeIs ==
    ASSUME NEW o \in Observed, NEW with, with \subseteq Others(o)
    PROVE  1 + Cardinality(with) \in 1 .. Cardinality(Nodes)
  <1>1. /\ Cardinality(with) \in Nat /\ Cardinality({o} \cup with) = 1 + Cardinality(with)
        /\ {o} \cup with \in SUBSET Nodes
    BY SeenNow
  <1>2. Cardinality({o} \cup with) <= Cardinality(Nodes) /\ Cardinality(Nodes) \in Nat
    BY <1>1, PolicyAssumption, FS_Subset, FS_CardinalityType
  <1> QED
    BY <1>1, <1>2

\* So are those it counts as live, and those it counts for the quorum.
LEMMA ViewSizes ==
    ASSUME NEW o \in Observed
    PROVE  /\ ClusterSize(o) \in 1 .. Cardinality(Nodes)
           /\ KnownForQuorum(o) \in 1 .. Cardinality(Nodes)
           /\ Cardinality(Nodes) \in Nat
  <1> DEFINE kept == InView(o, LiveStatus)
             buried == InView(o, {"dead"})
  <1>1. kept \subseteq Others(o) /\ buried \subseteq Others(o) /\ kept \cap buried = {}
    BY DEF InView, LiveStatus
  <1>2. IsFiniteSet(Others(o)) /\ Cardinality(Nodes) \in Nat
    BY PolicyAssumption, FS_Subset, FS_CardinalityType DEF Others
  <1>3. ClusterSize(o) = 1 + Cardinality(kept)
        /\ KnownForQuorum(o) = ClusterSize(o) + Cardinality(buried)
    BY DEF ClusterSize, KnownForQuorum
  <1> HIDE DEF kept, buried
  <1>4. IsFiniteSet(kept) /\ IsFiniteSet(buried) /\ Cardinality(kept) \in Nat /\ Cardinality(buried) \in Nat
    BY <1>1, <1>2, FS_Subset, FS_CardinalityType
  <1>5. Cardinality(kept \cup buried) = Cardinality(kept) + Cardinality(buried)
    <2>1. Cardinality(kept \cap buried) = 0
      BY <1>1, FS_EmptySet
    <2>2. Cardinality(kept \cup buried) =
             Cardinality(kept) + Cardinality(buried) - Cardinality(kept \cap buried)
      BY <1>4, FS_Union
    <2> QED
      BY <1>4, <2>1, <2>2
  <1>6. 1 + Cardinality(kept) \in 1 .. Cardinality(Nodes)
    BY <1>1, SizeIs
  <1>7. 1 + Cardinality(kept \cup buried) \in 1 .. Cardinality(Nodes)
    BY <1>1, SizeIs
  <1> QED
    BY <1>2, <1>3, <1>4, <1>5, <1>6, <1>7

\* The largest divisor a cap may have.
LargestDivisor == Max({MaxMembers, Cardinality(Nodes)})

LEMMA LargestDivisorIs ==
    LargestDivisor \in Nat /\ MaxMembers <= LargestDivisor /\ Cardinality(Nodes) <= LargestDivisor
  <1>1. MaxMembers \in Nat /\ Cardinality(Nodes) \in Nat
    BY PolicyAssumption, FS_CardinalityType
  <1> QED
    BY <1>1, MaxOfTwo DEF LargestDivisor

\* share_size() is within it.
LEMMA ShareSizeIs ==
    ASSUME NEW size \in 0 .. Cardinality(Nodes), NEW heldSz \in 0 .. Cardinality(Nodes), NEW ref
    PROVE  ShareSize(size, heldSz, ref) \in 0 .. LargestDivisor
  <1>1. Cardinality(Nodes) \in Nat /\ MaxMembers \in Nat
    BY PolicyAssumption, FS_CardinalityType
  <1>2. AllocationSize(size, heldSz) \in 0 .. Cardinality(Nodes)
    BY <1>1, MaxOfTwo DEF AllocationSize
  <1> DEFINE S == {AllocationSize(size, heldSz)} \cup (IF ref > 0 THEN {MaxMembers} ELSE {})
  <1>3. S \subseteq Nat /\ S # {} /\ \A s \in S : s <= LargestDivisor
    BY <1>1, <1>2, LargestDivisorIs
  <1>4. ShareSize(size, heldSz, ref) = Max(S)
    BY DEF ShareSize
  <1> HIDE DEF S
  <1>5. Max(S) \in S
    BY <1>3, LargestDivisorIs, MaxIs
  <1>6. Max(S) \in Nat /\ Max(S) <= LargestDivisor
    BY <1>3, <1>5
  <1> QED
    BY <1>4, <1>6, LargestDivisorIs

\* refresh_cap() divides by no more than it.
LEMMA CapDivisorIs ==
    ASSUME NEW o \in Observed, NEW h, NEW qs \in 0 .. Cardinality(Nodes),
           NEW share \in 0 .. LargestDivisor
    PROVE  CapDivisor(o, h, qs, share) \in 0 .. LargestDivisor
  <1>1. Cardinality(Nodes) \in Nat /\ LargestDivisor \in Nat /\ Cardinality(Nodes) <= LargestDivisor
    BY PolicyAssumption, FS_CardinalityType, LargestDivisorIs
  <1>2. 1 + Cardinality(SeedsOf(o)) \in 1 .. Cardinality(Nodes)
    <2>1. SeedsOf(o) \subseteq Others(o)
      BY PolicyAssumption DEF SeedsOf, Others
    <2> QED
      BY <2>1, SizeIs
  <1> DEFINE S == {NoCap} \cup (IF h.joining THEN {1 + Cardinality(SeedsOf(o))} ELSE {})
                          \cup (IF h.without_quorum THEN {qs} ELSE {})
                          \cup (IF h.members_full THEN {share} ELSE {})
  <1>3. S \subseteq Nat /\ S # {} /\ \A s \in S : s <= LargestDivisor
    BY <1>1, <1>2 DEF NoCap
  <1>4. CapDivisor(o, h, qs, share) = Max(S)
    BY DEF CapDivisor
  <1> HIDE DEF S
  <1>5. Max(S) \in S
    BY <1>1, <1>3, MaxIs
  <1>6. Max(S) \in Nat /\ Max(S) <= LargestDivisor
    BY <1>3, <1>5
  <1> QED
    BY <1>1, <1>4, <1>6

HeldTypes == [joining : BOOLEAN, without_quorum : BOOLEAN, members_full : BOOLEAN]

LEMMA HeldIs == ASSUME NEW o, NEW j \in BOOLEAN, NEW f, NEW r PROVE Held(o, j, f, r) \in HeldTypes
  BY DEF Held, HeldTypes

\* The greater of two integers.
LEMMA MaxOfInts ==
    ASSUME NEW a \in Int, NEW b \in Int
    PROVE  Max({a, b}) \in {a, b} /\ Max({a, b}) >= a /\ Max({a, b}) >= b
  <1> DEFINE S == {a, b}
  <1>1. \E x \in S : \A y \in S : x >= y
    OBVIOUS
  <1> HIDE DEF S
  <1>2. Max(S) \in S /\ \A y \in S : Max(S) >= y
    BY <1>1 DEF Max
  <1> QED
    BY <1>2 DEF S

\* A count of rounds goes down to none.
LEMMA CountsDown == ASSUME NEW n \in Nat, NEW a \in 0 .. n PROVE Max({a - 1, 0}) \in 0 .. n
  <1> DEFINE b == a - 1
  <1>1. b \in Int /\ 0 \in Int /\ b <= n
    OBVIOUS
  <1> HIDE DEF b
  <1>2. Max({b, 0}) \in {b, 0} /\ Max({b, 0}) >= b /\ Max({b, 0}) >= 0
    BY <1>1, MaxOfInts
  <1>3. Max({b, 0}) \in 0 .. n
    BY <1>1, <1>2
  <1> QED
    BY <1>3 DEF b

\* An age goes up to a bound.
LEMMA CountsUp == ASSUME NEW n \in Nat, NEW a \in 0 .. n PROVE Min({a + 1, n}) \in 0 .. n
  <1>1. Min({a + 1, n}) \in {a + 1, n} /\ Min({a + 1, n}) <= n
    BY MinOfTwo
  <1> QED
    BY <1>1

\* A window keeps at least one sample.
LEMMA WindowIs == Window \in Nat /\ Window >= 1
  <1>1. Max({1, Hold}) \in {1, Hold} /\ Max({1, Hold}) >= 1
    BY PolicyAssumption, MaxOfTwo
  <1> QED
    BY <1>1, PolicyAssumption DEF Window

Statuses == LiveStatus \cup {"dead", "departed", Stranger}

\* What every sample of a node is.
SampleType == [size : 1 .. Cardinality(Nodes), seen : SUBSET Nodes, excused : BOOLEAN]

SamplesFit(q) == Len(q) <= Window /\ \A i \in 1 .. Len(q) : q[i] \in SampleType

\* The parts of the type, by themselves.
LEMMA PolicyTypes ==
    ASSUME PolicyTyped
    PROVE  /\ start \in Starts /\ start.troubles \in Nat
           /\ view \in [Observed -> [Nodes -> Statuses]]
           /\ joined \in [Observed -> [Nodes -> 0 .. Window]]
           /\ \A o \in Observed : SamplesFit(samples[o])
           /\ heldSize \in [Observed -> 0 .. Cardinality(Nodes)]
           /\ quorumSize \in [Observed -> 0 .. Cardinality(Nodes)]
           /\ without \in [Observed -> {Majority} \cup 0 .. QuorumMemory]
           /\ floored \in [Observed -> 0 .. HeardWithin]
           /\ refusing \in [Observed -> 0 .. TombstoneRounds]
           /\ hasJoined \in [Observed -> BOOLEAN]
           /\ held \in [Observed -> HeldTypes]
           /\ capDivisor \in [Observed -> 0 .. LargestDivisor]
           /\ gone \subseteq Nodes
           /\ troubles \in 0 .. start.troubles
           /\ serving \in [Observed -> SUBSET Nodes]
           /\ lapsed \in [Observed -> BOOLEAN]
  <1>1. start \in Starts /\ start.troubles \in Nat
    BY PolicyAssumption DEF PolicyTyped, PolicyTypeOK
  <1> QED
    BY <1>1 DEF PolicyTyped, PolicyTypeOK, Statuses, SamplesFit, SampleType, HeldTypes, LargestDivisor

\* A step that keeps the scenario is typed if what it leaves is.
LEMMA PolicyTypesAre ==
    ASSUME start' = start, start \in Starts, Sampled',
           view' \in [Observed -> [Nodes -> Statuses]],
           joined' \in [Observed -> [Nodes -> 0 .. Window]],
           \A o \in Observed : SamplesFit(samples'[o]),
           heldSize' \in [Observed -> 0 .. Cardinality(Nodes)],
           quorumSize' \in [Observed -> 0 .. Cardinality(Nodes)],
           without' \in [Observed -> {Majority} \cup 0 .. QuorumMemory],
           floored' \in [Observed -> 0 .. HeardWithin],
           refusing' \in [Observed -> 0 .. TombstoneRounds],
           hasJoined' \in [Observed -> BOOLEAN],
           held' \in [Observed -> HeldTypes],
           capDivisor' \in [Observed -> 0 .. LargestDivisor],
           gone' \subseteq Nodes, troubles' \in 0 .. start.troubles,
           serving' \in [Observed -> SUBSET Nodes],
           lapsed' \in [Observed -> BOOLEAN]
    PROVE  PolicyTyped'
  <1>1. Window' = Window
    BY DEF Window, policy
  <1>2. PolicyTypeOK'
    BY <1>1 DEF PolicyTypeOK, Statuses, SamplesFit, SampleType, HeldTypes, LargestDivisor
  <1> QED
    BY <1>2 DEF PolicyTyped

\* The members change: only what is seen of them does.
LEMMA ChangeIsTyped ==
    ASSUME PolicyTyped, Sampled',
           view' \in [Observed -> [Nodes -> Statuses]], joined' \in [Observed -> [Nodes -> 0 .. Window]],
           UNCHANGED <<start, samples, heldSize, quorumSize, without, floored, refusing,
                       hasJoined, held, capDivisor, lapsed>>,
           gone' \subseteq Nodes, troubles' \in 0 .. start.troubles,
           serving' \in [Observed -> SUBSET Nodes]
    PROVE  PolicyTyped'
  BY PolicyTypes, PolicyTypesAre

LEMMA MembersAreTyped ==
    ASSUME PolicyTyped, Sampled', NEW o \in Observed, NEW p \in Nodes,
           Hear(o, p) \/ Suspect(o, p) \/ Die(o, p) \/ Forget(o, p)
    PROVE  PolicyTyped'
  <1>1. /\ view \in [Observed -> [Nodes -> Statuses]]
        /\ joined \in [Observed -> [Nodes -> 0 .. Window]]
        /\ troubles \in 0 .. start.troubles /\ start.troubles \in Nat
        /\ gone \subseteq Nodes /\ serving \in [Observed -> SUBSET Nodes]
    BY PolicyTypes
  <1>2. UNCHANGED <<start, samples, heldSize, quorumSize, without, floored, refusing,
                    hasJoined, held, capDivisor, gone, serving, lapsed>>
    BY DEF Hear, Suspect, Die, Forget
  <1>3. \E s \in Statuses : view' = [view EXCEPT ![o][p] = s]
    BY DEF Hear, Suspect, Die, Forget, Statuses, LiveStatus
  <1>4. view' \in [Observed -> [Nodes -> Statuses]]
    BY <1>1, <1>3
  <1>5. \/ joined' = joined
        \/ \E j \in 0 .. Window : joined' = [joined EXCEPT ![o][p] = j]
    <2>1. 0 \in 0 .. Window /\ joined[o][p] \in 0 .. Window
      BY <1>1, WindowIs
    <2> QED
      BY <2>1 DEF Hear, Suspect, Die, Forget
  <1>6. joined' \in [Observed -> [Nodes -> 0 .. Window]]
    BY <1>1, <1>5
  <1>7. troubles' \in 0 .. start.troubles
    BY <1>1 DEF Hear, Suspect, Die, Forget
  <1> QED
    BY <1>1, <1>2, <1>4, <1>6, <1>7, ChangeIsTyped

LEMMA LeavingIsTyped ==
    ASSUME PolicyTyped, Sampled', NEW p \in Leavers, LeaveOnPurpose(p)
    PROVE  PolicyTyped'
  <1>1. /\ view \in [Observed -> [Nodes -> Statuses]]
        /\ joined \in [Observed -> [Nodes -> 0 .. Window]]
        /\ troubles \in 0 .. start.troubles /\ start.troubles \in Nat
        /\ gone \subseteq Nodes /\ serving \in [Observed -> SUBSET Nodes]
    BY PolicyTypes
  <1>2. p \in Nodes
    BY PolicyAssumption
  <1>3. /\ gone' \subseteq Nodes /\ troubles' \in 0 .. start.troubles
        /\ serving' \in [Observed -> SUBSET Nodes]
    BY <1>1, <1>2 DEF LeaveOnPurpose
  <1>4. UNCHANGED <<start, view, joined, samples, heldSize, quorumSize, without, floored,
                    refusing, hasJoined, held, capDivisor, lapsed>>
    BY DEF LeaveOnPurpose
  <1> QED
    BY <1>1, <1>3, <1>4, ChangeIsTyped

LEMMA RefusalIsTyped ==
    ASSUME PolicyTyped, Sampled', NEW o \in Observed, Refuse(o)
    PROVE  PolicyTyped'
  <1> DEFINE h == [held[o] EXCEPT !.members_full = TRUE]
             d == CapDivisor(o, h, quorumSize[o], ShareSize(ClusterSize(o), heldSize[o], TombstoneRounds))
  <1>1. /\ refusing' = [refusing EXCEPT ![o] = TombstoneRounds]
        /\ held' = [held EXCEPT ![o] = h] /\ capDivisor' = [capDivisor EXCEPT ![o] = d]
        /\ UNCHANGED <<start, view, joined, samples, heldSize, quorumSize, without, floored,
                       hasJoined, gone, troubles, serving, lapsed>>
    BY DEF Refuse
  <1>2. /\ held[o] \in HeldTypes /\ quorumSize[o] \in 0 .. Cardinality(Nodes)
        /\ heldSize[o] \in 0 .. Cardinality(Nodes)
    BY PolicyTypes
  <1>3. h \in HeldTypes
    BY <1>2 DEF HeldTypes
  <1>4. d \in 0 .. LargestDivisor
    <2>1. ClusterSize(o) \in 0 .. Cardinality(Nodes)
      BY ViewSizes
    <2>2. ShareSize(ClusterSize(o), heldSize[o], TombstoneRounds) \in 0 .. LargestDivisor
      BY <1>2, <2>1, ShareSizeIs
    <2> HIDE DEF h
    <2> QED
      BY <1>2, <2>2, CapDivisorIs
  <1> HIDE DEF h, d
  <1>5. held' \in [Observed -> HeldTypes] /\ capDivisor' \in [Observed -> 0 .. LargestDivisor]
    BY <1>1, <1>3, <1>4, PolicyTypes
  <1>6. refusing' \in [Observed -> 0 .. TombstoneRounds]
    BY <1>1, PolicyTypes, PolicyAssumption
  <1> QED
    BY <1>1, <1>5, <1>6, PolicyTypes, PolicyTypesAre

LEMMA HearLeaveIsTyped ==
    ASSUME PolicyTyped, Sampled', NEW o \in Observed, NEW p \in Others(o), HearLeave(o, p)
    PROVE  PolicyTyped'
  <1> DEFINE since == joined[o][p]
             r == ForgetOne(Uncounted(samples[o], p, since), since)
             departed == [view EXCEPT ![o][p] = "departed"]
             known == 1 + Cardinality({q \in Others(o) : departed[o][q] \in LiveStatus \cup {"dead"}})
             qs == Max({quorumSize[o] - 1, known})
             e == lapsed[o] \/ \E q \in Others(o) \ gone : view[o][q] = Stranger
  <1>1. /\ samples' = [samples EXCEPT ![o] = r] /\ view' = departed
        /\ quorumSize' = [quorumSize EXCEPT ![o] = qs] /\ lapsed' = [lapsed EXCEPT ![o] = e]
        /\ UNCHANGED <<start, joined, heldSize, without, floored, refusing, hasJoined, held,
                       capDivisor, gone, troubles, serving>>
    BY DEF HearLeave, PolicyTyped, Sampled
  <1>2. /\ samples \in [Observed -> Seq(Sample)] /\ samples[o] \in Seq(Sample)
        /\ \A i \in 1 .. Len(samples[o]) : Counts(samples[o][i])
    BY DEF PolicyTyped, Sampled
  <1>3. /\ view \in [Observed -> [Nodes -> Statuses]] /\ SamplesFit(samples[o])
        /\ quorumSize \in [Observed -> 0 .. Cardinality(Nodes)] /\ lapsed \in [Observed -> BOOLEAN]
    BY PolicyTypes
  <1>4. SamplesFit(r)
    <2>1. /\ Len(r) = Len(samples[o])
          /\ \A i \in 1 .. Len(samples[o]) : Counts(r[i]) /\ r[i].size <= samples[o][i].size
      BY <1>2, LeaveTakenOut
    <2> HIDE DEF r
    <2>2. Cardinality(Nodes) \in Nat
      BY PolicyAssumption, FS_CardinalityType
    <2>3. ASSUME NEW i \in 1 .. Len(r) PROVE r[i] \in SampleType
      <3>1. samples[o][i] \in SampleType /\ Counts(r[i]) /\ r[i].size <= samples[o][i].size
        BY <1>3, <2>1 DEF SamplesFit
      <3> QED
        BY <2>2, <3>1 DEF SampleType, Counts, Sample
    <2> QED
      BY <1>3, <2>1, <2>3 DEF SamplesFit
  <1> HIDE DEF r
  <1>5. \A x \in Observed : SamplesFit(samples'[x])
    BY <1>1, <1>2, <1>4, PolicyTypes
  <1>6. qs \in 0 .. Cardinality(Nodes)
    <2>1. known \in 1 .. Cardinality(Nodes)
      BY SizeIs
    <2>2. quorumSize[o] \in 0 .. Cardinality(Nodes) /\ Cardinality(Nodes) \in Nat
      BY <1>3, PolicyAssumption, FS_CardinalityType
    <2> DEFINE less == quorumSize[o] - 1
    <2>3. less \in Int /\ known \in Int /\ less <= Cardinality(Nodes) /\ qs = Max({less, known})
      BY <2>1, <2>2
    <2> HIDE DEF known, less, qs
    <2>4. Max({less, known}) \in {less, known} /\ Max({less, known}) >= known
      BY <2>3, MaxOfInts
    <2> QED
      BY <2>1, <2>2, <2>3, <2>4
  <1>7. view' \in [Observed -> [Nodes -> Statuses]]
    BY <1>1, <1>3 DEF Statuses, Others
  <1>8. e \in BOOLEAN
    OBVIOUS
  <1> HIDE DEF qs, e
  <1>9. /\ quorumSize' \in [Observed -> 0 .. Cardinality(Nodes)]
        /\ lapsed' \in [Observed -> BOOLEAN]
    BY <1>1, <1>3, <1>6, <1>8
  <1> QED
    BY <1>1, <1>5, <1>7, <1>9, PolicyTypes, PolicyTypesAre

LEMMA PolicyRoundIsTyped ==
    ASSUME PolicyTyped, Sampled', NEW o \in Observed, PolicyRound(o)
    PROVE  PolicyTyped'
  <1> DEFINE C == Cardinality(Nodes)
             size == ClusterSize(o)
             known == KnownForQuorum(o)
             first == HasQuorum(AliveCount(o), Counted(o))
             counted == IF Lapses(o) THEN known ELSE Counted(o)
             quorum == HasQuorum(AliveCount(o), counted)
             recorded == Record(o)
             floor == IF policy = "quorum" /\ ~quorum THEN HeardWithin ELSE Max({floored[o] - 1, 0})
             ref == Max({refusing[o] - 1, 0})
             joins == hasJoined[o] \/ size > 1
             h == Held(o, joins, floor, ref)
             qs == IF quorum THEN known ELSE counted
             since == IF first THEN Majority ELSE WithoutFor(o)
             ages == [p \in Nodes |-> IF view[o][p] = Stranger THEN 0 ELSE Min({joined[o][p] + 1, Window})]
             d == CapDivisor(o, h, qs, ShareSize(size, Largest(recorded), ref))
             serves == IF h.joining \/ h.without_quorum THEN {} ELSE {o} \cup InView(o, {"alive"})
             e == lapsed[o] \/ Lapses(o)
  <1>1. /\ samples' = [samples EXCEPT ![o] = recorded]
        /\ heldSize' = [heldSize EXCEPT ![o] = Largest(recorded)]
        /\ hasJoined' = [hasJoined EXCEPT ![o] = joins]
        /\ without' = [without EXCEPT ![o] = since]
        /\ quorumSize' = [quorumSize EXCEPT ![o] = qs]
        /\ floored' = [floored EXCEPT ![o] = floor]
        /\ refusing' = [refusing EXCEPT ![o] = ref]
        /\ held' = [held EXCEPT ![o] = h]
        /\ capDivisor' = [capDivisor EXCEPT ![o] = d]
        /\ serving' = [serving EXCEPT ![o] = serves]
        /\ lapsed' = [lapsed EXCEPT ![o] = e]
        /\ UNCHANGED <<start, view, gone, troubles>>
    BY DEF PolicyRound
  <1>2. joined' = [joined EXCEPT ![o] = ages]
    BY PolicyTypes DEF PolicyRound
  <1>3. C \in Nat /\ size \in 1 .. C /\ known \in 1 .. C /\ quorumSize[o] \in 0 .. C
    BY ViewSizes, PolicyTypes
  <1>4. Counted(o) \in 0 .. C
    <2> DEFINE k == quorumSize[o]
    <2>1. C \in Nat /\ k \in 0 .. C /\ known \in 0 .. C /\ Counted(o) = Max({known, k})
      BY <1>3 DEF Counted
    <2> HIDE DEF C, k, known
    <2>2. k \in Int /\ known \in Int
      BY <2>1
    <2>3. Max({known, k}) \in {known, k} /\ Max({known, k}) >= k
      BY <2>2, MaxOfInts
    <2> QED
      BY <2>1, <2>3
  <1>5. qs \in 0 .. C
    BY <1>3, <1>4
  <1>6. SamplesFit(recorded) /\ Largest(recorded) \in 0 .. C
    <2>1. /\ recorded \in Seq(Sample) /\ Len(recorded) > 0 /\ Len(recorded) <= Window
          /\ \A i \in 1 .. Len(recorded) :
                /\ Counts(recorded[i])
                /\ \/ recorded[i].size = size
                   \/ \E j \in 1 .. Len(samples[o]) : recorded[i] = samples[o][j]
      BY RecordIs DEF PolicyTyped
    <2>2. SamplesFit(samples[o])
      BY PolicyTypes
    <2>3. Largest(recorded) \in Nat /\ \E i \in 1 .. Len(recorded) : Largest(recorded) = recorded[i].size
      BY <2>1, LargestIs
    <2> HIDE DEF recorded, size
    <2>4. ASSUME NEW i \in 1 .. Len(recorded) PROVE recorded[i] \in SampleType
      <3>1. recorded[i] \in Sample
        BY <2>1 DEF Counts
      <3>2. recorded[i].size \in 1 .. C
        <4>1. \A j \in 1 .. Len(samples[o]) : samples[o][j].size \in 1 .. C
          BY <2>2 DEF SamplesFit, SampleType
        <4> QED
          BY <1>3, <2>1, <4>1
      <3> QED
        BY <3>1, <3>2 DEF Sample, SampleType
    <2>5. \A i \in 1 .. Len(recorded) : recorded[i].size \in 1 .. C
      BY <2>4 DEF SampleType
    <2> QED
      BY <2>1, <2>3, <2>4, <2>5 DEF SamplesFit
  <1>7. floor \in 0 .. HeardWithin
    <2>1. floored[o] \in 0 .. HeardWithin /\ HeardWithin \in Nat
      BY PolicyTypes, PolicyAssumption
    <2>2. Max({floored[o] - 1, 0}) \in 0 .. HeardWithin
      BY <2>1, CountsDown
    <2> QED
      BY <2>1, <2>2
  <1>8. ref \in 0 .. TombstoneRounds
    <2>1. refusing[o] \in 0 .. TombstoneRounds /\ TombstoneRounds \in Nat
      BY PolicyTypes, PolicyAssumption
    <2> QED
      BY <2>1, CountsDown
  <1>9. since \in {Majority} \cup 0 .. QuorumMemory
    <2>1. without[o] \in {Majority} \cup 0 .. QuorumMemory /\ QuorumMemory \in Nat
      BY PolicyTypes, PolicyAssumption
    <2>2. without[o] # Majority => Min({without[o] + 1, QuorumMemory}) \in 0 .. QuorumMemory
      BY <2>1, CountsUp
    <2>3. WithoutFor(o) \in 0 .. QuorumMemory
      BY <2>1, <2>2 DEF WithoutFor
    <2> QED
      BY <2>3
  <1>10. ages \in [Nodes -> 0 .. Window]
    <2>1. \A p \in Nodes : joined[o][p] \in 0 .. Window
      BY PolicyTypes
    <2>2. \A p \in Nodes : Min({joined[o][p] + 1, Window}) \in 0 .. Window
      BY <2>1, WindowIs, CountsUp
    <2>3. 0 \in 0 .. Window
      BY WindowIs
    <2> QED
      BY <2>2, <2>3
  <1>11. joins \in BOOLEAN /\ e \in BOOLEAN
    <2>1. hasJoined[o] \in BOOLEAN /\ lapsed[o] \in BOOLEAN
      BY PolicyTypes
    <2> QED
      OBVIOUS
  <1>12. serves \subseteq Nodes
    BY PolicyAssumption DEF InView, Others
  <1> HIDE DEF floor, ref, joins, qs, size, recorded, since, ages, e
  <1>13. h \in HeldTypes
    BY <1>11, HeldIs
  <1>14. d \in 0 .. LargestDivisor
    <2>1. ShareSize(size, Largest(recorded), ref) \in 0 .. LargestDivisor
      <3>1. size \in 0 .. C
        BY <1>3
      <3> QED
        BY <1>6, <3>1, ShareSizeIs
    <2> HIDE DEF h
    <2> QED
      BY <1>5, <2>1, CapDivisorIs
  <1> HIDE DEF h, d, serves, C
  <1>15. /\ hasJoined' \in [Observed -> BOOLEAN] /\ lapsed' \in [Observed -> BOOLEAN]
    BY <1>1, <1>11, PolicyTypes
  <1>16. /\ \A x \in Observed : SamplesFit(samples'[x])
         /\ heldSize' \in [Observed -> 0 .. C]
    <2>1. DOMAIN samples = Observed
      BY DEF PolicyTyped, Sampled
    <2> QED
      BY <1>1, <1>6, <2>1, PolicyTypes DEF C
  <1>17. /\ without' \in [Observed -> {Majority} \cup 0 .. QuorumMemory]
         /\ quorumSize' \in [Observed -> 0 .. C]
         /\ floored' \in [Observed -> 0 .. HeardWithin]
         /\ refusing' \in [Observed -> 0 .. TombstoneRounds]
    BY <1>1, <1>5, <1>7, <1>8, <1>9, PolicyTypes DEF C
  <1>18. /\ held' \in [Observed -> HeldTypes]
         /\ capDivisor' \in [Observed -> 0 .. LargestDivisor]
         /\ serving' \in [Observed -> SUBSET Nodes]
         /\ joined' \in [Observed -> [Nodes -> 0 .. Window]]
    BY <1>1, <1>2, <1>10, <1>12, <1>13, <1>14, PolicyTypes
  <1> QED
    BY <1>1, <1>15, <1>16, <1>17, <1>18, PolicyTypes, PolicyTypesAre DEF C

LEMMA PolicyTypesStep == PolicyTyped /\ [PolicyNext]_policyVars => PolicyTyped'
  <1> SUFFICES ASSUME PolicyTyped, [PolicyNext]_policyVars PROVE PolicyTyped'
    OBVIOUS
  <1>1. Sampled' /\ start.followed \subseteq Observed
    BY SampledStep, FollowedAreObserved DEF PolicyTyped
  <1>2. \A o : Others(o) \subseteq Nodes
    BY DEF Others
  <1>3. CASE \E p \in Leavers : LeaveOnPurpose(p)
    BY <1>1, <1>3, LeavingIsTyped
  <1>4. CASE \E o \in start.followed : PolicyRound(o)
    BY <1>1, <1>4, PolicyRoundIsTyped
  <1>5. CASE \E o \in start.followed : Refuse(o)
    BY <1>1, <1>5, RefusalIsTyped
  <1>6. CASE \E o \in start.followed : Decay(o) \/ \E p \in Others(o) : Hear(o, p) \/ Suspect(o, p)
    <2>1. \E o \in Observed, p \in Nodes : Hear(o, p) \/ Suspect(o, p) \/ Die(o, p) \/ Forget(o, p)
      BY <1>1, <1>2, <1>6 DEF Decay
    <2> QED
      BY <1>1, <2>1, MembersAreTyped
  <1>7. CASE \E o \in start.followed : \E p \in Others(o) : HearLeave(o, p)
    BY <1>1, <1>7, HearLeaveIsTyped
  <1>8. CASE UNCHANGED policyVars
    BY <1>1, <1>8, PolicyTypes, PolicyTypesAre DEF policyVars
  <1> QED
    BY <1>3, <1>4, <1>5, <1>6, <1>7, <1>8 DEF PolicyNext

LEMMA PolicyTypesStart == PolicyInit => PolicyTyped
  <1> SUFFICES ASSUME PolicyInit PROVE PolicyTyped
    OBVIOUS
  <1>1. PICK s \in Starts : start = s
    BY DEF PolicyInit
  <1> DEFINE with == [o \in Observed |-> IF s.formed /\ o \in Founders THEN Founders \ {o} ELSE {}]
             size == [o \in Observed |-> 1 + Cardinality(with[o])]
             h == [o \in Observed |-> Held(o, with[o] # {}, 0, 0)]
             C == Cardinality(Nodes)
  <1>2. /\ view = [o \in Observed |-> [p \in Nodes |-> IF p \in with[o] THEN "alive" ELSE Stranger]]
        /\ joined = [o \in Observed |-> [p \in Nodes |-> IF p \in with[o] THEN 1 ELSE 0]]
        /\ samples = [o \in Observed |->
              <<[size |-> size[o], seen |-> {o} \cup with[o], excused |-> FALSE]>>]
        /\ heldSize = size
        /\ quorumSize = size
        /\ without = [o \in Observed |-> Majority]
        /\ floored = [o \in Observed |-> 0]
        /\ refusing = [o \in Observed |-> 0]
        /\ hasJoined = [o \in Observed |-> with[o] # {}]
        /\ held = h
        /\ capDivisor = [o \in Observed |-> CapDivisor(o, h[o], size[o], size[o])]
        /\ gone = {}
        /\ troubles = 0
        /\ serving = [o \in Observed |-> IF h[o].joining THEN {} ELSE {o} \cup with[o]]
        /\ lapsed = [o \in Observed |-> FALSE]
    BY <1>1 DEF PolicyInit
  <1>3. /\ C \in Nat /\ LargestDivisor \in Nat /\ C <= LargestDivisor
        /\ HeardWithin \in Nat /\ TombstoneRounds \in Nat /\ s.troubles \in Nat
        /\ Window \in Nat /\ Window >= 1 /\ Observed \subseteq Nodes
    BY PolicyAssumption, FS_CardinalityType, LargestDivisorIs, WindowIs
  <1>4. \A o \in Observed : with[o] \subseteq Others(o)
    BY PolicyAssumption DEF Others
  <1>5. size \in [Observed -> 1 .. C]
    <2> HIDE DEF with
    <2>1. \A o \in Observed : 1 + Cardinality(with[o]) \in 1 .. C
      BY <1>4, SizeIs
    <2> QED
      BY <2>1
  <1>6. \A o \in Observed : with[o] \subseteq Nodes
    BY <1>4 DEF Others
  <1> HIDE DEF with, size
  <1>7. h \in [Observed -> HeldTypes]
    <2>1. \A o \in Observed : (with[o] # {}) \in BOOLEAN
      OBVIOUS
    <2>2. \A o \in Observed : Held(o, with[o] # {}, 0, 0) \in HeldTypes
      BY DEF Held, HeldTypes
    <2> QED
      BY <2>2
  <1> HIDE DEF h
  <1>8. \A o \in Observed : CapDivisor(o, h[o], size[o], size[o]) \in 0 .. LargestDivisor
    <2> TAKE o \in Observed
    <2> DEFINE k == size[o]
    <2>1. k \in 0 .. Cardinality(Nodes) /\ k \in 0 .. LargestDivisor
      BY <1>3, <1>5
    <2> HIDE DEF k
    <2>2. CapDivisor(o, h[o], k, k) \in 0 .. LargestDivisor
      BY <2>1, CapDivisorIs
    <2> QED
      BY <2>2 DEF k
  <1>9. \A o \in Observed : SamplesFit(samples[o])
    <2> TAKE o \in Observed
    <2> DEFINE sample == [size |-> size[o], seen |-> {o} \cup with[o], excused |-> FALSE]
    <2>1. sample \in SampleType
      BY <1>3, <1>5, <1>6 DEF SampleType
    <2>2. samples[o] = <<sample>>
      BY <1>2
    <2> HIDE DEF sample
    <2> QED
      BY <1>3, <2>1, <2>2 DEF SamplesFit
  <1>10. /\ view \in [Observed -> [Nodes -> Statuses]]
         /\ joined \in [Observed -> [Nodes -> 0 .. Window]]
    BY <1>2, <1>3 DEF Statuses, LiveStatus
  <1>11. /\ heldSize \in [Observed -> 0 .. C] /\ quorumSize \in [Observed -> 0 .. C]
    BY <1>2, <1>3, <1>5
  <1>12. /\ without \in [Observed -> {Majority} \cup 0 .. QuorumMemory]
         /\ floored \in [Observed -> 0 .. HeardWithin]
         /\ refusing \in [Observed -> 0 .. TombstoneRounds]
         /\ capDivisor \in [Observed -> 0 .. LargestDivisor]
    BY <1>2, <1>3, <1>8
  <1>13. /\ hasJoined \in [Observed -> BOOLEAN] /\ lapsed \in [Observed -> BOOLEAN]
         /\ held \in [Observed -> HeldTypes]
    BY <1>2, <1>7
  <1>14. serving \in [Observed -> SUBSET Nodes] /\ gone \subseteq Nodes
    BY <1>2, <1>3, <1>6
  <1>15. start \in Starts /\ troubles \in 0 .. start.troubles
    BY <1>1, <1>2, <1>3
  <1>16. PolicyTypeOK
    BY <1>9, <1>10, <1>11, <1>12, <1>13, <1>14, <1>15
       DEF PolicyTypeOK, Statuses, SamplesFit, SampleType, HeldTypes, LargestDivisor, C
  <1> QED
    BY <1>16, SampledInit DEF PolicyTyped

----------------------------------------------------------------------------
\* The parts of a node together.

\* What each part is shown to be, whichever of them runs.
PartsAre == PolicyTyped /\ SharesInv /\ ProbeTyped /\ Ordering

\* Whichever part runs, the state of each stays of its type and the member table
\* keeps its contract, with RISE_DELAY_ROUNDS of at least two.
THEOREM PartsAreKept == ASSUME RiseDelay >= 2 PROVE Spec => []PartsKept
  <1>1. Init => PartsAre
    <2> SUFFICES ASSUME Init PROVE PartsAre
      OBVIOUS
    <2> QED
      BY PolicyTypesStart, SharesStart, ProbeTypesStart, OrderingInit DEF Init, PartsAre
  <1>2. PartsAre /\ [Next]_vars => PartsAre'
    <2> SUFFICES ASSUME PartsAre, [Next]_vars PROVE PartsAre'
      OBVIOUS
    <2>1. /\ [PolicyNext]_policyVars /\ [SharesNext]_sharesVars
          /\ [ProbeNext]_probeVars /\ [OrderNext]_orderVars
      BY DEF Next, vars
    <2>2. PolicyTyped'
      BY <2>1, PolicyTypesStep DEF PartsAre
    <2>3. SharesInv'
      BY <2>1, SharesStep DEF PartsAre
    <2>4. ProbeTyped'
      BY <2>1, ProbeTypesStep DEF PartsAre
    <2>5. Ordering'
      BY <2>1, OrderingStep DEF PartsAre
    <2> QED
      BY <2>2, <2>3, <2>4, <2>5 DEF PartsAre
  <1>3. PartsAre => PartsKept
    <2>1. Ordering => ContractKept
      BY DEF Ordering, ContractKept, OrderTypeOK, Places, News, Change
    <2> QED
      BY <2>1 DEF PartsAre, PartsKept, PolicyTyped, SharesInv, ProbeTyped
  <1> QED
    BY <1>1, <1>2, <1>3, PTL DEF Spec

=============================================================================
