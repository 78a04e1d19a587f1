----------------------------- MODULE SwimProofs -----------------------------
(***************************************************************************)
(* What Swim guarantees for every number of nodes, every budget of faults  *)
(* and every size of tables and messages: nothing a node holds or sends is *)
(* newer than what its subject said of itself, and what it holds is        *)
(* bounded.                                                                *)
(***************************************************************************)
EXTENDS Swim, FiniteSetTheorems, TLAPS

QueueType == [Nodes -> News \cup {NoNews}]
IntroType == [Nodes -> Nodes \cup {0, NotIntroducing}]

----------------------------------------------------------------------------
\* Lemmas about the operators.

\* An update that is news is one of the updates, about that member.
LEMMA NewestIsSaid ==
    ASSUME NEW updates, NEW p, NEW record, IsNews(updates, p, record)
    PROVE  Newest(updates, p) \in updates /\ Newest(updates, p).member = p
  <1>1. \E u \in About(updates, p) : IsNewest(u, updates)
    BY DEF IsNews
  <1>2. Newest(updates, p) \in About(updates, p)
    BY <1>1 DEF Newest
  <1> QED
    BY <1>2 DEF About

\* Whoever's news a node accepts is another node, and the news is in the message.
LEMMA AcceptedIsSaid ==
    ASSUME NEW n \in Nodes, NEW from, NEW updates,
           NEW accepted \in Accepted(n, from, updates), NEW p \in accepted
    PROVE  /\ p \in Nodes \ {n}
           /\ Newest(updates, p) \in updates
           /\ Newest(updates, p).member = p
  <1>1. p \in Nodes \ {n} /\ IsNews(updates, p, table[n][p])
    BY DEF Accepted
  <1> QED
    BY <1>1, NewestIsSaid

\* A table stays one when news is applied to it.
LEMMA ApplyType ==
    ASSUME NEW tab \in [Nodes -> Record], NEW updates \in SUBSET Update, NEW accepted,
           \A p \in accepted : Newest(updates, p) \in updates
    PROVE  Apply(tab, updates, accepted) \in [Nodes -> Record]
  BY DEF Apply, Record, Update

\* What a node answers to an accusation is a later incarnation, or its own.
LEMMA RefuteType ==
    ASSUME NEW n \in Nodes, NEW updates \in SUBSET Update, inc[n] \in Nat
    PROVE  Refute(n, updates) \in Nat
  BY NewestIsSaid DEF Refute, Update

\* Node::learn leaves the buffer of its type.
LEMMA PushLearnedType ==
    ASSUME NEW queue \in QueueType, NEW n \in Nodes, NEW updates \in SUBSET Update,
           NEW accepted, NEW ownInc \in Nat,
           \A p \in accepted : Newest(updates, p) \in updates
    PROVE  PushLearned(queue, n, updates, accepted, ownInc) \in QueueType
  BY DEF PushLearned, QueueType, News, NoNews, Fresh, Update, Status

\* Whatever a message says is the sender's own record, a record of its table or
\* news of its buffer.
IsSaying(u, own, tab, queue) ==
    \/ u = own
    \/ \E p \in Nodes : tab[p] # NoRecord /\ u = Say(tab, p)
    \/ \E p \in Nodes : queue[p] # NoNews /\ u = Say(queue, p)

\* What Node::outgoing puts in a message is what the sender is, knows or has heard.
LEMMA OutgoingSays ==
    ASSUME NEW own, NEW tab \in [Nodes -> Record], NEW queue, NEW behindOf, NEW intro,
           NEW to \in Nodes,
           NEW u \in Outgoing(own, tab, queue, behindOf, intro, to).updates
    PROVE  IsSaying(u, own, tab, queue)
  <1> DEFINE room  == MaxUpdates - 1 - Cardinality(Accusation(tab, behindOf, to))
             taken == Take(queue, room)
             said  == Said(own, tab, queue, behindOf, to, taken)
  <1>1. u \in Introduce(tab, intro, to, said).updates
    BY DEF Outgoing
  <1>2. ASSUME u \in said PROVE IsSaying(u, own, tab, queue)
    <2>1. CASE u \in Accusation(tab, behindOf, to)
      BY <2>1 DEF Accusation, IsSaying, Say
    <2>2. CASE \E p \in taken : u = Say(queue, p)
      BY <2>2 DEF Take, IsSaying
    <2> QED
      BY <1>2, <2>1, <2>2 DEF Said, IsSaying
  <1>3. ASSUME NEW p \in Live(tab), u = Say(tab, p) PROVE IsSaying(u, own, tab, queue)
    BY <1>3 DEF Live, NoRecord, IsSaying
  <1>4. u \in said \/ \E p \in Live(tab) : u = Say(tab, p)
    <2> HIDE DEF said
    <2> QED BY <1>1 DEF Introduce
  <1> QED
    BY <1>2, <1>3, <1>4

\* So it is made of updates.
LEMMA SayingType ==
    ASSUME NEW own \in Update, NEW tab \in [Nodes -> Record], NEW queue \in QueueType,
           NEW u, IsSaying(u, own, tab, queue)
    PROVE  u \in Update
  BY DEF IsSaying, Say, Update, Record, QueueType, News

\* Taking news out of the buffer leaves a buffer.
LEMMA SpentType ==
    ASSUME NEW queue \in QueueType, NEW room
    PROVE  /\ Spent(queue, Take(queue, room)) \in QueueType
           /\ \A p \in Nodes : \/ Spent(queue, Take(queue, room))[p] = NoNews
                               \/ Spent(queue, Take(queue, room))[p].inc = queue[p].inc
  <1>1. \A p \in Take(queue, room) : p \in Nodes /\ queue[p] \in News
    BY DEF Take, QueueType
  <1> QED
    BY <1>1 DEF Spent, QueueType, News

\* An introduction goes on, or is over, only where it had begun.
LEMMA IntroduceType ==
    ASSUME NEW tab, NEW intro \in IntroType, NEW to \in Nodes, NEW said
    PROVE  /\ Introduce(tab, intro, to, said).intro \in IntroType
           /\ \A p \in Nodes : Introduce(tab, intro, to, said).intro[p] # NotIntroducing
                                  => intro[p] # NotIntroducing
  <1> DEFINE rest == {p \in Live(tab) : p > intro[to] /\ p # to /\ \A u \in said : u.member # p}
             room == MaxUpdates - Cardinality(said)
             told == {p \in rest : Cardinality({q \in rest : q < p}) < room}
             IsLast(p) == \A q \in told : q <= p
             next == IF Cardinality(rest) < room THEN NotIntroducing
                     ELSE IF \E p \in told : IsLast(p) THEN CHOOSE p \in told : IsLast(p)
                     ELSE intro[to]
  <1>1. next \in Nodes \cup {0, NotIntroducing}
    <2>1. told \subseteq Nodes
      BY DEF Live
    <2>2. ASSUME \E p \in told : IsLast(p) PROVE (CHOOSE p \in told : IsLast(p)) \in told
      BY <2>2
    <2> HIDE DEF told, rest, room, IsLast
    <2> QED BY <2>1, <2>2 DEF IntroType
  <1>2. Introduce(tab, intro, to, said).intro =
          IF intro[to] = NotIntroducing THEN intro ELSE [intro EXCEPT ![to] = next]
    BY DEF Introduce
  <1> HIDE DEF next
  <1> QED
    BY <1>1, <1>2 DEF IntroType

----------------------------------------------------------------------------
\* Type correctness, action by action.

\* The types hold at the start.
LEMMA TypeInit == Init => TypeOK
  BY StartsAssumption DEF Init, TypeOK, Record

\* A fault spent leaves the counters of the faults numbers.
LEMMA SpendType ==
    ASSUME TypeOK, NEW fault \in Faults, Spend(fault)
    PROVE  used' \in [Faults -> Nat]
  BY DEF Spend, TypeOK

\* What is sent is a message.
LEMMA DatagramType ==
    ASSUME NEW kind \in {"ping", "ack", "leave"}, NEW from \in Nodes, NEW to \in Nodes,
           NEW updates \in SUBSET Update
    PROVE  Datagram(kind, from, to, updates) \in Message
  BY DEF Datagram, Message

\* A tick, which buries suspects and forgets the dead, keeps the types.
LEMMA TypeTick ==
    ASSUME TypeOK, NEW n \in Nodes, Ticks(n)
    PROVE  TypeOK'
  <1> PICK expired \in SUBSET {p \in Nodes : table[n][p].status = "suspect"},
           forgotten \in SUBSET Dead(table[n]) : Tick(n, expired, forgotten)
    BY DEF Ticks
  <1> DEFINE tab == [p \in Nodes |->
                       IF p \in expired
                       THEN [inc |-> table[n][p].inc, status |-> "dead", departed |-> FALSE]
                       ELSE IF p \in forgotten THEN NoRecord
                       ELSE table[n][p]]
  <1>1. \A p \in expired : p \in Nodes /\ table[n][p].inc \in Nat
    BY DEF TypeOK, Record, NoRecord
  <1>2. tab \in [Nodes -> Record]
    BY <1>1 DEF TypeOK, Record, Status
  <1>3. table' \in [Nodes -> [Nodes -> Record]]
    BY <1>2 DEF Tick, TypeOK
  <1>4. gossip' \in [Nodes -> [Nodes -> News \cup {NoNews}]]
    BY <1>1 DEF Tick, TypeOK, News, Fresh, Status
  <1>5. introducing' \in [Nodes -> [Nodes -> Nodes \cup {0, NotIntroducing}]]
    BY DEF Tick, TypeOK
  <1>6. heard' \in [Nodes -> SUBSET Nodes] /\ behind' \in [Nodes -> SUBSET Nodes]
    BY DEF Tick, TypeOK, Retain
  <1> QED
    BY <1>3, <1>4, <1>5, <1>6 DEF Tick, TypeOK

\* What a node sends, and what is left in its buffer, is of its type.
LEMMA OutgoingType ==
    ASSUME NEW own \in Update, NEW tab \in [Nodes -> Record], NEW queue \in QueueType,
           NEW behindOf, NEW intro \in IntroType, NEW to \in Nodes
    PROVE  /\ Outgoing(own, tab, queue, behindOf, intro, to).updates \in SUBSET Update
           /\ Outgoing(own, tab, queue, behindOf, intro, to).queue \in QueueType
           /\ Outgoing(own, tab, queue, behindOf, intro, to).intro \in IntroType
  <1>1. Outgoing(own, tab, queue, behindOf, intro, to).updates \in SUBSET Update
    BY OutgoingSays, SayingType
  <1>2. Outgoing(own, tab, queue, behindOf, intro, to).queue \in QueueType
    BY SpentType DEF Outgoing
  <1>3. Outgoing(own, tab, queue, behindOf, intro, to).intro \in IntroType
    BY IntroduceType DEF Outgoing
  <1> QED
    BY <1>1, <1>2, <1>3

\* A round of probes, which suspects whoever did not answer, keeps the types.
LEMMA TypeRound ==
    ASSUME TypeOK, NEW n \in Nodes, NEW target \in Nodes, NEW missed, Round(n, missed, target)
    PROVE  TypeOK'
  <1> DEFINE tab   == Suspected(table[n], missed)
             queue == [p \in Nodes |->
                         IF p \in missed /\ Supersedes(tab[p], gossip[n][p])
                         THEN Fresh(tab[p].inc, "suspect")
                         ELSE gossip[n][p]]
             own   == OwnUpdate(n, inc[n])
             out   == Outgoing(own, tab, queue, behind[n], introducing[n], target)
  <1>1. \A p \in missed : p \in Nodes /\ table[n][p].inc \in Nat
    BY DEF Round, TypeOK, Record, NoRecord
  <1>2. tab \in [Nodes -> Record]
    BY <1>1 DEF Suspected, TypeOK, Record, Status
  <1>3. queue \in QueueType
    <2>1. \A p \in missed : tab[p].inc \in Nat
      BY <1>1 DEF Suspected
    <2> QED
      BY <2>1 DEF QueueType, TypeOK, News, Fresh, Status
  <1>4. own \in Update
    BY DEF OwnUpdate, Update, Status, TypeOK
  <1>5. introducing[n] \in IntroType
    BY DEF TypeOK, IntroType
  <1>6. out.updates \in SUBSET Update /\ out.queue \in QueueType /\ out.intro \in IntroType
    <2> HIDE DEF tab, queue, own
    <2> QED BY <1>2, <1>3, <1>4, <1>5, OutgoingType
  <1>7. Datagram("ping", n, target, out.updates) \in Message
    <2> HIDE DEF out
    <2> QED BY <1>6, DatagramType
  <1>8. /\ net' = net \cup {Datagram("ping", n, target, out.updates)}
        /\ gossip' = [gossip EXCEPT ![n] = out.queue]
        /\ introducing' = [introducing EXCEPT ![n] = out.intro]
        /\ table' = [table EXCEPT ![n] = tab]
        /\ UNCHANGED <<phase, inc, behind, heard, peak, leftAt>>
    BY DEF Round
  <1>9. used' \in [Faults -> Nat]
    BY SpendType DEF Round, Faults, TypeOK
  <1> HIDE DEF tab, out
  <1> QED
    BY <1>2, <1>6, <1>7, <1>8, <1>9 DEF TypeOK, QueueType, IntroType

\* Node::receive keeps the types, whatever the message says.
LEMMA TypeHandle ==
    ASSUME TypeOK, NEW m \in net, NEW keep \in BOOLEAN,
           NEW accepted \in Accepted(m.to, m.from, m.updates),
           Handle(m.to, m, accepted, keep), used' \in [Faults -> Nat]
    PROVE  TypeOK'
  <1> DEFINE n        == m.to
             from     == m.from
             tab      == Apply(table[n], m.updates, accepted)
             ownInc   == Refute(n, m.updates)
             queue    == PushLearned(gossip[n], n, m.updates, accepted, ownInc)
             behindOf == IF OpensBehind(n, m) THEN behind[n] \cup {from} ELSE behind[n] \ {from}
             newcomer == from \notin Live(table[n]) /\ tab[from].status = "alive"
             intro    == IF newcomer THEN [introducing[n] EXCEPT ![from] = 0] ELSE introducing[n]
             out      == Outgoing(OwnUpdate(n, ownInc), tab, queue, behindOf, intro, from)
             rest     == IF keep THEN net ELSE net \ {m}
  <1>1. n \in Nodes /\ from \in Nodes /\ m.updates \in SUBSET Update
    BY DEF TypeOK, Message
  <1>2. \A p \in accepted : Newest(m.updates, p) \in m.updates
    BY <1>1, AcceptedIsSaid
  <1>3. tab \in [Nodes -> Record]
    BY <1>1, <1>2, ApplyType DEF TypeOK
  <1>4. ownInc \in Nat
    BY <1>1, RefuteType DEF TypeOK
  <1>5. queue \in QueueType
    <2> HIDE DEF ownInc
    <2> QED BY <1>1, <1>2, <1>4, PushLearnedType DEF TypeOK, QueueType
  <1>6. behindOf \in SUBSET Nodes
    BY <1>1 DEF TypeOK
  <1>7. intro \in IntroType
    BY <1>1 DEF TypeOK, IntroType
  <1>8. OwnUpdate(n, ownInc) \in Update
    BY <1>1, <1>4 DEF OwnUpdate, Update, Status
  <1>9. out.updates \in SUBSET Update /\ out.queue \in QueueType /\ out.intro \in IntroType
    <2> HIDE DEF tab, queue, ownInc, behindOf, intro, n, from
    <2> QED BY <1>1, <1>3, <1>5, <1>7, <1>8, OutgoingType
  <1>10. Datagram("ack", n, from, out.updates) \in Message
    <2> HIDE DEF out, n, from
    <2> QED BY <1>1, <1>9, DatagramType
  <1>11. /\ inc' = [inc EXCEPT ![n] = ownInc]
         /\ peak' = [peak EXCEPT ![n] = IF ownInc > @ THEN ownInc ELSE @]
         /\ table' = [table EXCEPT ![n] = tab]
         /\ behind' = [behind EXCEPT ![n] = behindOf]
         /\ heard' = [heard EXCEPT ![n] = IF from \in Known(tab) THEN @ \cup {from} ELSE @]
         /\ \/ /\ net' = rest \cup {Datagram("ack", n, from, out.updates)}
               /\ gossip' = [gossip EXCEPT ![n] = out.queue]
               /\ introducing' = [introducing EXCEPT ![n] = out.intro]
            \/ /\ net' = rest
               /\ gossip' = [gossip EXCEPT ![n] = queue]
               /\ introducing' = [introducing EXCEPT ![n] = intro]
         /\ UNCHANGED <<phase, leftAt>>
    BY DEF Handle
  <1>12. rest \in SUBSET Message
    BY DEF TypeOK
  <1> HIDE DEF n, from, tab, ownInc, queue, behindOf, intro, out, rest
  <1>13. net' \in SUBSET Message
    BY <1>10, <1>11, <1>12
  <1>14. /\ gossip' \in [Nodes -> [Nodes -> News \cup {NoNews}]]
         /\ introducing' \in [Nodes -> [Nodes -> Nodes \cup {0, NotIntroducing}]]
    <2>1. gossip \in [Nodes -> QueueType] /\ introducing \in [Nodes -> IntroType]
      BY DEF TypeOK, QueueType, IntroType
    <2>2. gossip' \in [Nodes -> QueueType] /\ introducing' \in [Nodes -> IntroType]
      BY <1>5, <1>7, <1>9, <1>11, <2>1
    <2> QED BY <2>2 DEF QueueType, IntroType
  <1> QED
    BY <1>1, <1>3, <1>4, <1>6, <1>11, <1>13, <1>14 DEF TypeOK

\* Node::depart keeps the types.
LEMMA TypeHandleLeave ==
    ASSUME TypeOK, NEW m \in net, NEW keep \in BOOLEAN,
           NEW accepted \in Accepted(m.to, m.from, m.updates),
           HandleLeave(m.to, m, accepted, keep), used' \in [Faults -> Nat]
    PROVE  TypeOK'
  <1> DEFINE n       == m.to
             from    == m.from
             tab     == Apply(table[n], m.updates, accepted)
             departs == Departs(tab, from)
             left    == IF departs THEN [tab EXCEPT ![from].departed = TRUE] ELSE tab
             queue   == PushLearned(gossip[n], n, m.updates, accepted, inc[n])
  <1>1. n \in Nodes /\ from \in Nodes /\ m.updates \in SUBSET Update
    BY DEF TypeOK, Message
  <1>2. \A p \in accepted : Newest(m.updates, p) \in m.updates
    BY <1>1, AcceptedIsSaid
  <1>3. tab \in [Nodes -> Record]
    BY <1>1, <1>2, ApplyType DEF TypeOK
  <1>4. left \in [Nodes -> Record]
    <2> HIDE DEF tab
    <2>1. CASE departs
      <3>1. tab[from] \in [inc : Nat, status : Status, departed : BOOLEAN]
        BY <1>1, <1>3, <2>1 DEF Departs, Record, NoRecord
      <3>2. [tab[from] EXCEPT !.departed = TRUE] \in Record
        BY <2>1, <3>1 DEF Departs, Record
      <3> QED BY <1>1, <1>3, <2>1, <3>2
    <2> QED BY <1>3, <2>1
  <1>5. queue \in QueueType
    BY <1>1, <1>2, PushLearnedType DEF TypeOK, QueueType
  <1>6. /\ table' = [table EXCEPT ![n] = left]
        /\ gossip' = [gossip EXCEPT ![n] = queue]
        /\ behind' = [behind EXCEPT ![n] = @ \ {from}]
        /\ introducing' = [introducing EXCEPT ![n] =
                             IF departs THEN [@ EXCEPT ![from] = NotIntroducing] ELSE @]
        /\ heard' = [heard EXCEPT ![n] = IF departs THEN @ \ {from} ELSE @]
        /\ net' = IF keep THEN net ELSE net \ {m}
        /\ UNCHANGED <<phase, inc, peak, leftAt>>
    BY DEF HandleLeave
  <1> HIDE DEF n, from, tab, departs, left, queue
  <1> QED
    BY <1>1, <1>4, <1>5, <1>6 DEF TypeOK, QueueType

\* A message taken, kept on the net for a second copy or not, keeps the types.
LEMMA TypeReceive ==
    ASSUME TypeOK, NEW m \in net, NEW keep \in BOOLEAN, Receive(m, keep)
    PROVE  TypeOK'
  <1>1. used' \in [Faults -> Nat]
    BY SpendType DEF Receive, Faults, TypeOK
  <1> QED
    BY <1>1, TypeHandle, TypeHandleLeave DEF Receive

\* Node::leave keeps the types.
LEMMA TypeLeave ==
    ASSUME TypeOK, NEW n \in Nodes, Leave(n)
    PROVE  TypeOK'
  <1> DEFINE own == [member |-> n, inc |-> inc[n], status |-> "dead"]
  <1>1. used' \in [Faults -> Nat]
    BY SpendType DEF Leave, Faults
  <1>2. {own} \in SUBSET Update
    BY DEF TypeOK, Update, Status
  <1> DEFINE Copy(p, c) == [Datagram("leave", n, p, {own}) EXCEPT !.copy = c]
  <1>3. \A p \in Live(table[n]), c \in {1, 2} : Copy(p, c) \in Message
    BY <1>2 DEF Datagram, Message, Live
  <1>4. net' \in SUBSET Message
    <2>1. net' = net \cup {Copy(p, c) : p \in Live(table[n]), c \in {1, 2}}
      BY DEF Leave
    <2> HIDE DEF Copy
    <2> QED BY <1>3, <2>1 DEF TypeOK
  <1>5. /\ phase' \in [Nodes -> {"up", "left", "down", "absent"}]
        /\ leftAt' \in [Nodes -> SUBSET Nat]
    BY DEF Leave, TypeOK
  <1> QED
    BY <1>1, <1>4, <1>5 DEF Leave, TypeOK, local

\* A crash keeps the types: it leaves what the next life starts with.
LEMMA TypeCrash ==
    ASSUME TypeOK, NEW n \in Nodes, Crash(n)
    PROVE  TypeOK'
  <1>1. used' \in [Faults -> Nat]
    BY SpendType DEF Crash, Faults, TypeOK
  <1> QED
    BY <1>1 DEF Crash, TypeOK, Record, NotIntroducing

\* Messages lost, or sent to a node that is gone, keep the types.
LEMMA TypeNet ==
    ASSUME TypeOK, NEW m \in net, Unheard(m) \/ Lose(m)
    PROVE  TypeOK'
  <1>1. used' \in [Faults -> Nat]
    BY SpendType DEF Lose, Unheard, Faults, TypeOK
  <1> QED
    BY <1>1 DEF Lose, Unheard, TypeOK, local

\* Every step keeps the types.
LEMMA TypeStep == TypeOK /\ [Next]_vars => TypeOK'
  <1> SUFFICES ASSUME TypeOK, [Next]_vars PROVE TypeOK'
    OBVIOUS
  <1>1. ASSUME NEW n \in Nodes, Restart(n) PROVE TypeOK'
    BY <1>1 DEF Restart, TypeOK, local
  <1>2. CASE UNCHANGED vars
    BY <1>2 DEF vars, TypeOK
  <1> QED
    BY <1>1, <1>2, TypeTick, TypeLeave, TypeCrash, TypeRound, TypeNet, TypeReceive DEF Next

\* Every table, buffer and datagram is of its type, for every cluster
\* (MemberTable, Gossip, Node::handle).
THEOREM TypeCorrect == Spec => []TypeOK
  BY TypeInit, TypeStep, PTL DEF Spec

----------------------------------------------------------------------------
\* Incarnations stay their owners'.

\* Nothing in `updates` is newer than `peaks` allow.
NoneAbove(updates, peaks) == \A u \in updates : u.inc <= peaks[u.member]

\* A message built from a table and a buffer that are not is not either.
LEMMA OutgoingNotAbove ==
    ASSUME NEW peaks \in [Nodes -> Nat], NEW own \in Update, own.inc <= peaks[own.member],
           NEW tab \in [Nodes -> Record], \A p \in Nodes : tab[p].inc <= peaks[p],
           NEW queue \in QueueType, \A p \in Nodes : queue[p].inc <= peaks[p],
           NEW behindOf, NEW intro, NEW to \in Nodes
    PROVE  /\ NoneAbove(Outgoing(own, tab, queue, behindOf, intro, to).updates, peaks)
           /\ \A p \in Nodes :
                 Outgoing(own, tab, queue, behindOf, intro, to).queue[p].inc <= peaks[p]
  <1>1. ASSUME NEW u, IsSaying(u, own, tab, queue) PROVE u.inc <= peaks[u.member]
    BY <1>1 DEF IsSaying, Say
  <1>2. NoneAbove(Outgoing(own, tab, queue, behindOf, intro, to).updates, peaks)
    BY <1>1, OutgoingSays DEF NoneAbove
  <1>3. \A p \in Nodes :
           Outgoing(own, tab, queue, behindOf, intro, to).queue[p].inc <= peaks[p]
    BY SpentType DEF Outgoing, NoNews
  <1> QED
    BY <1>2, <1>3

\* OnlyTheOwnerRaises, said of the messages as wholes.
OwnersOnly ==
    /\ \A p \in Nodes : inc[p] <= peak[p]
    /\ \A n, p \in Nodes : table[n][p].inc <= peak[p] /\ gossip[n][p].inc <= peak[p]
    /\ \A m \in net : NoneAbove(m.updates, peak)

\* OwnersOnly is what OnlyTheOwnerRaises says, spelled out place by place.
LEMMA OwnersOnlyIsEnough == TypeOK /\ OwnersOnly <=> TypeOK /\ OnlyTheOwnerRaises
  BY DEF TypeOK, OwnersOnly, OnlyTheOwnerRaises, NoneAbove, Message, Update

\* A tick raises no incarnation.
LEMMA OwnersTick ==
    ASSUME TypeOK, OwnersOnly, NEW n \in Nodes, Ticks(n)
    PROVE  OwnersOnly'
  <1> PICK expired \in SUBSET {p \in Nodes : table[n][p].status = "suspect"},
           forgotten \in SUBSET Dead(table[n]) : Tick(n, expired, forgotten)
    BY DEF Ticks
  <1>1. \A p \in Nodes : -1 <= peak[p]
    BY DEF TypeOK
  <1>2. \A x, p \in Nodes : table'[x][p].inc <= peak[p]
    BY <1>1 DEF Tick, TypeOK, OwnersOnly, NoRecord
  <1>3. \A x, p \in Nodes : gossip'[x][p].inc <= peak[p]
    BY <1>1 DEF Tick, TypeOK, OwnersOnly, Fresh
  <1> QED
    BY <1>2, <1>3 DEF Tick, OwnersOnly, NoneAbove

\* A round raises no incarnation: a suspicion is spoken at the one it is about.
LEMMA OwnersRound ==
    ASSUME TypeOK, OwnersOnly,
           NEW n \in Nodes, NEW target \in Nodes, NEW missed, Round(n, missed, target)
    PROVE  OwnersOnly'
  <1> DEFINE tab   == Suspected(table[n], missed)
             queue == [p \in Nodes |->
                         IF p \in missed /\ Supersedes(tab[p], gossip[n][p])
                         THEN Fresh(tab[p].inc, "suspect")
                         ELSE gossip[n][p]]
             own   == OwnUpdate(n, inc[n])
             out   == Outgoing(own, tab, queue, behind[n], introducing[n], target)
  <1>1. \A p \in missed : p \in Nodes /\ table[n][p].inc \in Nat
    BY DEF Round, TypeOK, Record, NoRecord
  <1>2. tab \in [Nodes -> Record] /\ \A p \in Nodes : tab[p].inc <= peak[p]
    BY <1>1 DEF Suspected, TypeOK, Record, Status, OwnersOnly
  <1>3. queue \in QueueType /\ \A p \in Nodes : queue[p].inc <= peak[p]
    <2>1. \A p \in missed : tab[p].inc \in Nat
      BY <1>1 DEF Suspected
    <2> HIDE DEF tab
    <2> QED
      BY <1>2, <2>1 DEF QueueType, TypeOK, News, Fresh, Status, OwnersOnly
  <1>4. own \in Update /\ own.inc <= peak[own.member]
    BY DEF OwnUpdate, Update, Status, TypeOK, OwnersOnly
  <1>5. NoneAbove(out.updates, peak) /\ \A p \in Nodes : out.queue[p].inc <= peak[p]
    <2>1. peak \in [Nodes -> Nat]
      BY DEF TypeOK
    <2> HIDE DEF tab, queue, own
    <2> QED BY <1>2, <1>3, <1>4, <2>1, OutgoingNotAbove
  <1>6. /\ net' = net \cup {Datagram("ping", n, target, out.updates)}
        /\ gossip' = [gossip EXCEPT ![n] = out.queue]
        /\ table' = [table EXCEPT ![n] = tab]
        /\ UNCHANGED <<inc, peak>>
    BY DEF Round
  <1> HIDE DEF tab, queue, own, out
  <1>7. \A m \in net' : NoneAbove(m.updates, peak)
    <2>1. \A m \in net : NoneAbove(m.updates, peak)
      BY DEF OwnersOnly
    <2>2. Datagram("ping", n, target, out.updates).updates = out.updates
      BY DEF Datagram
    <2> QED
      BY <1>5, <1>6, <2>1, <2>2
  <1> QED
    BY <1>2, <1>5, <1>6, <1>7 DEF OwnersOnly, TypeOK, NoneAbove

\* A message received raises no incarnation but the receiver's own, by a refutation.
LEMMA OwnersHandle ==
    ASSUME TypeOK, OwnersOnly, NEW m \in net, NEW keep \in BOOLEAN,
           NEW accepted \in Accepted(m.to, m.from, m.updates),
           Handle(m.to, m, accepted, keep)
    PROVE  OwnersOnly'
  <1> DEFINE n        == m.to
             from     == m.from
             tab      == Apply(table[n], m.updates, accepted)
             ownInc   == Refute(n, m.updates)
             queue    == PushLearned(gossip[n], n, m.updates, accepted, ownInc)
             behindOf == IF OpensBehind(n, m) THEN behind[n] \cup {from} ELSE behind[n] \ {from}
             newcomer == from \notin Live(table[n]) /\ tab[from].status = "alive"
             intro    == IF newcomer THEN [introducing[n] EXCEPT ![from] = 0] ELSE introducing[n]
             own      == OwnUpdate(n, ownInc)
             out      == Outgoing(own, tab, queue, behindOf, intro, from)
             rest     == IF keep THEN net ELSE net \ {m}
  <1>1. n \in Nodes /\ from \in Nodes /\ m.updates \in SUBSET Update
    BY DEF TypeOK, Message
  <1>2. \A p \in accepted : /\ p \in Nodes \ {n}
                            /\ Newest(m.updates, p) \in m.updates
                            /\ Newest(m.updates, p).member = p
    BY <1>1, AcceptedIsSaid
  <1>3. \A u \in m.updates : u \in Update /\ u.inc <= peak[u.member]
    BY <1>1 DEF OwnersOnly, NoneAbove
  <1>4. ownInc \in Nat
    BY <1>1, RefuteType DEF TypeOK
  <1>5. /\ peak' \in [Nodes -> Nat]
        /\ \A p \in Nodes : peak[p] <= peak'[p]
        /\ ownInc <= peak'[n]
        /\ inc' = [inc EXCEPT ![n] = ownInc]
    <2> HIDE DEF ownInc, n
    <2>1. peak' = [peak EXCEPT ![n] = IF ownInc > @ THEN ownInc ELSE @]
          /\ inc' = [inc EXCEPT ![n] = ownInc]
      BY DEF Handle, ownInc, n
    <2> QED BY <1>1, <1>4, <2>1 DEF TypeOK
  <1>6. tab \in [Nodes -> Record]
    BY <1>1, <1>2, ApplyType DEF TypeOK
  <1>7. \A p \in Nodes : tab[p].inc <= peak'[p]
    <2>1. \A p \in accepted : Newest(m.updates, p).inc <= peak[p]
      BY <1>2, <1>3
    <2>2. \A p \in Nodes : tab[p].inc <= peak[p]
      BY <1>1, <2>1 DEF Apply, OwnersOnly
    <2>3. \A p \in Nodes : tab[p].inc \in Int
      <3> HIDE DEF tab
      <3> QED BY <1>6 DEF Record, NoRecord
    <2> HIDE DEF tab
    <2> QED BY <1>5, <2>2, <2>3 DEF TypeOK
  <1>8. queue \in QueueType
    <2> HIDE DEF ownInc
    <2> QED BY <1>1, <1>2, <1>4, PushLearnedType DEF TypeOK, QueueType
  <1>9. \A p \in Nodes : queue[p].inc <= peak'[p]
    <2> SUFFICES ASSUME NEW p \in Nodes PROVE queue[p].inc <= peak'[p]
      OBVIOUS
    <2>1. \/ queue[p].inc = gossip[n][p].inc
          \/ p \in accepted /\ queue[p].inc = Newest(m.updates, p).inc
          \/ p = n /\ queue[p].inc = ownInc
      <3> HIDE DEF ownInc, n
      <3> QED BY DEF PushLearned, Fresh
    <2>2. gossip[n][p].inc \in Int /\ gossip[n][p].inc <= peak[p]
      BY <1>1 DEF TypeOK, OwnersOnly, News, NoNews
    <2>3. p \in accepted => /\ Newest(m.updates, p).inc \in Int
                            /\ Newest(m.updates, p).inc <= peak[p]
      BY <1>2, <1>3 DEF Update
    <2>4. peak[p] \in Int /\ peak'[p] \in Int /\ peak[p] <= peak'[p]
      BY <1>5 DEF TypeOK
    <2> HIDE DEF queue, ownInc, n
    <2> QED BY <1>5, <2>1, <2>2, <2>3, <2>4
  <1>10. own \in Update /\ own.inc <= peak'[own.member]
    <2> HIDE DEF ownInc, n
    <2> QED BY <1>1, <1>4, <1>5 DEF OwnUpdate, Update, Status
  <1>11. NoneAbove(out.updates, peak') /\ \A p \in Nodes : out.queue[p].inc <= peak'[p]
    <2> HIDE DEF tab, queue, own, behindOf, intro, n, from
    <2> QED BY <1>1, <1>5, <1>6, <1>7, <1>8, <1>9, <1>10, OutgoingNotAbove
  <1>12. /\ table' = [table EXCEPT ![n] = tab]
         /\ \/ /\ net' = rest \cup {Datagram("ack", n, from, out.updates)}
               /\ gossip' = [gossip EXCEPT ![n] = out.queue]
            \/ /\ net' = rest
               /\ gossip' = [gossip EXCEPT ![n] = queue]
    BY DEF Handle
  <1>13. \A x \in rest : NoneAbove(x.updates, peak')
    <2>1. \A x \in rest : x.updates \in SUBSET Update /\ NoneAbove(x.updates, peak)
      BY DEF OwnersOnly, TypeOK, Message
    <2> QED BY <1>5, <2>1 DEF NoneAbove, TypeOK, Update
  <1> HIDE DEF n, from, tab, ownInc, queue, behindOf, intro, own, out, rest
  <1>14. \A x \in net' : NoneAbove(x.updates, peak')
    BY <1>11, <1>12, <1>13 DEF Datagram
  <1>15. \A x, p \in Nodes : table[x][p].inc <= peak'[p] /\ gossip[x][p].inc <= peak'[p]
    <2>1. \A x, p \in Nodes : /\ table[x][p].inc \in Int /\ gossip[x][p].inc \in Int
                              /\ table[x][p].inc <= peak[p] /\ gossip[x][p].inc <= peak[p]
      BY DEF OwnersOnly, TypeOK, Record, NoRecord, News, NoNews
    <2> QED BY <1>5, <2>1 DEF TypeOK
  <1>16. \A x, p \in Nodes : table'[x][p].inc <= peak'[p] /\ gossip'[x][p].inc <= peak'[p]
    BY <1>1, <1>7, <1>9, <1>11, <1>12, <1>15 DEF TypeOK
  <1>17. \A p \in Nodes : inc'[p] <= peak'[p]
    BY <1>1, <1>4, <1>5 DEF OwnersOnly, TypeOK
  <1> QED
    BY <1>14, <1>16, <1>17 DEF OwnersOnly

\* A leave received raises no incarnation but the receiver's own.
LEMMA OwnersHandleLeave ==
    ASSUME TypeOK, OwnersOnly, NEW m \in net, NEW keep \in BOOLEAN,
           NEW accepted \in Accepted(m.to, m.from, m.updates),
           HandleLeave(m.to, m, accepted, keep)
    PROVE  OwnersOnly'
  <1> DEFINE n       == m.to
             from    == m.from
             tab     == Apply(table[n], m.updates, accepted)
             departs == Departs(tab, from)
             left    == IF departs THEN [tab EXCEPT ![from].departed = TRUE] ELSE tab
             queue   == PushLearned(gossip[n], n, m.updates, accepted, inc[n])
  <1>1. n \in Nodes /\ from \in Nodes /\ m.updates \in SUBSET Update
    BY DEF TypeOK, Message
  <1>2. \A p \in accepted : Newest(m.updates, p).inc <= peak[p]
    BY <1>1, AcceptedIsSaid DEF OwnersOnly, NoneAbove
  <1>3. \A p \in Nodes : tab[p].inc <= peak[p]
    BY <1>1, <1>2 DEF Apply, OwnersOnly
  <1>4. \A p \in Nodes : left[p].inc = tab[p].inc
    <2>1. tab = [p \in Nodes |-> tab[p]]
      BY DEF Apply
    <2> HIDE DEF tab, departs
    <2>2. CASE departs
      BY <2>1, <2>2, <1>1
    <2> QED BY <2>2
  <1>5. \A p \in Nodes : queue[p].inc <= peak[p]
    BY <1>1, <1>2 DEF PushLearned, Fresh, OwnersOnly
  <1>6. /\ table' = [table EXCEPT ![n] = left]
        /\ gossip' = [gossip EXCEPT ![n] = queue]
        /\ net' = IF keep THEN net ELSE net \ {m}
        /\ UNCHANGED <<inc, peak>>
    BY DEF HandleLeave
  <1> HIDE DEF n, from, tab, departs, left, queue
  <1> QED
    BY <1>1, <1>3, <1>4, <1>5, <1>6 DEF OwnersOnly, TypeOK, NoneAbove

\* A node that leaves says so at its own incarnation.
LEMMA OwnersLeave ==
    ASSUME TypeOK, OwnersOnly, NEW n \in Nodes, Leave(n)
    PROVE  OwnersOnly'
  <1> DEFINE own        == [member |-> n, inc |-> inc[n], status |-> "dead"]
             Copy(p, c) == [Datagram("leave", n, p, {own}) EXCEPT !.copy = c]
  <1>1. \A p \in Live(table[n]), c \in {1, 2} : NoneAbove(Copy(p, c).updates, peak)
    BY DEF Datagram, NoneAbove, OwnersOnly
  <1>2. net' = net \cup {Copy(p, c) : p \in Live(table[n]), c \in {1, 2}}
    BY DEF Leave
  <1> HIDE DEF Copy
  <1>3. \A x \in net' : NoneAbove(x.updates, peak)
    BY <1>1, <1>2 DEF OwnersOnly
  <1> QED
    BY <1>3 DEF Leave, OwnersOnly, NoneAbove, local

\* A crash raises no incarnation, and keeps the peak.
LEMMA OwnersCrash ==
    ASSUME TypeOK, OwnersOnly, NEW n \in Nodes, Crash(n)
    PROVE  OwnersOnly'
  <1>1. \A p \in Nodes : -1 <= peak[p] /\ 0 <= peak[p]
    BY DEF TypeOK
  <1>2. \A x, p \in Nodes : table'[x][p].inc <= peak[p] /\ gossip'[x][p].inc <= peak[p]
    BY <1>1 DEF Crash, TypeOK, OwnersOnly, NoRecord, NoNews
  <1> QED
    BY <1>1, <1>2 DEF Crash, TypeOK, OwnersOnly, NoneAbove

\* Every step keeps OwnersOnly.
LEMMA OwnersStep == TypeOK /\ OwnersOnly /\ [Next]_vars => OwnersOnly'
  <1> SUFFICES ASSUME TypeOK, OwnersOnly, [Next]_vars PROVE OwnersOnly'
    OBVIOUS
  <1>1. ASSUME NEW n \in Nodes, Restart(n) PROVE OwnersOnly'
    BY <1>1 DEF Restart, OwnersOnly, NoneAbove, local
  <1>2. ASSUME NEW m \in net, Unheard(m) \/ Lose(m) PROVE OwnersOnly'
    BY <1>2 DEF Unheard, Lose, OwnersOnly, NoneAbove, local
  <1>3. ASSUME NEW m \in net, NEW keep \in BOOLEAN, Receive(m, keep) PROVE OwnersOnly'
    BY <1>3, OwnersHandle, OwnersHandleLeave DEF Receive
  <1>4. CASE UNCHANGED vars
    BY <1>4 DEF vars, OwnersOnly, NoneAbove
  <1> QED
    BY <1>1, <1>2, <1>3, <1>4, OwnersTick, OwnersLeave, OwnersCrash, OwnersRound DEF Next

\* No table, buffer or datagram holds a record of a node at an incarnation that
\* node never took, whatever is lost, repeated or late (MemberTable::refute,
\* suspect and apply; Node::leave).
THEOREM OwnersRaise == Spec => []OnlyTheOwnerRaises
  <1>1. Init => OwnersOnly
    BY DEF Init, OwnersOnly, NoRecord, NoNews
  <1>2. Spec => []OwnersOnly
    BY <1>1, TypeCorrect, OwnersStep, PTL DEF Spec
  <1> QED
    BY <1>2, TypeCorrect, OwnersOnlyIsEnough, PTL

----------------------------------------------------------------------------
\* What a node keeps is bounded.

\* The bounds of one node's table and side tables.
Bounded(tab, behindOf, heardOf, intro) ==
    /\ Cardinality(Known(tab)) + 1 <= MaxMembers
    /\ behindOf \cup heardOf \subseteq Known(tab)
    /\ \A p \in Nodes : intro[p] # NotIntroducing => p \in Known(tab)

\* The members of a table can be counted.
LEMMA KnownFinite ==
    ASSUME NEW tab
    PROVE  IsFiniteSet(Known(tab)) /\ Cardinality(Known(tab)) \in Nat
  BY NodesAssumption, FS_Subset, FS_CardinalityType DEF Known

\* A table that knows fewer is no larger.
LEMMA KnownFewer ==
    ASSUME NEW tab, NEW smaller, Known(smaller) \subseteq Known(tab)
    PROVE  Cardinality(Known(smaller)) <= Cardinality(Known(tab))
  BY KnownFinite, FS_Subset

\* Applied news adds the accepted to the known, and no more of them than there
\* is room for.
LEMMA ApplyKnown ==
    ASSUME TypeOK, NEW n \in Nodes, NEW from, NEW updates \in SUBSET Update,
           NEW accepted \in Accepted(n, from, updates),
           Cardinality(Known(table[n])) + 1 <= MaxMembers
    PROVE  /\ Known(Apply(table[n], updates, accepted)) = Known(table[n]) \cup accepted
           /\ Cardinality(Known(Apply(table[n], updates, accepted))) + 1 <= MaxMembers
  <1> DEFINE tab       == table[n]
             after     == Apply(tab, updates, accepted)
             fresh     == {p \in Nodes \ {n} : IsNews(updates, p, tab[p])}
             strangers == fresh \ Known(tab)
             known     == Cardinality(Known(tab)) + 1
             room      == IF MaxMembers > known THEN MaxMembers - known ELSE 0
  <1>1. \A p \in accepted : p \in Nodes /\ Newest(updates, p) \in updates
    BY AcceptedIsSaid
  <1>2. Known(after) = Known(tab) \cup accepted
    <2>1. \A p \in accepted : after[p] # NoRecord
      BY <1>1 DEF Apply, NoRecord, Update
    <2>2. \A p \in Nodes \ accepted : after[p] = tab[p]
      BY DEF Apply
    <2> QED
      BY <1>1, <2>1, <2>2 DEF Known
  <1>3. /\ accepted \subseteq fresh
        /\ Cardinality(accepted \cap strangers) =
              IF Cardinality(strangers) < room THEN Cardinality(strangers) ELSE room
    BY DEF Accepted
  <1>4. /\ IsFiniteSet(Known(tab)) /\ Cardinality(Known(tab)) \in Nat
        /\ IsFiniteSet(accepted \cap strangers)
    BY NodesAssumption, KnownFinite, FS_Subset
  <1>5. IsFiniteSet(strangers) /\ Cardinality(strangers) \in Nat
    <2>1. strangers \in SUBSET Nodes
      OBVIOUS
    <2> HIDE DEF strangers
    <2> QED BY <2>1, NodesAssumption, FS_Subset, FS_CardinalityType
  <1>6. Cardinality(Known(tab) \cup (accepted \cap strangers)) =
          Cardinality(Known(tab)) + Cardinality(accepted \cap strangers)
    <2>1. Known(tab) \cap (accepted \cap strangers) = {}
      OBVIOUS
    <2> DEFINE S == Known(tab)
               T == accepted \cap strangers
    <2>2. IsFiniteSet(S) /\ IsFiniteSet(T) /\ S \cap T = {}
      BY <1>4, <2>1
    <2> HIDE DEF S, T
    <2>3. Cardinality(S \cup T) = Cardinality(S) + Cardinality(T) - Cardinality(S \cap T)
      BY <2>2, FS_Union
    <2>4. Cardinality(S \cap T) = 0 /\ Cardinality(S) \in Nat /\ Cardinality(T) \in Nat
      BY <2>2, FS_EmptySet, FS_CardinalityType
    <2>5. Cardinality(S \cup T) = Cardinality(S) + Cardinality(T)
      BY <2>3, <2>4
    <2> QED BY <2>5 DEF S, T
  <1>7. Known(after) = Known(tab) \cup (accepted \cap strangers)
    BY <1>2, <1>3
  <1>8. Cardinality(accepted \cap strangers) <= MaxMembers - known
    <2>1. known \in Nat /\ known <= MaxMembers /\ MaxMembers \in Nat
      BY <1>4, LimitsAssumption
    <2>2. room = MaxMembers - known
      BY <2>1
    <2>3. Cardinality(accepted \cap strangers) <= room
      <3> HIDE DEF strangers, fresh, room
      <3>1. room \in Int
        BY <2>1, <2>2
      <3> QED BY <1>3, <1>5, <3>1
    <2> QED BY <2>2, <2>3
  <1> QED
    <2> HIDE DEF after, strangers, fresh
    <2>1. Cardinality(accepted \cap strangers) \in Nat
      BY <1>4, FS_CardinalityType
    <2>2. Cardinality(Known(after)) + 1 <= MaxMembers
      BY <1>4, <1>6, <1>7, <1>8, <2>1, LimitsAssumption
    <2> QED BY <1>2, <2>2 DEF after

\* A tick adds nobody to a table.
LEMMA BoundedTick ==
    ASSUME TypeOK, TablesBounded, NEW n \in Nodes, Ticks(n)
    PROVE  TablesBounded'
  <1> PICK expired \in SUBSET {p \in Nodes : table[n][p].status = "suspect"},
           forgotten \in SUBSET Dead(table[n]) : Tick(n, expired, forgotten)
    BY DEF Ticks
  <1> DEFINE tab == [p \in Nodes |->
                       IF p \in expired
                       THEN [inc |-> table[n][p].inc, status |-> "dead", departed |-> FALSE]
                       ELSE IF p \in forgotten THEN NoRecord
                       ELSE table[n][p]]
             intro == [p \in Nodes |-> IF p \in Live(tab) THEN introducing[n][p] ELSE NotIntroducing]
  <1>1. Known(tab) \subseteq Known(table[n])
    BY DEF Known, NoRecord, TypeOK
  <1>2. forgotten = {} => Known(table[n]) \subseteq Known(tab)
    BY DEF Known, NoRecord, TypeOK
  <1>3. Live(tab) \subseteq Known(tab)
    BY DEF Live, Known, NoRecord
  <1>4. /\ table' = [table EXCEPT ![n] = tab]
        /\ introducing' = [introducing EXCEPT ![n] = intro]
        /\ heard' = [heard EXCEPT ![n] = Retain(@, forgotten, tab)]
        /\ behind' = [behind EXCEPT ![n] = Retain(@, forgotten, tab)]
    BY DEF Tick
  <1>5. Bounded(tab, Retain(behind[n], forgotten, tab), Retain(heard[n], forgotten, tab), intro)
    <2> HIDE DEF tab
    <2>1. Cardinality(Known(tab)) + 1 <= MaxMembers
      BY <1>1, KnownFewer, KnownFinite, LimitsAssumption DEF TablesBounded
    <2> QED BY <1>2, <1>3, <2>1 DEF Bounded, TablesBounded, Retain
  <1> HIDE DEF tab, intro
  <1> QED
    BY <1>4, <1>5 DEF TablesBounded, Bounded, TypeOK

\* A round adds nobody to a table.
LEMMA BoundedRound ==
    ASSUME TypeOK, TablesBounded,
           NEW n \in Nodes, NEW target \in Nodes, NEW missed, Round(n, missed, target)
    PROVE  TablesBounded'
  <1> DEFINE tab   == Suspected(table[n], missed)
             queue == [p \in Nodes |->
                         IF p \in missed /\ Supersedes(tab[p], gossip[n][p])
                         THEN Fresh(tab[p].inc, "suspect")
                         ELSE gossip[n][p]]
             own   == OwnUpdate(n, inc[n])
             out   == Outgoing(own, tab, queue, behind[n], introducing[n], target)
  <1>1. Known(tab) = Known(table[n])
    <2>1. \A p \in missed : p \in Nodes /\ table[n][p].status = "alive"
      BY DEF Round
    <2>2. \A p \in missed : tab[p] # NoRecord /\ table[n][p] # NoRecord
      BY <2>1 DEF Suspected, NoRecord
    <2>3. \A p \in Nodes \ missed : tab[p] = table[n][p]
      BY DEF Suspected
    <2> QED BY <2>1, <2>2, <2>3 DEF Known
  <1>2. introducing[n] \in IntroType
    BY DEF TypeOK, IntroType
  <1>3. \A p \in Nodes : out.intro[p] # NotIntroducing => introducing[n][p] # NotIntroducing
    BY <1>2, IntroduceType DEF Outgoing
  <1>4. /\ introducing' = [introducing EXCEPT ![n] = out.intro]
        /\ table' = [table EXCEPT ![n] = tab]
        /\ UNCHANGED <<behind, heard>>
    BY DEF Round
  <1>5. Bounded(tab, behind[n], heard[n], out.intro)
    <2> HIDE DEF tab, out
    <2> QED BY <1>1, <1>3 DEF Bounded, TablesBounded
  <1> HIDE DEF tab, out
  <1> QED
    BY <1>4, <1>5 DEF TablesBounded, Bounded, TypeOK

\* Node::receive applies news up to the cap, its own place included.
LEMMA BoundedHandle ==
    ASSUME TypeOK, TablesBounded, NEW m \in net, NEW keep \in BOOLEAN,
           NEW accepted \in Accepted(m.to, m.from, m.updates),
           Handle(m.to, m, accepted, keep)
    PROVE  TablesBounded'
  <1> DEFINE n        == m.to
             from     == m.from
             tab      == Apply(table[n], m.updates, accepted)
             ownInc   == Refute(n, m.updates)
             queue    == PushLearned(gossip[n], n, m.updates, accepted, ownInc)
             behindOf == IF OpensBehind(n, m) THEN behind[n] \cup {from} ELSE behind[n] \ {from}
             heardOf  == IF from \in Known(tab) THEN heard[n] \cup {from} ELSE heard[n]
             newcomer == from \notin Live(table[n]) /\ tab[from].status = "alive"
             intro    == IF newcomer THEN [introducing[n] EXCEPT ![from] = 0] ELSE introducing[n]
             out      == Outgoing(OwnUpdate(n, ownInc), tab, queue, behindOf, intro, from)
  <1>1. n \in Nodes /\ from \in Nodes /\ m.updates \in SUBSET Update
    BY DEF TypeOK, Message
  <1>2. /\ Known(table[n]) \subseteq Known(tab)
        /\ Cardinality(Known(tab)) + 1 <= MaxMembers
    <2> HIDE DEF n, from
    <2> QED BY <1>1, ApplyKnown DEF TablesBounded, n, from
  <1>3. OpensBehind(n, m) => from \in Known(table[n])
    BY <1>1 DEF OpensBehind, Known, NoRecord
  <1>4. newcomer => from \in Known(tab)
    <2> HIDE DEF tab
    <2> QED BY <1>1 DEF Known, NoRecord
  <1>5. introducing[n] \in IntroType /\ intro \in IntroType
    BY <1>1 DEF TypeOK, IntroType
  <1>6. \A p \in Nodes : intro[p] # NotIntroducing => p \in Known(tab)
    <2> HIDE DEF tab
    <2> QED BY <1>1, <1>2, <1>4, <1>5 DEF TablesBounded, IntroType
  <1>7. \A p \in Nodes : out.intro[p] # NotIntroducing => intro[p] # NotIntroducing
    <2> HIDE DEF intro, tab, queue, behindOf
    <2> QED BY <1>1, <1>5, IntroduceType DEF Outgoing
  <1>8. behindOf \cup heardOf \subseteq Known(tab)
    <2> HIDE DEF tab
    <2> QED BY <1>1, <1>2, <1>3 DEF TablesBounded
  <1>9. /\ table' = [table EXCEPT ![n] = tab]
        /\ behind' = [behind EXCEPT ![n] = behindOf]
        /\ heard' = [heard EXCEPT ![n] = heardOf]
        /\ \/ introducing' = [introducing EXCEPT ![n] = out.intro]
           \/ introducing' = [introducing EXCEPT ![n] = intro]
    BY DEF Handle
  <1>10. Bounded(tab, behindOf, heardOf, intro) /\ Bounded(tab, behindOf, heardOf, out.intro)
    <2> HIDE DEF tab, behindOf, heardOf, intro, out
    <2> QED BY <1>2, <1>6, <1>7, <1>8 DEF Bounded
  <1> HIDE DEF n, from, tab, ownInc, queue, behindOf, heardOf, intro, out
  <1> QED
    BY <1>1, <1>9, <1>10 DEF TablesBounded, Bounded, TypeOK

\* Node::depart applies news up to the cap, its own place included.
LEMMA BoundedHandleLeave ==
    ASSUME TypeOK, TablesBounded, NEW m \in net, NEW keep \in BOOLEAN,
           NEW accepted \in Accepted(m.to, m.from, m.updates),
           HandleLeave(m.to, m, accepted, keep)
    PROVE  TablesBounded'
  <1> DEFINE n        == m.to
             from     == m.from
             tab      == Apply(table[n], m.updates, accepted)
             departs  == Departs(tab, from)
             left     == IF departs THEN [tab EXCEPT ![from].departed = TRUE] ELSE tab
             behindOf == behind[n] \ {from}
             heardOf  == IF departs THEN heard[n] \ {from} ELSE heard[n]
             intro    == IF departs THEN [introducing[n] EXCEPT ![from] = NotIntroducing]
                         ELSE introducing[n]
  <1>1. n \in Nodes /\ from \in Nodes /\ m.updates \in SUBSET Update
    BY DEF TypeOK, Message
  <1>2. /\ Known(table[n]) \subseteq Known(tab)
        /\ Cardinality(Known(tab)) + 1 <= MaxMembers
    <2> HIDE DEF n, from
    <2> QED BY <1>1, ApplyKnown DEF TablesBounded, n, from
  <1>3. Known(left) = Known(tab)
    <2>1. tab = [p \in Nodes |-> tab[p]]
      BY DEF Apply
    <2>2. departs => tab[from] # NoRecord
      <3> HIDE DEF tab
      <3> QED BY DEF Departs, NoRecord
    <2>3. departs => left[from].departed
      <3> HIDE DEF tab
      <3> QED BY <1>1, <2>1 DEF departs
    <2>4. ~NoRecord.departed
      BY DEF NoRecord
    <2>5. \A p \in Nodes \ {from} : left[p] = tab[p]
      <3> HIDE DEF tab
      <3> QED BY <2>1
    <2> HIDE DEF tab, left, departs
    <2>6. CASE departs
      BY <1>1, <2>2, <2>3, <2>4, <2>5, <2>6 DEF Known
    <2>7. CASE ~departs
      BY <2>7 DEF left
    <2> QED BY <2>6, <2>7
  <1>4. \A p \in Nodes : intro[p] # NotIntroducing => introducing[n][p] # NotIntroducing
    <2> HIDE DEF departs
    <2> QED BY <1>1 DEF TypeOK
  <1>5. Bounded(left, behindOf, heardOf, intro)
    <2> HIDE DEF tab, left, departs, intro
    <2> QED BY <1>1, <1>2, <1>3, <1>4 DEF Bounded, TablesBounded
  <1>6. /\ table' = [table EXCEPT ![n] = left]
        /\ behind' = [behind EXCEPT ![n] = behindOf]
        /\ heard' = [heard EXCEPT ![n] = heardOf]
        /\ introducing' = [introducing EXCEPT ![n] = intro]
    BY DEF HandleLeave
  <1> HIDE DEF n, from, tab, departs, left, behindOf, heardOf, intro
  <1> QED
    BY <1>1, <1>5, <1>6 DEF TablesBounded, Bounded, TypeOK

\* An empty table is within the cap.
LEMMA BoundedNothing ==
    ASSUME NEW tab, \A p \in Nodes : tab[p] = NoRecord
    PROVE  Cardinality(Known(tab)) + 1 <= MaxMembers
  <1>1. Known(tab) = {}
    BY DEF Known
  <1> QED
    BY <1>1, FS_EmptySet, LimitsAssumption

\* A node that starts again starts with an empty table.
LEMMA BoundedCrash ==
    ASSUME TypeOK, TablesBounded, NEW n \in Nodes, Crash(n)
    PROVE  TablesBounded'
  <1>1. Cardinality(Known(table'[n])) + 1 <= MaxMembers
    BY BoundedNothing DEF Crash, TypeOK
  <1> QED
    BY <1>1 DEF Crash, TablesBounded, TypeOK

\* Every step keeps the tables within the cap.
LEMMA BoundedStep == TypeOK /\ TablesBounded /\ [Next]_vars => TablesBounded'
  <1> SUFFICES ASSUME TypeOK, TablesBounded, [Next]_vars PROVE TablesBounded'
    OBVIOUS
  <1>1. ASSUME UNCHANGED <<table, behind, heard, introducing>> PROVE TablesBounded'
    BY <1>1 DEF TablesBounded
  <1>2. ASSUME NEW n \in Nodes, Restart(n) \/ Leave(n) PROVE TablesBounded'
    BY <1>1, <1>2 DEF Restart, Leave, local
  <1>3. ASSUME NEW m \in net, Unheard(m) \/ Lose(m) PROVE TablesBounded'
    BY <1>1, <1>3 DEF Unheard, Lose, local
  <1>4. ASSUME NEW m \in net, NEW keep \in BOOLEAN, Receive(m, keep) PROVE TablesBounded'
    BY <1>4, BoundedHandle, BoundedHandleLeave DEF Receive
  <1>5. CASE UNCHANGED vars
    BY <1>1, <1>5 DEF vars
  <1> QED
    BY <1>2, <1>3, <1>4, <1>5, BoundedTick, BoundedCrash, BoundedRound DEF Next

\* The member table keeps within its cap and the side tables within the member
\* table (MemberTable::apply; Node::handle, retain).
THEOREM TablesKeepBounds == Spec => []TablesBounded
  <1>1. Init => TablesBounded
    BY BoundedNothing DEF Init, TablesBounded
  <1> QED
    BY <1>1, TypeCorrect, BoundedStep, PTL DEF Spec
=============================================================================
