-------------------------- MODULE PeerDemandProofs --------------------------
(***************************************************************************)
(* What PeerDemand guarantees whatever the keys, the width of a round, the *)
(* limits and the times: its types and its bounds on memory, that a peer   *)
(* that left on purpose counts for nothing, that no disorder of its        *)
(* reports loosens what the newest one says, and that what disorder adds   *)
(* ends after two windows.                                                 *)
(***************************************************************************)
EXTENDS PeerDemand, FiniteSetTheorems, SequenceTheorems, TLAPS

----------------------------------------------------------------------------
\* Lemmas about the operators.

\* A round and a round later, around the circle, is a round.
LEMMA RoundType == \A a \in Nat : a % Circle \in Rounds
  BY CircleAssumption DEF Rounds

\* What a report says of a key is a number.
LEMMA LoadType == ASSUME NEW load \in Loads, NEW k \in Keys PROVE load[k] \in Nat
  BY LoadsAssumption

\* What contest drops is dropped whole, it keeps the rest, and drops nothing
\* when there is room.
LEMMA TrimmedKeeps ==
    ASSUME NEW contested \in [Keys -> Entry], NEW c \in Trimmed(contested)
    PROVE  /\ c \in [Keys -> Entry]
           /\ Cardinality(Disputed(c)) <= MaxContested
           /\ Cardinality(Disputed(contested)) <= MaxContested => c = contested
           /\ \A k \in Keys : c[k] \in {contested[k], NoEntry}
  <1>0. NoEntry \in Entry
    BY TimesAssumption DEF NoEntry, Entry, Times
  <1>1. PICK stay \in SUBSET Disputed(contested) :
          /\ c = [k \in Keys |-> IF k \in stay THEN contested[k] ELSE NoEntry]
          /\ \/ stay = Disputed(contested) /\ Cardinality(stay) <= MaxContested
             \/ stay # Disputed(contested) /\ Cardinality(stay) = MaxContested
    BY DEF Trimmed
  <1>2. c \in [Keys -> Entry]
    BY <1>0, <1>1
  <1>3. Disputed(c) = stay
    BY <1>1 DEF Disputed
  <1>4. Cardinality(stay) <= MaxContested
    BY <1>1, RoomAssumption
  <1>5. ASSUME Cardinality(Disputed(contested)) <= MaxContested PROVE c = contested
    <2>1. IsFiniteSet(Disputed(contested)) /\ Cardinality(Disputed(contested)) \in Nat
      BY KeysAssumption, FS_Subset, FS_CardinalityType DEF Disputed
    <2>2. stay = Disputed(contested)
      BY <1>1, <1>5, <2>1, FS_Subset, FS_CardinalityType, RoomAssumption
    <2>3. \A k \in Keys : c[k] = contested[k]
      BY <1>1, <2>2 DEF Disputed
    <2> QED
      BY <1>2, <2>3
  <1>6. \A k \in Keys : c[k] \in {contested[k], NoEntry}
    BY <1>1
  <1> QED
    BY <1>2, <1>3, <1>4, <1>5, <1>6

\* What is contested with a report is of the type of what was before.
LEMMA MergedType ==
    ASSUME NEW contested \in [Keys -> Entry], NEW load \in Loads, NEW at \in Times
    PROVE  Merged(contested, load, at) \in [Keys -> Entry]
  <1>1. ASSUME NEW k \in Keys
        PROVE  /\ [demand |-> Larger(contested[k].demand, load[k]),
                   heardAt |-> Larger(contested[k].heardAt, at)] \in Entry
    BY LoadType DEF Entry, Larger
  <1> QED
    BY <1>1 DEF Merged

\* The past epochs kept are epochs, and not too many.
LEMMA PastType ==
    ASSUME NEW old \in Snapshot \cup {NoSnapshot}, NEW r \in Report,
           old # NoSnapshot => Len(old.past) <= PastEpochs
    PROVE  /\ PastOf(old, r) \in Seq(1 .. MaxEpoch)
           /\ Len(PastOf(old, r)) <= PastEpochs
  <1>1. CASE old = NoSnapshot
    <2>1. PastOf(old, r) = <<>>
      BY <1>1 DEF PastOf
    <2>2. <<>> \in Seq(1 .. MaxEpoch) /\ Len(<<>>) = 0
      OBVIOUS
    <2> QED
      BY <2>1, <2>2, RoomAssumption
  <1>2. CASE old # NoSnapshot
    <2>1. /\ old.past \in Seq(1 .. MaxEpoch) /\ Len(old.past) <= PastEpochs
          /\ old.epoch \in 1 .. MaxEpoch
      BY <1>2 DEF Snapshot
    <2>2. CASE old.epoch = r.epoch
      BY <1>2, <2>1, <2>2 DEF PastOf
    <2>3. CASE old.epoch # r.epoch
      <3> DEFINE all == <<old.epoch>> \o old.past
                 n == IF Len(old.past) < PastEpochs THEN Len(old.past) + 1 ELSE PastEpochs
      <3>1. <<old.epoch>> \in Seq(1 .. MaxEpoch) /\ Len(<<old.epoch>>) = 1
        BY <2>1
      <3>2. all \in Seq(1 .. MaxEpoch) /\ Len(all) = Len(old.past) + 1
        BY <2>1, <3>1
      <3>3. n \in 0 .. Len(all) /\ n <= PastEpochs
        BY <2>1, <3>2, RoomAssumption
      <3>4. PastOf(old, r) = SubSeq(all, 1, n)
        BY <1>2, <2>3 DEF PastOf
      <3> HIDE DEF all, n
      <3>5. SubSeq(all, 1, n) \in Seq(1 .. MaxEpoch) /\ Len(SubSeq(all, 1, n)) = n
        <4>1. Len(all) \in Nat /\ \A i \in 1 .. Len(all) : all[i] \in 1 .. MaxEpoch
          BY <3>2, ElementOfSeq, LenProperties
        <4>2. n \in Int /\ \A i \in 1 .. n : i \in 1 .. Len(all)
          BY <3>3, <4>1
        <4> QED
          BY <3>3, <4>1, <4>2, SubSeqProperties
      <3> QED
        BY <3>3, <3>4, <3>5
    <2> QED
      BY <2>2, <2>3
  <1> QED
    BY <1>1, <1>2

\* What is counted of a peer keeps to its bounds.
Bounded(p) == p.snapshot # NoSnapshot => Len(p.snapshot.past) <= PastEpochs

\* Peer::contest changes what is contested only.
LEMMA ContestType ==
    ASSUME NEW p \in Peer, Bounded(p), NEW load \in Loads, NEW at \in Times
    PROVE  /\ Contest(p, load, at) \in Peer /\ Bounded(Contest(p, load, at))
           /\ Contest(p, load, at).snapshot = p.snapshot
           /\ Contest(p, load, at).contested = Merged(p.contested, load, at)
           /\ Contest(p, load, at).heldUntil = p.heldUntil
  <1> DEFINE c == Merged(p.contested, load, at)
  <1>1. c \in [Keys -> Entry]
    BY MergedType DEF Peer
  <1> HIDE DEF c
  <1>2. Contest(p, load, at) = [p EXCEPT !.contested = c]
    BY DEF Contest, c
  <1> QED
    BY <1>1, <1>2 DEF Peer, Bounded, c

\* PeerDemand::apply keeps the types; what it takes for the snapshot is the
\* report, as heard now.
LEMMA ApplyType ==
    ASSUME NEW p \in Peer, Bounded(p), NEW r \in Report, NEW now \in Times
    PROVE  Apply(p, r, now) \in Peer /\ Bounded(Apply(p, r, now))
  <1> DEFINE old == p.snapshot
             next == [epoch |-> r.epoch, past |-> PastOf(old, r), round |-> r.round,
                      heardAt |-> now, keys |-> r.keys]
             taken == [p EXCEPT !.heldUntil = Never, !.snapshot = next]
  <1>0. /\ old \in Snapshot \cup {NoSnapshot} /\ p.contested \in [Keys -> Entry]
        /\ old # NoSnapshot => old.keys \in Loads /\ old.heardAt \in Times
        /\ r.keys \in Loads
    BY DEF Peer, Snapshot, Report
  <1>1. next \in Snapshot /\ Len(next.past) <= PastEpochs /\ next # NoSnapshot
    BY <1>0, PastType DEF Bounded, Snapshot, Report, NoSnapshot
  <1> HIDE DEF next
  <1>2. taken \in Peer /\ Bounded(taken)
    BY <1>1 DEF Peer, Bounded
  <1> HIDE DEF taken
  <1>3. Take(p, r, now) = IF KeepReplaced(old, r) THEN Contest(taken, old.keys, old.heardAt)
                          ELSE taken
    BY DEF Take, taken, next
  <1>4. KeepReplaced(old, r) => old # NoSnapshot
    BY DEF KeepReplaced
  <1> HIDE DEF old
  <1>5. Take(p, r, now) \in Peer /\ Bounded(Take(p, r, now))
    BY <1>0, <1>2, <1>3, <1>4, ContestType
  <1>6. Contest(p, r.keys, now) \in Peer /\ Bounded(Contest(p, r.keys, now))
    BY <1>0, ContestType
  <1> QED
    BY <1>5, <1>6 DEF Apply

\* PeerDemand::leave keeps the types.
LEMMA LeaveType ==
    ASSUME NEW p \in Peer, Bounded(p), NEW now \in Times
    PROVE  /\ Leave(p, now) \in Peer /\ Bounded(Leave(p, now))
           /\ Leave(p, now) # NoPeer => /\ Leave(p, now).snapshot = p.snapshot
                                        /\ Leave(p, now).contested = p.contested
  <1>1. NoPeer \in Peer /\ Bounded(NoPeer)
    BY TimesAssumption DEF NoPeer, Peer, Bounded, Never, NoEntry, Entry, Times
  <1>2. [p EXCEPT !.heldUntil = now + Hold] \in Peer
        /\ Bounded([p EXCEPT !.heldUntil = now + Hold])
    BY TimesAssumption DEF Peer, Bounded, Times
  <1>3. /\ [p EXCEPT !.heldUntil = now + Hold].snapshot = p.snapshot
        /\ [p EXCEPT !.heldUntil = now + Hold].contested = p.contested
    BY DEF Peer
  <1> QED
    BY <1>1, <1>2, <1>3 DEF Leave

\* PeerDemand::expire keeps the types, and disputes no other key.
LEMMA ExpireType ==
    ASSUME NEW p \in Peer, Bounded(p), NEW now \in Times
    PROVE  /\ Expire(p, now) \in Peer /\ Bounded(Expire(p, now))
           /\ Disputed(Expire(p, now).contested) \subseteq Disputed(p.contested)
  <1> DEFINE snapshot == IF p.snapshot # NoSnapshot /\ now < p.snapshot.heardAt + MaxAge
                         THEN p.snapshot ELSE NoSnapshot
             contested == [k \in Keys |-> IF now < p.contested[k].heardAt + MaxAge
                                          THEN p.contested[k] ELSE NoEntry]
             aged == [p EXCEPT !.snapshot = snapshot, !.contested = contested]
  <1>0. NoEntry \in Entry
    BY TimesAssumption DEF NoEntry, Entry, Times
  <1>1. NoPeer \in Peer /\ Bounded(NoPeer) /\ Disputed(NoPeer.contested) = {}
    BY <1>0 DEF NoPeer, Peer, Bounded, Never, Disputed
  <1>2. /\ snapshot \in Snapshot \cup {NoSnapshot} /\ contested \in [Keys -> Entry]
        /\ snapshot # NoSnapshot => snapshot = p.snapshot
        /\ Disputed(contested) \subseteq Disputed(p.contested)
    BY <1>0 DEF Peer, Disputed
  <1>3. Expire(p, now) = IF p.heldUntil # Never
                         THEN IF now < p.heldUntil THEN p ELSE NoPeer ELSE aged
    BY DEF Expire
  <1> HIDE DEF snapshot, contested
  <1>4. aged \in Peer /\ Bounded(aged) /\ aged.contested = contested
    BY <1>2 DEF Peer, Bounded
  <1> HIDE DEF aged
  <1> QED
    BY <1>1, <1>2, <1>3, <1>4

----------------------------------------------------------------------------
\* Before anything is heard.
LEMMA TypeInit == Init => TypeOK
  <1> SUFFICES ASSUME Init PROVE TypeOK
    OBVIOUS
  <1>1. NoPeer \in Peer /\ NoPeer.snapshot = NoSnapshot /\ Disputed(NoPeer.contested) = {}
    BY TimesAssumption DEF NoPeer, Peer, Never, NoEntry, Entry, Times, Disputed
  <1>2. Cardinality({}) = 0
    BY FS_EmptySet
  <1>3. sender \in [epoch : 1 .. MaxEpoch, round : Rounds, up : BOOLEAN]
    BY TimesAssumption, CircleAssumption DEF Init, Rounds
  <1>4. /\ clock \in Times /\ newestAt \in Times /\ unsettledAt \in Times
        /\ newest \in Report \cup {NoReport} /\ sent \subseteq Report
    BY TimesAssumption DEF Init, Times
  <1>5. /\ peer \in Peer /\ peer.snapshot = NoSnapshot
        /\ Cardinality(Disputed(peer.contested)) <= MaxContested
    BY <1>1, <1>2, RoomAssumption DEF Init
  <1>6. /\ left \in BOOLEAN /\ departed \in BOOLEAN /\ ~departed
        /\ leftPending \in BOOLEAN /\ crowded \in BOOLEAN
        /\ status \in {"none", "live", "dead"}
    BY Zenon DEF Init
  <1> QED
    BY <1>3, <1>4, <1>5, <1>6 DEF TypeOK

\* A report counted leaves the peer and the history of their types.
LEMMA ApplyReportType ==
    ASSUME TypeOK, NEW r \in Report, ApplyReport(r)
    PROVE  /\ peer' \in Peer /\ Bounded(peer')
           /\ Cardinality(Disputed(peer'.contested)) <= MaxContested
           /\ newest' \in Report \cup {NoReport} /\ newestAt' \in Times
           /\ unsettledAt' \in Times /\ crowded' \in BOOLEAN
  <1> DEFINE applied == Apply(peer, r, clock)
  <1>1. applied \in Peer /\ Bounded(applied)
    BY ApplyType DEF TypeOK, Bounded
  <1> HIDE DEF applied
  <1>2. PICK contested \in Trimmed(applied.contested) :
          peer' = [applied EXCEPT !.contested = contested]
    BY DEF ApplyReport, applied
  <1>3. applied.contested \in [Keys -> Entry]
    BY <1>1 DEF Peer
  <1>4. /\ contested \in [Keys -> Entry]
        /\ Cardinality(Disputed(contested)) <= MaxContested
    BY <1>3, TrimmedKeeps
  <1>5. peer' \in Peer /\ Bounded(peer') /\ peer'.contested = contested
    BY <1>1, <1>2, <1>4 DEF Peer, Bounded
  <1>6. NoteReport(r, Cardinality(Disputed(applied.contested)) > MaxContested)
    BY DEF ApplyReport, applied
  <1>7. newest' \in Report \cup {NoReport} /\ newestAt' \in Times /\ unsettledAt' \in Times
    BY <1>6 DEF NoteReport, TypeOK
  <1>8. crowded' \in BOOLEAN
    BY <1>6, Zenon DEF NoteReport
  <1> QED
    BY <1>4, <1>5, <1>7, <1>8

\* What a round leaves counted of the peer.
LEMMA RoundPeer ==
    ASSUME TypeOK, Round
    PROVE  \E followed \in Peer :
              /\ peer' = Expire(followed, clock') /\ clock' \in Times /\ Bounded(followed)
              /\ \/ followed = NoPeer
                 \/ /\ followed.snapshot = peer.snapshot
                    /\ followed.contested = peer.contested
                    /\ peer.heldUntil # Never => followed.heldUntil # Never
  <1> DEFINE followed == IF leftPending THEN FollowLeft(peer, clock') ELSE peer
  <1>0. NoPeer \in Peer /\ Bounded(NoPeer)
    BY TimesAssumption DEF NoPeer, Peer, Never, NoEntry, Entry, Times, Bounded
  <1>1. clock' = clock + 1 /\ clock' \in Times /\ peer' = Expire(followed, clock')
    BY TimesAssumption DEF Round, TypeOK, Times
  <1>2. peer \in Peer /\ Bounded(peer)
    BY DEF TypeOK, Bounded
  <1>3. FollowLeft(peer, clock') \in {NoPeer, Leave(peer, clock'), peer}
    BY DEF FollowLeft
  <1>4. followed \in {NoPeer, Leave(peer, clock'), peer}
    BY <1>3
  <1> HIDE DEF followed
  <1>5. /\ followed \in Peer /\ Bounded(followed)
        /\ \/ followed = NoPeer
           \/ /\ followed.snapshot = peer.snapshot
              /\ followed.contested = peer.contested
              /\ peer.heldUntil # Never => followed.heldUntil # Never
    <2>1. Leave(peer, clock') # NoPeer => Leave(peer, clock').heldUntil # Never
      <3>1. [peer EXCEPT !.heldUntil = clock' + Hold].heldUntil # Never
        BY <1>1, <1>2, TimesAssumption DEF Peer, Times, Never
      <3> QED
        BY <3>1 DEF Leave
    <2> QED
      BY <1>0, <1>1, <1>2, <1>4, <2>1, LeaveType
  <1> QED
    BY <1>1, <1>5

\* Whatever is made, heard, forgotten or outlived stays of its type.
LEMMA TypeStep == TypeOK /\ [Next]_vars => TypeOK'
  <1> SUFFICES ASSUME TypeOK, [Next]_vars PROVE TypeOK'
    OBVIOUS
  <1> DEFINE HistoryOK == /\ newest \in Report \cup {NoReport} /\ newestAt \in Times
                          /\ unsettledAt \in Times /\ crowded \in BOOLEAN
             PeerOK == /\ peer \in Peer /\ Bounded(peer)
                       /\ Cardinality(Disputed(peer.contested)) <= MaxContested
             MemberOK == /\ status \in {"none", "live", "dead"}
                         /\ departed \in BOOLEAN /\ (departed => status = "dead")
                         /\ leftPending \in BOOLEAN
             SenderOK == /\ sender \in [epoch : 1 .. MaxEpoch, round : Rounds, up : BOOLEAN]
                         /\ sent \subseteq Report /\ left \in BOOLEAN
  <1>0. HistoryOK /\ PeerOK /\ MemberOK /\ SenderOK /\ clock \in Times
    BY DEF TypeOK, Bounded
  <1>t. HistoryOK' /\ PeerOK' /\ MemberOK' /\ SenderOK' /\ clock' \in Times => TypeOK'
    BY DEF TypeOK, Bounded
  <1>n. NoPeer \in Peer /\ Bounded(NoPeer) /\ Cardinality(Disputed(NoPeer.contested)) = 0
    <2>1. NoPeer \in Peer /\ Bounded(NoPeer) /\ Disputed(NoPeer.contested) = {}
      BY TimesAssumption DEF NoPeer, Peer, Never, NoEntry, Entry, Times, Disputed, Bounded
    <2> QED
      BY <2>1, FS_EmptySet
  <1>p. NoPeer \in Peer /\ Bounded(NoPeer)
        /\ Cardinality(Disputed(NoPeer.contested)) <= MaxContested
    BY <1>n, RoomAssumption
  <1>u. /\ UNCHANGED history => HistoryOK'
        /\ UNCHANGED peer => PeerOK'
        /\ UNCHANGED memberVars => MemberOK'
        /\ UNCHANGED senderVars => SenderOK'
        /\ UNCHANGED clock => clock' \in Times
    BY <1>0 DEF history, memberVars, senderVars
  <1>m. ASSUME NEW news \in News, Learn(news),
               \/ departed' = DepartedAfter(news)
               \/ departed' = TRUE /\ StatusAfter(news) = "dead"
               \/ departed' = departed /\ (StatusAfter(news) # "dead" \/ DepartedAfter(news))
                    /\ news # "live"
        PROVE  MemberOK'
    <2>1. status' \in {"none", "live", "dead"}
      BY <1>0, <1>m DEF Learn, StatusAfter, News
    <2>2. leftPending' \in BOOLEAN
      BY <1>m, Zenon DEF Learn
    <2>3. departed' \in BOOLEAN
      BY <1>0, <1>m, Zenon DEF DepartedAfter
    <2>4. departed' => status' = "dead"
      BY <1>0, <1>m DEF DepartedAfter, StatusAfter, Learn, News
    <2> QED
      BY <2>1, <2>2, <2>3, <2>4
  <1> HIDE DEF HistoryOK, PeerOK, MemberOK
  <1>a. ASSUME NEW r \in sent, ApplyReport(r) PROVE PeerOK' /\ HistoryOK'
    <2>1. r \in Report
      BY DEF TypeOK
    <2> QED
      BY <1>a, <2>1, ApplyReportType DEF PeerOK, HistoryOK
  <1>1. ASSUME NEW load \in Loads, MakeReport(load) PROVE TypeOK'
    <2>1. sender.round \in Nat /\ sender.epoch \in 1 .. MaxEpoch /\ clock \in Times
      BY DEF TypeOK, Rounds
    <2>2. (sender.round + 1) % Circle \in Rounds
      BY <2>1, RoundType
    <2>3. sender' = [sender EXCEPT !.round = (sender.round + 1) % Circle]
      BY <1>1 DEF MakeReport
    <2>4. sender' \in [epoch : 1 .. MaxEpoch, round : Rounds, up : BOOLEAN]
      BY <2>2, <2>3 DEF TypeOK
    <2>5. [epoch |-> sender.epoch, round |-> sender'.round, at |-> clock, keys |-> load]
             \in Report
      BY <2>1, <2>4 DEF Report
    <2>6. SenderOK'
      BY <1>0, <1>1, <2>4, <2>5 DEF MakeReport
    <2> HIDE DEF SenderOK
    <2> QED
      BY <1>1, <1>t, <1>u, <2>6 DEF MakeReport
  <1>2. CASE LeaveCluster
    <2>1. sender' \in [epoch : 1 .. MaxEpoch, round : Rounds, up : BOOLEAN]
      BY <1>0, <1>2 DEF LeaveCluster
    <2>2. SenderOK'
      BY <1>0, <1>2, <2>1 DEF LeaveCluster
    <2> HIDE DEF SenderOK
    <2> QED
      BY <1>2, <1>t, <1>u, <2>2 DEF LeaveCluster
  <1>3. CASE Restart
    <2>1. sender' \in [epoch : 1 .. MaxEpoch, round : Rounds, up : BOOLEAN]
      BY <1>0, <1>3, CircleAssumption, TimesAssumption DEF Restart, Rounds
    <2>2. SenderOK'
      BY <1>0, <1>3, <2>1 DEF Restart
    <2> HIDE DEF SenderOK
    <2> QED
      BY <1>3, <1>t, <1>u, <2>2 DEF Restart
  <1>s. ASSUME UNCHANGED senderVars PROVE SenderOK'
    BY <1>s, <1>u
  <1> HIDE DEF SenderOK
  <1>4. ASSUME NEW r \in sent, NEW news \in News, Receive(r, news) PROVE TypeOK'
    <2>1. MemberOK'
      BY <1>4, <1>m DEF Receive
    <2>2. PeerOK' /\ HistoryOK'
      BY <1>4, <1>a, <1>u DEF Receive
    <2> QED
      BY <1>4, <1>s, <1>t, <1>u, <2>1, <2>2 DEF Receive
  <1>5. ASSUME NEW r \in sent, NEW news \in News, ReceiveRelayed(r, news) PROVE TypeOK'
    <2>1. MemberOK'
      BY <1>5, <1>m DEF ReceiveRelayed
    <2>2. PeerOK' /\ HistoryOK'
      BY <1>5, <1>a, <1>u DEF ReceiveRelayed
    <2> QED
      BY <1>5, <1>s, <1>t, <1>u, <2>1, <2>2 DEF ReceiveRelayed
  <1>d. ASSUME NoteDropped PROVE /\ newest' \in Report \cup {NoReport} /\ newestAt' \in Times
                                 /\ crowded' \in BOOLEAN
    <2>1. newest' \in Report \cup {NoReport} /\ newestAt' \in Times
      BY <1>d, TimesAssumption DEF NoteDropped, TypeOK, Times
    <2>2. crowded \in BOOLEAN
      BY DEF TypeOK
    <2>3. crowded' \in BOOLEAN
      BY <1>d, <2>2, Zenon DEF NoteDropped
    <2> QED
      BY <2>1, <2>3
  <1>6. ASSUME NEW news \in News, ReceiveLeave(news) PROVE TypeOK'
    <2>1. MemberOK'
      BY <1>6, <1>m DEF ReceiveLeave
    <2>2. PeerOK'
      BY <1>6, <1>p, <1>u DEF ReceiveLeave, PeerOK
    <2>3. unsettledAt' \in Times
      BY <1>6 DEF ReceiveLeave, TypeOK
    <2>4. HistoryOK'
      <3>1. CASE NoteDropped
        BY <1>d, <2>3, <3>1 DEF HistoryOK
      <3>2. CASE UNCHANGED <<newest, newestAt, crowded>>
        BY <1>0, <2>3, <3>2 DEF HistoryOK
      <3> QED
        BY <1>6, <3>1, <3>2 DEF ReceiveLeave
    <2> QED
      BY <1>6, <1>s, <1>t, <1>u, <2>1, <2>2, <2>4 DEF ReceiveLeave
  <1>7. ASSUME NEW news \in News, Hear(news) PROVE TypeOK'
    <2>1. MemberOK'
      BY <1>7, <1>m DEF Hear
    <2> QED
      BY <1>7, <1>s, <1>t, <1>u, <2>1 DEF Hear
  <1>8. CASE ForgetDead
    <2>1. MemberOK'
      BY <1>0, <1>8 DEF ForgetDead, MemberOK
    <2> QED
      BY <1>8, <1>s, <1>t, <1>u, <2>1 DEF ForgetDead
  <1>9. CASE Round
    <2>1. PICK followed \in Peer :
            /\ peer' = Expire(followed, clock') /\ clock' \in Times /\ Bounded(followed)
            /\ followed = NoPeer \/ followed.contested = peer.contested
      BY <1>9, RoundPeer
    <2>2. Cardinality(Disputed(followed.contested)) <= MaxContested
      BY <1>0, <1>p, <2>1 DEF PeerOK
    <2>3. /\ peer' \in Peer /\ Bounded(peer')
          /\ Disputed(peer'.contested) \subseteq Disputed(followed.contested)
      BY <2>1, ExpireType
    <2>4. IsFiniteSet(Disputed(followed.contested))
      BY KeysAssumption, FS_Subset DEF Disputed
    <2>5. Cardinality(Disputed(peer'.contested)) <= MaxContested
      <3>1. /\ Cardinality(Disputed(peer'.contested)) \in Nat
            /\ Cardinality(Disputed(followed.contested)) \in Nat
            /\ Cardinality(Disputed(peer'.contested))
                 <= Cardinality(Disputed(followed.contested))
        BY <2>3, <2>4, FS_Subset, FS_CardinalityType
      <3> QED
        BY <2>2, <3>1, RoomAssumption
    <2>6. PeerOK'
      BY <2>3, <2>5 DEF PeerOK
    <2>7. unsettledAt' \in Times
      BY <1>9, <2>1 DEF Round, TypeOK
    <2>8. HistoryOK'
      BY <1>9, <1>d, <2>7 DEF Round, HistoryOK
    <2>9. MemberOK'
      BY <1>0, <1>9, Zenon DEF Round, MemberOK
    <2>10. SenderOK'
      BY <1>0, <1>9 DEF Round, SenderOK
    <2> QED
      BY <1>t, <2>1, <2>6, <2>8, <2>9, <2>10
  <1>10. CASE UNCHANGED vars
    BY <1>10, <1>t, <1>u DEF vars
  <1> QED
    BY <1>1, <1>2, <1>3, <1>4, <1>5, <1>6, <1>7, <1>8, <1>9, <1>10 DEF Next

\* Types, and the bounds on what is remembered of a peer: MAX_CONTESTED keys
\* and PAST_EPOCHS epochs, whatever it sends (peer_demand.rs, contest, apply).
THEOREM TypeCorrect == Spec => []TypeOK
  BY TypeInit, TypeStep, PTL DEF Spec

----------------------------------------------------------------------------
\* expire makes nothing of nothing: an entry that is not there stays away.
LEMMA ExpireNothing == ASSUME NEW now PROVE Expire(NoPeer, now) = NoPeer
  <1> DEFINE fresh(at) == now < at + MaxAge
             contested == [k \in Keys |-> IF fresh(NoPeer.contested[k].heardAt)
                                          THEN NoPeer.contested[k] ELSE NoEntry]
  <1>1. /\ NoPeer.snapshot = NoSnapshot /\ NoPeer.heldUntil = Never
        /\ NoPeer.contested = [k \in Keys |-> NoEntry]
    BY DEF NoPeer
  <1>2. contested = [k \in Keys |-> NoEntry]
    BY <1>1
  <1>3. Expire(NoPeer, now) =
            [NoPeer EXCEPT !.snapshot = NoSnapshot, !.contested = contested]
    BY <1>1 DEF Expire
  <1> QED
    BY <1>2, <1>3 DEF NoPeer

\* follow_changes has nothing to hold for a peer that said nothing.
LEMMA FollowNothing == ASSUME NEW now PROVE FollowLeft(NoPeer, now) = NoPeer
  BY DEF FollowLeft, Leave

\* Every step keeps a departed peer silent: reports, direct or relayed, are
\* not counted, a round brings nothing back, and a leave forgets what is there.
LEMMA SilentStep == DepartedIsSilent /\ [Next]_vars => DepartedIsSilent'
  <1> SUFFICES ASSUME DepartedIsSilent, [Next]_vars, departed' PROVE peer' = NoPeer
    BY DEF DepartedIsSilent
  <1>1. ASSUME UNCHANGED <<departed, peer>> PROVE peer' = NoPeer
    BY <1>1 DEF DepartedIsSilent
  <1>2. ASSUME NEW load \in Loads, MakeReport(load) PROVE peer' = NoPeer
    BY <1>1, <1>2 DEF MakeReport, memberVars
  <1>3. CASE LeaveCluster
    BY <1>1, <1>3 DEF LeaveCluster, memberVars
  <1>4. CASE Restart
    BY <1>1, <1>4 DEF Restart, memberVars
  <1>5. ASSUME NEW r \in sent, NEW news \in News, Receive(r, news) PROVE peer' = NoPeer
    <2>1. departed /\ news = "same"
      BY <1>5 DEF Receive, DepartedAfter
    <2>2. UNCHANGED peer
      BY <1>5, <2>1 DEF Receive, Counts, DepartedAfter
    <2> QED
      BY <2>1, <2>2 DEF DepartedIsSilent
  <1>6. ASSUME NEW r \in sent, NEW news \in News, ReceiveRelayed(r, news)
        PROVE  peer' = NoPeer
    <2>1. departed /\ news = "same"
      BY <1>6 DEF ReceiveRelayed, DepartedAfter
    <2>2. UNCHANGED peer
      BY <1>6, <2>1 DEF ReceiveRelayed, DepartedAfter
    <2> QED
      BY <2>1, <2>2 DEF DepartedIsSilent
  <1>7. ASSUME NEW news \in News, ReceiveLeave(news) PROVE peer' = NoPeer
    BY <1>1, <1>7 DEF ReceiveLeave
  <1>8. ASSUME NEW news \in News, Hear(news) PROVE peer' = NoPeer
    BY <1>8 DEF Hear, DepartedAfter, DepartedIsSilent
  <1>9. CASE ForgetDead
    BY <1>9 DEF ForgetDead
  <1>10. CASE Round
    <2>1. peer = NoPeer
      BY <1>10 DEF Round, DepartedIsSilent
    <2>2. peer' = Expire(NoPeer, clock + 1)
      BY <1>10, <2>1, FollowNothing DEF Round
    <2> QED
      BY <2>2, ExpireNothing
  <1>11. CASE UNCHANGED vars
    BY <1>1, <1>11 DEF vars, memberVars
  <1> QED
    BY <1>2, <1>3, <1>4, <1>5, <1>6, <1>7, <1>8, <1>9, <1>10, <1>11 DEF Next

\* A peer whose leave was taken counts for nothing until it is back, whichever
\* of its late reports, its helpers' relays, the node's rounds and the news of
\* its deaths come after it (Node::depart, receive, acknowledged,
\* follow_changes).
THEOREM DepartedCountsForNothing == Spec => []DepartedIsSilent
  <1>1. Init => DepartedIsSilent
    BY DEF Init, DepartedIsSilent
  <1> QED
    BY <1>1, SilentStep, PTL DEF Spec

----------------------------------------------------------------------------
(***************************************************************************)
(* No disorder loosens what the newest report says.  That the demand       *)
(* counted is no less is inductive only with where it is kept (Covered):   *)
(* the snapshot is the newest report, or every key it names is contested   *)
(* since it was heard.  Only a report taken for newer than it is could     *)
(* drop a snapshot that is not contested, or an old snapshot be taken for  *)
(* a new report with its round: Apart says that rounds tell the reports of *)
(* one run apart within a circle, and Made that the next report of the     *)
(* peer will be told from them.                                            *)
(***************************************************************************)
\* The report the snapshot is of, if that was made at `a`.
ReportAt(a) == [epoch |-> peer.snapshot.epoch, round |-> peer.snapshot.round, at |-> a,
                keys |-> peer.snapshot.keys]

\* The reports that may still arrive, or are remembered.
Known(a) ==
    sent \cup ({newest} \ {NoReport})
         \cup (IF peer.snapshot = NoSnapshot THEN {} ELSE {ReportAt(a)})

\* Reports of one run have other rounds, the later one ahead by no more rounds
\* than it is later; a run ends before the next one reports.
Apart(r, s) ==
    /\ r.epoch < s.epoch => r.at <= s.at
    /\ r.epoch = s.epoch =>
          /\ r.at = s.at => r = s
          /\ r.at > s.at /\ r.at - s.at < Circle =>
                /\ WrappingSub(r.round, s.round) > 0
                /\ WrappingSub(r.round, s.round) <= r.at - s.at

\* No report was made yet in this round of the node.
Quiet == \A r \in sent : r.at # clock

\* The peer has made this report, and no more than one in each round since.
Made(r) ==
    /\ r \in Report /\ r.at <= clock /\ r.epoch <= sender.epoch
    /\ r.at = clock => r \in sent
    /\ r.epoch = sender.epoch =>
          WrappingSub(sender.round, r.round) + (IF Quiet THEN 1 ELSE 0) <= clock - r.at

Ordered(a) ==
    /\ \A r \in Known(a) : Made(r)
    /\ \A r, s \in Known(a) : Apart(r, s)
    /\ \A r \in sent : clock <= r.at + MaxDelay
    /\ peer.snapshot # NoSnapshot =>
          /\ newest # NoReport /\ ~Later(ReportAt(a), newest)
          /\ a <= peer.snapshot.heardAt /\ peer.snapshot.heardAt <= a + MaxDelay

\* Only a hold lets a snapshot outlive its window.
Fresh ==
    peer.heldUntil = Never /\ peer.snapshot # NoSnapshot =>
        clock < peer.snapshot.heardAt + MaxAge

\* Where what a report said is kept, if it was first heard at `since`.
IsSnapshot(p, r, since) ==
    p.snapshot # NoSnapshot /\ IsDuplicate(p.snapshot, r) /\ p.snapshot.heardAt >= since
IsContested(p, r, since) ==
    \A k \in Keys : r.keys[k] > 0 => /\ p.contested[k].demand >= r.keys[k]
                                     /\ p.contested[k].heardAt >= since

\* A hold may be renewed for so long that a report has the round of the
\* snapshot held, a circle before it.  By then no other run's is on its way.
IsHeld(p, r, reports) ==
    /\ p.snapshot # NoSnapshot /\ IsDuplicate(p.snapshot, r) /\ p.heldUntil # Never
    /\ \A s \in reports : s.epoch >= r.epoch

Covered ==
    newest # NoReport /\ clock < newestAt + MaxAge /\ ~crowded =>
        \/ IsSnapshot(peer, newest, newestAt)
        \/ IsContested(peer, newest, newestAt)
        \/ IsHeld(peer, newest, sent)

StrictInv == TypeOK /\ (\E a \in Times : Ordered(a)) /\ Fresh /\ Covered

\* What is kept of the newest report is counted.
LEMMA CoveredIsCounted == TypeOK /\ Covered => NeverLooser
  <1> SUFFICES ASSUME TypeOK, Covered, newest # NoReport, clock < newestAt + MaxAge, ~crowded,
                      NEW k \in Keys
               PROVE  Heard(peer, k) >= newest.keys[k]
    BY DEF NeverLooser
  <1>1. /\ newest.keys[k] \in Nat /\ peer.contested[k] \in Entry
        /\ peer.snapshot # NoSnapshot => peer.snapshot.keys[k] \in Nat
    BY LoadType DEF TypeOK, Peer, Report, Snapshot
  <1>2. CASE IsSnapshot(peer, newest, newestAt) \/ IsHeld(peer, newest, sent)
    <2>1. peer.snapshot # NoSnapshot /\ peer.snapshot.keys = newest.keys
      BY <1>2 DEF IsSnapshot, IsHeld, IsDuplicate
    <2> QED
      BY <1>1, <2>1 DEF Heard, Larger, Entry
  <1>3. CASE IsContested(peer, newest, newestAt)
    BY <1>1, <1>3 DEF IsContested, Heard, Larger, Entry
  <1> QED
    BY <1>2, <1>3 DEF Covered

\* Rounds on the circle, without the remainder.
LEMMA RoundsApart ==
    ASSUME NEW a \in Rounds, NEW b \in Rounds
    PROVE  /\ WrappingSub(a, b) = IF a >= b THEN a - b ELSE a - b + Circle
           /\ (a + 1) % Circle = IF a + 1 = Circle THEN 0 ELSE a + 1
  <1>0. Circle \in Nat \ {0} /\ a \in 0 .. Circle - 1 /\ b \in 0 .. Circle - 1
    BY CircleAssumption DEF Rounds
  <1>1. \A n \in Nat \ {0} : \A x \in 0 .. n - 1 : x % n = x
    OBVIOUS
  <1>2. \A n \in Nat \ {0} : \A x \in 1 .. n - 1 : (-x) % n = n - x
    OBVIOUS
  <1>3. \A n \in Nat \ {0} : n % n = 0
    OBVIOUS
  <1>4. CASE a >= b
    <2>1. a - b \in 0 .. Circle - 1
      BY <1>0, <1>4
    <2> QED
      BY <1>0, <1>1, <1>4, <2>1 DEF WrappingSub
  <1>5. CASE a < b
    <2>1. b - a \in 1 .. Circle - 1 /\ a - b = -(b - a)
      BY <1>0, <1>5
    <2>2. (-(b - a)) % Circle = Circle - (b - a)
      BY <1>0, <1>2, <2>1
    <2> QED
      BY <1>0, <1>5, <2>1, <2>2 DEF WrappingSub
  <1>6. (a + 1) % Circle = IF a + 1 = Circle THEN 0 ELSE a + 1
    <2>1. CASE a + 1 = Circle
      BY <1>0, <1>3, <2>1
    <2>2. CASE a + 1 # Circle
      <3>1. a + 1 \in 0 .. Circle - 1
        BY <1>0, <2>2
      <3> QED
        BY <1>0, <1>1, <2>2, <3>1
    <2> QED
      BY <2>1, <2>2
  <1> QED
    BY <1>0, <1>4, <1>5, <1>6

\* Half of the circle, and a quarter.
LEMMA HalfCircle ==
    /\ Circle \div 2 \in Nat /\ 2 * (Circle \div 2) <= Circle
    /\ Circle \div 4 \in Nat /\ Circle \in Nat \ {0}
  BY CircleAssumption

\* A report a little older than another of its run is not taken for newer.
LEMMA OlderIsNotNewer ==
    ASSUME NEW r \in Report, NEW s \in Report, Apart(s, r), r.epoch = s.epoch,
           r.at <= s.at, s.at - r.at <= MaxDelay
    PROVE  ~RoundIsNewer(r.round, s.round)
  <1>0. /\ r.round \in Rounds /\ s.round \in Rounds /\ r.at \in Nat /\ s.at \in Nat
        /\ r.round \in 0 .. Circle - 1 /\ s.round \in 0 .. Circle - 1
    BY TimesAssumption DEF Report, Times, Rounds
  <1>1. CASE r.at = s.at
    BY <1>1 DEF Apart, RoundIsNewer
  <1>2. CASE r.at # s.at
    <2>1. WrappingSub(s.round, r.round) > 0 /\ WrappingSub(s.round, r.round) <= MaxDelay
      <3>1. s.at > r.at /\ s.at - r.at < Circle
        BY <1>0, <1>2, HalfCircle, TimesAssumption
      <3>2. /\ WrappingSub(s.round, r.round) > 0
            /\ WrappingSub(s.round, r.round) <= s.at - r.at
        BY <3>1 DEF Apart
      <3>3. WrappingSub(s.round, r.round) \in Int
        BY <1>0, RoundsApart, HalfCircle
      <3> QED
        BY <1>0, <3>2, <3>3, TimesAssumption
    <2>2. /\ WrappingSub(s.round, r.round) = IF s.round >= r.round THEN s.round - r.round
                                             ELSE s.round - r.round + Circle
          /\ WrappingSub(r.round, s.round) = IF r.round >= s.round THEN r.round - s.round
                                             ELSE r.round - s.round + Circle
      BY <1>0, RoundsApart
    <2>3. WrappingSub(r.round, s.round) >= Circle \div 2
      BY <1>0, <2>1, <2>2, HalfCircle, TimesAssumption
    <2>4. ~(WrappingSub(r.round, s.round) < Circle \div 2)
      BY <1>0, <2>2, <2>3, HalfCircle
    <2> QED
      BY <2>4 DEF RoundIsNewer
  <1> QED
    BY <1>1, <1>2

\* Contesting loses nothing: neither what was contested nor what is added.
LEMMA MergedKeeps ==
    ASSUME NEW contested \in [Keys -> Entry], NEW load \in Loads, NEW at \in Times,
           NEW k \in Keys
    PROVE  LET merged == Merged(contested, load, at)[k] IN
           /\ merged.demand >= contested[k].demand
           /\ merged.heardAt >= contested[k].heardAt
           /\ load[k] > 0 => merged.demand >= load[k] /\ merged.heardAt >= at
  <1>1. /\ contested[k].demand \in Nat /\ contested[k].heardAt \in Nat
        /\ load[k] \in Nat /\ at \in Nat
    BY LoadType, TimesAssumption DEF Entry, Times
  <1>2. Merged(contested, load, at)[k] =
          IF load[k] = 0 THEN contested[k]
          ELSE [demand |-> Larger(contested[k].demand, load[k]),
                heardAt |-> Larger(contested[k].heardAt, at)]
    BY DEF Merged
  <1> QED
    BY <1>1, <1>2 DEF Larger

\* What apply makes of a peer, in its three cases.
LEMMA ApplyIs ==
    ASSUME NEW p \in Peer, Bounded(p), NEW r \in Report, NEW now \in Times
    PROVE  LET applied == Apply(p, r, now) IN
           /\ IsTaken(p.snapshot, r) =>
                 /\ applied.snapshot # NoSnapshot /\ applied.heldUntil = Never
                 /\ applied.snapshot.epoch = r.epoch /\ applied.snapshot.round = r.round
                 /\ applied.snapshot.keys = r.keys /\ applied.snapshot.heardAt = now
                 /\ applied.snapshot.past = PastOf(p.snapshot, r)
                 /\ applied.contested =
                       IF KeepReplaced(p.snapshot, r)
                       THEN Merged(p.contested, p.snapshot.keys, p.snapshot.heardAt)
                       ELSE p.contested
           /\ ~IsTaken(p.snapshot, r) =>
                 /\ applied.snapshot = p.snapshot /\ applied.heldUntil = p.heldUntil
                 /\ applied.contested =
                       IF IsDuplicate(p.snapshot, r) THEN p.contested
                       ELSE Merged(p.contested, r.keys, now)
  <1> DEFINE old == p.snapshot
             next == [epoch |-> r.epoch, past |-> PastOf(old, r), round |-> r.round,
                      heardAt |-> now, keys |-> r.keys]
             taken == [p EXCEPT !.heldUntil = Never, !.snapshot = next]
  <1>0. /\ old \in Snapshot \cup {NoSnapshot} /\ p.contested \in [Keys -> Entry]
        /\ old # NoSnapshot => old.keys \in Loads /\ old.heardAt \in Times
        /\ r.keys \in Loads
    BY DEF Peer, Snapshot, Report
  <1>1. /\ next \in Snapshot /\ Len(next.past) <= PastEpochs /\ next # NoSnapshot
        /\ next.epoch = r.epoch /\ next.round = r.round
        /\ next.keys = r.keys /\ next.heardAt = now /\ next.past = PastOf(old, r)
    BY <1>0, PastType DEF Bounded, Snapshot, Report, NoSnapshot
  <1> HIDE DEF next
  <1>2. /\ taken \in Peer /\ Bounded(taken)
        /\ taken.snapshot = next /\ taken.heldUntil = Never /\ taken.contested = p.contested
    BY <1>1 DEF Peer, Bounded
  <1> HIDE DEF taken
  <1>3. Take(p, r, now) = IF KeepReplaced(old, r) THEN Contest(taken, old.keys, old.heardAt)
                          ELSE taken
    BY DEF Take, taken, next
  <1>4. KeepReplaced(old, r) => old # NoSnapshot
    BY DEF KeepReplaced
  <1>5. ASSUME IsTaken(old, r)
        PROVE  /\ Apply(p, r, now).snapshot = next /\ Apply(p, r, now).heldUntil = Never
               /\ Apply(p, r, now).contested =
                     IF KeepReplaced(old, r) THEN Merged(p.contested, old.keys, old.heardAt)
                     ELSE p.contested
    <2>1. Apply(p, r, now) = Take(p, r, now)
      BY <1>5 DEF Apply
    <2> HIDE DEF old
    <2>2. CASE KeepReplaced(old, r)
      <3>1. Take(p, r, now) = Contest(taken, old.keys, old.heardAt)
        BY <1>3, <2>2
      <3>2. old.keys \in Loads /\ old.heardAt \in Times
        BY <1>0, <1>4, <2>2
      <3> QED
        BY <1>2, <2>1, <2>2, <3>1, <3>2, ContestType
    <2>3. CASE ~KeepReplaced(old, r)
      BY <1>2, <1>3, <2>1, <2>3
    <2> QED
      BY <2>2, <2>3
  <1>6. ASSUME ~IsTaken(old, r)
        PROVE  /\ Apply(p, r, now).snapshot = old
               /\ Apply(p, r, now).heldUntil = p.heldUntil
               /\ Apply(p, r, now).contested =
                     IF IsDuplicate(old, r) THEN p.contested
                     ELSE Merged(p.contested, r.keys, now)
    BY <1>0, <1>6, ContestType DEF Apply
  <1> QED
    BY <1>1, <1>5, <1>6

\* A report that repeats the snapshot is the one it is of, not later than the
\* newest, or the snapshot is held a whole circle later.
LEMMA RepeatedIsKnown ==
    ASSUME TypeOK, NEW a \in Times, Ordered(a), Fresh, NEW r \in sent,
           peer.snapshot # NoSnapshot, IsDuplicate(peer.snapshot, r)
    PROVE  \/ newest # NoReport /\ ~Later(r, newest)
           \/ peer.heldUntil # Never /\ \A u \in sent : u.epoch >= r.epoch
  <1> DEFINE s == ReportAt(a)
  <1>1. s \in Known(a) /\ r \in Known(a)
    BY DEF Known
  <1>2. /\ Made(s) /\ Made(r) /\ Apart(r, s) /\ Apart(s, r)
    BY <1>1 DEF Ordered
  <1>3. s.epoch = r.epoch /\ s.round = r.round /\ s.at = a
    BY DEF IsDuplicate, ReportAt
  <1> HIDE DEF s
  <1>4. /\ clock \in Nat /\ a \in Nat /\ r.at \in Nat /\ a <= clock /\ r.at <= clock
        /\ clock <= r.at + MaxDelay /\ r.round \in Rounds /\ clock <= MaxClock
    BY <1>2, <1>3, TimesAssumption DEF Made, Report, Times, Ordered, TypeOK
  <1>5. CASE clock - a >= Circle
    <2>1. peer.heldUntil # Never
      <3> SUFFICES ASSUME peer.heldUntil = Never PROVE FALSE
        OBVIOUS
      <3>1. /\ clock < peer.snapshot.heardAt + MaxAge
            /\ peer.snapshot.heardAt <= a + MaxDelay
            /\ peer.snapshot.heardAt \in Nat
        BY TimesAssumption DEF Fresh, Ordered, TypeOK, Peer, Snapshot, Times
      <3> QED
        BY <1>4, <1>5, <3>1, HalfCircle, TimesAssumption
    <2>2. ASSUME NEW u \in sent PROVE u.epoch >= r.epoch
      <3>1. u \in Known(a)
        BY DEF Known
      <3>2. Apart(u, s) /\ u \in Report /\ clock <= u.at + MaxDelay
        BY <1>1, <3>1 DEF Ordered, Made
      <3>3. /\ u.at \in Nat /\ u.epoch \in Nat /\ r.epoch \in Nat
            /\ u.epoch < r.epoch => u.at <= a
        BY <1>2, <1>3, <3>2, TimesAssumption DEF Apart, Made, Report, Times
      <3> QED
        BY <1>4, <1>5, <3>2, <3>3, HalfCircle, TimesAssumption
    <2> QED
      BY <2>1, <2>2
  <1>6. WrappingSub(r.round, r.round) = 0
    <2>1. r.round \in Int
      BY <1>4, CircleAssumption DEF Rounds
    <2>2. WrappingSub(r.round, r.round) =
            IF r.round >= r.round THEN r.round - r.round ELSE r.round - r.round + Circle
      BY <1>4, RoundsApart
    <2>3. \A x \in Int : (IF x >= x THEN x - x ELSE x - x + Circle) = 0
      OBVIOUS
    <2> QED
      BY <2>1, <2>2, <2>3
  <1>7. CASE clock - a < Circle
    <2>1. ~(r.at > a)
      <3> SUFFICES ASSUME r.at > a PROVE FALSE
        OBVIOUS
      <3>1. r.at - s.at < Circle /\ r.at > s.at
        BY <1>3, <1>4, <1>7, HalfCircle
      <3>2. WrappingSub(r.round, s.round) > 0
        BY <1>2, <1>3, <3>1 DEF Apart
      <3> QED
        BY <1>3, <1>6, <3>2
    <2>2. ~(a > r.at)
      <3>1. a - r.at < Circle
        BY <1>4, HalfCircle, TimesAssumption
      <3> QED
        BY <1>2, <1>3, <1>4, <1>6, <3>1 DEF Apart
    <2>3. r.at = a
      BY <1>4, <2>1, <2>2
    <2>4. newest # NoReport /\ ~Later(s, newest)
      BY DEF Ordered, s
    <2> QED
      BY <1>3, <2>3, <2>4 DEF Later
  <1> QED
    BY <1>4, <1>5, <1>7, HalfCircle

\* Counting a report: where the newest is kept, and the order of what is known.
LEMMA ApplyKeeps ==
    ASSUME TypeOK, NEW a \in Times, Ordered(a), Fresh, Covered,
           NEW r \in sent, ApplyReport(r), UNCHANGED <<clock, sender, sent>>
    PROVE  (\E b \in Times : Ordered(b)') /\ Fresh' /\ Covered'
  <1> DEFINE applied == Apply(peer, r, clock)
             old == peer.snapshot
             dropped == Cardinality(Disputed(applied.contested)) > MaxContested
             isNewest == newest = NoReport \/ Later(r, newest)
  <1>0. /\ r \in Report /\ peer \in Peer /\ Bounded(peer) /\ clock \in Times
        /\ old \in Snapshot \cup {NoSnapshot} /\ peer.contested \in [Keys -> Entry]
        /\ old # NoSnapshot => old.keys \in Loads /\ old.heardAt \in Times
        /\ newest \in Report \cup {NoReport} /\ newestAt \in Times
    BY DEF TypeOK, Bounded, Peer, Snapshot
  <1>r. /\ r.epoch \in Int /\ r.at \in Times /\ r.round \in Rounds /\ r.keys \in Loads
        /\ r = [epoch |-> r.epoch, round |-> r.round, at |-> r.at, keys |-> r.keys]
    BY <1>0 DEF Report
  <1>1. PICK contested \in Trimmed(applied.contested) :
          peer' = [applied EXCEPT !.contested = contested]
    BY DEF ApplyReport
  <1>2. NoteReport(r, dropped)
    BY DEF ApplyReport
  <1>3. /\ IsTaken(old, r) =>
              /\ applied.snapshot # NoSnapshot /\ applied.heldUntil = Never
              /\ applied.snapshot.epoch = r.epoch /\ applied.snapshot.round = r.round
              /\ applied.snapshot.keys = r.keys /\ applied.snapshot.heardAt = clock
              /\ applied.contested =
                    IF KeepReplaced(old, r)
                    THEN Merged(peer.contested, old.keys, old.heardAt) ELSE peer.contested
        /\ ~IsTaken(old, r) =>
              /\ applied.snapshot = old /\ applied.heldUntil = peer.heldUntil
              /\ applied.contested =
                    IF IsDuplicate(old, r) THEN peer.contested
                    ELSE Merged(peer.contested, r.keys, clock)
    BY <1>0, ApplyIs
  <1>4. applied \in Peer
    BY <1>0, ApplyType
  <1> HIDE DEF applied
  <1>5. /\ contested \in [Keys -> Entry] /\ applied.contested \in [Keys -> Entry]
        /\ Cardinality(Disputed(applied.contested)) <= MaxContested
              => contested = applied.contested
    BY <1>4, TrimmedKeeps DEF Peer
  <1>6. /\ peer'.snapshot = applied.snapshot /\ peer'.heldUntil = applied.heldUntil
        /\ peer'.contested = contested
    BY <1>1, <1>4, <1>5 DEF Peer
  <1>7. ~dropped => contested = applied.contested
    <2>1. IsFiniteSet(Disputed(applied.contested))
      BY KeysAssumption, FS_Subset DEF Disputed
    <2>2. Cardinality(Disputed(applied.contested)) \in Nat
      BY <2>1, FS_CardinalityType
    <2> QED
      BY <1>5, <2>2, RoomAssumption
  <1>8. /\ isNewest => newest' = r /\ newestAt' = clock
        /\ ~isNewest => newest' = newest /\ newestAt' = newestAt
        /\ crowded' = (dropped \/ (crowded /\ ~isNewest))
    BY <1>2 DEF NoteReport
  <1> HIDE DEF dropped, isNewest
  <1>9. r \in Known(a) /\ (newest # NoReport => newest \in Known(a))
        /\ (old # NoSnapshot => ReportAt(a) \in Known(a))
    BY DEF Known
  <1>10. r.at <= clock /\ clock <= r.at + MaxDelay
    BY <1>9 DEF Ordered, Made
  <1>11. r # NoReport
    BY <1>r, <1>0, TimesAssumption DEF Report, NoReport
  <1>12. Fresh'
    <2>1. CASE IsTaken(old, r)
      BY <1>0, <1>3, <1>6, <2>1, TimesAssumption DEF Fresh, Times
    <2>2. CASE ~IsTaken(old, r)
      BY <1>3, <1>6, <2>2 DEF Fresh
    <2> QED
      BY <2>1, <2>2
  <1>13. Covered'
    <2> SUFFICES ASSUME newest' # NoReport, clock < newestAt' + MaxAge, ~crowded'
                 PROVE  \/ IsSnapshot(peer', newest', newestAt')
                        \/ IsContested(peer', newest', newestAt')
                        \/ IsHeld(peer', newest', sent)
      BY DEF Covered
    <2>1. peer'.contested = applied.contested
      BY <1>6, <1>7, <1>8
    <2>2. ASSUME isNewest
          PROVE  \/ IsSnapshot(peer', r, clock) \/ IsContested(peer', r, clock)
                 \/ IsHeld(peer', r, sent)
      <3>1. CASE IsTaken(old, r)
        <4>1. /\ peer'.snapshot # NoSnapshot /\ peer'.snapshot.epoch = r.epoch
              /\ peer'.snapshot.round = r.round /\ peer'.snapshot.keys = r.keys
              /\ peer'.snapshot.heardAt = clock
          BY <1>3, <1>6, <3>1
        <4>2. clock >= clock
          BY <1>0, TimesAssumption DEF Times
        <4> QED
          BY <4>1, <4>2 DEF IsSnapshot, IsDuplicate
      <3>2. CASE ~IsTaken(old, r) /\ IsDuplicate(old, r)
        <4>1. old # NoSnapshot
          BY <3>2 DEF IsTaken
        <4>2. ~(newest # NoReport /\ ~Later(r, newest))
          BY <2>2 DEF isNewest
        <4>3. peer.heldUntil # Never /\ \A u \in sent : u.epoch >= r.epoch
          BY <3>2, <4>1, <4>2, RepeatedIsKnown
        <4>4. peer'.snapshot = old /\ peer'.heldUntil = peer.heldUntil
          BY <1>3, <1>6, <3>2
        <4> QED
          BY <3>2, <4>1, <4>3, <4>4 DEF IsHeld
      <3>3. CASE ~IsTaken(old, r) /\ ~IsDuplicate(old, r)
        <4>1. peer'.contested = Merged(peer.contested, r.keys, clock)
          BY <1>3, <2>1, <3>3
        <4>2. IsContested(peer', r, clock)
          BY <1>0, <1>r, <4>1, MergedKeeps DEF IsContested
        <4> QED
          BY <4>2
      <3> QED
        BY <3>1, <3>2, <3>3
    <2>3. ASSUME ~isNewest
          PROVE  \/ IsSnapshot(peer', newest, newestAt)
                 \/ IsContested(peer', newest, newestAt)
                 \/ IsHeld(peer', newest, sent)
      <3>0. newest \in Report /\ ~Later(r, newest)
        BY <1>0, <1>8, <2>3 DEF isNewest
      <3>1. \/ IsSnapshot(peer, newest, newestAt) \/ IsContested(peer, newest, newestAt)
            \/ IsHeld(peer, newest, sent)
        BY <1>8, <2>3 DEF Covered
      <3>n. ASSUME old.epoch = newest.epoch, old.round = newest.round, r.epoch = old.epoch
            PROVE  ~RoundIsNewer(r.round, old.round)
        <4>1. Apart(newest, r) /\ Made(newest)
          BY <1>8, <1>9, <2>3 DEF Ordered, isNewest
        <4>2. r.at <= newest.at /\ newest.at - r.at <= MaxDelay
          <5>1. r.at \in Nat /\ newest.at \in Nat /\ clock \in Nat
            BY <1>0, <1>r, <3>0, TimesAssumption DEF Report, Times
          <5>2. ~(r.at > newest.at)
            BY <3>0, <3>n DEF Later
          <5>3. newest.at <= clock
            BY <4>1 DEF Made
          <5> QED
            BY <1>10, <5>1, <5>2, <5>3, TimesAssumption
        <4> QED
          BY <1>0, <3>0, <3>n, <4>1, <4>2, OlderIsNotNewer
      <3>2. \A k \in Keys : /\ peer'.contested[k].demand >= peer.contested[k].demand
                            /\ peer'.contested[k].heardAt >= peer.contested[k].heardAt
        <4>1. CASE peer'.contested = peer.contested
          BY <1>0, <4>1, TimesAssumption DEF Entry, Times
        <4>2. CASE KeepReplaced(old, r)
                     /\ peer'.contested = Merged(peer.contested, old.keys, old.heardAt)
          <5>1. old.keys \in Loads /\ old.heardAt \in Times
            BY <1>0, <4>2 DEF KeepReplaced
          <5> QED
            BY <1>0, <4>2, <5>1, MergedKeeps
        <4>3. CASE peer'.contested = Merged(peer.contested, r.keys, clock)
          BY <1>0, <1>r, <4>3, MergedKeeps
        <4> QED
          BY <1>3, <2>1, <4>1, <4>2, <4>3
      <3>3. CASE IsContested(peer, newest, newestAt)
        <4> SUFFICES ASSUME NEW k \in Keys, newest.keys[k] > 0
                     PROVE  /\ peer'.contested[k].demand >= newest.keys[k]
                            /\ peer'.contested[k].heardAt >= newestAt
          BY DEF IsContested
        <4>1. /\ peer.contested[k].demand >= newest.keys[k]
              /\ peer.contested[k].heardAt >= newestAt
          BY <3>3 DEF IsContested
        <4>2. /\ peer.contested[k] \in Entry /\ peer'.contested[k] \in Entry
              /\ newest.keys[k] \in Nat /\ newestAt \in Nat
          BY <1>0, <1>5, <1>6, <3>0, LoadType, TimesAssumption DEF Report, Times
        <4>3. /\ peer.contested[k].demand \in Nat /\ peer'.contested[k].demand \in Nat
              /\ peer.contested[k].heardAt \in Nat /\ peer'.contested[k].heardAt \in Nat
          BY <4>2, TimesAssumption DEF Entry, Times
        <4>4. /\ peer'.contested[k].demand >= peer.contested[k].demand
              /\ peer'.contested[k].heardAt >= peer.contested[k].heardAt
          BY <3>2
        <4> HIDE DEF applied
        <4> QED
          BY <4>1, <4>2, <4>3, <4>4
      <3>4. CASE IsSnapshot(peer, newest, newestAt)
        <4>1. /\ old # NoSnapshot /\ old.epoch = newest.epoch /\ old.round = newest.round
              /\ old.keys = newest.keys /\ old.heardAt >= newestAt
          BY <3>4 DEF IsSnapshot, IsDuplicate
        <4>2. CASE ~IsTaken(old, r)
          BY <1>3, <1>6, <3>4, <4>2 DEF IsSnapshot
        <4>3. CASE IsTaken(old, r) /\ KeepReplaced(old, r)
          <5>1. peer'.contested = Merged(peer.contested, old.keys, old.heardAt)
            BY <1>3, <2>1, <4>3
          <5> SUFFICES ASSUME NEW k \in Keys, newest.keys[k] > 0
                       PROVE  /\ peer'.contested[k].demand >= newest.keys[k]
                              /\ peer'.contested[k].heardAt >= newestAt
            BY DEF IsContested
          <5>2. /\ peer'.contested[k].demand >= newest.keys[k]
                /\ peer'.contested[k].heardAt >= old.heardAt
            BY <1>0, <4>1, <5>1, MergedKeeps
          <5>3. /\ peer'.contested[k].heardAt \in Nat /\ old.heardAt \in Nat
                /\ newestAt \in Nat
            <6>1. peer'.contested[k] \in Entry
              BY <1>5, <1>6
            <6> QED
              BY <1>0, <4>1, <6>1, TimesAssumption DEF Entry, Times
          <5> QED
            BY <4>1, <5>2, <5>3
        <4>4. CASE IsTaken(old, r) /\ ~KeepReplaced(old, r)
          BY <3>n, <4>1, <4>4 DEF IsTaken, KeepReplaced
        <4> QED
          BY <4>2, <4>3, <4>4
      <3>5. CASE IsHeld(peer, newest, sent)
        <4>1. /\ old # NoSnapshot /\ old.epoch = newest.epoch /\ old.round = newest.round
              /\ r.epoch >= newest.epoch
          BY <3>5 DEF IsHeld, IsDuplicate
        <4>2. r.epoch = old.epoch
          BY <3>0, <4>1, <1>r DEF Later, Report
        <4>3. ~IsTaken(old, r)
          BY <3>n, <4>1, <4>2 DEF IsTaken
        <4>4. peer'.snapshot = old /\ peer'.heldUntil = peer.heldUntil
          BY <1>3, <1>6, <4>3
        <4> QED
          BY <3>5, <4>4 DEF IsHeld
      <3> QED
        BY <3>1, <3>3, <3>4, <3>5
    <2> QED
      BY <1>8, <2>2, <2>3
  <1>14. PICK b \in Times : /\ IsTaken(old, r) => b = r.at
                            /\ ~IsTaken(old, r) => b = a
    BY <1>r
  <1>15. /\ peer'.snapshot # NoSnapshot =>
              \/ IsTaken(old, r) /\ ReportAt(b)' = r
              \/ ~IsTaken(old, r) /\ old # NoSnapshot /\ ReportAt(b)' = ReportAt(a)
                   /\ peer'.snapshot = old
    <2>1. CASE IsTaken(old, r)
      BY <1>r, <1>3, <1>6, <1>14, <2>1 DEF ReportAt
    <2>2. CASE ~IsTaken(old, r)
      BY <1>3, <1>6, <1>14, <2>2 DEF ReportAt
    <2> QED
      BY <2>1, <2>2
  <1>16. Known(b)' \subseteq Known(a)
    <2>1. sent' = sent
      OBVIOUS
    <2>2. newest' \in {r, newest}
      BY <1>8
    <2>3. peer'.snapshot # NoSnapshot => ReportAt(b)' \in Known(a)
      BY <1>9, <1>15
    <2> QED
      BY <1>9, <2>1, <2>2, <2>3 DEF Known
  <1>17. /\ newest' # NoReport
         /\ peer'.snapshot # NoSnapshot => ~Later(ReportAt(b)', newest')
    <2>1. newest' # NoReport
      BY <1>8, <1>11 DEF isNewest
    <2>2. newest' \in Report /\ ~Later(r, newest')
      <3>1. CASE isNewest
        BY <1>0, <1>8, <3>1, TimesAssumption DEF Later, Report, Times
      <3>2. CASE ~isNewest
        BY <1>0, <1>8, <3>2 DEF isNewest
      <3> QED
        BY <3>1, <3>2
    <2>3. ASSUME old # NoSnapshot PROVE ~Later(ReportAt(a), newest')
      <3>1. /\ ReportAt(a) \in Report /\ newest \in Report
            /\ newest # NoReport /\ ~Later(ReportAt(a), newest)
        BY <1>0, <1>9, <2>3 DEF Ordered, Made
      <3>2. CASE isNewest
        <4>1. newest' = r /\ Later(r, newest)
          BY <1>8, <3>1, <3>2 DEF isNewest
        <4> QED
          BY <1>0, <3>1, <4>1, TimesAssumption DEF Later, Report, Times
      <3>3. CASE ~isNewest
        BY <1>8, <3>1, <3>3
      <3> QED
        BY <3>2, <3>3
    <2> QED
      BY <1>15, <2>1, <2>2, <2>3
  <1>18. peer'.snapshot # NoSnapshot =>
           /\ b <= peer'.snapshot.heardAt /\ peer'.snapshot.heardAt <= b + MaxDelay
    <2>1. CASE IsTaken(old, r)
      BY <1>3, <1>6, <1>10, <1>14, <2>1
    <2>2. CASE ~IsTaken(old, r)
      BY <1>3, <1>6, <1>14, <2>2 DEF Ordered
    <2> QED
      BY <2>1, <2>2
  <1>19. \A s \in Known(b)' : Made(s)'
    BY <1>16 DEF Ordered, Made, Quiet
  <1>20. \A s, u \in Known(b)' : Apart(s, u)
    BY <1>16 DEF Ordered
  <1>21. \A s \in sent' : clock' <= s.at + MaxDelay
    BY DEF Ordered
  <1>22. Ordered(b)'
    BY <1>17, <1>18, <1>19, <1>20, <1>21 DEF Ordered
  <1> QED
    BY <1>12, <1>13, <1>22

\* What is known after a step that hears nothing new stays in order.
LEMMA ForgettingKeeps ==
    ASSUME NEW a \in Times, Ordered(a), UNCHANGED <<clock, sender, sent>>,
           (peer' = NoPeer /\ newest' = NoReport) \/ UNCHANGED <<peer, newest>>
    PROVE  Ordered(a)'
  <1>1. CASE UNCHANGED <<peer, newest>>
    BY <1>1 DEF Ordered, Known, ReportAt, Made, Quiet
  <1>2. CASE peer' = NoPeer /\ newest' = NoReport
    <2>1. peer'.snapshot = NoSnapshot
      BY <1>2 DEF NoPeer
    <2>2. Known(a)' \subseteq Known(a)
      BY <1>2, <2>1 DEF Known
    <2>3. \A s \in Known(a)' : Made(s)'
      BY <2>2 DEF Ordered, Made, Quiet
    <2>4. \A s, u \in Known(a)' : Apart(s, u)
      BY <2>2 DEF Ordered
    <2>5. \A s \in sent' : clock' <= s.at + MaxDelay
      BY DEF Ordered
    <2> QED
      BY <2>1, <2>3, <2>4, <2>5 DEF Ordered
  <1> QED
    BY <1>1, <1>2

\* A report made is told from every one known.
LEMMA MakeKeeps ==
    ASSUME TypeOK, NEW a \in Times, Ordered(a), NEW load \in Loads, MakeReport(load)
    PROVE  Ordered(a)'
  <1>n. PICK n : n = [epoch |-> sender.epoch, round |-> sender'.round, at |-> clock,
                       keys |-> load]
    OBVIOUS
  <1>1. /\ Quiet /\ clock \in Times /\ clock \in Nat
        /\ sender.epoch \in 1 .. MaxEpoch /\ sender.round \in Rounds
    BY TimesAssumption DEF MakeReport, Quiet, TypeOK, Times
  <1>2. /\ sender'.round = (sender.round + 1) % Circle /\ sender'.epoch = sender.epoch
    BY DEF MakeReport, TypeOK
  <1>3. sender'.round \in Rounds
    <2>1. sender.round \in Nat
      BY <1>1 DEF Rounds
    <2> QED
      BY <1>2, <2>1, RoundType
  <1>4. n \in Report /\ n.epoch = sender.epoch /\ n.round = sender'.round /\ n.at = clock
    BY <1>n, <1>1, <1>3 DEF Report
  <1>5. sent' = sent \cup {n} /\ UNCHANGED <<clock, peer, newest>>
    BY <1>n DEF MakeReport, history
  <1>6. Known(a)' \subseteq Known(a) \cup {n}
    BY <1>5 DEF Known, ReportAt
  <1>7. ~Quiet'
    BY <1>4, <1>5 DEF Quiet
  <1>8. ASSUME NEW s \in Known(a)
        PROVE  /\ s \in Report /\ s.at < clock /\ s.epoch <= sender.epoch
               /\ s.epoch = sender.epoch =>
                    /\ WrappingSub(sender'.round, s.round) <= clock - s.at
                    /\ clock - s.at < Circle => WrappingSub(sender'.round, s.round) > 0
    <2>1. Made(s)
      BY DEF Ordered
    <2>2. s \in Report /\ s.at \in Nat /\ s.round \in Rounds
      BY <2>1, TimesAssumption DEF Made, Report, Times
    <2>3. s.at # clock
      BY <1>1, <2>1 DEF Made, Quiet
    <2>4. s.at < clock
      BY <1>1, <2>1, <2>2, <2>3 DEF Made
    <2>5. ASSUME s.epoch = sender.epoch
          PROVE  /\ WrappingSub(sender'.round, s.round) <= clock - s.at
                 /\ clock - s.at < Circle => WrappingSub(sender'.round, s.round) > 0
      <3>1. WrappingSub(sender.round, s.round) + 1 <= clock - s.at
        BY <1>1, <2>1, <2>5 DEF Made
      <3>2. /\ WrappingSub(sender.round, s.round) =
                 IF sender.round >= s.round THEN sender.round - s.round
                 ELSE sender.round - s.round + Circle
            /\ WrappingSub(sender'.round, s.round) =
                 IF sender'.round >= s.round THEN sender'.round - s.round
                 ELSE sender'.round - s.round + Circle
            /\ sender'.round = IF sender.round + 1 = Circle THEN 0 ELSE sender.round + 1
        BY <1>1, <1>2, <1>3, <2>2, RoundsApart
      <3>3. /\ sender.round \in 0 .. Circle - 1 /\ sender'.round \in 0 .. Circle - 1
            /\ s.round \in 0 .. Circle - 1
        BY <1>1, <1>3, <2>2 DEF Rounds
      <3> QED
        BY <1>1, <2>2, <3>1, <3>2, <3>3, HalfCircle
    <2> QED
      BY <2>1, <2>2, <2>4, <2>5 DEF Made
  <1>9. ASSUME NEW s \in Known(a) PROVE Made(s)'
    <2>1. s \in Report /\ s.at \in Nat /\ s.round \in Rounds
      BY <1>8, TimesAssumption DEF Report, Times
    <2>2. s.epoch = sender'.epoch => WrappingSub(sender'.round, s.round) + 0 <= clock' - s.at
      <3>1. WrappingSub(sender'.round, s.round) \in Int
        <4>1. \A x, y \in Int : x - y \in Int /\ x - y + Circle \in Int
          BY HalfCircle
        <4>2. sender'.round \in Int /\ s.round \in Int
          BY <1>3, <2>1 DEF Rounds
        <4>3. WrappingSub(sender'.round, s.round) =
                 IF sender'.round >= s.round THEN sender'.round - s.round
                 ELSE sender'.round - s.round + Circle
          BY <1>3, <2>1, RoundsApart
        <4> QED
          BY <4>1, <4>2, <4>3
      <3> QED
        BY <1>2, <1>5, <1>8, <3>1
    <2>3. s.at <= clock' /\ s.at # clock'
      BY <1>1, <1>5, <1>8, <2>1
    <2> QED
      BY <1>2, <1>7, <1>8, <2>1, <2>2, <2>3 DEF Made
  <1>10. Made(n)'
    <2>1. WrappingSub(n.round, n.round) = 0
      <3>1. n.round \in Int
        BY <1>3, <1>4 DEF Rounds
      <3>2. WrappingSub(n.round, n.round) =
              IF n.round >= n.round THEN n.round - n.round ELSE n.round - n.round + Circle
        BY <1>3, <1>4, RoundsApart
      <3>3. \A x \in Int : (IF x >= x THEN x - x ELSE x - x + Circle) = 0
        OBVIOUS
      <3> QED
        BY <3>1, <3>2, <3>3
    <2>2. n \in sent' /\ n.at <= clock' /\ n.epoch <= sender'.epoch
      BY <1>1, <1>2, <1>4, <1>5
    <2>3. WrappingSub(sender'.round, n.round) + 0 <= clock' - n.at
      <3>1. clock' - n.at = 0
        BY <1>1, <1>4, <1>5
      <3>2. WrappingSub(sender'.round, n.round) = 0
        BY <1>4, <2>1
      <3> QED
        BY <3>1, <3>2
    <2> QED
      BY <1>4, <1>7, <2>2, <2>3 DEF Made
  <1>11. \A s \in Known(a)' : Made(s)'
    BY <1>6, <1>9, <1>10
  <1>12. ASSUME NEW s \in Known(a) PROVE Apart(s, n) /\ Apart(n, s)
    <2>1. s.at \in Nat /\ clock \in Nat /\ s.at < clock
      BY <1>1, <1>8, TimesAssumption DEF Report, Times
    <2>2. s.at # n.at /\ ~(s.at > n.at) /\ s.at <= n.at
      BY <1>4, <2>1
    <2>3. ~(n.epoch < s.epoch)
      BY <1>1, <1>4, <1>8 DEF Report
    <2> QED
      BY <1>4, <1>8, <2>2, <2>3 DEF Apart
  <1>13. Apart(n, n)
    <2>1. n.epoch \in Nat /\ n.at \in Nat
      BY <1>1, <1>4
    <2> QED
      BY <2>1 DEF Apart
  <1>14. \A s, u \in Known(a)' : Apart(s, u)
    BY <1>6, <1>12, <1>13 DEF Ordered
  <1>15. \A s \in sent' : clock' <= s.at + MaxDelay
    BY <1>1, <1>4, <1>5, TimesAssumption DEF Ordered
  <1>16. peer'.snapshot # NoSnapshot =>
           /\ newest' # NoReport /\ ~Later(ReportAt(a)', newest')
           /\ a <= peer'.snapshot.heardAt /\ peer'.snapshot.heardAt <= a + MaxDelay
    BY <1>5 DEF Ordered, ReportAt
  <1> QED
    BY <1>11, <1>14, <1>15, <1>16 DEF Ordered

\* No report of the run that starts is known.
LEMMA RestartKeeps ==
    ASSUME TypeOK, NEW a \in Times, Ordered(a), Restart PROVE Ordered(a)'
  <1>1. sender'.epoch = sender.epoch + 1 /\ sender.epoch \in Nat
        /\ UNCHANGED <<clock, sent, peer, newest>>
    BY DEF Restart, history, TypeOK
  <1>2. Known(a)' = Known(a) /\ (Quiet' <=> Quiet)
    BY <1>1 DEF Known, ReportAt, Quiet
  <1>3. ASSUME NEW s \in Known(a) PROVE Made(s)'
    <2>1. Made(s) /\ s.epoch \in Nat
      BY DEF Ordered, Made, Report
    <2>2. s.epoch <= sender'.epoch /\ s.epoch # sender'.epoch
      BY <1>1, <2>1 DEF Made
    <2> QED
      BY <1>1, <2>1, <2>2 DEF Made
  <1> QED
    BY <1>1, <1>2, <1>3 DEF Ordered, ReportAt

\* What expire leaves of a peer: nothing, or what is heard lately enough.
LEMMA ExpireIs ==
    ASSUME NEW p \in Peer, NEW now \in Times
    PROVE  LET aged == Expire(p, now) IN
           \/ aged = NoPeer
           \/ /\ aged.heldUntil = p.heldUntil
              /\ p.heldUntil # Never => aged.snapshot = p.snapshot
              /\ aged.snapshot # NoSnapshot => aged.snapshot = p.snapshot
              /\ p.snapshot # NoSnapshot /\ now < p.snapshot.heardAt + MaxAge =>
                    aged.snapshot = p.snapshot
              /\ p.heldUntil = Never /\ aged.snapshot # NoSnapshot =>
                    now < aged.snapshot.heardAt + MaxAge
              /\ \A k \in Keys : now < p.contested[k].heardAt + MaxAge =>
                                    aged.contested[k] = p.contested[k]
  <1> DEFINE snapshot == IF p.snapshot # NoSnapshot /\ now < p.snapshot.heardAt + MaxAge
                         THEN p.snapshot ELSE NoSnapshot
             contested == [k \in Keys |-> IF now < p.contested[k].heardAt + MaxAge
                                          THEN p.contested[k] ELSE NoEntry]
             aged == [p EXCEPT !.snapshot = snapshot, !.contested = contested]
  <1>1. Expire(p, now) = IF p.heldUntil # Never
                         THEN IF now < p.heldUntil THEN p ELSE NoPeer ELSE aged
    BY DEF Expire
  <1>2. \A k \in Keys : now < p.contested[k].heardAt + MaxAge => contested[k] = p.contested[k]
    OBVIOUS
  <1>3. /\ snapshot # NoSnapshot => snapshot = p.snapshot
        /\ p.snapshot # NoSnapshot /\ now < p.snapshot.heardAt + MaxAge => snapshot = p.snapshot
        /\ snapshot # NoSnapshot => now < snapshot.heardAt + MaxAge
    OBVIOUS
  <1> HIDE DEF snapshot, contested
  <1>4. /\ aged.snapshot = snapshot /\ aged.contested = contested
        /\ aged.heldUntil = p.heldUntil
    BY DEF Peer
  <1> HIDE DEF aged
  <1> QED
    BY <1>1, <1>2, <1>3, <1>4

\* A round of the node forgets only what its window is over for.
LEMMA RoundKeeps ==
    ASSUME TypeOK, NEW a \in Times, Ordered(a), Fresh, Covered, Round
    PROVE  Ordered(a)' /\ Fresh' /\ Covered'
  <1>1. /\ clock' = clock + 1 /\ clock \in Nat /\ clock' \in Times
        /\ UNCHANGED sender /\ sent' = {r \in sent : clock' <= r.at + MaxDelay}
        /\ NoteDropped
    BY TimesAssumption DEF Round, TypeOK, Times
  <1>2. PICK followed \in Peer :
          /\ peer' = Expire(followed, clock') /\ Bounded(followed)
          /\ \/ followed = NoPeer
             \/ /\ followed.snapshot = peer.snapshot
                /\ followed.contested = peer.contested
                /\ peer.heldUntil # Never => followed.heldUntil # Never
    BY RoundPeer
  <1>3. ASSUME peer' = NoPeer
        PROVE  peer'.snapshot = NoSnapshot /\ newest' = NoReport /\ Fresh' /\ Covered'
    <2>1. peer'.snapshot = NoSnapshot /\ peer'.heldUntil = Never /\ newest' = NoReport
      BY <1>1, <1>3 DEF NoPeer, NoteDropped
    <2> QED
      BY <2>1 DEF Fresh, Covered
  <1>4. ASSUME peer' # NoPeer
        PROVE  /\ UNCHANGED <<newest, newestAt, crowded>>
               /\ peer'.snapshot # NoSnapshot => peer'.snapshot = peer.snapshot
               /\ Fresh' /\ Covered'
    <2>1. UNCHANGED <<newest, newestAt, crowded>>
      BY <1>1, <1>4 DEF NoteDropped
    <2>2. followed # NoPeer
      BY <1>2, <1>4, ExpireNothing
    <2>3. /\ peer'.heldUntil = followed.heldUntil
          /\ followed.heldUntil # Never => peer'.snapshot = peer.snapshot
          /\ peer'.snapshot # NoSnapshot => peer'.snapshot = peer.snapshot
          /\ peer.snapshot # NoSnapshot /\ clock' < peer.snapshot.heardAt + MaxAge =>
                peer'.snapshot = peer.snapshot
          /\ followed.heldUntil = Never /\ peer'.snapshot # NoSnapshot =>
                clock' < peer'.snapshot.heardAt + MaxAge
          /\ \A k \in Keys : clock' < peer.contested[k].heardAt + MaxAge =>
                                peer'.contested[k] = peer.contested[k]
      BY <1>1, <1>2, <1>4, <2>2, ExpireIs
    <2>4. Fresh'
      BY <2>3 DEF Fresh
    <2>5. Covered'
      <3> SUFFICES ASSUME newest # NoReport, clock' < newestAt + MaxAge, ~crowded
                   PROVE  \/ IsSnapshot(peer', newest, newestAt)
                          \/ IsContested(peer', newest, newestAt)
                          \/ IsHeld(peer', newest, sent')
        BY <2>1 DEF Covered
      <3>1. newestAt \in Nat /\ newest \in Report /\ peer \in Peer
        BY TimesAssumption DEF TypeOK, Times
      <3>2. \/ IsSnapshot(peer, newest, newestAt) \/ IsContested(peer, newest, newestAt)
            \/ IsHeld(peer, newest, sent)
        BY <1>1, <3>1, TimesAssumption DEF Covered
      <3>3. CASE IsSnapshot(peer, newest, newestAt)
        <4>1. /\ peer.snapshot # NoSnapshot /\ peer.snapshot.heardAt >= newestAt
              /\ peer.snapshot.heardAt \in Nat
          BY <3>1, <3>3, TimesAssumption DEF IsSnapshot, Peer, Snapshot, Times
        <4>2. clock' < peer.snapshot.heardAt + MaxAge
          BY <1>1, <3>1, <4>1, TimesAssumption
        <4> QED
          BY <2>3, <3>3, <4>1, <4>2 DEF IsSnapshot
      <3>4. CASE IsContested(peer, newest, newestAt)
        <4> SUFFICES ASSUME NEW k \in Keys, newest.keys[k] > 0
                     PROVE  /\ peer'.contested[k].demand >= newest.keys[k]
                            /\ peer'.contested[k].heardAt >= newestAt
          BY DEF IsContested
        <4>1. /\ peer.contested[k].demand >= newest.keys[k]
              /\ peer.contested[k].heardAt >= newestAt
          BY <3>4 DEF IsContested
        <4>2. peer.contested[k].heardAt \in Nat
          <5>1. peer.contested[k] \in Entry
            BY <3>1 DEF Peer
          <5> QED
            BY <5>1, TimesAssumption DEF Entry, Times
        <4>3. clock' < peer.contested[k].heardAt + MaxAge
          BY <1>1, <3>1, <4>1, <4>2, TimesAssumption
        <4> QED
          BY <2>3, <4>1, <4>3
      <3>5. CASE IsHeld(peer, newest, sent)
        <4>1. peer'.snapshot = peer.snapshot /\ peer'.heldUntil # Never
          BY <1>2, <2>2, <2>3, <3>5 DEF IsHeld
        <4> QED
          BY <1>1, <3>5, <4>1 DEF IsHeld
      <3> QED
        BY <3>2, <3>3, <3>4, <3>5
    <2> QED
      BY <2>1, <2>3, <2>4, <2>5
  <1>5. Known(a)' \subseteq Known(a)
    <2>1. sent' \subseteq sent
      BY <1>1
    <2>2. newest' \in {newest, NoReport}
      BY <1>3, <1>4
    <2>3. peer'.snapshot # NoSnapshot => peer'.snapshot = peer.snapshot
      BY <1>3, <1>4
    <2> QED
      BY <2>1, <2>2, <2>3 DEF Known, ReportAt
  <1>6. ASSUME NEW s \in Known(a)' PROVE Made(s)'
    <2>1. Made(s) /\ s \in Report /\ s.at \in Nat /\ s.round \in Rounds
      BY <1>5, TimesAssumption DEF Ordered, Made, Report, Times
    <2>2. s.at <= clock' /\ s.at # clock' /\ s.epoch <= sender'.epoch
      BY <1>1, <2>1 DEF Made
    <2>3. ASSUME s.epoch = sender'.epoch
          PROVE  WrappingSub(sender'.round, s.round) + (IF Quiet THEN 1 ELSE 0)' <= clock' - s.at
      <3>1. WrappingSub(sender.round, s.round) \in Int
        <4>1. sender.round \in Rounds
          BY DEF TypeOK
        <4>2. WrappingSub(sender.round, s.round) =
                 IF sender.round >= s.round THEN sender.round - s.round
                 ELSE sender.round - s.round + Circle
          BY <2>1, <4>1, RoundsApart
        <4>3. sender.round \in Int /\ s.round \in Int
          BY <2>1, <4>1 DEF Rounds
        <4> QED
          BY <4>2, <4>3, HalfCircle
      <3>2. WrappingSub(sender.round, s.round) <= clock - s.at
        <4>1. WrappingSub(sender.round, s.round) + (IF Quiet THEN 1 ELSE 0) <= clock - s.at
          BY <1>1, <2>1, <2>3 DEF Made
        <4> QED
          BY <1>1, <2>1, <3>1, <4>1
      <3> QED
        BY <1>1, <2>1, <3>1, <3>2
    <2> QED
      BY <2>1, <2>2, <2>3 DEF Made
  <1>7. \A s, u \in Known(a)' : Apart(s, u)
    BY <1>5 DEF Ordered
  <1>8. peer'.snapshot # NoSnapshot =>
           /\ newest' # NoReport /\ ~Later(ReportAt(a)', newest')
           /\ a <= peer'.snapshot.heardAt /\ peer'.snapshot.heardAt <= a + MaxDelay
    BY <1>3, <1>4 DEF Ordered, ReportAt
  <1> QED
    BY <1>1, <1>3, <1>4, <1>6, <1>7, <1>8 DEF Ordered

\* Every step keeps the newest report counted, and the reports told apart.
LEMMA StrictStep == StrictInv /\ [Next]_vars => StrictInv'
  <1> SUFFICES ASSUME StrictInv, [Next]_vars PROVE StrictInv'
    OBVIOUS
  <1>0. TypeOK /\ TypeOK' /\ Fresh /\ Covered
    BY TypeStep DEF StrictInv
  <1>a. PICK a \in Times : Ordered(a)
    BY DEF StrictInv
  <1>t. (\E b \in Times : Ordered(b)') /\ Fresh' /\ Covered' => StrictInv'
    BY <1>0 DEF StrictInv
  <1>u. ASSUME UNCHANGED <<clock, sender, sent, peer, newest, newestAt, crowded>>
        PROVE  StrictInv'
    <2>1. Ordered(a)'
      BY <1>a, <1>u, ForgettingKeeps
    <2>2. Fresh' /\ Covered'
      BY <1>0, <1>u DEF Fresh, Covered, IsHeld
    <2> QED
      BY <1>t, <2>1, <2>2
  <1>c. ASSUME UNCHANGED <<clock, peer, newest, newestAt, crowded>>,
               \A s \in sent' : s \in sent \/ (newest # NoReport => s.epoch >= newest.epoch)
        PROVE  Fresh' /\ Covered'
    BY <1>0, <1>c DEF Fresh, Covered, IsHeld
  <1>1. ASSUME NEW load \in Loads, MakeReport(load) PROVE StrictInv'
    <2>1. newest # NoReport => sender.epoch >= newest.epoch
      <3>1. newest # NoReport => newest \in Known(a)
        BY DEF Known
      <3>2. newest # NoReport => newest.epoch <= sender.epoch /\ newest.epoch \in Nat
        BY <1>a, <3>1 DEF Ordered, Made, Report
      <3> QED
        BY <1>0, <3>2 DEF TypeOK
    <2>2. \A s \in sent' : s \in sent \/ (newest # NoReport => s.epoch >= newest.epoch)
      BY <1>1, <2>1 DEF MakeReport
    <2>3. Fresh' /\ Covered'
      BY <1>1, <1>c, <2>2 DEF MakeReport, history
    <2> QED
      BY <1>0, <1>1, <1>a, <1>t, <2>3, MakeKeeps
  <1>2. CASE LeaveCluster
    <2>1. /\ sender'.round = sender.round /\ sender'.epoch = sender.epoch
          /\ UNCHANGED <<clock, sent, peer, newest, newestAt, crowded>>
      BY <1>0, <1>2 DEF LeaveCluster, history, TypeOK
    <2>2. Ordered(a)'
      BY <1>a, <2>1 DEF Ordered, Known, ReportAt, Made, Quiet
    <2> QED
      BY <1>c, <1>t, <2>1, <2>2
  <1>3. CASE Restart
    <2>1. Fresh' /\ Covered'
      BY <1>3, <1>c DEF Restart, history
    <2> QED
      BY <1>0, <1>3, <1>a, <1>t, <2>1, RestartKeeps
  <1>4. ASSUME NEW r \in sent, NEW news \in News, Receive(r, news) PROVE StrictInv'
    <2>1. CASE ApplyReport(r)
      BY <1>0, <1>4, <1>a, <1>t, <2>1, ApplyKeeps DEF Receive, senderVars
    <2>2. CASE UNCHANGED <<peer, history>>
      BY <1>4, <1>u, <2>2 DEF Receive, senderVars, history
    <2> QED
      BY <1>4, <2>1, <2>2 DEF Receive
  <1>5. ASSUME NEW r \in sent, NEW news \in News, ReceiveRelayed(r, news) PROVE StrictInv'
    <2>1. CASE ApplyReport(r)
      BY <1>0, <1>5, <1>a, <1>t, <2>1, ApplyKeeps DEF ReceiveRelayed, senderVars
    <2>2. CASE UNCHANGED <<peer, history>>
      BY <1>5, <1>u, <2>2 DEF ReceiveRelayed, senderVars, history
    <2> QED
      BY <1>5, <2>1, <2>2 DEF ReceiveRelayed
  <1>6. ASSUME NEW news \in News, ReceiveLeave(news) PROVE StrictInv'
    <2>1. CASE UNCHANGED <<departed, peer, newest, newestAt, crowded>>
      BY <1>6, <1>u, <2>1 DEF ReceiveLeave, senderVars
    <2>2. CASE peer' = NoPeer /\ NoteDropped
      <3>1. newest' = NoReport /\ peer'.snapshot = NoSnapshot /\ peer'.heldUntil = Never
        BY <2>2 DEF NoteDropped, NoPeer
      <3>2. Fresh' /\ Covered'
        BY <3>1 DEF Fresh, Covered
      <3>3. Ordered(a)'
        BY <1>6, <1>a, <2>2, <3>1, ForgettingKeeps DEF ReceiveLeave, senderVars
      <3> QED
        BY <1>t, <3>2, <3>3
    <2> QED
      BY <1>6, <2>1, <2>2 DEF ReceiveLeave
  <1>7. ASSUME NEW news \in News, Hear(news) PROVE StrictInv'
    BY <1>7, <1>u DEF Hear, senderVars, history
  <1>8. CASE ForgetDead
    BY <1>8, <1>u DEF ForgetDead, senderVars, history
  <1>9. CASE Round
    BY <1>0, <1>9, <1>a, <1>t, RoundKeeps
  <1>10. CASE UNCHANGED vars
    BY <1>10, <1>u DEF vars, senderVars, history
  <1> QED
    BY <1>1, <1>2, <1>3, <1>4, <1>5, <1>6, <1>7, <1>8, <1>9, <1>10 DEF Next

\* While the newest report heard of a peer is not stale, no late, repeated or
\* reordered report, of this run of it or another, makes the node count less
\* than that report says (peer_demand.rs, apply, contest, expire).
THEOREM NoDisorderLoosens == Spec => []NeverLooser
  <1>1. Init => StrictInv
    <2> SUFFICES ASSUME Init PROVE StrictInv
      OBVIOUS
    <2>1. /\ TypeOK /\ 0 \in Times /\ sent = {} /\ newest = NoReport
          /\ peer.snapshot = NoSnapshot /\ peer.heldUntil = Never
      BY TypeInit, TimesAssumption DEF Init, NoPeer, Times
    <2>2. Known(0) = {}
      BY <2>1 DEF Known
    <2>3. Ordered(0)
      BY <2>1, <2>2 DEF Ordered
    <2> QED
      BY <2>1, <2>3 DEF StrictInv, Fresh, Covered
  <1>2. StrictInv /\ [Next]_vars => StrictInv'
    BY StrictStep
  <1>3. StrictInv => NeverLooser
    BY CoveredIsCounted DEF StrictInv
  <1> QED
    BY <1>1, <1>2, <1>3, PTL DEF Spec

----------------------------------------------------------------------------
(***************************************************************************)
(* What disorder added ends.  Since anything but the next report was last  *)
(* heard, a snapshot that is not the newest report was heard before that,  *)
(* and ends within a window.  A report that is not taken is contested      *)
(* beside such a snapshot only, so within that window, and what is         *)
(* contested is over a window later.  A report that comes in its order     *)
(* after that is taken, and what it replaces does not count.               *)
(***************************************************************************)
\* The snapshot is the newest report.
InForce == newest # NoReport /\ IsSnapshot(peer, newest, newestAt)

\* The run of a snapshot is not over.
OwnPast(p) ==
    p.snapshot # NoSnapshot =>
        \A i \in 1 .. Len(p.snapshot.past) : p.snapshot.past[i] # p.snapshot.epoch

\* Everything kept is of the time before, or of the window after.
HeardBefore(p, at) == \A k \in Keys : p.contested[k].heardAt <= at

Settling ==
    /\ newest = NoReport => peer = NoPeer
    /\ OwnPast(peer)
    /\ unsettledAt <= clock /\ newestAt <= clock
    /\ peer.heldUntil # Never =>
          clock < peer.heldUntil /\ peer.heldUntil <= unsettledAt + Hold
    /\ peer.snapshot # NoSnapshot =>
          /\ peer.snapshot.heardAt <= clock
          /\ InForce \/ peer.snapshot.heardAt <= unsettledAt
    /\ HeardBefore(peer, clock) /\ HeardBefore(peer, unsettledAt + MaxAge - 1)
    /\ Disputed(peer.contested) # {} => clock < unsettledAt + 2 * MaxAge
    /\ newest # NoReport /\ newestAt >= unsettledAt + MaxAge /\ clock < newestAt + MaxAge =>
          InForce

\* Two windows later the newest report is the snapshot, and nothing is contested.
LEMMA SettledIsExact == TypeOK /\ Settling => InOrderIsExact
  <1> SUFFICES ASSUME TypeOK, Settling, newest # NoReport, clock < newestAt + MaxAge,
                      clock >= unsettledAt + 2 * MaxAge, NEW k \in Keys
               PROVE  Heard(peer, k) = newest.keys[k]
    BY DEF InOrderIsExact
  <1>1. /\ clock \in Nat /\ newestAt \in Nat /\ unsettledAt \in Nat
        /\ newest.keys[k] \in Nat
    BY LoadType, TimesAssumption DEF TypeOK, Times, Report
  <1>2. Disputed(peer.contested) = {}
    BY <1>1, TimesAssumption DEF Settling
  <1>3. peer.contested[k].demand = 0
    BY <1>2 DEF Disputed, NoEntry
  <1>4. InForce
    BY <1>1, TimesAssumption DEF Settling
  <1>5. peer.snapshot # NoSnapshot /\ peer.snapshot.keys = newest.keys
    BY <1>4 DEF InForce, IsSnapshot, IsDuplicate
  <1> QED
    BY <1>1, <1>3, <1>5 DEF Heard, Larger

\* What is contested is as late as what was contested before or what is added.
LEMMA MergedIsBefore ==
    ASSUME NEW contested \in [Keys -> Entry], NEW load \in Loads, NEW at \in Times,
           NEW n \in Int, at <= n, NEW k \in Keys, contested[k].heardAt <= n
    PROVE  Merged(contested, load, at)[k].heardAt <= n
  <1>1. Merged(contested, load, at)[k] =
          IF load[k] = 0 THEN contested[k]
          ELSE [demand |-> Larger(contested[k].demand, load[k]),
                heardAt |-> Larger(contested[k].heardAt, at)]
    BY DEF Merged
  <1> QED
    BY <1>1 DEF Larger

\* The past epochs of what is taken are of other runs than it.
LEMMA OthersArePast ==
    ASSUME NEW old \in Snapshot \cup {NoSnapshot}, NEW r \in Report,
           old # NoSnapshot => Len(old.past) <= PastEpochs, IsTaken(old, r)
    PROVE  \A i \in 1 .. Len(PastOf(old, r)) : PastOf(old, r)[i] # r.epoch
  <1>1. CASE old = NoSnapshot
    <2>1. PastOf(old, r) = <<>> /\ Len(<<>>) = 0
      BY <1>1 DEF PastOf
    <2> QED
      BY <2>1
  <1>2. CASE old # NoSnapshot
    <2>1. /\ old.past \in Seq(1 .. MaxEpoch) /\ Len(old.past) <= PastEpochs
          /\ old.epoch \in 1 .. MaxEpoch
          /\ \A i \in 1 .. Len(old.past) : old.past[i] # r.epoch
      BY <1>2 DEF Snapshot, IsTaken
    <2>2. CASE old.epoch = r.epoch
      BY <1>2, <2>1, <2>2 DEF PastOf
    <2>3. CASE old.epoch # r.epoch
      <3> DEFINE all == <<old.epoch>> \o old.past
                 n == IF Len(old.past) < PastEpochs THEN Len(old.past) + 1 ELSE PastEpochs
      <3>1. <<old.epoch>> \in Seq(1 .. MaxEpoch) /\ Len(<<old.epoch>>) = 1
        BY <2>1
      <3>2. /\ all \in Seq(1 .. MaxEpoch) /\ Len(all) = Len(old.past) + 1
            /\ \A i \in 1 .. Len(all) : all[i] # r.epoch
        BY <2>1, <2>3, <3>1
      <3>3. n \in 0 .. Len(all)
        BY <2>1, <3>2, RoomAssumption
      <3>4. PastOf(old, r) = SubSeq(all, 1, n)
        BY <1>2, <2>3 DEF PastOf
      <3> HIDE DEF all, n
      <3>5. Len(SubSeq(all, 1, n)) = n /\ \A i \in 1 .. n : SubSeq(all, 1, n)[i] = all[i]
        <4>1. Len(all) \in Nat /\ \A i \in 1 .. Len(all) : all[i] \in 1 .. MaxEpoch
          BY <3>2, ElementOfSeq, LenProperties
        <4>2. n \in Int /\ \A i \in 1 .. n : i \in 1 .. Len(all)
          BY <3>3, <4>1
        <4> QED
          BY <3>3, <4>1, <4>2, SubSeqProperties
      <3>6. \A i \in 1 .. n : i \in 1 .. Len(all)
        BY <3>2, <3>3, LenProperties
      <3> QED
        BY <3>2, <3>4, <3>5, <3>6
    <2> QED
      BY <2>2, <2>3
  <1> QED
    BY <1>1, <1>2

\* The next report of a run is taken for its next, and ends what it replaces.
LEMMA NextIsTaken ==
    ASSUME NEW r \in Report, NEW s \in Report, Apart(r, s), r.epoch = s.epoch,
           r.at - s.at \in 1 .. Circle \div 4 - 1
    PROVE  RoundIsNewer(r.round, s.round) /\ ~Implausible(r.round, s.round)
  <1>1. r.at \in Nat /\ s.at \in Nat /\ r.round \in Rounds /\ s.round \in Rounds
    BY TimesAssumption DEF Report, Times
  <1>2. r.at > s.at /\ r.at - s.at < Circle
    BY <1>1, HalfCircle, CircleAssumption
  <1>3. WrappingSub(r.round, s.round) > 0 /\ WrappingSub(r.round, s.round) <= r.at - s.at
    BY <1>2 DEF Apart
  <1>4. /\ WrappingSub(r.round, s.round) =
             IF r.round >= s.round THEN r.round - s.round ELSE r.round - s.round + Circle
        /\ r.round \in Int /\ s.round \in Int
    BY <1>1, RoundsApart DEF Rounds
  <1>5. r.round # s.round
    BY <1>3, <1>4
  <1>6. /\ WrappingSub(r.round, s.round) < Circle \div 4
        /\ WrappingSub(r.round, s.round) < Circle \div 2
        /\ WrappingSub(r.round, s.round) \in Int
    BY <1>1, <1>3, <1>4, CircleAssumption
  <1> QED
    BY <1>5, <1>6, CircleAssumption DEF RoundIsNewer, Implausible

\* A report counted: what it leaves of another time is from before it, or, if
\* it is not the next, everything is.
LEMMA ApplySettles ==
    ASSUME TypeOK, NEW a \in Times, Ordered(a), Fresh, Settling,
           NEW r \in sent, ApplyReport(r), UNCHANGED clock
    PROVE  Settling'
  <1> DEFINE applied == Apply(peer, r, clock)
             old == peer.snapshot
             dropped == Cardinality(Disputed(applied.contested)) > MaxContested
             isNewest == newest = NoReport \/ Later(r, newest)
  <1>0. /\ r \in Report /\ peer \in Peer /\ Bounded(peer) /\ clock \in Times
        /\ old \in Snapshot \cup {NoSnapshot} /\ peer.contested \in [Keys -> Entry]
        /\ old # NoSnapshot => old.keys \in Loads /\ old.heardAt \in Times
        /\ newest \in Report \cup {NoReport} /\ newestAt \in Times /\ unsettledAt \in Times
        /\ r.keys \in Loads
    BY DEF TypeOK, Bounded, Peer, Snapshot, Report
  <1>n. /\ clock \in Nat /\ newestAt \in Nat /\ unsettledAt \in Nat /\ r # NoReport
        /\ Hold \in Nat /\ MaxAge \in Nat /\ MaxAge > Hold
        /\ old # NoSnapshot => old.heardAt \in Nat
    BY <1>0, TimesAssumption DEF Times, Report, NoReport
  <1>1. PICK contested \in Trimmed(applied.contested) :
          peer' = [applied EXCEPT !.contested = contested]
    BY DEF ApplyReport
  <1>2. NoteReport(r, dropped)
    BY DEF ApplyReport
  <1>3. /\ IsTaken(old, r) =>
              /\ applied.snapshot # NoSnapshot /\ applied.heldUntil = Never
              /\ applied.snapshot.epoch = r.epoch /\ applied.snapshot.round = r.round
              /\ applied.snapshot.keys = r.keys /\ applied.snapshot.heardAt = clock
              /\ applied.snapshot.past = PastOf(old, r)
              /\ applied.contested =
                    IF KeepReplaced(old, r)
                    THEN Merged(peer.contested, old.keys, old.heardAt) ELSE peer.contested
        /\ ~IsTaken(old, r) =>
              /\ applied.snapshot = old /\ applied.heldUntil = peer.heldUntil
              /\ applied.contested =
                    IF IsDuplicate(old, r) THEN peer.contested
                    ELSE Merged(peer.contested, r.keys, clock)
    BY <1>0, ApplyIs
  <1>4. applied \in Peer
    BY <1>0, ApplyType
  <1> HIDE DEF applied
  <1>5. /\ contested \in [Keys -> Entry] /\ applied.contested \in [Keys -> Entry]
        /\ \A k \in Keys : contested[k] \in {applied.contested[k], NoEntry}
    BY <1>4, TrimmedKeeps DEF Peer
  <1>6. /\ peer'.snapshot = applied.snapshot /\ peer'.heldUntil = applied.heldUntil
        /\ peer'.contested = contested
    BY <1>1, <1>4, <1>5 DEF Peer
  <1>7. /\ isNewest => newest' = r /\ newestAt' = clock
        /\ ~isNewest => newest' = newest /\ newestAt' = newestAt
        /\ IsNext(r) => unsettledAt' = unsettledAt
        /\ ~IsNext(r) => unsettledAt' = clock
    BY <1>2 DEF NoteReport
  <1> HIDE DEF dropped, isNewest
  <1>8. newest' # NoReport /\ newestAt' \in Nat /\ newestAt' <= clock
    BY <1>n, <1>7 DEF isNewest, Settling
  <1>9. OwnPast(peer')
    <2>1. CASE IsTaken(old, r)
      BY <1>0, <1>3, <1>6, <2>1, OthersArePast DEF OwnPast, Bounded
    <2>2. CASE ~IsTaken(old, r)
      BY <1>3, <1>6, <2>2 DEF OwnPast, Settling
    <2> QED
      BY <2>1, <2>2
  \* What is contested is of no later time than `n`, if what is added is not.
  <1>10. ASSUME NEW n \in Int, 0 <= n, HeardBefore(peer, n),
                KeepReplaced(old, r) /\ IsTaken(old, r) => old.heardAt <= n,
                ~IsTaken(old, r) /\ ~IsDuplicate(old, r) => clock <= n
         PROVE  HeardBefore(peer', n)
    <2> SUFFICES ASSUME NEW k \in Keys PROVE contested[k].heardAt <= n
      BY <1>6 DEF HeardBefore
    <2>1. NoEntry.heardAt <= n
      BY <1>10 DEF NoEntry
    <2>2. peer.contested[k].heardAt <= n
      BY <1>10 DEF HeardBefore
    <2>3. KeepReplaced(old, r) => old # NoSnapshot
      BY DEF KeepReplaced
    <2>4. applied.contested[k].heardAt <= n
      <3>1. CASE applied.contested = peer.contested
        BY <2>2, <3>1
      <3>2. CASE IsTaken(old, r) /\ KeepReplaced(old, r)
        <4>1. /\ old.keys \in Loads /\ old.heardAt \in Times /\ old.heardAt <= n
              /\ applied.contested = Merged(peer.contested, old.keys, old.heardAt)
          BY <1>0, <1>3, <1>10, <2>3, <3>2
        <4> HIDE DEF old
        <4> QED
          BY <1>0, <2>2, <4>1, MergedIsBefore
      <3>3. CASE ~IsTaken(old, r) /\ ~IsDuplicate(old, r)
        <4>1. clock <= n /\ applied.contested = Merged(peer.contested, r.keys, clock)
          BY <1>3, <1>10, <3>3
        <4> QED
          BY <1>0, <2>2, <4>1, MergedIsBefore
      <3> QED
        BY <1>3, <3>1, <3>2, <3>3
    <2> QED
      BY <1>5, <2>1, <2>4
  <1>11. /\ peer'.snapshot # NoSnapshot => peer'.snapshot.heardAt <= clock
         /\ HeardBefore(peer', clock)
    <2>1. HeardBefore(peer, clock) /\ (old # NoSnapshot => old.heardAt <= clock)
      BY DEF Settling
    <2>2. HeardBefore(peer', clock)
      BY <1>n, <1>10, <2>1 DEF KeepReplaced
    <2>3. peer'.snapshot # NoSnapshot => peer'.snapshot.heardAt <= clock
      BY <1>n, <1>3, <1>6, <2>1
    <2> QED
      BY <2>2, <2>3
  <1>12. CASE ~IsNext(r)
    <2>1. unsettledAt' = clock
      BY <1>7, <1>12
    <2>2. peer'.heldUntil # Never => clock < peer'.heldUntil /\ peer'.heldUntil <= clock + Hold
      <3>1. peer'.heldUntil # Never => peer'.heldUntil = peer.heldUntil
        BY <1>3, <1>6
      <3>2. peer.heldUntil # Never => peer.heldUntil \in Nat
        BY <1>0 DEF Peer
      <3> QED
        BY <1>n, <3>1, <3>2 DEF Settling
    <2>3. HeardBefore(peer', clock + MaxAge - 1)
      <3>1. \A k \in Keys : peer'.contested[k].heardAt \in Nat
        BY <1>5, <1>6, TimesAssumption DEF Entry, Times
      <3> QED
        BY <1>n, <1>11, <3>1 DEF HeardBefore
    <2>4. clock < clock + 2 * MaxAge /\ ~(newestAt' >= clock + MaxAge)
      BY <1>n, <1>8
    <2> QED
      BY <1>n, <1>8, <1>9, <1>11, <2>1, <2>2, <2>3, <2>4 DEF Settling
  <1>13. CASE IsNext(r)
    <2>1. unsettledAt' = unsettledAt
      BY <1>7, <1>13
    <2>2. peer'.heldUntil # Never =>
            clock < peer'.heldUntil /\ peer'.heldUntil <= unsettledAt + Hold
      BY <1>3, <1>6 DEF Settling
    \* What is next and taken is in force.
    <2>3. ASSUME IsTaken(old, r) PROVE InForce'
      <3>1. newest' = r
        <4>1. CASE newest \in {NoReport, r}
          BY <1>7, <4>1 DEF isNewest
        <4>2. CASE newest \notin {NoReport, r}
          <5>1. r.epoch = newest.epoch /\ r.at - newest.at \in 1 .. Circle \div 4 - 1
            BY <1>13, <4>2 DEF IsNext
          <5>2. r.at \in Nat /\ newest.at \in Nat
            BY <1>0, <4>2, TimesAssumption DEF Report, Times
          <5>3. r.at > newest.at
            BY <5>1, <5>2, HalfCircle
          <5> QED
            BY <1>7, <5>1, <5>3 DEF isNewest, Later
        <4> QED
          BY <4>1, <4>2
      <3>2. peer'.snapshot # NoSnapshot /\ IsDuplicate(peer'.snapshot, r)
            /\ peer'.snapshot.heardAt = clock
        BY <1>3, <1>6, <2>3 DEF IsDuplicate
      <3> QED
        BY <1>n, <1>8, <3>1, <3>2 DEF InForce, IsSnapshot
    <2>4. CASE old = NoSnapshot
      <3>1. IsTaken(old, r) /\ ~KeepReplaced(old, r)
        BY <2>4 DEF IsTaken, KeepReplaced
      <3>2. applied.contested = peer.contested
        BY <1>3, <3>1
      <3>3. HeardBefore(peer', unsettledAt + MaxAge - 1)
        BY <1>n, <1>10, <3>1 DEF Settling
      <3>4. Disputed(peer'.contested) \subseteq Disputed(peer.contested)
        BY <1>5, <1>6, <3>2 DEF Disputed
      <3> QED
        BY <1>n, <1>8, <1>9, <1>11, <2>1, <2>2, <2>3, <3>1, <3>3, <3>4 DEF Settling
    <2>5. CASE old # NoSnapshot /\ InForce
      <3>1. /\ newest \in Report /\ newest # NoReport
            /\ old.epoch = newest.epoch /\ old.round = newest.round /\ old.keys = newest.keys
        BY <1>0, <2>5 DEF InForce, IsSnapshot, IsDuplicate
      <3>2. /\ ~(IsTaken(old, r) /\ KeepReplaced(old, r))
            /\ IsTaken(old, r) \/ (r = newest /\ IsDuplicate(old, r))
        <4>1. CASE r = newest
          BY <2>5, <3>1, <4>1 DEF KeepReplaced, IsTaken, IsDuplicate, RoundIsNewer
        <4>2. CASE r # newest
          <5>1. r.epoch = newest.epoch /\ r.at - newest.at \in 1 .. Circle \div 4 - 1
            BY <1>13, <3>1, <4>2 DEF IsNext
          <5>2. Apart(r, newest)
            BY <3>1 DEF Ordered, Known
          <5>3. RoundIsNewer(r.round, old.round) /\ ~Implausible(r.round, old.round)
            BY <1>0, <3>1, <5>1, <5>2, NextIsTaken
          <5>4. \A i \in 1 .. Len(old.past) : old.past[i] # r.epoch
            BY <2>5, <3>1, <5>1 DEF Settling, OwnPast
          <5> QED
            BY <2>5, <3>1, <5>1, <5>3, <5>4 DEF IsTaken, KeepReplaced
        <4> QED
          BY <4>1, <4>2
      <3>3. applied.contested = peer.contested
        BY <1>3, <3>2
      <3>4. HeardBefore(peer', unsettledAt + MaxAge - 1)
        BY <1>n, <1>10, <3>2 DEF Settling
      <3>5. Disputed(peer'.contested) \subseteq Disputed(peer.contested)
        BY <1>5, <1>6, <3>3 DEF Disputed
      <3>6. InForce'
        <4>1. CASE IsTaken(old, r)
          BY <2>3, <4>1
        <4>2. CASE ~IsTaken(old, r)
          <5>1. r = newest /\ peer'.snapshot = old
            BY <1>3, <1>6, <3>2, <4>2
          <5>2. ~isNewest
            BY <1>0, <3>1, <5>1, TimesAssumption DEF isNewest, Later, Report, Times
          <5> QED
            BY <1>7, <2>5, <5>1, <5>2 DEF InForce, IsSnapshot
        <4> QED
          BY <4>1, <4>2
      <3> QED
        BY <1>n, <1>8, <1>9, <1>11, <2>1, <2>2, <3>4, <3>5, <3>6 DEF Settling
    <2>6. CASE old # NoSnapshot /\ ~InForce
      <3>1. old.heardAt <= unsettledAt /\ clock < unsettledAt + MaxAge
        <4>1. old.heardAt <= unsettledAt
          BY <2>6 DEF Settling
        <4>2. CASE peer.heldUntil = Never
          BY <1>n, <2>6, <4>1, <4>2 DEF Fresh
        <4>3. CASE peer.heldUntil # Never
          <5>1. peer.heldUntil \in Nat
            BY <1>0, <4>3 DEF Peer
          <5>2. clock < peer.heldUntil /\ peer.heldUntil <= unsettledAt + Hold
            BY <4>3 DEF Settling
          <5> QED
            BY <1>n, <4>1, <5>1, <5>2
        <4> QED
          BY <4>1, <4>2, <4>3
      <3>2. HeardBefore(peer', unsettledAt + MaxAge - 1)
        <4>1. old.heardAt <= unsettledAt + MaxAge - 1 /\ clock <= unsettledAt + MaxAge - 1
          BY <1>n, <2>6, <3>1
        <4> QED
          BY <1>n, <1>10, <4>1 DEF Settling
      <3>3. clock < unsettledAt + 2 * MaxAge /\ ~(newestAt' >= unsettledAt + MaxAge)
        BY <1>n, <1>8, <3>1
      <3>4. peer'.snapshot # NoSnapshot => InForce' \/ peer'.snapshot.heardAt <= unsettledAt
        BY <1>3, <1>6, <2>3, <3>1
      <3> QED
        BY <1>n, <1>8, <1>9, <1>11, <2>1, <2>2, <3>2, <3>3, <3>4 DEF Settling
    <2> QED
      BY <2>4, <2>5, <2>6
  <1> QED
    BY <1>12, <1>13

\* What a round leaves of a peer: nothing, or what is held, or what is in its
\* window.
LEMMA ExpireLeaves ==
    ASSUME NEW p \in Peer, NEW now \in Times, Expire(p, now) # NoPeer
    PROVE  LET aged == Expire(p, now) IN
           /\ aged.heldUntil = p.heldUntil
           /\ p.heldUntil # Never => now < p.heldUntil /\ aged = p
           /\ aged.snapshot # NoSnapshot => aged.snapshot = p.snapshot
           /\ \A k \in Keys : aged.contested[k] \in {p.contested[k], NoEntry}
           /\ p.heldUntil = Never =>
                 \A k \in Keys : aged.contested[k] # NoEntry =>
                     now < aged.contested[k].heardAt + MaxAge
  <1> DEFINE snapshot == IF p.snapshot # NoSnapshot /\ now < p.snapshot.heardAt + MaxAge
                         THEN p.snapshot ELSE NoSnapshot
             contested == [k \in Keys |-> IF now < p.contested[k].heardAt + MaxAge
                                          THEN p.contested[k] ELSE NoEntry]
             aged == [p EXCEPT !.snapshot = snapshot, !.contested = contested]
  <1>1. Expire(p, now) = IF p.heldUntil # Never
                         THEN IF now < p.heldUntil THEN p ELSE NoPeer ELSE aged
    BY DEF Expire
  <1>2. /\ \A k \in Keys : contested[k] \in {p.contested[k], NoEntry}
        /\ \A k \in Keys : contested[k] # NoEntry => now < contested[k].heardAt + MaxAge
        /\ snapshot # NoSnapshot => snapshot = p.snapshot
    OBVIOUS
  <1> HIDE DEF snapshot, contested
  <1>3. /\ aged.snapshot = snapshot /\ aged.contested = contested
        /\ aged.heldUntil = p.heldUntil
    BY DEF Peer
  <1> HIDE DEF aged
  <1> QED
    BY <1>1, <1>2, <1>3

\* What follow_changes makes of the hold of a peer.
LEMMA FollowLeaves ==
    ASSUME NEW p \in Peer, NEW now \in Times, FollowLeft(p, now) # NoPeer
    PROVE  LET followed == FollowLeft(p, now) IN
           /\ followed \in Peer /\ followed.heldUntil = now + Hold /\ Hold # 0
           /\ followed.snapshot = p.snapshot /\ followed.contested = p.contested
  <1> DEFINE held == [p EXCEPT !.heldUntil = now + Hold]
  <1>1. /\ held \in Peer /\ held.heldUntil = now + Hold
        /\ held.snapshot = p.snapshot /\ held.contested = p.contested
    BY TimesAssumption DEF Peer, Times
  <1>2. FollowLeft(p, now) = held /\ Hold # 0
    BY DEF FollowLeft, Leave
  <1> HIDE DEF held
  <1> QED
    BY <1>1, <1>2

\* A round of the node: what is held or contested outlives no window.
LEMMA RoundSettles ==
    ASSUME TypeOK, Settling, Round PROVE Settling'
  <1> DEFINE followed == IF leftPending THEN FollowLeft(peer, clock') ELSE peer
  <1>0. /\ clock' = clock + 1 /\ clock \in Nat /\ clock' \in Times /\ peer \in Peer
        /\ unsettledAt \in Nat /\ newestAt \in Nat
        /\ Hold \in Nat /\ MaxAge \in Nat /\ MaxAge > Hold
        /\ peer' = Expire(followed, clock') /\ NoteDropped
        /\ unsettledAt' = IF leftPending THEN clock' ELSE unsettledAt
    BY TimesAssumption DEF Round, TypeOK, Times
  <1>1. CASE peer' = NoPeer
    <2>1. newest' = NoReport /\ newestAt' = 0
      BY <1>0, <1>1 DEF NoteDropped
    <2>2. /\ peer'.snapshot = NoSnapshot /\ peer'.heldUntil = Never
          /\ peer'.contested = [k \in Keys |-> NoEntry]
      BY <1>1 DEF NoPeer
    <2>3. /\ unsettledAt' <= clock' /\ unsettledAt' \in Nat
          /\ 0 <= clock' /\ 0 <= unsettledAt' + MaxAge - 1
      BY <1>0 DEF Settling
    <2>4. HeardBefore(peer', clock') /\ HeardBefore(peer', unsettledAt' + MaxAge - 1)
      BY <2>2, <2>3 DEF HeardBefore, NoEntry
    <2>5. Disputed(peer'.contested) = {}
      BY <2>2 DEF Disputed
    <2> QED
      BY <1>0, <1>1, <2>1, <2>2, <2>3, <2>4, <2>5 DEF Settling, OwnPast
  <1>2. CASE peer' # NoPeer
    <2>1. UNCHANGED <<newest, newestAt>>
      BY <1>0, <1>2 DEF NoteDropped
    <2>2. followed # NoPeer /\ peer # NoPeer
      BY <1>0, <1>2, ExpireNothing, FollowNothing
    <2>3. /\ followed \in Peer
          /\ followed.snapshot = peer.snapshot /\ followed.contested = peer.contested
          /\ leftPending => followed.heldUntil = clock' + Hold /\ Hold # 0
          /\ ~leftPending => followed = peer
      <3>1. CASE leftPending
        BY <1>0, <2>2, <3>1, FollowLeaves
      <3>2. CASE ~leftPending
        BY <1>0, <3>2
      <3> QED
        BY <3>1, <3>2
    <2> HIDE DEF followed
    <2>4. /\ peer'.heldUntil = followed.heldUntil
          /\ followed.heldUntil # Never => clock' < followed.heldUntil /\ peer' = followed
          /\ peer'.snapshot # NoSnapshot => peer'.snapshot = peer.snapshot
          /\ \A k \in Keys : peer'.contested[k] \in {peer.contested[k], NoEntry}
          /\ followed.heldUntil = Never =>
                 \A k \in Keys : peer'.contested[k] # NoEntry =>
                     clock' < peer'.contested[k].heardAt + MaxAge
      BY <1>0, <1>2, <2>3, ExpireLeaves
    <2>5. /\ newest' = NoReport => peer' = NoPeer
          /\ OwnPast(peer') /\ unsettledAt' <= clock' /\ newestAt' <= clock'
          /\ unsettledAt <= unsettledAt' /\ unsettledAt' \in Nat
      BY <1>0, <2>1, <2>2, <2>4 DEF Settling, OwnPast
    <2>6. peer'.heldUntil # Never =>
            clock' < peer'.heldUntil /\ peer'.heldUntil <= unsettledAt' + Hold
      BY <1>0, <2>3, <2>4 DEF Settling
    <2>7. peer'.snapshot # NoSnapshot =>
            /\ peer'.snapshot.heardAt <= clock'
            /\ InForce' \/ peer'.snapshot.heardAt <= unsettledAt'
      <3> SUFFICES ASSUME peer'.snapshot # NoSnapshot
                   PROVE  /\ peer'.snapshot.heardAt <= clock'
                          /\ InForce' \/ peer'.snapshot.heardAt <= unsettledAt'
        OBVIOUS
      <3>1. /\ peer'.snapshot = peer.snapshot /\ peer.snapshot.heardAt \in Nat
            /\ peer.snapshot.heardAt <= clock
            /\ InForce \/ peer.snapshot.heardAt <= unsettledAt
        BY <1>0, <2>4, TimesAssumption DEF Settling, Peer, Snapshot, Times
      <3>2. InForce => InForce'
        BY <2>1, <3>1 DEF InForce, IsSnapshot
      <3> QED
        BY <1>0, <2>5, <3>1, <3>2
    <2>8. ASSUME NEW n \in Int, 0 <= n, HeardBefore(peer, n) PROVE HeardBefore(peer', n)
      BY <2>4, <2>8 DEF HeardBefore, NoEntry
    <2>9. HeardBefore(peer', clock') /\ HeardBefore(peer', unsettledAt' + MaxAge - 1)
      <3>1. \A k \in Keys : peer.contested[k].heardAt \in Nat
        BY <1>0, TimesAssumption DEF Peer, Entry, Times
      <3>2. HeardBefore(peer, clock') /\ HeardBefore(peer, unsettledAt' + MaxAge - 1)
        BY <1>0, <2>5, <3>1 DEF Settling, HeardBefore
      <3> QED
        BY <1>0, <2>5, <2>8, <3>2
    <2>10. Disputed(peer'.contested) # {} => clock' < unsettledAt' + 2 * MaxAge
      <3> SUFFICES ASSUME NEW k \in Keys, peer'.contested[k] # NoEntry
                   PROVE  clock' < unsettledAt' + 2 * MaxAge
        BY DEF Disputed
      <3>1. CASE followed.heldUntil # Never
        <4>1. peer'.heldUntil # Never /\ followed.heldUntil \in Nat
          BY <2>3, <2>4, <3>1 DEF Peer
        <4> QED
          BY <1>0, <2>4, <2>5, <2>6, <4>1
      <3>2. CASE followed.heldUntil = Never
        <4>1. clock' < peer'.contested[k].heardAt + MaxAge
          BY <2>4, <3>2
        <4>2. peer'.contested[k].heardAt <= unsettledAt' + MaxAge - 1
          BY <2>9 DEF HeardBefore
        <4>3. peer'.contested[k].heardAt \in Nat
          <5>1. peer'.contested[k] = peer.contested[k]
            BY <2>4
          <5> QED
            BY <1>0, <5>1, TimesAssumption DEF Peer, Entry, Times
        <4> QED
          BY <1>0, <2>5, <4>1, <4>2, <4>3
      <3> QED
        BY <3>1, <3>2
    <2>11. ASSUME newest' # NoReport, newestAt' >= unsettledAt' + MaxAge,
                  clock' < newestAt' + MaxAge
           PROVE  InForce'
      <3>1. InForce
        BY <1>0, <2>1, <2>5, <2>11 DEF Settling
      <3>2. /\ peer.snapshot # NoSnapshot /\ peer.snapshot.heardAt >= newestAt
            /\ peer.snapshot.heardAt \in Nat
        BY <1>0, <3>1, TimesAssumption DEF InForce, IsSnapshot, Peer, Snapshot, Times
      <3>3. clock' < followed.snapshot.heardAt + MaxAge /\ followed.snapshot # NoSnapshot
        BY <1>0, <2>1, <2>3, <2>11, <3>2
      <3>4. peer'.snapshot = peer.snapshot
        BY <1>0, <1>2, <2>3, <3>3, ExpireIs
      <3> QED
        BY <2>1, <3>1, <3>4 DEF InForce, IsSnapshot
    <2> QED
      BY <2>5, <2>6, <2>7, <2>9, <2>10, <2>11 DEF Settling
  <1> QED
    BY <1>1, <1>2

\* Every step keeps to the time before and the window after.
LEMMA SettlingStep == StrictInv /\ Settling /\ [Next]_vars => Settling'
  <1> SUFFICES ASSUME StrictInv, Settling, [Next]_vars PROVE Settling'
    OBVIOUS
  <1>0. TypeOK /\ Fresh
    BY DEF StrictInv
  <1>a. PICK a \in Times : Ordered(a)
    BY DEF StrictInv
  <1>u. ASSUME UNCHANGED <<clock, peer, newest, newestAt, unsettledAt>> PROVE Settling'
    BY <1>u DEF Settling, InForce, OwnPast, HeardBefore
  <1>1. ASSUME NEW load \in Loads, MakeReport(load) PROVE Settling'
    BY <1>1, <1>u DEF MakeReport, history
  <1>2. CASE LeaveCluster
    BY <1>2, <1>u DEF LeaveCluster, history
  <1>3. CASE Restart
    BY <1>3, <1>u DEF Restart, history
  <1>4. ASSUME NEW r \in sent, NEW news \in News, Receive(r, news) PROVE Settling'
    <2>1. CASE ApplyReport(r)
      BY <1>0, <1>4, <1>a, <2>1, ApplySettles DEF Receive
    <2>2. CASE UNCHANGED <<peer, history>>
      BY <1>4, <1>u, <2>2 DEF Receive, history
    <2> QED
      BY <1>4, <2>1, <2>2 DEF Receive
  <1>5. ASSUME NEW r \in sent, NEW news \in News, ReceiveRelayed(r, news) PROVE Settling'
    <2>1. CASE ApplyReport(r)
      BY <1>0, <1>5, <1>a, <2>1, ApplySettles DEF ReceiveRelayed
    <2>2. CASE UNCHANGED <<peer, history>>
      BY <1>5, <1>u, <2>2 DEF ReceiveRelayed, history
    <2> QED
      BY <1>5, <2>1, <2>2 DEF ReceiveRelayed
  <1>6. ASSUME NEW news \in News, ReceiveLeave(news) PROVE Settling'
    <2>1. CASE UNCHANGED <<departed, peer, newest, newestAt, crowded>>
      BY <1>6, <1>u, <2>1 DEF ReceiveLeave
    <2>2. CASE peer' = NoPeer /\ NoteDropped
      <3>1. /\ newest' = NoReport /\ newestAt' = 0 /\ UNCHANGED <<clock, unsettledAt>>
            /\ clock \in Nat /\ unsettledAt \in Nat /\ unsettledAt <= clock
        BY <1>0, <1>6, <2>2, TimesAssumption
           DEF ReceiveLeave, NoteDropped, Settling, TypeOK, Times
      <3>2. /\ peer'.snapshot = NoSnapshot /\ peer'.heldUntil = Never
            /\ peer'.contested = [k \in Keys |-> NoEntry]
        BY <2>2 DEF NoPeer
      <3>3. 0 <= clock /\ 0 <= unsettledAt + MaxAge - 1
        BY <3>1, TimesAssumption
      <3>4. HeardBefore(peer', clock) /\ HeardBefore(peer', unsettledAt + MaxAge - 1)
        BY <3>2, <3>3 DEF HeardBefore, NoEntry
      <3>5. Disputed(peer'.contested) = {}
        BY <3>2 DEF Disputed
      <3> QED
        BY <2>2, <3>1, <3>2, <3>3, <3>4, <3>5 DEF Settling, OwnPast
    <2> QED
      BY <1>6, <2>1, <2>2 DEF ReceiveLeave
  <1>7. ASSUME NEW news \in News, Hear(news) PROVE Settling'
    BY <1>7, <1>u DEF Hear, history
  <1>8. CASE ForgetDead
    BY <1>8, <1>u DEF ForgetDead, history
  <1>9. CASE Round
    BY <1>0, <1>9, RoundSettles
  <1>10. CASE UNCHANGED vars
    BY <1>10, <1>u DEF vars, history
  <1> QED
    BY <1>1, <1>2, <1>3, <1>4, <1>5, <1>6, <1>7, <1>8, <1>9, <1>10 DEF Next

\* Two windows after the last report out of its order, restart of the peer, death
\* or implausible jump, the node counts of the peer what its newest report says,
\* no more and no less (peer_demand.rs, apply, contest, leave, expire).
THEOREM DisorderEnds == Spec => []InOrderIsExact
  <1>1. Init => StrictInv /\ Settling
    <2> SUFFICES ASSUME Init PROVE StrictInv /\ Settling
      OBVIOUS
    <2>1. /\ TypeOK /\ 0 \in Times /\ sent = {} /\ newest = NoReport /\ peer = NoPeer
          /\ peer.snapshot = NoSnapshot /\ peer.heldUntil = Never
          /\ peer.contested = [k \in Keys |-> NoEntry]
          /\ clock = 0 /\ newestAt = 0 /\ unsettledAt = 0
      BY TypeInit, TimesAssumption DEF Init, NoPeer, Times
    <2>2. Known(0) = {}
      BY <2>1 DEF Known
    <2>3. Ordered(0)
      BY <2>1, <2>2 DEF Ordered
    <2>4. 0 <= 0 + MaxAge - 1 /\ 0 <= 0
      BY TimesAssumption
    <2>5. HeardBefore(peer, clock) /\ HeardBefore(peer, unsettledAt + MaxAge - 1)
      BY <2>1, <2>4 DEF HeardBefore, NoEntry
    <2>6. Disputed(peer.contested) = {}
      BY <2>1 DEF Disputed
    <2>7. Settling
      BY <2>1, <2>4, <2>5, <2>6 DEF Settling, OwnPast
    <2> QED
      BY <2>1, <2>3, <2>7 DEF StrictInv, Fresh, Covered
  <1>2. StrictInv /\ Settling /\ [Next]_vars => (StrictInv /\ Settling)'
    BY StrictStep, SettlingStep
  <1>3. StrictInv /\ Settling => InOrderIsExact
    BY SettledIsExact DEF StrictInv
  <1> QED
    BY <1>1, <1>2, <1>3, PTL DEF Spec
=============================================================================
