--------------------------- MODULE KeyTableProofs ---------------------------
(***************************************************************************)
(* What the key table guarantees for any number of threads, keys, slots,   *)
(* checks and ticks: two claims of one key that cross end with one copy,   *)
(* the earliest in the canonical order; a slot is reset by one process at  *)
(* a time; and a tick no check overlaps sets every slot's quota right.     *)
(***************************************************************************)
EXTENDS KeyTable, FiniteSetTheorems, TLAPS

CandidateSet(k) == {Candidates(k)[i] : i \in DOMAIN Candidates(k)}

\* r comes before s in the canonical order of k.
Before(k, r, s) ==
    \E i, j \in DOMAIN Candidates(k) : i < j /\ Candidates(k)[i] = r /\ Candidates(k)[j] = s

\* Slot s is at position i of the walk over k's candidates, or after it.
Ahead(k, i, s) == \E j \in DOMAIN Candidates(k) : i <= j /\ Candidates(k)[j] = s

ReleasePCs == {"free", "reset", "vacate"}
CheckPCs == {"mend", "count", "fresh", "holds", "giveback", "check"}
ThreadPCs == {"idle", "find", "weigh", "compare", "take", "recheck"} \cup ReleasePCs \cup CheckPCs
DriverPCs == {"idle", "collect", "tally", "record", "tick", "apply", "settle", "refill", "store"}
             \cup ReleasePCs

\* A claim that took a slot and is not through with its second look.
InClaim(f) == f.pc \in ReleasePCs \cup {"recheck"}

\* ... and still walks, or will once it has given a slot back.
Rechecking(f) == f.pc = "recheck" \/ (f.pc \in ReleasePCs /\ f.next = "recheck")

\* What a request thread's frame holds at each pc: who it works for, how far a
\* walk is, and that it gives back only what comes after a copy it leaves.
ThreadOK(f) ==
    /\ f.pc \in ThreadPCs
    /\ f.pc # "idle" => f.key \in Keys
    /\ f.pc = "find" => f.i \in DOMAIN Candidates(f.key)
    /\ f.pc = "take" => f.i \in DOMAIN ClaimOrder(f.key, f.flag)
    /\ InClaim(f) =>
          /\ f.mine \in CandidateSet(f.key)
          /\ f.winner = f.mine \/ Before(f.key, f.winner, f.mine)
          /\ f.i >= 1
    /\ f.pc \in ReleasePCs =>
          \/ f.next = "recheck" /\ Before(f.key, f.mine, f.victim)
          \/ f.next = "mend" /\ f.victim = f.mine /\ f.winner # f.mine
    /\ f.pc \in CheckPCs => f.winner \in CandidateSet(f.key) \cup {Overflow}

\* The same for the background task.
DriverOK(f) ==
    /\ f.pc \in DriverPCs
    /\ f.pc \in {"collect", "apply", "refill"} => f.i >= 1
    /\ f.pc \in {"tally", "record"} =>
          f.i >= 1 /\ f.key \in Keys /\ f.victim \in Slots /\ f.next = "collect"
    /\ f.pc \in {"settle"} \cup ReleasePCs =>
          f.i >= 1 /\ f.key \in Keys /\ f.victim \in Slots /\ f.next = "apply"
    /\ f.pc = "store" =>
          f.i >= 1 /\ f.victim \in AllSlots /\ f.next \in {"apply", "refill", "idle"}

Frames ==
    /\ frame \in [Procs -> Frame]
    /\ \A t \in Threads : ThreadOK(frame[t])
    /\ DriverOK(frame[Driver])

Types == TypeOK /\ Frames

----------------------------------------------------------------------------
\* The candidates, and the order a claim takes slots in.

\* The candidates of a key are slots, and there is one at least.
LEMMA CandidatesType ==
    ASSUME NEW k \in Keys
    PROVE  /\ Candidates(k) \in Seq(Slots)
           /\ DOMAIN Candidates(k) = 1 .. Len(Candidates(k))
           /\ Len(Candidates(k)) \in Nat \ {0}
           /\ CandidateSet(k) \subseteq Slots
  <1> DEFINE a == First[k]
             b == Second[k]
  <1>1. a \in Seq(Slots) /\ a # <<>> /\ b \in Seq(Slots)
    BY BucketsAssumption
  <1>2. Candidates(k) = IF a = b THEN a ELSE a \o b
    BY DEF Candidates
  <1> HIDE DEF a, b
  <1>3. Candidates(k) \in Seq(Slots) /\ Len(Candidates(k)) \in Nat \ {0}
    <2>1. Len(a) \in Nat \ {0} /\ Len(b) \in Nat
      BY <1>1
    <2>2. a \o b \in Seq(Slots) /\ Len(a \o b) = Len(a) + Len(b)
      BY <1>1
    <2>3. Len(a \o b) \in Nat \ {0}
      BY <2>1, <2>2
    <2> QED
      BY <1>1, <1>2, <2>1, <2>2, <2>3
  <1>4. DOMAIN Candidates(k) = 1 .. Len(Candidates(k))
    BY <1>3
  <1>5. \A i \in DOMAIN Candidates(k) : Candidates(k)[i] \in Slots
    BY <1>3, <1>4
  <1>6. CandidateSet(k) \subseteq Slots
    BY <1>5 DEF CandidateSet
  <1> QED
    BY <1>3, <1>4, <1>6

\* The order of a claim goes through candidates only.
LEMMA ClaimOrderType ==
    ASSUME NEW k \in Keys, NEW swapped \in BOOLEAN
    PROVE  /\ ClaimOrder(k, swapped) \in Seq(Slots)
           /\ DOMAIN ClaimOrder(k, swapped) = 1 .. Len(ClaimOrder(k, swapped))
           /\ Len(ClaimOrder(k, swapped)) \in Nat \ {0}
           /\ \A i \in DOMAIN ClaimOrder(k, swapped) :
                 ClaimOrder(k, swapped)[i] \in CandidateSet(k)
  <1> DEFINE a == First[k]
             b == Second[k]
  <1>1. a \in Seq(Slots) /\ a # <<>> /\ b \in Seq(Slots) /\ b # <<>>
    BY BucketsAssumption
  <1>2. Len(a) \in Nat \ {0} /\ Len(b) \in Nat \ {0}
    BY <1>1
  <1>3. ClaimOrder(k, swapped) = IF swapped THEN b \o a ELSE a \o b
    BY DEF ClaimOrder
  <1>4. Candidates(k) = IF a = b THEN a ELSE a \o b
    BY DEF Candidates
  <1> HIDE DEF a, b
  <1>5. /\ ClaimOrder(k, swapped) \in Seq(Slots)
        /\ Len(ClaimOrder(k, swapped)) = Len(a) + Len(b)
    BY <1>1, <1>2, <1>3
  <1>6. \A i \in 1 .. Len(a) : a[i] \in CandidateSet(k)
    <2> SUFFICES ASSUME NEW i \in 1 .. Len(a) PROVE a[i] \in CandidateSet(k)
      OBVIOUS
    <2>1. i \in DOMAIN Candidates(k) /\ Candidates(k)[i] = a[i]
      BY <1>1, <1>2, <1>4
    <2> QED
      BY <2>1 DEF CandidateSet
  <1>7. \A i \in 1 .. Len(b) : b[i] \in CandidateSet(k)
    <2> SUFFICES ASSUME NEW i \in 1 .. Len(b), a # b PROVE b[i] \in CandidateSet(k)
      BY <1>6
    <2>1. Len(a) + i \in DOMAIN Candidates(k) /\ Candidates(k)[Len(a) + i] = b[i]
      BY <1>1, <1>2, <1>4
    <2> QED
      BY <2>1 DEF CandidateSet
  <1>8. \A i \in 1 .. Len(a) + Len(b) : ClaimOrder(k, swapped)[i] \in CandidateSet(k)
    <2> SUFFICES ASSUME NEW i \in 1 .. Len(a) + Len(b)
                 PROVE  ClaimOrder(k, swapped)[i] \in CandidateSet(k)
      OBVIOUS
    <2>1. CASE swapped
      <3>1. CASE i <= Len(b)
        BY <1>1, <1>2, <1>3, <1>7, <2>1, <3>1
      <3>2. CASE i > Len(b)
        <4>1. i - Len(b) \in 1 .. Len(a) /\ ClaimOrder(k, swapped)[i] = a[i - Len(b)]
          BY <1>1, <1>2, <1>3, <2>1, <3>2
        <4> QED
          BY <4>1, <1>6
      <3> QED
        BY <3>1, <3>2, <1>2
    <2>2. CASE ~swapped
      <3>1. CASE i <= Len(a)
        BY <1>1, <1>2, <1>3, <1>6, <2>2, <3>1
      <3>2. CASE i > Len(a)
        <4>1. i - Len(a) \in 1 .. Len(b) /\ ClaimOrder(k, swapped)[i] = b[i - Len(a)]
          BY <1>1, <1>2, <1>3, <2>2, <3>2
        <4> QED
          BY <4>1, <1>7
      <3> QED
        BY <3>1, <3>2, <1>2
    <2> QED
      BY <2>1, <2>2
  <1> QED
    BY <1>2, <1>5, <1>8

\* The canonical order is one: a slot is in it at one place.
LEMMA BeforeIsOrder ==
    ASSUME NEW k \in Keys, NEW r, NEW s, Before(k, r, s)
    PROVE  /\ r \in CandidateSet(k) /\ s \in CandidateSet(k)
           /\ r # s
           /\ ~ Before(k, s, r)
           /\ \A q : Before(k, q, r) => Before(k, q, s)
  <1>1. PICK i, j \in DOMAIN Candidates(k) :
           i < j /\ Candidates(k)[i] = r /\ Candidates(k)[j] = s
    BY DEF Before
  <1>2. i \in Nat /\ j \in Nat /\ DOMAIN Candidates(k) \subseteq Nat
    BY CandidatesType, <1>1
  <1>3. \A x, y \in DOMAIN Candidates(k) : Candidates(k)[x] = Candidates(k)[y] => x = y
    BY BucketsAssumption
  <1>4. r # s
    BY <1>1, <1>2, <1>3
  <1>5. ~ Before(k, s, r)
    BY <1>1, <1>2, <1>3 DEF Before
  <1>6. \A q : Before(k, q, r) => Before(k, q, s)
    BY <1>1, <1>2, <1>3 DEF Before
  <1> QED
    BY <1>1, <1>4, <1>5, <1>6 DEF CandidateSet

\* Of two candidates of a key, one comes before the other.
LEMMA BeforeIsTotal ==
    ASSUME NEW k \in Keys, NEW r \in CandidateSet(k), NEW s \in CandidateSet(k), r # s
    PROVE  Before(k, r, s) \/ Before(k, s, r)
  <1>1. PICK i \in DOMAIN Candidates(k) : Candidates(k)[i] = r
    BY DEF CandidateSet
  <1>2. PICK j \in DOMAIN Candidates(k) : Candidates(k)[j] = s
    BY DEF CandidateSet
  <1>3. i \in Nat /\ j \in Nat /\ i # j
    BY CandidatesType, <1>1, <1>2
  <1> QED
    BY <1>1, <1>2, <1>3 DEF Before

\* The slots taken in a bucket can be counted.
LEMMA TakenType ==
    ASSUME NEW b \in Seq(Slots)
    PROVE  Taken(b) \in Nat
  <1> DEFINE D == DOMAIN b
             T == {i \in D : key[b[i]] # EMPTY}
  <1>1. IsFiniteSet(D)
    <2>1. D = 1 .. Len(b) /\ Len(b) \in Nat
      OBVIOUS
    <2> QED
      BY <2>1, FS_Interval
  <1>2. T \subseteq D
    OBVIOUS
  <1>3. Taken(b) = Cardinality(T)
    BY DEF Taken
  <1> HIDE DEF T, D
  <1> QED
    BY <1>1, <1>2, <1>3, FS_Subset, FS_CardinalityType

----------------------------------------------------------------------------
\* Frames.

\* A step of one thread or of the driver, to a frame of its kind, keeps the frames.
LEMMA FramesStep ==
    ASSUME Frames, NEW p \in Procs, NEW g \in Frame, Goto(p, g),
           p \in Threads => ThreadOK(g),
           p = Driver => DriverOK(g)
    PROVE  Frames'
  <1>1. frame' = [frame EXCEPT ![p] = g] /\ frame \in [Procs -> Frame]
    BY DEF Goto, Frames
  <1>2. frame' \in [Procs -> Frame]
    BY <1>1
  <1>3. \A q \in Procs : frame'[q] = IF q = p THEN g ELSE frame[q]
    BY <1>1
  <1>4. \A t \in Threads : ThreadOK(frame'[t])
    BY <1>3 DEF Frames, Procs
  <1>5. DriverOK(frame'[Driver])
    BY <1>3 DEF Frames, Procs
  <1> QED
    BY <1>2, <1>4, <1>5 DEF Frames, ThreadOK, DriverOK, InClaim

\* Idle is a frame of a thread and of the driver.
LEMMA IdleOK == Idle \in Frame /\ ThreadOK(Idle) /\ DriverOK(Idle)
  BY DEF Idle, Frame, PCs, NoSlot, ThreadOK, DriverOK, InClaim, ReleasePCs, CheckPCs,
         ThreadPCs, DriverPCs

\* A claim that ends hands the check a slot of its key, or the overflow slot.
LEMMA ClaimedOK ==
    ASSUME NEW f, f.key \in Keys, NEW slot \in CandidateSet(f.key) \cup {Overflow},
           NEW taken \in BOOLEAN
    PROVE  /\ Claimed(f, slot, taken) \in Frame /\ ThreadOK(Claimed(f, slot, taken))
           /\ Claimed(f, slot, taken).pc = "mend"
           /\ Claimed(f, slot, taken).key = f.key
           /\ Claimed(f, slot, taken).winner = slot
  <1> DEFINE g == Claimed(f, slot, taken)
  <1>1. slot \in AllSlots
    BY CandidatesType DEF AllSlots
  <1>2. g.pc = "mend" /\ g.key = f.key /\ g.winner = slot
    BY IdleOK DEF Claimed, Frame
  <1>3. g \in Frame
    BY <1>1, IdleOK DEF Claimed, Frame, PCs
  <1> HIDE DEF g
  <1>4. ThreadOK(g)
    BY <1>2 DEF ThreadOK, InClaim, ReleasePCs, CheckPCs, ThreadPCs
  <1> QED
    BY <1>2, <1>3, <1>4 DEF g

\* What a thread goes on with after a release.
LEMMA ReleasedOK ==
    ASSUME NEW f \in Frame, ThreadOK(f), f.pc \in ReleasePCs
    PROVE  Released(f) \in Frame /\ ThreadOK(Released(f))
  <1>1. f.key \in Keys
    BY DEF ThreadOK, ReleasePCs
  <1>2. CASE f.next = "mend"
    <2>1. f.winner \in CandidateSet(f.key)
      BY <1>1, BeforeIsOrder DEF ThreadOK, InClaim
    <2> QED
      BY <1>1, <1>2, <2>1, ClaimedOK DEF Released
  <1>3. CASE f.next = "recheck"
    <2> DEFINE g == Released(f)
    <2>1. g = [pc |-> "recheck", key |-> f.key, i |-> f.i, flag |-> f.flag,
               mine |-> f.mine, winner |-> f.winner, victim |-> NoSlot,
               to |-> Strict, next |-> "idle"]
      BY <1>3 DEF Released, Frame
    <2> HIDE DEF g
    <2>2. g \in Frame
      BY <2>1 DEF Frame, PCs
    <2>3. ThreadOK(g)
      BY <1>1, <2>1 DEF ThreadOK, InClaim, ReleasePCs, CheckPCs, ThreadPCs
    <2> QED
      BY <2>2, <2>3 DEF g
  <1> QED
    BY <1>2, <1>3 DEF ThreadOK

\* What the background task's walk goes on with.
LEMMA ReleasedOn ==
    ASSUME NEW f \in Frame, DriverOK(f),
           f.pc \in {"tally", "record", "settle", "store"} \cup ReleasePCs
    PROVE  /\ Released(f) \in Frame /\ DriverOK(Released(f))
           /\ Released(f).pc = f.next /\ Released(f).i = f.i
  <1> DEFINE g == Released(f)
  <1>1. f.next \in {"collect", "apply", "refill", "idle"} /\ f.i >= 1
    BY DEF DriverOK
  <1>2. g = [pc |-> f.next, key |-> EMPTY, i |-> f.i, flag |-> f.flag,
             mine |-> f.mine, winner |-> f.winner, victim |-> NoSlot,
             to |-> Strict, next |-> "idle"]
    BY <1>1 DEF Released, Frame
  <1> HIDE DEF g
  <1>3. g \in Frame
    BY <1>2 DEF Frame, PCs
  <1>4. DriverOK(g)
    BY <1>1, <1>2 DEF DriverOK, ReleasePCs, DriverPCs
  <1> QED
    BY <1>2, <1>3, <1>4 DEF g

\* The second look: what follows, and what it says of the slots.
LEMMA RecheckFrame ==
    ASSUME Types, NEW t \in Threads, Recheck(t)
    PROVE  \E g \in Frame : ThreadOK(g) /\ Goto(t, g)
  <1> DEFINE f == frame[t]
             c == Candidates(f.key)
             s == c[f.i]
  <1>0. f \in Frame /\ ThreadOK(f) /\ f.pc = "recheck" /\ f.key \in Keys /\ InClaim(f)
    BY DEF Types, Frames, Procs, Recheck, ThreadOK, InClaim
  <1>1. /\ f.mine \in CandidateSet(f.key)
        /\ f.winner = f.mine \/ Before(f.key, f.winner, f.mine)
        /\ f.i >= 1 /\ f.i \in Nat
    BY <1>0 DEF ThreadOK, Frame
  <1>2. f.mine \in AllSlots /\ quota[f.mine] \in Classes \cup {Strict}
    BY <1>0, <1>1, CandidatesType DEF Types, TypeOK, AllSlots
  <1>3. f.winner \in CandidateSet(f.key) /\ f.winner \in AllSlots
    BY <1>0, <1>1, BeforeIsOrder, CandidatesType DEF AllSlots
  <1>4. f.i <= Len(c) => f.i \in DOMAIN c /\ s \in CandidateSet(f.key)
    BY <1>0, <1>1, CandidatesType DEF CandidateSet
  <1>5. CASE f.i > Len(c) /\ Goto(t, Claimed(f, f.mine, TRUE))
    BY <1>0, <1>1, <1>5, ClaimedOK
  <1>6. CASE /\ f.winner # f.mine
             /\ Goto(t, [f EXCEPT !.pc = "free", !.victim = f.mine,
                                  !.to = quota[f.mine], !.next = "mend"])
    <2> DEFINE q == quota[f.mine]
               g == [f EXCEPT !.pc = "free", !.victim = f.mine, !.to = q, !.next = "mend"]
    <2> HIDE DEF q
    <2>1. g.pc = "free" /\ g.victim = f.mine /\ g.next = "mend" /\ g.key = f.key
          /\ g.mine = f.mine /\ g.winner = f.winner /\ g.i = f.i
      BY <1>0 DEF Frame
    <2>2. g \in Frame
      BY <1>0, <1>2 DEF Frame, PCs, q
    <2> HIDE DEF g
    <2>3. ThreadOK(g)
      BY <1>0, <1>1, <1>6, <2>1 DEF ThreadOK, InClaim, ReleasePCs, CheckPCs, ThreadPCs
    <2> QED
      BY <1>6, <2>2, <2>3 DEF g, q
  <1>7. CASE Goto(t, [f EXCEPT !.i = @ + 1])
    <2> DEFINE g == [f EXCEPT !.i = @ + 1]
    <2>1. g \in Frame /\ g.pc = "recheck" /\ g.key = f.key /\ g.mine = f.mine
          /\ g.winner = f.winner /\ g.i = f.i + 1
      BY <1>0 DEF Frame
    <2> HIDE DEF g
    <2>2. ThreadOK(g)
      BY <1>0, <1>1, <2>1 DEF ThreadOK, InClaim, ReleasePCs, CheckPCs, ThreadPCs
    <2> QED
      BY <1>7, <2>1, <2>2 DEF g
  <1>8. CASE /\ f.i <= Len(c) /\ s # f.mine /\ MineSeen(f)
             /\ Goto(t, [[f EXCEPT !.i = @ + 1] EXCEPT !.pc = "free", !.victim = s,
                                  !.to = quota[s], !.next = "recheck"])
    <2> DEFINE q == quota[s]
               h == [f EXCEPT !.i = @ + 1]
               g == [h EXCEPT !.pc = "free", !.victim = s, !.to = q, !.next = "recheck"]
    <2>0. s \in AllSlots /\ q \in Classes \cup {Strict}
      BY <1>0, <1>4, <1>8, CandidatesType DEF Types, TypeOK, AllSlots
    <2>1. Before(f.key, f.mine, s)
      <3>1. PICK j \in 1 .. f.i : c[j] = f.mine
        BY <1>8 DEF MineSeen
      <3>2. j \in DOMAIN c /\ j < f.i
        BY <1>0, <1>1, <1>4, <1>8, <3>1, CandidatesType
      <3> QED
        BY <1>4, <1>8, <3>1, <3>2 DEF Before
    <2> HIDE DEF q, s
    <2>2. h \in Frame /\ h.key = f.key /\ h.mine = f.mine /\ h.winner = f.winner /\ h.i = f.i + 1
      BY <1>0 DEF Frame
    <2> HIDE DEF h
    <2>3. g.pc = "free" /\ g.victim = s /\ g.next = "recheck" /\ g.key = f.key
          /\ g.mine = f.mine /\ g.winner = f.winner /\ g.i = f.i + 1
      BY <2>2 DEF Frame
    <2>4. g \in Frame
      BY <2>0, <2>2 DEF Frame, PCs
    <2> HIDE DEF g
    <2>5. ThreadOK(g)
      BY <1>0, <1>1, <2>1, <2>3 DEF ThreadOK, InClaim, ReleasePCs, CheckPCs, ThreadPCs
    <2> QED
      BY <1>8, <2>4, <2>5 DEF g, h, q, s
  <1>9. CASE /\ f.i <= Len(c) /\ s # f.mine /\ ~MineSeen(f)
             /\ Goto(t, [[f EXCEPT !.i = @ + 1] EXCEPT !.winner = s])
    <2> DEFINE h == [f EXCEPT !.i = @ + 1]
               g == [h EXCEPT !.winner = s]
    <2>1. Before(f.key, s, f.mine)
      <3>1. PICK j \in DOMAIN c : c[j] = f.mine
        BY <1>1 DEF CandidateSet
      <3>2. f.i < j
        BY <1>0, <1>1, <1>9, <3>1, CandidatesType DEF MineSeen
      <3> QED
        BY <1>4, <1>9, <3>1, <3>2 DEF Before
    <2>2. s \in AllSlots
      BY <1>0, <1>4, <1>9, CandidatesType DEF AllSlots
    <2> HIDE DEF s
    <2>3. h \in Frame /\ h.pc = "recheck" /\ h.key = f.key /\ h.mine = f.mine /\ h.i = f.i + 1
      BY <1>0 DEF Frame
    <2> HIDE DEF h
    <2>4. g.pc = "recheck" /\ g.key = f.key /\ g.mine = f.mine /\ g.i = f.i + 1 /\ g.winner = s
          /\ g \in Frame
      BY <2>2, <2>3 DEF Frame
    <2> HIDE DEF g
    <2>5. ThreadOK(g)
      BY <1>0, <1>1, <2>1, <2>4 DEF ThreadOK, InClaim, ReleasePCs, CheckPCs, ThreadPCs
    <2> QED
      BY <1>9, <2>4, <2>5 DEF g, h, s
  <1> QED
    BY <1>4, <1>5, <1>6, <1>7, <1>8, <1>9 DEF Recheck

\* A claim keeps the frames of their kinds.
LEMMA ClaimingFrames ==
    ASSUME Types, NEW t \in Threads, Claiming(t)
    PROVE  Frames'
  <1> DEFINE f == frame[t]
             c == Candidates(f.key)
  <1>0. f \in Frame /\ ThreadOK(f) /\ t \in Procs /\ t # Driver
    BY NamesAssumption DEF Types, Frames, Procs
  <1>a. \A g \in Frame : ThreadOK(g) /\ Goto(t, g) => Frames'
    BY <1>0, FramesStep DEF Types
  <1>1. CASE Find(t)
    <2>1. f.key \in Keys /\ f.i \in DOMAIN c /\ f.pc = "find"
      BY <1>0, <1>1 DEF Find, ThreadOK
    <2>2. CASE Goto(t, Claimed(f, c[f.i], FALSE))
      <3>1. c[f.i] \in CandidateSet(f.key)
        BY <2>1 DEF CandidateSet
      <3> QED
        BY <1>a, <2>1, <2>2, <3>1, ClaimedOK
    <2>3. CASE f.i < Len(c) /\ Goto(t, [f EXCEPT !.i = @ + 1])
      <3> DEFINE g == [f EXCEPT !.i = @ + 1]
      <3>1. g \in Frame /\ g.pc = "find" /\ g.key = f.key /\ g.i = f.i + 1
        BY <1>0, <2>1 DEF Frame
      <3> HIDE DEF g
      <3>2. g.i \in DOMAIN c
        BY <2>1, <2>3, <3>1, CandidatesType
      <3>3. ThreadOK(g)
        BY <2>1, <3>1, <3>2 DEF ThreadOK, InClaim, ReleasePCs, CheckPCs, ThreadPCs
      <3> QED
        BY <1>a, <2>3, <3>1, <3>3 DEF g
    <2>4. CASE Goto(t, [f EXCEPT !.pc = "weigh", !.i = 1])
      <3> DEFINE g == [f EXCEPT !.pc = "weigh", !.i = 1]
      <3>1. g \in Frame /\ g.pc = "weigh" /\ g.key = f.key
        BY <1>0, <2>1 DEF Frame, PCs
      <3> HIDE DEF g
      <3>2. ThreadOK(g)
        BY <2>1, <3>1 DEF ThreadOK, InClaim, ReleasePCs, CheckPCs, ThreadPCs
      <3> QED
        BY <1>a, <2>4, <3>1, <3>2 DEF g
    <2> QED
      BY <1>1, <2>2, <2>3, <2>4 DEF Find
  <1>2. CASE Weigh(t)
    <2>1. f.key \in Keys /\ First[f.key] \in Seq(Slots) /\ Second[f.key] \in Seq(Slots)
      BY <1>0, <1>2, BucketsAssumption DEF Weigh, ThreadOK
    <2>2. CASE f.pc = "weigh"
      <3> DEFINE n == 1 + Taken(Second[f.key])
                 g == [f EXCEPT !.pc = "compare", !.i = n]
      <3>0. n \in Nat
        BY <2>1, TakenType
      <3> HIDE DEF n
      <3>1. g \in Frame /\ g.pc = "compare" /\ g.key = f.key
        BY <1>0, <3>0 DEF Frame, PCs
      <3> HIDE DEF g
      <3>2. ThreadOK(g)
        BY <2>1, <3>1 DEF ThreadOK, InClaim, ReleasePCs, CheckPCs, ThreadPCs
      <3>3. Goto(t, g)
        BY <1>2, <2>2 DEF Weigh, g, n
      <3> QED
        BY <1>a, <3>1, <3>2, <3>3
    <2>3. CASE f.pc = "compare"
      <3> DEFINE b == f.i <= Taken(First[f.key])
                 g == [f EXCEPT !.pc = "take", !.i = 1, !.flag = b]
      <3>0. b \in BOOLEAN
        OBVIOUS
      <3> HIDE DEF b
      <3>1. g \in Frame /\ g.pc = "take" /\ g.key = f.key /\ g.i = 1 /\ g.flag \in BOOLEAN
        BY <1>0, <3>0 DEF Frame, PCs
      <3> HIDE DEF g
      <3>2. ThreadOK(g)
        BY <2>1, <3>1, ClaimOrderType DEF ThreadOK, InClaim, ReleasePCs, CheckPCs, ThreadPCs
      <3>3. Goto(t, g)
        BY <1>2, <2>3 DEF Weigh, g, b
      <3> QED
        BY <1>a, <3>1, <3>2, <3>3
    <2> QED
      BY <1>2, <2>2, <2>3 DEF Weigh
  <1>3. CASE Take(t)
    <2> DEFINE o == ClaimOrder(f.key, f.flag)
               s == o[f.i]
    <2>1. f.key \in Keys /\ f.i \in DOMAIN o /\ f.pc = "take" /\ f.flag \in BOOLEAN
      BY <1>0, <1>3 DEF Take, ThreadOK, Frame
    <2>2. s \in CandidateSet(f.key)
      BY <2>1, ClaimOrderType
    <2>3. CASE Goto(t, [Idle EXCEPT !.pc = "recheck", !.key = f.key, !.mine = s, !.winner = s])
      <3> HIDE DEF s
      <3> DEFINE g == [Idle EXCEPT !.pc = "recheck", !.key = f.key, !.mine = s, !.winner = s]
      <3>1. s \in AllSlots
        BY <2>1, <2>2, CandidatesType DEF AllSlots
      <3>2. g.pc = "recheck" /\ g.key = f.key /\ g.mine = s /\ g.winner = s /\ g.i = Idle.i
        BY IdleOK DEF Frame
      <3>3. g \in Frame
        BY <2>1, <3>1, IdleOK DEF Frame, PCs
      <3> HIDE DEF g
      <3>4. g.i = 1
        BY <3>2 DEF Idle
      <3>5. ThreadOK(g)
        BY <2>1, <2>2, <3>2, <3>4 DEF ThreadOK, InClaim, ReleasePCs, CheckPCs, ThreadPCs
      <3> QED
        BY <1>a, <2>3, <3>3, <3>5 DEF g
    <2>4. CASE f.i < Len(o) /\ Goto(t, [f EXCEPT !.i = @ + 1])
      <3> DEFINE g == [f EXCEPT !.i = @ + 1]
      <3>1. g \in Frame /\ g.pc = "take" /\ g.key = f.key /\ g.i = f.i + 1 /\ g.flag = f.flag
        BY <1>0, <2>1 DEF Frame
      <3> HIDE DEF g
      <3>2. g.i \in DOMAIN o
        BY <2>1, <2>4, <3>1, ClaimOrderType
      <3>3. ThreadOK(g)
        BY <2>1, <3>1, <3>2 DEF ThreadOK, InClaim, ReleasePCs, CheckPCs, ThreadPCs
      <3> QED
        BY <1>a, <2>4, <3>1, <3>3 DEF g
    <2>5. CASE Goto(t, Claimed(f, Overflow, FALSE))
      BY <1>a, <2>1, <2>5, ClaimedOK
    <2> QED
      BY <1>3, <2>3, <2>4, <2>5 DEF Take
  <1>4. CASE Recheck(t)
    BY <1>0, <1>a, <1>4, RecheckFrame DEF Types
  <1> QED
    BY <1>1, <1>2, <1>3, <1>4 DEF Claiming

\* A check keeps the frames of their kinds.
LEMMA CheckingFrames ==
    ASSUME Types, NEW t \in Threads, Checking(t)
    PROVE  Frames'
  <1> DEFINE f == frame[t]
  <1>0. f \in Frame /\ ThreadOK(f) /\ t \in Procs /\ t # Driver
    BY NamesAssumption DEF Types, Frames, Procs
  <1>a. \A g \in Frame : ThreadOK(g) /\ Goto(t, g) => Frames'
    BY <1>0, FramesStep DEF Types
  <1>1. CASE CheckGcra(t)
    BY <1>a, <1>1, IdleOK DEF CheckGcra
  <1>2. CASE Mend(t) \/ Count(t) \/ SetFresh(t) \/ Holds(t) \/ GiveBack(t)
    <2>1. f.pc \in CheckPCs
      BY <1>2 DEF Mend, Count, SetFresh, Holds, GiveBack, CheckPCs
    <2>2. PICK pc \in CheckPCs : Goto(t, [f EXCEPT !.pc = pc])
      BY <1>2 DEF Mend, Count, SetFresh, Holds, GiveBack, CheckPCs
    <2> DEFINE g == [f EXCEPT !.pc = pc]
    <2>3. g \in Frame /\ g.pc = pc /\ g.key = f.key /\ g.winner = f.winner
      BY <1>0 DEF Frame, PCs, CheckPCs
    <2> HIDE DEF g
    <2>4. ThreadOK(g)
      BY <1>0, <2>1, <2>3 DEF ThreadOK, InClaim, ReleasePCs, CheckPCs, ThreadPCs
    <2> QED
      BY <1>a, <2>2, <2>3, <2>4 DEF g
  <1> QED
    BY <1>1, <1>2 DEF Checking

\* A release, by a claim or by a tick, keeps the frames of their kinds.
LEMMA ReleasingFrames ==
    ASSUME Types, NEW p \in Procs, Releasing(p)
    PROVE  Frames'
  <1> DEFINE f == frame[p]
  <1>0. /\ f \in Frame
        /\ f.pc \in ReleasePCs
        /\ p \in Threads => ThreadOK(f)
        /\ p = Driver => DriverOK(f)
    BY DEF Types, Frames, Procs, Releasing, Free, Reset, Vacate, ReleasePCs
  <1>a. \A g \in Frame :
           (p \in Threads => ThreadOK(g)) /\ (p = Driver => DriverOK(g)) /\ Goto(p, g) => Frames'
    BY <1>0, FramesStep DEF Types
  <1>1. CASE Goto(p, Released(f))
    <2>1. p \in Threads => Released(f) \in Frame /\ ThreadOK(Released(f))
      BY <1>0, ReleasedOK
    <2>2. p = Driver => Released(f) \in Frame /\ DriverOK(Released(f))
      BY <1>0, ReleasedOn
    <2> QED
      BY <1>a, <1>1, <2>1, <2>2, NamesAssumption DEF Procs
  <1>2. ASSUME NEW pc \in ReleasePCs, Goto(p, [f EXCEPT !.pc = pc])
        PROVE  Frames'
    <2> DEFINE g == [f EXCEPT !.pc = pc]
    <2>1. g \in Frame /\ g.pc = pc /\ g.key = f.key /\ g.winner = f.winner /\ g.mine = f.mine
          /\ g.i = f.i /\ g.next = f.next /\ g.victim = f.victim
      BY <1>0 DEF Frame, PCs, ReleasePCs
    <2> HIDE DEF g
    <2>2. p \in Threads => ThreadOK(g)
      BY <1>0, <2>1 DEF ThreadOK, InClaim, ReleasePCs, CheckPCs, ThreadPCs
    <2>3. p = Driver => DriverOK(g)
      BY <1>0, <2>1 DEF DriverOK, ReleasePCs, DriverPCs
    <2> QED
      BY <1>a, <1>2, <2>1, <2>2, <2>3 DEF g
  <1>3. Goto(p, [f EXCEPT !.pc = "reset"]) \/ Goto(p, [f EXCEPT !.pc = "vacate"])
          \/ Goto(p, Released(f))
    BY DEF Releasing, Free, Reset, Vacate
  <1> QED
    BY <1>1, <1>2, <1>3 DEF ReleasePCs

\* One step of a walk: on, to the slot it stops at, or past the end.
LEMMA WalkFrames ==
    ASSUME Types, NEW at, NEW wanted, NEW there, NEW after \in Frame,
           Walk(at, wanted, there, after), DriverOK(after),
           \/ at = "collect" /\ there = "tally" /\ wanted = Keys
           \/ at = "apply" /\ there = "settle" /\ wanted = Keys
           \/ at = "refill" /\ there = "store" /\ wanted = {EMPTY}
    PROVE  Frames'
  <1> DEFINE f == frame[Driver]
  <1>0. f \in Frame /\ DriverOK(f) /\ f.pc = at /\ f.i >= 1 /\ f.i \in Nat
    BY DEF Types, Frames, Procs, Walk, DriverOK, Frame
  <1>1. Driver \in Procs /\ Driver \notin Threads
    BY NamesAssumption DEF Procs
  <1>a. \A g \in Frame : DriverOK(g) /\ Goto(Driver, g) => Frames'
    BY <1>1, FramesStep DEF Types
  <1>2. CASE Goto(Driver, after)
    BY <1>a, <1>2
  <1>3. CASE Goto(Driver, [f EXCEPT !.i = @ + 1])
    <2> DEFINE g == [f EXCEPT !.i = @ + 1]
    <2>1. g \in Frame /\ g.pc = at /\ g.i = f.i + 1
      BY <1>0 DEF Frame
    <2> HIDE DEF g
    <2>2. DriverOK(g)
      BY <1>0, <2>1 DEF DriverOK, ReleasePCs, DriverPCs
    <2> QED
      BY <1>a, <1>3, <2>1, <2>2 DEF g
  <1>4. CASE /\ f.i <= NSlots /\ key[f.i] \in wanted
             /\ Goto(Driver, [f EXCEPT !.pc = there, !.key = key[f.i], !.victim = f.i,
                                       !.i = @ + 1, !.next = at])
    <2> DEFINE k == key[f.i]
               v == f.i
               n == f.i + 1
               g == [f EXCEPT !.pc = there, !.key = k, !.victim = v, !.i = n, !.next = at]
    <2>1. k \in Keys \cup {EMPTY} /\ (wanted = Keys => k \in Keys)
      BY <1>4
    <2>2. v \in Slots /\ v \in AllSlots
      BY <1>0, <1>4, BoundsAssumption DEF Slots, AllSlots
    <2>n. n \in Nat /\ n >= 1
      BY <1>0
    <2> HIDE DEF k, v, n
    <2>3. g.pc = there /\ g.key = k /\ g.victim = v /\ g.next = at /\ g.i = n
      BY <1>0 DEF Frame
    <2>4. g \in Frame
      <3>1. at \in PCs /\ there \in PCs
        BY DEF PCs
      <3> QED
        BY <1>0, <2>1, <2>2, <2>n, <3>1 DEF Frame
    <2> HIDE DEF g
    <2>5. DriverOK(g)
      BY <1>0, <2>1, <2>2, <2>n, <2>3 DEF DriverOK, ReleasePCs, DriverPCs
    <2>6. Goto(Driver, g)
      BY <1>4 DEF g, k, v, n
    <2> QED
      BY <1>a, <2>4, <2>5, <2>6
  <1>5. Goto(Driver, after) \/ Goto(Driver, [f EXCEPT !.i = @ + 1])
        \/ /\ f.i <= NSlots /\ key[f.i] \in wanted
           /\ Goto(Driver, [f EXCEPT !.pc = there, !.key = key[f.i], !.victim = f.i,
                                     !.i = @ + 1, !.next = at])
    BY DEF Walk
  <1> QED
    BY <1>2, <1>3, <1>4, <1>5

\* A tick keeps the frames of their kinds.
LEMMA TickingFrames ==
    ASSUME Types, Ticking
    PROVE  Frames'
  <1> DEFINE f == frame[Driver]
  <1>0. f \in Frame /\ DriverOK(f)
    BY DEF Types, Frames, Procs
  <1>1. Driver \in Procs /\ Driver \notin Threads
    BY NamesAssumption DEF Procs
  <1>a. \A g \in Frame : DriverOK(g) /\ Goto(Driver, g) => Frames'
    BY <1>1, FramesStep DEF Types
  <1>b. \A pc \in {"collect", "tick", "apply", "refill"} :
           [Idle EXCEPT !.pc = pc] \in Frame /\ DriverOK([Idle EXCEPT !.pc = pc])
    <2> SUFFICES ASSUME NEW pc \in {"collect", "tick", "apply", "refill"}
                 PROVE  /\ [Idle EXCEPT !.pc = pc] \in Frame
                        /\ DriverOK([Idle EXCEPT !.pc = pc])
      OBVIOUS
    <2> DEFINE g == [Idle EXCEPT !.pc = pc]
    <2>1. g \in Frame /\ g.pc = pc /\ g.i = Idle.i
      BY IdleOK DEF Frame, PCs
    <2>2. Idle.i = 1
      BY DEF Idle
    <2> HIDE DEF g
    <2>3. DriverOK(g)
      BY <2>1, <2>2 DEF DriverOK, ReleasePCs, DriverPCs
    <2> QED
      BY <2>1, <2>3 DEF g
  <1>2. CASE Tick
    BY <1>a, <1>b, <1>2 DEF Tick
  <1>3. CASE Collect
    BY <1>b, <1>3, WalkFrames DEF Collect
  <1>4. CASE Tally
    <2> DEFINE b == counted[f.victim]
               g == [f EXCEPT !.pc = "record", !.flag = b]
    <2>1. f.pc = "tally" /\ f.victim \in Slots /\ f.key \in Keys /\ f.next = "collect" /\ f.i >= 1
      BY <1>0, <1>4 DEF Tally, DriverOK
    <2>2. b \in BOOLEAN
      BY <2>1 DEF Types, TypeOK, AllSlots
    <2> HIDE DEF b
    <2>3. g \in Frame /\ g.pc = "record" /\ g.i = f.i /\ g.key = f.key /\ g.victim = f.victim
          /\ g.next = f.next
      BY <1>0, <2>2, ZenonT(40) DEF Frame, PCs
    <2> HIDE DEF g
    <2>4. DriverOK(g)
      BY <2>1, <2>3 DEF DriverOK, ReleasePCs, DriverPCs
    <2> QED
      BY <1>a, <1>4, <2>3, <2>4 DEF Tally, g, b
  <1>5. CASE Record
    <2> DEFINE h == Released(f)
               g == [h EXCEPT !.flag = FALSE]
    <2>1. f.pc = "record" /\ f.next = "collect" /\ f.i >= 1
      BY <1>0, <1>5 DEF Record, DriverOK
    <2>2. h \in Frame /\ h.pc = "collect" /\ h.i = f.i
      BY <1>0, <2>1, ReleasedOn
    <2> HIDE DEF h
    <2>3. g \in Frame /\ g.pc = "collect" /\ g.i = f.i
      BY <2>2 DEF Frame
    <2> HIDE DEF g
    <2>4. DriverOK(g)
      BY <2>1, <2>3 DEF DriverOK, ReleasePCs, DriverPCs
    <2> QED
      BY <1>a, <1>5, <2>3, <2>4 DEF Record, g, h
  <1>6. CASE CoreTick
    BY <1>a, <1>b, <1>6 DEF CoreTick
  <1>7. CASE Apply
    BY <1>b, <1>7, WalkFrames DEF Apply
  <1>8. CASE Settle
    <2>1. f.pc = "settle" /\ f.victim \in Slots /\ f.key \in Keys /\ f.next = "apply" /\ f.i >= 1
      BY <1>0, <1>8 DEF Settle, DriverOK
    <2>2. class[f.victim] \in Classes /\ (limit[f.key] # Untracked => limit[f.key] \in Classes)
      BY <2>1 DEF Types, TypeOK, AllSlots
    <2>3. PICK pc \in {"store", "free"}, to \in Classes \cup {Strict} :
             Goto(Driver, [f EXCEPT !.pc = pc, !.to = to])
      BY <1>8, <2>2 DEF Settle, SettleTracked, SettleDropped, SettleKept
    <2> DEFINE g == [f EXCEPT !.pc = pc, !.to = to]
    <2>4. g \in Frame /\ g.pc = pc /\ g.i = f.i /\ g.key = f.key /\ g.victim = f.victim
          /\ g.next = f.next
      BY <1>0, ZenonT(40) DEF Frame, PCs
    <2> HIDE DEF g
    <2>5. DriverOK(g)
      BY <2>1, <2>4 DEF DriverOK, ReleasePCs, DriverPCs, AllSlots
    <2> QED
      BY <1>a, <2>3, <2>4, <2>5 DEF g
  <1>9. CASE Store
    BY <1>0, <1>a, <1>9, ReleasedOn DEF Store
  <1>10. CASE Refill
    <2> DEFINE g == [Idle EXCEPT !.pc = "store", !.victim = Overflow]
    <2>1. g \in Frame /\ g.pc = "store" /\ g.victim = Overflow /\ g.i = Idle.i
          /\ g.next = Idle.next
      BY IdleOK, ZenonT(40) DEF Frame, PCs, AllSlots
    <2>2. Idle.i = 1 /\ Idle.next = "idle"
      BY DEF Idle
    <2> HIDE DEF g
    <2>3. DriverOK(g)
      BY <2>1, <2>2 DEF DriverOK, ReleasePCs, DriverPCs, AllSlots
    <2> QED
      BY <1>10, <2>1, <2>3, WalkFrames DEF Refill, g
  <1> QED
    BY <1>2, <1>3, <1>4, <1>5, <1>6, <1>7, <1>8, <1>9, <1>10 DEF Ticking

----------------------------------------------------------------------------
\* Everything holds what it may hold, and every frame fits its pc.

\* The types hold at the start.
LEMMA TypesInit == Init => Types
  <1> SUFFICES ASSUME Init PROVE Types
    OBVIOUS
  <1>1. frame \in [Procs -> Frame] /\ \A p \in Procs : frame[p] = Idle
    BY IdleOK DEF Init
  <1>2. Frames
    BY <1>1, IdleOK DEF Frames, Procs
  <1>3. checks \in 0 .. MaxChecks /\ ticks \in 0 .. MaxTicks
    BY BoundsAssumption DEF Init
  <1>4. /\ key \in [AllSlots -> Keys \cup {EMPTY, BUSY}]
        /\ quota \in [AllSlots -> Classes \cup {Strict}]
        /\ class \in [AllSlots -> Classes]
        /\ counted \in [AllSlots -> BOOLEAN]
        /\ limit \in [Keys -> Classes \cup {Untracked}]
    BY DEF Init, Classes
  <1> QED
    BY <1>1, <1>2, <1>3, <1>4 DEF Types, TypeOK, Init

\* Every step keeps the types.
LEMMA TypesStep == Types /\ [Next]_vars => Types'
  <1> SUFFICES ASSUME Types, [Next]_vars PROVE Types'
    OBVIOUS
  <1> USE DEF Types
  <1>1. CASE UNCHANGED vars \/ Finished
    BY <1>1 DEF Finished, vars, TypeOK, Frames, ThreadOK, DriverOK, InClaim
  <1>2. ASSUME NEW t \in Threads, NEW k \in Keys, Start(t, k) PROVE Types'
    <2> DEFINE g == [Idle EXCEPT !.pc = "find", !.key = k]
    <2>1. g \in Frame /\ g.pc = "find" /\ g.key = k /\ g.i = Idle.i
      BY IdleOK DEF Frame, PCs
    <2>2. Idle.i = 1
      BY DEF Idle
    <2> HIDE DEF g
    <2>3. ThreadOK(g)
      BY <2>1, <2>2, CandidatesType DEF ThreadOK, InClaim, ReleasePCs, CheckPCs, ThreadPCs
    <2>4. Goto(t, g) /\ t \in Procs /\ t # Driver
      BY <1>2, NamesAssumption DEF Start, g, Procs
    <2>5. Frames'
      BY <2>1, <2>3, <2>4, FramesStep
    <2>6. checks' \in 0 .. MaxChecks
      <3>1. checks \in 0 .. MaxChecks /\ MaxChecks \in Nat /\ checks < MaxChecks
            /\ checks' = checks + 1
        BY <1>2, BoundsAssumption DEF Start, TypeOK
      <3> QED
        BY <3>1
    <2> QED
      BY <1>2, <2>5, <2>6 DEF Start, TypeOK, Frames, slotVars
  <1>3. ASSUME NEW t \in Threads, Claiming(t) PROVE Types'
    <2>1. Frames'
      BY <1>3, ClaimingFrames
    <2>2. CASE Find(t) \/ Weigh(t) \/ Recheck(t)
      BY <2>1, <2>2 DEF Find, Weigh, Recheck, TypeOK, Frames, slotVars, history
    <2>3. CASE Take(t)
      <3>1. frame[t].key \in Keys
        BY <2>3 DEF Take, Frames, ThreadOK
      <3>2. key' \in [AllSlots -> Keys \cup {EMPTY, BUSY}]
        BY <2>3, <3>1 DEF Take, TypeOK
      <3> QED
        BY <2>1, <2>3, <3>2 DEF Take, TypeOK, Frames, history
    <2> QED
      BY <1>3, <2>2, <2>3 DEF Claiming
  <1>4. ASSUME NEW t \in Threads, Checking(t) PROVE Types'
    <2>1. Frames'
      BY <1>4, CheckingFrames
    <2>2. frame[t].pc # "idle" => frame[t].key \in Keys
      BY DEF Frames, ThreadOK
    <2>3. CASE Mend(t) \/ SetFresh(t) \/ GiveBack(t) \/ Count(t)
      <3>1. /\ class' \in [AllSlots -> Classes]
            /\ quota' \in [AllSlots -> Classes \cup {Strict}]
            /\ counted' \in [AllSlots -> BOOLEAN]
        BY <2>2, <2>3 DEF Mend, SetFresh, GiveBack, Count, TypeOK, Classes
      <3> QED
        BY <2>1, <2>3, <3>1 DEF Mend, SetFresh, GiveBack, Count, TypeOK, Frames, history
    <2>4. CASE Holds(t) \/ CheckGcra(t)
      BY <2>1, <2>4 DEF Holds, CheckGcra, TypeOK, Frames, slotVars, history
    <2> QED
      BY <1>4, <2>3, <2>4 DEF Checking
  <1>5. ASSUME NEW p \in Procs, Releasing(p) PROVE Types'
    <2>1. Frames'
      BY <1>5, ReleasingFrames
    <2>2. frame[p].to \in Classes \cup {Strict}
      BY DEF Frames, Frame
    <2>3. /\ key' \in [AllSlots -> Keys \cup {EMPTY, BUSY}]
          /\ quota' \in [AllSlots -> Classes \cup {Strict}]
          /\ counted' \in [AllSlots -> BOOLEAN]
          /\ class' \in [AllSlots -> Classes]
      BY <1>5, <2>2 DEF Releasing, Free, Reset, Vacate, TypeOK, Classes
    <2> QED
      BY <1>5, <2>1, <2>3 DEF Releasing, Free, Reset, Vacate, TypeOK, Frames, history
  <1>6. CASE Ticking
    <2>1. Frames'
      BY <1>6, TickingFrames
    <2>2. CASE Tick
      <3>1. ticks' \in 0 .. MaxTicks /\ calm' \in BOOLEAN
        BY <2>2, BoundsAssumption DEF Tick, TypeOK
      <3> QED
        BY <2>1, <2>2, <3>1 DEF Tick, TypeOK, Frames, slotVars
    <2>3. CASE Collect \/ Apply \/ Refill \/ Settle
      BY <2>1, <2>3 DEF Collect, Apply, Refill, Settle, Walk, TypeOK, Frames, slotVars, history
    <2>4. CASE Tally
      <3>1. counted' \in [AllSlots -> BOOLEAN]
        BY <2>4 DEF Tally, TypeOK
      <3> QED
        BY <2>1, <2>4, <3>1 DEF Tally, TypeOK, Frames, history
    <2>5. CASE Record
      <3>1. class[frame[Driver].victim] \in Classes
        BY <2>5 DEF Record, Frames, DriverOK, TypeOK, AllSlots
      <3>2. limit' \in [Keys -> Classes \cup {Untracked}]
        BY <2>5, <3>1 DEF Record, TypeOK
      <3> QED
        BY <2>1, <2>5, <3>2 DEF Record, TypeOK, Frames, slotVars, history
    <2>6. CASE CoreTick
      <3>1. limit' \in [Keys -> Classes \cup {Untracked}] /\ counted' \in [AllSlots -> BOOLEAN]
        BY <2>6 DEF CoreTick, TypeOK
      <3> QED
        BY <2>1, <2>6, <3>1 DEF CoreTick, TypeOK, Frames, history
    <2>7. CASE Store
      <3>1. frame[Driver].to \in Classes \cup {Strict}
        BY DEF Frames, Frame, Procs
      <3>2. quota' \in [AllSlots -> Classes \cup {Strict}]
        BY <2>7, <3>1 DEF Store, TypeOK
      <3> QED
        BY <2>1, <2>7, <3>2 DEF Store, TypeOK, Frames, history
    <2> QED
      BY <1>6, <2>2, <2>3, <2>4, <2>5, <2>6, <2>7 DEF Ticking
  <1> QED
    BY <1>1, <1>2, <1>3, <1>4, <1>5, <1>6 DEF Next

----------------------------------------------------------------------------
\* The inductive invariant.  A key sits among its candidates only.
Placed == \A s \in AllSlots : key[s] \in Keys => s \in CandidateSet(key[s])

\* Of two copies, r before s, a claim with frame f will give one back: it is
\* at it, or it took one of them and has the other still ahead of it, or it
\* took the later one and already knows of an earlier.
GivesOneBack(f, r, s) ==
    \/ f.pc = "free" /\ f.victim = s
    \/ Rechecking(f) /\ f.mine = r /\ Ahead(f.key, f.i, s)
    \/ Rechecking(f) /\ f.mine = s /\ (f.winner # s \/ Ahead(f.key, f.i, r))

Pairs ==
    \A k \in Keys : \A r, s \in Slots :
        Before(k, r, s) /\ key[r] = k /\ key[s] = k =>
            \E t \in Threads :
                frame[t].key = k /\ InClaim(frame[t]) /\ GivesOneBack(frame[t], r, s)

\* In a table the key is at w or before it.
Kept(tab, k, w) == \E x \in Slots : tab[x] = k /\ (x = w \/ Before(k, x, w))

\* What a claim settled on, or is about to, still has a copy at it or before:
\* whoever frees a copy knows of an earlier one.
Survives ==
    ticks = 0 =>
        /\ frame[Driver].pc = "idle"
        /\ \A t \in Threads :
              (InClaim(frame[t]) \/ frame[t].pc \in CheckPCs) /\ frame[t].winner # Overflow
              => Kept(key, frame[t].key, frame[t].winner)

Inv == Types /\ Placed /\ Pairs /\ Survives /\ BusyOwned

----------------------------------------------------------------------------
\* What the steps of a claim do to its frame.

\* After a release, the thread has what it had.
LEMMA ReleasedFields ==
    ASSUME NEW f \in Frame, ThreadOK(f), f.pc \in ReleasePCs
    PROVE  /\ Released(f).key = f.key /\ Released(f).winner = f.winner
           /\ f.next = "recheck" => Released(f).pc = "recheck" /\ Released(f).mine = f.mine
                                    /\ Released(f).i = f.i
           /\ f.next = "mend" => Released(f).pc = "mend"
           /\ f.next \in {"recheck", "mend"}
  <1>1. f.key \in Keys /\ f.winner \in CandidateSet(f.key)
    BY BeforeIsOrder DEF ThreadOK, InClaim, ReleasePCs
  <1>2. CASE f.next = "mend"
    BY <1>1, <1>2, ClaimedOK DEF Released
  <1>3. CASE f.next = "recheck"
    BY <1>3 DEF Released, Frame
  <1> QED
    BY <1>2, <1>3 DEF ThreadOK

\* The ways the second look at one candidate ends.
LEMMA RecheckStep ==
    ASSUME Types, NEW t \in Threads, Recheck(t), NEW f, f = frame[t], NEW g, g = frame'[t],
           NEW c, c = Candidates(f.key)
    PROVE  /\ key' = key /\ ticks' = ticks
           /\ f.key \in Keys /\ f.pc = "recheck" /\ g.key = f.key
           /\ f.i \in Nat /\ f.i >= 1
           /\ \/ f.i > Len(c) /\ f.winner = f.mine /\ g.pc = "mend" /\ g.winner = f.winner
              \/ /\ f.i > Len(c) /\ f.winner # f.mine /\ g.winner = f.winner
                 /\ g.pc = "free" /\ g.next = "mend" /\ g.mine = f.mine /\ g.victim = f.mine
              \/ /\ f.i <= Len(c) /\ (c[f.i] = f.mine \/ key[c[f.i]] # f.key)
                 /\ g.pc = "recheck" /\ g.mine = f.mine /\ g.winner = f.winner /\ g.i = f.i + 1
              \/ /\ f.i <= Len(c) /\ c[f.i] # f.mine /\ key[c[f.i]] = f.key /\ MineSeen(f)
                 /\ g.pc = "free" /\ g.next = "recheck" /\ g.mine = f.mine /\ g.victim = c[f.i]
                 /\ g.winner = f.winner /\ g.i = f.i + 1
              \/ /\ f.i <= Len(c) /\ c[f.i] # f.mine /\ key[c[f.i]] = f.key /\ ~MineSeen(f)
                 /\ g.pc = "recheck" /\ g.mine = f.mine /\ g.i = f.i + 1
                 /\ g.winner = IF f.winner = f.mine THEN c[f.i] ELSE f.winner
  <1>1. /\ f \in Frame /\ ThreadOK(f) /\ f.pc = "recheck" /\ f.key \in Keys
        /\ f.i \in Nat /\ f.i >= 1 /\ f.mine \in CandidateSet(f.key)
    BY DEF Types, Frames, Procs, Recheck, ThreadOK, InClaim, Frame
  <1>2. key' = key /\ ticks' = ticks
    BY DEF Recheck, slotVars, history
  <1>3. \A h : Goto(t, h) => g = h
    BY DEF Goto, Types, Frames, Procs
  <1>4. CASE f.i > Len(c) /\ f.winner = f.mine /\ Goto(t, Claimed(f, f.mine, TRUE))
    <2>1. g = Claimed(f, f.mine, TRUE)
      BY <1>3, <1>4
    <2> DEFINE h == Claimed(f, f.mine, TRUE)
    <2>2. h.pc = "mend" /\ h.key = f.key /\ h.winner = f.mine
      BY IdleOK DEF Claimed, Frame
    <2> HIDE DEF h
    <2>3. g.pc = "mend" /\ g.key = f.key /\ g.winner = f.mine
      BY <2>1, <2>2 DEF h
    <2> QED
      BY <1>1, <1>2, <1>4, <2>3
  <1>5. CASE /\ f.i > Len(c) /\ f.winner # f.mine
             /\ Goto(t, [f EXCEPT !.pc = "free", !.victim = f.mine,
                                  !.to = quota[f.mine], !.next = "mend"])
    <2> DEFINE q == quota[f.mine]
    <2>1. g = [f EXCEPT !.pc = "free", !.victim = f.mine, !.to = q, !.next = "mend"]
      BY <1>3, <1>5
    <2> HIDE DEF q
    <2>2. g.pc = "free" /\ g.next = "mend" /\ g.mine = f.mine /\ g.victim = f.mine
          /\ g.winner = f.winner /\ g.key = f.key
      BY <1>1, <2>1 DEF Frame
    <2> QED
      BY <1>1, <1>2, <1>5, <2>2
  <1>6. CASE /\ f.i <= Len(c) /\ (c[f.i] = f.mine \/ key[c[f.i]] # f.key)
             /\ Goto(t, [f EXCEPT !.i = @ + 1])
    <2>1. g = [f EXCEPT !.i = @ + 1]
      BY <1>3, <1>6
    <2>2. g.pc = "recheck" /\ g.mine = f.mine /\ g.winner = f.winner /\ g.key = f.key
          /\ g.i = f.i + 1
      BY <1>1, <2>1 DEF Frame
    <2> QED
      BY <1>1, <1>2, <1>6, <2>2
  <1>7. CASE /\ f.i <= Len(c) /\ c[f.i] # f.mine /\ key[c[f.i]] = f.key /\ MineSeen(f)
             /\ Goto(t, [[f EXCEPT !.i = @ + 1] EXCEPT !.pc = "free", !.victim = c[f.i],
                                  !.to = quota[c[f.i]], !.next = "recheck"])
    <2> DEFINE q == quota[c[f.i]]
               s == c[f.i]
               h == [f EXCEPT !.i = @ + 1]
    <2>1. g = [h EXCEPT !.pc = "free", !.victim = s, !.to = q, !.next = "recheck"]
      BY <1>3, <1>7
    <2>2. h \in Frame /\ h.mine = f.mine /\ h.winner = f.winner /\ h.key = f.key /\ h.i = f.i + 1
      BY <1>1 DEF Frame
    <2> HIDE DEF q, s, h
    <2>3. g.pc = "free" /\ g.next = "recheck" /\ g.mine = h.mine /\ g.victim = s
          /\ g.winner = h.winner /\ g.key = h.key /\ g.i = h.i
      BY <2>1, <2>2 DEF Frame
    <2>4. g.victim = c[f.i]
      BY <2>3 DEF s
    <2> QED
      BY <1>1, <1>2, <1>7, <2>2, <2>3, <2>4
  <1>8. CASE /\ f.i <= Len(c) /\ c[f.i] # f.mine /\ key[c[f.i]] = f.key /\ ~MineSeen(f)
             /\ Goto(t, IF f.winner = f.mine
                        THEN [[f EXCEPT !.i = @ + 1] EXCEPT !.winner = c[f.i]]
                        ELSE [f EXCEPT !.i = @ + 1])
    <2> DEFINE s == c[f.i]
               h == [f EXCEPT !.i = @ + 1]
    <2>1. g = IF f.winner = f.mine THEN [h EXCEPT !.winner = s] ELSE h
      BY <1>3, <1>8
    <2>2. h \in Frame /\ h.mine = f.mine /\ h.winner = f.winner /\ h.key = f.key /\ h.i = f.i + 1
          /\ h.pc = f.pc
      BY <1>1 DEF Frame
    <2> HIDE DEF s, h
    <2>3. g.pc = h.pc /\ g.mine = h.mine /\ g.key = h.key /\ g.i = h.i
          /\ g.winner = IF f.winner = f.mine THEN s ELSE f.winner
      BY <2>1, <2>2 DEF Frame
    <2>4. g.winner = IF f.winner = f.mine THEN c[f.i] ELSE f.winner
      BY <2>3 DEF s
    <2> QED
      BY <1>1, <1>2, <1>8, <2>2, <2>3, <2>4
  <1> QED
    BY <1>4, <1>5, <1>6, <1>7, <1>8 DEF Recheck

\* A claim takes a free slot of its key and starts its second look, or goes on.
LEMMA TakeStep ==
    ASSUME Types, NEW t \in Threads, Take(t), NEW f, f = frame[t], NEW g, g = frame'[t]
    PROVE  /\ ticks' = ticks /\ f.key \in Keys /\ f.pc = "take" /\ g.key = f.key
           /\ \/ \E s \in CandidateSet(f.key) :
                    /\ key[s] = EMPTY /\ key' = [key EXCEPT ![s] = f.key]
                    /\ g.pc = "recheck" /\ g.i = 1 /\ g.mine = s /\ g.winner = s
              \/ key' = key /\ (g.pc = "take" \/ (g.pc = "mend" /\ g.winner = Overflow))
  <1> DEFINE o == ClaimOrder(f.key, f.flag)
             s == o[f.i]
  <1>1. /\ f \in Frame /\ ThreadOK(f) /\ f.pc = "take" /\ f.key \in Keys
        /\ s \in CandidateSet(f.key) /\ s \in AllSlots
    <2>1. f \in Frame /\ ThreadOK(f) /\ f.pc = "take"
      BY DEF Types, Frames, Procs, Take
    <2>2. f.key \in Keys /\ f.flag \in BOOLEAN /\ f.i \in DOMAIN o
      BY <2>1 DEF ThreadOK, Frame
    <2> QED
      BY <2>1, <2>2, ClaimOrderType, CandidatesType DEF AllSlots
  <1>2. ticks' = ticks
    BY DEF Take, history
  <1>3. \A h : Goto(t, h) => g = h
    BY DEF Goto, Types, Frames, Procs
  <1>4. CASE /\ key[s] = EMPTY /\ key' = [key EXCEPT ![s] = f.key]
             /\ Goto(t, [Idle EXCEPT !.pc = "recheck", !.key = f.key, !.mine = s, !.winner = s])
    <2> HIDE DEF s
    <2>1. g = [Idle EXCEPT !.pc = "recheck", !.key = f.key, !.mine = s, !.winner = s]
      BY <1>3, <1>4
    <2>2. g.pc = "recheck" /\ g.mine = s /\ g.winner = s /\ g.key = f.key /\ g.i = Idle.i
      BY <2>1, IdleOK DEF Frame
    <2>3. Idle.i = 1
      BY DEF Idle
    <2> QED
      BY <1>1, <1>2, <1>4, <2>2, <2>3
  <1>5. CASE key' = key /\ Goto(t, [f EXCEPT !.i = @ + 1])
    <2>1. g = [f EXCEPT !.i = @ + 1]
      BY <1>3, <1>5
    <2>2. g.pc = "take" /\ g.key = f.key
      BY <1>1, <2>1 DEF Frame
    <2> QED
      BY <1>1, <1>2, <1>5, <2>2
  <1>6. CASE key' = key /\ Goto(t, Claimed(f, Overflow, FALSE))
    <2>1. g = Claimed(f, Overflow, FALSE)
      BY <1>3, <1>6
    <2> DEFINE h == Claimed(f, Overflow, FALSE)
    <2>2. h.pc = "mend" /\ h.key = f.key /\ h.winner = Overflow
      BY IdleOK DEF Claimed, Frame
    <2> HIDE DEF h
    <2>3. g.pc = "mend" /\ g.key = f.key /\ g.winner = Overflow
      BY <2>1, <2>2 DEF h
    <2> QED
      BY <1>1, <1>2, <1>6, <2>3
  <1> QED
    BY <1>4, <1>5, <1>6 DEF Take

\* What a release does: it empties a slot that is its own, or goes on.
LEMMA ReleasingStep ==
    ASSUME Types, NEW p \in Procs, Releasing(p), NEW f, f = frame[p], NEW g, g = frame'[p]
    PROVE  /\ ticks' = ticks /\ f.key \in Keys /\ f.victim \in AllSlots
           /\ \/ /\ f.pc = "free" /\ key[f.victim] = f.key /\ g.pc = "reset"
                 /\ key' = [key EXCEPT ![f.victim] = BUSY]
                 /\ g = [f EXCEPT !.pc = "reset"]
              \/ f.pc = "free" /\ key[f.victim] # f.key /\ key' = key /\ g = Released(f)
              \/ /\ f.pc = "reset" /\ key' = key /\ g.pc = "vacate"
                 /\ g = [f EXCEPT !.pc = "vacate"]
              \/ /\ f.pc = "vacate" /\ key' = [key EXCEPT ![f.victim] = EMPTY]
                 /\ g = Released(f)
  <1>1. /\ f \in Frame /\ (p \in Threads => ThreadOK(f)) /\ (p = Driver => DriverOK(f))
        /\ f.pc \in ReleasePCs
    BY DEF Types, Frames, Procs, Releasing, Free, Reset, Vacate, ReleasePCs
  <1>2. f.key \in Keys
    <2>1. CASE p \in Threads
      BY <1>1, <2>1 DEF ThreadOK, ReleasePCs
    <2>2. CASE p = Driver
      BY <1>1, <2>2 DEF DriverOK
    <2> QED
      BY <2>1, <2>2 DEF Procs
  <1>3. f.victim \in AllSlots
    <2>1. CASE p \in Threads
      <3>1. f.mine \in CandidateSet(f.key) /\ CandidateSet(f.key) \subseteq Slots
        BY <1>1, <1>2, <2>1, CandidatesType DEF ThreadOK, InClaim
      <3>2. f.victim \in CandidateSet(f.key)
        BY <1>1, <1>2, <2>1, <3>1, BeforeIsOrder DEF ThreadOK
      <3> QED
        BY <3>1, <3>2 DEF AllSlots
    <2>2. CASE p = Driver
      BY <1>1, <2>2 DEF DriverOK, AllSlots
    <2> QED
      BY <2>1, <2>2 DEF Procs
  <1>4. ticks' = ticks
    BY DEF Releasing, Free, Reset, Vacate, history
  <1>5. \A h : Goto(p, h) => g = h
    BY DEF Goto, Types, Frames
  <1>6. \A pc : [f EXCEPT !.pc = pc].pc = pc
    BY <1>1 DEF Frame
  <1> QED
    BY <1>2, <1>3, <1>4, <1>5, <1>6 DEF Releasing, Free, Reset, Vacate

----------------------------------------------------------------------------
\* What a step of p must respect, for each part of the invariant to stay.

\* A step that writes no key into a slot keeps Pairs if its frame still gives
\* back what it would have.
LEMMA PairsKept ==
    ASSUME Types, Pairs, NEW p \in Procs, NEW g, Goto(p, g),
           \A s \in Slots : key'[s] \in Keys => key'[s] = key[s],
           p \in Threads /\ InClaim(frame[p]) =>
              \A r, s \in Slots :
                  /\ Before(frame[p].key, r, s)
                  /\ key'[r] = frame[p].key /\ key'[s] = frame[p].key
                  /\ key[r] = frame[p].key /\ key[s] = frame[p].key
                  /\ GivesOneBack(frame[p], r, s)
                  => g.key = frame[p].key /\ InClaim(g) /\ GivesOneBack(g, r, s)
    PROVE  Pairs'
  <1>1. \A q \in Procs : frame'[q] = IF q = p THEN g ELSE frame[q]
    BY DEF Goto, Types, Frames
  <1> SUFFICES ASSUME NEW k \in Keys, NEW r \in Slots, NEW s \in Slots,
                      Before(k, r, s), key'[r] = k, key'[s] = k
               PROVE  \E t \in Threads : frame'[t].key = k /\ InClaim(frame'[t])
                                         /\ GivesOneBack(frame'[t], r, s)
    BY DEF Pairs, InClaim, GivesOneBack, Rechecking
  <1>2. key[r] = k /\ key[s] = k
    OBVIOUS
  <1>3. PICK t \in Threads : frame[t].key = k /\ InClaim(frame[t]) /\ GivesOneBack(frame[t], r, s)
    BY <1>2 DEF Pairs
  <1>4. CASE t = p
    BY <1>1, <1>2, <1>3, <1>4
  <1>5. CASE t # p
    BY <1>1, <1>3, <1>5 DEF Procs
  <1> QED
    BY <1>4, <1>5

\* A step that keeps the copies kept keeps Survives.
LEMMA SurvivesKept ==
    ASSUME Types, Survives, NEW p \in Threads, NEW g, Goto(p, g), ticks' = ticks,
           ticks = 0 => \A k \in Keys : \A w \in AllSlots : Kept(key, k, w) => Kept(key', k, w),
           ticks = 0 /\ (InClaim(g) \/ g.pc \in CheckPCs) /\ g.winner # Overflow
              => Kept(key', g.key, g.winner)
    PROVE  Survives'
  <1>1. \A q \in Procs : frame'[q] = IF q = p THEN g ELSE frame[q]
    BY DEF Goto, Types, Frames
  <1>2. p # Driver /\ Driver \in Procs /\ Threads \subseteq Procs
    BY NamesAssumption DEF Procs
  <1> SUFFICES ASSUME ticks = 0
               PROVE  /\ frame'[Driver].pc = "idle"
                      /\ \A t \in Threads :
                            (InClaim(frame'[t]) \/ frame'[t].pc \in CheckPCs)
                            /\ frame'[t].winner # Overflow
                            => Kept(key', frame'[t].key, frame'[t].winner)
    BY DEF Survives, InClaim
  <1>3. frame'[Driver].pc = "idle"
    BY <1>1, <1>2 DEF Survives
  <1>4. ASSUME NEW t \in Threads, InClaim(frame'[t]) \/ frame'[t].pc \in CheckPCs,
               frame'[t].winner # Overflow
        PROVE  Kept(key', frame'[t].key, frame'[t].winner)
    <2>1. CASE t = p
      BY <1>1, <1>2, <1>4, <2>1
    <2>2. CASE t # p
      <3>1. frame'[t] = frame[t]
        BY <1>1, <1>2, <2>2
      <3>2. Kept(key, frame[t].key, frame[t].winner)
        BY <1>4, <3>1 DEF Survives
      <3>3. frame[t].pc # "idle"
        BY <1>4, <3>1 DEF InClaim, ReleasePCs, CheckPCs
      <3>4. frame[t].key \in Keys
        BY <3>3 DEF Types, Frames, ThreadOK
      <3>5. frame[t].winner \in AllSlots
        <4>1. frame[t].winner \in CandidateSet(frame[t].key) \cup {Overflow}
          BY <1>4, <3>1, <3>4, BeforeIsOrder DEF Types, Frames, ThreadOK
        <4> QED
          BY <3>4, <4>1, CandidatesType DEF AllSlots
      <3> QED
        BY <3>1, <3>2, <3>4, <3>5
    <2> QED
      BY <2>1, <2>2
  <1> QED
    BY <1>3, <1>4

\* A step that leaves the busy words and their owner alone keeps BusyOwned.
LEMMA BusyKept ==
    ASSUME Types, BusyOwned, NEW p \in Procs, NEW g, Goto(p, g),
           \A s \in AllSlots : key'[s] = BUSY <=> key[s] = BUSY,
           g.pc \in {"reset", "vacate"} <=> frame[p].pc \in {"reset", "vacate"},
           g.pc \in {"reset", "vacate"} => g.victim = frame[p].victim
    PROVE  BusyOwned'
  <1>1. \A q \in Procs : frame'[q] = IF q = p THEN g ELSE frame[q]
    BY DEF Goto, Types, Frames
  <1>2. \A q \in Procs, s \in AllSlots : Resets(q, s)' <=> Resets(q, s)
    BY <1>1 DEF Resets
  <1> QED
    BY <1>2 DEF BusyOwned

\* A step that writes no key into a slot keeps Placed.
LEMMA PlacedKept ==
    ASSUME Placed, \A s \in AllSlots : key'[s] \in Keys => key'[s] = key[s]
    PROVE  Placed'
  BY DEF Placed

Copies == Placed /\ Pairs /\ Survives /\ BusyOwned

\* A step of a thread that is not at a second look, and takes no slot.
LEMMA QuietStep ==
    ASSUME Types, Copies, NEW p \in Threads, NEW g, Goto(p, g), key' = key, ticks' = ticks,
           ~ InClaim(frame[p]), ~ InClaim(g),
           ticks = 0 /\ g.pc \in CheckPCs /\ g.winner # Overflow => Kept(key, g.key, g.winner)
    PROVE  Copies'
  <1>1. p \in Procs
    BY DEF Procs
  <1>2. Placed'
    BY PlacedKept DEF Copies
  <1>3. Pairs'
    BY <1>1, PairsKept DEF Copies
  <1>4. Survives'
    BY SurvivesKept DEF Copies
  <1>5. frame[p].pc \notin {"reset", "vacate"} /\ g.pc \notin {"reset", "vacate"}
    BY DEF InClaim, ReleasePCs
  <1>6. BusyOwned'
    BY <1>1, <1>5, BusyKept DEF Copies
  <1> QED
    BY <1>2, <1>3, <1>4, <1>6 DEF Copies

\* A step of the background task that is no release.
LEMMA DriverStep ==
    ASSUME Types, Copies, NEW g, Goto(Driver, g), key' = key,
           ticks' # 0 \/ (ticks' = ticks /\ frame[Driver].pc # "idle"),
           frame[Driver].pc \notin {"reset", "vacate"}, g.pc \notin {"reset", "vacate"}
    PROVE  Copies'
  <1>1. Driver \in Procs /\ Driver \notin Threads
    BY NamesAssumption DEF Procs
  <1>2. Placed'
    BY PlacedKept DEF Copies
  <1>3. Pairs'
    BY <1>1, PairsKept DEF Copies
  <1>4. ticks' # 0
    BY DEF Copies, Survives
  <1>5. Survives'
    BY <1>4 DEF Survives
  <1>6. BusyOwned'
    BY <1>1, BusyKept DEF Copies
  <1> QED
    BY <1>2, <1>3, <1>5, <1>6 DEF Copies

\* A second look keeps the copies: of two claims that both took a slot, the one
\* whose slot comes later gives its own back.
LEMMA RecheckCopies ==
    ASSUME Types, Copies, NEW t \in Threads, Recheck(t)
    PROVE  Copies'
  <1> DEFINE f == frame[t]
             g == frame'[t]
             c == Candidates(f.key)
  <1>1. f \in Frame /\ ThreadOK(f) /\ f.pc = "recheck" /\ InClaim(f) /\ f.key \in Keys /\ t \in Procs
        /\ f.mine \in CandidateSet(f.key) /\ f.winner \in CandidateSet(f.key)
    <2>1. f \in Frame /\ ThreadOK(f) /\ f.pc = "recheck" /\ t \in Procs
      BY DEF Types, Frames, Procs, Recheck
    <2>2. InClaim(f) /\ f.key \in Keys
      BY <2>1 DEF InClaim, ThreadOK
    <2> QED
      BY <2>1, <2>2, BeforeIsOrder DEF ThreadOK
  <1>2. /\ key' = key /\ ticks' = ticks /\ g.key = f.key
        /\ f.i \in Nat /\ f.i >= 1
        /\ \/ f.i > Len(c) /\ f.winner = f.mine /\ g.pc = "mend" /\ g.winner = f.winner
           \/ /\ f.i > Len(c) /\ f.winner # f.mine /\ g.winner = f.winner
              /\ g.pc = "free" /\ g.next = "mend" /\ g.mine = f.mine /\ g.victim = f.mine
           \/ /\ f.i <= Len(c) /\ (c[f.i] = f.mine \/ key[c[f.i]] # f.key)
              /\ g.pc = "recheck" /\ g.mine = f.mine /\ g.winner = f.winner /\ g.i = f.i + 1
           \/ /\ f.i <= Len(c) /\ c[f.i] # f.mine /\ key[c[f.i]] = f.key /\ MineSeen(f)
              /\ g.pc = "free" /\ g.next = "recheck" /\ g.mine = f.mine /\ g.victim = c[f.i]
              /\ g.winner = f.winner /\ g.i = f.i + 1
           \/ /\ f.i <= Len(c) /\ c[f.i] # f.mine /\ key[c[f.i]] = f.key /\ ~MineSeen(f)
              /\ g.pc = "recheck" /\ g.mine = f.mine /\ g.i = f.i + 1
              /\ g.winner = IF f.winner = f.mine THEN c[f.i] ELSE f.winner
    BY RecheckStep, SMTT(30)
  <1>3. Goto(t, g)
    BY DEF Recheck, Goto, Types, Frames, Procs
  <1>c. /\ DOMAIN c = 1 .. Len(c) /\ Len(c) \in Nat
        /\ \A i \in DOMAIN c : c[i] \in Slots
        /\ \A i, j \in DOMAIN c : c[i] = c[j] => i = j
    BY <1>1, CandidatesType, BucketsAssumption DEF CandidateSet
  <1>4. Placed'
    BY <1>2, PlacedKept DEF Copies
  <1>5. ASSUME NEW r \in Slots, NEW s \in Slots,
               Before(f.key, r, s), key[r] = f.key, key[s] = f.key, GivesOneBack(f, r, s)
        PROVE  InClaim(g) /\ GivesOneBack(g, r, s)
    <2>0. /\ Ahead(f.key, f.i, s) <=> \E j \in DOMAIN c : f.i <= j /\ c[j] = s
          /\ Ahead(f.key, f.i, r) <=> \E j \in DOMAIN c : f.i <= j /\ c[j] = r
          /\ g.i = f.i + 1 =>
                /\ Ahead(g.key, g.i, s) <=> \E j \in DOMAIN c : f.i + 1 <= j /\ c[j] = s
                /\ Ahead(g.key, g.i, r) <=> \E j \in DOMAIN c : f.i + 1 <= j /\ c[j] = r
      BY <1>2 DEF Ahead
    <2>1. PICK a, b \in DOMAIN c : a < b /\ c[a] = r /\ c[b] = s
      BY <1>5 DEF Before
    <2>2. a \in Nat /\ b \in Nat /\ r # s
      BY <2>1, <1>c
    <2>3. /\ Ahead(f.key, f.i, s) <=> f.i <= b
          /\ Ahead(f.key, f.i, r) <=> f.i <= a
          /\ g.i = f.i + 1 =>
                /\ Ahead(g.key, g.i, s) <=> f.i + 1 <= b
                /\ Ahead(g.key, g.i, r) <=> f.i + 1 <= a
      BY <2>0, <2>1, <1>c
    <2>4. \/ f.mine = r /\ f.i <= b
          \/ f.mine = s /\ (f.winner # s \/ f.i <= a)
      BY <1>1, <1>5, <2>3 DEF GivesOneBack, Rechecking
    <2>5. MineSeen(f) <=> \E j \in 1 .. f.i : c[j] = f.mine
      BY DEF MineSeen
    <2>6. CASE f.mine = r /\ f.i <= b
      <3>1. f.i <= Len(c)
        BY <1>2, <2>1, <2>2, <2>6, <1>c
      <3>2. CASE f.i = b
        <4>1. c[f.i] = s /\ MineSeen(f)
          <5>1. c[f.i] = s /\ a \in 1 .. f.i /\ c[a] = f.mine
            BY <1>2, <1>c, <2>1, <2>2, <2>6, <3>2
          <5> QED
            BY <5>1, <2>5
        <4>2. g.pc = "free" /\ g.victim = s
          BY <1>2, <1>5, <2>2, <2>6, <3>1, <4>1
        <4> QED
          BY <4>2 DEF InClaim, ReleasePCs, GivesOneBack
      <3>3. CASE f.i # b
        <4>1. f.i + 1 <= b
          BY <1>2, <2>2, <2>6, <3>3
        <4>2. g.mine = r /\ g.i = f.i + 1 /\ (g.pc = "recheck" \/ (g.pc = "free" /\ g.next = "recheck"))
          BY <1>2, <2>6, <3>1
        <4> QED
          BY <2>3, <4>1, <4>2 DEF InClaim, ReleasePCs, GivesOneBack, Rechecking
      <3> QED
        BY <3>2, <3>3
    <2>7. CASE f.mine = s /\ f.winner # s
      <3>1. \/ g.pc = "free" /\ g.victim = s
            \/ /\ g.pc = "recheck" \/ (g.pc = "free" /\ g.next = "recheck")
               /\ g.mine = s /\ g.winner # s
        BY <1>2, <2>7
      <3> QED
        BY <3>1 DEF InClaim, ReleasePCs, GivesOneBack, Rechecking
    <2>8. CASE f.mine = s /\ f.winner = s /\ f.i <= a
      <3>1. f.i <= Len(c)
        BY <1>2, <2>1, <2>2, <2>8, <1>c
      <3>2. CASE f.i = a
        <4>1. c[f.i] = r /\ ~ MineSeen(f)
          <5> SUFFICES ASSUME NEW j \in 1 .. f.i, c[j] = s PROVE FALSE
            BY <2>1, <2>5, <2>8, <3>2
          <5>1. j \in DOMAIN c /\ j < b
            BY <1>2, <1>c, <2>1, <2>2, <3>1, <3>2
          <5> QED
            BY <1>c, <2>1, <2>2, <5>1
        <4>2. g.pc = "recheck" /\ g.mine = s /\ g.winner = r
          BY <1>2, <1>5, <2>2, <2>8, <3>1, <4>1
        <4> QED
          BY <2>2, <4>2 DEF InClaim, ReleasePCs, GivesOneBack, Rechecking
      <3>3. CASE f.i # a
        <4>1. f.i + 1 <= a
          BY <1>2, <2>2, <2>8, <3>3
        <4>2. g.mine = s /\ g.i = f.i + 1 /\ (g.pc = "recheck" \/ (g.pc = "free" /\ g.next = "recheck"))
          BY <1>2, <2>8, <3>1
        <4> QED
          BY <2>3, <4>1, <4>2 DEF InClaim, ReleasePCs, GivesOneBack, Rechecking
      <3> QED
        BY <3>2, <3>3
    <2> QED
      BY <2>4, <2>6, <2>7, <2>8
  <1>6. Pairs'
    BY <1>1, <1>2, <1>3, <1>5, PairsKept DEF Copies
  <1>7. ticks = 0 => Kept(key', g.key, g.winner)
    <2> SUFFICES ASSUME ticks = 0 PROVE Kept(key, f.key, g.winner)
      BY <1>2
    <2>1. f.winner # Overflow
      BY <1>1, CandidatesType DEF Slots, Overflow
    <2>2. Kept(key, f.key, f.winner)
      BY <1>1, <2>1 DEF Copies, Survives
    <2>3. CASE g.winner = f.winner
      BY <2>2, <2>3
    <2>4. CASE g.winner # f.winner
      <3>1. f.i <= Len(c) /\ key[c[f.i]] = f.key /\ g.winner = c[f.i]
        BY <1>2, <2>4
      <3>2. c[f.i] \in Slots
        BY <1>2, <1>c, <3>1
      <3> QED
        BY <3>1, <3>2 DEF Kept
    <2> QED
      BY <2>3, <2>4
  <1>8. Survives'
    BY <1>2, <1>3, <1>7, SurvivesKept DEF Copies
  <1>9. g.pc \notin {"reset", "vacate"} /\ f.pc \notin {"reset", "vacate"}
    BY <1>1, <1>2
  <1>10. BusyOwned'
    BY <1>1, <1>2, <1>3, <1>9, BusyKept DEF Copies
  <1> QED
    BY <1>4, <1>6, <1>8, <1>10 DEF Copies

\* A slot taken keeps the copies: another copy is then given back by one of the two.
LEMMA TakeCopies ==
    ASSUME Types, Copies, NEW t \in Threads, Take(t)
    PROVE  Copies'
  <1> DEFINE f == frame[t]
             g == frame'[t]
  <1>1. /\ ticks' = ticks /\ f.key \in Keys /\ f.pc = "take" /\ g.key = f.key
        /\ \/ \E s \in CandidateSet(f.key) :
                 /\ key[s] = EMPTY /\ key' = [key EXCEPT ![s] = f.key]
                 /\ g.pc = "recheck" /\ g.i = 1 /\ g.mine = s /\ g.winner = s
           \/ key' = key /\ (g.pc = "take" \/ (g.pc = "mend" /\ g.winner = Overflow))
    BY TakeStep
  <1>2. Goto(t, g) /\ t \in Procs /\ t # Driver
    BY NamesAssumption DEF Take, Goto, Types, Frames, Procs
  <1>3. CASE key' = key /\ (g.pc = "take" \/ (g.pc = "mend" /\ g.winner = Overflow))
    <2>1. ~ InClaim(f) /\ ~ InClaim(g) /\ (g.pc \in CheckPCs => g.winner = Overflow)
      BY <1>1, <1>3 DEF InClaim, ReleasePCs, CheckPCs
    <2> QED
      BY <1>1, <1>2, <1>3, <2>1, QuietStep
  <1>4. ASSUME NEW m \in CandidateSet(f.key), key[m] = EMPTY, key' = [key EXCEPT ![m] = f.key],
               g.pc = "recheck", g.i = 1, g.mine = m, g.winner = m
        PROVE  Copies'
    <2>1. m \in Slots /\ m \in AllSlots
      BY <1>1, <1>4, CandidatesType DEF AllSlots
    <2>2. \A s \in AllSlots : key'[s] = IF s = m THEN f.key ELSE key[s]
      BY <1>4, <2>1 DEF Types, TypeOK
    <2>3. EMPTY \notin Keys /\ BUSY \notin Keys /\ EMPTY # BUSY
      BY NamesAssumption DEF EMPTY, BUSY
    <2>4. \A q \in Procs : frame'[q] = IF q = t THEN g ELSE frame[q]
      BY <1>2 DEF Goto, Types, Frames
    <2>5. Placed'
      BY <1>4, <2>2 DEF Placed, Copies
    <2>6. Pairs'
      <3> SUFFICES ASSUME NEW k \in Keys, NEW r \in Slots, NEW s \in Slots,
                          Before(k, r, s), key'[r] = k, key'[s] = k
                   PROVE  \E q \in Threads : frame'[q].key = k /\ InClaim(frame'[q])
                                             /\ GivesOneBack(frame'[q], r, s)
        BY DEF Pairs, InClaim, GivesOneBack, Rechecking
      <3>1. r \in CandidateSet(k) /\ s \in CandidateSet(k) /\ r # s
        BY BeforeIsOrder
      <3>2. \A x \in CandidateSet(k) : Ahead(k, 1, x)
        <4> SUFFICES ASSUME NEW x \in CandidateSet(k) PROVE Ahead(k, 1, x)
          OBVIOUS
        <4>1. PICK j \in DOMAIN Candidates(k) : Candidates(k)[j] = x
          BY DEF CandidateSet
        <4>2. 1 <= j
          BY CandidatesType
        <4> QED
          BY <4>1, <4>2 DEF Ahead
      <3>3. CASE m \in {r, s}
        <4>1. f.key = k
          BY <2>1, <2>2, <3>3
        <4>2. InClaim(g) /\ GivesOneBack(g, r, s)
          BY <1>1, <1>4, <3>1, <3>2, <3>3, <4>1 DEF InClaim, GivesOneBack, Rechecking
        <4> QED
          BY <1>1, <4>1, <4>2
      <3>4. CASE m \notin {r, s}
        <4>1. key[r] = k /\ key[s] = k
          BY <2>2, <3>4 DEF AllSlots
        <4>2. PICK q \in Threads :
                 frame[q].key = k /\ InClaim(frame[q]) /\ GivesOneBack(frame[q], r, s)
          BY <4>1 DEF Pairs, Copies
        <4>3. q # t
          BY <1>1, <4>2 DEF InClaim, ReleasePCs
        <4> QED
          BY <2>4, <4>2, <4>3 DEF Procs
      <3> QED
        BY <3>3, <3>4
    <2>7. Survives'
      <3>1. \A k \in Keys, w \in AllSlots : Kept(key, k, w) => Kept(key', k, w)
        BY <2>2, <2>3, <1>4 DEF Kept, AllSlots
      <3>2. Kept(key', g.key, g.winner)
        BY <1>1, <1>4, <2>1, <2>2 DEF Kept
      <3> QED
        BY <1>1, <1>2, <3>1, <3>2, SurvivesKept DEF Copies
    <2>8. BusyOwned'
      <3>1. \A s \in AllSlots : key'[s] = BUSY <=> key[s] = BUSY
        BY <1>1, <1>4, <2>2, <2>3
      <3>2. f.pc \notin {"reset", "vacate"} /\ g.pc \notin {"reset", "vacate"}
        BY <1>1, <1>4
      <3> QED
        BY <1>2, <3>1, <3>2, BusyKept DEF Copies
    <2> QED
      BY <2>5, <2>6, <2>7, <2>8 DEF Copies
  <1> QED
    BY <1>1, <1>3, <1>4

\* A copy is freed by a claim that knows of an earlier one.
LEMMA FreeKeeps ==
    ASSUME Types, Copies, ticks = 0, NEW p \in Threads, frame[p].pc = "free",
           key[frame[p].victim] = frame[p].key,
           NEW k \in Keys, NEW w \in AllSlots, Kept(key, k, w),
           NEW tab, \A s \in Slots : s # frame[p].victim => tab[s] = key[s]
    PROVE  Kept(tab, k, w)
  <1> DEFINE f == frame[p]
  <1>1. PICK x \in Slots : key[x] = k /\ (x = w \/ Before(k, x, w))
    BY DEF Kept
  <1>2. CASE x # f.victim
    BY <1>1, <1>2 DEF Kept
  <1>3. CASE x = f.victim
    <2>1. f.key = k /\ ThreadOK(f) /\ InClaim(f) /\ f.pc \in ReleasePCs
      BY <1>1, <1>3 DEF Types, Frames, InClaim, ReleasePCs
    <2>2. f.winner \in CandidateSet(k) /\ f.winner # Overflow
      <3>1. f.winner \in CandidateSet(k)
        BY <2>1, BeforeIsOrder DEF ThreadOK
      <3> QED
        BY <3>1, CandidatesType DEF Slots, Overflow
    <2>3. PICK y \in Slots : key[y] = k /\ (y = f.winner \/ Before(k, y, f.winner))
      BY <2>1, <2>2 DEF Copies, Survives, Kept
    <2>4. Before(k, f.winner, f.victim)
      BY <2>1, BeforeIsOrder DEF ThreadOK
    <2>5. Before(k, y, x) /\ y # x
      BY <1>3, <2>3, <2>4, BeforeIsOrder
    <2>6. y = w \/ Before(k, y, w)
      BY <1>1, <2>5, BeforeIsOrder
    <2>7. tab[y] = k
      BY <1>3, <2>3, <2>5
    <2> QED
      BY <2>6, <2>7 DEF Kept
  <1> QED
    BY <1>2, <1>3

\* A release keeps the copies.
LEMMA ReleasingCopies ==
    ASSUME Types, Copies, NEW p \in Procs, Releasing(p)
    PROVE  Copies'
  <1> DEFINE f == frame[p]
             g == frame'[p]
  <1>1. /\ ticks' = ticks /\ f.key \in Keys /\ f.victim \in AllSlots
        /\ \/ /\ f.pc = "free" /\ key[f.victim] = f.key /\ g.pc = "reset"
              /\ key' = [key EXCEPT ![f.victim] = BUSY]
              /\ g = [f EXCEPT !.pc = "reset"]
           \/ f.pc = "free" /\ key[f.victim] # f.key /\ key' = key /\ g = Released(f)
           \/ /\ f.pc = "reset" /\ key' = key /\ g.pc = "vacate"
              /\ g = [f EXCEPT !.pc = "vacate"]
           \/ /\ f.pc = "vacate" /\ key' = [key EXCEPT ![f.victim] = EMPTY]
              /\ g = Released(f)
    BY ReleasingStep
  <1>2. Goto(p, g)
    BY DEF Releasing, Free, Reset, Vacate, Goto, Types, Frames
  <1>3. /\ f \in Frame /\ f.pc \in ReleasePCs
        /\ p \in Threads => ThreadOK(f)
        /\ p = Driver => DriverOK(f)
    BY <1>1 DEF Types, Frames, ReleasePCs
  <1>4. EMPTY \notin Keys /\ BUSY \notin Keys /\ EMPTY # BUSY
    BY NamesAssumption DEF EMPTY, BUSY
  <1>5. f.pc = "vacate" => key[f.victim] = BUSY
    BY <1>1 DEF Copies, BusyOwned, Resets
  <1>6. \A s \in AllSlots :
           key'[s] = IF s # f.victim THEN key[s]
                     ELSE IF f.pc = "free" /\ key[s] = f.key THEN BUSY
                     ELSE IF f.pc = "vacate" THEN EMPTY ELSE key[s]
    BY <1>1 DEF Types, TypeOK
  <1>7. \A s \in AllSlots : key'[s] \in Keys =>
           key'[s] = key[s] /\ ~(s = f.victim /\ f.pc = "free" /\ key[s] = f.key)
    BY <1>4, <1>6
  <1>8. Placed'
    BY <1>7, PlacedKept DEF Copies
  \* What the thread goes on with.
  <1>9. ASSUME p \in Threads PROVE Pairs' /\ Survives'
    <2>1. /\ g.key = f.key /\ g.winner = f.winner
          /\ g = Released(f) \/ (g.pc \in {"reset", "vacate"} /\ g.next = f.next)
          /\ f.next = "recheck" => /\ g.mine = f.mine /\ g.i = f.i
                                   /\ g.pc \in ReleasePCs \cup {"recheck"}
          /\ f.next \in {"recheck", "mend"}
      <3>1. CASE g = Released(f)
        BY <1>3, <1>9, <3>1, ReleasedFields
      <3>2. ASSUME NEW pc \in {"reset", "vacate"}, g = [f EXCEPT !.pc = pc]
            PROVE  /\ g.key = f.key /\ g.winner = f.winner /\ g.next = f.next /\ g.pc = pc
                   /\ g.mine = f.mine /\ g.i = f.i
        BY <1>3, <3>2 DEF Frame
      <3>3. f.next \in {"recheck", "mend"}
        BY <1>3, <1>9 DEF ThreadOK
      <3> QED
        BY <1>1, <3>1, <3>2, <3>3 DEF ReleasePCs
    <2>2. Pairs'
      <3>1. ASSUME NEW r \in Slots, NEW s \in Slots, Before(f.key, r, s),
                   key'[r] = f.key, key'[s] = f.key, GivesOneBack(f, r, s)
            PROVE  g.key = f.key /\ InClaim(g) /\ GivesOneBack(g, r, s)
        <4>1. s \in AllSlots /\ key[s] = f.key /\ ~(f.pc = "free" /\ f.victim = s)
          BY <1>1, <1>7, <3>1 DEF AllSlots
        <4>2. f.next = "recheck"
          BY <1>3, <3>1, <4>1 DEF GivesOneBack, Rechecking, ReleasePCs
        <4>3. g.mine = f.mine /\ g.i = f.i /\ InClaim(g) /\ Rechecking(g)
          <5>1. g.pc \in ReleasePCs \cup {"recheck"} /\ g.mine = f.mine /\ g.i = f.i
            BY <2>1, <4>2
          <5>2. g.pc = "recheck" \/ g.next = "recheck"
            BY <1>3, <1>9, <2>1, <4>2, ReleasedFields
          <5> QED
            BY <5>1, <5>2 DEF InClaim, Rechecking
        <4> QED
          BY <2>1, <3>1, <4>1, <4>3 DEF GivesOneBack, Rechecking
      <3>2. \A s \in Slots : key'[s] \in Keys => key'[s] = key[s]
        BY <1>7 DEF AllSlots
      <3> QED
        BY <1>2, <3>1, <3>2, PairsKept DEF Copies
    <2>3. Survives'
      <3>1. ASSUME ticks = 0, NEW k \in Keys, NEW w \in AllSlots, Kept(key, k, w)
            PROVE  Kept(key', k, w)
        <4>1. CASE f.pc = "free" /\ key[f.victim] = f.key
          <5>1. \A s \in Slots : s # f.victim => key'[s] = key[s]
            BY <1>6 DEF AllSlots
          <5> QED
            BY <1>9, <3>1, <4>1, <5>1, FreeKeeps
        <4>2. CASE ~(f.pc = "free" /\ key[f.victim] = f.key)
          <5>1. \A s \in Slots : key[s] \in Keys => key'[s] = key[s]
            BY <1>4, <1>5, <1>6, <4>2 DEF AllSlots
          <5> QED
            BY <3>1, <5>1 DEF Kept
        <4> QED
          BY <4>1, <4>2
      <3>2. f.winner \in AllSlots
        <4>1. f.winner \in CandidateSet(f.key)
          BY <1>1, <1>3, <1>9, BeforeIsOrder DEF ThreadOK, InClaim
        <4> QED
          BY <1>1, <4>1, CandidatesType DEF AllSlots
      <3>3. ticks = 0 /\ f.winner # Overflow => Kept(key, f.key, f.winner)
        BY <1>3, <1>9 DEF Copies, Survives, InClaim
      <3>4. ticks = 0 /\ g.winner # Overflow => Kept(key', g.key, g.winner)
        BY <1>1, <2>1, <3>1, <3>2, <3>3
      <3> QED
        BY <1>1, <1>2, <1>9, <3>1, <3>4, SurvivesKept DEF Copies
    <2> QED
      BY <2>2, <2>3
  <1>10. ASSUME p = Driver PROVE Pairs' /\ Survives'
    <2>1. p \notin Threads
      BY <1>10, NamesAssumption
    <2>2. \A s \in Slots : key'[s] \in Keys => key'[s] = key[s]
      BY <1>7 DEF AllSlots
    <2>3. Pairs'
      BY <1>2, <2>1, <2>2, PairsKept DEF Copies
    <2>4. ticks' # 0
      BY <1>1, <1>3, <1>10 DEF Copies, Survives, ReleasePCs
    <2> QED
      BY <2>3, <2>4 DEF Survives
  <1>11. BusyOwned'
    <2>0. \A q \in Procs : frame'[q] = IF q = p THEN g ELSE frame[q]
      BY <1>2 DEF Goto, Types, Frames
    <2>a. \A q \in Procs, s \in AllSlots : q # p => (Resets(q, s)' <=> Resets(q, s))
      BY <2>0 DEF Resets
    <2>1. CASE /\ f.pc = "free" /\ key[f.victim] = f.key /\ g.pc = "reset"
               /\ g = [f EXCEPT !.pc = "reset"]
      <3>1. g.victim = f.victim
        BY <1>3, <2>1 DEF Frame
      <3>2. \A s \in AllSlots : Resets(p, s)' <=> s = f.victim
        BY <2>0, <2>1, <3>1 DEF Resets
      <3>3. \A q \in Procs : ~ Resets(q, f.victim)
        BY <1>1, <1>4, <2>1 DEF Copies, BusyOwned
      <3>4. \A s \in AllSlots : ~ Resets(p, s)
        BY <2>1 DEF Resets
      <3>5. \A s \in AllSlots : key'[s] = BUSY <=> (key[s] = BUSY \/ s = f.victim)
        BY <1>6, <2>1
      <3> QED
        BY <2>a, <3>2, <3>3, <3>4, <3>5 DEF Copies, BusyOwned
    <2>2. CASE f.pc = "free" /\ key[f.victim] # f.key /\ g = Released(f)
      <3>1. g.pc \notin {"reset", "vacate"}
        BY <1>3, <2>2, ReleasedFields, ReleasedOn DEF Procs, DriverOK
      <3>2. \A s \in AllSlots : key'[s] = key[s]
        BY <1>6, <2>2
      <3> QED
        BY <1>2, <2>2, <3>1, <3>2, BusyKept DEF Copies
    <2>3. CASE f.pc = "reset" /\ g.pc = "vacate" /\ g = [f EXCEPT !.pc = "vacate"]
      <3>1. g.victim = f.victim
        BY <1>3, <2>3 DEF Frame
      <3>2. \A s \in AllSlots : key'[s] = key[s]
        BY <1>6, <2>3
      <3> QED
        BY <1>2, <2>3, <3>1, <3>2, BusyKept DEF Copies
    <2>4. CASE f.pc = "vacate" /\ g = Released(f)
      <3>1. g.pc \notin {"reset", "vacate"}
        BY <1>3, <2>4, ReleasedFields, ReleasedOn DEF Procs, DriverOK
      <3>2. \A s \in AllSlots : ~ Resets(p, s)'
        BY <2>0, <3>1 DEF Resets
      <3>3. Resets(p, f.victim) /\ \A s \in AllSlots : Resets(p, s) => s = f.victim
        BY <2>4 DEF Resets
      <3>4. \A q \in Procs : q # p => ~ Resets(q, f.victim)
        BY <1>1, <3>3 DEF Copies, BusyOwned
      <3>5. \A s \in AllSlots : key'[s] = BUSY <=> (key[s] = BUSY /\ s # f.victim)
        BY <1>4, <1>6, <2>4
      <3> QED
        BY <2>a, <3>2, <3>3, <3>4, <3>5 DEF Copies, BusyOwned
    <2> QED
      BY <1>1, <2>1, <2>2, <2>3, <2>4
  <1> QED
    BY <1>8, <1>9, <1>10, <1>11 DEF Copies, Procs

----------------------------------------------------------------------------

\* There is no copy at the start.
LEMMA CopiesInit == Init => Copies
  <1> SUFFICES ASSUME Init PROVE Copies
    OBVIOUS
  <1>1. \A s \in AllSlots : key[s] = EMPTY
    BY DEF Init
  <1>2. \A p \in Procs : frame[p].pc = "idle"
    BY DEF Init, Idle
  <1>3. EMPTY \notin Keys /\ EMPTY # BUSY
    BY NamesAssumption DEF EMPTY, BUSY
  <1>4. Placed
    BY <1>1, <1>3 DEF Placed
  <1>5. Pairs
    BY <1>1, <1>3 DEF Pairs, AllSlots
  <1>6. Survives
    BY <1>2 DEF Survives, InClaim, ReleasePCs, CheckPCs, Procs
  <1>7. BusyOwned
    BY <1>1, <1>2, <1>3 DEF BusyOwned, Resets
  <1> QED
    BY <1>4, <1>5, <1>6, <1>7 DEF Copies

\* A check writes no key.
LEMMA CheckingCopies ==
    ASSUME Types, Copies, NEW t \in Threads, Checking(t)
    PROVE  Copies'
  <1> DEFINE f == frame[t]
             g == frame'[t]
  <1>1. f \in Frame /\ ThreadOK(f) /\ t \in Procs /\ f.pc \in CheckPCs
    BY DEF Types, Frames, Procs, Checking, Mend, Count, SetFresh, Holds, GiveBack, CheckGcra,
           CheckPCs
  <1>2. key' = key /\ ticks' = ticks
    BY DEF Checking, Mend, Count, SetFresh, Holds, GiveBack, CheckGcra, slotVars, history
  <1>3. \A h : Goto(t, h) => g = h /\ Goto(t, g)
    BY <1>1 DEF Goto, Types, Frames
  <1>4. CASE Goto(t, Idle)
    <2>1. g.pc = "idle" /\ Goto(t, g)
      BY <1>3, <1>4 DEF Idle
    <2> QED
      BY <1>1, <1>2, <2>1, QuietStep DEF InClaim, ReleasePCs, CheckPCs
  <1>5. ASSUME NEW pc \in CheckPCs, Goto(t, [f EXCEPT !.pc = pc])
        PROVE  Copies'
    <2>1. g = [f EXCEPT !.pc = pc] /\ Goto(t, g)
      BY <1>3, <1>5
    <2>2. g.pc = pc /\ g.key = f.key /\ g.winner = f.winner
      BY <1>1, <2>1 DEF Frame
    <2>3. ~ InClaim(f) /\ ~ InClaim(g)
      BY <1>1, <1>5, <2>2 DEF InClaim, ReleasePCs, CheckPCs
    <2>4. ticks = 0 /\ g.winner # Overflow => Kept(key, g.key, g.winner)
      BY <1>1, <2>2 DEF Copies, Survives
    <2> QED
      BY <1>2, <2>1, <2>3, <2>4, QuietStep
  <1>6. Goto(t, Idle) \/ \E pc \in CheckPCs : Goto(t, [f EXCEPT !.pc = pc])
    BY DEF Checking, Mend, Count, SetFresh, Holds, GiveBack, CheckGcra, CheckPCs
  <1> QED
    BY <1>4, <1>5, <1>6

\* A first look at the candidates writes no key.
LEMMA FindCopies ==
    ASSUME Types, Copies, NEW t \in Threads, Find(t) \/ Weigh(t)
    PROVE  Copies'
  <1> DEFINE f == frame[t]
             g == frame'[t]
             c == Candidates(f.key)
  <1>1. f \in Frame /\ ThreadOK(f) /\ t \in Procs /\ f.pc \in {"find", "weigh", "compare"}
        /\ f.key \in Keys
    <2>1. f \in Frame /\ ThreadOK(f) /\ t \in Procs /\ f.pc \in {"find", "weigh", "compare"}
      BY DEF Types, Frames, Procs, Find, Weigh
    <2> QED
      BY <2>1 DEF ThreadOK
  <1>2. key' = key /\ ticks' = ticks
    BY DEF Find, Weigh, slotVars, history
  <1>3. \A h : Goto(t, h) => g = h /\ Goto(t, g)
    BY <1>1 DEF Goto, Types, Frames
  <1>4. CASE f.i \in DOMAIN c /\ key[c[f.i]] = f.key /\ Goto(t, Claimed(f, c[f.i], FALSE))
    <2>0. c[f.i] \in Slots
      BY <1>1, <1>4, CandidatesType DEF CandidateSet
    <2> DEFINE s == c[f.i]
    <2> HIDE DEF s
    <2>1. g = Claimed(f, s, FALSE) /\ Goto(t, g)
      BY <1>3, <1>4 DEF s
    <2>2. Claimed(f, s, FALSE).pc = "mend" /\ Claimed(f, s, FALSE).key = f.key
          /\ Claimed(f, s, FALSE).winner = s
      BY IdleOK DEF Claimed, Frame
    <2>3. g.pc = "mend" /\ g.key = f.key /\ g.winner = s
      BY <2>1, <2>2
    <2>4. Kept(key, g.key, g.winner)
      BY <1>4, <2>0, <2>3 DEF Kept, s
    <2> QED
      BY <1>1, <1>2, <2>1, <2>3, <2>4, QuietStep DEF InClaim, ReleasePCs
  <1>5. CASE g.pc \in {"find", "weigh", "compare", "take"} /\ Goto(t, g)
    BY <1>1, <1>2, <1>5, QuietStep DEF InClaim, ReleasePCs, CheckPCs
  <1>6. CASE Find(t)
    <2>1. f.i \in DOMAIN c
      BY <1>1, <1>6 DEF Find, ThreadOK
    <2>2. CASE Goto(t, [f EXCEPT !.i = @ + 1])
      <3>1. [f EXCEPT !.i = @ + 1].pc = f.pc
        BY <1>1 DEF Frame
      <3> QED
        BY <1>1, <1>3, <1>5, <2>2, <3>1
    <2>3. CASE Goto(t, [f EXCEPT !.pc = "weigh", !.i = 1])
      <3>1. [f EXCEPT !.pc = "weigh", !.i = 1].pc = "weigh"
        BY <1>1 DEF Frame
      <3> QED
        BY <1>3, <1>5, <2>3, <3>1
    <2> QED
      BY <1>4, <1>6, <2>1, <2>2, <2>3 DEF Find
  <1>7. CASE Weigh(t)
    <2>1. \A i, b : [f EXCEPT !.pc = "compare", !.i = i].pc = "compare"
                    /\ [f EXCEPT !.pc = "take", !.i = 1, !.flag = b].pc = "take"
      BY <1>1 DEF Frame
    <2>2. \/ \E i : Goto(t, [f EXCEPT !.pc = "compare", !.i = i])
          \/ \E b : Goto(t, [f EXCEPT !.pc = "take", !.i = 1, !.flag = b])
      BY <1>7 DEF Weigh
    <2> QED
      BY <1>3, <1>5, <2>1, <2>2, ZenonT(40)
  <1> QED
    BY <1>6, <1>7

\* No step of the walks resets a slot itself.
LEMMA TickingPCs ==
    ASSUME Types, Ticking
    PROVE  frame'[Driver].pc \notin {"reset", "vacate"}
  <1> DEFINE f == frame[Driver]
             g == frame'[Driver]
  <1>1. f \in Frame /\ DriverOK(f)
    BY DEF Types, Frames, Procs
  <1>2. \A h : Goto(Driver, h) => g = h
    BY DEF Goto, Types, Frames, Procs
  <1>3. \A pc : [Idle EXCEPT !.pc = pc].pc = pc
    BY IdleOK DEF Frame
  <1>8. CASE Tick \/ CoreTick
    BY <1>2, <1>3, <1>8 DEF Tick, CoreTick
  <1>9. ASSUME NEW at, NEW wanted, NEW there, NEW after, Walk(at, wanted, there, after),
               f.pc \notin {"reset", "vacate"}, there \notin {"reset", "vacate"},
               after.pc \notin {"reset", "vacate"}
        PROVE  g.pc \notin {"reset", "vacate"}
    <2>1. CASE Goto(Driver, after)
      BY <1>2, <1>9, <2>1
    <2>2. CASE Goto(Driver, [f EXCEPT !.i = @ + 1])
      <3>1. g = [f EXCEPT !.i = @ + 1]
        BY <1>2, <2>2
      <3>2. g.pc = f.pc
        BY <1>1, <3>1 DEF Frame
      <3> QED
        BY <1>9, <3>2
    <2>3. CASE Goto(Driver, [f EXCEPT !.pc = there, !.key = key[f.i], !.victim = f.i,
                                      !.i = @ + 1, !.next = at])
      <3>1. g = [f EXCEPT !.pc = there, !.key = key[f.i], !.victim = f.i, !.i = @ + 1, !.next = at]
        BY <1>2, <2>3
      <3>2. g.pc = there
        BY <1>1, <3>1 DEF Frame
      <3> QED
        BY <1>9, <3>2
    <2> QED
      BY <1>9, <2>1, <2>2, <2>3 DEF Walk
  <1>10. CASE Collect
    <2> DEFINE after == [Idle EXCEPT !.pc = "tick"]
    <2>1. after.pc = "tick"
      BY IdleOK DEF Frame
    <2>2. Walk("collect", Keys, "tally", after)
      BY <1>10 DEF Collect
    <2>3. f.pc = "collect"
      BY <2>2 DEF Walk
    <2> HIDE DEF after
    <2> QED
      BY <1>9, <2>1, <2>2, <2>3
  <1>11. CASE Apply
    <2> DEFINE after == [Idle EXCEPT !.pc = "refill"]
    <2>1. after.pc = "refill"
      BY IdleOK DEF Frame
    <2>2. Walk("apply", Keys, "settle", after)
      BY <1>11 DEF Apply
    <2>3. f.pc = "apply"
      BY <2>2 DEF Walk
    <2> HIDE DEF after
    <2> QED
      BY <1>9, <2>1, <2>2, <2>3
  <1>12. CASE Refill
    <2> DEFINE after == [Idle EXCEPT !.pc = "store", !.victim = Overflow]
    <2>1. after.pc = "store"
      BY IdleOK DEF Frame
    <2>2. Walk("refill", {EMPTY}, "store", after)
      BY <1>12 DEF Refill
    <2>3. f.pc = "refill"
      BY <2>2 DEF Walk
    <2> HIDE DEF after
    <2> QED
      BY <1>9, <2>1, <2>2, <2>3
  <1>13. CASE Tally
    <2> DEFINE b == counted[f.victim]
    <2>1. g = [f EXCEPT !.pc = "record", !.flag = b]
      BY <1>2, <1>13 DEF Tally
    <2> HIDE DEF b
    <2>2. g.pc = "record"
      BY <1>1, <2>1 DEF Frame
    <2> QED
      BY <2>2
  <1>14. CASE Settle
    <2>1. PICK pc \in {"store", "free"} : \E to : Goto(Driver, [f EXCEPT !.pc = pc, !.to = to])
      BY <1>14 DEF Settle, SettleTracked, SettleDropped, SettleKept
    <2>2. PICK to : Goto(Driver, [f EXCEPT !.pc = pc, !.to = to])
      BY <2>1
    <2>3. g = [f EXCEPT !.pc = pc, !.to = to]
      BY <1>2, <2>2
    <2>4. g.pc = pc
      BY <1>1, <2>3 DEF Frame
    <2> QED
      BY <2>4
  <1>15. CASE Store
    BY <1>1, <1>2, <1>15, ReleasedOn DEF Store, DriverOK
  <1>16. CASE Record
    <2>1. Released(f) \in Frame /\ Released(f).pc = "collect"
      BY <1>1, <1>16, ReleasedOn DEF Record, DriverOK
    <2>2. [Released(f) EXCEPT !.flag = FALSE].pc = "collect"
      BY <2>1 DEF Frame
    <2> QED
      BY <1>2, <1>16, <2>2 DEF Record
  <1> QED
    BY <1>8, <1>10, <1>11, <1>12, <1>13, <1>14, <1>15, <1>16 DEF Ticking

\* The inductive invariant.
LEMMA InvStep == Types /\ Copies /\ [Next]_vars => Copies'
  <1> SUFFICES ASSUME Types, Copies, [Next]_vars PROVE Copies'
    OBVIOUS
  <1>a. Driver \in Procs /\ Driver \notin Threads /\ frame \in [Procs -> Frame]
    BY NamesAssumption DEF Procs, Types, Frames
  <1>1. CASE UNCHANGED vars \/ Finished
    BY <1>1 DEF Finished, vars, Copies, Placed, Pairs, Survives, BusyOwned, Resets
  <1>2. ASSUME NEW t \in Threads, NEW k \in Keys, Start(t, k) PROVE Copies'
    <2> DEFINE g == [Idle EXCEPT !.pc = "find", !.key = k]
    <2>1. g.pc = "find"
      BY IdleOK DEF Frame
    <2>2. Goto(t, g) /\ key' = key /\ ticks' = ticks /\ frame[t].pc = "idle"
      BY <1>2 DEF Start, slotVars
    <2> HIDE DEF g
    <2> QED
      BY <2>1, <2>2, QuietStep DEF InClaim, ReleasePCs, CheckPCs
  <1>3. ASSUME NEW t \in Threads, Claiming(t) PROVE Copies'
    BY <1>3, FindCopies, TakeCopies, RecheckCopies DEF Claiming
  <1>4. ASSUME NEW t \in Threads, Checking(t) PROVE Copies'
    BY <1>4, CheckingCopies
  <1>5. ASSUME NEW p \in Procs, Releasing(p) PROVE Copies'
    BY <1>5, ReleasingCopies
  <1>6. CASE Ticking
    <2> DEFINE f == frame[Driver]
               g == frame'[Driver]
    <2>1. key' = key
      BY <1>6 DEF Ticking, Tick, Collect, Apply, Refill, Walk, Tally, Record, CoreTick, Settle,
                  Store, slotVars
    <2>2. Goto(Driver, g)
      BY <1>6, <1>a DEF Ticking, Tick, Collect, Apply, Refill, Walk, Tally, Record, CoreTick,
                  Settle, SettleTracked, SettleDropped, SettleKept, Store, Goto
    <2>3. ticks' # 0 \/ (ticks' = ticks /\ f.pc # "idle")
      <3>1. CASE Tick
        BY <3>1, BoundsAssumption DEF Tick, Types, TypeOK
      <3>2. CASE ~Tick
        BY <1>6, <3>2 DEF Ticking, Collect, Apply, Refill, Walk, Tally, Record, CoreTick, Settle,
                          Store, history
      <3> QED
        BY <3>1, <3>2
    <2>4. f.pc \notin {"reset", "vacate"}
      BY <1>6 DEF Ticking, Tick, Collect, Apply, Refill, Walk, Tally, Record, CoreTick, Settle,
                  Store
    <2>5. g.pc \notin {"reset", "vacate"}
      BY <1>6, TickingPCs
    <2> QED
      BY <2>1, <2>2, <2>3, <2>4, <2>5, DriverStep
  <1> QED
    BY <1>1, <1>2, <1>3, <1>4, <1>5, <1>6 DEF Next

\* Two copies: one of the two is before the other.
LEMMA CopiesGiveExactlyOne == Types /\ Copies => ExactlyOneCopy
  <1> SUFFICES ASSUME Types, Copies PROVE ExactlyOneCopy
    OBVIOUS
  <1>1. OneCopy
    <2> SUFFICES ASSUME NEW r \in Slots, NEW s \in Slots, r # s, key[r] \in Keys, key[r] = key[s]
                 PROVE  \E t \in Threads : frame[t].key = key[r] /\ InClaim(frame[t])
      BY DEF OneCopy, InClaim, ReleasePCs
    <2>1. r \in CandidateSet(key[r]) /\ s \in CandidateSet(key[r])
      BY DEF Copies, Placed, AllSlots
    <2>2. Before(key[r], r, s) \/ Before(key[r], s, r)
      BY <2>1, BeforeIsTotal
    <2> QED
      BY <2>2 DEF Copies, Pairs
  <1>2. OneSurvives
    BY DEF OneSurvives, Copies, Survives, Kept, CheckPCs
  <1> QED
    BY <1>1, <1>2 DEF ExactlyOneCopy, Types, Copies

\* However two threads cross over one key and its seat (claim), the table ends
\* with one copy of the key, neither two nor none, and no slot is reset by two
\* processes (release).
THEOREM KeysHaveOneCopy == Spec => []ExactlyOneCopy
  <1>1. Init => Types /\ Copies
    BY TypesInit, CopiesInit
  <1>2. Types /\ Copies /\ [Next]_vars => (Types /\ Copies)'
    BY TypesStep, InvStep
  <1>3. Types /\ Copies => ExactlyOneCopy
    BY CopiesGiveExactlyOne
  <1> QED
    BY <1>1, <1>2, <1>3, PTL DEF Spec

----------------------------------------------------------------------------
(***************************************************************************)
(* A calm tick settles the table.  TickSettles speaks of the tick that is  *)
(* over; Settling says what each of its three walks has done so far: the   *)
(* core was told the class of each slot collected, the slots given their   *)
(* quota have their class's, those refilled the strict one.  That what the *)
(* core was told of one slot is not told over by another rests on OneCopy. *)
(***************************************************************************)
\* The core knows no other class of the slot's key than the slot's.
Told(s) == key[s] \in Keys => limit[key[s]] \in {Untracked, class[s]}

\* The slot's quota is that of its class; a free one's is the strict one.
Given(s) == key[s] \in Keys => quota[s] = class[s]
Refilled(s) == key[s] = EMPTY => quota[s] = Strict

\* The slots a walk is through with.
Visited(f) == {s \in Slots : s < f.i /\ s # f.victim}

\* The walk a slot is visited in.
WalkPCs == {"collect", "apply", "refill"}
Collects(f) == f.pc \in {"collect", "tally", "record"}
Gives(f) ==
    f.pc \in {"apply", "settle"} \cup ReleasePCs \/ (f.pc = "store" /\ f.next = "apply")
Refills(f) == f.pc = "refill" \/ (f.pc = "store" /\ f.next = "refill")
Ends(f) == f.pc = "store" /\ f.next = "idle"

\* What the driver's frame says of the table, if no check came between.
Walked(f) ==
    /\ f.pc \in WalkPCs => f.victim = NoSlot /\ f.to = Strict
    /\ f.pc \in {"tally", "record", "settle", "free"} => key[f.victim] = f.key
    /\ Collects(f) => \A s \in Visited(f) : Told(s)
    /\ Gives(f) \/ f.pc = "tick" => \A s \in Slots : Told(s)
    /\ Gives(f) => \A s \in Visited(f) : Given(s)
    /\ f.pc = "store" /\ f.next = "apply" => f.to = class[f.victim]
    /\ Refills(f) \/ Ends(f) \/ f.pc = "idle" => \A s \in Slots : Given(s)
    /\ Refills(f) => \A s \in Visited(f) : Refilled(s)
    /\ f.pc = "store" /\ f.next = "refill" => key[f.victim] = EMPTY /\ f.to = Strict
    /\ Ends(f) \/ f.pc = "idle" => \A s \in Slots : Refilled(s)
    /\ Ends(f) => f.victim = Overflow /\ f.to = Strict
    /\ f.pc = "idle" => quota[Overflow] = Strict

Resting == \A t \in Threads : frame[t].pc = "idle"

Settling == calm => Resting /\ Walked(frame[Driver])

\* What one step of a walk does: it ends, stops at a slot, or passes one by.
LEMMA WalkIs ==
    ASSUME Types, NEW at \in WalkPCs, NEW wanted, NEW there, NEW after,
           Walk(at, wanted, there, after)
    PROVE  LET f == frame[Driver]
               g == frame'[Driver]
           IN
           /\ f \in Frame /\ DriverOK(f) /\ f.pc = at /\ f.i \in Nat
           /\ \/ g = after /\ \A s \in Slots : s < f.i
              \/ /\ f.i \in Slots /\ key[f.i] \in wanted
                 /\ g.pc = there /\ g.key = key[f.i] /\ g.victim = f.i /\ g.i = f.i + 1
                 /\ g.next = at /\ g.to = f.to
              \/ /\ f.i \in Slots /\ key[f.i] \notin wanted
                 /\ g.pc = at /\ g.victim = f.victim /\ g.i = f.i + 1 /\ g.to = f.to
           /\ \A t \in Threads : frame'[t] = frame[t]
           /\ UNCHANGED <<key, quota, class, limit, calm>>
  <1> DEFINE f == frame[Driver]
             g == frame'[Driver]
  <1>0. Driver \in Procs /\ Driver \notin Threads /\ Threads \subseteq Procs
    BY NamesAssumption DEF Procs
  <1>1. f \in Frame /\ DriverOK(f) /\ frame \in [Procs -> Frame]
    BY <1>0 DEF Types, Frames
  <1>2. f.pc = at /\ f.i \in Nat /\ f.i >= 1
    BY <1>1 DEF Walk, Frame, DriverOK, WalkPCs
  <1>3. \A h : Goto(Driver, h) => g = h /\ \A t \in Threads : frame'[t] = frame[t]
    BY <1>0, <1>1 DEF Goto
  <1>4. \/ f.i > NSlots /\ Goto(Driver, after)
        \/ f.i <= NSlots /\ key[f.i] \in wanted
           /\ Goto(Driver, [f EXCEPT !.pc = there, !.key = key[f.i], !.victim = f.i,
                                     !.i = @ + 1, !.next = at])
        \/ f.i <= NSlots /\ key[f.i] \notin wanted /\ Goto(Driver, [f EXCEPT !.i = @ + 1])
    BY DEF Walk
  <1>5. UNCHANGED <<key, quota, class, limit, calm>>
    BY DEF Walk, slotVars, history
  <1>6. CASE f.i > NSlots /\ Goto(Driver, after)
    BY <1>1, <1>2, <1>3, <1>5, <1>6, BoundsAssumption DEF Slots
  <1>7. CASE f.i <= NSlots /\ key[f.i] \in wanted
             /\ Goto(Driver, [f EXCEPT !.pc = there, !.key = key[f.i], !.victim = f.i,
                                       !.i = @ + 1, !.next = at])
    <2>1. f.i \in Slots
      BY <1>2, <1>7, BoundsAssumption DEF Slots
    <2>2. g = [f EXCEPT !.pc = there, !.key = key[f.i], !.victim = f.i,
                        !.i = @ + 1, !.next = at]
      BY <1>3, <1>7
    <2>3. g.pc = there /\ g.key = key[f.i] /\ g.victim = f.i /\ g.i = f.i + 1
          /\ g.next = at /\ g.to = f.to
      BY <1>1, <2>2 DEF Frame
    <2> QED
      BY <1>1, <1>2, <1>3, <1>5, <1>7, <2>1, <2>3
  <1>8. CASE f.i <= NSlots /\ key[f.i] \notin wanted /\ Goto(Driver, [f EXCEPT !.i = @ + 1])
    <2>1. f.i \in Slots
      BY <1>2, <1>8, BoundsAssumption DEF Slots
    <2>2. g = [f EXCEPT !.i = @ + 1]
      BY <1>3, <1>8
    <2>3. g.pc = at /\ g.victim = f.victim /\ g.i = f.i + 1 /\ g.to = f.to
      BY <1>1, <1>2, <2>2 DEF Frame
    <2> QED
      BY <1>1, <1>2, <1>3, <1>5, <1>8, <2>1, <2>3
  <1> QED
    BY <1>4, <1>6, <1>7, <1>8

\* A step of collect's, apply's or refill's walk.
LEMMA WalkSettles ==
    ASSUME Types, Settling, calm, Collect \/ Apply \/ Refill
    PROVE  Settling'
  <1> DEFINE f == frame[Driver]
             g == frame'[Driver]
  <1>0. \A s \in Slots : s \in Nat /\ s # NoSlot /\ s # Overflow
    BY DEF Slots, NoSlot, Overflow
  <1>1. Resting /\ Walked(f)
    BY DEF Settling
  <1>3. CASE Collect
    <2> DEFINE after == [Idle EXCEPT !.pc = "tick"]
    <2>0. after.pc = "tick"
      BY IdleOK DEF Frame
    <2>1. Walk("collect", Keys, "tally", after)
      BY <1>3 DEF Collect
    <2> HIDE DEF after
    <2>2. /\ f.pc = "collect" /\ f.i \in Nat
          /\ \/ g = after /\ \A s \in Slots : s < f.i
             \/ f.i \in Slots /\ g.pc = "tally" /\ g.key = key[f.i] /\ g.victim = f.i
                /\ g.i = f.i + 1
             \/ f.i \in Slots /\ key[f.i] \notin Keys /\ g.pc = "collect"
                /\ g.victim = f.victim /\ g.i = f.i + 1 /\ g.to = f.to
          /\ \A t \in Threads : frame'[t] = frame[t]
          /\ UNCHANGED <<key, quota, class, limit, calm>>
      BY <2>1, WalkIs DEF WalkPCs
    <2>3. f.victim = NoSlot /\ f.to = Strict /\ \A s \in Visited(f) : Told(s)
      BY <1>1, <2>2 DEF Walked, WalkPCs, Collects
    <2>4. \A s \in Slots : s < f.i => Told(s)
      BY <2>3, <1>0 DEF Visited
    <2>5. Resting'
      BY <1>1, <2>2 DEF Resting
    <2>6. \A s \in Slots : Told(s) => Told(s)'
      BY <2>2 DEF Told
    <2>7. CASE g = after /\ \A s \in Slots : s < f.i
      <3>1. g.pc = "tick" /\ \A s \in Slots : Told(s)'
        BY <2>0, <2>4, <2>6, <2>7
      <3> QED
        BY <2>5, <3>1 DEF Settling, Walked, WalkPCs, Collects, Gives, Refills, Ends, ReleasePCs
    <2>8. CASE f.i \in Slots /\ g.pc = "tally" /\ g.key = key[f.i] /\ g.victim = f.i
               /\ g.i = f.i + 1
      <3>1. key'[g.victim] = g.key
        BY <2>2, <2>8
      <3>2. \A s \in Slots : s < g.i /\ s # g.victim => Told(s)'
        BY <1>0, <2>2, <2>4, <2>6, <2>8
      <3> QED
        BY <2>5, <2>8, <3>1, <3>2
           DEF Settling, Walked, WalkPCs, Collects, Gives, Refills, Ends, ReleasePCs, Visited
    <2>9. CASE f.i \in Slots /\ key[f.i] \notin Keys /\ g.pc = "collect"
               /\ g.victim = f.victim /\ g.i = f.i + 1 /\ g.to = f.to
      <3>1. Told(f.i)
        BY <2>9 DEF Told
      <3>2. \A s \in Slots : s < g.i => Told(s)'
        BY <1>0, <2>2, <2>4, <2>6, <2>9, <3>1
      <3>3. g.victim = NoSlot /\ g.to = Strict
        BY <2>3, <2>9
      <3> QED
        BY <2>5, <2>9, <3>2, <3>3
           DEF Settling, Walked, WalkPCs, Collects, Gives, Refills, Ends, ReleasePCs, Visited
    <2> QED
      BY <2>2, <2>7, <2>8, <2>9
  <1>4. CASE Apply
    <2> DEFINE after == [Idle EXCEPT !.pc = "refill"]
    <2>0. after.pc = "refill" /\ after.i = 1 /\ after.victim = NoSlot /\ after.to = Strict
      BY DEF Idle
    <2>1. Walk("apply", Keys, "settle", after)
      BY <1>4 DEF Apply
    <2> HIDE DEF after
    <2>2. /\ f.pc = "apply" /\ f.i \in Nat
          /\ \/ g = after /\ \A s \in Slots : s < f.i
             \/ f.i \in Slots /\ g.pc = "settle" /\ g.key = key[f.i] /\ g.victim = f.i
                /\ g.i = f.i + 1
             \/ f.i \in Slots /\ key[f.i] \notin Keys /\ g.pc = "apply"
                /\ g.victim = f.victim /\ g.i = f.i + 1 /\ g.to = f.to
          /\ \A t \in Threads : frame'[t] = frame[t]
          /\ UNCHANGED <<key, quota, class, limit, calm>>
      BY <2>1, WalkIs DEF WalkPCs
    <2>3. /\ f.victim = NoSlot /\ f.to = Strict
          /\ \A s \in Slots : Told(s)
          /\ \A s \in Visited(f) : Given(s)
      BY <1>1, <2>2 DEF Walked, WalkPCs, Gives
    <2>4. \A s \in Slots : s < f.i => Given(s)
      BY <2>3, <1>0 DEF Visited
    <2>5. Resting'
      BY <1>1, <2>2 DEF Resting
    <2>6. \A s \in Slots : Told(s)' /\ (Given(s) => Given(s)')
      BY <2>2, <2>3 DEF Told, Given
    <2>7. CASE g = after /\ \A s \in Slots : s < f.i
      <3>1. \A s \in Slots : Given(s)'
        BY <2>4, <2>6, <2>7
      <3>2. g.pc = "refill" /\ g.victim = NoSlot /\ g.to = Strict
            /\ \A s \in Slots : ~ (s < g.i)
        BY <2>0, <2>7 DEF Slots
      <3> QED
        BY <2>5, <3>1, <3>2
           DEF Settling, Walked, WalkPCs, Collects, Gives, Refills, Ends, ReleasePCs, Visited
    <2>8. CASE f.i \in Slots /\ g.pc = "settle" /\ g.key = key[f.i] /\ g.victim = f.i
               /\ g.i = f.i + 1
      <3>1. key'[g.victim] = g.key
        BY <2>2, <2>8
      <3>2. \A s \in Slots : s < g.i /\ s # g.victim => Given(s)'
        BY <1>0, <2>2, <2>4, <2>6, <2>8
      <3> QED
        BY <2>5, <2>6, <2>8, <3>1, <3>2
           DEF Settling, Walked, WalkPCs, Collects, Gives, Refills, Ends, ReleasePCs, Visited
    <2>9. CASE f.i \in Slots /\ key[f.i] \notin Keys /\ g.pc = "apply"
               /\ g.victim = f.victim /\ g.i = f.i + 1 /\ g.to = f.to
      <3>1. Given(f.i)
        BY <2>9 DEF Given
      <3>2. \A s \in Slots : s < g.i => Given(s)'
        BY <1>0, <2>2, <2>4, <2>6, <2>9, <3>1
      <3>3. g.victim = NoSlot /\ g.to = Strict
        BY <2>3, <2>9
      <3> QED
        BY <2>5, <2>6, <2>9, <3>2, <3>3
           DEF Settling, Walked, WalkPCs, Collects, Gives, Refills, Ends, ReleasePCs, Visited
    <2> QED
      BY <2>2, <2>7, <2>8, <2>9
  <1>5. CASE Refill
    <2> DEFINE after == [Idle EXCEPT !.pc = "store", !.victim = Overflow]
    <2>0. after.pc = "store" /\ after.victim = Overflow /\ after.to = Strict
          /\ after.next = "idle"
      BY DEF Idle
    <2>1. Walk("refill", {EMPTY}, "store", after)
      BY <1>5 DEF Refill
    <2> HIDE DEF after
    <2>a. \A k : (k \in {EMPTY} <=> k = EMPTY) /\ (k \notin {EMPTY} <=> k # EMPTY)
      OBVIOUS
    <2>2. /\ f.pc = "refill" /\ f.i \in Nat
          /\ \/ g = after /\ \A s \in Slots : s < f.i
             \/ f.i \in Slots /\ key[f.i] = EMPTY /\ g.pc = "store" /\ g.victim = f.i
                /\ g.i = f.i + 1 /\ g.next = "refill" /\ g.to = f.to
             \/ f.i \in Slots /\ key[f.i] # EMPTY /\ g.pc = "refill"
                /\ g.victim = f.victim /\ g.i = f.i + 1 /\ g.to = f.to
          /\ \A t \in Threads : frame'[t] = frame[t]
          /\ UNCHANGED <<key, quota, class, limit, calm>>
      BY <2>1, <2>a, WalkIs DEF WalkPCs
    <2>3. /\ f.victim = NoSlot /\ f.to = Strict
          /\ \A s \in Slots : Given(s)
          /\ \A s \in Visited(f) : Refilled(s)
      BY <1>1, <2>2 DEF Walked, WalkPCs, Refills
    <2>4. \A s \in Slots : s < f.i => Refilled(s)
      BY <2>3, <1>0 DEF Visited
    <2>5. Resting'
      BY <1>1, <2>2 DEF Resting
    <2>6. \A s \in Slots : Given(s)' /\ (Refilled(s) => Refilled(s)')
      BY <2>2, <2>3 DEF Refilled, Given
    <2>7. CASE g = after /\ \A s \in Slots : s < f.i
      <3>1. \A s \in Slots : Refilled(s)'
        BY <2>4, <2>6, <2>7
      <3>2. g.pc = "store" /\ g.victim = Overflow /\ g.to = Strict /\ g.next = "idle"
        BY <2>0, <2>7
      <3> QED
        BY <2>5, <2>6, <3>1, <3>2
           DEF Settling, Walked, WalkPCs, Collects, Gives, Refills, Ends, ReleasePCs, Visited
    <2>8. CASE f.i \in Slots /\ key[f.i] = EMPTY /\ g.pc = "store" /\ g.victim = f.i
               /\ g.i = f.i + 1 /\ g.next = "refill" /\ g.to = f.to
      <3>1. key'[g.victim] = EMPTY /\ g.to = Strict
        BY <2>2, <2>3, <2>8
      <3>2. \A s \in Slots : s < g.i /\ s # g.victim => Refilled(s)'
        BY <1>0, <2>2, <2>4, <2>6, <2>8
      <3> QED
        BY <2>5, <2>6, <2>8, <3>1, <3>2
           DEF Settling, Walked, WalkPCs, Collects, Gives, Refills, Ends, ReleasePCs, Visited
    <2>9. CASE f.i \in Slots /\ key[f.i] # EMPTY /\ g.pc = "refill"
               /\ g.victim = f.victim /\ g.i = f.i + 1 /\ g.to = f.to
      <3>1. Refilled(f.i)
        BY <2>9 DEF Refilled
      <3>2. \A s \in Slots : s < g.i => Refilled(s)'
        BY <1>0, <2>2, <2>4, <2>6, <2>9, <3>1
      <3>3. g.victim = NoSlot /\ g.to = Strict
        BY <2>3, <2>9
      <3> QED
        BY <2>5, <2>6, <2>9, <3>2, <3>3
           DEF Settling, Walked, WalkPCs, Collects, Gives, Refills, Ends, ReleasePCs, Visited
    <2> QED
      BY <2>2, <2>7, <2>8, <2>9
  <1> QED
    BY <1>3, <1>4, <1>5

\* A step of the background task leaves the callers where they are.
LEMMA CallersRest ==
    ASSUME Types, NEW g, Goto(Driver, g)
    PROVE  frame'[Driver] = g /\ (Resting => Resting')
  <1>1. Driver \in Procs /\ Driver \notin Threads /\ Threads \subseteq Procs
    BY NamesAssumption DEF Procs
  <1> QED
    BY <1>1 DEF Types, Frames, Goto, Resting

\* The walk goes on from a visit without a slot in hand.
LEMMA VisitOver ==
    ASSUME NEW f \in Frame, f.next \in WalkPCs \cup {"idle"}
    PROVE  LET g == Released(f) IN
           /\ g.pc = f.next /\ g.i = f.i /\ g.victim = NoSlot /\ g.to = Strict
           /\ g.next = "idle"
           /\ [g EXCEPT !.flag = FALSE].pc = f.next
           /\ [g EXCEPT !.flag = FALSE].i = f.i
           /\ [g EXCEPT !.flag = FALSE].victim = NoSlot
           /\ [g EXCEPT !.flag = FALSE].to = Strict
  BY DEF Released, Frame, WalkPCs

\* A tick that starts with no caller at work is calm.
LEMMA TickCalm ==
    ASSUME Types, Tick
    PROVE  Settling'
  <1> DEFINE g == [Idle EXCEPT !.pc = "collect"]
  <1>1. g.pc = "collect" /\ g.i = 1 /\ g.victim = NoSlot /\ g.to = Strict
    BY DEF Idle
  <1>2. Goto(Driver, g) /\ calm' = Resting
    BY DEF Tick, Resting
  <1> HIDE DEF g
  <1>3. frame'[Driver] = g /\ (calm' => Resting')
    BY <1>2, CallersRest
  <1>4. \A s \in Slots : ~ (s < g.i)
    BY <1>1 DEF Slots
  <1> QED
    BY <1>1, <1>3, <1>4
       DEF Settling, Walked, WalkPCs, Collects, Gives, Refills, Ends, ReleasePCs, Visited

\* What was counted in the slot visited is not what Settling is about.
LEMMA TallySettles ==
    ASSUME Types, Settling, calm, Tally
    PROVE  Settling'
  <1> DEFINE f == frame[Driver]
             g == frame'[Driver]
  <1>1. f \in Frame /\ f.pc = "tally"
    BY DEF Tally, Types, Frames, Procs
  <1>2. g = [f EXCEPT !.pc = "record", !.flag = counted[f.victim]] /\ Resting'
    BY CallersRest DEF Tally, Settling
  <1>3. g.pc = "record" /\ g.i = f.i /\ g.victim = f.victim /\ g.key = f.key
    BY <1>1, <1>2 DEF Frame
  <1>4. UNCHANGED <<key, quota, class, limit>>
    BY DEF Tally
  <1>5. key[f.victim] = f.key /\ \A s \in Visited(f) : Told(s)
    BY <1>1 DEF Settling, Walked, Collects
  <1>6. \A s \in Slots : s < g.i /\ s # g.victim => Told(s)'
    BY <1>3, <1>4, <1>5 DEF Visited, Told
  <1> QED
    BY <1>2, <1>3, <1>4, <1>5, <1>6
       DEF Settling, Walked, WalkPCs, Collects, Gives, Refills, Ends, ReleasePCs, Visited

\* While no caller is at work a key has one slot.
LEMMA OneSlotEach ==
    ASSUME OneCopy, Resting, NEW r \in Slots, NEW s \in Slots, key[r] \in Keys, key[r] = key[s]
    PROVE  r = s
  BY DEF OneCopy, Resting

\* The class of the slot visited is told, or known; no other slot's is.
LEMMA RecordSettles ==
    ASSUME Types, OneCopy, Settling, calm, Record
    PROVE  Settling'
  <1> DEFINE f == frame[Driver]
             g == frame'[Driver]
             c == class[f.victim]
  <1>1. f \in Frame /\ f.pc = "record" /\ f.i \in Nat
        /\ f.key \in Keys /\ f.victim \in Slots /\ f.next = "collect"
    BY DEF Record, Types, Frames, Procs, DriverOK, Frame
  <1>2. g = [Released(f) EXCEPT !.flag = FALSE] /\ Resting /\ Resting'
    BY CallersRest DEF Record, Settling
  <1>3. g.pc = "collect" /\ g.i = f.i /\ g.victim = NoSlot /\ g.to = Strict
    BY <1>1, <1>2, VisitOver DEF WalkPCs
  <1>4. UNCHANGED <<key, quota, class>>
    BY DEF Record, slotVars
  <1>5. key[f.victim] = f.key /\ \A s \in Visited(f) : Told(s)
    BY <1>1 DEF Settling, Walked, Collects
  <1>6. /\ limit \in [Keys -> Classes \cup {Untracked}]
        /\ limit' = IF f.flag \/ limit[f.key] \notin {Untracked, c}
                    THEN [limit EXCEPT ![f.key] = c] ELSE limit
    BY DEF Record, Types, TypeOK
  <1>v. PICK v \in Slots : v = f.victim
    BY <1>1
  <1>7. Told(v)'
    BY <1>1, <1>4, <1>5, <1>6, <1>v DEF Told
  <1>8. \A s \in Slots : s < f.i /\ s # v => Told(s)'
    <2> SUFFICES ASSUME NEW s \in Slots, s < f.i, s # v, key[s] \in Keys
                 PROVE  limit'[key[s]] \in {Untracked, class[s]}
      BY <1>4 DEF Told
    <2>1. key[s] # f.key
      BY <1>1, <1>2, <1>5, <1>v, OneSlotEach
    <2>2. limit'[key[s]] = limit[key[s]]
      BY <1>6, <2>1
    <2> QED
      BY <1>5, <1>v, <2>2 DEF Visited, Told
  <1>9. \A s \in Slots : s < g.i => Told(s)'
    BY <1>3, <1>7, <1>8
  <1> QED
    BY <1>2, <1>3, <1>9
       DEF Settling, Walked, WalkPCs, Collects, Gives, Refills, Ends, ReleasePCs, Visited

\* The core forgets keys, and is told of none.
LEMMA CoreTickSettles ==
    ASSUME Types, Settling, calm, CoreTick
    PROVE  Settling'
  <1> DEFINE g == [Idle EXCEPT !.pc = "apply"]
  <1>1. g.pc = "apply" /\ g.i = 1 /\ g.victim = NoSlot /\ g.to = Strict
    BY DEF Idle
  <1>2. Goto(Driver, g)
    BY DEF CoreTick
  <1> HIDE DEF g
  <1>3. frame'[Driver] = g /\ Resting'
    BY <1>2, CallersRest DEF Settling
  <1>4. UNCHANGED <<key, quota, class>>
    BY DEF CoreTick
  <1>5. \A s \in Slots : ~ (s < g.i)
    BY <1>1 DEF Slots
  <1>6. \A k \in Keys : limit'[k] \in {Untracked, limit[k]}
    BY DEF CoreTick
  <1>7. \A s \in Slots : Told(s)
    BY DEF Settling, Walked, CoreTick
  <1>8. \A s \in Slots : Told(s)'
    BY <1>4, <1>6, <1>7 DEF Told
  <1> QED
    BY <1>1, <1>3, <1>5, <1>8
       DEF Settling, Walked, WalkPCs, Collects, Gives, Refills, Ends, ReleasePCs, Visited

\* What a slot visited is to be given is the quota of its class.
LEMMA SettleSettles ==
    ASSUME Types, Settling, calm, Settle
    PROVE  Settling'
  <1> DEFINE f == frame[Driver]
             g == frame'[Driver]
  <1>1. f \in Frame /\ f.pc = "settle" /\ f.i \in Nat
        /\ f.key \in Keys /\ f.victim \in Slots /\ f.next = "apply"
    BY DEF Settle, Types, Frames, Procs, DriverOK, Frame, ReleasePCs
  <1>2. /\ key[f.victim] = f.key
        /\ \A s \in Slots : Told(s)
        /\ \A s \in Visited(f) : Given(s)
    BY <1>1 DEF Settling, Walked, Gives
  <1>3. UNCHANGED <<key, quota, class, limit>>
    BY DEF Settle, slotVars
  <1>4. \A s \in Slots : Told(s)' /\ (s < f.i /\ s # f.victim => Given(s)')
    BY <1>2, <1>3 DEF Told, Given, Visited
  <1>5. \A h : Goto(Driver, h) => g = h /\ Resting'
    BY CallersRest DEF Settling
  <1>6. ASSUME NEW to, to = class[f.victim], Goto(Driver, [f EXCEPT !.pc = "store", !.to = to])
        PROVE  Settling'
    <2>0. g = [f EXCEPT !.pc = "store", !.to = to]
      BY <1>5, <1>6
    <2>1. g.pc = "store" /\ g.to = to /\ g.i = f.i /\ g.victim = f.victim /\ g.next = "apply"
      BY <1>1, <2>0 DEF Frame
    <2> QED
      BY <1>3, <1>4, <1>5, <1>6, <2>1
         DEF Settling, Walked, WalkPCs, Collects, Gives, Refills, Ends, ReleasePCs, Visited
  <1>7. CASE SettleTracked(f)
    <2>1. limit[f.key] = class[f.victim]
      BY <1>1, <1>2, <1>7 DEF SettleTracked, Told
    <2> QED
      BY <1>6, <1>7, <2>1 DEF SettleTracked
  <1>8. CASE SettleKept(f)
    BY <1>6, <1>8 DEF SettleKept
  <1>9. CASE SettleDropped(f)
    <2>1. g = [f EXCEPT !.pc = "free", !.to = Strict] /\ Resting'
      BY <1>5, <1>9 DEF SettleDropped
    <2>2. g.pc = "free" /\ g.i = f.i /\ g.victim = f.victim /\ g.key = f.key
      BY <1>1, <2>1 DEF Frame
    <2> QED
      BY <1>2, <1>3, <1>4, <2>1, <2>2
         DEF Settling, Walked, WalkPCs, Collects, Gives, Refills, Ends, ReleasePCs, Visited
  <1> QED
    BY <1>7, <1>8, <1>9 DEF Settle

\* The slot visited gets the quota it is to have.
LEMMA StoreSettles ==
    ASSUME Types, Settling, calm, Store
    PROVE  Settling'
  <1> DEFINE f == frame[Driver]
             g == frame'[Driver]
  <1>1. f \in Frame /\ f.pc = "store" /\ f.i \in Nat
        /\ f.victim \in AllSlots /\ f.next \in {"apply", "refill", "idle"}
    BY DEF Store, Types, Frames, Procs, DriverOK, Frame
  <1>2. g = Released(f) /\ Resting'
    BY CallersRest DEF Store, Settling
  <1>3. g.pc = f.next /\ g.i = f.i /\ g.victim = NoSlot /\ g.to = Strict
    BY <1>1, <1>2, VisitOver DEF WalkPCs
  <1>4. UNCHANGED <<key, class, limit>>
    BY DEF Store
  <1>5. /\ quota'[f.victim] = f.to
        /\ \A s \in AllSlots : s # f.victim => quota'[s] = quota[s]
    BY <1>1 DEF Store, Types, TypeOK
  <1>6. \A s \in Slots : s \in AllSlots /\ s # Overflow
    BY DEF AllSlots, Slots, Overflow
  <1>7. Walked(f)
    BY DEF Settling
  <1>8. CASE f.next = "apply"
    <2>1. /\ f.to = class[f.victim]
          /\ \A s \in Slots : Told(s)
          /\ \A s \in Visited(f) : Given(s)
      BY <1>1, <1>7, <1>8 DEF Walked, Gives
    <2>2. \A s \in Slots : s < f.i => Given(s)'
      BY <1>4, <1>5, <1>6, <2>1 DEF Visited, Given
    <2>3. \A s \in Slots : Told(s)'
      BY <1>4, <2>1 DEF Told
    <2> QED
      BY <1>2, <1>3, <1>8, <2>2, <2>3
         DEF Settling, Walked, WalkPCs, Collects, Gives, Refills, Ends, ReleasePCs, Visited
  <1>9. CASE f.next = "refill"
    <2>1. /\ key[f.victim] = EMPTY /\ f.to = Strict
          /\ \A s \in Slots : Given(s)
          /\ \A s \in Visited(f) : Refilled(s)
      BY <1>1, <1>7, <1>9 DEF Walked, Refills
    <2>2. \A s \in Slots : s < f.i => Refilled(s)'
      BY <1>4, <1>5, <1>6, <2>1 DEF Visited, Refilled
    <2>3. \A s \in Slots : Given(s)'
      BY <1>4, <1>5, <1>6, <2>1, NamesAssumption DEF Given
    <2> QED
      BY <1>2, <1>3, <1>9, <2>2, <2>3
         DEF Settling, Walked, WalkPCs, Collects, Gives, Refills, Ends, ReleasePCs, Visited
  <1>10. CASE f.next = "idle"
    <2>1. /\ f.victim = Overflow /\ f.to = Strict
          /\ \A s \in Slots : Given(s)
          /\ \A s \in Slots : Refilled(s)
      BY <1>1, <1>7, <1>10 DEF Walked, Ends
    <2>2. \A s \in Slots : Given(s)' /\ Refilled(s)'
      BY <1>4, <1>5, <1>6, <2>1 DEF Given, Refilled
    <2>3. quota'[Overflow] = Strict
      BY <1>5, <2>1
    <2> QED
      BY <1>2, <1>3, <1>10, <2>2, <2>3
         DEF Settling, Walked, WalkPCs, Collects, Gives, Refills, Ends, ReleasePCs, Visited
  <1> QED
    BY <1>1, <1>8, <1>9, <1>10

\* A slot that is freed needs no quota of a class.
LEMMA FreeingSettles ==
    ASSUME Types, BusyOwned, Settling, calm, Releasing(Driver)
    PROVE  Settling'
  <1> DEFINE f == frame[Driver]
             g == frame'[Driver]
             v == f.victim
  <1>1. f \in Frame /\ f.pc \in ReleasePCs /\ f.i \in Nat
        /\ f.key \in Keys /\ v \in Slots /\ f.next = "apply"
    BY DEF Releasing, Free, Reset, Vacate, Types, Frames, Procs, DriverOK, Frame, ReleasePCs
  <1>2. /\ f.pc = "free" => key[v] = f.key
        /\ \A s \in Slots : Told(s)
        /\ \A s \in Visited(f) : Given(s)
    BY <1>1 DEF Settling, Walked, Gives
  <1>3. \A h : Goto(Driver, h) => g = h /\ Resting'
    BY CallersRest DEF Settling
  <1>4. limit' = limit /\ key \in [AllSlots -> Keys \cup {EMPTY, BUSY}]
        /\ quota \in [AllSlots -> Classes \cup {Strict}] /\ class \in [AllSlots -> Classes]
    BY DEF Releasing, Free, Reset, Vacate, Types, TypeOK
  <1>5. v \in AllSlots /\ Slots \subseteq AllSlots
    BY <1>1 DEF AllSlots
  <1>6. ASSUME \A s \in Slots : s # v =>
                  key'[s] = key[s] /\ quota'[s] = quota[s] /\ class'[s] = class[s],
               key'[v] \notin Keys
        PROVE  /\ \A s \in Slots : Told(s)'
               /\ \A s \in Slots : s < f.i => Given(s)'
    BY <1>2, <1>4, <1>6 DEF Told, Given, Visited
  <1>7. CASE f.pc = "free"
    <2>1. Free(Driver) /\ key[v] = f.key
      BY <1>2, <1>7 DEF Releasing, Reset, Vacate
    <2>2. key' = [key EXCEPT ![v] = BUSY] /\ g = [f EXCEPT !.pc = "reset"] /\ Resting'
          /\ quota' = quota /\ class' = class
      BY <1>3, <2>1 DEF Free
    <2>3. g.pc = "reset" /\ g.i = f.i /\ g.victim = v
      BY <1>1, <2>2 DEF Frame
    <2>4. key'[v] \notin Keys /\ \A s \in Slots : s # v => key'[s] = key[s]
      BY <1>4, <1>5, <2>2, NamesAssumption
    <2>5. (\A s \in Slots : Told(s)') /\ (\A s \in Slots : s < f.i => Given(s)')
      BY <1>6, <2>2, <2>4
    <2> QED
      BY <2>2, <2>3, <2>5
         DEF Settling, Walked, WalkPCs, Collects, Gives, Refills, Ends, ReleasePCs, Visited
  <1>8. CASE f.pc = "reset"
    <2>1. Reset(Driver)
      BY <1>8 DEF Releasing, Free, Vacate
    <2>2. key' = key /\ quota' = [quota EXCEPT ![v] = f.to]
          /\ class' = [class EXCEPT ![v] = Default]
          /\ g = [f EXCEPT !.pc = "vacate"] /\ Resting'
      BY <1>3, <2>1 DEF Reset
    <2>3. g.pc = "vacate" /\ g.i = f.i /\ g.victim = v
      BY <1>1, <2>2 DEF Frame
    <2>4. key[v] = BUSY
      BY <1>5, <1>8 DEF BusyOwned, Resets, Procs
    <2>5. (\A s \in Slots : Told(s)') /\ (\A s \in Slots : s < f.i => Given(s)')
      BY <1>4, <1>5, <1>6, <2>2, <2>4, NamesAssumption
    <2> QED
      BY <2>2, <2>3, <2>5
         DEF Settling, Walked, WalkPCs, Collects, Gives, Refills, Ends, ReleasePCs, Visited
  <1>9. CASE f.pc = "vacate"
    <2>1. Vacate(Driver)
      BY <1>9 DEF Releasing, Free, Reset
    <2>2. key' = [key EXCEPT ![v] = EMPTY] /\ quota' = quota /\ class' = class
          /\ g = Released(f) /\ Resting'
      BY <1>3, <2>1 DEF Vacate
    <2>3. g.pc = "apply" /\ g.i = f.i /\ g.victim = NoSlot /\ g.to = Strict
      BY <1>1, <2>2, VisitOver DEF WalkPCs
    <2>4. key'[v] \notin Keys /\ \A s \in Slots : s # v => key'[s] = key[s]
      BY <1>4, <1>5, <2>2, NamesAssumption
    <2>5. (\A s \in Slots : Told(s)') /\ (\A s \in Slots : s < f.i => Given(s)')
      BY <1>6, <2>2, <2>4
    <2> QED
      BY <2>2, <2>3, <2>5
         DEF Settling, Walked, WalkPCs, Collects, Gives, Refills, Ends, ReleasePCs, Visited
  <1> QED
    BY <1>1, <1>7, <1>8, <1>9 DEF ReleasePCs

\* Every step keeps what a calm tick has settled.
LEMMA SettlingStep == Types /\ ExactlyOneCopy /\ Settling /\ [Next]_vars => Settling'
  <1> SUFFICES ASSUME Types, ExactlyOneCopy, Settling, [Next]_vars PROVE Settling'
    OBVIOUS
  <1>1. OneCopy /\ BusyOwned
    BY DEF ExactlyOneCopy
  <1>2. CASE UNCHANGED vars \/ Finished
    BY <1>2, ZenonT(40) DEF Finished, vars, Settling, Resting, Walked, Told, Given, Refilled, Visited,
                Collects, Gives, Refills, Ends
  <1>3. ASSUME NEW t \in Threads, (\E k \in Keys : Start(t, k)) \/ Claiming(t) \/ Checking(t)
        PROVE  Settling'
    <2>1. CASE \E k \in Keys : Start(t, k)
      BY <2>1 DEF Start, Settling
    <2>2. CASE Claiming(t) \/ Checking(t)
      <3>1. frame[t].pc # "idle" /\ calm' = calm
        BY <2>2 DEF Claiming, Find, Weigh, Take, Recheck, Checking, Mend, Count, SetFresh, Holds,
                    GiveBack, CheckGcra, history
      <3> QED
        BY <3>1 DEF Settling, Resting
    <2> QED
      BY <1>3, <2>1, <2>2
  <1>4. ASSUME NEW p \in Procs, Releasing(p) PROVE Settling'
    <2>1. frame[p].pc # "idle" /\ calm' = calm
      BY <1>4 DEF Releasing, Free, Reset, Vacate, history
    <2>2. CASE ~calm
      BY <2>1, <2>2 DEF Settling
    <2>3. CASE calm
      <3>1. p = Driver
        BY <2>1, <2>3 DEF Settling, Resting, Procs
      <3> QED
        BY <1>1, <1>4, <2>3, <3>1, FreeingSettles
    <2> QED
      BY <2>2, <2>3
  <1>5. CASE Ticking
    <2>1. CASE Tick
      BY <2>1, TickCalm
    <2>2. CASE Ticking /\ ~Tick /\ ~calm
      <3>1. calm' = calm
        BY <2>2 DEF Ticking, Collect, Apply, Refill, Walk, Tally, Record, CoreTick, Settle, Store,
                    history
      <3> QED
        BY <2>2, <3>1 DEF Settling
    <2>3. CASE Ticking /\ ~Tick /\ calm
      BY <1>1, <2>3, WalkSettles, TallySettles, RecordSettles, CoreTickSettles, SettleSettles,
         StoreSettles DEF Ticking
    <2> QED
      BY <1>5, <2>1, <2>2, <2>3
  <1> QED
    BY <1>2, <1>3, <1>4, <1>5 DEF Next

\* Whatever the races before it left, a tick that no check overlapped sets
\* right (Driver::sync): every taken slot has the quota of the class it names,
\* every free one and the overflow slot the strictest.
THEOREM CalmTickSettles == Spec => []TickSettles
  <1>1. Init => Types /\ Copies /\ Settling
    BY TypesInit, CopiesInit DEF Init, Settling
  <1>2. Types /\ Copies /\ Settling /\ [Next]_vars => (Types /\ Copies /\ Settling)'
    BY TypesStep, InvStep, SettlingStep, CopiesGiveExactlyOne
  <1>3. Settling => TickSettles
    BY DEF Settling, Walked, Given, Refilled, TickSettles
  <1> QED
    BY <1>1, <1>2, <1>3, PTL DEF Spec

=============================================================================
