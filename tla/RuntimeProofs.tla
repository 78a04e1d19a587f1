--------------------------- MODULE RuntimeProofs ---------------------------
(***************************************************************************)
(* What is proved of the runtime around a node: the names among its seeds  *)
(* (Names), the life of the background task among its callers (Lifecycle), *)
(* the sidecar's process (Serving) and the names of its denied keys        *)
(* (DeniedKeys), which implement the lists of RecentNames.  Each part is   *)
(* proved as a specification of its own, safety only; fairness adds        *)
(* nothing to it.                                                          *)
(***************************************************************************)
EXTENDS Names, Lifecycle, Serving, DeniedKeys, FiniteSetTheorems, SequenceTheorems, TLAPS

----------------------------------------------------------------------------
\* Serving: the sidecar's process.

\* The process: serving, and being ended.
ServingSpec == ServingInit /\ [][ServingNext]_servingVars

ProcPlaces == {"starting", "bind", "failed", "serving", "leaving", "draining", "stopping", "over"}

\* What holds of the process at each place: it listens until its stop, the peers
\* are told once it drains, and the service next to it has no longer to go than
\* what is left of the drain.
ServingInv ==
    /\ proc \in ProcPlaces /\ inFlight \in Nat /\ drained \in 0 .. Drain /\ service \in 0 .. ServiceDrain
    /\ proc \in {"serving", "leaving", "draining"} => listening
    /\ proc = "bind" => node = "member"
    /\ proc \in {"draining", "stopping", "over"} => node = "left"
    /\ proc = "over" => inFlight = 0 /\ ~listening
    /\ service > 0 => service + drained <= ServiceDrain
    /\ proc \in {"starting", "bind", "serving", "leaving"} => drained = 0
    /\ proc \in {"stopping", "over"} => cut \/ drained = Drain

\* Every step of the process keeps ServingInv.
LEMMA ServingStep == ServingInv /\ [ServingNext]_servingVars => ServingInv'
  <1> SUFFICES ASSUME ServingInv, [ServingNext]_servingVars PROVE ServingInv'
    OBVIOUS
  <1> USE DrainAssumption DEF ServingInv, ProcPlaces
  <1>1. CASE SpawnNode \/ Bind \/ FailToStart
    BY <1>1 DEF SpawnNode, Bind, FailToStart
  <1>2. CASE Accept \/ Answered
    BY <1>2 DEF Accept, Answered
  <1>3. CASE Signal
    BY <1>3 DEF Signal
  <1>4. CASE LeaveReturns \/ DrainOver \/ StopListening \/ End
    BY <1>4 DEF LeaveReturns, DrainOver, StopListening, End
  <1>5. CASE Elapse
    BY <1>5 DEF Elapse
  <1>6. CASE UNCHANGED servingVars
    BY <1>6 DEF servingVars
  <1> QED
    BY <1>1, <1>2, <1>3, <1>4, <1>5, <1>6 DEF ServingNext, Ended

\* A service that drains no longer than the sidecar finds someone to ask until
\* it is done, whatever the drain, the signals and the checks under way (main.rs,
\* with_graceful_shutdown).
THEOREM ServesToTheEnd == ServiceDrain <= Drain => (ServingSpec => []ServedToTheEnd)
  <1> SUFFICES ASSUME ServiceDrain <= Drain PROVE ServingSpec => []ServedToTheEnd
    OBVIOUS
  <1>1. ServingInit => ServingInv
    BY DrainAssumption DEF ServingInit, ServingInv, ProcPlaces
  <1>2. ServingInv => ServedToTheEnd
    BY DrainAssumption DEF ServingInv, ServedToTheEnd
  <1> QED
    BY <1>1, <1>2, ServingStep, PTL DEF ServingSpec

----------------------------------------------------------------------------
\* Lifecycle: the background task and the Guards.

\* The task and its callers.
LifeSpec == LifeInit /\ [][LifeNext]_lifeVars

\* What a caller may be doing, by where it is.
Calls == [at : {"idle", "leaving", "asking"}]
Sizing == [at : {"size"}, key : Slotted]
Setting == [at : {"set"}, key : Slotted, size : Sizes, held : BOOLEAN]

\* The types, with those of the calls.
LifeTypes ==
    /\ LifeTypeOK
    /\ caller \in [Callers -> Calls \union Sizing \union Setting]
    /\ asked \subseteq Callers

\* Whoever the task may still answer waits for it.
Waited ==
    /\ \A i \in 1 .. Len(queryQ) : caller[queryQ[i]].at = "asking"
    /\ \A i, j \in 1 .. Len(queryQ) : i # j => queryQ[i] # queryQ[j]
    /\ \A i \in 1 .. Len(leaveQ) : caller[leaveQ[i]].at = "leaving"
    /\ task # "gone" => \A c \in asked : caller[c].at = "leaving"

\* A task that is gone hears nobody; the peers are told of an end, and running
\* is lowered, only once the keys are held.
Ending ==
    /\ Deaf => leaveQ = <<>> /\ queryQ = <<>>
    /\ panicked => asked = {}
    /\ task \in {"select", "send"} => asked = {} /\ ~panicked
    /\ task = "leave" => ~panicked
    /\ peers = "told" \/ ~running => task \in {"leave", "gone"}

\* What has been held at the floor so far, as long as there is a Guard.
Covered(k) == slot[k] = "share" => k \in raced \/ Settles(k)

\* How far the floor has come, phase by phase.
Holding ==
    guards # {} =>
        /\ task \in {"hold_keys", "hold_free", "leave", "gone"} => factor = "floor"
        /\ task \in {"hold_free", "leave", "gone"} => \A k \in Slotted : Covered(k)
        /\ task \in {"leave", "gone"} => free = "floor"
        /\ \A c \in Callers : caller[c].at = "set" /\ caller[c].held => caller[c].size = "floor"

\* The inductive invariant.
LifeInv == LifeTypes /\ Waited /\ Ending /\ Holding

\* A call is a record of the place it is at.
LEMMA CallIs ==
    ASSUME LifeTypes, NEW c \in Callers
    PROVE  /\ caller[c].at \in {"idle", "leaving", "asking"} => caller[c] \in Calls
           /\ caller[c].at = "size" => caller[c] \in Sizing
           /\ caller[c].at = "set" => caller[c] \in Setting
           /\ caller[c].at \in {"size", "set"} => caller[c].key \in Slotted
  <1>1. caller[c] \in Calls \union Sizing \union Setting
    BY DEF LifeTypes
  <1> QED
    BY <1>1 DEF Calls, Sizing, Setting

\* The task moves on, and neither a quota nor a call does.
LEMMA TaskMoves ==
    ASSUME LifeInv,
           \/ Datagram \/ Sent \/ NoticeGone \/ PanicTask \/ HoldFactor \/ HoldFree \/ PeersBury
           \/ \E c \in Callers : DropGuard(c)
    PROVE  LifeInv'
  <1> USE DEF LifeInv, taskVars, queues, quotas
  <1>1. UNCHANGED <<asked, slot, caller, raced>>
    BY DEF Datagram, Sent, NoticeGone, PanicTask, HoldFactor, HoldFree, PeersBury, DropGuard
  <1>2. \/ UNCHANGED queues
        \/ leaveQ' = <<>> /\ queryQ' = <<>> /\ panicked'
    BY DEF Datagram, Sent, NoticeGone, PanicTask, HoldFactor, HoldFree, PeersBury, DropGuard
  <1>3. LifeTypes'
    <2>1. task' \in TaskPlaces /\ factor' \in Sizes /\ free' \in Sizes /\ guards' \subseteq Callers
      BY DEF LifeTypes, LifeTypeOK, TaskPlaces, Sizes,
             Datagram, Sent, NoticeGone, PanicTask, HoldFactor, HoldFree, PeersBury, DropGuard
    <2>2. leaveQ' \in Seq(Callers) /\ queryQ' \in Seq(Callers)
      <3>1. <<>> \in Seq(Callers) /\ leaveQ \in Seq(Callers) /\ queryQ \in Seq(Callers)
        BY DEF LifeTypes, LifeTypeOK
      <3> QED
        BY <1>2, <3>1
    <2> QED
      BY <1>1, <2>1, <2>2 DEF LifeTypes, LifeTypeOK
  <1>4. task = "gone" => task' = "gone"
    BY DEF Datagram, Sent, NoticeGone, PanicTask, HoldFactor, HoldFree, PeersBury, DropGuard
  <1>5. Waited'
    BY <1>1, <1>2, <1>4 DEF Waited
  <1>6. Ending'
    BY <1>1 DEF Ending, Deaf, Datagram, Sent, NoticeGone, PanicTask, HoldFactor, HoldFree, PeersBury, DropGuard
  <1>7. \A k : Covered(k)' <=> Covered(k)
    BY <1>1 DEF Covered, Settles
  <1>8. Holding'
    <2> SUFFICES ASSUME guards' # {}
                 PROVE  /\ task' \in {"hold_keys", "hold_free", "leave", "gone"} => factor' = "floor"
                        /\ task' \in {"hold_free", "leave", "gone"} => \A k \in Slotted : Covered(k)'
                        /\ task' \in {"leave", "gone"} => free' = "floor"
                        /\ \A c \in Callers : caller'[c].at = "set" /\ caller'[c].held => caller'[c].size = "floor"
      BY DEF Holding
    <2>1. guards # {} /\ ~NoticeGone
      BY DEF Datagram, Sent, NoticeGone, PanicTask, HoldFactor, HoldFree, PeersBury, DropGuard
    <2>2. Holding
      OBVIOUS
    <2> QED
      BY <1>1, <1>7, <2>1, <2>2
         DEF Holding, Datagram, Sent, PanicTask, HoldFactor, HoldFree, PeersBury, DropGuard
  <1> QED
    BY <1>3, <1>5, <1>6, <1>8

\* The task takes a leave from its queue.
LEMMA LeaveTaken ==
    ASSUME LifeInv, TakeLeave
    PROVE  LifeInv'
  <1> USE DEF LifeInv
  <1>1. /\ leaveQ \in Seq(Callers) /\ leaveQ # <<>> /\ task = "select" /\ task' = "hold" /\ leaveQ' = Tail(leaveQ)
        /\ asked' = {Head(leaveQ)} /\ ~panicked
        /\ UNCHANGED <<panicked, running, peers, queryQ, factor, free, slot, guards, caller, raced>>
    BY DEF TakeLeave, LifeTypes, LifeTypeOK, Ending, quotas
  <1>2. /\ Head(leaveQ) \in Callers /\ Tail(leaveQ) \in Seq(Callers) /\ Len(Tail(leaveQ)) = Len(leaveQ) - 1
        /\ \A i \in 1 .. Len(Tail(leaveQ)) : Tail(leaveQ)[i] = leaveQ[i + 1] /\ i + 1 \in 1 .. Len(leaveQ)
        /\ 1 \in 1 .. Len(leaveQ) /\ Head(leaveQ) = leaveQ[1]
    BY <1>1
  <1>3. LifeTypes'
    BY <1>1, <1>2 DEF LifeTypes, LifeTypeOK, TaskPlaces
  <1>4. Waited'
    BY <1>1, <1>2 DEF Waited
  <1>5. Ending'
    BY <1>1 DEF Ending, Deaf
  <1>6. Holding'
    BY <1>1 DEF Holding
  <1> QED
    BY <1>3, <1>4, <1>5, <1>6

\* A tick and hold_at_floor walk the table.
LEMMA QuotasSet ==
    ASSUME LifeInv, TickTask \/ HoldKeys
    PROVE  LifeInv'
  <1> USE DEF LifeInv
  <1>1. UNCHANGED <<panicked, asked, running, peers, queues, guards, caller>>
    BY DEF TickTask, HoldKeys
  <1>2. CASE TickTask
    <2>1. /\ task = "select" /\ task' = "send" /\ factor' = "share" /\ free' = "share" /\ raced' = raced
          /\ slot' \in [Slotted -> Sizes \union {Free}]
      BY <1>2 DEF TickTask, Sizes
    <2>2. LifeTypes'
      BY <1>1, <2>1 DEF LifeTypes, LifeTypeOK, TaskPlaces, Sizes, queues
    <2>3. Waited' /\ Ending' /\ Holding'
      BY <1>1, <2>1 DEF Waited, Ending, Deaf, Holding, queues
    <2> QED
      BY <2>2, <2>3
  <1>3. CASE HoldKeys
    <2>1. /\ task = "hold_keys" /\ task' = "hold_free" /\ raced' = {}
          /\ UNCHANGED <<factor, free>>
          /\ slot' = [k \in Slotted |-> IF Sized(k) THEN "floor" ELSE Free]
      BY <1>3 DEF HoldKeys
    <2>2. slot' \in [Slotted -> Sizes \union {Free}] /\ \A k \in Slotted : slot'[k] # "share"
      BY <2>1, FreeAssumption DEF Sizes
    <2>3. LifeTypes'
      BY <1>1, <2>1, <2>2 DEF LifeTypes, LifeTypeOK, TaskPlaces, queues
    <2>4. Waited' /\ Ending'
      BY <1>1, <2>1 DEF Waited, Ending, Deaf, queues
    <2>5. \A k \in Slotted : Covered(k)'
      BY <2>2 DEF Covered
    <2>6. Holding'
      BY <1>1, <2>1, <2>5 DEF Holding
    <2> QED
      BY <2>3, <2>4, <2>6
  <1> QED
    BY <1>2, <1>3

\* A call that is at no slot starts or ends.
LEMMA CallMoves ==
    ASSUME LifeInv, NEW called \in SUBSET Callers, NEW frame \in [called -> Calls],
           \A c \in called : caller[c].at \in {"idle", "leaving", "asking"},
           caller' = [c \in Callers |-> IF c \in called THEN frame[c] ELSE caller[c]],
           UNCHANGED <<factor, free, slot, guards, raced>>,
           task' = task \/ (task = "select" /\ task' = "send") \/ (task = "leave" /\ task' = "gone")
    PROVE  /\ caller' \in [Callers -> Calls \union Sizing \union Setting]
           /\ \A c \in called : caller'[c] = frame[c]
           /\ \A c \in Callers \ called : caller'[c] = caller[c]
           /\ Holding'
  <1>1. /\ caller' \in [Callers -> Calls \union Sizing \union Setting]
        /\ \A c \in called : caller'[c] = frame[c] /\ frame[c].at \notin {"size", "set"}
        /\ \A c \in Callers \ called : caller'[c] = caller[c]
    BY DEF LifeInv, LifeTypes, Calls
  <1>2. \A k : Settles(k)' <=> Settles(k)
    BY <1>1 DEF Settles
  <1>3. \A k : Covered(k)' <=> Covered(k)
    BY <1>2 DEF Covered
  <1>4. Holding'
    BY <1>1, <1>3 DEF LifeInv, Holding
  <1> QED
    BY <1>1, <1>4

\* What Goto leaves of the calls.
LEMMA GotoIs ==
    ASSUME LifeTypes, NEW c \in Callers, NEW at \in {"idle", "leaving", "asking"}, Goto(c, at)
    PROVE  /\ caller' = [d \in Callers |-> IF d \in {c} THEN [x \in {c} |-> [at |-> at]][d] ELSE caller[d]]
           /\ [x \in {c} |-> [at |-> at]] \in [{c} -> Calls]
           /\ caller'[c].at = at
           /\ \A d \in Callers \ {c} : caller'[d] = caller[d]
  <1>1. caller' = [caller EXCEPT ![c] = [at |-> at]] /\ caller = [d \in Callers |-> caller[d]]
    BY DEF Goto, LifeTypes
  <1> QED
    BY <1>1 DEF Calls

\* One caller moves, none of them at a slot.
LEMMA OneCallMoves ==
    ASSUME LifeInv, NEW c \in Callers, NEW at \in {"idle", "leaving", "asking"}, Goto(c, at),
           caller[c].at \in {"idle", "leaving", "asking"},
           UNCHANGED <<factor, free, slot, guards, raced>>,
           task' = task \/ (task = "select" /\ task' = "send") \/ (task = "leave" /\ task' = "gone")
    PROVE  /\ caller' \in [Callers -> Calls \union Sizing \union Setting] /\ caller'[c].at = at
           /\ \A d \in Callers \ {c} : caller'[d] = caller[d]
           /\ Holding'
  <1> DEFINE called == {c}
             frame == [x \in {c} |-> [at |-> at]]
  <1>1. /\ caller' = [d \in Callers |-> IF d \in called THEN frame[d] ELSE caller[d]]
        /\ frame \in [called -> Calls]
        /\ caller'[c].at = at
        /\ \A d \in Callers \ {c} : caller'[d] = caller[d]
    BY GotoIs DEF LifeInv
  <1>2. called \in SUBSET Callers /\ \A d \in called : caller[d].at \in {"idle", "leaving", "asking"}
    OBVIOUS
  <1> HIDE DEF called, frame
  <1>3. caller' \in [Callers -> Calls \union Sizing \union Setting] /\ Holding'
    BY <1>1, <1>2, CallMoves
  <1> QED
    BY <1>1, <1>3

\* The task answers the caller that asked first.
LEMMA QueryAnswered ==
    ASSUME LifeInv, AnswerQuery
    PROVE  LifeInv'
  <1> USE DEF LifeInv
  <1> DEFINE c == Head(queryQ)
  <1>1. /\ queryQ \in Seq(Callers) /\ queryQ # <<>> /\ task = "select" /\ task' = "send" /\ queryQ' = Tail(queryQ)
        /\ Goto(c, "idle")
        /\ UNCHANGED <<panicked, asked, running, peers, leaveQ, factor, free, slot, guards, raced>>
    BY DEF AnswerQuery, LifeTypes, LifeTypeOK, quotas
  <1>2. /\ c \in Callers /\ Tail(queryQ) \in Seq(Callers) /\ Len(Tail(queryQ)) = Len(queryQ) - 1
        /\ \A i \in 1 .. Len(Tail(queryQ)) : Tail(queryQ)[i] = queryQ[i + 1] /\ i + 1 \in 1 .. Len(queryQ) /\ i + 1 # 1
        /\ \A i \in 1 .. Len(queryQ) : queryQ[i] \in Callers
        /\ 1 \in 1 .. Len(queryQ) /\ c = queryQ[1]
    BY <1>1
  <1> HIDE DEF c
  <1>3. caller[c].at = "asking"
    BY <1>2 DEF Waited
  <1>4. /\ caller' \in [Callers -> Calls \union Sizing \union Setting] /\ caller'[c].at = "idle"
        /\ \A d \in Callers \ {c} : caller'[d] = caller[d]
        /\ Holding'
    BY <1>1, <1>2, <1>3, OneCallMoves
  <1>5. LifeTypes'
    BY <1>1, <1>2, <1>4 DEF LifeTypes, LifeTypeOK, TaskPlaces
  <1>6. \A i \in 1 .. Len(leaveQ) : leaveQ[i] \in Callers /\ leaveQ[i] # c
    BY <1>3 DEF Waited, LifeTypes, LifeTypeOK
  <1>7. \A i \in 1 .. Len(Tail(queryQ)) : Tail(queryQ)[i] \in Callers \ {c}
    <2> SUFFICES ASSUME NEW i \in 1 .. Len(Tail(queryQ)) PROVE Tail(queryQ)[i] \in Callers \ {c}
      OBVIOUS
    <2>1. /\ Tail(queryQ)[i] = queryQ[i + 1] /\ i + 1 \in 1 .. Len(queryQ) /\ i + 1 # 1
          /\ queryQ[i + 1] \in Callers
      BY <1>2
    <2>2. queryQ[i + 1] # queryQ[1]
      BY <1>2, <2>1 DEF Waited
    <2> QED
      BY <1>2, <2>1, <2>2
  <1>8. Waited'
    <2>1. \A i \in 1 .. Len(queryQ') : caller'[queryQ'[i]].at = "asking"
      <3> SUFFICES ASSUME NEW i \in 1 .. Len(Tail(queryQ)) PROVE caller'[Tail(queryQ)[i]].at = "asking"
        BY <1>1
      <3>1. Tail(queryQ)[i] = queryQ[i + 1] /\ i + 1 \in 1 .. Len(queryQ) /\ Tail(queryQ)[i] \in Callers \ {c}
        BY <1>2, <1>7
      <3>2. caller[queryQ[i + 1]].at = "asking"
        BY <3>1 DEF Waited
      <3> QED
        BY <1>4, <3>1, <3>2
    <2>2. \A i, j \in 1 .. Len(queryQ') : i # j => queryQ'[i] # queryQ'[j]
      <3> SUFFICES ASSUME NEW i \in 1 .. Len(Tail(queryQ)), NEW j \in 1 .. Len(Tail(queryQ)), i # j
                   PROVE  Tail(queryQ)[i] # Tail(queryQ)[j]
        BY <1>1
      <3>1. /\ Tail(queryQ)[i] = queryQ[i + 1] /\ i + 1 \in 1 .. Len(queryQ)
            /\ Tail(queryQ)[j] = queryQ[j + 1] /\ j + 1 \in 1 .. Len(queryQ) /\ i + 1 # j + 1
        BY <1>2
      <3> QED
        BY <3>1 DEF Waited
    <2>3. \A i \in 1 .. Len(leaveQ') : caller'[leaveQ'[i]].at = "leaving"
      BY <1>1, <1>4, <1>6 DEF Waited
    <2>4. asked' = {}
      BY <1>1 DEF Ending
    <2> QED
      BY <2>1, <2>2, <2>3, <2>4 DEF Waited
  <1>9. Ending'
    BY <1>1 DEF Ending, Deaf
  <1> QED
    BY <1>4, <1>5, <1>8, <1>9

\* The task has told the peers, and answers those that asked it to leave.
LEMMA ClusterLeft ==
    ASSUME LifeInv, LeaveCluster
    PROVE  LifeInv'
  <1> USE DEF LifeInv
  <1>1. /\ task = "leave" /\ task' = "gone" /\ leaveQ' = <<>> /\ queryQ' = <<>> /\ ~panicked
        /\ UNCHANGED <<panicked, asked, running, factor, free, slot, guards, raced>>
        /\ asked \subseteq Callers
    BY DEF LeaveCluster, quotas, LifeTypes, Ending
  <1>2. \A c \in asked : caller[c].at = "leaving"
    BY <1>1 DEF Waited
  <1>3. AtRest \in Calls
    BY DEF AtRest, Calls
  <1>4. [c \in asked |-> AtRest] \in [asked -> Calls]
    BY <1>3
  <1>5. caller' = [c \in Callers |-> IF c \in asked THEN [d \in asked |-> AtRest][c] ELSE caller[c]]
    BY DEF LeaveCluster
  <1>6. /\ caller' \in [Callers -> Calls \union Sizing \union Setting]
        /\ Holding'
    BY <1>1, <1>2, <1>4, <1>5, CallMoves
  <1>7. LifeTypes'
    <2>1. <<>> \in Seq(Callers)
      OBVIOUS
    <2> QED
      BY <1>1, <1>6, <2>1 DEF LifeTypes, LifeTypeOK, TaskPlaces
  <1>8. Waited' /\ Ending'
    BY <1>1 DEF Waited, Ending, Deaf
  <1> QED
    BY <1>6, <1>7, <1>8

\* Guard::leave and key_stats start, or fail where the task is gone.
LEMMA CallStarts ==
    ASSUME LifeInv, NEW c \in Callers, CallLeave(c) \/ CallStats(c) \/ CallFails(c)
    PROVE  LifeInv'
  <1> USE DEF LifeInv
  <1>1. PICK at \in {"idle", "leaving", "asking"} : Goto(c, at)
    BY DEF CallLeave, CallStats, CallFails
  <1>2. /\ caller[c].at \in {"idle", "leaving", "asking"}
        /\ UNCHANGED <<task, panicked, asked, running, peers, factor, free, slot, guards, raced>>
    BY DEF CallLeave, CallStats, CallFails, taskVars, quotas
  <1>3. /\ caller' \in [Callers -> Calls \union Sizing \union Setting] /\ caller'[c].at = at
        /\ \A d \in Callers \ {c} : caller'[d] = caller[d]
        /\ Holding'
    BY <1>1, <1>2, OneCallMoves
  <1>4. leaveQ \in Seq(Callers) /\ queryQ \in Seq(Callers) /\ <<>> \in Seq(Callers)
    BY DEF LifeTypes, LifeTypeOK
  <1>5. /\ \A i \in 1 .. Len(leaveQ) : leaveQ[i] \in Callers /\ caller[leaveQ[i]].at = "leaving"
        /\ \A i \in 1 .. Len(queryQ) : queryQ[i] \in Callers /\ caller[queryQ[i]].at = "asking"
    BY <1>4 DEF Waited
  <1>6. CASE CallFails(c)
    <2>1. Deaf /\ UNCHANGED <<leaveQ, queryQ>> /\ leaveQ = <<>> /\ queryQ = <<>>
      BY <1>6 DEF CallFails, queues, Ending
    <2>2. LifeTypes'
      BY <1>2, <1>3, <1>4, <2>1 DEF LifeTypes, LifeTypeOK
    <2>3. task # "gone" => asked = {}
      BY <2>1 DEF Deaf, Ending
    <2>4. Waited' /\ Ending'
      BY <1>2, <2>1, <2>3 DEF Waited, Ending, Deaf
    <2> QED
      BY <1>3, <2>2, <2>4
  <1>7. ASSUME ~CallFails(c), Deaf PROVE LifeInv'
    <2>1. leaveQ' = <<>> /\ queryQ' = <<>> /\ caller[c].at = "idle"
      BY <1>7 DEF CallLeave, CallStats, Ending
    <2>2. LifeTypes'
      BY <1>2, <1>3, <1>4, <2>1 DEF LifeTypes, LifeTypeOK
    <2>3. task # "gone" => asked = {}
      BY <1>7 DEF Deaf, Ending
    <2>4. Waited' /\ Ending'
      BY <1>2, <2>1, <2>3 DEF Waited, Ending, Deaf
    <2> QED
      BY <1>3, <2>2, <2>4
  <1>8. ASSUME ~CallFails(c), ~Deaf PROVE LifeInv'
    <2>1. /\ caller[c].at = "idle" /\ task # "gone"
          /\ \/ leaveQ' = Append(leaveQ, c) /\ queryQ' = queryQ /\ Goto(c, "leaving")
             \/ leaveQ' = leaveQ /\ queryQ' = Append(queryQ, c) /\ Goto(c, "asking")
      BY <1>8 DEF CallLeave, CallStats, Deaf
    <2>2. \A s \in Seq(Callers) :
             /\ Append(s, c) \in Seq(Callers) /\ Len(Append(s, c)) = Len(s) + 1
             /\ \A i \in 1 .. Len(s) : Append(s, c)[i] = s[i]
             /\ Append(s, c)[Len(s) + 1] = c
             /\ \A i \in 1 .. Len(s) + 1 : i \in 1 .. Len(s) \/ i = Len(s) + 1
      OBVIOUS
    <2>3. LifeTypes'
      BY <1>2, <1>3, <1>4, <2>1, <2>2 DEF LifeTypes, LifeTypeOK
    <2>4. /\ \A i \in 1 .. Len(leaveQ) : leaveQ[i] # c
          /\ \A i \in 1 .. Len(queryQ) : queryQ[i] # c
          /\ \A d \in asked : d # c
      BY <1>5, <2>1 DEF Waited
    <2>5. CASE leaveQ' = Append(leaveQ, c) /\ queryQ' = queryQ /\ Goto(c, "leaving")
      <3>1. caller'[c].at = "leaving"
        BY <2>5, GotoIs
      <3>2. \A i \in 1 .. Len(leaveQ') : caller'[leaveQ'[i]].at = "leaving"
        <4> SUFFICES ASSUME NEW i \in 1 .. Len(Append(leaveQ, c)) PROVE caller'[Append(leaveQ, c)[i]].at = "leaving"
          BY <2>5
        <4>1. CASE i = Len(leaveQ) + 1
          BY <1>4, <2>2, <3>1, <4>1
        <4>2. CASE i \in 1 .. Len(leaveQ)
          <5>1. Append(leaveQ, c)[i] = leaveQ[i]
            BY <1>4, <2>2, <4>2
          <5>2. leaveQ[i] \in Callers \ {c} /\ caller[leaveQ[i]].at = "leaving"
            BY <1>5, <2>4, <4>2
          <5>3. caller'[leaveQ[i]] = caller[leaveQ[i]]
            BY <1>3, <5>2
          <5> QED
            BY <5>1, <5>2, <5>3
        <4> QED
          BY <1>4, <2>2, <4>1, <4>2
      <3>3. Waited'
        BY <1>2, <1>3, <1>5, <2>4, <2>5, <3>2, SMTT(40) DEF Waited, LifeTypes
      <3> QED
        BY <1>2, <1>3, <1>8, <2>3, <3>3 DEF Ending, Deaf
    <2>6. CASE leaveQ' = leaveQ /\ queryQ' = Append(queryQ, c) /\ Goto(c, "asking")
      <3>1. caller'[c].at = "asking"
        BY <2>6, GotoIs
      <3>2. \A i \in 1 .. Len(queryQ') : caller'[queryQ'[i]].at = "asking"
        <4> SUFFICES ASSUME NEW i \in 1 .. Len(Append(queryQ, c)) PROVE caller'[Append(queryQ, c)[i]].at = "asking"
          BY <2>6
        <4>1. CASE i = Len(queryQ) + 1
          BY <1>4, <2>2, <3>1, <4>1
        <4>2. CASE i \in 1 .. Len(queryQ)
          <5>1. Append(queryQ, c)[i] = queryQ[i]
            BY <1>4, <2>2, <4>2
          <5>2. queryQ[i] \in Callers \ {c} /\ caller[queryQ[i]].at = "asking"
            BY <1>5, <2>4, <4>2
          <5>3. caller'[queryQ[i]] = caller[queryQ[i]]
            BY <1>3, <5>2
          <5> QED
            BY <5>1, <5>2, <5>3
        <4> QED
          BY <1>4, <2>2, <4>1, <4>2
      <3>3. \A i, j \in 1 .. Len(queryQ') : i # j => queryQ'[i] # queryQ'[j]
        <4> SUFFICES ASSUME NEW i \in 1 .. Len(Append(queryQ, c)), NEW j \in 1 .. Len(Append(queryQ, c)), i # j
                     PROVE  Append(queryQ, c)[i] # Append(queryQ, c)[j]
          BY <2>6
        <4>1. CASE i = Len(queryQ) + 1 \/ j = Len(queryQ) + 1
          BY <1>4, <2>2, <2>4, <4>1
        <4>2. CASE i \in 1 .. Len(queryQ) /\ j \in 1 .. Len(queryQ)
          BY <1>4, <2>2, <4>2 DEF Waited
        <4> QED
          BY <1>4, <2>2, <4>1, <4>2
      <3>4. Waited'
        BY <1>2, <1>3, <1>5, <2>4, <2>6, <3>2, <3>3 DEF Waited, LifeTypes
      <3> QED
        BY <1>2, <1>3, <1>8, <2>3, <3>4 DEF Ending, Deaf
    <2> QED
      BY <2>1, <2>5, <2>6
  <1> QED
    BY <1>6, <1>7, <1>8

\* A first check takes a slot of the table.
LEMMA SlotTaken ==
    ASSUME LifeInv, NEW c \in Callers, NEW k \in Slotted, TakeSlot(c, k)
    PROVE  LifeInv'
  <1> USE DEF LifeInv
  <1> DEFINE frame == [at |-> "size", key |-> k]
  <1>1. /\ caller[c].at = "idle" /\ caller' = [caller EXCEPT ![c] = frame] /\ slot' = [slot EXCEPT ![k] = free]
        /\ UNCHANGED <<task, panicked, asked, running, peers, leaveQ, queryQ, factor, free, guards, raced>>
    BY DEF TakeSlot, taskVars, queues
  <1>2. frame \in Sizing /\ frame.at = "size" /\ frame.key = k
    BY DEF Sizing
  <1> HIDE DEF frame
  <1>3. /\ caller' \in [Callers -> Calls \union Sizing \union Setting] /\ caller'[c] = frame
        /\ \A d \in Callers \ {c} : caller'[d] = caller[d]
    BY <1>1, <1>2 DEF LifeTypes
  <1>4. /\ slot' \in [Slotted -> Sizes \union {Free}] /\ slot'[k] = free
        /\ \A j \in Slotted \ {k} : slot'[j] = slot[j]
    BY <1>1 DEF LifeTypes, LifeTypeOK
  <1>5. LifeTypes'
    BY <1>1, <1>3, <1>4 DEF LifeTypes, LifeTypeOK
  <1>6. Waited' /\ Ending'
    BY <1>1, <1>3 DEF Waited, Ending, Deaf, LifeTypes, LifeTypeOK
  <1>7. Settles(k)'
    BY <1>2, <1>3 DEF Settles
  <1>8. \A j \in Slotted : Settles(j) => Settles(j)'
    BY <1>1, <1>3 DEF Settles
  <1>9. \A j \in Slotted : Covered(j) => Covered(j)'
    BY <1>1, <1>4, <1>7, <1>8 DEF Covered
  <1>10. Holding'
    BY <1>1, <1>2, <1>3, <1>9 DEF Holding
  <1> QED
    BY <1>5, <1>6, <1>10

\* It reads the factor its quota will be sized by.
LEMMA FactorRead ==
    ASSUME LifeInv, NEW c \in Callers, ReadFactor(c)
    PROVE  LifeInv'
  <1> USE DEF LifeInv
  <1> DEFINE late == task \notin {"select", "send", "hold"}
             k == caller[c].key
             frame == [at |-> "set", key |-> k, size |-> factor, held |-> late]
  <1>1. /\ caller[c].at = "size" /\ caller' = [caller EXCEPT ![c] = frame]
        /\ UNCHANGED <<task, panicked, asked, running, peers, leaveQ, queryQ, factor, free, slot, guards, raced>>
    BY DEF ReadFactor, taskVars, queues, quotas
  <1>2. frame \in Setting /\ frame.at = "set" /\ frame.key = k /\ frame.size = factor /\ frame.held = late
    <2>1. k \in Slotted /\ factor \in Sizes
      BY <1>1, CallIs DEF LifeTypes, LifeTypeOK
    <2>2. late \in BOOLEAN
      OBVIOUS
    <2> HIDE DEF late, k
    <2> QED
      BY <2>1, <2>2 DEF Setting
  <1> HIDE DEF frame
  <1>3. /\ caller' \in [Callers -> Calls \union Sizing \union Setting] /\ caller'[c] = frame
        /\ \A d \in Callers \ {c} : caller'[d] = caller[d]
    BY <1>1, <1>2 DEF LifeTypes
  <1>4. LifeTypes'
    BY <1>1, <1>3 DEF LifeTypes, LifeTypeOK
  <1>5. Waited' /\ Ending'
    BY <1>1, <1>3 DEF Waited, Ending, Deaf, LifeTypes, LifeTypeOK
  <1>6. \A j \in Slotted : Settles(j)' <=> Settles(j)
    BY <1>1, <1>2, <1>3 DEF Settles
  <1>7. \A j \in Slotted : Covered(j)' <=> Covered(j)
    BY <1>1, <1>6 DEF Covered
  <1>8. late => task \in {"hold_keys", "hold_free", "leave", "gone"}
    BY DEF LifeTypes, LifeTypeOK, TaskPlaces
  <1>9. guards # {} /\ late => factor = "floor"
    BY <1>8 DEF Holding
  <1>10. Holding'
    BY <1>1, <1>2, <1>3, <1>7, <1>9 DEF Holding
  <1> QED
    BY <1>4, <1>5, <1>10

\* It sets the quota, whatever the task has done since it read the factor.
LEMMA QuotaSet ==
    ASSUME LifeInv, NEW c \in Callers, SetQuota(c)
    PROVE  LifeInv'
  <1> USE DEF LifeInv
  <1> DEFINE k == caller[c].key
             size == caller[c].size
             held == caller[c].held
  <1>1. /\ caller[c].at = "set" /\ Goto(c, "idle") /\ slot' = [slot EXCEPT ![k] = size]
        /\ raced' = IF held THEN raced \ {k} ELSE raced \union {k}
        /\ UNCHANGED <<task, panicked, asked, running, peers, leaveQ, queryQ, factor, free, guards>>
    BY DEF SetQuota, taskVars, queues
  <1>2. k \in Slotted /\ size \in Sizes /\ held \in BOOLEAN
    BY <1>1, CallIs DEF Setting
  <1>3. /\ caller'[c].at = "idle" /\ caller'[c] \in Calls
        /\ \A d \in Callers \ {c} : caller'[d] = caller[d]
        /\ caller' \in [Callers -> Calls \union Sizing \union Setting]
    <2>1. /\ caller' = [d \in Callers |-> IF d \in {c} THEN [x \in {c} |-> [at |-> "idle"]][d] ELSE caller[d]]
          /\ caller'[c].at = "idle"
          /\ \A d \in Callers \ {c} : caller'[d] = caller[d]
      BY <1>1, GotoIs
    <2>2. caller'[c] \in Calls
      BY <2>1 DEF Calls
    <2>3. \A d \in Callers : caller'[d] \in Calls \union Sizing \union Setting
      BY <2>1, <2>2 DEF LifeTypes
    <2> QED
      BY <2>1, <2>2, <2>3
  <1>4. /\ slot' \in [Slotted -> Sizes \union {Free}] /\ slot'[k] = size
        /\ \A j \in Slotted \ {k} : slot'[j] = slot[j]
    BY <1>1, <1>2 DEF LifeTypes, LifeTypeOK
  <1>5. raced' \subseteq Slotted /\ (\A j \in raced \ {k} : j \in raced') /\ (~held => k \in raced')
    BY <1>1, <1>2 DEF LifeTypes, LifeTypeOK
  <1>6. LifeTypes'
    BY <1>1, <1>3, <1>4, <1>5 DEF LifeTypes, LifeTypeOK
  <1>7. Waited' /\ Ending'
    <2>1. queryQ \in Seq(Callers) /\ leaveQ \in Seq(Callers) /\ asked \subseteq Callers
      BY DEF LifeTypes, LifeTypeOK
    <2>2. /\ \A i \in 1 .. Len(queryQ) : queryQ[i] \in Callers \ {c}
          /\ \A i \in 1 .. Len(leaveQ) : leaveQ[i] \in Callers \ {c}
          /\ task # "gone" => \A d \in asked : d \in Callers \ {c}
      BY <1>1, <2>1 DEF Waited
    <2>3. Waited'
      <3>1. \A i \in 1 .. Len(queryQ) : caller'[queryQ[i]].at = "asking"
        <4> SUFFICES ASSUME NEW i \in 1 .. Len(queryQ) PROVE caller'[queryQ[i]].at = "asking"
          OBVIOUS
        <4>1. caller'[queryQ[i]] = caller[queryQ[i]]
          BY <1>3, <2>2
        <4> QED
          BY <4>1 DEF Waited
      <3>2. \A i \in 1 .. Len(leaveQ) : caller'[leaveQ[i]].at = "leaving"
        <4> SUFFICES ASSUME NEW i \in 1 .. Len(leaveQ) PROVE caller'[leaveQ[i]].at = "leaving"
          OBVIOUS
        <4>1. caller'[leaveQ[i]] = caller[leaveQ[i]]
          BY <1>3, <2>2
        <4> QED
          BY <4>1 DEF Waited
      <3>3. task # "gone" => \A d \in asked : caller'[d].at = "leaving"
        <4> SUFFICES ASSUME task # "gone", NEW d \in asked PROVE caller'[d].at = "leaving"
          OBVIOUS
        <4>1. caller'[d] = caller[d]
          BY <1>3, <2>2
        <4> QED
          BY <4>1 DEF Waited
      <3>4. queryQ' = queryQ /\ leaveQ' = leaveQ /\ task' = task /\ asked' = asked
        BY <1>1
      <3> QED
        BY <3>1, <3>2, <3>3, <3>4 DEF Waited
    <2>4. Ending'
      BY <1>1 DEF Ending, Deaf
    <2> QED
      BY <2>3, <2>4
  <1>8. \A j \in Slotted \ {k} : Settles(j) => Settles(j)'
    BY <1>1, <1>3 DEF Settles
  <1>9. \A j \in Slotted \ {k} : Covered(j) => Covered(j)'
    BY <1>4, <1>5, <1>8 DEF Covered
  <1>10. ASSUME NEW j \in Slotted, j = k, guards # {} PROVE Covered(j)'
    <2>1. CASE held
      <3>1. size = "floor"
        BY <1>1, <1>10, <2>1 DEF Holding
      <3>2. slot'[j] # "share"
        BY <1>4, <1>10, <3>1
      <3> QED
        BY <3>2 DEF Covered
    <2>2. CASE ~held
      BY <1>5, <1>10, <2>2 DEF Covered
    <2> QED
      BY <2>1, <2>2
  <1>11. Holding'
    BY <1>1, <1>3, <1>9, <1>10 DEF Holding
  <1> QED
    BY <1>6, <1>7, <1>11

\* Every step keeps LifeInv.
LEMMA LifeStep == LifeInv /\ [LifeNext]_lifeVars => LifeInv'
  <1> SUFFICES ASSUME LifeInv, [LifeNext]_lifeVars PROVE LifeInv'
    OBVIOUS
  <1>1. CASE UNCHANGED lifeVars
    BY <1>1 DEF lifeVars, taskVars, queues, quotas, LifeInv, LifeTypes, LifeTypeOK, Waited, Ending, Deaf,
                Holding, Covered, Settles
  <1>2. CASE \/ Datagram \/ Sent \/ NoticeGone \/ PanicTask \/ HoldFactor \/ HoldFree \/ PeersBury
             \/ \E c \in Callers : DropGuard(c)
    BY <1>2, TaskMoves
  <1>3. CASE TickTask \/ HoldKeys
    BY <1>3, QuotasSet
  <1>4. CASE TakeLeave \/ AnswerQuery \/ LeaveCluster
    BY <1>4, LeaveTaken, QueryAnswered, ClusterLeft
  <1>5. CASE \E c \in Callers : CallLeave(c) \/ CallStats(c) \/ CallFails(c)
    BY <1>5, CallStarts
  <1>6. CASE \E c \in Callers : (\E k \in Slotted : TakeSlot(c, k)) \/ ReadFactor(c) \/ SetQuota(c)
    BY <1>6, SlotTaken, FactorRead, QuotaSet
  <1> QED
    BY <1>1, <1>2, <1>3, <1>4, <1>5, <1>6 DEF LifeNext, Over

\* Once the peers no longer count a node, or it says it does not run, no key is
\* held to the share they have taken over, whichever way the task ended and
\* however the checks ran against its end (driver.rs, watch and hold_at_floor),
\* but for the keys FloorOnceGone excepts.
THEOREM FloorHolds == LifeSpec => []FloorOnceGone
  <1>1. LifeInit => LifeInv
    <2> SUFFICES ASSUME LifeInit PROVE LifeInv
      OBVIOUS
    <2>1. LifeTypes
      <3>1. <<>> \in Seq(Callers) /\ AtRest \in Calls
        BY DEF AtRest, Calls
      <3> QED
        BY <3>1 DEF LifeInit, LifeTypes, LifeTypeOK, TaskPlaces, Sizes
    <2>2. Waited /\ Ending
      BY DEF LifeInit, Waited, Ending, Deaf
    <2>3. Holding
      BY DEF LifeInit, Holding, AtRest
    <2> QED
      BY <2>1, <2>2, <2>3 DEF LifeInv
  <1>2. LifeInv => FloorOnceGone
    <2> SUFFICES ASSUME LifeInv, guards # {}, peers = "told" \/ ~running,
                        NEW k \in Slotted, slot[k] = "share"
                 PROVE  k \in raced \/ Settles(k)
      BY DEF FloorOnceGone
    <2>1. task \in {"leave", "gone"}
      BY DEF LifeInv, Ending
    <2> QED
      BY <2>1 DEF LifeInv, Holding, Covered
  <1> QED
    BY <1>1, <1>2, LifeStep, PTL DEF LifeSpec

----------------------------------------------------------------------------
\* Names: the seeds behind the names.

\* The lookups and the rounds taken.
NamesSpec == NamesInit /\ [][NamesNext]_namesVars

\* What a round found, name by name.
Found == [hosts -> Answers \union {Failed}]

\* A round at hand and the one in the channel are about the names.
LookedUp ==
    /\ Looked \subseteq hosts
    /\ \A h \in Looked : round[h] \in Answers \union {Failed}
    /\ round = [h \in Looked |-> round[h]]
    /\ sent \in Seq(Found) /\ Len(sent) <= 1

\* The seeds behind the names are the addresses last found behind them.
SeedsAre ==
    /\ last \in [hosts -> Answers]
    /\ kept \subseteq Others
    /\ \A s : s \in added <=> s # Me /\ s \notin kept /\ \E h \in hosts : s \in last[h]
    /\ seeds = kept \union added

\* The streak is the one of the latest rounds taken.
StreakIs ==
    /\ alone \in 0 .. AloneAfter + 1
    /\ taken \in Seq(Found) /\ Len(taken) <= AloneAfter
    /\ alone <= AloneAfter => alone <= Len(taken) /\ \A i \in 1 .. alone : OnlyMe(taken[i])

\* The inductive invariant.
NamesInv ==
    /\ hosts \subseteq Hosts /\ behind \in [hosts -> Answers]
    /\ LookedUp /\ SeedsAre /\ StreakIs

\* The seeds behind the names, one by one.
LEMMA CurrentIs ==
    ASSUME NEW found
    PROVE  \A s : s \in Current(found) <=>
                     s # Me /\ s \notin kept /\ \E h \in hosts : s \in Remembered(found)[h]
  <1> SUFFICES ASSUME NEW s
               PROVE  s \in Current(found) <=>
                         s # Me /\ s \notin kept /\ \E h \in hosts : s \in Remembered(found)[h]
    OBVIOUS
  <1> DEFINE now == UNION {Remembered(found)[h] : h \in hosts}
  <1>1. s \in now <=> \E h \in hosts : s \in Remembered(found)[h]
    OBVIOUS
  <1>2. s \in Current(found) <=> s \in now /\ s \notin {Me} \union kept
    BY Zenon DEF Current
  <1> HIDE DEF now
  <1> QED
    BY <1>1, <1>2

\* What Names::update leaves: the seeds, the streak and its answer.
LEMMA UpdateIs ==
    ASSUME NamesInv, Update
    PROVE  /\ SeedsAre' /\ StreakIs' /\ taken' # <<>> /\ taken'[1] = Head(sent) /\ Head(sent) \in Found
           /\ last' = Remembered(Head(sent)) /\ added' = Current(Head(sent))
           /\ expects /\ ~expects' => AloneThroughout(taken')
  <1> DEFINE found == Head(sent)
             n == IF Len(taken) < AloneAfter THEN Len(taken) + 1 ELSE AloneAfter
             all == <<found>> \o taken
  <1>1. found \in Found
    BY DEF NamesInv, LookedUp, Update
  <1>2. /\ alone' = IF Streak(found) > AloneAfter THEN AloneAfter + 1 ELSE Streak(found)
        /\ expects' = (expects /\ alone' # AloneAfter)
        /\ last' = Remembered(found) /\ seeds' = SeedsWith(Current(found)) /\ added' = Current(found)
        /\ taken' = SubSeq(all, 1, n)
        /\ UNCHANGED <<hosts, kept>>
    BY DEF Update
  <1> HIDE DEF found
  <1>3. taken \in Seq(Found) /\ Len(taken) <= AloneAfter /\ Len(taken) \in Nat /\ AloneAfter \in Nat \ {0}
    BY NamesAssumption DEF NamesInv, StreakIs
  <1>4. /\ all \in Seq(Found) /\ Len(all) = Len(taken) + 1 /\ all[1] = found
        /\ \A i \in 2 .. Len(taken) + 1 : all[i] = taken[i - 1]
    BY <1>1, <1>3
  <1>5. n \in 1 .. Len(all) /\ n <= AloneAfter /\ (Len(taken) = AloneAfter - 1 => n = AloneAfter) /\ n >= Len(taken)
    BY <1>3, <1>4
  <1> HIDE DEF all, n
  <1>6. /\ taken' \in Seq(Found) /\ Len(taken') = n /\ \A i \in 1 .. n : taken'[i] = all[i]
    BY <1>2, <1>4, <1>5
  <1>7. taken' # <<>> /\ taken'[1] = found
    BY <1>4, <1>5, <1>6
  <1>8. hosts' = hosts /\ Found' = Found /\ \A f : OnlyMe(f)' <=> OnlyMe(f)
    BY <1>2 DEF Found, OnlyMe
  <1>9. alone \in 0 .. AloneAfter + 1
    BY DEF NamesInv, StreakIs
  <1>10. ASSUME alone' <= AloneAfter
         PROVE  alone' <= Len(taken') /\ \A i \in 1 .. alone' : OnlyMe(taken'[i])
    <2>1. CASE ~OnlyMe(found)
      BY <1>2, <1>3, <1>5, <1>6, <2>1 DEF Streak
    <2>2. CASE OnlyMe(found)
      <3>1. alone' = alone + 1 /\ alone + 1 <= AloneAfter
        BY <1>2, <1>3, <1>9, <1>10, <2>2 DEF Streak
      <3>2. alone <= Len(taken) /\ \A i \in 1 .. alone : OnlyMe(taken[i])
        BY <1>3, <1>9, <3>1 DEF NamesInv, StreakIs
      <3>3. alone + 1 <= n
        BY <1>3, <1>9, <3>1, <3>2 DEF n
      <3>4. ASSUME NEW i \in 1 .. alone + 1 PROVE OnlyMe(taken'[i])
        <4>1. CASE i = 1
          BY <1>7, <2>2, <4>1
        <4>2. CASE i # 1
          <5>1. i - 1 \in 1 .. alone /\ i \in 2 .. Len(taken) + 1 /\ i \in 1 .. n
            BY <1>3, <1>5, <1>9, <3>2, <3>3, <3>4, <4>2
          <5>2. taken'[i] = taken[i - 1]
            BY <1>4, <1>6, <5>1
          <5> QED
            BY <3>2, <5>1, <5>2
        <4> QED
          BY <4>1, <4>2
      <3> QED
        BY <1>6, <3>1, <3>3, <3>4
    <2> QED
      BY <2>1, <2>2
  <1>11. StreakIs'
    <2>1. alone' \in 0 .. AloneAfter + 1
      BY <1>2, <1>3, <1>9 DEF Streak
    <2> QED
      BY <1>5, <1>6, <1>8, <1>10, <2>1 DEF StreakIs
  <1>12. SeedsAre'
    <2>1. Remembered(found) \in [hosts -> Answers]
      BY <1>1 DEF Remembered, Found, NamesInv, SeedsAre
    <2>2. \A s : s \in Current(found) <=>
                   s # Me /\ s \notin kept /\ \E h \in hosts : s \in last'[h]
      BY <1>2, CurrentIs
    <2>3. kept \subseteq Others
      BY DEF NamesInv, SeedsAre
    <2>4. seeds = kept \union added /\ added \intersect kept = {} /\ Current(found) \intersect kept = {}
      BY CurrentIs DEF NamesInv, SeedsAre
    <2>5. seeds' = kept' \union added'
      BY <1>2, <2>4 DEF SeedsWith
    <2> QED
      BY <1>2, <2>1, <2>2, <2>3, <2>5 DEF SeedsAre
  <1>13. ASSUME expects, ~expects' PROVE AloneThroughout(taken')
    <2>1. alone' = AloneAfter
      BY <1>2, <1>13
    <2>2. n = AloneAfter
      BY <1>3, <1>5, <1>6, <1>10, <2>1
    <2>3. ASSUME NEW i \in 1 .. AloneAfter
          PROVE  /\ \A h \in hosts : taken'[i][h] # Failed
                 /\ UNION {taken'[i][h] : h \in hosts} = {Me}
      <3>1. OnlyMe(taken'[i])
        BY <1>3, <1>10, <2>1, <2>3
      <3> QED
        BY <1>8, <3>1 DEF OnlyMe
    <2> QED
      BY <1>6, <2>2, <2>3 DEF AloneThroughout
  <1> QED
    BY <1>1, <1>2, <1>7, <1>11, <1>12, <1>13 DEF found

\* Any other step leaves what the node knows alone.
LEMMA LookupsMove ==
    ASSUME NamesInv, NamesNext, ~Update
    PROVE  NamesInv' /\ UNCHANGED <<seeds, expects, hosts, last, kept>>
  <1>1. UNCHANGED <<hosts, last, kept, added, alone, seeds, expects, taken>>
    BY DEF NamesNext, Resolves, LookupFails, Lookup, Move, SendRound, Join, nodeVars, lookupVars
  <1>2. Found' = Found /\ \A f : OnlyMe(f)' <=> OnlyMe(f)
    BY <1>1 DEF Found, OnlyMe
  <1>3. SeedsAre' /\ StreakIs'
    BY <1>1, <1>2 DEF NamesInv, SeedsAre, StreakIs
  <1>4. behind' \in [hosts -> Answers] /\ hosts' \subseteq Hosts
    BY <1>1 DEF NamesInv, NamesNext, Resolves, LookupFails, Lookup, Move, SendRound, Join, lookupVars
  <1>5. ASSUME NEW h \in hosts, NEW answer \in Answers \union {Failed}, Lookup(h, answer) PROVE LookedUp'
    <2>1. DOMAIN round' = Looked \union {h}
      BY <1>5 DEF Lookup
    <2>2. \A x \in Looked \union {h} : round'[x] \in Answers \union {Failed}
      BY <1>5 DEF Lookup, NamesInv, LookedUp
    <2>3. round' = [x \in Looked' |-> round'[x]]
      BY <1>5, <2>1 DEF Lookup, Looked
    <2>4. sent' = sent
      BY <1>5 DEF Lookup
    <2> QED
      BY <1>1, <1>2, <2>1, <2>2, <2>3, <2>4 DEF NamesInv, LookedUp, Looked
  <1>6. CASE \E h \in hosts : Resolves(h) \/ LookupFails(h)
    <2>1. PICK h \in hosts, answer \in Answers \union {Failed} : Lookup(h, answer)
      BY <1>6 DEF Resolves, LookupFails, NamesInv
    <2> QED
      BY <1>1, <1>3, <1>4, <1>5, <2>1 DEF NamesInv
  <1>7. CASE SendRound
    <2>1. round \in Found
      BY <1>7 DEF SendRound, NamesInv, LookedUp, Found
    <2>2. sent' = Append(sent, round) /\ Len(sent) < 1 /\ round' = <<>> /\ sent \in Seq(Found)
      BY <1>7 DEF SendRound, NamesInv, LookedUp
    <2>3. sent' \in Seq(Found) /\ Len(sent') <= 1
      BY <2>1, <2>2
    <2>4. Looked' = {} /\ round' = [x \in {} |-> round'[x]]
      BY <2>2 DEF Looked
    <2>5. LookedUp'
      BY <1>1, <1>2, <2>3, <2>4 DEF LookedUp
    <2> QED
      BY <1>1, <1>3, <1>4, <2>5 DEF NamesInv
  <1>8. CASE Join \/ \E h \in hosts : \E to \in Answers : Move(h, to)
    <2>1. UNCHANGED <<round, sent>>
      BY <1>8 DEF Join, Move, lookupVars
    <2>2. LookedUp'
      BY <1>1, <1>2, <2>1 DEF NamesInv, LookedUp, Looked
    <2> QED
      BY <1>1, <1>3, <1>4, <2>2 DEF NamesInv
  <1> QED
    BY <1>6, <1>7, <1>8 DEF NamesNext

\* Every step keeps NamesInv.
LEMMA NamesStep == NamesInv /\ [NamesNext]_namesVars => NamesInv'
  <1> SUFFICES ASSUME NamesInv, [NamesNext]_namesVars PROVE NamesInv'
    OBVIOUS
  <1>1. CASE UNCHANGED namesVars
    BY <1>1 DEF namesVars, lookupVars, nodeVars, NamesInv, LookedUp, Looked, SeedsAre, StreakIs, OnlyMe, Found
  <1>2. CASE Update
    <2>1. SeedsAre' /\ StreakIs' /\ UNCHANGED <<hosts, behind, round>> /\ sent' = Tail(sent) /\ sent # <<>>
      BY <1>2, UpdateIs DEF Update
    <2>2. LookedUp'
      <3>1. Tail(sent) \in Seq(Found) /\ Len(Tail(sent)) <= 1
        BY <2>1 DEF NamesInv, LookedUp
      <3>2. Found' = Found
        BY <2>1 DEF Found
      <3> QED
        BY <2>1, <3>1, <3>2 DEF NamesInv, LookedUp, Looked
    <2> QED
      BY <2>1, <2>2 DEF NamesInv
  <1>3. CASE NamesNext /\ ~Update
    BY <1>3, LookupsMove
  <1> QED
    BY <1>1, <1>2, <1>3

\* The step OnlyAnswersCount speaks of.
AnswersCount ==
    /\ expects /\ ~expects' => AloneThroughout(taken')
    /\ \A s \in seeds \ seeds' :
         /\ s \notin kept
         /\ \E h \in hosts : taken'[1][h] # Failed /\ s \in last[h] \ taken'[1][h]
         /\ \A h \in hosts : s \notin last'[h]

\* Every step is one that only answers caused.
LEMMA NamesAnswer == NamesInv /\ [NamesNext]_namesVars => [AnswersCount]_namesVars
  <1> SUFFICES ASSUME NamesInv, NamesNext PROVE AnswersCount
    OBVIOUS
  <1>1. CASE ~Update
    BY <1>1, LookupsMove DEF AnswersCount
  <1>2. CASE Update
    <2> DEFINE found == Head(sent)
    <2>1. /\ taken'[1] = found /\ found \in Found /\ last' = Remembered(found) /\ added' = Current(found)
          /\ expects /\ ~expects' => AloneThroughout(taken')
          /\ seeds' = (seeds \union Current(found)) \ (added \ Current(found))
      BY <1>2, UpdateIs DEF Update, SeedsWith
    <2> HIDE DEF found
    <2> SUFFICES ASSUME NEW s \in seeds \ seeds'
                 PROVE  /\ s \notin kept
                        /\ \E h \in hosts : taken'[1][h] # Failed /\ s \in last[h] \ taken'[1][h]
                        /\ \A h \in hosts : s \notin last'[h]
      BY <2>1 DEF AnswersCount
    <2>2. s \in added /\ s \notin Current(found)
      BY <2>1
    <2>3. s \notin kept /\ s # Me /\ \E h \in hosts : s \in last[h]
      BY <2>2 DEF NamesInv, SeedsAre
    <2>4. \A h \in hosts : s \notin Remembered(found)[h]
      BY <2>2, <2>3, CurrentIs
    <2>5. PICK h \in hosts : s \in last[h]
      BY <2>3
    <2>6. Remembered(found)[h] = IF found[h] = Failed THEN last[h] ELSE found[h]
      BY DEF Remembered
    <2>7. found[h] # Failed /\ s \notin found[h]
      BY <2>4, <2>5, <2>6
    <2> QED
      BY <2>1, <2>3, <2>4, <2>5, <2>7
  <1> QED
    BY <1>1, <1>2

\* NamesInv holds at the start.
LEMMA NamesInitHolds == NamesInit => NamesInv
  <1> SUFFICES ASSUME NamesInit PROVE NamesInv
    OBVIOUS
  <1>1. hosts \subseteq Hosts /\ behind \in [hosts -> Answers]
    BY DEF NamesInit
  <1>2. LookedUp
    BY DEF NamesInit, LookedUp, Looked
  <1>3. SeedsAre
    <2>1. last = [h \in hosts |-> {}] /\ added = {} /\ seeds = kept /\ kept \subseteq Others
      BY DEF NamesInit
    <2>2. {} \in Answers
      BY DEF Answers
    <2> QED
      BY <2>1, <2>2 DEF SeedsAre
  <1>4. StreakIs
    <2>1. <<>> \in Seq(Found) /\ Len(<<>>) = 0
      OBVIOUS
    <2> QED
      BY <2>1, NamesAssumption DEF NamesInit, StreakIs
  <1> QED
    BY <1>1, <1>2, <1>3, <1>4 DEF NamesInv

\* A failed lookup is no answer (driver.rs, Names::update): for any names,
\* addresses and ALONE_AFTER, a node gives up on peers only after as many rounds
\* that all say it is alone, and drops a seed only when no name lists it.
THEOREM SilenceIsNoAnswer == NamesSpec => OnlyAnswersCount
  <1>1. NamesSpec => [][AnswersCount]_namesVars
    BY NamesInitHolds, NamesStep, NamesAnswer, PTL DEF NamesSpec
  <1> QED
    BY <1>1 DEF AnswersCount, OnlyAnswersCount

\* The seeds are those given as addresses and those behind the names, and the
\* streak of lonely rounds never passes ALONE_AFTER + 1.
THEOREM NamesTypes == NamesSpec => []NamesTypeOK
  <1>1. NamesInv => NamesTypeOK
    <2> SUFFICES ASSUME NamesInv PROVE NamesTypeOK
      OBVIOUS
    <2>1. added \subseteq Others \ kept
      <3> SUFFICES ASSUME NEW s \in added PROVE s \in Others \ kept
        OBVIOUS
      <3>1. s # Me /\ s \notin kept /\ \E h \in hosts : s \in last[h]
        BY DEF NamesInv, SeedsAre
      <3>2. \A h \in hosts : last[h] \subseteq {Me} \union Others
        BY DEF NamesInv, SeedsAre, Answers
      <3> QED
        BY <3>1, <3>2
    <2> QED
      BY <2>1 DEF NamesInv, LookedUp, SeedsAre, StreakIs, NamesTypeOK
  <1> QED
    BY <1>1, NamesInitHolds, NamesStep, PTL DEF NamesSpec

----------------------------------------------------------------------------
\* DeniedKeys: the tables of names, and the lists they stand for.

\* A list of all of D, in the order of its stamps.
Ordered(D, f, l) ==
    /\ l \in Seq(D)
    /\ \A i \in 1..Len(l) : \A j \in 1..Len(l) : i < j => f[l[i]] < f[l[j]]
    /\ \A x \in D : \E i \in 1..Len(l) : l[i] = x

\* Those of D up to a stamp.
UpTo(D, f, s) == {x \in D : f[x] <= s}

\* The list of D by the rank of the stamps.
ByRank(D, f) ==
    [k \in 1..Cardinality(D) |-> CHOOSE h \in D : Cardinality(UpTo(D, f, f[h])) = k]

\* What a place of an ordered list holds.
LEMMA OrderedPlaces ==
    ASSUME NEW D, NEW f \in [D -> Nat], NEW l, Ordered(D, f, l)
    PROVE  /\ Len(l) \in Nat
           /\ \A i \in 1..Len(l) : l[i] \in D
           /\ \A i \in 1..Len(l) : f[l[i]] \in Nat
  <1>1. l \in Seq(D)
    BY DEF Ordered
  <1>2. Len(l) \in Nat /\ \A i \in 1..Len(l) : l[i] \in D
    BY <1>1, LenProperties, ElementOfSeq
  <1>3. \A i \in 1..Len(l) : f[l[i]] \in Nat
    BY <1>2
  <1> QED
    BY <1>2, <1>3

\* The stamps of an ordered list grow along it.
LEMMA OrderedGrows ==
    ASSUME NEW D, NEW f, NEW l, Ordered(D, f, l)
    PROVE  \A i \in 1..Len(l) : \A j \in 1..Len(l) : i < j => f[l[i]] < f[l[j]]
  BY Zenon DEF Ordered

\* An ordered list has everything.
LEMMA OrderedHas ==
    ASSUME NEW D, NEW f, NEW l, Ordered(D, f, l)
    PROVE  \A x \in D : \E i \in 1..Len(l) : l[i] = x
  BY Zenon DEF Ordered

\* A place is before another just where its stamp is the smaller one.
LEMMA OrderedPlacesAreStamps ==
    ASSUME NEW D, NEW f \in [D -> Nat], NEW l, Ordered(D, f, l),
           NEW i \in 1..Len(l), NEW j \in 1..Len(l)
    PROVE  /\ i <= j <=> f[l[i]] <= f[l[j]]
           /\ l[i] = l[j] => i = j
  <1>1. f[l[i]] \in Nat /\ f[l[j]] \in Nat /\ i \in Int /\ j \in Int
    BY OrderedPlaces
  <1>2. (i < j => f[l[i]] < f[l[j]]) /\ (j < i => f[l[j]] < f[l[i]])
    BY OrderedGrows
  <1> QED
    BY <1>1, <1>2

\* The rank of a place in an ordered list is the place.
LEMMA RankOf ==
    ASSUME NEW D, NEW f \in [D -> Nat], NEW l, Ordered(D, f, l)
    PROVE  \A k \in 1..Len(l) :
              /\ IsFiniteSet(UpTo(D, f, f[l[k]]))
              /\ Cardinality(UpTo(D, f, f[l[k]])) = k
  <1> SUFFICES ASSUME NEW k \in 1..Len(l)
               PROVE  /\ IsFiniteSet(UpTo(D, f, f[l[k]]))
                      /\ Cardinality(UpTo(D, f, f[l[k]])) = k
    OBVIOUS
  <1> DEFINE S == {x \in D : f[x] <= f[l[k]]}
             g == [j \in 1..k |-> l[j]]
  <1>1. Len(l) \in Nat /\ k \in Nat /\ \A j \in 1..k : j \in 1..Len(l)
    BY OrderedPlaces
  <1>2. ASSUME NEW j \in 1..k PROVE l[j] \in S
    <2>1. j \in 1..Len(l)
      BY <1>1
    <2>2. l[j] \in D
      BY <2>1, OrderedPlaces
    <2>3. f[l[j]] <= f[l[k]]
      BY <2>1, OrderedPlacesAreStamps
    <2> QED
      BY <2>2, <2>3
  <1>3. ASSUME NEW x \in S PROVE \E j \in 1..k : l[j] = x
    <2>1. PICK j \in 1..Len(l) : l[j] = x
      BY OrderedHas
    <2>2. f[l[j]] <= f[l[k]]
      BY <2>1
    <2>3. j <= k
      BY <2>2, OrderedPlacesAreStamps
    <2> QED
      BY <2>1, <2>3
  <1>4. g \in Surjection(1..k, S)
    BY <1>2, <1>3 DEF Surjection
  <1>5. ASSUME NEW i \in 1..k, NEW j \in 1..k, l[i] = l[j] PROVE i = j
    <2>1. i \in 1..Len(l) /\ j \in 1..Len(l)
      BY <1>1
    <2> QED
      BY <2>1, <1>5, OrderedPlacesAreStamps
  <1>6. g \in Injection(1..k, S)
    <2> HIDE DEF S
    <2>1. g \in [1..k -> S]
      BY <1>2
    <2>2. \A i, j \in 1..k : g[i] = g[j] => i = j
      BY <1>5
    <2> HIDE DEF g
    <2> QED
      BY <2>1, <2>2 DEF Injection, IsInjective
  <1>7. IsFiniteSet(1..k) /\ Cardinality(1..k) = k
    BY <1>1, FS_Interval
  <1> HIDE DEF S, g
  <1>8. IsFiniteSet(S) /\ Cardinality(S) = k
    BY <1>4, <1>6, <1>7, FS_Surjection
  <1> QED
    BY <1>8 DEF S, UpTo

\* What has k before it is what is at place k.
LEMMA AtItsRank ==
    ASSUME NEW D, NEW f \in [D -> Nat], NEW l, Ordered(D, f, l), NEW k \in 1..Len(l),
           NEW h \in D
    PROVE  Cardinality(UpTo(D, f, f[h])) = k <=> h = l[k]
  <1>1. PICK m \in 1..Len(l) : l[m] = h
    BY OrderedHas
  <1> DEFINE R(i) == IsFiniteSet(UpTo(D, f, f[l[i]])) /\ Cardinality(UpTo(D, f, f[l[i]])) = i
  <1>2. \A i \in 1..Len(l) : R(i)
    BY RankOf
  <1> HIDE DEF R
  <1>3. R(m)
    BY <1>2
  <1>4. Cardinality(UpTo(D, f, f[l[m]])) = m
    BY <1>3 DEF R
  <1>5. Cardinality(UpTo(D, f, f[h])) = m
    BY <1>1, <1>4, Zenon
  <1>6. l[m] = l[k] => m = k
    BY OrderedPlacesAreStamps
  <1> QED
    BY <1>1, <1>5, <1>6

\* An ordered list has as many places as the set it lists, which is finite.
LEMMA OrderedCounts ==
    ASSUME NEW D, NEW f \in [D -> Nat], NEW l, Ordered(D, f, l)
    PROVE  IsFiniteSet(D) /\ Cardinality(D) = Len(l)
  <1>1. Len(l) \in Nat
    BY OrderedPlaces
  <1>2. CASE Len(l) = 0
    <2>1. D = {}
      BY <1>2, OrderedHas
    <2> QED
      BY <2>1, <1>2, FS_EmptySet
  <1>3. CASE Len(l) # 0
    <2>1. PICK k : k = Len(l)
      OBVIOUS
    <2>2. k \in 1..Len(l)
      BY <1>1, <1>3, <2>1
    <2>3. ASSUME NEW x \in D PROVE f[x] <= f[l[k]]
      <3>1. PICK j \in 1..Len(l) : l[j] = x
        BY OrderedHas
      <3>2. j <= k
        BY <1>1, <2>1
      <3>3. f[l[j]] <= f[l[k]]
        BY <2>2, <3>2, OrderedPlacesAreStamps
      <3> QED
        BY <3>1, <3>3
    <2>4. UpTo(D, f, f[l[k]]) = D
      BY <2>3 DEF UpTo
    <2> DEFINE R(i) == IsFiniteSet(UpTo(D, f, f[l[i]])) /\ Cardinality(UpTo(D, f, f[l[i]])) = i
    <2>5. \A i \in 1..Len(l) : R(i)
      BY RankOf
    <2> HIDE DEF R
    <2>6. R(k)
      BY <2>2, <2>5
    <2>7. /\ IsFiniteSet(UpTo(D, f, f[l[k]]))
          /\ Cardinality(UpTo(D, f, f[l[k]])) = k
      BY <2>6 DEF R
    <2> QED
      BY <2>1, <2>4, <2>7
  <1> QED
    BY <1>2, <1>3

\* An ordered list is the list by rank: there is only one.
LEMMA OrderedIsByRank ==
    ASSUME NEW D, NEW f \in [D -> Nat], NEW l, Ordered(D, f, l)
    PROVE  l = ByRank(D, f)
  <1>1. l \in Seq(D)
    BY DEF Ordered
  <1>2. Cardinality(D) = Len(l)
    BY OrderedCounts
  <1>3. ASSUME NEW k \in 1..Len(l)
        PROVE  l[k] = CHOOSE h \in D : Cardinality(UpTo(D, f, f[h])) = k
    <2>1. l[k] \in D
      BY OrderedPlaces
    <2>2. \A h \in D : Cardinality(UpTo(D, f, f[h])) = k <=> h = l[k]
      BY AtItsRank
    <2> QED
      BY <2>1, <2>2
  <1>4. l = [k \in 1..Len(l) |-> l[k]]
    BY <1>1
  <1>5. [k \in 1..Len(l) |-> l[k]] = ByRank(D, f)
    BY <1>2, <1>3 DEF ByRank
  <1> QED
    BY <1>4, <1>5

\* Nothing is listed by the empty list.
LEMMA EmptyOrdered == ASSUME NEW f PROVE Ordered({}, f, <<>>)
  <1>1. <<>> \in Seq({}) /\ Len(<<>>) = 0
    BY EmptySeq
  <1> QED
    BY <1>1 DEF Ordered

\* A new name after the others, with a stamp above theirs.
LEMMA AppendOrdered ==
    ASSUME NEW D, NEW f \in [D -> Nat], NEW l, Ordered(D, f, l),
           NEW h, h \notin D, NEW g,
           \A x \in D : g[x] = f[x] /\ f[x] < g[h]
    PROVE  Ordered(D \union {h}, g, Append(l, h)) /\ Len(Append(l, h)) = Len(l) + 1
  <1> DEFINE E == D \union {h}
             m == Append(l, h)
  <1>1. l \in Seq(D)
    BY DEF Ordered
  <1>2. l \in Seq(E)
    BY <1>1
  <1>3. /\ m \in Seq(E) /\ Len(m) = Len(l) + 1 /\ m[Len(l) + 1] = h
        /\ \A i \in 1..Len(l) : m[i] = l[i]
    BY <1>2, AppendProperties
  <1>4. Len(l) \in Nat /\ \A i \in 1..Len(l) : l[i] \in D
    BY OrderedPlaces
  <1> HIDE DEF m
  <1>5. ASSUME NEW i \in 1..Len(m), NEW j \in 1..Len(m), i < j PROVE g[m[i]] < g[m[j]]
    <2>1. i \in 1..Len(l) /\ m[i] = l[i] /\ l[i] \in D
      BY <1>3, <1>4, <1>5
    <2>2. CASE j = Len(l) + 1
      <3>1. m[j] = h
        BY <2>2, <1>3
      <3>2. g[l[i]] = f[l[i]] /\ f[l[i]] < g[h]
        BY <2>1
      <3> QED
        BY <2>1, <3>1, <3>2
    <2>3. CASE j # Len(l) + 1
      <3>1. j \in 1..Len(l)
        BY <2>3, <1>3, <1>4
      <3>2. m[j] = l[j] /\ l[j] \in D
        BY <3>1, <1>3, <1>4
      <3>3. f[l[i]] < f[l[j]]
        BY <2>1, <3>1, <1>5, OrderedGrows
      <3>4. g[l[i]] = f[l[i]] /\ g[l[j]] = f[l[j]]
        BY <2>1, <3>2
      <3> QED
        BY <2>1, <3>2, <3>3, <3>4
    <2> QED
      BY <2>2, <2>3
  <1>6. ASSUME NEW x \in E PROVE \E i \in 1..Len(m) : m[i] = x
    <2>1. CASE x = h
      <3>1. Len(l) + 1 \in 1..Len(m)
        BY <1>3, <1>4
      <3> QED
        BY <2>1, <3>1, <1>3
    <2>2. CASE x # h
      <3>1. x \in D
        BY <2>2
      <3>2. PICK i \in 1..Len(l) : l[i] = x
        BY <3>1, OrderedHas
      <3>3. i \in 1..Len(m) /\ m[i] = l[i]
        BY <1>3, <1>4
      <3> QED
        BY <3>2, <3>3
    <2> QED
      BY <2>1, <2>2
  <1>7. Ordered(E, g, m)
    BY <1>3, <1>5, <1>6, Zenon DEF Ordered
  <1> QED
    BY <1>3, <1>7 DEF m

\* Where a name is among the listed ones.
LEMMA AmongOrdered ==
    ASSUME NEW D, NEW f \in [D -> Nat], NEW l, Ordered(D, f, l), NEW h
    PROVE  LastDenied!Among(l, h) <=> h \in D
  <1>1. LastDenied!Among(l, h) => h \in D
    BY OrderedPlaces DEF LastDenied!Among
  <1>2. h \in D => LastDenied!Among(l, h)
    BY OrderedHas DEF LastDenied!Among
  <1> QED
    BY <1>1, <1>2

\* Without a name the list is that of the others.
LEMMA WithoutOrdered ==
    ASSUME NEW D, NEW f \in [D -> Nat], NEW l, Ordered(D, f, l), NEW h \in D,
           NEW g, \A x \in D \ {h} : g[x] = f[x]
    PROVE  /\ Ordered(D \ {h}, g, LastDenied!Without(l, h))
           /\ Len(LastDenied!Without(l, h)) = Len(l) - 1
  <1> DEFINE E == D \ {h}
             at == CHOOSE i \in 1..Len(l) : l[i] = h
             p == [i \in 1..Len(l) - 1 |-> IF i < at THEN i ELSE i + 1]
             m == [i \in 1..Len(l) - 1 |-> IF i < at THEN l[i] ELSE l[i + 1]]
  <1>1. Len(l) \in Nat /\ \A i \in 1..Len(l) : l[i] \in D
    BY OrderedPlaces
  <1>2. \E i \in 1..Len(l) : l[i] = h
    BY OrderedHas
  <1>3. at \in 1..Len(l) /\ l[at] = h
    BY <1>2
  <1>4. LastDenied!Without(l, h) = m
    BY <1>2 DEF LastDenied!Without, LastDenied!Among
  <1> HIDE DEF at
  <1>5. Len(l) - 1 \in Nat
    BY <1>1, <1>3
  <1>6. p \in [1..Len(l) - 1 -> 1..Len(l)]
    BY <1>1, <1>3, <1>5
  <1>7. \A i, j \in 1..Len(l) - 1 : i < j => p[i] < p[j]
    BY <1>1, <1>3, <1>5
  <1>8. \A i \in 1..Len(l) - 1 : p[i] # at
    BY <1>1, <1>3, <1>5
  <1>9. \A i \in 1..Len(l) - 1 : m[i] = l[p[i]]
    OBVIOUS
  <1>10. ASSUME NEW j \in 1..Len(l), j # at PROVE \E i \in 1..Len(l) - 1 : p[i] = j
    <2>1. CASE j < at
      <3>1. j \in 1..Len(l) - 1 /\ p[j] = j
        BY <2>1, <1>1, <1>3
      <3> QED
        BY <3>1
    <2>2. CASE ~(j < at)
      <3>1. j - 1 \in 1..Len(l) - 1 /\ ~(j - 1 < at) /\ (j - 1) + 1 = j
        BY <2>2, <1>1, <1>3, <1>10
      <3>2. p[j - 1] = j
        BY <3>1
      <3> QED
        BY <3>1, <3>2
    <2> QED
      BY <2>1, <2>2
  <1> HIDE DEF p
  <1>11. ASSUME NEW i \in 1..Len(l) - 1 PROVE m[i] \in E
    <2>1. p[i] \in 1..Len(l) /\ p[i] # at /\ m[i] = l[p[i]]
      BY <1>6, <1>8, <1>9
    <2>2. l[p[i]] # h
      BY <2>1, <1>3, OrderedPlacesAreStamps
    <2> QED
      BY <2>1, <2>2, <1>1
  <1>12. m \in Seq(E) /\ Len(m) = Len(l) - 1
    <2>1. m \in [1..Len(l) - 1 -> E]
      BY <1>11
    <2>2. PICK n \in Nat : n = Len(l) - 1
      BY <1>5
    <2> HIDE DEF m
    <2>3. m \in [1..n -> E]
      BY <2>1, <2>2
    <2>4. m \in Seq(E)
      BY <2>3, SeqDef
    <2>5. Len(m) = n
      BY <2>3, <2>4, LenProperties
    <2> QED
      BY <2>2, <2>4, <2>5
  <1> HIDE DEF m
  <1>13. ASSUME NEW x \in E PROVE \E i \in 1..Len(m) : m[i] = x
    <2>1. PICK j \in 1..Len(l) : l[j] = x
      BY OrderedHas
    <2>2. j # at
      BY <2>1, <1>3
    <2>3. PICK i \in 1..Len(l) - 1 : p[i] = j
      BY <2>2, <1>10
    <2> QED
      BY <2>1, <2>3, <1>9, <1>12
  <1>14. ASSUME NEW i \in 1..Len(m), NEW j \in 1..Len(m), i < j PROVE g[m[i]] < g[m[j]]
    <2>1. p[i] \in 1..Len(l) /\ p[j] \in 1..Len(l) /\ p[i] < p[j]
      BY <1>6, <1>7, <1>12, <1>14
    <2>2. f[l[p[i]]] < f[l[p[j]]]
      BY <2>1, OrderedGrows
    <2>3. m[i] \in E /\ m[j] \in E
      BY <1>11, <1>12
    <2>4. g[m[i]] = f[m[i]] /\ g[m[j]] = f[m[j]]
      BY <2>3
    <2>5. m[i] = l[p[i]] /\ m[j] = l[p[j]]
      BY <1>9, <1>12
    <2> QED
      BY <2>2, <2>4, <2>5
  <1>15. Ordered(E, g, m)
    BY <1>12, <1>13, <1>14, Zenon DEF Ordered
  <1> QED
    BY <1>4, <1>12, <1>15

\* Without its first the list is that of the others.
LEMMA TailOrdered ==
    ASSUME NEW D, NEW f \in [D -> Nat], NEW l, Ordered(D, f, l), l # <<>>,
           NEW g, \A x \in D \ {l[1]} : g[x] = f[x]
    PROVE  /\ Ordered(D \ {l[1]}, g, Tail(l)) /\ Len(Tail(l)) = Len(l) - 1
           /\ l[1] \in D /\ \A x \in D \ {l[1]} : f[l[1]] < f[x]
  <1> DEFINE E == D \ {l[1]}
             m == Tail(l)
  <1>1. Len(l) \in Nat /\ \A i \in 1..Len(l) : l[i] \in D
    BY OrderedPlaces
  <1>2. l \in Seq(D)
    BY DEF Ordered
  <1>3. Len(l) # 0
    BY <1>2, EmptySeq
  <1>4. Len(m) = Len(l) - 1 /\ \A i \in 1..Len(m) : m[i] = l[i + 1]
    BY <1>2, HeadTailProperties
  <1>5. m \in Seq(D)
    BY <1>2, HeadTailProperties
  <1> HIDE DEF m
  <1>6. ASSUME NEW i \in 1..Len(m) PROVE m[i] \in E /\ i + 1 \in 1..Len(l)
    <2>1. i + 1 \in 1..Len(l) /\ 1 \in 1..Len(l) /\ i + 1 # 1
      BY <1>1, <1>3, <1>4
    <2>2. l[i + 1] # l[1]
      BY <2>1, OrderedPlacesAreStamps
    <2> QED
      BY <2>1, <2>2, <1>1, <1>4
  <1>7. m \in Seq(E)
    <2>1. PICK n : n = Len(m)
      OBVIOUS
    <2>2. n \in Nat
      BY <2>1, <1>1, <1>3, <1>4
    <2>3. m \in [1..n -> D]
      BY <2>1, <1>5, LenProperties
    <2>4. m \in [1..n -> E]
      BY <2>1, <2>3, <1>6
    <2> QED
      BY <2>2, <2>4, SeqDef
  <1>8. ASSUME NEW i \in 1..Len(m), NEW j \in 1..Len(m), i < j PROVE g[m[i]] < g[m[j]]
    <2>1. i + 1 \in 1..Len(l) /\ j + 1 \in 1..Len(l) /\ i + 1 < j + 1
      BY <1>1, <1>3, <1>4, <1>8
    <2>2. f[l[i + 1]] < f[l[j + 1]]
      BY <2>1, OrderedGrows
    <2>3. m[i] \in E /\ m[j] \in E
      BY <1>6
    <2>4. g[m[i]] = f[m[i]] /\ g[m[j]] = f[m[j]]
      BY <2>3
    <2> QED
      BY <2>2, <2>4, <1>4
  <1>9. ASSUME NEW x \in E PROVE \E i \in 1..Len(m) : m[i] = x
    <2>1. PICK j \in 1..Len(l) : l[j] = x
      BY OrderedHas
    <2>2. j # 1
      BY <2>1
    <2>3. j - 1 \in 1..Len(m) /\ (j - 1) + 1 = j
      BY <2>2, <1>1, <1>4
    <2> QED
      BY <2>1, <2>3, <1>4
  <1>10. Ordered(E, g, m)
    BY <1>7, <1>8, <1>9, Zenon DEF Ordered
  <1>11. ASSUME NEW x \in E PROVE f[l[1]] < f[x]
    <2>1. PICK j \in 1..Len(l) : l[j] = x
      BY OrderedHas
    <2>2. 1 \in 1..Len(l) /\ 1 < j
      BY <2>1, <1>1, <1>3
    <2> QED
      BY <2>1, <2>2, OrderedGrows
  <1>12. l[1] \in D
    BY <1>1, <1>3
  <1> QED
    BY <1>4, <1>10, <1>11, <1>12 DEF m

\* The stamps of an order: each below the next one to be given, in the order given.
Stamps(o, n) ==
    /\ n \in Nat /\ o \in Seq(Hashes \X Nat)
    /\ \A i \in 1..Len(o) : o[i][2] < n
    /\ \A i \in 1..Len(o) : \A j \in 1..Len(o) : i < j => o[i][2] < o[j][2]

\* Each name's stamp is in the order, beside the name.
InOrder(D, f, o) == \A x \in D : \E i \in 1..Len(o) : o[i][1] = x /\ o[i][2] = f[x]

\* The names, their stamps, the order and the next stamp, and the list of the names.
Good(D, f, o, n, l) ==
    /\ D \subseteq Hashes /\ f \in [D -> Nat]
    /\ Stamps(o, n) /\ InOrder(D, f, o) /\ Ordered(D, f, l)

\* Where the order has the live stamps, and the first of them; the stamps with
\* a new one for a name, and without a name's.
LivePlaces(f, o) == {i \in DOMAIN o : Live(f, o[i])}

FirstLive(f, o) ==
    CHOOSE i \in DOMAIN o : Goes(f, o[i]) /\ \A j \in 1..i - 1 : ~Goes(f, o[j])

Renewed(D, f, h, n) == [x \in D \union {h} |-> IF x = h THEN n ELSE f[x]]

Without(D, f, h) == [x \in D \ {h} |-> f[x]]

\* What an order of stamps holds.
LEMMA StampsAre ==
    ASSUME NEW o, NEW n, Stamps(o, n)
    PROVE  /\ n \in Nat /\ Len(o) \in Nat /\ DOMAIN o = 1..Len(o)
           /\ \A i \in 1..Len(o) : /\ o[i] \in Hashes \X Nat
                                   /\ o[i][1] \in Hashes /\ o[i][2] \in Nat /\ o[i][2] < n
                                   /\ o[i] = <<o[i][1], o[i][2]>>
  <1>1. n \in Nat /\ o \in Seq(Hashes \X Nat) /\ \A i \in 1..Len(o) : o[i][2] < n
    BY Zenon DEF Stamps
  <1>2. Len(o) \in Nat /\ DOMAIN o = 1..Len(o)
    BY <1>1, LenProperties
  <1>3. \A i \in 1..Len(o) : o[i] \in Hashes \X Nat
    BY <1>1, ElementOfSeq
  <1> QED
    BY <1>1, <1>2, <1>3

\* A stamp is in one place of the order, and the later the greater.
LEMMA StampsGrow ==
    ASSUME NEW o, NEW n, Stamps(o, n), NEW i \in 1..Len(o), NEW j \in 1..Len(o)
    PROVE  /\ i < j <=> o[i][2] < o[j][2]
           /\ o[i][2] = o[j][2] => i = j
  <1>1. o[i][2] \in Nat /\ o[j][2] \in Nat
    BY StampsAre
  <1>2. (i < j => o[i][2] < o[j][2]) /\ (j < i => o[j][2] < o[i][2])
    BY Zenon DEF Stamps
  <1> QED
    BY <1>1, <1>2

\* Compaction leaves the name of each place of the list with its stamp.
LEMMA CompactedOrder ==
    ASSUME NEW D, NEW f, NEW o, NEW n, NEW l, Good(D, f, o, n, l),
           NEW P, P = LivePlaces(f, o)
    PROVE  At(o, P) = [k \in 1..Len(l) |-> <<l[k], f[l[k]]>>]
  <1> DEFINE q == [k \in 1..Len(l) |-> CHOOSE i \in 1..Len(o) : o[i][2] = f[l[k]]]
             id == [i \in P |-> i]
  <1>1. f \in [D -> Nat] /\ Ordered(D, f, l) /\ Stamps(o, n) /\ InOrder(D, f, o) /\ DOMAIN f = D
    BY DEF Good
  <1>2. /\ Len(l) \in Nat /\ \A k \in 1..Len(l) : l[k] \in D /\ f[l[k]] \in Nat
        /\ Len(o) \in Nat /\ DOMAIN o = 1..Len(o)
    BY <1>1, OrderedPlaces, StampsAre
  <1>3. ASSUME NEW k \in 1..Len(l)
        PROVE  q[k] \in 1..Len(o) /\ o[q[k]] = <<l[k], f[l[k]]>>
    <2>1. PICK i \in 1..Len(o) : o[i][1] = l[k] /\ o[i][2] = f[l[k]]
      BY <1>1, <1>2 DEF InOrder
    <2>2. q[k] \in 1..Len(o) /\ o[q[k]][2] = f[l[k]]
      BY <2>1
    <2>3. q[k] = i
      BY <2>1, <2>2, <1>1, StampsGrow
    <2>4. o[i] = <<o[i][1], o[i][2]>>
      BY <1>1, StampsAre
    <2> QED
      BY <2>1, <2>2, <2>3, <2>4
  <1>4. q = [k \in 1..Len(l) |-> q[k]] /\ DOMAIN q = 1..Len(l)
    OBVIOUS
  <1> HIDE DEF q
  <1>5. ASSUME NEW k \in 1..Len(l) PROVE q[k] \in P
    <2>1. o[q[k]][1] = l[k] /\ o[q[k]][2] = f[l[k]] /\ q[k] \in DOMAIN o
      BY <1>2, <1>3
    <2> QED
      BY <2>1, <1>1, <1>2 DEF Live, LivePlaces
  <1>6. q \in Seq(P) /\ Len(q) = Len(l)
    <2>1. q \in [1..Len(l) -> P]
      BY <1>4, <1>5
    <2>2. PICK m \in Nat : m = Len(l)
      BY <1>2
    <2>3. q \in [1..m -> P]
      BY <2>1, <2>2
    <2>4. q \in Seq(P)
      BY <2>3, SeqDef
    <2>5. Len(q) = m
      BY <2>3, <2>4, LenProperties
    <2> QED
      BY <2>2, <2>4, <2>5
  <1>7. ASSUME NEW i \in 1..Len(q), NEW j \in 1..Len(q), i < j PROVE q[i] < q[j]
    <2>1. i \in 1..Len(l) /\ j \in 1..Len(l)
      BY <1>6
    <2>2. f[l[i]] < f[l[j]]
      BY <2>1, <1>1, <1>7, OrderedGrows
    <2>3. o[q[i]][2] = f[l[i]] /\ o[q[j]][2] = f[l[j]]
      BY <2>1, <1>3
    <2>4. o[q[i]][2] < o[q[j]][2]
      BY <2>2, <2>3
    <2>5. q[i] \in 1..Len(o) /\ q[j] \in 1..Len(o)
      BY <2>1, <1>3
    <2> QED
      BY <2>4, <2>5, <1>1, StampsGrow
  <1>8. ASSUME NEW i \in P PROVE \E k \in 1..Len(q) : q[k] = i
    <2>1. i \in 1..Len(o) /\ o[i][1] \in D /\ f[o[i][1]] = o[i][2]
      BY <1>1, <1>2 DEF Live, LivePlaces
    <2>2. PICK k \in 1..Len(l) : l[k] = o[i][1]
      BY <2>1, <1>1, OrderedHas
    <2>3. q[k] \in 1..Len(o) /\ o[q[k]][2] = f[l[k]]
      BY <1>3
    <2>4. o[q[k]][2] = o[i][2]
      BY <2>1, <2>2, <2>3
    <2>5. q[k] = i
      BY <2>1, <2>3, <2>4, <1>1, StampsGrow
    <2> QED
      BY <2>5, <1>6
  <1>9. P \subseteq Nat
    BY <1>2 DEF LivePlaces
  <1>10. id \in [P -> Nat]
    BY <1>9
  <1>11. \A i \in P : id[i] = i
    OBVIOUS
  <1> HIDE DEF id
  <1>12. Ordered(P, id, q)
    <2>1. ASSUME NEW i \in 1..Len(q), NEW j \in 1..Len(q), i < j PROVE id[q[i]] < id[q[j]]
      BY <2>1, <1>5, <1>6, <1>7, <1>11
    <2> QED
      BY <2>1, <1>6, <1>8, Zenon DEF Ordered
  <1>13. Cardinality(P) = Len(l)
    BY <1>6, <1>10, <1>12, OrderedCounts
  <1>14. ASSUME NEW k \in 1..Len(l)
         PROVE  (CHOOSE i \in P : Cardinality({j \in P : j <= i}) = k) = q[k]
    <2>1. k \in 1..Len(q)
      BY <1>6
    <2>2. \A i \in P : Cardinality(UpTo(P, id, id[i])) = k <=> i = q[k]
      BY <2>1, <1>10, <1>12, AtItsRank
    <2>3. \A i \in P : UpTo(P, id, id[i]) = {j \in P : j <= i}
      BY <1>11 DEF UpTo
    <2>4. \A i \in P : Cardinality({j \in P : j <= i}) = k <=> i = q[k]
      BY <2>2, <2>3
    <2>5. q[k] \in P
      BY <1>5
    <2> QED
      BY <2>4, <2>5
  <1> QED
    BY <1>3, <1>13, <1>14 DEF At

\* The order compacted is again one of the names' stamps, and no longer than their list.
LEMMA CompactedGood ==
    ASSUME NEW D, NEW f, NEW o, NEW n, NEW l, Good(D, f, o, n, l),
           NEW c, c = [k \in 1..Len(l) |-> <<l[k], f[l[k]]>>]
    PROVE  Good(D, f, c, n, l) /\ Len(c) = Len(l)
  <1>1. /\ D \subseteq Hashes /\ f \in [D -> Nat] /\ DOMAIN f = D
        /\ Ordered(D, f, l) /\ Stamps(o, n) /\ InOrder(D, f, o)
    BY DEF Good
  <1>2. Len(l) \in Nat /\ \A k \in 1..Len(l) : l[k] \in D /\ f[l[k]] \in Nat
    BY <1>1, OrderedPlaces
  <1>3. c \in Seq(Hashes \X Nat) /\ Len(c) = Len(l)
    <2>1. \A k \in 1..Len(l) : <<l[k], f[l[k]]>> \in Hashes \X Nat
      BY <1>1, <1>2
    <2>2. c \in [1..Len(l) -> Hashes \X Nat]
      BY <2>1
    <2>3. PICK m \in Nat : m = Len(l)
      BY <1>2
    <2>4. c \in [1..m -> Hashes \X Nat]
      BY <2>2, <2>3
    <2>5. c \in Seq(Hashes \X Nat)
      BY <2>4, SeqDef
    <2>6. Len(c) = m
      BY <2>4, <2>5, LenProperties
    <2> QED
      BY <2>3, <2>5, <2>6
  <1>4. \A k \in 1..Len(l) : c[k][1] = l[k] /\ c[k][2] = f[l[k]]
    OBVIOUS
  <1>5. ASSUME NEW k \in 1..Len(l) PROVE f[l[k]] < n
    <2>1. PICK i \in 1..Len(o) : o[i][2] = f[l[k]]
      BY <1>1, <1>2 DEF InOrder
    <2> QED
      BY <2>1, <1>1, StampsAre
  <1>6. Stamps(c, n)
    <2>1. n \in Nat
      BY <1>1, StampsAre
    <2>2. \A i \in 1..Len(c) : c[i][2] < n
      BY <1>3, <1>4, <1>5
    <2>3. \A i \in 1..Len(l) : \A j \in 1..Len(l) : i < j => f[l[i]] < f[l[j]]
      BY <1>1, OrderedGrows
    <2>4. \A i \in 1..Len(c) : \A j \in 1..Len(c) : i < j => c[i][2] < c[j][2]
      BY <2>3, <1>3, <1>4
    <2> QED
      BY <2>1, <2>2, <2>4, <1>3, Zenon DEF Stamps
  <1>7. InOrder(D, f, c)
    <2> SUFFICES ASSUME NEW x \in D PROVE \E i \in 1..Len(c) : c[i][1] = x /\ c[i][2] = f[x]
      BY DEF InOrder
    <2>1. PICK i \in 1..Len(l) : l[i] = x
      BY <1>1, OrderedHas
    <2> QED
      BY <2>1, <1>3, <1>4
  <1> QED
    BY <1>1, <1>3, <1>6, <1>7 DEF Good

\* Without a name or not, the list is that of the others.
LEMMA OthersOrdered ==
    ASSUME NEW D, NEW f \in [D -> Nat], NEW l, Ordered(D, f, l), NEW h,
           NEW g, \A x \in D \ {h} : g[x] = f[x]
    PROVE  Ordered(D \ {h}, g, LastDenied!Without(l, h))
  <1>1. CASE h \in D
    BY <1>1, WithoutOrdered
  <1>2. CASE h \notin D
    <2>1. ~LastDenied!Among(l, h)
      BY <1>2, AmongOrdered
    <2>2. LastDenied!Without(l, h) = l
      BY <2>1 DEF LastDenied!Without
    <2>3. D \ {h} = D
      BY <1>2
    <2>4. ASSUME NEW i \in 1..Len(l), NEW j \in 1..Len(l), i < j PROVE g[l[i]] < g[l[j]]
      <3>1. f[l[i]] < f[l[j]]
        BY <2>4, OrderedGrows
      <3>2. l[i] \in D /\ l[j] \in D
        BY OrderedPlaces
      <3>3. g[l[i]] = f[l[i]] /\ g[l[j]] = f[l[j]]
        BY <3>2, <2>3
      <3> QED
        BY <3>1, <3>3
    <2>5. l \in Seq(D)
      BY DEF Ordered
    <2>6. \A x \in D : \E i \in 1..Len(l) : l[i] = x
      BY OrderedHas
    <2>7. Ordered(D, g, l)
      BY <2>4, <2>5, <2>6, Zenon DEF Ordered
    <2> QED
      BY <2>2, <2>3, <2>7
  <1> QED
    BY <1>1, <1>2

\* A name moved or put to the end, below the capacity.
LEMMA NewestOrdered ==
    ASSUME NEW D, NEW f \in [D -> Nat], NEW l, Ordered(D, f, l), NEW h,
           NEW g, \A x \in D \ {h} : g[x] = f[x] /\ f[x] < g[h],
           Len(l) <= Capacity, h \in D \/ Len(l) < Capacity
    PROVE  Ordered(D \union {h}, g, LastDenied!Newest(l, h))
  <1>1. PICK E : E = D \ {h}
    OBVIOUS
  <1>2. PICK e : e = [x \in E |-> f[x]]
    OBVIOUS
  <1>3. PICK w : w = LastDenied!Without(l, h)
    OBVIOUS
  <1>4. e \in [E -> Nat] /\ \A x \in E : e[x] = f[x]
    BY <1>1, <1>2
  <1>5. Ordered(E, e, w) /\ (h \in D => Len(w) = Len(l) - 1) /\ (h \notin D => Len(w) = Len(l))
    <2>1. \A x \in D \ {h} : e[x] = f[x]
      BY <1>1, <1>4
    <2>2. Ordered(D \ {h}, e, LastDenied!Without(l, h))
      BY <2>1, OthersOrdered
    <2>3. h \in D => Len(LastDenied!Without(l, h)) = Len(l) - 1
      BY <2>1, WithoutOrdered
    <2>4. h \notin D => Len(LastDenied!Without(l, h)) = Len(l)
      BY AmongOrdered DEF LastDenied!Without
    <2> QED
      BY <2>2, <2>3, <2>4, <1>1, <1>3, Zenon
  <1>6. Len(l) \in Nat /\ Capacity \in Nat \ {0}
    BY OrderedPlaces, CapacityAssumption
  <1>7. Len(w) < Capacity
    BY <1>5, <1>6
  <1>8. LastDenied!Newest(l, h) = Append(w, h)
    BY <1>3, <1>7, <1>6, <1>5 DEF LastDenied!Newest
  <1>9. h \notin E /\ \A x \in E : g[x] = e[x] /\ e[x] < g[h]
    BY <1>1, <1>4
  <1>10. Ordered(E \union {h}, g, Append(w, h)) /\ Len(Append(w, h)) = Len(w) + 1
    BY <1>4, <1>5, <1>9, AppendOrdered
  <1>11. E \union {h} = D \union {h}
    BY <1>1
  <1>12. Ordered(D \union {h}, g, LastDenied!Newest(l, h))
    BY <1>8, <1>10, <1>11, Zenon
  <1> QED
    BY <1>12

\* The list stays within the capacity.
LEMMA NewestBounded ==
    ASSUME NEW D, NEW f \in [D -> Nat], NEW l, Ordered(D, f, l), NEW h,
           Len(l) <= Capacity, h \in D \/ Len(l) < Capacity
    PROVE  Len(LastDenied!Newest(l, h)) <= Capacity
  <1>1. PICK w : w = LastDenied!Without(l, h)
    OBVIOUS
  <1>2. (h \in D => Len(w) = Len(l) - 1) /\ (h \notin D => Len(w) = Len(l))
    <2>1. h \in D => Len(w) = Len(l) - 1
      <3> SUFFICES ASSUME h \in D PROVE Len(w) = Len(l) - 1
        OBVIOUS
      <3>1. \A x \in D \ {h} : f[x] = f[x]
        OBVIOUS
      <3>2. Len(LastDenied!Without(l, h)) = Len(l) - 1
        BY <3>1, WithoutOrdered
      <3> QED
        BY <3>2, <1>1
    <2>2. h \notin D => Len(w) = Len(l)
      BY <1>1, AmongOrdered DEF LastDenied!Without
    <2> QED
      BY <2>1, <2>2
  <1>3. Len(l) \in Nat /\ Capacity \in Nat \ {0}
    BY OrderedPlaces, CapacityAssumption
  <1>4. Len(w) \in Nat /\ Len(w) < Capacity
    <2>1. h \in D => Len(l) # 0
      BY OrderedHas, <1>3
    <2> QED
      BY <2>1, <1>2, <1>3
  <1>5. \E S : w \in Seq(S)
    <2>1. PICK g : g = f
      OBVIOUS
    <2>2. Ordered(D \ {h}, g, LastDenied!Without(l, h))
      BY <2>1, OthersOrdered
    <2> QED
      BY <2>2, <1>1 DEF Ordered
  <1>6. PICK S : w \in Seq(S)
    BY <1>5
  <1>7. w \in Seq(S \union {h}) /\ h \in S \union {h}
    BY <1>6
  <1>8. Len(Append(w, h)) = Len(w) + 1
    BY <1>7, AppendProperties
  <1>9. LastDenied!Newest(l, h) = Append(w, h)
    BY <1>1, <1>4 DEF LastDenied!Newest
  <1> QED
    BY <1>3, <1>4, <1>8, <1>9

\* A new stamp for a name: the order is longer by one.
LEMMA StampedGood ==
    ASSUME NEW D, NEW f, NEW o, NEW n, NEW l, Good(D, f, o, n, l), NEW h \in Hashes,
           Len(l) <= Capacity, h \in D \/ Len(l) < Capacity,
           NEW g, g = Renewed(D, f, h, n),
           NEW p, p = Append(o, <<h, n>>)
    PROVE  Good(D \union {h}, g, p, n + 1, LastDenied!Newest(l, h))
  <1>1. /\ D \subseteq Hashes /\ f \in [D -> Nat] /\ DOMAIN f = D
        /\ Ordered(D, f, l) /\ Stamps(o, n) /\ InOrder(D, f, o)
    BY DEF Good
  <1>2. /\ n \in Nat /\ o \in Seq(Hashes \X Nat) /\ Len(o) \in Nat
        /\ \A i \in 1..Len(o) : o[i][2] < n
    <2>1. o \in Seq(Hashes \X Nat)
      BY <1>1 DEF Stamps
    <2> QED
      BY <1>1, <2>1, StampsAre
  <1>3. g \in [D \union {h} -> Nat] /\ g[h] = n /\ \A x \in D \ {h} : g[x] = f[x]
    BY <1>1, <1>2 DEF Renewed
  <1>4. \A x \in D : f[x] < n
    <2> SUFFICES ASSUME NEW x \in D PROVE f[x] < n
      OBVIOUS
    <2>1. PICK i \in 1..Len(o) : o[i][2] = f[x]
      BY <1>1 DEF InOrder
    <2> QED
      BY <2>1, <1>2
  <1>5. Ordered(D \union {h}, g, LastDenied!Newest(l, h))
    <2>1. \A x \in D \ {h} : g[x] = f[x] /\ f[x] < g[h]
      BY <1>3, <1>4
    <2> QED
      BY <1>1, <2>1, NewestOrdered
  <1>6. <<h, n>> \in Hashes \X Nat /\ <<h, n>>[1] = h /\ <<h, n>>[2] = n
    BY <1>2
  <1>7. PICK z : z = <<h, n>>
    OBVIOUS
  <1>8. z \in Hashes \X Nat /\ z[1] = h /\ z[2] = n /\ p = Append(o, z)
    BY <1>6, <1>7
  <1>9. /\ p \in Seq(Hashes \X Nat) /\ Len(p) = Len(o) + 1 /\ p[Len(o) + 1] = z
        /\ \A i \in 1..Len(o) : p[i] = o[i]
    BY <1>2, <1>8, AppendProperties
  <1>10. ASSUME NEW i \in 1..Len(p)
         PROVE  p[i][2] \in Nat /\ p[i][2] < n + 1 /\ (i = Len(p) => p[i][2] = n)
    <2>1. CASE i = Len(o) + 1
      BY <2>1, <1>2, <1>8, <1>9
    <2>2. CASE i # Len(o) + 1
      <3>1. i \in 1..Len(o) /\ p[i] = o[i] /\ i # Len(p)
        BY <2>2, <1>2, <1>9
      <3>2. o[i][2] \in Nat /\ o[i][2] < n
        BY <3>1, <1>1, StampsAre
      <3> QED
        BY <3>1, <3>2, <1>2
    <2> QED
      BY <2>1, <2>2
  <1>11. ASSUME NEW i \in 1..Len(p), NEW j \in 1..Len(p), i < j PROVE p[i][2] < p[j][2]
    <2>1. i \in 1..Len(o) /\ p[i] = o[i]
      BY <1>2, <1>9, <1>11
    <2>2. o[i][2] < n
      BY <2>1, <1>2
    <2>3. CASE j = Len(p)
      BY <2>1, <2>2, <2>3, <1>10
    <2>4. CASE j # Len(p)
      <3>1. j \in 1..Len(o) /\ p[j] = o[j]
        BY <2>4, <1>2, <1>9
      <3> QED
        BY <3>1, <2>1, <1>1, <1>11, StampsGrow
    <2> QED
      BY <2>3, <2>4
  <1>12. Stamps(p, n + 1)
    <2>1. n + 1 \in Nat /\ \A i \in 1..Len(p) : p[i][2] < n + 1
      BY <1>2, <1>10
    <2> QED
      BY <2>1, <1>9, <1>11, Zenon DEF Stamps
  <1>13. InOrder(D \union {h}, g, p)
    <2> SUFFICES ASSUME NEW x \in D \union {h}
                 PROVE  \E i \in 1..Len(p) : p[i][1] = x /\ p[i][2] = g[x]
      BY DEF InOrder
    <2>1. CASE x = h
      <3>1. Len(o) + 1 \in 1..Len(p)
        BY <1>2, <1>9
      <3> QED
        BY <2>1, <3>1, <1>3, <1>8, <1>9
    <2>2. CASE x # h
      <3>1. x \in D /\ g[x] = f[x]
        BY <2>2, <1>3
      <3>2. PICK i \in 1..Len(o) : o[i][1] = x /\ o[i][2] = f[x]
        BY <3>1, <1>1 DEF InOrder
      <3>3. i \in 1..Len(p) /\ p[i] = o[i]
        BY <1>2, <1>9
      <3> QED
        BY <3>1, <3>2, <3>3
    <2> QED
      BY <2>1, <2>2
  <1>14. D \union {h} \subseteq Hashes
    BY <1>1
  <1> QED
    BY <1>3, <1>5, <1>9, <1>12, <1>13, <1>14 DEF Good

\* A name taken out leaves its stamps behind, stale.
LEMMA RemovedGood ==
    ASSUME NEW D, NEW f, NEW o, NEW n, NEW l, Good(D, f, o, n, l), NEW h \in D,
           NEW g, g = Without(D, f, h)
    PROVE  /\ Good(D \ {h}, g, o, n, LastDenied!Without(l, h))
           /\ Len(LastDenied!Without(l, h)) = Len(l) - 1
  <1>1. /\ D \subseteq Hashes /\ f \in [D -> Nat]
        /\ Ordered(D, f, l) /\ Stamps(o, n) /\ InOrder(D, f, o)
    BY DEF Good
  <1>2. g \in [D \ {h} -> Nat] /\ \A x \in D \ {h} : g[x] = f[x]
    BY <1>1 DEF Without
  <1>3. /\ Ordered(D \ {h}, g, LastDenied!Without(l, h))
        /\ Len(LastDenied!Without(l, h)) = Len(l) - 1
    BY <1>1, <1>2, WithoutOrdered
  <1>4. InOrder(D \ {h}, g, o)
    BY <1>1, <1>2 DEF InOrder
  <1> QED
    BY <1>1, <1>2, <1>3, <1>4 DEF Good

\* The first entry of the order that is not stale is the oldest name's; what
\* comes after it has all the others'.
LEMMA EvictedGood ==
    ASSUME NEW D, NEW f, NEW o, NEW n, NEW l, Good(D, f, o, n, l), D # {},
           NEW u, u = FirstLive(f, o), NEW g, g = Without(D, f, o[u][1]),
           NEW p, p = SubSeq(o, u + 1, Len(o))
    PROVE  /\ Good(D \ {o[u][1]}, g, p, n, Tail(l))
           /\ Len(p) <= Len(o) /\ Len(Tail(l)) = Len(l) - 1
  <1>1. /\ D \subseteq Hashes /\ f \in [D -> Nat] /\ DOMAIN f = D
        /\ Ordered(D, f, l) /\ Stamps(o, n) /\ InOrder(D, f, o)
    BY DEF Good
  <1>2. Len(o) \in Nat /\ DOMAIN o = 1..Len(o) /\ n \in Nat
    BY <1>1, StampsAre
  <1>3. l # <<>>
    BY <1>1, OrderedHas, EmptySeq
  <1>4. PICK first : first = l[1]
    OBVIOUS
  <1>5. first \in D /\ \A x \in D \ {first} : f[first] < f[x]
    BY <1>1, <1>3, <1>4, TailOrdered
  <1>6. PICK at \in 1..Len(o) : o[at][1] = first /\ o[at][2] = f[first]
    BY <1>1, <1>5 DEF InOrder
  <1>7. Goes(f, o[at])
    BY <1>1, <1>5, <1>6 DEF Goes, Live
  <1>8. \A j \in 1..at - 1 : ~Goes(f, o[j])
    <2> SUFFICES ASSUME NEW j \in 1..at - 1, Goes(f, o[j]) PROVE FALSE
      OBVIOUS
    <2>1. j \in 1..Len(o) /\ j < at
      BY <1>2
    <2>2. o[j][1] \in D /\ f[o[j][1]] = o[j][2]
      BY <1>1 DEF Goes, Live
    <2>3. o[j][2] < o[at][2]
      BY <2>1, <1>1, StampsGrow
    <2>4. f[o[j][1]] < f[first] /\ f[o[j][1]] \in Nat /\ f[first] \in Nat
      BY <2>2, <2>3, <1>1, <1>5, <1>6
    <2> QED
      BY <2>2, <2>4, <1>5
  <1>9. u \in DOMAIN o /\ Goes(f, o[u]) /\ \A j \in 1..u - 1 : ~Goes(f, o[j])
    BY <1>2, <1>7, <1>8 DEF FirstLive
  <1>10. u = at
    <2>1. ~(u < at)
      <3> SUFFICES ASSUME u < at PROVE FALSE
        OBVIOUS
      <3>1. u \in 1..at - 1
        BY <1>2, <1>9
      <3> QED
        BY <3>1, <1>8, <1>9
    <2>2. ~(at < u)
      <3> SUFFICES ASSUME at < u PROVE FALSE
        OBVIOUS
      <3>1. at \in 1..u - 1
        BY <1>2, <1>9
      <3> QED
        BY <3>1, <1>7, <1>9
    <2> QED
      BY <2>1, <2>2, <1>2, <1>9
  <1>11. o[u][1] = first
    BY <1>6, <1>10
  <1>12. g \in [D \ {first} -> Nat] /\ \A x \in D \ {first} : g[x] = f[x]
    BY <1>1, <1>11 DEF Without
  <1>13. Ordered(D \ {first}, g, Tail(l)) /\ Len(Tail(l)) = Len(l) - 1
    <2>1. \A x \in D \ {l[1]} : g[x] = f[x]
      BY <1>4, <1>12
    <2>2. Ordered(D \ {l[1]}, g, Tail(l)) /\ Len(Tail(l)) = Len(l) - 1
      BY <2>1, <1>1, <1>3, TailOrdered
    <2> QED
      BY <2>2, <1>4
  <1>20. u \in 1..Len(o) /\ Len(o) - u \in Nat
    BY <1>2, <1>9
  <1>14. PICK m \in Nat : m = Len(o) - u
    BY <1>20
  <1>15. /\ p \in Seq(Hashes \X Nat) /\ Len(p) = m
         /\ \A i \in 1..m : p[i] = o[u + i] /\ u + i \in 1..Len(o)
    <2>1. u + 1 \in Int /\ Len(o) \in Int /\ u \in Int
      BY <1>2, <1>9
    <2>2. \A i \in (u + 1)..Len(o) : i \in 1..Len(o)
      BY <1>2, <1>9
    <2>3. \A i \in (u + 1)..Len(o) : o[i] \in Hashes \X Nat
      BY <2>2, <1>1, StampsAre
    <2>4. PICK from \in Int : from = u + 1
      BY <2>1
    <2>8. PICK to \in Int : to = Len(o)
      BY <2>1
    <2>9. PICK S : S = Hashes \X Nat
      OBVIOUS
    <2>10. \A i \in from..to : o[i] \in S
      BY <2>3, <2>4, <2>8, <2>9
    <2>5. /\ SubSeq(o, from, to) \in Seq(S)
          /\ Len(SubSeq(o, from, to)) = IF from <= to THEN to - from + 1 ELSE 0
          /\ \A i \in 1..to - from + 1 : SubSeq(o, from, to)[i] = o[from + i - 1]
      BY <2>10, SubSeqProperties
    <2>11. p = SubSeq(o, from, to)
      BY <2>4, <2>8
    <2>12. Len(p) = IF from <= to THEN to - from + 1 ELSE 0
      BY <2>5, <2>11
    <2>6. p \in Seq(Hashes \X Nat) /\ Len(p) = m
      <3>1. Len(p) = m
        BY <2>4, <2>8, <2>12, <1>14, <1>20, SMTT(40)
      <3> QED
        BY <3>1, <2>5, <2>9, <2>11
    <2>7. ASSUME NEW i \in 1..m PROVE p[i] = o[u + i] /\ u + i \in 1..Len(o)
      <3>1. i \in 1..to - from + 1 /\ from + i - 1 = u + i
        <4>1. i \in Int /\ 1 <= i /\ i <= to - u /\ from = u + 1
          BY <2>4, <2>8, <1>14
        <4>2. u \in Int /\ to \in Int
          BY <2>1, <2>8
        <4>3. to - from + 1 = to - u
          BY <4>1, <4>2
        <4>4. i \in 1..to - u
          BY <4>1, <4>2
        <4>5. from + i - 1 = u + i
          BY <4>1, <4>2
        <4> QED
          BY <4>3, <4>4, <4>5
      <3>2. p[i] = o[from + i - 1]
        BY <3>1, <2>5, <2>11
      <3> QED
        BY <3>1, <3>2, <1>2, <1>20, <1>14, SMTT(40)
    <2> QED
      BY <2>6, <2>7
  <1>16. Stamps(p, n)
    <2>1. \A i \in 1..Len(p) : p[i][2] < n
      <3> SUFFICES ASSUME NEW i \in 1..Len(p) PROVE p[i][2] < n
        OBVIOUS
      <3>1. p[i] = o[u + i] /\ u + i \in 1..Len(o)
        BY <1>15
      <3>2. o[u + i][2] < n
        BY <3>1, <1>1, StampsAre
      <3> QED
        BY <3>1, <3>2
    <2>2. ASSUME NEW i \in 1..Len(p), NEW j \in 1..Len(p), i < j PROVE p[i][2] < p[j][2]
      <3>1. p[i] = o[u + i] /\ p[j] = o[u + j] /\ u + i \in 1..Len(o) /\ u + j \in 1..Len(o)
        BY <1>15
      <3>2. u + i < u + j
        BY <2>2, <1>9, <1>2
      <3>3. o[u + i][2] < o[u + j][2]
        BY <3>1, <3>2, <1>1, StampsGrow
      <3> QED
        BY <3>1, <3>3
    <2> QED
      BY <2>1, <2>2, <1>2, <1>15, Zenon DEF Stamps
  <1>17. InOrder(D \ {first}, g, p)
    <2> SUFFICES ASSUME NEW x \in D \ {first}
                 PROVE  \E i \in 1..Len(p) : p[i][1] = x /\ p[i][2] = g[x]
      BY DEF InOrder
    <2>1. PICK i \in 1..Len(o) : o[i][1] = x /\ o[i][2] = f[x]
      BY <1>1 DEF InOrder
    <2>2. o[u][2] < o[i][2]
      BY <2>1, <1>5, <1>6, <1>10
    <2>3. u < i
      BY <2>2, <1>1, <1>2, <1>9, StampsGrow
    <2>4. i - u \in 1..m /\ u + (i - u) = i
      BY <2>3, <1>2, <1>9, <1>14
    <2>5. p[i - u] = o[i]
      BY <2>4, <1>15
    <2>6. i - u \in 1..Len(p)
      BY <2>4, <1>15
    <2>7. g[x] = f[x]
      BY <1>12
    <2> QED
      BY <2>1, <2>5, <2>6, <2>7
  <1>18. Good(D \ {first}, g, p, n, Tail(l))
    BY <1>1, <1>12, <1>13, <1>16, <1>17 DEF Good
  <1>19. Len(p) <= Len(o)
    BY <1>2, <1>9, <1>14, <1>15
  <1> QED
    BY <1>11, <1>13, <1>18, <1>19

\* A table with the list of its names: its stamps are good and its bounds kept.
Shape(r) == r \in [named : {r.named}, order : {r.order}, next : {r.next}]

GoodTable(r, l) == Good(DOMAIN r.named, r.named, r.order, r.next, l)

Kept(r, l) ==
    /\ Shape(r) /\ GoodTable(r, l)
    /\ Len(r.order) <= 2 * Capacity /\ Len(l) <= Capacity

\* A list kept with a table is the one of its names.
LEMMA KeptNames == ASSUME NEW r, NEW l, Kept(r, l) PROVE l = NamesOf(r) /\ Kept(r, NamesOf(r))
  <1>1. PICK D : D = DOMAIN r.named
    OBVIOUS
  <1>2. PICK f : f = r.named
    OBVIOUS
  <1>3. f \in [D -> Nat] /\ Ordered(D, f, l)
    BY <1>1, <1>2 DEF Kept, GoodTable, Good
  <1>4. l = ByRank(D, f)
    BY <1>3, OrderedIsByRank
  <1>5. ByRank(D, f) = NamesOf(r)
    BY <1>1, <1>2 DEF ByRank, UpTo, NamesOf
  <1>6. l = NamesOf(r)
    BY <1>4, <1>5
  <1> QED
    BY <1>6, Zenon

\* Compaction brings the order back under its bound.
LEMMA CompactedKept ==
    ASSUME NEW r, Shape(r), NEW l, GoodTable(r, l), Len(l) <= Capacity
    PROVE  Kept(Compacted(r), l) /\ DOMAIN Compacted(r).named = DOMAIN r.named
  <1>1. PICK D : D = DOMAIN r.named
    OBVIOUS
  <1>5. PICK f : f = r.named
    OBVIOUS
  <1>6. PICK o : o = r.order
    OBVIOUS
  <1>7. PICK n : n = r.next
    OBVIOUS
  <1>8. Good(D, f, o, n, l)
    BY <1>1, <1>5, <1>6, <1>7 DEF GoodTable
  <1>2. Len(l) \in Nat /\ Capacity \in Nat
    BY <1>8, OrderedPlaces, CapacityAssumption DEF Good
  <1>3. CASE Len(r.order) <= 2 * Capacity
    <2>1. Compacted(r) = r
      BY <1>3 DEF Compacted
    <2> QED
      BY <2>1, <1>1, <1>3 DEF Kept
  <1>4. CASE ~(Len(r.order) <= 2 * Capacity)
    <2>1. PICK P : P = LivePlaces(f, o)
      OBVIOUS
    <2>2. PICK c : c = At(o, P)
      OBVIOUS
    <2>3. PICK q : q = Compacted(r)
      OBVIOUS
    <2>4. q = [r EXCEPT !.order = c]
      BY <1>4, <1>5, <1>6, <2>1, <2>2, <2>3 DEF Compacted, Shape, LivePlaces
    <2>5. q.named = r.named /\ q.order = c /\ q.next = r.next /\ Shape(q)
      BY <2>4 DEF Shape
    <2>6. c = [k \in 1..Len(l) |-> <<l[k], f[l[k]]>>]
      BY <1>8, <2>1, <2>2, CompactedOrder
    <2>7. Good(D, f, c, n, l) /\ Len(c) = Len(l)
      BY <1>8, <2>6, CompactedGood
    <2>8. Len(c) <= 2 * Capacity
      BY <2>7, <1>2
    <2>9. GoodTable(q, l)
      BY <2>5, <2>7, <1>1, <1>5, <1>7 DEF GoodTable
    <2> QED
      BY <2>3, <2>5, <2>8, <2>9 DEF Kept
  <1> QED
    BY <1>3, <1>4

\* A stamp given to a name, and the order compacted.
LEMMA StampedKept ==
    ASSUME NEW r, NEW l, GoodTable(r, l), NEW h \in Hashes, Len(l) <= Capacity,
           h \in DOMAIN r.named \/ Len(l) < Capacity
    PROVE  /\ Kept(Compacted(Stamped(r, h)), LastDenied!Newest(l, h))
           /\ DOMAIN Compacted(Stamped(r, h)).named = DOMAIN r.named \union {h}
  <1>16. PICK D : D = DOMAIN r.named
    OBVIOUS
  <1>1. PICK f : f = r.named
    OBVIOUS
  <1>2. PICK o : o = r.order
    OBVIOUS
  <1>3. PICK n : n = r.next
    OBVIOUS
  <1>4. PICK g : g = Renewed(D, f, h, n)
    OBVIOUS
  <1>5. PICK p : p = Append(o, <<h, n>>)
    OBVIOUS
  <1>6. Good(D, f, o, n, l) /\ DOMAIN f = D /\ (h \in D \/ Len(l) < Capacity)
    BY <1>1, <1>2, <1>3, <1>16 DEF GoodTable
  <1>7. /\ Good(D \union {h}, g, p, n + 1, LastDenied!Newest(l, h))
        /\ Len(LastDenied!Newest(l, h)) <= Capacity
    <2>1. Good(D \union {h}, g, p, n + 1, LastDenied!Newest(l, h))
      BY <1>4, <1>5, <1>6, StampedGood
    <2>2. Len(LastDenied!Newest(l, h)) <= Capacity
      <3>1. f \in [D -> Nat] /\ Ordered(D, f, l)
        BY <1>6 DEF Good
      <3> QED
        BY <1>6, <3>1, NewestBounded
    <2> QED
      BY <2>1, <2>2
  <1>8. PICK q : q = Stamped(r, h)
    OBVIOUS
  <1>9. q = [named |-> g, order |-> p, next |-> n + 1]
    BY <1>1, <1>2, <1>3, <1>4, <1>5, <1>6, <1>8 DEF Stamped, Renewed
  <1>10. q.named = g /\ q.order = p /\ q.next = n + 1 /\ Shape(q)
    BY <1>9 DEF Shape
  <1>11. Good(D \union {h}, q.named, q.order, q.next, LastDenied!Newest(l, h))
    BY <1>7, <1>10
  <1>12. PICK m : m = LastDenied!Newest(l, h)
    OBVIOUS
  <1>13. PICK E : E = D \union {h}
    OBVIOUS
  <1>17. DOMAIN q.named = E
    BY <1>4, <1>10, <1>13 DEF Renewed
  <1>14. GoodTable(q, m) /\ Len(m) <= Capacity
    BY <1>7, <1>11, <1>12, <1>13, <1>17 DEF GoodTable
  <1>15. Kept(Compacted(q), m) /\ DOMAIN Compacted(q).named = DOMAIN q.named
    BY <1>10, <1>14, CompactedKept
  <1> QED
    BY <1>8, <1>12, <1>13, <1>15, <1>16, <1>17

\* Recent::refresh: the name moves to the end of the list, where the newest is already.
LEMMA RefreshedKept ==
    ASSUME NEW r, NEW l, Kept(r, l), NEW h \in DOMAIN r.named
    PROVE  /\ Kept(Refreshed(r, h), LastDenied!Newest(l, h))
           /\ DOMAIN Refreshed(r, h).named = DOMAIN r.named
  <1>1. PICK D : D = DOMAIN r.named
    OBVIOUS
  <1>2. PICK f : f = r.named
    OBVIOUS
  <1>3. PICK o : o = r.order
    OBVIOUS
  <1>4. PICK n : n = r.next
    OBVIOUS
  <1>5. Good(D, f, o, n, l) /\ Len(l) <= Capacity /\ h \in D /\ D \union {h} = D
    BY <1>1, <1>2, <1>3, <1>4 DEF Kept, GoodTable
  <1>6. /\ D \subseteq Hashes /\ f \in [D -> Nat] /\ DOMAIN f = D
        /\ Ordered(D, f, l) /\ Stamps(o, n) /\ InOrder(D, f, o)
    BY <1>5 DEF Good
  <1>7. CASE o # <<>> /\ o[Len(o)] = <<h, f[h]>>
    <2>1. Refreshed(r, h) = r
      BY <1>2, <1>3, <1>7 DEF Refreshed
    <2>2. Len(o) \in Nat
      BY <1>6, StampsAre
    <2>3. ASSUME NEW x \in D \ {h} PROVE f[x] < f[h]
      <3>1. PICK i \in 1..Len(o) : o[i][1] = x /\ o[i][2] = f[x]
        BY <1>6 DEF InOrder
      <3>2. o[Len(o)][1] = h /\ o[Len(o)][2] = f[h]
        BY <1>7
      <3>3. i # Len(o)
        BY <3>1, <3>2
      <3>4. PICK j : j = Len(o)
        OBVIOUS
      <3>5. j \in 1..Len(o) /\ i < j
        BY <2>2, <3>3, <3>4
      <3>6. o[i][2] < o[j][2]
        BY <3>5, <1>6, StampsGrow
      <3> QED
        BY <3>1, <3>2, <3>4, <3>6
    <2>4. \A x \in D \ {h} : f[x] = f[x] /\ f[x] < f[h]
      BY <2>3
    <2>5. Ordered(D \union {h}, f, LastDenied!Newest(l, h))
      BY <2>4, <1>5, <1>6, NewestOrdered
    <2>6. PICK m : m = LastDenied!Newest(l, h)
      OBVIOUS
    <2>7. Ordered(D, f, m)
      BY <2>5, <2>6, <1>5
    <2>8. m = ByRank(D, f)
      BY <2>7, <1>6, OrderedIsByRank
    <2>9. l = ByRank(D, f)
      BY <1>6, OrderedIsByRank
    <2> QED
      BY <2>1, <2>6, <2>8, <2>9
  <1>8. CASE ~(o # <<>> /\ o[Len(o)] = <<h, f[h]>>)
    <2>1. Refreshed(r, h) = Compacted(Stamped(r, h))
      BY <1>2, <1>3, <1>8 DEF Refreshed
    <2>2. GoodTable(r, l)
      BY DEF Kept
    <2>3. h \in Hashes
      BY <1>5, <1>6
    <2>4. /\ Kept(Compacted(Stamped(r, h)), LastDenied!Newest(l, h))
          /\ DOMAIN Compacted(Stamped(r, h)).named = DOMAIN r.named \union {h}
      BY <2>2, <2>3, <1>5, StampedKept
    <2> QED
      BY <2>1, <2>4, <1>1, <1>5
  <1> QED
    BY <1>7, <1>8

\* Recent::remove: the name goes, wherever it is in the list.
LEMMA RemovedKept ==
    ASSUME NEW r, NEW l, Kept(r, l), NEW h \in DOMAIN r.named
    PROVE  /\ Kept(Removed(r, h), LastDenied!Without(l, h))
           /\ DOMAIN Removed(r, h).named = DOMAIN r.named \ {h}
  <1>1. PICK D : D = DOMAIN r.named
    OBVIOUS
  <1>2. PICK f : f = r.named
    OBVIOUS
  <1>3. PICK o : o = r.order
    OBVIOUS
  <1>4. PICK n : n = r.next
    OBVIOUS
  <1>5. Good(D, f, o, n, l) /\ Len(l) <= Capacity /\ h \in D /\ Shape(r)
    BY <1>1, <1>2, <1>3, <1>4 DEF Kept, GoodTable
  <1>6. PICK g : g = Without(D, f, h)
    OBVIOUS
  <1>7. PICK m : m = LastDenied!Without(l, h)
    OBVIOUS
  <1>8. Good(D \ {h}, g, o, n, m) /\ Len(m) = Len(l) - 1
    BY <1>5, <1>6, <1>7, RemovedGood
  <1>9. Len(l) \in Nat /\ Len(m) <= Capacity
    <2>1. Len(l) \in Nat
      BY <1>5, OrderedPlaces DEF Good
    <2> QED
      BY <2>1, <1>5, <1>8, CapacityAssumption
  <1>10. PICK q : q = [r EXCEPT !.named = g]
    OBVIOUS
  <1>11. q.named = g /\ q.order = o /\ q.next = n /\ Shape(q)
    BY <1>3, <1>4, <1>5, <1>10 DEF Shape
  <1>12. Removed(r, h) = Compacted(q)
    BY <1>1, <1>2, <1>5, <1>6, <1>10 DEF Removed, Restrict, Shape, Without
  <1>13. PICK E : E = D \ {h}
    OBVIOUS
  <1>16. DOMAIN q.named = E
    BY <1>6, <1>11, <1>13 DEF Without
  <1>14. GoodTable(q, m)
    BY <1>8, <1>11, <1>13, <1>16 DEF GoodTable
  <1>15. Kept(Compacted(q), m) /\ DOMAIN Compacted(q).named = DOMAIN q.named
    BY <1>9, <1>11, <1>14, CompactedKept
  <1> QED
    BY <1>1, <1>7, <1>12, <1>13, <1>15, <1>16

\* Recent::insert: the name comes last, and past the capacity the first one goes.
LEMMA InsertedKept ==
    ASSUME NEW r, NEW l, Kept(r, l), NEW h \in Hashes, h \notin DOMAIN r.named
    PROVE  /\ Kept(Inserted(r, h), LastDenied!Newest(l, h))
           /\ DOMAIN Inserted(r, h).named \subseteq DOMAIN r.named \union {h}
  <1>1. PICK D : D = DOMAIN r.named
    OBVIOUS
  <1>2. PICK f : f = r.named
    OBVIOUS
  <1>3. PICK o : o = r.order
    OBVIOUS
  <1>4. PICK n : n = r.next
    OBVIOUS
  <1>5. Good(D, f, o, n, l) /\ Len(l) <= Capacity /\ h \notin D /\ Shape(r)
    BY <1>1, <1>2, <1>3, <1>4 DEF Kept, GoodTable
  <1>6. f \in [D -> Nat] /\ Ordered(D, f, l)
    BY <1>5 DEF Good
  <1>7. Cardinality(D) = Len(l) /\ Len(l) \in Nat /\ Capacity \in Nat \ {0}
    BY <1>6, OrderedCounts, OrderedPlaces, CapacityAssumption
  <1>8. CASE Len(l) < Capacity
    <2>1. Evicted(r) = r
      BY <1>1, <1>7, <1>8 DEF Evicted
    <2>2. Inserted(r, h) = Compacted(Stamped(r, h))
      BY <2>1 DEF Inserted
    <2>3. GoodTable(r, l)
      BY DEF Kept
    <2>4. /\ Kept(Compacted(Stamped(r, h)), LastDenied!Newest(l, h))
          /\ DOMAIN Compacted(Stamped(r, h)).named = DOMAIN r.named \union {h}
      BY <2>3, <1>5, <1>8, StampedKept
    <2> QED
      BY <2>2, <2>4, <1>1
  <1>9. CASE ~(Len(l) < Capacity)
    <2>1. Len(l) = Capacity
      BY <1>5, <1>7, <1>9
    <2>2. D # {}
      BY <2>1, <1>7, FS_EmptySet
    <2>3. PICK u : u = FirstLive(f, o)
      OBVIOUS
    <2>4. PICK E : E = D \ {o[u][1]}
      OBVIOUS
    <2>5. PICK g : g = Without(D, f, o[u][1])
      OBVIOUS
    <2>6. PICK p : p = SubSeq(o, u + 1, Len(o))
      OBVIOUS
    <2>7. PICK m : m = Tail(l)
      OBVIOUS
    <2>9. Good(D \ {o[u][1]}, g, p, n, Tail(l)) /\ Len(Tail(l)) = Len(l) - 1
      BY <1>5, <2>2, <2>3, <2>5, <2>6, EvictedGood
    <2>10. Good(E, g, p, n, m) /\ Len(m) = Len(l) - 1
      BY <2>4, <2>7, <2>9
    <2>11. PICK e : e = Evicted(r)
      OBVIOUS
    <2>12. e = [r EXCEPT !.named = g, !.order = p]
      BY <1>1, <1>2, <1>3, <1>5, <1>7, <1>9, <2>3, <2>4, <2>5, <2>6, <2>11, SMTT(30)
         DEF Evicted, Restrict, Shape, FirstLive, Without
    <2>13. e.named = g /\ e.order = p /\ e.next = n
      BY <1>4, <1>5, <2>12 DEF Shape
    <2>8. DOMAIN e.named = E
      BY <2>4, <2>5, <2>13 DEF Without
    <2>14. GoodTable(e, m)
      BY <2>8, <2>10, <2>13 DEF GoodTable
    <2>15. Len(m) <= Capacity /\ Len(m) < Capacity
      BY <2>1, <2>10, <1>7
    <2>16. /\ Kept(Compacted(Stamped(e, h)), LastDenied!Newest(m, h))
           /\ DOMAIN Compacted(Stamped(e, h)).named = DOMAIN e.named \union {h}
      BY <2>14, <2>15, StampedKept
    <2>17. LastDenied!Newest(l, h) = Append(m, h)
      <3>1. ~LastDenied!Among(l, h)
        BY <1>5, <1>6, AmongOrdered
      <3> QED
        BY <3>1, <2>1, <2>7 DEF LastDenied!Newest, LastDenied!Without
    <2>18. LastDenied!Newest(m, h) = Append(m, h)
      <3>1. g \in [E -> Nat] /\ Ordered(E, g, m) /\ h \notin E
        BY <2>10, <2>4, <1>5 DEF Good
      <3>2. ~LastDenied!Among(m, h)
        BY <3>1, AmongOrdered
      <3>3. Len(m) # Capacity
        BY <2>1, <2>10, <1>7
      <3> QED
        BY <3>2, <3>3 DEF LastDenied!Newest, LastDenied!Without
    <2>19. Inserted(r, h) = Compacted(Stamped(e, h))
      BY <2>11 DEF Inserted
    <2>20. E \subseteq D
      BY <2>4
    <2> QED
      BY <2>8, <2>16, <2>17, <2>18, <2>19, <2>20, <1>1
  <1> QED
    BY <1>8, <1>9

\* The denials, as they come.
DeniedSpec == DeniedInit /\ [][DeniedNext]_deniedVars

\* The two tables, each with the list of its names, and no name in both.
TablesKept ==
    /\ Kept(real, NamesOf(real)) /\ Kept(shadow, NamesOf(shadow))
    /\ DOMAIN real.named \intersect DOMAIN shadow.named = {}

\* A table keeps its bounds.
LEMMA KeptBounds ==
    ASSUME NEW r, NEW l, Kept(r, l)
    PROVE  /\ DOMAIN r.named \subseteq Hashes /\ Cardinality(DOMAIN r.named) <= Capacity
           /\ Len(r.order) <= 2 * Capacity
           /\ \A i \in DOMAIN r.order : r.order[i][1] \in Hashes /\ r.order[i][2] < r.next
  <1>1. PICK D : D = DOMAIN r.named
    OBVIOUS
  <1>2. PICK f : f = r.named
    OBVIOUS
  <1>3. PICK o : o = r.order
    OBVIOUS
  <1>4. PICK n : n = r.next
    OBVIOUS
  <1>5. Good(D, f, o, n, l) /\ Len(l) <= Capacity /\ Len(o) <= 2 * Capacity
    BY <1>1, <1>2, <1>3, <1>4 DEF Kept, GoodTable
  <1>6. D \subseteq Hashes /\ f \in [D -> Nat] /\ Ordered(D, f, l) /\ Stamps(o, n)
    BY <1>5 DEF Good
  <1>7. Cardinality(D) = Len(l)
    BY <1>6, OrderedCounts
  <1>8. \A i \in DOMAIN o : o[i][1] \in Hashes /\ o[i][2] < n
    BY <1>6, StampsAre
  <1> QED
    BY <1>1, <1>2, <1>3, <1>4, <1>5, <1>6, <1>7, <1>8

\* What is among a table's names is what it lists.
LEMMA KeptAmong ==
    ASSUME NEW r, NEW l, Kept(r, l), NEW h
    PROVE  LastDenied!Among(l, h) <=> h \in DOMAIN r.named
  <1>1. PICK D : D = DOMAIN r.named
    OBVIOUS
  <1>2. PICK f : f = r.named
    OBVIOUS
  <1>3. f \in [D -> Nat] /\ Ordered(D, f, l)
    BY <1>1, <1>2 DEF Kept, GoodTable, Good
  <1> QED
    BY <1>1, <1>3, AmongOrdered

\* A new table lists nothing.
LEMMA RecentKept == Kept(Recent, <<>>) /\ DOMAIN Recent.named = {}
  <1>1. PICK f : f = Recent.named
    OBVIOUS
  <1>2. PICK e : e = <<>>
    OBVIOUS
  <1>3. f = e /\ Recent.order = e /\ Recent.next = 0
    BY <1>1, <1>2 DEF Recent
  <1>4. e \in Seq({}) /\ e \in Seq(Hashes \X Nat) /\ Len(e) = 0
    BY <1>2, EmptySeq
  <1>5. e \in [1..0 -> {}]
    BY <1>4, LenProperties
  <1>6. DOMAIN e = {} /\ e \in [{} -> Nat]
    BY <1>5
  <1>7. Stamps(e, 0)
    BY <1>4 DEF Stamps
  <1>8. InOrder({}, e, e)
    BY DEF InOrder
  <1>9. Ordered({}, e, e)
    BY <1>2, EmptyOrdered
  <1>10. Good({}, e, e, 0, e)
    BY <1>6, <1>7, <1>8, <1>9 DEF Good
  <1>11. Shape(Recent)
    BY DEF Shape, Recent
  <1>12. DOMAIN Recent.named = {}
    BY <1>1, <1>3, <1>6
  <1>13. GoodTable(Recent, e)
    BY <1>1, <1>3, <1>10, <1>12 DEF GoodTable
  <1>14. Len(e) <= Capacity /\ Len(Recent.order) <= 2 * Capacity
    BY <1>3, <1>4, CapacityAssumption
  <1> QED
    BY <1>2, <1>11, <1>12, <1>13, <1>14 DEF Kept

\* The two tables are new.
LEMMA TablesInit == DeniedInit => TablesKept /\ LastDenied!Init
  <1> SUFFICES ASSUME DeniedInit PROVE TablesKept /\ LastDenied!Init
    OBVIOUS
  <1>1. real = Recent /\ shadow = Recent
    BY DEF DeniedInit
  <1>2. NamesOf(Recent) = <<>> /\ Kept(Recent, NamesOf(Recent)) /\ DOMAIN Recent.named = {}
    BY RecentKept, KeptNames
  <1>3. NamesOf(real) = <<>> /\ NamesOf(shadow) = <<>>
    BY <1>1, <1>2
  <1>4. TablesKept
    BY <1>1, <1>2 DEF TablesKept
  <1> QED
    BY <1>3, <1>4 DEF LastDenied!Init

\* A list known to be kept with a table of the next state is the one of its names.
LEMMA NextNames ==
    ASSUME NEW r, NEW l, Kept(r, l)
    PROVE  NamesOf(r) = l /\ Kept(r, NamesOf(r))
  BY KeptNames

\* A denial.
LEMMA RecordStep ==
    ASSUME TablesKept, NEW h \in Hashes, Record(h)
    PROVE  TablesKept' /\ LastDenied!Deny(h)
  <1>1. PICK a : a = real
    OBVIOUS
  <1>2. PICK b : b = shadow
    OBVIOUS
  <1>3. PICK c : c = real'
    OBVIOUS
  <1>4. PICK d : d = shadow'
    OBVIOUS
  <1>5. PICK l : l = NamesOf(a)
    OBVIOUS
  <1>6. PICK t : t = NamesOf(b)
    OBVIOUS
  <1>7. Kept(a, l) /\ Kept(b, t) /\ DOMAIN a.named \intersect DOMAIN b.named = {}
    BY <1>1, <1>2, <1>5, <1>6 DEF TablesKept
  <1>8. LastDenied!Among(l, h) <=> h \in DOMAIN a.named
    BY <1>7, KeptAmong
  <1>9. LastDenied!Among(t, h) <=> h \in DOMAIN b.named
    BY <1>7, KeptAmong
  <1>10. /\ Kept(c, LastDenied!Newest(l, h))
         /\ Kept(d, IF LastDenied!Among(l, h) THEN t ELSE LastDenied!Without(t, h))
         /\ DOMAIN c.named \intersect DOMAIN d.named = {}
    <2>1. CASE h \in DOMAIN a.named
      <3>1. c = Refreshed(a, h) /\ d = b
        BY <2>1, <1>1, <1>2, <1>3, <1>4 DEF Record
      <3>2. Kept(c, LastDenied!Newest(l, h)) /\ DOMAIN c.named = DOMAIN a.named
        BY <2>1, <3>1, <1>7, RefreshedKept
      <3> QED
        BY <2>1, <3>1, <3>2, <1>7, <1>8
    <2>2. CASE h \notin DOMAIN a.named
      <3>1. /\ d = IF h \in DOMAIN b.named THEN Removed(b, h) ELSE b
            /\ c = Inserted(a, h)
        BY <2>2, <1>1, <1>2, <1>3, <1>4 DEF Record
      <3>2. Kept(c, LastDenied!Newest(l, h)) /\ DOMAIN c.named \subseteq DOMAIN a.named \union {h}
        BY <2>2, <3>1, <1>7, InsertedKept
      <3>3. Kept(d, LastDenied!Without(t, h)) /\ DOMAIN d.named = DOMAIN b.named \ {h}
        <4>1. CASE h \in DOMAIN b.named
          BY <4>1, <3>1, <1>7, RemovedKept
        <4>2. CASE h \notin DOMAIN b.named
          <5>1. LastDenied!Without(t, h) = t
            BY <4>2, <1>9 DEF LastDenied!Without
          <5> QED
            BY <4>2, <5>1, <3>1, <1>7
        <4> QED
          BY <4>1, <4>2
      <3> QED
        BY <2>2, <3>2, <3>3, <1>7, <1>8
    <2> QED
      BY <2>1, <2>2
  <1>11. NamesOf(c) = LastDenied!Newest(l, h) /\ Kept(c, NamesOf(c))
    BY <1>10, NextNames
  <1>12. /\ NamesOf(d) = IF LastDenied!Among(l, h) THEN t ELSE LastDenied!Without(t, h)
         /\ Kept(d, NamesOf(d))
    BY <1>10, NextNames
  <1>13. TablesKept'
    BY <1>3, <1>4, <1>10, <1>11, <1>12 DEF TablesKept
  <1> QED
    BY <1>1, <1>2, <1>3, <1>4, <1>5, <1>6, <1>11, <1>12, <1>13 DEF LastDenied!Deny

\* A shadow's denial.
LEMMA RecordShadowStep ==
    ASSUME TablesKept, NEW h \in Hashes, RecordShadow(h)
    PROVE  /\ TablesKept'
           /\ LastDenied!Try(h) \/ UNCHANGED <<NamesOf(real), NamesOf(shadow)>>
  <1>1. PICK a : a = real
    OBVIOUS
  <1>2. PICK b : b = shadow
    OBVIOUS
  <1>3. PICK c : c = real'
    OBVIOUS
  <1>4. PICK d : d = shadow'
    OBVIOUS
  <1>5. PICK l : l = NamesOf(a)
    OBVIOUS
  <1>6. PICK t : t = NamesOf(b)
    OBVIOUS
  <1>7. Kept(a, l) /\ Kept(b, t) /\ DOMAIN a.named \intersect DOMAIN b.named = {}
    BY <1>1, <1>2, <1>5, <1>6 DEF TablesKept
  <1>8. LastDenied!Among(l, h) <=> h \in DOMAIN a.named
    BY <1>7, KeptAmong
  <1>9. c = a
    BY <1>1, <1>3 DEF RecordShadow
  <1>10. CASE h \in DOMAIN a.named
    <2>1. d = b
      BY <1>10, <1>1, <1>2, <1>4 DEF RecordShadow
    <2>2. real' = real /\ shadow' = shadow
      BY <2>1, <1>1, <1>2, <1>3, <1>4, <1>9
    <2> QED
      BY <2>2 DEF TablesKept
  <1>11. CASE h \notin DOMAIN a.named
    <2>1. d = IF h \in DOMAIN b.named THEN Refreshed(b, h) ELSE Inserted(b, h)
      BY <1>11, <1>1, <1>2, <1>4 DEF RecordShadow
    <2>2. Kept(d, LastDenied!Newest(t, h)) /\ DOMAIN d.named \subseteq DOMAIN b.named \union {h}
      <3>1. CASE h \in DOMAIN b.named
        <4>1. d = Refreshed(b, h)
          BY <2>1, <3>1
        <4>2. Kept(d, LastDenied!Newest(t, h)) /\ DOMAIN d.named = DOMAIN b.named
          BY <3>1, <4>1, <1>7, RefreshedKept
        <4> QED
          BY <4>2
      <3>2. CASE h \notin DOMAIN b.named
        <4>1. d = Inserted(b, h)
          BY <2>1, <3>2
        <4> QED
          BY <3>2, <4>1, <1>7, InsertedKept
      <3> QED
        BY <3>1, <3>2
    <2>3. NamesOf(d) = LastDenied!Newest(t, h) /\ Kept(d, NamesOf(d))
      BY <2>2, NextNames
    <2>4. DOMAIN c.named \intersect DOMAIN d.named = {}
      BY <2>2, <1>7, <1>9, <1>11
    <2>5. Kept(c, NamesOf(c))
      BY <1>5, <1>7, <1>9
    <2>6. TablesKept'
      BY <2>3, <2>4, <2>5, <1>3, <1>4 DEF TablesKept
    <2>7. LastDenied!Try(h)
      BY <2>3, <1>1, <1>2, <1>3, <1>4, <1>5, <1>6, <1>8, <1>9, <1>11 DEF LastDenied!Try
    <2> QED
      BY <2>6, <2>7
  <1> QED
    BY <1>10, <1>11

\* Every step of the tables is one of the lists, or leaves them.
LEMMA TablesStep ==
    ASSUME TablesKept, [DeniedNext]_deniedVars
    PROVE  TablesKept' /\ [LastDenied!Next]_<<NamesOf(real), NamesOf(shadow)>>
  <1>1. ASSUME NEW h \in Hashes, Record(h)
        PROVE  TablesKept' /\ [LastDenied!Next]_<<NamesOf(real), NamesOf(shadow)>>
    BY <1>1, RecordStep DEF LastDenied!Next
  <1>2. ASSUME NEW h \in Hashes, RecordShadow(h)
        PROVE  TablesKept' /\ [LastDenied!Next]_<<NamesOf(real), NamesOf(shadow)>>
    BY <1>2, RecordShadowStep DEF LastDenied!Next
  <1>3. ASSUME UNCHANGED deniedVars
        PROVE  TablesKept' /\ [LastDenied!Next]_<<NamesOf(real), NamesOf(shadow)>>
    BY <1>3 DEF deniedVars, TablesKept
  <1> QED
    BY <1>1, <1>2, <1>3 DEF DeniedNext, DeniedOver

\* The names of each table are those of the keys last denied, and last denied by
\* a shadow alone, in order, and neither table nor its order of stamps outgrows
\* its capacity, whatever the keys and the capacity (denied.rs, DeniedKeys).
THEOREM NamesAreTheLast == DeniedSpec => NamesTheLastDenied
  <1>1. DeniedInit => TablesKept /\ LastDenied!Init
    BY TablesInit
  <1>2. TablesKept /\ [DeniedNext]_deniedVars =>
            TablesKept' /\ [LastDenied!Next]_<<NamesOf(real), NamesOf(shadow)>>
    BY TablesStep
  <1>3. TablesKept => DeniedTypeOK
    BY KeptBounds DEF TablesKept, DeniedTypeOK
  <1> QED
    BY <1>1, <1>2, <1>3, PTL DEF DeniedSpec, NamesTheLastDenied, LastDenied!Spec
=============================================================================
