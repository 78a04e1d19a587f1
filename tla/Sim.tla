-------------------------------- MODULE Sim --------------------------------
(***************************************************************************)
(* The simulator's event loop (src/rateguard-sim/src/sim.rs), its links    *)
(* (link.rs) and what its invariants are told (invariant.rs).  The queue   *)
(* is kept in the order of the heap: by time, and of one time in the order *)
(* of their sequence numbers, so an event goes in behind those of its      *)
(* time.  Of a node the model keeps what the loop gives it and asks it:    *)
(* whom it knows, its incarnation, its settings.                           *)
(***************************************************************************)
EXTENDS Naturals, Sequences, FiniteSets

CONSTANTS
    NodeCount,          \* nodes are 0..NodeCount - 1
    SimSeeds,           \* Bootstrap::Seeds; none for Bootstrap::Static
    TICK, Period,       \* TICK and the protocol period
    Latency, Jitter, Window,    \* of the link; Window is how long it may hold a datagram back
    ConfigLimit, KeyLimits,     \* Config::limit, and those a key is given: <<rate, burst>>
    MaxTime, MaxInputs          \* bounds: time; calls and datagrams

NodeIndexes == 0..NodeCount - 1

ASSUME SimAssumption ==
    /\ NodeCount \in Nat \ {0} /\ SimSeeds \subseteq NodeIndexes
    /\ TICK \in Nat \ {0} /\ Period \in Nat /\ Period % TICK = 0
    /\ Latency \in Nat \ {0} /\ Jitter \in Nat /\ Window \in Nat
    /\ ConfigLimit \in Nat \X Nat /\ KeyLimits \subseteq (Nat \X Nat) \ {<<0, 0>>}
    /\ MaxTime \in Nat /\ MaxInputs \in Nat

VARIABLES
    nodes, settings, forged, generations, down, pauses, queue, now,
    limitOf, widest, auths,
    lastSeen,       \* IncarnationNeverDrops::seen
    alarm,          \* an invariant stopped the run
    deadline,       \* of run_until
    inputs

simVars == <<nodes, settings, forged, generations, down, pauses, queue, now, limitOf, widest,
             auths, lastSeen, alarm, deadline, inputs>>
callerVars == <<settings, forged, pauses, widest, inputs, deadline>>

judged == <<lastSeen, alarm>>

NoEntry == <<0, 0>>
Larger(a, b) == IF a > b THEN a ELSE b

Event(at, target, kind) == [at |-> at, target |-> target, kind |-> kind]
TickOf(generation) == [is |-> "tick", generation |-> generation]
Datagram(from, seal) == [is |-> "deliver", from |-> from, seal |-> seal]

\* schedule: behind what is queued for the same time.
Scheduled(q, event) ==
    LET before == Cardinality({i \in DOMAIN q : q[i].at <= event.at})
    IN  SubSeq(q, 1, before) \o <<event>> \o SubSeq(q, before + 1, Len(q))
ScheduledAll(q, events) ==
    LET after[i \in 0..Len(events)] ==
            IF i = 0 THEN q ELSE Scheduled(after[i - 1], events[i])
    IN  after[Len(events)]

FirstTick(n) == (n * Period) \div NodeCount

\* fresh_node: the bootstrap and the settings again, nothing else.
FreshNode(n, with) ==
    [knows |-> (IF SimSeeds = {} THEN NodeIndexes ELSE SimSeeds) \ {n},
     incarnation |-> 0, settings |-> with]

SimInit ==
    /\ settings = "old" /\ forged = FALSE /\ pauses = <<>>
    /\ nodes = [n \in NodeIndexes |-> FreshNode(n, "old")]
    /\ generations = [n \in NodeIndexes |-> 0]
    /\ down = [n \in NodeIndexes |-> FALSE]
    /\ queue = ScheduledAll(<<>>, [i \in 1..NodeCount |-> Event(FirstTick(i - 1), i - 1, TickOf(0))])
    /\ now = 0 /\ deadline = 0 /\ inputs = 0
    /\ limitOf = [n \in NodeIndexes |-> NoEntry] /\ widest = NoEntry
    /\ auths = [n \in NodeIndexes |-> "off"]
    /\ lastSeen = [n \in NodeIndexes |-> 0] /\ alarm = FALSE

----------------------------------------------------------------------------
\* link.rs: what becomes of a datagram is decided when it is sent, at the time
\* of the event that is handled.
Arrivals ==
    {now' + Latency + jitter + hold : jitter \in 0..Jitter, hold \in 0..Window}
Fates == {<<>>} \union {<<at>> : at \in Arrivals} \union (Arrivals \X Arrivals)

\* Auth::open, between nodes that sign with nothing or demand the one secret.
Opens(auth, seal) == auth = "off" \/ seal = auth

----------------------------------------------------------------------------
\* The test that drives the simulator, between two runs.
Due == queue # <<>> /\ queue[1].at <= deadline
Resting == now = deadline /\ ~Due
Times == now..MaxTime
Drives == Resting /\ inputs < MaxInputs /\ inputs' = inputs + 1 /\ UNCHANGED <<now, deadline>>
Schedule(events) ==
    /\ queue' = ScheduledAll(queue, events)
    /\ UNCHANGED <<nodes, settings, generations, down, limitOf, auths, judged>>

PauseNode(n, from, until) ==
    /\ Drives /\ from < until
    /\ pauses' = Append(pauses, [node |-> n, from |-> from, until |-> until])
    /\ UNCHANGED <<nodes, settings, forged, generations, down, queue, limitOf, widest, auths, judged>>

ScheduleRestart(n, downAt, upAt) ==
    /\ Drives /\ downAt < upAt
    /\ Schedule(<<Event(downAt, n, [is |-> "crash"]), Event(upAt, n, [is |-> "restart"])>>)
    /\ UNCHANGED <<forged, pauses, widest>>

ScheduleLeave(n, at) ==
    /\ Drives /\ Schedule(<<Event(at, n, [is |-> "leave"])>>)
    /\ UNCHANGED <<forged, pauses, widest>>

\* Mutant: the config's limit never counts.
WidenedFromLimit(limits, limit) ==
    LET start == IF widest # NoEntry THEN widest ELSE limit
    IN  widest' = <<Larger(start[1], limit[1]), Larger(start[2], limit[2])>>

\* widen: the config's limit counts while a node still holds the key to it.
Widened(limits, limit) ==
    LET start == IF widest # NoEntry THEN widest
                 ELSE IF \E n \in NodeIndexes : limits[n] = NoEntry THEN ConfigLimit ELSE limit
    IN  widest' = <<Larger(start[1], limit[1]), Larger(start[2], limit[2])>>

LimitEverywhere(limit) ==
    /\ Drives
    /\ limitOf' = [n \in NodeIndexes |-> limit]
    /\ Widened(limitOf', limit)
    /\ UNCHANGED <<nodes, settings, forged, generations, down, pauses, queue, auths, judged>>

ScheduleKeyLimit(at, n, limit) ==
    /\ Drives /\ Widened(limitOf, limit)
    /\ Schedule(<<Event(at, n, [is |-> "set_limit", limit |-> limit])>>)
    /\ UNCHANGED <<forged, pauses>>

SetAuth(n, auth) ==
    /\ Drives /\ auths' = [auths EXCEPT ![n] = auth]
    /\ UNCHANGED <<nodes, settings, forged, generations, down, pauses, queue, limitOf, widest, judged>>

ScheduleAuth(at, n, auth) ==
    /\ Drives /\ Schedule(<<Event(at, n, [is |-> "set_auth", auth |-> auth])>>)
    /\ UNCHANGED <<forged, pauses, widest>>

\* set_partition_policy, set_quorum_memory and set_max_members.
Configure(with) ==
    /\ Drives /\ settings' = with
    /\ nodes' = [n \in NodeIndexes |-> [nodes[n] EXCEPT !.settings = with]]
    /\ UNCHANGED <<forged, generations, down, pauses, queue, limitOf, widest, auths, judged>>

\* schedule_request_stream; a second is as long as MaxTime.
ScheduleRequests(n, ratePerSecond, from, until) ==
    LET interval == (MaxTime + ratePerSecond - 1) \div ratePerSecond
        count == (until - from + interval - 1) \div interval
    IN  /\ Drives /\ from < until
        /\ Schedule([i \in 1..count |-> Event(from + (i - 1) * interval, n, [is |-> "request"])])
        /\ UNCHANGED <<forged, pauses, widest>>

\* schedule_message: from a node, or from nobody.
ScheduleMessage(at, from, n, seal) ==
    /\ Drives /\ forged' = TRUE
    /\ Schedule(<<Event(at, n, Datagram(from, seal))>>)
    /\ UNCHANGED <<pauses, widest>>

RunUntil(until) ==
    /\ Resting /\ deadline' = until
    /\ UNCHANGED <<nodes, settings, forged, generations, down, pauses, queue, now, limitOf,
                   widest, auths, judged, inputs>>

----------------------------------------------------------------------------
\* run_until: the first event, unless a pause of its node holds it back.
Head1 == queue[1]
Unstoppable == {"crash", "restart", "leave", "set_limit", "set_auth"}
Holding(event) ==
    {i \in DOMAIN pauses : /\ pauses[i].node = event.target
                           /\ pauses[i].from <= event.at /\ event.at < pauses[i].until}
Held(event) == event.kind.is \notin Unstoppable /\ Holding(event) # {}

Defer ==
    /\ Due /\ Held(Head1)
    /\ LET first == CHOOSE i \in Holding(Head1) : \A j \in Holding(Head1) : i <= j
       IN  queue' = Scheduled(Tail(queue), [Head1 EXCEPT !.at = pauses[first].until])
    /\ UNCHANGED <<nodes, generations, down, now, limitOf, auths, judged, callerVars>>

Pops(is) == Due /\ ~Held(Head1) /\ Head1.kind.is = is /\ now' = Head1.at

Crash ==
    /\ Pops("crash")
    /\ down' = [down EXCEPT ![Head1.target] = TRUE] /\ queue' = Tail(queue)
    /\ UNCHANGED <<nodes, generations, limitOf, auths, judged, callerVars>>

\* The invariant checked of a node after a tick, a delivery, a request or a
\* restart, which alone may take its incarnation back.
IncarnationNeverDrops(n, happened) ==
    /\ alarm' = (alarm \/ (happened # "restart" /\ nodes'[n].incarnation < lastSeen[n]))
    /\ lastSeen' = [lastSeen EXCEPT ![n] = nodes'[n].incarnation]

\* Mutant: a fresh instance goes by its predecessor's generation.
SameGeneration(generation) == generation

NextGeneration(generation) == generation + 1

\* A node is restarted whether it is down or not.
Restart ==
    /\ Pops("restart")
    /\ LET n == Head1.target
           generation == NextGeneration(generations[n])
       IN  /\ generations' = [generations EXCEPT ![n] = generation]
           /\ nodes' = [nodes EXCEPT ![n] = FreshNode(n, settings)]
           /\ down' = [down EXCEPT ![n] = FALSE]
           /\ queue' = Scheduled(Tail(queue), Event(now', n, TickOf(generation)))
           /\ IncarnationNeverDrops(n, "restart")
    /\ UNCHANGED <<limitOf, auths, callerVars>>

SetLimitEvent ==
    /\ Pops("set_limit")
    /\ limitOf' = [limitOf EXCEPT ![Head1.target] = Head1.kind.limit] /\ queue' = Tail(queue)
    /\ UNCHANGED <<nodes, generations, down, auths, judged, callerVars>>

SetAuthEvent ==
    /\ Pops("set_auth")
    /\ auths' = [auths EXCEPT ![Head1.target] = Head1.kind.auth] /\ queue' = Tail(queue)
    /\ UNCHANGED <<nodes, generations, down, limitOf, judged, callerVars>>

\* What no node up handles: a tick of an earlier instance, and whatever comes
\* for a node that is down.
Stale(event) == event.kind.is = "tick" /\ event.kind.generation # generations[event.target]
Lost == Stale(Head1) \/ down[Head1.target]

Lose(is) ==
    /\ Pops(is) /\ Lost /\ queue' = Tail(queue)
    /\ UNCHANGED <<nodes, generations, down, limitOf, auths, judged, callerVars>>

\* dispatch: the node may send one of those it knows by then a datagram, which
\* is sealed, and lost if a forger made the member up; `then` is queued next.
Dispatch(n, then) ==
    /\ \/ /\ queue' = ScheduledAll(Tail(queue), then)
          /\ UNCHANGED inputs
       \/ /\ inputs < MaxInputs /\ inputs' = inputs + 1
          /\ \E to \in nodes'[n].knows :
                IF to \in NodeIndexes
                THEN \E fate \in Fates :
                        queue' = ScheduledAll(Tail(queue),
                            [i \in DOMAIN fate |-> Event(fate[i], to, Datagram(n, auths[n]))] \o then)
                ELSE queue' = ScheduledAll(Tail(queue), then)
    /\ UNCHANGED <<settings, forged, pauses, widest, deadline>>

Leave ==
    /\ Pops("leave") /\ ~down[Head1.target]
    /\ down' = [down EXCEPT ![Head1.target] = TRUE]
    /\ UNCHANGED <<nodes, generations, limitOf, auths, judged>>
    /\ Dispatch(Head1.target, <<>>)

\* A node ticks every TICK from its first tick on.
TickNode ==
    /\ Pops("tick") /\ ~Lost
    /\ UNCHANGED <<nodes, generations, down, limitOf, auths, judged>>
    /\ Dispatch(Head1.target, <<Event(Head1.at + TICK, Head1.target, Head1.kind)>>)

HandleRequest ==
    /\ Pops("request") /\ ~Lost /\ queue' = Tail(queue)
    /\ UNCHANGED <<nodes, generations, down, limitOf, auths, judged, callerVars>>

Reject ==
    /\ Pops("deliver") /\ ~Lost /\ ~Opens(auths[Head1.target], Head1.kind.seal)
    /\ queue' = Tail(queue)
    /\ UNCHANGED <<nodes, generations, down, limitOf, auths, judged, callerVars>>

\* A node learns of the sender, and may raise its incarnation over a
\* suspicion; IncarnationNeverDrops then sees it.
DeliverTo ==
    /\ Pops("deliver") /\ ~Lost /\ Opens(auths[Head1.target], Head1.kind.seal)
    /\ LET n == Head1.target
       IN  \E raise \in {0, 1} :
            /\ nodes[n].incarnation + raise <= 1
            /\ nodes' = [nodes EXCEPT ![n].knows = @ \union {Head1.kind.from},
                                      ![n].incarnation = @ + raise]
            /\ IncarnationNeverDrops(n, "delivery")
    /\ Dispatch(Head1.target, <<>>)
    /\ UNCHANGED <<generations, down, limitOf, auths>>

\* run_until returns at its deadline.
Return ==
    /\ ~Due /\ now < deadline /\ now' = deadline
    /\ UNCHANGED <<nodes, queue, generations, down, limitOf, auths, judged, callerVars>>

SimOver == Resting /\ now = MaxTime /\ UNCHANGED simVars

CallerNext ==
    \/ \E n \in NodeIndexes, from, until \in Times :
        \/ PauseNode(n, from, until)
        \/ ScheduleRestart(n, from, until)
        \/ \E rate \in 1..2 : ScheduleRequests(n, rate, from, until)
    \/ \E n \in NodeIndexes, at \in Times, auth \in {"off", "secret"} :
        \/ ScheduleLeave(n, at)
        \/ ScheduleAuth(at, n, auth)
        \/ SetAuth(n, auth)
        \/ \E limit \in KeyLimits : ScheduleKeyLimit(at, n, limit)
        \/ \E from \in 0..NodeCount : ScheduleMessage(at, from, n, auth)
    \/ \E limit \in KeyLimits : LimitEverywhere(limit)
    \/ Configure("new")
    \/ now < MaxTime /\ RunUntil(now + 1)

LoopNext ==
    \/ Defer \/ Crash \/ Restart \/ SetLimitEvent \/ SetAuthEvent
    \/ \E is \in {"leave", "tick", "request", "deliver"} : Lose(is)
    \/ Leave \/ TickNode \/ HandleRequest \/ Reject \/ DeliverTo \/ Return

SimNext == CallerNext \/ LoopNext \/ SimOver

----------------------------------------------------------------------------
\* The queue is in order and never behind the clock; a node knows nobody made
\* up unless a forger spoke.
SimTypeOK ==
    /\ \A i \in DOMAIN queue : queue[i].at >= now /\ (i > 1 => queue[i - 1].at <= queue[i].at)
    /\ \A i \in DOMAIN queue : queue[i].target \in NodeIndexes
    /\ forged \/ \A n \in NodeIndexes : nodes[n].knows \subseteq NodeIndexes
    /\ now \in 0..MaxTime /\ deadline \in now..MaxTime /\ inputs \in 0..MaxInputs
    /\ \A n \in NodeIndexes : down[n] \in BOOLEAN /\ generations[n] \in Nat

\* What the loop holds in place under any order of pauses, crashes, restarts,
\* leaves and changes of limits: a node up has one tick to come and no more,
\* its predecessors' being stale; the limit it holds the key to is within what
\* the admission window is told; its settings are those set last, "restarted
\* ones included"; and no restart is taken for an incarnation that dropped.
SimulatorHolds ==
    /\ SimTypeOK
    /\ ~alarm
    /\ \A n \in NodeIndexes :
        /\ ~down[n] => Cardinality({i \in DOMAIN queue :
                            queue[i].kind.is = "tick" /\ queue[i].target = n /\ ~Stale(queue[i])}) = 1
        /\ LET inForce == IF limitOf[n] = NoEntry THEN ConfigLimit ELSE limitOf[n]
               bound == IF widest = NoEntry THEN ConfigLimit ELSE widest
           IN  inForce[1] <= bound[1] /\ inForce[2] <= bound[2]
        /\ nodes[n].settings = settings
=============================================================================
