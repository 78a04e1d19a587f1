# rateguard in TLA+

rateguard is a rate limiter for clusters: every node decides alone, at memory
speed, and the nodes agree by gossip on how much of each key's limit is whose.
This directory holds TLA+ models of its parts, TLC runs that check them on
small instances, and TLAPS proofs of what matters most for every instance.
Paths below are relative to the repository.

## The system

| part | code | state | operations |
|---|---|---|---|
| one key's limiter | `rateguard-core/src/gcra.rs` | a quota and a TAT (theoretical arrival time) | `check`, `set_quota`, `reset`; a shadow's `set` |
| members | `member.rs`, `gossip.rs`, `membership.rs` | a table of records (incarnation, status, departed), news waiting for a ride, changes waiting to be followed | `apply`, `refute`, `suspect`, `expire_suspects`, `forget_dead`, `depart`; `push`, `take`; `drain_changes` |
| node | `node.rs` | the above, the probe in flight, relays, the order of targets, peers behind, newcomers being introduced | `handle(Tick)`, `handle(MessageReceived)`, `leave` |
| partition policy and shares | `node.rs`, `partition.rs`, `allocation.rs` | sizes of the cluster over time, quorum size, what is held at the floor, recent shares | `apply_policy`, `refresh_cap`, `apply_shares` |
| demand of peers | `peer_demand.rs` | the last report of each peer | `apply`, `leave`, `forget`, `expire` |
| tracked keys | `limiter.rs`, `hot_set.rs`, `demand.rs` | hot and cold keys with their rates | `check_in`, `record`, `tick_with_shares` |
| key table | `rateguard/src/table.rs` | slots of atomics | `claim`, `release`, walks, counts |
| guard | `guard.rs` | shared with the background task | `check_hashed` by any thread, setters, `leave`, `stats` |
| background task | `driver.rs` | the node and the socket | `sync` per tick, `receive`, `send`, seed names, `hold_at_floor` |
| run-time limits | `classes.rs`, `key_limits.rs` | copy-on-write tables, flags beside them | setters, lookups |
| settings | `config.rs`, `limit.rs` | a builder | its checks, `start` |
| wire, authentication | `rateguard-proto` | secrets | `encode`, `decode`, `seal`, `open` |
| sidecar | `rateguard-sidecar/src` | names of denied keys, the secrets' file | HTTP routes, flags, start and stop |
| simulator | `rateguard-sim/src` | a queue of events | `run_until`, schedules, links |

How they interact: request threads call `check_hashed`, which claims a slot of
the key table and takes one step of the slot's limiter. The background task
alone owns the node. On each tick it collects what the slots counted, lets the
node run its round, and writes quotas back into the slots, while the threads
go on. Setters swap tables under the readers. Nodes talk in datagrams only:
PING, ACK, PING-REQ and LEAVE, each with membership news and demand reports
riding on it.

What is hard: the threads and the background task share slots with no locks;
a limiter's quota and TAT are two words; a thread's reading of the clock is
stale when used; datagrams are lost, repeated and reordered; nodes restart
under the same ID with nothing kept; leaves race probes, reports and deaths;
what a node counts must survive what it forgets; a share may rise only once
others have fallen; the task may end under its callers; tables are bounded.
`PROJECT.json` lists each place under "hazards".

What makes each part correct:

* limiter: no window admits more than its rate and a burst, whoever races;
  a denial's `retry_at` is kept; a change of quota neither forgives nor
  punishes; a shadow switched on starts afresh;
* tracked keys: forgetting an idle key loses nothing; caps hold at every tick;
  the hot set settles;
* membership: a node's incarnation is raised by it alone; every split heals;
  everyone meets everyone; tables stay bounded; `departed` means it said so;
  who follows the changes ends up with the live peers;
* probes: an answer counts for the probe it answers; a dead link is no dead
  node; nobody is passed over;
* policy: no two halves of a split serve as the whole, and none waits for good;
* shares: they fit the limit while demand moves;
* demand: reordered reports never make a node count less than the newest one
  says, and what they add ends; who left counts for nothing;
* key table: a key has one slot, a slot one key; a slot's quota is soon the one
  of its class; a freed slot is fresh; a check is counted once;
* limits: edits made at once are all kept; a check takes a limit that was in force;
* gossip in a rollout: every two nodes understand each other in every state of it;
* the end: keys are at the floor before the peers take the share over; callers
  are told; the sidecar answers while the service next to it drains.

## Modules

| module | models | checked in |
|---|---|---|
| `Quota` | the arithmetic of `gcra.rs`: saturation, `tau`, `carry_tat` | its users |
| `QuotaWord` | the packed word: units, rounding up, `decode` | `MCLimiter` |
| `Gcra` | the sequential limiter, abstract specification of the next | `MCAtomicGcra` |
| `AtomicGcra` | the lock-free limiter, one action per atomic access | `MCAtomicGcra` |
| `AtomicGcraProofs` | theorems on `AtomicGcra` | TLAPS |
| `Shadow` | a limit only tried out, switched while it is checked | `MCRequests` |
| `HotSet`, `Limiter` | tracked keys of one node | `MCLimiter` |
| `LimiterProofs` | theorems on `Limiter` | TLAPS |
| `Swim` | membership of a whole cluster over an unreliable network | `MCSwim` |
| `SwimProofs` | theorems on `Swim` | TLAPS |
| `Membership` | what any membership promises, abstract specification of the next | `MCNode` |
| `ProbeOrder` | whom a node probes next; the member table's changes | `MCNode` |
| `Probe` | sequence numbers, helpers, relays, late answers | `MCNode` |
| `Policy` | partition policy: sizes, quorum, holds, caps | `MCNode` |
| `Shares` | how two nodes split a key's limit | `MCNode` |
| `NodeProofs` | theorems on `Probe`, `ProbeOrder`, `Policy` and `Shares`, and on the four as `MCNode` puts them together | TLAPS |
| `PeerDemand` | what a node counts of one peer's reports | `MCPeerDemand` |
| `PeerDemandProofs` | theorems on `PeerDemand` | TLAPS |
| `KeyTable` | the key table under request threads and the background task | `MCKeyTable`, `MCRequests` |
| `KeyTableProofs` | theorems on `KeyTable` | TLAPS |
| `Counting` | counts, report, statistics, metrics | `MCRequests` |
| `Tariffs` | classes, shadows and key limits changed under a reader | `MCRequests` |
| `GossipAuth` | sealing and opening while signing is rolled out or rotated | `MCRequests` |
| `RequestsProofs` | theorems on `Tariffs`, `GossipAuth`, `Counting`, `Shadow` and `Sim` | TLAPS |
| `Settings`, `Sidecar` | the builder and its checks; flags, secret files, bodies, answers, the tower layer | `MCSidecar`, in `MCRequests` |
| `Sim` | the simulator's event loop, links and one of its invariants | `MCRequests` |
| `Names` | seeds by DNS name | `MCRuntime` |
| `Lifecycle` | the background task's loop and end | `MCRuntime` |
| `RecentNames`, `DeniedKeys` | the last names denied, and the tables with stamps that keep them | `MCRuntime` |
| `Serving` | the life of the sidecar's process | `MCRuntime` |
| `RuntimeProofs` | theorems on `Names`, `Lifecycle`, `Serving` and `DeniedKeys` | TLAPS |

`MCNode`, `MCRequests` and `MCRuntime` each hold several parts that keep no
state of each other's: `part` picks one, and the others rest. A run of them is
the sum of its parts, not their product. Where parts do interact, the
interaction is in one module: slots, threads and the tick in `KeyTable`, votes,
leaves and sizes in `Policy`, rounds, reports and shares in `Shares`.

### Limiters

`Quota`. A quota is a record `[interval, burst]`. The width of a word is the
constant `MaxNanos`: narrow for TLC, any in the proofs. The rounding of a
saturated or rescaled debt is modelled; the precision of `f64` is not, since
the debts of the instances are exact in it. `QuotaWord` packs the record into
the word and reads it back; `PackingIsExact`, an assumption TLC evaluates over
every interval of a small word, says that nothing is lost each time.

`Gcra`. `clock` is what a caller reads; `Call` is the reading, `Allow` and
`Deny` the two answers of `check`. It is what `AtomicGcra` is held to: each
call is answered at one moment between its reading of the clock and its answer.

`AtomicGcra`. `frame[p]` holds a thread's program counter and locals. A weak
compare-and-swap may fail on an unchanged word (`RetryCheck`, `RetryRescale`).
`admitted`, `retryAt`, `slack` and `crossed` are history. `slack` counts what a
change of quota in two words may give away: one request for each admission
whose check overlapped the change, and one for each tick by which a rescale's
reading of the clock is late. The second is easily missed: a `set_quota` held
up between reading the clock and storing the TAT acts as if the new quota had
been in force since that reading. The doc comment of `set_quota` gives only
the first.

`Shadow`. The word 0 is off. A call reads the word, then steps, and `set` swaps
the word before it sets the TAT, so both windows between the two are there; a
compare-and-swap loop on the TAT is its successful step, which `AtomicGcra`
takes apart. `ShadowForgets` leaves out the time after a change from one limit
to another, whose debt is carried over: `ChangeBound` speaks of that.

`Limiter`. One step is one call. `level` is a bucket, in half nanoseconds, that
leaks at the fastest quota any limit allows and at each tick that changes a
quota by the half nanosecond it may round a debt down by; `cut` counts how often the cap took a key's state,
`steady` the ticks fed the same demand: history. The average of attempts is
abstracted to a few rates: folding attempts in gives any above zero, folding
none in any lower one. The order in which a tick visits the map is chosen
freely.

### The node

`Swim`. One step is one whole call of `Node::handle` or `Node::leave`, the
reply included. `table[n][p]` is n's record of p, `gossip[n]` its buffer with
the sending counts, `net` the datagrams in flight. Any probe may have gone
unanswered (`missed` in `Round`), and any suspicion or tombstone may have run
out (`Tick`): when exactly is in `Probe`. A restart is a `Crash` followed by
`Restart`: incarnation 0, the same seeds, nothing kept.

`Probe`. A datagram names the probe it was made for, its `cause`, which no node
reads: `vouched` is what a node took for answered, `answers` what was. In
"chaos" datagrams are lost, repeated and late at will; in "cut" one link is
dead and the rest is prompt, so that a number may start over at the bound: but
never at one its node still waits on, which the code's 2^32 rule out.

`ProbeOrder`. `order` is the rest of the circuit, `changes` what the table
tells. Members come, die, are forgotten and return as `apply` lets them.
`followed` counts peers by the changes alone; with it the member table and the
rounds implement `Membership`, where peers just come and go.

`Policy`. Each observed node may see any peer suspected, buried, forgotten,
heard again or leaving, whatever the others see: every split and every heal is
among the behaviours. Time is counted in a node's own rounds. A sample keeps,
besides its size, who was counted. `serving` is whom a node saw alive when
nothing held it at the floor. `NoTwoWholes` ends for a node that has `lapsed`:
its quorum memory ran out, which partition.rs says, or it took a leave after
forgetting a node that did not leave, when the size remembered no longer says
which is missing. It speaks of clusters that have formed: before, two founders
that have not met know of no majority to lack. `HeldSize` leaves out a leave
that arrives after the death it explains; `SizeHistory::forget_one` takes it
out of the samples between as well. A leave arrives within a tombstone's life.

`Shares`. Two nodes, one key. What `RISE_DELAY_ROUNDS` counts on is stated as
the timing of the model: rounds alternate, what a period sends arrives within
it in order or is lost, and of two exchanges in a row one succeeds.

`PeerDemand`. One observing node and one peer, whose reports may each arrive
any number of times, in any order, up to `MaxDelay` rounds late. `peer` is the
node's entry of the peer: snapshot, contested keys, hold. Of membership only
the status is kept, and news may change it at any time. `newest`, `newestAt`,
`unsettledAt` and `crowded` are history. Rounds wrap at `Circle`; a quarter of
it is the implausible jump, half of it the border between newer and older.
Contested entries heard at the same time may be dropped in any order, which
stands for the order of their hashes. A point to know: what disorder adds may
last close to two stale windows, where `peer_demand.rs` speaks of one. A late
report of a past run is taken as a restart; the peer's own next reports are
then contested until that snapshot is stale, and each of them renews the
maximum they are merged into.

### The runtime

`KeyTable`. One step is one atomic access of a slot's key, or one write to its
other words. A quota is abstracted to the class it is of, the counts to whether
there are any; the TAT is left out, so `has_debt` may answer either way. Each
key has a class of its own. The core behind the tick may drop any key at any
tick. The fields a release resets while the slot is BUSY are one step: a
writer racing them can leave no mix of old and new fields that a writer before
or after them does not. Memory is sequentially consistent; the one place where
that needs the fence is `claim`'s second look, for which the repository's loom
tests exist. Between ticks quotas may be wrong: a claim that wins gives the
other copy back at the quota found in it, which may be that of a class, and a
claim that lost may write its quota to a slot that went to another key.
`TickSettles` says when that ends.

`Counting`. One slot of one key and the overflow slot, taken and reported by
ticks between the increments of checks. `tallied` is what was counted,
`certain` what was counted by checks under which no slot was reset. A key with
attempts in a tick stays tracked in it. A shadow's denial two ticks behind its
attempt is left out of `certain`, see below.

`Tariffs`. A change copies a table under the writer's lock and stores what is
beside it one word at a time; a new key's check reads the words in its own
order. `classSpec` and `limitSpec` apply the changes one after another;
`seenClasses` and `seenLimits` are the tables that were current during a check.

`GossipAuth`. The operator takes the rungs of `guide/security.md`, up or down,
waiting for every node and for what is under way before the next. A node seals
a batch with the setting it read when it made the batch.

`Settings` and `Sidecar` are operators: a builder or a body in, a refusal or a
configuration or a call out, evaluated by the assumptions of `MCSidecar` over
bounded inputs: a good builder with any two of its settings changed, texts of
limits, files of up to three lines, JSON values of a small set. A millisecond
is `Ms` nanoseconds.

`Names`. Lookups of a round fail or succeed one by one, and instances move
between them. `Lifecycle`. Channels are queues of callers; a panic takes them
with it; a check is its claim, its reading of the factor, its write. `raced`
names the keys sized by a factor read before `hold_at_floor` stored its own.
Such a key keeps the share for good, which `FloorOnceGone` leaves out.
`DeniedKeys`. Tables of stamps, compacted, refreshed and evicted as in
`denied.rs`; the function of their names implements `RecentNames`, two lists
from which the least lately denied goes. `Serving`. A signal that arrives
during `guard.leave()` is missed, since nothing waits for one: only a signal
during the drain cuts it short.

`Sim`. The queue is in the heap's order. A node is whom it knows, its
incarnation and its settings. `widest` is the bound the admission window is
told.

## Runs

Each run is in `PROJECT.json` with its properties; each property of a passing
run has a mutant, an operator marked "Mutant" that breaks the definition next
to it as a bug would, and that TLC finds.

| run | bounds | shows |
|---|---|---|
| `atomic` | 2 threads, quota (4,4), word of 13, clock to 6 | `WindowBound`, `NoEarlyAdmission`, and refinement of `Gcra`, at the cap of tau: without the cap a saturated TAT lets everything pass |
| `atomic_change` | quotas (2,2) and (1,2), clock to 2 | `ChangeBound` under racing `set_quota` and `reset` |
| `limiter` | 2 keys, 1 enforced; room for 1 hot and 1 tracked; word of 31, clock to 3, 3 checks | `CapsKept`, `HistoryKept`, `DebtBounded`, `NoAttemptLost`, `HotSetSettles` |
| `swim` | 3 nodes in a star, room for 2; a suspicion, a loss, a duplicate, a leave, restarts; one datagram in flight when a round begins | `OnlyTheOwnerRaises`, `TablesBounded` |
| `swim_healing` | 2 nodes with a suspicion, a crash, a leave, restarts; or 3 joining in a star with messages of 2 records | `Healing` |
| `swim_stale_leave` | 2 nodes, a suspicion, a leave | violation of `DepartedSaidSo` |
| `peer_demand` | 2 keys, room for 1 contested, circle of 8, 2 runs, stale after 2 rounds, hold of 1, delay of 1, 5 rounds | `NeverLooser`, `InOrderIsExact`, `DepartedIsSilent` |
| `node` | policy: 3 founders, 2 observed, 1 leaver, quorum memory 2, hold 3, up to 3 suspicions and leaves; shares: limit 12, demands 0, 1, 3; probes: 3 nodes, 2 probers, sequences to 2; order: 3 peers, 3 changes between rounds | `NoTwoWholes`, `HeldSize`, `QuorumReturns`, `SharesFit`, `VouchedFor`, `LinkFaultTolerated`, `ProbedInTurn`, `ContractKept` (in `PartsKept`), `ImplementsMembership` |
| `node_newcomer` | the policy with a fourth node | violation of `NoTwoWholes` |
| `requests` | table: 2 keys, 2 slots, 2 threads, 2 checks, 2 ticks; tariffs: 2 editors, 3 changes, room for 1 class and 1 key limit; signing: 2 nodes, 2 rungs, 1 datagram; simulator: 2 nodes, time to 3, 2 inputs; counts: 2 threads, 2 checks, 2 ticks; shadow: 2 threads, 2 quotas, 5 calls, clock to 1 | `ExactlyOneCopy`, `TickSettles`, `TablesKept`, `FreshInForce`, `UnderstoodThroughout`, `SimulatorHolds`, `CountsKept`, `ShadowForgets`, and the assumptions of `MCSidecar` |
| `table_under_check` | the table with 3 checks, 1 tick | violation of `KeptUnderCheck` |
| `runtime` | names: 2 hosts, 1 other instance, 1 move, 1 failed lookup, 2 rounds to be alone; task: 2 callers, 2 keys; names of denied keys: 3 keys, room for 2, 7 denials; process: drain of 3, 3 signals | `FloorOnceGone`, `ServedToTheEnd`, `OnlyAnswersCount`, `SeedsSettle`, `CallsReturn`, `NamesTheLastDenied` |

Why the bounds are enough for the cases meant. Two threads make every race of
one compare-and-swap with another; the clocks let a whole burst be spent, paid
back in part and spent again; the word of `atomic` is chosen so that the cap
and the saturation both occur. In `limiter` both rooms are full with one key,
so each promotion evicts and each new key reclaims, and units of 1, 3 and 9
round shares up. In `Swim`, a round waits while `MaxNet` datagrams are in
flight, but replies and leaves are always sent, so several are in flight
together; tombstones can be forgotten at any time, so late news of a forgotten
member occurs. In `PeerDemand` the first run starts two rounds short of the
wrap and the second at 0, so both a wrap and a restart from a low round occur;
five rounds are one more than two stale windows. In `Policy` three founders
are the fewest that can split into a majority and a minority, and two of them
observed are both sides of it, which takes three suspicions, or two and the
third founder's leave; memory and hold run out within a behaviour. In
`Shares` the demands let a share rise, fall and rise again while both nodes
lose every other exchange, and a rise one round earlier overspends. In `Probe`
the probers have two sequence numbers, so an answer to the first probe meets
the second's wait. In `KeyTable` the two keys have each other's second bucket
as their first, with one slot each, so both race orders, both outcomes of the
comparison of the buckets and the overflow slot occur; two ticks let one free
what the other's races left. With 3 checks and 2 ticks (5.4 million states)
the properties hold as well. In `Tariffs` three changes are a class removed
and given again around a third. In `DeniedKeys` seven denials fill a table,
leave stale stamps, compact them and evict past them. In `Names` two rounds are the fewest that tell a streak from
a single round; with the code's three, and with a third check in `Counting`,
the properties hold as well. Thread symmetry is used
for invariants only.

Fairness. `swim_healing`: strong fairness of each node's round towards each
target, since the background task ticks for ever, every live peer is in the
circuit of targets (`ProbedInTurn`), and the lost are drawn at random from
among the dead and the strangers among the seeds, at least once a reconnect
interval. Weak fairness of delivery: a datagram that is not lost arrives, and
the losses of a run are bounded (`swim_healing` has none; with a loss in place
of the crash `Healing` holds as well). `QuorumReturns`: weak fairness of a
node's rounds and of the ends of suspicions and tombstones, which are timers;
what it hears of others is not fair. `SeedsSettle`: lookups have a timeout and
the task takes what it is sent; moves and failures are bounded. `CallsReturn`:
budgets of sends and timers end; a request to leave and a query are strongly
fair, since `tokio::select!` polls its branches in random order and so takes
one that is ready again and again. Nothing else is fair: timeouts, crashes,
leaves, panics and drops may happen or not.

## Findings

* `swim_stale_leave`. A leave is sent twice. If the second copy is late by a
  whole life of the sender (it came back, then stopped answering and was
  declared dead), `depart` marks the member departed, although this death was
  not announced: the record it is dead at is newer than the leave.
* `table_under_check`. Between the tick's look at `has_counts` and its
  compare-and-swap on the key, a check can count its attempt; the slot is
  then freed under that check.
* `node_newcomer`. The cluster a node counts its majority against is to
  include the dead it has forgotten, for the quorum memory. The code keeps a
  number, the larger of the members known and the size remembered, so a
  newcomer takes a forgotten member's place in it. Founders 1, 2 and 3 are
  cut into {1} and {2, 3}; 1 buries 2 and forgets it, and a fourth node joins
  through 1. Then {1, 4} and {2, 3} both serve as a majority of three.

Smaller disagreements met while modelling, with no run of their own:

* `table.rs` says of `has_counts` that shadow denials come with an attempt, so
  attempts tell for them too. A check that is held up between the two has its
  attempt taken by one tick, and its shadow's denial cleared by the next.
* `tower.rs` rounds `Retry-After` up from whole milliseconds that were rounded
  down: 1.0004 s becomes 1, less than a millisecond early (`NoEarlyRetry`
  states what does hold).
* `lib.rs` of the sidecar takes a field that is null for one left out, except
  a period of a limit.
* The simulator defers the events of a paused node in the order they came; with
  overlapping pauses, or an event at the very end of one, they are reordered.
  A datagram for a node both paused and down is delivered to its successor,
  although what is sent to a node that is down is lost.
* A key limit lowered in the middle of a simulation makes the window bound
  forget the configured limit that was in force before.
* A second signal to the sidecar cuts the drain short, but not one that comes
  while it is still leaving.
* `Stats::admitted` is a difference of counts and may go down between two calls.

## Proofs

Eight modules hold the theorems, each a safety property proved for every value
of the constants its assumptions allow. Where a run composes parts that keep no
state of each other's, each part is proved as a specification of its own
(`OrderSpec`, `TariffsSpec`, `NamesSpec` and so on: the part's initial states
and steps, without fairness, which safety does not need).

`AtomicGcraProofs`, for any number of threads, any set of quotas and any width
of the word:

* `TypeCorrect`: `Spec => []TypeOK`.
* `WindowBounded`: at a constant quota, `Spec => []WindowBound`. The bound
  alone is not inductive, since it does not speak of the TAT that denies the
  next request. The invariant `WindowInv` adds: while the TAT is not saturated
  it lies past the start of every window by one interval per request admitted
  in it (`TatCovers`), and a thread about to compare-and-swap was cleared
  against the TAT it saw (`Cleared`). An admission then finds
  `s + k*t <= TAT <= now + t*(b-1)`, so `(k+1)*t <= (e-s) + b*t`. `TauBounds`
  and `ClearedIsClose` are where the cap of `tau` is needed: a cleared request
  never saw a saturated TAT.
* `RetryAtKept`: at a constant quota, `Spec => NoEarlyAdmission`, from
  `WindowInv` and the invariant that no promise given is later than the one the
  present TAT would give.
* `AtomicIsSequential`: at a constant quota, `Spec => ImplementsGcra`. A check
  takes effect in one step of `Gcra`: at the load that denies it or at the
  compare-and-swap that admits it. A TAT of 0 is the sequential limiter's none
  (`FreshIsNow`, and `AdvanceIsSome`: no admission stores it), and a failed
  compare-and-swap denies or retries, which the sequential limiter does not
  see. `WindowInv`'s `Cleared` is what lets a swap that succeeds be an admission
  there.

Assumptions: a quota has a positive interval and burst, the word holds at least
2, and the clock stays under half of the word (`HorizonAssumption`, the 292
years of `MAX_TAU`'s comment).

`SwimProofs`, for any finite set of nodes, any seeds, any caps and any budget
of faults:

* `TypeCorrect`: `Spec => []TypeOK`.
* `OwnersRaise`: `Spec => []OnlyTheOwnerRaises`. With the types the property is
  inductive: what goes into a message is the sender's own record, one of its
  table or one of its buffer (`OutgoingSays`), so nobody can say more of a node
  than was said. The work is in `receive` and `depart`, which apply, refute,
  learn and answer in one step.
* `TablesKeepBounds`: `Spec => []TablesBounded`, by counting: news accepted
  adds members up to the room left (`ApplyKnown`), and every other step adds
  none.

`KeyTableProofs`, for any threads, keys, slots and buckets (two slots of a key
may not be the same slot of its table, `BucketsAssumption`):

* `KeysHaveOneCopy`: `Spec => []ExactlyOneCopy`. That a settled table has one
  copy is not inductive: while two claims race there are two. `Pairs` says that
  of any two copies some claim will give one back: it is giving it back, or it
  still has the other one ahead of it in its second look, or it took the later
  one and knows of an earlier. `Survives` says, for the time before the first
  tick, that what a claim settles on has a copy at it or before it, so the two
  never both give way; `BusyOwned` gives each slot being reset one owner.
* `CalmTickSettles`: `Spec => []TickSettles`. The property speaks of the tick
  that is over; `Settling` says, for a tick under way that no check overlapped,
  what each of its three walks has done so far: the core was told the class of
  every slot collected (`Told`), the slots visited by the second walk have
  their class's quota (`Given`), and the free ones visited by the third the
  strict one (`Refilled`). It rests on `OneCopy`: were there two copies of a
  key, with two classes, what the core was told of one would be told over by
  the other.

`LimiterProofs`, for any keys, limits, demand, cluster sizes and units of the
packed word. `LimiterInv` is inductive:

* `CapsHold`: `Spec => []CapsKept`. A tick's first pass folds over the keys in
  the map's order; `PassOneKeeps` shows, visit by visit, that a hot key is one
  kept or one still to be visited, so that in the end hot keys are tracked
  whoever evicted whom on the way. That leaves `enforce_cap` enough cold keys to
  get under the cap (`ReclaimKeeps`), given that the configuration allows no
  more hot keys than tracked ones (`LimiterAssumption`, `Config::validate`).
* `DebtIsBounded`: `Spec => []DebtBounded`. `CarryKeeps` shows it of `carry_tat`,
  whose debt is rounded and held to the larger of the two bursts, and `CheckKeeps`
  of a check, which is denied where a charge would pass the burst.
* `NoAttemptIsLost`: `Spec => NoAttemptLost`. Attempts folded in leave demand
  above zero, or they wait on; either keeps the key through pass one, and
  `enforce_cap` takes none while there are not too many.
* `HotSetIsSteady`: `Spec => HotSetSettles`, for any size of the hot set and any
  number of keys. `SettledInv` adds to `LimiterInv` that every hot key has the
  demand the last tick fed and a reason to be hot (`HotFor`), and that after a
  tick fed as the one before it, no key cooling, the keys outside that want in
  are left out of a full set (`OthersLeftOut`). `WarmOnVisit` is why, visit by
  visit: a key only leaves to a newcomer that beats the weakest, so the least
  demand in the set never falls, and whom it left out, or put out, stays out.
  `PassOneSettles` takes it through the walk, in any order that comes to each
  key once. TLC checked `SettledInv` on the instance of `limiter`.
* `HistoryIsKept`: `Spec => []HistoryKept`, for any keys, demand and caps.
  `HistoryInv` says that the debt of a key, in requests, accounts for all it was
  admitted within its level (`Behind`), or its TAT is saturated and the level is
  a burst at most; that a key no longer tracked has nothing to account for but
  what the cap took; and that the quotas in force are some share's or some
  limit's. `RequoteBehind` shows that `carry_tat` loses no more than half a
  nanosecond. It rests on three hypotheses. No share is larger than a limit
  (`SharesWithin`): or a share could be faster than every limit. The clock stays
  in the half of the word `MAX_TAU` leaves it (`ClockWithin`): 292 years. And
  the limits have one burst, or no debt is long enough to saturate a TAT
  (`OneBurst`, `NoneSaturates`): a key whose limit is changed for one with a
  smaller burst while its TAT is saturated forgets what it owed beyond it. The
  instance of `limiter` satisfies all three, and TLC checked `HistoryInv` there.

`NodeProofs`:

* `AnswersAreToTheProbe`: `ChaosSpec => []VouchedFor`, with datagrams lost,
  repeated and delayed at will. `Vouching` says what a number is of: one probe
  of its node or one relay, never both (`NumbersGiven`), and that every ping,
  request and answer under it carries the cause of that probe or relay. It
  holds as long as no node's numbers come round: a sequence number is a `u32`,
  and the model has no step after the last one.
* `NobodyIsSuspected`: `CutSpec => []LinkFaultTolerated`, for any number of nodes
  that is at least three and of helpers asked that is at least one
  (`HelpToHand`). `Answering` says that a probe whose answer is due, because its
  link is up or helpers were asked, is on its way (`OnItsWay`): as the ping, as
  the answer, as a request to a helper off the dead link, or with such a helper,
  who waits for the answer to a ping of its own. It rests on the promptness of
  the model: what is on its way arrives before the round that would suspect.
* `NobodyIsPassedOver`: `OrderSpec => []ProbedInTurn`, for any number of peers
  and changes between two rounds. `Ordering` adds that the order names no peer
  twice and that the changes waiting are those the contract allows.
* `TableKeepsContract` and `TableIsMembership`: the changes waiting lead from
  the peers their reader counts to the live ones, and the table with its rounds
  implements `Membership` (`ImplementsMembership`), each step mapped to a step
  or a stutter. `Followed` folds a log of any length; that it exists and is
  unique, and that one more change is followed last, is shown through the least
  number at which it would fail (`LeastOf`, `OneByOne`).
* `HeldSizeCounts`: `PolicySpec => []HeldSize`, for any number of nodes, any
  hold and any number of leaves. `Sampled` says that each sample counts whom it
  saw, unless excused by a leave, and that the size held is no smaller than any
  sample.
* `NobodyServesAlone`, if every node has a seed (`SeveralFound`): under Quorum no
  node serves above the floor alone before all others left on purpose, or it has
  lapsed, for any number of nodes and memories. `InCompany` says it of the size
  a majority is counted against (`NobodyElse`): a node that has joined and counts
  nobody but itself has seen the others leave.
* `ThreeAreNeverTwo`: `PolicySpec => []NoTwoWholes` for up to three nodes with no
  lone founder: of two groups of three that share no node one is a single node.
  That is the bound of the promise, not of the proof (see `node_newcomer` and
  below).
* `NoTwoMajorities`: `[]NoTwoWholes` for any number of nodes that founded the
  cluster together, along every behaviour before the first tombstone is forgotten
  and the first node leaves (`NobodyForgotten`), through any splits and heals.
  `WholeKnown` says that each node of a cluster that has formed knows all the
  others, alive or dead, so it counts its majority against all of them, and that
  who serves sees more than half (`SeesMost`); two halves meet.
* `SharesStayWithinLimit`: `SharesSpec => []SharesFit`, for any limit, floor and
  demands, with a rise delay of at least two rounds (the code's is two). It rests
  on the timing of the model stated above. Two shares fit when each node takes
  the other at no less than the other takes itself (`SharesMeet`), and a floor
  fits any share (`ShareIs`). Between such moments neither node's latest share
  need fit the other's; `Interlocked` says, by how far the two probes have come
  and whether the exchange before was lost, which of a node's last two shares
  and of the next it may compute fits which of its peer's, and that is what a
  rise delayed by two rounds leaves room for. Each lemma `...Interlocks` is one
  step on these shares, and each `...Keeps` shows that an action is that step.
* `PartsAreKept`: `Spec => []PartsKept` of `MCNode`, whichever of the four parts
  runs, for any number of nodes and any memories of the policy. `PartsAre` is the
  conjunction of what the four are shown to be. New in it are the bounds of the
  policy (`PolicyTyped`: what `Record` and `Largest` leave is a size someone saw,
  a cap divides by no more than `LargestDivisor`, ages and counts of rounds stay
  within their memories) and of the probes (`ProbeTyped`: every number given is
  one its node may give). The members are finitely many, or the largest of
  their bounds on numbers would not exist.

`RequestsProofs`:

* `ChangesAreKept`: `TariffsSpec => []TablesKept`, for any editors and changes.
  `Changing` says that the editor that holds a writer's lock holds a copy of
  the table as it is, changed by its own change only.
* `ChecksAreInForce`: `TariffsSpec => []FreshInForce`. `Kept` says what the
  atomics and the count show at each point of a change's stores; `Checked`
  gathers, read by read, which table in force during the check explains what it
  has found (`Found`).
* `RolloutUnderstood`: `AuthSpec => []UnderstoodThroughout`, for any number of
  nodes and rungs. Nodes and batches under way are on rungs next to each other
  (`RollingOut`). What the theorem rests on is `LadderSteps`: rungs next to
  each other understand one another. It is an assumption on what the operator
  does, as `guide/security.md` gives it, and TLC evaluates it on the ladder
  there. The MAC is a matching secret.
* `CountsAreKept`: `CountingSpec => []CountsKept`, for any threads, checks and
  ticks. `CountInv` is a balance: what the slot, the overflow slot, the tick's
  hands and the report hold together is no more than what was counted and no
  less than what is certain (`Within`); as long as the two agree, the denials
  of each place, and those still to come, have their attempts there
  (`Paired`); and at each stage of a tick it says what the tick has still to
  see.
* `ShadowStartsAfresh`: `ShadowSpec => []ShadowForgets`, for any quotas tried
  and any callers. `ShadowInv` says that, whenever no call is between its
  change of the word and of the TAT, the TAT is no further ahead of the clock
  than what was charged since, and that a call about to step has read a quota,
  never the word of a shadow that is off.
* `SimulatorIsKept`: `SimSpec => []SimulatorHolds`, for any nodes, link, limits
  and times. `SimInv` keeps the queue in the heap's order (`InOrder`) and fits
  each event in it to the state (`Proper`): none is behind the clock, no tick is
  of an instance to come, the bound was told of every limit still to be set, and
  a datagram of nobody is there only once a forger spoke. `TicksFit` says that
  of the ticks of the instance that runs exactly one is queued (`OneOf`), and
  `LimitsFit` that what a node holds the key to, the config's limit included, is
  within `widest`. What `schedule` does to an order and to a count of events is
  `ScheduledIs` and `ScheduledMarks`, what a list of events does
  `ScheduledAllMarks`; `HandledKeeps` is the step of the loop all events share.

`RuntimeProofs`:

* `FloorHolds`: `LifeSpec => []FloorOnceGone`, for any callers and keys.
  `Holding` follows the floor through the phases of `hold_at_floor`: from the
  phase on that stores the factor, the free slots or the keys, each stays at
  the floor, whatever checks are between their reading and their write.
  `Waited` and `Ending` say who waits for the task and what it may still do.
* `ServesToTheEnd`: if the service drains no longer than the sidecar,
  `ServingSpec => []ServedToTheEnd`. `ServingInv` bounds what is left of the
  service's drain by what is left of the sidecar's.
* `SilenceIsNoAnswer`: `NamesSpec => OnlyAnswersCount`, for any names,
  addresses and `ALONE_AFTER`. `NamesInv` says that the seeds behind the names
  are the addresses last found behind them (`SeedsAre`), and that the streak is
  one of the latest rounds taken (`StreakIs`).
* `NamesTypes`: `NamesSpec => []NamesTypeOK`. A seed given as an address is
  never one of those behind a name as well.
* `NamesAreTheLast`: `DeniedSpec => NamesTheLastDenied`, for any keys and any
  capacity. `TablesKept` says of each table, beside its bounds, that the stamps
  of its order rise and are below the next, that each name's stamp is among them
  beside its name, stale ones in between or not, and that some list holds the
  names by their stamps. Such a list is unique (`KeptNames`), so it is the one
  `NamesOf` computes; then a stamp given, an old one left behind, an eviction
  that skips the stale and a compaction are each followed on the list.

`PeerDemandProofs`, for any finite set of keys, any reports, limits and times:

* `TypeCorrect`: `Spec => []TypeOK`, with the bounds on what is remembered of a
  peer; that the contested keys can be counted is why the keys are finite.
* `DepartedCountsForNothing`: `Spec => []DepartedIsSilent`. The property is
  inductive as it stands; the work is in the steps where a departed peer could
  come back without being alive: relayed reports, and a round that follows its
  death only now.
* `NoDisorderLoosens`: `Spec => []NeverLooser`. How much is counted is inductive
  only with where it is kept (`Covered`): the snapshot is the newest report, or
  all it names is contested since. A late report must then never be taken for a
  newer one, nor a new one for the snapshot: `Apart` says that the rounds tell
  the reports of one run apart within a circle, and `Made` that the sender is no
  further ahead than the rounds that have passed, so the next report will be
  told apart too. A hold can keep a snapshot for so long that its round comes
  again (`IsHeld`): the report with that round is taken for a repetition, and
  what it says is contested all the same. It rests on `TimesAssumption`: a
  report arrives, and a report counts, for less than half a circle together,
  and on the model's peer, which reports at most once a round of the node.
* `DisorderEnds`: `Spec => []InOrderIsExact`. What disorder adds ends. `Settling`
  holds beside `StrictInv` and says when: a snapshot that is not the newest
  report was heard by `unsettledAt`, or is held no longer than `Hold` after it, so
  it is gone a window later; a report is contested only beside such a snapshot,
  and an entry lasts one window more. From then on each next report of the peer
  is newer than the snapshot, whatever the past runs that are remembered
  (`NextIsTaken`, `OthersArePast`), replaces it, and contests nothing.

### Only model-checked

* Liveness (`Healing`, `QuorumReturns`, `SeedsSettle`, `CallsReturn`):
  out of the prover's reach.
* `NoTwoWholes` beyond the two theorems: with four nodes, once one is forgotten,
  it does not hold. `node_newcomer` shows it violated with a newcomer, and
  forgetting the dead has the same effect among four founders, of whom two
  disjoint pairs may each be the majority of the three they remember.
* `HistoryKept` without the hypotheses of `HistoryIsKept`: not so for limits of
  several bursts whose TATs saturate, as said there.
* `ChangeBound` holds of quotas whose intervals are within a small factor of each
  other, as the instance's are, and not for all constants. Two `set_quota` that
  overlap, say from an interval of 1 to 10 and back, may rescale in the wrong
  order: the second divides the debt by ten, rounding it to nothing, before the
  first multiplies it by ten. A rounding costs half a nanosecond of debt, which
  such a pair makes up to half the ratio of the two intervals, in requests of the
  shorter one. TLC finds it with quotas (1,2) and (10,2), and a clock that
  stands still. With intervals of many nanoseconds, as a limit's are,
  the loss is a fraction of a request; the bound that holds of every constant
  would name it.
* What the operators of `Settings` and `Sidecar` compute, checked for every
  input of bounded sets.

## Not modelled

Hash and random number quality, cryptography, encoding, HTTP itself, the
clients in other languages, the programs of the simulator: pure conversion,
I/O or statistics. Weak memory: see the loom tests. Shares of three and more
nodes, a policy changed at run time outside the simulator, two nodes with one
address, the flag of a dry run. `PROJECT.json` gives the reason part by part.

## Plan

What would come next:

1. `AtomicGcra`: `ChangeBound` with an allowance, for each rescale that overlaps
   another change, of half the ratio of the intervals it rescales between, and
   its proof for every value of the constants.
2. `Limiter`: `HistoryKept` for limits of several bursts, with the debt a
   saturated TAT gives up at a change of limit accounted for.
3. `Shares` for three nodes, and a theorem on them.
