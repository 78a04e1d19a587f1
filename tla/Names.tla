------------------------------- MODULE Names -------------------------------
(***************************************************************************)
(* The names among the seeds (src/rateguard/src/driver.rs): a task of its  *)
(* own looks them all up, round after round, and hands each round over a   *)
(* channel to the background task, which keeps the node's seeds in step    *)
(* with the addresses behind the names and decides when a replica is the   *)
(* whole fleet.  A lookup fails or times out on its own, and instances     *)
(* come and go behind the names between any two lookups.                   *)
(***************************************************************************)
EXTENDS Naturals, Sequences

CONSTANTS
    Hosts,          \* the names there may be among the seeds
    Me,             \* this node's address
    Others,         \* the addresses of the other instances
    AloneAfter,     \* ALONE_AFTER
    MaxMoves,       \* bound: how often the instances behind a name change
    MaxFailures,    \* bound: how many lookups fail
    Failed          \* None: the lookup failed

Answers == SUBSET ({Me} \union Others)

ASSUME NamesAssumption == AloneAfter \in Nat \ {0} /\ \A a \in Answers : a # Failed

VARIABLES
    hosts,      \* the names among this node's seeds
    behind,     \* external: the instances behind each name now
    round,      \* the lookups of the round at hand, by name; a missing one is pending
    sent,       \* the rounds in the channel to the background task, at most one
    last,       \* Names::last
    kept,       \* Names::kept, the seeds given as addresses
    added,      \* Names::added
    alone,      \* Names::alone
    seeds,      \* Node::seeds
    expects,    \* Node::expects_peers
    joined,     \* whether a peer was heard of: Node::joined_at
    moves, failures,    \* the bounds' counters
    taken       \* history: the last AloneAfter rounds the node took, latest first

lookupVars == <<hosts, behind, round, sent, moves, failures>>
nodeVars == <<last, kept, added, alone, seeds, expects, joined, taken>>
namesVars == <<lookupVars, nodeVars>>

\* config.rs start: the seeds given as addresses, and with names, expect_peers.
NamesInit ==
    /\ hosts \in {Hosts, {}}
    /\ behind \in [hosts -> Answers]
    /\ round = <<>> /\ sent = <<>>
    /\ last = [h \in hosts |-> {}]
    /\ kept \in {{}} \union {{o} : o \in Others}
    /\ added = {} /\ alone = 0
    /\ seeds = kept
    /\ expects = (hosts # {}) /\ joined = FALSE
    /\ moves = 0 /\ failures = 0 /\ taken = <<>>

Looked == DOMAIN round

\* One lookup of the round ends, in any order among the names.
Lookup(h, answer) ==
    /\ h \in hosts \ Looked
    /\ round' = [x \in Looked \union {h} |-> IF x = h THEN answer ELSE round[x]]
    /\ UNCHANGED <<hosts, behind, sent, nodeVars, moves>>

Resolves(h) == Lookup(h, behind[h]) /\ UNCHANGED failures

\* An error, or RESOLVE_TIMEOUT.
LookupFails(h) ==
    /\ failures < MaxFailures
    /\ Lookup(h, Failed)
    /\ failures' = failures + 1

\* Every name is looked up: the round goes into the channel, once there is
\* room; the next one starts after the wait.
SendRound ==
    /\ hosts # {} /\ Looked = hosts /\ Len(sent) < 1
    /\ sent' = Append(sent, round)
    /\ round' = <<>>
    /\ UNCHANGED <<hosts, behind, nodeVars, moves, failures>>

\* External: instances appear behind a name and go.
Move(h, to) ==
    /\ moves < MaxMoves /\ to # behind[h]
    /\ behind' = [behind EXCEPT ![h] = to]
    /\ moves' = moves + 1
    /\ UNCHANGED <<hosts, round, sent, nodeVars, failures>>

----------------------------------------------------------------------------
\* Mutant: a failed lookup is taken for an empty one.
OnlyMeOrFailed(found) ==
    /\ \A h \in hosts : found[h] = Failed \/ found[h] \subseteq {Me}
    /\ \E h \in hosts : found[h] # {}

\* only_me: every lookup found this node or nobody, and one found it.
OnlyMe(found) ==
    /\ \A h \in hosts : found[h] # Failed /\ found[h] \subseteq {Me}
    /\ \E h \in hosts : found[h] # {}

Streak(found) == IF OnlyMe(found) THEN alone + 1 ELSE 0

\* The addresses of each name, kept through a failed lookup.
Remembered(found) == [h \in hosts |-> IF found[h] = Failed THEN last[h] ELSE found[h]]

\* The seeds behind the names: neither this node nor one given as an address.
Current(found) == (UNION {Remembered(found)[h] : h \in hosts}) \ ({Me} \union kept)

\* Mutant: a seed no name lists any more stays.
SeedsGrown(current) == seeds \union current

\* Node::add_seed and remove_seed for what is new and what is gone.
SeedsWith(current) == (seeds \union current) \ (added \ current)

\* Names::update.
Update ==
    /\ sent # <<>>
    /\ LET found == Head(sent)
           current == Current(found)
       IN  /\ alone' = IF Streak(found) > AloneAfter THEN AloneAfter + 1 ELSE Streak(found)
           /\ expects' = (expects /\ alone' # AloneAfter)
           /\ last' = Remembered(found)
           /\ seeds' = SeedsWith(current)
           /\ added' = current
           /\ taken' = SubSeq(<<found>> \o taken, 1,
                              IF Len(taken) < AloneAfter THEN Len(taken) + 1 ELSE AloneAfter)
    /\ sent' = Tail(sent)
    /\ UNCHANGED <<hosts, behind, round, kept, joined, moves, failures>>

\* A seed answers: the node has a peer (Node::apply_policy sets joined_at).
Join ==
    /\ ~joined /\ seeds # {}
    /\ joined' = TRUE
    /\ UNCHANGED <<lookupVars, last, kept, added, alone, seeds, expects, taken>>

NamesNext ==
    \/ \E h \in hosts :
        \/ Resolves(h)
        \/ LookupFails(h)
        \/ \E to \in Answers : Move(h, to)
    \/ SendRound
    \/ Update
    \/ Join

\* The task looks the names up again for as long as the node runs.
NamesFairness ==
    /\ \A h \in Hosts : WF_namesVars(Resolves(h))
    /\ WF_namesVars(SendRound)
    /\ WF_namesVars(Update)

----------------------------------------------------------------------------
NamesTypeOK ==
    /\ hosts \subseteq Hosts
    /\ behind \in [hosts -> Answers]
    /\ Looked \subseteq hosts /\ Len(sent) <= 1
    /\ last \in [hosts -> Answers]
    /\ kept \subseteq Others /\ added \subseteq Others \ kept
    /\ seeds = kept \union added
    /\ alone \in 0..AloneAfter + 1

\* refresh_cap: held at the floor for want of a peer.
Waiting == ~joined /\ (expects \/ seeds # {})

\* ALONE_AFTER rounds in a row looked every name up, found nobody else behind
\* any, and found this node behind one.
AloneThroughout(rounds) ==
    /\ Len(rounds) = AloneAfter
    /\ \A i \in 1..AloneAfter :
        /\ \A h \in hosts : rounds[i][h] # Failed
        /\ UNION {rounds[i][h] : h \in hosts} = {Me}

\* A failed lookup is no answer (driver.rs, Names::update).  A node takes
\* itself for the whole fleet, and stops waiting for peers, only after
\* ALONE_AFTER rounds in a row that all say so; a seed goes only when a lookup
\* that succeeded no longer lists it: never because one failed, never while
\* another name lists it, and never one given as an address.
OnlyAnswersCount ==
    [][/\ expects /\ ~expects' => AloneThroughout(taken')
       /\ \A s \in seeds \ seeds' :
            /\ s \notin kept
            /\ \E h \in hosts : taken'[1][h] # Failed /\ s \in last[h] \ taken'[1][h]
            /\ \A h \in hosts : s \notin last'[h]]_namesVars

\* Once the names and the lookups settle, the seeds are the instances behind
\* the names, and a replica alone behind them stops waiting: "would wait for
\* peers for good" otherwise (driver.rs, Names::update).
SeedsSettle ==
    <>[](/\ seeds = kept \union ((UNION {behind[h] : h \in hosts}) \ {Me})
         /\ UNION {behind[h] : h \in hosts} = {Me} => ~expects)
=============================================================================
