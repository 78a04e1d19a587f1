----------------------------- MODULE GossipAuth -----------------------------
(***************************************************************************)
(* How gossip is sealed and opened while a fleet turns signing on or off   *)
(* or rotates its secret, node by node, with no restart                    *)
(* (src/rateguard-proto/src/auth.rs, src/rateguard/src/driver.rs).  The    *)
(* settings of the guide form a ladder; the operator takes one rung at a   *)
(* time, up or down, once every node has reached the rung before, and a    *)
(* node seals a batch with the setting it read when the batch was made,    *)
(* opens a datagram with the one in force when it arrives.                 *)
(***************************************************************************)
EXTENDS Naturals, Sequences, FiniteSets

CONSTANTS
    Pods,           \* the nodes
    Ladder,         \* the settings in the order the guide takes them
    MaxSteps,       \* bound: rungs the operator takes
    MaxFlight       \* bound: datagrams on their way

\* What Auth::new was given.
Setting(mode, secrets) == [mode |-> mode, secrets |-> secrets]

\* Auth::new keeps no secret in Off.
NewAuth(s) == IF s.mode = "off" THEN Setting("off", <<>>) ELSE s

Rungs == 1..Len(Ladder)
SecretsOf(r) == {Ladder[r].secrets[i] : i \in 1..Len(Ladder[r].secrets)}
Secrets == UNION {SecretsOf(r) : r \in Rungs}
NoTag == "unsigned"

ASSUME LadderAssumption ==
    /\ Len(Ladder) \in Nat /\ MaxSteps \in Nat
    /\ NoTag \notin Secrets
    /\ \A r \in Rungs :
        /\ Ladder[r].mode \in {"off", "transitional", "required"}
        /\ Len(Ladder[r].secrets) <= 2
        /\ Ladder[r].mode # "off" => Ladder[r].secrets # <<>>

\* External: the order the guide takes its settings in.  From one rung to the next
\* nobody is asked for a signature its neighbours do not make yet, and what is
\* signed with is a secret every neighbour that has secrets has.
Neighbours(r) == {r - 1, r, r + 1} \intersect Rungs

ASSUME LadderSteps ==
    \A r \in Rungs : \A q \in Neighbours(r) :
        /\ Ladder[q].mode = "off" => Ladder[r].mode # "required"
        /\ Ladder[q].mode # "off" /\ Ladder[r].mode # "off"
              => Head(Ladder[q].secrets) \in SecretsOf(r)

VARIABLES
    target,     \* the rung the operator is rolling out
    steps,      \* how many rungs were taken
    rung,       \* Shared::auth of each node, by its rung
    batch,      \* the rung `auth` was read at for the batch being sent; 0 for none
    stopped,    \* nodes whose last Guard is gone
    wire,       \* datagrams on their way
    outcome     \* the last datagram opened and what came of it

authVars == <<target, steps, rung, batch, stopped, wire, outcome>>

\* A record and whether its member has the ID its address gives.
Says(about, true) == [about |-> about, true |-> true]

\* A message opens with its sender's record; a peer passes news on as it heard
\* it, a record under a borrowed name too.
Messages(n) ==
    {<<Says(n, TRUE)>>} \union
    {<<Says(n, TRUE), Says(o, t)>> : o \in Pods \ {n}, t \in BOOLEAN}

Silent == [sent |-> <<>>, heard |-> <<>>, refused |-> "no"]

AuthInit ==
    /\ target \in Rungs
    /\ steps = 0
    /\ rung = [n \in Pods |-> target]
    /\ batch = [n \in Pods |-> 0]
    /\ stopped = {}
    /\ wire = {}
    /\ outcome = Silent

----------------------------------------------------------------------------
\* Auth::seal: a frame signed with the first secret; in Off, the message.
Seal(auth) == IF auth.secrets = <<>> THEN NoTag ELSE Head(auth.secrets)

\* Mutant: only the signing secret verifies.
RefusalButFirst(auth, tag) ==
    CASE tag = NoTag /\ auth.mode = "required" -> "unsigned"
      [] tag # NoTag /\ auth.mode # "off" /\ Head(auth.secrets) # tag -> "bad_tag"
      [] OTHER -> "no"

\* Auth::open: why a datagram is refused, if it is.
Refusal(auth, tag) ==
    CASE tag = NoTag /\ auth.mode = "required" -> "unsigned"
      [] tag # NoTag /\ auth.mode # "off"
           /\ \A i \in 1..Len(auth.secrets) : auth.secrets[i] # tag -> "bad_tag"
      [] OTHER -> "no"

\* The records whose member has the ID its address gives.
Genuine(message) == SelectSeq(message, LAMBDA r : r.true)

\* screen(): nothing if the sender's own record is false; else the records
\* that are true.
Screened(message) ==
    IF Head(message).true THEN Genuine(message) ELSE <<>>

----------------------------------------------------------------------------
\* run(): the setting is read once for a batch of datagrams.
MakeBatch(n) ==
    /\ n \notin stopped /\ batch[n] = 0
    /\ batch' = [batch EXCEPT ![n] = rung[n]]
    /\ UNCHANGED <<target, steps, rung, stopped, wire, outcome>>

\* send(): one datagram of the batch is sealed and handed over.
SendOne(n, to, message) ==
    /\ batch[n] # 0 /\ Cardinality(wire) < MaxFlight
    /\ wire' = wire \union
        {[to |-> to, tag |-> Seal(NewAuth(Ladder[batch[n]])), message |-> message]}
    /\ UNCHANGED <<target, steps, rung, batch, stopped, outcome>>

\* The batch is out, or its budget is spent.
EndBatch(n) ==
    /\ n \notin stopped /\ batch[n] # 0
    /\ batch' = [batch EXCEPT ![n] = 0]
    /\ UNCHANGED <<target, steps, rung, stopped, wire, outcome>>

\* The last Guard is gone: the news of the leave goes out under the setting
\* the task saw last, that of its last batch.
Stop(n) ==
    /\ stopped = {} /\ batch[n] # 0
    /\ stopped' = {n}
    /\ UNCHANGED <<target, steps, rung, batch, wire, outcome>>

\* receive(): opened with the setting of now, then screened.
Receive(d) ==
    /\ d \in wire
    /\ wire' = wire \ {d}
    /\ LET refused == Refusal(NewAuth(Ladder[rung[d.to]]), d.tag)
       IN  outcome' = [sent |-> d.message, refused |-> refused,
                       heard |-> IF refused = "no" THEN Screened(d.message) ELSE <<>>]
    /\ UNCHANGED <<target, steps, rung, batch, stopped>>

LoseDatagram(d) ==
    /\ d \in wire
    /\ wire' = wire \ {d}
    /\ UNCHANGED <<target, steps, rung, batch, stopped, outcome>>

\* Guard::set_gossip_auth, or the sidecar's reload_secrets: this node reaches
\* the rung.
Reach(n) ==
    /\ n \notin stopped /\ rung[n] # target
    /\ rung' = [rung EXCEPT ![n] = target]
    /\ UNCHANGED <<target, steps, batch, stopped, wire, outcome>>

\* External: the operator's next rung, up or back down, once every node has
\* reached this one and what was sealed before it has arrived or is lost.
NextRung(to) ==
    /\ steps < MaxSteps
    /\ to \in Neighbours(target) \ {target}
    /\ \A n \in Pods \ stopped : rung[n] = target /\ batch[n] \in {0, target}
    /\ stopped = {} /\ wire = {}
    /\ target' = to
    /\ steps' = steps + 1
    /\ UNCHANGED <<rung, batch, stopped, wire, outcome>>

AuthNext ==
    \/ \E n \in Pods :
        \/ MakeBatch(n) \/ EndBatch(n) \/ Stop(n) \/ Reach(n)
        \/ \E to \in Pods \ {n}, message \in Messages(n) : SendOne(n, to, message)
    \/ \E d \in wire : Receive(d) \/ LoseDatagram(d)
    \/ \E to \in Rungs : NextRung(to)

----------------------------------------------------------------------------
AuthTypeOK ==
    /\ target \in Rungs /\ steps \in 0..MaxSteps
    /\ rung \in [Pods -> Rungs]
    /\ batch \in [Pods -> Rungs \union {0}]
    /\ stopped \subseteq Pods
    /\ \A d \in wire : d.to \in Pods /\ d.tag \in Secrets \union {NoTag}

\* Every two nodes understand each other in every state of a rollout or a
\* rotation, its steps undone included: no datagram is refused
\* (guide/security.md: `unsigned` and `bad_tag` do not grow), and each brings
\* its sender's own record and all it passes on but the records under a
\* borrowed name (driver.rs, screen).
UnderstoodThroughout ==
    /\ AuthTypeOK
    /\ outcome.refused = "no"
    /\ outcome # Silent => outcome.heard = Genuine(outcome.sent)
=============================================================================
