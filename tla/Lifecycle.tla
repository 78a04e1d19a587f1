----------------------------- MODULE Lifecycle -----------------------------
(***************************************************************************)
(* The background task of one node against the Guards that use it          *)
(* (src/rateguard/src/driver.rs run, watch and hold_at_floor; guard.rs     *)
(* fresh_quota, leave and key_stats): its loop and its sends, its end when *)
(* asked to leave, when the last Guard is gone or when it panics, and the  *)
(* quotas left in the key table when no tick will ever set them again.     *)
(***************************************************************************)
EXTENDS Naturals, Sequences

CONSTANTS
    Callers,        \* the threads that hold a Guard each
    Slotted,        \* keys, each with a slot of its own to take
    Free            \* nobody holds the slot

\* What a quota is sized from: the node's share of the limit, or the floor a
\* cluster leaves to a member it does not count.
Sizes == {"share", "floor"}

ASSUME FreeAssumption == Free \notin Sizes

VARIABLES
    task,       \* where the background task is
    panicked,
    asked,      \* the callers whose request to leave the task took: one at most
    leaveQ, queryQ,     \* the channels to the task, and those who wait for room
    running,    \* Shared::running
    peers,      \* whether the peers count this node
    factor,     \* Shared::fresh_factor
    free,       \* the quota of the slots nobody holds
    slot,       \* each key's quota, or Free
    guards,     \* the callers that still hold their Guard
    caller,     \* what each of them is at
    raced       \* history: keys sized from a factor read before hold_at_floor

taskVars == <<task, panicked, asked, running, peers>>
queues == <<leaveQ, queryQ>>
quotas == <<factor, free, slot>>
lifeVars == <<taskVars, queues, quotas, guards, caller, raced>>

AtRest == [at |-> "idle"]
TaskPlaces == {"select", "send", "hold", "hold_keys", "hold_free", "leave", "gone"}

LifeInit ==
    /\ task = "select" /\ panicked = FALSE /\ asked = {}
    /\ leaveQ = <<>> /\ queryQ = <<>>
    /\ running = TRUE /\ peers = "count"
    /\ factor = "share" /\ free = "share"
    /\ slot = [k \in Slotted |-> Free]
    /\ guards = Callers
    /\ caller = [c \in Callers |-> AtRest]
    /\ raced = {}

\* The channels have no receiver: the task has returned or panicked.
Deaf == task = "gone" \/ panicked

Goto(c, at) == caller' = [caller EXCEPT ![c] = [at |-> at]]
Sized(k) == slot[k] # Free
Settles(k) == \E c \in Callers : caller[c].at \in {"size", "set"} /\ caller[c].key = k

----------------------------------------------------------------------------
\* The loop of run(): one branch of the select, then the batch is sent.

Datagram ==
    /\ task = "select" /\ guards # {}
    /\ task' = "send"
    /\ UNCHANGED <<panicked, asked, running, peers, queues, quotas, guards, caller, raced>>

\* sync(): every key's quota is set again, and a slot the node knows nothing of
\* is freed unless a check is at it.
TickTask ==
    /\ task = "select" /\ guards # {}
    /\ \E freed \in SUBSET {k \in Slotted : ~Settles(k)} :
        slot' = [k \in Slotted |-> IF Sized(k) /\ k \notin freed THEN "share" ELSE Free]
    /\ factor' = "share" /\ free' = "share"
    /\ task' = "send"
    /\ UNCHANGED <<panicked, asked, running, peers, queues, guards, caller, raced>>

AnswerQuery ==
    /\ task = "select" /\ queryQ # <<>>
    /\ Goto(Head(queryQ), "idle")
    /\ queryQ' = Tail(queryQ)
    /\ task' = "send"
    /\ UNCHANGED <<panicked, asked, running, peers, leaveQ, quotas, guards, raced>>

\* send(): the batch leaves, or its budget of one tick is spent.
Sent ==
    /\ task = "send"
    /\ task' = "select"
    /\ UNCHANGED <<panicked, asked, running, peers, queues, quotas, guards, caller, raced>>

\* A request to leave ends the loop.
TakeLeave ==
    /\ task = "select" /\ leaveQ # <<>>
    /\ asked' = {Head(leaveQ)}
    /\ leaveQ' = Tail(leaveQ)
    /\ task' = "hold"
    /\ UNCHANGED <<panicked, running, peers, queryQ, quotas, guards, caller, raced>>

\* The last Guard is gone, and the shared state with it: nothing to hold.
NoticeGone ==
    /\ task \in {"select", "hold", "hold_keys", "hold_free"} /\ guards = {}
    /\ task' = IF panicked THEN "gone" ELSE "leave"
    /\ UNCHANGED <<panicked, asked, running, peers, queues, quotas, guards, caller, raced>>

\* A bug: the channels go with the task, watch() takes over.
PanicTask ==
    /\ task \in {"select", "send"}
    /\ panicked' = TRUE
    /\ task' = "hold"
    /\ leaveQ' = <<>> /\ queryQ' = <<>>
    /\ UNCHANGED <<asked, running, peers, quotas, guards, caller, raced>>

----------------------------------------------------------------------------
\* Mutant: keys not seen yet keep the share.
HoldNoFactor ==
    /\ task = "hold" /\ guards # {}
    /\ task' = "hold_keys"
    /\ UNCHANGED <<panicked, asked, running, peers, queues, quotas, guards, caller, raced>>

\* hold_at_floor(): keys not seen yet, then those in the table, then free slots.
HoldFactor ==
    /\ task = "hold" /\ guards # {}
    /\ factor' = "floor"
    /\ task' = "hold_keys"
    /\ UNCHANGED <<panicked, asked, running, peers, queues, free, slot, guards, caller, raced>>

HoldKeys ==
    /\ task = "hold_keys" /\ guards # {}
    /\ slot' = [k \in Slotted |-> IF Sized(k) THEN "floor" ELSE Free]
    /\ raced' = {}
    /\ task' = "hold_free"
    /\ UNCHANGED <<panicked, asked, running, peers, queues, factor, free, guards, caller>>

HoldFree ==
    /\ task = "hold_free" /\ guards # {}
    /\ free' = "floor"
    /\ running' = FALSE
    /\ task' = IF panicked THEN "gone" ELSE "leave"
    /\ UNCHANGED <<panicked, asked, peers, queues, factor, slot, guards, caller, raced>>

\* Node::leave and send(): the news is on its way, or the budget is spent and
\* the peers find the node dead later.  Then the caller is told, and the
\* channels close.
LeaveCluster ==
    /\ task = "leave"
    /\ peers' \in {peers, "told"}
    /\ caller' = [c \in Callers |-> IF c \in asked THEN AtRest ELSE caller[c]]
    /\ leaveQ' = <<>> /\ queryQ' = <<>>
    /\ task' = "gone"
    /\ UNCHANGED <<panicked, asked, running, quotas, guards, raced>>

\* A task that is gone sends no more: the peers find the node dead, long after
\* watch() has had its turn.
PeersBury ==
    /\ task = "gone" /\ peers = "count"
    /\ peers' = "told"
    /\ UNCHANGED <<task, panicked, asked, running, queues, quotas, guards, caller, raced>>

----------------------------------------------------------------------------
\* Guard::leave and Guard::key_stats.  A caller waits its turn for room in the
\* channel, and in it: either way first come, first served.
CallLeave(c) ==
    /\ c \in guards /\ caller[c].at = "idle"
    /\ leaveQ' = IF Deaf THEN <<>> ELSE Append(leaveQ, c)
    /\ Goto(c, "leaving")
    /\ UNCHANGED <<taskVars, queryQ, quotas, guards, raced>>

CallStats(c) ==
    /\ c \in guards /\ caller[c].at = "idle"
    /\ queryQ' = IF Deaf THEN <<>> ELSE Append(queryQ, c)
    /\ Goto(c, "asking")
    /\ UNCHANGED <<taskVars, leaveQ, quotas, guards, raced>>

\* Mutant: the other end of an answer outlives a task that panics.
CallFailsAtEnd(c) ==
    /\ caller[c].at \in {"leaving", "asking"} /\ Deaf /\ ~panicked
    /\ Goto(c, "idle")
    /\ UNCHANGED <<taskVars, queues, quotas, guards, raced>>

\* The channel, or the one the answer would come by, has lost its other end.
CallFails(c) ==
    /\ caller[c].at \in {"leaving", "asking"} /\ Deaf
    /\ Goto(c, "idle")
    /\ UNCHANGED <<taskVars, queues, quotas, guards, raced>>

\* check_hashed(): a key takes its first slot ...
TakeSlot(c, k) ==
    /\ c \in guards /\ caller[c].at = "idle" /\ slot[k] = Free
    /\ slot' = [slot EXCEPT ![k] = free]
    /\ caller' = [caller EXCEPT ![c] = [at |-> "size", key |-> k]]
    /\ UNCHANGED <<taskVars, queues, factor, free, guards, raced>>

\* ... reads fresh_factor ...
ReadFactor(c) ==
    /\ caller[c].at = "size"
    /\ caller' = [caller EXCEPT ![c] =
                    [at |-> "set", key |-> @.key, size |-> factor,
                     held |-> task \notin {"select", "send", "hold"}]]
    /\ UNCHANGED <<taskVars, queues, quotas, guards, raced>>

\* ... and sets the slot's quota.
SetQuota(c) ==
    /\ caller[c].at = "set"
    /\ LET k == caller[c].key
       IN  /\ slot' = [slot EXCEPT ![k] = caller[c].size]
           /\ raced' = IF caller[c].held THEN raced \ {k} ELSE raced \union {k}
    /\ Goto(c, "idle")
    /\ UNCHANGED <<taskVars, queues, factor, free, guards>>

DropGuard(c) ==
    /\ c \in guards /\ caller[c].at = "idle"
    /\ guards' = guards \ {c}
    /\ UNCHANGED <<taskVars, queues, quotas, caller, raced>>

\* The node has left and nobody holds it: it really stops.
Over ==
    /\ task = "gone" /\ guards = {} /\ peers = "told"
    /\ UNCHANGED lifeVars

LifeNext ==
    \/ Datagram \/ TickTask \/ AnswerQuery \/ Sent \/ TakeLeave \/ NoticeGone \/ PanicTask
    \/ HoldFactor \/ HoldKeys \/ HoldFree \/ LeaveCluster \/ PeersBury \/ Over
    \/ \E c \in Callers :
        \/ CallLeave(c) \/ CallStats(c) \/ CallFails(c)
        \/ \E k \in Slotted : TakeSlot(c, k)
        \/ ReadFactor(c) \/ SetQuota(c) \/ DropGuard(c)

\* Budgets and timers end; tokio's select picks among the ready branches by
\* chance, so one ready again and again is taken.
LifeFairness ==
    /\ WF_lifeVars(Sent) /\ WF_lifeVars(HoldFactor) /\ WF_lifeVars(HoldKeys)
    /\ WF_lifeVars(HoldFree) /\ WF_lifeVars(LeaveCluster) /\ WF_lifeVars(NoticeGone)
    /\ SF_lifeVars(TakeLeave) /\ SF_lifeVars(AnswerQuery)
    /\ \A c \in Callers : WF_lifeVars(CallFails(c))

----------------------------------------------------------------------------
LifeTypeOK ==
    /\ task \in TaskPlaces
    /\ factor \in Sizes /\ free \in Sizes
    /\ slot \in [Slotted -> Sizes \union {Free}]
    /\ leaveQ \in Seq(Callers) /\ queryQ \in Seq(Callers)
    /\ guards \subseteq Callers /\ raced \subseteq Slotted

\* From the moment the peers no longer count this node, or it says it does not
\* run, no key is held to the share they have taken over: whatever the way the
\* task ended, no tick will lower it later (driver.rs, watch, hold_at_floor).
\* A key whose first check read the factor before hold_at_floor stored it and
\* sets its quota after the sweep is not covered: it keeps the share for good.
FloorOnceGone ==
    guards # {} /\ (peers = "told" \/ ~running) =>
        \A k \in Slotted : slot[k] = "share" => k \in raced \/ Settles(k)

\* Guard::leave and Guard::key_stats return, on a hung transport, in a race
\* with another caller's leave, with the last Guard's drop and with a panic
\* ("never a wait for a task that is not there", guard.rs), and the task ends
\* once the last Guard is gone (driver.rs, run).
CallsReturn ==
    /\ \A c \in Callers :
        caller[c].at \in {"leaving", "asking"} ~> caller[c].at = "idle"
    /\ guards = {} ~> task = "gone"
=============================================================================
