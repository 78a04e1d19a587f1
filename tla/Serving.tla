------------------------------ MODULE Serving ------------------------------
(***************************************************************************)
(* One life of the sidecar's process (src/rateguard-sidecar/src/main.rs):  *)
(* it starts its node, serves checks, and on a signal leaves the cluster,  *)
(* answers at the floor while the service next to it drains, and stops.    *)
(***************************************************************************)
EXTENDS Naturals

CONSTANTS
    Drain,          \* --drain, in units of time
    ServiceDrain,   \* how long the service drains once it got the signal
    MaxSignals,     \* bound: signals sent
    MaxInFlight     \* bound: checks under way at once

ASSUME DrainAssumption == Drain \in Nat /\ ServiceDrain \in Nat

VARIABLES
    proc,           \* where main() is
    node,           \* "none", "member", "left", or "gone" without a word
    listening,      \* whether a check is accepted
    inFlight,       \* the checks under way
    drained,        \* how long the sidecar has drained
    signals,        \* the signals sent so far
    cut,            \* whether one of them cut the drain short
    service         \* how long the service still asks; it got the signal too

servingVars == <<proc, node, listening, inFlight, drained, signals, cut, service>>

ServingInit ==
    /\ proc = "starting" /\ node = "none" /\ listening = FALSE /\ inFlight = 0
    /\ drained = 0 /\ signals = 0 /\ cut = FALSE /\ service = ServiceDrain

\* run(): the node, the listener, and the one for health and metrics; what
\* fails ends the process with what it had.
SpawnNode ==
    /\ proc = "starting"
    /\ proc' = "bind" /\ node' = "member"
    /\ UNCHANGED <<listening, inFlight, drained, signals, cut, service>>

Bind ==
    /\ proc = "bind"
    /\ proc' = "serving" /\ listening' = TRUE
    /\ UNCHANGED <<node, inFlight, drained, signals, cut, service>>

FailToStart ==
    /\ proc \in {"starting", "bind"}
    /\ proc' = "failed"
    /\ node' = IF node = "member" THEN "gone" ELSE node
    /\ UNCHANGED <<listening, inFlight, drained, signals, cut, service>>

Accept ==
    /\ listening /\ inFlight < MaxInFlight
    /\ inFlight' = inFlight + 1
    /\ UNCHANGED <<proc, node, listening, drained, signals, cut, service>>

Answered ==
    /\ inFlight > 0
    /\ inFlight' = inFlight - 1
    /\ UNCHANGED <<proc, node, listening, drained, signals, cut, service>>

\* SIGTERM or Ctrl-C.  Before anything waits for one the process just ends;
\* one that arrives while nothing waits is missed.
Signal ==
    /\ signals < MaxSignals /\ proc \notin {"failed", "over"}
    /\ signals' = signals + 1
    /\ proc' = CASE proc \in {"starting", "bind"} -> "failed"
                 [] proc = "serving" -> "leaving"
                 [] proc = "draining" -> "stopping"
                 [] OTHER -> proc
    /\ node' = IF proc = "bind" THEN "gone" ELSE node
    /\ cut' = (cut \/ proc = "draining")
    /\ UNCHANGED <<listening, inFlight, drained, service>>

\* Mutant: the node has left, so nobody is served any more.
LeaveSkipsDrain ==
    /\ proc = "leaving"
    /\ node' = "left"
    /\ proc' = "stopping"
    /\ UNCHANGED <<listening, inFlight, drained, signals, cut, service>>

\* guard.leave() returns (module Lifecycle, CallsReturn).
LeaveReturns ==
    /\ proc = "leaving"
    /\ node' = "left"
    /\ proc' = "draining"
    /\ UNCHANGED <<listening, inFlight, drained, signals, cut, service>>

DrainOver ==
    /\ proc = "draining" /\ drained = Drain
    /\ proc' = "stopping"
    /\ UNCHANGED <<node, listening, inFlight, drained, signals, cut, service>>

\* with_graceful_shutdown: no new check, those under way are answered.
StopListening ==
    /\ proc = "stopping" /\ listening
    /\ listening' = FALSE
    /\ UNCHANGED <<proc, node, inFlight, drained, signals, cut, service>>

End ==
    /\ proc = "stopping" /\ ~listening /\ inFlight = 0
    /\ proc' = "over"
    /\ UNCHANGED <<node, listening, inFlight, drained, signals, cut, service>>

\* A unit of time.  A timer that is due fires before the next one.
Elapse ==
    /\ proc \in {"leaving", "draining", "stopping"}
    /\ proc = "draining" => drained < Drain
    /\ drained' = IF proc = "draining" THEN drained + 1 ELSE drained
    /\ service' = IF service > 0 THEN service - 1 ELSE 0
    /\ service' # service \/ drained' # drained
    /\ UNCHANGED <<proc, node, listening, inFlight, signals, cut>>

Ended == proc \in {"over", "failed"} /\ UNCHANGED servingVars

ServingNext ==
    \/ SpawnNode \/ Bind \/ FailToStart \/ Accept \/ Answered \/ Signal
    \/ LeaveReturns \/ DrainOver \/ StopListening \/ End \/ Elapse \/ Ended

----------------------------------------------------------------------------
\* From the signal on, a service that drains no longer than the sidecar finds
\* someone to ask until it is done, unless a second signal cut the drain
\* short, and the peers were told before the sidecar stops answering and no
\* check is left without its answer (main.rs: "they are still checked, at the
\* floor, rather than let through by a client that finds nobody to ask").
ServedToTheEnd ==
    /\ proc \in {"leaving", "draining", "stopping", "over"} /\ service > 0 => listening \/ cut
    /\ proc \in {"draining", "stopping", "over"} => node = "left"
    /\ proc = "over" => inFlight = 0
=============================================================================
