------------------------------- MODULE MCNode -------------------------------
(***************************************************************************)
(* Four parts of a node that read each other's results but not each        *)
(* other's state: the partition policy, the shares, the probes and their   *)
(* order.  A behaviour runs one of them, on three nodes, two, three and    *)
(* four, while the others rest.                                            *)
(***************************************************************************)
EXTENDS Policy, Shares, Probe, ProbeOrder

VARIABLE part

Scenario(p, met, who, s, r) ==
    [policy |-> p, formed |-> met, followed |-> who, troubles |-> s, refuses |-> r]

NobodyActs == Scenario("optimistic", FALSE, {}, 0, FALSE)

AllScenarios ==
    { NobodyActs,
      Scenario("quorum", TRUE, {1, 2}, 3, FALSE),
      Scenario("quorum", FALSE, {1}, 2, TRUE),
      Scenario("hold_down", FALSE, {1}, 2, FALSE),
      Scenario("optimistic", FALSE, {1}, 1, TRUE) }

\* A fourth node comes up after the founders have met.
NewcomerScenario == {NobodyActs, Scenario("quorum", TRUE, {1, 2}, 3, FALSE)}

SeqBounds == <<2, 1, 2>>

Init ==
    /\ part \in {"policy", "shares", "probe", "order"}
    /\ PolicyInit /\ (start = NobodyActs <=> part # "policy")
    /\ SharesInit
    /\ ProbeInit /\ (part # "probe" => weather = "cut")
    /\ OrderInit

vars == <<part, policyVars, sharesVars, probeVars, orderVars>>

Next ==
    \/ part = "policy" /\ PolicyNext /\ UNCHANGED <<part, sharesVars, probeVars, orderVars>>
    \/ part = "shares" /\ SharesNext /\ UNCHANGED <<part, policyVars, probeVars, orderVars>>
    \/ part = "probe" /\ ProbeNext /\ UNCHANGED <<part, policyVars, sharesVars, orderVars>>
    \/ part = "order" /\ OrderNext /\ UNCHANGED <<part, policyVars, sharesVars, probeVars>>

Spec == Init /\ [][Next]_vars
FairSpec == Spec /\ PolicyFairness

\* Every part's state is of its type, and the member table keeps the contract
\* of a Membership (ProbeOrder).
PartsKept == PolicyTypeOK /\ SharesTypeOK /\ ProbeTypeOK /\ ContractKept
=============================================================================
