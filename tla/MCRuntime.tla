----------------------------- MODULE MCRuntime -----------------------------
(***************************************************************************)
(* Four parts of the runtime around a node that keep no state of each      *)
(* other's: the names among the seeds, the background task's life, the     *)
(* sidecar's names of denied keys and the life of its process.  A          *)
(* behaviour runs one of them while the others rest.                       *)
(***************************************************************************)
EXTENDS Names, Lifecycle, DeniedKeys, Serving

CONSTANTS h1, h2

VARIABLE part

TwoHosts == {h1, h2}

Parts == {"names", "life", "denied", "serving"}

Init ==
    /\ part \in Parts
    /\ NamesInit /\ (hosts # {} <=> part = "names") /\ (part # "names" => kept = {})
    /\ LifeInit
    /\ DeniedInit
    /\ ServingInit

vars == <<part, namesVars, lifeVars, deniedVars, servingVars>>

Next ==
    \/ part = "names" /\ NamesNext /\ UNCHANGED <<part, lifeVars, deniedVars, servingVars>>
    \/ part = "life" /\ LifeNext /\ UNCHANGED <<part, namesVars, deniedVars, servingVars>>
    \/ part = "denied" /\ DeniedNext /\ UNCHANGED <<part, namesVars, lifeVars, servingVars>>
    \/ part = "serving" /\ ServingNext /\ UNCHANGED <<part, namesVars, lifeVars, deniedVars>>

\* At rest, with no names and no caller, neither fairness asks for anything.
Spec == Init /\ [][Next]_vars /\ NamesFairness /\ LifeFairness
=============================================================================
