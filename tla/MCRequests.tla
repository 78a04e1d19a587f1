----------------------------- MODULE MCRequests -----------------------------
(***************************************************************************)
(* What the callers of a Guard share with its background task: the key     *)
(* table, the counts and the shadows in it, the tables of limits and the   *)
(* setting gossip is signed by; the settings and texts these are made      *)
(* from; and the simulator the nodes are tested in.  A behaviour runs one  *)
(* of them while the others rest.                                          *)
(***************************************************************************)
EXTENDS MCKeyTable, Tariffs, GossipAuth, MCSidecar, Sim, Counting, Shadow

VARIABLE part

\* guide/security.md: signing turned on, and the secret then rotated.
GuideLadder ==
    << Setting("off", <<"A">>), Setting("transitional", <<"A">>), Setting("required", <<"A">>),
       Setting("required", <<"A", "B">>), Setting("required", <<"B", "A">>),
       Setting("required", <<"B">>) >>

One == Limit(1, 1)
Two == Limit(2, 2)

\* One key of the default class, one of a named class.
ClassOfKey == ("k" :> "") @@ ("g" :> "gold")

\* Each setter of Guard, with room for one class and one key limit: some are
\* refused.
EachChange ==
    { [op |-> "set_class", name |-> "gold", limit |-> Two],
      [op |-> "set_class", name |-> "pro", limit |-> One],
      [op |-> "remove_class", name |-> "gold"],
      [op |-> "set_limit", limit |-> Two],
      [op |-> "set_classes", named |-> ("pro" :> Two)],
      [op |-> "set_shadow", name |-> "gold", limit |-> One],
      [op |-> "set_shadows", shadows |-> ("" :> Two)],
      [op |-> "set_shadows", shadows |-> <<>>],
      [op |-> "set_key_limit", key |-> "k", entry |-> AsClass("gold")],
      [op |-> "set_key_limit", key |-> "g", entry |-> Own(One)],
      [op |-> "remove_key_limit", key |-> "k"],
      [op |-> "set_key_limits", entries |-> <<>>],
      [op |-> "set_key_limits", entries |-> ("k" :> Own(Two))] }

\* Limits of a simulated key, no one of them the widest.
WideBurst == <<1, 2>>
NarrowBursts == {<<2, 1>>, <<1, 1>>}

\* Two quotas, neither the looser.
Slow == [interval |-> 2, burst |-> 1]
Quick == [interval |-> 1, burst |-> 2]
SlowAndQuick == {Slow, Quick}

RequestsInit ==
    /\ part \in {"table", "tariffs", "auth", "sim", "counts", "shadow"}
    /\ Init
    /\ TariffsInit /\ classes.default = One
    /\ AuthInit /\ (part # "auth" => target = 1)
    /\ SimInit
    /\ CountingInit /\ ShadowInit

requestVars == <<part, vars, tariffVars, authVars, simVars, countingVars, shadowVars>>

RequestsNext ==
    \/ /\ part = "table" /\ Next
       /\ UNCHANGED <<part, tariffVars, authVars, simVars, countingVars, shadowVars>>
    \/ /\ part = "tariffs" /\ TariffsNext
       /\ UNCHANGED <<part, vars, authVars, simVars, countingVars, shadowVars>>
    \/ /\ part = "auth" /\ AuthNext
       /\ UNCHANGED <<part, vars, tariffVars, simVars, countingVars, shadowVars>>
    \/ /\ part = "sim" /\ SimNext
       /\ UNCHANGED <<part, vars, tariffVars, authVars, countingVars, shadowVars>>
    \/ /\ part = "counts" /\ CountingNext
       /\ UNCHANGED <<part, vars, tariffVars, authVars, simVars, shadowVars>>
    \/ /\ part = "shadow" /\ ShadowNext
       /\ UNCHANGED <<part, vars, tariffVars, authVars, simVars, countingVars>>

RequestsSpec == RequestsInit /\ [][RequestsNext]_requestVars
=============================================================================
