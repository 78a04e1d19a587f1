------------------------------- MODULE MCSwim -------------------------------
(***************************************************************************)
(* Small clusters of Swim.                                                 *)
(***************************************************************************)
EXTENDS Swim

EveryoneSeeds == [n \in Nodes |-> Nodes \ {n}]

\* The others join through the first.
StarSeeds == [n \in Nodes |-> {1} \ {n}]

Faulty(suspect, lose, duplicate, crash, leave) ==
    [suspect |-> suspect, lose |-> lose, duplicate |-> duplicate,
     crash |-> crash, leave |-> leave]

\* Every node there from the start, with all of the budget.
AllUp == {[phase |-> [n \in Nodes |-> "up"], used |-> [f \in Faults |-> 0]]}

\* A pair with the budget to fail, or three nodes joining with none of it.
HealingOrJoining ==
    {[phase |-> [n \in Nodes |-> IF n = 3 THEN "absent" ELSE "up"],
       used |-> [f \in Faults |-> 0]]} \cup {[phase |-> [n \in Nodes |-> "up"], used |-> Budget]}

SafetyBudget == Faulty(1, 1, 1, 0, 1)
HealingBudget == Faulty(1, 0, 0, 1, 1)
StaleLeaveBudget == Faulty(1, 0, 0, 0, 1)
=============================================================================
