------------------------------- MODULE HotSet -------------------------------
(***************************************************************************)
(* The hot set of one node, rateguard-core/src/hot_set.rs, as a function   *)
(* from its keys to their entries.  The operators return the set after     *)
(* the call; what the Rust functions return is whether the key is in it.   *)
(***************************************************************************)
EXTENDS Integers, FiniteSets, Functions

CONSTANTS
    HotSetSize,          \* max_size
    Cooldown             \* how long a cooling key stays primary

ASSUME HotSetAssumption == HotSetSize \in Nat \ {0} /\ Cooldown \in Nat

NotCooling == -1         \* cooling_since: None

\* new(): no key is hot.
EmptyHotSet == <<>>

Without(hot, k) == Restrict(hot, DOMAIN hot \ {k})

\* insert()
Insert(hot, k, rate, primary, now) ==
    LET entry == [demand |-> rate, primary |-> primary, cooling |-> NotCooling, since |-> now]
    IN  [j \in DOMAIN hot \cup {k} |-> IF j = k THEN entry ELSE hot[j]]

\* weakest(): the least demand, the lowest key among equals.
Weakest(hot) ==
    CHOOSE k \in DOMAIN hot : \A j \in DOMAIN hot \ {k} :
        \/ hot[k].demand < hot[j].demand
        \/ hot[k].demand = hot[j].demand /\ k < j

\* Mutant: a newcomer as busy as the weakest key takes its place.
BeatsEqual(rate, weakest) == rate >= weakest

\* EVICTION_MARGIN: more by 10%.
Beats(rate, weakest) == 10 * rate > 11 * weakest

\* promote(): a full set gives the newcomer the place of its weakest key, if it
\* beats that key by the margin.
Promote(hot, k, rate, primary, now) ==
    LET weakest == Weakest(hot) IN
    IF k \in DOMAIN hot
    THEN [hot EXCEPT ![k].demand = rate, ![k].primary = primary, ![k].cooling = NotCooling]
    ELSE IF Cardinality(DOMAIN hot) < HotSetSize
    THEN Insert(hot, k, rate, primary, now)
    ELSE IF Beats(rate, hot[weakest].demand)
    THEN Insert(Without(hot, weakest), k, rate, primary, now)
    ELSE hot

\* cool(): a primary key counts down its cooldown, then is no longer primary.
Cool(hot, k, rate, now) ==
    LET e       == hot[k]
        expired == e.primary /\ e.cooling # NotCooling /\ now - e.cooling >= Cooldown
        starts  == e.primary /\ e.cooling = NotCooling
    IN  IF k \notin DOMAIN hot THEN hot
        ELSE [hot EXCEPT ![k].demand = rate,
                         ![k].primary = e.primary /\ ~expired,
                         ![k].cooling = IF starts THEN now
                                        ELSE IF expired THEN NotCooling ELSE e.cooling]

\* update_with(): above the threshold a key is primary; below it, it cools, and
\* then stays only while a peer holds it primary.
UpdateWith(hot, k, rate, threshold, now, elsewhere) ==
    LET cooled == Cool(hot, k, rate, now) IN
    IF rate > threshold THEN Promote(hot, k, rate, TRUE, now)
    ELSE IF k \in DOMAIN cooled
    THEN IF cooled[k].primary \/ elsewhere THEN cooled ELSE Without(cooled, k)
    ELSE IF elsewhere THEN Promote(cooled, k, rate, FALSE, now)
    ELSE cooled
=============================================================================
