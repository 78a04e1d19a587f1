----------------------------- MODULE DeniedKeys -----------------------------
(***************************************************************************)
(* The names of denied keys in the sidecar (src/rateguard-sidecar/src/     *)
(* denied.rs, and check in lib.rs): two tables, each with the stamp of an  *)
(* entry's last record and the stamps in the order given.  A refresh       *)
(* leaves the old stamp behind, stale; eviction skips the stale ones, and  *)
(* they are dropped together when they are half of the order.              *)
(***************************************************************************)
EXTENDS Naturals, Sequences, FiniteSets, Functions

CONSTANTS
    Hashes,         \* the keys denied
    Capacity,       \* the most names in a table
    MaxRecords      \* bound: denials

ASSUME CapacityAssumption == Capacity \in Nat \ {0}

VARIABLES
    real, shadow,   \* Recent: named (hash to stamp), order, next
    records

deniedVars == <<real, shadow, records>>

Recent == [named |-> <<>>, order |-> <<>>, next |-> 0]

DeniedInit == real = Recent /\ shadow = Recent /\ records = 0

\* An entry of the order whose key was neither refreshed nor taken out since.
Live(named, entry) == entry[1] \in DOMAIN named /\ named[entry[1]] = entry[2]

\* The entries of an order at some places, in their order.
At(order, places) ==
    [k \in 1..Cardinality(places) |->
        order[CHOOSE i \in places : Cardinality({j \in places : j <= i}) = k]]

\* Recent::compact
Compacted(r) ==
    IF Len(r.order) <= 2 * Capacity THEN r
    ELSE [r EXCEPT !.order = At(@, {i \in DOMAIN @ : Live(r.named, @[i])})]

Stamped(r, h) ==
    [named |-> [x \in DOMAIN r.named \union {h} |-> IF x = h THEN r.next ELSE r.named[x]],
     order |-> Append(r.order, <<h, r.next>>), next |-> r.next + 1]

\* Recent::refresh of a key that is here: the newest stays where it is.
Refreshed(r, h) ==
    IF r.order # <<>> /\ r.order[Len(r.order)] = <<h, r.named[h]>> THEN r
    ELSE Compacted(Stamped(r, h))

\* Mutant: an entry that comes up goes, refreshed since or not.
GoesStale(named, entry) == entry[1] \in DOMAIN named

Goes(named, entry) == Live(named, entry)

\* Recent::insert evicts while the table is full: up to the first entry of
\* the order that is not stale.
Evicted(r) ==
    IF Cardinality(DOMAIN r.named) < Capacity THEN r
    ELSE LET upTo == CHOOSE i \in DOMAIN r.order :
                        /\ Goes(r.named, r.order[i])
                        /\ \A j \in 1..i - 1 : ~Goes(r.named, r.order[j])
         IN  [r EXCEPT !.named = Restrict(@, DOMAIN @ \ {r.order[upTo][1]}),
                       !.order = SubSeq(@, upTo + 1, Len(@))]

Inserted(r, h) == Compacted(Stamped(Evicted(r), h))

Removed(r, h) == Compacted([r EXCEPT !.named = Restrict(@, DOMAIN @ \ {h})])

\* A check that denies, and one that only a shadow denies.
Record(h) ==
    /\ records < MaxRecords /\ records' = records + 1
    /\ IF h \in DOMAIN real.named
       THEN real' = Refreshed(real, h) /\ UNCHANGED shadow
       ELSE /\ shadow' = IF h \in DOMAIN shadow.named THEN Removed(shadow, h) ELSE shadow
            /\ real' = Inserted(real, h)

RecordShadow(h) ==
    /\ records < MaxRecords /\ records' = records + 1
    /\ UNCHANGED real
    /\ shadow' = IF h \in DOMAIN real.named THEN shadow
                 ELSE IF h \in DOMAIN shadow.named THEN Refreshed(shadow, h) ELSE Inserted(shadow, h)

\* The bound is reached.
DeniedOver == records = MaxRecords /\ UNCHANGED deniedVars

DeniedNext == (\E h \in Hashes : Record(h) \/ RecordShadow(h)) \/ DeniedOver

----------------------------------------------------------------------------
\* A name is never in both tables, and the orders do not outgrow them.
DeniedTypeOK ==
    /\ DOMAIN real.named \intersect DOMAIN shadow.named = {}
    /\ \A r \in {real, shadow} :
        /\ DOMAIN r.named \subseteq Hashes /\ Cardinality(DOMAIN r.named) <= Capacity
        /\ Len(r.order) <= 2 * Capacity
        /\ \A i \in DOMAIN r.order : r.order[i][1] \in Hashes /\ r.order[i][2] < r.next

\* The names of a table, the one recorded or refreshed longest ago first.
NamesOf(r) ==
    [k \in 1..Cardinality(DOMAIN r.named) |->
        CHOOSE h \in DOMAIN r.named :
            Cardinality({x \in DOMAIN r.named : r.named[x] <= r.named[h]}) = k]

LastDenied == INSTANCE RecentNames WITH denied <- NamesOf(real), tried <- NamesOf(shadow)

\* In each table, "past `capacity`, the entry recorded or refreshed longest ago
\* goes first" (denied.rs, DeniedKeys), whatever stale stamps the refreshes,
\* the moves from one table to the other and the compactions left in its
\* order; and those stamps never outgrow the table (DeniedTypeOK).
NamesTheLastDenied == LastDenied!Spec /\ []DeniedTypeOK
=============================================================================
