------------------------------ MODULE Tariffs ------------------------------
(***************************************************************************)
(* The classes of limits and the limits of single keys of one node         *)
(* (src/rateguard/src/classes.rs, key_limits.rs).  A change copies the     *)
(* table under the writer's lock, edits the copy and swaps it in; a new    *)
(* key's check reads the default class from two atomics, two flags without *)
(* a lock, and the tables only when a flag says so, while changes go on.   *)
(***************************************************************************)
EXTENDS Naturals, FiniteSets, Functions

CONSTANTS
    ClassNames,         \* the names of classes
    DefaultClass,        \* the default class, named "" and hashed to 0
    TheKeys,        \* the keys, each of one class
    KeyClass,       \* the class a key is checked in
    Rates,          \* limits are [rate, burst] of these
    MaxClasses,     \* Builder::max_classes
    MaxKeyLimits,   \* Builder::max_key_limits
    Changes,        \* the changes that are made
    MaxChanges,     \* bound: how many
    Editors,        \* the threads that make them
    NoLimit         \* no shadow

Limit(r, b) == [rate |-> r, burst |-> b]
LimitValues == [rate : Rates, burst : Rates]

\* KeyLimit: a limit of its own, or that of a class.
Own(limit) == [of |-> "limit", limit |-> limit]
AsClass(name) == [of |-> "class", name |-> name]

\* Tables by class name, and by key.
Tables(names, values) == UNION {[S -> values] : S \in SUBSET names}
NamedTables == Tables(ClassNames, LimitValues)
ShadowTables == Tables(ClassNames \union {DefaultClass}, LimitValues)
Entries == {Own(l) : l \in LimitValues} \union
           {AsClass(n) : n \in ClassNames \union {DefaultClass}}
KeyLimitTables == Tables(TheKeys, Entries)

\* What the setters of Guard are given; they refuse a class named "".
ASSUME ChangesAssumption ==
    \A c \in Changes :
        \/ c.op \in {"set_class", "set_limit"} /\ c.limit \in LimitValues
           /\ (c.op = "set_class" => c.name \in ClassNames)
        \/ c.op = "remove_class"
        \/ c.op = "set_classes" /\ c.named \in NamedTables /\ IsFiniteSet(DOMAIN c.named)
        \/ c.op = "set_shadow" /\ c.limit \in LimitValues \union {NoLimit}
        \/ c.op = "set_shadows" /\ c.shadows \in ShadowTables
        \/ c.op = "set_key_limit" /\ c.key \in TheKeys /\ c.entry \in Entries
        \/ c.op = "remove_key_limit"
        \/ c.op = "set_key_limits" /\ c.entries \in KeyLimitTables /\ IsFiniteSet(DOMAIN c.entries)

ASSUME SizesAssumption ==
    /\ MaxClasses \in Nat /\ MaxKeyLimits \in Nat
    /\ DefaultClass \notin ClassNames
    /\ NoLimit \notin LimitValues

Without(f, x) == Restrict(f, DOMAIN f \ {x})
With(f, x, v) == [y \in DOMAIN f \union {x} |-> IF y = x THEN v ELSE f[y]]

VARIABLES
    classes,    \* Classes::table: default, named and shadows
    atomics,    \* default_rate, default_burst, has_shadows
    keyLimits,  \* KeyLimits::table
    count,      \* KeyLimits::count
    edits,      \* what each editor is at
    made,       \* how many changes were begun
    classSpec, limitSpec,   \* specs: the changes one after another, each as it was swapped in
    check,      \* a new key's check, by its steps
    seenClasses, seenLimits \* specs: the tables current at some moment of the check

tables == <<classes, atomics, keyLimits, count>>
specs == <<classSpec, limitSpec>>
firstCheckVars == <<check, seenClasses, seenLimits>>
tariffVars == <<tables, edits, made, specs, firstCheckVars>>

----------------------------------------------------------------------------
\* Table::lookup and Table::resolve: the limit of a slot and its shadow.
ClassFound(table, class) == class = DefaultClass \/ class \in DOMAIN table.named

LookUp(table, class) ==
    IF class # DefaultClass /\ class \in DOMAIN table.named
    THEN table.named[class] ELSE table.default

ShadowOf(table, class) ==
    LET of == IF ClassFound(table, class) THEN class ELSE DefaultClass
    IN  IF of \in DOMAIN table.shadows THEN table.shadows[of] ELSE NoLimit

Resolve(table, overrides, key) ==
    LET given == key \in DOMAIN overrides
        class == IF given /\ overrides[key].of = "class" THEN overrides[key].name ELSE KeyClass[key]
    IN  IF given /\ overrides[key].of = "limit"
        THEN [limit |-> overrides[key].limit, shadow |-> NoLimit]
        ELSE [limit |-> LookUp(table, class), shadow |-> ShadowOf(table, class)]

----------------------------------------------------------------------------
\* The edits.  One that is refused leaves the table as it is.
SetClass(table, name, limit) ==
    IF name \notin DOMAIN table.named /\ Cardinality(DOMAIN table.named) = MaxClasses
    THEN table
    ELSE [table EXCEPT !.named = With(@, name, limit)]

RemoveClass(table, name) ==
    IF name \in DOMAIN table.named
    THEN [table EXCEPT !.named = Without(@, name), !.shadows = Without(@, name)]
    ELSE table

SetDefault(table, limit) == [table EXCEPT !.default = limit]

\* All or nothing: those left out go with their shadows.
ReplaceClasses(table, named) ==
    IF Cardinality(DOMAIN named) > MaxClasses
    THEN table
    ELSE [table EXCEPT !.named = named,
                       !.shadows = Restrict(@, DOMAIN @ \intersect (DOMAIN named \union {DefaultClass}))]

SetShadow(table, name, limit) ==
    IF ~ClassFound(table, name) THEN table
    ELSE [table EXCEPT !.shadows = IF limit = NoLimit THEN Without(@, name)
                                   ELSE With(@, name, limit)]

ReplaceShadows(table, shadows) ==
    IF \A name \in DOMAIN shadows : ClassFound(table, name)
    THEN [table EXCEPT !.shadows = shadows] ELSE table

SetKeyLimit(table, key, entry) ==
    IF key \notin DOMAIN table /\ Cardinality(DOMAIN table) = MaxKeyLimits
    THEN table ELSE With(table, key, entry)

RemoveKeyLimit(table, key) == Without(table, key)

ReplaceKeyLimits(table, entries) ==
    IF Cardinality(DOMAIN entries) > MaxKeyLimits THEN table ELSE entries

ClassEdit(c, table) ==
    CASE c.op = "set_class" -> SetClass(table, c.name, c.limit)
      [] c.op = "remove_class" -> RemoveClass(table, c.name)
      [] c.op = "set_limit" -> SetDefault(table, c.limit)
      [] c.op = "set_classes" -> ReplaceClasses(table, c.named)
      [] c.op = "set_shadow" -> SetShadow(table, c.name, c.limit)
      [] c.op = "set_shadows" -> ReplaceShadows(table, c.shadows)

KeyLimitEdit(c, table) ==
    CASE c.op = "set_key_limit" -> SetKeyLimit(table, c.key, c.entry)
      [] c.op = "remove_key_limit" -> RemoveKeyLimit(table, c.key)
      [] c.op = "set_key_limits" -> ReplaceKeyLimits(table, c.entries)

OfClasses(c) == c.op \notin {"set_key_limit", "remove_key_limit", "set_key_limits"}

----------------------------------------------------------------------------
NoChange == [at |-> "idle"]
NoAnswer == [limit |-> NoLimit, shadow |-> NoLimit]
NoCheck == [at |-> "idle"]

TariffsInit ==
    /\ \E l \in LimitValues :
        classes = [default |-> l, named |-> <<>>, shadows |-> <<>>]
    /\ atomics = [rate |-> classes.default.rate, burst |-> classes.default.burst, shadows |-> FALSE]
    /\ keyLimits = <<>> /\ count = 0
    /\ edits = [e \in Editors |-> NoChange]
    /\ made = 0
    /\ classSpec = classes /\ limitSpec = keyLimits
    /\ check = NoCheck
    /\ seenClasses = {} /\ seenLimits = {}

\* What a check sees as current: the table, and one that is being swapped in.
Swapping(e) == edits[e].at \in {"store_burst", "store_shadows", "swap"}
ClassesNow ==
    {classes} \union {edits[e].copy : e \in {x \in Editors : Swapping(x) /\ OfClasses(edits[x].change)}}
LimitsNow ==
    {keyLimits} \union {edits[e].copy : e \in {x \in Editors : Swapping(x) /\ ~OfClasses(edits[x].change)}}
\* Last in every action: what the check at hand finds current after the step.
Notice ==
    /\ seenClasses' = IF check'.at = "idle" THEN {} ELSE seenClasses \union ClassesNow'
    /\ seenLimits' = IF check'.at = "idle" THEN {} ELSE seenLimits \union LimitsNow'

\* Mutant: the copy is made before the lock is taken.
WriterAny(ofClasses) ==
    ~\E e \in Editors : Swapping(e) /\ OfClasses(edits[e].change) = ofClasses

\* The writers' locks, one of each table.
WriterFree(ofClasses) ==
    ~\E e \in Editors : edits[e].at # "idle" /\ OfClasses(edits[e].change) = ofClasses

\* change(): the copy and the edit, under the writer's lock.  An edit that is
\* refused, or has nothing to do, swaps nothing.
Begin(e, c) ==
    /\ edits[e].at = "idle" /\ made < MaxChanges
    /\ WriterFree(OfClasses(c))
    /\ LET table == IF OfClasses(c) THEN classes ELSE keyLimits
           copy == IF OfClasses(c) THEN ClassEdit(c, table) ELSE KeyLimitEdit(c, table)
       IN  edits' = [edits EXCEPT ![e] =
                        IF copy = table THEN NoChange
                        ELSE [at |-> "store", change |-> c, copy |-> copy]]
    /\ made' = made + 1
    /\ UNCHANGED <<tables, specs, check>>
    /\ Notice

Step(e, at) == edits' = [edits EXCEPT ![e].at = at]

\* A reader of the classes waits for a swap, a swap of the key limits for the
\* check that reads them.
ClassesLocked == \E e \in Editors : Swapping(e) /\ OfClasses(edits[e].change)
LimitsRead == check.at # "idle" /\ check.holds

\* Classes::change: the atomics are stored under the readers' lock.
StoreRate(e) ==
    /\ edits[e].at = "store" /\ OfClasses(edits[e].change)
    /\ atomics' = [atomics EXCEPT !.rate = edits[e].copy.default.rate]
    /\ Step(e, "store_burst")
    /\ UNCHANGED <<classes, keyLimits, count, made, specs, check>>
    /\ Notice

StoreBurst(e) ==
    /\ edits[e].at = "store_burst"
    /\ atomics' = [atomics EXCEPT !.burst = edits[e].copy.default.burst]
    /\ Step(e, "store_shadows")
    /\ UNCHANGED <<classes, keyLimits, count, made, specs, check>>
    /\ Notice

HasShadows(table) == DOMAIN table.shadows # {}

StoreShadows(e) ==
    /\ edits[e].at = "store_shadows"
    /\ atomics' = [atomics EXCEPT !.shadows = HasShadows(edits[e].copy)]
    /\ Step(e, "swap")
    /\ UNCHANGED <<classes, keyLimits, count, made, specs, check>>
    /\ Notice

SwapClasses(e) ==
    /\ edits[e].at = "swap" /\ OfClasses(edits[e].change)
    /\ classes' = edits[e].copy
    /\ classSpec' = ClassEdit(edits[e].change, classSpec)
    /\ edits' = [edits EXCEPT ![e] = NoChange]
    /\ UNCHANGED <<atomics, keyLimits, count, made, limitSpec, check>>
    /\ Notice

\* Mutant: the count is that of the table before the change.
SizeBefore(table) == Cardinality(DOMAIN keyLimits)

SizeOf(table) == Cardinality(DOMAIN table)

\* KeyLimits::swap: the count, with no lock of the readers', then the table.
StoreCount(e) ==
    /\ edits[e].at = "store" /\ ~OfClasses(edits[e].change)
    /\ count' = SizeOf(edits[e].copy)
    /\ Step(e, "swap")
    /\ UNCHANGED <<classes, atomics, keyLimits, made, specs, check>>
    /\ Notice

SwapKeyLimits(e) ==
    /\ edits[e].at = "swap" /\ ~OfClasses(edits[e].change) /\ ~LimitsRead
    /\ keyLimits' = edits[e].copy
    /\ limitSpec' = KeyLimitEdit(edits[e].change, limitSpec)
    /\ edits' = [edits EXCEPT ![e] = NoChange]
    /\ UNCHANGED <<classes, atomics, count, made, classSpec, check>>
    /\ Notice

----------------------------------------------------------------------------
\* Shared::fresh_quota: a key takes its first slot.
FirstCheck(k) ==
    /\ check.at = "idle" /\ made > 0
    /\ check' = [at |-> "count", key |-> k, holds |-> FALSE, rate |-> 0, got |-> NoAnswer]
    /\ UNCHANGED <<tables, edits, made, specs>>
    /\ Notice

\* KeyLimits::is_empty
ReadCount ==
    /\ check.at = "count"
    /\ check' = [check EXCEPT !.at = IF count = 0 THEN "flag" ELSE "lock_limits"]
    /\ UNCHANGED <<tables, edits, made, specs>>
    /\ Notice

\* Classes::has_shadows
ReadFlag ==
    /\ check.at = "flag"
    /\ check' = [check EXCEPT !.at = IF atomics.shadows THEN "lock_limits" ELSE "limit_of"]
    /\ UNCHANGED <<tables, edits, made, specs>>
    /\ Notice

\* KeyLimits::with: the key limits are held for the rest of the check.
LockLimits ==
    /\ check.at = "lock_limits"
    /\ check' = [check EXCEPT !.at = "with_limits", !.holds = TRUE]
    /\ UNCHANGED <<tables, edits, made, specs>>
    /\ Notice

Done(answer) == check' = [check EXCEPT !.at = "done", !.holds = FALSE, !.got = answer]

\* Classes::limit_for
LimitFor ==
    /\ check.at = "with_limits"
    /\ IF atomics.shadows \/ check.key \in DOMAIN keyLimits
       THEN /\ ~ClassesLocked
            /\ Done(Resolve(classes, keyLimits, check.key))
       ELSE check' = [check EXCEPT !.at = "limit_of"]
    /\ UNCHANGED <<tables, edits, made, specs>>
    /\ Notice

\* Classes::limit_of: two atomics for the default class, the table otherwise.
LimitOf ==
    /\ check.at = "limit_of"
    /\ IF KeyClass[check.key] = DefaultClass
       THEN check' = [check EXCEPT !.at = "burst", !.rate = atomics.rate]
       ELSE /\ ~ClassesLocked
            /\ Done([limit |-> LookUp(classes, KeyClass[check.key]), shadow |-> NoLimit])
    /\ UNCHANGED <<tables, edits, made, specs>>
    /\ Notice

ReadBurst ==
    /\ check.at = "burst"
    /\ Done([limit |-> Limit(check.rate, atomics.burst), shadow |-> NoLimit])
    /\ UNCHANGED <<tables, edits, made, specs>>
    /\ Notice

CheckDone ==
    /\ check.at = "done"
    /\ check' = NoCheck
    /\ UNCHANGED <<tables, edits, made, specs>>
    /\ Notice

TariffsNext ==
    \/ \E e \in Editors :
        \/ \E c \in Changes : Begin(e, c)
        \/ StoreRate(e) \/ StoreBurst(e) \/ StoreShadows(e) \/ SwapClasses(e)
        \/ StoreCount(e) \/ SwapKeyLimits(e)
    \/ \E k \in TheKeys : FirstCheck(k)
    \/ ReadCount \/ ReadFlag \/ LockLimits \/ LimitFor \/ LimitOf \/ ReadBurst \/ CheckDone

TariffsSpec == TariffsInit /\ [][TariffsNext]_tariffVars

----------------------------------------------------------------------------
TariffsTypeOK ==
    /\ classes.default \in LimitValues
    /\ DOMAIN classes.named \subseteq ClassNames
    /\ Cardinality(DOMAIN classes.named) <= MaxClasses
    /\ Cardinality(DOMAIN keyLimits) <= MaxKeyLimits
    /\ DOMAIN keyLimits \subseteq TheKeys
    /\ count \in 0..MaxKeyLimits
    /\ atomics \in [rate : Rates, burst : Rates, shadows : BOOLEAN]

\* Changes made at once are kept, every one of them: the tables are what the
\* changes give one after another (classes.rs and key_limits.rs, writer: "so
\* that two changes do not each edit their own copy and one get lost").  And
\* there are shadows "only of classes in `named`, or the default" (classes.rs,
\* Table::shadows): a class taken away and given again finds no old shadow.
TablesKept ==
    /\ TariffsTypeOK
    /\ classes = classSpec /\ keyLimits = limitSpec
    /\ DOMAIN classes.shadows \subseteq DOMAIN classes.named \union {DefaultClass}

\* A new key's check, with the flags and the default class read outside every
\* lock (guard.rs, fresh_quota), takes a limit and a shadow that key limits
\* and classes current at some moment of the check give it: never those of a
\* change made before and since undone.  Only the default class's limit may
\* mix the rate of one moment and the burst of another (classes.rs,
\* default_rate).
FreshInForce ==
    check.at = "done" =>
        \E overrides \in seenLimits, t1, t2, t3 \in seenClasses :
            /\ check.got.limit.rate = Resolve(t1, overrides, check.key).limit.rate
            /\ check.got.limit.burst = Resolve(t2, overrides, check.key).limit.burst
            /\ check.got.shadow = Resolve(t3, overrides, check.key).shadow
            /\ KeyClass[check.key] # DefaultClass => t1 = t2
=============================================================================
