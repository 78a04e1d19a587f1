--------------------------- MODULE RequestsProofs ---------------------------
(***************************************************************************)
(* What the parts that MCRequests composes promise, for any number of      *)
(* threads, classes, keys, changes, pods, checks and simulated nodes: the  *)
(* tables of limits (Tariffs), a rollout of secrets (GossipAuth), the      *)
(* counts a node reports (Counting), a limit tried out in its shadow       *)
(* (Shadow) and the simulator's event loop (Sim).                          *)
(***************************************************************************)
EXTENDS Tariffs, GossipAuth, Counting, Shadow, Sim, FiniteSetTheorems, SequenceTheorems,
        WellFoundedInduction, TLAPS

----------------------------------------------------------------------------
\* Tables.

\* A table is a function on some of the names.
LEMMA TableIs ==
    ASSUME NEW D, NEW V, NEW f
    PROVE  f \in Tables(D, V) <=> f \in [DOMAIN f -> V] /\ DOMAIN f \subseteq D
  <1>1. ASSUME f \in Tables(D, V) PROVE f \in [DOMAIN f -> V] /\ DOMAIN f \subseteq D
    <2>1. PICK S \in SUBSET D : f \in [S -> V]
      BY <1>1 DEF Tables
    <2> QED
      BY <2>1
  <1>2. ASSUME f \in [DOMAIN f -> V], DOMAIN f \subseteq D PROVE f \in Tables(D, V)
    BY <1>2 DEF Tables
  <1> QED
    BY <1>1, <1>2

\* An entry put into a table.
LEMMA WithIs ==
    ASSUME NEW D, NEW V, NEW f \in Tables(D, V), NEW x \in D, NEW v \in V
    PROVE  With(f, x, v) \in Tables(D, V)
  <1>1. f \in [DOMAIN f -> V] /\ DOMAIN f \subseteq D
    BY TableIs
  <1>2. With(f, x, v) \in [DOMAIN f \union {x} -> V]
    BY <1>1 DEF With
  <1>3. DOMAIN With(f, x, v) = DOMAIN f \union {x}
    BY DEF With
  <1> QED
    BY <1>1, <1>2, <1>3, TableIs

\* Entries taken out of a table.
LEMMA RestrictIs ==
    ASSUME NEW D, NEW V, NEW f \in Tables(D, V), NEW S, S \subseteq DOMAIN f
    PROVE  Restrict(f, S) \in Tables(D, V)
  <1>1. f \in [DOMAIN f -> V] /\ DOMAIN f \subseteq D
    BY TableIs
  <1>2. Restrict(f, S) \in [S -> V] /\ DOMAIN Restrict(f, S) = S
    BY <1>1 DEF Restrict
  <1> QED
    BY <1>1, <1>2, TableIs

\* The names in a table after an edit.
LEMMA DomainsOfEdits ==
    ASSUME NEW f, NEW x, NEW v, NEW S
    PROVE  /\ DOMAIN With(f, x, v) = DOMAIN f \union {x}
           /\ DOMAIN Without(f, x) = DOMAIN f \ {x}
           /\ DOMAIN Restrict(f, S) = S
           /\ Without(f, x) = Restrict(f, DOMAIN f \ {x})
  BY DEF With, Without, Restrict

\* The same of the tables there are.
LEMMA EditsOfTables ==
    ASSUME NEW D, NEW V
    PROVE  /\ \A f \in Tables(D, V), x \in D, v \in V : With(f, x, v) \in Tables(D, V)
           /\ \A f \in Tables(D, V) : \A x : Without(f, x) \in Tables(D, V)
           /\ \A f \in Tables(D, V) : \A S :
                  S \subseteq DOMAIN f => Restrict(f, S) \in Tables(D, V)
  <1>1. ASSUME NEW f \in Tables(D, V), NEW x PROVE Without(f, x) \in Tables(D, V)
    <2>1. Without(f, x) = Restrict(f, DOMAIN f \ {x})
      BY DomainsOfEdits
    <2> QED
      BY <2>1, RestrictIs
  <1> QED
    BY <1>1, WithIs, RestrictIs

\* A table that is not full has room for one more.
LEMMA SizeWith ==
    ASSUME NEW S, IsFiniteSet(S), NEW x, NEW max \in Nat, Cardinality(S) <= max,
           x \in S \/ Cardinality(S) # max
    PROVE  IsFiniteSet(S \union {x}) /\ Cardinality(S \union {x}) <= max
  <1>1. Cardinality(S) \in Nat
    BY FS_CardinalityType
  <1>2. IsFiniteSet(S \union {x})
        /\ Cardinality(S \union {x}) = IF x \in S THEN Cardinality(S) ELSE Cardinality(S) + 1
    BY FS_AddElement
  <1> QED
    BY <1>1, <1>2

\* A table with entries taken out is no larger.
LEMMA SizeWithout ==
    ASSUME NEW S, IsFiniteSet(S), NEW T, T \subseteq S, NEW max \in Nat, Cardinality(S) <= max
    PROVE  IsFiniteSet(T) /\ Cardinality(T) <= max
  <1>1. IsFiniteSet(T) /\ Cardinality(T) <= Cardinality(S)
    BY FS_Subset
  <1>2. Cardinality(S) \in Nat /\ Cardinality(T) \in Nat
    BY <1>1, FS_CardinalityType
  <1> QED
    BY <1>1, <1>2

----------------------------------------------------------------------------
\* The tables the changes make.

ClassTables == [default : LimitValues, named : NamedTables, shadows : ShadowTables]

IsClassTable(t) ==
    /\ t \in ClassTables
    /\ IsFiniteSet(DOMAIN t.named) /\ Cardinality(DOMAIN t.named) <= MaxClasses
    /\ DOMAIN t.shadows \subseteq DOMAIN t.named \union {DefaultClass}

IsKeyTable(t) ==
    /\ t \in KeyLimitTables
    /\ IsFiniteSet(DOMAIN t) /\ Cardinality(DOMAIN t) <= MaxKeyLimits

\* A change of the classes leaves them a table within its bound.
LEMMA ClassEditType ==
    ASSUME NEW c \in Changes, OfClasses(c), NEW t, IsClassTable(t)
    PROVE  IsClassTable(ClassEdit(c, t))
  <1>1. /\ t \in ClassTables /\ t.default \in LimitValues /\ t.named \in NamedTables
        /\ t.shadows \in ShadowTables
        /\ IsFiniteSet(DOMAIN t.named) /\ Cardinality(DOMAIN t.named) <= MaxClasses
        /\ DOMAIN t.shadows \subseteq DOMAIN t.named \union {DefaultClass}
        /\ DOMAIN t.named \subseteq ClassNames
    BY TableIs DEF IsClassTable, ClassTables, NamedTables
  <1>2. MaxClasses \in Nat
    BY SizesAssumption
  <1>3. ASSUME NEW n \in NamedTables, NEW s \in ShadowTables, IsFiniteSet(DOMAIN n),
               Cardinality(DOMAIN n) <= MaxClasses,
               DOMAIN s \subseteq DOMAIN n \union {DefaultClass},
               NEW d \in LimitValues, NEW u,
               u \in ClassTables, u.named = n, u.shadows = s, u.default = d
        PROVE  IsClassTable(u)
    BY <1>3 DEF IsClassTable
  <1>4. CASE c.op = "set_class"
    <2>1. c.limit \in LimitValues /\ c.name \in ClassNames
      BY <1>4, ChangesAssumption
    <2>2. ClassEdit(c, t) = SetClass(t, c.name, c.limit)
      BY <1>4 DEF ClassEdit
    <2>3. CASE c.name \notin DOMAIN t.named /\ Cardinality(DOMAIN t.named) = MaxClasses
      BY <2>2, <2>3 DEF SetClass
    <2>4. CASE c.name \in DOMAIN t.named \/ Cardinality(DOMAIN t.named) # MaxClasses
      <3> DEFINE n == With(t.named, c.name, c.limit)
                 u == [t EXCEPT !.named = n]
      <3>1. n \in NamedTables /\ DOMAIN n = DOMAIN t.named \union {c.name}
        BY <1>1, <2>1, EditsOfTables, DomainsOfEdits DEF NamedTables
      <3>2. IsFiniteSet(DOMAIN n) /\ Cardinality(DOMAIN n) <= MaxClasses
        BY <1>1, <1>2, <2>4, <3>1, SizeWith
      <3>3. DOMAIN t.shadows \subseteq DOMAIN n \union {DefaultClass}
        BY <1>1, <3>1
      <3>4. ClassEdit(c, t) = u
        BY <2>2, <2>4 DEF SetClass
      <3> HIDE DEF n
      <3>5. u \in ClassTables /\ u.named = n /\ u.shadows = t.shadows /\ u.default = t.default
        BY <1>1, <3>1 DEF ClassTables
      <3> QED
        BY <1>1, <1>3, <3>1, <3>2, <3>3, <3>4, <3>5
    <2> QED
      BY <2>3, <2>4
  <1>5. CASE c.op = "remove_class"
    <2>1. ClassEdit(c, t) = RemoveClass(t, c.name)
      BY <1>5 DEF ClassEdit
    <2>2. CASE c.name \notin DOMAIN t.named
      BY <2>1, <2>2 DEF RemoveClass
    <2>3. CASE c.name \in DOMAIN t.named
      <3> DEFINE n == Without(t.named, c.name)
                 s == Without(t.shadows, c.name)
                 u == [t EXCEPT !.named = n, !.shadows = s]
      <3>1. n \in NamedTables /\ DOMAIN n = DOMAIN t.named \ {c.name}
        BY <1>1, EditsOfTables, DomainsOfEdits DEF NamedTables, ShadowTables, KeyLimitTables
      <3>2. s \in ShadowTables /\ DOMAIN s = DOMAIN t.shadows \ {c.name}
        BY <1>1, EditsOfTables, DomainsOfEdits DEF NamedTables, ShadowTables, KeyLimitTables
      <3>3. IsFiniteSet(DOMAIN n) /\ Cardinality(DOMAIN n) <= MaxClasses
        BY <1>1, <1>2, <3>1, SizeWithout
      <3>4. DOMAIN s \subseteq DOMAIN n \union {DefaultClass}
        BY <1>1, <3>1, <3>2
      <3>5. ClassEdit(c, t) = u
        BY <2>1, <2>3 DEF RemoveClass
      <3> HIDE DEF n, s
      <3>6. u \in ClassTables /\ u.named = n /\ u.shadows = s /\ u.default = t.default
        BY <1>1, <3>1, <3>2 DEF ClassTables
      <3> QED
        BY <1>1, <1>3, <3>1, <3>2, <3>3, <3>4, <3>5, <3>6
    <2> QED
      BY <2>2, <2>3
  <1>6. CASE c.op = "set_limit"
    <2>1. c.limit \in LimitValues
      BY <1>6, ChangesAssumption
    <2> DEFINE u == [t EXCEPT !.default = c.limit]
    <2>2. ClassEdit(c, t) = u
      BY <1>6 DEF ClassEdit, SetDefault
    <2>3. u \in ClassTables /\ u.named = t.named /\ u.shadows = t.shadows /\ u.default = c.limit
      BY <1>1, <2>1 DEF ClassTables
    <2> QED
      BY <1>1, <1>3, <2>1, <2>2, <2>3
  <1>7. CASE c.op = "set_classes"
    <2>1. c.named \in NamedTables /\ IsFiniteSet(DOMAIN c.named)
      BY <1>7, ChangesAssumption
    <2>2. ClassEdit(c, t) = ReplaceClasses(t, c.named)
      BY <1>7 DEF ClassEdit
    <2>3. CASE Cardinality(DOMAIN c.named) > MaxClasses
      BY <2>2, <2>3 DEF ReplaceClasses
    <2>4. CASE ~(Cardinality(DOMAIN c.named) > MaxClasses)
      <3> DEFINE n == c.named
                 s == Restrict(t.shadows, DOMAIN t.shadows \intersect (DOMAIN n \union {DefaultClass}))
                 u == [t EXCEPT !.named = n, !.shadows = s]
      <3>1. s \in ShadowTables
            /\ DOMAIN s = DOMAIN t.shadows \intersect (DOMAIN n \union {DefaultClass})
        BY <1>1, EditsOfTables, DomainsOfEdits DEF NamedTables, ShadowTables, KeyLimitTables
      <3>2. Cardinality(DOMAIN n) <= MaxClasses
        BY <1>2, <2>1, <2>4, FS_CardinalityType
      <3>3. ClassEdit(c, t) = u
        BY <2>2, <2>4 DEF ReplaceClasses
      <3> HIDE DEF s
      <3>4. u \in ClassTables /\ u.named = n /\ u.shadows = s /\ u.default = t.default
        BY <1>1, <2>1, <3>1 DEF ClassTables
      <3> QED
        BY <1>1, <1>3, <2>1, <3>1, <3>2, <3>3, <3>4
    <2> QED
      BY <2>3, <2>4
  <1>8. ASSUME NEW s \in ShadowTables, DOMAIN s \subseteq DOMAIN t.named \union {DefaultClass}
        PROVE  IsClassTable([t EXCEPT !.shadows = s])
    <2> DEFINE u == [t EXCEPT !.shadows = s]
    <2>1. u \in ClassTables /\ u.named = t.named /\ u.shadows = s /\ u.default = t.default
      BY <1>1 DEF ClassTables
    <2> QED
      BY <1>1, <1>3, <1>8, <2>1
  <1>9. CASE c.op = "set_shadow"
    <2>1. c.limit \in LimitValues \union {NoLimit}
      BY <1>9, ChangesAssumption
    <2>2. ClassEdit(c, t) = SetShadow(t, c.name, c.limit)
      BY <1>9 DEF ClassEdit
    <2>3. CASE ~ClassFound(t, c.name)
      BY <2>2, <2>3 DEF SetShadow
    <2>4. CASE ClassFound(t, c.name)
      <3>1. c.name \in DOMAIN t.named \union {DefaultClass}
            /\ c.name \in ClassNames \union {DefaultClass}
        BY <1>1, <2>4 DEF ClassFound
      <3>2. CASE c.limit = NoLimit
        <4>1. Without(t.shadows, c.name) \in ShadowTables
              /\ DOMAIN Without(t.shadows, c.name) = DOMAIN t.shadows \ {c.name}
          BY <1>1, EditsOfTables, DomainsOfEdits DEF NamedTables, ShadowTables, KeyLimitTables
        <4>2. ClassEdit(c, t) = [t EXCEPT !.shadows = Without(t.shadows, c.name)]
          BY <2>2, <2>4, <3>2 DEF SetShadow
        <4> QED
          BY <1>1, <1>8, <4>1, <4>2
      <3>3. CASE c.limit # NoLimit
        <4>1. With(t.shadows, c.name, c.limit) \in ShadowTables
              /\ DOMAIN With(t.shadows, c.name, c.limit) = DOMAIN t.shadows \union {c.name}
          BY <1>1, <2>1, <3>1, <3>3, EditsOfTables, DomainsOfEdits DEF NamedTables, ShadowTables, KeyLimitTables
        <4>2. ClassEdit(c, t) = [t EXCEPT !.shadows = With(t.shadows, c.name, c.limit)]
          BY <2>2, <2>4, <3>3 DEF SetShadow
        <4> QED
          BY <1>1, <1>8, <3>1, <4>1, <4>2
      <3> QED
        BY <3>2, <3>3
    <2> QED
      BY <2>3, <2>4
  <1>10. CASE c.op = "set_shadows"
    <2>1. c.shadows \in ShadowTables
      BY <1>10, ChangesAssumption
    <2>2. ClassEdit(c, t) = ReplaceShadows(t, c.shadows)
      BY <1>10 DEF ClassEdit
    <2>3. CASE \A name \in DOMAIN c.shadows : ClassFound(t, name)
      <3>1. DOMAIN c.shadows \subseteq DOMAIN t.named \union {DefaultClass}
        BY <2>3 DEF ClassFound
      <3>2. ClassEdit(c, t) = [t EXCEPT !.shadows = c.shadows]
        BY <2>2, <2>3 DEF ReplaceShadows
      <3> QED
        BY <1>8, <2>1, <3>1, <3>2
    <2>4. CASE ~(\A name \in DOMAIN c.shadows : ClassFound(t, name))
      BY <2>2, <2>4 DEF ReplaceShadows
    <2> QED
      BY <2>3, <2>4
  <1>11. c.op \in {"set_class", "remove_class", "set_limit", "set_classes", "set_shadow", "set_shadows"}
    BY ChangesAssumption DEF OfClasses
  <1> QED
    BY <1>4, <1>5, <1>6, <1>7, <1>9, <1>10, <1>11

\* A change of the key limits leaves them a table within its bound.
LEMMA KeyLimitEditType ==
    ASSUME NEW c \in Changes, ~OfClasses(c), NEW t, IsKeyTable(t)
    PROVE  IsKeyTable(KeyLimitEdit(c, t))
  <1>1. t \in KeyLimitTables /\ IsFiniteSet(DOMAIN t) /\ Cardinality(DOMAIN t) <= MaxKeyLimits
        /\ MaxKeyLimits \in Nat
    BY SizesAssumption DEF IsKeyTable
  <1>2. CASE c.op = "set_key_limit"
    <2>1. c.key \in TheKeys /\ c.entry \in Entries
      BY <1>2, ChangesAssumption
    <2>2. KeyLimitEdit(c, t) = SetKeyLimit(t, c.key, c.entry)
      BY <1>2 DEF KeyLimitEdit
    <2>3. CASE c.key \notin DOMAIN t /\ Cardinality(DOMAIN t) = MaxKeyLimits
      BY <2>2, <2>3 DEF SetKeyLimit
    <2>4. CASE c.key \in DOMAIN t \/ Cardinality(DOMAIN t) # MaxKeyLimits
      <3>1. KeyLimitEdit(c, t) = With(t, c.key, c.entry)
        BY <2>2, <2>4 DEF SetKeyLimit
      <3>2. With(t, c.key, c.entry) \in KeyLimitTables
            /\ DOMAIN With(t, c.key, c.entry) = DOMAIN t \union {c.key}
        BY <1>1, <2>1, EditsOfTables, DomainsOfEdits DEF NamedTables, ShadowTables, KeyLimitTables
      <3>3. IsFiniteSet(DOMAIN t \union {c.key}) /\ Cardinality(DOMAIN t \union {c.key}) <= MaxKeyLimits
        BY <1>1, <2>4, SizeWith
      <3> QED
        BY <3>1, <3>2, <3>3 DEF IsKeyTable
    <2> QED
      BY <2>3, <2>4
  <1>3. CASE c.op = "remove_key_limit"
    <2>1. KeyLimitEdit(c, t) = Without(t, c.key)
      BY <1>3 DEF KeyLimitEdit, RemoveKeyLimit
    <2>2. Without(t, c.key) \in KeyLimitTables /\ DOMAIN Without(t, c.key) = DOMAIN t \ {c.key}
      BY <1>1, EditsOfTables, DomainsOfEdits DEF NamedTables, ShadowTables, KeyLimitTables
    <2>3. IsFiniteSet(DOMAIN t \ {c.key}) /\ Cardinality(DOMAIN t \ {c.key}) <= MaxKeyLimits
      BY <1>1, SizeWithout
    <2> QED
      BY <2>1, <2>2, <2>3 DEF IsKeyTable
  <1>4. CASE c.op = "set_key_limits"
    <2>1. c.entries \in KeyLimitTables /\ IsFiniteSet(DOMAIN c.entries)
      BY <1>4, ChangesAssumption
    <2>2. KeyLimitEdit(c, t) = ReplaceKeyLimits(t, c.entries)
      BY <1>4 DEF KeyLimitEdit
    <2>3. Cardinality(DOMAIN c.entries) \in Nat
      BY <2>1, FS_CardinalityType
    <2> QED
      BY <1>1, <2>1, <2>2, <2>3 DEF ReplaceKeyLimits, IsKeyTable
  <1> QED
    BY <1>2, <1>3, <1>4 DEF OfClasses

----------------------------------------------------------------------------
\* The changes being made, each of them under its table's writer's lock: the
\* copy an editor holds is what its change gives of the table as it is.

Pending(x, table, limits) ==
    /\ DOMAIN x = {"at", "change", "copy"} /\ x.change \in Changes
    /\ \/ /\ OfClasses(x.change) /\ x.copy = ClassEdit(x.change, table)
          /\ x.at \in {"store", "store_burst", "store_shadows", "swap"}
       \/ /\ ~OfClasses(x.change) /\ x.copy = KeyLimitEdit(x.change, limits)
          /\ x.at \in {"store", "swap"}

Pendings ==
    /\ DOMAIN edits = Editors
    /\ \A e \in Editors : edits[e].at # "idle" => Pending(edits[e], classes, keyLimits)

Alone ==
    \A e, f \in Editors :
        /\ edits[e].at # "idle" /\ edits[f].at # "idle"
        /\ OfClasses(edits[e].change) <=> OfClasses(edits[f].change)
        => e = f

TablesAre ==
    /\ IsClassTable(classes) /\ IsKeyTable(keyLimits)
    /\ classes = classSpec /\ keyLimits = limitSpec

Copied ==
    /\ atomics \in [rate : Rates, burst : Rates, shadows : BOOLEAN]
    /\ count \in 0..MaxKeyLimits

Changing == Pendings /\ Alone /\ TablesAre /\ Copied

\* An editor going on.
LEMMA StepIs ==
    ASSUME Pendings, NEW e \in Editors, edits[e].at # "idle", NEW at, Step(e, at)
    PROVE  /\ DOMAIN edits' = Editors
           /\ \A f \in Editors : f # e => edits'[f] = edits[f]
           /\ edits'[e].at = at /\ edits'[e].change = edits[e].change
           /\ edits'[e].copy = edits[e].copy
           /\ DOMAIN edits'[e] = {"at", "change", "copy"}
  <1>1. DOMAIN edits = Editors /\ DOMAIN edits[e] = {"at", "change", "copy"}
    BY DEF Pendings, Pending
  <1> DEFINE x == [edits[e] EXCEPT !.at = at]
  <1>2. edits' = [edits EXCEPT ![e] = x]
    BY DEF Step
  <1>3. /\ x.at = at /\ x.change = edits[e].change /\ x.copy = edits[e].copy
        /\ DOMAIN x = {"at", "change", "copy"}
    BY <1>1
  <1> HIDE DEF x
  <1>4. DOMAIN edits' = Editors /\ edits'[e] = x /\ \A f \in Editors : f # e => edits'[f] = edits[f]
    BY <1>1, <1>2
  <1> QED
    BY <1>3, <1>4

\* One editor goes from x to y, neither of them idle.
LEMMA StepKeeps ==
    ASSUME Pendings, Alone, NEW e \in Editors, edits[e].at # "idle", NEW at, Step(e, at),
           UNCHANGED <<classes, keyLimits>>,
           OfClasses(edits[e].change) => at \in {"store_burst", "store_shadows", "swap"},
           ~OfClasses(edits[e].change) => at = "swap"
    PROVE  Pendings' /\ Alone'
  <1>1. /\ DOMAIN edits' = Editors
        /\ \A f \in Editors : f # e => edits'[f] = edits[f]
        /\ edits'[e].at = at /\ edits'[e].change = edits[e].change
        /\ edits'[e].copy = edits[e].copy
        /\ DOMAIN edits'[e] = {"at", "change", "copy"}
    BY StepIs
  <1>2. Pending(edits[e], classes, keyLimits)
    BY DEF Pendings
  <1>3. Pending(edits'[e], classes', keyLimits')
    BY <1>1, <1>2 DEF Pending
  <1>4. Pendings'
    BY <1>1, <1>3 DEF Pendings
  <1>5. Alone'
    BY <1>1 DEF Alone
  <1> QED
    BY <1>4, <1>5

\* An editor's copy is a table like those there are.
LEMMA CopyIs ==
    ASSUME Pendings, TablesAre, NEW e \in Editors, edits[e].at # "idle"
    PROVE  /\ edits[e].change \in Changes
           /\ OfClasses(edits[e].change) =>
                  IsClassTable(edits[e].copy) /\ edits[e].copy = ClassEdit(edits[e].change, classes)
           /\ ~OfClasses(edits[e].change) =>
                  /\ IsKeyTable(edits[e].copy)
                  /\ edits[e].copy = KeyLimitEdit(edits[e].change, keyLimits)
                  /\ edits[e].at \in {"store", "swap"}
  <1>1. Pending(edits[e], classes, keyLimits)
    BY DEF Pendings
  <1>2. edits[e].change \in Changes
    BY <1>1 DEF Pending
  <1>3. ASSUME OfClasses(edits[e].change)
        PROVE  IsClassTable(edits[e].copy) /\ edits[e].copy = ClassEdit(edits[e].change, classes)
    BY <1>1, <1>2, <1>3, ClassEditType DEF Pending, TablesAre
  <1>4. ASSUME ~OfClasses(edits[e].change)
        PROVE  /\ IsKeyTable(edits[e].copy)
               /\ edits[e].copy = KeyLimitEdit(edits[e].change, keyLimits)
               /\ edits[e].at \in {"store", "swap"}
    BY <1>1, <1>2, <1>4, KeyLimitEditType DEF Pending, TablesAre
  <1> QED
    BY <1>2, <1>3, <1>4

\* Changing holds at the start.
LEMMA TariffsInitHolds == TariffsInit => Changing
  <1> SUFFICES ASSUME TariffsInit PROVE Changing
    OBVIOUS
  <1>1. PICK l \in LimitValues : classes = [default |-> l, named |-> <<>>, shadows |-> <<>>]
    BY DEF TariffsInit
  <1>2. l.rate \in Rates /\ l.burst \in Rates
    BY <1>1 DEF LimitValues
  <1>3. DOMAIN <<>> = {}
    OBVIOUS
  <1>4. \A D, V : <<>> \in Tables(D, V)
    <2> TAKE D, V
    <2>1. <<>> \in [DOMAIN <<>> -> V] /\ DOMAIN <<>> \subseteq D
      OBVIOUS
    <2> QED
      BY <2>1, TableIs
  <1>5. IsFiniteSet({}) /\ Cardinality({}) = 0
    BY FS_EmptySet
  <1>6. IsClassTable(classes)
    <2>1. classes \in ClassTables
      BY <1>1, <1>4 DEF ClassTables, NamedTables, ShadowTables
    <2>2. DOMAIN classes.named = {} /\ DOMAIN classes.shadows = {}
      BY <1>1
    <2> QED
      BY <2>1, <2>2, <1>5, SizesAssumption DEF IsClassTable
  <1>7. IsKeyTable(keyLimits)
    BY <1>3, <1>4, <1>5, SizesAssumption DEF IsKeyTable, KeyLimitTables, TariffsInit
  <1>8. Copied
    BY <1>1, <1>2, SizesAssumption DEF Copied, TariffsInit
  <1>9. Pendings /\ Alone
    BY DEF TariffsInit, Pendings, Alone, NoChange
  <1> QED
    BY <1>6, <1>7, <1>8, <1>9 DEF Changing, TablesAre, TariffsInit

\* A change begins under the writer's lock, or fails and changes nothing.
LEMMA BeginKeeps ==
    ASSUME Changing, NEW e \in Editors, NEW c \in Changes, Begin(e, c)
    PROVE  Changing'
  <1> DEFINE table == IF OfClasses(c) THEN classes ELSE keyLimits
             copy == IF OfClasses(c) THEN ClassEdit(c, table) ELSE KeyLimitEdit(c, table)
             y == IF copy = table THEN NoChange ELSE [at |-> "store", change |-> c, copy |-> copy]
  <1>1. edits' = [edits EXCEPT ![e] = y] /\ DOMAIN edits = Editors
    BY DEF Begin, Changing, Pendings
  <1>2. y = NoChange \/ (Pending(y, classes, keyLimits) /\ y.change = c /\ y.at = "store")
    <2>1. CASE copy = table
      BY <2>1
    <2>2. CASE copy # table
      <3>1. /\ y.at = "store" /\ y.change = c /\ y.copy = copy
            /\ DOMAIN y = {"at", "change", "copy"}
        BY <2>2
      <3>2. CASE OfClasses(c)
        BY <3>1, <3>2 DEF Pending
      <3>3. CASE ~OfClasses(c)
        BY <3>1, <3>3 DEF Pending
      <3> QED
        BY <3>2, <3>3
    <2> QED
      BY <2>1, <2>2
  <1> HIDE DEF y, copy, table
  <1>3. edits'[e] = y /\ DOMAIN edits' = Editors
        /\ \A f \in Editors : f # e => edits'[f] = edits[f]
    BY <1>1
  <1>4. classes' = classes /\ keyLimits' = keyLimits /\ atomics' = atomics /\ count' = count
        /\ classSpec' = classSpec /\ limitSpec' = limitSpec
    BY DEF Begin, tables, specs
  <1>5. Pendings'
    BY <1>2, <1>3, <1>4 DEF Pendings, Changing, NoChange
  <1>6. Alone'
    <2> SUFFICES ASSUME NEW d \in Editors, NEW f \in Editors, d # f,
                        edits'[d].at # "idle", edits'[f].at # "idle",
                        OfClasses(edits'[d].change) <=> OfClasses(edits'[f].change)
                 PROVE  FALSE
      BY DEF Alone
    <2>1. CASE d # e /\ f # e
      BY <1>3, <2>1 DEF Alone, Changing
    <2>2. \A g \in Editors : edits[g].at # "idle" => ~(OfClasses(edits[g].change) <=> OfClasses(c))
      BY DEF Begin, WriterFree, OfClasses
    <2>3. CASE d = e
      BY <1>2, <1>3, <2>2, <2>3 DEF NoChange
    <2>4. CASE f = e
      BY <1>2, <1>3, <2>2, <2>4 DEF NoChange
    <2> QED
      BY <2>1, <2>3, <2>4
  <1> QED
    BY <1>4, <1>5, <1>6 DEF Changing, TablesAre, Copied

\* An editor is done: its copy is the table now.
LEMMA SwapKeeps ==
    ASSUME Changing, NEW e \in Editors, SwapClasses(e) \/ SwapKeyLimits(e)
    PROVE  Changing'
  <1>1. /\ edits' = [edits EXCEPT ![e] = NoChange] /\ DOMAIN edits = Editors
        /\ edits[e].at = "swap" /\ atomics' = atomics /\ count' = count
    BY DEF SwapClasses, SwapKeyLimits, Changing, Pendings
  <1>2. DOMAIN edits' = Editors /\ edits'[e].at = "idle"
        /\ \A f \in Editors : f # e => edits'[f] = edits[f]
    BY <1>1 DEF NoChange
  <1>3. Alone'
    BY <1>2 DEF Alone, Changing
  <1>4. \A f \in Editors : edits'[f].at # "idle" =>
            /\ edits'[f] = edits[f] /\ Pending(edits[f], classes, keyLimits)
            /\ ~(OfClasses(edits[f].change) <=> OfClasses(edits[e].change))
    BY <1>1, <1>2 DEF Alone, Changing, Pendings
  <1>5. CASE SwapClasses(e)
    <2>1. OfClasses(edits[e].change) /\ classes' = edits[e].copy
          /\ classSpec' = ClassEdit(edits[e].change, classSpec)
          /\ keyLimits' = keyLimits /\ limitSpec' = limitSpec
      BY <1>5 DEF SwapClasses
    <2>2. IsClassTable(edits[e].copy) /\ edits[e].copy = ClassEdit(edits[e].change, classes)
      BY <1>1, <2>1, CopyIs DEF Changing
    <2>3. Pendings'
      BY <1>2, <1>4, <2>1 DEF Pendings, Pending
    <2> QED
      BY <1>1, <1>3, <2>1, <2>2, <2>3 DEF Changing, TablesAre, Copied
  <1>6. CASE SwapKeyLimits(e)
    <2>1. ~OfClasses(edits[e].change) /\ keyLimits' = edits[e].copy
          /\ limitSpec' = KeyLimitEdit(edits[e].change, limitSpec)
          /\ classes' = classes /\ classSpec' = classSpec
      BY <1>6 DEF SwapKeyLimits
    <2>2. IsKeyTable(edits[e].copy) /\ edits[e].copy = KeyLimitEdit(edits[e].change, keyLimits)
      BY <1>1, <2>1, CopyIs DEF Changing
    <2>3. Pendings'
      BY <1>2, <1>4, <2>1 DEF Pendings, Pending
    <2> QED
      BY <1>1, <1>3, <2>1, <2>2, <2>3 DEF Changing, TablesAre, Copied
  <1> QED
    BY <1>5, <1>6

\* The atomics and the count, each stored from the copy.
LEMMA StoreKeeps ==
    ASSUME Changing, NEW e \in Editors,
           StoreRate(e) \/ StoreBurst(e) \/ StoreShadows(e) \/ StoreCount(e)
    PROVE  Changing'
  <1>1. edits[e].at # "idle" /\ classes' = classes /\ keyLimits' = keyLimits
        /\ classSpec' = classSpec /\ limitSpec' = limitSpec
    BY DEF StoreRate, StoreBurst, StoreShadows, StoreCount, specs
  <1>2. TablesAre'
    BY <1>1 DEF Changing, TablesAre
  <1>3. Pending(edits[e], classes, keyLimits)
    BY <1>1 DEF Changing, Pendings
  <1>4. Pendings' /\ Alone'
    <2>1. CASE StoreRate(e)
      BY <1>1, <1>3, <2>1, StepKeeps DEF StoreRate, Changing
    <2>2. CASE StoreBurst(e)
      BY <1>1, <1>3, <2>2, StepKeeps DEF StoreBurst, Changing, Pending
    <2>3. CASE StoreShadows(e)
      BY <1>1, <1>3, <2>3, StepKeeps DEF StoreShadows, Changing, Pending
    <2>4. CASE StoreCount(e)
      BY <1>1, <1>3, <2>4, StepKeeps DEF StoreCount, Changing
    <2> QED
      BY <2>1, <2>2, <2>3, <2>4
  <1>5. Copied'
    <2>1. OfClasses(edits[e].change) =>
              edits[e].copy.default.rate \in Rates /\ edits[e].copy.default.burst \in Rates
      BY <1>1, CopyIs DEF Changing, IsClassTable, ClassTables, LimitValues
    <2>2. CASE StoreRate(e)
      BY <2>1, <2>2 DEF StoreRate, Changing, Copied
    <2>3. CASE StoreBurst(e)
      <3>1. OfClasses(edits[e].change)
        BY <1>3, <2>3 DEF StoreBurst, Pending
      <3> QED
        BY <2>1, <2>3, <3>1 DEF StoreBurst, Changing, Copied
    <2>4. CASE StoreShadows(e)
      BY <2>4 DEF StoreShadows, HasShadows, Changing, Copied
    <2>5. CASE StoreCount(e)
      <3>1. IsKeyTable(edits[e].copy)
        BY <1>1, <2>5, CopyIs DEF StoreCount, Changing
      <3>2. Cardinality(DOMAIN edits[e].copy) \in 0..MaxKeyLimits
        BY <3>1, FS_CardinalityType, SizesAssumption DEF IsKeyTable
      <3> QED
        BY <2>5, <3>2 DEF StoreCount, SizeOf, Changing, Copied
    <2> QED
      BY <2>2, <2>3, <2>4, <2>5
  <1> QED
    BY <1>2, <1>4, <1>5 DEF Changing

\* A check changes none of it.
Checking == ReadCount \/ ReadFlag \/ LockLimits \/ LimitFor \/ LimitOf \/ ReadBurst \/ CheckDone

\* Checks read the tables and change none of them.
LEMMA ChecksChangeNothing ==
    ASSUME Checking \/ \E k \in TheKeys : FirstCheck(k)
    PROVE  UNCHANGED <<tables, edits, made, specs>>
  BY DEF Checking, FirstCheck, ReadCount, ReadFlag, LockLimits, LimitFor, LimitOf, ReadBurst, CheckDone

\* A step that leaves the tables and the editors alone keeps Changing.
LEMMA UnchangedKeeps ==
    ASSUME Changing, UNCHANGED <<tables, edits, specs>>
    PROVE  Changing'
  <1>1. classes' = classes /\ keyLimits' = keyLimits /\ atomics' = atomics /\ count' = count
        /\ classSpec' = classSpec /\ limitSpec' = limitSpec /\ edits' = edits
    BY DEF tables, specs
  <1> QED
    BY <1>1 DEF Changing, Pendings, Alone, TablesAre, Copied

\* Every step keeps Changing.
LEMMA ChangingStep == Changing /\ [TariffsNext]_tariffVars => Changing'
  <1> SUFFICES ASSUME Changing, [TariffsNext]_tariffVars PROVE Changing'
    OBVIOUS
  <1>1. CASE \E e \in Editors, c \in Changes : Begin(e, c)
    BY <1>1, BeginKeeps
  <1>2. CASE \E e \in Editors : StoreRate(e) \/ StoreBurst(e) \/ StoreShadows(e) \/ StoreCount(e)
    BY <1>2, StoreKeeps
  <1>3. CASE \E e \in Editors : SwapClasses(e) \/ SwapKeyLimits(e)
    BY <1>3, SwapKeeps
  <1>4. CASE Checking \/ \E k \in TheKeys : FirstCheck(k)
    BY <1>4, ChecksChangeNothing, UnchangedKeeps
  <1>5. CASE UNCHANGED tariffVars
    BY <1>5, UnchangedKeeps DEF tariffVars
  <1> QED
    BY <1>1, <1>2, <1>3, <1>4, <1>5 DEF TariffsNext, Checking

\* Changing holds throughout.
LEMMA ChangingAlways == TariffsSpec => []Changing
  BY TariffsInitHolds, ChangingStep, PTL DEF TariffsSpec

\* However many threads change the classes and the key limits at once, no
\* change is lost, the bounds on the tables' sizes hold, and there are no
\* shadows of classes that are not there.
THEOREM ChangesAreKept == TariffsSpec => []TablesKept
  <1>1. Changing => TablesKept
    <2> SUFFICES ASSUME Changing PROVE TablesKept
      OBVIOUS
    <2>1. /\ classes.default \in LimitValues /\ classes.named \in NamedTables
          /\ Cardinality(DOMAIN classes.named) <= MaxClasses
          /\ DOMAIN classes.shadows \subseteq DOMAIN classes.named \union {DefaultClass}
          /\ keyLimits \in KeyLimitTables /\ Cardinality(DOMAIN keyLimits) <= MaxKeyLimits
      BY DEF Changing, TablesAre, IsClassTable, IsKeyTable, ClassTables
    <2>2. DOMAIN classes.named \subseteq ClassNames /\ DOMAIN keyLimits \subseteq TheKeys
      BY <2>1, TableIs DEF NamedTables, KeyLimitTables
    <2> QED
      BY <2>1, <2>2 DEF TablesKept, TariffsTypeOK, Changing, Copied, TablesAre
  <1> QED
    BY <1>1, ChangingAlways, PTL

----------------------------------------------------------------------------
\* What the atomics and the count hold: the table's, or what the editor that
\* is swapping has stored of its copy.

AtomicsAre(rate, burst, shadows) ==
    /\ atomics.rate = rate.default.rate
    /\ atomics.burst = burst.default.burst
    /\ atomics.shadows = HasShadows(shadows)

StoredOf(x) ==
    /\ x.at = "store_burst" => AtomicsAre(x.copy, classes, classes)
    /\ x.at = "store_shadows" => AtomicsAre(x.copy, x.copy, classes)
    /\ x.at = "swap" => AtomicsAre(x.copy, x.copy, x.copy)

SwapsClasses(e) == Swapping(e) /\ OfClasses(edits[e].change)
SwapsLimits(e) == Swapping(e) /\ ~OfClasses(edits[e].change)

AtomicsStored ==
    /\ (\A e \in Editors : ~SwapsClasses(e)) => AtomicsAre(classes, classes, classes)
    /\ \A e \in Editors : SwapsClasses(e) => StoredOf(edits[e])

CountStored ==
    /\ (\A e \in Editors : ~SwapsLimits(e)) => count = SizeOf(keyLimits)
    /\ \A e \in Editors : SwapsLimits(e) => count = SizeOf(edits[e].copy)

\* A step that leaves the changes of the classes alone keeps what the atomics show.
LEMMA AtomicsStill ==
    ASSUME AtomicsStored, classes' = classes, atomics' = atomics,
           \A f \in Editors : /\ SwapsClasses(f)' <=> SwapsClasses(f)
                              /\ SwapsClasses(f) => edits'[f] = edits[f]
    PROVE  AtomicsStored'
  BY DEF AtomicsStored, AtomicsAre, StoredOf

\* A step that leaves the changes of the key limits alone keeps what the count shows.
LEMMA CountStill ==
    ASSUME CountStored, keyLimits' = keyLimits, count' = count,
           \A f \in Editors : /\ SwapsLimits(f)' <=> SwapsLimits(f)
                              /\ SwapsLimits(f) => edits'[f] = edits[f]
    PROVE  CountStored'
  BY DEF CountStored, SizeOf

\* What an editor's step leaves alone: the other editors, and the other table's.
LEMMA OtherEditors ==
    ASSUME Changing, NEW e \in Editors, DOMAIN edits' = Editors,
           \A f \in Editors : f # e => edits'[f] = edits[f]
    PROVE  /\ \A f \in Editors : f # e =>
                  /\ SwapsClasses(f)' <=> SwapsClasses(f)
                  /\ SwapsLimits(f)' <=> SwapsLimits(f)
           /\ edits[e].at # "idle" /\ OfClasses(edits[e].change) =>
                  \A f \in Editors : f # e => ~SwapsClasses(f) /\ ~SwapsClasses(f)'
           /\ edits[e].at # "idle" /\ ~OfClasses(edits[e].change) =>
                  \A f \in Editors : f # e => ~SwapsLimits(f) /\ ~SwapsLimits(f)'
  <1>1. \A f \in Editors : f # e =>
            /\ SwapsClasses(f)' <=> SwapsClasses(f)
            /\ SwapsLimits(f)' <=> SwapsLimits(f)
    BY DEF SwapsClasses, SwapsLimits, Swapping
  <1>2. \A f \in Editors : /\ f # e /\ edits[e].at # "idle" /\ edits[f].at # "idle"
                          => ~(OfClasses(edits[f].change) <=> OfClasses(edits[e].change))
    BY DEF Changing, Alone
  <1>3. \A f \in Editors : SwapsClasses(f) => edits[f].at # "idle" /\ OfClasses(edits[f].change)
    BY DEF SwapsClasses, Swapping
  <1>4. \A f \in Editors : SwapsLimits(f) => edits[f].at # "idle" /\ ~OfClasses(edits[f].change)
    BY DEF SwapsLimits, Swapping
  <1> QED
    BY <1>1, <1>2, <1>3, <1>4

\* An editor at work on one table is not at work on the other.
LEMMA ClassStepCount ==
    ASSUME Changing, CountStored, NEW e \in Editors, edits[e].at # "idle",
           OfClasses(edits[e].change), DOMAIN edits' = Editors,
           \A f \in Editors : f # e => edits'[f] = edits[f],
           edits'[e].at = "idle" \/ OfClasses(edits'[e].change),
           keyLimits' = keyLimits, count' = count
    PROVE  CountStored'
  <1>1. ~SwapsLimits(e) /\ ~SwapsLimits(e)'
    BY DEF SwapsLimits, Swapping
  <1> QED
    BY <1>1, OtherEditors, CountStill

\* A change of the key limits leaves the atomics of the classes alone.
LEMMA KeyStepAtomics ==
    ASSUME Changing, AtomicsStored, NEW e \in Editors, edits[e].at # "idle",
           ~OfClasses(edits[e].change), DOMAIN edits' = Editors,
           \A f \in Editors : f # e => edits'[f] = edits[f],
           edits'[e].at = "idle" \/ ~OfClasses(edits'[e].change),
           classes' = classes, atomics' = atomics
    PROVE  AtomicsStored'
  <1>1. ~SwapsClasses(e) /\ ~SwapsClasses(e)'
    BY DEF SwapsClasses, Swapping
  <1> QED
    BY <1>1, OtherEditors, AtomicsStill

\* The atomics and the count agree with the tables at the start.
LEMMA StoredInit == TariffsInit => AtomicsStored /\ CountStored
  <1> SUFFICES ASSUME TariffsInit PROVE AtomicsStored /\ CountStored
    OBVIOUS
  <1>1. \A e \in Editors : ~SwapsClasses(e) /\ ~SwapsLimits(e)
    BY DEF TariffsInit, SwapsClasses, SwapsLimits, Swapping, NoChange
  <1>2. AtomicsAre(classes, classes, classes)
    <2>1. PICK l \in LimitValues : classes = [default |-> l, named |-> <<>>, shadows |-> <<>>]
      BY DEF TariffsInit
    <2>2. DOMAIN classes.shadows = {}
      BY <2>1
    <2> QED
      BY <2>2 DEF TariffsInit, AtomicsAre, HasShadows
  <1>3. count = SizeOf(keyLimits)
    <2>1. DOMAIN keyLimits = {} /\ count = 0
      BY DEF TariffsInit
    <2> QED
      BY <2>1, FS_EmptySet DEF SizeOf
  <1> QED
    BY <1>1, <1>2, <1>3 DEF AtomicsStored, CountStored

\* A change that begins stores nothing yet.
LEMMA BeginStores ==
    ASSUME Changing, AtomicsStored, CountStored, NEW e \in Editors, NEW c \in Changes, Begin(e, c)
    PROVE  AtomicsStored' /\ CountStored'
  <1> DEFINE table == IF OfClasses(c) THEN classes ELSE keyLimits
             copy == IF OfClasses(c) THEN ClassEdit(c, table) ELSE KeyLimitEdit(c, table)
             y == IF copy = table THEN NoChange ELSE [at |-> "store", change |-> c, copy |-> copy]
  <1>1. edits' = [edits EXCEPT ![e] = y] /\ DOMAIN edits = Editors /\ edits[e].at = "idle"
    BY DEF Begin, Changing, Pendings
  <1>2. y.at \in {"idle", "store"}
    BY DEF NoChange
  <1> HIDE DEF y
  <1>3. edits'[e].at \in {"idle", "store"} /\ DOMAIN edits' = Editors
        /\ \A f \in Editors : f # e => edits'[f] = edits[f]
    BY <1>1, <1>2
  <1>4. ~SwapsClasses(e) /\ ~SwapsClasses(e)' /\ ~SwapsLimits(e) /\ ~SwapsLimits(e)'
    BY <1>1, <1>3 DEF SwapsClasses, SwapsLimits, Swapping
  <1>5. classes' = classes /\ keyLimits' = keyLimits /\ atomics' = atomics /\ count' = count
    BY DEF Begin, tables
  <1>6. \A f \in Editors : /\ SwapsClasses(f)' <=> SwapsClasses(f)
                           /\ SwapsClasses(f) => edits'[f] = edits[f]
                           /\ SwapsLimits(f)' <=> SwapsLimits(f)
                           /\ SwapsLimits(f) => edits'[f] = edits[f]
    BY <1>3, <1>4, OtherEditors
  <1>7. AtomicsStored'
    <2>1. \A f \in Editors : /\ SwapsClasses(f)' <=> SwapsClasses(f)
                             /\ SwapsClasses(f) => edits'[f] = edits[f]
      BY <1>6
    <2> QED
      BY <1>5, <2>1, AtomicsStill
  <1>8. CountStored'
    <2>1. \A f \in Editors : /\ SwapsLimits(f)' <=> SwapsLimits(f)
                             /\ SwapsLimits(f) => edits'[f] = edits[f]
      BY <1>6
    <2> QED
      BY <1>5, <2>1, CountStill
  <1> QED
    BY <1>7, <1>8

\* An atomic stored is what the change at hand makes of it.
LEMMA StoreStores ==
    ASSUME Changing, AtomicsStored, CountStored, NEW e \in Editors,
           StoreRate(e) \/ StoreBurst(e) \/ StoreShadows(e)
    PROVE  AtomicsStored' /\ CountStored'
  <1>1. edits[e].at # "idle" /\ classes' = classes /\ keyLimits' = keyLimits /\ count' = count
    BY DEF StoreRate, StoreBurst, StoreShadows
  <1>2. OfClasses(edits[e].change)
    BY DEF StoreRate, StoreBurst, StoreShadows, Changing, Pendings, Pending
  <1>3. DOMAIN atomics = {"rate", "burst", "shadows"}
    BY DEF Changing, Copied
  <1> DEFINE at == IF edits[e].at = "store" THEN "store_burst"
                   ELSE IF edits[e].at = "store_burst" THEN "store_shadows" ELSE "swap"
  <1>4. Step(e, at) /\ at \in {"store_burst", "store_shadows", "swap"}
        /\ (StoreRate(e) => at = "store_burst") /\ (StoreBurst(e) => at = "store_shadows")
        /\ (StoreShadows(e) => at = "swap")
    BY DEF StoreRate, StoreBurst, StoreShadows
  <1> HIDE DEF at
  <1>5. /\ DOMAIN edits' = Editors
        /\ \A f \in Editors : f # e => edits'[f] = edits[f]
        /\ edits'[e].at = at /\ edits'[e].change = edits[e].change
        /\ edits'[e].copy = edits[e].copy
    BY <1>1, <1>4, StepIs DEF Changing
  <1>6. \A f \in Editors : f # e => ~SwapsClasses(f) /\ ~SwapsClasses(f)'
    BY <1>1, <1>2, <1>5, OtherEditors
  <1>7. CountStored'
    BY <1>1, <1>2, <1>5, ClassStepCount
  <1>8. SwapsClasses(e)'
    BY <1>2, <1>4, <1>5 DEF SwapsClasses, Swapping
  <1>9. StoredOf(edits[e])'
    <2>1. CASE StoreRate(e)
      <3>1. ~SwapsClasses(e)
        BY <2>1 DEF StoreRate, SwapsClasses, Swapping
      <3>2. AtomicsAre(classes, classes, classes)
        BY <1>6, <3>1 DEF AtomicsStored
      <3>3. edits[e].at = "store" /\ atomics'.rate = edits[e].copy.default.rate
            /\ atomics'.burst = atomics.burst /\ atomics'.shadows = atomics.shadows
        BY <1>3, <2>1 DEF StoreRate
      <3>4. at = "store_burst"
        BY <1>4, <2>1
      <3> QED
        BY <1>1, <1>5, <3>2, <3>3, <3>4 DEF StoredOf, AtomicsAre, HasShadows
    <2>2. CASE StoreBurst(e)
      <3>1. edits[e].at = "store_burst" /\ atomics'.burst = edits[e].copy.default.burst
            /\ atomics'.rate = atomics.rate /\ atomics'.shadows = atomics.shadows
        BY <1>3, <2>2 DEF StoreBurst
      <3>2. AtomicsAre(edits[e].copy, classes, classes)
        BY <1>2, <3>1 DEF AtomicsStored, SwapsClasses, Swapping, StoredOf
      <3>3. at = "store_shadows"
        BY <1>4, <2>2
      <3> QED
        BY <1>1, <1>5, <3>1, <3>2, <3>3 DEF StoredOf, AtomicsAre, HasShadows
    <2>3. CASE StoreShadows(e)
      <3>1. edits[e].at = "store_shadows" /\ atomics'.shadows = HasShadows(edits[e].copy)
            /\ atomics'.rate = atomics.rate /\ atomics'.burst = atomics.burst
        BY <1>3, <2>3 DEF StoreShadows
      <3>2. AtomicsAre(edits[e].copy, edits[e].copy, classes)
        BY <1>2, <3>1 DEF AtomicsStored, SwapsClasses, Swapping, StoredOf
      <3>3. at = "swap"
        BY <1>4, <2>3
      <3> QED
        BY <1>1, <1>5, <3>1, <3>2, <3>3 DEF StoredOf, AtomicsAre, HasShadows
    <2> QED
      BY <2>1, <2>2, <2>3
  <1>10. AtomicsStored'
    BY <1>6, <1>8, <1>9 DEF AtomicsStored
  <1> QED
    BY <1>7, <1>10

\* The count stored is that of the change at hand.
LEMMA StoreCountStores ==
    ASSUME Changing, AtomicsStored, CountStored, NEW e \in Editors, StoreCount(e)
    PROVE  AtomicsStored' /\ CountStored'
  <1>1. /\ edits[e].at # "idle" /\ ~OfClasses(edits[e].change) /\ Step(e, "swap")
        /\ classes' = classes /\ atomics' = atomics /\ count' = SizeOf(edits[e].copy)
    BY DEF StoreCount
  <1>2. /\ DOMAIN edits' = Editors
        /\ \A f \in Editors : f # e => edits'[f] = edits[f]
        /\ edits'[e].at = "swap" /\ edits'[e].change = edits[e].change
        /\ edits'[e].copy = edits[e].copy
    BY <1>1, StepIs DEF Changing
  <1>3. AtomicsStored'
    BY <1>1, <1>2, KeyStepAtomics
  <1>4. \A f \in Editors : f # e => ~SwapsLimits(f)'
    BY <1>1, <1>2, OtherEditors
  <1>5. SwapsLimits(e)'
    BY <1>1, <1>2 DEF SwapsLimits, Swapping
  <1>6. CountStored'
    BY <1>1, <1>2, <1>4, <1>5 DEF CountStored, SizeOf
  <1> QED
    BY <1>3, <1>6

\* The swap at a change's end finds everything stored.
LEMMA SwapStores ==
    ASSUME Changing, AtomicsStored, CountStored, NEW e \in Editors,
           SwapClasses(e) \/ SwapKeyLimits(e)
    PROVE  AtomicsStored' /\ CountStored'
  <1>1. /\ edits' = [edits EXCEPT ![e] = NoChange] /\ DOMAIN edits = Editors
        /\ edits[e].at = "swap" /\ atomics' = atomics /\ count' = count
    BY DEF SwapClasses, SwapKeyLimits, Changing, Pendings
  <1>2. DOMAIN edits' = Editors /\ edits'[e].at = "idle"
        /\ \A f \in Editors : f # e => edits'[f] = edits[f]
    BY <1>1 DEF NoChange
  <1>3. ~SwapsClasses(e)' /\ ~SwapsLimits(e)'
    BY <1>2 DEF SwapsClasses, SwapsLimits, Swapping
  <1>4. CASE SwapClasses(e)
    <2>1. OfClasses(edits[e].change) /\ classes' = edits[e].copy /\ keyLimits' = keyLimits
      BY <1>4 DEF SwapClasses
    <2>2. CountStored'
      BY <1>1, <1>2, <2>1, ClassStepCount
    <2>3. \A f \in Editors : ~SwapsClasses(f)'
      BY <1>1, <1>2, <1>3, <2>1, OtherEditors
    <2>4. AtomicsAre(edits[e].copy, edits[e].copy, edits[e].copy)
      BY <1>1, <2>1 DEF AtomicsStored, SwapsClasses, Swapping, StoredOf
    <2>5. AtomicsAre(classes, classes, classes)'
      BY <1>1, <2>1, <2>4 DEF AtomicsAre, HasShadows
    <2> QED
      BY <2>2, <2>3, <2>5 DEF AtomicsStored
  <1>5. CASE SwapKeyLimits(e)
    <2>1. ~OfClasses(edits[e].change) /\ keyLimits' = edits[e].copy /\ classes' = classes
      BY <1>5 DEF SwapKeyLimits
    <2>2. AtomicsStored'
      BY <1>1, <1>2, <2>1, KeyStepAtomics
    <2>3. \A f \in Editors : ~SwapsLimits(f)'
      BY <1>1, <1>2, <1>3, <2>1, OtherEditors
    <2>4. count = SizeOf(edits[e].copy)
      BY <1>1, <2>1 DEF CountStored, SwapsLimits, Swapping
    <2>5. count' = SizeOf(keyLimits')
      BY <1>1, <2>1, <2>4 DEF SizeOf
    <2> QED
      BY <2>2, <2>3, <2>5 DEF CountStored, SizeOf
  <1> QED
    BY <1>4, <1>5

Kept == Changing /\ AtomicsStored /\ CountStored

\* Every step keeps Kept.
LEMMA StoredStep == Kept /\ [TariffsNext]_tariffVars => Kept'
  <1> SUFFICES ASSUME Kept, [TariffsNext]_tariffVars PROVE AtomicsStored' /\ CountStored'
    BY ChangingStep DEF Kept
  <1>1. CASE \E e \in Editors, c \in Changes : Begin(e, c)
    BY <1>1, BeginStores DEF Kept
  <1>2. CASE \E e \in Editors : StoreRate(e) \/ StoreBurst(e) \/ StoreShadows(e)
    BY <1>2, StoreStores DEF Kept
  <1>3. CASE \E e \in Editors : StoreCount(e)
    BY <1>3, StoreCountStores DEF Kept
  <1>4. CASE \E e \in Editors : SwapClasses(e) \/ SwapKeyLimits(e)
    BY <1>4, SwapStores DEF Kept
  <1>5. ASSUME UNCHANGED <<tables, edits>> PROVE AtomicsStored' /\ CountStored'
    <2>1. classes' = classes /\ keyLimits' = keyLimits /\ atomics' = atomics /\ count' = count
          /\ edits' = edits
      BY <1>5 DEF tables
    <2>2. \A f \in Editors : /\ SwapsClasses(f)' <=> SwapsClasses(f)
                             /\ SwapsClasses(f) => edits'[f] = edits[f]
      BY <2>1 DEF SwapsClasses, Swapping
    <2>3. \A f \in Editors : /\ SwapsLimits(f)' <=> SwapsLimits(f)
                             /\ SwapsLimits(f) => edits'[f] = edits[f]
      BY <2>1 DEF SwapsLimits, Swapping
    <2>4. AtomicsStored'
      BY <2>1, <2>2, AtomicsStill DEF Kept
    <2>5. CountStored'
      BY <2>1, <2>3, CountStill DEF Kept
    <2> QED
      BY <2>4, <2>5
  <1>6. CASE Checking \/ \E k \in TheKeys : FirstCheck(k)
    BY <1>5, <1>6, ChecksChangeNothing
  <1>7. CASE UNCHANGED tariffVars
    BY <1>5, <1>7 DEF tariffVars
  <1> QED
    BY <1>1, <1>2, <1>3, <1>4, <1>6, <1>7 DEF TariffsNext, Checking

\* Kept holds throughout.
LEMMA KeptAlways == TariffsSpec => []Kept
  <1>1. TariffsInit => Kept
    BY TariffsInitHolds, StoredInit DEF Kept
  <1> QED
    BY <1>1, StoredStep, PTL DEF TariffsSpec

\* What a check reads without a lock is some current table's.
LEMMA InForce ==
    ASSUME Kept
    PROVE  /\ \E t \in ClassesNow : atomics.rate = t.default.rate
           /\ \E t \in ClassesNow : atomics.burst = t.default.burst
           /\ \E t \in ClassesNow : atomics.shadows = HasShadows(t)
           /\ count = 0 => \E o \in LimitsNow : DOMAIN o = {}
           /\ classes \in ClassesNow /\ keyLimits \in LimitsNow
  <1>1. classes \in ClassesNow /\ keyLimits \in LimitsNow
    BY DEF ClassesNow, LimitsNow
  <1>2. /\ \E t \in ClassesNow : atomics.rate = t.default.rate
        /\ \E t \in ClassesNow : atomics.burst = t.default.burst
        /\ \E t \in ClassesNow : atomics.shadows = HasShadows(t)
    <2>1. CASE \A e \in Editors : ~SwapsClasses(e)
      <3>1. AtomicsAre(classes, classes, classes)
        BY <2>1 DEF Kept, AtomicsStored
      <3> QED
        BY <1>1, <3>1 DEF AtomicsAre
    <2>2. CASE \E e \in Editors : SwapsClasses(e)
      <3>1. PICK e \in Editors : SwapsClasses(e)
        BY <2>2
      <3>2. edits[e].copy \in ClassesNow
        BY <3>1 DEF ClassesNow, SwapsClasses
      <3>3. StoredOf(edits[e])
        BY <3>1 DEF Kept, AtomicsStored
      <3>4. edits[e].at \in {"store_burst", "store_shadows", "swap"}
        BY <3>1 DEF SwapsClasses, Swapping
      <3>5. \E t, u \in {classes, edits[e].copy} : AtomicsAre(edits[e].copy, t, u)
        BY <3>3, <3>4 DEF StoredOf
      <3> QED
        BY <1>1, <3>2, <3>5 DEF AtomicsAre
    <2> QED
      BY <2>1, <2>2
  <1>3. ASSUME NEW o, IsKeyTable(o), count = SizeOf(o), count = 0 PROVE DOMAIN o = {}
    BY <1>3, FS_EmptySet DEF IsKeyTable, SizeOf
  <1>4. ASSUME count = 0 PROVE \E o \in LimitsNow : DOMAIN o = {}
    <2>1. CASE \A e \in Editors : ~SwapsLimits(e)
      <3>1. IsKeyTable(keyLimits) /\ count = SizeOf(keyLimits)
        BY <2>1 DEF Kept, CountStored, Changing, TablesAre
      <3> QED
        BY <1>1, <1>3, <1>4, <3>1
    <2>2. CASE \E e \in Editors : SwapsLimits(e)
      <3>1. PICK e \in Editors : SwapsLimits(e)
        BY <2>2
      <3>2. edits[e].copy \in LimitsNow
        BY <3>1 DEF LimitsNow, SwapsLimits
      <3>3. IsKeyTable(edits[e].copy) /\ count = SizeOf(edits[e].copy)
        BY <3>1, CopyIs DEF Kept, CountStored, Changing, SwapsLimits, Swapping
      <3> QED
        BY <1>3, <1>4, <3>2, <3>3
    <2> QED
      BY <2>1, <2>2
  <1> QED
    BY <1>1, <1>2, <1>4

----------------------------------------------------------------------------
\* A check's steps: what it has read so far was in force at some moment of it.

CheckFields == {"at", "key", "holds", "rate", "got"}

NoLimitFor(key, limits) == \E o \in limits : key \notin DOMAIN o
NoShadows(seen) == \E t \in seen : DOMAIN t.shadows = {}

\* FreshInForce's.
Answered(c, seen, limits) ==
    \E overrides \in limits, t1, t2, t3 \in seen :
        /\ c.got.limit.rate = Resolve(t1, overrides, c.key).limit.rate
        /\ c.got.limit.burst = Resolve(t2, overrides, c.key).limit.burst
        /\ c.got.shadow = Resolve(t3, overrides, c.key).shadow
        /\ KeyClass[c.key] # DefaultClass => t1 = t2

Found(c, seen, limits) ==
    \/ c.at = "idle"
    \/ /\ DOMAIN c = CheckFields
       /\ \/ c.at \in {"count", "lock_limits", "with_limits"}
          \/ c.at = "flag" /\ NoLimitFor(c.key, limits)
          \/ c.at = "limit_of" /\ NoLimitFor(c.key, limits) /\ NoShadows(seen)
          \/ /\ c.at = "burst" /\ NoLimitFor(c.key, limits) /\ NoShadows(seen)
             /\ KeyClass[c.key] = DefaultClass
             /\ \E t \in seen : c.rate = t.default.rate
          \/ c.at = "done" /\ Answered(c, seen, limits)

Seen == check.at # "idle" => ClassesNow \subseteq seenClasses /\ LimitsNow \subseteq seenLimits

Checked == Seen /\ Found(check, seenClasses, seenLimits)

\* What a check found stays found as more is in force.
LEMMA FoundStays ==
    ASSUME NEW c, NEW seen, NEW limits, NEW seen2, NEW limits2,
           seen \subseteq seen2, limits \subseteq limits2, Found(c, seen, limits)
    PROVE  Found(c, seen2, limits2)
  <1>1. NoLimitFor(c.key, limits) => NoLimitFor(c.key, limits2)
    BY DEF NoLimitFor
  <1>2. NoShadows(seen) => NoShadows(seen2)
    BY DEF NoShadows
  <1>3. (\E t \in seen : c.rate = t.default.rate) => \E t \in seen2 : c.rate = t.default.rate
    OBVIOUS
  <1>4. Answered(c, seen, limits) => Answered(c, seen2, limits2)
    BY DEF Answered
  <1> QED
    BY <1>1, <1>2, <1>3, <1>4 DEF Found

\* A key with no limit of its own has its class's, and a class without shadows none.
LEMMA Plainly ==
    ASSUME NEW o, NEW key, key \notin DOMAIN o, NEW t
    PROVE  /\ Resolve(t, o, key).limit = LookUp(t, KeyClass[key])
           /\ DOMAIN t.shadows = {} => Resolve(t, o, key).shadow = NoLimit
  <1>1. Resolve(t, o, key) = [limit |-> LookUp(t, KeyClass[key]), shadow |-> ShadowOf(t, KeyClass[key])]
    BY DEF Resolve
  <1> QED
    BY <1>1 DEF ShadowOf

\* Seen holds after every step: it is what Notice takes down.
LEMMA NoticeSees == ASSUME Notice PROVE Seen'
  BY DEF Notice, Seen

\* What was in force since a check began only grows while it runs.
LEMMA NoticeGrows ==
    ASSUME Notice, check'.at # "idle"
    PROVE  /\ seenClasses \subseteq seenClasses' /\ seenLimits \subseteq seenLimits'
           /\ ClassesNow' \subseteq seenClasses' /\ LimitsNow' \subseteq seenLimits'
  BY DEF Notice

\* A step of others leaves what the check has found.
LEMMA Elsewhere ==
    ASSUME Checked, Notice, check' = check
    PROVE  Checked'
  <1>1. CASE check.at = "idle"
    BY <1>1, NoticeSees DEF Checked, Found
  <1>2. CASE check.at # "idle"
    BY <1>2, NoticeSees, NoticeGrows, FoundStays DEF Checked
  <1> QED
    BY <1>1, <1>2

\* The step of a check: nothing else moves.
LEMMA CheckStep ==
    ASSUME Kept, Checked, Notice, UNCHANGED <<tables, edits>>, check'.at # "idle",
           Found(check', seenClasses', seenLimits')
    PROVE  Checked'
  BY NoticeSees DEF Checked

\* With tables and editors as they were, so is what is in force.
LEMMA NowStill ==
    ASSUME UNCHANGED <<tables, edits>>
    PROVE  ClassesNow' = ClassesNow /\ LimitsNow' = LimitsNow
  BY DEF tables, ClassesNow, LimitsNow, Swapping

\* Each read of a check finds what is in force, or was since it began.
LEMMA ReadsKeep ==
    ASSUME Kept, Checked, Checking \/ \E k \in TheKeys : FirstCheck(k)
    PROVE  Checked'
  <1> DEFINE c == check
             d == check'
             sc == seenClasses'
             sl == seenLimits'
  <1>1. UNCHANGED <<tables, edits>> /\ Notice
    BY DEF Checking, FirstCheck, ReadCount, ReadFlag, LockLimits, LimitFor, LimitOf, ReadBurst, CheckDone
  <1>2. ClassesNow' = ClassesNow /\ LimitsNow' = LimitsNow
    BY <1>1, NowStill
  <1>3. /\ \E t \in ClassesNow : atomics.rate = t.default.rate
        /\ \E t \in ClassesNow : atomics.burst = t.default.burst
        /\ \E t \in ClassesNow : atomics.shadows = HasShadows(t)
        /\ count = 0 => \E o \in LimitsNow : DOMAIN o = {}
        /\ classes \in ClassesNow /\ keyLimits \in LimitsNow
    BY InForce
  <1>4. ASSUME d.at # "idle" PROVE ClassesNow \subseteq sc /\ LimitsNow \subseteq sl
    BY <1>1, <1>2, <1>4, NoticeGrows
  <1>5. ASSUME d.at # "idle", c.at # "idle" PROVE Found(c, sc, sl)
    BY <1>1, <1>5, NoticeGrows, FoundStays DEF Checked
  <1>6. SUFFICES ASSUME d.at # "idle" PROVE Found(d, sc, sl)
    BY <1>1, NoticeSees DEF Checked, Found
  <1>7. ClassesNow \subseteq sc /\ LimitsNow \subseteq sl
    BY <1>4, <1>6
  <1>8. CASE \E k \in TheKeys : FirstCheck(k)
    <2>1. d.at = "count" /\ DOMAIN d = CheckFields
      BY <1>8 DEF FirstCheck, CheckFields
    <2> QED
      BY <2>1 DEF Found
  <1>9. ASSUME c.at # "idle" PROVE DOMAIN c = CheckFields
    BY <1>5, <1>6, <1>9 DEF Found
  <1>10. CASE ReadCount
    <2>1. d = [c EXCEPT !.at = IF count = 0 THEN "flag" ELSE "lock_limits"]
          /\ DOMAIN c = CheckFields
      BY <1>9, <1>10 DEF ReadCount
    <2>2. DOMAIN d = CheckFields /\ d.key = c.key
          /\ d.at = IF count = 0 THEN "flag" ELSE "lock_limits"
      BY <2>1 DEF CheckFields
    <2>3. count = 0 => NoLimitFor(d.key, sl)
      BY <1>3, <1>7 DEF NoLimitFor
    <2> QED
      BY <2>2, <2>3 DEF Found
  <1>11. CASE ReadFlag
    <2>1. d = [c EXCEPT !.at = IF atomics.shadows THEN "lock_limits" ELSE "limit_of"]
          /\ DOMAIN c = CheckFields /\ c.at = "flag"
      BY <1>9, <1>11 DEF ReadFlag
    <2>2. DOMAIN d = CheckFields /\ d.key = c.key
          /\ d.at = IF atomics.shadows THEN "lock_limits" ELSE "limit_of"
      BY <2>1 DEF CheckFields
    <2>3. NoLimitFor(d.key, sl)
      BY <1>5, <1>6, <2>1, <2>2 DEF Found
    <2>4. ~atomics.shadows => NoShadows(sc)
      BY <1>3, <1>7 DEF NoShadows, HasShadows
    <2> QED
      BY <2>2, <2>3, <2>4 DEF Found
  <1>12. CASE LockLimits
    <2>1. d.at = "with_limits" /\ DOMAIN d = CheckFields
      BY <1>9, <1>12 DEF LockLimits, CheckFields
    <2> QED
      BY <2>1 DEF Found
  <1>13. ASSUME NEW answer, Done(answer), c.at # "idle"
         PROVE  DOMAIN d = CheckFields /\ d.at = "done" /\ d.got = answer /\ d.key = c.key
    BY <1>9, <1>13 DEF Done, CheckFields
  <1>14. CASE LimitFor
    <2>1. CASE atomics.shadows \/ c.key \in DOMAIN keyLimits
      <3>1. Done(Resolve(classes, keyLimits, c.key)) /\ c.at # "idle"
        BY <1>14, <2>1 DEF LimitFor
      <3>2. /\ DOMAIN d = CheckFields /\ d.at = "done" /\ d.key = c.key
            /\ d.got = Resolve(classes, keyLimits, d.key)
        BY <1>13, <3>1
      <3>3. Answered(d, sc, sl)
        BY <1>3, <1>7, <3>2 DEF Answered
      <3> QED
        BY <3>2, <3>3 DEF Found
    <2>2. CASE ~(atomics.shadows \/ c.key \in DOMAIN keyLimits)
      <3>1. d.at = "limit_of" /\ DOMAIN d = CheckFields /\ d.key = c.key
        BY <1>9, <1>14, <2>2 DEF LimitFor, CheckFields
      <3>2. NoLimitFor(d.key, sl)
        BY <1>3, <1>7, <2>2, <3>1 DEF NoLimitFor
      <3>3. NoShadows(sc)
        BY <1>3, <1>7, <2>2 DEF NoShadows, HasShadows
      <3> QED
        BY <3>1, <3>2, <3>3 DEF Found
    <2> QED
      BY <2>1, <2>2
  <1>15. CASE LimitOf
    <2>1. NoLimitFor(c.key, sl) /\ NoShadows(sc) /\ c.at = "limit_of"
      BY <1>5, <1>6, <1>15 DEF LimitOf, Found
    <2>2. CASE KeyClass[c.key] = DefaultClass
      <3>1. d = [c EXCEPT !.at = "burst", !.rate = atomics.rate] /\ DOMAIN c = CheckFields
        BY <1>9, <1>15, <2>2 DEF LimitOf
      <3>2. DOMAIN d = CheckFields /\ d.at = "burst" /\ d.key = c.key /\ d.rate = atomics.rate
        BY <3>1 DEF CheckFields
      <3>3. \E t \in sc : d.rate = t.default.rate
        BY <1>3, <1>7, <3>2
      <3> QED
        BY <2>1, <2>2, <3>2, <3>3 DEF Found
    <2>3. CASE KeyClass[c.key] # DefaultClass
      <3> DEFINE answer == [limit |-> LookUp(classes, KeyClass[c.key]), shadow |-> NoLimit]
      <3>1. Done(answer)
        BY <1>15, <2>3 DEF LimitOf
      <3>2. DOMAIN d = CheckFields /\ d.at = "done" /\ d.key = c.key /\ d.got = answer
        BY <1>13, <2>1, <3>1
      <3>3. d.got.limit = LookUp(classes, KeyClass[d.key]) /\ d.got.shadow = NoLimit
        BY <3>2
      <3>k. PICK k : k = d.key
        OBVIOUS
      <3>4. PICK o \in sl : k \notin DOMAIN o
        BY <2>1, <3>2, <3>k DEF NoLimitFor
      <3>5. PICK t3 \in sc : DOMAIN t3.shadows = {}
        BY <2>1 DEF NoShadows
      <3>6. Resolve(classes, o, k).limit = LookUp(classes, KeyClass[k])
        BY <3>4, Plainly
      <3>7. Resolve(t3, o, k).shadow = NoLimit
        BY <3>4, <3>5, Plainly
      <3>8. Answered(d, sc, sl)
        BY <1>3, <1>7, <3>3, <3>6, <3>7, <3>k DEF Answered
      <3> QED
        BY <3>2, <3>8 DEF Found
    <2> QED
      BY <2>2, <2>3
  <1>16. CASE ReadBurst
    <2>1. /\ NoLimitFor(c.key, sl) /\ NoShadows(sc) /\ c.at = "burst"
          /\ KeyClass[c.key] = DefaultClass /\ \E t \in sc : c.rate = t.default.rate
      BY <1>5, <1>6, <1>16 DEF ReadBurst, Found
    <2> DEFINE answer == [limit |-> Limit(c.rate, atomics.burst), shadow |-> NoLimit]
    <2>2. Done(answer)
      BY <1>16 DEF ReadBurst
    <2>3. DOMAIN d = CheckFields /\ d.at = "done" /\ d.key = c.key /\ d.got = answer
      BY <1>13, <2>1, <2>2
    <2>4. d.got.limit.rate = c.rate /\ d.got.limit.burst = atomics.burst /\ d.got.shadow = NoLimit
      BY <2>3 DEF Limit
    <2>k. PICK k : k = d.key
      OBVIOUS
    <2>5. PICK o \in sl : k \notin DOMAIN o
      BY <2>1, <2>3, <2>k DEF NoLimitFor
    <2>6. PICK t1 \in sc : c.rate = t1.default.rate
      BY <2>1
    <2>7. PICK t2 \in sc : atomics.burst = t2.default.burst
      BY <1>3, <1>7
    <2>8. PICK t3 \in sc : DOMAIN t3.shadows = {}
      BY <2>1 DEF NoShadows
    <2>default. KeyClass[k] = DefaultClass
      BY <2>1, <2>3, <2>k
    <2>9. Resolve(t1, o, k).limit = t1.default /\ Resolve(t2, o, k).limit = t2.default
      BY <2>5, <2>default, Plainly DEF LookUp
    <2>10. Resolve(t3, o, k).shadow = NoLimit
      BY <2>5, <2>8, Plainly
    <2>11. Answered(d, sc, sl)
      BY <2>1, <2>3, <2>4, <2>6, <2>7, <2>9, <2>10, <2>k, <2>default DEF Answered
    <2> QED
      BY <2>3, <2>11 DEF Found
  <1>17. CASE CheckDone
    BY <1>6, <1>17 DEF CheckDone, NoCheck
  <1> QED
    BY <1>8, <1>10, <1>11, <1>12, <1>14, <1>15, <1>16, <1>17 DEF Checking

\* Every step keeps Checked.
LEMMA CheckedStep == Kept /\ Checked /\ [TariffsNext]_tariffVars => Checked'
  <1> SUFFICES ASSUME Kept, Checked, [TariffsNext]_tariffVars PROVE Checked'
    OBVIOUS
  <1>1. CASE \E e \in Editors : \/ \E c \in Changes : Begin(e, c)
                                \/ StoreRate(e) \/ StoreBurst(e) \/ StoreShadows(e)
                                \/ SwapClasses(e) \/ StoreCount(e) \/ SwapKeyLimits(e)
    <2>1. Notice /\ check' = check
      BY <1>1 DEF Begin, StoreRate, StoreBurst, StoreShadows, SwapClasses, StoreCount, SwapKeyLimits
    <2> QED
      BY <2>1, Elsewhere
  <1>2. CASE Checking \/ \E k \in TheKeys : FirstCheck(k)
    BY <1>2, ReadsKeep
  <1>3. CASE UNCHANGED tariffVars
    <2>1. UNCHANGED <<tables, edits>> /\ UNCHANGED <<check, seenClasses, seenLimits>>
      BY <1>3 DEF tariffVars, firstCheckVars
    <2>2. ClassesNow' = ClassesNow /\ LimitsNow' = LimitsNow
      BY <2>1, NowStill
    <2> QED
      BY <2>1, <2>2 DEF Checked, Seen
  <1> QED
    BY <1>1, <1>2, <1>3 DEF TariffsNext, Checking

\* A key's first check, which reads two flags and two atomics outside every
\* lock while any number of changes are swapped in, comes to a limit and a
\* shadow that were in force at some moment of it.
THEOREM ChecksAreInForce == TariffsSpec => []FreshInForce
  <1>1. TariffsInit => Checked
    BY DEF TariffsInit, Checked, Seen, Found, NoCheck
  <1>2. Checked => FreshInForce
    BY DEF Checked, Found, FreshInForce, Answered
  <1> QED
    BY <1>1, <1>2, KeptAlways, CheckedStep, PTL DEF TariffsSpec

----------------------------------------------------------------------------
\* GossipAuth: a rollout.

AuthSpec == AuthInit /\ [][AuthNext]_authVars

AuthOf(r) == NewAuth(Ladder[r])

\* No two neighbours refuse each other.
LEMMA NeighboursUnderstand ==
    ASSUME NEW r \in Rungs, NEW q \in Neighbours(r)
    PROVE  /\ Refusal(AuthOf(r), Seal(AuthOf(q))) = "no"
           /\ Seal(AuthOf(q)) \in Secrets \union {NoTag}
  <1>1. q \in Rungs
    BY DEF Neighbours
  <1>2. CASE Ladder[q].mode = "off"
    <2>1. Seal(AuthOf(q)) = NoTag
      BY <1>2 DEF AuthOf, NewAuth, Seal, Setting
    <2>2. AuthOf(r).mode # "required"
      BY <1>2, LadderSteps DEF AuthOf, NewAuth, Setting
    <2> QED
      BY <2>1, <2>2 DEF Refusal
  <1>3. CASE Ladder[q].mode # "off"
    <2> DEFINE tag == Head(Ladder[q].secrets)
    <2>1. AuthOf(q) = Ladder[q] /\ Ladder[q].secrets # <<>>
      BY <1>1, <1>3, LadderAssumption DEF AuthOf, NewAuth
    <2>2. Seal(AuthOf(q)) = tag
      BY <2>1 DEF Seal
    <2>3. q \in Neighbours(q)
      BY <1>1, LadderAssumption DEF Neighbours, Rungs
    <2>4. tag \in SecretsOf(q)
      BY <1>1, <1>3, <2>3, LadderSteps
    <2>5. tag \in Secrets /\ tag # NoTag
      BY <1>1, <2>4, LadderAssumption DEF Secrets
    <2>6. AuthOf(r).mode # "off" => Ladder[r].mode # "off" /\ AuthOf(r) = Ladder[r]
      BY DEF AuthOf, NewAuth, Setting
    <2>7. AuthOf(r).mode # "off" => \E i \in 1 .. Len(AuthOf(r).secrets) : AuthOf(r).secrets[i] = tag
      BY <1>3, <2>6, LadderSteps DEF SecretsOf
    <2> HIDE DEF tag
    <2> QED
      BY <2>2, <2>5, <2>7 DEF Refusal
  <1> QED
    BY <1>2, <1>3

\* The rungs the nodes may be on, or have sealed with, are the operator's and the
\* one before it.
OnRungs(p) ==
    /\ p \in Neighbours(target)
    /\ \A n \in Pods : rung[n] \in {p, target} /\ batch[n] \in {0, p, target}
    /\ \A d \in wire : d.tag \in {Seal(AuthOf(p)), Seal(AuthOf(target))}

OwnRecordFirst ==
    \A d \in wire : d.to \in Pods /\ Head(d.message).true

RollingOut ==
    /\ target \in Rungs /\ steps \in 0..MaxSteps
    /\ rung \in [Pods -> Rungs]
    /\ batch \in [Pods -> Rungs \union {0}]
    /\ stopped \subseteq Pods
    /\ OwnRecordFirst
    /\ \E p \in Rungs : OnRungs(p)
    /\ outcome.refused = "no"
    /\ outcome # Silent => outcome.heard = Genuine(outcome.sent)

\* The rungs of the ladder are numbered.
LEMMA RungsAreNumbers == Rungs \subseteq Nat \ {0}
  BY LadderAssumption DEF Rungs

\* Being on rungs next to each other is mutual.
LEMMA NeighboursMeet ==
    ASSUME NEW r \in Rungs, NEW p \in Neighbours(r)
    PROVE  r \in Neighbours(p) /\ r \in Neighbours(r) /\ p \in Neighbours(p) /\ p \in Rungs
  BY RungsAreNumbers DEF Neighbours

\* RollingOut holds at the start.
LEMMA AuthInitHolds == AuthInit => RollingOut
  <1> SUFFICES ASSUME AuthInit PROVE RollingOut
    OBVIOUS
  <1>1. target \in Rungs /\ target \in Neighbours(target)
    BY RungsAreNumbers DEF AuthInit, Neighbours
  <1>2. OnRungs(target)
    BY <1>1 DEF AuthInit, OnRungs
  <1> QED
    BY <1>1, <1>2, LadderAssumption DEF AuthInit, RollingOut, OwnRecordFirst, Silent

\* Every step keeps RollingOut.
LEMMA AuthStep == RollingOut /\ [AuthNext]_authVars => RollingOut'
  <1> SUFFICES ASSUME RollingOut, [AuthNext]_authVars PROVE RollingOut'
    OBVIOUS
  <1>1. PICK p \in Rungs : OnRungs(p)
    BY DEF RollingOut
  <1>2. target \in Rungs /\ p \in Neighbours(target)
    BY <1>1 DEF RollingOut, OnRungs
  <1>3. ASSUME NEW n \in Pods, MakeBatch(n) PROVE RollingOut'
    <2>1. batch' = [batch EXCEPT ![n] = rung[n]] /\ batch \in [Pods -> Rungs \union {0}]
      BY <1>3 DEF MakeBatch, RollingOut
    <2>2. OnRungs(p)'
      BY <1>1, <1>3, <2>1 DEF MakeBatch, OnRungs, AuthOf
    <2> QED
      BY <1>3, <2>1, <2>2 DEF MakeBatch, RollingOut, OwnRecordFirst
  <1>4. ASSUME NEW n \in Pods, EndBatch(n) PROVE RollingOut'
    <2>1. batch' = [batch EXCEPT ![n] = 0] /\ batch \in [Pods -> Rungs \union {0}]
      BY <1>4 DEF EndBatch, RollingOut
    <2>2. OnRungs(p)'
      BY <1>1, <1>4, <2>1 DEF EndBatch, OnRungs, AuthOf
    <2> QED
      BY <1>4, <2>1, <2>2 DEF EndBatch, RollingOut, OwnRecordFirst
  <1>5. ASSUME NEW n \in Pods, Stop(n) PROVE RollingOut'
    <2>1. OnRungs(p)'
      BY <1>1, <1>5 DEF Stop, OnRungs, AuthOf
    <2> QED
      BY <1>5, <2>1 DEF Stop, RollingOut, OwnRecordFirst
  <1>6. ASSUME NEW n \in Pods, Reach(n) PROVE RollingOut'
    <2>1. rung' = [rung EXCEPT ![n] = target] /\ rung \in [Pods -> Rungs]
      BY <1>6 DEF Reach, RollingOut
    <2>2. OnRungs(p)'
      BY <1>1, <1>6, <2>1 DEF Reach, OnRungs, AuthOf
    <2> QED
      BY <1>2, <1>6, <2>1, <2>2 DEF Reach, RollingOut, OwnRecordFirst
  <1>7. ASSUME NEW n \in Pods, NEW to \in Pods \ {n}, NEW message \in Messages(n),
               SendOne(n, to, message)
        PROVE  RollingOut'
    <2> DEFINE d == [to |-> to, tag |-> Seal(NewAuth(Ladder[batch[n]])), message |-> message]
    <2>1. Head(message).true
      BY DEF Messages, Says
    <2>2. wire' = wire \union {d}
      BY <1>7 DEF SendOne
    <2>3. batch[n] \in {p, target}
      BY <1>1, <1>7 DEF SendOne, OnRungs
    <2>4. d.tag \in {Seal(AuthOf(p)), Seal(AuthOf(target))} /\ d.to \in Pods /\ Head(d.message).true
      BY <2>1, <2>3 DEF AuthOf
    <2> HIDE DEF d
    <2>5. OnRungs(p)'
      BY <1>1, <1>7, <2>2, <2>4 DEF SendOne, OnRungs, AuthOf
    <2> QED
      BY <1>7, <2>2, <2>4, <2>5 DEF SendOne, RollingOut, OwnRecordFirst
  <1>8. ASSUME NEW d \in wire, LoseDatagram(d) PROVE RollingOut'
    <2>1. OnRungs(p)'
      BY <1>1, <1>8 DEF LoseDatagram, OnRungs, AuthOf
    <2> QED
      BY <1>8, <2>1 DEF LoseDatagram, RollingOut, OwnRecordFirst
  <1>9. ASSUME NEW d \in wire, Receive(d) PROVE RollingOut'
    <2> DEFINE r == rung[d.to]
    <2>1. d.to \in Pods /\ Head(d.message).true
      BY DEF RollingOut, OwnRecordFirst
    <2>2. r \in {p, target} /\ d.tag \in {Seal(AuthOf(p)), Seal(AuthOf(target))}
      BY <1>1, <2>1 DEF OnRungs
    <2>3. Refusal(AuthOf(r), d.tag) = "no"
      BY <1>2, <2>2, NeighboursMeet, NeighboursUnderstand
    <2>4. outcome'.refused = "no" /\ outcome'.heard = Genuine(outcome'.sent)
      BY <1>9, <2>1, <2>3 DEF Receive, Screened, AuthOf
    <2>5. OnRungs(p)'
      BY <1>1, <1>9 DEF Receive, OnRungs, AuthOf
    <2> QED
      BY <1>9, <2>4, <2>5 DEF Receive, RollingOut, OwnRecordFirst
  <1>10. ASSUME NEW to \in Rungs, NextRung(to) PROVE RollingOut'
    <2>1. target' = to /\ target \in Neighbours(to)
      BY <1>2, <1>10, NeighboursMeet DEF NextRung
    <2>2. \A n \in Pods : rung'[n] = target /\ batch'[n] \in {0, target}
      BY <1>10 DEF NextRung
    <2>3. wire' = {}
      BY <1>10 DEF NextRung
    <2>5. \E q \in Rungs : OnRungs(q)'
      BY <1>2, <2>1, <2>2, <2>3 DEF OnRungs
    <2>6. steps' \in 0 .. MaxSteps
      BY <1>10, LadderAssumption DEF NextRung, RollingOut
    <2> QED
      BY <1>10, <2>5, <2>6 DEF NextRung, RollingOut, OwnRecordFirst
  <1>11. CASE UNCHANGED authVars
    <2>1. OnRungs(p)'
      BY <1>1, <1>11 DEF authVars, OnRungs, AuthOf
    <2> QED
      BY <1>11, <2>1 DEF authVars, RollingOut, OwnRecordFirst
  <1> QED
    BY <1>3, <1>4, <1>5, <1>6, <1>7, <1>8, <1>9, <1>10, <1>11 DEF AuthNext

\* While a fleet takes any ladder of settings whose neighbours understand each
\* other, a rung at a time, up or down, with nodes and batches a rung behind, no
\* datagram is refused and each brings all its genuine records.
THEOREM RolloutUnderstood == AuthSpec => []UnderstoodThroughout
  <1>1. RollingOut => UnderstoodThroughout
    <2> SUFFICES ASSUME RollingOut PROVE UnderstoodThroughout
      OBVIOUS
    <2>1. PICK p \in Rungs : OnRungs(p)
      BY DEF RollingOut
    <2>2. Seal(AuthOf(p)) \in Secrets \union {NoTag} /\ Seal(AuthOf(target)) \in Secrets \union {NoTag}
      BY <2>1, NeighboursMeet, NeighboursUnderstand DEF OnRungs, RollingOut
    <2>3. \A d \in wire : d.to \in Pods /\ d.tag \in Secrets \union {NoTag}
      BY <2>1, <2>2 DEF OnRungs, RollingOut, OwnRecordFirst
    <2> QED
      BY <2>3 DEF RollingOut, UnderstoodThroughout, AuthTypeOK
  <1>2. AuthInit => RollingOut
    BY AuthInitHolds
  <1>3. RollingOut /\ [AuthNext]_authVars => RollingOut'
    BY AuthStep
  <1> QED
    BY <1>1, <1>2, <1>3, PTL DEF AuthSpec

----------------------------------------------------------------------------
\* Counting.

CountingSpec == CountingInit /\ [][CountingNext]_countingVars

Words == [attempts : Nat, denials : Nat]
Tallies == [attempts : Nat, denied : Nat, shadow : Nat, overflowed : Nat, unknown : Nat]
Reports == [attempts : Nat, denied : Nat, shadow : Nat, overflowed : Nat, unknown : Nat, tick : Nat]
CountFrames == [at : {"idle", "attempt", "decide", "shadow", "deny"}, place : Places,
                denied : BOOLEAN, under : BOOLEAN, ticks : 0 .. 2]
Stages == {"idle", "shadows", "overflow", "report", "look", "release", "clear", "clear_shadows", "free"}
Taking == {"shadows", "overflow", "report"}

OwnCounts == counts["own"]
OverflowCounts == counts["overflow"]

CountTypes ==
    /\ held \in {"held", "busy", "free"}
    /\ counts \in [Places -> Words] /\ shadowDenials \in Nat
    /\ request \in [Clients -> CountFrames]
    /\ stage \in Stages /\ taken \in Tallies /\ tracked \in BOOLEAN
    /\ report \in Reports /\ rounds \in Nat
    /\ tallied \in [Counted -> Nat] /\ certain \in [Counted -> Nat]

\* What a tick has taken so far, and when a slot is being reset.
Staged ==
    /\ stage \notin Taking => taken = NoTally
    /\ stage \in {"shadows", "overflow"} => taken.overflowed = 0
    /\ stage = "shadows" => taken.shadow = 0
    /\ held = "busy" <=> stage \in {"clear", "clear_shadows", "free"}

OnOwn(c) == request[c].at # "idle" /\ request[c].place = "own"
After(c) == request[c].at \in {"decide", "shadow", "deny"}

\* A check no reset ran under holds the slot, and only such a slot has a shadow.
Marked ==
    \A c \in Clients :
        /\ OnOwn(c) /\ ~request[c].under => ~Resetting /\ held = "held"
        /\ request[c].at = "shadow" => request[c].place = "own"

\* An attempt that has been taken keeps the key known until it is reported.
InSight == (stage \in Taking => tracked /\ taken.attempts > 0) /\ (stage = "look" => tracked)

Attempted ==
    \A c \in Clients : (OnOwn(c) /\ After(c) /\ ~request[c].under) =>
        /\ request[c].ticks = 0 => OwnCounts.attempts > 0
        /\ request[c].ticks = 1 => OwnCounts.attempts > 0 \/ InSight

\* A shadow's denial still in the slot, and counted for certain, keeps it.
Unreported ==
    certain.shadow > report.shadow + taken.shadow =>
        /\ held = "held" /\ ~Resetting
        /\ stage \in {"overflow", "report", "look"} => OwnCounts.attempts > 0 \/ InSight

KnownAttempts == report.attempts + taken.attempts + OwnCounts.attempts + OverflowCounts.attempts
KnownDenied == report.denied + taken.denied + OwnCounts.denials + OverflowCounts.denials
KnownShadow == report.shadow + taken.shadow + shadowDenials

Within ==
    /\ certain.attempts <= KnownAttempts /\ KnownAttempts <= tallied.attempts
    /\ certain.denied <= KnownDenied /\ KnownDenied <= tallied.denied
    /\ certain.shadow <= KnownShadow /\ KnownShadow <= tallied.shadow
    /\ stage \in {"release", "clear"} =>
          /\ certain.attempts <= report.attempts + taken.attempts + OverflowCounts.attempts
          /\ certain.denied <= report.denied + taken.denied + OverflowCounts.denials

Undisturbed == certain.attempts = tallied.attempts /\ certain.denied = tallied.denied

\* The checks between their attempt and their denial; of what is taken and reported,
\* dv denials were in the overflow slot.
Between(p) == {c \in Clients : request[c].place = p /\ After(c)}

Paired(dv) ==
    LET av == report.overflowed + taken.overflowed
        ra == report.attempts + taken.attempts
        rd == report.denied + taken.denied
    IN
    /\ dv <= av /\ dv <= rd /\ av <= ra /\ rd - dv <= ra - av
    /\ dv + OverflowCounts.denials + Cardinality(Between("overflow")) <= av + OverflowCounts.attempts
    /\ (rd - dv) + OwnCounts.denials + Cardinality(Between("own")) <= (ra - av) + OwnCounts.attempts

Ahead == Undisturbed => \E dv \in Nat : Paired(dv)
Cleared == Undisturbed /\ Resetting => OwnCounts.attempts = 0 /\ OwnCounts.denials = 0

Reported ==
    /\ report.overflowed + report.unknown <= report.attempts
    /\ taken.overflowed + taken.unknown <= taken.attempts
    /\ exported = Published(Stats(report))
    /\ Undisturbed => report.denied <= report.attempts

CountInv == /\ CountTypes
            /\ Staged /\ Marked /\ Attempted /\ Unreported /\ Within /\ Ahead /\ Cleared /\ Reported

\* The requests at a place can be counted.
LEMMA BetweenFinite ==
    ASSUME NEW p PROVE IsFiniteSet(Between(p)) /\ Cardinality(Between(p)) \in Nat
  BY ClientsAssumption, FS_Subset, FS_CardinalityType DEF Between

\* The counts and tallies are numbers.
LEMMA Plain ==
    ASSUME CountTypes
    PROVE  /\ OwnCounts \in Words /\ OverflowCounts \in Words
           /\ OwnCounts.attempts \in Nat /\ OwnCounts.denials \in Nat /\ OverflowCounts.attempts \in Nat /\ OverflowCounts.denials \in Nat
           /\ taken.attempts \in Nat /\ taken.denied \in Nat /\ taken.shadow \in Nat
           /\ taken.overflowed \in Nat /\ taken.unknown \in Nat
           /\ report.attempts \in Nat /\ report.denied \in Nat /\ report.shadow \in Nat
           /\ report.overflowed \in Nat /\ report.unknown \in Nat /\ report.tick \in Nat
           /\ \A f \in Counted : tallied[f] \in Nat /\ certain[f] \in Nat
           /\ tallied.attempts \in Nat /\ tallied.denied \in Nat /\ tallied.shadow \in Nat
           /\ certain.attempts \in Nat /\ certain.denied \in Nat /\ certain.shadow \in Nat
  BY DEF CountTypes, OwnCounts, OverflowCounts, Words, Tallies, Reports, Places, Counted

\* What counting once does.
LEMMA Told ==
    ASSUME CountTypes, NEW field \in Counted, NEW counted \in BOOLEAN, Tell(field, counted)
    PROVE  /\ tallied' \in [Counted -> Nat] /\ certain' \in [Counted -> Nat]
           /\ tallied'[field] = tallied[field] + 1
           /\ counted => certain'[field] = certain[field] + 1
           /\ ~counted => certain'[field] = certain[field]
           /\ \A f \in Counted \ {field} : tallied'[f] = tallied[f] /\ certain'[f] = certain[f]
  <1>1. tallied' = [tallied EXCEPT ![field] = tallied[field] + 1]
    BY DEF Tell
  <1>2. certain' = IF counted THEN [certain EXCEPT ![field] = certain[field] + 1] ELSE certain
    BY DEF Tell
  <1>3. tallied[field] + 1 \in Nat /\ certain[field] + 1 \in Nat
    BY DEF CountTypes
  <1> QED
    BY <1>1, <1>2, <1>3 DEF CountTypes

\* One word of a slot raised, the others are as they were.
LEMMA WordsUp ==
    ASSUME CountTypes, NEW p \in Places, NEW a \in 0 .. 1, NEW d \in 0 .. 1,
           counts' \in [Places -> Words], counts'[p].attempts = counts[p].attempts + a,
           counts'[p].denials = counts[p].denials + d, \A q \in Places \ {p} : counts'[q] = counts[q]
    PROVE  /\ p = "own" => /\ OwnCounts'.attempts = OwnCounts.attempts + a /\ OwnCounts'.denials = OwnCounts.denials + d
                           /\ OverflowCounts' = OverflowCounts
           /\ p = "overflow" => /\ OverflowCounts'.attempts = OverflowCounts.attempts + a /\ OverflowCounts'.denials = OverflowCounts.denials + d
                                /\ OwnCounts' = OwnCounts
  BY DEF OwnCounts, OverflowCounts, Places

\* CountAttempt.
LEMMA AttemptCounts ==
    ASSUME CountInv, NEW c \in Clients, CountAttempt(c)
    PROVE  CountInv'
  <1> DEFINE p == request[c].place
             frame == [request[c] EXCEPT !.at = "decide"]
  <1>1. request[c] \in CountFrames /\ p \in Places /\ request[c].under \in BOOLEAN
    BY DEF CountInv, CountTypes, CountFrames
  <1>2. frame \in CountFrames /\ frame.at = "decide" /\ frame.place = p
        /\ frame.under = request[c].under /\ frame.ticks = request[c].ticks
    BY <1>1 DEF CountFrames
  <1>3. request' = [request EXCEPT ![c] = frame]
    BY DEF CountAttempt
  <1> HIDE DEF frame
  <1>4. /\ request' \in [Clients -> CountFrames] /\ request'[c] = frame
        /\ \A d \in Clients \ {c} : request'[d] = request[d]
    BY <1>2, <1>3 DEF CountInv, CountTypes
  <1>5. /\ counts' \in [Places -> Words] /\ counts'[p].attempts = counts[p].attempts + 1
        /\ counts'[p].denials = counts[p].denials + 0
        /\ \A q \in Places \ {p} : counts'[q] = counts[q]
    BY <1>1 DEF CountAttempt, CountInv, CountTypes, Words
  <1>6. /\ tallied' \in [Counted -> Nat] /\ certain' \in [Counted -> Nat]
        /\ tallied'.attempts = tallied.attempts + 1
        /\ ~request[c].under => certain'.attempts = certain.attempts + 1
        /\ request[c].under => certain'.attempts = certain.attempts
        /\ tallied'.denied = tallied.denied /\ certain'.denied = certain.denied
        /\ tallied'.shadow = tallied.shadow /\ certain'.shadow = certain.shadow
    <2>1. "attempts" \in Counted /\ "denied" \in Counted \ {"attempts"} /\ "shadow" \in Counted \ {"attempts"}
      BY DEF Counted
    <2>2. Tell("attempts", ~request[c].under) /\ (~request[c].under) \in BOOLEAN /\ CountTypes
      BY <1>1 DEF CountAttempt, CountInv
    <2> QED
      BY <2>1, <2>2, Told
  <1>7. /\ p = "own" => /\ OwnCounts'.attempts = OwnCounts.attempts + 1 /\ OwnCounts'.denials = OwnCounts.denials + 0
                        /\ OverflowCounts' = OverflowCounts
        /\ p = "overflow" => /\ OverflowCounts'.attempts = OverflowCounts.attempts + 1 /\ OverflowCounts'.denials = OverflowCounts.denials + 0
                             /\ OwnCounts' = OwnCounts
    BY <1>1, <1>5, WordsUp DEF CountInv
  <1>8. UNCHANGED <<held, shadowDenials, stage, taken, tracked, report, exported, rounds>>
    BY DEF CountAttempt, countTask
  <1>9. CountTypes'
    BY <1>4, <1>5, <1>6, <1>8 DEF CountInv, CountTypes
  <1>10. request[c].at = "attempt" /\ ~After(c) /\ After(c)' /\ OnOwn(c)' = (p = "own")
    BY <1>2, <1>4 DEF CountAttempt, After, OnOwn
  <1>11. ASSUME NEW q \in Places, q = p PROVE Cardinality(Between(q))' = Cardinality(Between(q)) + 1
    <2>1. Between(q)' = Between(q) \union {c} /\ c \notin Between(q)
      BY <1>2, <1>4, <1>10, <1>11 DEF Between, After
    <2> QED
      BY <2>1, BetweenFinite, FS_AddElement
  <1>12. ASSUME NEW q \in Places, q # p PROVE Cardinality(Between(q))' = Cardinality(Between(q))
    <2>1. Between(q)' = Between(q)
      BY <1>2, <1>4, <1>12 DEF Between, After
    <2> QED
      BY <2>1
  <1>13. Staged' /\ (Resetting' <=> Resetting) /\ (InSight' <=> InSight)
    BY <1>8 DEF CountInv, Staged, InSight, Resetting
  <1>14. Marked'
    BY <1>1, <1>2, <1>4, <1>8, <1>10, <1>13 DEF CountInv, Marked, OnOwn
  <1>15. /\ OwnCounts'.attempts \in Nat /\ OwnCounts'.attempts >= OwnCounts.attempts
         /\ p = "own" => OwnCounts'.attempts > 0
         /\ OwnCounts.attempts > 0 => OwnCounts'.attempts > 0
    <2>1. OwnCounts.attempts \in Nat
      BY Plain DEF CountInv
    <2>2. CASE p = "own"
      BY <1>7, <2>1, <2>2
    <2>3. CASE p = "overflow"
      BY <1>7, <2>1, <2>3
    <2> QED
      BY <1>1, <2>2, <2>3 DEF Places
  <1>16. Attempted'
    <2> SUFFICES ASSUME NEW d \in Clients, OnOwn(d)', After(d)', ~request'[d].under
                 PROVE  /\ request'[d].ticks = 0 => OwnCounts'.attempts > 0
                        /\ request'[d].ticks = 1 => OwnCounts'.attempts > 0 \/ InSight'
      BY DEF Attempted
    <2>1. CASE d = c
      BY <1>10, <1>15, <2>1
    <2>2. CASE d # c
      <3>1. request'[d] = request[d]
        BY <1>4, <2>2
      <3>2. OnOwn(d) /\ After(d)
        BY <3>1 DEF OnOwn, After
      <3> QED
        BY <1>13, <1>15, <3>1, <3>2, Plain DEF CountInv, Attempted
    <2> QED
      BY <2>1, <2>2
  <1>17. Unreported'
    BY <1>6, <1>8, <1>13, <1>15, Plain DEF CountInv, Unreported
  <1>18. p = "own" /\ Resetting => request[c].under
    BY <1>10 DEF CountInv, Marked, OnOwn
  <1>19. Within'
    BY <1>1, <1>6, <1>7, <1>8, <1>18, Plain
       DEF CountInv, Within, KnownAttempts, KnownDenied, KnownShadow, Places, Resetting
  <1>20. Undisturbed' => Undisturbed /\ ~request[c].under
    <2>1. certain.attempts <= tallied.attempts /\ certain.denied <= tallied.denied
      BY Plain DEF CountInv, Within, KnownAttempts, KnownDenied
    <2> QED
      BY <1>1, <1>6, <2>1, Plain DEF CountInv, Undisturbed
  <1>21. Ahead'
    <2> SUFFICES ASSUME Undisturbed' PROVE \E dv \in Nat : Paired(dv)'
      BY DEF Ahead
    <2>1. PICK dv \in Nat : Paired(dv)
      BY <1>20 DEF CountInv, Ahead
    <2>2. Cardinality(Between("own")) \in Nat /\ Cardinality(Between("overflow")) \in Nat
      BY BetweenFinite
    <2> SUFFICES Paired(dv)'
      OBVIOUS
    <2>3. CASE p = "own"
      BY <1>7, <1>8, <1>11, <1>12, <2>1, <2>2, <2>3, Plain DEF CountInv, Paired, Places
    <2>4. CASE p = "overflow"
      BY <1>7, <1>8, <1>11, <1>12, <2>1, <2>2, <2>4, Plain DEF CountInv, Paired, Places
    <2> QED
      BY <1>1, <2>3, <2>4 DEF Places
  <1>22. Cleared'
    BY <1>1, <1>7, <1>13, <1>18, <1>20 DEF CountInv, Cleared, Places
  <1>23. Reported'
    BY <1>8, <1>20 DEF CountInv, Reported
  <1> QED
    BY <1>9, <1>13, <1>14, <1>16, <1>17, <1>19, <1>21, <1>22, <1>23 DEF CountInv

\* claim() and the decision count nothing.
LEMMA DecisionCounts ==
    ASSUME CountInv, NEW c \in Clients, NEW frame \in CountFrames,
           request' = [request EXCEPT ![c] = frame],
           \/ frame.at = "idle"
           \/ frame.at = "attempt" /\ (frame.place = "own" /\ ~frame.under => held' = "held" /\ ~Resetting)
           \/ /\ After(c) /\ frame.at \in {"shadow", "deny"}
              /\ frame.place = request[c].place /\ frame.under = request[c].under /\ frame.ticks = request[c].ticks
              /\ frame.at = "shadow" => frame.place = "own",
           held' \in {"held", held}, held' = "held" => held # "busy",
           UNCHANGED <<counts, shadowDenials, countTask, countHistory>>
    PROVE  CountInv'
  <1>1. /\ request' \in [Clients -> CountFrames] /\ request'[c] = frame
        /\ \A d \in Clients \ {c} : request'[d] = request[d]
    BY DEF CountInv, CountTypes
  <1>2. UNCHANGED <<counts, shadowDenials, stage, taken, tracked, report, exported, rounds, tallied, certain>>
    BY DEF countTask, countHistory
  <1>3. CountTypes'
    BY <1>1, <1>2 DEF CountInv, CountTypes
  <1>4. Staged' /\ (Resetting' <=> Resetting) /\ (InSight' <=> InSight)
    BY <1>2 DEF CountInv, Staged, InSight, Resetting
  <1>5. ASSUME NEW q \in Places
        PROVE  Cardinality(Between(q)') \in Nat /\ Cardinality(Between(q)') <= Cardinality(Between(q))
    <2>1. Between(q)' \subseteq Between(q)
      BY <1>1 DEF Between, After
    <2> QED
      BY <2>1, BetweenFinite, FS_Subset, FS_CardinalityType
  <1>6. OwnCounts' = OwnCounts /\ OverflowCounts' = OverflowCounts
    BY <1>2 DEF OwnCounts, OverflowCounts
  <1>7. Marked'
    <2> SUFFICES ASSUME NEW d \in Clients
                 PROVE  /\ OnOwn(d)' /\ ~request'[d].under => ~Resetting' /\ held' = "held"
                        /\ request'[d].at = "shadow" => request'[d].place = "own"
      BY DEF Marked
    <2>1. CASE d = c
      <3>1. CASE After(c)
        BY <1>1, <1>4, <2>1, <3>1 DEF CountInv, Marked, OnOwn, After
      <3> QED
        BY <1>1, <1>4, <2>1, <3>1 DEF OnOwn
    <2>2. CASE d # c
      BY <1>1, <1>4, <2>2 DEF CountInv, Marked, OnOwn
    <2> QED
      BY <2>1, <2>2
  <1>8. Attempted'
    <2> SUFFICES ASSUME NEW d \in Clients, OnOwn(d)', After(d)', ~request'[d].under
                 PROVE  /\ request'[d].ticks = 0 => OwnCounts'.attempts > 0
                        /\ request'[d].ticks = 1 => OwnCounts'.attempts > 0 \/ InSight'
      BY DEF Attempted
    <2>1. OnOwn(d) /\ After(d) /\ ~request[d].under /\ request'[d].ticks = request[d].ticks
      BY <1>1 DEF OnOwn, After
    <2> QED
      BY <1>4, <1>6, <2>1 DEF CountInv, Attempted
  <1>9. Unreported'
    BY <1>2, <1>4, <1>6 DEF CountInv, Unreported
  <1>10. Within'
    BY <1>2, <1>6 DEF CountInv, Within, KnownAttempts, KnownDenied, KnownShadow
  <1>11. Undisturbed' <=> Undisturbed
    BY <1>2 DEF Undisturbed
  <1>12. Ahead'
    <2> SUFFICES ASSUME Undisturbed' PROVE \E dv \in Nat : Paired(dv)'
      BY DEF Ahead
    <2>1. PICK dv \in Nat : Paired(dv)
      BY <1>11 DEF CountInv, Ahead
    <2>2. /\ Cardinality(Between("own")) \in Nat /\ Cardinality(Between("overflow")) \in Nat
          /\ Cardinality(Between("own")') \in Nat /\ Cardinality(Between("own")') <= Cardinality(Between("own"))
          /\ Cardinality(Between("overflow")') \in Nat
          /\ Cardinality(Between("overflow")') <= Cardinality(Between("overflow"))
      BY <1>5, BetweenFinite DEF Places
    <2>3. Paired(dv)'
      BY <1>2, <1>6, <2>1, <2>2, Plain DEF CountInv, Paired
    <2> QED
      BY <2>3
  <1>13. Cleared' /\ Reported'
    BY <1>2, <1>4, <1>6, <1>11 DEF CountInv, Cleared, Reported
  <1> QED
    BY <1>3, <1>4, <1>7, <1>8, <1>9, <1>10, <1>12, <1>13 DEF CountInv

\* A request arrives and counts its attempt.
LEMMA ArrivalCounts ==
    ASSUME CountInv, NEW c \in Clients, NEW p \in Places, Arrive(c, p)
    PROVE  CountInv'
  <1> DEFINE late == p = "own" /\ Resetting
             frame == [NotChecking EXCEPT !.at = "attempt", !.place = p, !.under = late]
  <1>1. frame \in CountFrames /\ frame.at = "attempt" /\ frame.place = p /\ frame.under = late
    <2>1. late \in BOOLEAN
      BY DEF Resetting
    <2>2. NotChecking \in CountFrames
      BY DEF NotChecking, CountFrames, Places
    <2> HIDE DEF late
    <2> QED
      BY <2>1, <2>2 DEF CountFrames
  <1>2. request' = [request EXCEPT ![c] = frame]
    BY DEF Arrive
  <1> HIDE DEF frame
  <1>3. /\ held' \in {"held", held} /\ (held' = "held" => held # "busy")
        /\ UNCHANGED <<counts, shadowDenials, countTask, countHistory>>
    BY DEF Arrive
  <1>4. p = "own" => held' = "held"
    BY DEF Arrive
  <1> QED
    BY <1>1, <1>2, <1>3, <1>4, DecisionCounts

\* A request is decided and counts its denials.
LEMMA DecideCounts ==
    ASSUME CountInv, NEW c \in Clients, DecideBoth(c)
    PROVE  CountInv'
  <1>1. PICK denied \in BOOLEAN, shadow \in IF request[c].place = "own" THEN BOOLEAN ELSE {FALSE} :
           request' = [request EXCEPT ![c] =
                IF ~shadow /\ ~denied THEN NotChecking
                ELSE [request[c] EXCEPT !.at = IF shadow THEN "shadow" ELSE "deny", !.denied = denied]]
    BY DEF DecideBoth
  <1> DEFINE on == [request[c] EXCEPT !.at = IF shadow THEN "shadow" ELSE "deny", !.denied = denied]
             frame == IF ~shadow /\ ~denied THEN NotChecking ELSE on
  <1>2. request[c] \in CountFrames /\ shadow \in BOOLEAN /\ After(c)
    BY DEF DecideBoth, CountInv, CountTypes, After
  <1>3. /\ on \in CountFrames /\ on.at = (IF shadow THEN "shadow" ELSE "deny") /\ on.place = request[c].place
        /\ on.under = request[c].under /\ on.ticks = request[c].ticks
    BY <1>2 DEF CountFrames
  <1>4. NotChecking \in CountFrames /\ NotChecking.at = "idle"
    BY DEF NotChecking, CountFrames, Places
  <1>5. shadow => request[c].place = "own"
    BY <1>1
  <1>6. request' = [request EXCEPT ![c] = frame]
    BY <1>1
  <1>7. UNCHANGED <<counts, shadowDenials, countTask, countHistory>> /\ held' = held
    BY DEF DecideBoth, countWords
  <1> HIDE DEF on
  <1>8. CASE ~shadow /\ ~denied
    BY <1>4, <1>6, <1>7, <1>8, DecisionCounts DEF CountInv, CountTypes, Staged
  <1>9. CASE shadow \/ denied
    BY <1>2, <1>3, <1>5, <1>6, <1>7, <1>9, DecisionCounts
  <1> QED
    BY <1>8, <1>9

\* CountShadowDenial.
LEMMA ShadowDenialCounts ==
    ASSUME CountInv, NEW c \in Clients, CountShadowDenial(c)
    PROVE  CountInv'
  <1> DEFINE counted == ~request[c].under /\ request[c].ticks <= 1
             deny == [request[c] EXCEPT !.at = "deny"]
             frame == IF request[c].denied THEN deny ELSE NotChecking
  <1>1. request[c] \in CountFrames /\ request[c].at = "shadow" /\ request[c].place = "own"
    BY DEF CountInv, CountTypes, Marked, CountShadowDenial
  <1>2. /\ deny \in CountFrames /\ deny.at = "deny" /\ deny.place = request[c].place
        /\ deny.under = request[c].under /\ deny.ticks = request[c].ticks
    BY <1>1 DEF CountFrames
  <1>3. NotChecking \in CountFrames /\ NotChecking.at = "idle"
    BY DEF NotChecking, CountFrames, Places
  <1>4. request' = [request EXCEPT ![c] = frame]
    BY DEF CountShadowDenial
  <1> HIDE DEF deny
  <1>5. /\ frame \in CountFrames
        /\ \/ frame.at = "idle"
           \/ /\ frame.at = "deny" /\ frame.place = request[c].place
              /\ frame.under = request[c].under /\ frame.ticks = request[c].ticks
    BY <1>2, <1>3
  <1> HIDE DEF frame
  <1>6. /\ request' \in [Clients -> CountFrames] /\ request'[c] = frame
        /\ \A d \in Clients \ {c} : request'[d] = request[d]
    BY <1>4, <1>5 DEF CountInv, CountTypes
  <1>7. /\ tallied' \in [Counted -> Nat] /\ certain' \in [Counted -> Nat]
        /\ tallied'.shadow = tallied.shadow + 1
        /\ counted => certain'.shadow = certain.shadow + 1
        /\ ~counted => certain'.shadow = certain.shadow
        /\ tallied'.denied = tallied.denied /\ certain'.denied = certain.denied
        /\ tallied'.attempts = tallied.attempts /\ certain'.attempts = certain.attempts
    <2>1. "shadow" \in Counted /\ "denied" \in Counted \ {"shadow"} /\ "attempts" \in Counted \ {"shadow"}
      BY DEF Counted
    <2>2. Tell("shadow", counted) /\ counted \in BOOLEAN /\ CountTypes
      BY <1>1 DEF CountShadowDenial, CountInv
    <2> HIDE DEF counted
    <2> QED
      BY <2>1, <2>2, Told
  <1>8. UNCHANGED <<held, counts, stage, taken, tracked, report, exported, rounds>>
        /\ shadowDenials' = shadowDenials + 1
    BY DEF CountShadowDenial, countTask
  <1>9. CountTypes'
    BY <1>6, <1>7, <1>8 DEF CountInv, CountTypes
  <1>10. Staged' /\ (Resetting' <=> Resetting) /\ (InSight' <=> InSight) /\ OwnCounts' = OwnCounts /\ OverflowCounts' = OverflowCounts
    BY <1>8 DEF CountInv, Staged, InSight, Resetting, OwnCounts, OverflowCounts
  <1>11. Marked'
    <2> SUFFICES ASSUME NEW d \in Clients
                 PROVE  /\ OnOwn(d)' /\ ~request'[d].under => ~Resetting' /\ held' = "held"
                        /\ request'[d].at = "shadow" => request'[d].place = "own"
      BY DEF Marked
    <2>1. CASE d = c
      BY <1>1, <1>5, <1>6, <1>8, <1>10, <2>1 DEF CountInv, Marked, OnOwn
    <2>2. CASE d # c
      BY <1>6, <1>8, <1>10, <2>2 DEF CountInv, Marked, OnOwn
    <2> QED
      BY <2>1, <2>2
  <1>12. Attempted'
    <2> SUFFICES ASSUME NEW d \in Clients, OnOwn(d)', After(d)', ~request'[d].under
                 PROVE  /\ request'[d].ticks = 0 => OwnCounts'.attempts > 0
                        /\ request'[d].ticks = 1 => OwnCounts'.attempts > 0 \/ InSight'
      BY DEF Attempted
    <2>1. OnOwn(d) /\ After(d) /\ ~request[d].under /\ request'[d].ticks = request[d].ticks
      BY <1>1, <1>5, <1>6 DEF OnOwn, After
    <2> QED
      BY <1>10, <2>1 DEF CountInv, Attempted
  <1>13. Unreported'
    <2>1. CASE ~counted
      BY <1>7, <1>8, <1>10, <2>1 DEF CountInv, Unreported
    <2>2. CASE counted
      <3>1. OnOwn(c) /\ After(c) /\ request[c].ticks \in {0, 1} /\ ~request[c].under
        BY <1>1, <2>2 DEF OnOwn, After, CountFrames
      <3>2. held = "held" /\ ~Resetting
        BY <3>1 DEF CountInv, Marked
      <3>3. OwnCounts.attempts > 0 \/ InSight
        BY <3>1 DEF CountInv, Attempted
      <3> QED
        BY <1>8, <1>10, <3>2, <3>3 DEF Unreported
    <2> QED
      BY <2>1, <2>2
  <1>14. Within'
    BY <1>1, <1>7, <1>8, <1>10, Plain DEF CountInv, CountTypes, Within, KnownAttempts, KnownDenied, KnownShadow
  <1>15. Undisturbed' <=> Undisturbed
    BY <1>7 DEF Undisturbed
  <1>16. ASSUME NEW q \in Places
         PROVE  Cardinality(Between(q)') \in Nat /\ Cardinality(Between(q)') <= Cardinality(Between(q))
    <2>1. Between(q)' \subseteq Between(q)
      BY <1>1, <1>5, <1>6 DEF Between, After
    <2> QED
      BY <2>1, BetweenFinite, FS_Subset, FS_CardinalityType
  <1>17. Ahead'
    <2> SUFFICES ASSUME Undisturbed' PROVE \E dv \in Nat : Paired(dv)'
      BY DEF Ahead
    <2>1. PICK dv \in Nat : Paired(dv)
      BY <1>15 DEF CountInv, Ahead
    <2>2. /\ Cardinality(Between("own")) \in Nat /\ Cardinality(Between("overflow")) \in Nat
          /\ Cardinality(Between("own")') \in Nat /\ Cardinality(Between("own")') <= Cardinality(Between("own"))
          /\ Cardinality(Between("overflow")') \in Nat
          /\ Cardinality(Between("overflow")') <= Cardinality(Between("overflow"))
      BY <1>16, BetweenFinite DEF Places
    <2>3. Paired(dv)'
      BY <1>8, <1>10, <2>1, <2>2, Plain DEF CountInv, Paired
    <2> QED
      BY <2>3
  <1>18. Cleared' /\ Reported'
    BY <1>8, <1>10, <1>15 DEF CountInv, Cleared, Reported
  <1> QED
    BY <1>9, <1>10, <1>11, <1>12, <1>13, <1>14, <1>17, <1>18 DEF CountInv

\* CountDenial.
LEMMA DenialCounts ==
    ASSUME CountInv, NEW c \in Clients, CountDenial(c)
    PROVE  CountInv'
  <1> DEFINE p == request[c].place
  <1>1. request[c] \in CountFrames /\ p \in Places /\ request[c].under \in BOOLEAN /\ After(c) /\ request[c].at = "deny"
    BY DEF CountInv, CountTypes, CountFrames, After, CountDenial
  <1>2. NotChecking \in CountFrames /\ NotChecking.at = "idle"
    BY DEF NotChecking, CountFrames, Places
  <1>3. request' = [request EXCEPT ![c] = NotChecking]
    BY DEF CountDenial
  <1>4. /\ request' \in [Clients -> CountFrames] /\ request'[c].at = "idle"
        /\ \A d \in Clients \ {c} : request'[d] = request[d]
    BY <1>2, <1>3 DEF CountInv, CountTypes
  <1>5. /\ counts' \in [Places -> Words] /\ counts'[p].attempts = counts[p].attempts + 0
        /\ counts'[p].denials = counts[p].denials + 1
        /\ \A q \in Places \ {p} : counts'[q] = counts[q]
    BY <1>1 DEF CountDenial, CountInv, CountTypes, Words
  <1>6. /\ tallied' \in [Counted -> Nat] /\ certain' \in [Counted -> Nat]
        /\ tallied'.denied = tallied.denied + 1
        /\ ~request[c].under => certain'.denied = certain.denied + 1
        /\ request[c].under => certain'.denied = certain.denied
        /\ tallied'.attempts = tallied.attempts /\ certain'.attempts = certain.attempts
        /\ tallied'.shadow = tallied.shadow /\ certain'.shadow = certain.shadow
    <2>1. "denied" \in Counted /\ "attempts" \in Counted \ {"denied"} /\ "shadow" \in Counted \ {"denied"}
      BY DEF Counted
    <2>2. Tell("denied", ~request[c].under) /\ (~request[c].under) \in BOOLEAN /\ CountTypes
      BY <1>1 DEF CountDenial, CountInv
    <2> QED
      BY <2>1, <2>2, Told
  <1>7. /\ p = "own" => /\ OwnCounts'.attempts = OwnCounts.attempts + 0 /\ OwnCounts'.denials = OwnCounts.denials + 1
                        /\ OverflowCounts' = OverflowCounts
        /\ p = "overflow" => /\ OverflowCounts'.attempts = OverflowCounts.attempts + 0 /\ OverflowCounts'.denials = OverflowCounts.denials + 1
                             /\ OwnCounts' = OwnCounts
    BY <1>1, <1>5, WordsUp DEF CountInv
  <1>8. UNCHANGED <<held, shadowDenials, stage, taken, tracked, report, exported, rounds>>
    BY DEF CountDenial, countTask
  <1>9. CountTypes'
    BY <1>4, <1>5, <1>6, <1>8 DEF CountInv, CountTypes
  <1>10. Staged' /\ (Resetting' <=> Resetting) /\ (InSight' <=> InSight)
    BY <1>8 DEF CountInv, Staged, InSight, Resetting
  <1>11. ASSUME NEW q \in Places, q = p PROVE Cardinality(Between(q)') = Cardinality(Between(q)) - 1
    <2>1. Between(q)' = Between(q) \ {c} /\ c \in Between(q)
      BY <1>1, <1>4, <1>11 DEF Between, After
    <2> QED
      BY <2>1, BetweenFinite, FS_RemoveElement
  <1>12. ASSUME NEW q \in Places, q # p PROVE Cardinality(Between(q)') = Cardinality(Between(q))
    <2>1. Between(q)' = Between(q)
      BY <1>4, <1>12 DEF Between, After
    <2> QED
      BY <2>1
  <1>13. OwnCounts'.attempts = OwnCounts.attempts
    <2>1. OwnCounts.attempts \in Nat
      BY Plain DEF CountInv
    <2>2. CASE p = "own"
      BY <1>7, <2>1, <2>2
    <2>3. CASE p = "overflow"
      BY <1>7, <2>1, <2>3
    <2> QED
      BY <1>1, <2>2, <2>3 DEF Places
  <1>14. Marked'
    BY <1>4, <1>8, <1>10 DEF CountInv, Marked, OnOwn
  <1>15. Attempted'
    BY <1>4, <1>10, <1>13 DEF CountInv, Attempted, OnOwn, After
  <1>16. Unreported'
    BY <1>6, <1>8, <1>10, <1>13 DEF CountInv, Unreported
  <1>17. p = "own" /\ Resetting => request[c].under
    BY <1>1 DEF CountInv, Marked, OnOwn, After
  <1>18. Within'
    BY <1>1, <1>6, <1>7, <1>8, <1>17, Plain
       DEF CountInv, Within, KnownAttempts, KnownDenied, KnownShadow, Places, Resetting
  <1>19. Undisturbed' => Undisturbed /\ ~request[c].under
    <2>1. certain.attempts <= tallied.attempts /\ certain.denied <= tallied.denied
      BY Plain DEF CountInv, Within, KnownAttempts, KnownDenied
    <2> QED
      BY <1>1, <1>6, <2>1, Plain DEF CountInv, Undisturbed
  <1>20. Ahead'
    <2> SUFFICES ASSUME Undisturbed' PROVE \E dv \in Nat : Paired(dv)'
      BY DEF Ahead
    <2>1. PICK dv \in Nat : Paired(dv)
      BY <1>19 DEF CountInv, Ahead
    <2>2. Cardinality(Between("own")) \in Nat /\ Cardinality(Between("overflow")) \in Nat
      BY BetweenFinite
    <2> SUFFICES Paired(dv)'
      OBVIOUS
    <2>3. CASE p = "own"
      BY <1>7, <1>8, <1>11, <1>12, <2>1, <2>2, <2>3, Plain DEF CountInv, Paired, Places
    <2>4. CASE p = "overflow"
      BY <1>7, <1>8, <1>11, <1>12, <2>1, <2>2, <2>4, Plain DEF CountInv, Paired, Places
    <2> QED
      BY <1>1, <2>3, <2>4 DEF Places
  <1>21. Cleared'
    BY <1>1, <1>7, <1>10, <1>17, <1>19 DEF CountInv, Cleared, Places
  <1>22. Reported'
    BY <1>8, <1>19 DEF CountInv, Reported
  <1> QED
    BY <1>9, <1>10, <1>14, <1>15, <1>16, <1>18, <1>20, <1>21, <1>22 DEF CountInv

----------------------------------------------------------------------------
\* sync().

\* What every step of the task's leaves alone.
LEMMA SameRequests ==
    ASSUME UNCHANGED request
    PROVE  /\ \A q \in Places : Cardinality(Between(q)') = Cardinality(Between(q))
           /\ \A d \in Clients : OnOwn(d)' = OnOwn(d) /\ After(d)' = After(d)
  <1>1. \A q \in Places : Between(q)' = Between(q)
    BY DEF Between, After
  <1> QED
    BY <1>1 DEF OnOwn, After

\* A tick takes the counts of the slot.
LEMMA SlotTaken ==
    ASSUME CountInv, TakeCounts, held = "held"
    PROVE  CountInv'
  <1> DEFINE unknown == IF UnknownClass THEN NoTally.unknown + OwnCounts.attempts ELSE NoTally.unknown
  <1>1. /\ taken = NoTally /\ stage = "idle" /\ stage' = "shadows"
        /\ taken.attempts = 0 /\ taken.denied = 0 /\ taken.shadow = 0 /\ taken.overflowed = 0 /\ taken.unknown = 0
    BY DEF CountInv, Staged, TakeCounts, Taking, NoTally
  <1>2. taken' = [NoTally EXCEPT !.attempts = OwnCounts.attempts, !.denied = OwnCounts.denials, !.unknown = unknown]
    BY DEF TakeCounts, OwnCounts
  <1>3. unknown \in Nat /\ unknown <= OwnCounts.attempts
    BY ClientsAssumption, Plain DEF CountInv, NoTally
  <1> HIDE DEF unknown
  <1>4. /\ taken' \in Tallies /\ taken'.attempts = OwnCounts.attempts /\ taken'.denied = OwnCounts.denials
        /\ taken'.shadow = 0 /\ taken'.overflowed = 0 /\ taken'.unknown = unknown
    BY <1>2, <1>3, Plain DEF CountInv, NoTally, Tallies
  <1>5. counts' \in [Places -> Words] /\ OwnCounts' = NoCounts /\ OverflowCounts' = OverflowCounts
    BY DEF TakeCounts, CountInv, CountTypes, OwnCounts, OverflowCounts, Words, NoCounts, Places
  <1>6. OwnCounts'.attempts = 0 /\ OwnCounts'.denials = 0
    BY <1>5 DEF NoCounts
  <1>7. ASSUME NEW d \in Clients
        PROVE  /\ request'[d] \in CountFrames /\ request'[d].at = request[d].at
               /\ request'[d].place = request[d].place /\ request'[d].under = request[d].under
               /\ request[d].at # "idle" /\ request'[d].ticks # 2 =>
                     request'[d].ticks = 1 /\ request[d].ticks = 0
    <2> DEFINE up == IF request[d].ticks = 2 THEN 2 ELSE request[d].ticks + 1
    <2>1. request[d] \in CountFrames
      BY DEF CountInv, CountTypes
    <2>2. up \in 0 .. 2 /\ (up # 2 => up = 1 /\ request[d].ticks = 0)
      BY <2>1 DEF CountFrames
    <2>3. request'[d] = IF request[d].at = "idle" THEN request[d] ELSE [request[d] EXCEPT !.ticks = up]
      BY DEF TakeCounts
    <2> HIDE DEF up
    <2> QED
      BY <2>1, <2>2, <2>3 DEF CountFrames
  <1>8. request' \in [Clients -> CountFrames]
    <2>1. request' = [c \in Clients |-> request'[c]]
      BY DEF TakeCounts
    <2> QED
      BY <1>7, <2>1
  <1>9. UNCHANGED <<held, shadowDenials, report, exported, tallied, certain>> /\ rounds' = rounds + 1
        /\ tracked' = (tracked \/ OwnCounts.attempts > 0)
    BY DEF TakeCounts, countHistory, OwnCounts
  <1>10. CountTypes'
    <2>1. tracked' \in BOOLEAN
      BY <1>9 DEF CountInv, CountTypes
    <2>2. stage' \in Stages
      BY <1>1 DEF Stages
    <2> QED
      BY <1>4, <1>5, <1>8, <1>9, <2>1, <2>2 DEF CountInv, CountTypes
  <1>11. Staged' /\ ~Resetting /\ ~Resetting'
    BY <1>1, <1>4, <1>9 DEF Staged, Taking, Resetting
  <1>12. OwnCounts.attempts > 0 => InSight'
    BY <1>1, <1>4, <1>9 DEF InSight, Taking
  <1>13. Marked'
    BY <1>7, <1>9, <1>11 DEF Marked, OnOwn, CountInv
  <1>14. Attempted'
    <2> SUFFICES ASSUME NEW d \in Clients, OnOwn(d)', After(d)', ~request'[d].under
                 PROVE  /\ request'[d].ticks = 0 => OwnCounts'.attempts > 0
                        /\ request'[d].ticks = 1 => OwnCounts'.attempts > 0 \/ InSight'
      BY DEF Attempted
    <2>1. OnOwn(d) /\ After(d) /\ ~request[d].under
      BY <1>7 DEF OnOwn, After
    <2>2. request[d].at # "idle"
      BY <2>1 DEF OnOwn
    <2> QED
      BY <1>7, <1>12, <2>1, <2>2 DEF CountInv, Attempted
  <1>15. Unreported'
    BY <1>1, <1>4, <1>9, <1>11 DEF CountInv, Unreported
  <1>16. Within'
    BY <1>1, <1>4, <1>5, <1>6, <1>9, Plain DEF CountInv, Within, KnownAttempts, KnownDenied, KnownShadow, CountTypes
  <1>17. Undisturbed' <=> Undisturbed
    BY <1>9 DEF Undisturbed
  <1>18. \A q \in Places : Cardinality(Between(q)') = Cardinality(Between(q))
    <2>1. \A q \in Places : Between(q)' = Between(q)
      BY <1>7 DEF Between, After
    <2> QED
      BY <2>1
  <1>19. Ahead'
    <2> SUFFICES ASSUME Undisturbed' PROVE \E dv \in Nat : Paired(dv)'
      BY DEF Ahead
    <2>1. PICK dv \in Nat : Paired(dv)
      BY <1>17 DEF CountInv, Ahead
    <2>2. /\ Cardinality(Between("own")) \in Nat /\ Cardinality(Between("overflow")) \in Nat
          /\ Cardinality(Between("own")') = Cardinality(Between("own"))
          /\ Cardinality(Between("overflow")') = Cardinality(Between("overflow"))
      BY <1>18, BetweenFinite DEF Places
    <2>3. Paired(dv)'
      BY <1>1, <1>4, <1>5, <1>6, <1>9, <2>1, <2>2, Plain DEF CountInv, Paired
    <2> QED
      BY <2>3
  <1>20. Cleared' /\ Reported'
    BY <1>1, <1>3, <1>4, <1>9, <1>11, <1>17, Plain DEF CountInv, Cleared, Reported
  <1> QED
    BY <1>10, <1>11, <1>13, <1>14, <1>15, <1>16, <1>19, <1>20 DEF CountInv

\* A tick finds no slot to take counts from.
LEMMA NoSlotTaken ==
    ASSUME CountInv, TakeCounts, held # "held"
    PROVE  CountInv'
  <1>1. /\ taken = NoTally /\ stage = "idle" /\ stage' = "overflow" /\ taken' = NoTally
        /\ taken.overflowed = 0
    BY DEF CountInv, Staged, TakeCounts, Taking, NoTally
  <1>2. UNCHANGED <<held, counts, shadowDenials, request, taken, tracked, report, exported, tallied, certain>>
        /\ rounds' = rounds + 1
    BY <1>1 DEF TakeCounts, countHistory
  <1>3. CountTypes'
    BY <1>1, <1>2 DEF CountInv, CountTypes, Stages
  <1>4. OwnCounts' = OwnCounts /\ OverflowCounts' = OverflowCounts /\ ~Resetting /\ ~Resetting'
    BY <1>1, <1>2 DEF OwnCounts, OverflowCounts, Resetting
  <1>5. \A d \in Clients : ~(OnOwn(d) /\ ~request[d].under)
    BY DEF CountInv, Marked
  <1>6. Staged' /\ Marked' /\ Attempted'
    BY <1>1, <1>2, <1>4, <1>5 DEF CountInv, Staged, Taking, Marked, Attempted, OnOwn
  <1>7. Unreported' /\ Within'
    BY <1>1, <1>2, <1>4 DEF CountInv, Unreported, Within, KnownAttempts, KnownDenied, KnownShadow
  <1>8. Ahead' /\ Cleared' /\ Reported'
    <2>1. /\ Cardinality(Between("own")') = Cardinality(Between("own"))
          /\ Cardinality(Between("overflow")') = Cardinality(Between("overflow"))
      BY <1>2, SameRequests DEF Places
    <2>2. ASSUME NEW dv \in Nat, Paired(dv) PROVE Paired(dv)'
      BY <1>2, <1>4, <2>1, <2>2 DEF Paired
    <2>3. (Undisturbed' <=> Undisturbed)
      BY <1>2 DEF Undisturbed
    <2>4. Ahead'
      BY <2>2, <2>3 DEF CountInv, Ahead
    <2> QED
      BY <1>2, <1>4, <2>3, <2>4 DEF CountInv, Cleared, Reported
  <1> QED
    BY <1>3, <1>6, <1>7, <1>8 DEF CountInv

\* A tick takes the shadow's denials.
LEMMA ShadowsTaken ==
    ASSUME CountInv, TakeShadowDenials
    PROVE  CountInv'
  <1>1. stage = "shadows" /\ stage' = "overflow" /\ taken.shadow = 0 /\ taken.overflowed = 0
    BY DEF CountInv, Staged, TakeShadowDenials
  <1>2. taken' = [taken EXCEPT !.shadow = shadowDenials] /\ shadowDenials' = 0 /\ shadowDenials \in Nat
    BY DEF TakeShadowDenials, CountInv, CountTypes
  <1>3. /\ taken' \in Tallies /\ taken'.attempts = taken.attempts /\ taken'.denied = taken.denied
        /\ taken'.shadow = shadowDenials /\ taken'.overflowed = taken.overflowed /\ taken'.unknown = taken.unknown
    BY <1>2 DEF CountInv, CountTypes, Tallies
  <1>4. UNCHANGED <<held, counts, request, tracked, report, exported, rounds, tallied, certain>>
    BY DEF TakeShadowDenials, countHistory
  <1>5. CountTypes'
    BY <1>1, <1>2, <1>3, <1>4 DEF CountInv, CountTypes, Stages
  <1>6. OwnCounts' = OwnCounts /\ OverflowCounts' = OverflowCounts /\ ~Resetting /\ ~Resetting' /\ (InSight' <=> InSight)
    BY <1>1, <1>3, <1>4 DEF OwnCounts, OverflowCounts, Resetting, InSight, Taking
  <1>7. Staged' /\ Marked'
    BY <1>1, <1>3, <1>4, <1>6 DEF CountInv, Staged, Taking, Marked, OnOwn
  <1>8. Attempted'
    BY <1>4, <1>6 DEF CountInv, Attempted, OnOwn, After
  <1>9. Unreported' /\ Within'
    BY <1>1, <1>2, <1>3, <1>4, <1>6, Plain DEF CountInv, Unreported, Within, KnownAttempts, KnownDenied, KnownShadow
  <1>10. Ahead' /\ Cleared' /\ Reported'
    <2>1. /\ Cardinality(Between("own")') = Cardinality(Between("own"))
          /\ Cardinality(Between("overflow")') = Cardinality(Between("overflow"))
      BY <1>4, SameRequests DEF Places
    <2>2. ASSUME NEW dv \in Nat, Paired(dv) PROVE Paired(dv)'
      BY <1>3, <1>4, <1>6, <2>1, <2>2 DEF Paired
    <2>3. (Undisturbed' <=> Undisturbed)
      BY <1>4 DEF Undisturbed
    <2>4. Ahead'
      BY <2>2, <2>3 DEF CountInv, Ahead
    <2> QED
      BY <1>3, <1>4, <1>6, <2>3, <2>4 DEF CountInv, Cleared, Reported
  <1> QED
    BY <1>5, <1>7, <1>8, <1>9, <1>10 DEF CountInv

\* A tick takes the overflow's counts.
LEMMA OverflowTaken ==
    ASSUME CountInv, TakeOverflow
    PROVE  CountInv'
  <1>1. stage = "overflow" /\ stage' = "report" /\ taken.overflowed = 0
    BY DEF CountInv, Staged, TakeOverflow
  <1> DEFINE attempts == taken.attempts + OverflowCounts.attempts
             denied == taken.denied + OverflowCounts.denials
  <1>0. attempts \in Nat /\ denied \in Nat /\ OverflowCounts.attempts \in Nat /\ taken \in Tallies
    BY Plain DEF CountInv, CountTypes
  <1>2. taken' = [taken EXCEPT !.overflowed = OverflowCounts.attempts, !.attempts = attempts, !.denied = denied]
    BY DEF TakeOverflow, WithOverflow, OverflowCounts
  <1>3. /\ taken' \in Tallies /\ taken'.attempts = taken.attempts + OverflowCounts.attempts
        /\ taken'.denied = taken.denied + OverflowCounts.denials
        /\ taken'.shadow = taken.shadow /\ taken'.overflowed = OverflowCounts.attempts /\ taken'.unknown = taken.unknown
    <2> HIDE DEF attempts, denied
    <2>1. /\ taken' \in Tallies /\ taken'.attempts = attempts /\ taken'.denied = denied
          /\ taken'.shadow = taken.shadow /\ taken'.overflowed = OverflowCounts.attempts /\ taken'.unknown = taken.unknown
      BY <1>0, <1>2 DEF Tallies
    <2> QED
      BY <2>1 DEF attempts, denied
  <1>4. UNCHANGED <<held, shadowDenials, request, tracked, report, exported, rounds, tallied, certain>>
    BY DEF TakeOverflow, countHistory
  <1>5. counts' \in [Places -> Words] /\ OverflowCounts' = NoCounts /\ OwnCounts' = OwnCounts
    BY DEF TakeOverflow, CountInv, CountTypes, OwnCounts, OverflowCounts, Words, NoCounts, Places
  <1>6. OverflowCounts'.attempts = 0 /\ OverflowCounts'.denials = 0
    BY <1>5 DEF NoCounts
  <1>7. CountTypes'
    BY <1>1, <1>3, <1>4, <1>5 DEF CountInv, CountTypes, Stages
  <1>8. ~Resetting /\ ~Resetting' /\ (InSight => InSight')
    BY <1>1, <1>3, <1>4, Plain DEF Resetting, InSight, Taking, CountInv
  <1>9. Staged' /\ Marked'
    BY <1>1, <1>3, <1>4, <1>8 DEF CountInv, Staged, Taking, Marked, OnOwn
  <1>10. Attempted'
    BY <1>4, <1>5, <1>8 DEF CountInv, Attempted, OnOwn, After
  <1>11. Unreported' /\ Within'
    BY <1>1, <1>3, <1>4, <1>5, <1>6, <1>8, Plain
       DEF CountInv, Unreported, Within, KnownAttempts, KnownDenied, KnownShadow
  <1>12. Ahead' /\ Cleared' /\ Reported'
    <2>1. /\ Cardinality(Between("own")') = Cardinality(Between("own"))
          /\ Cardinality(Between("overflow")') = Cardinality(Between("overflow"))
          /\ Cardinality(Between("own")) \in Nat /\ Cardinality(Between("overflow")) \in Nat
      BY <1>4, SameRequests, BetweenFinite DEF Places
    <2>2. ASSUME NEW dv \in Nat, Paired(dv), NEW d \in Nat, d = dv + OverflowCounts.denials PROVE Paired(d)'
      BY <1>1, <1>3, <1>4, <1>5, <1>6, <2>1, <2>2, Plain DEF CountInv, Paired
    <2>3. (Undisturbed' <=> Undisturbed)
      BY <1>4 DEF Undisturbed
    <2>4. \A dv \in Nat : dv + OverflowCounts.denials \in Nat
      BY Plain DEF CountInv
    <2>5. Ahead'
      BY <2>2, <2>3, <2>4 DEF CountInv, Ahead
    <2> QED
      BY <1>1, <1>3, <1>4, <1>8, <2>3, <2>5, Plain DEF CountInv, Cleared, Reported
  <1> QED
    BY <1>7, <1>9, <1>10, <1>11, <1>12 DEF CountInv

\* A report is raised by what the tick took.
LEMMA AddedIs ==
    ASSUME CountTypes
    PROVE  /\ Added(report, taken) \in Reports
           /\ \A f \in {"attempts", "denied", "shadow", "overflowed", "unknown"} :
                  Added(report, taken)[f] = report[f] + taken[f]
  <1> DEFINE rep == Added(report, taken)
             fields == {"attempts", "denied", "shadow", "overflowed", "unknown"}
  <1>1. DOMAIN report = fields \union {"tick"}
    BY DEF CountTypes, Reports
  <1>2. rep = [f \in fields \union {"tick"} |-> IF f = "tick" THEN rounds ELSE report[f] + taken[f]]
    BY <1>1 DEF Added
  <1>3. \A f \in fields : report[f] \in Nat /\ taken[f] \in Nat
    BY Plain
  <1>4. rounds \in Nat
    BY DEF CountTypes
  <1>5. \A f \in fields : rep[f] = report[f] + taken[f] /\ rep[f] \in Nat
    BY <1>2, <1>3
  <1>6. rep["tick"] \in Nat
    BY <1>2, <1>4
  <1>7. rep \in Reports
    BY <1>2, <1>5, <1>6 DEF Reports
  <1> QED
    BY <1>5, <1>7

\* A tick reports what it took.
LEMMA RoundReported ==
    ASSUME CountInv, ReportCounts
    PROVE  CountInv'
  <1>1. stage = "report" /\ stage' = "look" /\ taken' = NoTally
    BY DEF CountInv, Staged, ReportCounts
  <1>2. /\ report' \in Reports
        /\ report'.attempts = report.attempts + taken.attempts /\ report'.denied = report.denied + taken.denied
        /\ report'.shadow = report.shadow + taken.shadow
        /\ report'.overflowed = report.overflowed + taken.overflowed
        /\ report'.unknown = report.unknown + taken.unknown
    BY AddedIs DEF ReportCounts, CountInv
  <1>3. /\ taken' \in Tallies /\ taken'.attempts = 0 /\ taken'.denied = 0
        /\ taken'.shadow = 0 /\ taken'.overflowed = 0 /\ taken'.unknown = 0
    BY <1>1 DEF NoTally, Tallies
  <1>4. UNCHANGED <<held, counts, shadowDenials, request, rounds, tallied, certain>>
    BY DEF ReportCounts, countHistory, countWords
  <1>5. tracked' \in BOOLEAN /\ (taken.attempts > 0 => tracked' = tracked) /\ exported' = Published(Stats(report))'
    BY DEF ReportCounts, CountInv, CountTypes
  <1>6. CountTypes'
    BY <1>1, <1>2, <1>3, <1>4, <1>5 DEF CountInv, CountTypes, Stages
  <1>7. OwnCounts' = OwnCounts /\ OverflowCounts' = OverflowCounts /\ ~Resetting /\ ~Resetting' /\ (InSight => InSight')
    BY <1>1, <1>4, <1>5 DEF OwnCounts, OverflowCounts, Resetting, InSight, Taking
  <1>8. Staged' /\ Marked'
    BY <1>1, <1>4, <1>7 DEF CountInv, Staged, Taking, Marked, OnOwn
  <1>9. Attempted'
    BY <1>4, <1>7 DEF CountInv, Attempted, OnOwn, After
  <1>10. Unreported' /\ Within'
    BY <1>1, <1>2, <1>3, <1>4, <1>7, Plain DEF CountInv, Unreported, Within, KnownAttempts, KnownDenied, KnownShadow
  <1>11. Undisturbed' <=> Undisturbed
    BY <1>4 DEF Undisturbed
  <1>12. ASSUME NEW dv \in Nat, Paired(dv) PROVE Paired(dv)' /\ report'.denied <= report'.attempts
    <2>1. /\ Cardinality(Between("own")') = Cardinality(Between("own"))
          /\ Cardinality(Between("overflow")') = Cardinality(Between("overflow"))
      BY <1>4, SameRequests DEF Places
    <2>2. Paired(dv)'
      BY <1>2, <1>3, <1>7, <1>12, <2>1, Plain DEF CountInv, Paired
    <2>3. report'.denied <= report'.attempts
      BY <1>2, <1>12, Plain DEF CountInv, Paired
    <2> QED
      BY <2>2, <2>3
  <1>13. Ahead' /\ Cleared'
    BY <1>7, <1>11, <1>12 DEF CountInv, Ahead, Cleared
  <1>14. Reported'
    <2>1. Undisturbed' => report'.denied <= report'.attempts
      BY <1>11, <1>12 DEF CountInv, Ahead
    <2> QED
      BY <1>2, <1>3, <1>5, <2>1, Plain DEF CountInv, Reported
  <1> QED
    BY <1>6, <1>8, <1>9, <1>10, <1>13, <1>14 DEF CountInv

\* A tick looks at the slot again before it frees it.
LEMMA SlotLookedAt ==
    ASSUME CountInv, LookAtSlot
    PROVE  CountInv'
  <1>1. stage = "look" /\ taken = NoTally /\ stage' \in {"release", "idle"}
    BY DEF CountInv, Staged, LookAtSlot, Taking
  <1>2. UNCHANGED <<held, counts, shadowDenials, taken, tracked, report, exported, rounds, tallied, certain>>
    BY DEF LookAtSlot, countHistory, countWords
  <1>3. OwnCounts' = OwnCounts /\ OverflowCounts' = OverflowCounts /\ (Undisturbed' <=> Undisturbed) /\ ~Resetting
    BY <1>1, <1>2 DEF OwnCounts, OverflowCounts, Undisturbed, Resetting
  <1>4. ASSUME NEW d \in Clients
        PROVE  /\ request'[d] \in CountFrames /\ request'[d].at = request[d].at
               /\ request'[d].place = request[d].place /\ request'[d].ticks = request[d].ticks
               /\ request[d].under => request'[d].under
               /\ stage' = "release" /\ OnOwn(d) => request'[d].under
    <2>1. request[d] \in CountFrames
      BY DEF CountInv, CountTypes
    <2>2. request'[d] = request[d] \/ request'[d] = [request[d] EXCEPT !.under = TRUE]
      BY DEF LookAtSlot
    <2>3. stage' = "release" /\ OnOwn(d) => request'[d] = [request[d] EXCEPT !.under = TRUE]
      BY DEF LookAtSlot, OnOwn
    <2> QED
      BY <2>1, <2>2, <2>3 DEF CountFrames
  <1>5. request' \in [Clients -> CountFrames]
    <2>1. CASE UNCHANGED request
      BY <2>1 DEF CountInv, CountTypes
    <2>2. CASE ~UNCHANGED request
      <3>1. request' = [d \in Clients |-> request'[d]]
        BY <2>2 DEF LookAtSlot
      <3> QED
        BY <1>4, <3>1
    <2> QED
      BY <2>1, <2>2
  <1>6. CountTypes' /\ Staged'
    BY <1>1, <1>2, <1>5 DEF CountInv, CountTypes, Stages, Staged, Taking
  <1>7. stage' = "idle" => InSight' /\ ~Resetting'
    BY DEF InSight, Taking, Resetting
  <1>8. stage' = "release" => /\ held = "held" /\ ~tracked /\ OwnCounts = NoCounts
                              /\ OwnCounts.attempts = 0 /\ OwnCounts.denials = 0 /\ ~InSight
    BY <1>1 DEF LookAtSlot, NothingCounted, NoCounts, OwnCounts, InSight
  <1>9. Marked'
    BY <1>1, <1>2, <1>4, <1>7 DEF CountInv, Marked, OnOwn
  <1>10. Attempted'
    BY <1>1, <1>3, <1>4, <1>7 DEF CountInv, Attempted, OnOwn, After
  <1>11. Unreported'
    BY <1>1, <1>2, <1>7, <1>8, Plain DEF CountInv, Unreported
  <1>12. Within'
    BY <1>1, <1>2, <1>3, <1>8, Plain DEF CountInv, Within, KnownAttempts, KnownDenied, KnownShadow
  <1>13. Ahead' /\ Cleared' /\ Reported'
    <2>1. \A q \in Places : Between(q)' = Between(q)
      BY <1>4 DEF Between, After
    <2>2. /\ Cardinality(Between("own")') = Cardinality(Between("own"))
          /\ Cardinality(Between("overflow")') = Cardinality(Between("overflow"))
      BY <2>1 DEF Places
    <2>3. ASSUME NEW dv \in Nat, Paired(dv) PROVE Paired(dv)'
      BY <1>2, <1>3, <2>2, <2>3 DEF Paired
    <2>4. Ahead'
      BY <1>3, <2>3 DEF CountInv, Ahead
    <2> QED
      BY <1>1, <1>2, <1>3, <1>7, <1>8, <2>4 DEF CountInv, Cleared, Reported
  <1> QED
    BY <1>6, <1>9, <1>10, <1>11, <1>12, <1>13 DEF CountInv

\* A tick frees the slot, and clears its counts.
LEMMA SlotReleased ==
    ASSUME CountInv, ReleaseSlot
    PROVE  CountInv'
  <1>1. \/ stage = "release" /\ stage' = "clear" /\ held' = "busy" /\ UNCHANGED <<counts, shadowDenials>>
        \/ /\ stage = "clear" /\ stage' = "clear_shadows" /\ counts' = [counts EXCEPT !["own"] = NoCounts]
           /\ UNCHANGED <<held, shadowDenials>>
        \/ stage = "clear_shadows" /\ stage' = "free" /\ shadowDenials' = 0 /\ UNCHANGED <<held, counts>>
        \/ stage = "free" /\ stage' = "idle" /\ held' = "free" /\ UNCHANGED <<counts, shadowDenials>>
    BY DEF ReleaseSlot, ReleaseStep
  <1>2. UNCHANGED <<request, taken, tracked, report, exported, rounds, tallied, certain>>
    BY DEF ReleaseSlot, ReleaseStep, countHistory
  <1>3. Resetting
    BY <1>1 DEF Resetting
  <1>4. taken = NoTally /\ taken.shadow = 0 /\ taken.attempts = 0 /\ taken.denied = 0
    BY <1>3 DEF CountInv, Staged, Taking, Resetting, NoTally
  <1>5. counts' \in [Places -> Words] /\ OverflowCounts' = OverflowCounts
    BY <1>1 DEF CountInv, CountTypes, NoCounts, Words, OverflowCounts, Places
  <1>6. OwnCounts' = OwnCounts \/ (stage = "clear" /\ stage' = "clear_shadows" /\ OwnCounts'.attempts = 0 /\ OwnCounts'.denials = 0)
    BY <1>1 DEF CountInv, CountTypes, NoCounts, OwnCounts, Places
  <1>7. CountTypes'
    BY <1>1, <1>2, <1>5 DEF CountInv, CountTypes, Stages
  <1>8. Staged'
    BY <1>1, <1>2, <1>4 DEF CountInv, Staged, Taking
  <1>9. \A d \in Clients : ~(OnOwn(d) /\ ~request[d].under)
    BY <1>3 DEF CountInv, Marked
  <1>10. Marked' /\ Attempted'
    BY <1>2, <1>9 DEF CountInv, Marked, Attempted, OnOwn
  <1>11. certain.shadow <= report.shadow + taken.shadow
    BY <1>3, Plain DEF CountInv, Unreported
  <1>12. Unreported'
    BY <1>2, <1>11, Plain DEF CountInv, Unreported
  <1>13. shadowDenials' \in Nat /\ shadowDenials' <= shadowDenials
    BY <1>1 DEF CountInv, CountTypes
  <1>14. Within'
    <2>1. CASE OwnCounts' = OwnCounts
      BY <1>1, <1>2, <1>5, <1>11, <1>13, <2>1, Plain
         DEF CountInv, CountTypes, Within, KnownAttempts, KnownDenied, KnownShadow
    <2>2. CASE stage = "clear" /\ stage' = "clear_shadows" /\ OwnCounts'.attempts = 0 /\ OwnCounts'.denials = 0
      BY <1>1, <1>2, <1>5, <1>11, <1>13, <2>2, Plain
         DEF CountInv, CountTypes, Within, KnownAttempts, KnownDenied, KnownShadow
    <2> QED
      BY <1>6, <2>1, <2>2
  <1>15. Undisturbed' <=> Undisturbed
    BY <1>2 DEF Undisturbed
  <1>16. Undisturbed => OwnCounts'.attempts = OwnCounts.attempts /\ OwnCounts'.denials = OwnCounts.denials
    BY <1>3, <1>6 DEF CountInv, Cleared
  <1>17. Ahead'
    <2> SUFFICES ASSUME Undisturbed' PROVE \E dv \in Nat : Paired(dv)'
      BY DEF Ahead
    <2>1. PICK dv \in Nat : Paired(dv)
      BY <1>15 DEF CountInv, Ahead
    <2>2. /\ Cardinality(Between("own")') = Cardinality(Between("own"))
          /\ Cardinality(Between("overflow")') = Cardinality(Between("overflow"))
      BY <1>2, SameRequests DEF Places
    <2>3. Paired(dv)'
      BY <1>2, <1>5, <1>15, <1>16, <2>1, <2>2 DEF Paired
    <2> QED
      BY <2>3
  <1>18. Cleared' /\ Reported'
    BY <1>2, <1>3, <1>15, <1>16 DEF CountInv, Cleared, Reported
  <1> QED
    BY <1>7, <1>8, <1>10, <1>12, <1>14, <1>17, <1>18 DEF CountInv

\* Every step keeps CountInv.
LEMMA CountingStep == CountInv /\ [CountingNext]_countingVars => CountInv'
  <1> SUFFICES ASSUME CountInv, [CountingNext]_countingVars PROVE CountInv'
    OBVIOUS
  <1>1. ASSUME NEW c \in Clients, CountAttempt(c) \/ DecideBoth(c) \/ CountShadowDenial(c) \/ CountDenial(c)
        PROVE  CountInv'
    BY <1>1, AttemptCounts, DecideCounts, ShadowDenialCounts, DenialCounts
  <1>2. ASSUME NEW c \in Clients, NEW p \in Places, Arrive(c, p) PROVE CountInv'
    BY <1>2, ArrivalCounts
  <1>3. CASE TakeCounts
    BY <1>3, SlotTaken, NoSlotTaken
  <1>4. CASE TakeShadowDenials \/ TakeOverflow \/ ReportCounts \/ LookAtSlot \/ ReleaseSlot
    BY <1>4, ShadowsTaken, OverflowTaken, RoundReported, SlotLookedAt, SlotReleased
  <1>5. CASE UNCHANGED countingVars
    <2>1. UNCHANGED <<held, counts, shadowDenials, request, stage, taken, tracked, report, exported,
                      rounds, tallied, certain>>
      BY <1>5 DEF countingVars, countWords, countTask, countHistory
    <2>2. CountTypes' /\ Staged' /\ (Resetting' <=> Resetting) /\ (InSight' <=> InSight) /\ OwnCounts' = OwnCounts /\ OverflowCounts' = OverflowCounts
      BY <2>1 DEF CountInv, CountTypes, Staged, Resetting, InSight, OwnCounts, OverflowCounts
    <2>3. Marked' /\ Attempted' /\ Unreported' /\ Within'
      BY <2>1, <2>2 DEF CountInv, Marked, Attempted, Unreported, Within, OnOwn, After,
                        KnownAttempts, KnownDenied, KnownShadow
    <2>4. \A q \in Places : Cardinality(Between(q)') = Cardinality(Between(q))
      BY <2>1, SameRequests
    <2>5. ASSUME NEW dv \in Nat, Paired(dv) PROVE Paired(dv)'
      BY <2>1, <2>2, <2>4, <2>5 DEF Paired, Places
    <2>6. Undisturbed' <=> Undisturbed
      BY <2>1 DEF Undisturbed
    <2>7. Ahead' /\ Cleared' /\ Reported'
      BY <2>1, <2>2, <2>5, <2>6 DEF CountInv, Ahead, Cleared, Reported
    <2> QED
      BY <2>2, <2>3, <2>7 DEF CountInv
  <1> QED
    BY <1>1, <1>2, <1>3, <1>4, <1>5 DEF CountingNext, CountingOver

\* CountInv holds at the start.
LEMMA CountingInitHolds == CountingInit => CountInv
  <1> SUFFICES ASSUME CountingInit PROVE CountInv
    OBVIOUS
  <1>1. CountTypes
    <2>1. NoCounts \in Words /\ NoTally \in Tallies /\ NoReport \in Reports /\ "idle" \in Stages
      BY DEF NoCounts, NoTally, NoReport, Words, Tallies, Reports, Stages
    <2>2. NotChecking \in CountFrames
      BY DEF NotChecking, CountFrames, Places
    <2>3. certain = [f \in Counted |-> 0] /\ tallied = [f \in Counted |-> 0]
      BY DEF CountingInit
    <2>4. counts \in [Places -> Words] /\ request \in [Clients -> CountFrames]
      BY <2>1, <2>2 DEF CountingInit
    <2>5. tallied \in [Counted -> Nat] /\ certain \in [Counted -> Nat]
      BY <2>3
    <2>6. held \in {"held", "busy", "free"} /\ shadowDenials \in Nat /\ tracked \in BOOLEAN /\ rounds \in Nat
      BY DEF CountingInit
    <2>7. stage \in Stages /\ taken \in Tallies /\ report \in Reports
      BY <2>1 DEF CountingInit
    <2> QED
      BY <2>4, <2>5, <2>6, <2>7 DEF CountTypes
  <1>2. /\ stage = "idle" /\ held = "free" /\ taken = NoTally /\ report = NoReport
        /\ counts = [p \in Places |-> NoCounts] /\ shadowDenials = 0
        /\ tallied = [f \in Counted |-> 0] /\ certain = tallied /\ exported = Published(Stats(report))
        /\ request = [c \in Clients |-> NotChecking]
    BY DEF CountingInit
  <1>3. /\ OwnCounts.attempts = 0 /\ OwnCounts.denials = 0 /\ OverflowCounts.attempts = 0 /\ OverflowCounts.denials = 0
        /\ taken.attempts = 0 /\ taken.denied = 0 /\ taken.shadow = 0 /\ taken.overflowed = 0 /\ taken.unknown = 0
        /\ report.attempts = 0 /\ report.denied = 0 /\ report.shadow = 0
        /\ report.overflowed = 0 /\ report.unknown = 0
    BY <1>2 DEF OwnCounts, OverflowCounts, Places, NoCounts, NoTally, NoReport
  <1>4. /\ tallied.attempts = 0 /\ tallied.denied = 0 /\ tallied.shadow = 0
        /\ certain.attempts = 0 /\ certain.denied = 0 /\ certain.shadow = 0
    BY <1>2 DEF Counted
  <1>5. \A c \in Clients : request[c].at = "idle"
    BY <1>2 DEF NotChecking
  <1>6. Staged /\ Marked /\ Attempted
    BY <1>2, <1>3, <1>5 DEF Staged, Taking, Marked, Attempted, OnOwn
  <1>7. Unreported /\ Within /\ Cleared /\ Reported
    BY <1>2, <1>3, <1>4 DEF Unreported, Within, KnownAttempts, KnownDenied, KnownShadow, Cleared, Resetting, Reported
  <1>8. Ahead
    <2>1. Between("own") = {} /\ Between("overflow") = {}
      BY <1>5 DEF Between, After
    <2>2. Paired(0)
      BY <1>3, <2>1, FS_EmptySet DEF Paired
    <2> QED
      BY <2>2 DEF Ahead
  <1> QED
    BY <1>1, <1>6, <1>7, <1>8 DEF CountInv

\* Whatever races the tick that takes the counts and frees the slot, nothing is
\* counted twice, and what is lost is only what CountsKept says may be
\* (table.rs and driver.rs, the tick's report).
THEOREM CountsAreKept == CountingSpec => []CountsKept
  <1>1. CountInv => CountsKept
    <2> SUFFICES ASSUME CountInv PROVE CountsKept
      OBVIOUS
    <2>1. /\ Known["attempts"] = KnownAttempts /\ Known["denied"] = KnownDenied /\ Known["shadow"] = KnownShadow
      BY DEF Known, KnownAttempts, KnownDenied, KnownShadow, OwnCounts, OverflowCounts
    <2>2. \A f \in Counted : certain[f] <= Known[f] /\ Known[f] <= tallied[f]
      BY <2>1 DEF CountInv, Within, Counted
    <2>3. /\ Stats(report).admitted = Saturating(report.attempts, report.denied)
          /\ Saturating(report.attempts, report.denied) \in Nat
      BY Plain DEF Stats, Saturating, CountInv
    <2>4. Stats(report) \in StatsRecord
      BY <2>3, Plain DEF Stats, StatsRecord, CountInv
    <2>5. CountingTypeOK
      BY <2>4 DEF CountingTypeOK, CountInv, CountTypes, Words, Staged, Resetting
    <2>6. exported.deny = report.denied
      BY DEF CountInv, Reported, Published, Stats
    <2> QED
      BY <2>2, <2>5, <2>6, Plain DEF CountsKept, CountInv, Reported, Undisturbed
  <1> QED
    BY <1>1, CountingInitHolds, CountingStep, PTL DEF CountingSpec

----------------------------------------------------------------------------
\* Shadow.

\* A set of naturals that is not empty has a least element.
LEMMA LeastOf ==
    ASSUME NEW T, T \subseteq Nat, T # {}
    PROVE  \E x \in T : \A y \in T : x <= y
  <1> DEFINE less == OpToRel(<, Nat)
  <1>1. IsWellFoundedOn(less, Nat)
    BY NatLessThanWellFounded
  <1>2. \A x, y \in Nat : y < x => <<y, x>> \in less
    BY DEF OpToRel
  <1> HIDE DEF less
  <1>3. PICK x \in T : \A y \in T : ~(<<y, x>> \in less)
    BY <1>1, WFMin
  <1>4. \A y \in T : x \in Nat /\ y \in Nat /\ ~(y < x)
    BY <1>2, <1>3
  <1>5. \A y \in T : x <= y
    BY <1>4
  <1> QED
    BY <1>5

ShadowSpec == ShadowInit /\ [][ShadowNext]_shadowVars

\* The longest interval among the quotas tried out bounds them all.
LEMMA LongestIs ==
    /\ Longest \in Nat
    /\ \A q \in Tried : q.interval \in Nat /\ 1 <= q.interval /\ q.interval <= Longest
  <1> DEFINE S == {q.interval : q \in Tried}
             T == {b \in Nat : \A q \in Tried : q.interval <= b}
  <1>1. \A q \in Tried : q.interval \in Nat /\ 1 <= q.interval /\ q.interval <= MaxNanos
    BY TriedAssumption, MaxNanosAssumption
  <1>2. MaxNanos \in T
    BY <1>1, MaxNanosAssumption
  <1>3. PICK b \in T : \A c \in T : b <= c
    BY <1>2, LeastOf
  <1>4. \E q \in Tried : q.interval = b
    <2> SUFFICES ASSUME \A q \in Tried : q.interval # b PROVE FALSE
      OBVIOUS
    <2>1. PICK q \in Tried : TRUE
      BY TriedAssumption
    <2>2. b - 1 \in Nat
      BY <1>1, <2>1
    <2>3. \A r \in Tried : r.interval <= b - 1
      BY <1>1, <2>2
    <2> QED
      BY <1>3, <2>2, <2>3
  <1>5. b \in S /\ \A q \in Tried : q.interval <= b
    BY <1>3, <1>4
  <1>6. Longest \in S /\ \A q \in Tried : q.interval <= Longest
    <2> HIDE DEF S
    <2>1. \E i \in S : \A q \in Tried : q.interval <= i
      BY <1>5
    <2>2. Longest = CHOOSE i \in S : \A q \in Tried : q.interval <= i
      BY DEF Longest, S
    <2> QED
      BY <2>1, <2>2
  <1> QED
    BY <1>1, <1>6

\* A debt carried to another quota is a time of the clock.
LEMMA RescaledIs ==
    ASSUME NEW old \in Tried, NEW new \in Tried, NEW t \in Nanos, NEW time \in Nat
    PROVE  Rescaled(t, old, new, time) \in Nanos
  <1>1. /\ old.interval \in Nat \ {0} /\ new.interval \in Nat
        /\ old.burst \in Nat /\ new.burst \in Nat
    BY TriedAssumption
  <1>2. SatSub(t, time) \in Nat
    BY MaxNanosAssumption DEF SatSub, Nanos
  <1>3. \A a, b \in Nat, c \in Nat \ {0} : RoundedRatio(a, b, c) \in Nat
    <2> SUFFICES ASSUME NEW a \in Nat, NEW b \in Nat, NEW c \in Nat \ {0}
                 PROVE  RoundedRatio(a, b, c) \in Nat
      OBVIOUS
    <2>1. 2 * a * b + c \in Nat /\ 2 * c \in Nat \ {0}
      <3>1. a * b \in Nat
        OBVIOUS
      <3>2. 2 * a * b = 2 * (a * b)
        OBVIOUS
      <3> QED
        BY <3>1, <3>2
    <2>2. \A x \in Nat, y \in Nat \ {0} : x \div y \in Nat
      OBVIOUS
    <2> QED
      BY <2>1, <2>2 DEF RoundedRatio
  <1> DEFINE computed == RoundedRatio(SatSub(t, time), new.interval, old.interval)
             full == AtLeast(old.burst, new.burst) * new.interval
             debt == IF t = MaxNanos THEN AtLeast(computed, full) ELSE computed
  <1>4. computed \in Nat
    BY <1>1, <1>2, <1>3
  <1>5. full \in Nat
    <2>1. AtLeast(old.burst, new.burst) \in Nat
      BY <1>1 DEF AtLeast
    <2> QED
      BY <1>1, <2>1
  <1>6. CarryTat(t, old, new, time) = SatAdd(time, debt)
    BY DEF CarryTat
  <1> HIDE DEF computed, full
  <1>7. debt \in Nat
    BY <1>4, <1>5 DEF AtLeast
  <1> HIDE DEF debt
  <1>8. SatAdd(time, debt) \in Nanos
    BY <1>7, MaxNanosAssumption DEF SatAdd, AtMost, Nanos
  <1> QED
    BY <1>6, <1>8 DEF Rescaled

Calls == [at : {"idle", "step", "swap", "zero"}, quota : Tried \cup {Off}, now : 0 .. MaxClock]
Settling == [at : {"settle"}, old : Tried \cup {Off}, quota : Tried \cup {Off}, now : 0 .. MaxClock]

\* A call between the word and the TAT.
Unsettled(u) == doing[u].at \in {"settle", "zero"}

OnlyQuotasDecide ==
    \A u \in Users : doing[u].at = "step" => doing[u].quota \in Tried /\ doing[u].now <= clock

Owed == (\A u \in Users : ~Unsettled(u)) /\ ~carried => SatSub(shadowTat, clock) <= charged * Longest

ShadowInv ==
    /\ word \in Tried \cup {Off} /\ shadowTat \in Nanos /\ clock \in 0 .. MaxClock
    /\ doing \in [Users -> Calls \cup Settling]
    /\ charged \in Nat /\ carried \in BOOLEAN /\ decodedOff = FALSE
    /\ OnlyQuotasDecide
    /\ Owed

\* Off is no quota.
LEMMA QuotasAreOn == Off \notin Tried
  BY TriedAssumption DEF Off

\* A user that does nothing has no call.
LEMMA NobodyCalls == NoCall \in Calls /\ NoCall.at = "idle"
  BY TriedAssumption DEF NoCall, Calls

\* The step of one call.
LEMMA OneCall ==
    ASSUME ShadowInv, NEW u \in Users, NEW c \in Calls \cup Settling, doing' = [doing EXCEPT ![u] = c],
           c.at = "step" => c.quota \in Tried /\ c.now <= clock, clock' = clock
    PROVE  /\ doing' \in [Users -> Calls \cup Settling] /\ doing'[u] = c
           /\ \A v \in Users \ {u} : doing'[v] = doing[v]
           /\ OnlyQuotasDecide'
  <1>1. /\ doing' \in [Users -> Calls \cup Settling] /\ doing'[u] = c
        /\ \A v \in Users \ {u} : doing'[v] = doing[v]
    BY DEF ShadowInv
  <1>2. OnlyQuotasDecide'
    BY <1>1 DEF ShadowInv, OnlyQuotasDecide
  <1> QED
    BY <1>1, <1>2

\* A call begins.
LEMMA Entered ==
    ASSUME ShadowInv, NEW u \in Users, NEW at \in {"step", "swap", "zero"}, NEW quota \in Tried \cup {Off},
           Enter(u, at, quota), at = "step" => quota \in Tried, clock' = clock
    PROVE  /\ doing' \in [Users -> Calls \cup Settling] /\ doing'[u].at = at /\ doing[u].at = "idle"
           /\ \A v \in Users \ {u} : doing'[v] = doing[v]
           /\ OnlyQuotasDecide'
  <1> DEFINE c == [at |-> at, quota |-> quota, now |-> clock]
  <1>1. c \in Calls /\ c.at = at /\ c.quota = quota /\ c.now = clock
    BY DEF ShadowInv, Calls
  <1>2. doing' = [doing EXCEPT ![u] = c] /\ doing[u].at = "idle"
    BY DEF Enter
  <1> HIDE DEF c
  <1>3. c.now <= clock
    BY <1>1 DEF ShadowInv
  <1> QED
    BY <1>1, <1>2, <1>3, OneCall

\* What was charged stays a number.
LEMMA ForgetsIs ==
    ASSUME ShadowInv, NEW old, NEW new, Forgets(old, new)
    PROVE  charged' \in Nat /\ carried' \in BOOLEAN
  <1>1. (charged' = 0 /\ carried' = FALSE) \/ (charged' = charged /\ carried' = carried)
    BY DEF Forgets
  <1>2. charged' \in Nat
    BY <1>1 DEF ShadowInv
  <1>3. carried \in BOOLEAN
    BY DEF ShadowInv
  <1>4. carried' \in BOOLEAN
    BY <1>1, <1>3, Zenon
  <1> QED
    BY <1>2, <1>4

\* Every step keeps ShadowInv.
LEMMA ShadowStep == ShadowInv /\ [ShadowNext]_shadowVars => ShadowInv'
  <1> SUFFICES ASSUME ShadowInv, [ShadowNext]_shadowVars PROVE ShadowInv'
    OBVIOUS
  <1> USE DEF ShadowInv
  <1>1. ASSUME NEW u \in Users, ReadWord(u) PROVE ShadowInv'
    <2>1. Enter(u, "step", word) /\ word \in Tried /\ clock' = clock
      BY <1>1 DEF ReadWord
    <2>2. /\ doing' \in [Users -> Calls \cup Settling] /\ doing'[u].at = "step" /\ doing[u].at = "idle"
          /\ \A v \in Users \ {u} : doing'[v] = doing[v]
          /\ OnlyQuotasDecide'
      BY <2>1, Entered
    <2>3. Owed'
      BY <1>1, <2>2 DEF ReadWord, Owed, Unsettled
    <2> QED
      BY <1>1, <2>2, <2>3 DEF ReadWord
  <1>2. ASSUME NEW u \in Users, StepTat(u) PROVE ShadowInv'
    <2> DEFINE q == doing[u].quota
               time == doing[u].now
               moved == Advance(shadowTat, q, time)
    <2>1. doing[u].at = "step" /\ q \in Tried /\ time <= clock /\ time \in Nat /\ clock \in Nat
      <3>1. doing[u] \in Calls \cup Settling /\ doing[u].at = "step" /\ clock \in Nat
        BY <1>2, TriedAssumption DEF StepTat
      <3>2. time \in Nat
        BY <3>1, TriedAssumption DEF Calls, Settling
      <3> QED
        BY <3>1, <3>2 DEF OnlyQuotasDecide
    <2>2. /\ doing' \in [Users -> Calls \cup Settling] /\ doing'[u].at = "idle"
          /\ \A v \in Users \ {u} : doing'[v] = doing[v]
          /\ OnlyQuotasDecide'
      BY <1>2, OneCall, NobodyCalls DEF StepTat, Leaves
    <2>3. q.interval \in Nat /\ q.interval <= Longest /\ Longest \in Nat
      BY <2>1, LongestIs
    <2>4. /\ moved \in Nanos
          /\ SatSub(moved, clock) <= SatSub(shadowTat, clock) + q.interval
      BY <2>1, <2>3, MaxNanosAssumption DEF Advance, SatAdd, SatSub, AtLeast, AtMost, Nanos
    <2>5. /\ \/ shadowTat' = shadowTat /\ charged' = charged
             \/ shadowTat' = moved /\ charged' = charged + 1
          /\ UNCHANGED <<word, clock, carried>>
      BY <1>2 DEF StepTat, DecodedWord
    <2>6. decodedOff' = FALSE
      BY <1>2, <2>1, QuotasAreOn DEF StepTat, DecodedWord
    <2>7. Owed'
      <3> SUFFICES ASSUME \A v \in Users : ~Unsettled(v)', ~carried'
                   PROVE  SatSub(shadowTat', clock') <= charged' * Longest
        BY DEF Owed
      <3>1. SatSub(shadowTat, clock) <= charged * Longest
        BY <2>1, <2>2, <2>5 DEF Owed, Unsettled
      <3>2. (charged + 1) * Longest = charged * Longest + Longest /\ charged * Longest \in Nat
        BY <2>3
      <3>3. SatSub(shadowTat, clock) \in Nat /\ SatSub(moved, clock) \in Nat
        BY <2>1, <2>4, MaxNanosAssumption DEF SatSub, Nanos
      <3> HIDE DEF moved, q
      <3>4. SatSub(moved, clock) <= charged * Longest + Longest
        BY <2>3, <2>4, <3>1, <3>2, <3>3
      <3> QED
        BY <2>5, <3>1, <3>2, <3>4
    <2> QED
      BY <2>2, <2>4, <2>5, <2>6, <2>7
  <1>3. ASSUME NEW u \in Users, NEW q \in Tried \cup {Off}, StartSet(u, q) PROVE ShadowInv'
    <2>1. /\ doing' \in [Users -> Calls \cup Settling] /\ doing'[u].at = "swap" /\ doing[u].at = "idle"
          /\ \A v \in Users \ {u} : doing'[v] = doing[v]
          /\ OnlyQuotasDecide'
      BY <1>3, Entered DEF StartSet
    <2>2. Owed'
      BY <1>3, <2>1 DEF StartSet, Owed, Unsettled
    <2> QED
      BY <1>3, <2>1, <2>2 DEF StartSet
  <1>4. ASSUME NEW u \in Users, SwapWord(u) PROVE ShadowInv'
    <2> DEFINE c == [at |-> "settle", old |-> word, quota |-> doing[u].quota, now |-> doing[u].now]
    <2>1. doing[u] \in Calls \cup Settling /\ doing[u].quota \in Tried \cup {Off} /\ doing[u].now \in 0 .. MaxClock
      BY DEF Calls, Settling
    <2>2. c \in Settling /\ c.at = "settle"
      BY <2>1 DEF Settling
    <2>3. doing' = [doing EXCEPT ![u] = c]
      BY <1>4 DEF SwapWord
    <2> HIDE DEF c
    <2>4. /\ doing' \in [Users -> Calls \cup Settling] /\ doing'[u].at = "settle"
          /\ OnlyQuotasDecide'
      BY <1>4, <2>2, <2>3, OneCall DEF SwapWord
    <2>5. Owed'
      BY <2>4 DEF Owed, Unsettled
    <2>6. charged' \in Nat /\ carried' \in BOOLEAN
      BY <1>4, ForgetsIs DEF SwapWord
    <2> QED
      BY <1>4, <2>1, <2>4, <2>5, <2>6 DEF SwapWord
  <1>5. ASSUME NEW u \in Users, SettleTat(u) PROVE ShadowInv'
    <2> DEFINE old == doing[u].old
               new == doing[u].quota
               time == doing[u].now
    <2>1. old \in Tried \cup {Off} /\ new \in Tried \cup {Off} /\ time \in Nat
      <3>1. doing[u] \in Calls \cup Settling /\ doing[u].at = "settle"
        BY <1>5 DEF SettleTat
      <3>2. doing[u] \in Settling
        BY <3>1 DEF Calls
      <3> QED
        BY <3>2, TriedAssumption DEF Settling
    <2>2. shadowTat' \in Nanos /\ (Off \in {old, new} => shadowTat' = 0)
      <3>1. CASE Off \in {old, new}
        BY <1>5, <3>1, MaxNanosAssumption DEF SettleTat, TatAfter, Nanos
      <3>2. CASE Off \notin {old, new}
        <4>1. old \in Tried /\ new \in Tried
          BY <2>1, <3>2
        <4>2. Rescaled(shadowTat, old, new, time) \in Nanos
          BY <2>1, <4>1, RescaledIs
        <4> QED
          BY <1>5, <3>2, <4>2 DEF SettleTat, TatAfter
      <3> QED
        BY <3>1, <3>2
    <2>3. /\ doing' \in [Users -> Calls \cup Settling]
          /\ OnlyQuotasDecide'
      BY <1>5, OneCall, NobodyCalls DEF SettleTat, Leaves
    <2>4. UNCHANGED <<word, clock, charged, decodedOff>> /\ carried' \in BOOLEAN
          /\ (Off \notin {old, new} => carried')
      BY <1>5 DEF SettleTat
    <2>5. Owed'
      <3> SUFFICES ASSUME ~carried' PROVE SatSub(shadowTat', clock') <= charged' * Longest
        BY DEF Owed
      <3>1. shadowTat' = 0
        BY <2>2, <2>4
      <3>2. clock \in Nat /\ charged * Longest \in Nat
        BY LongestIs, TriedAssumption
      <3> QED
        BY <2>4, <3>1, <3>2 DEF SatSub
    <2> QED
      BY <2>2, <2>3, <2>4, <2>5
  <1>6. ASSUME NEW u \in Users, ResetWord(u) PROVE ShadowInv'
    <2>1. /\ doing' \in [Users -> Calls \cup Settling] /\ doing'[u].at = "zero"
          /\ OnlyQuotasDecide'
      BY <1>6, Entered DEF ResetWord
    <2>2. Owed'
      BY <2>1 DEF Owed, Unsettled
    <2>3. charged' \in Nat /\ carried' \in BOOLEAN
      BY <1>6, ForgetsIs DEF ResetWord
    <2> QED
      BY <1>6, <2>1, <2>2, <2>3 DEF ResetWord
  <1>7. ASSUME NEW u \in Users, ZeroTat(u) PROVE ShadowInv'
    <2>1. /\ doing' \in [Users -> Calls \cup Settling]
          /\ OnlyQuotasDecide'
      BY <1>7, OneCall, NobodyCalls DEF ZeroTat, Leaves
    <2>2. shadowTat' = 0 /\ UNCHANGED <<word, clock, charged, carried, decodedOff>>
      BY <1>7 DEF ZeroTat
    <2>3. clock \in Nat /\ charged * Longest \in Nat
      BY LongestIs, TriedAssumption
    <2>4. Owed'
      BY <2>2, <2>3 DEF Owed, SatSub
    <2> QED
      BY <2>1, <2>2, <2>4, MaxNanosAssumption DEF Nanos
  <1>8. CASE TimePasses
    <2>1. clock' = clock + 1 /\ clock' \in 0 .. MaxClock /\ clock \in Nat
          /\ UNCHANGED <<word, shadowTat, doing, charged, carried, decodedOff>>
      BY <1>8, TriedAssumption DEF TimePasses
    <2>2. OnlyQuotasDecide'
      <3> SUFFICES ASSUME NEW u \in Users, doing[u].at = "step" PROVE doing[u].quota \in Tried /\ doing[u].now <= clock'
        BY <2>1 DEF OnlyQuotasDecide
      <3>1. doing[u] \in Calls \cup Settling
        OBVIOUS
      <3>2. doing[u].now \in Nat
        BY <3>1, TriedAssumption DEF Calls, Settling
      <3> QED
        BY <2>1, <3>2 DEF OnlyQuotasDecide
    <2>3. Owed'
      <3> DEFINE most == charged * Longest
      <3>1. most \in Nat
        BY LongestIs
      <3>2. Owed <=> ((\A u \in Users : ~Unsettled(u)) /\ ~carried => SatSub(shadowTat, clock) <= most)
        BY DEF Owed
      <3>3. Owed' <=> ((\A u \in Users : ~Unsettled(u)) /\ ~carried => SatSub(shadowTat, clock') <= most)
        BY <2>1 DEF Owed, Unsettled
      <3> HIDE DEF most
      <3>4. SatSub(shadowTat, clock') <= SatSub(shadowTat, clock)
            /\ SatSub(shadowTat, clock') \in Nat /\ SatSub(shadowTat, clock) \in Nat
        BY <2>1, MaxNanosAssumption DEF SatSub, Nanos
      <3> QED
        BY <3>1, <3>2, <3>3, <3>4
    <2> QED
      BY <2>1, <2>2, <2>3
  <1>9. CASE UNCHANGED shadowVars
    BY <1>9 DEF shadowVars, OnlyQuotasDecide, Owed, Unsettled
  <1> QED
    BY <1>1, <1>2, <1>3, <1>4, <1>5, <1>6, <1>7, <1>8, <1>9 DEF ShadowNext, ShadowDone

\* All a shadow that was switched on can owe is an interval for each request
\* admitted since, and no check decodes the word of one that is off, whatever
\* raced the change, for any quotas and any number of callers (gcra.rs,
\* ShadowGcra).
THEOREM ShadowStartsAfresh == ShadowSpec => []ShadowForgets
  <1>1. ShadowInit => ShadowInv
    <2> SUFFICES ASSUME ShadowInit PROVE ShadowInv
      OBVIOUS
    <2>1. doing \in [Users -> Calls \cup Settling] /\ \A u \in Users : doing[u].at = "idle"
      BY NobodyCalls DEF ShadowInit
    <2>2. Owed
      BY LongestIs DEF ShadowInit, Owed, SatSub
    <2>3. word \in Tried \cup {Off} /\ shadowTat \in Nanos /\ clock \in 0 .. MaxClock /\ charged \in Nat
      BY MaxNanosAssumption, TriedAssumption DEF ShadowInit, Nanos
    <2>5. carried \in BOOLEAN /\ decodedOff = FALSE
      BY Zenon DEF ShadowInit
    <2>4. OnlyQuotasDecide
      BY <2>1 DEF OnlyQuotasDecide
    <2> QED
      BY <2>1, <2>2, <2>3, <2>4, <2>5 DEF ShadowInv
  <1>2. ShadowInv => ShadowForgets
    BY DEF ShadowInv, ShadowForgets, ShadowTypeOK, Owed, Unsettled, Calls, Settling
  <1> QED
    BY <1>1, <1>2, ShadowStep, PTL DEF ShadowSpec

----------------------------------------------------------------------------
\* The simulator.

\* A set that has 0, and the next of each of its own, has every number.
LEMMA OneByOne ==
    ASSUME NEW S, 0 \in S, \A n \in Nat : n \in S => n + 1 \in S
    PROVE  Nat \subseteq S
  <1>1. SUFFICES ASSUME Nat \ S # {} PROVE FALSE
    OBVIOUS
  <1>2. PICK x \in Nat \ S : \A y \in Nat \ S : x <= y
    BY <1>1, LeastOf
  <1>3. x # 0 /\ x - 1 \in Nat /\ x - 1 + 1 = x
    BY <1>2
  <1>4. x - 1 \in S
    BY <1>2, <1>3
  <1> QED
    BY <1>2, <1>3, <1>4

----------------------------------------------------------------------------
\* The simulator's queue.

Seals == {"off", "secret"}

SimKinds ==
    [is : {"tick"}, generation : Nat]
        \cup [is : {"deliver"}, from : 0 .. NodeCount, seal : Seals]
        \cup [is : {"crash", "restart", "leave", "request"}]
        \cup [is : {"set_limit"}, limit : KeyLimits]
        \cup [is : {"set_auth"}, auth : Seals]

SimEvents == [at : Nat, target : NodeIndexes, kind : SimKinds]

InOrder(q) == \A i, j \in 1 .. Len(q) : i <= j => q[i].at <= q[j].at

\* One of a queue's events, or none, is in a set.
OneOf(q, T) ==
    \E i \in 1 .. Len(q) : q[i] \in T /\ \A j \in 1 .. Len(q) : q[j] \in T => j = i
NoneOf(q, T) == \A i \in 1 .. Len(q) : q[i] \notin T

\* A set of places that has all places before each of its own is a prefix.
LEMMA Prefix ==
    ASSUME NEW n \in Nat, NEW P, P \subseteq 1 .. n,
           \A i \in P : \A j \in 1 .. n : j <= i => j \in P
    PROVE  Cardinality(P) \in 0 .. n /\ P = 1 .. Cardinality(P)
  <1> DEFINE out == {i \in Nat : i >= 1 /\ i \notin P}
  <1>1. n + 1 \in out /\ out \subseteq Nat
    OBVIOUS
  <1>2. PICK m \in out : \A i \in out : m <= i
    BY <1>1, LeastOf
  <1>3. m \in Nat /\ m >= 1 /\ m <= n + 1 /\ m \notin P
    BY <1>1, <1>2
  <1>4. ASSUME NEW i \in 1 .. n PROVE i \in P <=> i <= m - 1
    <2>1. CASE i < m
      BY <1>2, <1>3, <2>1
    <2>2. CASE i >= m
      <3>1. m \in 1 .. n
        BY <1>3, <2>2
      <3> QED
        BY <1>3, <2>2, <3>1
    <2> QED
      BY <1>3, <2>1, <2>2
  <1>5. P = 1 .. m - 1
    <2>1. \A i \in P : i \in 1 .. n /\ i \in 1 .. m - 1
      BY <1>3, <1>4
    <2>2. \A i \in 1 .. m - 1 : i \in 1 .. n /\ i <= m - 1
      BY <1>3
    <2>3. \A i \in 1 .. m - 1 : i \in P
      BY <1>4, <2>2
    <2> QED
      BY <2>1, <2>3
  <1>6. Cardinality(1 .. m - 1) = m - 1
    BY <1>3, FS_Interval
  <1> QED
    BY <1>3, <1>5, <1>6

\* An element put in behind the first b of a sequence.
Inserted(q, b, e) == SubSeq(q, 1, b) \o <<e>> \o SubSeq(q, b + 1, Len(q))

LEMMA InsertedIs ==
    ASSUME NEW q \in Seq(SimEvents), NEW e \in SimEvents, NEW b \in 0 .. Len(q)
    PROVE  /\ Inserted(q, b, e) \in Seq(SimEvents) /\ Len(Inserted(q, b, e)) = Len(q) + 1
           /\ Inserted(q, b, e)[b + 1] = e
           /\ \A i \in 1 .. b : Inserted(q, b, e)[i] = q[i]
           /\ \A i \in b + 2 .. Len(q) + 1 : Inserted(q, b, e)[i] = q[i - 1]
  <1> DEFINE n == Len(q)
             A == SubSeq(q, 1, b)
             B == SubSeq(q, b + 1, n)
             C == A \o <<e>>
             r == Inserted(q, b, e)
  <1>0. n \in Nat /\ b \in Nat /\ b <= n
    OBVIOUS
  <1>1. A \in Seq(SimEvents) /\ Len(A) = b
    BY <1>0
  <1>2. \A i \in 1 .. b : A[i] = q[i]
    BY <1>0
  <1>3. B \in Seq(SimEvents) /\ Len(B) = n - b
    BY <1>0
  <1>4. \A i \in 1 .. n - b : B[i] = q[b + i]
    BY <1>0
  <1> HIDE DEF A, B
  <1>5. <<e>> \in Seq(SimEvents) /\ Len(<<e>>) = 1 /\ <<e>>[1] = e
    OBVIOUS
  <1>6. C \in Seq(SimEvents) /\ Len(C) = b + 1
    BY <1>0, <1>1, <1>5
  <1>7. C[b + 1] = e
    BY <1>0, <1>1, <1>5
  <1>8. \A i \in 1 .. b : C[i] = A[i]
    BY <1>0, <1>1, <1>5
  <1>9. r = C \o B
    BY DEF A, B, Inserted
  <1> HIDE DEF C, n, r
  <1>10. r \in Seq(SimEvents) /\ Len(r) = Len(C) + Len(B)
         /\ \A i \in 1 .. Len(C) + Len(B) : r[i] = IF i <= Len(C) THEN C[i] ELSE B[i - Len(C)]
    BY <1>3, <1>6, <1>9, ConcatProperties
  <1>11. \A i \in 1 .. b + 1 : r[i] = C[i]
    BY <1>0, <1>3, <1>6, <1>10
  <1>12. \A i \in b + 2 .. n + 1 : r[i] = B[i - (b + 1)]
    BY <1>0, <1>3, <1>6, <1>10, SMTT(30)
  <1>13. \A i \in b + 2 .. n + 1 : r[i] = q[i - 1]
    <2> TAKE i \in b + 2 .. n + 1
    <2>1. i - (b + 1) \in 1 .. n - b /\ b + (i - (b + 1)) = i - 1
      BY <1>0
    <2> QED
      BY <1>4, <1>12, <2>1
  <1> QED
    BY <1>0, <1>2, <1>3, <1>6, <1>7, <1>8, <1>10, <1>11, <1>13 DEF n, r

\* schedule: the event goes in behind those of its time.
LEMMA ScheduledIs ==
    ASSUME NEW q \in Seq(SimEvents), InOrder(q), NEW e \in SimEvents
    PROVE  /\ Scheduled(q, e) \in Seq(SimEvents) /\ Len(Scheduled(q, e)) = Len(q) + 1
           /\ InOrder(Scheduled(q, e))
           /\ \E k \in 1 .. Len(q) + 1 :
                /\ Scheduled(q, e)[k] = e
                /\ \A i \in 1 .. Len(q) + 1 :
                      /\ i < k => Scheduled(q, e)[i] = q[i]
                      /\ i > k => Scheduled(q, e)[i] = q[i - 1]
  <1> DEFINE P == {i \in DOMAIN q : q[i].at <= e.at}
             before == Cardinality(P)
             r == Scheduled(q, e)
             n == Len(q)
  <1>1. n \in Nat /\ DOMAIN q = 1 .. n /\ e.at \in Nat
        /\ \A i \in 1 .. n : q[i] \in SimEvents /\ q[i].at \in Nat
    <2>1. \A x \in SimEvents : x.at \in Nat
      BY DEF SimEvents
    <2> QED
      BY <2>1
  <1>2. \A i \in P : \A j \in 1 .. n : j <= i => j \in P
    <2> SUFFICES ASSUME NEW i \in P, NEW j \in 1 .. n, j <= i PROVE j \in P
      OBVIOUS
    <2>1. q[j].at <= q[i].at
      BY <1>1 DEF InOrder
    <2> QED
      BY <1>1, <2>1
  <1>3. P \subseteq 1 .. n
    BY <1>1
  <1>4. before \in 0 .. n /\ P = 1 .. before
    <2> HIDE DEF P
    <2> QED
      BY <1>1, <1>2, <1>3, Prefix
  <1>5. (\A i \in 1 .. before : q[i].at <= e.at) /\ \A i \in before + 1 .. n : q[i].at > e.at
    <2>1. \A i \in 1 .. n : i \in P <=> q[i].at <= e.at
      BY <1>1
    <2> HIDE DEF P, before
    <2>2. \A i \in 1 .. n : i <= before <=> q[i].at <= e.at
      BY <1>4, <2>1
    <2> QED
      BY <1>1, <1>4, <2>2
  <1>6. r = Inserted(q, before, e)
    BY DEF Scheduled, Inserted
  <1> HIDE DEF before, P, r
  <1>10. /\ r \in Seq(SimEvents) /\ Len(r) = n + 1 /\ r[before + 1] = e
         /\ \A i \in 1 .. before : r[i] = q[i]
         /\ \A i \in before + 2 .. n + 1 : r[i] = q[i - 1]
    <2>1. PICK b \in 0 .. Len(q) : b = before
      BY <1>4
    <2>2. LET t == Inserted(q, b, e) IN
          /\ t \in Seq(SimEvents) /\ Len(t) = Len(q) + 1 /\ t[b + 1] = e
          /\ \A i \in 1 .. b : t[i] = q[i]
          /\ \A i \in b + 2 .. Len(q) + 1 : t[i] = q[i - 1]
      BY InsertedIs, ZenonT(40)
    <2> QED
      BY <1>6, <2>1, <2>2
  <1>12. \A i \in 1 .. n + 1 : i > before + 1 => r[i] = q[i - 1]
    <2>1. \A i \in 1 .. n + 1 : i > before + 1 => i \in before + 2 .. n + 1
      BY <1>1, <1>4
    <2> QED
      BY <1>10, <2>1
  <1>13. InOrder(r)
    <2> SUFFICES ASSUME NEW i \in 1 .. n + 1, NEW j \in 1 .. n + 1, i <= j
                 PROVE  r[i].at <= r[j].at
      BY <1>10 DEF InOrder
    <2>1. \A a, b \in 1 .. n : a <= b => q[a].at <= q[b].at
      BY DEF InOrder
    <2>2. CASE j <= before
      BY <1>1, <1>4, <1>10, <2>1, <2>2
    <2>3. CASE i <= before /\ j = before + 1
      BY <1>1, <1>4, <1>5, <1>10, <2>3
    <2>4. CASE i <= before /\ j > before + 1
      <3>1. r[i] = q[i] /\ r[j] = q[j - 1] /\ i \in 1 .. n /\ j - 1 \in 1 .. n /\ i <= j - 1
        BY <1>1, <1>4, <1>10, <1>12, <2>4
      <3> QED
        BY <2>1, <3>1
    <2>5. CASE i = before + 1 /\ j = before + 1
      BY <1>1, <1>10, <2>5
    <2>6. CASE i = before + 1 /\ j > before + 1
      <3>1. r[i] = e /\ r[j] = q[j - 1] /\ j - 1 \in before + 1 .. n
        BY <1>1, <1>4, <1>10, <1>12, <2>6
      <3>2. q[j - 1].at > e.at /\ q[j - 1].at \in Nat
        BY <1>1, <1>4, <1>5, <3>1
      <3> QED
        BY <1>1, <3>1, <3>2
    <2>7. CASE i > before + 1
      <3>1. r[i] = q[i - 1] /\ r[j] = q[j - 1] /\ i - 1 \in 1 .. n /\ j - 1 \in 1 .. n /\ i - 1 <= j - 1
        BY <1>1, <1>4, <1>12, <2>7
      <3> QED
        BY <2>1, <3>1
    <2> QED
      BY <1>4, <2>2, <2>3, <2>4, <2>5, <2>6, <2>7
  <1>14. before + 1 \in 1 .. n + 1
    BY <1>1, <1>4
  <1>15. \A i \in 1 .. n + 1 : (i < before + 1 => r[i] = q[i]) /\ (i > before + 1 => r[i] = q[i - 1])
    BY <1>4, <1>10, <1>12
  <1> QED
    BY <1>10, <1>13, <1>14, <1>15 DEF r

\* What is put in and what was there before.
LEMMA ScheduledMarks ==
    ASSUME NEW q \in Seq(SimEvents), InOrder(q), NEW e \in SimEvents, NEW T
    PROVE  /\ \A i \in 1 .. Len(Scheduled(q, e)) :
                 \/ Scheduled(q, e)[i] = e
                 \/ \E j \in 1 .. Len(q) : Scheduled(q, e)[i] = q[j]
           /\ e \notin T => (OneOf(q, T) => OneOf(Scheduled(q, e), T))
           /\ e \notin T => (NoneOf(q, T) => NoneOf(Scheduled(q, e), T))
           /\ e \in T => (NoneOf(q, T) => OneOf(Scheduled(q, e), T))
  <1> DEFINE r == Scheduled(q, e)
             n == Len(q)
  <1>1. n \in Nat /\ Len(r) = n + 1
    BY ScheduledIs
  <1>2. PICK k \in 1 .. n + 1 :
           /\ r[k] = e
           /\ \A i \in 1 .. n + 1 : (i < k => r[i] = q[i]) /\ (i > k => r[i] = q[i - 1])
    BY ScheduledIs
  <1> HIDE DEF r
  <1>3. ASSUME NEW i \in 1 .. n + 1, i # k
        PROVE  \E j \in 1 .. n : r[i] = q[j] /\ i = IF j < k THEN j ELSE j + 1
    <2>1. CASE i < k
      <3>1. i \in 1 .. n /\ r[i] = q[i]
        BY <1>1, <1>2, <2>1
      <3> QED
        BY <2>1, <3>1
    <2>2. CASE i > k
      <3> DEFINE j == i - 1
      <3>1. j \in 1 .. n /\ r[i] = q[j] /\ ~(j < k) /\ i = j + 1
        BY <1>1, <1>2, <2>2
      <3> HIDE DEF j
      <3> QED
        BY <3>1
    <2> QED
      BY <1>1, <1>3, <2>1, <2>2
  <1>4. ASSUME NEW j \in 1 .. n
        PROVE  \E i \in 1 .. n + 1 : i # k /\ r[i] = q[j] /\ i = IF j < k THEN j ELSE j + 1
    <2>1. CASE j < k
      BY <1>1, <1>2, <2>1
    <2>2. CASE j >= k
      <3> DEFINE i == j + 1
      <3>1. i \in 1 .. n + 1 /\ i > k /\ i - 1 = j /\ ~(j < k) /\ i = j + 1
        BY <1>1, <2>2
      <3> HIDE DEF i
      <3>2. r[i] = q[j]
        BY <1>2, <3>1
      <3> QED
        BY <3>1, <3>2
    <2> QED
      BY <1>1, <2>1, <2>2
  <1>5. \A i \in 1 .. n + 1 : r[i] = e \/ \E j \in 1 .. n : r[i] = q[j]
    BY <1>2, <1>3
  <1>6. ASSUME e \notin T, OneOf(q, T) PROVE OneOf(r, T)
    <2>1. PICK j \in 1 .. n : q[j] \in T /\ \A l \in 1 .. n : q[l] \in T => l = j
      BY <1>6 DEF OneOf
    <2>2. PICK i \in 1 .. n + 1 : r[i] = q[j] /\ i = IF j < k THEN j ELSE j + 1
      BY <1>4
    <2>3. ASSUME NEW h \in 1 .. n + 1, r[h] \in T PROVE h = i
      <3>1. h # k
        BY <1>2, <1>6, <2>3
      <3>2. PICK l \in 1 .. n : r[h] = q[l] /\ h = IF l < k THEN l ELSE l + 1
        BY <1>3, <3>1
      <3>3. l = j
        BY <2>1, <2>3, <3>2
      <3> QED
        BY <2>2, <3>2, <3>3
    <2> QED
      BY <1>1, <2>1, <2>2, <2>3 DEF OneOf
  <1>7. ASSUME e \notin T, NoneOf(q, T) PROVE NoneOf(r, T)
    <2>1. \A j \in 1 .. n : q[j] \notin T
      BY <1>7 DEF NoneOf
    <2>2. \A i \in 1 .. n + 1 : r[i] \notin T
      BY <1>5, <1>7, <2>1
    <2> QED
      BY <1>1, <2>2 DEF NoneOf
  <1>8. ASSUME e \in T, NoneOf(q, T) PROVE OneOf(r, T)
    <2>1. \A j \in 1 .. n : q[j] \notin T
      BY <1>8 DEF NoneOf
    <2>2. \A h \in 1 .. n + 1 : r[h] \in T => h = k
      BY <1>3, <2>1
    <2> QED
      BY <1>1, <1>2, <1>8, <2>2 DEF OneOf
  <1> QED
    BY <1>1, <1>5, <1>6, <1>7, <1>8 DEF r

\* The queue after the first n of a list of events.
ScheduledOneByOne(f, q, events, n) ==
    f = [i \in 0 .. n |-> IF i = 0 THEN q ELSE Scheduled(f[i - 1], events[i])]

\* There is such a list of queues.
LEMMA SchedulesExist ==
    ASSUME NEW q, NEW events, NEW n \in Nat
    PROVE  \E f : ScheduledOneByOne(f, q, events, n)
  <1> DEFINE S == {k \in Nat : \E f : ScheduledOneByOne(f, q, events, k)}
  <1>1. 0 \in S
    <2> DEFINE f == [i \in 0 .. 0 |-> q]
    <2>1. ScheduledOneByOne(f, q, events, 0)
      BY DEF ScheduledOneByOne
    <2> QED
      BY <2>1
  <1>2. ASSUME NEW k \in Nat, k \in S PROVE k + 1 \in S
    <2>1. PICK f : ScheduledOneByOne(f, q, events, k)
      BY <1>2
    <2> DEFINE g == [i \in 0 .. k + 1 |-> IF i = k + 1 THEN Scheduled(f[k], events[k + 1]) ELSE f[i]]
    <2>2. g[0] = q
      BY <2>1 DEF ScheduledOneByOne
    <2>3. ASSUME NEW i \in 1 .. k + 1 PROVE g[i] = Scheduled(g[i - 1], events[i])
      <3>1. g[i - 1] = f[i - 1]
        OBVIOUS
      <3>2. CASE i = k + 1
        BY <3>1, <3>2
      <3>3. CASE i \in 1 .. k
        <4>1. g[i] = f[i]
          BY <3>3
        <4>2. f[i] = Scheduled(f[i - 1], events[i])
          BY <2>1, <3>3 DEF ScheduledOneByOne
        <4> QED
          BY <3>1, <4>1, <4>2
      <3> QED
        BY <3>2, <3>3
    <2>4. g = [i \in 0 .. k + 1 |-> g[i]]
      OBVIOUS
    <2> HIDE DEF g
    <2>5. ScheduledOneByOne(g, q, events, k + 1)
      <3> DEFINE next == [i \in 0 .. k + 1 |-> IF i = 0 THEN q ELSE Scheduled(g[i - 1], events[i])]
      <3>1. ASSUME NEW i \in 0 .. k + 1 PROVE g[i] = next[i]
        <4>1. CASE i = 0
          BY <2>2, <4>1
        <4>2. CASE i \in 1 .. k + 1
          BY <2>3, <4>2
        <4> QED
          BY <4>1, <4>2
      <3>2. DOMAIN next = 0 .. k + 1 /\ next = [i \in 0 .. k + 1 |-> next[i]]
        OBVIOUS
      <3> HIDE DEF next
      <3>3. g = next
        BY <2>4, <3>1, <3>2
      <3> QED
        BY <3>3 DEF next, ScheduledOneByOne
    <2> QED
      BY <2>5
  <1> HIDE DEF S
  <1>3. Nat \subseteq S
    BY <1>1, <1>2, OneByOne
  <1> QED
    BY <1>3 DEF S

\* What ScheduledAll gives is the last of them.
LEMMA ScheduledAllIs ==
    ASSUME NEW q, NEW events, Len(events) \in Nat
    PROVE  \E f : /\ f[0] = q
                  /\ \A i \in 1 .. Len(events) : f[i] = Scheduled(f[i - 1], events[i])
                  /\ ScheduledAll(q, events) = f[Len(events)]
  <1> DEFINE n == Len(events)
             f == CHOOSE f : ScheduledOneByOne(f, q, events, n)
  <1>1. ScheduledOneByOne(f, q, events, n)
    BY SchedulesExist
  <1>2. ScheduledAll(q, events) = f[n]
    BY DEF ScheduledAll, ScheduledOneByOne
  <1> HIDE DEF f, n
  <1>3. n \in Nat
    BY DEF n
  <1>4. f[0] = q /\ \A i \in 1 .. n : f[i] = Scheduled(f[i - 1], events[i])
    BY <1>1, <1>3 DEF ScheduledOneByOne
  <1> QED
    BY <1>2, <1>4 DEF n

\* A list of events put in: what is in the queue then, and in which order.
LEMMA ScheduledAllMarks ==
    ASSUME NEW q \in Seq(SimEvents), InOrder(q), NEW events \in Seq(SimEvents), NEW T
    PROVE  LET r == ScheduledAll(q, events) IN
           /\ r \in Seq(SimEvents) /\ InOrder(r)
           /\ \A i \in 1 .. Len(r) : \/ \E j \in 1 .. Len(q) : r[i] = q[j]
                                     \/ \E j \in 1 .. Len(events) : r[i] = events[j]
           /\ NoneOf(events, T) => (OneOf(q, T) => OneOf(r, T))
           /\ NoneOf(q, T) => (OneOf(events, T) => OneOf(r, T))
  <1> DEFINE r == ScheduledAll(q, events)
             n == Len(events)
  <1>1. n \in Nat /\ \A i \in 1 .. n : events[i] \in SimEvents
    OBVIOUS
  <1>2. PICK f : /\ f[0] = q /\ \A i \in 1 .. n : f[i] = Scheduled(f[i - 1], events[i])
                 /\ r = f[n]
    <2>1. Len(events) \in Nat
      BY <1>1
    <2>2. \E f : /\ f[0] = q
                 /\ \A i \in 1 .. Len(events) : f[i] = Scheduled(f[i - 1], events[i])
                 /\ ScheduledAll(q, events) = f[Len(events)]
      BY <2>1, ScheduledAllIs, ZenonT(40)
    <2> QED
      BY <2>2, Zenon
  <1> HIDE DEF r, n
  <1> DEFINE Clear(k) == \A j \in 1 .. k : events[j] \notin T
             Once(k) == \E i \in 1 .. k : events[i] \in T /\ \A j \in 1 .. k : events[j] \in T => j = i
             Good(k) ==
                /\ f[k] \in Seq(SimEvents) /\ InOrder(f[k])
                /\ \A i \in 1 .. Len(f[k]) : \/ \E j \in 1 .. Len(q) : f[k][i] = q[j]
                                             \/ \E j \in 1 .. n : f[k][i] = events[j]
                /\ Clear(k) => (OneOf(q, T) => OneOf(f[k], T))
                /\ Clear(k) => (NoneOf(q, T) => NoneOf(f[k], T))
                /\ Once(k) => (NoneOf(q, T) => OneOf(f[k], T))
             S == {k \in Nat : k <= n => Good(k)}
  <1>3. 0 \in S
    <2>1. f[0] = q /\ ~Once(0)
      BY <1>2
    <2>2. Good(0)
      BY <2>1
    <2> QED
      BY <2>2
  <1>4. ASSUME NEW k \in Nat, k \in S PROVE k + 1 \in S
    <2> SUFFICES ASSUME k + 1 <= n PROVE Good(k + 1)
      OBVIOUS
    <2>1. Good(k) /\ k + 1 \in 1 .. n /\ k + 1 - 1 = k
      BY <1>1, <1>4
    <2> DEFINE e == events[k + 1]
    <2>2. e \in SimEvents /\ f[k + 1] = Scheduled(f[k], e)
      BY <1>1, <1>2, <2>1
    <2>3. f[k] \in Seq(SimEvents) /\ InOrder(f[k])
      BY <2>1
    <2>4. /\ \A i \in 1 .. k + 1 : i \in 1 .. k \/ i = k + 1
          /\ \A i \in 1 .. k : i \in 1 .. k + 1 /\ i # k + 1
      OBVIOUS
    <2>5. e = events[k + 1]
      OBVIOUS
    <2> HIDE DEF e
    <2>6. PICK a : a = f[k]
      OBVIOUS
    <2>7. PICK b : b = f[k + 1]
      OBVIOUS
    <2>8. a \in Seq(SimEvents) /\ InOrder(a) /\ b = Scheduled(a, e)
      BY <2>2, <2>3, <2>6, <2>7
    <2>9. /\ b \in Seq(SimEvents) /\ InOrder(b)
          /\ \A i \in 1 .. Len(b) : b[i] = e \/ \E j \in 1 .. Len(a) : b[i] = a[j]
          /\ e \notin T => (OneOf(a, T) => OneOf(b, T))
          /\ e \notin T => (NoneOf(a, T) => NoneOf(b, T))
          /\ e \in T => (NoneOf(a, T) => OneOf(b, T))
      BY <2>2, <2>8, ScheduledIs, ScheduledMarks, ZenonT(40)
    <2>10. \A i \in 1 .. Len(b) : \/ \E j \in 1 .. Len(q) : b[i] = q[j]
                                  \/ \E j \in 1 .. n : b[i] = events[j]
      <3>1. \A i \in 1 .. Len(a) : \/ \E j \in 1 .. Len(q) : a[i] = q[j]
                                   \/ \E j \in 1 .. n : a[i] = events[j]
        BY <2>1, <2>6
      <3> TAKE i \in 1 .. Len(b)
      <3>2. CASE b[i] = e
        BY <2>1, <2>5, <3>2
      <3>3. CASE \E j \in 1 .. Len(a) : b[i] = a[j]
        BY <3>1, <3>3
      <3> QED
        BY <2>9, <3>2, <3>3
    <2>11. ASSUME Clear(k + 1) PROVE e \notin T /\ Clear(k)
      <3>1. k + 1 \in 1 .. k + 1
        OBVIOUS
      <3> QED
        BY <2>4, <2>5, <2>11, <3>1
    <2>12. ASSUME Once(k + 1) PROVE (e \in T /\ Clear(k)) \/ (e \notin T /\ Once(k))
      <3>1. PICK i \in 1 .. k + 1 : events[i] \in T /\ \A j \in 1 .. k + 1 : events[j] \in T => j = i
        BY <2>12
      <3>2. CASE i = k + 1
        <4>1. Clear(k)
          BY <2>4, <3>1, <3>2
        <4> QED
          BY <2>5, <3>1, <3>2, <4>1
      <3>3. CASE i \in 1 .. k
        <4>1. e \notin T
          <5>1. k + 1 \in 1 .. k + 1 /\ i # k + 1
            BY <2>4, <3>3
          <5> QED
            BY <2>5, <3>1, <5>1
        <4>2. Once(k)
          BY <2>4, <3>1, <3>3
        <4> QED
          BY <4>1, <4>2
      <3> QED
        BY <2>4, <3>2, <3>3
    <2>13. /\ Clear(k) => (OneOf(q, T) => OneOf(a, T))
           /\ Clear(k) => (NoneOf(q, T) => NoneOf(a, T))
           /\ Once(k) => (NoneOf(q, T) => OneOf(a, T))
      BY <2>1, <2>6
    <2> HIDE DEF Clear, Once
    <2>14. /\ Clear(k + 1) => (OneOf(q, T) => OneOf(b, T))
           /\ Clear(k + 1) => (NoneOf(q, T) => NoneOf(b, T))
           /\ Once(k + 1) => (NoneOf(q, T) => OneOf(b, T))
      BY <2>9, <2>11, <2>12, <2>13
    <2> QED
      BY <2>7, <2>9, <2>10, <2>14
  <1> HIDE DEF S
  <1>5. Nat \subseteq S
    BY <1>3, <1>4, OneByOne
  <1> HIDE DEF Good
  <1>6. Good(n)
    <2>1. n \in S /\ n <= n
      BY <1>1, <1>5
    <2> QED
      BY <2>1 DEF S
  <1>7. NoneOf(events, T) => Clear(n)
    BY DEF NoneOf, n
  <1>8. OneOf(events, T) => Once(n)
    BY DEF OneOf, n
  <1> HIDE DEF Clear, Once
  <1>9. /\ r \in Seq(SimEvents) /\ InOrder(r)
        /\ \A i \in 1 .. Len(r) : \/ \E j \in 1 .. Len(q) : r[i] = q[j]
                                  \/ \E j \in 1 .. n : r[i] = events[j]
        /\ NoneOf(events, T) => (OneOf(q, T) => OneOf(r, T))
        /\ NoneOf(q, T) => (OneOf(events, T) => OneOf(r, T))
    BY <1>2, <1>6, <1>7, <1>8 DEF Good
  <1> QED
    BY <1>9 DEF r, n

\* The queue without its first event.
LEMMA RestIs ==
    ASSUME NEW q \in Seq(SimEvents), InOrder(q), q # <<>>
    PROVE  /\ q[1] \in SimEvents /\ Len(q) >= 1
           /\ Tail(q) \in Seq(SimEvents) /\ InOrder(Tail(q))
           /\ Len(Tail(q)) = Len(q) - 1
           /\ \A i \in 1 .. Len(Tail(q)) : i + 1 \in 1 .. Len(q) /\ Tail(q)[i] = q[i + 1]
                                           /\ q[1].at <= Tail(q)[i].at
  <1> DEFINE t == Tail(q)
             n == Len(q)
  <1>1. n \in Nat /\ n >= 1 /\ q[1] \in SimEvents
    BY EmptySeq
  <1>2. t \in Seq(SimEvents) /\ Len(t) = n - 1
    BY <1>1
  <1>3. \A i \in 1 .. n - 1 : t[i] = q[i + 1] /\ i + 1 \in 1 .. n
    BY <1>1
  <1>4. \A i, j \in 1 .. n : i <= j => q[i].at <= q[j].at
    BY DEF InOrder
  <1> HIDE DEF t, n
  <1>5. InOrder(t)
    <2> SUFFICES ASSUME NEW i \in 1 .. n - 1, NEW j \in 1 .. n - 1, i <= j
                 PROVE  t[i].at <= t[j].at
      BY <1>2 DEF InOrder
    <2>1. i + 1 \in 1 .. n /\ j + 1 \in 1 .. n /\ i + 1 <= j + 1 /\ t[i] = q[i + 1] /\ t[j] = q[j + 1]
      BY <1>1, <1>3
    <2> QED
      BY <1>4, <2>1
  <1>6. \A i \in 1 .. n - 1 : q[1].at <= t[i].at
    <2> TAKE i \in 1 .. n - 1
    <2>1. 1 \in 1 .. n /\ i + 1 \in 1 .. n /\ 1 <= i + 1
      BY <1>1
    <2> QED
      BY <1>3, <1>4, <2>1
  <1> QED
    BY <1>1, <1>2, <1>3, <1>5, <1>6 DEF t, n

\* The first event taken away, with what it counted for.
LEMMA RestMarks ==
    ASSUME NEW q \in Seq(SimEvents), InOrder(q), q # <<>>, NEW T, OneOf(q, T)
    PROVE  /\ q[1] \notin T => OneOf(Tail(q), T)
           /\ q[1] \in T => NoneOf(Tail(q), T)
  <1> DEFINE t == Tail(q)
             n == Len(q)
  <1>1. n \in Nat /\ n >= 1 /\ Len(t) = n - 1
        /\ \A i \in 1 .. n - 1 : i + 1 \in 1 .. n /\ t[i] = q[i + 1]
    BY RestIs
  <1>2. PICK k \in 1 .. n : q[k] \in T /\ \A j \in 1 .. n : q[j] \in T => j = k
    BY DEF OneOf
  <1> HIDE DEF t, n
  <1>3. ASSUME q[1] \in T PROVE NoneOf(t, T)
    <2>1. k = 1
      BY <1>1, <1>2, <1>3
    <2>2. \A i \in 1 .. n - 1 : t[i] \notin T
      <3> TAKE i \in 1 .. n - 1
      <3>1. i + 1 # 1 /\ i + 1 \in 1 .. n /\ t[i] = q[i + 1]
        BY <1>1
      <3> QED
        BY <1>2, <2>1, <3>1
    <2> QED
      BY <1>1, <2>2 DEF NoneOf
  <1>4. ASSUME q[1] \notin T PROVE OneOf(t, T)
    <2>1. k # 1
      BY <1>2, <1>4
    <2>2. PICK j \in 1 .. n - 1 : k = j + 1
      <3>1. k - 1 \in 1 .. n - 1 /\ k = k - 1 + 1
        BY <1>1, <2>1
      <3> QED
        BY <3>1
    <2>3. t[j] \in T
      BY <1>1, <1>2, <2>2
    <2>4. ASSUME NEW i \in 1 .. n - 1, t[i] \in T PROVE i = j
      <3>1. i + 1 = k
        BY <1>1, <1>2, <2>4
      <3> QED
        BY <2>2, <3>1
    <2> QED
      BY <1>1, <2>3, <2>4 DEF OneOf
  <1> QED
    BY <1>3, <1>4 DEF t

----------------------------------------------------------------------------
\* The simulator's invariant.

\* A limit is within another.
Fits(limit, bound) == limit[1] <= bound[1] /\ limit[2] <= bound[2]

\* An event that may be queued: not in the past, no tick of an instance to come,
\* no limit the bound was not told of, no datagram of a member nobody forged.
Proper(e, at, gens, wide, lies) ==
    /\ e.at >= at
    /\ e.kind.is = "tick" => e.kind.generation <= gens[e.target]
    /\ e.kind.is = "set_limit" => wide # NoEntry /\ Fits(e.kind.limit, wide)
    /\ e.kind.is = "deliver" => lies \/ e.kind.from \in NodeIndexes

QueueFits(q, at, gens, wide, lies) ==
    /\ q \in Seq(SimEvents) /\ InOrder(q)
    /\ \A i \in 1 .. Len(q) : Proper(q[i], at, gens, wide, lies)

LiveTicks(n, generation) ==
    {e \in SimEvents : e.kind.is = "tick" /\ e.target = n /\ e.kind.generation = generation}

TicksFit(q, gens, fallen) ==
    \A n \in NodeIndexes : fallen[n] \/ OneOf(q, LiveTicks(n, gens[n]))

\* Until a limit is set nobody holds the key to another than the config's.
LimitsFit(limits, wide) ==
    IF wide = NoEntry
    THEN \A n \in NodeIndexes : limits[n] = NoEntry
    ELSE \A n \in NodeIndexes :
            Fits(IF limits[n] = NoEntry THEN ConfigLimit ELSE limits[n], wide)

SimNode == [knows : SUBSET (0 .. NodeCount), incarnation : Nat, settings : {"old", "new"}]

SimTypes ==
    /\ nodes \in [NodeIndexes -> SimNode] /\ forged \in BOOLEAN
    /\ generations \in [NodeIndexes -> Nat] /\ down \in [NodeIndexes -> BOOLEAN]
    /\ pauses \in Seq([node : NodeIndexes, from : Nat, until : Nat])
    /\ now \in 0 .. MaxTime /\ deadline \in now .. MaxTime /\ inputs \in 0 .. MaxInputs
    /\ limitOf \in [NodeIndexes -> KeyLimits \cup {NoEntry}] /\ widest \in Nat \X Nat
    /\ auths \in [NodeIndexes -> Seals] /\ lastSeen \in [NodeIndexes -> Nat]

NodesFit ==
    /\ alarm = FALSE
    /\ \A n \in NodeIndexes :
        /\ lastSeen[n] = nodes[n].incarnation
        /\ nodes[n].settings = settings
        /\ forged \/ nodes[n].knows \subseteq NodeIndexes

SimInv ==
    /\ SimTypes /\ NodesFit
    /\ QueueFits(queue, now, generations, widest, forged)
    /\ TicksFit(queue, generations, down)
    /\ LimitsFit(limitOf, widest)

\* The constants.
LEMMA SizesAre ==
    /\ NodeCount \in Nat \ {0} /\ 0 \in NodeIndexes
    /\ NodeIndexes \subseteq 0 .. NodeCount /\ NodeIndexes \subseteq Nat
    /\ Period \in Nat /\ TICK \in Nat \ {0} /\ Latency \in Nat /\ MaxTime \in Nat
    /\ MaxInputs \in Nat /\ Jitter \in Nat /\ Window \in Nat
  BY SimAssumption DEF NodeIndexes

\* An event of a time, a node and a kind.
LEMMA EventIs ==
    ASSUME NEW at \in Nat, NEW n \in NodeIndexes, NEW kind \in SimKinds
    PROVE  /\ Event(at, n, kind) \in SimEvents
           /\ Event(at, n, kind).at = at /\ Event(at, n, kind).target = n
           /\ Event(at, n, kind).kind = kind
  BY DEF Event, SimEvents

\* Events put into the queue keep it fit.
LEMMA ScheduledAllFits ==
    ASSUME NEW at, NEW gens, NEW wide, NEW lies, NEW fallen,
           NEW q, QueueFits(q, at, gens, wide, lies),
           NEW events \in Seq(SimEvents),
           \A i \in 1 .. Len(events) : Proper(events[i], at, gens, wide, lies)
    PROVE  /\ QueueFits(ScheduledAll(q, events), at, gens, wide, lies)
           /\ (\A i \in 1 .. Len(events) : events[i].kind.is # "tick") =>
                 (TicksFit(q, gens, fallen) => TicksFit(ScheduledAll(q, events), gens, fallen))
  <1> DEFINE r == ScheduledAll(q, events)
  <1>1. q \in Seq(SimEvents) /\ InOrder(q)
        /\ \A i \in 1 .. Len(q) : Proper(q[i], at, gens, wide, lies)
    BY DEF QueueFits
  <1>2. /\ r \in Seq(SimEvents) /\ InOrder(r)
        /\ \A i \in 1 .. Len(r) : \/ \E j \in 1 .. Len(q) : r[i] = q[j]
                                  \/ \E j \in 1 .. Len(events) : r[i] = events[j]
    BY <1>1, ScheduledAllMarks
  <1>3. ASSUME \A i \in 1 .. Len(events) : events[i].kind.is # "tick", TicksFit(q, gens, fallen)
        PROVE  TicksFit(r, gens, fallen)
    <2> SUFFICES ASSUME NEW n \in NodeIndexes, ~fallen[n]
                 PROVE  OneOf(r, LiveTicks(n, gens[n]))
      BY DEF TicksFit
    <2> DEFINE T == LiveTicks(n, gens[n])
    <2>1. OneOf(q, T)
      BY <1>3 DEF TicksFit
    <2>2. NoneOf(events, T)
      BY <1>3 DEF NoneOf, LiveTicks
    <2> HIDE DEF T
    <2>3. OneOf(r, T)
      BY <1>1, <2>1, <2>2, ScheduledAllMarks
    <2> QED
      BY <2>3 DEF T
  <1> HIDE DEF r
  <1>4. QueueFits(r, at, gens, wide, lies)
    <2>1. ASSUME NEW i \in 1 .. Len(r) PROVE Proper(r[i], at, gens, wide, lies)
      <3>1. CASE \E j \in 1 .. Len(q) : r[i] = q[j]
        BY <1>1, <3>1
      <3>2. CASE \E j \in 1 .. Len(events) : r[i] = events[j]
        BY <3>2
      <3> QED
        BY <1>2, <3>1, <3>2
    <2> QED
      BY <1>2, <2>1 DEF QueueFits
  <1> QED
    BY <1>3, <1>4 DEF r

\* One event put into the queue keeps it fit.
LEMMA ScheduledFits ==
    ASSUME NEW at, NEW gens, NEW wide, NEW lies,
           NEW q, QueueFits(q, at, gens, wide, lies),
           NEW e \in SimEvents, Proper(e, at, gens, wide, lies)
    PROVE  QueueFits(Scheduled(q, e), at, gens, wide, lies)
  <1> DEFINE r == Scheduled(q, e)
  <1>1. q \in Seq(SimEvents) /\ InOrder(q)
        /\ \A i \in 1 .. Len(q) : Proper(q[i], at, gens, wide, lies)
    BY DEF QueueFits
  <1>2. /\ r \in Seq(SimEvents) /\ InOrder(r)
        /\ \A i \in 1 .. Len(r) : r[i] = e \/ \E j \in 1 .. Len(q) : r[i] = q[j]
    BY <1>1, ScheduledIs, ScheduledMarks
  <1> HIDE DEF r
  <1>3. \A i \in 1 .. Len(r) : Proper(r[i], at, gens, wide, lies)
    BY <1>1, <1>2
  <1> QED
    BY <1>2, <1>3 DEF QueueFits, r

\* The queue without its first event, at the time of that event.
LEMMA RestFits ==
    ASSUME NEW at \in Nat, NEW gens, NEW wide, NEW lies,
           NEW q, QueueFits(q, at, gens, wide, lies), q # <<>>
    PROVE  /\ q[1] \in SimEvents /\ Proper(q[1], at, gens, wide, lies)
           /\ QueueFits(Tail(q), q[1].at, gens, wide, lies)
           /\ QueueFits(Tail(q), at, gens, wide, lies)
  <1> DEFINE t == Tail(q)
  <1>1. q \in Seq(SimEvents) /\ InOrder(q)
        /\ \A i \in 1 .. Len(q) : Proper(q[i], at, gens, wide, lies)
    BY DEF QueueFits
  <1>2. /\ q[1] \in SimEvents /\ Len(q) >= 1 /\ Len(q) \in Nat
        /\ t \in Seq(SimEvents) /\ InOrder(t) /\ Len(t) = Len(q) - 1
        /\ \A i \in 1 .. Len(t) : i + 1 \in 1 .. Len(q) /\ t[i] = q[i + 1] /\ q[1].at <= t[i].at
    BY <1>1, RestIs
  <1> HIDE DEF t
  <1>3. \A i \in 1 .. Len(t) : Proper(t[i], at, gens, wide, lies)
    BY <1>1, <1>2
  <1>4. Proper(q[1], at, gens, wide, lies)
    <2>1. 1 \in 1 .. Len(q)
      BY <1>2
    <2> QED
      BY <1>1, <2>1
  <1>5. \A i \in 1 .. Len(t) : t[i].at >= q[1].at
    <2>1. ASSUME NEW i \in 1 .. Len(t) PROVE t[i].at >= q[1].at
      <3>1. t[i] \in SimEvents
        BY <1>2
      <3>2. t[i].at \in Nat /\ q[1].at \in Nat
        BY <1>2, <3>1 DEF SimEvents
      <3> QED
        BY <1>2, <3>2
    <2> QED
      BY <2>1
  <1>6. \A i \in 1 .. Len(t) : Proper(t[i], q[1].at, gens, wide, lies)
    BY <1>3, <1>5 DEF Proper
  <1> QED
    BY <1>2, <1>3, <1>4, <1>6 DEF QueueFits, t

\* What was fit stays so as bounds widen, generations rise and forgers speak.
LEMMA StillFits ==
    ASSUME NEW at, NEW gens, NEW wide, NEW lies, NEW gens2, NEW wide2 \in Nat \X Nat, NEW lies2,
           NEW q, QueueFits(q, at, gens, wide, lies), gens \in [NodeIndexes -> Nat],
           gens2 \in [NodeIndexes -> Nat], \A n \in NodeIndexes : gens[n] <= gens2[n],
           wide \in Nat \X Nat, wide = NoEntry \/ (wide2 # NoEntry /\ Fits(wide, wide2)),
           lies => lies2
    PROVE  QueueFits(q, at, gens2, wide2, lies2)
  <1>1. q \in Seq(SimEvents) /\ InOrder(q)
        /\ \A i \in 1 .. Len(q) : Proper(q[i], at, gens, wide, lies)
    BY DEF QueueFits
  <1>2. ASSUME NEW e \in SimEvents, Proper(e, at, gens, wide, lies)
        PROVE  Proper(e, at, gens2, wide2, lies2)
    <2>1. e.target \in NodeIndexes /\ e.kind \in SimKinds
      BY DEF SimEvents
    <2>2. ASSUME e.kind.is = "tick" PROVE e.kind.generation <= gens2[e.target]
      <3>1. e.kind.generation \in Nat
        BY <2>1, <2>2 DEF SimKinds
      <3> QED
        BY <1>2, <2>1, <2>2, <3>1 DEF Proper
    <2>3. ASSUME e.kind.is = "set_limit" PROVE wide2 # NoEntry /\ Fits(e.kind.limit, wide2)
      <3>1. e.kind.limit \in Nat \X Nat
        BY <2>1, <2>3, SimAssumption DEF SimKinds
      <3>2. wide # NoEntry /\ Fits(e.kind.limit, wide)
        BY <1>2, <2>3 DEF Proper
      <3> QED
        BY <3>1, <3>2 DEF Fits
    <2> QED
      BY <1>2, <2>2, <2>3 DEF Proper
  <1>3. \A i \in 1 .. Len(q) : Proper(q[i], at, gens2, wide2, lies2)
    BY <1>1, <1>2
  <1> QED
    BY <1>1, <1>3 DEF QueueFits

\* widen: the bound takes in the limit, those in force and what it was.
LEMMA WidenedIs ==
    ASSUME widest \in Nat \X Nat, limitOf \in [NodeIndexes -> KeyLimits \cup {NoEntry}],
           LimitsFit(limitOf, widest), NEW limits, NEW limit \in KeyLimits,
           limits = limitOf \/ limits = [n \in NodeIndexes |-> limit], Widened(limits, limit)
    PROVE  \E wide \in Nat \X Nat :
              /\ widest' = wide /\ wide # NoEntry /\ Fits(limit, wide) /\ LimitsFit(limits, wide)
              /\ widest = NoEntry \/ Fits(widest, wide)
  <1> DEFINE start == IF widest # NoEntry THEN widest
                      ELSE IF \E n \in NodeIndexes : limits[n] = NoEntry THEN ConfigLimit ELSE limit
             wide == <<Larger(start[1], limit[1]), Larger(start[2], limit[2])>>
  <1>1. widest' = wide
    BY DEF Widened
  <1>2. limit \in Nat \X Nat /\ limit # NoEntry /\ ConfigLimit \in Nat \X Nat
        /\ \A other \in KeyLimits : other \in Nat \X Nat
    BY SimAssumption DEF NoEntry
  <1>3. start \in Nat \X Nat
    BY <1>2
  <1>4. widest # NoEntry => start = widest
    OBVIOUS
  <1>5. (widest = NoEntry /\ limits = limitOf) => start = ConfigLimit
    BY SizesAre DEF LimitsFit
  <1> HIDE DEF start
  <1>6. wide \in Nat \X Nat /\ Fits(start, wide) /\ Fits(limit, wide)
    BY <1>2, <1>3 DEF Larger, Fits
  <1>7. wide # NoEntry
    <2>1. limit[1] > 0 \/ limit[2] > 0
      BY <1>2 DEF NoEntry
    <2> QED
      BY <1>2, <1>6, <2>1 DEF Fits, NoEntry
  <1> HIDE DEF wide
  <1>8. widest = NoEntry \/ Fits(widest, wide)
    BY <1>4, <1>6
  <1>9. LimitsFit(limits, wide)
    <2> SUFFICES ASSUME NEW n \in NodeIndexes
                 PROVE  Fits(IF limits[n] = NoEntry THEN ConfigLimit ELSE limits[n], wide)
      BY <1>7 DEF LimitsFit
    <2>1. CASE limits = [m \in NodeIndexes |-> limit]
      BY <1>2, <1>6, <2>1
    <2>2. CASE limits = limitOf /\ widest = NoEntry
      BY <1>5, <1>6, <2>2 DEF LimitsFit
    <2>3. CASE limits = limitOf /\ widest # NoEntry
      <3> DEFINE x == IF limits[n] = NoEntry THEN ConfigLimit ELSE limits[n]
      <3>1. Fits(x, widest)
        BY <2>3 DEF LimitsFit
      <3>2. x \in Nat \X Nat
        BY <1>2, <2>3
      <3> HIDE DEF x
      <3>3. Fits(x, wide)
        BY <1>4, <1>6, <2>3, <3>1, <3>2 DEF Fits
      <3> QED
        BY <3>3 DEF x
    <2> QED
      BY <2>1, <2>2, <2>3
  <1> QED
    BY <1>1, <1>6, <1>7, <1>8, <1>9

\* Events scheduled by the test, none of them a tick.
LEMMA SchedulingKeeps ==
    ASSUME SimInv, NEW wide \in Nat \X Nat, NEW lies \in BOOLEAN, NEW events \in Seq(SimEvents),
           \A i \in 1 .. Len(events) : /\ events[i].kind.is # "tick"
                                       /\ Proper(events[i], now, generations, wide, lies),
           queue' = ScheduledAll(queue, events), widest' = wide, forged' = lies,
           widest = NoEntry \/ (wide # NoEntry /\ Fits(widest, wide)), forged => lies,
           LimitsFit(limitOf, wide), inputs' \in 0 .. MaxInputs,
           UNCHANGED <<nodes, settings, generations, down, pauses, now, deadline, limitOf, auths,
                       lastSeen, alarm>>
    PROVE  SimInv'
  <1>1. PICK q : q = queue
    OBVIOUS
  <1>2. PICK r : r = ScheduledAll(q, events)
    OBVIOUS
  <1>3. SimTypes /\ NodesFit /\ QueueFits(q, now, generations, widest, forged)
        /\ TicksFit(q, generations, down)
    BY <1>1 DEF SimInv
  <1>4. QueueFits(q, now, generations, wide, lies)
    <2>1. generations \in [NodeIndexes -> Nat] /\ widest \in Nat \X Nat
          /\ \A n \in NodeIndexes : generations[n] <= generations[n]
      BY <1>3 DEF SimTypes
    <2> QED
      BY <1>3, <2>1, StillFits
  <1>5. QueueFits(r, now, generations, wide, lies) /\ TicksFit(r, generations, down)
    BY <1>2, <1>3, <1>4, ScheduledAllFits
  <1>6. queue' = r
    BY <1>1, <1>2
  <1>7. QueueFits(queue, now, generations, widest, forged)'
        /\ TicksFit(queue, generations, down)' /\ LimitsFit(limitOf, widest)'
    BY <1>5, <1>6
  <1>8. SimTypes'
    BY <1>3 DEF SimTypes
  <1>9. NodesFit'
    BY <1>3 DEF NodesFit
  <1> QED
    BY <1>7, <1>8, <1>9 DEF SimInv

\* What the test does to the simulator that does not touch the queue.
LEMMA SettingKeeps ==
    ASSUME SimInv, SimTypes', NodesFit', LimitsFit(limitOf, widest)',
           UNCHANGED <<queue, now, generations, forged, down>>,
           widest' = widest \/ widest = NoEntry \/ (widest' # NoEntry /\ Fits(widest, widest'))
    PROVE  SimInv'
  <1>1. PICK q : q = queue
    OBVIOUS
  <1>2. PICK wide : wide = widest'
    OBVIOUS
  <1>3. QueueFits(q, now, generations, widest, forged) /\ TicksFit(q, generations, down)
    BY <1>1 DEF SimInv
  <1>4. QueueFits(q, now, generations, wide, forged)
    <2>1. CASE wide = widest
      BY <1>3, <2>1
    <2>2. CASE wide # widest
      <3>1. /\ generations \in [NodeIndexes -> Nat] /\ widest \in Nat \X Nat /\ wide \in Nat \X Nat
            /\ \A n \in NodeIndexes : generations[n] <= generations[n]
        BY <1>2 DEF SimTypes, SimInv
      <3>2. widest = NoEntry \/ (wide # NoEntry /\ Fits(widest, wide))
        BY <1>2, <2>2
      <3> QED
        BY <1>3, <3>1, <3>2, StillFits
    <2> QED
      BY <2>1, <2>2
  <1>5. QueueFits(queue, now, generations, widest, forged)' /\ TicksFit(queue, generations, down)'
    BY <1>1, <1>2, <1>3, <1>4
  <1> QED
    BY <1>5 DEF SimInv

\* The kinds of events the test schedules.
LEMMA KindsAre ==
    /\ \A is \in {"crash", "restart", "leave", "request"} : [is |-> is] \in SimKinds
    /\ \A limit \in KeyLimits : [is |-> "set_limit", limit |-> limit] \in SimKinds
    /\ \A auth \in Seals : [is |-> "set_auth", auth |-> auth] \in SimKinds
    /\ \A generation \in Nat : TickOf(generation) \in SimKinds
    /\ \A from \in 0 .. NodeCount, seal \in Seals : Datagram(from, seal) \in SimKinds
  BY DEF SimKinds, TickOf, Datagram

\* The state by itself.
LEMMA SimTypesAre ==
    ASSUME SimInv
    PROVE  /\ now \in Nat /\ deadline \in Nat /\ now <= deadline /\ deadline <= MaxTime
           /\ \A t \in Times : t \in Nat /\ now <= t /\ t <= MaxTime
           /\ inputs \in 0 .. MaxInputs /\ inputs \in Nat
           /\ generations \in [NodeIndexes -> Nat] /\ down \in [NodeIndexes -> BOOLEAN]
           /\ widest \in Nat \X Nat /\ auths \in [NodeIndexes -> Seals]
           /\ nodes \in [NodeIndexes -> SimNode] /\ forged \in BOOLEAN
           /\ limitOf \in [NodeIndexes -> KeyLimits \cup {NoEntry}]
           /\ LimitsFit(limitOf, widest) /\ NodesFit
  BY SizesAre DEF SimInv, SimTypes, Times

LEMMA DrivenIs ==
    ASSUME SimInv, Drives
    PROVE  inputs' \in 0 .. MaxInputs /\ UNCHANGED <<now, deadline>>
  BY SimTypesAre, SizesAre DEF Drives

\* Events that are neither a tick, nor a limit, nor a datagram, scheduled.
LEMMA PlainKeeps ==
    ASSUME SimInv, Drives, NEW events \in Seq(SimEvents), Schedule(events),
           UNCHANGED <<forged, pauses, widest>>,
           \A i \in 1 .. Len(events) :
              events[i].at >= now /\ events[i].kind.is \notin {"tick", "set_limit", "deliver"}
    PROVE  SimInv'
  <1>1. inputs' \in 0 .. MaxInputs /\ UNCHANGED <<now, deadline>>
    BY DrivenIs
  <1>2. /\ queue' = ScheduledAll(queue, events)
        /\ UNCHANGED <<nodes, settings, generations, down, limitOf, auths, lastSeen, alarm>>
    BY DEF Schedule, judged
  <1>3. /\ widest \in Nat \X Nat /\ forged \in BOOLEAN /\ LimitsFit(limitOf, widest)
    BY SimTypesAre
  <1>4. PICK wide \in Nat \X Nat : wide = widest
    BY <1>3
  <1>5. PICK lies \in BOOLEAN : lies = forged
    BY <1>3
  <1>6. \A i \in 1 .. Len(events) : /\ events[i].kind.is # "tick"
                                    /\ Proper(events[i], now, generations, wide, lies)
    BY DEF Proper
  <1>7. widest = NoEntry \/ (wide # NoEntry /\ Fits(widest, wide))
    BY <1>3, <1>4 DEF Fits
  <1>8. LimitsFit(limitOf, wide) /\ widest' = wide /\ forged' = lies /\ (forged => lies)
    BY <1>3, <1>4, <1>5
  <1> QED
    BY <1>1, <1>2, <1>6, <1>7, <1>8, SchedulingKeeps

\* One event scheduled.
LEMMA OneEvent ==
    ASSUME NEW e \in SimEvents
    PROVE  <<e>> \in Seq(SimEvents) /\ Len(<<e>>) = 1 /\ \A i \in 1 .. Len(<<e>>) : <<e>>[i] = e
  OBVIOUS

\* schedule_restart: a crash and a restart.
LEMMA RestartScheduled ==
    ASSUME SimInv, NEW n \in NodeIndexes, NEW downAt \in Times, NEW upAt \in Times,
           ScheduleRestart(n, downAt, upAt)
    PROVE  SimInv'
  <1> DEFINE a == Event(downAt, n, [is |-> "crash"])
             b == Event(upAt, n, [is |-> "restart"])
  <1>1. downAt \in Nat /\ upAt \in Nat /\ downAt >= now /\ upAt >= now
    BY SimTypesAre
  <1>2. [is |-> "crash"] \in SimKinds /\ [is |-> "restart"] \in SimKinds
    BY KindsAre
  <1>3. /\ a \in SimEvents /\ a.at = downAt /\ a.kind.is = "crash"
        /\ b \in SimEvents /\ b.at = upAt /\ b.kind.is = "restart"
    BY <1>1, <1>2, EventIs
  <1>4. Drives /\ Schedule(<<a, b>>) /\ UNCHANGED <<forged, pauses, widest>>
    BY DEF ScheduleRestart
  <1> HIDE DEF a, b
  <1> DEFINE events == <<a, b>>
  <1>5. /\ events \in Seq(SimEvents)
        /\ \A i \in 1 .. Len(events) : events[i] = a \/ events[i] = b
    BY <1>3
  <1>6. Schedule(events)
    BY <1>4
  <1> HIDE DEF events
  <1>7. \A i \in 1 .. Len(events) :
           events[i].at >= now /\ events[i].kind.is \notin {"tick", "set_limit", "deliver"}
    BY <1>1, <1>3, <1>5
  <1> QED
    BY <1>4, <1>5, <1>6, <1>7, PlainKeeps

\* schedule_leave.
LEMMA LeaveScheduled ==
    ASSUME SimInv, NEW n \in NodeIndexes, NEW at \in Times, ScheduleLeave(n, at)
    PROVE  SimInv'
  <1> DEFINE e == Event(at, n, [is |-> "leave"])
             events == <<e>>
  <1>1. at \in Nat /\ at >= now
    BY SimTypesAre
  <1>2. [is |-> "leave"] \in SimKinds
    BY KindsAre
  <1>3. e \in SimEvents /\ e.at = at /\ e.kind.is = "leave"
    BY <1>1, <1>2, EventIs
  <1>4. Drives /\ Schedule(events) /\ UNCHANGED <<forged, pauses, widest>>
    BY DEF ScheduleLeave
  <1> HIDE DEF e
  <1>5. events \in Seq(SimEvents) /\ \A i \in 1 .. Len(events) : events[i] = e
    BY <1>3, OneEvent
  <1> HIDE DEF events
  <1>6. \A i \in 1 .. Len(events) :
           events[i].at >= now /\ events[i].kind.is \notin {"tick", "set_limit", "deliver"}
    BY <1>1, <1>3, <1>5
  <1> QED
    BY <1>4, <1>5, <1>6, PlainKeeps

\* schedule_set_auth.
LEMMA AuthScheduled ==
    ASSUME SimInv, NEW n \in NodeIndexes, NEW at \in Times, NEW auth \in Seals,
           ScheduleAuth(at, n, auth)
    PROVE  SimInv'
  <1> DEFINE e == Event(at, n, [is |-> "set_auth", auth |-> auth])
             events == <<e>>
  <1>1. at \in Nat /\ at >= now
    BY SimTypesAre
  <1>2. [is |-> "set_auth", auth |-> auth] \in SimKinds
    BY KindsAre
  <1>3. e \in SimEvents /\ e.at = at /\ e.kind.is = "set_auth"
    BY <1>1, <1>2, EventIs
  <1>4. Drives /\ Schedule(events) /\ UNCHANGED <<forged, pauses, widest>>
    BY DEF ScheduleAuth
  <1> HIDE DEF e
  <1>5. events \in Seq(SimEvents) /\ \A i \in 1 .. Len(events) : events[i] = e
    BY <1>3, OneEvent
  <1> HIDE DEF events
  <1>6. \A i \in 1 .. Len(events) :
           events[i].at >= now /\ events[i].kind.is \notin {"tick", "set_limit", "deliver"}
    BY <1>1, <1>3, <1>5
  <1> QED
    BY <1>4, <1>5, <1>6, PlainKeeps

\* schedule_key_limit: the bound is told before the event is due.
LEMMA LimitScheduled ==
    ASSUME SimInv, NEW n \in NodeIndexes, NEW at \in Times, NEW limit \in KeyLimits,
           ScheduleKeyLimit(at, n, limit)
    PROVE  SimInv'
  <1> DEFINE e == Event(at, n, [is |-> "set_limit", limit |-> limit])
             events == <<e>>
  <1>1. at \in Nat /\ at >= now
    BY SimTypesAre
  <1>2. [is |-> "set_limit", limit |-> limit] \in SimKinds
    BY KindsAre
  <1>3. e \in SimEvents /\ e.at = at /\ e.kind.is = "set_limit" /\ e.kind.limit = limit
    BY <1>1, <1>2, EventIs
  <1>4. Drives /\ Schedule(events) /\ Widened(limitOf, limit) /\ UNCHANGED <<forged, pauses>>
    BY DEF ScheduleKeyLimit
  <1> HIDE DEF e
  <1>5. events \in Seq(SimEvents) /\ \A i \in 1 .. Len(events) : events[i] = e
    BY <1>3, OneEvent
  <1> HIDE DEF events
  <1>6. inputs' \in 0 .. MaxInputs /\ UNCHANGED <<now, deadline>>
    BY <1>4, DrivenIs
  <1>7. /\ queue' = ScheduledAll(queue, events)
        /\ UNCHANGED <<nodes, settings, generations, down, limitOf, auths, lastSeen, alarm>>
    BY <1>4 DEF Schedule, judged
  <1>8. PICK limits : limits = limitOf
    OBVIOUS
  <1>9. /\ widest \in Nat \X Nat /\ LimitsFit(limitOf, widest) /\ forged \in BOOLEAN
        /\ limitOf \in [NodeIndexes -> KeyLimits \cup {NoEntry}] /\ Widened(limits, limit)
    BY <1>4, <1>8, SimTypesAre
  <1>10. PICK wide \in Nat \X Nat :
           /\ widest' = wide /\ wide # NoEntry /\ Fits(limit, wide) /\ LimitsFit(limits, wide)
           /\ widest = NoEntry \/ Fits(widest, wide)
    BY <1>8, <1>9, WidenedIs
  <1>11. PICK lies \in BOOLEAN : lies = forged
    BY <1>9
  <1>12. \A i \in 1 .. Len(events) : /\ events[i].kind.is # "tick"
                                     /\ Proper(events[i], now, generations, wide, lies)
    BY <1>1, <1>3, <1>5, <1>10 DEF Proper
  <1>13. LimitsFit(limitOf, wide) /\ forged' = lies /\ (forged => lies)
         /\ UNCHANGED pauses
    BY <1>4, <1>8, <1>10, <1>11
  <1> QED
    BY <1>5, <1>6, <1>7, <1>10, <1>12, <1>13, SchedulingKeeps

\* schedule_message: from now on a node may know who does not exist.
LEMMA MessageScheduled ==
    ASSUME SimInv, NEW n \in NodeIndexes, NEW at \in Times, NEW from \in 0 .. NodeCount,
           NEW seal \in Seals, ScheduleMessage(at, from, n, seal)
    PROVE  SimInv'
  <1> DEFINE e == Event(at, n, Datagram(from, seal))
             events == <<e>>
  <1>1. at \in Nat /\ at >= now
    BY SimTypesAre
  <1>2. Datagram(from, seal) \in SimKinds /\ Datagram(from, seal).is = "deliver"
    BY KindsAre DEF Datagram
  <1>3. e \in SimEvents /\ e.at = at /\ e.kind.is = "deliver"
    BY <1>1, <1>2, EventIs
  <1>4. Drives /\ Schedule(events) /\ forged' = TRUE /\ UNCHANGED <<pauses, widest>>
    BY DEF ScheduleMessage
  <1> HIDE DEF e
  <1>5. events \in Seq(SimEvents) /\ \A i \in 1 .. Len(events) : events[i] = e
    BY <1>3, OneEvent
  <1> HIDE DEF events
  <1>6. inputs' \in 0 .. MaxInputs /\ UNCHANGED <<now, deadline>>
    BY <1>4, DrivenIs
  <1>7. /\ queue' = ScheduledAll(queue, events)
        /\ UNCHANGED <<nodes, settings, generations, down, limitOf, auths, lastSeen, alarm>>
    BY <1>4 DEF Schedule, judged
  <1>8. widest \in Nat \X Nat /\ LimitsFit(limitOf, widest)
    BY SimTypesAre
  <1>9. PICK wide \in Nat \X Nat : wide = widest
    BY <1>8
  <1>10. \A i \in 1 .. Len(events) : /\ events[i].kind.is # "tick"
                                     /\ Proper(events[i], now, generations, wide, TRUE)
    BY <1>1, <1>3, <1>5 DEF Proper
  <1>11. widest = NoEntry \/ (wide # NoEntry /\ Fits(widest, wide))
    BY <1>8, <1>9 DEF Fits
  <1>12. LimitsFit(limitOf, wide) /\ widest' = wide /\ TRUE \in BOOLEAN
    BY <1>4, <1>8, <1>9
  <1> QED
    BY <1>4, <1>5, <1>6, <1>7, <1>10, <1>11, <1>12, SchedulingKeeps

\* schedule_request_stream: the interval is no less than one.
LEMMA RequestsScheduled ==
    ASSUME SimInv, NEW n \in NodeIndexes, NEW rate \in 1 .. 2, NEW from \in Times, NEW until \in Times,
           ScheduleRequests(n, rate, from, until)
    PROVE  SimInv'
  <1> DEFINE interval == (MaxTime + rate - 1) \div rate
             many == (until - from + interval - 1) \div interval
             kind == [is |-> "request"]
             events == [i \in 1 .. many |-> Event(from + (i - 1) * interval, n, kind)]
  <1>1. /\ Drives /\ from < until /\ Schedule(events) /\ UNCHANGED <<forged, pauses, widest>>
    BY DEF ScheduleRequests
  <1>2. /\ from \in Nat /\ until \in Nat /\ now \in Nat /\ from >= now /\ until <= MaxTime
        /\ MaxTime \in Nat
    BY SimTypesAre, SizesAre
  <1>3. interval \in Nat /\ interval >= 1
    <2>1. CASE rate = 1
      BY <1>1, <1>2, <2>1
    <2>2. CASE rate = 2
      BY <1>1, <1>2, <2>2
    <2> QED
      BY <2>1, <2>2
  <1>4. kind \in SimKinds /\ kind.is = "request"
    BY KindsAre
  <1> HIDE DEF interval, kind
  <1>5. many \in Nat
    <2>1. until - from + interval - 1 \in Nat
      BY <1>1, <1>2, <1>3
    <2> DEFINE a == until - from + interval - 1
    <2>2. a \in Nat
      BY <2>1
    <2> HIDE DEF a
    <2>3. a \div interval \in Nat
      BY <1>3, <2>2
    <2> QED
      BY <2>3 DEF a
  <1> HIDE DEF many
  <1>6. ASSUME NEW i \in 1 .. many
        PROVE  LET e == Event(from + (i - 1) * interval, n, kind) IN
               e \in SimEvents /\ e.at >= now /\ e.kind = kind
    <2> DEFINE at == from + (i - 1) * interval
    <2>1. (i - 1) * interval \in Nat
      BY <1>3, <1>5
    <2> DEFINE d == (i - 1) * interval
    <2>2. d \in Nat /\ at = from + d
      BY <2>1
    <2> HIDE DEF d
    <2>3. at \in Nat /\ at >= now
      BY <1>2, <2>2
    <2> HIDE DEF at
    <2>4. /\ Event(at, n, kind) \in SimEvents /\ Event(at, n, kind).at = at
          /\ Event(at, n, kind).kind = kind
      BY <1>4, <2>3, EventIs
    <2> QED
      BY <2>3, <2>4 DEF at
  <1>7. /\ events \in Seq(SimEvents) /\ Len(events) = many
        /\ \A i \in 1 .. Len(events) : events[i].at >= now /\ events[i].kind = kind
    BY <1>5, <1>6
  <1> HIDE DEF events
  <1>8. \A i \in 1 .. Len(events) :
           events[i].at >= now /\ events[i].kind.is \notin {"tick", "set_limit", "deliver"}
    BY <1>4, <1>7
  <1> QED
    BY <1>1, <1>7, <1>8, PlainKeeps

\* pause_node.
LEMMA PauseKeeps ==
    ASSUME SimInv, NEW n \in NodeIndexes, NEW from \in Times, NEW until \in Times,
           PauseNode(n, from, until)
    PROVE  SimInv'
  <1>1. inputs' \in 0 .. MaxInputs /\ UNCHANGED <<now, deadline>>
    BY DrivenIs DEF PauseNode
  <1>2. /\ pauses' = Append(pauses, [node |-> n, from |-> from, until |-> until])
        /\ UNCHANGED <<nodes, settings, forged, generations, down, queue, limitOf, widest, auths,
                       lastSeen, alarm>>
    BY DEF PauseNode, judged
  <1>3. SimTypes /\ NodesFit /\ LimitsFit(limitOf, widest) /\ from \in Nat /\ until \in Nat
    BY SimTypesAre DEF SimInv
  <1>4. pauses' \in Seq([node : NodeIndexes, from : Nat, until : Nat])
    BY <1>2, <1>3 DEF SimTypes
  <1>5. SimTypes'
    BY <1>1, <1>2, <1>3, <1>4 DEF SimTypes
  <1>6. NodesFit' /\ LimitsFit(limitOf, widest)'
    BY <1>2, <1>3 DEF NodesFit
  <1> QED
    BY <1>1, <1>2, <1>5, <1>6, SettingKeeps

\* set_limit_everywhere.
LEMMA EverywhereKeeps ==
    ASSUME SimInv, NEW limit \in KeyLimits, LimitEverywhere(limit)
    PROVE  SimInv'
  <1>1. inputs' \in 0 .. MaxInputs /\ UNCHANGED <<now, deadline>>
    BY DrivenIs DEF LimitEverywhere
  <1>2. /\ limitOf' = [n \in NodeIndexes |-> limit] /\ Widened(limitOf', limit)
        /\ UNCHANGED <<nodes, settings, forged, generations, down, pauses, queue, auths,
                       lastSeen, alarm>>
    BY DEF LimitEverywhere, judged
  <1>3. SimTypes /\ NodesFit /\ LimitsFit(limitOf, widest) /\ widest \in Nat \X Nat
        /\ limitOf \in [NodeIndexes -> KeyLimits \cup {NoEntry}]
    BY SimTypesAre DEF SimInv
  <1>4. PICK limits : limits = [n \in NodeIndexes |-> limit]
    OBVIOUS
  <1>5. Widened(limits, limit)
    BY <1>2, <1>4
  <1>6. PICK wide \in Nat \X Nat :
           /\ widest' = wide /\ wide # NoEntry /\ Fits(limit, wide) /\ LimitsFit(limits, wide)
           /\ widest = NoEntry \/ Fits(widest, wide)
    BY <1>3, <1>4, <1>5, WidenedIs
  <1>7. limitOf' = limits /\ limits \in [NodeIndexes -> KeyLimits \cup {NoEntry}]
    BY <1>2, <1>4
  <1>8. SimTypes'
    BY <1>1, <1>2, <1>3, <1>6, <1>7 DEF SimTypes
  <1>9. NodesFit'
    BY <1>2, <1>3 DEF NodesFit
  <1>10. LimitsFit(limitOf, widest)'
    BY <1>6, <1>7
  <1> QED
    BY <1>1, <1>2, <1>6, <1>8, <1>9, <1>10, SettingKeeps

\* set_auth.
LEMMA AuthKeeps ==
    ASSUME SimInv, NEW n \in NodeIndexes, NEW auth \in Seals, SetAuth(n, auth)
    PROVE  SimInv'
  <1>1. inputs' \in 0 .. MaxInputs /\ UNCHANGED <<now, deadline>>
    BY DrivenIs DEF SetAuth
  <1>2. /\ auths' = [auths EXCEPT ![n] = auth]
        /\ UNCHANGED <<nodes, settings, forged, generations, down, pauses, queue, limitOf, widest,
                       lastSeen, alarm>>
    BY DEF SetAuth, judged
  <1>3. SimTypes /\ NodesFit /\ LimitsFit(limitOf, widest)
    BY DEF SimInv
  <1>4. SimTypes'
    BY <1>1, <1>2, <1>3 DEF SimTypes
  <1>5. NodesFit' /\ LimitsFit(limitOf, widest)'
    BY <1>2, <1>3 DEF NodesFit
  <1> QED
    BY <1>1, <1>2, <1>4, <1>5, SettingKeeps

\* The settings change on every node at once.
LEMMA ConfigureKeeps ==
    ASSUME SimInv, Configure("new")
    PROVE  SimInv'
  <1>1. inputs' \in 0 .. MaxInputs /\ UNCHANGED <<now, deadline>>
    BY DrivenIs DEF Configure
  <1>2. /\ settings' = "new" /\ nodes' = [n \in NodeIndexes |-> [nodes[n] EXCEPT !.settings = "new"]]
        /\ UNCHANGED <<forged, generations, down, pauses, queue, limitOf, widest, auths,
                       lastSeen, alarm>>
    BY DEF Configure, judged
  <1>3. SimTypes /\ NodesFit /\ LimitsFit(limitOf, widest)
    BY DEF SimInv
  <1>4. ASSUME NEW n \in NodeIndexes
        PROVE  /\ nodes'[n] \in SimNode /\ nodes'[n].incarnation = nodes[n].incarnation
               /\ nodes'[n].knows = nodes[n].knows /\ nodes'[n].settings = "new"
    <2>1. nodes[n] \in SimNode
      BY <1>3 DEF SimTypes
    <2>2. nodes'[n] = [nodes[n] EXCEPT !.settings = "new"]
      BY <1>2
    <2> QED
      BY <2>1, <2>2 DEF SimNode
  <1>5. nodes' \in [NodeIndexes -> SimNode]
    BY <1>2, <1>4
  <1>6. SimTypes'
    BY <1>1, <1>2, <1>3, <1>5 DEF SimTypes
  <1>7. NodesFit'
    BY <1>2, <1>3, <1>4 DEF NodesFit
  <1>8. LimitsFit(limitOf, widest)'
    BY <1>2, <1>3
  <1> QED
    BY <1>1, <1>2, <1>6, <1>7, <1>8, SettingKeeps

\* run_until starts.
LEMMA RunKeeps ==
    ASSUME SimInv, now < MaxTime, RunUntil(now + 1)
    PROVE  SimInv'
  <1>1. /\ deadline' = now + 1
        /\ UNCHANGED <<nodes, settings, forged, generations, down, pauses, queue, now, limitOf,
                       widest, auths, lastSeen, alarm, inputs>>
    BY DEF RunUntil, judged
  <1>2. SimTypes /\ NodesFit /\ LimitsFit(limitOf, widest) /\ now \in Nat /\ MaxTime \in Nat
    BY SimTypesAre, SizesAre DEF SimInv
  <1>3. deadline' \in now .. MaxTime
    BY <1>1, <1>2
  <1>4. SimTypes'
    BY <1>1, <1>2, <1>3 DEF SimTypes
  <1>5. NodesFit' /\ LimitsFit(limitOf, widest)'
    BY <1>1, <1>2 DEF NodesFit
  <1> QED
    BY <1>1, <1>4, <1>5, SettingKeeps

\* No events put in, and one.
LEMMA NothingScheduled ==
    ASSUME NEW q
    PROVE  ScheduledAll(q, <<>>) = q
  <1>1. Len(<<>>) = 0 /\ Len(<<>>) \in Nat
    OBVIOUS
  <1>2. \E f : f[0] = q /\ ScheduledAll(q, <<>>) = f[Len(<<>>)]
    BY <1>1, ScheduledAllIs
  <1> QED
    BY <1>1, <1>2

LEMMA OneScheduled ==
    ASSUME NEW q, NEW e
    PROVE  ScheduledAll(q, <<e>>) = Scheduled(q, e)
  <1> DEFINE events == <<e>>
  <1>1. Len(events) = 1 /\ Len(events) \in Nat /\ 1 \in 1 .. Len(events) /\ events[1] = e
    OBVIOUS
  <1> HIDE DEF events
  <1>2. \E f : /\ f[0] = q /\ \A i \in 1 .. Len(events) : f[i] = Scheduled(f[i - 1], events[i])
               /\ ScheduledAll(q, events) = f[Len(events)]
    BY <1>1, ScheduledAllIs
  <1>3. PICK f : /\ f[0] = q /\ \A i \in 1 .. Len(events) : f[i] = Scheduled(f[i - 1], events[i])
                 /\ ScheduledAll(q, events) = f[Len(events)]
    BY <1>2, Zenon
  <1>4. f[1] = Scheduled(f[1 - 1], events[1])
    BY <1>1, <1>3
  <1>5. ScheduledAll(q, events) = Scheduled(q, e)
    BY <1>1, <1>3, <1>4
  <1> QED
    BY <1>5 DEF events

\* The first event is due.
LEMMA HeadIs ==
    ASSUME SimInv, Due
    PROVE  /\ queue \in Seq(SimEvents) /\ InOrder(queue) /\ queue # <<>> /\ Head1 = queue[1]
           /\ Head1 \in SimEvents /\ Proper(Head1, now, generations, widest, forged)
           /\ Head1.at \in Nat /\ now <= Head1.at /\ Head1.at <= deadline
           /\ Head1.target \in NodeIndexes /\ Head1.kind \in SimKinds
           /\ QueueFits(Tail(queue), Head1.at, generations, widest, forged)
           /\ QueueFits(Tail(queue), now, generations, widest, forged)
  <1>1. /\ QueueFits(queue, now, generations, widest, forged) /\ queue # <<>> /\ Head1 = queue[1]
        /\ queue[1].at <= deadline /\ now \in Nat
    BY SimTypesAre DEF SimInv, Due, Head1
  <1>2. /\ queue[1] \in SimEvents /\ Proper(queue[1], now, generations, widest, forged)
        /\ QueueFits(Tail(queue), queue[1].at, generations, widest, forged)
        /\ QueueFits(Tail(queue), now, generations, widest, forged)
    BY <1>1, RestFits
  <1>3. queue[1].at \in Nat /\ queue[1].target \in NodeIndexes /\ queue[1].kind \in SimKinds
    BY <1>2 DEF SimEvents
  <1> QED
    BY <1>1, <1>2, <1>3 DEF QueueFits, Proper

\* An event handled, and what was scheduled for it: each node up keeps its one
\* tick to come, or gets another for it.
LEMMA HandledKeeps ==
    ASSUME SimInv, Due, now' = Head1.at, SimTypes', NodesFit', LimitsFit(limitOf, widest)',
           NEW events \in Seq(SimEvents), queue' = ScheduledAll(Tail(queue), events),
           UNCHANGED <<widest, forged>>,
           NEW gens \in [NodeIndexes -> Nat], generations' = gens,
           NEW fallen, down' = fallen,
           \A i \in 1 .. Len(events) : Proper(events[i], Head1.at, gens, widest, forged),
           \A n \in NodeIndexes :
              /\ generations[n] <= gens[n]
              /\ \/ fallen[n]
                 \/ /\ ~down[n] /\ gens[n] = generations[n]
                    /\ Head1 \notin LiveTicks(n, gens[n]) /\ NoneOf(events, LiveTicks(n, gens[n]))
                 \/ /\ ~down[n] /\ gens[n] = generations[n]
                    /\ Head1 \in LiveTicks(n, gens[n]) /\ OneOf(events, LiveTicks(n, gens[n]))
                 \/ gens[n] > generations[n] /\ OneOf(events, LiveTicks(n, gens[n]))
    PROVE  SimInv'
  <1>1. PICK q : q = Tail(queue)
    OBVIOUS
  <1>2. PICK r : r = ScheduledAll(q, events)
    OBVIOUS
  <1>3. PICK at : at = Head1.at
    OBVIOUS
  <1>4. /\ queue \in Seq(SimEvents) /\ InOrder(queue) /\ queue # <<>> /\ Head1 = queue[1]
        /\ QueueFits(q, at, generations, widest, forged)
    BY <1>1, <1>3, HeadIs
  <1>5. /\ generations \in [NodeIndexes -> Nat] /\ widest \in Nat \X Nat
        /\ TicksFit(queue, generations, down)
    BY SimTypesAre DEF SimInv
  <1>6. QueueFits(q, at, gens, widest, forged)
    <2>1. PICK old \in [NodeIndexes -> Nat], wide \in Nat \X Nat :
             old = generations /\ wide = widest
      BY <1>5
    <2>2. wide = NoEntry \/ (wide # NoEntry /\ Fits(wide, wide))
      BY DEF Fits
    <2>3. QueueFits(q, at, old, wide, forged) /\ \A n \in NodeIndexes : old[n] <= gens[n]
      BY <1>4, <2>1
    <2>4. QueueFits(q, at, gens, wide, forged)
      BY <2>2, <2>3, StillFits, SMTT(30)
    <2> QED
      BY <2>1, <2>4
  <1>7. QueueFits(r, at, gens, widest, forged)
    BY <1>2, <1>3, <1>6, ScheduledAllFits
  <1>8. q \in Seq(SimEvents) /\ InOrder(q)
        /\ \A i \in 1 .. Len(q) : Proper(q[i], at, generations, widest, forged)
    BY <1>4 DEF QueueFits
  <1>9. ASSUME NEW n \in NodeIndexes, ~fallen[n]
        PROVE  OneOf(r, LiveTicks(n, gens[n]))
    <2> DEFINE T == LiveTicks(n, gens[n])
    <2>1. (~down[n] /\ gens[n] = generations[n]) => OneOf(queue, T)
      BY <1>5 DEF TicksFit
    <2>2. gens[n] > generations[n] => NoneOf(q, T)
      <3> SUFFICES ASSUME gens[n] > generations[n], NEW i \in 1 .. Len(q), q[i] \in T
                   PROVE  FALSE
        BY DEF NoneOf
      <3>1. q[i].kind.generation = gens[n] /\ q[i].kind.generation <= generations[n]
        BY <1>8 DEF LiveTicks, Proper
      <3>2. gens[n] \in Nat /\ generations[n] \in Nat
        BY <1>5
      <3> QED
        BY <3>1, <3>2
    <2>3. \/ /\ ~down[n] /\ gens[n] = generations[n] /\ Head1 \notin T /\ NoneOf(events, T)
          \/ /\ ~down[n] /\ gens[n] = generations[n] /\ Head1 \in T /\ OneOf(events, T)
          \/ gens[n] > generations[n] /\ OneOf(events, T)
      BY <1>9
    <2> HIDE DEF T
    <2>4. OneOf(queue, T) => /\ Head1 \notin T => OneOf(q, T)
                             /\ Head1 \in T => NoneOf(q, T)
      BY <1>1, <1>4, RestMarks
    <2>5. /\ NoneOf(events, T) => (OneOf(q, T) => OneOf(r, T))
          /\ NoneOf(q, T) => (OneOf(events, T) => OneOf(r, T))
      BY <1>2, <1>8, ScheduledAllMarks
    <2>6. OneOf(r, T)
      BY <2>1, <2>2, <2>3, <2>4, <2>5
    <2> QED
      BY <2>6 DEF T
  <1>10. TicksFit(r, gens, fallen)
    BY <1>9 DEF TicksFit
  <1>11. queue' = r /\ now' = at
    BY <1>1, <1>2, <1>3
  <1>12. QueueFits(queue, now, generations, widest, forged)' /\ TicksFit(queue, generations, down)'
    BY <1>7, <1>10, <1>11
  <1> QED
    BY <1>12 DEF SimInv

\* An event handled without one scheduled for it, which is no tick of a node up.
LEMMA DropKeeps ==
    ASSUME SimInv, Due, now' = Head1.at, SimTypes', NodesFit', LimitsFit(limitOf, widest)',
           queue' = Tail(queue), UNCHANGED <<widest, forged, generations>>,
           NEW fallen, down' = fallen,
           \A n \in NodeIndexes :
              fallen[n] \/ (~down[n] /\ Head1 \notin LiveTicks(n, generations[n]))
    PROVE  SimInv'
  <1> DEFINE events == <<>>
  <1>1. events \in Seq(SimEvents) /\ \A i \in 1 .. Len(events) : FALSE
    OBVIOUS
  <1>2. queue' = ScheduledAll(Tail(queue), events)
    BY NothingScheduled
  <1> HIDE DEF events
  <1>3. generations \in [NodeIndexes -> Nat]
    BY SimTypesAre
  <1>4. PICK gens \in [NodeIndexes -> Nat] : gens = generations
    BY <1>3
  <1>5. \A i \in 1 .. Len(events) : Proper(events[i], Head1.at, gens, widest, forged)
    BY <1>1
  <1>6. \A n \in NodeIndexes :
           /\ generations[n] <= gens[n]
           /\ \/ fallen[n]
              \/ /\ ~down[n] /\ gens[n] = generations[n]
                 /\ Head1 \notin LiveTicks(n, gens[n]) /\ NoneOf(events, LiveTicks(n, gens[n]))
    BY <1>1, <1>3, <1>4 DEF NoneOf
  <1>7. generations' = gens
    BY <1>4
  <1> QED
    BY <1>1, <1>2, <1>5, <1>6, <1>7, HandledKeeps

\* The clock moves to the event.
LEMMA ClockIs ==
    ASSUME SimInv, Due, now' = Head1.at, UNCHANGED deadline
    PROVE  now' \in 0 .. MaxTime /\ deadline' \in now' .. MaxTime
  BY HeadIs, SimTypesAre, SizesAre

\* An event of another kind is no tick of a node.
LEMMA NoTick ==
    ASSUME NEW e, NEW n, NEW generation, e.kind.is # "tick"
    PROVE  e \notin LiveTicks(n, generation)
  BY DEF LiveTicks

\* A crash: the node needs no tick.
LEMMA CrashKeeps ==
    ASSUME SimInv, Crash
    PROVE  SimInv'
  <1>1. /\ Due /\ now' = Head1.at /\ Head1.kind.is = "crash"
        /\ down' = [down EXCEPT ![Head1.target] = TRUE] /\ queue' = Tail(queue)
        /\ UNCHANGED <<nodes, generations, limitOf, auths, lastSeen, alarm,
                       settings, forged, pauses, widest, inputs, deadline>>
    BY DEF Crash, Pops, judged, callerVars
  <1>2. now' \in 0 .. MaxTime /\ deadline' \in now' .. MaxTime
    BY <1>1, ClockIs
  <1>3. SimTypes /\ NodesFit /\ LimitsFit(limitOf, widest)
    BY DEF SimInv
  <1>4. PICK fallen : fallen = [down EXCEPT ![Head1.target] = TRUE]
    OBVIOUS
  <1>5. fallen \in [NodeIndexes -> BOOLEAN] /\ \A n \in NodeIndexes : fallen[n] \/ ~down[n]
    BY <1>3, <1>4 DEF SimTypes
  <1>6. down' = fallen
    BY <1>1, <1>4
  <1>7. SimTypes'
    BY <1>1, <1>2, <1>3, <1>5, <1>6 DEF SimTypes
  <1>8. NodesFit' /\ LimitsFit(limitOf, widest)'
    BY <1>1, <1>3 DEF NodesFit
  <1>9. \A n \in NodeIndexes :
           fallen[n] \/ (~down[n] /\ Head1 \notin LiveTicks(n, generations[n]))
    BY <1>1, <1>5, NoTick
  <1> QED
    BY <1>1, <1>6, <1>7, <1>8, <1>9, DropKeeps

\* The events that touch no node's up or down.
LEMMA DropPlain ==
    ASSUME SimInv, Due, now' = Head1.at, queue' = Tail(queue),
           \A n \in NodeIndexes : down[n] \/ Head1 \notin LiveTicks(n, generations[n]),
           LimitsFit(limitOf, widest)', limitOf' \in [NodeIndexes -> KeyLimits \cup {NoEntry}],
           auths' \in [NodeIndexes -> Seals],
           UNCHANGED <<nodes, generations, down, lastSeen, alarm,
                       settings, forged, pauses, widest, inputs, deadline>>
    PROVE  SimInv'
  <1>1. now' \in 0 .. MaxTime /\ deadline' \in now' .. MaxTime
    BY ClockIs
  <1>2. SimTypes /\ NodesFit
    BY DEF SimInv
  <1>3. SimTypes'
    BY <1>1, <1>2 DEF SimTypes
  <1>4. NodesFit'
    BY <1>2 DEF NodesFit
  <1>5. PICK fallen : fallen = down
    OBVIOUS
  <1>6. down \in [NodeIndexes -> BOOLEAN]
    BY SimTypesAre
  <1>7. \A n \in NodeIndexes :
           fallen[n] \/ (~down[n] /\ Head1 \notin LiveTicks(n, generations[n]))
    BY <1>5, <1>6
  <1>8. down' = fallen
    BY <1>5
  <1> QED
    BY <1>3, <1>4, <1>7, <1>8, DropKeeps

\* A limit set, of which the bound was told.
LEMMA LimitEventKeeps ==
    ASSUME SimInv, SetLimitEvent
    PROVE  SimInv'
  <1>1. /\ Due /\ now' = Head1.at /\ Head1.kind.is = "set_limit"
        /\ limitOf' = [limitOf EXCEPT ![Head1.target] = Head1.kind.limit] /\ queue' = Tail(queue)
        /\ UNCHANGED <<nodes, generations, down, auths, lastSeen, alarm,
                       settings, forged, pauses, widest, inputs, deadline>>
    BY DEF SetLimitEvent, Pops, judged, callerVars
  <1>2. /\ Head1.target \in NodeIndexes /\ Head1.kind \in SimKinds
        /\ Proper(Head1, now, generations, widest, forged)
    BY <1>1, HeadIs
  <1>3. Head1.kind.limit \in KeyLimits /\ widest # NoEntry /\ Fits(Head1.kind.limit, widest)
    BY <1>1, <1>2 DEF SimKinds, Proper
  <1>4. /\ limitOf \in [NodeIndexes -> KeyLimits \cup {NoEntry}] /\ auths \in [NodeIndexes -> Seals]
        /\ LimitsFit(limitOf, widest)
    BY SimTypesAre
  <1>5. limitOf' \in [NodeIndexes -> KeyLimits \cup {NoEntry}]
    BY <1>1, <1>2, <1>3, <1>4
  <1>6. Head1.kind.limit # NoEntry
    BY <1>3, SimAssumption DEF NoEntry
  <1>7. LimitsFit(limitOf, widest)'
    <2>1. ASSUME NEW n \in NodeIndexes
          PROVE  Fits(IF limitOf'[n] = NoEntry THEN ConfigLimit ELSE limitOf'[n], widest)
      <3>1. CASE n = Head1.target
        <4>1. limitOf'[n] = Head1.kind.limit
          BY <1>1, <1>4, <3>1
        <4> QED
          BY <1>3, <1>6, <4>1
      <3>2. CASE n # Head1.target
        <4>1. limitOf'[n] = limitOf[n]
          BY <1>1, <1>4, <3>2
        <4> QED
          BY <1>3, <1>4, <4>1 DEF LimitsFit
      <3> QED
        BY <3>1, <3>2
    <2> QED
      BY <1>1, <1>3, <2>1 DEF LimitsFit
  <1>8. \A n \in NodeIndexes : Head1 \notin LiveTicks(n, generations[n])
    BY <1>1, NoTick
  <1>9. auths' \in [NodeIndexes -> Seals]
    BY <1>1, <1>4
  <1> QED
    BY <1>1, <1>5, <1>7, <1>8, <1>9, DropPlain

\* A node changes what it signs with.
LEMMA AuthEventKeeps ==
    ASSUME SimInv, SetAuthEvent
    PROVE  SimInv'
  <1>1. /\ Due /\ now' = Head1.at /\ Head1.kind.is = "set_auth"
        /\ auths' = [auths EXCEPT ![Head1.target] = Head1.kind.auth] /\ queue' = Tail(queue)
        /\ UNCHANGED <<nodes, generations, down, limitOf, lastSeen, alarm,
                       settings, forged, pauses, widest, inputs, deadline>>
    BY DEF SetAuthEvent, Pops, judged, callerVars
  <1>2. Head1.target \in NodeIndexes /\ Head1.kind \in SimKinds
    BY <1>1, HeadIs
  <1>3. Head1.kind.auth \in Seals
    BY <1>1, <1>2 DEF SimKinds
  <1>4. /\ limitOf \in [NodeIndexes -> KeyLimits \cup {NoEntry}] /\ auths \in [NodeIndexes -> Seals]
        /\ LimitsFit(limitOf, widest)
    BY SimTypesAre
  <1>5. auths' \in [NodeIndexes -> Seals]
    BY <1>1, <1>3, <1>4
  <1>6. LimitsFit(limitOf, widest)' /\ limitOf' \in [NodeIndexes -> KeyLimits \cup {NoEntry}]
    BY <1>1, <1>4
  <1>7. \A n \in NodeIndexes : Head1 \notin LiveTicks(n, generations[n])
    BY <1>1, NoTick
  <1> QED
    BY <1>1, <1>5, <1>6, <1>7, DropPlain

\* What is lost is stale, or for a node that is down.
LEMMA LoseKeeps ==
    ASSUME SimInv, NEW is, Lose(is)
    PROVE  SimInv'
  <1>1. /\ Due /\ now' = Head1.at /\ Lost /\ queue' = Tail(queue)
        /\ UNCHANGED <<nodes, generations, down, limitOf, auths, lastSeen, alarm,
                       settings, forged, pauses, widest, inputs, deadline>>
    BY DEF Lose, Pops, judged, callerVars
  <1>2. /\ limitOf \in [NodeIndexes -> KeyLimits \cup {NoEntry}] /\ auths \in [NodeIndexes -> Seals]
        /\ LimitsFit(limitOf, widest)
    BY SimTypesAre
  <1>3. /\ limitOf' \in [NodeIndexes -> KeyLimits \cup {NoEntry}] /\ auths' \in [NodeIndexes -> Seals]
        /\ LimitsFit(limitOf, widest)'
    BY <1>1, <1>2
  <1>4. \A n \in NodeIndexes : down[n] \/ Head1 \notin LiveTicks(n, generations[n])
    BY <1>1 DEF Lost, Stale, LiveTicks
  <1> QED
    BY <1>1, <1>3, <1>4, DropPlain

\* What is done for an event that is neither a tick, nor changes anything.
LEMMA IgnoredKeeps ==
    ASSUME SimInv, Due, now' = Head1.at, queue' = Tail(queue), Head1.kind.is # "tick",
           UNCHANGED <<nodes, generations, down, limitOf, auths, judged, callerVars>>
    PROVE  SimInv'
  <1>1. UNCHANGED <<nodes, generations, down, limitOf, auths, lastSeen, alarm,
                    settings, forged, pauses, widest, inputs, deadline>>
    BY DEF judged, callerVars
  <1>2. /\ limitOf \in [NodeIndexes -> KeyLimits \cup {NoEntry}] /\ auths \in [NodeIndexes -> Seals]
        /\ LimitsFit(limitOf, widest)
    BY SimTypesAre
  <1>3. /\ limitOf' \in [NodeIndexes -> KeyLimits \cup {NoEntry}] /\ auths' \in [NodeIndexes -> Seals]
        /\ LimitsFit(limitOf, widest)'
    BY <1>1, <1>2
  <1>4. \A n \in NodeIndexes : Head1 \notin LiveTicks(n, generations[n])
    BY NoTick
  <1> QED
    BY <1>1, <1>3, <1>4, DropPlain

\* A request, and a datagram the node does not open.
LEMMA RequestKeeps ==
    ASSUME SimInv, HandleRequest \/ Reject
    PROVE  SimInv'
  <1>1. /\ Due /\ now' = Head1.at /\ queue' = Tail(queue) /\ Head1.kind.is # "tick"
        /\ UNCHANGED <<nodes, generations, down, limitOf, auths, judged, callerVars>>
    BY DEF HandleRequest, Reject, Pops
  <1> QED
    BY <1>1, IgnoredKeeps

\* run_until returns: no event is due by then.
LEMMA ReturnKeeps ==
    ASSUME SimInv, Return
    PROVE  SimInv'
  <1>1. /\ ~Due /\ now < deadline /\ now' = deadline
        /\ UNCHANGED <<nodes, queue, generations, down, limitOf, auths, lastSeen, alarm,
                       settings, forged, pauses, widest, inputs, deadline>>
    BY DEF Return, judged, callerVars
  <1>2. SimTypes /\ NodesFit /\ LimitsFit(limitOf, widest) /\ TicksFit(queue, generations, down)
        /\ QueueFits(queue, now, generations, widest, forged) /\ deadline \in Nat /\ now \in Nat
        /\ deadline <= MaxTime /\ MaxTime \in Nat
    BY SimTypesAre, SizesAre DEF SimInv
  <1>3. SimTypes'
    BY <1>1, <1>2 DEF SimTypes
  <1>4. NodesFit' /\ LimitsFit(limitOf, widest)' /\ TicksFit(queue, generations, down)'
    BY <1>1, <1>2 DEF NodesFit
  <1>5. queue \in Seq(SimEvents) /\ InOrder(queue)
        /\ \A i \in 1 .. Len(queue) : Proper(queue[i], now, generations, widest, forged)
    BY <1>2 DEF QueueFits
  <1>6. ASSUME NEW i \in 1 .. Len(queue)
        PROVE  Proper(queue[i], deadline, generations, widest, forged)
    <2>1. 1 \in 1 .. Len(queue) /\ queue # <<>> /\ 1 <= i
      BY <1>5
    <2>2. queue[1].at <= queue[i].at
      BY <1>5, <2>1 DEF InOrder
    <2>3. queue[1].at \in Nat /\ queue[i].at \in Nat
      <3>1. queue[1] \in SimEvents /\ queue[i] \in SimEvents
        BY <1>5, <2>1
      <3> QED
        BY <3>1 DEF SimEvents
    <2>4. ~(queue[1].at <= deadline)
      BY <1>1, <2>1 DEF Due
    <2>5. queue[i].at >= deadline
      BY <1>2, <2>2, <2>3, <2>4
    <2> QED
      BY <1>5, <2>5 DEF Proper
  <1>7. QueueFits(queue, deadline, generations, widest, forged)
    BY <1>5, <1>6 DEF QueueFits
  <1>8. QueueFits(queue, now, generations, widest, forged)'
    BY <1>1, <1>7
  <1> QED
    BY <1>3, <1>4, <1>8 DEF SimInv

\* Nothing happens.
LEMMA SimRestKeeps ==
    ASSUME SimInv, UNCHANGED simVars
    PROVE  SimInv'
  BY DEF SimInv, SimTypes, NodesFit, simVars

\* The end of a pause is after the event it holds back.
LEMMA DeferIs ==
    ASSUME SimInv, Defer
    PROVE  \E until \in Nat :
              /\ until >= Head1.at
              /\ queue' = Scheduled(Tail(queue), [Head1 EXCEPT !.at = until])
  <1> DEFINE first == CHOOSE i \in Holding(Head1) : \A j \in Holding(Head1) : i <= j
  <1>1. /\ Due /\ Holding(Head1) # {}
        /\ queue' = Scheduled(Tail(queue), [Head1 EXCEPT !.at = pauses[first].until])
    BY DEF Defer, Held
  <1>2. pauses \in Seq([node : NodeIndexes, from : Nat, until : Nat])
    BY DEF SimInv, SimTypes
  <1>3. Holding(Head1) \subseteq Nat /\ Holding(Head1) \subseteq 1 .. Len(pauses)
    BY <1>2 DEF Holding
  <1>4. \E i \in Holding(Head1) : \A j \in Holding(Head1) : i <= j
    BY <1>1, <1>3, LeastOf
  <1>5. first \in Holding(Head1)
    BY <1>4
  <1> HIDE DEF first
  <1>6. pauses[first] \in [node : NodeIndexes, from : Nat, until : Nat]
    <2>1. first \in 1 .. Len(pauses)
      BY <1>3, <1>5
    <2> QED
      BY <1>2, <2>1, ElementOfSeq
  <1>7. Head1.at < pauses[first].until
    BY <1>5 DEF Holding
  <1>8. pauses[first].until \in Nat /\ Head1.at \in Nat
    BY <1>1, <1>6, HeadIs
  <1> QED
    BY <1>1, <1>7, <1>8

\* A tick that is held back is the tick to come still.
LEMMA DeferKeeps ==
    ASSUME SimInv, Defer
    PROVE  SimInv'
  <1>1. /\ Due
        /\ UNCHANGED <<nodes, generations, down, now, limitOf, auths, lastSeen, alarm,
                       settings, forged, pauses, widest, inputs, deadline>>
    BY DEF Defer, judged, callerVars
  <1>2. PICK until \in Nat :
           /\ until >= Head1.at
           /\ queue' = Scheduled(Tail(queue), [Head1 EXCEPT !.at = until])
    BY DeferIs
  <1>3. PICK e : e = [Head1 EXCEPT !.at = until]
    OBVIOUS
  <1>4. /\ queue \in Seq(SimEvents) /\ InOrder(queue) /\ queue # <<>> /\ Head1 = queue[1]
        /\ Head1 \in SimEvents /\ Proper(Head1, now, generations, widest, forged)
        /\ Head1.at \in Nat /\ now <= Head1.at
        /\ QueueFits(Tail(queue), now, generations, widest, forged)
    BY <1>1, HeadIs
  <1>5. /\ e \in SimEvents /\ e.at = until /\ e.target = Head1.target /\ e.kind = Head1.kind
    BY <1>3, <1>4 DEF SimEvents
  <1>6. Proper(e, now, generations, widest, forged)
    <2>1. e.at >= now
      BY <1>2, <1>4, <1>5, SimTypesAre
    <2> QED
      BY <1>4, <1>5, <2>1 DEF Proper
  <1>7. PICK q : q = Tail(queue)
    OBVIOUS
  <1>8. PICK r : r = Scheduled(q, e)
    OBVIOUS
  <1>9. QueueFits(q, now, generations, widest, forged)
    BY <1>4, <1>7
  <1>10. QueueFits(r, now, generations, widest, forged)
    BY <1>5, <1>6, <1>8, <1>9, ScheduledFits
  <1>11. q \in Seq(SimEvents) /\ InOrder(q)
    BY <1>9 DEF QueueFits
  <1>12. ASSUME NEW n \in NodeIndexes, ~down[n]
         PROVE  OneOf(r, LiveTicks(n, generations[n]))
    <2> DEFINE T == LiveTicks(n, generations[n])
    <2>1. OneOf(queue, T)
      BY <1>12 DEF SimInv, TicksFit
    <2>2. e \in T <=> Head1 \in T
      BY <1>4, <1>5 DEF LiveTicks
    <2> HIDE DEF T
    <2>3. (Head1 \notin T => OneOf(q, T)) /\ (Head1 \in T => NoneOf(q, T))
      BY <1>4, <1>7, <2>1, RestMarks
    <2>4. /\ e \notin T => (OneOf(q, T) => OneOf(r, T))
          /\ e \in T => (NoneOf(q, T) => OneOf(r, T))
      BY <1>5, <1>8, <1>11, ScheduledMarks
    <2>5. OneOf(r, T)
      BY <2>2, <2>3, <2>4
    <2> QED
      BY <2>5 DEF T
  <1>13. TicksFit(r, generations, down)
    BY <1>12 DEF TicksFit
  <1>14. queue' = r
    BY <1>2, <1>3, <1>7, <1>8
  <1>15. QueueFits(queue, now, generations, widest, forged)' /\ TicksFit(queue, generations, down)'
    BY <1>1, <1>10, <1>13, <1>14
  <1>16. SimTypes /\ NodesFit /\ LimitsFit(limitOf, widest)
    BY DEF SimInv
  <1>17. SimTypes'
    BY <1>1, <1>16 DEF SimTypes
  <1>18. NodesFit' /\ LimitsFit(limitOf, widest)'
    BY <1>1, <1>16 DEF NodesFit
  <1> QED
    BY <1>15, <1>17, <1>18 DEF SimInv

\* A restart: the ticks of the instance before are stale, and a new one is to come.
LEMMA RestartKeeps ==
    ASSUME SimInv, Restart
    PROVE  SimInv'
  <1>1. PICK n : n = Head1.target
    OBVIOUS
  <1>2. PICK generation : generation = generations[n] + 1
    OBVIOUS
  <1>3. PICK e : e = Event(Head1.at, n, TickOf(generation))
    OBVIOUS
  <1>4. /\ Due /\ now' = Head1.at /\ Head1.kind.is = "restart"
        /\ generations' = [generations EXCEPT ![n] = generation]
        /\ nodes' = [nodes EXCEPT ![n] = FreshNode(n, settings)]
        /\ down' = [down EXCEPT ![n] = FALSE]
        /\ queue' = Scheduled(Tail(queue), e)
        /\ alarm' = alarm
        /\ lastSeen' = [lastSeen EXCEPT ![n] = nodes'[n].incarnation]
        /\ UNCHANGED <<limitOf, auths, settings, forged, pauses, widest, inputs, deadline>>
    <2>1. alarm \in BOOLEAN /\ alarm = FALSE
      BY DEF SimInv, NodesFit
    <2>2. Due /\ now' = Head1.at /\ Head1.kind.is = "restart"
      BY DEF Restart, Pops
    <2> QED
      BY <1>1, <1>2, <1>3, <2>1, <2>2
      DEF Restart, NextGeneration, IncarnationNeverDrops, callerVars
  <1>5. SimTypes /\ NodesFit /\ LimitsFit(limitOf, widest)
    BY DEF SimInv
  <1>6. n \in NodeIndexes /\ Head1.at \in Nat /\ now' \in 0 .. MaxTime /\ deadline' \in now' .. MaxTime
    BY <1>1, <1>4, HeadIs, ClockIs
  <1>7. generations \in [NodeIndexes -> Nat] /\ down \in [NodeIndexes -> BOOLEAN]
        /\ nodes \in [NodeIndexes -> SimNode] /\ lastSeen \in [NodeIndexes -> Nat]
    BY <1>5 DEF SimTypes
  <1>8. PICK gens : gens = [generations EXCEPT ![n] = generation]
    OBVIOUS
  <1>9. PICK fallen : fallen = [down EXCEPT ![n] = FALSE]
    OBVIOUS
  <1>10. /\ gens \in [NodeIndexes -> Nat] /\ generation \in Nat /\ gens[n] = generation
         /\ gens[n] > generations[n]
         /\ \A m \in NodeIndexes : m # n => gens[m] = generations[m]
         /\ \A m \in NodeIndexes : generations[m] <= gens[m]
    BY <1>2, <1>6, <1>7, <1>8
  <1>11. /\ fallen \in [NodeIndexes -> BOOLEAN]
         /\ \A m \in NodeIndexes : m # n => (fallen[m] \/ ~down[m])
    BY <1>6, <1>7, <1>9
  <1>12. settings \in {"old", "new"}
    <2>1. nodes[0].settings = settings /\ nodes[0] \in SimNode
      BY <1>5, <1>7, SizesAre DEF NodesFit
    <2> QED
      BY <2>1 DEF SimNode
  <1>13. PICK fresh : fresh = FreshNode(n, settings)
    OBVIOUS
  <1>14. /\ fresh \in SimNode /\ fresh.incarnation = 0 /\ fresh.settings = settings
         /\ fresh.knows \subseteq NodeIndexes
    BY <1>12, <1>13, SimAssumption, SizesAre DEF FreshNode, SimNode
  <1>15. /\ nodes' \in [NodeIndexes -> SimNode] /\ nodes'[n] = fresh
         /\ \A m \in NodeIndexes : m # n => nodes'[m] = nodes[m]
    BY <1>4, <1>6, <1>7, <1>13, <1>14
  <1>16. /\ lastSeen' \in [NodeIndexes -> Nat] /\ lastSeen'[n] = 0
         /\ \A m \in NodeIndexes : m # n => lastSeen'[m] = lastSeen[m]
    BY <1>4, <1>6, <1>7, <1>14, <1>15
  <1>17. generations' = gens /\ down' = fallen
    BY <1>4, <1>8, <1>9
  <1>18. SimTypes'
    BY <1>4, <1>5, <1>6, <1>10, <1>11, <1>15, <1>16, <1>17 DEF SimTypes
  <1>19. NodesFit'
    BY <1>4, <1>5, <1>14, <1>15, <1>16 DEF NodesFit
  <1>20. LimitsFit(limitOf, widest)'
    BY <1>4, <1>5
  <1>21. /\ e \in SimEvents /\ e.at = Head1.at /\ e.target = n
         /\ e.kind.is = "tick" /\ e.kind.generation = generation
    <2>1. TickOf(generation) \in SimKinds
      BY <1>10, KindsAre
    <2> QED
      BY <1>3, <1>6, <2>1, EventIs DEF TickOf
  <1> DEFINE events == <<e>>
  <1>22. events \in Seq(SimEvents) /\ Len(events) = 1 /\ \A i \in 1 .. Len(events) : events[i] = e
    BY <1>21, OneEvent
  <1>23. queue' = ScheduledAll(Tail(queue), events)
    BY <1>4, OneScheduled
  <1> HIDE DEF events
  <1>24. \A i \in 1 .. Len(events) : Proper(events[i], Head1.at, gens, widest, forged)
    BY <1>6, <1>10, <1>21, <1>22 DEF Proper
  <1>25. OneOf(events, LiveTicks(n, gens[n]))
    <2>1. e \in LiveTicks(n, gens[n])
      BY <1>10, <1>21 DEF LiveTicks
    <2>2. 1 \in 1 .. Len(events) /\ events[1] \in LiveTicks(n, gens[n])
          /\ \A j \in 1 .. Len(events) : j = 1
      BY <1>22, <2>1
    <2> QED
      BY <2>2 DEF OneOf
  <1>26. ASSUME NEW m \in NodeIndexes, m # n
         PROVE  Head1 \notin LiveTicks(m, gens[m]) /\ NoneOf(events, LiveTicks(m, gens[m]))
    BY <1>4, <1>21, <1>22, <1>26 DEF LiveTicks, NoneOf
  <1>27. \A m \in NodeIndexes :
            /\ generations[m] <= gens[m]
            /\ \/ fallen[m]
               \/ /\ ~down[m] /\ gens[m] = generations[m]
                  /\ Head1 \notin LiveTicks(m, gens[m]) /\ NoneOf(events, LiveTicks(m, gens[m]))
               \/ /\ ~down[m] /\ gens[m] = generations[m]
                  /\ Head1 \in LiveTicks(m, gens[m]) /\ OneOf(events, LiveTicks(m, gens[m]))
               \/ gens[m] > generations[m] /\ OneOf(events, LiveTicks(m, gens[m]))
    BY <1>10, <1>11, <1>25, <1>26
  <1> QED
    BY <1>4, <1>10, <1>17, <1>18, <1>19, <1>20, <1>22, <1>23, <1>24, <1>27, HandledKeeps

\* A datagram arrives after it is sent, if at all.
LEMMA FatesAre ==
    ASSUME NEW at \in Nat, now' = at, NEW fate \in Fates
    PROVE  fate \in Seq(Nat) /\ \A i \in 1 .. Len(fate) : fate[i] >= at
  <1>1. ASSUME NEW t \in Arrivals PROVE t \in Nat /\ t >= at
    <2>1. PICK jitter \in 0 .. Jitter, hold \in 0 .. Window : t = at + Latency + jitter + hold
      BY DEF Arrivals
    <2>2. jitter \in Nat /\ hold \in Nat /\ Latency \in Nat
      BY SizesAre
    <2> QED
      BY <2>1, <2>2
  <1>2. CASE fate = <<>>
    BY <1>2
  <1>3. CASE \E t \in Arrivals : fate = <<t>>
    <2>1. PICK t \in Arrivals : fate = <<t>>
      BY <1>3
    <2>2. t \in Nat /\ t >= at
      BY <1>1
    <2> QED
      BY <2>1, <2>2
  <1>4. CASE fate \in Arrivals \X Arrivals
    <2>1. PICK t \in Arrivals, u \in Arrivals : fate = <<t, u>>
      BY <1>4
    <2>2. t \in Nat /\ t >= at /\ u \in Nat /\ u >= at
      BY <1>1
    <2> QED
      BY <2>1, <2>2
  <1> QED
    BY <1>2, <1>3, <1>4 DEF Fates

Sends(sends, at) ==
    /\ sends \in Seq(SimEvents)
    /\ \A i \in 1 .. Len(sends) : /\ sends[i].at >= at /\ sends[i].kind.is = "deliver"
                                  /\ sends[i].kind.from \in NodeIndexes

\* dispatch: datagrams of the node itself, then what is to be scheduled.
LEMMA DispatchIs ==
    ASSUME SimInv, Due, now' = Head1.at, NEW n \in NodeIndexes, NEW then \in Seq(SimEvents),
           Dispatch(n, then)
    PROVE  /\ \E sends : Sends(sends, Head1.at) /\ queue' = ScheduledAll(Tail(queue), sends \o then)
           /\ inputs' \in 0 .. MaxInputs
           /\ UNCHANGED <<settings, forged, pauses, widest, deadline>>
  <1>1. PICK at \in Nat : at = Head1.at
    BY HeadIs
  <1>2. now' = at
    BY <1>1
  <1>3. /\ inputs \in Nat /\ MaxInputs \in Nat /\ inputs <= MaxInputs /\ auths[n] \in Seals
        /\ n \in 0 .. NodeCount
    BY SimTypesAre, SizesAre
  <1>4. inputs' \in 0 .. MaxInputs
    BY <1>3 DEF Dispatch
  <1>5. PICK q : q = Tail(queue)
    OBVIOUS
  <1>6. ASSUME queue' = ScheduledAll(q, then)
        PROVE  \E sends : Sends(sends, at) /\ queue' = ScheduledAll(q, sends \o then)
    <2> DEFINE sends == <<>>
    <2>1. Sends(sends, at) /\ sends \o then = then
      BY ConcatEmptySeq DEF Sends
    <2> QED
      BY <1>6, <2>1
  <1>7. ASSUME NEW to \in NodeIndexes, NEW fate \in Fates,
               queue' = ScheduledAll(q, [i \in DOMAIN fate |->
                           Event(fate[i], to, Datagram(n, auths[n]))] \o then)
        PROVE  \E sends : Sends(sends, at) /\ queue' = ScheduledAll(q, sends \o then)
    <2> DEFINE sends == [i \in DOMAIN fate |-> Event(fate[i], to, Datagram(n, auths[n]))]
    <2>1. fate \in Seq(Nat) /\ \A i \in 1 .. Len(fate) : fate[i] >= at
      BY <1>2, FatesAre
    <2>2. PICK kind \in SimKinds : kind = Datagram(n, auths[n])
      BY <1>3, KindsAre
    <2>3. kind.is = "deliver" /\ kind.from = n
      BY <2>2 DEF Datagram
    <2>4. ASSUME NEW i \in 1 .. Len(fate)
          PROVE  /\ Event(fate[i], to, kind) \in SimEvents
                 /\ Event(fate[i], to, kind).at = fate[i] /\ Event(fate[i], to, kind).kind = kind
      <3>1. fate[i] \in Nat
        BY <2>1
      <3> QED
        BY <3>1, EventIs
    <2>5. DOMAIN fate = 1 .. Len(fate) /\ Len(fate) \in Nat
      BY <2>1
    <2>6. /\ sends \in Seq(SimEvents) /\ Len(sends) = Len(fate)
          /\ \A i \in 1 .. Len(sends) : sends[i] = Event(fate[i], to, kind)
      BY <2>2, <2>4, <2>5
    <2>7. queue' = ScheduledAll(q, sends \o then)
      BY <1>7
    <2> HIDE DEF sends
    <2>8. Sends(sends, at)
      BY <2>1, <2>3, <2>4, <2>6 DEF Sends
    <2> QED
      BY <2>7, <2>8
  <1>8. \E sends : Sends(sends, at) /\ queue' = ScheduledAll(q, sends \o then)
    <2>1. \/ queue' = ScheduledAll(q, then)
          \/ \E to \in NodeIndexes : \E fate \in Fates :
                queue' = ScheduledAll(q, [i \in DOMAIN fate |->
                           Event(fate[i], to, Datagram(n, auths[n]))] \o then)
      BY <1>5 DEF Dispatch
    <2> QED
      BY <1>6, <1>7, <2>1
  <1> QED
    BY <1>1, <1>4, <1>5, <1>8 DEF Dispatch

\* What comes after the datagrams counts as before.
LEMMA SendsThen ==
    ASSUME NEW at, NEW sends, Sends(sends, at), NEW then \in Seq(SimEvents)
    PROVE  /\ sends \o then \in Seq(SimEvents)
           /\ \A gens, wide, lies :
                 (\A i \in 1 .. Len(then) : Proper(then[i], at, gens, wide, lies)) =>
                 (\A i \in 1 .. Len(sends \o then) : Proper((sends \o then)[i], at, gens, wide, lies))
           /\ \A n, generation :
                 LET T == LiveTicks(n, generation) IN
                 /\ NoneOf(then, T) => NoneOf(sends \o then, T)
                 /\ OneOf(then, T) => OneOf(sends \o then, T)
  <1> DEFINE c == sends \o then
             a == Len(sends)
             b == Len(then)
  <1>1. /\ sends \in Seq(SimEvents)
        /\ \A i \in 1 .. a : /\ sends[i].at >= at /\ sends[i].kind.is = "deliver"
                             /\ sends[i].kind.from \in NodeIndexes
    BY DEF Sends
  <1>2. a \in Nat /\ b \in Nat
    BY <1>1
  <1>3. c \in Seq(SimEvents) /\ Len(c) = a + b
        /\ \A i \in 1 .. a + b : c[i] = IF i <= a THEN sends[i] ELSE then[i - a]
    BY <1>1, ConcatProperties
  <1> HIDE DEF c, a
  <1>4. ASSUME NEW gens, NEW wide, NEW lies,
               \A i \in 1 .. b : Proper(then[i], at, gens, wide, lies), NEW i \in 1 .. Len(c)
        PROVE  Proper(c[i], at, gens, wide, lies)
    <2>1. CASE i <= a
      <3>1. i \in 1 .. a /\ c[i] = sends[i]
        BY <1>2, <1>3, <2>1
      <3> QED
        BY <1>1, <3>1 DEF Proper
    <2>2. CASE ~(i <= a)
      <3>1. i - a \in 1 .. b /\ c[i] = then[i - a]
        BY <1>2, <1>3, <2>2
      <3> QED
        BY <1>4, <3>1
    <2> QED
      BY <2>1, <2>2
  <1>5. ASSUME NEW n, NEW generation
        PROVE  LET T == LiveTicks(n, generation) IN
               /\ NoneOf(then, T) => NoneOf(c, T)
               /\ OneOf(then, T) => OneOf(c, T)
    <2> DEFINE T == LiveTicks(n, generation)
    <2>1. \A i \in 1 .. a : sends[i] \notin T
      BY <1>1 DEF LiveTicks
    <2> HIDE DEF T
    <2>2. ASSUME NEW i \in 1 .. Len(c), c[i] \in T
          PROVE  i > a /\ i - a \in 1 .. b /\ c[i] = then[i - a]
      <3>1. ~(i <= a)
        <4>1. SUFFICES ASSUME i <= a PROVE FALSE
          OBVIOUS
        <4>2. i \in 1 .. a /\ c[i] = sends[i]
          BY <1>2, <1>3, <4>1
        <4> QED
          BY <2>1, <2>2, <4>2
      <3> QED
        BY <1>2, <1>3, <3>1
    <2>3. ASSUME NoneOf(then, T) PROVE NoneOf(c, T)
      BY <2>2, <2>3 DEF NoneOf, b
    <2>4. ASSUME OneOf(then, T) PROVE OneOf(c, T)
      <3>1. PICK k \in 1 .. b : then[k] \in T /\ \A j \in 1 .. b : then[j] \in T => j = k
        BY <2>4 DEF OneOf
      <3>2. a + k \in 1 .. Len(c) /\ c[a + k] = then[k]
        BY <1>2, <1>3
      <3>3. ASSUME NEW j \in 1 .. Len(c), c[j] \in T PROVE j = a + k
        <4>1. j - a \in 1 .. b /\ then[j - a] \in T
          BY <2>2, <3>3
        <4>2. j - a = k
          BY <3>1, <4>1
        <4> QED
          BY <1>2, <1>3, <4>2
      <3> QED
        BY <3>1, <3>2, <3>3 DEF OneOf
    <2> QED
      BY <2>3, <2>4 DEF T
  <1> QED
    BY <1>3, <1>4, <1>5 DEF c

\* An event handled, with datagrams sent.
LEMMA DispatchKeeps ==
    ASSUME SimInv, Due, now' = Head1.at, NEW n \in NodeIndexes, NEW then \in Seq(SimEvents),
           Dispatch(n, then), SimTypes', NodesFit', LimitsFit(limitOf, widest)',
           UNCHANGED generations, NEW fallen, down' = fallen,
           \A i \in 1 .. Len(then) : Proper(then[i], Head1.at, generations, widest, forged),
           \A m \in NodeIndexes :
              \/ fallen[m]
              \/ /\ ~down[m] /\ Head1 \notin LiveTicks(m, generations[m])
                 /\ NoneOf(then, LiveTicks(m, generations[m]))
              \/ /\ ~down[m] /\ Head1 \in LiveTicks(m, generations[m])
                 /\ OneOf(then, LiveTicks(m, generations[m]))
    PROVE  SimInv'
  <1>1. /\ UNCHANGED <<forged, widest>>
        /\ \E sends : Sends(sends, Head1.at) /\ queue' = ScheduledAll(Tail(queue), sends \o then)
    BY DispatchIs
  <1>2. PICK sends : Sends(sends, Head1.at) /\ queue' = ScheduledAll(Tail(queue), sends \o then)
    BY <1>1
  <1>3. generations \in [NodeIndexes -> Nat]
    BY SimTypesAre
  <1>4. PICK gens \in [NodeIndexes -> Nat] : gens = generations
    BY <1>3
  <1>5. PICK at : at = Head1.at
    OBVIOUS
  <1> DEFINE c == sends \o then
  <1>6. Sends(sends, at)
    BY <1>2, <1>5
  <1>7. /\ c \in Seq(SimEvents)
        /\ \A g, wide, lies :
              (\A i \in 1 .. Len(then) : Proper(then[i], at, g, wide, lies)) =>
              (\A i \in 1 .. Len(c) : Proper(c[i], at, g, wide, lies))
        /\ \A m, generation :
              /\ NoneOf(then, LiveTicks(m, generation)) => NoneOf(c, LiveTicks(m, generation))
              /\ OneOf(then, LiveTicks(m, generation)) => OneOf(c, LiveTicks(m, generation))
    BY <1>6, SendsThen
  <1>8. queue' = ScheduledAll(Tail(queue), c)
    BY <1>2
  <1> HIDE DEF c
  <1>9. \A i \in 1 .. Len(then) : Proper(then[i], at, gens, widest, forged)
    BY <1>4, <1>5
  <1>10. \A i \in 1 .. Len(c) : Proper(c[i], Head1.at, gens, widest, forged)
    <2>1. \A i \in 1 .. Len(c) : Proper(c[i], at, gens, widest, forged)
      BY <1>7, <1>9
    <2> QED
      BY <1>5, <2>1
  <1>11. \A m \in NodeIndexes :
            /\ generations[m] <= gens[m]
            /\ \/ fallen[m]
               \/ /\ ~down[m] /\ gens[m] = generations[m]
                  /\ Head1 \notin LiveTicks(m, gens[m]) /\ NoneOf(c, LiveTicks(m, gens[m]))
               \/ /\ ~down[m] /\ gens[m] = generations[m]
                  /\ Head1 \in LiveTicks(m, gens[m]) /\ OneOf(c, LiveTicks(m, gens[m]))
    BY <1>3, <1>4, <1>7
  <1>12. generations' = gens
    BY <1>4
  <1> QED
    BY <1>1, <1>7, <1>8, <1>10, <1>11, <1>12, HandledKeeps

\* A node leaves.
LEMMA LeaveKeeps ==
    ASSUME SimInv, Leave
    PROVE  SimInv'
  <1> DEFINE then == <<>>
  <1>1. /\ Due /\ now' = Head1.at /\ Head1.kind.is = "leave"
        /\ down' = [down EXCEPT ![Head1.target] = TRUE]
        /\ UNCHANGED <<nodes, generations, limitOf, auths, lastSeen, alarm>>
        /\ Dispatch(Head1.target, then)
    BY DEF Leave, Pops, judged
  <1>2. then \in Seq(SimEvents) /\ \A i \in 1 .. Len(then) : FALSE
    OBVIOUS
  <1> HIDE DEF then
  <1>3. PICK n \in NodeIndexes : n = Head1.target
    BY <1>1, HeadIs
  <1>4. Dispatch(n, then)
    BY <1>1, <1>3
  <1>5. inputs' \in 0 .. MaxInputs /\ UNCHANGED <<settings, forged, pauses, widest, deadline>>
    BY <1>1, <1>2, <1>4, DispatchIs
  <1>6. SimTypes /\ NodesFit /\ LimitsFit(limitOf, widest)
    BY DEF SimInv
  <1>7. now' \in 0 .. MaxTime /\ deadline' \in now' .. MaxTime
    BY <1>1, <1>5, ClockIs
  <1>8. PICK fallen : fallen = [down EXCEPT ![n] = TRUE]
    OBVIOUS
  <1>9. /\ fallen \in [NodeIndexes -> BOOLEAN] /\ down' = fallen
        /\ \A m \in NodeIndexes : fallen[m] \/ ~down[m]
    BY <1>1, <1>3, <1>6, <1>8 DEF SimTypes
  <1>10. SimTypes'
    BY <1>1, <1>5, <1>6, <1>7, <1>9 DEF SimTypes
  <1>11. NodesFit' /\ LimitsFit(limitOf, widest)'
    BY <1>1, <1>5, <1>6 DEF NodesFit
  <1>12. \A m \in NodeIndexes :
            \/ fallen[m]
            \/ /\ ~down[m] /\ Head1 \notin LiveTicks(m, generations[m])
               /\ NoneOf(then, LiveTicks(m, generations[m]))
    BY <1>1, <1>2, <1>9, NoTick DEF NoneOf
  <1>13. \A i \in 1 .. Len(then) : Proper(then[i], Head1.at, generations, widest, forged)
    BY <1>2
  <1> QED
    BY <1>1, <1>2, <1>4, <1>9, <1>10, <1>11, <1>12, <1>13, DispatchKeeps

\* A datagram delivered: the incarnation rises, if it changes.
LEMMA DeliverKeeps ==
    ASSUME SimInv, DeliverTo
    PROVE  SimInv'
  <1> DEFINE then == <<>>
  <1>1. PICK n : n = Head1.target
    OBVIOUS
  <1>2. /\ Due /\ now' = Head1.at /\ Head1.kind.is = "deliver" /\ ~down[n]
        /\ UNCHANGED <<generations, down, limitOf, auths>>
        /\ Dispatch(n, then)
    BY <1>1 DEF DeliverTo, Pops, Lost
  <1>3. PICK raise \in {0, 1} :
           /\ nodes' = [nodes EXCEPT ![n].knows = @ \union {Head1.kind.from},
                                     ![n].incarnation = @ + raise]
           /\ IncarnationNeverDrops(n, "delivery")
    BY <1>1 DEF DeliverTo
  <1>4. then \in Seq(SimEvents) /\ \A i \in 1 .. Len(then) : FALSE
    OBVIOUS
  <1> HIDE DEF then
  <1>5. n \in NodeIndexes /\ Head1.kind \in SimKinds
        /\ Proper(Head1, now, generations, widest, forged)
    BY <1>1, <1>2, HeadIs
  <1>6. inputs' \in 0 .. MaxInputs /\ UNCHANGED <<settings, forged, pauses, widest, deadline>>
    BY <1>2, <1>4, <1>5, DispatchIs
  <1>7. SimTypes /\ NodesFit /\ LimitsFit(limitOf, widest)
    BY DEF SimInv
  <1>8. now' \in 0 .. MaxTime /\ deadline' \in now' .. MaxTime
    BY <1>2, <1>6, ClockIs
  <1>9. /\ Head1.kind.from \in 0 .. NodeCount
        /\ forged \/ Head1.kind.from \in NodeIndexes
    BY <1>2, <1>5 DEF SimKinds, Proper
  <1>10. /\ nodes \in [NodeIndexes -> SimNode] /\ nodes[n] \in SimNode
         /\ lastSeen \in [NodeIndexes -> Nat] /\ lastSeen[n] = nodes[n].incarnation
    BY <1>5, <1>7 DEF SimTypes, NodesFit
  <1>11. PICK changed : changed = [nodes[n] EXCEPT !.knows = @ \union {Head1.kind.from},
                                                   !.incarnation = @ + raise]
    OBVIOUS
  <1>12. /\ nodes[n].knows \in SUBSET (0 .. NodeCount) /\ nodes[n].incarnation \in Nat
         /\ nodes[n].settings \in {"old", "new"}
    BY <1>10 DEF SimNode
  <1>13. /\ changed.knows = nodes[n].knows \union {Head1.kind.from}
         /\ changed.incarnation = nodes[n].incarnation + raise
         /\ changed.settings = nodes[n].settings /\ changed \in SimNode
    <2>1. PICK knows \in SUBSET (0 .. NodeCount), incarnation \in Nat :
             knows = nodes[n].knows \union {Head1.kind.from}
             /\ incarnation = nodes[n].incarnation + raise
      <3>1. raise \in Nat
        BY <1>3
      <3>2. nodes[n].incarnation + raise \in Nat
        BY <1>12, <3>1
      <3>3. nodes[n].knows \union {Head1.kind.from} \in SUBSET (0 .. NodeCount)
        BY <1>9, <1>12
      <3> QED
        BY <3>2, <3>3
    <2>2. changed = [nodes[n] EXCEPT !.knows = knows, !.incarnation = incarnation]
      BY <1>11, <2>1
    <2>3. /\ changed.knows = knows /\ changed.incarnation = incarnation
          /\ changed.settings = nodes[n].settings /\ changed \in SimNode
      BY <1>10, <2>2 DEF SimNode
    <2> QED
      BY <2>1, <2>3
  <1>14. nodes' = [nodes EXCEPT ![n] = changed]
    BY <1>3, <1>10, <1>11
  <1>15. /\ nodes' \in [NodeIndexes -> SimNode] /\ nodes'[n] = changed
         /\ \A m \in NodeIndexes : m # n => nodes'[m] = nodes[m]
    BY <1>5, <1>10, <1>13, <1>14
  <1>16. changed.incarnation \in Nat /\ changed.incarnation >= lastSeen[n]
    BY <1>10, <1>12, <1>13
  <1>17. /\ alarm' = alarm /\ lastSeen' = [lastSeen EXCEPT ![n] = changed.incarnation]
    <2>1. /\ alarm' = (alarm \/ ("delivery" # "restart" /\ changed.incarnation < lastSeen[n]))
          /\ lastSeen' = [lastSeen EXCEPT ![n] = changed.incarnation]
      BY <1>3, <1>15 DEF IncarnationNeverDrops
    <2>2. ~(changed.incarnation < lastSeen[n])
      BY <1>10, <1>12, <1>16
    <2>3. alarm = FALSE
      BY <1>7 DEF NodesFit
    <2> QED
      BY <2>1, <2>2, <2>3
  <1>18. /\ lastSeen' \in [NodeIndexes -> Nat] /\ lastSeen'[n] = changed.incarnation
         /\ \A m \in NodeIndexes : m # n => lastSeen'[m] = lastSeen[m]
    BY <1>5, <1>10, <1>16, <1>17
  <1>19. SimTypes'
    BY <1>2, <1>6, <1>7, <1>8, <1>15, <1>18 DEF SimTypes
  <1>20. NodesFit'
    <2>1. alarm' = FALSE
      BY <1>7, <1>17 DEF NodesFit
    <2>2. ASSUME NEW m \in NodeIndexes
          PROVE  /\ lastSeen'[m] = nodes'[m].incarnation
                 /\ nodes'[m].settings = settings'
                 /\ forged' \/ nodes'[m].knows \subseteq NodeIndexes
      <3>1. /\ lastSeen[m] = nodes[m].incarnation /\ nodes[m].settings = settings
            /\ forged \/ nodes[m].knows \subseteq NodeIndexes
        BY <1>7 DEF NodesFit
      <3>2. CASE m = n
        BY <1>6, <1>9, <1>13, <1>15, <1>18, <3>1, <3>2
      <3>3. CASE m # n
        BY <1>6, <1>15, <1>18, <3>1, <3>3
      <3> QED
        BY <3>2, <3>3
    <2> QED
      BY <2>1, <2>2 DEF NodesFit
  <1>21. LimitsFit(limitOf, widest)'
    BY <1>2, <1>6, <1>7
  <1>22. PICK fallen : fallen = down
    OBVIOUS
  <1>23. \A m \in NodeIndexes :
            \/ fallen[m]
            \/ /\ ~down[m] /\ Head1 \notin LiveTicks(m, generations[m])
               /\ NoneOf(then, LiveTicks(m, generations[m]))
    BY <1>2, <1>4, <1>22, NoTick DEF NoneOf
  <1>24. \A i \in 1 .. Len(then) : Proper(then[i], Head1.at, generations, widest, forged)
    BY <1>4
  <1>25. down' = fallen /\ UNCHANGED generations
    BY <1>2, <1>22
  <1> QED
    BY <1>2, <1>4, <1>5, <1>19, <1>20, <1>21, <1>23, <1>24, <1>25, DispatchKeeps

\* A tick: the next takes its place.
LEMMA TickKeeps ==
    ASSUME SimInv, TickNode
    PROVE  SimInv'
  <1>1. PICK n : n = Head1.target
    OBVIOUS
  <1>2. PICK e : e = Event(Head1.at + TICK, n, Head1.kind)
    OBVIOUS
  <1> DEFINE then == <<e>>
  <1>3. /\ Due /\ now' = Head1.at /\ Head1.kind.is = "tick" /\ ~Lost
        /\ UNCHANGED <<nodes, generations, down, limitOf, auths, lastSeen, alarm>>
        /\ Dispatch(n, then)
    BY <1>1, <1>2 DEF TickNode, Pops, judged
  <1>4. /\ n \in NodeIndexes /\ Head1.kind \in SimKinds /\ Head1.at \in Nat /\ Head1 \in SimEvents
        /\ Proper(Head1, now, generations, widest, forged)
    BY <1>1, <1>3, HeadIs
  <1>5. /\ e \in SimEvents /\ e.at = Head1.at + TICK /\ e.target = n /\ e.kind = Head1.kind
    <2>1. PICK at \in Nat, kind \in SimKinds : at = Head1.at + TICK /\ kind = Head1.kind
      BY <1>4, SizesAre
    <2>2. e = Event(at, n, kind)
      BY <1>2, <2>1
    <2> QED
      BY <1>4, <2>1, <2>2, EventIs
  <1>6. ~down[n] /\ Head1.kind.generation = generations[n]
    BY <1>1, <1>3 DEF Lost, Stale
  <1>7. then \in Seq(SimEvents) /\ Len(then) = 1 /\ \A i \in 1 .. Len(then) : then[i] = e
    BY <1>5, OneEvent
  <1> HIDE DEF then
  <1>8. inputs' \in 0 .. MaxInputs /\ UNCHANGED <<settings, forged, pauses, widest, deadline>>
    BY <1>3, <1>4, <1>7, DispatchIs
  <1>9. SimTypes /\ NodesFit /\ LimitsFit(limitOf, widest)
    BY DEF SimInv
  <1>10. now' \in 0 .. MaxTime /\ deadline' \in now' .. MaxTime
    BY <1>3, <1>8, ClockIs
  <1>11. SimTypes'
    BY <1>3, <1>8, <1>9, <1>10 DEF SimTypes
  <1>12. NodesFit' /\ LimitsFit(limitOf, widest)'
    BY <1>3, <1>8, <1>9 DEF NodesFit
  <1>13. PICK fallen : fallen = down
    OBVIOUS
  <1>14. ASSUME NEW m \in NodeIndexes
         PROVE  \/ fallen[m]
                \/ /\ ~down[m] /\ Head1 \notin LiveTicks(m, generations[m])
                   /\ NoneOf(then, LiveTicks(m, generations[m]))
                \/ /\ ~down[m] /\ Head1 \in LiveTicks(m, generations[m])
                   /\ OneOf(then, LiveTicks(m, generations[m]))
    <2>1. CASE m = n
      <3>1. Head1 \in LiveTicks(m, generations[m]) /\ e \in LiveTicks(m, generations[m])
        BY <1>1, <1>3, <1>4, <1>5, <1>6, <2>1 DEF LiveTicks
      <3>2. 1 \in 1 .. Len(then) /\ then[1] = e /\ \A j \in 1 .. Len(then) : j = 1
        BY <1>7
      <3>3. OneOf(then, LiveTicks(m, generations[m]))
        BY <3>1, <3>2 DEF OneOf
      <3> QED
        BY <1>6, <2>1, <3>1, <3>3
    <2>2. CASE m # n
      <3>1. Head1 \notin LiveTicks(m, generations[m]) /\ e \notin LiveTicks(m, generations[m])
        BY <1>1, <1>5, <2>2 DEF LiveTicks
      <3>2. NoneOf(then, LiveTicks(m, generations[m]))
        BY <1>7, <3>1 DEF NoneOf
      <3>3. down[m] \in BOOLEAN
        BY <1>9 DEF SimTypes
      <3> QED
        BY <1>13, <3>1, <3>2, <3>3
    <2> QED
      BY <2>1, <2>2
  <1>15. Proper(e, Head1.at, generations, widest, forged)
    BY <1>3, <1>4, <1>5, <1>6, SizesAre, SimTypesAre DEF Proper
  <1>16. \A i \in 1 .. Len(then) : Proper(then[i], Head1.at, generations, widest, forged)
    BY <1>7, <1>15
  <1>17. down' = fallen /\ UNCHANGED generations
    BY <1>3, <1>13
  <1> QED
    BY <1>3, <1>4, <1>7, <1>11, <1>12, <1>14, <1>16, <1>17, DispatchKeeps

\* The first tick is at a time.
LEMMA FirstTickIs ==
    ASSUME NEW n \in NodeIndexes
    PROVE  FirstTick(n) \in Nat
  <1>1. n \in Nat /\ NodeCount \in Nat \ {0} /\ Period \in Nat
    BY SizesAre
  <1>2. n * Period \in Nat
    BY <1>1
  <1> DEFINE a == n * Period
  <1> HIDE DEF a
  <1>3. a \in Nat
    BY <1>2 DEF a
  <1>4. a \div NodeCount \in Nat
    BY <1>1, <1>3
  <1> QED
    BY <1>4 DEF a, FirstTick

\* At the start every node has its first tick to come.
LEMMA SimStarts ==
    ASSUME SimInit
    PROVE  SimInv
  <1> DEFINE events == [i \in 1 .. NodeCount |-> Event(FirstTick(i - 1), i - 1, TickOf(0))]
             none == <<>>
  <1>1. /\ settings = "old" /\ forged = FALSE /\ pauses = <<>>
        /\ nodes = [n \in NodeIndexes |-> FreshNode(n, "old")]
        /\ generations = [n \in NodeIndexes |-> 0] /\ down = [n \in NodeIndexes |-> FALSE]
        /\ queue = ScheduledAll(none, events) /\ now = 0 /\ deadline = 0 /\ inputs = 0
        /\ limitOf = [n \in NodeIndexes |-> NoEntry] /\ widest = NoEntry
        /\ auths = [n \in NodeIndexes |-> "off"]
        /\ lastSeen = [n \in NodeIndexes |-> 0] /\ alarm = FALSE
    BY DEF SimInit
  <1>2. PICK kind : kind = TickOf(0)
    OBVIOUS
  <1>3. kind \in SimKinds /\ kind.is = "tick" /\ kind.generation = 0
    BY <1>2, KindsAre DEF TickOf
  <1>4. /\ NodeCount \in Nat
        /\ \A i \in 1 .. NodeCount : i - 1 \in NodeIndexes
        /\ \A n \in NodeIndexes : n + 1 \in 1 .. NodeCount /\ n \in Int
    BY SizesAre DEF NodeIndexes
  <1>5. ASSUME NEW i \in 1 .. NodeCount
        PROVE  /\ Event(FirstTick(i - 1), i - 1, kind) \in SimEvents
               /\ Event(FirstTick(i - 1), i - 1, kind).at \in Nat
               /\ Event(FirstTick(i - 1), i - 1, kind).target = i - 1
               /\ Event(FirstTick(i - 1), i - 1, kind).kind = kind
    <2>1. PICK n \in NodeIndexes : n = i - 1
      BY <1>4
    <2>2. FirstTick(n) \in Nat
      BY FirstTickIs
    <2> QED
      BY <1>3, <2>1, <2>2, EventIs
  <1>6. /\ events \in Seq(SimEvents) /\ Len(events) = NodeCount
        /\ \A i \in 1 .. NodeCount : /\ events[i] \in SimEvents /\ events[i].at >= 0
                                     /\ events[i].target = i - 1 /\ events[i].kind = kind
    BY <1>2, <1>4, <1>5
  <1>7. none \in Seq(SimEvents) /\ InOrder(none) /\ \A i \in 1 .. Len(none) : FALSE
    BY DEF InOrder
  <1> HIDE DEF events, none
  <1>8. PICK gens \in [NodeIndexes -> Nat], fallen \in [NodeIndexes -> BOOLEAN] :
           gens = generations /\ fallen = down
    BY <1>1
  <1>9. \A n \in NodeIndexes : gens[n] = 0
    BY <1>1, <1>8
  <1>10. QueueFits(none, 0, gens, NoEntry, FALSE)
    BY <1>7 DEF QueueFits
  <1>11. \A i \in 1 .. Len(events) : Proper(events[i], 0, gens, NoEntry, FALSE)
    BY <1>3, <1>4, <1>6, <1>9 DEF Proper
  <1>12. PICK r : r = ScheduledAll(none, events)
    OBVIOUS
  <1>13. QueueFits(r, 0, gens, NoEntry, FALSE)
    BY <1>6, <1>10, <1>11, <1>12, ScheduledAllFits
  <1>14. ASSUME NEW n \in NodeIndexes
         PROVE  OneOf(r, LiveTicks(n, gens[n]))
    <2> DEFINE T == LiveTicks(n, gens[n])
    <2> HIDE DEF T
    <2>1. ASSUME NEW i \in 1 .. NodeCount PROVE events[i] \in T <=> i - 1 = n
      <3>1. PICK e \in SimEvents : e = events[i]
        BY <1>6
      <3>2. e.target = i - 1 /\ e.kind = kind
        BY <1>6, <3>1
      <3>3. e \in T <=> i - 1 = n
        BY <1>3, <1>9, <3>2 DEF T, LiveTicks
      <3> QED
        BY <3>1, <3>3
    <2>2. n + 1 \in 1 .. Len(events) /\ events[n + 1] \in T
      <3>1. n + 1 \in 1 .. NodeCount /\ (n + 1) - 1 = n
        BY <1>4
      <3>2. events[n + 1] \in T <=> (n + 1) - 1 = n
        BY <2>1, <3>1
      <3> QED
        BY <1>6, <3>1, <3>2
    <2>3. \A j \in 1 .. Len(events) : events[j] \in T => j = n + 1
      BY <1>4, <1>6, <2>1
    <2>4. OneOf(events, T)
      BY <2>2, <2>3 DEF OneOf
    <2>5. NoneOf(none, T)
      BY <1>7 DEF NoneOf
    <2>6. OneOf(r, T)
      BY <1>6, <1>7, <1>12, <2>4, <2>5, ScheduledAllMarks
    <2> QED
      BY <2>6 DEF T
  <1>15. QueueFits(queue, now, generations, widest, forged) /\ TicksFit(queue, generations, down)
    BY <1>1, <1>8, <1>12, <1>13, <1>14 DEF TicksFit
  <1>16. ASSUME NEW n \in NodeIndexes
         PROVE  LET fresh == FreshNode(n, "old") IN
                /\ fresh \in SimNode /\ fresh.incarnation = 0 /\ fresh.settings = "old"
                /\ fresh.knows \subseteq NodeIndexes
    BY SimAssumption, SizesAre DEF FreshNode, SimNode
  <1>17. SimTypes
    <2>1. nodes \in [NodeIndexes -> SimNode]
      BY <1>1, <1>16
    <2>2. pauses \in Seq([node : NodeIndexes, from : Nat, until : Nat])
      BY <1>1
    <2>3. widest \in Nat \X Nat /\ "off" \in Seals
      BY <1>1 DEF NoEntry, Seals
    <2>4. now \in 0 .. MaxTime /\ deadline \in now .. MaxTime /\ inputs \in 0 .. MaxInputs
      BY <1>1, SizesAre
    <2> QED
      BY <1>1, <2>1, <2>2, <2>3, <2>4 DEF SimTypes
  <1>18. NodesFit
    BY <1>1, <1>16 DEF NodesFit
  <1>19. LimitsFit(limitOf, widest)
    BY <1>1 DEF LimitsFit
  <1> QED
    BY <1>15, <1>17, <1>18, <1>19 DEF SimInv

\* Every step of the test and of the loop keeps the invariant.
LEMMA SimSteps ==
    ASSUME SimInv, [SimNext]_simVars
    PROVE  SimInv'
  <1>1. ASSUME CallerNext PROVE SimInv'
    <2>1. ASSUME NEW n \in NodeIndexes, NEW from \in Times, NEW until \in Times,
                 \/ PauseNode(n, from, until)
                 \/ ScheduleRestart(n, from, until)
                 \/ \E rate \in 1 .. 2 : ScheduleRequests(n, rate, from, until)
          PROVE  SimInv'
      BY <2>1, PauseKeeps, RestartScheduled, RequestsScheduled
    <2>2. ASSUME NEW n \in NodeIndexes, NEW at \in Times, NEW auth \in Seals,
                 \/ ScheduleLeave(n, at)
                 \/ ScheduleAuth(at, n, auth)
                 \/ SetAuth(n, auth)
                 \/ \E limit \in KeyLimits : ScheduleKeyLimit(at, n, limit)
                 \/ \E from \in 0 .. NodeCount : ScheduleMessage(at, from, n, auth)
          PROVE  SimInv'
      BY <2>2, LeaveScheduled, AuthScheduled, AuthKeeps, LimitScheduled, MessageScheduled
    <2>3. ASSUME \E limit \in KeyLimits : LimitEverywhere(limit) PROVE SimInv'
      BY <2>3, EverywhereKeeps
    <2>4. ASSUME Configure("new") PROVE SimInv'
      BY <2>4, ConfigureKeeps
    <2>5. ASSUME now < MaxTime /\ RunUntil(now + 1) PROVE SimInv'
      BY <2>5, RunKeeps
    <2> QED
      BY <1>1, <2>1, <2>2, <2>3, <2>4, <2>5 DEF CallerNext, Seals
  <1>2. ASSUME LoopNext PROVE SimInv'
    BY <1>2, DeferKeeps, CrashKeeps, RestartKeeps, LimitEventKeeps, AuthEventKeeps, LoseKeeps,
       LeaveKeeps, TickKeeps, RequestKeeps, DeliverKeeps, ReturnKeeps DEF LoopNext
  <1>3. ASSUME SimOver \/ UNCHANGED simVars PROVE SimInv'
    BY <1>3, SimRestKeeps DEF SimOver
  <1> QED
    BY <1>1, <1>2, <1>3 DEF SimNext

\* The invariant is what the loop promises.
LEMMA SimIsHeld ==
    ASSUME SimInv
    PROVE  SimulatorHolds
  <1>1. /\ SimTypes /\ NodesFit /\ LimitsFit(limitOf, widest) /\ TicksFit(queue, generations, down)
        /\ QueueFits(queue, now, generations, widest, forged)
    BY DEF SimInv
  <1>2. queue \in Seq(SimEvents) /\ InOrder(queue)
        /\ \A i \in 1 .. Len(queue) : Proper(queue[i], now, generations, widest, forged)
    BY <1>1 DEF QueueFits
  <1>3. DOMAIN queue = 1 .. Len(queue) /\ Len(queue) \in Nat
        /\ \A i \in 1 .. Len(queue) : queue[i] \in SimEvents
    BY <1>2
  <1>4. SimTypeOK
    <2>1. ASSUME NEW i \in DOMAIN queue
          PROVE  /\ queue[i].at >= now /\ (i > 1 => queue[i - 1].at <= queue[i].at)
                 /\ queue[i].target \in NodeIndexes
      <3>1. queue[i].at >= now /\ queue[i].target \in NodeIndexes
        BY <1>2, <1>3 DEF Proper, SimEvents
      <3>2. ASSUME i > 1 PROVE queue[i - 1].at <= queue[i].at
        <4>1. i - 1 \in 1 .. Len(queue) /\ i \in 1 .. Len(queue) /\ i - 1 <= i
          BY <1>3, <3>2
        <4> QED
          BY <1>2, <4>1 DEF InOrder
      <3> QED
        BY <3>1, <3>2
    <2>2. forged \/ \A n \in NodeIndexes : nodes[n].knows \subseteq NodeIndexes
      BY <1>1 DEF NodesFit
    <2>3. /\ now \in 0 .. MaxTime /\ deadline \in now .. MaxTime /\ inputs \in 0 .. MaxInputs
          /\ \A n \in NodeIndexes : down[n] \in BOOLEAN /\ generations[n] \in Nat
      BY <1>1 DEF SimTypes
    <2> QED
      BY <2>1, <2>2, <2>3 DEF SimTypeOK
  <1>5. ASSUME NEW n \in NodeIndexes, ~down[n]
        PROVE  Cardinality({i \in DOMAIN queue :
                   queue[i].kind.is = "tick" /\ queue[i].target = n /\ ~Stale(queue[i])}) = 1
    <2> DEFINE Live == {i \in DOMAIN queue :
                   queue[i].kind.is = "tick" /\ queue[i].target = n /\ ~Stale(queue[i])}
    <2>1. OneOf(queue, LiveTicks(n, generations[n]))
      BY <1>1, <1>5 DEF TicksFit
    <2>2. PICK k \in 1 .. Len(queue) :
             /\ queue[k] \in LiveTicks(n, generations[n])
             /\ \A j \in 1 .. Len(queue) : queue[j] \in LiveTicks(n, generations[n]) => j = k
      BY <2>1 DEF OneOf
    <2>3. \A i \in 1 .. Len(queue) : i \in Live <=> queue[i] \in LiveTicks(n, generations[n])
      BY <1>3 DEF Stale, LiveTicks
    <2>4. Live \subseteq 1 .. Len(queue)
      BY <1>3
    <2> HIDE DEF Live
    <2>5. Live = {k}
      BY <2>2, <2>3, <2>4
    <2>6. Cardinality(Live) = 1
      BY <2>5, FS_Singleton
    <2> QED
      BY <2>6 DEF Live
  <1>6. ASSUME NEW n \in NodeIndexes
        PROVE  LET inForce == IF limitOf[n] = NoEntry THEN ConfigLimit ELSE limitOf[n]
                   bound == IF widest = NoEntry THEN ConfigLimit ELSE widest
               IN  inForce[1] <= bound[1] /\ inForce[2] <= bound[2]
    <2>1. ConfigLimit \in Nat \X Nat
      BY SimAssumption
    <2>2. CASE widest = NoEntry
      BY <1>1, <2>1, <2>2 DEF LimitsFit
    <2>3. CASE widest # NoEntry
      BY <1>1, <2>3 DEF LimitsFit, Fits
    <2> QED
      BY <2>2, <2>3
  <1>7. ~alarm /\ \A n \in NodeIndexes : nodes[n].settings = settings
    BY <1>1 DEF NodesFit
  <1> QED
    BY <1>4, <1>5, <1>6, <1>7 DEF SimulatorHolds

SimSpec == SimInit /\ [][SimNext]_simVars

\* Under any order of pauses, crashes, restarts, leaves, changes of limits and
\* settings, forged and lost datagrams, the loop of sim.rs keeps its queue in
\* order and never behind its clock, one tick to come for each node up, the
\* limits nodes hold a key to within what the admission window is told, the
\* settings set last, and takes no restart for an incarnation that dropped.
THEOREM SimulatorIsKept == SimSpec => []SimulatorHolds
  <1>1. SimInit => SimInv
    BY SimStarts
  <1>2. SimInv /\ [SimNext]_simVars => SimInv'
    BY SimSteps
  <1>3. SimInv => SimulatorHolds
    BY SimIsHeld
  <1> QED
    BY <1>1, <1>2, <1>3, PTL DEF SimSpec
=============================================================================
