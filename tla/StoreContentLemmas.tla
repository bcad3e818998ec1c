------------------------- MODULE StoreContentLemmas -------------------------
(***************************************************************************)
(* What the operators of StoreContent return: a set or unset on a map of   *)
(* one layout leaves a map of the same layout, and answers are well typed. *)
(***************************************************************************)
EXTENDS StoreContent, TLAPS

\* A flat store is a map from some names to values.
LEMMA FlatStoreChar ==
    ASSUME NEW s
    PROVE  s \in FlatStore <=> /\ DOMAIN s \subseteq Name
                               /\ s \in [DOMAIN s -> Value]
  BY DEF FlatStore

\* A namespaced store is a map from some namespaces to flat stores.
LEMMA NestedStoreChar ==
    ASSUME NEW s
    PROVE  s \in NestedStore <=> /\ DOMAIN s \subseteq Namespace
                                 /\ s \in [DOMAIN s -> FlatStore]
  BY DEF NestedStore

\* `{}` is a store of both layouts.
LEMMA EmptyStoreFits == EmptyStore \in FlatStore /\ EmptyStore \in NestedStore
  <1>1. EmptyStore \in [{} -> Value] /\ EmptyStore \in [{} -> FlatStore]
    BY DEF EmptyStore
  <1>2. {} \in SUBSET Name /\ {} \in SUBSET Namespace
    OBVIOUS
  <1>3. QED BY <1>1, <1>2 DEF FlatStore, NestedStore

\* An assignment into a flat map leaves a flat map, and so does a deletion.
LEMMA FlatUpdates ==
    ASSUME NEW s \in FlatStore, NEW n \in Name
    PROVE  /\ \A v \in Value : Put(s, n, v) \in FlatStore
           /\ Drop(s, n) \in FlatStore
  <1>1. DOMAIN s \subseteq Name /\ s \in [DOMAIN s -> Value]
    BY FlatStoreChar
  <1>2. \A v \in Value : Put(s, n, v) \in [DOMAIN s \cup {n} -> Value]
    BY <1>1 DEF Put
  <1>3. Drop(s, n) \in [DOMAIN s \ {n} -> Value]
    BY <1>1 DEF Drop
  <1>4. QED BY <1>1, <1>2, <1>3 DEF FlatStore

\* The same for the sections of a namespaced map.
LEMMA NestedUpdates ==
    ASSUME NEW s \in NestedStore, NEW ns \in Namespace
    PROVE  /\ \A m \in FlatStore : Put(s, ns, m) \in NestedStore
           /\ Drop(s, ns) \in NestedStore
  <1>1. DOMAIN s \subseteq Namespace /\ s \in [DOMAIN s -> FlatStore]
    BY NestedStoreChar
  <1>2. \A m \in FlatStore : Put(s, ns, m) \in [DOMAIN s \cup {ns} -> FlatStore]
    BY <1>1 DEF Put
  <1>3. Drop(s, ns) \in [DOMAIN s \ {ns} -> FlatStore]
    BY <1>1 DEF Drop
  <1>4. QED BY <1>1, <1>2, <1>3 DEF NestedStore

\* The section of a scope, in a store of that scope's layout, is a flat map.
LEMMA SectionFlat ==
    ASSUME NEW ns \in Scope, NEW s, parse_store(s, ns)
    PROVE  Section(s, ns) \in FlatStore
  <1>1. CASE ns = None
    BY <1>1 DEF parse_store, Section
  <1>2. CASE ns # None
    <2>1. s \in [DOMAIN s -> FlatStore]
      BY <1>2, NestedStoreChar DEF parse_store
    <2>2. QED BY <1>2, <2>1, EmptyStoreFits DEF Section
  <1>3. QED BY <1>1, <1>2

\* What a loader returns has the layout of the scope it loaded for.
LEMMA LoadedParses ==
    ASSUME NEW ns \in Scope, NEW c, Loads(c, ns)
    PROVE  parse_store(Loaded(c), ns) /\ Loaded(c) \in Store
  BY EmptyStoreFits DEF Loads, Loaded, parse_store, Store

\* A set or unset keeps the layout of the store it is applied to, so what it
\* saves loads again in the same mode (FileBackend.set, FileBackend.unset).
LEMMA ApplyKeepsLayout ==
    ASSUME ContentAssumption, NEW op \in Op, IsWrite(op), NEW s,
           parse_store(s, op.ns)
    PROVE  parse_store(Apply(op, s), op.ns) /\ Apply(op, s) \in Store
  <1> DEFINE sec == Section(s, op.ns)
  <1>1. op.ns \in Scope /\ op.name \in Name
    BY DEF Op, IsWrite
  <1>2. sec \in FlatStore
    BY <1>1, SectionFlat
  <1>3. CASE op.kind = "set"
    <2>1. op.value \in Value
      BY <1>3 DEF Op
    <2>2. Put(sec, op.name, op.value) \in FlatStore
      BY <1>1, <1>2, <2>1, FlatUpdates
    <2>3. CASE op.ns = None
      BY <1>3, <2>2, <2>3 DEF Apply, WithSecret, parse_store, Store, Section
    <2>4. CASE op.ns # None
      <3>1. op.ns \in Namespace /\ s \in NestedStore
        BY <1>1, <2>4 DEF Scope, parse_store
      <3>2. Put(s, op.ns, Put(sec, op.name, op.value)) \in NestedStore
        BY <2>2, <3>1, NestedUpdates
      <3>3. QED BY <1>3, <2>4, <3>2 DEF Apply, WithSecret, parse_store, Store
    <2>5. QED BY <2>3, <2>4
  <1>4. CASE op.kind # "set"
    <2> DEFINE rest == Drop(sec, op.name)
    <2>2. rest \in FlatStore
      BY <1>1, <1>2, FlatUpdates
    <2>3. CASE op.ns = None
      BY <1>4, <2>2, <2>3 DEF Apply, WithoutSecret, parse_store, Store, Section
    <2>4. CASE op.ns # None
      <3>1. op.ns \in Namespace /\ s \in NestedStore
        BY <1>1, <2>4 DEF Scope, parse_store
      <3>2. Drop(s, op.ns) \in NestedStore /\ Put(s, op.ns, rest) \in NestedStore
        BY <2>2, <3>1, NestedUpdates
      <3>3. Apply(op, s) \in {Drop(s, op.ns), Put(s, op.ns, rest)}
        BY <1>4, <2>4 DEF Apply, WithoutSecret
      <3>4. QED BY <2>4, <3>2, <3>3 DEF parse_store, Store
    <2>5. QED BY <2>3, <2>4
  <1>5. QED BY <1>3, <1>4

\* get answers a value or None, names a set of names.
LEMMA AnswerType ==
    ASSUME ContentAssumption, NEW op \in Op, ~IsWrite(op), NEW s,
           parse_store(s, op.ns)
    PROVE  Answer(op, s) \in Outcome
  <1>1. op.ns \in Scope
    BY DEF Op
  <1>2. Section(s, op.ns) \in FlatStore
    BY <1>1, SectionFlat
  <1>3. /\ DOMAIN Section(s, op.ns) \subseteq Name
        /\ \A n \in DOMAIN Section(s, op.ns) : Section(s, op.ns)[n] \in Value
    BY <1>2, FlatStoreChar
  <1>4. CASE op.kind = "get"
    <2>1. Lookup(s, op.ns, op.name) \in Value \cup {None}
      BY <1>3 DEF Lookup, normalize_secret_value, ContentAssumption
    <2>2. QED BY <1>4, <2>1 DEF Answer, Outcome
  <1>5. CASE op.kind = "names"
    BY <1>3, <1>5 DEF Answer, Outcome, NamesOf
  <1>6. op.kind \in {"get", "names"}
    BY DEF Op, IsWrite
  <1>7. QED BY <1>4, <1>5, <1>6

\* Only `{}` is a store of both layouts (_store.parse_store: a secret is no section).
LEMMA OnlyEmptyFitsBoth ==
    ASSUME ContentAssumption, NEW s \in FlatStore, s \in NestedStore
    PROVE  s = EmptyStore
  <1>1. s \in [DOMAIN s -> Value] /\ s \in [DOMAIN s -> FlatStore]
    BY FlatStoreChar, NestedStoreChar
  <1>2. DOMAIN s = {}
    BY <1>1 DEF ContentAssumption
  <1>3. s = [x \in {} |-> s[x]]
    BY <1>1, <1>2
  <1>4. QED BY <1>3 DEF EmptyStore

\* A map without keys is `{}`.
LEMMA NoKeys ==
    ASSUME NEW m \in FlatStore, DOMAIN m = {}
    PROVE  m = EmptyStore
  <1>1. m = [x \in {} |-> m[x]]
    BY FlatStoreChar
  <1>2. QED BY <1>1 DEF EmptyStore

\* Removing a name that is not there changes nothing.
LEMMA DropAbsent ==
    ASSUME NEW m \in FlatStore, NEW n, n \notin DOMAIN m
    PROVE  Drop(m, n) = m
  <1>1. m = [x \in DOMAIN m |-> m[x]] /\ DOMAIN m \ {n} = DOMAIN m
    BY FlatStoreChar
  <1>2. QED BY <1>1 DEF Drop

\* A set or unset does to the section of its scope what it would to a flat map ...
LEMMA SectionOfApply ==
    ASSUME ContentAssumption, NEW op \in Op, IsWrite(op), NEW s,
           parse_store(s, op.ns)
    PROVE  Section(Apply(op, s), op.ns)
             = IF op.kind = "set" THEN Put(Section(s, op.ns), op.name, op.value)
               ELSE Drop(Section(s, op.ns), op.name)
  <1>1. op.ns \in Scope /\ op.name \in Name
    BY DEF Op, IsWrite
  <1>2. Section(s, op.ns) \in FlatStore /\ Drop(Section(s, op.ns), op.name) \in FlatStore
    BY <1>1, SectionFlat, FlatUpdates
  <1>3. CASE op.ns = None
    BY <1>3 DEF Apply, WithSecret, WithoutSecret, Section
  <1>4. CASE op.ns # None /\ op.kind = "set"
    BY <1>4 DEF Apply, WithSecret, Section, Put
  <1>5. CASE op.ns # None /\ op.kind # "set"
    <2> DEFINE rest == Drop(Section(s, op.ns), op.name)
    <2>1. CASE DOMAIN rest = {}
      <3>1. rest = EmptyStore
        BY <1>2, <2>1, NoKeys
      <3>2. Apply(op, s) = Drop(s, op.ns)
        BY <1>5, <2>1 DEF Apply, WithoutSecret
      <3>3. op.ns \notin DOMAIN Drop(s, op.ns)
        BY DEF Drop
      <3>4. QED BY <1>5, <3>1, <3>2, <3>3 DEF Section
    <2>2. CASE DOMAIN rest # {}
      <3>1. Apply(op, s) = Put(s, op.ns, rest)
        BY <1>5, <2>2 DEF Apply, WithoutSecret
      <3>2. op.ns \in DOMAIN Put(s, op.ns, rest) /\ Put(s, op.ns, rest)[op.ns] = rest
        BY DEF Put
      <3>3. QED BY <1>5, <3>1, <3>2 DEF Section
    <2>3. QED BY <2>1, <2>2
  <1>6. QED BY <1>3, <1>4, <1>5

\* ... and leaves the other sections alone.
LEMMA OtherSectionsOfApply ==
    ASSUME NEW op, op.ns # None, NEW s, NEW ns \in Namespace, ns # op.ns, ns # None
    PROVE  Section(Apply(op, s), ns) = Section(s, ns)
  <1>1. \A m : /\ ns \in DOMAIN Put(s, op.ns, m) <=> ns \in DOMAIN s
               /\ ns \in DOMAIN s => Put(s, op.ns, m)[ns] = s[ns]
    BY DEF Put
  <1>2. /\ ns \in DOMAIN Drop(s, op.ns) <=> ns \in DOMAIN s
        /\ ns \in DOMAIN s => Drop(s, op.ns)[ns] = s[ns]
    BY DEF Drop
  <1>3. \/ Apply(op, s) = Drop(s, op.ns)
        \/ \E m : Apply(op, s) = Put(s, op.ns, m)
    BY DEF Apply, WithSecret, WithoutSecret
  <1>4. QED BY <1>1, <1>2, <1>3 DEF Section
=============================================================================
