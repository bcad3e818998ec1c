---------------------------- MODULE StoreContent ----------------------------
(***************************************************************************)
(* What a credential store file can hold, and what each backend operation  *)
(* does to it.  The file is one JSON object: flat (name -> secret) or      *)
(* namespaced (namespace -> name -> secret).  The byte level is abstracted:*)
(* a content is the parsed map, Absent when there is no file, or Malformed *)
(* for bytes that parse in neither layout.                                 *)
(***************************************************************************)
EXTENDS Naturals

CONSTANTS
    Name,          \* secret names, the keys of a flat map
    Namespace,     \* section names of a namespaced file
    Value,         \* JSON strings a file can hold as a secret
    Stripped,      \* what str.strip leaves of a value, None when nothing
    Unencodable,   \* values holding a lone surrogate: UTF-8 cannot encode them
    None,          \* Python's None: no namespace, no value, no lock
    Absent,        \* there is no file
    Malformed      \* bytes that are no store: torn, not UTF-8, not JSON, ...

Scope == Namespace \cup {None}

FlatStore   == UNION {[D -> Value] : D \in SUBSET Name}
NestedStore == UNION {[D -> FlatStore] : D \in SUBSET Namespace}
Store       == FlatStore \cup NestedStore
Content     == Store \cup {Absent, Malformed}

\* The object `{}`: it carries no layout and parses in both modes.
EmptyStore == [n \in {} |-> None]

ASSUME ContentAssumption ==
    /\ None \notin Value \cup Namespace \cup Name
    /\ Absent # Malformed
    /\ {Absent, Malformed} \cap Store = {}
    /\ Value \cap FlatStore = {}      \* a JSON string is no JSON object
    /\ Stripped \in [Value -> Value \cup {None}]
    /\ \A v \in Value : Stripped[v] # None => Stripped[Stripped[v]] = Stripped[v]
    /\ Unencodable \subseteq Value

-----------------------------------------------------------------------------
(* Maps *)

Put(m, k, v) == [x \in DOMAIN m \cup {k} |-> IF x = k THEN v ELSE m[x]]
Drop(m, k)   == [x \in DOMAIN m \ {k} |-> m[x]]

-----------------------------------------------------------------------------
(* The codec and the loaders *)

\* parse_store(nested = (ns is not None)) returns a map, not a StoreFault.
parse_store(c, ns) == IF ns = None THEN c \in FlatStore ELSE c \in NestedStore

\* _load_flat / _load_nested return rather than raise ...
Loads(c, ns) == c = Absent \/ parse_store(c, ns)

\* ... and this is the map they return.
Loaded(c) == IF c = Absent THEN EmptyStore ELSE c

\* The name -> secret map of scope ns: `.get(namespace, {})` when scoped.
Section(s, ns) ==
    IF ns = None THEN s ELSE IF ns \in DOMAIN s THEN s[ns] ELSE EmptyStore

normalize_secret_value(v) == Stripped[v]

\* get and names, on a loaded map.
Lookup(s, ns, name) ==
    LET byName == Section(s, ns)
    IN  IF name \in DOMAIN byName THEN normalize_secret_value(byName[name]) ELSE None

NamesOf(s, ns) == DOMAIN Section(s, ns)

\* serialize_store returns bytes, not NOT_ENCODABLE: one bad value anywhere in
\* the store is enough to refuse the whole.
serialize_store(s) ==
    IF s \in FlatStore THEN \A n \in DOMAIN s : s[n] \notin Unencodable
    ELSE \A ns \in DOMAIN s : \A n \in DOMAIN s[ns] : s[ns][n] \notin Unencodable

-----------------------------------------------------------------------------
(* Operations of the SecretBackend protocol, and the map each leaves *)

Op == [kind : {"set"}, ns : Scope, name : Name, value : Value]
        \cup [kind : {"unset", "get"}, ns : Scope, name : Name]
        \cup [kind : {"names"}, ns : Scope]

IsWrite(op) == op.kind \in {"set", "unset"}

\* unset rewrites the file only when the name is there to remove.
Writes(op, s) == op.kind = "set" \/ op.name \in NamesOf(s, op.ns)

WithSecret(s, ns, name, v) ==
    IF ns = None THEN Put(s, name, v) ELSE Put(s, ns, Put(Section(s, ns), name, v))

\* Mutant: an emptied namespace stays as {}.
WithoutSecretKeepsSection(s, ns, name) ==
    LET rest == Drop(Section(s, ns), name)
    IN  IF ns = None THEN rest ELSE Put(s, ns, rest)

\* A namespace whose last name goes is dropped, never left as an empty object.
WithoutSecret(s, ns, name) ==
    LET rest == Drop(Section(s, ns), name)
    IN  IF ns = None THEN rest
        ELSE IF DOMAIN rest = {} THEN Drop(s, ns) ELSE Put(s, ns, rest)

Apply(op, s) ==
    IF op.kind = "set" THEN WithSecret(s, op.ns, op.name, op.value)
    ELSE WithoutSecret(s, op.ns, op.name)

-----------------------------------------------------------------------------
(* What a caller gets back *)

Ok    == [kind |-> "ok"]
Error == [kind |-> "error"]     \* CredentialsError, or an interrupt

Answer(op, s) ==
    IF op.kind = "get" THEN [kind |-> "value", value |-> Lookup(s, op.ns, op.name)]
    ELSE [kind |-> "names", names |-> NamesOf(s, op.ns)]

Outcome == {Ok, Error} \cup [kind : {"value"}, value : Value \cup {None}]
             \cup [kind : {"names"}, names : SUBSET Name]
=============================================================================
