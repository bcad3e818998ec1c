----------------------------- MODULE MCMigrate -----------------------------
(* Small instances of migrate_to for TLC. *)
EXTENDS Migrate, TLC

CONSTANTS app1, app2, a, b, n1, n2, v, w, blank

\* v is " w " with whitespace, blank is "  ".
MCStripped == v :> w @@ w :> w @@ blank :> None

Bind(k, p, ns) == [backend |-> k, app |-> p, ns |-> ns]
Move(s, d) == {[source |-> s, dest |-> d, remove_source |-> r] : r \in BOOLEAN}

Plain   == "credentials.json"
Secured == "credentials.enc"
At(f, p) == [name |-> f, app |-> p]

\* Another app, another backend, another namespace of the file, the conversion of
\* layout in both directions, and a store into itself.
AnyMigration ==
    Move(Bind("file", app1, None), Bind("file", app2, n1))
      \cup Move(Bind("file", app1, None), Bind("encrypted", app1, None))
      \cup Move(Bind("file", app1, n1), Bind("keyring", app2, n1))
      \cup Move(Bind("file", app1, n1), Bind("file", app1, None))
      \cup Move(Bind("file", app1, None), Bind("file", app1, n1))
      \cup Move(Bind("file", app1, n1), Bind("file", app1, n2))
      \cup Move(Bind("file", app1, None), Bind("file", app1, None))

\* An upgrade from the file to the keyring, on a machine that has none.
Upgrade == Move(Bind("file", app1, None), Bind("keyring", app1, None))

\* The conversion of layout alone.
Conversion == Move(Bind("file", app1, None), Bind("file", app1, n1))

\* A sibling of the source, and one of the destination.
Siblings ==
    {[at |-> At(Plain, p), op |-> o] :
        p \in {app1, app2},
        o \in {[kind |-> "set", ns |-> n2, name |-> a, value |-> v],
               [kind |-> "unset", ns |-> n2, name |-> a]}}

SourceContent ==
    {Absent, Malformed, a :> v, a :> v @@ b :> blank, a :> w @@ b :> v,
     n1 :> (a :> v @@ b :> w), n1 :> (a :> w) @@ n2 :> (a :> v)}

DestContent == {Absent, b :> w, n1 :> (b :> w) @@ n2 :> (a :> v), Malformed}

Filled(fs) == [f \in File |-> IF f = At(Plain, app1) THEN fs[1]
                              ELSE IF f \in {At(Plain, app2), At(Secured, app1)} THEN fs[2]
                              ELSE Absent]

AnyFiles   == {Filled(fs) : fs \in SourceContent \X DestContent}
PlainFiles == {Filled(<<a :> v @@ b :> w, Absent>>)}

\* The migration is over, or given up.
Rest == pc \in {"done", "rejected", "failed"} /\ UNCHANGED mvars

MCSpec == Init /\ [][Next \/ Rest]_mvars
=============================================================================
