----------------------------- MODULE MCKeyring -----------------------------
(* Small instances of the keyring backend for TLC. *)
EXTENDS KeyringProperties, TLC

CONSTANTS c1, c2, headless, bare, a, n1, v, w, blank

\* v is " w " with whitespace, blank is "  ".
MCStripped == v :> w @@ w :> w @@ blank :> None

set(ns, n, x) == [kind |-> "set", ns |-> ns, name |-> n, value |-> x]
unset(ns, n)  == [kind |-> "unset", ns |-> ns, name |-> n]
get(ns, n)    == [kind |-> "get", ns |-> ns, name |-> n]

AllOps == {set(None, a, v), set(None, a, blank), unset(None, a), get(None, a),
           set(n1, a, w), get(n1, a), [kind |-> "names", ns |-> None]}

\* The file a headless time left behind, in either layout, or none.
AnyFile == {Absent, Malformed, a :> w, n1 :> (a :> v)}

\* A reader, and a writer that sets the name anew.
RaceOps  == {set(None, a, v), get(None, a)}
RaceFile == {a :> w}

\* A name that is set and unset again.
UnsetOps == {set(None, a, w), unset(None, a)}

SameSession == Permutations({c1, c2})

\* Every call has been made and has returned: nothing more happens.
Rest == calls = MaxCalls /\ (\A c \in Client : pc[c] = "idle") /\ UNCHANGED <<kvars, history>>

MCSpec == HInit /\ [][(Next /\ Record) \/ Rest]_<<kvars, history>>
=============================================================================
