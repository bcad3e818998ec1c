---------------------------- MODULE MCFileStore ----------------------------
(* Small instances of FileStore for TLC. *)
EXTENDS FileStoreProperties, TLC

CONSTANTS t1, t2, t3, p1, p2, a, b, n1, v, w, blank, bad

\* Two threads of one process and one of another.
MCProcOf == t1 :> p1 @@ t2 :> p1 @@ t3 :> p2

\* v is " w " with whitespace, blank is "  ", bad holds a lone surrogate.
MCStripped == v :> w @@ w :> w @@ blank :> None @@ bad :> bad

set(ns, n, x) == [kind |-> "set", ns |-> ns, name |-> n, value |-> x]
unset(ns, n)  == [kind |-> "unset", ns |-> ns, name |-> n]
get(ns, n)    == [kind |-> "get", ns |-> ns, name |-> n]
names(ns)     == [kind |-> "names", ns |-> ns]

\* Every kind of write in both layouts, a value that cannot be encoded, and readers.
LockedOps == {set(None, a, v), set(None, b, bad), unset(None, a),
              set(n1, a, w), unset(n1, a), get(None, a), names(n1)}

\* One write each is enough to contend for both locks.
DegradedOps == {set(None, a, v)}

SomeContent     == {Absent, Malformed, n1 :> (a :> v)}
DegradedContent == {a :> w}

SameProcess == Permutations({t1, t2})

\* Every call has been made and has returned: nothing more happens.
Rest == calls = MaxCalls /\ (\A t \in Thread : pc[t] = "idle") /\ UNCHANGED vars

MCSpec == Init /\ [][Next \/ Rest]_vars
MCFairSpec == MCSpec /\ \A t \in Thread : WF_vars(Run(t))
=============================================================================
