---------------------------- MODULE KeyringStore ----------------------------
(***************************************************************************)
(* KeyringBackend over its file fallback: one app's secrets in the OS      *)
(* keyring and in credentials.json, used by the processes of a desktop     *)
(* session, which reach the keyring, and of headless sessions (ssh, cron), *)
(* for which no keyring backend exists.  Every call is a keyring call      *)
(* followed, when the code says so, by a call of the fallback; other       *)
(* processes run between the two.  A call of the fallback is one step,     *)
(* which is what FileStore is shown to implement.                          *)
(***************************************************************************)
EXTENDS StoreContent

CONSTANTS
    Client,       \* the processes
    Headless,     \* those for which no keyring backend exists
    Bare,         \* those whose KeyringBackend has no fallback
    Ops,          \* the operations issued
    InitFile,     \* contents the fallback file may start with
    MaxCalls,     \* bound: calls issued in a behaviour
    MaxFaults     \* bound: keyring errors, I/O errors and crashes

ASSUME KeyringAssumption ==
    /\ Headless \subseteq Client /\ Bare \subseteq Client
    /\ Ops \subseteq Op
    /\ InitFile \subseteq Content
    /\ MaxCalls \in Nat /\ MaxFaults \in Nat
    /\ None \notin Outcome \cup {"ok", "no_backend", "failed"}

VARIABLES
    ring,    \* the keyring: one item per service (app or app/namespace) and name
    file,    \* the fallback's credentials.json
    pc,      \* where each client is in its call
    call,    \* the operation it executes
    status,  \* what its keyring call returned
    outcome, \* its result, once decided
    calls, faults

kvars == <<ring, file, pc, call, status, outcome, calls, faults>>

Item == Scope \X Name

Init ==
    /\ ring = [i \in Item |-> None]
    /\ file \in InitFile
    /\ pc = [c \in Client |-> "idle"]
    /\ call = [c \in Client |-> None]
    /\ status = [c \in Client |-> None]
    /\ outcome = [c \in Client |-> None]
    /\ calls = 0 /\ faults = 0

Fault == faults < MaxFaults /\ faults' = faults + 1

Answers(c, s) == status' = [status EXCEPT ![c] = s]

\* The call is decided and returns r.
Ends(c, r) ==
    /\ outcome' = [outcome EXCEPT ![c] = r]
    /\ pc' = [pc EXCEPT ![c] = "return"]

\* The fallback is next; where there is none the call returns r.
Passes(c, r) ==
    IF c \in Bare THEN Ends(c, r)
    ELSE pc' = [pc EXCEPT ![c] = "fallback"] /\ UNCHANGED outcome

item(c) == <<call[c].ns, call[c].name>>

-----------------------------------------------------------------------------
(* A call and its return.  names asks the fallback alone. *)

Call(c) ==
    /\ pc[c] = "idle"
    /\ calls < MaxCalls
    /\ calls' = calls + 1
    /\ \E op \in Ops :
         /\ call' = [call EXCEPT ![c] = op]
         /\ IF op.kind = "names" THEN Passes(c, Answer(op, EmptyStore))
            ELSE pc' = [pc EXCEPT ![c] = "keyring"] /\ UNCHANGED outcome
    /\ UNCHANGED <<ring, file, status, faults>>

Return(c) ==
    /\ pc[c] = "return"
    /\ pc' = [pc EXCEPT ![c] = "idle"]
    /\ call' = [call EXCEPT ![c] = None]
    /\ status' = [status EXCEPT ![c] = None]
    /\ outcome' = [outcome EXCEPT ![c] = None]
    /\ UNCHANGED <<ring, file, calls, faults>>

-----------------------------------------------------------------------------
(* The keyring call: _try_keyring_get, _try_keyring_set, _try_keyring_delete *)

\* What the item holds once the call has taken effect.
RingAfter(c) ==
    CASE call[c].kind = "get"   -> ring
      [] call[c].kind = "set"   -> [ring EXCEPT ![item(c)] = call[c].value]
      [] call[c].kind = "unset" -> [ring EXCEPT ![item(c)] = None]

\* "no_backend": the fallback takes the call, or NoKeyringError.
NoBackend(c) ==
    /\ pc[c] = "keyring" /\ c \in Headless
    /\ Answers(c, "no_backend")
    /\ Passes(c, Error)
    /\ UNCHANGED <<ring, file, call, calls, faults>>

\* Mutant: a failing keyring is taken for an absent one.
FailedFallsBack(c) ==
    /\ pc[c] = "keyring" /\ c \notin Headless
    /\ Fault
    /\ ring' \in {ring, RingAfter(c)}
    /\ Answers(c, "failed")
    /\ Passes(c, Error)
    /\ UNCHANGED <<file, call, calls>>

\* "failed": present and erring, having done what was asked or not.  Fails closed.
Failed(c) ==
    /\ pc[c] = "keyring" /\ c \notin Headless
    /\ Fault
    /\ ring' \in {ring, RingAfter(c)}
    /\ Answers(c, "failed")
    /\ Ends(c, Error)
    /\ UNCHANGED <<file, call, calls>>

\* normalize_secret_value of what get_password returned: None for nothing or blank.
cleaned(i) == IF ring[i] = None THEN None ELSE normalize_secret_value(ring[i])

\* A get that finds a value returns it, stripped ...
Hit(c) ==
    /\ pc[c] = "keyring" /\ c \notin Headless
    /\ call[c].kind = "get"
    /\ cleaned(item(c)) # None
    /\ Answers(c, "ok")
    /\ Ends(c, [kind |-> "value", value |-> cleaned(item(c))])
    /\ UNCHANGED <<ring, file, call, calls, faults>>

\* ... and one that finds none, or a blank one, asks the fallback.
Miss(c) ==
    /\ pc[c] = "keyring" /\ c \notin Headless
    /\ call[c].kind = "get"
    /\ cleaned(item(c)) = None
    /\ Answers(c, "ok")
    /\ Passes(c, [kind |-> "value", value |-> None])
    /\ UNCHANGED <<ring, file, call, calls, faults>>

\* Mutant: the stale copy in the file is left where it is.
ChangeLeavesCopy(c) ==
    /\ pc[c] = "keyring" /\ c \notin Headless
    /\ IsWrite(call[c])
    /\ ring' = RingAfter(c)
    /\ Answers(c, "ok")
    /\ Ends(c, Ok)
    /\ UNCHANGED <<file, call, calls, faults>>

\* A set or unset that the keyring takes goes on to clear the file's copy.
Change(c) ==
    /\ pc[c] = "keyring" /\ c \notin Headless
    /\ IsWrite(call[c])
    /\ ring' = RingAfter(c)
    /\ Answers(c, "ok")
    /\ Passes(c, Ok)
    /\ UNCHANGED <<file, call, calls, faults>>

\* The keyring refuses to delete the item (locked, cancelled by the user) with the
\* exception it also raises for an absent one: taken for "ok", and the item stays.
DeleteRefused(c) ==
    /\ pc[c] = "keyring" /\ c \notin Headless
    /\ call[c].kind = "unset" /\ ring[item(c)] # None
    /\ Fault
    /\ Answers(c, "ok")
    /\ Passes(c, Ok)
    /\ UNCHANGED <<ring, file, call, calls>>

-----------------------------------------------------------------------------
(* The fallback's call *)

\* After a set of the keyring the file's copy is unset; else the call is passed on.
FallbackOp(c) ==
    IF call[c].kind = "set" /\ status[c] = "ok"
    THEN [kind |-> "unset", ns |-> call[c].ns, name |-> call[c].name]
    ELSE call[c]

FallbackReads(c) ==
    /\ pc[c] = "fallback" /\ ~IsWrite(call[c])
    /\ Ends(c, IF Loads(file, call[c].ns) THEN Answer(call[c], Loaded(file)) ELSE Error)
    /\ UNCHANGED <<ring, file, call, status, calls, faults>>

\* The fallback can do what it is asked: its file loads and its new map encodes.
Accepts(c) ==
    LET op == FallbackOp(c)
    IN  /\ Loads(file, op.ns)
        /\ Writes(op, Loaded(file)) => serialize_store(Apply(op, Loaded(file)))

FileAfter(c) ==
    LET op == FallbackOp(c)
    IN  IF Writes(op, Loaded(file)) THEN Apply(op, Loaded(file)) ELSE file

FallbackWrites(c) ==
    /\ pc[c] = "fallback" /\ IsWrite(call[c])
    /\ Accepts(c)
    /\ file' = FileAfter(c)
    /\ Ends(c, Ok)
    /\ UNCHANGED <<ring, call, status, calls, faults>>

\* It cannot: the caller learns that a plaintext copy may remain.
FallbackRefuses(c) ==
    /\ pc[c] = "fallback" /\ IsWrite(call[c])
    /\ ~Accepts(c)
    /\ Ends(c, Error)
    /\ UNCHANGED <<ring, file, call, status, calls, faults>>

\* Mutant: the fallback's CredentialsError is swallowed.
FailureSwallowed(c) ==
    /\ pc[c] = "fallback"
    /\ Fault
    /\ Ends(c, Ok)
    /\ UNCHANGED <<ring, file, call, status, calls>>

\* An I/O error of the file, which may be reported after the rename.
FallbackFails(c) ==
    /\ pc[c] = "fallback"
    /\ Fault
    /\ file' = file \/ (IsWrite(call[c]) /\ Accepts(c) /\ file' = FileAfter(c))
    /\ Ends(c, Error)
    /\ UNCHANGED <<ring, call, status, calls>>

\* The process dies between its two calls, or after them.
Crash(c) ==
    /\ pc[c] \in {"keyring", "fallback"}
    /\ Fault
    /\ pc' = [pc EXCEPT ![c] = "idle"]
    /\ call' = [call EXCEPT ![c] = None]
    /\ status' = [status EXCEPT ![c] = None]
    /\ outcome' = [outcome EXCEPT ![c] = None]
    /\ UNCHANGED <<ring, file, calls>>

-----------------------------------------------------------------------------

Keyring(c)  == \/ NoBackend(c) \/ Failed(c) \/ Hit(c) \/ Miss(c)
               \/ Change(c) \/ DeleteRefused(c)
Fallback(c) == FallbackReads(c) \/ FallbackWrites(c) \/ FallbackRefuses(c) \/ FallbackFails(c)

Step(c) == Call(c) \/ Keyring(c) \/ Fallback(c) \/ Return(c) \/ Crash(c)

Next == \E c \in Client : Step(c)

Spec == Init /\ [][Next]_kvars
=============================================================================
