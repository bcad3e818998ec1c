------------------------------- MODULE Resolve -------------------------------
(***************************************************************************)
(* The Credentials facade: a secret is looked for in an override, the      *)
(* environment, each shared store in turn and the app's own store, and set *)
(* unset and names touch the own store only.  for_app lets the environment *)
(* redirect a component into another app's store, and the first store      *)
(* access then says, once per process, that the component's former store   *)
(* still holds secrets.                                                    *)
(*                                                                         *)
(* A backend call is one step on the store it names: FileStore is shown to *)
(* implement that.  Between two of them other threads and processes run.   *)
(***************************************************************************)
EXTENDS StoreContent, Sequences

CONSTANTS
    App,               \* valid app segments; the sections are in Namespace
    BadSegment,        \* a segment that validation refuses
    NotStr,            \* an argument that is neither str nor Secret
    BlankName,         \* a blank secret name
    PrefixOf,          \* env_var_prefix, a lossy fold
    Thread, ProcOf,    \* the callers, and the process each belongs to
    Requests,          \* the calls made on a Credentials
    Bindings,          \* the constructor and for_app calls made
    Environments,      \* environments the host may give a process
    InitEnv, InitStores, Edits,  \* how it begins; contents a hand edit leaves
    MaxCalls, MaxChanges  \* bounds

\* What a caller may name an app.
Segment == App \cup {BadSegment}

ASSUME ResolveAssumption ==
    /\ {BadSegment, NotStr, BlankName} \cap (App \cup Namespace \cup Name \cup Value \cup {None}) = {}
    /\ None \notin App
    /\ \A t \in Thread : \A b \in Bindings[t] : b.app \in Segment /\ b.shared \in Seq(Segment)
    /\ \A t \in Thread : \A r \in Requests[t] :
         r # None /\ (r.kind = "set" => r.name \in Name \cup {BlankName} /\ r.value \in Value \cup {NotStr})

Process == {ProcOf[t] : t \in Thread}

VARIABLES
    stores,      \* what each app's store holds
    env,         \* each process's environment
    creds,       \* the Credentials each thread uses
    warned,      \* _warned_legacy_orphan of each process
    probes,      \* the reads of a legacy store each process has made, and what it said
    pc, call,
    shared,      \* the shared stores a lookup still has to consult
    outcome,
    calls, changes

rvars == <<stores, env, creds, warned, probes, pc, call, shared, outcome, calls, changes>>

-----------------------------------------------------------------------------
(* Environment, binding *)

\* env_value: a blank variable reads as unset.
env_value(v) == IF v = None THEN None ELSE Stripped[v]

Credentials(app, ns, sharedApps) ==
    [app |-> app, ns |-> ns, shared |-> sharedApps, legacy |-> None]

\* Mutant: a redirected component keeps to the flat layout.
for_app_flat(app, sharedApps, e) ==
    LET storeApp == IF e.store_app[PrefixOf[app]] = None THEN app ELSE e.store_app[PrefixOf[app]]
    IN  [app |-> storeApp, ns |-> e.namespace[PrefixOf[app]], shared |-> sharedApps,
         legacy |-> IF storeApp = app THEN None ELSE app]

\* A redirect without a section name of its own goes to the section app.
for_app(app, sharedApps, e) ==
    LET storeApp == IF e.store_app[PrefixOf[app]] = None THEN app ELSE e.store_app[PrefixOf[app]]
        section  == e.namespace[PrefixOf[app]]
    IN  [app |-> storeApp,
         ns |-> IF section = None /\ storeApp # app THEN app ELSE section,
         shared |-> sharedApps,
         legacy |-> IF storeApp = app THEN None ELSE app]

\* _binding returns rather than raises.
Bound(cr) == /\ cr.app \in App
             /\ cr.ns \in Scope
             /\ \A i \in DOMAIN cr.shared : cr.shared[i] \in App

\* backend.get: a value, None, or an error.
BackendGet(app, ns, name) ==
    IF Loads(stores[app], ns)
    THEN [kind |-> "value", value |-> Lookup(Loaded(stores[app]), ns, name)]
    ELSE [kind |-> "error", why |-> "store"]

Unset      == [kind |-> "value", value |-> None]
Fails(why) == [kind |-> "error", why |-> why]

-----------------------------------------------------------------------------

Goto(t, p) == pc' = [pc EXCEPT ![t] = p]

Change == changes < MaxChanges /\ changes' = changes + 1

\* The call ends with r; require turns "unset everywhere" into an error.
Ends(t, r) ==
    /\ outcome' = [outcome EXCEPT ![t] =
                     IF r = Unset /\ call[t].kind = "require" THEN Fails("unset") ELSE r]
    /\ Goto(t, "return")

Stays(t) == UNCHANGED <<env, creds, call, calls, changes>>

Init ==
    /\ stores \in InitStores
    /\ env \in InitEnv
    /\ creds = [t \in Thread |-> None]
    /\ warned = [p \in Process |-> {}]
    /\ probes = [p \in Process |-> <<>>]
    /\ pc = [t \in Thread |-> "idle"]
    /\ call = [t \in Thread |-> None]
    /\ shared = [t \in Thread |-> <<>>]
    /\ outcome = [t \in Thread |-> None]
    /\ calls = 0 /\ changes = 0

\* Credentials(...) or Credentials.for_app(...): no store access, no validation.
Construct(t) ==
    /\ pc[t] = "idle" /\ creds[t] = None
    /\ \E b \in Bindings[t] :
         creds' = [creds EXCEPT ![t] =
                     IF b.embedded THEN for_app(b.app, b.shared, env[ProcOf[t]])
                     ELSE Credentials(b.app, b.ns, b.shared)]
    /\ UNCHANGED <<stores, env, warned, probes, pc, call, shared, outcome, calls, changes>>

FirstStep(r) == CASE r.kind \in {"secret", "require"} -> "override"
                  [] r.kind = "set"                   -> "check"
                  [] OTHER                            -> "bind"

Call(t) ==
    /\ pc[t] = "idle" /\ creds[t] # None
    /\ calls < MaxCalls /\ calls' = calls + 1
    /\ \E r \in Requests[t] :
         /\ call' = [call EXCEPT ![t] = r]
         /\ Goto(t, FirstStep(r))
    /\ UNCHANGED <<stores, env, creds, warned, probes, shared, outcome, changes>>

\* Tier 1: a blank override is no override.
Override(t) ==
    LET o == call[t].override
    IN  /\ pc[t] = "override"
        /\ IF o = NotStr THEN Ends(t, Fails("type"))
           ELSE IF o # None /\ Stripped[o] # None
                THEN Ends(t, [kind |-> "value", value |-> Stripped[o]])
                ELSE Goto(t, "env") /\ UNCHANGED outcome
        /\ Stays(t) /\ UNCHANGED <<stores, warned, probes, shared>>

\* Tier 2.
FromEnv(t) ==
    LET v == env_value(env[ProcOf[t]].secrets[call[t].name])
    IN  /\ pc[t] = "env"
        /\ IF v # None THEN Ends(t, [kind |-> "value", value |-> v])
           ELSE Goto(t, "bind") /\ UNCHANGED outcome
        /\ Stays(t) /\ UNCHANGED <<stores, warned, probes, shared>>

\* What set refuses before it needs the binding.
CheckSet(t) ==
    /\ pc[t] = "check"
    /\ IF call[t].name = BlankName THEN Ends(t, Fails("blank"))
       ELSE IF call[t].value = NotStr THEN Ends(t, Fails("type"))
       ELSE IF Stripped[call[t].value] = None THEN Ends(t, Fails("blank"))
       ELSE Goto(t, "bind") /\ UNCHANGED outcome
    /\ Stays(t) /\ UNCHANGED <<stores, warned, probes, shared>>

Bind(t) ==
    /\ pc[t] = "bind"
    /\ IF Bound(creds[t])
       THEN /\ Goto(t, "claim") /\ UNCHANGED outcome
            /\ shared' = [shared EXCEPT ![t] =
                            IF call[t].kind \in {"secret", "require"} THEN creds[t].shared ELSE <<>>]
       ELSE Ends(t, Fails("name")) /\ UNCHANGED shared
    /\ Stays(t) /\ UNCHANGED <<stores, warned, probes>>

\* Mutant: components redirected into one store share one warning.
WarnKeyOfStore(cr) == cr.app

\* The once-per-app guard goes by the component's own app.
WarnKey(cr) == cr.legacy

Armed(t) == creds[t].legacy # None /\ WarnKey(creds[t]) \notin warned[ProcOf[t]]

\* Mutant: the app is not recorded before its legacy store is read.
ClaimLate(t) ==
    /\ pc[t] = "claim"
    /\ Goto(t, IF Armed(t) THEN "probe" ELSE "tier")
    /\ Stays(t) /\ UNCHANGED <<stores, warned, probes, shared, outcome>>

\* Under _warn_lock: the app is claimed before its legacy store is read.
Claim(t) ==
    /\ pc[t] = "claim"
    /\ warned' = IF Armed(t)
                 THEN [warned EXCEPT ![ProcOf[t]] = @ \cup {WarnKey(creds[t])}] ELSE warned
    /\ Goto(t, IF Armed(t) THEN "probe" ELSE "tier")
    /\ Stays(t) /\ UNCHANGED <<stores, probes, shared, outcome>>

\* legacy.names() finds something.
Orphaned(app) == /\ app \in App
                 /\ Loads(stores[app], None)
                 /\ NamesOf(Loaded(stores[app]), None) # {}

\* The probe's result: "warned", "nothing", or "lost" with a swallowed failure.
Told(t, said) ==
    /\ pc[t] = "probe"
    /\ probes' = [probes EXCEPT ![ProcOf[t]] = Append(@, [app |-> creds[t].legacy, said |-> said])]

\* Mutant: a failing read of the legacy store fails the call.
ProbeRaises(t) ==
    LET old == creds[t].legacy
    IN  /\ Told(t, IF Orphaned(old) THEN "warned" ELSE "nothing")
        /\ IF Loads(stores[old], None) THEN Goto(t, "tier") /\ UNCHANGED outcome
           ELSE Ends(t, Fails("store"))
        /\ Stays(t) /\ UNCHANGED <<stores, warned, shared>>

\* A legacy store that is malformed or has a bad name says nothing.
Probe(t) ==
    /\ Told(t, IF Orphaned(creds[t].legacy) THEN "warned" ELSE "nothing")
    /\ Goto(t, "tier")
    /\ Stays(t) /\ UNCHANGED <<stores, warned, shared, outcome>>

\* names() or store_location() raises for a reason of its own, or a filter makes
\* the warning an error: swallowed, with the claim already spent.
ProbeFails(t) ==
    /\ Told(t, "lost")
    /\ Goto(t, "tier")
    /\ Change
    /\ UNCHANGED <<stores, env, creds, warned, call, shared, outcome, calls>>

\* Tier 3: the next shared store, at its own flat layout.
Shared(t) ==
    /\ pc[t] = "tier" /\ shared[t] # <<>>
    /\ LET r == BackendGet(Head(shared[t]), None, call[t].name)
       IN  IF r = Unset THEN UNCHANGED <<pc, outcome>> ELSE Ends(t, r)
    /\ shared' = [shared EXCEPT ![t] = Tail(@)]
    /\ Stays(t) /\ UNCHANGED <<stores, warned, probes>>

\* Tier 4, and names: the own store is read.
OwnRead(t) ==
    LET cr == creds[t]
    IN  /\ pc[t] = "tier" /\ shared[t] = <<>>
        /\ call[t].kind \notin {"set", "unset"}
        /\ Ends(t, IF call[t].kind # "names" THEN BackendGet(cr.app, cr.ns, call[t].name)
                   ELSE IF Loads(stores[cr.app], cr.ns)
                   THEN [kind |-> "names", names |-> NamesOf(Loaded(stores[cr.app]), cr.ns)]
                   ELSE Fails("store"))
        /\ Stays(t) /\ UNCHANGED <<stores, warned, probes, shared>>

\* What backend.set is given: the value stripped.
Operation(t) ==
    IF call[t].kind = "set"
    THEN [kind |-> "set", ns |-> creds[t].ns, name |-> call[t].name, value |-> Stripped[call[t].value]]
    ELSE [kind |-> "unset", ns |-> creds[t].ns, name |-> call[t].name]

\* backend.set or backend.unset on the own store.
OwnWrite(t) ==
    LET app == creds[t].app
        old == Loaded(stores[app])
    IN  /\ pc[t] = "tier" /\ call[t].kind \in {"set", "unset"}
        /\ IF ~Loads(stores[app], creds[t].ns)
           THEN Ends(t, Fails("store")) /\ UNCHANGED stores
           ELSE IF ~Writes(Operation(t), old) THEN Ends(t, Ok) /\ UNCHANGED stores
           ELSE IF ~serialize_store(Apply(Operation(t), old))
           THEN Ends(t, Fails("store")) /\ UNCHANGED stores
           ELSE /\ stores' = [stores EXCEPT ![app] = Apply(Operation(t), old)]
                /\ Ends(t, Ok)
        /\ Stays(t) /\ UNCHANGED <<warned, probes, shared>>

Return(t) ==
    /\ pc[t] = "return"
    /\ call' = [call EXCEPT ![t] = None]
    /\ shared' = [shared EXCEPT ![t] = <<>>]
    /\ outcome' = [outcome EXCEPT ![t] = None]
    /\ Goto(t, "idle")
    /\ UNCHANGED <<stores, env, creds, warned, probes, calls, changes>>

-----------------------------------------------------------------------------
(* What goes on around the callers *)

\* The host changes os.environ; a Credentials built before keeps its binding.
SetEnv(p) ==
    /\ Change
    /\ \E e \in Environments : env' = [env EXCEPT ![p] = e]
    /\ UNCHANGED <<stores, creds, warned, probes, pc, call, shared, outcome, calls>>

\* A store is edited by hand, damaged, or becomes unreadable.
EditStore ==
    /\ Change
    /\ \E a \in App, c \in Edits : stores' = [stores EXCEPT ![a] = c]
    /\ UNCHANGED <<env, creds, warned, probes, pc, call, shared, outcome, calls>>

Lookups(t) == \/ Override(t) \/ FromEnv(t) \/ CheckSet(t) \/ Bind(t) \/ Claim(t)
              \/ Probe(t) \/ ProbeFails(t) \/ Shared(t) \/ OwnRead(t) \/ OwnWrite(t)

Facade(t) == Construct(t) \/ Call(t) \/ Lookups(t) \/ Return(t)

Next == (\E t \in Thread : Facade(t)) \/ (\E p \in Process : SetEnv(p)) \/ EditStore

Spec == Init /\ [][Next]_rvars
=============================================================================
