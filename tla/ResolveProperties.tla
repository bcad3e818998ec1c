-------------------------- MODULE ResolveProperties --------------------------
(***************************************************************************)
(* What resolution owes its callers while others write the stores, edit    *)
(* them by hand and change the environment.  Two history variables record  *)
(* what each call could have seen, and which stores have never been empty. *)
(***************************************************************************)
EXTENDS Frontends

CONSTANT Author    \* the component a value is stored by, None when by anyone

\* Content c of app's store holds what app stored, and in a section what its
\* component did.
Authored(app, c) ==
    \A ns \in Scope : parse_store(c, ns) =>
        \A n \in NamesOf(c, ns) : Author[Section(c, ns)[n]] \in {app, ns, None}

\* A label goes with what a component itself asks to store.
ASSUME AuthorAssumption ==
    /\ \A v \in Value : Stripped[v] # None => Author[Stripped[v]] = Author[v]
    /\ \A t \in Thread : \A b \in Bindings[t], r \in Requests[t] :
         r.kind = "set" /\ r.value \in Value => Author[r.value] \in {b.app, None}
    /\ \A r \in GitRequests :
         r.kind = "set" /\ r.host # None => Author[r.value] \in {_host_to_segment(r.host), None}
    /\ \A r \in CliRequests : r.kind = "set" => Author[r.value] \in {r.app, None}
    /\ \A s \in InitStores : s = [a \in App |-> s[a]] /\ \A a \in App : Authored(a, s[a])
    /\ \A a \in App, c \in Edits : Authored(a, c)

VARIABLES
    seen,    \* per call: what each place it may look in has held since it began
    kept     \* the apps whose flat store has held a name ever since the start

hvars == <<rvars, seen, kept>>

\* The value of a store tier, or "fault" when consulting it is an error.
StoreTier(cr, app, ns, name) ==
    IF ~Bound(cr) \/ ~Loads(stores[app], ns) THEN "fault"
    ELSE Lookup(Loaded(stores[app]), ns, name)

Clean(o) == IF o = NotStr THEN "fault" ELSE env_value(o)

IsLookup(r) == r # None /\ r.kind \in {"secret", "require"}

\* Where call[t] may look, in order, and what is there now.
Sources(t) ==
    IF IsLookup(call[t])
    THEN <<Clean(call[t].override), env_value(env[ProcOf[t]].secrets[call[t].name])>>
         \o [i \in DOMAIN creds[t].shared |->
               StoreTier(creds[t], creds[t].shared[i], None, call[t].name)]
         \o <<StoreTier(creds[t], creds[t].app, creds[t].ns, call[t].name)>>
    ELSE IF call[t] # None /\ call[t].kind \in {"git_get", "cli_get"} /\ pc[t] # "return"
    THEN <<stores[call[t].app]>>
    ELSE <<>>

\* The history of a call grows from its first step to its answer.
Watched(t) ==
    LET now == Sources(t)'
    IN  IF pc'[t] = "idle" THEN <<>>
        ELSE IF pc[t] = "return" \/ (pc'[t] = "return" /\ ~IsLookup(call[t])) THEN seen[t]
        ELSE [i \in DOMAIN now |-> {now[i]} \cup (IF i \in DOMAIN seen[t] THEN seen[t][i] ELSE {})]

HInit == Init /\ seen = [t \in Thread |-> <<>>] /\ kept = {a \in App : Orphaned(a)}
HNext == /\ FNext
         /\ seen' = [t \in Thread |-> Watched(t)]
         /\ kept' = {a \in kept : Orphaned(a)'}
HSpec == HInit /\ [][HNext]_hvars

-----------------------------------------------------------------------------

\* Override, environment, shared stores, own store: a value comes from the first
\* that has one, so each before it was unset at some instant of the call; "unset"
\* needs each to have been unset, and an error a tier that is really faulty with
\* all before it unset.  No later tier, and no legacy store, can fail a lookup.
FirstTierDecides ==
    \A t \in Thread :
        LET r == outcome[t]
            Reached(i) == \A j \in 1 .. i - 1 : None \in seen[t][j]
        IN  pc[t] = "return" /\ IsLookup(call[t]) /\ r # Nothing =>
              IF r = Unset \/ r = Fails("unset") THEN Reached(Len(seen[t]) + 1)
              ELSE \E i \in DOMAIN seen[t] :
                     /\ Reached(i)
                     /\ IF r.kind = "value" THEN r.value \in seen[t][i] ELSE "fault" \in seen[t][i]

\* Components that a host redirects into one store by STORE_APP alone never get
\* each other's secrets from it: what one of them stored, no other is answered.
ComponentsApart ==
    \A t \in Thread :
        (/\ pc[t] = "return" /\ IsLookup(call[t])
         /\ outcome[t].kind = "value" /\ outcome[t] # Unset
         /\ \A i \in 1 .. Len(seen[t]) - 1 : outcome[t].value \notin seen[t][i])
            => Author[outcome[t].value] \in {creds[t].app, creds[t].ns, None}

\* A legacy store is read at most once per app and process, threads included.
ProbedOnce ==
    \A p \in Process : \A i, j \in DOMAIN probes[p] : probes[p][i].app = probes[p][j].app => i = j

\* A component whose former store has held secrets throughout is not told "not
\* set", nor sees a write succeed elsewhere, before its process has looked there
\* and warned, is just doing so, or lost the warning to a failure it swallows
\* (the warning is best-effort): it is never skipped, nor taken for another's.
OrphanAnnounced ==
    \A t \in Thread :
        /\ pc[t] = "return" /\ creds[t] # None /\ creds[t].legacy \in kept
        /\ \/ outcome[t] \in {Unset, Fails("unset"), Ok}
           \/ outcome[t].kind = "names"
        => \/ \E i \in DOMAIN probes[ProcOf[t]] :
                 /\ probes[ProcOf[t]][i].app = creds[t].legacy
                 /\ probes[ProcOf[t]][i].said \in {"warned", "lost"}
           \/ \E u \in Thread : /\ ProcOf[u] = ProcOf[t] /\ pc[u] = "probe"
                                /\ creds[u].legacy = creds[t].legacy

\* The plain gets answer from the store of the host or app they were asked about
\* and never from the environment: git is answered over TLS only and with what
\* its line protocol can carry, a reply names a user that store held with that
\* password during the call, and a user git did not name was at some instant the
\* only one.
StoreOnlyGets ==
    \A t \in Git \cup Cli :
        pc[t] = "return" /\ call[t].kind \in {"git_get", "cli_get"}
        /\ outcome[t].kind \in {"reply", "value"} /\ outcome[t] # Unset =>
            LET r  == call[t]
                ns == IF r.kind = "cli_get" THEN r.ns ELSE None
            IN  /\ Len(seen[t]) = 1
                /\ \E c \in seen[t][1] : Loads(c, ns) /\ Lookup(Loaded(c), ns, r.name) = outcome[t].value
                /\ r.kind = "git_get" =>
                     r.protocol \in {"https", "ftps"} /\ {r.name, outcome[t].value} \cap Unwritable = {}
                /\ (r.kind = "git_get" /\ r.sole) =>
                     \E c \in seen[t][1] : Loads(c, None) /\ NamesOf(Loaded(c), None) = {r.name}
=============================================================================
