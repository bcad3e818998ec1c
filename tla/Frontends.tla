------------------------------ MODULE Frontends ------------------------------
(***************************************************************************)
(* The two programs in front of the stores: git-credential-credbox, which  *)
(* git runs with get, store or erase, and the credbox command with get,    *)
(* set, unset and list.  Each run is a process that lives for one request. *)
(* Both work on the stores of Resolve beside the library's callers: store, *)
(* erase, set, unset, list and get --resolve go through a Credentials, the *)
(* two plain gets to the backend alone.                                    *)
(***************************************************************************)
EXTENDS Resolve

CONSTANTS
    Git, Cli,             \* the threads that run each program
    GitRequests, CliRequests,
    Encoded,              \* _host_to_segment of a host that is no valid segment
    Unwritable            \* names and values with a newline or NUL in them

\* The plain gets, once the host or app is known to be a valid segment.
GitGets == [kind : {"git_get"}, protocol : {r.protocol : r \in {q \in GitRequests : q.kind = "git_get"}},
            app : App, name : Name \cup {None}, sole : BOOLEAN]
CliGets == [kind : {"cli_get"}, app : App, ns : Scope, name : Name]

ASSUME FrontendAssumption ==
    /\ Git \cup Cli \subseteq Thread
    /\ None \notin GitRequests \cup CliRequests \cup GitGets \cup CliGets
    /\ \A r \in GitRequests : r.kind = "set" => r.name \in Name \cup {None} /\ r.value \in Value
    /\ \A r \in CliRequests : r.kind = "set" => r.name \in Name \cup {BlankName} /\ r.value \in Value
    /\ \A h \in DOMAIN Encoded : Encoded[h] \in App
    /\ \A r \in GitRequests : r.kind = "git_get" =>
         r.host \in App \cup DOMAIN Encoded \cup {None} /\ r.name \in Name \cup {None}
    /\ \A r \in CliRequests :
         IF r.kind = "cli_get"
         THEN r \in [kind : {"cli_get"}, app : Segment,
                     ns : Namespace \cup {BadSegment, None}, name : Name]
         ELSE r.kind \in {"secret", "require", "set", "unset", "names"}

_TLS_PROTOCOLS == {"https", "ftps"}

\* The app of a host: itself when it is a valid segment.
_host_to_segment(h) == IF h \in App THEN h ELSE Encoded[h]

Nothing == [kind |-> "nothing"]     \* git: empty stdout

\* Programs print what they print and leave stores alone.
Prints(t, r) == Ends(t, r) /\ UNCHANGED <<creds, call>>

Begins(t) == pc[t] = "idle" /\ calls < MaxCalls /\ calls' = calls + 1

\* A Credentials of its own, and the facade's steps for r.
Delegates(t, cr, r) ==
    /\ creds' = [creds EXCEPT ![t] = cr]
    /\ call' = [call EXCEPT ![t] = r]
    /\ Goto(t, FirstStep(r))
    /\ UNCHANGED outcome

Rest == UNCHANGED <<stores, env, warned, probes, shared, changes>>

Reads(t, p, r) ==
    /\ call' = [call EXCEPT ![t] = r]
    /\ Goto(t, p)
    /\ UNCHANGED <<creds, outcome>>

\* Prints nothing, as call r.
Declines(t, r) ==
    /\ call' = [call EXCEPT ![t] = r]
    /\ outcome' = [outcome EXCEPT ![t] = Nothing]
    /\ Goto(t, "return")
    /\ UNCHANGED creds

-----------------------------------------------------------------------------
(* git-credential-credbox *)

GitRead(r) == [kind |-> "git_get", protocol |-> r.protocol, name |-> r.name,
               app |-> _host_to_segment(r.host), sole |-> r.name = None]

\* Mutant: the protocol is not looked at.
GitStartGetAnyProtocol(t) ==
    /\ Begins(t)
    /\ \E r \in GitRequests :
         /\ r.kind = "git_get"
         /\ IF r.host = None
            THEN Declines(t, [r EXCEPT !.host = None])
            ELSE Reads(t, IF r.name = None THEN "git_names" ELSE "git_get", GitRead(r))
    /\ Rest

\* Only over TLS, only for a host; a missing user name is looked up first.
GitStartGet(t) ==
    /\ Begins(t)
    /\ \E r \in GitRequests :
         /\ r.kind = "git_get"
         /\ IF r.protocol \notin _TLS_PROTOCOLS \/ r.host = None
            THEN Declines(t, [r EXCEPT !.host = None])
            ELSE Reads(t, IF r.name = None THEN "git_names" ELSE "git_get", GitRead(r))
    /\ Rest

\* First contact: the sole stored name, if there is exactly one.
GitNames(t) ==
    LET c == stores[call[t].app]
    IN  /\ pc[t] = "git_names"
        /\ IF Loads(c, None) /\ \E n \in Name : NamesOf(Loaded(c), None) = {n}
           THEN /\ \E n \in NamesOf(Loaded(c), None) :
                     call' = [call EXCEPT ![t] = [@ EXCEPT !.name = n]]
                /\ Goto(t, "git_get") /\ UNCHANGED <<creds, outcome>>
           ELSE Prints(t, Nothing)
        /\ Rest /\ UNCHANGED calls

\* Not Credentials.secret: its environment tier knows no host.
StoreGet(t) == BackendGet(call[t].app, None, call[t].name)

\* The store is read, and nothing but the store; any error prints nothing.
GitGet(t) ==
    LET r == StoreGet(t)
    IN  /\ pc[t] = "git_get"
        /\ Prints(t, IF r.kind = "error" \/ r = Unset THEN Nothing
                     ELSE IF {call[t].name, r.value} \cap Unwritable # {} THEN Nothing
                     ELSE [kind |-> "reply", name |-> call[t].name, value |-> r.value])
        /\ Rest /\ UNCHANGED calls

\* store and erase: erase does not look at the password.
GitStartWrite(t) ==
    /\ Begins(t)
    /\ \E r \in GitRequests :
         /\ r.kind \in {"set", "unset"}
         /\ IF \/ r.host = None \/ r.name = None
               \/ r.kind = "set" /\ Stripped[r.value] = None
            THEN Declines(t, r)
            ELSE Delegates(t, Credentials(_host_to_segment(r.host), None, <<>>), r)
    /\ Rest

-----------------------------------------------------------------------------
(* credbox *)

\* --namespace, or CREDBOX_NAMESPACE: taken as it is, a blank one included.
CliNamespace(r, e) == IF r.ns = None THEN e.cli_namespace ELSE r.ns

\* get without --resolve leaves the facade out but validates as it would.
CliStart(t) ==
    /\ Begins(t)
    /\ \E r \in CliRequests :
         LET ns == CliNamespace(r, env[ProcOf[t]])
             cr == Credentials(r.app, ns, <<>>)
         IN  IF r.kind = "set" /\ Stripped[r.value] = None THEN Declines(t, r)
             ELSE IF r.kind = "cli_get"
             THEN IF Bound(cr) THEN Reads(t, "cli_get", [r EXCEPT !.ns = ns])
                  ELSE Declines(t, r)
             ELSE Delegates(t, cr, r)
    /\ Rest

CliGet(t) ==
    /\ pc[t] = "cli_get"
    /\ Prints(t, BackendGet(call[t].app, call[t].ns, call[t].name))
    /\ Rest /\ UNCHANGED calls

-----------------------------------------------------------------------------

\* Ctrl-C anywhere: caught at the top, nothing printed.
Interrupted(t) ==
    /\ pc[t] \notin {"idle", "return"}
    /\ Change
    /\ outcome' = [outcome EXCEPT ![t] = Nothing]
    /\ Goto(t, "return")
    /\ UNCHANGED <<stores, env, creds, warned, probes, call, shared, calls>>

\* The process ends with its request.
Exits(t) ==
    /\ pc[t] = "return"
    /\ call' = [call EXCEPT ![t] = None]
    /\ creds' = [creds EXCEPT ![t] = None]
    /\ shared' = [shared EXCEPT ![t] = <<>>]
    /\ outcome' = [outcome EXCEPT ![t] = None]
    /\ Goto(t, "idle")
    /\ UNCHANGED <<stores, env, warned, probes, calls, changes>>

Program(t) == Lookups(t) \/ Interrupted(t) \/ Exits(t)

FNext ==
    \/ \E t \in Thread \ (Git \cup Cli) : Facade(t)
    \/ \E t \in Git : \/ GitStartGet(t) \/ GitNames(t) \/ GitGet(t) \/ GitStartWrite(t)
                      \/ Program(t)
    \/ \E t \in Cli : CliStart(t) \/ CliGet(t) \/ Program(t)
    \/ \E p \in Process : SetEnv(p)
    \/ EditStore

FSpec == Init /\ [][FNext]_rvars
=============================================================================
