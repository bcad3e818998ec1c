------------------------------ MODULE MCResolve ------------------------------
(* A host process with two component threads, and a process that runs git's    *)
(* helper or credbox on the same stores.                                       *)
EXTENDS ResolveProperties

CONSTANTS bad, nl, t1, t2, prog, lib, sh, host, c1, c2, auth, port, k, u, un, v1, v2, s, blank

MCProcOf   == [t \in {t1, t2, prog} |-> IF t = prog THEN sh ELSE lib]
MCStripped == [x \in {v1, v2, s, nl, blank} |-> IF x = blank THEN None ELSE x]
MCAuthor   == [x \in {v1, v2, s, nl, blank} |-> IF x = v1 THEN c1 ELSE IF x = v2 THEN c2 ELSE None]
MCPrefixOf == [a \in {host, c1, c2, auth, bad} |-> a]
MCEncoded  == [h \in {port} |-> auth]

Embedded(a, shs) == [embedded |-> TRUE, app |-> a, shared |-> shs]
MCBindings == [t \in {t1, t2, prog} |->
                 CASE t = t1 -> {Embedded(c1, <<auth>>)}
                   [] t = t2 -> {Embedded(c2, <<>>), Embedded(c1, <<>>),
                                 [embedded |-> FALSE, app |-> host, ns |-> None, shared |-> <<bad>>]}
                   [] OTHER  -> {}]

Secret(kind, o)  == [kind |-> kind, name |-> k, override |-> o]
Set(x)           == [kind |-> "set", name |-> k, value |-> x]
MCRequests == [t \in {t1, t2, prog} |->
                 CASE t = t1 -> {Secret("secret", None), Set(v1)}
                   [] t = t2 -> {Secret("require", blank), Set(s), [kind |-> "unset", name |-> k],
                                 [kind |-> "names"], Secret("secret", NotStr), Set(blank)}
                   [] OTHER  -> {}]

GitReq(p, h, n) == [kind |-> "git_get", protocol |-> p, host |-> h, name |-> n]
MCGitRequests == {GitReq("https", auth, k), GitReq("https", port, None), GitReq("http", auth, k),
                  [kind |-> "set", host |-> auth, name |-> u, value |-> s],
                  [kind |-> "unset", host |-> auth, name |-> k]}
MCCliRequests == {[kind |-> "cli_get", app |-> host, ns |-> None, name |-> k],
                  [kind |-> "set", app |-> c1, ns |-> None, name |-> k, value |-> s]}

\* Where the components go, what the environment has for k, CREDBOX_NAMESPACE.
E(r1, r2, n1, x, cli) ==
    [store_app |-> [a \in {host, c1, c2, auth, bad} |-> IF a = c1 THEN r1 ELSE IF a = c2 THEN r2 ELSE None],
     namespace |-> [a \in {host, c1, c2, auth, bad} |-> IF a = c1 THEN n1 ELSE None],
     secrets   |-> [n \in {k, u, un} |-> IF n = k THEN x ELSE None],
     cli_namespace |-> cli]
MCEnvironments == {E(host, host, None, blank, None), E(None, c1, None, None, None),
                   E(bad, None, None, s, None)}
MCInitEnv == {[p \in {lib, sh} |-> IF p = lib THEN e ELSE E(None, None, None, s, c1)] :
                e \in MCEnvironments}

One(n, x) == [m \in {n} |-> x]
Stores(h, a1, a2, au) == [a \in {host, c1, c2, auth} |->
                            CASE a = host -> h [] a = c1 -> a1 [] a = c2 -> a2 [] OTHER -> au]
MCInitStores == {Stores(Absent, One(k, v1), One(k, v2), Absent),
                 Stores([n \in {c1} |-> One(k, v1)], Malformed, Absent, One(k, s))}
MCEdits == {One(k, blank), One(k, nl), One(un, s), Malformed}
=============================================================================
