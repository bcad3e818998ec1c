--------------------------- MODULE ScrubProperties ---------------------------
(***************************************************************************)
(* What scrub_exception promises: nothing that the walk can reach keeps a  *)
(* secret, and no shape of the graph or of an argument, cyclic or shared,  *)
(* makes it loop or do more work than there are objects.                   *)
(***************************************************************************)
EXTENDS Scrub

\* Type correctness, and the depth limit: no container is looked into past
\* _MAX_CONTAINER_DEPTH, so the recursion never meets RecursionError.
ScrubTypeOK ==
    /\ order \in Orders
    /\ stack \in Seq(Err \cup {None}) /\ seen \subseteq Err /\ node \in seen \cup {None}
    /\ todo \in Seq(Box \cup Text) /\ visited \subseteq Box
    /\ \A i \in DOMAIN work : /\ work[i].value \in Box \cup Text
                              /\ work[i].depth \in 0 .. MaxDepth
    /\ pc \in {"pop", "args", "arg", "value", "fields", "links", "returned", "memory_error"}

\* The exceptions an exception leads to, of those whose accessor does not raise.
Successors(e) ==
    (UNION {Range(graph[l][e]) :
              l \in {k \in {"cause", "context", "exceptions"} : <<e, k>> \notin Broken}}) \ {None}

\* What stands in every set that holds the root and is closed under the links.
Reachable(e) ==
    \A closed \in SUBSET Err :
        (graph.root \in closed /\ \A x \in closed : Successors(x) \subseteq closed)
            => e \in closed

\* When scrub_exception returns, every exception reachable through causes,
\* contexts and group members has every field it could rewrite free of every
\* target, and of what a shorter target replaced first leaves of a longer one.
ScrubbedAll ==
    pc = "returned" =>
        \A e \in Err : Reachable(e) =>
            \A f \in Field : <<e, f>> \notin Broken => holds[e][f] = {}

\* What one argument still costs: the values pending, and the items of the
\* containers not expanded yet.
Cost == FoldSet(LAMBDA b, n : n + Len(graph.contents[b]), Len(work), Box \ visited)

\* Each value handled lowers the cost, so an argument takes no more steps than
\* there are items in its containers, however they are shared or nested.
WorkBounded == [][pc = "value" /\ pc' = "value" => Cost' < Cost]_svars

\* The walk ends, whatever cycles the exceptions and the containers form.
Terminates == <>(pc \in {"returned", "memory_error"})
=============================================================================
