-------------------------------- MODULE Scrub --------------------------------
(***************************************************************************)
(* scrub_exception: walk an exception, its causes, contexts and group      *)
(* members, and rewrite in each the arguments, the URLs and the notes with *)
(* every form of every secret redacted.  The graph of exceptions and the   *)
(* containers inside arguments may be cyclic and shared, and any attribute *)
(* access may raise, which the walk swallows, or run out of memory, which  *)
(* it does not.                                                            *)
(*                                                                         *)
(* Every text holds every target, the worst case: of a text the model      *)
(* keeps which targets stand in it, and what an ill-ordered replacement    *)
(* has left of one.                                                        *)
(***************************************************************************)
EXTENDS Naturals, Sequences, FiniteSets, SequencesExt

CONSTANTS
    Err,             \* exception objects
    Box, Text,       \* containers and strings found in arguments
    Target,          \* forms of the secrets to redact: raw and URL-encoded
    Length, Within,  \* a target's length, and the targets that are part of it
    Graph,           \* exception graphs: cause, context, members, args, contents
    Broken,          \* <<e, attribute>> whose accessor or setter raises
    MaxDepth,        \* _MAX_CONTAINER_DEPTH
    None

Field == {"args", "url", "request.url", "response.url", "notes"}

ASSUME ScrubAssumption ==
    /\ IsFiniteSet(Target)
    /\ Length \in [Target -> Nat] /\ Within \in [Target -> SUBSET Target]
    /\ \A t \in Target : \A s \in Within[t] : Length[s] < Length[t]
    /\ None \notin Err /\ Box \cap Text = {} /\ MaxDepth \in Nat
    /\ \A g \in Graph :
         /\ g.root \in Err
         /\ \A e \in Err, l \in {"cause", "context", "exceptions"} : g[l][e] \in Seq(Err \cup {None})
         /\ \A e \in Err : g.args[e] \in Seq(Box \cup Text)
         /\ \A b \in Box : g.contents[b] \in Seq(Box \cup Text)

VARIABLES
    graph,            \* the objects walked: given, and not changed
    order,            \* the targets in the order they are replaced
    stack, seen,      \* exceptions still to visit; visited
    node,             \* the one being scrubbed
    todo,             \* its arguments still to scrub
    work, visited,    \* containers of one argument: pending, expanded
    made,             \* what the rewritten arguments so far hold of targets
    holds,            \* what each field of each exception holds of targets
    pc

svars == <<graph, order, stack, seen, node, todo, work, visited, made, holds, pc>>

-----------------------------------------------------------------------------
(* Text *)

\* What is left of a longer target when a part of it was replaced first.
Torn(t) == [torn |-> t]

\* A torn form is no form of a secret: it is never replaced again.
ASSUME TornAssumption == \A t \in Target : Torn(t) \notin Target

Replace(pieces, t) ==
    {IF p \in Target /\ t \in Within[p] THEN Torn(p) ELSE p : p \in pieces \ {t}}

\* The targets one after the other.
_replace_targets(pieces) ==
    LET after[k \in 0 .. Len(order)] ==
          IF k = 0 THEN pieces ELSE Replace(after[k - 1], order[k])
    IN  after[Len(order)]

Redacted == _replace_targets(Target)

\* _redaction_targets: longest first, those of one length in any order.
Orders == {f \in [1 .. Cardinality(Target) -> Target] :
             /\ Target = {f[i] : i \in DOMAIN f}
             /\ \A i, j \in DOMAIN f : i < j => Length[f[i]] >= Length[f[j]]}

-----------------------------------------------------------------------------

Init ==
    /\ graph \in Graph
    /\ order \in Orders
    /\ stack = <<graph.root>>
    /\ seen = {}
    /\ node = None
    /\ todo = <<>> /\ work = <<>> /\ visited = {} /\ made = {}
    /\ holds = [e \in Err |-> [f \in Field |->
                 IF f = "args" /\ graph.args[e] = <<>> THEN {} ELSE Target]]
    /\ pc = "pop"

Given == UNCHANGED <<graph, order>>

\* Mutant: the walk does not remember what it has visited.
PopAgain ==
    /\ pc = "pop" /\ stack # <<>>
    /\ stack' = Front(stack)
    /\ LET e == Last(stack)
       IN  IF e = None
           THEN UNCHANGED <<seen, node, pc>>
           ELSE seen' = seen \cup {e} /\ node' = e /\ pc' = "args"
    /\ Given /\ UNCHANGED <<todo, work, visited, made, holds>>

Pop ==
    /\ pc = "pop" /\ stack # <<>>
    /\ stack' = Front(stack)
    /\ LET e == Last(stack)
       IN  IF e = None \/ e \in seen
           THEN UNCHANGED <<seen, node, pc>>
           ELSE seen' = seen \cup {e} /\ node' = e /\ pc' = "args"
    /\ Given /\ UNCHANGED <<todo, work, visited, made, holds>>

Finish ==
    /\ pc = "pop" /\ stack = <<>>
    /\ pc' = "returned"
    /\ Given /\ UNCHANGED <<stack, seen, node, todo, work, visited, made, holds>>

-----------------------------------------------------------------------------
(* _scrub_node: the arguments *)

\* node.args raises, or is empty: nothing is rewritten.
SkipArgs ==
    /\ pc = "args"
    /\ <<node, "args">> \in Broken \/ graph.args[node] = <<>>
    /\ pc' = "fields"
    /\ Given /\ UNCHANGED <<stack, seen, node, todo, work, visited, made, holds>>

StartArgs ==
    /\ pc = "args"
    /\ <<node, "args">> \notin Broken /\ graph.args[node] # <<>>
    /\ todo' = graph.args[node]
    /\ made' = {}
    /\ pc' = "arg"
    /\ Given /\ UNCHANGED <<stack, seen, node, work, visited, holds>>

\* One argument: its walk has a `seen` of its own.
NextArg ==
    /\ pc = "arg" /\ todo # <<>>
    /\ work' = <<[value |-> Head(todo), depth |-> 0]>>
    /\ visited' = {}
    /\ todo' = Tail(todo)
    /\ pc' = "value"
    /\ Given /\ UNCHANGED <<stack, seen, node, made, holds>>

\* node.args = tuple(...)
AssignArgs ==
    /\ pc = "arg" /\ todo = <<>>
    /\ holds' = [holds EXCEPT ![node]["args"] = made]
    /\ pc' = "fields"
    /\ Given /\ UNCHANGED <<stack, seen, node, todo, work, visited, made>>

\* Mutant: the depth limit alone ends the recursion.
CollapsesByDepth(w) == w.depth >= MaxDepth

\* Mutant: only a container met before ends the recursion.
CollapsesBySeen(w) == w.value \in visited

\* A container too deep, or met before in this argument, becomes "***".
Collapses(w) == w.depth >= MaxDepth \/ w.value \in visited

Children(w) == [i \in DOMAIN graph.contents[w.value] |->
                  [value |-> graph.contents[w.value][i], depth |-> w.depth + 1]]

\* _scrub_value on the next value, in the order the recursion reaches it.
_scrub_value ==
    LET w == Head(work)
    IN  /\ pc = "value" /\ work # <<>>
        /\ IF w.value \in Text
           THEN made' = made \cup Redacted /\ work' = Tail(work) /\ UNCHANGED visited
           ELSE IF Collapses(w)
           THEN work' = Tail(work) /\ UNCHANGED <<visited, made>>
           ELSE /\ visited' = visited \cup {w.value}
                /\ work' = Children(w) \o Tail(work)
                /\ UNCHANGED made
        /\ Given /\ UNCHANGED <<stack, seen, node, todo, holds, pc>>

ArgDone ==
    /\ pc = "value" /\ work = <<>>
    /\ pc' = "arg"
    /\ Given /\ UNCHANGED <<stack, seen, node, todo, work, visited, made, holds>>

-----------------------------------------------------------------------------
(* _scrub_node: the other fields; then the links *)

\* Each is guarded by itself: one that raises is left, the others are rewritten.
Fields ==
    /\ pc = "fields"
    /\ holds' = [holds EXCEPT ![node] =
                   [f \in Field |-> IF f = "args" \/ <<node, f>> \in Broken THEN @[f] ELSE Redacted]]
    /\ pc' = "links"
    /\ Given /\ UNCHANGED <<stack, seen, node, todo, work, visited, made>>

\* Mutant: the members of a group are not walked.
ReachedMembersNot(e, attribute) ==
    IF <<e, attribute>> \in Broken \/ attribute = "exceptions" THEN <<>>
    ELSE graph[attribute][e]

\* What an exception links to, nothing when the accessor raises.
Reached(e, attribute) == IF <<e, attribute>> \in Broken THEN <<>> ELSE graph[attribute][e]

PushLinks ==
    /\ pc = "links"
    /\ stack' = stack \o Reached(node, "cause") \o Reached(node, "context")
                      \o Reached(node, "exceptions")
    /\ pc' = "pop"
    /\ Given /\ UNCHANGED <<seen, node, todo, work, visited, made, holds>>

\* Any access can exhaust memory: the error leaves, nothing is passed off as scrubbed.
OutOfMemory ==
    /\ pc \in {"args", "arg", "value", "fields", "links"}
    /\ pc' = "memory_error"
    /\ Given /\ UNCHANGED <<stack, seen, node, todo, work, visited, made, holds>>

-----------------------------------------------------------------------------

Walk == \/ Pop \/ Finish \/ SkipArgs \/ StartArgs \/ NextArg \/ AssignArgs
        \/ _scrub_value \/ ArgDone \/ Fields \/ PushLinks

Next == Walk \/ OutOfMemory

Spec == Init /\ [][Next]_svars
FairSpec == Spec /\ WF_svars(Walk)
=============================================================================
