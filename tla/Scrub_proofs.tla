----------------------------- MODULE Scrub_proofs -----------------------------
(***************************************************************************)
(* Scrubbing, for exception graphs and arguments of any shape and any set  *)
(* of secrets: the walk stays in bounds, the order of the replacements     *)
(* leaves nothing of any secret in a text, and when scrub_exception        *)
(* returns nothing reachable holds one.                                    *)
(***************************************************************************)
EXTENDS ScrubProperties, FiniteSetTheorems, SequenceTheorems, WellFoundedInduction, TLAPS

\* m is less than n, as a relation.
Below == {p \in Nat \X Nat : p[1] < p[2]}

\* It has no infinite descent.
LEMMA BelowWellFounded == IsWellFoundedOn(Below, Nat)
PROOF
<1>1. OpToRel(<, Nat) = Below
  BY DEF OpToRel, Below
<1> QED BY <1>1, NatLessThanWellFounded

\* A set of naturals has a least element: what follows argues by the least
\* index at which two descriptions of a replacement differ.
LEMMA LeastNatural ==
    ASSUME NEW T \in SUBSET Nat, T # {}
    PROVE  \E n \in T : \A m \in T : n <= m
PROOF
<1>1. PICK n \in T : \A m \in T : <<m, n>> \notin Below
  BY BelowWellFounded, WFMin
<1>2. \A m \in T : m \in Nat /\ n \in Nat /\ ~(m < n)
  BY <1>1 DEF Below
<1>3. \A m \in T : n <= m
  BY <1>2
<1> QED BY <1>3

-----------------------------------------------------------------------------
(* The replacements *)

\* The targets replaced in the first k steps of order o ...
Gone(o, k) == {o[i] : i \in 1 .. k}

\* ... and what is left of a text that held every target.
LeftAfter(o, k) ==
    {u \in Target : u \notin Gone(o, k) /\ Within[u] \cap Gone(o, k) = {}}
      \cup {Torn(u) : u \in {w \in Target : w \notin Gone(o, k) /\ Within[w] \cap Gone(o, k) # {}}}

\* The definition of _replace_targets, for a given order.
AfterEach(o, pieces) ==
    CHOOSE after : after = [k \in 0 .. Len(o) |->
                              IF k = 0 THEN pieces ELSE Replace(after[k - 1], o[k])]

\* An order names every target, and a part of a target after the target.
LEMMA OrderFacts ==
    ASSUME NEW o \in Orders
    PROVE  /\ Len(o) \in Nat /\ DOMAIN o = 1 .. Len(o)
           /\ Target = Gone(o, Len(o))
           /\ \A i, j \in 1 .. Len(o) : o[i] \in Within[o[j]] => j < i
PROOF
<1>1. Cardinality(Target) \in Nat
  BY FS_CardinalityType, ScrubAssumption
<1>2. PICK n \in Nat : n = Cardinality(Target)
  BY <1>1
<1>3. /\ o \in [1 .. n -> Target] /\ Target = {o[i] : i \in DOMAIN o}
      /\ \A i, j \in DOMAIN o : i < j => Length[o[i]] >= Length[o[j]]
  BY <1>2 DEF Orders
<1>4. o \in Seq(Target) /\ Len(o) = n
  BY <1>3
<1>5. ASSUME NEW i \in 1 .. n, NEW j \in 1 .. n, o[i] \in Within[o[j]]
      PROVE  j < i
  <2>1. /\ o[i] \in Target /\ o[j] \in Target
        /\ Length[o[i]] \in Nat /\ Length[o[j]] \in Nat
        /\ Length[o[i]] < Length[o[j]]
    BY <1>3, <1>5, ScrubAssumption
  <2>2. ~(i < j) /\ i # j
    <3>1. i \in DOMAIN o /\ j \in DOMAIN o
      BY <1>3
    <3>2. i < j => Length[o[i]] >= Length[o[j]]
      BY <1>3, <3>1
    <3>3. PICK a \in Nat, b \in Nat : a = Length[o[i]] /\ b = Length[o[j]]
      BY <2>1
    <3> QED BY <2>1, <3>2, <3>3
  <2> QED BY <2>2
<1> QED BY <1>2, <1>3, <1>4, <1>5 DEF Gone

\* One replacement does what the description says.
LEMMA OneReplacement ==
    ASSUME NEW o \in Orders, NEW k \in 1 .. Len(o)
    PROVE  Replace(LeftAfter(o, k - 1), o[k]) = LeftAfter(o, k)
PROOF
<1> DEFINE t == o[k]
           G == Gone(o, k - 1)
           H == Gone(o, k)
<1>1. /\ Len(o) \in Nat /\ DOMAIN o = 1 .. Len(o)
      /\ \A i, j \in 1 .. Len(o) : o[i] \in Within[o[j]] => j < i
      /\ t \in Target
  BY OrderFacts DEF Gone
<1>2. H = G \cup {t}
  BY <1>1 DEF Gone
<1>3. Within[t] \cap G = {}
  <2> SUFFICES ASSUME NEW x \in Within[t], x \in G PROVE FALSE
    OBVIOUS
  <2>1. PICK i \in 1 .. k - 1 : x = o[i]
    BY DEF Gone
  <2>2. i \in 1 .. Len(o) /\ i < k
    BY <1>1, <2>1
  <2> QED BY <1>1, <2>1, <2>2
<1>4. t \notin Within[t]
  BY <1>1
<1> HIDE DEF G, H, t
<1>5. PICK L : L = LeftAfter(o, k - 1)
  OBVIOUS
<1>6. L = {u \in Target : u \notin G /\ Within[u] \cap G = {}}
            \cup {Torn(u) : u \in {w \in Target : w \notin G /\ Within[w] \cap G # {}}}
  BY <1>5 DEF LeftAfter, G
<1>7. \A u \in Target : u \in L <=> u \notin G /\ Within[u] \cap G = {}
  BY <1>6, TornAssumption
<1>8. \A p \in L : p \notin Target =>
        \E u \in Target : p = Torn(u) /\ u \notin G /\ Within[u] \cap G # {}
  BY <1>6
<1>9. PICK R : R = {IF p \in Target /\ t \in Within[p] THEN Torn(p) ELSE p : p \in L \ {t}}
  OBVIOUS
<1>10. PICK M : /\ M = LeftAfter(o, k)
                /\ M = {u \in Target : u \notin H /\ Within[u] \cap H = {}}
                         \cup {Torn(u) : u \in {w \in Target : w \notin H /\ Within[w] \cap H # {}}}
  BY DEF LeftAfter, H
<1>11. ASSUME NEW x \in R PROVE x \in M
  <2>1. PICK p \in L \ {t} : x = IF p \in Target /\ t \in Within[p] THEN Torn(p) ELSE p
    BY <1>9, <1>11
  <2>2. CASE p \in Target /\ t \in Within[p]
    <3>1. p \notin H /\ Within[p] \cap H # {}
      BY <1>2, <1>7, <2>1, <2>2
    <3> QED BY <1>10, <2>1, <2>2, <3>1
  <2>3. CASE p \in Target /\ t \notin Within[p]
    <3>1. p \notin H /\ Within[p] \cap H = {}
      BY <1>2, <1>7, <2>1, <2>3
    <3> QED BY <1>10, <2>1, <2>3, <3>1
  <2>4. CASE p \notin Target
    <3>1. PICK u \in Target : p = Torn(u) /\ u \notin G /\ Within[u] \cap G # {}
      BY <1>8, <2>1, <2>4
    <3>2. u \notin H /\ Within[u] \cap H # {}
      BY <1>2, <1>3, <3>1
    <3> QED BY <1>10, <2>1, <2>4, <3>1, <3>2
  <2> QED BY <2>2, <2>3, <2>4
<1>12. ASSUME NEW x \in M PROVE x \in R
  <2>1. CASE x \in Target /\ x \notin H /\ Within[x] \cap H = {}
    <3>1. x \in L \ {t} /\ t \notin Within[x]
      BY <1>2, <1>7, <2>1
    <3> QED BY <1>9, <3>1
  <2>2. CASE \E u \in Target : x = Torn(u) /\ u \notin H /\ Within[u] \cap H # {}
    <3>1. PICK u \in Target : x = Torn(u) /\ u \notin H /\ Within[u] \cap H # {}
      BY <2>2
    <3>2. CASE Within[u] \cap G # {}
      <4>1. x \in L /\ x \notin Target /\ x # t
        BY <1>1, <1>2, <1>6, <3>1, <3>2, TornAssumption DEF t
      <4> QED BY <1>9, <4>1
    <3>3. CASE Within[u] \cap G = {}
      <4>1. u \in L \ {t} /\ t \in Within[u]
        BY <1>2, <1>7, <3>1, <3>3
      <4> QED BY <1>9, <3>1, <4>1
    <3> QED BY <3>2, <3>3
  <2> QED BY <1>10, <1>12, <2>1, <2>2
<1>13. R = M
  BY <1>11, <1>12
<1> QED BY <1>5, <1>9, <1>10, <1>13 DEF Replace, t

\* All replacements, longest target first, leave nothing: neither a target nor
\* what a shorter one would have torn from it (_replace_targets).
THEOREM NothingIsLeft ==
    ASSUME order \in Orders
    PROVE  Redacted = {}
PROOF
<1>1. PICK o \in Orders : o = order
  OBVIOUS
<1>2. PICK n \in Nat : n = Len(o)
  BY OrderFacts
<1>3. PICK A : A = AfterEach(o, Target)
  OBVIOUS
<1>4. Redacted = A[n]
  BY <1>1, <1>2, <1>3 DEF Redacted, _replace_targets, AfterEach
<1>5. /\ LeftAfter(o, 0) = Target /\ LeftAfter(o, n) = {}
      /\ \A k \in 1 .. n : Replace(LeftAfter(o, k - 1), o[k]) = LeftAfter(o, k)
  <2>1. Gone(o, 0) = {} /\ Gone(o, n) = Target
    BY <1>2, OrderFacts DEF Gone
  <2>2. LeftAfter(o, 0) = Target
    BY <2>1 DEF LeftAfter
  <2>3. LeftAfter(o, n) = {}
    BY <2>1 DEF LeftAfter
  <2> QED BY <1>2, <2>2, <2>3, OneReplacement
<1>6. PICK F : F = [k \in 0 .. n |-> LeftAfter(o, k)]
  OBVIOUS
<1>7. F = [k \in 0 .. n |-> IF k = 0 THEN Target ELSE Replace(F[k - 1], o[k])]
  <2>1. \A k \in 1 .. n : k - 1 \in 0 .. n /\ F[k - 1] = LeftAfter(o, k - 1)
    BY <1>6
  <2>2. \A k \in 0 .. n : F[k] = IF k = 0 THEN Target ELSE Replace(F[k - 1], o[k])
    BY <1>5, <1>6, <2>1
  <2> QED BY <1>6, <2>2
<1>8. A = [k \in 0 .. n |-> IF k = 0 THEN Target ELSE Replace(A[k - 1], o[k])]
  BY <1>2, <1>3, <1>7 DEF AfterEach
<1>9. \A k \in 0 .. n : A[k] = F[k]
  <2> DEFINE T == {k \in 0 .. n : A[k] # F[k]}
  <2> SUFFICES ASSUME T # {} PROVE FALSE
    OBVIOUS
  <2>1. PICK k \in T : \A m \in T : k <= m
    <3>1. T \in SUBSET Nat
      OBVIOUS
    <3> HIDE DEF T
    <3> QED BY <3>1, LeastNatural
  <2>2. k # 0
    BY <1>7, <1>8, <2>1
  <2>3. k - 1 \in 0 .. n /\ k - 1 \notin T
    BY <2>1, <2>2
  <2>4. PICK x : x = A[k - 1] /\ x = F[k - 1]
    BY <2>3
  <2>5. A[k] = Replace(x, o[k]) /\ F[k] = Replace(x, o[k])
    BY <1>7, <1>8, <2>1, <2>2, <2>4
  <2> QED BY <2>1, <2>5
<1> QED BY <1>4, <1>5, <1>6, <1>9

-----------------------------------------------------------------------------
(* The walk *)

\* What is on the stack.
Pending == Range(stack)

\* The walk is busy with node.
Busy == pc \in {"args", "arg", "value", "fields", "links"}

Work == [value : Box \cup Text, depth : 0 .. MaxDepth]

\* Every field of e that could be rewritten is free of secrets.
Clean(e) == \A f \in Field : <<e, f>> \notin Broken => holds[e][f] = {}

Typed ==
    /\ ScrubTypeOK
    /\ graph \in Graph
    /\ work \in Seq(Work)
    /\ holds = [e \in Err |-> [f \in Field |-> holds[e][f]]]
    /\ Busy => node \in seen

\* The visited exceptions are clean and lead to visited or pending ones.
Progress ==
    pc # "memory_error" =>
        /\ graph.root \in seen \cup Pending
        /\ \A e \in seen : ~(Busy /\ e = node) =>
             Clean(e) /\ Successors(e) \subseteq seen \cup Pending
        /\ \A e \in Err : graph.args[e] = <<>> => holds[e]["args"] = {}
        /\ pc \in {"arg", "value"} => made = {}
        /\ pc = "fields" /\ <<node, "args">> \notin Broken => holds[node]["args"] = {}
        /\ pc = "links" => Clean(node)
        /\ pc = "returned" => stack = <<>>

SInv == Typed /\ Progress

\* Popping takes one exception off the stack.
LEMMA Popped ==
    ASSUME NEW S, NEW s \in Seq(S), s # <<>>
    PROVE  /\ Front(s) \in Seq(S) /\ Last(s) \in S
           /\ Range(s) = Range(Front(s)) \cup {Last(s)}
PROOF
<1>1. PICK n \in Nat : n = Len(s) /\ n > 0
  OBVIOUS
<1>2. PICK f : f = Front(s)
  OBVIOUS
<1>3. /\ f \in Seq(S) /\ Len(f) = n - 1
      /\ \A i \in 1 .. n - 1 : f[i] = s[i]
  BY <1>1, <1>2 DEF Front
<1>4. \A i \in 1 .. n : i = n \/ i \in 1 .. n - 1
  BY <1>1
<1>5. Last(s) = s[n] /\ n \in 1 .. n
  BY <1>1 DEF Last
<1>6. DOMAIN f = 1 .. n - 1 /\ DOMAIN s = 1 .. n /\ \A i \in 1 .. n - 1 : i \in 1 .. n
  BY <1>1, <1>3
<1> QED BY <1>2, <1>3, <1>4, <1>5, <1>6 DEF Range

\* Pushing adds what is pushed.
LEMMA Pushed ==
    ASSUME NEW S, NEW s \in Seq(S), NEW r \in Seq(S)
    PROVE  /\ s \o r \in Seq(S)
           /\ Range(s \o r) = Range(s) \cup Range(r)
PROOF
<1>1. PICK n \in Nat, m \in Nat : n = Len(s) /\ m = Len(r)
  OBVIOUS
<1>2. PICK x : x = s \o r
  OBVIOUS
<1>3. /\ x \in Seq(S) /\ Len(x) = n + m
      /\ \A i \in 1 .. n + m : x[i] = IF i <= n THEN s[i] ELSE r[i - n]
  BY <1>1, <1>2
<1>4. /\ DOMAIN x = 1 .. n + m /\ DOMAIN s = 1 .. n /\ DOMAIN r = 1 .. m
  BY <1>1, <1>3
<1>5. \A i \in 1 .. n : i \in 1 .. n + m /\ x[i] = s[i]
  BY <1>3
<1>6. \A i \in 1 .. m : n + i \in 1 .. n + m /\ x[n + i] = r[i]
  BY <1>3
<1>7. ASSUME NEW i \in 1 .. n + m, i \notin 1 .. n
      PROVE  i - n \in 1 .. m /\ x[i] = r[i - n]
  <2>1. i > n /\ i - n \in 1 .. m
    BY <1>7
  <2> QED BY <1>3, <2>1
<1>8. \A i \in DOMAIN x : x[i] \in Range(s) \cup Range(r)
  <2> SUFFICES ASSUME NEW i \in 1 .. n + m
               PROVE  x[i] \in Range(s) \cup Range(r)
    BY <1>4
  <2>1. CASE i \in 1 .. n
    BY <1>4, <1>5, <2>1 DEF Range
  <2>2. CASE i \notin 1 .. n
    BY <1>4, <1>7, <2>2 DEF Range
  <2> QED BY <2>1, <2>2
<1>9. /\ \A j \in DOMAIN s : s[j] \in Range(x)
      /\ \A j \in DOMAIN r : r[j] \in Range(x)
  BY <1>4, <1>5, <1>6 DEF Range
<1>10. Range(x) = Range(s) \cup Range(r)
  BY <1>8, <1>9 DEF Range
<1> QED BY <1>2, <1>3, <1>10

\* Links that can be read join the stack (PushLinks).
LEMMA LinksArePushed ==
    ASSUME graph \in Graph, node \in Err, stack \in Seq(Err \cup {None}), PushLinks
    PROVE  /\ stack' \in Seq(Err \cup {None})
           /\ Pending \subseteq Pending' /\ Successors(node) \subseteq Pending'
PROOF
<1> DEFINE c == Reached(node, "cause")
           x == Reached(node, "context")
           g == Reached(node, "exceptions")
           S == Err \cup {None}
<1>1. c \in Seq(S) /\ x \in Seq(S) /\ g \in Seq(S)
  BY ScrubAssumption DEF Reached
<1>2. \A l \in {"cause", "context", "exceptions"} :
        <<node, l>> \notin Broken => Range(graph[l][node]) = Range(Reached(node, l))
  BY DEF Reached
<1>3. Successors(node) \subseteq Range(c) \cup Range(x) \cup Range(g)
  BY <1>2 DEF Successors
<1>4a. PICK a : a = stack \o c
  OBVIOUS
<1>4b. PICK b : b = a \o x
  OBVIOUS
<1>4c. stack' = b \o g
  BY <1>4a, <1>4b DEF PushLinks
<1> HIDE DEF c, x, g, S
<1>5. a \in Seq(S) /\ Range(a) = Range(stack) \cup Range(c)
  <2>1. stack \in Seq(S)
    BY DEF S
  <2> QED BY <1>1, <1>4a, <2>1, Pushed
<1>6. b \in Seq(S) /\ Range(b) = Range(a) \cup Range(x)
  BY <1>1, <1>4b, <1>5, Pushed
<1>7. stack' \in Seq(S) /\ Range(stack') = Range(b) \cup Range(g)
  BY <1>1, <1>4c, <1>6, Pushed
<1>8. Pending = Range(stack) /\ Pending' = Range(stack')
  BY DEF Pending
<1> QED BY <1>3, <1>5, <1>6, <1>7, <1>8 DEF S

\* The children of a container that is expanded are within the depth limit.
LEMMA Expanded ==
    ASSUME graph \in Graph, work \in Seq(Work), work # <<>>,
           Head(work).value \notin Text, ~Collapses(Head(work))
    PROVE  Children(Head(work)) \o Tail(work) \in Seq(Work)
PROOF
<1>1. PICK w \in Work : w = Head(work)
  OBVIOUS
<1>2. Tail(work) \in Seq(Work)
  OBVIOUS
<1>3. /\ w.value \in Box /\ w.depth \in 0 .. MaxDepth /\ w.depth < MaxDepth
  BY <1>1, ScrubAssumption DEF Work, Collapses
<1>4. PICK n \in Nat : /\ graph.contents[w.value] \in [1 .. n -> Box \cup Text]
                       /\ DOMAIN graph.contents[w.value] = 1 .. n
  <2>1. graph.contents[w.value] \in Seq(Box \cup Text)
    BY <1>3, ScrubAssumption
  <2> QED BY <2>1
<1>5. \A i \in 1 .. n : [value |-> graph.contents[w.value][i], depth |-> w.depth + 1] \in Work
  BY <1>3, <1>4, ScrubAssumption DEF Work
<1>6. Children(w) \in [1 .. n -> Work]
  BY <1>4, <1>5 DEF Children
<1>7. Children(w) \in Seq(Work)
  BY <1>6
<1> QED BY <1>1, <1>2, <1>7

-----------------------------------------------------------------------------
(* The invariant *)

\* The walk starts with its root on the stack, nothing visited.
LEMMA InitHolds == Init => SInv
PROOF
<1> SUFFICES ASSUME Init PROVE SInv
  OBVIOUS
<1>1. graph \in Graph /\ graph.root \in Err
  BY ScrubAssumption DEF Init
<1>2. Typed
  BY <1>1 DEF Init, Typed, ScrubTypeOK, Busy
<1>3. graph.root \in Pending
  BY <1>1 DEF Init, Pending, Range
<1>4. \A e \in Err : graph.args[e] = <<>> => holds[e]["args"] = {}
  BY DEF Init, Field
<1>5. Progress
  BY <1>3, <1>4 DEF Init, Progress, Busy
<1> QED BY <1>2, <1>5 DEF SInv

\* Every step keeps the types and the depth limit.
LEMMA TypedStep == Typed /\ [Next]_svars => Typed'
PROOF
<1> SUFFICES ASSUME Typed, [Next]_svars PROVE Typed'
  OBVIOUS
<1> USE DEF Typed, ScrubTypeOK, Busy
<1>1. ASSUME Pop PROVE Typed'
  <2>1. Front(stack) \in Seq(Err \cup {None}) /\ Last(stack) \in Err \cup {None}
    <3>1. PICK S : S = Err \cup {None}
      OBVIOUS
    <3>2. stack \in Seq(S) /\ stack # <<>>
      BY <1>1, <3>1 DEF Pop
    <3> QED BY <3>1, <3>2, Popped
  <2> QED BY <1>1, <2>1 DEF Pop, Given
<1>2. ASSUME Finish PROVE Typed'
  BY <1>2 DEF Finish, Given
<1>3. ASSUME SkipArgs PROVE Typed'
  BY <1>3 DEF SkipArgs, Given
<1>4. ASSUME StartArgs PROVE Typed'
  <2>1. node \in Err
    BY <1>4 DEF StartArgs
  <2>2. graph.args[node] \in Seq(Box \cup Text)
    BY <2>1, ScrubAssumption
  <2> QED BY <1>4, <2>2 DEF StartArgs, Given
<1>5. ASSUME NextArg PROVE Typed'
  <2>1. Head(todo) \in Box \cup Text /\ Tail(todo) \in Seq(Box \cup Text)
    <3>1. PICK S : S = Box \cup Text
      OBVIOUS
    <3>2. todo \in Seq(S) /\ todo # <<>>
      BY <1>5, <3>1 DEF NextArg
    <3> QED BY <3>1, <3>2
  <2>2. [value |-> Head(todo), depth |-> 0] \in Work
    BY <2>1, ScrubAssumption DEF Work
  <2>3. work' \in Seq(Work)
    BY <1>5, <2>2 DEF NextArg
  <2>4. \A i \in DOMAIN work' : work'[i] \in Work
    BY <2>3
  <2> QED BY <1>5, <2>1, <2>3, <2>4 DEF NextArg, Given, Work
<1>6. ASSUME AssignArgs PROVE Typed'
  BY <1>6 DEF AssignArgs, Given
<1>7. ASSUME _scrub_value PROVE Typed'
  <2>1. work # <<>> /\ Head(work) \in Work /\ Tail(work) \in Seq(Work)
    BY <1>7 DEF _scrub_value
  <2>2. work' \in Seq(Work)
    BY <1>7, <2>1, Expanded DEF _scrub_value
  <2>3. \A i \in DOMAIN work' : work'[i] \in Work
    BY <2>2
  <2>4. visited' \subseteq Box
    BY <1>7, <2>1 DEF _scrub_value, Work
  <2> QED BY <1>7, <2>2, <2>3, <2>4 DEF _scrub_value, Given, Work
<1>8. ASSUME ArgDone PROVE Typed'
  BY <1>8 DEF ArgDone, Given
<1>9. ASSUME Fields PROVE Typed'
  BY <1>9 DEF Fields, Given
<1>10. ASSUME PushLinks PROVE Typed'
  <2>1. node \in Err
    BY <1>10 DEF PushLinks
  <2>2. stack' \in Seq(Err \cup {None})
    BY <1>10, <2>1, LinksArePushed
  <2> QED BY <1>10, <2>2 DEF PushLinks, Given
<1>11. ASSUME OutOfMemory PROVE Typed'
  BY <1>11 DEF OutOfMemory, Given
<1>12. ASSUME UNCHANGED svars PROVE Typed'
  BY <1>12 DEF svars
<1> QED BY <1>1, <1>2, <1>3, <1>4, <1>5, <1>6, <1>7, <1>8, <1>9, <1>10, <1>11, <1>12
       DEF Next, Walk

\* Every step keeps what was scrubbed clean and everything linked in sight.
LEMMA ProgressStep == SInv /\ [Next]_svars => Progress'
PROOF
<1> SUFFICES ASSUME SInv, [Next]_svars, pc' # "memory_error" PROVE Progress'
  BY DEF Progress
<1> USE DEF SInv
<1>1. /\ graph' = graph /\ order' = order
      /\ \A e : Successors(e)' = Successors(e)
  <2>1. graph' = graph /\ order' = order
    BY DEF Next, Walk, Pop, Finish, SkipArgs, StartArgs, NextArg, AssignArgs, _scrub_value,
           ArgDone, Fields, PushLinks, OutOfMemory, Given, svars
  <2> QED BY <2>1 DEF Successors
<1>2. Redacted = {}
  BY NothingIsLeft DEF Typed, ScrubTypeOK
<1>3. ASSUME UNCHANGED <<stack, holds>> PROVE Pending' = Pending /\ \A e : Clean(e)' = Clean(e)
  BY <1>3 DEF Pending, Clean
<1>4. ASSUME Pop PROVE Progress'
  <2>1. Range(stack) = Range(Front(stack)) \cup {Last(stack)}
    <3>1. PICK S : S = Err \cup {None}
      OBVIOUS
    <3>2. stack \in Seq(S) /\ stack # <<>>
      BY <1>4, <3>1 DEF Pop, Typed, ScrubTypeOK
    <3> QED BY <3>1, <3>2, Popped
  <2>2. Pending = Pending' \cup {Last(stack)}
    BY <1>4, <2>1 DEF Pop, Pending
  <2>3. \A e : None \notin Successors(e)
    BY DEF Successors
  <2>4. graph.root # None /\ \A e : None \notin Successors(e)
    BY <2>3, ScrubAssumption DEF Typed
  <2>5. seen \cup Pending \subseteq seen' \cup Pending' \cup {None}
    BY <1>4, <2>2 DEF Pop
  <2>6. UNCHANGED holds /\ \A e : Clean(e)' = Clean(e)
    BY <1>4 DEF Pop, Clean
  <2>7. \A e \in seen' : ~(Busy' /\ e = node') => e \in seen /\ ~(Busy /\ e = node)
    BY <1>4 DEF Pop, Busy
  <2> QED BY <1>1, <1>4, <2>4, <2>5, <2>6, <2>7 DEF Pop, Progress
<1>5. ASSUME Finish PROVE Progress'
  BY <1>1, <1>3, <1>5 DEF Finish, Progress, Busy
<1>6. ASSUME SkipArgs PROVE Progress'
  <2>1. node \in Err
    BY <1>6 DEF SkipArgs, Typed, ScrubTypeOK, Busy
  <2> QED BY <1>1, <1>3, <1>6, <2>1 DEF SkipArgs, Progress, Busy
<1>7. ASSUME StartArgs PROVE Progress'
  BY <1>1, <1>3, <1>7 DEF StartArgs, Progress, Busy
<1>8. ASSUME NextArg PROVE Progress'
  BY <1>1, <1>3, <1>8 DEF NextArg, Progress, Busy
<1>9. ASSUME AssignArgs PROVE Progress'
  <2>1. node \in Err /\ made = {}
    BY <1>9 DEF AssignArgs, Typed, ScrubTypeOK, Busy, Progress
  <2>2. holds' = [holds EXCEPT ![node]["args"] = {}]
    BY <1>9, <2>1 DEF AssignArgs
  <2>3. /\ holds'[node]["args"] = {}
        /\ \A e \in Err : e # node => holds'[e] = holds[e]
        /\ \A e \in Err : graph.args[e] = <<>> => holds'[e]["args"] = {}
    BY <1>9, <2>1, <2>2 DEF Typed, Progress, AssignArgs, Field
  <2>4. \A e \in seen : e # node => Clean(e)' = Clean(e)
    BY <2>3 DEF Clean, Typed, ScrubTypeOK
  <2> QED BY <1>1, <1>9, <2>1, <2>3, <2>4 DEF AssignArgs, Progress, Busy, Pending
<1>10. ASSUME _scrub_value PROVE Progress'
  BY <1>1, <1>2, <1>3, <1>10 DEF _scrub_value, Progress, Busy
<1>11. ASSUME ArgDone PROVE Progress'
  BY <1>1, <1>3, <1>11 DEF ArgDone, Progress, Busy
<1>12. ASSUME Fields PROVE Progress'
  <2>1. node \in Err
    BY <1>12 DEF Fields, Typed, ScrubTypeOK, Busy
  <2>2. /\ \A f \in Field : holds'[node][f] = IF f = "args" \/ <<node, f>> \in Broken
                                              THEN holds[node][f] ELSE {}
        /\ \A e \in Err : e # node => holds'[e] = holds[e]
    BY <1>2, <1>12, <2>1 DEF Fields, Typed
  <2>3. Clean(node)'
    BY <1>12, <2>2 DEF Clean, Fields, Progress
  <2>4. \A e \in seen : e # node => Clean(e)' = Clean(e)
    BY <2>2 DEF Clean, Typed, ScrubTypeOK
  <2>5. \A e \in Err : graph.args[e] = <<>> => holds'[e]["args"] = {}
    BY <1>12, <2>2 DEF Progress, Fields, Field
  <2> QED BY <1>1, <1>12, <2>1, <2>3, <2>4, <2>5 DEF Fields, Progress, Busy, Pending
<1>13. ASSUME PushLinks PROVE Progress'
  <2>1. node \in Err /\ stack \in Seq(Err \cup {None}) /\ graph \in Graph
    BY <1>13 DEF PushLinks, Typed, ScrubTypeOK, Busy
  <2>2. Pending \subseteq Pending' /\ Successors(node) \subseteq Pending'
    BY <1>13, <2>1, LinksArePushed
  <2>3. UNCHANGED holds /\ \A e : Clean(e)' = Clean(e)
    BY <1>13 DEF PushLinks, Clean
  <2> QED BY <1>1, <1>13, <2>1, <2>2, <2>3 DEF PushLinks, Progress, Busy
<1>14. ASSUME OutOfMemory PROVE Progress'
  BY <1>14 DEF OutOfMemory
<1>15. ASSUME UNCHANGED svars PROVE Progress'
  BY <1>1, <1>3, <1>15 DEF svars, Progress, Busy
<1> QED BY <1>4, <1>5, <1>6, <1>7, <1>8, <1>9, <1>10, <1>11, <1>12, <1>13, <1>14, <1>15
       DEF Next, Walk

\* The inductive invariant: the types and the depth limit; every exception
\* already scrubbed is clean and leads only to exceptions scrubbed or still on
\* the stack; the node at hand holds nothing of a secret in what was rewritten.
THEOREM ScrubInvariance == Spec => []SInv
PROOF
<1>1. Init => SInv
  BY InitHolds
<1>2. SInv /\ [Next]_svars => SInv'
  BY TypedStep, ProgressStep DEF SInv
<1> QED BY <1>1, <1>2, PTL DEF Spec

\* The walk never looks into a container past _MAX_CONTAINER_DEPTH, whatever
\* the containers hold and however they are nested (_scrub_value).
THEOREM ScrubTypeCorrect == Spec => []ScrubTypeOK
PROOF
<1>1. SInv => ScrubTypeOK
  BY DEF SInv, Typed
<1> QED BY <1>1, ScrubInvariance, PTL

\* When scrub_exception returns, no exception that the root leads to holds a
\* secret, or what is left of one, in a field that could be rewritten: for
\* graphs and containers of any shape and secrets that overlap in any way.
THEOREM ScrubsEverythingReachable == Spec => []ScrubbedAll
PROOF
<1>1. SInv => ScrubbedAll
  <2> SUFFICES ASSUME SInv, pc = "returned",
                      NEW e \in Err, Reachable(e),
                      NEW f \in Field, <<e, f>> \notin Broken
               PROVE  holds[e][f] = {}
    BY DEF ScrubbedAll
  <2>1. stack = <<>> /\ ~Busy
    BY DEF SInv, Progress, Busy
  <2>2. Pending = {}
    BY <2>1 DEF Pending, Range
  <2>3. /\ seen \in SUBSET Err /\ graph.root \in seen
        /\ \A x \in seen : Clean(x) /\ Successors(x) \subseteq seen
    BY <2>1, <2>2 DEF SInv, Typed, ScrubTypeOK, Progress
  <2>4. e \in seen
    BY <2>3 DEF Reachable
  <2> QED BY <2>3, <2>4 DEF Clean
<1> QED BY <1>1, ScrubInvariance, PTL
=============================================================================
