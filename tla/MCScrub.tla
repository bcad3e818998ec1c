------------------------------- MODULE MCScrub -------------------------------
(* Three exceptions with two arguments at most, two containers that may hold *)
(* themselves and each other, and three targets, one a part of another.     *)
EXTENDS ScrubProperties, TLC

CONSTANTS e1, e2, e3, b1, b2, b3, txt, raw, quoted, other

Errors == {e1, e2, e3}
Boxes == {b1, b2, b3}
Targets == {raw, quoted, other}

Lengths == raw :> 1 @@ quoted :> 2 @@ other :> 2
Parts == raw :> {} @@ quoted :> {raw} @@ other :> {}

Flat == [e \in Errors |-> <<>>]
NoLink == [e \in Errors |-> <<None>>]

\* Links of many shapes over the three exceptions, with plain arguments.
Linked == [root : {e1}, cause : [Errors -> {<<None>>, <<e1>>, <<e2>>}],
           context : [Errors -> {<<None>>, <<e3>>}],
           exceptions : {[Flat EXCEPT ![e1] = m] : m \in {<<>>, <<e2, e3>>, <<e1, e2>>}},
           args : {[e \in Errors |-> IF e = e3 THEN <<>> ELSE <<txt>>]},
           contents : {[b \in Boxes |-> <<>>]}]

\* Itself twice, the other ones and a text, in all combinations.
Shapes(b) == {<<b, b>>, <<b1, txt>>, <<b2, b3>>, <<b3, txt, b3>>, <<txt>>}

\* Containers, cyclic and shared, in the arguments of one exception.
Alone == [root : {e1}, cause : {NoLink}, context : {NoLink}, exceptions : {Flat},
          args : {[Flat EXCEPT ![e1] = <<b1, b2>>]},
          contents : {c \in [Boxes -> UNION {Shapes(b) : b \in Boxes}] :
                        \A b \in Boxes : c[b] \in Shapes(b)}]

Graphs == Linked \cup Alone

Raising == {<<e1, "request.url">>, <<e2, "args">>, <<e2, "context">>}
=============================================================================
