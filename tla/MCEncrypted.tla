----------------------------- MODULE MCEncrypted -----------------------------
(* Two full owners and one on a one-lane build share a passphrase, a stranger  *)
(* holds another, and one process has no Argon2id at all.                      *)
EXTENDS EncryptedProperties, TLC

CONSTANTS o1, o2, lane, stranger, bare, a, n1, v, w, bad, pass, other, app2

\* Nothing tells the two full owners apart.
Owners == Permutations({o1, o2})

MCClient   == {o1, o2, lane, stranger, bare}
MCPassOf   == [c \in MCClient |-> IF c = stranger THEN other ELSE pass]
MCBuildOf  == [c \in MCClient |->
                 IF c = lane THEN "one_lane" ELSE IF c = bare THEN "none" ELSE "full"]
MCStripped == [x \in {v, w, bad} |-> x]

Set(ns, n, x) == [kind |-> "set", ns |-> ns, name |-> n, value |-> x]
MCOps == {Set(None, a, w), Set(n1, a, v), Set(None, a, bad),
          [kind |-> "unset", ns |-> None, name |-> a],
          [kind |-> "get", ns |-> None, name |-> a],
          [kind |-> "names", ns |-> n1]}

Flat == [n \in {a} |-> v]
MCInitEnvelope == {Absent, Seal(pass, Header, Flat)}

\* An envelope another store, build or version wrote, or a header set to extremes.
MCElsewhere ==
    {Absent, Malformed,
     Seal(pass, [Header EXCEPT !.app = app2], Flat),
     Seal(pass, [Header EXCEPT !.app = None, !.p = 1], Flat),
     Seal(other, Header, Flat),
     Seal(pass, [Header EXCEPT !.v = 2], Flat),
     Seal(pass, Header, Malformed),
     Seal(pass, [Header EXCEPT !.t = 0, !.m = 2000000000, !.p = 17], Flat),
     Seal(pass, [Header EXCEPT !.t = 17, !.m = 0], Flat),
     Seal(pass, [Header EXCEPT !.m = NotInt], Flat)}
=============================================================================
