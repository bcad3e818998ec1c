------------------------- MODULE EncryptedProperties -------------------------
(***************************************************************************)
(* What the encrypted backend owes its callers beyond the file backend's   *)
(* promise: who may read, whom a failure may blame, and what a hostile or  *)
(* damaged header can make it do.                                          *)
(***************************************************************************)
EXTENDS EncryptedStore

Envelope(b) == b \notin {Absent, Malformed}

\* Sealed under pass, for this app or none, and not edited since.
Authentic(b, pass) ==
    /\ Envelope(b)
    /\ b.seal.pass = pass /\ b.seal.aad = b.header
    /\ b.header.v = 1 /\ b.header.app \in {None, App}

FullBuild(c) == BuildOf[c] = "full"

\* Whatever header the file has had, Argon2id is never run beyond the limits, nor
\* at a cost the library refuses to run at (so no ValueError takes that path).
DerivationBounded ==
    \A cost \in derived :
        /\ cost.t \in 1 .. _MAX_TIME_COST
        /\ cost.m \in 8 .. _MAX_MEMORY_COST_KIB
        /\ cost.p \in 1 .. _MAX_LANES
        /\ Admissible(cost)

\* Content a caller is answered from, or rewrites, was sealed under its own
\* passphrase for this app, and not edited since: no envelope of another store,
\* another version or another header yields a secret, a name, or an emptiness.
OnlyAuthenticContent ==
    [][\A c \in Client :
          (/\ file # Absent
           /\ \/ snapshot[c] = None /\ snapshot'[c] # None
              \/ pc[c] = "read" /\ pc'[c] = "return" /\ outcome'[c].kind # "error")
              => Authentic(file, PassOf[c])]_evars

\* An owner with a full build whose store this version wrote is never told of a
\* wrong passphrase, a newer credbox or a missing KDF.
OwnerIsNotMisled ==
    [][\A c \in Client :
          (/\ pc[c] \in {"read", "load"} /\ pc'[c] = "return"
           /\ FullBuild(c)
           /\ Authentic(file, PassOf[c]) /\ file.header = Header)
              => outcome'[c] \notin {Fails(why) : why \in {"failed", "newer", "kdf_unavailable"}}]_evars

\* Fails closed: where the OS lock works, no write replaces an envelope its writer
\* could not open, so the passphrase of a store never changes by set or unset, and an
\* envelope of a newer credbox, or a damaged one, stays for someone to recover.
KeyKept ==
    [][lockWorks /\ (\E c \in Client : pc[c] = "save" /\ pc'[c] = "sync_dir" /\ file # Absent)
          => Envelope(file) /\ Authentic(file, file'.seal.pass)]_evars

-----------------------------------------------------------------------------
(* The file backend's promise, on the plaintext *)

Promise == INSTANCE SecretStore WITH
    InitContent <- {Plain(b) : b \in InitEnvelope},
    store       <- Plain(file),
    recoverable <- {Plain(b) : b \in recoverable},
    phase       <- [c \in Client |->
                      CASE pc[c] = "idle"     -> "idle"
                        [] pc[c] = "sync_dir" -> "applied"
                        [] pc[c] = "return"   -> "done"
                        [] OTHER              -> "called"],
    outcome     <- [c \in Client |->
                      IF outcome[c] # None /\ outcome[c].kind = "error" THEN Error ELSE outcome[c]]

\* Encryption takes nothing away: where the OS lock works, and while nothing outside
\* changes the file, callers see the atomic store SecretStore describes, whoever of
\* them holds which passphrase, and whatever build each runs on.
KeepsPromise ==
    Promise!Init /\ [][lockWorks => Replaced \/ Promise!Next]_<<Promise!svars>>
=============================================================================
