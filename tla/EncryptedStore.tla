--------------------------- MODULE EncryptedStore ---------------------------
(***************************************************************************)
(* EncryptedFileBackend: credentials.enc, one envelope of a JSON header    *)
(* and an AES-GCM ciphertext of the whole store under an Argon2id key.     *)
(* set and unset decrypt the store, change one entry, and seal the whole   *)
(* anew, under exclusive_store_lock; get and names decrypt what they find  *)
(* without a lock.                                                         *)
(*                                                                         *)
(* The lock and the atomic write are the file backend's: here taking the   *)
(* lock is one step and so is everything up to the rename (FileStore has   *)
(* them in full).  A client is a process with one writing thread, so the   *)
(* lock is the OS lock; where that may fail, a writer goes on without it.  *)
(* Of cryptography the model keeps that a ciphertext opens under the key   *)
(* and the header it was sealed with and under no other.                   *)
(***************************************************************************)
EXTENDS StoreContent, Integers

CONSTANTS
    Client,             \* the processes
    PassOf, BuildOf,    \* each one's passphrase, and what its OpenSSL can derive
    App,                \* the app whose store this is
    NotInt,             \* a header parameter that int() refuses
    Ops, InitEnvelope,  \* operations issued, envelopes the file may start with
    Elsewhere,          \* envelopes something outside may put in its place
    DirSync,            \* the file system can fsync a directory
    MaxCalls, MaxFaults \* bounds

ASSUME EncryptedAssumption ==
    /\ Ops \subseteq Op
    /\ BuildOf \in [Client -> {"none", "one_lane", "full"}]
    /\ None \notin Client /\ \A c \in Client : PassOf[c] # None
    /\ NotInt \notin Int
    /\ DirSync \in BOOLEAN
    /\ MaxCalls \in Nat /\ MaxFaults \in Nat

VARIABLES
    file,         \* the envelope at the path
    recoverable,  \* what the path may hold after a power loss
    lockWorks,    \* the OS lock can be had whenever it is free; never changes
    lock,         \* who has the OS lock
    pc, call,
    snapshot,     \* the decrypted map of a writer
    outcome,
    derived,      \* the costs at which Argon2id has been run
    calls, faults

evars == <<file, recoverable, lockWorks, lock, pc, call, snapshot, outcome, derived,
           calls, faults>>

-----------------------------------------------------------------------------
(* The envelope *)

_MAX_TIME_COST       == 16
_MAX_MEMORY_COST_KIB == 262144
_MAX_LANES           == 16

\* The header of everything this version writes.
Header == [v |-> 1, argon2id |-> TRUE, salted |-> TRUE,
           t |-> 3, m |-> 65536, p |-> 4, app |-> App]

\* Mutant: the limit is the write cost in the wrong unit.
clampTooLow(value, low, high) ==
    IF value < low THEN low ELSE IF value > high \div 1024 THEN high \div 1024 ELSE value

\* Mutant: a header is trusted with its cost.
clampNot(value, low, high) == value

_clamp(value, low, high) ==
    IF value < low THEN low ELSE IF value > high THEN high ELSE value

\* The cost a key is derived at: the header's, within bounds.
Cost(h) == [t |-> _clamp(h.t, 1, _MAX_TIME_COST),
            m |-> _clamp(h.m, 8 * _MAX_LANES, _MAX_MEMORY_COST_KIB),
            p |-> _clamp(h.p, 1, _MAX_LANES)]

\* Argon2id needs 8 KiB a lane; below, the library raises ValueError.
Admissible(cost) == cost.m >= 8 * cost.p

\* The probe derives at one lane; a real derivation may need more than the build has.
Probes(c)        == BuildOf[c] # "none"
Derives(c, cost) == BuildOf[c] = "full" \/ (BuildOf[c] = "one_lane" /\ cost.p = 1)

\* The sealer derives at the cost it writes down.  A fresh salt and nonce make
\* every sealing its own; they are left out.
Written(h) == [t |-> h.t, m |-> h.m, p |-> h.p]

Seal(pass, h, s) == [header |-> h, plain |-> s,
                     seal |-> [pass |-> pass, cost |-> Written(h), aad |-> h]]

\* Whoever wrote an envelope: its header is what int() can tell from a number, and
\* the key was derived at the cost in the header that was sealed.
WellSealed(b) ==
    /\ b = [header |-> b.header, plain |-> b.plain, seal |-> b.seal]
    /\ {b.header.t, b.header.m, b.header.p} \subseteq Int \cup {NotInt}
    /\ b.seal = [pass |-> b.seal.pass, cost |-> Written(b.seal.aad), aad |-> b.seal.aad]

ASSUME EnvelopeAssumption ==
    \A b \in (InitEnvelope \cup Elsewhere) \ {Absent, Malformed} : WellSealed(b)

_encrypt(c, s) == Seal(PassOf[c], Header, s)

\* What this version may have written is told from no file and from garbage.
OwnEnvelope == [header : {Header}, plain : Store,
                seal : [pass : {PassOf[c] : c \in Client}, cost : {Written(Header)}, aad : {Header}]]

ASSUME OwnEnvelopeAssumption == {Absent, Malformed} \cap OwnEnvelope = {}

\* The tag verifies: same key, and the header is the one that was sealed.
Opens(c, b) == b.seal = [pass |-> PassOf[c], cost |-> Cost(b.header), aad |-> b.header]

\* The header parses, is this version's, and its parameters are integers.
Recognised(b) == b # Malformed /\ b.header.argon2id
Parsed(b) == /\ Recognised(b) /\ b.header.v = 1 /\ b.header.salted
             /\ NotInt \notin {b.header.t, b.header.m, b.header.p}

\* Mutant: an envelope of another app's store is accepted.
BoundElsewhereIgnored(b) == FALSE

BoundElsewhere(b) == b.header.app \notin {None, App}

\* _try_decrypt, on a file that is there: every fault is a returned outcome.
_try_decrypt(c, b) ==
    IF Recognised(b) /\ b.header.v > 1 THEN "newer"
    ELSE IF ~Parsed(b) \/ ~Admissible(Cost(b.header)) THEN "failed"
    ELSE IF ~Derives(c, Cost(b.header)) THEN "kdf_unavailable"
    ELSE IF ~Opens(c, b) \/ BoundElsewhere(b) THEN "failed"
    ELSE "plaintext"

\* The costs a decryption attempt runs Argon2id at.
Attempted(b) == IF b # Absent /\ Parsed(b) THEN {Cost(b.header)} ELSE {}

Plain(b) == IF b \in {Absent, Malformed} THEN b ELSE b.plain

Fails(why) == [kind |-> "error", why |-> why]

ASSUME OutcomeAssumption ==
    None \notin {Fails(why) : why \in {"failed", "newer", "kdf_unavailable", "malformed", "io"}}

\* How _load_flat or _load_nested ends for call op: "loaded", or the error raised.
Loading(c, op) ==
    IF ~Probes(c) THEN "kdf_unavailable"
    ELSE IF file = Absent THEN "loaded"
    ELSE IF _try_decrypt(c, file) # "plaintext" THEN _try_decrypt(c, file)
    ELSE IF Loads(Plain(file), op.ns) THEN "loaded" ELSE "malformed"

-----------------------------------------------------------------------------

Goto(c, p) == pc' = [pc EXCEPT ![c] = p]
Give(c, r) == outcome' = [outcome EXCEPT ![c] = r]
Fault == faults < MaxFaults /\ faults' = faults + 1

Init ==
    /\ file \in InitEnvelope
    /\ recoverable = {file}
    /\ lockWorks \in BOOLEAN
    /\ lock = None
    /\ pc = [c \in Client |-> "idle"]
    /\ call = [c \in Client |-> None]
    /\ snapshot = [c \in Client |-> None]
    /\ outcome = [c \in Client |-> None]
    /\ derived = {}
    /\ calls = 0 /\ faults = 0

Call(c) ==
    /\ pc[c] = "idle"
    /\ calls < MaxCalls /\ calls' = calls + 1
    /\ \E op \in Ops :
         /\ call' = [call EXCEPT ![c] = op]
         /\ Goto(c, IF IsWrite(op) THEN "lock" ELSE "read")
    /\ UNCHANGED <<file, recoverable, lockWorks, lock, snapshot, outcome, derived, faults>>

\* A step that loads the store: what it derives, and that the file stays.
Decrypts(c) ==
    /\ derived' = derived \cup (IF Probes(c) THEN Attempted(file) ELSE {})
    /\ UNCHANGED <<file, recoverable, lockWorks, lock, call, calls, faults>>

\* get and names.
Read(c) ==
    /\ pc[c] = "read"
    /\ Give(c, IF Loading(c, call[c]) = "loaded"
               THEN Answer(call[c], Loaded(Plain(file))) ELSE Fails(Loading(c, call[c])))
    /\ Goto(c, "return")
    /\ Decrypts(c)
    /\ UNCHANGED snapshot

-----------------------------------------------------------------------------
(* set and unset *)

\* Mutant: writers are not serialized.
LockNot(c) ==
    /\ pc[c] = "lock"
    /\ lock' = c
    /\ Goto(c, "load")
    /\ UNCHANGED <<file, recoverable, lockWorks, call, snapshot, outcome, derived, calls, faults>>

Lock(c) ==
    /\ pc[c] = "lock" /\ lock = None
    /\ lock' = c
    /\ Goto(c, "load")
    /\ UNCHANGED <<file, recoverable, lockWorks, call, snapshot, outcome, derived, calls, faults>>

\* The lock file cannot be made, or flock reports an error: a warning, and the
\* read-modify-write goes on with nothing between it and the other processes.
Degrade(c) ==
    /\ pc[c] = "lock" /\ ~lockWorks
    /\ Goto(c, "load")
    /\ UNCHANGED <<file, recoverable, lockWorks, lock, call, snapshot, outcome, derived,
                   calls, faults>>

Load(c) ==
    /\ pc[c] = "load"
    /\ Loading(c, call[c]) = "loaded"
    /\ Writes(call[c], Loaded(Plain(file)))
    /\ snapshot' = [snapshot EXCEPT ![c] = Loaded(Plain(file))]
    /\ Goto(c, "save")
    /\ Decrypts(c)
    /\ UNCHANGED outcome

LoadNothing(c) ==
    /\ pc[c] = "load"
    /\ Loading(c, call[c]) = "loaded"
    /\ ~Writes(call[c], Loaded(Plain(file)))
    /\ Give(c, Ok)
    /\ Goto(c, "return")
    /\ Decrypts(c)
    /\ UNCHANGED snapshot

\* Mutant: what cannot be decrypted is taken for an empty store.
LoadFailsAsEmpty(c) ==
    /\ pc[c] = "load"
    /\ Loading(c, call[c]) # "loaded"
    /\ snapshot' = [snapshot EXCEPT ![c] = EmptyStore]
    /\ Goto(c, "save")
    /\ Decrypts(c)
    /\ UNCHANGED outcome

\* Fails closed: nothing is written over what could not be read.
LoadFails(c) ==
    /\ pc[c] = "load"
    /\ Loading(c, call[c]) # "loaded"
    /\ Give(c, Fails(Loading(c, call[c])))
    /\ Goto(c, "return")
    /\ Decrypts(c)
    /\ UNCHANGED snapshot

NewStore(c) == Apply(call[c], snapshot[c])

\* _save raises before it writes: a value that cannot be encoded, or a build that
\* cannot derive at the write cost.
SaveRefused(c) ==
    /\ pc[c] = "save"
    /\ ~serialize_store(NewStore(c)) \/ ~Derives(c, Written(Header))
    /\ Give(c, Fails(IF serialize_store(NewStore(c)) THEN "kdf_unavailable" ELSE "malformed"))
    /\ Goto(c, "return")
    /\ UNCHANGED <<file, recoverable, lockWorks, lock, call, snapshot, derived, calls, faults>>

\* _encrypt, and write_bytes_atomic up to its rename.
Save(c) ==
    /\ pc[c] = "save"
    /\ serialize_store(NewStore(c)) /\ Derives(c, Written(Header))
    /\ file' = _encrypt(c, NewStore(c))
    /\ recoverable' = recoverable \cup {file'}
    /\ derived' = derived \cup {Written(Header)}
    /\ Goto(c, "sync_dir")
    /\ UNCHANGED <<lockWorks, lock, call, snapshot, outcome, calls, faults>>

SyncDir(c) ==
    /\ pc[c] = "sync_dir"
    /\ recoverable' = IF DirSync THEN {file} ELSE recoverable
    /\ Give(c, Ok)
    /\ Goto(c, "return")
    /\ UNCHANGED <<file, lockWorks, lock, call, snapshot, derived, calls, faults>>

\* An I/O error or an interrupt: before the rename nothing has changed, after it the
\* new envelope is in place.
IOFails(c) ==
    /\ pc[c] \in {"read", "lock", "load", "save", "sync_dir"}
    /\ Fault
    /\ Give(c, Fails("io"))
    /\ Goto(c, "return")
    /\ UNCHANGED <<file, recoverable, lockWorks, lock, call, snapshot, derived, calls>>

\* unlock or close raises: the handle is closed all the same, which gives up the
\* lock, but the error replaces the result of a write that is in place and synced.
UnlockFails(c) ==
    /\ pc[c] = "return" /\ IsWrite(call[c]) /\ outcome[c].kind # "error"
    /\ Fault
    /\ lock' = IF lock = c THEN None ELSE lock
    /\ Give(c, Fails("io"))
    /\ UNCHANGED <<file, recoverable, lockWorks, pc, call, snapshot, derived, calls>>

Return(c) ==
    /\ pc[c] = "return"
    /\ lock' = IF lock = c THEN None ELSE lock
    /\ call' = [call EXCEPT ![c] = None]
    /\ snapshot' = [snapshot EXCEPT ![c] = None]
    /\ outcome' = [outcome EXCEPT ![c] = None]
    /\ Goto(c, "idle")
    /\ UNCHANGED <<file, recoverable, lockWorks, derived, calls, faults>>

-----------------------------------------------------------------------------
(* The environment *)

Vanish(gone) ==
    /\ lock' = IF lock \in gone THEN None ELSE lock
    /\ pc' = [c \in Client |-> IF c \in gone THEN "idle" ELSE pc[c]]
    /\ call' = [c \in Client |-> IF c \in gone THEN None ELSE call[c]]
    /\ snapshot' = [c \in Client |-> IF c \in gone THEN None ELSE snapshot[c]]
    /\ outcome' = [c \in Client |-> IF c \in gone THEN None ELSE outcome[c]]

Crash(c) ==
    /\ pc[c] # "idle"
    /\ Fault
    /\ Vanish({c})
    /\ UNCHANGED <<file, recoverable, lockWorks, derived, calls>>

PowerLoss ==
    /\ Fault
    /\ file' \in recoverable
    /\ recoverable' = {file'}
    /\ Vanish(Client)
    /\ UNCHANGED <<lockWorks, derived, calls>>

\* The header is edited in place, or the ciphertext is damaged: no passphrase opens it.
Edited(b) == {[b EXCEPT !.seal.pass = None]}
               \cup {[b EXCEPT !.header = e.header] : e \in Elsewhere \ {Absent, Malformed}}

\* Something that takes no lock (a restored backup, a copy of another store, a
\* newer credbox, damage) changes the file while no writer is at work.
Replaced ==
    /\ \A c \in Client : pc[c] \notin {"load", "save", "sync_dir"}
    /\ Fault
    /\ file' \in Elsewhere \cup (IF file \in {Absent, Malformed} THEN {} ELSE Edited(file))
    /\ recoverable' = {file'}
    /\ UNCHANGED <<lockWorks, lock, pc, call, snapshot, outcome, derived, calls>>

-----------------------------------------------------------------------------

Write(c) == \/ Lock(c) \/ Degrade(c) \/ Load(c) \/ LoadNothing(c) \/ LoadFails(c)
            \/ SaveRefused(c) \/ Save(c) \/ SyncDir(c) \/ UnlockFails(c)

Step(c) == Call(c) \/ Read(c) \/ Write(c) \/ IOFails(c) \/ Return(c) \/ Crash(c)

Next == (\E c \in Client : Step(c)) \/ PowerLoss \/ Replaced

Spec == Init /\ [][Next]_evars
=============================================================================
