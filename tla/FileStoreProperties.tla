------------------------ MODULE FileStoreProperties ------------------------
(***************************************************************************)
(* What makes the file backend correct, and the refinement mapping from    *)
(* FileStore to the promise stated in SecretStore.                         *)
(***************************************************************************)
EXTENDS FileStore

TempFile == [data : Content, synced : BOOLEAN]

\* Every variable of the file backend has its type.
TypeOK ==
    /\ file \in Content
    /\ recoverable \in SUBSET Content
    /\ debris \in Nat
    /\ temp \in [Thread -> TempFile \cup {None}]
    /\ snapshot \in [Thread -> Store \cup {None}]
    /\ pc \in [Thread -> Position]
    /\ call \in [Thread -> Op \cup {None}]
    /\ outcome \in [Thread -> Outcome \cup {None}]
    /\ registry \in [Process -> LockId \cup {None}]
    /\ lockRef \in [Thread -> LockId \cup {None}]
    /\ lockHolder \in [Process -> [LockId -> Thread \cup {None}]]
    /\ osLock \in Thread \cup {None}
    /\ warned \in [Process -> BOOLEAN]
    /\ calls \in Nat /\ faults \in Nat /\ deaths \in Nat

\* Two threads of one process are never both inside exclusive_store_lock's body,
\* whatever the OS lock does: the weak registry never hands a waiting or later
\* thread a second lock object while the first is in use (_store.py _thread_lock_for).
OneThreadPerProcess ==
    \A t, u \in Thread :
        t # u /\ ProcOf[t] = ProcOf[u] => ~(pc[t] \in InBody /\ pc[u] \in InBody)

\* The serialization is complete: no environment in which the OS lock fails, or
\* a single process, for which the thread lock is enough.
Serialized == LockFaults = {} \/ \A p, q \in Process : p = q

\* One read-modify-write at a time over all processes (exclusive_store_lock).
OneWriter ==
    Serialized =>
        \A t, u \in Thread : t # u => ~(pc[t] \in InBody /\ pc[u] \in InBody)

\* Between the load and the rename the file is still the content that was loaded,
\* so what set or unset saves drops nobody else's change (FileBackend.set, unset).
NoStaleSave ==
    Serialized =>
        \A t \in Thread :
            pc[t] \in {"stage", "write", "rename"} => snapshot[t] = Loaded(file)

\* A set or unset that is about to return success leaves a file that a power loss
\* cannot take back, until the next write (write_bytes_atomic, _fsync_dir).
AckedWriteSurvives ==
    Serialized /\ DirSync =>
        \A t \in Thread :
            pc[t] = "unlock" /\ outcome[t] = Ok /\ snapshot[t] # None
                => recoverable = {file}

\* Neither a reader nor a restart after a crash or power loss ever finds a torn file
\* where there was none (write_bytes_atomic: "never left partially written").
NeverTorn ==
    [][(Malformed \in recoverable' \cup {file'}) => (Malformed \in recoverable)]_vars

\* No operation turns a store of one layout into the other while it holds a secret,
\* nor overwrites a file it cannot parse (parse_store's faults stop the write).
Layouts(c) == {ns \in Scope : Loads(c, ns)}

LayoutKept ==
    [][PowerLoss \/ file' = file \/ \E ns \in Layouts(file) : ns \in Layouts(file')]_vars

\* No namespace is left behind as an empty object (FileBackend.unset).
EmptyNamespaces(c) == IF c \in NestedStore THEN {ns \in DOMAIN c : c[ns] = EmptyStore} ELSE {}

NoEmptiedNamespace ==
    [][PowerLoss \/ EmptyNamespaces(file') \subseteq EmptyNamespaces(file)]_vars

\* While no process has died, a temporary file, which holds every secret in plain
\* text, outlives its write only where a first failure broke the write off and a
\* second one the unlink that cleans up (write_bytes_atomic: "a debris .tmp can
\* survive only if the cleanup unlink itself also fails").
DebrisNeedsTwoFailures == deaths = 0 => 2 * debris <= faults

\* Proceeding without the OS lock is never silent (_warn_no_oslock_once).
DegradationAnnounced ==
    \A t \in Thread :
        pc[t] \in InBody /\ osLock # t => warned[ProcOf[t]]

\* Every call returns, or its process dies under it.
EveryCallReturns ==
    \A t \in Thread : pc[t] # "idle" ~> pc[t] = "idle"

-----------------------------------------------------------------------------
(* The refinement mapping *)

PhaseOf(p) ==
    CASE p = "idle" -> "idle"
      [] p = "sync_dir" -> "applied"
      [] p \in {"answered", "cleanup", "unlock", "release", "return"} -> "done"
      [] OTHER -> "called"

Promise == INSTANCE SecretStore WITH
    Client <- Thread,
    store  <- file,
    phase  <- [t \in Thread |-> PhaseOf(pc[t])]

\* The backend keeps the promise of SecretStore: each set and unset is atomic
\* and applies to the content of that instant, each get answers from one content.
ImplementsSecretStore == Promise!Spec
=============================================================================
