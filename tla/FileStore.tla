----------------------------- MODULE FileStore -----------------------------
(***************************************************************************)
(* FileBackend: credentials.json shared by the threads of several          *)
(* processes.  A set or unset loads the file, changes one entry, stages    *)
(* the new content in a temporary file and renames it over the old one,    *)
(* the whole under exclusive_store_lock: a threading.Lock per process and  *)
(* an flock between processes, which degrades to the thread lock alone     *)
(* where the OS lock cannot be taken.  get and names take no lock.         *)
(*                                                                         *)
(* One action is one step another thread or process, a crash or a power    *)
(* loss can fall between.  The POSIX build is modelled.                    *)
(***************************************************************************)
EXTENDS StoreContent, FiniteSets

CONSTANTS
    Thread, Process, ProcOf,  \* the callers and the process each runs in
    LockId,                   \* identities of threading.Lock objects
    Ops,                      \* the operations the callers issue
    InitContent,              \* contents the file may start with
    DirSync,                  \* the file system can fsync a directory
    LockFaults,               \* ways the OS lock can be unavailable here
    MaxCalls,                 \* bound: calls issued in a behaviour
    MaxFaults                 \* bound: I/O errors and interrupts, crashes and power losses

ASSUME FileStoreAssumption ==
    /\ IsFiniteSet(Thread)
    /\ ProcOf \in [Thread -> Process]
    /\ None \notin Thread \cup LockId
    /\ LockId # {}
    /\ Ops \subseteq Op
    /\ InitContent \subseteq Content
    /\ DirSync \in BOOLEAN
    /\ LockFaults \subseteq {"open", "flock"}
    /\ MaxCalls \in Nat /\ MaxFaults \in Nat

VARIABLES
    file,         \* what the path holds for every reader
    recoverable,  \* what the path may hold after a power loss
    debris,       \* how many temporary files no call will remove any more
    temp,         \* each writer's temporary file, None when it has none
    snapshot,     \* the map each writer loaded
    pc,           \* where each thread is
    call,         \* the operation it executes
    outcome,      \* its result, once decided
    registry,     \* _thread_lock_by_store_path[path] of each process
    lockRef,      \* each thread's own reference to a thread lock
    lockHolder,   \* which thread of a process holds which lock object
    osLock,       \* the thread whose handle has the flock
    warned,       \* the path is in the process's _warned_no_oslock
    calls,        \* counts the calls issued,
    faults,       \* the failures that hit a call: I/O errors, interrupts,
    deaths        \* and those that end a process: crashes, power losses

fileVars == <<file, recoverable, debris>>
lockVars == <<registry, lockRef, lockHolder, osLock, warned>>
vars == <<file, recoverable, debris, temp, snapshot, pc, call, outcome, registry,
          lockRef, lockHolder, osLock, warned, calls, faults, deaths>>

-----------------------------------------------------------------------------
(* Positions in exclusive_store_lock, set/unset and write_bytes_atomic *)

Writing      == {"write", "rename", "cleanup"}           \* a temporary file exists
InBody       == {"load", "stage", "sync_dir"} \cup Writing
InCritical   == InBody \cup {"unlock"}
HasThreadLock == {"open_lock", "flock", "release"} \cup InCritical
HasLockRef   == {"acquire", "return"} \cup HasThreadLock
Position     == {"idle", "read", "answered", "lookup"} \cup HasLockRef

Degraded(t) == pc[t] \in InCritical /\ osLock # t

Goto(t, p) == pc' = [pc EXCEPT ![t] = p]
Give(t, r) == outcome' = [outcome EXCEPT ![t] = r]

\* One more failure of the environment: it hits a call, or it ends a process.
Fault == faults + deaths < MaxFaults /\ faults' = faults + 1 /\ UNCHANGED deaths
Death == faults + deaths < MaxFaults /\ deaths' = deaths + 1 /\ UNCHANGED faults

Init ==
    /\ file \in InitContent
    /\ recoverable = {file}
    /\ debris = 0
    /\ temp = [t \in Thread |-> None]
    /\ snapshot = [t \in Thread |-> None]
    /\ pc = [t \in Thread |-> "idle"]
    /\ call = [t \in Thread |-> None]
    /\ outcome = [t \in Thread |-> None]
    /\ registry = [p \in Process |-> None]
    /\ lockRef = [t \in Thread |-> None]
    /\ lockHolder = [p \in Process |-> [k \in LockId |-> None]]
    /\ osLock = None
    /\ warned = [p \in Process |-> FALSE]
    /\ calls = 0 /\ faults = 0 /\ deaths = 0

-----------------------------------------------------------------------------
(* A call arrives.  get and names read the path once, under no lock. *)

Call(t) ==
    /\ pc[t] = "idle"
    /\ calls < MaxCalls
    /\ calls' = calls + 1
    /\ \E op \in Ops :
         /\ call' = [call EXCEPT ![t] = op]
         /\ Goto(t, IF IsWrite(op) THEN "lookup" ELSE "read")
    /\ UNCHANGED <<fileVars, temp, snapshot, outcome, lockVars, faults, deaths>>

Read(t) ==
    /\ pc[t] = "read"
    /\ Give(t, IF Loads(file, call[t].ns) THEN Answer(call[t], Loaded(file)) ELSE Error)
    /\ Goto(t, "answered")
    /\ UNCHANGED <<fileVars, temp, snapshot, call, lockVars, calls, faults, deaths>>

ReadFails(t) ==   \* an OSError that is no FileNotFoundError
    /\ pc[t] = "read"
    /\ Fault
    /\ Give(t, Error)
    /\ Goto(t, "answered")
    /\ UNCHANGED <<fileVars, temp, snapshot, call, lockVars, calls>>

\* Mutant: no strong reference keeps the registry's entry alive for the waiters.
ReturnCollectsLock(t) ==
    /\ pc[t] \in {"answered", "return"}
    /\ Goto(t, "idle")
    /\ call' = [call EXCEPT ![t] = None]
    /\ outcome' = [outcome EXCEPT ![t] = None]
    /\ lockRef' = [lockRef EXCEPT ![t] = None]
    /\ registry' = [registry EXCEPT ![ProcOf[t]] = None]
    /\ UNCHANGED <<fileVars, temp, snapshot, lockHolder, osLock, warned, calls, faults, deaths>>

\* get and names return; a set or unset also drops the frame's strong reference
\* to its lock.  The last one to go lets the registry's weak entry be collected.
Return(t) ==
    /\ pc[t] \in {"answered", "return"}
    /\ Goto(t, "idle")
    /\ call' = [call EXCEPT ![t] = None]
    /\ outcome' = [outcome EXCEPT ![t] = None]
    /\ lockRef' = [lockRef EXCEPT ![t] = None]
    /\ registry' = [registry EXCEPT ![ProcOf[t]] =
         IF \E u \in Thread : ProcOf[u] = ProcOf[t] /\ lockRef'[u] # None
         THEN @ ELSE None]
    /\ UNCHANGED <<fileVars, temp, snapshot, lockHolder, osLock, warned, calls, faults, deaths>>

-----------------------------------------------------------------------------
(* exclusive_store_lock, entry *)

\* A lock object no thread of process p refers to.
NewLock(p) ==
    CHOOSE k \in LockId : \A u \in Thread : ProcOf[u] = p => lockRef[u] # k

\* _thread_lock_for: one registry lookup under its guard.
GetThreadLock(t) ==
    LET p == ProcOf[t]
        k == IF registry[p] # None THEN registry[p] ELSE NewLock(p)
    IN  /\ pc[t] = "lookup"
        /\ registry' = [registry EXCEPT ![p] = k]
        /\ lockRef' = [lockRef EXCEPT ![t] = k]
        /\ Goto(t, "acquire")
        /\ UNCHANGED <<fileVars, temp, snapshot, call, outcome, lockHolder, osLock,
                       warned, calls, faults, deaths>>

AcquireThreadLock(t) ==
    /\ pc[t] = "acquire"
    /\ lockHolder[ProcOf[t]][lockRef[t]] = None
    /\ lockHolder' = [lockHolder EXCEPT ![ProcOf[t]][lockRef[t]] = t]
    /\ Goto(t, "open_lock")
    /\ UNCHANGED <<fileVars, temp, snapshot, call, outcome, registry, lockRef, osLock,
                   warned, calls, faults, deaths>>

\* Mutant: the lock file is opened and never locked.
OpenLockFileOnly(t) ==
    /\ pc[t] = "open_lock"
    /\ Goto(t, "load")
    /\ UNCHANGED <<fileVars, temp, snapshot, call, outcome, lockVars, calls, faults, deaths>>

\* restrict_dir_to_owner is best effort; then the .lock file is opened.
OpenLockFile(t) ==
    /\ pc[t] = "open_lock"
    /\ Goto(t, "flock")
    /\ UNCHANGED <<fileVars, temp, snapshot, call, outcome, lockVars, calls, faults, deaths>>

\* Mutant: a shared lock in place of the exclusive one.
LockShared(t) ==
    /\ pc[t] = "flock"
    /\ osLock' = t
    /\ Goto(t, "load")
    /\ UNCHANGED <<fileVars, temp, snapshot, call, outcome, registry, lockRef,
                   lockHolder, warned, calls, faults, deaths>>

\* A blocking flock: no step while another handle has it.
LockExclusive(t) ==
    /\ pc[t] = "flock"
    /\ osLock = None
    /\ osLock' = t
    /\ Goto(t, "load")
    /\ UNCHANGED <<fileVars, temp, snapshot, call, outcome, registry, lockRef,
                   lockHolder, warned, calls, faults, deaths>>

\* Mutant: the lock file that cannot be opened is passed over in silence.
DegradeSilently(t) ==
    /\ \/ pc[t] = "open_lock" /\ "open" \in LockFaults
       \/ pc[t] = "flock" /\ "flock" \in LockFaults
    /\ Goto(t, "load")
    /\ UNCHANGED <<fileVars, temp, snapshot, call, outcome, lockVars, calls, faults, deaths>>

\* No .lock file, or flock reports an error of any kind: proceed under the
\* thread lock alone, announced once per process.
Degrade(t) ==
    /\ \/ pc[t] = "open_lock" /\ "open" \in LockFaults
       \/ pc[t] = "flock" /\ "flock" \in LockFaults
    /\ warned' = [warned EXCEPT ![ProcOf[t]] = TRUE]
    /\ Goto(t, "load")
    /\ UNCHANGED <<fileVars, temp, snapshot, call, outcome, registry, lockRef,
                   lockHolder, osLock, calls, faults, deaths>>

-----------------------------------------------------------------------------
(* The read-modify-write *)

\* Mutant: a missing file is not turned into an empty map.
LoadKeepsAbsent(t) ==
    /\ pc[t] = "load"
    /\ Loads(file, call[t].ns)
    /\ Writes(call[t], Loaded(file))
    /\ snapshot' = [snapshot EXCEPT ![t] = file]
    /\ Goto(t, "stage")
    /\ UNCHANGED <<fileVars, temp, call, outcome, lockVars, calls, faults, deaths>>

\* Load the store and, when there is something to write, keep the map.
Load(t) ==
    /\ pc[t] = "load"
    /\ Loads(file, call[t].ns)
    /\ Writes(call[t], Loaded(file))
    /\ snapshot' = [snapshot EXCEPT ![t] = Loaded(file)]
    /\ Goto(t, "stage")
    /\ UNCHANGED <<fileVars, temp, call, outcome, lockVars, calls, faults, deaths>>

\* unset finds nothing to remove: no save.
LoadNothing(t) ==
    /\ pc[t] = "load"
    /\ Loads(file, call[t].ns)
    /\ ~Writes(call[t], Loaded(file))
    /\ Give(t, Ok)
    /\ Goto(t, "unlock")
    /\ UNCHANGED <<fileVars, temp, snapshot, call, lockVars, calls, faults, deaths>>

\* Mutant: a file that does not parse is taken for an empty one.
LoadFaultsAsEmpty(t) ==
    /\ pc[t] = "load"
    /\ ~Loads(file, call[t].ns)
    /\ snapshot' = [snapshot EXCEPT ![t] = EmptyStore]
    /\ Goto(t, "stage")
    /\ UNCHANGED <<fileVars, temp, call, outcome, lockVars, calls, faults, deaths>>

\* The file is malformed or in the other layout: CredentialsError.
LoadFaults(t) ==
    /\ pc[t] = "load"
    /\ ~Loads(file, call[t].ns)
    /\ Give(t, Error)
    /\ Goto(t, "unlock")
    /\ UNCHANGED <<fileVars, temp, snapshot, call, lockVars, calls, faults, deaths>>

NewContent(t) == Apply(call[t], snapshot[t])

\* _save: serialize, then mkstemp beside the target.
Stage(t) ==
    /\ pc[t] = "stage"
    /\ serialize_store(NewContent(t))
    /\ temp' = [temp EXCEPT ![t] = [data |-> Malformed, synced |-> FALSE]]
    /\ Goto(t, "write")
    /\ UNCHANGED <<fileVars, snapshot, call, outcome, lockVars, calls, faults, deaths>>

NotEncodable(t) ==
    /\ pc[t] = "stage"
    /\ ~serialize_store(NewContent(t))
    /\ Give(t, Error)
    /\ Goto(t, "unlock")
    /\ UNCHANGED <<fileVars, temp, snapshot, call, lockVars, calls, faults, deaths>>

\* Mutant: no fsync before the rename.
WriteTempUnsynced(t) ==
    /\ pc[t] = "write"
    /\ temp' = [temp EXCEPT ![t] = [data |-> NewContent(t), synced |-> FALSE]]
    /\ Goto(t, "rename")
    /\ UNCHANGED <<fileVars, snapshot, call, outcome, lockVars, calls, faults, deaths>>

\* fdopen, fchmod 0600, write, flush, fsync of the temporary file.
WriteTemp(t) ==
    /\ pc[t] = "write"
    /\ temp' = [temp EXCEPT ![t] = [data |-> NewContent(t), synced |-> TRUE]]
    /\ Goto(t, "rename")
    /\ UNCHANGED <<fileVars, snapshot, call, outcome, lockVars, calls, faults, deaths>>

\* What a power loss leaves of a renamed file whose bytes were not synced.
OnDisk(w) == IF w.synced THEN w.data ELSE Malformed

\* os.replace is atomic, and not durable before the directory is synced.
Rename(t) ==
    /\ pc[t] = "rename"
    /\ file' = temp[t].data
    /\ recoverable' = recoverable \cup {OnDisk(temp[t])}
    /\ temp' = [temp EXCEPT ![t] = None]
    /\ Goto(t, "sync_dir")
    /\ UNCHANGED <<debris, snapshot, call, outcome, lockVars, calls, faults, deaths>>

\* Mutant: the rename is reported done without syncing the directory.
SyncDirSkipped(t) ==
    /\ pc[t] = "sync_dir"
    /\ Give(t, Ok)
    /\ Goto(t, "unlock")
    /\ UNCHANGED <<fileVars, temp, snapshot, call, lockVars, calls, faults, deaths>>

\* _fsync_dir; where a directory cannot be synced the rename is all there is.
SyncDir(t) ==
    /\ pc[t] = "sync_dir"
    /\ recoverable' = IF DirSync THEN {file} ELSE recoverable
    /\ Give(t, Ok)
    /\ Goto(t, "unlock")
    /\ UNCHANGED <<file, debris, temp, snapshot, call, lockVars, calls, faults, deaths>>

-----------------------------------------------------------------------------
(* Failures: an OSError (ENOSPC, EIO, ...) or a KeyboardInterrupt *)

\* An interrupt in exclusive_store_lock's entry: waiting for the registry or for
\* the thread lock nothing is held yet, and opening the lock file only the latter.
AfterInterrupt == [lookup |-> "answered", acquire |-> "return", open_lock |-> "release"]

InterruptedEntering(t) ==
    /\ pc[t] \in DOMAIN AfterInterrupt
    /\ Fault
    /\ Give(t, Error)
    /\ Goto(t, AfterInterrupt[pc[t]])
    /\ UNCHANGED <<fileVars, temp, snapshot, call, lockVars, calls>>

\* Waiting for the flock, reading, or creating the temporary file.
FailsWithoutTemp(t) ==
    /\ pc[t] \in {"flock", "load", "stage"}
    /\ Fault
    /\ Give(t, Error)
    /\ Goto(t, "unlock")
    /\ UNCHANGED <<fileVars, temp, snapshot, call, lockVars, calls>>

\* Mutant: only an OSError cleans up, an interrupt does not.
FailsLeavingTemp(t) ==
    /\ pc[t] \in {"write", "rename"}
    /\ Fault
    /\ debris' = debris + 1
    /\ temp' = [temp EXCEPT ![t] = None]
    /\ Give(t, Error)
    /\ Goto(t, "unlock")
    /\ UNCHANGED <<file, recoverable, snapshot, call, lockVars, calls>>

\* Writing or renaming: the temporary file has to go.
FailsWithTemp(t) ==
    /\ pc[t] \in {"write", "rename"}
    /\ Fault
    /\ Give(t, Error)
    /\ Goto(t, "cleanup")
    /\ UNCHANGED <<fileVars, temp, snapshot, call, lockVars, calls>>

Cleanup(t) ==
    /\ pc[t] = "cleanup"
    /\ temp' = [temp EXCEPT ![t] = None]
    /\ Goto(t, "unlock")
    /\ UNCHANGED <<fileVars, snapshot, call, outcome, lockVars, calls, faults, deaths>>

\* The unlink is best effort: when it fails too the file stays, secrets and all,
\* under its random name, which no operation ever opens again.
UnlinkFails(t) ==
    /\ pc[t] = "cleanup"
    /\ Fault
    /\ debris' = debris + 1
    /\ temp' = [temp EXCEPT ![t] = None]
    /\ Goto(t, "unlock")
    /\ UNCHANGED <<file, recoverable, snapshot, call, outcome, lockVars, calls>>

\* Mutant: a real error of the directory sync is swallowed.
SyncDirErrorIgnored(t) ==
    /\ pc[t] = "sync_dir"
    /\ Fault
    /\ Give(t, Ok)
    /\ Goto(t, "unlock")
    /\ UNCHANGED <<fileVars, temp, snapshot, call, lockVars, calls>>

\* After the rename there is no temporary file left to unlink; the caller gets
\* an error although the path holds the new content.
SyncDirFails(t) ==
    /\ pc[t] = "sync_dir"
    /\ Fault
    /\ Give(t, Error)
    /\ Goto(t, "unlock")
    /\ UNCHANGED <<fileVars, temp, snapshot, call, lockVars, calls>>

-----------------------------------------------------------------------------
(* exclusive_store_lock, exit *)

\* Only a thread that took the flock unlocks; then the handle is closed.
Unlock(t) ==
    /\ pc[t] = "unlock"
    /\ osLock' = IF osLock = t THEN None ELSE osLock
    /\ snapshot' = [snapshot EXCEPT ![t] = None]
    /\ Goto(t, "release")
    /\ UNCHANGED <<fileVars, temp, call, outcome, registry, lockRef, lockHolder,
                   warned, calls, faults, deaths>>

\* Mutant: the handle is not closed when unlock raises, and keeps the flock.
UnlockFailsHolding(t) ==
    /\ pc[t] = "unlock"
    /\ Fault
    /\ Give(t, Error)
    /\ snapshot' = [snapshot EXCEPT ![t] = None]
    /\ Goto(t, "release")
    /\ UNCHANGED <<fileVars, temp, call, lockVars, calls>>

\* unlock or close raises: the handle is closed all the same, which gives up the
\* flock, but the error replaces the result of a write that is in place and synced.
UnlockFails(t) ==
    /\ pc[t] = "unlock"
    /\ Fault
    /\ osLock' = IF osLock = t THEN None ELSE osLock
    /\ Give(t, Error)
    /\ snapshot' = [snapshot EXCEPT ![t] = None]
    /\ Goto(t, "release")
    /\ UNCHANGED <<fileVars, temp, call, registry, lockRef, lockHolder, warned, calls>>

ReleaseThreadLock(t) ==
    /\ pc[t] = "release"
    /\ lockHolder' = [lockHolder EXCEPT ![ProcOf[t]][lockRef[t]] = None]
    /\ Goto(t, "return")
    /\ UNCHANGED <<fileVars, temp, snapshot, call, outcome, registry, lockRef, osLock,
                   warned, calls, faults, deaths>>

-----------------------------------------------------------------------------
(* Crashes: the memory of the threads of P is lost.  The kernel drops the   *)
(* flock of a dead process; its temporary files stay as debris.             *)

Wiped(f, S, init) == [x \in DOMAIN f |-> IF x \in S THEN init ELSE f[x]]

Of(P) == {t \in Thread : ProcOf[t] \in P}

Lost(P) ==
    LET gone == Of(P)
    IN  /\ temp' = Wiped(temp, gone, None)
        /\ snapshot' = Wiped(snapshot, gone, None)
        /\ pc' = Wiped(pc, gone, "idle")
        /\ call' = Wiped(call, gone, None)
        /\ outcome' = Wiped(outcome, gone, None)
        /\ lockRef' = Wiped(lockRef, gone, None)
        /\ registry' = Wiped(registry, P, None)
        /\ lockHolder' = Wiped(lockHolder, P, [k \in LockId |-> None])
        /\ warned' = Wiped(warned, P, FALSE)
        /\ osLock' = IF osLock \in gone THEN None ELSE osLock

Crash(p) ==
    /\ \E t \in Of({p}) : pc[t] # "idle"
    /\ Death
    /\ Lost({p})
    /\ debris' = debris + Cardinality({t \in Of({p}) : temp[t] # None})
    /\ UNCHANGED <<file, recoverable, calls>>

\* Which temporary names a power loss leaves is up to the file system; that of a
\* rename it takes back may be among them.
PowerLoss ==
    /\ Death
    /\ file' \in recoverable
    /\ recoverable' = {file'}
    /\ debris' \in 0 .. debris + Cardinality({t \in Thread : pc[t] \in Writing \cup {"sync_dir"}})
    /\ Lost(Process)
    /\ UNCHANGED calls

-----------------------------------------------------------------------------

Lock(t) == \/ GetThreadLock(t) \/ AcquireThreadLock(t) \/ OpenLockFile(t)
           \/ LockExclusive(t)

Body(t) == \/ Load(t) \/ LoadNothing(t) \/ LoadFaults(t) \/ Stage(t) \/ NotEncodable(t)
           \/ WriteTemp(t) \/ Rename(t) \/ SyncDir(t) \/ Cleanup(t)

Exit(t) == Unlock(t) \/ ReleaseThreadLock(t) \/ Return(t)

\* What the thread itself executes ...
Run(t) == Read(t) \/ Lock(t) \/ Body(t) \/ Exit(t)

\* ... as opposed to what befalls it.
Fails(t) == \/ ReadFails(t) \/ InterruptedEntering(t) \/ Degrade(t)
            \/ FailsWithoutTemp(t) \/ FailsWithTemp(t) \/ UnlinkFails(t)
            \/ SyncDirFails(t) \/ UnlockFails(t)

Next == \/ \E t \in Thread : Call(t) \/ Run(t) \/ Fails(t)
        \/ \E p \in Process : Crash(p)
        \/ PowerLoss

Spec == Init /\ [][Next]_vars

\* The scheduler runs every thread that can run; nothing that merely befalls one is
\* fair, so a thread that waits for a lock depends on its holder.  Neither lock is
\* fair, but with MaxCalls calls a lock is taken finitely often, so weak fairness
\* is enough.
FairSpec == Spec /\ \A t \in Thread : WF_vars(Run(t))
=============================================================================
