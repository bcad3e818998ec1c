------------------------------ MODULE FileLock ------------------------------
(***************************************************************************)
(* The single-instance lock: FileLock objects of different runs of a job,  *)
(* all bound to the same .lock file.  acquire() never blocks: it holds the *)
(* lock, reports that another run has it, or, on a file system that cannot *)
(* lock, falls open or refuses according to require_lock.                  *)
(*                                                                         *)
(* Each object is driven by one thread of its own process, as `with        *)
(* FileLock(...)` or single_instance does: acquire, run the body, release. *)
(* acquire() while held and release() while not held change nothing and    *)
(* are left out.                                                           *)
(***************************************************************************)
CONSTANTS
    Lock,         \* FileLock objects on one path
    Requiring,    \* those built with require_lock=True
    Strict,       \* those whose process turns warnings into errors
    LockFaults,   \* what flock may report besides success and contention
    None

ASSUME FileLockAssumption ==
    /\ Requiring \subseteq Lock /\ Strict \subseteq Lock
    /\ LockFaults \subseteq {"unsupported", "error"}
    /\ None \notin Lock

VARIABLES
    pc,           \* where each run is
    handle,       \* _handle is not None
    unavailable,  \* _lock_unavailable
    osOwner,      \* the object whose open handle has the flock
    result        \* how its last acquire ended

vars == <<pc, handle, unavailable, osOwner, result>>

Result == {"none", "acquired", "skipped", "unavailable", "error"}

TypeOK ==
    /\ pc \in [Lock -> {"idle", "open", "flock", "keep", "body", "close"}]
    /\ handle \in [Lock -> BOOLEAN]
    /\ unavailable \in [Lock -> BOOLEAN]
    /\ osOwner \in Lock \cup {None}
    /\ result \in [Lock -> Result]

Goto(l, p) == pc' = [pc EXCEPT ![l] = p]

\* acquire() ends with r; a handle it opened and did not keep is closed.
Ends(l, r) == Goto(l, "idle") /\ result' = [result EXCEPT ![l] = r]

Init ==
    /\ pc = [l \in Lock |-> "idle"]
    /\ handle = [l \in Lock |-> FALSE]
    /\ unavailable = [l \in Lock |-> FALSE]
    /\ osOwner = None
    /\ result = [l \in Lock |-> "none"]

-----------------------------------------------------------------------------
(* acquire *)

StartAcquire(l) ==
    /\ pc[l] = "idle"
    /\ unavailable' = [unavailable EXCEPT ![l] = FALSE]
    /\ result' = [result EXCEPT ![l] = "none"]
    /\ Goto(l, "open")
    /\ UNCHANGED <<handle, osOwner>>

Open(l) ==
    /\ pc[l] = "open"
    /\ Goto(l, "flock")
    /\ UNCHANGED <<handle, unavailable, osOwner, result>>

\* runtime_dir or open raises.
OpenFails(l) ==
    /\ pc[l] = "open"
    /\ Ends(l, "error")
    /\ UNCHANGED <<handle, unavailable, osOwner>>

\* lock_exclusive(blocking=False): ACQUIRED
TakeLock(l) ==
    /\ pc[l] = "flock"
    /\ osOwner = None
    /\ osOwner' = l
    /\ Goto(l, "keep")
    /\ UNCHANGED <<handle, unavailable, result>>

\* CONTENDED: another handle has the lock ...
Contended(l) ==
    /\ pc[l] = "flock"
    /\ osOwner # None
    /\ Ends(l, "skipped")
    /\ UNCHANGED <<handle, unavailable, osOwner>>

\* ... or flock failed with an errno that does not say "cannot lock here".
OperationFails(l) ==
    /\ pc[l] = "flock" /\ "error" \in LockFaults
    /\ Ends(l, "skipped")
    /\ UNCHANGED <<handle, unavailable, osOwner>>

\* UNSUPPORTED, and this run must not go on without the lock: require_lock, or
\* the warning raised.
FailClosed(l) ==
    /\ pc[l] = "flock" /\ "unsupported" \in LockFaults
    /\ l \in Requiring \cup Strict
    /\ Ends(l, "unavailable")
    /\ UNCHANGED <<handle, unavailable, osOwner>>

\* Mutant: the fall-open is not recorded.
FallOpenUnrecorded(l) ==
    /\ pc[l] = "flock" /\ "unsupported" \in LockFaults
    /\ l \notin Requiring \cup Strict
    /\ Goto(l, "keep")
    /\ UNCHANGED <<handle, unavailable, osOwner, result>>

\* Mutant: require_lock is not consulted.
FallOpenAlways(l) ==
    /\ pc[l] = "flock" /\ "unsupported" \in LockFaults
    /\ l \notin Strict
    /\ unavailable' = [unavailable EXCEPT ![l] = TRUE]
    /\ Goto(l, "keep")
    /\ UNCHANGED <<handle, osOwner, result>>

\* UNSUPPORTED, and the run goes on without a guard.
FallOpen(l) ==
    /\ pc[l] = "flock" /\ "unsupported" \in LockFaults
    /\ l \notin Requiring \cup Strict
    /\ unavailable' = [unavailable EXCEPT ![l] = TRUE]
    /\ Goto(l, "keep")
    /\ UNCHANGED <<handle, osOwner, result>>

\* self._handle = handle; return True; the body starts.
Keep(l) ==
    /\ pc[l] = "keep"
    /\ handle' = [handle EXCEPT ![l] = TRUE]
    /\ result' = [result EXCEPT ![l] = "acquired"]
    /\ Goto(l, "body")
    /\ UNCHANGED <<unavailable, osOwner>>

-----------------------------------------------------------------------------
(* release, and the end of the process *)

\* Mutant: the flag of the hold that ends is kept.
ReleaseKeepsFlag(l) ==
    /\ pc[l] = "body"
    /\ handle' = [handle EXCEPT ![l] = FALSE]
    /\ Goto(l, "close")
    /\ UNCHANGED <<unavailable, osOwner, result>>

\* The body is over: the object reports "not held" before the lock is free.
Release(l) ==
    /\ pc[l] = "body"
    /\ handle' = [handle EXCEPT ![l] = FALSE]
    /\ unavailable' = [unavailable EXCEPT ![l] = FALSE]
    /\ Goto(l, "close")
    /\ UNCHANGED <<osOwner, result>>

\* Mutant: a failing unlock leaves the handle open.
CloseUnlessUnlockFails(l) ==
    /\ pc[l] = "close"
    /\ osOwner' \in {osOwner, IF osOwner = l THEN None ELSE osOwner}
    /\ Goto(l, "idle")
    /\ UNCHANGED <<handle, unavailable, result>>

\* unlock, its error swallowed; closing the handle frees the lock either way.
Close(l) ==
    /\ pc[l] = "close"
    /\ osOwner' = IF osOwner = l THEN None ELSE osOwner
    /\ Goto(l, "idle")
    /\ UNCHANGED <<handle, unavailable, result>>

\* The process dies anywhere; the kernel frees its lock.
Crash(l) ==
    /\ pc[l] # "idle"
    /\ osOwner' = IF osOwner = l THEN None ELSE osOwner
    /\ handle' = [handle EXCEPT ![l] = FALSE]
    /\ unavailable' = [unavailable EXCEPT ![l] = FALSE]
    /\ result' = [result EXCEPT ![l] = "none"]
    /\ Goto(l, "idle")

-----------------------------------------------------------------------------

acquire(l) == \/ StartAcquire(l) \/ Open(l) \/ OpenFails(l) \/ TakeLock(l) \/ Contended(l)
              \/ OperationFails(l) \/ FailClosed(l) \/ FallOpen(l) \/ Keep(l)

release(l) == Release(l) \/ Close(l)

Next == \E l \in Lock : acquire(l) \/ release(l) \/ Crash(l)

\* A run that holds the lock goes on to its end: its body terminates.
Finish(l) == pc[l] \in {"keep", "body", "close"} /\ (Keep(l) \/ release(l))

Spec == Init /\ [][Next]_vars
FairSpec == Spec /\ \A l \in Lock : WF_vars(Finish(l))

-----------------------------------------------------------------------------
(* Properties *)

\* Two runs whose lock_unavailable is False never execute their bodies at once
\* (FileLock: "so two runs of the same job do not overlap").
GuardedRunsExclusive ==
    \A l, m \in Lock :
        l # m /\ handle[l] /\ handle[m] => unavailable[l] \/ unavailable[m]

\* lock_unavailable is True exactly while the object is held without an OS lock
\* behind it, and it is of this hold, never of an earlier one.
HoldReported ==
    \A l \in Lock :
        pc[l] \in {"idle", "body"} => (unavailable[l] <=> handle[l] /\ osOwner # l)

\* A run that asked for require_lock never executes its body without the OS lock.
RequiredNeverUnguarded ==
    \A l \in Requiring : handle[l] => osOwner = l

\* No stale lock: the lock file becomes free again after every hold, though an
\* unlock fails or the holder crashes.
LockComesFree ==
    \A l \in Lock : osOwner = l ~> osOwner # l
=============================================================================
