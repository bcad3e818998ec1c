------------------------ MODULE SingleInstance_proofs ------------------------
(***************************************************************************)
(* The single-instance lock, for any number of runs and any mix of         *)
(* require_lock, warning filters and faults: guarded runs never overlap.   *)
(* And the directory of its lock file, however often the other user        *)
(* interferes: what was verified is still there when it is tightened and   *)
(* when the lock file is opened in it.                                     *)
(***************************************************************************)
EXTENDS SingleInstance, TLAPS

-----------------------------------------------------------------------------
(* The lock *)

\* The object whose handle has the flock is past it and before its close.
OwnerHolds ==
    osOwner # None => pc[osOwner] \in {"keep", "body", "close"}

\* The handle is kept for the body and for nothing else.
HandleInBody ==
    \A l \in Lock : handle[l] <=> pc[l] = "body"

\* Once past flock, an object has the OS lock or is marked as without one.
FlagTruthful ==
    \A l \in Lock :
        /\ pc[l] \in {"keep", "body"} => (unavailable[l] <=> osOwner # l)
        /\ pc[l] \notin {"keep", "body"} => ~unavailable[l]

\* The mark is never set on an object that asked for a lock it can rely on.
OnlyTolerant ==
    \A l \in Lock : unavailable[l] => l \notin Requiring

IInv == TypeOK /\ OwnerHolds /\ HandleInBody /\ FlagTruthful /\ OnlyTolerant

\* The inductive invariant holds initially.
LEMMA InitIInv == Init => IInv
  BY FileLockAssumption
     DEF Init, IInv, TypeOK, OwnerHolds, HandleInBody, FlagTruthful, OnlyTolerant, Result

\* Every step of acquire keeps it.
LEMMA AcquireIInv ==
    ASSUME IInv, NEW l \in Lock, acquire(l)
    PROVE  IInv'
<1> USE FileLockAssumption
    DEF IInv, TypeOK, OwnerHolds, HandleInBody, FlagTruthful, OnlyTolerant, Goto, Ends, Result
<1>1. CASE StartAcquire(l)
  BY <1>1 DEF StartAcquire
<1>2. CASE Open(l)
  BY <1>2 DEF Open
<1>3. CASE OpenFails(l)
  BY <1>3 DEF OpenFails
<1>4. CASE TakeLock(l)
  BY <1>4 DEF TakeLock
<1>5. CASE Contended(l)
  BY <1>5 DEF Contended
<1>6. CASE OperationFails(l)
  BY <1>6 DEF OperationFails
<1>7. CASE FailClosed(l)
  BY <1>7 DEF FailClosed
<1>8. CASE FallOpen(l)
  BY <1>8 DEF FallOpen
<1>9. CASE Keep(l)
  BY <1>9 DEF Keep
<1>q. QED
  BY <1>1, <1>2, <1>3, <1>4, <1>5, <1>6, <1>7, <1>8, <1>9 DEF acquire

\* So does every step of release, and a crash.
LEMMA ReleaseIInv ==
    ASSUME IInv, NEW l \in Lock, release(l) \/ Crash(l)
    PROVE  IInv'
<1> USE FileLockAssumption
    DEF IInv, TypeOK, OwnerHolds, HandleInBody, FlagTruthful, OnlyTolerant, Goto, Result
<1>1. CASE Release(l)
  BY <1>1 DEF Release
<1>2. CASE Close(l)
  BY <1>2 DEF Close
<1>3. CASE Crash(l)
  BY <1>3 DEF Crash
<1>q. QED
  BY <1>1, <1>2, <1>3 DEF release

\* The inductive invariant is an invariant of the specification.
THEOREM LockInvariance == Spec => []IInv
<1>1. IInv /\ [Next]_vars => IInv'
  <2> SUFFICES ASSUME IInv, [Next]_vars PROVE IInv'
    OBVIOUS
  <2>1. CASE \E l \in Lock : acquire(l)
    BY <2>1, AcquireIInv
  <2>2. CASE \E l \in Lock : release(l) \/ Crash(l)
    BY <2>2, ReleaseIInv
  <2>3. CASE UNCHANGED vars
    BY <2>3 DEF IInv, TypeOK, OwnerHolds, HandleInBody, FlagTruthful, OnlyTolerant, vars
  <2>q. QED
    BY <2>1, <2>2, <2>3 DEF Next
<1>q. QED
  BY InitIInv, <1>1, PTL DEF Spec

\* Two runs whose lock_unavailable is False never execute their bodies at once,
\* however many runs there are: both would have the one OS lock.
THEOREM GuardedRunsNeverOverlap == Spec => []GuardedRunsExclusive
<1>1. IInv => GuardedRunsExclusive
  BY DEF IInv, HandleInBody, FlagTruthful, GuardedRunsExclusive
<1>q. QED
  BY LockInvariance, <1>1, PTL

\* lock_unavailable tells a body, at any time in it, whether the OS lock is behind
\* it, and is False between two holds (FileLock.lock_unavailable).
THEOREM HoldsAreReported == Spec => []HoldReported
<1>1. IInv => HoldReported
  BY DEF IInv, TypeOK, HandleInBody, FlagTruthful, HoldReported
<1>q. QED
  BY LockInvariance, <1>1, PTL

\* require_lock=True runs no body without the OS lock (FileLock.acquire).
THEOREM RequiredRunsAreGuarded == Spec => []RequiredNeverUnguarded
<1>1. IInv => RequiredNeverUnguarded
  BY FileLockAssumption
     DEF IInv, TypeOK, HandleInBody, FlagTruthful, OnlyTolerant, RequiredNeverUnguarded
<1>q. QED
  BY LockInvariance, <1>1, PTL

-----------------------------------------------------------------------------
(* The directories *)

Where == {"out", "mkdir", "chmod", "lstat", "verify", "ready", "raised"}

DirTypeOK ==
    /\ session \in BOOLEAN
    /\ path \in [Level -> Kind]
    /\ at \in [Lock -> Where]
    /\ level \in [Lock -> Level]
    /\ info \in [Lock -> Kind]

\* What a directory of ours, out of reach of the other user, can turn into: it is
\* tightened, and never loosened, removed or exchanged.
Settling(k) == {k, "tight"}

\* Nothing of the other user's gets into a root of ours that he cannot enter.
OutOfReach == {"tight", "sealed"}

\* A login manager's directory stays as it made it, and a run that has come to the
\* app's directory has a root that keeps the other user out.
RootSecured ==
    /\ session => path["root"] = "tight"
    /\ \A l \in Lock : level[l] = "app" => path["root"] \in OutOfReach

\* What a run made is its own until it has chmod'ed it ...
FreshIsOurs == \A l \in Lock : at[l] = "chmod" => Here(l) \in OutOfReach

\* ... what it saw by lstat is that still, or has been tightened ...
VerifiedStands ==
    \A l \in Lock : at[l] = "verify" /\ info[l] \in Ours => Here(l) \in Settling(info[l])

\* ... and when runtime_dir has returned, the app's directory is in nobody's reach.
ReadyInPrivate ==
    \A l \in Lock : at[l] = "ready" => level[l] = "app" /\ path["app"] \in OutOfReach

DirInv == DirTypeOK /\ RootSecured /\ FreshIsOurs /\ VerifiedStands /\ ReadyInPrivate

-----------------------------------------------------------------------------
(* What a step can do to a path *)

\* An owner's directory at the root, or below a root out of reach, only ever gets
\* tighter, whoever takes the step.
LEMMA PathSettles ==
    ASSUME DirInv, [RunNext]_allVars, NEW k \in Level,
           path[k] \in Ours, k = "root" \/ path["root"] \in OutOfReach
    PROVE  path'[k] \in Settling(path[k])
<1> USE DEF DirInv, DirTypeOK, Settling, Ours, Theirs, OutOfReach, Level, Kind
<1>1. ASSUME NEW l \in Lock, ensure_private_dir(l)
      PROVE  path'[k] \in Settling(path[k])
  <2>1. CASE MkDir(l)
    BY <2>1 DEF MkDir, Here
  <2>2. CASE ChmodFresh(l) \/ Accept(l)
    <3>1. path' = path \/ path' = [path EXCEPT ![level[l]] = "tight"]
      BY <2>2 DEF ChmodFresh, Accept, Tightened
    <3>2. QED
      BY <3>1
  <2>3. CASE Lstat(l) \/ Refuse(l) \/ DirFails(l)
    BY <2>3 DEF Lstat, Refuse, DirFails
  <2>4. QED
    BY <1>1, <2>1, <2>2, <2>3 DEF ensure_private_dir
<1>2. ASSUME NEW l \in Lock, Begin(l) \/ OpenLock(l) \/ OpenLockFails(l) \/ Locking(l) \/ Die(l)
      PROVE  path'[k] \in Settling(path[k])
  BY <1>2 DEF Begin, OpenLock, OpenLockFails, Locking, Die, Leave, dirVars
<1>3. CASE TakeRoot
  BY <1>3 DEF TakeRoot
<1>4. CASE TakeApp
  BY <1>4 DEF TakeApp
<1>5. CASE UNCHANGED allVars
  BY <1>5 DEF allVars, dirVars
<1>6. QED
  BY <1>1, <1>2, <1>3, <1>4, <1>5 DEF RunNext

\* So a root out of reach stays out of reach.
LEMMA RootStays ==
    ASSUME DirInv, [RunNext]_allVars, path["root"] \in OutOfReach
    PROVE  path'["root"] \in OutOfReach /\ (path["root"] = "tight" => path'["root"] = "tight")
<1>1. path'["root"] \in Settling(path["root"])
  BY PathSettles DEF Level, OutOfReach, Ours
<1>2. QED
  BY <1>1 DEF Settling, OutOfReach
\* The types are preserved.
LEMMA DirTypeStep == DirTypeOK /\ [RunNext]_allVars => DirTypeOK'
<1> SUFFICES ASSUME DirTypeOK, [RunNext]_allVars PROVE DirTypeOK'
  OBVIOUS
<1> USE DEF DirTypeOK, Level, Kind, Where, Theirs
<1>1. ASSUME NEW l \in Lock, ensure_private_dir(l)
      PROVE  DirTypeOK'
  <2>1. CASE MkDir(l)
    BY <2>1 DEF MkDir, Here, StepTo
  <2>2. CASE ChmodFresh(l) \/ Accept(l)
    BY <2>2 DEF ChmodFresh, Accept, Tightened, Here, Secured, StepTo
  <2>3. CASE Lstat(l) \/ Refuse(l) \/ DirFails(l)
    BY <2>3 DEF Lstat, Refuse, DirFails, Here, StepTo
  <2>4. QED
    BY <1>1, <2>1, <2>2, <2>3 DEF ensure_private_dir
<1>2. ASSUME NEW l \in Lock, Begin(l) \/ OpenLock(l) \/ OpenLockFails(l) \/ Locking(l) \/ Die(l)
      PROVE  DirTypeOK'
  BY <1>2 DEF Begin, OpenLock, OpenLockFails, Locking, Die, Leave, StepTo, FirstLevel, dirVars
<1>3. CASE TakeRoot
  BY <1>3 DEF TakeRoot, Intrude
<1>4. CASE TakeApp
  BY <1>4 DEF TakeApp, Intrude
<1>5. CASE UNCHANGED allVars
  BY <1>5 DEF allVars, dirVars
<1>6. QED
  BY <1>1, <1>2, <1>3, <1>4, <1>5 DEF RunNext

\* What the invariant says of one run.
RunInv(l) ==
    /\ level[l] = "app" => path["root"] \in OutOfReach
    /\ at[l] = "chmod" => Here(l) \in OutOfReach
    /\ at[l] = "verify" /\ info[l] \in Ours => Here(l) \in Settling(info[l])
    /\ at[l] = "ready" => level[l] = "app" /\ path["app"] \in OutOfReach

LEMMA RunByRun ==
    DirInv <=> /\ DirTypeOK
               /\ session => path["root"] = "tight"
               /\ \A l \in Lock : RunInv(l)
  BY DEF DirInv, RootSecured, FreshIsOurs, VerifiedStands, ReadyInPrivate, RunInv

\* A run that does not move is safe from whatever the others do.
LEMMA BystanderSafe ==
    ASSUME DirInv, [RunNext]_allVars, NEW l \in Lock,
           at'[l] = at[l], level'[l] = level[l], info'[l] = info[l]
    PROVE  RunInv(l)'
<1>0. RunInv(l) /\ DirTypeOK
  BY RunByRun
<1>1. level[l] = "app" => path'["root"] \in OutOfReach
  BY <1>0, RootStays DEF RunInv
<1>2. ASSUME Here(l) \in Ours
      PROVE  Here(l)' \in Settling(Here(l))
  <2>1. level[l] \in Level /\ (level[l] = "root" \/ path["root"] \in OutOfReach)
    BY <1>0 DEF RunInv, DirTypeOK, Level
  <2>2. QED
    BY <1>2, <2>1, PathSettles DEF Here
<1>3. at[l] = "chmod" => Here(l)' \in OutOfReach
  BY <1>0, <1>2 DEF RunInv, OutOfReach, Ours, Settling
<1>4. at[l] = "verify" /\ info[l] \in Ours => Here(l)' \in Settling(info[l])
  BY <1>0, <1>2 DEF RunInv, Ours, Settling
<1>5. at[l] = "ready" => path'["app"] \in OutOfReach
  <2>1. at[l] = "ready" => Here(l) = path["app"] /\ Here(l)' = path'["app"]
    BY <1>0 DEF RunInv, Here
  <2>2. QED
    BY <1>0, <1>2, <2>1 DEF RunInv, OutOfReach, Ours, Settling
<1>6. QED
  BY <1>0, <1>1, <1>3, <1>4, <1>5 DEF RunInv

\* A run that moves finds what the invariant promises it.
LEMMA MoverSafe ==
    ASSUME DirInv, NEW l \in Lock, ensure_private_dir(l)
    PROVE  RunInv(l)'
<1>0. RunInv(l) /\ DirTypeOK
  BY RunByRun
<1> USE <1>0 DEF RunInv, DirTypeOK, Level, Kind, Here, OutOfReach, Settling, Ours, Theirs, StepTo
<1>1. CASE MkDir(l)
  <2>1. CASE path[level[l]] = "absent"
    BY <1>1, <2>1 DEF MkDir, Reachable
  <2>2. CASE path[level[l]] # "absent"
    BY <1>1, <2>2 DEF MkDir
  <2>3. QED
    BY <2>1, <2>2
<1>2. CASE ChmodFresh(l)
  <2>1. path' = [path EXCEPT ![level[l]] = "tight"]
    BY <1>2 DEF ChmodFresh, Tightened
  <2>2. QED
    BY <1>2, <2>1 DEF ChmodFresh, Secured
<1>3. CASE Lstat(l)
  BY <1>3 DEF Lstat
<1>4. CASE Refuse(l) \/ DirFails(l)
  BY <1>4 DEF Refuse, DirFails
<1>5. CASE Accept(l)
  <2>1. path'[level[l]] \in OutOfReach
    BY <1>5 DEF Accept, Tightened
  <2>2. level[l] = "app" => path'["root"] \in OutOfReach
    BY <1>5 DEF Accept, Tightened
  <2>3. QED
    BY <1>5, <2>1, <2>2 DEF Accept, Secured
<1>6. QED
  BY <1>1, <1>2, <1>3, <1>4, <1>5 DEF ensure_private_dir

\* Every step keeps the invariant.
LEMMA DirStep == DirInv /\ [RunNext]_allVars => DirInv'
<1> SUFFICES ASSUME DirInv, [RunNext]_allVars PROVE DirInv'
  OBVIOUS
<1>0. DirTypeOK /\ DirTypeOK'
  BY DirTypeStep DEF DirInv
<1>1. session' = session
  BY DEF RunNext, ensure_private_dir, MkDir, ChmodFresh, Lstat, Refuse, Accept, DirFails, Begin,
         OpenLock, OpenLockFails, Locking, Die, Leave, TakeRoot, TakeApp, Intrude, allVars, dirVars
<1>2. session => path'["root"] = "tight"
  BY RootStays DEF DirInv, RootSecured, OutOfReach
\* One run moves, and the others stand by.
<1>a. ASSUME NEW l \in Lock, RunInv(l)',
             \A m \in Lock \ {l} : at'[m] = at[m] /\ level'[m] = level[m] /\ info'[m] = info[m]
      PROVE  DirInv'
  <2>1. \A m \in Lock : RunInv(m)'
    BY <1>a, BystanderSafe
  <2>2. QED
    BY <1>0, <1>1, <1>2, <2>1, RunByRun DEF DirInv, RootSecured, FreshIsOurs, VerifiedStands,
       ReadyInPrivate, RunInv
<1>3. ASSUME NEW l \in Lock, ensure_private_dir(l)
      PROVE  DirInv'
  <2>1. \A m \in Lock \ {l} : at'[m] = at[m] /\ level'[m] = level[m] /\ info'[m] = info[m]
    BY <1>0, <1>3
       DEF DirTypeOK, ensure_private_dir, MkDir, ChmodFresh, Lstat, Refuse, Accept, DirFails,
           Secured, StepTo
  <2>2. QED
    BY <1>3, <1>a, <2>1, MoverSafe
<1>4. ASSUME NEW l \in Lock, Begin(l) \/ OpenLock(l) \/ OpenLockFails(l) \/ Locking(l) \/ Die(l)
      PROVE  DirInv'
  <2>1. path' = path
    BY <1>4 DEF Begin, OpenLock, OpenLockFails, Locking, Die, Leave, dirVars
  <2>2. CASE Begin(l)
    <3>1. RunInv(l)'
      BY <1>0, <2>1, <2>2 DEF DirInv, RootSecured, DirTypeOK, Begin, StepTo, RunInv
    <3>2. \A m \in Lock \ {l} : at'[m] = at[m] /\ level'[m] = level[m] /\ info'[m] = info[m]
      BY <1>0, <2>2 DEF DirTypeOK, Begin, StepTo
    <3>3. QED
      BY <1>a, <3>1, <3>2
  <2>3. CASE Leave(l)
    <3>1. RunInv(l)'
      BY <1>0, <2>1, <2>3
         DEF DirInv, RootSecured, DirTypeOK, Leave, StepTo, RunInv, FirstLevel, OutOfReach
    <3>2. \A m \in Lock \ {l} : at'[m] = at[m] /\ level'[m] = level[m] /\ info'[m] = info[m]
      BY <1>0, <2>3 DEF DirTypeOK, Leave, StepTo
    <3>3. QED
      BY <1>a, <3>1, <3>2
  <2>4. CASE Locking(l)
    BY <1>a, <2>4, BystanderSafe DEF Locking, dirVars
  <2>5. QED
    BY <1>4, <2>2, <2>3, <2>4 DEF OpenLock, OpenLockFails, Die
<1>5. CASE TakeRoot \/ TakeApp \/ UNCHANGED allVars
  <2>1. \A m \in Lock : at'[m] = at[m] /\ level'[m] = level[m] /\ info'[m] = info[m]
    BY <1>5 DEF TakeRoot, TakeApp, Intrude, allVars, dirVars
  <2>2. \A m \in Lock : RunInv(m)'
    BY <2>1, BystanderSafe
  <2>3. QED
    BY <1>0, <1>1, <1>2, <2>2 DEF DirInv, RootSecured, FreshIsOurs, VerifiedStands,
       ReadyInPrivate, RunInv
<1>6. QED
  BY <1>3, <1>4, <1>5 DEF RunNext

LEMMA InitDirInv == RunInit => DirInv
  BY DEF RunInit, Standing, FirstLevel, DirInv, DirTypeOK, RootSecured, FreshIsOurs,
         VerifiedStands, ReadyInPrivate, OutOfReach, Level, Kind, Where

\* The directories of all runs are as the invariant says, in every reachable state.
THEOREM DirInvariance == RunSpec => []DirInv
  BY InitDirInv, DirStep, PTL DEF RunSpec

\* No chmod lands on what is not ours (_verify_private_dir, ensure_private_dir): what
\* a run has seen by lstat, or made, is not exchanged before its chmod, by any number
\* of moves of the other user.
THEOREM NothingIsSwapped == RunSpec => []NothingSwapped
<1>1. DirInv => NothingSwapped
  BY DEF DirInv, FreshIsOurs, VerifiedStands, NothingSwapped, Settling, OutOfReach, Ours
<1>2. QED
  BY DirInvariance, <1>1, PTL

\* A run is at flock only after it has opened its lock file, which it does where
\* runtime_dir has returned and the owner can enter.
LEMMA OpensItself ==
    ASSUME DirInv, TypeOK, [RunNext]_allVars, NEW l \in Lock, pc[l] = "open", pc'[l] = "flock"
    PROVE  /\ at[l] = "ready"
           /\ path["root"] # "sealed" /\ path["app"] # "sealed"
<1> USE DEF TypeOK
<1>1. ASSUME NEW m \in Lock, ensure_private_dir(m) PROVE FALSE
  BY <1>1 DEF ensure_private_dir, MkDir, ChmodFresh, Lstat, Refuse, Accept, DirFails, vars
<1>2. ASSUME NEW m \in Lock, Begin(m) \/ OpenLockFails(m) \/ Locking(m) \/ Die(m) PROVE FALSE
  BY <1>2 DEF Begin, StartAcquire, OpenLockFails, OpenFails, Ends, Locking, TakeLock, Contended,
              OperationFails, FailClosed, FallOpen, Keep, release, Release, Close, Die, Crash, Goto
<1>3. CASE TakeRoot \/ TakeApp \/ UNCHANGED allVars
  BY <1>3 DEF TakeRoot, TakeApp, Intrude, allVars, vars
<1>4. ASSUME NEW m \in Lock, OpenLock(m)
      PROVE  m = l
  BY <1>4 DEF OpenLock, Open, Goto
<1>5. QED
  BY <1>1, <1>2, <1>3, <1>4 DEF RunNext, OpenLock

\* What the directories do does not concern the lock: the runs with their directories
\* are runs of FileLock, and what is proved of those holds of them.
THEOREM RunsAreLockRuns == RunSpec => Spec
<1>1. RunInit => Init
  BY DEF RunInit
<1>2. [RunNext]_allVars => [Next]_vars
  BY DEF RunNext, ensure_private_dir, MkDir, ChmodFresh, Lstat, Refuse, Accept, DirFails, Begin,
         OpenLock, OpenLockFails, Locking, Die, TakeRoot, TakeApp, Intrude, allVars,
         Next, acquire
<1>3. QED
  BY <1>1, <1>2, PTL DEF RunSpec, Spec

\* So guarded runs do not overlap, lock_unavailable is truthful and require_lock is
\* kept (FileLock.acquire, release), with the directories made as they are made.
THEOREM RunsKeepLockPromises ==
    RunSpec => [](GuardedRunsExclusive /\ HoldReported /\ RequiredNeverUnguarded)
  BY RunsAreLockRuns, GuardedRunsNeverOverlap, HoldsAreReported, RequiredRunsAreGuarded, PTL

\* Every lock file is opened in a directory of ours that only we can enter, below
\* another such one (runtime_dir before FileLock.acquire's open), whatever the other
\* user does and however many runs make and tighten the directories at once.
THEOREM OpenedOnlyInPrivate == RunSpec => OpenedInPrivate
<1>1. ASSUME DirInv, TypeOK, [RunNext]_allVars, NEW l \in Lock, pc[l] = "open", pc'[l] = "flock"
      PROVE  path = [k \in Level |-> "tight"]
  <2>1. path["root"] = "tight" /\ path["app"] = "tight"
    BY <1>1, OpensItself DEF DirInv, RootSecured, ReadyInPrivate, OutOfReach
  <2>2. QED
    BY <1>1, <2>1 DEF DirInv, DirTypeOK, Level
<1>2. DirInv /\ TypeOK /\ [RunNext]_allVars =>
        [\A l \in Lock : pc[l] = "open" /\ pc'[l] = "flock"
                           => path = [k \in Level |-> "tight"]]_allVars
  BY <1>1
<1>3. IInv => TypeOK
  BY DEF IInv
<1>4. QED
  BY DirInvariance, RunsAreLockRuns, LockInvariance, <1>2, <1>3, PTL DEF RunSpec, OpenedInPrivate
=============================================================================
