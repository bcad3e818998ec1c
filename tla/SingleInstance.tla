--------------------------- MODULE SingleInstance ---------------------------
(***************************************************************************)
(* FileLock.acquire with the directory its lock file lies in: runtime_dir  *)
(* creates and secures the directory of the app, and in the fallback under *)
(* the system's temporary directory first the per-user root around it,     *)
(* while other runs of the job do the same and another user of the machine *)
(* puts things in the way.                                                 *)
(*                                                                         *)
(* The temporary directory is sticky: nobody moves away what another user  *)
(* has there.  Inside a root that others can enter they can.               *)
(***************************************************************************)
EXTENDS FileLock, Naturals, Sequences

CONSTANTS Intrusions     \* what the other user does at most

\* What stands at a path: nothing, a file, a symlink, the other user's directory,
\* or our own: open to others, owner-only, or just made under a umask so strict
\* that even the owner is locked out.
Kind == {"absent", "file", "symlink", "foreign", "loose", "tight", "sealed"}
Ours == {"loose", "tight", "sealed"}
Theirs == {"file", "symlink", "foreign"}

Level == {"root", "app"}

VARIABLES
    session,      \* XDG_RUNTIME_DIR is set: its directory is the root
    path,         \* what stands at the root and at the app's directory in it
    at,           \* where each run is in ensure_private_dir
    level,        \* of which path
    info,         \* the lstat result it goes by
    intrusions

dirVars == <<session, path, at, level, info, intrusions>>
allVars == <<vars, dirVars>>

\* runtime_dir, the first directory it secures.

\* Mutant: the per-user root is not secured before the app's directory.
FirstLevelApp == "app"

FirstLevel == IF session THEN "app" ELSE "root"

\* A session's directory comes from the login manager, which makes it owner-only.
Standing ==
    {p \in [Level -> Kind] :
        /\ p["root"] \in {"absent", "file", "symlink"} => p["app"] = "absent"
        /\ session => p["root"] = "tight"}

RunInit ==
    /\ Init
    /\ session \in BOOLEAN
    /\ path \in Standing
    /\ at = [l \in Lock |-> "out"]
    /\ level = [l \in Lock |-> FirstLevel]
    /\ info = [l \in Lock |-> "absent"]
    /\ intrusions = 0

Here(l) == path[level[l]]

StepTo(l, s) == at' = [at EXCEPT ![l] = s]

-----------------------------------------------------------------------------
(* ensure_private_dir *)

\* A root that locks its owner out cannot be entered.
Reachable(l) == level[l] = "app" => path["root"] # "sealed"

MkDir(l) ==
    /\ at[l] = "mkdir" /\ Reachable(l)
    /\ IF Here(l) = "absent"
       THEN /\ \E made \in {"tight", "sealed"} : path' = [path EXCEPT ![level[l]] = made]
            /\ StepTo(l, "chmod")
       ELSE StepTo(l, "lstat") /\ UNCHANGED path
    /\ UNCHANGED <<vars, session, level, info, intrusions>>

\* os.chmod follows what stands there now.
Tightened(l) ==
    IF Here(l) \in Ours THEN [path EXCEPT ![level[l]] = "tight"] ELSE path

\* ensure_private_dir is done with this level: on to the next, or return.
Secured(l) ==
    /\ level' = [level EXCEPT ![l] = "app"]
    /\ StepTo(l, IF level[l] = "root" THEN "mkdir" ELSE "ready")

\* force past the umask on the fresh directory
ChmodFresh(l) ==
    /\ at[l] = "chmod" /\ Reachable(l)
    /\ path' = Tightened(l)
    /\ Secured(l)
    /\ UNCHANGED <<vars, session, info, intrusions>>

\* _verify_private_dir: lstat; a path that is gone by now raises.
Lstat(l) ==
    /\ at[l] = "lstat" /\ Reachable(l)
    /\ info' = [info EXCEPT ![l] = Here(l)]
    /\ StepTo(l, IF Here(l) = "absent" THEN "raised" ELSE "verify")
    /\ UNCHANGED <<vars, session, path, level, intrusions>>

\* A symlink, not a directory, or another user's: InsecureStorageError.
Refuse(l) ==
    /\ at[l] = "verify" /\ info[l] \in Theirs
    /\ StepTo(l, "raised")
    /\ UNCHANGED <<vars, session, path, level, info, intrusions>>

\* Mutant: a directory of ours is taken as it is.
AcceptAsIs(l) ==
    /\ at[l] = "verify" /\ info[l] \in Ours
    /\ Secured(l)
    /\ UNCHANGED <<vars, session, path, info, intrusions>>

\* Ours: tightened when it is open to others.
Accept(l) ==
    /\ at[l] = "verify" /\ info[l] \in Ours
    /\ path' = IF info[l] = "loose" THEN Tightened(l) ELSE path
    /\ Secured(l)
    /\ UNCHANGED <<vars, session, info, intrusions>>

\* Any other system call fails: CredBoxError.
DirFails(l) ==
    /\ at[l] \in {"mkdir", "chmod", "lstat"}
    /\ StepTo(l, "raised")
    /\ UNCHANGED <<vars, session, path, level, info, intrusions>>

ensure_private_dir(l) ==
    MkDir(l) \/ ChmodFresh(l) \/ Lstat(l) \/ Refuse(l) \/ Accept(l) \/ DirFails(l)

-----------------------------------------------------------------------------
(* FileLock around it *)

Begin(l) ==
    /\ StartAcquire(l)
    /\ StepTo(l, "mkdir")
    /\ UNCHANGED <<session, path, level, info, intrusions>>

Leave(l) ==
    /\ StepTo(l, "out")
    /\ level' = [level EXCEPT ![l] = FirstLevel]
    /\ info' = [info EXCEPT ![l] = "absent"]
    /\ UNCHANGED <<session, path, intrusions>>

\* The lock file can be opened wherever the owner can enter.
OpenLock(l) ==
    /\ at[l] = "ready"
    /\ path["root"] # "sealed" /\ path["app"] \notin {"absent", "file", "sealed"}
    /\ Open(l) /\ Leave(l)

OpenLockFails(l) == at[l] \in {"ready", "raised"} /\ OpenFails(l) /\ Leave(l)

Die(l) == Crash(l) /\ Leave(l)

Locking(l) ==
    /\ \/ TakeLock(l) \/ Contended(l) \/ OperationFails(l) \/ FailClosed(l) \/ FallOpen(l)
       \/ Keep(l) \/ release(l)
    /\ UNCHANGED dirVars

-----------------------------------------------------------------------------
(* The other user *)

Intrude ==
    /\ intrusions < Intrusions
    /\ intrusions' = intrusions + 1
    /\ UNCHANGED <<vars, session, at, level, info>>

\* A path in the temporary directory that is free, or was theirs already.
TakeRoot ==
    /\ ~session /\ path["root"] \in Theirs \cup {"absent"}
    /\ \E k \in Theirs \cup {"absent"} :
         /\ k # path["root"]
         /\ path' = [root |-> k, app |-> "absent"]
    /\ Intrude

\* The app's directory, where the root lets them in.
TakeApp ==
    /\ path["root"] \in {"foreign", "loose"}
    /\ \E k \in Theirs \cup {"absent"} : k # path["app"] /\ path' = [path EXCEPT !["app"] = k]
    /\ Intrude

-----------------------------------------------------------------------------

RunNext ==
    \/ \E l \in Lock : \/ Begin(l) \/ ensure_private_dir(l) \/ OpenLock(l)
                       \/ OpenLockFails(l) \/ Locking(l) \/ Die(l)
    \/ TakeRoot \/ TakeApp

RunSpec == RunInit /\ [][RunNext]_allVars
FairRunSpec == RunSpec /\ \A l \in Lock : WF_allVars(Finish(l) /\ UNCHANGED dirVars)

-----------------------------------------------------------------------------
(* Properties *)

\* Every lock file is opened in a directory of ours that only we can enter, below
\* another such one: what was verified still holds when it is used, whatever the
\* other user did in between and whoever of the runs made the directories.
OpenedInPrivate ==
    [][\A l \in Lock : pc[l] = "open" /\ pc'[l] = "flock" => path = [k \in Level |-> "tight"]]_allVars

\* No chmod lands on what is not ours: what stood there at the lstat is not
\* exchanged before the chmod that follows it (the "Bounded TOCTOU" comment of
\* _verify_private_dir).
NothingSwapped ==
    \A l \in Lock :
        (at[l] = "verify" /\ info[l] \in Ours) \/ at[l] = "chmod" => Here(l) \in Ours
=============================================================================
