-------------------------- MODULE FileStore_proofs --------------------------
(***************************************************************************)
(* Proofs about the file backend, for any number of processes, threads,    *)
(* names, values, calls and faults: the inductive invariant IInv, mutual   *)
(* exclusion, the absence of stale saves, and the refinement of            *)
(* SecretStore.                                                            *)
(***************************************************************************)
EXTENDS FileStoreProperties, StoreContentLemmas, FiniteSetTheorems

\* Where a thread relies on the exclusion: in the body, and on its way out of a
\* body that succeeded.
Holds(t) == pc[t] \in InBody \/ (pc[t] = "unlock" /\ outcome[t] = Ok)

\* References, registry and holders of the thread locks agree.
ThreadLockInv ==
    /\ \A t \in Thread : lockRef[t] # None <=> pc[t] \in HasLockRef
    /\ \A t \in Thread : lockRef[t] # None => lockRef[t] = registry[ProcOf[t]]
    /\ \A t \in Thread : pc[t] \in HasThreadLock => lockHolder[ProcOf[t]][lockRef[t]] = t
    /\ \A t \in Thread, p \in Process, k \in LockId :
         lockHolder[p][k] = t
            => ProcOf[t] = p /\ lockRef[t] = k /\ pc[t] \in HasThreadLock

\* Where no lock fails, whoever relies on the exclusion has the flock.
OsLockInv ==
    /\ osLock # None => pc[osLock] \in InCritical
    /\ LockFaults = {} => \A t \in Thread : Holds(t) => osLock = t

\* What each thread carries at each position.
Saving == {"stage", "write", "rename"}

CarryInv ==
    /\ \A t \in Thread : pc[t] # "idle" => call[t] \in Ops
    /\ \A t \in Thread : pc[t] \in HasLockRef \cup {"lookup"} => IsWrite(call[t])
    /\ \A t \in Thread : pc[t] = "read" => ~IsWrite(call[t])
    /\ \A t \in Thread : snapshot[t] # None => pc[t] \in InCritical \ {"load"}
    /\ \A t \in Thread : pc[t] \in Saving => /\ parse_store(snapshot[t], call[t].ns)
                                             /\ Writes(call[t], snapshot[t])
    /\ \A t \in Thread : temp[t] # None => pc[t] \in Writing
    /\ \A t \in Thread : pc[t] = "rename" =>
                             temp[t] = [data |-> NewContent(t), synced |-> TRUE]
    /\ \A t \in Thread : pc[t] = "cleanup" => outcome[t] = Error
    /\ file \in recoverable

IInv == /\ TypeOK /\ ThreadLockInv /\ OsLockInv /\ CarryInv
        /\ NoStaleSave /\ AckedWriteSurvives

USE FileStoreAssumption, ContentAssumption
USE DEF Writing, InBody, InCritical, HasThreadLock, HasLockRef, Position, Of

-----------------------------------------------------------------------------
(* Consequences of the lock invariants *)

\* The two locks together admit one holder.
LEMMA Exclusion ==
    ASSUME TypeOK, ThreadLockInv, OsLockInv, Serialized,
           NEW t \in Thread, NEW u \in Thread, Holds(t), Holds(u)
    PROVE  t = u
  <1>1. CASE LockFaults = {}
    BY <1>1 DEF OsLockInv
  <1>2. CASE \A p, q \in Process : p = q
    <2>1. ProcOf[t] = ProcOf[u]
      BY <1>2
    <2>2. pc[t] \in HasThreadLock /\ pc[u] \in HasThreadLock
      BY DEF Holds
    <2>3. lockRef[t] = lockRef[u]
      BY <2>1, <2>2 DEF ThreadLockInv
    <2>4. QED BY <2>1, <2>2, <2>3 DEF ThreadLockInv
  <1>3. QED BY <1>1, <1>2 DEF Serialized

\* In one process the thread lock alone admits one holder.
LEMMA ThreadExclusion == TypeOK /\ ThreadLockInv => OneThreadPerProcess
  <1> SUFFICES ASSUME TypeOK, ThreadLockInv, NEW t \in Thread, NEW u \in Thread,
                      ProcOf[t] = ProcOf[u], pc[t] \in InBody, pc[u] \in InBody
               PROVE  t = u
    BY DEF OneThreadPerProcess
  <1>1. pc[t] \in HasThreadLock /\ pc[u] \in HasThreadLock
    OBVIOUS
  <1>2. lockRef[t] = lockRef[u]
    BY <1>1 DEF ThreadLockInv
  <1>3. QED BY <1>1, <1>2 DEF ThreadLockInv

\* With no fault of the OS lock, or in one process, a single writer is in its body.
LEMMA WriterExclusion == TypeOK /\ ThreadLockInv /\ OsLockInv => OneWriter
  BY Exclusion DEF OneWriter, Holds

-----------------------------------------------------------------------------
(* The initial state *)

\* The inductive invariant holds initially.
LEMMA InitIInv == Init => IInv
  <1> SUFFICES ASSUME Init PROVE IInv
    OBVIOUS
  <1> USE DEF Init
  <1>1. TypeOK
    BY DEF TypeOK
  <1>2. ThreadLockInv
    BY DEF ThreadLockInv
  <1>3. OsLockInv
    BY DEF OsLockInv, Holds
  <1>4. CarryInv
    BY DEF CarryInv, Saving
  <1>5. NoStaleSave /\ AckedWriteSurvives
    BY DEF NoStaleSave, AckedWriteSurvives
  <1>6. QED BY <1>1, <1>2, <1>3, <1>4, <1>5 DEF IInv

-----------------------------------------------------------------------------
(* The disjuncts of Next, for case analysis *)

\* A step is one named action of one thread, a crash, or a power loss.
LEMMA NextCases ==
    ASSUME NEW P, Next,
           \A t \in Thread : Call(t) \/ Read(t) \/ ReadFails(t) \/ Return(t) => P,
           \A t \in Thread : Lock(t) \/ Degrade(t) \/ Unlock(t) \/ ReleaseThreadLock(t) => P,
           \A t \in Thread : Body(t) => P,
           \A t \in Thread : FailsWithoutTemp(t) \/ FailsWithTemp(t) \/ SyncDirFails(t) => P,
           \A t \in Thread : InterruptedEntering(t) \/ UnlinkFails(t) \/ UnlockFails(t) => P,
           \A p \in Process : Crash(p) => P,
           PowerLoss => P
    PROVE  P
  BY DEF Next, Run, Exit, Fails

\* Where an interrupt at the entry takes the thread.
LEMMA InterruptMoves ==
    ASSUME NEW t \in Thread, InterruptedEntering(t)
    PROVE  \/ pc[t] = "lookup" /\ Goto(t, "answered")
           \/ pc[t] = "acquire" /\ Goto(t, "return")
           \/ pc[t] = "open_lock" /\ Goto(t, "release")
  BY DEF InterruptedEntering, AfterInterrupt

\* A crash or a power loss forgets what the threads of some processes held.
LEMMA LostFacts ==
    ASSUME TypeOK, NEW P \in SUBSET Process, Lost(P), NEW t \in Thread
    PROVE  IF ProcOf[t] \in P
           THEN pc'[t] = "idle" /\ call'[t] = None /\ outcome'[t] = None /\ lockRef'[t] = None
                /\ temp'[t] = None /\ snapshot'[t] = None
           ELSE pc'[t] = pc[t] /\ call'[t] = call[t] /\ outcome'[t] = outcome[t]
                /\ lockRef'[t] = lockRef[t] /\ temp'[t] = temp[t] /\ snapshot'[t] = snapshot[t]
  <1>1. t \in {u \in Thread : ProcOf[u] \in P} <=> ProcOf[t] \in P
    OBVIOUS
  <1>2. /\ t \in DOMAIN pc /\ t \in DOMAIN call /\ t \in DOMAIN outcome
        /\ t \in DOMAIN lockRef /\ t \in DOMAIN temp /\ t \in DOMAIN snapshot
    BY DEF TypeOK
  <1>3. QED BY <1>1, <1>2 DEF Lost, Wiped

\* Forgetting is well typed.
LEMMA LostType ==
    ASSUME TypeOK, NEW P \in SUBSET Process, Lost(P)
    PROVE  /\ temp' \in [Thread -> TempFile \cup {None}]
           /\ snapshot' \in [Thread -> Store \cup {None}]
           /\ pc' \in [Thread -> Position]
           /\ call' \in [Thread -> Op \cup {None}]
           /\ outcome' \in [Thread -> Outcome \cup {None}]
           /\ registry' \in [Process -> LockId \cup {None}]
           /\ lockRef' \in [Thread -> LockId \cup {None}]
           /\ lockHolder' \in [Process -> [LockId -> Thread \cup {None}]]
           /\ osLock' \in Thread \cup {None}
           /\ warned' \in [Process -> BOOLEAN]
  <1> USE DEF TypeOK
  <1>1. ASSUME NEW D, NEW R, NEW f \in [D -> R], NEW S, NEW r \in R
        PROVE  Wiped(f, S, r) \in [D -> R]
    BY <1>1 DEF Wiped
  <1> DEFINE gone == {t \in Thread : ProcOf[t] \in P}
  <1>2. temp' \in [Thread -> TempFile \cup {None}]
    <2>1. temp' = Wiped(temp, gone, None)
      BY DEF Lost
    <2>2. QED BY <1>1, <2>1
  <1>3. snapshot' \in [Thread -> Store \cup {None}]
    <2>1. snapshot' = Wiped(snapshot, gone, None)
      BY DEF Lost
    <2>2. QED BY <1>1, <2>1
  <1>4. pc' \in [Thread -> Position]
    <2>1. pc' = Wiped(pc, gone, "idle")
      BY DEF Lost
    <2>2. QED BY <1>1, <2>1
  <1>5. call' \in [Thread -> Op \cup {None}]
    <2>1. call' = Wiped(call, gone, None)
      BY DEF Lost
    <2>2. QED BY <1>1, <2>1
  <1>6. outcome' \in [Thread -> Outcome \cup {None}]
    <2>1. outcome' = Wiped(outcome, gone, None)
      BY DEF Lost
    <2>2. QED BY <1>1, <2>1
  <1>7. registry' \in [Process -> LockId \cup {None}]
    BY <1>1 DEF Lost
  <1>8. lockRef' \in [Thread -> LockId \cup {None}]
    <2>1. lockRef' = Wiped(lockRef, gone, None)
      BY DEF Lost
    <2>2. QED BY <1>1, <2>1
  <1>9. lockHolder' \in [Process -> [LockId -> Thread \cup {None}]]
    <2>1. lockHolder' = Wiped(lockHolder, P, [k \in LockId |-> None])
      BY DEF Lost
    <2>2. [k \in LockId |-> None] \in [LockId -> Thread \cup {None}]
      OBVIOUS
    <2>3. QED BY <1>1, <2>1, <2>2
  <1>10. osLock' \in Thread \cup {None} /\ warned' \in [Process -> BOOLEAN]
    BY <1>1 DEF Lost
  <1>11. QED BY <1>2, <1>3, <1>4, <1>5, <1>6, <1>7, <1>8, <1>9, <1>10

-----------------------------------------------------------------------------
(* Type correctness is preserved *)

\* What a save stages is a store of the layout that was loaded.
LEMMA NewContentType ==
    ASSUME TypeOK, CarryInv, NEW t \in Thread, pc[t] \in Saving
    PROVE  /\ parse_store(NewContent(t), call[t].ns)
           /\ NewContent(t) \in Store /\ NewContent(t) # Malformed
  <1>1. call[t] \in Op /\ IsWrite(call[t]) /\ parse_store(snapshot[t], call[t].ns)
    BY DEF CarryInv, Saving
  <1>2. QED BY <1>1, ApplyKeepsLayout DEF NewContent

\* Every step keeps the types.
LEMMA TypeStep == IInv /\ Next => TypeOK'
  <1> SUFFICES ASSUME IInv, Next PROVE TypeOK'
    OBVIOUS
  <1> USE DEF IInv, fileVars, lockVars, Goto, Give, Fault, Death
  <1>1. ASSUME NEW t \in Thread, Call(t) \/ Read(t) \/ ReadFails(t) \/ Return(t)
        PROVE  TypeOK'
    <2>1. CASE Call(t)
      BY <2>1 DEF Call, TypeOK
    <2>2. CASE Read(t)
      <3>1. (IF Loads(file, call[t].ns) THEN Answer(call[t], Loaded(file)) ELSE Error)
              \in Outcome
        <4>1. call[t] \in Op /\ ~IsWrite(call[t]) /\ call[t].ns \in Scope
          BY <2>2 DEF Read, CarryInv, Op
        <4>2. QED BY <4>1, AnswerType, LoadedParses DEF Outcome
      <3>2. QED BY <2>2, <3>1 DEF Read, TypeOK
    <2>3. CASE ReadFails(t)
      BY <2>3 DEF ReadFails, TypeOK, Outcome
    <2>4. CASE Return(t)
      BY <2>4 DEF Return, TypeOK
    <2>5. QED BY <1>1, <2>1, <2>2, <2>3, <2>4
  <1>2. ASSUME NEW t \in Thread, Lock(t) \/ Degrade(t) \/ Unlock(t) \/ ReleaseThreadLock(t)
        PROVE  TypeOK'
    <2>1. CASE GetThreadLock(t)
      <3> DEFINE p == ProcOf[t]
                 k == IF registry[p] # None THEN registry[p] ELSE NewLock(p)
      <3>1. p \in Process
        OBVIOUS
      <3>2. k \in LockId
        <4>1. CASE registry[p] # None
          BY <3>1, <4>1 DEF TypeOK
        <4>2. CASE registry[p] = None
          <5>1. \A u \in Thread : ProcOf[u] = p => lockRef[u] = None
            BY <4>2 DEF ThreadLockInv
          <5>2. \E j \in LockId : \A u \in Thread : ProcOf[u] = p => lockRef[u] # j
            BY <5>1
          <5>3. QED BY <4>2, <5>2 DEF NewLock
        <4>3. QED BY <4>1, <4>2
      <3>3. /\ registry' = [registry EXCEPT ![p] = k]
            /\ lockRef' = [lockRef EXCEPT ![t] = k]
            /\ pc' = [pc EXCEPT ![t] = "acquire"]
            /\ UNCHANGED <<file, recoverable, debris, temp, snapshot, call, outcome,
                           lockHolder, osLock, warned, calls, faults, deaths>>
        BY <2>1 DEF GetThreadLock
      <3> HIDE DEF k
      <3>4. QED BY <3>1, <3>2, <3>3 DEF TypeOK
    <2>2. CASE AcquireThreadLock(t)
      BY <2>2 DEF AcquireThreadLock, TypeOK
    <2>3. CASE OpenLockFile(t) \/ LockExclusive(t) \/ Degrade(t)
      BY <2>3 DEF OpenLockFile, LockExclusive, Degrade, TypeOK
    <2>4. CASE Unlock(t)
      BY <2>4 DEF Unlock, TypeOK
    <2>5. CASE ReleaseThreadLock(t)
      BY <2>5 DEF ReleaseThreadLock, TypeOK
    <2>6. QED BY <1>2, <2>1, <2>2, <2>3, <2>4, <2>5 DEF Lock
  <1>3. ASSUME NEW t \in Thread, Body(t)
        PROVE  TypeOK'
    <2>1. CASE Load(t)
      <3>1. Loaded(file) \in Store
        BY <2>1, LoadedParses DEF Load, CarryInv, Op
      <3>2. QED BY <2>1, <3>1 DEF Load, TypeOK
    <2>2. CASE LoadNothing(t) \/ LoadFaults(t) \/ NotEncodable(t)
      BY <2>2 DEF LoadNothing, LoadFaults, NotEncodable, TypeOK, Outcome
    <2>3. CASE Stage(t) \/ Cleanup(t)
      <3>1. [data |-> Malformed, synced |-> FALSE] \in TempFile
        BY DEF TempFile, Content
      <3>2. CASE Stage(t)
        BY <3>1, <3>2 DEF Stage, TypeOK
      <3>3. CASE Cleanup(t)
        BY <3>3 DEF Cleanup, TypeOK
      <3>4. QED BY <2>3, <3>2, <3>3
    <2>4. CASE WriteTemp(t)
      <3>1. NewContent(t) \in Content
        BY <2>4, NewContentType DEF WriteTemp, Saving, Content
      <3>2. QED BY <2>4, <3>1 DEF WriteTemp, TypeOK, TempFile
    <2>5. CASE Rename(t)
      <3>1. temp[t].data \in Content /\ OnDisk(temp[t]) \in Content
        <4>1. temp[t] = [data |-> NewContent(t), synced |-> TRUE]
          BY <2>5 DEF Rename, CarryInv
        <4>2. NewContent(t) \in Content
          BY <2>5, NewContentType DEF Rename, Saving, Content
        <4>3. QED BY <4>1, <4>2 DEF OnDisk
      <3>2. QED BY <2>5, <3>1 DEF Rename, TypeOK
    <2>6. CASE SyncDir(t)
      BY <2>6 DEF SyncDir, TypeOK, Outcome
    <2>7. QED BY <1>3, <2>1, <2>2, <2>3, <2>4, <2>5, <2>6 DEF Body
  <1>4. ASSUME NEW t \in Thread,
               FailsWithoutTemp(t) \/ FailsWithTemp(t) \/ SyncDirFails(t)
        PROVE  TypeOK'
    <2>1. CASE FailsWithoutTemp(t)
      BY <2>1 DEF FailsWithoutTemp, TypeOK, Outcome
    <2>2. CASE FailsWithTemp(t)
      BY <2>2 DEF FailsWithTemp, TypeOK, Outcome
    <2>3. CASE SyncDirFails(t)
      BY <2>3 DEF SyncDirFails, TypeOK, Outcome
    <2>4. QED BY <1>4, <2>1, <2>2, <2>3
  <1>5. ASSUME NEW t \in Thread,
               InterruptedEntering(t) \/ UnlinkFails(t) \/ UnlockFails(t)
        PROVE  TypeOK'
    <2>1. CASE InterruptedEntering(t)
      <3>1. PICK q \in {"answered", "return", "release"} : Goto(t, q)
        BY <2>1, InterruptMoves
      <3>2. q \in Position /\ Error \in Outcome
        BY DEF Outcome
      <3>3. QED BY <2>1, <3>1, <3>2 DEF InterruptedEntering, TypeOK
    <2>2. CASE UnlinkFails(t)
      BY <2>2 DEF UnlinkFails, TypeOK
    <2>3. CASE UnlockFails(t)
      BY <2>3 DEF UnlockFails, TypeOK, Outcome
    <2>4. QED BY <1>5, <2>1, <2>2, <2>3
  <1>6. \A S \in SUBSET Thread : Cardinality(S) \in Nat
    BY FS_Subset, FS_CardinalityType
  <1>7. ASSUME NEW p \in Process, Crash(p)
        PROVE  TypeOK'
    <2>1. Cardinality({t \in Of({p}) : temp[t] # None}) \in Nat
      BY <1>6
    <2>2. QED BY <1>7, <2>1, LostType DEF Crash, TypeOK
  <1>8. ASSUME PowerLoss
        PROVE  TypeOK'
    <2>1. Cardinality({t \in Thread : pc[t] \in Writing \cup {"sync_dir"}}) \in Nat
      BY <1>6
    <2>2. debris' \in Nat
      BY <1>8, <2>1 DEF PowerLoss, TypeOK
    <2>3. QED BY <1>8, <2>2, LostType DEF PowerLoss, TypeOK
  <1>9. QED BY <1>1, <1>2, <1>3, <1>4, <1>5, <1>7, <1>8, NextCases

-----------------------------------------------------------------------------
(* The thread locks *)

\* A thread that moves while keeping its hold, or without any, disturbs nothing.
LEMMA ThreadLockKept ==
    ASSUME IInv, NEW t \in Thread, NEW q, Goto(t, q),
           \/ pc[t] \in HasThreadLock /\ q \in HasThreadLock
           \/ pc[t] \notin HasLockRef /\ q \notin HasLockRef
           \/ pc[t] = "acquire" /\ q = "return",
           UNCHANGED <<registry, lockRef, lockHolder>>
    PROVE  ThreadLockInv'
  <1>1. \A u \in Thread : pc'[u] = IF u = t THEN q ELSE pc[u]
    BY DEF IInv, TypeOK, Goto
  <1>2. \A u \in Thread : (pc'[u] \in HasLockRef <=> pc[u] \in HasLockRef)
                          /\ (pc'[u] \in HasThreadLock <=> pc[u] \in HasThreadLock)
    BY <1>1
  <1> HIDE DEF HasLockRef, HasThreadLock
  <1>3. QED BY <1>2 DEF IInv, ThreadLockInv

\* Every step keeps the bookkeeping of the thread locks.
LEMMA ThreadLockStep == IInv /\ Next => ThreadLockInv'
  <1> SUFFICES ASSUME IInv, Next PROVE ThreadLockInv'
    OBVIOUS
  <1>0. TypeOK /\ ThreadLockInv
    BY DEF IInv
  <1> USE DEF fileVars, lockVars
  <1>1. ASSUME NEW t \in Thread, Call(t) \/ Read(t) \/ ReadFails(t) \/ Return(t)
        PROVE  ThreadLockInv'
    <2>1. CASE Call(t)
      <3>1. pc[t] = "idle" /\ \E q \in {"lookup", "read"} : Goto(t, q)
        BY <2>1 DEF Call
      <3>2. QED BY <2>1, <3>1, ThreadLockKept DEF Call
    <2>2. CASE Read(t) \/ ReadFails(t)
      BY <2>2, ThreadLockKept DEF Read, ReadFails
    <2>3. CASE Return(t)
      <3>1. /\ \A u \in Thread : pc'[u] = IF u = t THEN "idle" ELSE pc[u]
            /\ \A u \in Thread : lockRef'[u] = IF u = t THEN None ELSE lockRef[u]
            /\ UNCHANGED lockHolder
        BY <1>0, <2>3 DEF Return, Goto, TypeOK
      <3>2. \A u \in Thread : lockRef'[u] # None => registry'[ProcOf[u]] = registry[ProcOf[u]]
        BY <1>0, <2>3 DEF Return, TypeOK
      <3>3. pc[t] \notin HasThreadLock
        BY <2>3 DEF Return
      <3>4. QED BY <1>0, <3>1, <3>2, <3>3 DEF ThreadLockInv
    <2>4. QED BY <1>1, <2>1, <2>2, <2>3
  <1>2. ASSUME NEW t \in Thread, Lock(t) \/ Degrade(t) \/ Unlock(t) \/ ReleaseThreadLock(t)
        PROVE  ThreadLockInv'
    <2>1. CASE GetThreadLock(t)
      <3> DEFINE p == ProcOf[t]
                 k == IF registry[p] # None THEN registry[p] ELSE NewLock(p)
      <3>1. /\ pc[t] = "lookup"
            /\ \A u \in Thread : pc'[u] = IF u = t THEN "acquire" ELSE pc[u]
            /\ \A u \in Thread : lockRef'[u] = IF u = t THEN k ELSE lockRef[u]
            /\ registry'[p] = k
            /\ \A q \in Process : q # p => registry'[q] = registry[q]
            /\ UNCHANGED lockHolder
        BY <1>0, <2>1 DEF GetThreadLock, Goto, TypeOK
      <3>2. lockRef'[t] # None
        <4>1. lockRef' \in [Thread -> LockId \cup {None}] /\ registry' \in [Process -> LockId \cup {None}]
          BY TypeStep DEF TypeOK
        <4>2. CASE registry[p] # None
          BY <3>1, <4>2
        <4>3. CASE registry[p] = None
          <5>1. \A u \in Thread : ProcOf[u] = p => lockRef[u] = None
            BY <1>0, <4>3 DEF ThreadLockInv
          <5>2. \E j \in LockId : \A u \in Thread : ProcOf[u] = p => lockRef[u] # j
            BY <5>1
          <5>3. NewLock(p) \in LockId
            BY <5>2 DEF NewLock
          <5>4. QED BY <3>1, <4>3, <5>3
        <4>4. QED BY <4>2, <4>3
      <3>3. \A u \in Thread : ProcOf[u] = p /\ lockRef[u] # None => lockRef[u] = k
        BY <1>0 DEF ThreadLockInv
      <3> HIDE DEF k
      <3>4. \A u \in Thread : lockRef'[u] # None <=> pc'[u] \in HasLockRef
        BY <1>0, <3>1, <3>2 DEF ThreadLockInv
      <3>5. \A u \in Thread : lockRef'[u] # None => lockRef'[u] = registry'[ProcOf[u]]
        <4>1. TAKE u \in Thread
        <4>2. CASE ProcOf[u] = p
          BY <3>1, <3>3, <4>2
        <4>3. CASE ProcOf[u] # p
          BY <1>0, <3>1, <4>3 DEF ThreadLockInv
        <4>4. QED BY <4>2, <4>3
      <3>6. \A u \in Thread : pc'[u] \in HasThreadLock <=> u # t /\ pc[u] \in HasThreadLock
        BY <3>1
      <3>7. pc[t] \notin HasThreadLock
        BY <3>1
      <3> HIDE DEF HasThreadLock, HasLockRef
      <3>8. QED BY <1>0, <3>1, <3>4, <3>5, <3>6, <3>7 DEF ThreadLockInv
    <2>2. CASE AcquireThreadLock(t)
      <3>1. /\ pc[t] = "acquire"
            /\ \A u \in Thread : pc'[u] = IF u = t THEN "open_lock" ELSE pc[u]
            /\ UNCHANGED <<registry, lockRef>>
            /\ lockHolder[ProcOf[t]][lockRef[t]] = None
        BY <1>0, <2>2 DEF AcquireThreadLock, Goto, TypeOK
      <3>2. lockRef[t] \in LockId /\ ProcOf[t] \in Process
        BY <1>0, <3>1 DEF ThreadLockInv, TypeOK
      <3>3. \A p \in Process, k \in LockId :
              lockHolder'[p][k] = IF p = ProcOf[t] /\ k = lockRef[t] THEN t
                                  ELSE lockHolder[p][k]
        BY <1>0, <2>2, <3>2 DEF AcquireThreadLock, TypeOK
      <3>4. \A u \in Thread : pc[u] \in HasThreadLock =>
              ~(ProcOf[u] = ProcOf[t] /\ lockRef[u] = lockRef[t])
        BY <1>0, <3>1 DEF ThreadLockInv
      <3>5. \A u \in Thread : pc[u] \in HasThreadLock => lockRef[u] \in LockId
        BY <1>0 DEF ThreadLockInv, TypeOK
      <3>6. QED BY <1>0, <3>1, <3>2, <3>3, <3>4, <3>5 DEF ThreadLockInv
    <2>3. CASE OpenLockFile(t) \/ LockExclusive(t) \/ Degrade(t)
      BY <2>3, ThreadLockKept DEF OpenLockFile, LockExclusive, Degrade
    <2>4. CASE Unlock(t)
      BY <2>4, ThreadLockKept DEF Unlock
    <2>5. CASE ReleaseThreadLock(t)
      <3>1. /\ pc[t] = "release"
            /\ \A u \in Thread : pc'[u] = IF u = t THEN "return" ELSE pc[u]
            /\ UNCHANGED <<registry, lockRef>>
        BY <1>0, <2>5 DEF ReleaseThreadLock, Goto, TypeOK
      <3>2. lockRef[t] \in LockId /\ ProcOf[t] \in Process
        BY <1>0, <3>1 DEF ThreadLockInv, TypeOK
      <3>3. \A p \in Process, k \in LockId :
              lockHolder'[p][k] = IF p = ProcOf[t] /\ k = lockRef[t] THEN None
                                  ELSE lockHolder[p][k]
        BY <1>0, <2>5, <3>2 DEF ReleaseThreadLock, TypeOK
      <3>4. \A u \in Thread : u # t /\ pc[u] \in HasThreadLock =>
              ~(ProcOf[u] = ProcOf[t] /\ lockRef[u] = lockRef[t])
        BY <1>0, <3>1 DEF ThreadLockInv
      <3>5. \A u \in Thread : pc[u] \in HasThreadLock => lockRef[u] \in LockId
        BY <1>0 DEF ThreadLockInv, TypeOK
      <3>6. QED BY <1>0, <3>1, <3>2, <3>3, <3>4, <3>5 DEF ThreadLockInv
    <2>6. QED BY <1>2, <2>1, <2>2, <2>3, <2>4, <2>5 DEF Lock
  <1>3. ASSUME NEW t \in Thread, Body(t)
        PROVE  ThreadLockInv'
    BY <1>3, ThreadLockKept
       DEF Body, Load, LoadNothing, LoadFaults, Stage, NotEncodable, WriteTemp, Rename,
           SyncDir, Cleanup
  <1>4. ASSUME NEW t \in Thread,
               FailsWithoutTemp(t) \/ FailsWithTemp(t) \/ SyncDirFails(t)
        PROVE  ThreadLockInv'
    BY <1>4, ThreadLockKept DEF FailsWithoutTemp, FailsWithTemp, SyncDirFails
  <1>5. ASSUME NEW P \in SUBSET Process, Lost(P)
        PROVE  ThreadLockInv'
    <2>1. \A q \in Process :
            IF q \in P THEN registry'[q] = None /\ lockHolder'[q] = [k \in LockId |-> None]
            ELSE registry'[q] = registry[q] /\ lockHolder'[q] = lockHolder[q]
      BY <1>0, <1>5 DEF Lost, Wiped, TypeOK
    <2>2. \A u \in Thread : IF ProcOf[u] \in P THEN pc'[u] = "idle" /\ lockRef'[u] = None
                            ELSE pc'[u] = pc[u] /\ lockRef'[u] = lockRef[u]
      BY <1>0, <1>5, LostFacts
    <2>3. \A u \in Thread : ProcOf[u] \in Process
      OBVIOUS
    <2>4. QED BY <1>0, <2>1, <2>2, <2>3 DEF ThreadLockInv
  <1>6. ASSUME NEW p \in Process, Crash(p)
        PROVE  ThreadLockInv'
    BY <1>5, <1>6 DEF Crash
  <1>7. ASSUME PowerLoss
        PROVE  ThreadLockInv'
    BY <1>5, <1>7 DEF PowerLoss
  <1>9. ASSUME NEW t \in Thread,
               InterruptedEntering(t) \/ UnlinkFails(t) \/ UnlockFails(t)
        PROVE  ThreadLockInv'
    <2>1. UNCHANGED <<registry, lockRef, lockHolder>>
      BY <1>9 DEF InterruptedEntering, UnlinkFails, UnlockFails
    <2>2. CASE InterruptedEntering(t)
      BY <2>1, <2>2, InterruptMoves, ThreadLockKept
    <2>3. CASE UnlinkFails(t) \/ UnlockFails(t)
      BY <2>1, <2>3, ThreadLockKept DEF UnlinkFails, UnlockFails
    <2>4. QED BY <1>9, <2>2, <2>3
  <1>8. QED BY <1>1, <1>2, <1>3, <1>4, <1>6, <1>7, <1>9, NextCases

-----------------------------------------------------------------------------
(* The OS lock *)

\* What Goto and Give do to every thread.
LEMMA MovesOne ==
    ASSUME TypeOK, NEW t \in Thread, NEW q
    PROVE  /\ Goto(t, q) => \A u \in Thread : pc'[u] = IF u = t THEN q ELSE pc[u]
           /\ Give(t, q) => \A u \in Thread : outcome'[u] = IF u = t THEN q ELSE outcome[u]
  BY DEF TypeOK, Goto, Give

\* Moving without touching the flock is harmless where it is not relied on
\* anew and where its holder stays inside.
LEMMA OsLockKept ==
    ASSUME IInv, NEW t \in Thread, NEW q, Goto(t, q), osLock' = osLock,
           \A u \in Thread \ {t} : outcome'[u] = outcome[u],
           Holds(t)' => Holds(t),
           osLock = t => q \in InCritical
    PROVE  OsLockInv'
  <1>1. \A u \in Thread : pc'[u] = IF u = t THEN q ELSE pc[u]
    BY MovesOne DEF IInv
  <1>2. \A u \in Thread : Holds(u)' => Holds(u)
    BY <1>1 DEF Holds
  <1>3. osLock' # None => osLock' \in Thread /\ pc'[osLock'] \in InCritical
    BY <1>1 DEF IInv, OsLockInv, TypeOK
  <1>4. QED BY <1>2, <1>3 DEF IInv, OsLockInv

\* Every step keeps the bookkeeping of the OS lock.
LEMMA OsLockStep == IInv /\ Next => OsLockInv'
  <1> SUFFICES ASSUME IInv, Next PROVE OsLockInv'
    OBVIOUS
  <1>0. TypeOK /\ OsLockInv
    BY DEF IInv
  <1> USE DEF fileVars, lockVars
  <1>a. Ok # Error
    BY DEF Ok, Error
  <1>b. \A t \in Thread : osLock = t => pc[t] \in InCritical
    BY <1>0 DEF OsLockInv
  <1>1. ASSUME NEW t \in Thread, Call(t) \/ Read(t) \/ ReadFails(t) \/ Return(t)
        PROVE  OsLockInv'
    <2>1. PICK q \in {"lookup", "read", "answered", "idle"} : Goto(t, q)
      BY <1>1 DEF Call, Read, ReadFails, Return
    <2>2. pc[t] \in {"idle", "read", "answered", "return"} /\ osLock' = osLock
      BY <1>1 DEF Call, Read, ReadFails, Return
    <2>3. \A u \in Thread \ {t} : outcome'[u] = outcome[u]
      BY <1>0, <1>1 DEF Call, Read, ReadFails, Return, Give, TypeOK
    <2>4. ~Holds(t)' /\ osLock # t
      BY <1>0, <1>b, <2>1, <2>2, MovesOne DEF Holds
    <2>5. QED BY <2>1, <2>2, <2>3, <2>4, OsLockKept
  <1>2. ASSUME NEW t \in Thread, Lock(t) \/ Degrade(t) \/ Unlock(t) \/ ReleaseThreadLock(t)
        PROVE  OsLockInv'
    <2>1. CASE GetThreadLock(t) \/ AcquireThreadLock(t) \/ OpenLockFile(t)
               \/ ReleaseThreadLock(t)
      <3>1. PICK q \in {"acquire", "open_lock", "flock", "return"} : Goto(t, q)
        BY <2>1 DEF GetThreadLock, AcquireThreadLock, OpenLockFile, ReleaseThreadLock
      <3>2. /\ pc[t] \in {"lookup", "acquire", "open_lock", "release"}
            /\ osLock' = osLock /\ outcome' = outcome
        BY <2>1 DEF GetThreadLock, AcquireThreadLock, OpenLockFile, ReleaseThreadLock
      <3>3. ~Holds(t)' /\ osLock # t
        BY <1>0, <1>b, <3>1, <3>2, MovesOne DEF Holds
      <3>4. QED BY <3>1, <3>2, <3>3, OsLockKept
    <2>2. CASE LockExclusive(t)
      <3>1. /\ osLock = None /\ osLock' = t /\ outcome' = outcome
            /\ \A u \in Thread : pc'[u] = IF u = t THEN "load" ELSE pc[u]
        BY <1>0, <2>2, MovesOne DEF LockExclusive
      <3>2. \A u \in Thread \ {t} : Holds(u)' => Holds(u)
        BY <3>1 DEF Holds
      <3>3. QED BY <1>0, <3>1, <3>2 DEF OsLockInv
    <2>3. CASE Degrade(t)
      <3>1. /\ osLock' = osLock /\ LockFaults # {}
            /\ \A u \in Thread : pc'[u] = IF u = t THEN "load" ELSE pc[u]
        BY <1>0, <2>3, MovesOne DEF Degrade
      <3>2. QED BY <1>0, <3>1 DEF OsLockInv, TypeOK
    <2>4. CASE Unlock(t)
      <3>1. /\ osLock' = IF osLock = t THEN None ELSE osLock
            /\ outcome' = outcome
            /\ \A u \in Thread : pc'[u] = IF u = t THEN "release" ELSE pc[u]
        BY <1>0, <2>4, MovesOne DEF Unlock
      <3>2. \A u \in Thread : Holds(u)' => u # t /\ Holds(u)
        BY <3>1 DEF Holds
      <3>3. QED BY <1>0, <3>1, <3>2 DEF OsLockInv, TypeOK
    <2>5. QED BY <1>2, <2>1, <2>2, <2>3, <2>4 DEF Lock
  <1>3. ASSUME NEW t \in Thread, Body(t)
        PROVE  OsLockInv'
    <2>1. PICK q \in InCritical : Goto(t, q)
      BY <1>3 DEF Body, Load, LoadNothing, LoadFaults, Stage, NotEncodable, WriteTemp,
                  Rename, SyncDir, Cleanup
    <2>2. pc[t] \in InBody /\ osLock' = osLock
      BY <1>3 DEF Body, Load, LoadNothing, LoadFaults, Stage, NotEncodable, WriteTemp,
                  Rename, SyncDir, Cleanup
    <2>3. \A u \in Thread \ {t} : outcome'[u] = outcome[u]
      BY <1>0, <1>3 DEF Body, Load, LoadNothing, LoadFaults, Stage, NotEncodable,
                        WriteTemp, Rename, SyncDir, Cleanup, Give, TypeOK
    <2>4. QED BY <2>1, <2>2, <2>3, OsLockKept DEF Holds
  <1>4. ASSUME NEW t \in Thread,
               FailsWithoutTemp(t) \/ FailsWithTemp(t) \/ SyncDirFails(t)
        PROVE  OsLockInv'
    <2>1. PICK q \in {"unlock", "cleanup"} : Goto(t, q)
      BY <1>4 DEF FailsWithoutTemp, FailsWithTemp, SyncDirFails
    <2>2. Give(t, Error) /\ osLock' = osLock
      BY <1>4 DEF FailsWithoutTemp, FailsWithTemp, SyncDirFails
    <2>3. pc[t] \in InBody \/ (pc[t] = "flock" /\ q = "unlock")
      BY <1>0, <1>4, <2>1, MovesOne DEF FailsWithoutTemp, FailsWithTemp, SyncDirFails
    <2>4. Holds(t)' => Holds(t)
      BY <1>0, <1>a, <2>1, <2>2, <2>3, MovesOne DEF Holds
    <2>5. QED BY <1>0, <2>1, <2>2, <2>4, OsLockKept, MovesOne
  <1>5. ASSUME NEW P \in SUBSET Process, Lost(P)
        PROVE  OsLockInv'
    <2>1. \A u \in Thread : IF ProcOf[u] \in P THEN pc'[u] = "idle"
                            ELSE pc'[u] = pc[u] /\ outcome'[u] = outcome[u]
      BY <1>0, <1>5, LostFacts
    <2>2. osLock' = IF osLock \in {u \in Thread : ProcOf[u] \in P} THEN None ELSE osLock
      BY <1>5 DEF Lost
    <2>3. \A u \in Thread : Holds(u)' => ProcOf[u] \notin P /\ Holds(u)
      BY <2>1 DEF Holds
    <2>4. QED BY <1>0, <2>1, <2>2, <2>3 DEF OsLockInv, TypeOK
  <1>6. ASSUME NEW p \in Process, Crash(p)
        PROVE  OsLockInv'
    BY <1>5, <1>6 DEF Crash
  <1>7. ASSUME PowerLoss
        PROVE  OsLockInv'
    BY <1>5, <1>7 DEF PowerLoss
  <1>9. ASSUME NEW t \in Thread,
               InterruptedEntering(t) \/ UnlinkFails(t) \/ UnlockFails(t)
        PROVE  OsLockInv'
    <2>1. CASE InterruptedEntering(t)
      <3>1. PICK q \in {"answered", "return", "release"} : Goto(t, q)
        BY <2>1, InterruptMoves
      <3>2. Give(t, Error) /\ osLock' = osLock /\ osLock # t
        BY <1>b, <2>1, InterruptMoves DEF InterruptedEntering
      <3>3. ~Holds(t)'
        BY <1>0, <3>1, MovesOne DEF Holds
      <3>4. QED BY <1>0, <3>1, <3>2, <3>3, OsLockKept, MovesOne
    <2>2. CASE UnlinkFails(t)
      <3>1. Goto(t, "unlock") /\ osLock' = osLock /\ outcome' = outcome /\ Holds(t)
        BY <2>2 DEF UnlinkFails, Holds
      <3>2. QED BY <3>1, OsLockKept
    <2>3. CASE UnlockFails(t)
      <3>1. /\ osLock' = IF osLock = t THEN None ELSE osLock
            /\ \A u \in Thread : outcome'[u] = IF u = t THEN Error ELSE outcome[u]
            /\ \A u \in Thread : pc'[u] = IF u = t THEN "release" ELSE pc[u]
        BY <1>0, <2>3, MovesOne DEF UnlockFails
      <3>2. \A u \in Thread : Holds(u)' => u # t /\ Holds(u)
        BY <3>1 DEF Holds
      <3>3. QED BY <1>0, <3>1, <3>2 DEF OsLockInv, TypeOK
    <2>4. QED BY <1>9, <2>1, <2>2, <2>3
  <1>8. QED BY <1>1, <1>2, <1>3, <1>4, <1>6, <1>7, <1>9, NextCases

-----------------------------------------------------------------------------
(* Freshness: what is saved was loaded from the file that is replaced *)

\* No step changes the file under a writer that has loaded it.
LEMMA FreshStep == IInv /\ Next => NoStaleSave'
  <1> SUFFICES ASSUME IInv, Next, Serialized, NEW u \in Thread, pc'[u] \in Saving
               PROVE  snapshot'[u] = Loaded(file')
    BY DEF NoStaleSave, Saving, Serialized
  <1>0. TypeOK /\ ThreadLockInv /\ OsLockInv /\ NoStaleSave
    BY DEF IInv
  <1> USE DEF fileVars, lockVars, Saving
  <1>1. ASSUME NEW t \in Thread, Call(t) \/ Read(t) \/ ReadFails(t) \/ Return(t)
        PROVE  snapshot'[u] = Loaded(file')
    BY <1>0, <1>1, MovesOne DEF Call, Read, ReadFails, Return, NoStaleSave
  <1>2. ASSUME NEW t \in Thread, Lock(t) \/ Degrade(t) \/ Unlock(t) \/ ReleaseThreadLock(t)
        PROVE  snapshot'[u] = Loaded(file')
    <2>1. u # t /\ pc[u] \in Saving /\ file' = file /\ snapshot'[u] = snapshot[u]
      BY <1>0, <1>2, MovesOne
         DEF Lock, GetThreadLock, AcquireThreadLock, OpenLockFile, LockExclusive, Degrade,
             Unlock, ReleaseThreadLock, TypeOK
    <2>2. QED BY <1>0, <2>1 DEF NoStaleSave
  <1>3. ASSUME NEW t \in Thread, Body(t)
        PROVE  snapshot'[u] = Loaded(file')
    <2>1. CASE Load(t)
      <3>1. \A x \in Thread : /\ pc'[x] = IF x = t THEN "stage" ELSE pc[x]
                              /\ snapshot'[x] = IF x = t THEN Loaded(file) ELSE snapshot[x]
        BY <1>0, <2>1, MovesOne DEF Load, TypeOK
      <3>2. QED BY <1>0, <2>1, <3>1 DEF Load, NoStaleSave
    <2>2. CASE Rename(t)
      <3>1. Holds(t) /\ pc'[t] = "sync_dir"
        BY <1>0, <2>2, MovesOne DEF Rename, Holds
      <3>2. u # t /\ Holds(u)
        BY <1>0, <2>2, <3>1, MovesOne DEF Rename, Holds
      <3>3. QED BY <1>0, <3>1, <3>2, Exclusion
    <2>3. CASE Stage(t) \/ WriteTemp(t)
      BY <1>0, <2>3, MovesOne DEF Stage, WriteTemp, NoStaleSave
    <2>4. CASE LoadNothing(t) \/ LoadFaults(t) \/ NotEncodable(t) \/ SyncDir(t) \/ Cleanup(t)
      <3>1. pc'[t] = "unlock" /\ snapshot' = snapshot /\ file' = file
        BY <1>0, <2>4, MovesOne
           DEF LoadNothing, LoadFaults, NotEncodable, SyncDir, Cleanup
      <3>2. u # t /\ pc[u] \in Saving
        BY <1>0, <2>4, <3>1, MovesOne
           DEF LoadNothing, LoadFaults, NotEncodable, SyncDir, Cleanup
      <3>3. QED BY <1>0, <3>1, <3>2 DEF NoStaleSave
    <2>5. QED BY <1>3, <2>1, <2>2, <2>3, <2>4 DEF Body
  <1>4. ASSUME NEW t \in Thread,
               FailsWithoutTemp(t) \/ FailsWithTemp(t) \/ SyncDirFails(t)
        PROVE  snapshot'[u] = Loaded(file')
    <2>1. pc[u] \in Saving /\ file' = file /\ snapshot' = snapshot
      BY <1>0, <1>4, MovesOne DEF FailsWithoutTemp, FailsWithTemp, SyncDirFails
    <2>2. QED BY <1>0, <2>1 DEF NoStaleSave
  <1>5. ASSUME NEW p \in Process, Crash(p)
        PROVE  snapshot'[u] = Loaded(file')
    <2>1. ProcOf[u] # p /\ pc'[u] = pc[u] /\ snapshot'[u] = snapshot[u] /\ file' = file
      BY <1>0, <1>5, LostFacts DEF Crash
    <2>2. QED BY <1>0, <2>1 DEF NoStaleSave
  <1>6. ASSUME PowerLoss
        PROVE  snapshot'[u] = Loaded(file')
    BY <1>0, <1>6, LostFacts DEF PowerLoss
  <1>9. ASSUME NEW t \in Thread,
               InterruptedEntering(t) \/ UnlinkFails(t) \/ UnlockFails(t)
        PROVE  snapshot'[u] = Loaded(file')
    <2>1. pc[u] \in Saving /\ u # t
      BY <1>0, <1>9, InterruptMoves, MovesOne DEF UnlinkFails, UnlockFails
    <2>2. file' = file /\ snapshot'[u] = snapshot[u]
      BY <1>0, <1>9, <2>1 DEF InterruptedEntering, UnlinkFails, UnlockFails, TypeOK
    <2>3. QED BY <1>0, <2>1, <2>2 DEF NoStaleSave
  <1>7. QED BY <1>1, <1>2, <1>3, <1>4, <1>5, <1>6, <1>9, NextCases

-----------------------------------------------------------------------------
(* What each thread carries *)

\* The part of CarryInv that speaks of one thread.
Carries(t) ==
    /\ pc[t] # "idle" => call[t] \in Ops
    /\ pc[t] \in HasLockRef \cup {"lookup"} => IsWrite(call[t])
    /\ pc[t] = "read" => ~IsWrite(call[t])
    /\ snapshot[t] # None => pc[t] \in InCritical \ {"load"}
    /\ pc[t] \in Saving => /\ parse_store(snapshot[t], call[t].ns)
                           /\ Writes(call[t], snapshot[t])
    /\ temp[t] # None => pc[t] \in Writing
    /\ pc[t] = "rename" => temp[t] = [data |-> NewContent(t), synced |-> TRUE]
    /\ pc[t] = "cleanup" => outcome[t] = Error

\* What a thread carries, without the quantifier.
LEMMA CarryChar ==
    CarryInv <=> (\A t \in Thread : Carries(t)) /\ file \in recoverable
  BY DEF CarryInv, Carries

\* A thread whose own state a step leaves alone carries what it did.
LEMMA CarriesKept ==
    ASSUME NEW u, Carries(u), pc'[u] = pc[u], call'[u] = call[u],
           snapshot'[u] = snapshot[u], temp'[u] = temp[u], outcome'[u] = outcome[u]
    PROVE  Carries(u)'
  BY DEF Carries, NewContent

\* Every step keeps what each position carries.
LEMMA CarryStep == IInv /\ Next => CarryInv'
  <1> SUFFICES ASSUME IInv, Next PROVE CarryInv'
    OBVIOUS
  <1>0. TypeOK /\ file \in recoverable /\ \A u \in Thread : Carries(u)
    BY CarryChar DEF IInv
  <1> USE DEF fileVars, lockVars, Saving
  \* A step of thread t that leaves the file alone has only t to answer for.
  <1>a. ASSUME NEW t \in Thread, Carries(t)', file' \in recoverable',
               \A u \in Thread \ {t} : pc'[u] = pc[u] /\ call'[u] = call[u]
                                       /\ snapshot'[u] = snapshot[u] /\ temp'[u] = temp[u]
                                       /\ outcome'[u] = outcome[u]
        PROVE  CarryInv'
    <2>1. \A u \in Thread \ {t} : Carries(u)'
      BY <1>0, <1>a, CarriesKept
    <2>2. \A u \in Thread : Carries(u)'
      BY <1>a, <2>1
    <2>3. QED BY <1>a, <2>2 DEF CarryInv, Carries
  <1>1. ASSUME NEW t \in Thread, Call(t) \/ Read(t) \/ ReadFails(t) \/ Return(t)
        PROVE  CarryInv'
    <2>1. CASE Call(t)
      <3>1. PICK op \in Ops : /\ call' = [call EXCEPT ![t] = op]
                              /\ Goto(t, IF IsWrite(op) THEN "lookup" ELSE "read")
        BY <2>1 DEF Call
      <3>2. /\ \A u \in Thread : call'[u] = IF u = t THEN op ELSE call[u]
            /\ \A u \in Thread : pc'[u] = IF u = t
                                          THEN (IF IsWrite(op) THEN "lookup" ELSE "read")
                                          ELSE pc[u]
        BY <1>0, <3>1, MovesOne DEF TypeOK
      <3>3. snapshot'[t] = None /\ temp'[t] = None
        BY <1>0, <2>1 DEF Call, Carries
      <3>4. Carries(t)'
        BY <3>2, <3>3 DEF Carries
      <3>5. QED BY <1>0, <1>a, <2>1, <3>2, <3>4 DEF Call
    <2>2. CASE Read(t) \/ ReadFails(t)
      <3>1. Carries(t)'
        BY <1>0, <2>2, MovesOne DEF Read, ReadFails, Carries, NewContent
      <3>2. QED BY <1>0, <1>a, <2>2, <3>1, MovesOne DEF Read, ReadFails
    <2>3. CASE Return(t)
      <3>1. Carries(t)'
        <4>1. pc'[t] = "idle" /\ snapshot'[t] = snapshot[t] /\ temp'[t] = temp[t]
          BY <1>0, <2>3, MovesOne DEF Return
        <4>2. snapshot[t] = None /\ temp[t] = None
          BY <1>0, <2>3 DEF Return, Carries
        <4>3. QED BY <4>1, <4>2 DEF Carries
      <3>2. QED BY <1>0, <1>a, <2>3, <3>1, MovesOne DEF Return, TypeOK
    <2>4. QED BY <1>1, <2>1, <2>2, <2>3
  <1>2. ASSUME NEW t \in Thread, Lock(t) \/ Degrade(t) \/ Unlock(t) \/ ReleaseThreadLock(t)
        PROVE  CarryInv'
    <2>1. CASE Lock(t) \/ Degrade(t) \/ ReleaseThreadLock(t)
      <3>1. Carries(t)'
        BY <1>0, <2>1, MovesOne
           DEF Lock, GetThreadLock, AcquireThreadLock, OpenLockFile, LockExclusive,
               Degrade, ReleaseThreadLock, Carries, NewContent
      <3>2. QED
        BY <1>0, <1>a, <2>1, <3>1, MovesOne
           DEF Lock, GetThreadLock, AcquireThreadLock, OpenLockFile, LockExclusive,
               Degrade, ReleaseThreadLock
    <2>2. CASE Unlock(t)
      <3>1. \A u \in Thread : snapshot'[u] = IF u = t THEN None ELSE snapshot[u]
        BY <1>0, <2>2 DEF Unlock, TypeOK
      <3>2. Carries(t)'
        <4>1. /\ pc'[t] = "release" /\ call'[t] = call[t]
              /\ snapshot'[t] = None /\ temp'[t] = temp[t]
          BY <1>0, <2>2, <3>1, MovesOne DEF Unlock
        <4>2. temp[t] = None /\ call[t] \in Ops /\ IsWrite(call[t])
          BY <1>0, <2>2 DEF Unlock, Carries
        <4>3. QED BY <4>1, <4>2 DEF Carries
      <3>3. QED BY <1>0, <1>a, <2>2, <3>1, <3>2, MovesOne DEF Unlock
    <2>3. QED BY <1>2, <2>1, <2>2
  <1>3. ASSUME NEW t \in Thread, Body(t)
        PROVE  CarryInv'
    <2>1. CASE Load(t)
      <3>1. \A u \in Thread : snapshot'[u] = IF u = t THEN Loaded(file) ELSE snapshot[u]
        BY <1>0, <2>1 DEF Load, TypeOK
      <3>2. parse_store(Loaded(file), call[t].ns)
        BY <1>0, <2>1, LoadedParses DEF Load, Carries, Op
      <3>3. Carries(t)'
        <4>1. /\ pc'[t] = "stage" /\ call'[t] = call[t] /\ temp'[t] = temp[t]
              /\ snapshot'[t] = Loaded(file) /\ Writes(call[t], Loaded(file))
          BY <1>0, <2>1, <3>1, MovesOne DEF Load
        <4>2. temp[t] = None /\ call[t] \in Ops /\ IsWrite(call[t])
          BY <1>0, <2>1 DEF Load, Carries
        <4>3. QED BY <3>2, <4>1, <4>2 DEF Carries
      <3>4. QED BY <1>0, <1>a, <2>1, <3>1, <3>3, MovesOne DEF Load
    <2>2. CASE LoadNothing(t) \/ LoadFaults(t) \/ NotEncodable(t) \/ SyncDir(t)
      <3>1. Carries(t)'
        BY <1>0, <2>2, MovesOne DEF LoadNothing, LoadFaults, NotEncodable, SyncDir, Carries, NewContent
      <3>2. file' \in recoverable'
        BY <1>0, <2>2 DEF LoadNothing, LoadFaults, NotEncodable, SyncDir
      <3>3. QED
        BY <1>0, <1>a, <2>2, <3>1, <3>2, MovesOne
           DEF LoadNothing, LoadFaults, NotEncodable, SyncDir
    <2>3. CASE Stage(t) \/ Cleanup(t)
      <3>1. \A u \in Thread \ {t} : temp'[u] = temp[u]
        BY <1>0, <2>3 DEF Stage, Cleanup, TypeOK
      <3>2. Cleanup(t) => temp'[t] = None
        BY <1>0 DEF Cleanup, TypeOK
      <3>3. Carries(t)'
        BY <1>0, <2>3, <3>2, MovesOne DEF Stage, Cleanup, Carries, NewContent
      <3>4. QED BY <1>0, <1>a, <2>3, <3>1, <3>3, MovesOne DEF Stage, Cleanup
    <2>4. CASE WriteTemp(t)
      <3>1. NewContent(t)' = NewContent(t)
        BY <2>4 DEF WriteTemp, NewContent
      <3>2. \A u \in Thread : temp'[u] = IF u = t
                                         THEN [data |-> NewContent(t), synced |-> TRUE]
                                         ELSE temp[u]
        BY <1>0, <2>4 DEF WriteTemp, TypeOK
      <3>3. Carries(t)'
        <4>1. /\ pc'[t] = "rename" /\ call'[t] = call[t] /\ snapshot'[t] = snapshot[t]
              /\ temp'[t] = [data |-> NewContent(t)', synced |-> TRUE]
          BY <1>0, <2>4, <3>1, <3>2, MovesOne DEF WriteTemp
        <4>2. /\ call[t] \in Ops /\ IsWrite(call[t])
              /\ parse_store(snapshot[t], call[t].ns) /\ Writes(call[t], snapshot[t])
          BY <1>0, <2>4 DEF WriteTemp, Carries
        <4>3. QED BY <4>1, <4>2 DEF Carries
      <3>4. QED BY <1>0, <1>a, <2>4, <3>2, <3>3, MovesOne DEF WriteTemp
    <2>5. CASE Rename(t)
      <3>1. \A u \in Thread : temp'[u] = IF u = t THEN None ELSE temp[u]
        BY <1>0, <2>5 DEF Rename, TypeOK
      <3>2. OnDisk(temp[t]) = temp[t].data
        <4>1. temp[t] = [data |-> NewContent(t), synced |-> TRUE]
          BY <1>0, <2>5 DEF Rename, Carries, NewContent
        <4>2. QED BY <4>1 DEF OnDisk
      <3>3. file' \in recoverable'
        BY <2>5, <3>2 DEF Rename
      <3>4. Carries(t)'
        BY <1>0, <2>5, <3>1, MovesOne DEF Rename, Carries, NewContent
      <3>5. QED BY <1>0, <1>a, <2>5, <3>1, <3>3, <3>4, MovesOne DEF Rename
    <2>6. QED BY <1>3, <2>1, <2>2, <2>3, <2>4, <2>5 DEF Body
  <1>4. ASSUME NEW t \in Thread,
               FailsWithoutTemp(t) \/ FailsWithTemp(t) \/ SyncDirFails(t)
        PROVE  CarryInv'
    <2>1. Carries(t)'
      BY <1>0, <1>4, MovesOne DEF FailsWithoutTemp, FailsWithTemp, SyncDirFails, Carries, NewContent
    <2>2. QED
      BY <1>0, <1>4, <1>a, <2>1, MovesOne DEF FailsWithoutTemp, FailsWithTemp, SyncDirFails
  <1>5. ASSUME NEW P \in SUBSET Process, Lost(P), file' \in recoverable'
        PROVE  CarryInv'
    <2>1. ASSUME NEW u \in Thread PROVE Carries(u)'
      <3>1. CASE ProcOf[u] \in P
        BY <1>0, <1>5, <3>1, LostFacts DEF Carries
      <3>2. CASE ProcOf[u] \notin P
        BY <1>0, <1>5, <3>2, LostFacts, CarriesKept
      <3>3. QED BY <3>1, <3>2
    <2>2. QED BY <1>5, <2>1 DEF CarryInv, Carries
  <1>6. ASSUME NEW p \in Process, Crash(p)
        PROVE  CarryInv'
    BY <1>0, <1>5, <1>6 DEF Crash
  <1>7. ASSUME PowerLoss
        PROVE  CarryInv'
    BY <1>5, <1>7 DEF PowerLoss
  <1>9. ASSUME NEW t \in Thread,
               InterruptedEntering(t) \/ UnlinkFails(t) \/ UnlockFails(t)
        PROVE  CarryInv'
    <2>1. CASE InterruptedEntering(t)
      <3>1. /\ snapshot[t] = None /\ temp[t] = None
            /\ call[t] \in Ops /\ IsWrite(call[t])
        BY <1>0, <2>1, InterruptMoves DEF Carries
      <3>2. \E q \in {"answered", "return", "release"} : pc'[t] = q
        BY <1>0, <2>1, InterruptMoves, MovesOne
      <3>3. UNCHANGED <<call, snapshot, temp, file, recoverable>>
        BY <2>1 DEF InterruptedEntering
      <3>4. Carries(t)'
        BY <3>1, <3>2, <3>3 DEF Carries
      <3>5. \A u \in Thread \ {t} : pc'[u] = pc[u] /\ outcome'[u] = outcome[u]
        BY <1>0, <2>1, InterruptMoves, MovesOne DEF InterruptedEntering
      <3>6. QED BY <1>0, <1>a, <3>3, <3>4, <3>5
    <2>2. CASE UnlinkFails(t)
      <3>1. \A u \in Thread : temp'[u] = IF u = t THEN None ELSE temp[u]
        BY <1>0, <2>2 DEF UnlinkFails, TypeOK
      <3>2. Carries(t)'
        BY <1>0, <2>2, <3>1, MovesOne DEF UnlinkFails, Carries, NewContent
      <3>3. QED BY <1>0, <1>a, <2>2, <3>1, <3>2, MovesOne DEF UnlinkFails
    <2>3. CASE UnlockFails(t)
      <3>1. \A u \in Thread : snapshot'[u] = IF u = t THEN None ELSE snapshot[u]
        BY <1>0, <2>3 DEF UnlockFails, TypeOK
      <3>2. Carries(t)'
        <4>1. /\ pc'[t] = "release" /\ call'[t] = call[t]
              /\ snapshot'[t] = None /\ temp'[t] = temp[t]
          BY <1>0, <2>3, <3>1, MovesOne DEF UnlockFails
        <4>2. temp[t] = None /\ call[t] \in Ops /\ IsWrite(call[t])
          BY <1>0, <2>3 DEF UnlockFails, Carries
        <4>3. QED BY <4>1, <4>2 DEF Carries
      <3>3. QED BY <1>0, <1>a, <2>3, <3>1, <3>2, MovesOne DEF UnlockFails
    <2>4. QED BY <1>9, <2>1, <2>2, <2>3
  <1>8. QED BY <1>1, <1>2, <1>3, <1>4, <1>6, <1>7, <1>9, NextCases

-----------------------------------------------------------------------------
(* Durability of what was acknowledged *)

\* No step makes an acknowledged write recoverable into anything else.
LEMMA SyncStep == IInv /\ Next => AckedWriteSurvives'
  <1> SUFFICES ASSUME IInv, Next, Serialized, DirSync, NEW u \in Thread,
                      pc'[u] = "unlock", outcome'[u] = Ok, snapshot'[u] # None
               PROVE  recoverable' = {file'}
    BY DEF AckedWriteSurvives, Serialized
  <1>0. TypeOK /\ ThreadLockInv /\ OsLockInv /\ AckedWriteSurvives
        /\ \A t \in Thread : Carries(t)
    BY CarryChar DEF IInv
  <1> USE DEF fileVars, lockVars
  <1>a. Ok # Error
    BY DEF Ok, Error
  \* u was already there, and the step did not touch the file.
  <1>b. ASSUME pc[u] = "unlock", outcome[u] = Ok, snapshot[u] # None,
               file' = file, recoverable' = recoverable
        PROVE  recoverable' = {file'}
    BY <1>0, <1>b DEF AckedWriteSurvives
  <1>1. ASSUME NEW t \in Thread, Call(t) \/ Read(t) \/ ReadFails(t) \/ Return(t)
        PROVE  recoverable' = {file'}
    <2>1. u # t /\ pc[u] = pc'[u] /\ snapshot[u] = snapshot'[u]
      BY <1>0, <1>1, MovesOne DEF Call, Read, ReadFails, Return
    <2>2. outcome'[u] = outcome[u]
      BY <1>0, <1>1, <2>1 DEF Call, Read, ReadFails, Return, Give, TypeOK
    <2>3. QED BY <1>1, <1>b, <2>1, <2>2 DEF Call, Read, ReadFails, Return
  <1>2. ASSUME NEW t \in Thread, Lock(t) \/ Degrade(t) \/ Unlock(t) \/ ReleaseThreadLock(t)
        PROVE  recoverable' = {file'}
    <2>1. u # t /\ pc[u] = pc'[u] /\ outcome'[u] = outcome[u] /\ snapshot[u] = snapshot'[u]
          /\ file' = file /\ recoverable' = recoverable
      BY <1>0, <1>2, MovesOne
         DEF Lock, GetThreadLock, AcquireThreadLock, OpenLockFile, LockExclusive, Degrade,
             Unlock, ReleaseThreadLock, TypeOK
    <2>2. QED BY <1>b, <2>1
  <1>3. ASSUME NEW t \in Thread, Body(t)
        PROVE  recoverable' = {file'}
    <2>1. CASE SyncDir(t)
      BY <2>1 DEF SyncDir
    <2>2. CASE Rename(t)
      <3>1. pc'[t] = "sync_dir" /\ Holds(t) /\ outcome' = outcome
        BY <1>0, <2>2, MovesOne DEF Rename, Holds
      <3>2. u # t /\ Holds(u)
        BY <1>0, <2>2, <3>1, MovesOne DEF Rename, Holds
      <3>3. QED BY <1>0, <3>1, <3>2, Exclusion
    <2>3. CASE LoadNothing(t)
      <3>1. snapshot'[t] = None /\ snapshot' = snapshot
        BY <1>0, <2>3 DEF LoadNothing, Carries
      <3>2. u # t
        BY <3>1
      <3>3. pc[u] = pc'[u] /\ outcome'[u] = outcome[u]
        BY <1>0, <2>3, <3>2, MovesOne DEF LoadNothing
      <3>4. QED BY <1>b, <2>3, <3>1, <3>3 DEF LoadNothing
    <2>4. CASE LoadFaults(t) \/ NotEncodable(t)
      <3>1. u # t
        BY <1>0, <1>a, <2>4, MovesOne DEF LoadFaults, NotEncodable
      <3>2. pc[u] = pc'[u] /\ outcome'[u] = outcome[u]
        BY <1>0, <2>4, <3>1, MovesOne DEF LoadFaults, NotEncodable
      <3>3. QED BY <1>b, <2>4, <3>2 DEF LoadFaults, NotEncodable
    <2>5. CASE Load(t) \/ Stage(t) \/ WriteTemp(t)
      <3>1. u # t /\ pc[u] = pc'[u] /\ outcome' = outcome
        BY <1>0, <2>5, MovesOne DEF Load, Stage, WriteTemp
      <3>2. snapshot[u] = snapshot'[u]
        BY <1>0, <2>5, <3>1 DEF Load, Stage, WriteTemp, TypeOK
      <3>3. QED BY <1>b, <2>5, <3>1, <3>2 DEF Load, Stage, WriteTemp
    <2>6. CASE Cleanup(t)
      <3>1. Holds(t) /\ outcome' = outcome /\ snapshot' = snapshot
        BY <2>6 DEF Cleanup, Holds
      <3>2. outcome[u] = Ok /\ (u = t \/ pc[u] = "unlock")
        BY <1>0, <2>6, <3>1, MovesOne DEF Cleanup
      <3>3. outcome[t] = Error
        BY <1>0, <2>6 DEF Cleanup, Carries
      <3>4. QED BY <1>a, <1>b, <2>6, <3>1, <3>2, <3>3 DEF Cleanup
    <2>7. QED BY <1>3, <2>1, <2>2, <2>3, <2>4, <2>5, <2>6 DEF Body
  <1>4. ASSUME NEW t \in Thread,
               FailsWithoutTemp(t) \/ FailsWithTemp(t) \/ SyncDirFails(t)
        PROVE  recoverable' = {file'}
    <2>1. Give(t, Error) /\ UNCHANGED <<file, recoverable, snapshot>>
      BY <1>4 DEF FailsWithoutTemp, FailsWithTemp, SyncDirFails
    <2>2. u # t
      BY <1>0, <1>a, <2>1, MovesOne
    <2>3. pc[u] = pc'[u] /\ outcome'[u] = outcome[u]
      BY <1>0, <1>4, <2>2, MovesOne DEF FailsWithoutTemp, FailsWithTemp, SyncDirFails
    <2>4. QED BY <1>b, <2>1, <2>3
  <1>5. ASSUME NEW p \in Process, Crash(p)
        PROVE  recoverable' = {file'}
    <2>1. pc[u] = pc'[u] /\ outcome'[u] = outcome[u] /\ snapshot[u] = snapshot'[u]
      BY <1>0, <1>5, LostFacts DEF Crash
    <2>2. QED BY <1>5, <1>b, <2>1 DEF Crash
  <1>6. ASSUME PowerLoss
        PROVE  recoverable' = {file'}
    BY <1>6 DEF PowerLoss
  <1>9. ASSUME NEW t \in Thread,
               InterruptedEntering(t) \/ UnlinkFails(t) \/ UnlockFails(t)
        PROVE  recoverable' = {file'}
    <2>1. UnlinkFails(t) => outcome'[t] = Error
      BY <1>0 DEF UnlinkFails, Carries
    <2>2. u # t
      BY <1>0, <1>9, <1>a, <2>1, InterruptMoves, MovesOne DEF UnlockFails
    <2>3. pc[u] = pc'[u] /\ outcome'[u] = outcome[u]
      BY <1>0, <1>9, <2>2, InterruptMoves, MovesOne
         DEF InterruptedEntering, UnlinkFails, UnlockFails
    <2>4. snapshot[u] = snapshot'[u] /\ file' = file /\ recoverable' = recoverable
      BY <1>0, <1>9, <2>2 DEF InterruptedEntering, UnlinkFails, UnlockFails, TypeOK
    <2>5. QED BY <1>b, <2>3, <2>4
  <1>7. QED BY <1>1, <1>2, <1>3, <1>4, <1>5, <1>6, <1>9, NextCases

-----------------------------------------------------------------------------
(* The invariant, and what follows from it *)

\* A stutter keeps the inductive invariant.
LEMMA StutterIInv == IInv /\ UNCHANGED vars => IInv'
  <1> SUFFICES ASSUME IInv, UNCHANGED vars PROVE IInv'
    OBVIOUS
  <1> USE DEF IInv, vars
  <1>1. TypeOK' /\ ThreadLockInv'
    BY DEF TypeOK, ThreadLockInv
  <1>2. OsLockInv'
    BY DEF OsLockInv, Holds
  <1>3. CarryInv'
    BY DEF CarryInv, NewContent
  <1>4. NoStaleSave' /\ AckedWriteSurvives'
    BY DEF NoStaleSave, AckedWriteSurvives, Serialized
  <1>5. QED BY <1>1, <1>2, <1>3, <1>4

\* IInv is an invariant: it holds initially and every step keeps it.
THEOREM Invariance == Spec => []IInv
  <1>1. IInv /\ [Next]_vars => IInv'
    <2>1. IInv /\ Next => IInv'
      BY TypeStep, ThreadLockStep, OsLockStep, CarryStep, FreshStep, SyncStep DEF IInv
    <2>2. QED BY <2>1, StutterIInv
  <1>2. QED BY <1>1, InitIInv, PTL DEF Spec

\* Every variable keeps its type.
THEOREM TypeCorrectness == Spec => []TypeOK
  <1>1. IInv => TypeOK
    BY DEF IInv
  <1>2. QED BY <1>1, Invariance, PTL

\* Within one process the body of exclusive_store_lock is never entered twice,
\* even where the OS lock is unavailable.
THEOREM ThreadMutualExclusion == Spec => []OneThreadPerProcess
  <1>1. IInv => OneThreadPerProcess
    BY ThreadExclusion DEF IInv
  <1>2. QED BY <1>1, Invariance, PTL

\* Where the OS lock works, or a single process uses the store, one
\* read-modify-write runs at a time.
THEOREM MutualExclusion == Spec => []OneWriter
  <1>1. IInv => OneWriter
    BY WriterExclusion DEF IInv
  <1>2. QED BY <1>1, Invariance, PTL

\* A set or unset saves a change of the very content it replaces.
THEOREM NoLostUpdate == Spec => []NoStaleSave
  <1>1. IInv => NoStaleSave
    BY DEF IInv
  <1>2. QED BY <1>1, Invariance, PTL

\* A write that is reported done survives a power loss.
THEOREM Durability == Spec => []AckedWriteSurvives
  <1>1. IInv => AckedWriteSurvives
    BY DEF IInv
  <1>2. QED BY <1>1, Invariance, PTL

\* Only a save changes the file, to a well-formed store; a power loss returns to a
\* content the path may hold.
LEMMA FileSteps ==
    ASSUME IInv, Next
    PROVE  \/ \E t \in Thread : Rename(t) /\ file' = NewContent(t)
                                /\ recoverable' = recoverable \cup {file'}
           \/ file' = file /\ recoverable' = recoverable
           \/ \E t \in Thread : SyncDir(t)
           \/ PowerLoss
  <1>1. ASSUME NEW t \in Thread, Rename(t)
        PROVE  file' = NewContent(t) /\ recoverable' = recoverable \cup {file'}
    <2>1. temp[t] = [data |-> NewContent(t), synced |-> TRUE]
      BY <1>1 DEF Rename, IInv, CarryInv
    <2>2. QED BY <1>1, <2>1 DEF Rename, OnDisk
  <1>2. ASSUME NEW t \in Thread, Body(t), ~Rename(t), ~SyncDir(t)
        PROVE  file' = file /\ recoverable' = recoverable
    BY <1>2 DEF Body, Load, LoadNothing, LoadFaults, Stage, NotEncodable, WriteTemp,
                Cleanup, fileVars
  <1>3. ASSUME NEW t \in Thread,
               \/ Call(t) \/ Read(t) \/ Fails(t) \/ Lock(t) \/ Exit(t)
        PROVE  file' = file /\ recoverable' = recoverable
    BY <1>3 DEF Call, Read, Fails, ReadFails, InterruptedEntering, FailsWithoutTemp,
                FailsWithTemp, UnlinkFails, SyncDirFails, UnlockFails, Lock, GetThreadLock, AcquireThreadLock, OpenLockFile,
                LockExclusive, Degrade, Exit, Unlock, ReleaseThreadLock, Return, fileVars
  <1>4. ASSUME NEW p \in Process, Crash(p)
        PROVE  file' = file /\ recoverable' = recoverable
    BY <1>4 DEF Crash
  <1>5. QED BY <1>1, <1>2, <1>3, <1>4 DEF Next, Run

\* No step, crash or power loss puts a torn file where there was none.
THEOREM NoTornFile == Spec => NeverTorn
  <1> DEFINE Tears == Malformed \in recoverable' \cup {file'} /\ Malformed \notin recoverable
  <1>1. IInv /\ Next => ~Tears
    <2> SUFFICES ASSUME IInv, Next PROVE ~Tears
      OBVIOUS
    <2>1. file \in recoverable
      BY DEF IInv, CarryInv
    <2>2. ASSUME NEW t \in Thread, Rename(t), file' = NewContent(t)
          PROVE  file' # Malformed
      BY <2>2, NewContentType DEF Rename, Saving, IInv
    <2>3. ASSUME NEW t \in Thread, SyncDir(t)
          PROVE  file' = file /\ recoverable' \in {{file}, recoverable}
      BY <2>3 DEF SyncDir
    <2>4. QED BY <2>1, <2>2, <2>3, FileSteps DEF PowerLoss
  <1>2. IInv /\ [Next]_vars => [~Tears]_vars
    BY <1>1
  <1>3. [~Tears]_vars
          => [(Malformed \in recoverable' \cup {file'}) => (Malformed \in recoverable)]_vars
    OBVIOUS
  <1>4. QED BY <1>2, <1>3, Invariance, PTL DEF Spec, NeverTorn

\* The threads a first failure has sent to remove their temporary file.
Cleaning == {t \in Thread : pc[t] = "cleanup"}

\* Each of them has met one failure, and each file left behind is the work of two.
DebrisInv == deaths = 0 => 2 * debris + Cardinality(Cleaning) <= faults

\* One thread alone enters or leaves the set.
LEMMA CleaningMoves ==
    ASSUME TypeOK, NEW t \in Thread, NEW q, Goto(t, q)
    PROVE  /\ Cardinality(Cleaning) \in Nat
           /\ Cardinality(Cleaning)' =
                IF pc[t] # "cleanup" /\ q = "cleanup" THEN Cardinality(Cleaning) + 1
                ELSE IF pc[t] = "cleanup" /\ q # "cleanup" THEN Cardinality(Cleaning) - 1
                ELSE Cardinality(Cleaning)
  <1>1. IsFiniteSet(Cleaning)
    BY FS_Subset DEF Cleaning
  <1>2. \A u \in Thread : pc'[u] = IF u = t THEN q ELSE pc[u]
    BY MovesOne
  <1>3. Cleaning' = IF q = "cleanup" THEN Cleaning \cup {t} ELSE Cleaning \ {t}
    BY <1>2 DEF Cleaning
  <1>4. t \in Cleaning <=> pc[t] = "cleanup"
    BY DEF Cleaning
  <1>5. Cardinality(Cleaning) \in Nat
    BY <1>1, FS_CardinalityType
  <1>6. Cardinality(Cleaning)' = IF q = "cleanup" THEN Cardinality(Cleaning \cup {t})
                                 ELSE Cardinality(Cleaning \ {t})
    BY <1>3
  <1> HIDE DEF Cleaning
  <1>7. QED BY <1>1, <1>4, <1>5, <1>6, FS_AddElement, FS_RemoveElement

\* Every step keeps the count: the failure of a write is its first, that of the unlink
\* its second.
LEMMA DebrisStep == IInv /\ DebrisInv /\ Next => DebrisInv'
  <1> SUFFICES ASSUME IInv, DebrisInv, Next PROVE DebrisInv'
    OBVIOUS
  <1>0. TypeOK
    BY DEF IInv
  <1> USE DEF fileVars, lockVars
  \* A move of one thread that neither starts nor ends a clean-up, or ends one well.
  <1>a. ASSUME NEW t \in Thread, NEW q, Goto(t, q), q # "cleanup",
               debris' = debris, faults' \in {faults, faults + 1}, deaths' = deaths
        PROVE  DebrisInv'
    <2>1. /\ Cardinality(Cleaning) \in Nat
          /\ Cardinality(Cleaning)' \in {Cardinality(Cleaning), Cardinality(Cleaning) - 1}
      BY <1>0, <1>a, CleaningMoves
    <2>2. debris \in Nat /\ faults \in Nat
      BY <1>0 DEF TypeOK
    <2> HIDE DEF Cleaning
    <2>3. QED BY <1>a, <2>1, <2>2 DEF DebrisInv
  <1>1. ASSUME NEW t \in Thread, Call(t) \/ Read(t) \/ ReadFails(t) \/ Return(t)
        PROVE  DebrisInv'
    <2>1. PICK q \in {"lookup", "read", "answered", "idle"} : Goto(t, q)
      BY <1>1 DEF Call, Read, ReadFails, Return
    <2>2. debris' = debris /\ faults' \in {faults, faults + 1} /\ deaths' = deaths
      BY <1>1 DEF Call, Read, ReadFails, Return, Fault
    <2>3. QED BY <1>a, <2>1, <2>2
  <1>2. ASSUME NEW t \in Thread, Lock(t) \/ Degrade(t) \/ Unlock(t) \/ ReleaseThreadLock(t)
        PROVE  DebrisInv'
    <2>1. PICK q \in {"acquire", "open_lock", "flock", "load", "release", "return"} : Goto(t, q)
      BY <1>2 DEF Lock, GetThreadLock, AcquireThreadLock, OpenLockFile, LockExclusive,
                  Degrade, Unlock, ReleaseThreadLock
    <2>2. debris' = debris /\ faults' = faults /\ deaths' = deaths
      BY <1>2 DEF Lock, GetThreadLock, AcquireThreadLock, OpenLockFile, LockExclusive,
                  Degrade, Unlock, ReleaseThreadLock
    <2>3. QED BY <1>a, <2>1, <2>2
  <1>3. ASSUME NEW t \in Thread, Body(t)
        PROVE  DebrisInv'
    <2>1. PICK q \in {"stage", "write", "rename", "sync_dir", "unlock"} : Goto(t, q)
      BY <1>3 DEF Body, Load, LoadNothing, LoadFaults, Stage, NotEncodable, WriteTemp, Rename,
                  SyncDir, Cleanup
    <2>2. debris' = debris /\ faults' = faults /\ deaths' = deaths
      BY <1>3 DEF Body, Load, LoadNothing, LoadFaults, Stage, NotEncodable, WriteTemp, Rename,
                  SyncDir, Cleanup
    <2>3. QED BY <1>a, <2>1, <2>2
  <1>4. ASSUME NEW t \in Thread, FailsWithoutTemp(t) \/ FailsWithTemp(t) \/ SyncDirFails(t)
        PROVE  DebrisInv'
    <2>1. debris' = debris /\ faults' = faults + 1 /\ deaths' = deaths
      BY <1>4 DEF FailsWithoutTemp, FailsWithTemp, SyncDirFails, Fault
    <2>2. CASE FailsWithTemp(t)
      <3>1. /\ Cardinality(Cleaning) \in Nat
            /\ Cardinality(Cleaning)' = Cardinality(Cleaning) + 1
        BY <1>0, <2>2, CleaningMoves DEF FailsWithTemp
      <3>2. debris \in Nat /\ faults \in Nat
        BY <1>0 DEF TypeOK
      <3> HIDE DEF Cleaning
      <3>3. QED BY <2>1, <3>1, <3>2 DEF DebrisInv
    <2>3. CASE FailsWithoutTemp(t) \/ SyncDirFails(t)
      BY <1>a, <2>1, <2>3 DEF FailsWithoutTemp, SyncDirFails
    <2>4. QED BY <1>4, <2>2, <2>3
  <1>5. ASSUME NEW t \in Thread,
               InterruptedEntering(t) \/ UnlinkFails(t) \/ UnlockFails(t)
        PROVE  DebrisInv'
    <2>1. CASE InterruptedEntering(t) \/ UnlockFails(t)
      <3>1. debris' = debris /\ faults' = faults + 1 /\ deaths' = deaths
        BY <2>1 DEF InterruptedEntering, UnlockFails, Fault
      <3>2. QED BY <1>a, <2>1, <3>1, InterruptMoves DEF UnlockFails
    <2>2. CASE UnlinkFails(t)
      <3>1. /\ Cardinality(Cleaning) \in Nat
            /\ Cardinality(Cleaning)' = Cardinality(Cleaning) - 1
        BY <1>0, <2>2, CleaningMoves DEF UnlinkFails
      <3>2. debris' = debris + 1 /\ faults' = faults + 1 /\ deaths' = deaths
        BY <2>2 DEF UnlinkFails, Fault
      <3>3. debris \in Nat /\ faults \in Nat
        BY <1>0 DEF TypeOK
      <3> HIDE DEF Cleaning
      <3>4. QED BY <3>1, <3>2, <3>3 DEF DebrisInv
    <2>3. QED BY <1>5, <2>1, <2>2
  \* A death ends what the property speaks of.
  <1>6. deaths' = deaths + 1 => DebrisInv'
    BY <1>0 DEF TypeOK, DebrisInv
  <1>7. ASSUME NEW p \in Process, Crash(p)
        PROVE  DebrisInv'
    BY <1>6, <1>7 DEF Crash, Death
  <1>8. ASSUME PowerLoss
        PROVE  DebrisInv'
    BY <1>6, <1>8 DEF PowerLoss, Death
  <1>9. QED BY <1>1, <1>2, <1>3, <1>4, <1>5, <1>7, <1>8, NextCases

\* While no process dies, a temporary file with the secrets in it stays behind only
\* where two failures met: of the write, and of the unlink that cleans up after it.
THEOREM BoundedDebris == Spec => []DebrisNeedsTwoFailures
  <1>1. Init => DebrisInv
    <2> SUFFICES ASSUME Init PROVE DebrisInv
      OBVIOUS
    <2>1. Cleaning = {} /\ debris = 0 /\ faults = 0
      BY DEF Init, Cleaning
    <2>2. QED BY <2>1, FS_EmptySet DEF DebrisInv
  <1>2. IInv /\ DebrisInv /\ [Next]_vars => DebrisInv'
    BY DebrisStep DEF vars, DebrisInv, Cleaning
  <1>3. IInv /\ DebrisInv => DebrisNeedsTwoFailures
    <2>1. IsFiniteSet(Cleaning)
      BY FS_Subset DEF Cleaning
    <2>2. Cardinality(Cleaning) \in Nat
      BY <2>1, FS_CardinalityType
    <2> HIDE DEF Cleaning
    <2>3. QED BY <2>2 DEF DebrisInv, DebrisNeedsTwoFailures, IInv, TypeOK
  <1>4. QED BY <1>1, <1>2, <1>3, Invariance, PTL DEF Spec

\* Where a thread is in the body without the flock.
Unlocked(u) == pc[u] \in InBody /\ osLock # u

\* A step that neither forgets a warning nor lets a thread into the body without the
\* flock keeps every degradation announced.
LEMMA AnnouncedKept ==
    ASSUME DegradationAnnounced, warned' = warned,
           \A u \in Thread : Unlocked(u)' => Unlocked(u)
    PROVE  DegradationAnnounced'
  BY DEF DegradationAnnounced, Unlocked

\* Every step keeps every degradation announced: the flock is given up only at the
\* end of the body, and the one way in without it sets the warning.
LEMMA AnnouncedStep == IInv /\ DegradationAnnounced /\ Next => DegradationAnnounced'
  <1> SUFFICES ASSUME IInv, DegradationAnnounced, Next PROVE DegradationAnnounced'
    OBVIOUS
  <1>0. TypeOK
    BY DEF IInv
  <1> USE DEF fileVars, lockVars
  \* A move of one thread that does not enter the body.
  <1>a. ASSUME NEW t \in Thread, NEW q, Goto(t, q), q \in InBody => pc[t] \in InBody,
               warned' = warned, osLock' = osLock
        PROVE  DegradationAnnounced'
    <2>1. \A u \in Thread : pc'[u] = IF u = t THEN q ELSE pc[u]
      BY <1>0, <1>a, MovesOne
    <2>2. \A u \in Thread : Unlocked(u)' => Unlocked(u)
      BY <1>a, <2>1 DEF Unlocked
    <2>3. QED BY <1>a, <2>2, AnnouncedKept
  <1>1. ASSUME NEW t \in Thread, Call(t) \/ Read(t) \/ ReadFails(t) \/ Return(t)
        PROVE  DegradationAnnounced'
    <2>1. PICK q \in {"lookup", "read", "answered", "idle"} : Goto(t, q)
      BY <1>1 DEF Call, Read, ReadFails, Return
    <2>2. warned' = warned /\ osLock' = osLock
      BY <1>1 DEF Call, Read, ReadFails, Return
    <2>3. QED BY <1>a, <2>1, <2>2
  <1>2. ASSUME NEW t \in Thread, Lock(t) \/ Degrade(t) \/ Unlock(t) \/ ReleaseThreadLock(t)
        PROVE  DegradationAnnounced'
    <2>1. CASE GetThreadLock(t) \/ AcquireThreadLock(t) \/ OpenLockFile(t) \/ ReleaseThreadLock(t)
      <3>1. PICK q \in {"acquire", "open_lock", "flock", "return"} : Goto(t, q)
        BY <2>1 DEF GetThreadLock, AcquireThreadLock, OpenLockFile, ReleaseThreadLock
      <3>2. warned' = warned /\ osLock' = osLock
        BY <2>1 DEF GetThreadLock, AcquireThreadLock, OpenLockFile, ReleaseThreadLock
      <3>3. QED BY <1>a, <3>1, <3>2
    <2>2. CASE LockExclusive(t)
      <3>1. Goto(t, "load") /\ osLock = None /\ osLock' = t /\ warned' = warned
        BY <2>2 DEF LockExclusive
      <3>2. \A u \in Thread : Unlocked(u)' => Unlocked(u)
        BY <1>0, <3>1, MovesOne DEF Unlocked
      <3>3. QED BY <3>1, <3>2, AnnouncedKept
    <2>3. CASE Degrade(t)
      <3>1. /\ Goto(t, "load") /\ osLock' = osLock
            /\ warned' = [warned EXCEPT ![ProcOf[t]] = TRUE]
        BY <2>3 DEF Degrade
      <3>2. \A u \in Thread : u # t => (Unlocked(u)' <=> Unlocked(u))
        BY <1>0, <3>1, MovesOne DEF Unlocked
      <3>3. ProcOf[t] \in Process /\ DOMAIN warned = Process
        BY <1>0 DEF TypeOK
      <3>4. warned'[ProcOf[t]] /\ \A u \in Thread : warned[ProcOf[u]] => warned'[ProcOf[u]]
        BY <1>0, <3>1, <3>3, Zenon DEF TypeOK
      <3>5. QED BY <3>2, <3>4 DEF DegradationAnnounced, Unlocked
    <2>4. CASE Unlock(t)
      <3>1. /\ Goto(t, "release") /\ warned' = warned
            /\ osLock' = IF osLock = t THEN None ELSE osLock
        BY <2>4 DEF Unlock
      <3>2. \A u \in Thread : Unlocked(u)' => Unlocked(u)
        BY <1>0, <3>1, MovesOne DEF Unlocked
      <3>3. QED BY <3>1, <3>2, AnnouncedKept
    <2>5. QED BY <1>2, <2>1, <2>2, <2>3, <2>4 DEF Lock
  <1>3. ASSUME NEW t \in Thread, Body(t)
        PROVE  DegradationAnnounced'
    <2>1. PICK q \in {"stage", "write", "rename", "sync_dir", "unlock"} : Goto(t, q)
      BY <1>3 DEF Body, Load, LoadNothing, LoadFaults, Stage, NotEncodable, WriteTemp, Rename,
                  SyncDir, Cleanup
    <2>2. pc[t] \in InBody /\ warned' = warned /\ osLock' = osLock
      BY <1>3 DEF Body, Load, LoadNothing, LoadFaults, Stage, NotEncodable, WriteTemp, Rename,
                  SyncDir, Cleanup
    <2>3. QED BY <1>a, <2>1, <2>2
  <1>4. ASSUME NEW t \in Thread, FailsWithoutTemp(t) \/ FailsWithTemp(t) \/ SyncDirFails(t)
        PROVE  DegradationAnnounced'
    <2>1. PICK q \in {"cleanup", "unlock"} : Goto(t, q) /\ (q = "cleanup" => pc[t] \in InBody)
      BY <1>4 DEF FailsWithoutTemp, FailsWithTemp, SyncDirFails
    <2>2. warned' = warned /\ osLock' = osLock
      BY <1>4 DEF FailsWithoutTemp, FailsWithTemp, SyncDirFails
    <2>3. QED BY <1>a, <2>1, <2>2
  \* The processes that are gone have no thread in the body; the others keep theirs.
  <1>5. ASSUME NEW P \in SUBSET Process, Lost(P)
        PROVE  DegradationAnnounced'
    <2> SUFFICES ASSUME NEW u \in Thread, pc'[u] \in InBody, osLock' # u
                 PROVE  warned'[ProcOf[u]]
      BY DEF DegradationAnnounced
    <2>1. ProcOf[u] \notin P /\ pc'[u] = pc[u]
      BY <1>0, <1>5, LostFacts
    <2>2. osLock # u
      BY <1>5, <2>1 DEF Lost
    <2>3. warned[ProcOf[u]]
      BY <2>1, <2>2 DEF DegradationAnnounced
    <2>4. ProcOf[u] \in DOMAIN warned /\ warned' = Wiped(warned, P, FALSE)
      BY <1>0, <1>5 DEF TypeOK, Lost
    <2>5. warned'[ProcOf[u]] = warned[ProcOf[u]]
      BY <2>1, <2>4, Zenon DEF Wiped
    <2>6. QED BY <2>3, <2>5, Zenon
  <1>6. ASSUME NEW p \in Process, Crash(p)
        PROVE  DegradationAnnounced'
    BY <1>5, <1>6 DEF Crash
  <1>7. ASSUME PowerLoss
        PROVE  DegradationAnnounced'
    BY <1>5, <1>7 DEF PowerLoss
  <1>9. ASSUME NEW t \in Thread,
               InterruptedEntering(t) \/ UnlinkFails(t) \/ UnlockFails(t)
        PROVE  DegradationAnnounced'
    <2>1. CASE InterruptedEntering(t)
      BY <1>a, <2>1, InterruptMoves DEF InterruptedEntering
    <2>2. CASE UnlinkFails(t)
      BY <1>a, <2>2 DEF UnlinkFails
    <2>3. CASE UnlockFails(t)
      <3>1. /\ Goto(t, "release") /\ warned' = warned
            /\ osLock' = IF osLock = t THEN None ELSE osLock
        BY <2>3 DEF UnlockFails
      <3>2. \A u \in Thread : Unlocked(u)' => Unlocked(u)
        BY <1>0, <3>1, MovesOne DEF Unlocked
      <3>3. QED BY <3>1, <3>2, AnnouncedKept
    <2>4. QED BY <1>9, <2>1, <2>2, <2>3
  <1>8. QED BY <1>1, <1>2, <1>3, <1>4, <1>6, <1>7, <1>9, NextCases

\* No writer of any process is in the body without the flock unless that process
\* has said so (_warn_no_oslock_once).
THEOREM NeverSilentlyDegraded == Spec => []DegradationAnnounced
  <1>1. Init => DegradationAnnounced
    BY DEF Init, DegradationAnnounced
  <1>2. IInv /\ DegradationAnnounced /\ [Next]_vars => DegradationAnnounced'
    BY AnnouncedStep DEF vars, DegradationAnnounced
  <1>3. QED BY <1>1, <1>2, Invariance, PTL DEF Spec

\* What a rename replaces, where the writers are serialized: the content the writer
\* loaded, by its own operation applied to it.
LEMMA RenameApplies ==
    ASSUME Serialized, IInv, NEW t \in Thread, Rename(t), file' = NewContent(t)
    PROVE  /\ call[t] \in Op /\ IsWrite(call[t]) /\ Loads(file, call[t].ns)
           /\ parse_store(Loaded(file), call[t].ns)
           /\ file' = Apply(call[t], Loaded(file))
  <1>1. pc[t] = "rename" /\ snapshot[t] = Loaded(file)
    BY DEF Rename, IInv, NoStaleSave
  <1>2. call[t] \in Op /\ IsWrite(call[t]) /\ parse_store(snapshot[t], call[t].ns)
    BY <1>1 DEF IInv, CarryInv, Saving
  <1>3. QED BY <1>1, <1>2 DEF NewContent, Loads, Loaded

\* Where the writers are serialized no save turns one layout into the other or
\* replaces a file that does not parse.
THEOREM LayoutPreserved == ASSUME Serialized PROVE Spec => LayoutKept
  <1> DEFINE Keeps == \/ PowerLoss \/ file' = file
                      \/ \E ns \in Layouts(file) : ns \in Layouts(file')
  <1>1. IInv /\ Next => Keeps
    <2> SUFFICES ASSUME IInv, Next PROVE Keeps
      OBVIOUS
    <2>1. ASSUME NEW t \in Thread, Rename(t), file' = NewContent(t)
          PROVE  \E ns \in Layouts(file) : ns \in Layouts(file')
      <3>1. /\ call[t] \in Op /\ IsWrite(call[t]) /\ Loads(file, call[t].ns)
            /\ parse_store(Loaded(file), call[t].ns)
            /\ file' = Apply(call[t], Loaded(file))
        BY <2>1, RenameApplies
      <3>2. parse_store(file', call[t].ns)
        BY <3>1, ApplyKeepsLayout
      <3>3. call[t].ns \in Scope
        BY <3>1 DEF Op
      <3>4. QED BY <3>1, <3>2, <3>3 DEF Layouts, Loads
    <2>2. ASSUME NEW t \in Thread, SyncDir(t)
          PROVE  file' = file
      BY <2>2 DEF SyncDir
    <2>3. QED BY <2>1, <2>2, FileSteps
  <1>2. IInv /\ [Next]_vars => [Keeps]_vars
    BY <1>1
  <1>3. QED BY <1>2, Invariance, PTL DEF Spec, LayoutKept

\* No operation leaves more empty namespaces than it found.
LEMMA ApplyPrunes ==
    ASSUME NEW op \in Op, IsWrite(op), NEW s, parse_store(s, op.ns)
    PROVE  EmptyNamespaces(Apply(op, s)) \subseteq EmptyNamespaces(s)
  <1>1. op.ns \in Scope /\ op.name \in Name /\ (op.kind = "set" => op.value \in Value)
    BY DEF Op, IsWrite
  <1>2. CASE op.ns = None
    <2>1. Apply(op, s) \in FlatStore
      BY <1>2, ApplyKeepsLayout DEF parse_store
    <2>2. \A n \in DOMAIN Apply(op, s) : Apply(op, s)[n] \in Value
      BY <2>1, FlatStoreChar
    <2>3. EmptyStore \notin Value
      BY EmptyStoreFits
    <2>4. QED BY <2>2, <2>3 DEF EmptyNamespaces
  <1>3. CASE op.ns # None
    <2>1. s \in NestedStore
      BY <1>3 DEF parse_store
    <2>2. CASE op.kind = "set"
      <3> DEFINE sec == Put(Section(s, op.ns), op.name, op.value)
      <3>1. Apply(op, s) = Put(s, op.ns, sec)
        BY <1>3, <2>2 DEF Apply, WithSecret
      <3>2. op.name \in DOMAIN sec /\ DOMAIN EmptyStore = {}
        BY DEF Put, EmptyStore
      <3>3. sec # EmptyStore
        BY <3>2
      <3>4. QED BY <2>1, <3>1, <3>3 DEF EmptyNamespaces, Put
    <2>3. CASE op.kind # "set"
      <3> DEFINE rest == Drop(Section(s, op.ns), op.name)
      <3>1. CASE DOMAIN rest = {}
        <4>1. Apply(op, s) = Drop(s, op.ns)
          BY <1>3, <2>3, <3>1 DEF Apply, WithoutSecret
        <4>2. QED BY <2>1, <4>1 DEF EmptyNamespaces, Drop
      <3>2. CASE DOMAIN rest # {}
        <4>1. Apply(op, s) = Put(s, op.ns, rest)
          BY <1>3, <2>3, <3>2 DEF Apply, WithoutSecret
        <4>2. rest # EmptyStore
          BY <3>2 DEF EmptyStore
        <4>3. QED BY <2>1, <4>1, <4>2 DEF EmptyNamespaces, Put
      <3>3. QED BY <3>1, <3>2
    <2>4. QED BY <2>2, <2>3
  <1>4. QED BY <1>2, <1>3

\* Where the writers are serialized no save leaves a namespace as an empty object.
THEOREM NamespacesPruned == ASSUME Serialized PROVE Spec => NoEmptiedNamespace
  <1> DEFINE Prunes == PowerLoss \/ EmptyNamespaces(file') \subseteq EmptyNamespaces(file)
  <1>1. IInv /\ Next => Prunes
    <2> SUFFICES ASSUME IInv, Next PROVE Prunes
      OBVIOUS
    <2>1. ASSUME NEW t \in Thread, Rename(t), file' = NewContent(t)
          PROVE  EmptyNamespaces(file') \subseteq EmptyNamespaces(file)
      <3>1. /\ call[t] \in Op /\ IsWrite(call[t]) /\ Loads(file, call[t].ns)
            /\ parse_store(Loaded(file), call[t].ns)
            /\ file' = Apply(call[t], Loaded(file))
        BY <2>1, RenameApplies
      <3>2. EmptyNamespaces(file') \subseteq EmptyNamespaces(Loaded(file))
        BY <3>1, ApplyPrunes
      <3>3. EmptyNamespaces(Loaded(file)) \subseteq EmptyNamespaces(file)
        BY DEF Loaded, EmptyNamespaces, EmptyStore
      <3>4. QED BY <3>2, <3>3
    <2>2. ASSUME NEW t \in Thread, SyncDir(t)
          PROVE  file' = file
      BY <2>2 DEF SyncDir
    <2>3. QED BY <2>1, <2>2, FileSteps
  <1>2. IInv /\ [Next]_vars => [Prunes]_vars
    BY <1>1
  <1>3. QED BY <1>2, Invariance, PTL DEF Spec, NoEmptiedNamespace

-----------------------------------------------------------------------------
(* The backend implements SecretStore *)

\* The abstract phase of every thread.
phaseBar == [t \in Thread |-> PhaseOf(pc[t])]

\* How a move of one thread shows in the abstract phases.
LEMMA PhaseMove ==
    ASSUME TypeOK, NEW t \in Thread, NEW q, Goto(t, q)
    PROVE  phaseBar' = [phaseBar EXCEPT ![t] = PhaseOf(q)]
  <1>1. \A u \in Thread : PhaseOf(pc'[u]) = IF u = t THEN PhaseOf(q) ELSE PhaseOf(pc[u])
    BY MovesOne
  <1>2. QED BY <1>1 DEF phaseBar

\* A move inside one phase is a stutter.
LEMMA PhaseStutter ==
    ASSUME TypeOK, NEW t \in Thread, NEW q, Goto(t, q), PhaseOf(q) = PhaseOf(pc[t])
    PROVE  phaseBar' = phaseBar
  <1>1. \A u \in Thread : PhaseOf(pc'[u]) = PhaseOf(pc[u])
    BY MovesOne
  <1>2. QED BY <1>1 DEF phaseBar

\* The phase of each position.
LEMMA PhaseTable ==
    /\ PhaseOf("idle") = "idle" /\ PhaseOf("sync_dir") = "applied"
    /\ \A q \in {"answered", "cleanup", "unlock", "release", "return"} : PhaseOf(q) = "done"
    /\ \A q \in {"read", "lookup", "acquire", "open_lock", "flock", "load", "stage",
                 "write", "rename"} : PhaseOf(q) = "called"
  BY DEF PhaseOf

\* The promise speaks of contents with the operators the backend computes with.
LEMMA PromiseOperators ==
    /\ Promise!Ok = Ok /\ Promise!Error = Error /\ Promise!EmptyStore = EmptyStore
    /\ \A c, ns : Promise!Loads(c, ns) <=> Loads(c, ns)
    /\ \A c : Promise!Loaded(c) = Loaded(c)
    /\ \A op : Promise!IsWrite(op) <=> IsWrite(op)
    /\ \A op, m : Promise!Answer(op, m) = Answer(op, m)
    /\ \A op, m : Promise!Writes(op, m) <=> Writes(op, m)
    /\ \A op, m : Promise!Apply(op, m) = Apply(op, m)
  BY DEF Promise!Ok, Promise!Error, Promise!EmptyStore, Promise!Loads, Promise!Loaded,
         Promise!IsWrite, Promise!Answer, Promise!Writes, Promise!Apply,
         Promise!parse_store, Promise!FlatStore, Promise!NestedStore, Promise!Lookup,
         Promise!NamesOf, Promise!Section, Promise!WithSecret, Promise!WithoutSecret,
         Promise!Put, Promise!Drop, Promise!normalize_secret_value,
         Ok, Error, EmptyStore, Loads, Loaded, IsWrite, Answer, Writes, Apply, parse_store,
         FlatStore, NestedStore, Lookup, NamesOf, Section, WithSecret, WithoutSecret, Put,
         Drop, normalize_secret_value

\* Every step of the backend is a step of the promise, or changes nothing in it.
LEMMA StepRefines ==
    ASSUME IInv, Next, Serialized
    PROVE  Promise!Next \/ UNCHANGED <<file, recoverable, phaseBar, call, outcome>>
  <1> DEFINE Goal == Promise!Next \/ UNCHANGED <<file, recoverable, phaseBar, call, outcome>>
  <1>0. TypeOK
    BY DEF IInv
  <1> USE DEF fileVars, lockVars
  <1>a. ASSUME NEW t \in Thread, Promise!Step(t) PROVE Goal
    BY <1>a DEF Promise!Next
  \* The thread's call ends without a change of the file.
  <1>b. ASSUME NEW t \in Thread, NEW q, NEW r, PhaseOf(pc[t]) = "called", PhaseOf(q) = "done",
               Goto(t, q), Give(t, r), UNCHANGED <<file, recoverable, call>>
        PROVE  Promise!Decide(t, r)
    <2>1. phaseBar' = [phaseBar EXCEPT ![t] = "done"] /\ phaseBar[t] = "called"
      BY <1>0, <1>b, PhaseMove DEF phaseBar
    <2>2. QED BY <1>b, <2>1 DEF Promise!Decide, Give, phaseBar
  <1>c. ASSUME NEW t \in Thread, Promise!Decide(t, Error) PROVE Goal
    BY <1>a, <1>c, PromiseOperators DEF Promise!Step, Promise!Refuse
  <1>1. ASSUME NEW t \in Thread, Call(t) \/ Read(t) \/ ReadFails(t) \/ Return(t)
        PROVE  Goal
    <2>1. CASE Call(t)
      <3>1. PICK op \in Ops : /\ call' = [call EXCEPT ![t] = op]
                              /\ Goto(t, IF IsWrite(op) THEN "lookup" ELSE "read")
        BY <2>1 DEF Call
      <3>2. phaseBar' = [phaseBar EXCEPT ![t] = "called"] /\ phaseBar[t] = "idle"
        BY <1>0, <2>1, <3>1, PhaseMove, PhaseTable DEF Call, phaseBar
      <3>3. Promise!Invoke(t)
        BY <2>1, <3>1, <3>2 DEF Call, Promise!Invoke, phaseBar
      <3>4. QED BY <1>a, <3>3 DEF Promise!Step
    <2>2. CASE Read(t)
      <3> DEFINE r == IF Loads(file, call[t].ns) THEN Answer(call[t], Loaded(file)) ELSE Error
      <3>1. Promise!Decide(t, r) /\ pc[t] = "read"
        BY <1>b, <2>2, PhaseTable DEF Read
      <3>2. CASE Loads(file, call[t].ns)
        <4>1. ~IsWrite(call[t]) /\ phaseBar[t] = "called"
          BY <3>1, PhaseTable DEF IInv, CarryInv, phaseBar
        <4>2. Promise!Query(t)
          BY <3>1, <3>2, <4>1, PromiseOperators DEF Promise!Query, phaseBar
        <4>3. QED BY <1>a, <4>2 DEF Promise!Step
      <3>3. CASE ~Loads(file, call[t].ns)
        BY <1>c, <3>1, <3>3
      <3>4. QED BY <3>2, <3>3
    <2>3. CASE ReadFails(t)
      BY <1>b, <1>c, <2>3, PhaseTable DEF ReadFails
    <2>4. CASE Return(t)
      <3>1. phaseBar' = [phaseBar EXCEPT ![t] = "idle"] /\ phaseBar[t] = "done"
        BY <1>0, <2>4, PhaseMove, PhaseTable DEF Return, phaseBar
      <3>2. Promise!Return(t)
        BY <2>4, <3>1 DEF Return, Promise!Return, phaseBar
      <3>3. QED BY <1>a, <3>2 DEF Promise!Step
    <2>5. QED BY <1>1, <2>1, <2>2, <2>3, <2>4
  <1>2. ASSUME NEW t \in Thread, Lock(t) \/ Degrade(t) \/ Unlock(t) \/ ReleaseThreadLock(t)
        PROVE  Goal
    <2>1. /\ pc[t] \in {"lookup", "acquire", "open_lock", "flock", "unlock", "release"}
          /\ \E q \in {"acquire", "open_lock", "flock", "load", "release", "return"} :
               Goto(t, q) /\ PhaseOf(q) = PhaseOf(pc[t])
      BY <1>2, PhaseTable
         DEF Lock, GetThreadLock, AcquireThreadLock, OpenLockFile, LockExclusive, Degrade,
             Unlock, ReleaseThreadLock
    <2>2. phaseBar' = phaseBar
      BY <1>0, <2>1, PhaseStutter
    <2>3. UNCHANGED <<file, recoverable, call, outcome>>
      BY <1>2 DEF Lock, GetThreadLock, AcquireThreadLock, OpenLockFile, LockExclusive,
                  Degrade, Unlock, ReleaseThreadLock
    <2>4. QED BY <2>2, <2>3
  <1>3. ASSUME NEW t \in Thread, Body(t)
        PROVE  Goal
    <2>1. CASE Load(t) \/ Stage(t) \/ WriteTemp(t) \/ Cleanup(t)
      <3>1. \E q \in {"stage", "write", "rename", "unlock"} :
              Goto(t, q) /\ PhaseOf(q) = PhaseOf(pc[t])
        BY <2>1, PhaseTable DEF Load, Stage, WriteTemp, Cleanup
      <3>2. phaseBar' = phaseBar
        BY <1>0, <3>1, PhaseStutter
      <3>3. QED BY <2>1, <3>2 DEF Load, Stage, WriteTemp, Cleanup
    <2>2. CASE LoadNothing(t)
      <3>1. Promise!Decide(t, Ok) /\ phaseBar[t] = "called"
        BY <1>b, <2>2, PhaseTable DEF LoadNothing, phaseBar
      <3>2. Promise!NothingToUnset(t)
        BY <2>2, <3>1, PromiseOperators
           DEF LoadNothing, Promise!NothingToUnset, phaseBar, IInv, CarryInv
      <3>3. QED BY <1>a, <3>2 DEF Promise!Step
    <2>3. CASE LoadFaults(t) \/ NotEncodable(t)
      BY <1>b, <1>c, <2>3, PhaseTable DEF LoadFaults, NotEncodable
    <2>4. CASE Rename(t)
      <3>1. /\ pc[t] = "rename" /\ Goto(t, "sync_dir")
            /\ UNCHANGED <<call, outcome>>
        BY <2>4 DEF Rename
      <3>2. phaseBar' = [phaseBar EXCEPT ![t] = "applied"] /\ phaseBar[t] = "called"
        BY <1>0, <3>1, PhaseMove, PhaseTable DEF phaseBar
      <3>3. temp[t] = [data |-> NewContent(t), synced |-> TRUE]
        BY <3>1 DEF IInv, CarryInv
      <3>4. file' = NewContent(t) /\ recoverable' = recoverable \cup {file'}
        BY <2>4, <3>3 DEF Rename, OnDisk
      <3>5. snapshot[t] = Loaded(file)
        BY <3>1 DEF IInv, NoStaleSave
      <3>6. /\ IsWrite(call[t]) /\ Writes(call[t], Loaded(file))
            /\ parse_store(Loaded(file), call[t].ns)
        BY <3>1, <3>5 DEF IInv, CarryInv, Saving
      <3>7. Loads(file, call[t].ns)
        BY <3>6 DEF Loads, Loaded
      <3>8. Promise!Commit(t)
        BY <3>1, <3>2, <3>4, <3>5, <3>6, <3>7, PromiseOperators
           DEF Promise!Commit, NewContent, phaseBar
      <3>9. QED BY <1>a, <3>8 DEF Promise!Step
    <2>5. CASE SyncDir(t)
      <3>1. phaseBar' = [phaseBar EXCEPT ![t] = "done"] /\ phaseBar[t] = "applied"
        BY <1>0, <2>5, PhaseMove, PhaseTable DEF SyncDir, phaseBar
      <3>2. Promise!Acknowledge(t)
        BY <2>5, <3>1, PromiseOperators DEF SyncDir, Give, Promise!Acknowledge, phaseBar
      <3>3. QED BY <1>a, <3>2 DEF Promise!Step
    <2>6. QED BY <1>3, <2>1, <2>2, <2>3, <2>4, <2>5 DEF Body
  <1>4. ASSUME NEW t \in Thread,
               FailsWithoutTemp(t) \/ FailsWithTemp(t) \/ SyncDirFails(t)
        PROVE  Goal
    <2>1. CASE FailsWithoutTemp(t) \/ FailsWithTemp(t)
      BY <1>b, <1>c, <2>1, PhaseTable DEF FailsWithoutTemp, FailsWithTemp
    <2>2. CASE SyncDirFails(t)
      <3>1. phaseBar' = [phaseBar EXCEPT ![t] = "done"] /\ phaseBar[t] = "applied"
        BY <1>0, <2>2, PhaseMove, PhaseTable DEF SyncDirFails, phaseBar
      <3>2. Promise!ReportUnsynced(t)
        BY <2>2, <3>1, PromiseOperators
           DEF SyncDirFails, Give, Promise!ReportUnsynced, phaseBar
      <3>3. QED BY <1>a, <3>2 DEF Promise!Step
    <2>3. QED BY <1>4, <2>1, <2>2
  <1>5. ASSUME NEW P \in SUBSET Process, Lost(P)
        PROVE  Promise!Vanish({t \in Thread : ProcOf[t] \in P})
    <2> DEFINE gone == {t \in Thread : ProcOf[t] \in P}
    <2>1. phaseBar' = [t \in Thread |-> IF t \in gone THEN "idle" ELSE phaseBar[t]]
      BY <1>0, <1>5, LostFacts, PhaseTable DEF phaseBar
    <2>2. call' = [t \in Thread |-> IF t \in gone THEN None ELSE call[t]]
      BY <1>0, <1>5 DEF Lost, Wiped, TypeOK
    <2>3. outcome' = [t \in Thread |-> IF t \in gone THEN None ELSE outcome[t]]
      BY <1>0, <1>5 DEF Lost, Wiped, TypeOK
    <2>4. QED BY <2>1, <2>2, <2>3 DEF Promise!Vanish, phaseBar
  <1>6. ASSUME NEW p \in Process, Crash(p)
        PROVE  Goal
    <2>1. Promise!Vanish({t \in Thread : ProcOf[t] \in {p}})
      BY <1>5, <1>6 DEF Crash
    <2>2. Promise!ProcessDies
      BY <1>6, <2>1 DEF Crash, Promise!ProcessDies
    <2>3. QED BY <2>2 DEF Promise!Next
  <1>7. ASSUME PowerLoss
        PROVE  Goal
    <2>1. Promise!Vanish({t \in Thread : ProcOf[t] \in Process})
      BY <1>5, <1>7 DEF PowerLoss
    <2>2. {t \in Thread : ProcOf[t] \in Process} = Thread
      OBVIOUS
    <2>3. Promise!PowerLoss
      BY <1>7, <2>1, <2>2 DEF PowerLoss, Promise!PowerLoss
    <2>4. QED BY <2>3 DEF Promise!Next
  <1>9. ASSUME NEW t \in Thread,
               InterruptedEntering(t) \/ UnlinkFails(t) \/ UnlockFails(t)
        PROVE  Goal
    <2>1. CASE InterruptedEntering(t)
      <3>1. PICK q \in {"answered", "return", "release"} : Goto(t, q)
        BY <2>1, InterruptMoves
      <3>2. PhaseOf(q) = "done" /\ PhaseOf(pc[t]) = "called"
        BY <2>1, <3>1, InterruptMoves, PhaseTable
      <3>3. QED BY <1>b, <1>c, <2>1, <3>1, <3>2 DEF InterruptedEntering
    <2>2. CASE UnlinkFails(t)
      <3>1. Goto(t, "unlock") /\ PhaseOf("unlock") = PhaseOf(pc[t])
        BY <2>2, PhaseTable DEF UnlinkFails
      <3>2. phaseBar' = phaseBar
        BY <1>0, <3>1, PhaseStutter
      <3>3. QED BY <2>2, <3>2 DEF UnlinkFails
    <2>3. CASE UnlockFails(t)
      <3>1. Goto(t, "release") /\ PhaseOf("release") = PhaseOf(pc[t]) /\ phaseBar[t] = "done"
        BY <2>3, PhaseTable DEF UnlockFails, phaseBar
      <3>2. phaseBar' = phaseBar
        BY <1>0, <3>1, PhaseStutter
      <3>3. IsWrite(call[t])
        BY <2>3 DEF UnlockFails, IInv, CarryInv
      <3>4. Promise!FailAfterwards(t)
        BY <2>3, <3>1, <3>2, <3>3, PromiseOperators
           DEF UnlockFails, Give, Promise!FailAfterwards, phaseBar
      <3>5. QED BY <1>a, <3>4 DEF Promise!Step
    <2>4. QED BY <1>9, <2>1, <2>2, <2>3
  <1>8. QED BY <1>1, <1>2, <1>3, <1>4, <1>6, <1>7, <1>9, NextCases

\* Where the OS lock works, or a single process uses the store, the file backend
\* implements SecretStore: sets and unsets are atomic, no update is lost, readers
\* see only committed contents, and an acknowledged write survives a power loss.
THEOREM Refinement == ASSUME Serialized PROVE Spec => ImplementsSecretStore
  <1>1. Init => Promise!Init
    BY PhaseTable DEF Init, Promise!Init
  <1>2. IInv /\ [Next]_vars => [Promise!Next]_(Promise!svars)
    <2> SUFFICES ASSUME IInv, [Next]_vars
                 PROVE  Promise!Next \/ UNCHANGED Promise!svars
      OBVIOUS
    <2>1. CASE Next
      BY <2>1, StepRefines DEF Promise!svars, phaseBar
    <2>2. CASE UNCHANGED vars
      BY <2>2 DEF vars, Promise!svars
    <2>3. QED BY <2>1, <2>2
  <1>3. QED BY <1>1, <1>2, Invariance, PTL DEF Spec, ImplementsSecretStore, Promise!Spec
=============================================================================
