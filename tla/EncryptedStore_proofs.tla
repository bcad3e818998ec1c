------------------------ MODULE EncryptedStore_proofs ------------------------
(***************************************************************************)
(* What the encrypted backend promises about headers, passphrases and      *)
(* blame, for any processes, passphrases, builds and operations, and for   *)
(* any envelopes that something outside puts in place of the store's own.  *)
(***************************************************************************)
EXTENDS EncryptedProperties, StoreContentLemmas, TLAPS

\* The control state, and that the per-client variables are functions.
EncTypeOK ==
    /\ pc \in [Client -> {"idle", "read", "lock", "load", "save", "sync_dir", "return"}]
    /\ lock \in Client \cup {None}
    /\ snapshot = [c \in Client |-> snapshot[c]]
    /\ outcome = [c \in Client |-> outcome[c]]

\* Every envelope the path holds, or may hold after a power loss, has a header that
\* int() can sort and was sealed at the cost in the header it was sealed with.
Sound(b) == b \in {Absent, Malformed} \/ WellSealed(b)
FilesSound == Sound(file) /\ \A b \in recoverable : Sound(b)

\* Where the OS lock works, a writer between lock and return has it ...
WriterHasLock ==
    lockWorks => \A c \in Client : pc[c] \in {"load", "save", "sync_dir"} => lock = c

\* ... and what it is about to replace is nothing, or what it could open.
WriterOpened ==
    lockWorks => \A c \in Client :
        pc[c] = "save" => file = Absent \/ _try_decrypt(c, file) = "plaintext"

IInv == EncTypeOK /\ FilesSound /\ DerivationBounded /\ WriterHasLock /\ WriterOpened

-----------------------------------------------------------------------------
(* Lemmas about the envelope *)

\* What matters of the three limits: they leave room for every clamp.
LEMMA Limits ==
    /\ _MAX_TIME_COST \in Int /\ 1 <= _MAX_TIME_COST
    /\ _MAX_LANES \in Int /\ 1 <= _MAX_LANES
    /\ _MAX_MEMORY_COST_KIB \in Int /\ 8 * _MAX_LANES <= _MAX_MEMORY_COST_KIB
  BY SMT DEF _MAX_TIME_COST, _MAX_MEMORY_COST_KIB, _MAX_LANES

\* Whatever integers a header names, the cost used is one the library accepts and
\* within the limits.
LEMMA CostBounded ==
    ASSUME NEW h, h.t \in Int, h.m \in Int, h.p \in Int
    PROVE  /\ Cost(h).t \in 1 .. _MAX_TIME_COST
           /\ Cost(h).m \in 8 .. _MAX_MEMORY_COST_KIB
           /\ Cost(h).p \in 1 .. _MAX_LANES
           /\ Admissible(Cost(h))
<1>1. Cost(h).t \in 1 .. _MAX_TIME_COST
  BY Limits, SMT DEF Cost, _clamp
<1>2. Cost(h).m \in 8 * _MAX_LANES .. _MAX_MEMORY_COST_KIB
  BY Limits, SMT DEF Cost, _clamp
<1>3. Cost(h).p \in 1 .. _MAX_LANES
  BY Limits, SMT DEF Cost, _clamp
<1>4. QED
  BY Limits, <1>1, <1>2, <1>3, SMT DEF Admissible

\* The cost this version writes is used as it stands, and is within the limits.
LEMMA OwnCost ==
    /\ Header.t \in Int /\ Header.m \in Int /\ Header.p \in Int
    /\ Cost(Header) = Written(Header)
  BY SMT DEF Header, Cost, Written, _clamp, _MAX_TIME_COST, _MAX_MEMORY_COST_KIB, _MAX_LANES

\* An attempt on a sound envelope derives at bounded cost only.
LEMMA AttemptBounded ==
    ASSUME NEW b, Sound(b), NEW cost \in Attempted(b)
    PROVE  /\ cost.t \in 1 .. _MAX_TIME_COST
           /\ cost.m \in 8 .. _MAX_MEMORY_COST_KIB
           /\ cost.p \in 1 .. _MAX_LANES
           /\ Admissible(cost)
<1>1. b # Absent /\ Parsed(b) /\ cost = Cost(b.header)
  BY DEF Attempted
<1>2. WellSealed(b)
  BY <1>1 DEF Sound, Parsed, Recognised
<1>3. b.header.t \in Int /\ b.header.m \in Int /\ b.header.p \in Int
  BY <1>1, <1>2 DEF WellSealed, Parsed
<1>4. QED
  BY <1>1, <1>3, CostBounded

\* What decrypts is authentic.
LEMMA PlaintextAuthentic ==
    ASSUME NEW c \in Client, NEW b, b # Absent, _try_decrypt(c, b) = "plaintext"
    PROVE  Envelope(b) /\ Authentic(b, PassOf[c])
<1>1. Parsed(b) /\ Opens(c, b) /\ ~BoundElsewhere(b)
  BY DEF _try_decrypt
<1>2. b # Malformed /\ b.header.v = 1
  BY <1>1 DEF Parsed, Recognised
<1>3. b.seal.pass = PassOf[c] /\ b.seal.aad = b.header
  BY <1>1 DEF Opens
<1>4. QED
  BY <1>1, <1>2, <1>3 DEF Authentic, Envelope, BoundElsewhere

\* What this version wrote for this app decrypts for an owner with a full build.
LEMMA OwnerDecrypts ==
    ASSUME NEW c \in Client, NEW b, Sound(b), FullBuild(c),
           Authentic(b, PassOf[c]), b.header = Header
    PROVE  _try_decrypt(c, b) = "plaintext"
<1>1. Envelope(b) /\ WellSealed(b)
  BY DEF Authentic, Envelope, Sound
<1>2. Parsed(b)
  BY <1>1, OwnCost, EncryptedAssumption DEF Parsed, Recognised, Envelope, Header
<1>3. Admissible(Cost(b.header))
  BY OwnCost, CostBounded
<1>4. Opens(c, b)
  BY <1>1, OwnCost DEF WellSealed, Authentic, Opens
<1>5. ~BoundElsewhere(b)
  BY DEF BoundElsewhere, Authentic
<1>6. ~(b.header.v > 1)
  BY DEF Header
<1>7. QED
  BY <1>2, <1>3, <1>4, <1>5, <1>6 DEF _try_decrypt, Derives, FullBuild

\* A load that succeeds found no file, or one that it could open.
LEMMA LoadedOpens ==
    ASSUME NEW c \in Client, NEW op, Loading(c, op) = "loaded"
    PROVE  /\ file = Absent \/ _try_decrypt(c, file) = "plaintext"
           /\ Probes(c)
<1>1. _try_decrypt(c, file) # "loaded"
  BY DEF _try_decrypt
<1>2. QED
  BY <1>1 DEF Loading

\* What is sealed here is sound.
LEMMA SealSound ==
    ASSUME NEW c \in Client, NEW s
    PROVE  Sound(_encrypt(c, s))
  BY OwnCost DEF Sound, WellSealed, _encrypt, Seal

\* So is what an edit leaves of a sound envelope.
LEMMA EditSound ==
    ASSUME NEW b, WellSealed(b), NEW d \in Edited(b)
    PROVE  Sound(d)
<1>1. CASE d = [b EXCEPT !.seal.pass = None]
  BY <1>1 DEF WellSealed, Sound
<1>2. CASE \E e \in Elsewhere \ {Absent, Malformed} : d = [b EXCEPT !.header = e.header]
  <2>1. PICK e \in Elsewhere \ {Absent, Malformed} : d = [b EXCEPT !.header = e.header]
    BY <1>2
  <2>2. WellSealed(e)
    BY EnvelopeAssumption
  <2>3. d = [header |-> e.header, plain |-> b.plain, seal |-> b.seal]
    BY <2>1 DEF WellSealed
  <2>4. QED
    BY <2>2, <2>3 DEF WellSealed, Sound
<1>3. QED
  BY <1>1, <1>2 DEF Edited

-----------------------------------------------------------------------------
(* The inductive invariant *)

\* It holds initially.
LEMMA InitIInv == Init => IInv
  BY EnvelopeAssumption
     DEF Init, IInv, EncTypeOK, FilesSound, Sound, DerivationBounded, WriterHasLock, WriterOpened

\* A step that loads keeps the costs bounded.
LEMMA DecryptBounded ==
    ASSUME IInv, NEW c \in Client, Decrypts(c)
    PROVE  DerivationBounded'
<1>1. \A cost \in derived' : cost \in derived \/ cost \in Attempted(file)
  BY DEF Decrypts
<1>2. QED
  BY <1>1, AttemptBounded DEF IInv, FilesSound, DerivationBounded

\* Every step of a client keeps the invariant.
LEMMA StepIInv ==
    ASSUME IInv, NEW c \in Client, Step(c)
    PROVE  IInv'
<1> USE EncryptedAssumption
<1>0. EncTypeOK /\ FilesSound /\ DerivationBounded /\ WriterHasLock /\ WriterOpened
  BY DEF IInv
<1>1. CASE Call(c)
  BY <1>0, <1>1
     DEF Call, Goto, IInv, EncTypeOK, FilesSound, DerivationBounded, WriterHasLock, WriterOpened
<1>2. CASE Read(c)
  <2>1. DerivationBounded'
    BY <1>2, DecryptBounded DEF Read
  <2>2. QED
    BY <1>0, <1>2, <2>1
       DEF Read, Decrypts, Goto, Give, IInv, EncTypeOK, FilesSound, WriterHasLock, WriterOpened
<1>3. CASE Lock(c) \/ Degrade(c)
  BY <1>0, <1>3
     DEF Lock, Degrade, Goto, IInv, EncTypeOK, FilesSound, DerivationBounded, WriterHasLock, WriterOpened
<1>4. CASE Load(c) \/ LoadNothing(c) \/ LoadFails(c)
  <2>1. DerivationBounded'
    BY <1>4, DecryptBounded DEF Load, LoadNothing, LoadFails
  <2>2. WriterOpened'
    BY <1>0, <1>4, LoadedOpens
       DEF Load, LoadNothing, LoadFails, Decrypts, Goto, EncTypeOK, WriterOpened
  <2>3. QED
    BY <1>0, <1>4, <2>1, <2>2
       DEF Load, LoadNothing, LoadFails, Decrypts, Goto, Give, IInv, EncTypeOK, FilesSound,
           WriterHasLock
<1>5. CASE SaveRefused(c)
  BY <1>0, <1>5
     DEF SaveRefused, Goto, Give, IInv, EncTypeOK, FilesSound, DerivationBounded, WriterHasLock,
         WriterOpened
<1>6. CASE Save(c)
  <2>1. FilesSound'
    BY <1>0, <1>6, SealSound DEF Save, FilesSound
  <2>2. DerivationBounded'
    BY <1>0, <1>6, OwnCost, CostBounded DEF Save, DerivationBounded
  <2>3. EncTypeOK' /\ WriterHasLock'
    BY <1>0, <1>6 DEF Save, Goto, EncTypeOK, WriterHasLock
  <2>4. lockWorks' => \A d \in Client : pc'[d] # "save"
    BY <1>0, <1>6 DEF Save, Goto, EncTypeOK, WriterHasLock
  <2>5. QED
    BY <2>1, <2>2, <2>3, <2>4 DEF IInv, WriterOpened
<1>7. CASE SyncDir(c)
  BY <1>0, <1>7
     DEF SyncDir, Goto, Give, IInv, EncTypeOK, FilesSound, DerivationBounded, WriterHasLock,
         WriterOpened
<1>8. CASE IOFails(c) \/ UnlockFails(c) \/ Return(c)
  BY <1>0, <1>8
     DEF IOFails, UnlockFails, Return, Goto, Give, IInv, EncTypeOK, FilesSound, DerivationBounded,
         WriterHasLock, WriterOpened
<1>9. CASE Crash(c)
  BY <1>0, <1>9
     DEF Crash, Vanish, IInv, EncTypeOK, FilesSound, DerivationBounded, WriterHasLock, WriterOpened
<1>q. QED
  BY <1>1, <1>2, <1>3, <1>4, <1>5, <1>6, <1>7, <1>8, <1>9 DEF Step, Write

\* So does what happens to the file from outside.
LEMMA OutsideIInv ==
    ASSUME IInv, PowerLoss \/ Replaced
    PROVE  IInv'
<1> USE EncryptedAssumption
<1>0. EncTypeOK /\ FilesSound /\ DerivationBounded /\ WriterHasLock /\ WriterOpened
  BY DEF IInv
<1>1. CASE PowerLoss
  BY <1>0, <1>1
     DEF PowerLoss, Vanish, IInv, EncTypeOK, FilesSound, DerivationBounded, WriterHasLock,
         WriterOpened
<1>2. CASE Replaced
  <2>1. Sound(file')
    <3>1. CASE file' \in Elsewhere
      BY <3>1, EnvelopeAssumption DEF Sound
    <3>2. CASE file \notin {Absent, Malformed} /\ file' \in Edited(file)
      BY <1>0, <3>2, EditSound DEF FilesSound, Sound
    <3>3. QED
      BY <1>2, <3>1, <3>2 DEF Replaced
  <2>2. FilesSound'
    BY <1>2, <2>1 DEF Replaced, FilesSound
  <2>3. \A c \in Client : pc[c] # "save"
    BY <1>2 DEF Replaced
  <2>4. QED
    BY <1>0, <1>2, <2>2, <2>3
       DEF Replaced, IInv, EncTypeOK, DerivationBounded, WriterHasLock, WriterOpened
<1>3. QED
  BY <1>1, <1>2

\* The invariant holds in every reachable state.
THEOREM Invariance == Spec => []IInv
<1>1. IInv /\ [Next]_evars => IInv'
  <2> SUFFICES ASSUME IInv, [Next]_evars PROVE IInv'
    OBVIOUS
  <2>1. CASE UNCHANGED evars
    BY <2>1 DEF evars, IInv, EncTypeOK, FilesSound, DerivationBounded, WriterHasLock, WriterOpened
  <2>2. CASE Next
    BY <2>2, StepIInv, OutsideIInv DEF Next
  <2>3. QED
    BY <2>1, <2>2
<1>2. QED
  BY InitIInv, <1>1, PTL DEF Spec

\* Argon2id never runs beyond the limits nor at a cost the library refuses, for
\* whatever headers are put in the file (_clamp, _try_decrypt).
THEOREM BoundedDerivation == Spec => []DerivationBounded
<1>1. IInv => DerivationBounded
  BY DEF IInv
<1>2. QED
  BY Invariance, <1>1, PTL

-----------------------------------------------------------------------------
(* The action properties *)

\* Each step of Next taken in a state of the invariant.
LEMMA Stepwise ==
    ASSUME IInv, [Next]_evars
    PROVE  UNCHANGED evars \/ (\E c \in Client : Step(c)) \/ PowerLoss \/ Replaced
  BY DEF Next

\* A client that goes from save to sync_dir has taken Save, having opened the file
\* where the OS lock works.
LEMMA SavedByItself ==
    ASSUME IInv, [Next]_evars, lockWorks, NEW c \in Client, pc[c] = "save", pc'[c] = "sync_dir"
    PROVE  /\ file = Absent \/ _try_decrypt(c, file) = "plaintext"
           /\ file'.seal.pass = PassOf[c]
<1> USE DEF IInv, EncTypeOK
<1>1. file = Absent \/ _try_decrypt(c, file) = "plaintext"
  BY DEF WriterOpened
<1>2. CASE UNCHANGED evars
  BY <1>2 DEF evars
<1>3. CASE PowerLoss \/ Replaced
  BY <1>3 DEF PowerLoss, Replaced, Vanish
<1>4. ASSUME NEW d \in Client, Step(d)
      PROVE  Save(c)
  BY <1>4
     DEF Step, Write, Call, Read, Lock, Degrade, Load, LoadNothing, LoadFails, SaveRefused, Save,
         SyncDir, IOFails, UnlockFails, Return, Crash, Vanish, Goto
<1>5. CASE Save(c)
  BY <1>1, <1>5 DEF Save, _encrypt, Seal
<1>6. QED
  BY <1>2, <1>3, <1>4, <1>5, Stepwise

\* Where the OS lock works a store keeps its passphrase: set and unset replace only an envelope they could
\* open, by one sealed under the same passphrase (EncryptedFileBackend.set, unset).
THEOREM PassphraseKept == Spec => KeyKept
<1>1. IInv /\ [Next]_evars =>
        [lockWorks /\ (\E c \in Client : pc[c] = "save" /\ pc'[c] = "sync_dir" /\ file # Absent)
            => Envelope(file) /\ Authentic(file, file'.seal.pass)]_evars
  BY SavedByItself, PlaintextAuthentic
<1>2. QED
  BY Invariance, <1>1, PTL DEF Spec, KeyKept

\* A client that takes a snapshot or gets an answer from a file has opened it.
LEMMA AnsweredByItself ==
    ASSUME IInv, [Next]_evars, NEW c \in Client,
           \/ snapshot[c] = None /\ snapshot'[c] # None
           \/ pc[c] = "read" /\ pc'[c] = "return" /\ outcome'[c].kind # "error"
    PROVE  file = Absent \/ _try_decrypt(c, file) = "plaintext"
<1> USE DEF IInv, EncTypeOK
<1>1. CASE UNCHANGED evars
  BY <1>1 DEF evars
<1>2. CASE PowerLoss \/ Replaced
  BY <1>2 DEF PowerLoss, Replaced, Vanish
<1>3. ASSUME NEW d \in Client, Step(d)
      PROVE  Loading(c, call[c]) = "loaded"
  <2>1. CASE Read(d)
    BY <2>1 DEF Read, Give, Goto, Fails
  <2>2. CASE Load(d)
    BY <2>2 DEF Load, Goto
  <2>3. CASE IOFails(d) \/ UnlockFails(d)
    BY <2>3 DEF IOFails, UnlockFails, Give, Goto, Fails
  <2>4. CASE Return(d) \/ Crash(d)
    BY <2>4 DEF Return, Crash, Vanish, Goto
  <2>5. CASE \/ Call(d) \/ Lock(d) \/ Degrade(d) \/ LoadNothing(d) \/ LoadFails(d)
             \/ SaveRefused(d) \/ Save(d) \/ SyncDir(d)
    BY <2>5 DEF Call, Lock, Degrade, LoadNothing, LoadFails, SaveRefused, Save, SyncDir, Goto
  <2>6. QED
    BY <1>3, <2>1, <2>2, <2>3, <2>4, <2>5 DEF Step, Write
<1>4. QED
  BY <1>1, <1>2, <1>3, LoadedOpens, Stepwise

\* No envelope of another store, version or passphrase, and none that was edited,
\* yields content (_try_decrypt: the tag, the version, the app of the header).
THEOREM Authenticity == Spec => OnlyAuthenticContent
<1>1. IInv /\ [Next]_evars =>
        [\A c \in Client :
           (/\ file # Absent
            /\ \/ snapshot[c] = None /\ snapshot'[c] # None
               \/ pc[c] = "read" /\ pc'[c] = "return" /\ outcome'[c].kind # "error")
               => Authentic(file, PassOf[c])]_evars
  BY AnsweredByItself, PlaintextAuthentic
<1>2. QED
  BY Invariance, <1>1, PTL DEF Spec, OnlyAuthenticContent

\* An owner's load of an envelope it wrote ends in content, a malformed store, or
\* an error that does not blame passphrase, version or build.
LEMMA OwnerLoads ==
    ASSUME IInv, NEW c \in Client, NEW op, FullBuild(c),
           Authentic(file, PassOf[c]), file.header = Header
    PROVE  Loading(c, op) \in {"loaded", "malformed"}
<1>1. _try_decrypt(c, file) = "plaintext"
  BY OwnerDecrypts DEF IInv, FilesSound
<1>2. QED
  BY <1>1 DEF Loading, Probes, FullBuild

\* The errors that put the blame on a passphrase, a version or a build.
LEMMA Blames ==
    ASSUME NEW r, r.kind # "error" \/ r.why \notin {"failed", "newer", "kdf_unavailable"}
    PROVE  r \notin {Fails(why) : why \in {"failed", "newer", "kdf_unavailable"}}
  BY DEF Fails

\* An answer is not an error.
LEMMA AnswersAreNoErrors ==
    /\ \A op, s : Answer(op, s).kind # "error"
    /\ Ok.kind # "error"
    /\ \A why : Fails(why).why = why
  BY DEF Answer, Ok, Fails

\* No owner of a store is blamed for what is not its fault (_try_decrypt's outcomes
\* and the errors made of them).
THEOREM OwnerNotBlamed == Spec => OwnerIsNotMisled
<1>1. ASSUME IInv, [Next]_evars, NEW c \in Client,
             pc[c] \in {"read", "load"}, pc'[c] = "return", FullBuild(c),
             Authentic(file, PassOf[c]), file.header = Header
      PROVE  outcome'[c] \notin {Fails(why) : why \in {"failed", "newer", "kdf_unavailable"}}
  <2> USE DEF IInv, EncTypeOK
  <2>1. CASE UNCHANGED evars
    BY <1>1, <2>1 DEF evars
  <2>2. CASE PowerLoss \/ Replaced
    BY <1>1, <2>2 DEF PowerLoss, Replaced, Vanish
  <2>3. ASSUME NEW d \in Client, Step(d), ~(Read(c) \/ LoadNothing(c) \/ LoadFails(c) \/ IOFails(c))
        PROVE  FALSE
    BY <1>1, <2>3
       DEF Step, Write, Call, Read, Lock, Degrade, Load, LoadNothing, LoadFails, SaveRefused, Save,
           SyncDir, IOFails, UnlockFails, Return, Crash, Vanish, Goto
  <2>4. Loading(c, call[c]) \in {"loaded", "malformed"}
    BY <1>1, OwnerLoads
  <2>5. CASE Read(c)
    <3>1. outcome'[c] = Answer(call[c], Loaded(Plain(file))) \/ outcome'[c] = Fails("malformed")
      BY <1>1, <2>4, <2>5 DEF Read, Give
    <3>2. QED
      BY <3>1, Blames, AnswersAreNoErrors
  <2>6. CASE LoadNothing(c)
    <3>1. outcome'[c] = Ok
      BY <1>1, <2>6 DEF LoadNothing, Give
    <3>2. QED
      BY <3>1, Blames, AnswersAreNoErrors
  <2>7. CASE LoadFails(c) \/ IOFails(c)
    <3>1. outcome'[c] = Fails("malformed") \/ outcome'[c] = Fails("io")
      BY <1>1, <2>4, <2>7 DEF LoadFails, IOFails, Give
    <3>2. QED
      BY <3>1, Blames, AnswersAreNoErrors
  <2>8. QED
    BY <1>1, <2>1, <2>2, <2>3, <2>4, <2>5, <2>6, <2>7, Stepwise
<1>2. IInv /\ [Next]_evars =>
        [\A c \in Client :
           (/\ pc[c] \in {"read", "load"} /\ pc'[c] = "return"
            /\ FullBuild(c)
            /\ Authentic(file, PassOf[c]) /\ file.header = Header)
               => outcome'[c] \notin {Fails(why) : why \in {"failed", "newer", "kdf_unavailable"}}]_evars
  BY <1>1
<1>3. QED
  BY Invariance, <1>2, PTL DEF Spec, OwnerIsNotMisled

-----------------------------------------------------------------------------
(* The promise of the file backend, on the plaintext *)

\* The operation of a client decides which way it went, and has a client at work.
OpKnown ==
    /\ call = [c \in Client |-> call[c]]
    /\ \A c \in Client :
         /\ pc[c] \in {"read", "lock", "load", "save", "sync_dir"} => call[c] \in Ops
         /\ pc[c] \in {"lock", "load", "save", "sync_dir"} => IsWrite(call[c])
         /\ pc[c] = "read" => ~IsWrite(call[c])

\* Where the OS lock works, a writer about to save holds the content the file still
\* has, of the layout its operation asks for, and has something to write.
SnapshotCurrent ==
    lockWorks => \A c \in Client :
        pc[c] = "save" => /\ snapshot[c] = Loaded(Plain(file))
                         /\ Loads(Plain(file), call[c].ns)
                         /\ Writes(call[c], snapshot[c])

RefInv == IInv /\ OpKnown /\ SnapshotCurrent

LEMMA InitRefInv == Init => RefInv
  BY InitIInv DEF Init, RefInv, OpKnown, SnapshotCurrent

\* Every step keeps each client on the way its operation asks for.
LEMMA OpKnownKept ==
    ASSUME IInv, OpKnown, [Next]_evars
    PROVE  OpKnown'
<1> USE DEF IInv, EncTypeOK
<1>1. CASE UNCHANGED evars
  BY <1>1 DEF evars, OpKnown
<1>2. CASE PowerLoss \/ Replaced
  BY <1>2 DEF PowerLoss, Replaced, Vanish, OpKnown
<1>3. ASSUME NEW c \in Client, Step(c)
      PROVE  OpKnown'
  <2>1. CASE Call(c)
    BY <2>1 DEF Call, Goto, OpKnown
  <2>2. CASE Read(c) \/ LoadNothing(c) \/ LoadFails(c) \/ Load(c)
    BY <2>2 DEF Read, LoadNothing, LoadFails, Load, Decrypts, Goto, OpKnown
  <2>3. CASE \/ Lock(c) \/ Degrade(c) \/ SaveRefused(c) \/ Save(c) \/ SyncDir(c) \/ IOFails(c)
             \/ UnlockFails(c)
    BY <2>3 DEF Lock, Degrade, SaveRefused, Save, SyncDir, IOFails, UnlockFails, Goto, OpKnown
  <2>4. CASE Return(c) \/ Crash(c)
    BY <2>4 DEF Return, Crash, Vanish, Goto, OpKnown
  <2>5. QED
    BY <1>3, <2>1, <2>2, <2>3, <2>4 DEF Step, Write
<1>4. QED
  BY <1>1, <1>2, <1>3, Stepwise

\* What loads under the key loads as a store of the layout the operation asks for.
LEMMA LoadedContent ==
    ASSUME NEW c \in Client, NEW op, Loading(c, op) = "loaded"
    PROVE  Loads(Plain(file), op.ns)
<1>1. _try_decrypt(c, file) # "loaded"
  BY DEF _try_decrypt
<1>2. CASE file = Absent
  BY <1>2 DEF Plain, Loads
<1>3. CASE file # Absent
  BY <1>1, <1>3 DEF Loading
<1>4. QED
  BY <1>2, <1>3

\* No step makes the snapshot of a writer stale: it has the lock, and what comes from
\* outside comes while no writer is at work.
LEMMA SnapshotKept ==
    ASSUME IInv, OpKnown, SnapshotCurrent, [Next]_evars
    PROVE  SnapshotCurrent'
<1> USE DEF IInv, EncTypeOK
<1>1. CASE UNCHANGED evars
  BY <1>1 DEF evars, SnapshotCurrent
<1>2. CASE PowerLoss
  BY <1>2 DEF PowerLoss, Vanish, SnapshotCurrent
<1>3. CASE Replaced
  <2>1. \A c \in Client : pc'[c] # "save"
    BY <1>3 DEF Replaced
  <2>2. QED
    BY <2>1 DEF SnapshotCurrent
<1>4. ASSUME NEW c \in Client, Step(c)
      PROVE  SnapshotCurrent'
  <2>1. CASE Load(c)
    BY <2>1, LoadedContent DEF Load, Decrypts, Goto, OpKnown, SnapshotCurrent
  <2>2. CASE Save(c)
    <3>1. lockWorks' => \A d \in Client : pc'[d] # "save"
      BY <2>2 DEF Save, Goto, WriterHasLock
    <3>2. QED
      BY <3>1 DEF SnapshotCurrent
  <2>3. CASE Call(c)
    BY <2>3 DEF Call, Goto, OpKnown, SnapshotCurrent
  <2>4. CASE Read(c) \/ LoadNothing(c) \/ LoadFails(c)
    BY <2>4 DEF Read, LoadNothing, LoadFails, Decrypts, Goto, SnapshotCurrent
  <2>5. CASE Lock(c) \/ Degrade(c) \/ SaveRefused(c) \/ SyncDir(c) \/ IOFails(c) \/ UnlockFails(c)
    BY <2>5 DEF Lock, Degrade, SaveRefused, SyncDir, IOFails, UnlockFails, Goto, SnapshotCurrent
  <2>6. CASE Return(c) \/ Crash(c)
    BY <2>6 DEF Return, Crash, Vanish, Goto, OpKnown, SnapshotCurrent
  <2>7. QED
    BY <1>4, <2>1, <2>2, <2>3, <2>4, <2>5, <2>6 DEF Step, Write
<1>5. QED
  BY <1>1, <1>2, <1>3, <1>4, Stepwise

\* With it a writer's snapshot is current where the OS lock works, and the steps of an
\* operation are the ones it asks for, in every reachable state.
THEOREM RefInvariance == Spec => []RefInv
<1>1. RefInv /\ IInv' /\ [Next]_evars => RefInv'
  BY OpKnownKept, SnapshotKept DEF RefInv
<1>2. QED
  BY InitRefInv, Invariance, <1>1, PTL DEF Spec

\* The phase of the promise that a client is in, and what it is told there.
phaseBar == [c \in Client |->
               CASE pc[c] = "idle"     -> "idle"
                 [] pc[c] = "sync_dir" -> "applied"
                 [] pc[c] = "return"   -> "done"
                 [] OTHER              -> "called"]

outcomeBar == [c \in Client |->
                 IF outcome[c] # None /\ outcome[c].kind = "error" THEN Error ELSE outcome[c]]

\* The promise speaks of contents with the operators the backend computes with.
LEMMA PromiseOperators ==
    /\ Promise!Ok = Ok /\ Promise!Error = Error /\ Promise!EmptyStore = EmptyStore
    /\ \A c, ns : Promise!Loads(c, ns) <=> Loads(c, ns)
    /\ \A c : Promise!Loaded(c) = Loaded(c)
    /\ \A op : Promise!IsWrite(op) <=> IsWrite(op)
    /\ \A op, m : Promise!Answer(op, m) = Answer(op, m)
    /\ \A op, m : Promise!Writes(op, m) <=> Writes(op, m)
    /\ \A op, m : Promise!Apply(op, m) = Apply(op, m)
  BY DEF Promise!Ok, Promise!Error, Promise!EmptyStore, Promise!Loads, Promise!Loaded,
         Promise!IsWrite, Promise!Answer, Promise!Writes, Promise!Apply,
         Promise!parse_store, Promise!FlatStore, Promise!NestedStore, Promise!Lookup,
         Promise!NamesOf, Promise!Section, Promise!WithSecret, Promise!WithoutSecret,
         Promise!Put, Promise!Drop, Promise!normalize_secret_value,
         Ok, Error, EmptyStore, Loads, Loaded, IsWrite, Answer, Writes, Apply, parse_store,
         FlatStore, NestedStore, Lookup, NamesOf, Section, WithSecret, WithoutSecret, Put,
         Drop, normalize_secret_value

\* The errors a client is told of are one error of the promise.
LEMMA ErrorBar ==
    \A why \in {"failed", "newer", "kdf_unavailable", "malformed", "io"} :
        Fails(why) # None /\ Fails(why).kind = "error"
  BY OutcomeAssumption DEF Fails

\* A load that fails says why.
LEMMA WhyLoadingFails ==
    ASSUME NEW c \in Client, NEW op, Loading(c, op) # "loaded"
    PROVE  Loading(c, op) \in {"failed", "newer", "kdf_unavailable", "malformed"}
  BY DEF Loading, _try_decrypt

\* Giving a client an outcome gives it the outcome of the promise.
LEMMA GiveBar ==
    ASSUME EncTypeOK, NEW c \in Client, NEW r, Give(c, r)
    PROVE  /\ r.kind # "error" => outcomeBar' = [outcomeBar EXCEPT ![c] = r]
           /\ r # None /\ r.kind = "error" => outcomeBar' = [outcomeBar EXCEPT ![c] = Error]
<1>1. \A d \in Client : outcome'[d] = IF d = c THEN r ELSE outcome[d]
  BY DEF Give, EncTypeOK
<1>2. QED
  BY <1>1 DEF outcomeBar

\* How a move of one client shows in the phases of the promise.
LEMMA MoveBar ==
    ASSUME EncTypeOK, NEW c \in Client, NEW q, Goto(c, q)
    PROVE  phaseBar' = [phaseBar EXCEPT ![c] = CASE q = "idle"     -> "idle"
                                                 [] q = "sync_dir" -> "applied"
                                                 [] q = "return"   -> "done"
                                                 [] OTHER          -> "called"]
<1>1. \A d \in Client : pc'[d] = IF d = c THEN q ELSE pc[d]
  BY DEF Goto, EncTypeOK
<1>2. QED
  BY <1>1 DEF phaseBar

\* A saved envelope shows as the content that was sealed.
LEMMA SavedContent ==
    ASSUME RefInv, lockWorks, NEW c \in Client, Save(c)
    PROVE  /\ Plain(file') = Apply(call[c], Loaded(Plain(file)))
           /\ {Plain(b) : b \in recoverable'} = {Plain(b) : b \in recoverable} \cup {Plain(file')}
<1>1. call[c] \in Op /\ IsWrite(call[c])
  BY EncryptedAssumption DEF RefInv, OpKnown, Save
<1>2. snapshot[c] = Loaded(Plain(file)) /\ Loads(Plain(file), call[c].ns)
  BY DEF RefInv, SnapshotCurrent, Save
<1>3. call[c].ns \in Scope
  BY <1>1 DEF Op
<1>4. NewStore(c) \in Store
  BY <1>1, <1>2, <1>3, LoadedParses, ApplyKeepsLayout, ContentAssumption DEF NewStore
<1>5. file' \in OwnEnvelope /\ file'.plain = NewStore(c)
  BY <1>4 DEF Save, _encrypt, Seal, OwnEnvelope
<1>6. Plain(file') = NewStore(c)
  BY <1>5, OwnEnvelopeAssumption DEF Plain
<1>7. recoverable' = recoverable \cup {file'}
  BY DEF Save
<1>8. QED
  BY <1>2, <1>6, <1>7 DEF NewStore

\* Where the OS lock works, every step of a client is a step of the promise, or
\* changes nothing in it.
LEMMA StepRefines ==
    ASSUME RefInv, lockWorks, NEW c \in Client, Step(c)
    PROVE  Promise!Next \/ UNCHANGED <<Plain(file), {Plain(b) : b \in recoverable}, phaseBar, call, outcomeBar>>
<1> DEFINE Goal == Promise!Next \/ UNCHANGED <<Plain(file), {Plain(b) : b \in recoverable}, phaseBar, call, outcomeBar>>
<1>0. EncTypeOK /\ OpKnown /\ SnapshotCurrent
  BY DEF RefInv, IInv
<1>a. ASSUME Promise!Step(c) PROVE Goal
  BY <1>a DEF Promise!Next
\* The call ends without a change of the file.
<1>b. ASSUME pc[c] \in {"read", "lock", "load", "save"}, Goto(c, "return"),
             UNCHANGED <<file, recoverable, call>>, NEW r, outcomeBar' = [outcomeBar EXCEPT ![c] = r]
      PROVE  Promise!Decide(c, r) /\ phaseBar[c] = "called"
  <2>1. phaseBar' = [phaseBar EXCEPT ![c] = "done"] /\ phaseBar[c] = "called"
    BY <1>0, <1>b, MoveBar DEF phaseBar
  <2>2. QED
    BY <1>b, <2>1 DEF Promise!Decide, phaseBar, outcomeBar
<1>c. ASSUME Promise!Decide(c, Error) PROVE Goal
  BY <1>a, <1>c, PromiseOperators DEF Promise!Step, Promise!Refuse
<1>1. CASE Call(c)
  <2>1. PICK op \in Ops : /\ call' = [call EXCEPT ![c] = op]
                          /\ Goto(c, IF IsWrite(op) THEN "lock" ELSE "read")
    BY <1>1 DEF Call
  <2>2. phaseBar' = [phaseBar EXCEPT ![c] = "called"] /\ phaseBar[c] = "idle"
    BY <1>0, <1>1, <2>1, MoveBar DEF Call, phaseBar
  <2>3. Promise!Invoke(c)
    BY <1>1, <2>1, <2>2 DEF Call, Promise!Invoke, phaseBar, outcomeBar
  <2>4. QED
    BY <1>a, <2>3 DEF Promise!Step
<1>2. CASE Read(c)
  <2>1. pc[c] = "read" /\ Goto(c, "return") /\ UNCHANGED <<file, recoverable, call>>
    BY <1>2 DEF Read, Decrypts
  <2>2. CASE Loading(c, call[c]) = "loaded"
    <3>0. PICK r : r = Answer(call[c], Loaded(Plain(file)))
      OBVIOUS
    <3>1. outcomeBar' = [outcomeBar EXCEPT ![c] = r]
      BY <1>0, <1>2, <2>2, <3>0, GiveBar, AnswersAreNoErrors DEF Read
    <3>2. Promise!Decide(c, r) /\ phaseBar[c] = "called"
      BY <1>b, <2>1, <3>1
    <3>3. Loads(Plain(file), call[c].ns) /\ ~IsWrite(call[c])
      BY <1>0, <2>1, <2>2, LoadedContent DEF OpKnown
    <3>4. Promise!Decide(c, Promise!Answer(call[c], Promise!Loaded(Plain(file))))
      BY <3>0, <3>2, PromiseOperators DEF Promise!Decide
    <3>5. ~Promise!IsWrite(call[c]) /\ Promise!Loads(Plain(file), call[c].ns)
      BY <3>3, PromiseOperators
    <3>6. Promise!Query(c)
      BY <3>2, <3>4, <3>5, Zenon DEF Promise!Query, phaseBar
    <3>7. QED
      BY <1>a, <3>6 DEF Promise!Step
  <2>3. CASE Loading(c, call[c]) # "loaded"
    <3>1. Give(c, Fails(Loading(c, call[c])))
      BY <1>2, <2>3 DEF Read
    <3>2. outcomeBar' = [outcomeBar EXCEPT ![c] = Error]
      BY <1>0, <2>3, <3>1, WhyLoadingFails, ErrorBar, GiveBar
    <3>3. QED
      BY <1>b, <1>c, <2>1, <3>2
  <2>4. QED
    BY <2>2, <2>3
<1>3. CASE Lock(c) \/ Load(c)
  <2>1. pc[c] \in {"lock", "load"} /\ \E q \in {"load", "save"} : Goto(c, q)
    BY <1>3 DEF Lock, Load
  <2>2. phaseBar' = [phaseBar EXCEPT ![c] = "called"] /\ phaseBar[c] = "called"
    BY <1>0, <2>1, MoveBar DEF phaseBar
  <2>3. UNCHANGED <<file, recoverable, call, outcome>>
    BY <1>3 DEF Lock, Load, Decrypts
  <2>4. phaseBar' = phaseBar
    BY <2>2 DEF phaseBar
  <2>5. QED
    BY <2>3, <2>4 DEF outcomeBar
<1>4. CASE LoadNothing(c)
  <2>1. pc[c] = "load" /\ Goto(c, "return") /\ UNCHANGED <<file, recoverable, call>>
    BY <1>4 DEF LoadNothing, Decrypts
  <2>2. outcomeBar' = [outcomeBar EXCEPT ![c] = Ok]
    BY <1>0, <1>4, GiveBar, AnswersAreNoErrors DEF LoadNothing
  <2>3. Promise!Decide(c, Ok) /\ phaseBar[c] = "called"
    BY <1>b, <2>1, <2>2
  <2>4. /\ Loads(Plain(file), call[c].ns) /\ IsWrite(call[c])
        /\ ~Writes(call[c], Loaded(Plain(file)))
    BY <1>0, <1>4, <2>1, LoadedContent DEF OpKnown, LoadNothing
  <2>5. Promise!NothingToUnset(c)
    BY <2>3, <2>4, PromiseOperators DEF Promise!NothingToUnset, phaseBar
  <2>6. QED
    BY <1>a, <2>5 DEF Promise!Step
<1>5. CASE LoadFails(c) \/ SaveRefused(c)
  <2>1. pc[c] \in {"load", "save"} /\ Goto(c, "return") /\ UNCHANGED <<file, recoverable, call>>
    BY <1>5 DEF LoadFails, SaveRefused, Decrypts
  <2>2. PICK why \in {"failed", "newer", "kdf_unavailable", "malformed", "io"} : Give(c, Fails(why))
    BY <1>5, WhyLoadingFails DEF LoadFails, SaveRefused
  <2>3. outcomeBar' = [outcomeBar EXCEPT ![c] = Error]
    BY <1>0, <2>2, ErrorBar, GiveBar
  <2>4. QED
    BY <1>b, <1>c, <2>1, <2>3
<1>6. CASE Save(c)
  <2>1. pc[c] = "save" /\ Goto(c, "sync_dir") /\ UNCHANGED <<call, outcome>>
    BY <1>6 DEF Save
  <2>2. phaseBar' = [phaseBar EXCEPT ![c] = "applied"] /\ phaseBar[c] = "called"
    BY <1>0, <2>1, MoveBar DEF phaseBar
  <2>3. /\ Plain(file') = Apply(call[c], Loaded(Plain(file)))
        /\ {Plain(b) : b \in recoverable'} = {Plain(b) : b \in recoverable} \cup {Plain(file')}
    BY <1>6, SavedContent
  <2>4. /\ IsWrite(call[c]) /\ Loads(Plain(file), call[c].ns)
        /\ Writes(call[c], Loaded(Plain(file)))
    BY <1>0, <2>1 DEF OpKnown, SnapshotCurrent
  <2>5. Promise!Commit(c)
    BY <2>1, <2>2, <2>3, <2>4, PromiseOperators DEF Promise!Commit, phaseBar, outcomeBar
  <2>6. QED
    BY <1>a, <2>5 DEF Promise!Step
<1>7. CASE SyncDir(c)
  <2>1. phaseBar' = [phaseBar EXCEPT ![c] = "done"] /\ phaseBar[c] = "applied"
    BY <1>0, <1>7, MoveBar DEF SyncDir, phaseBar
  <2>2. outcomeBar' = [outcomeBar EXCEPT ![c] = Ok]
    BY <1>0, <1>7, GiveBar, AnswersAreNoErrors DEF SyncDir
  <2>3. /\ Plain(file') = Plain(file) /\ call' = call
        /\ {Plain(b) : b \in recoverable'} =
             IF DirSync THEN {Plain(file)} ELSE {Plain(b) : b \in recoverable}
    BY <1>7 DEF SyncDir
  <2>4. Promise!Acknowledge(c)
    BY <2>1, <2>2, <2>3, PromiseOperators DEF Promise!Acknowledge, phaseBar, outcomeBar
  <2>5. QED
    BY <1>a, <2>4 DEF Promise!Step
<1>8. CASE IOFails(c)
  <2>1. /\ pc[c] \in {"read", "lock", "load", "save", "sync_dir"}
        /\ Goto(c, "return") /\ UNCHANGED <<file, recoverable, call>>
    BY <1>8 DEF IOFails
  <2>2. outcomeBar' = [outcomeBar EXCEPT ![c] = Error]
    BY <1>0, <1>8, ErrorBar, GiveBar DEF IOFails
  <2>3. CASE pc[c] # "sync_dir"
    BY <1>b, <1>c, <2>1, <2>2, <2>3
  <2>4. CASE pc[c] = "sync_dir"
    <3>1. phaseBar' = [phaseBar EXCEPT ![c] = "done"] /\ phaseBar[c] = "applied"
      BY <1>0, <2>1, <2>4, MoveBar DEF phaseBar
    <3>2. Promise!ReportUnsynced(c)
      BY <2>1, <2>2, <3>1, PromiseOperators DEF Promise!ReportUnsynced, phaseBar, outcomeBar
    <3>3. QED
      BY <1>a, <3>2 DEF Promise!Step
  <2>5. QED
    BY <2>3, <2>4
<1>9. CASE Return(c)
  <2>1. phaseBar' = [phaseBar EXCEPT ![c] = "idle"] /\ phaseBar[c] = "done"
    BY <1>0, <1>9, MoveBar DEF Return, phaseBar
  <2>2. outcomeBar' = [outcomeBar EXCEPT ![c] = None]
    BY <1>0, <1>9 DEF Return, EncTypeOK, outcomeBar
  <2>3. Promise!Return(c)
    BY <1>9, <2>1, <2>2 DEF Return, Promise!Return, phaseBar, outcomeBar
  <2>4. QED
    BY <1>a, <2>3 DEF Promise!Step
<1>10. CASE Crash(c)
  <2>1. Promise!Vanish({c})
    BY <1>10 DEF Crash, Vanish, Promise!Vanish
  <2>2. Promise!ProcessDies
    BY <1>10, <2>1 DEF Crash, Promise!ProcessDies
  <2>3. QED
    BY <2>2 DEF Promise!Next
<1>11. CASE Degrade(c)
  BY <1>11 DEF Degrade
<1>12. CASE UnlockFails(c)
  <2>1. pc[c] = "return" /\ IsWrite(call[c]) /\ UNCHANGED <<file, recoverable, pc, call>>
    BY <1>12 DEF UnlockFails
  <2>2. outcomeBar' = [outcomeBar EXCEPT ![c] = Error]
    BY <1>0, <1>12, ErrorBar, GiveBar DEF UnlockFails
  <2>3. phaseBar[c] = "done" /\ phaseBar' = phaseBar
    BY <2>1 DEF phaseBar
  <2>4. Promise!FailAfterwards(c)
    BY <2>1, <2>2, <2>3, PromiseOperators DEF Promise!FailAfterwards, phaseBar, outcomeBar
  <2>5. QED
    BY <1>a, <2>4 DEF Promise!Step
<1>q. QED
  BY <1>1, <1>2, <1>3, <1>4, <1>5, <1>6, <1>7, <1>8, <1>9, <1>10, <1>11, <1>12
     DEF Step, Write

\* Encryption takes nothing away: where the OS lock works, and as long as nothing
\* outside changes the file, sets, unsets, gets and names of any clients, under any passphrases and builds, are
\* those of the atomic store that SecretStore describes (EncryptedFileBackend).
THEOREM EncryptedRefinement == Spec => KeepsPromise
<1>1. Init => Promise!Init
  BY DEF Init, Promise!Init
<1>2. RefInv /\ [Next]_evars => [lockWorks => Replaced \/ Promise!Next]_<<Promise!svars>>
  <2> SUFFICES ASSUME RefInv, lockWorks, [Next]_evars
               PROVE  Replaced \/ Promise!Next \/ UNCHANGED Promise!svars
    OBVIOUS
  <2>1. CASE UNCHANGED evars
    BY <2>1 DEF evars, Promise!svars
  <2>2. ASSUME NEW c \in Client, Step(c)
        PROVE  Promise!Next \/ UNCHANGED Promise!svars
    BY <2>2, StepRefines DEF Promise!svars, phaseBar, outcomeBar
  <2>3. CASE PowerLoss
    <3>1. Promise!Vanish(Client)
      BY <2>3 DEF PowerLoss, Vanish, Promise!Vanish
    <3>2. Plain(file') \in {Plain(b) : b \in recoverable} /\ {Plain(b) : b \in recoverable'} = {Plain(file')}
      BY <2>3 DEF PowerLoss
    <3>3. QED
      BY <3>1, <3>2 DEF Promise!PowerLoss, Promise!Next
  <2>4. QED
    BY <2>1, <2>2, <2>3, Stepwise DEF RefInv
<1>3. QED
  BY <1>1, <1>2, RefInvariance, PTL DEF Spec, KeepsPromise
=============================================================================
