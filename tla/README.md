# A TLA+ model of credbox

credbox keeps an application's secrets: in a JSON file, in the OS keyring, or in
an encrypted file. It is a library, so its users run it from several threads of
several processes at once, on file systems it does not choose, and they kill it
whenever they like. This directory models the parts where that matters, checks
them with TLC on small instances, and proves the central facts with TLAPS for all
instances. Source paths are relative to `src/src/credbox/`.

## Inventory of the system

| component | state it keeps | operations | what is hard | what makes it correct |
|---|---|---|---|---|
| Store content and codec (`_store_codec.py`) | none; the file is one JSON object, flat (name to secret) or namespaced | `parse_store`, `serialize_store` | a file in the other layout, `{}` which is in both, one bad value in a whole map | the layout never flips, a file that does not parse is never overwritten |
| File backend (`backends/file.py`) | `credentials.json` | `get`, `set`, `unset`, `names` | read-modify-write by many writers; readers take no lock | each operation is atomic, nothing is lost or torn, what was acknowledged survives |
| Store lock (`backends/_store.py`, `_oslock.py`) | a weak registry of `threading.Lock`s per process; the flock of a `.lock` file; the set of paths warned about | `exclusive_store_lock` | weak references, two locks in a row, file systems without locks | one writer; at least one per process when degraded, and never in silence |
| Atomic write (`atomic.py`) | a temporary file | `write_bytes_atomic` | errors, interrupts and power loss at every step; a directory sync that fails after the rename | old or new content, never a mixture; no plaintext debris as long as the cleanup itself works |
| Single-instance lock (`locking.py`) | the handle and the fall-open flag of each `FileLock` | `acquire`, `release`, `single_instance` | contention, no lock support, a failing unlock, a crash of the holder | guarded runs do not overlap, no stale lock, the flag is truthful |
| Keyring backend (`backends/keyring.py`) | keyring items, the fallback's file | `get`, `set`, `unset`, `names` | two stores changed one after the other; absent, failing and recovering keyrings | no shadowed copy is ever served, no unannounced plaintext copy, acknowledged writes take hold |
| Encrypted backend (`backends/encrypted.py`) | `credentials.enc`: a header and a ciphertext of the whole store | as the file backend | as the file backend, plus wrong passphrases, envelopes of other stores and versions, headers with absurd parameters, builds that lack the KDF | as the file backend for whoever can decrypt; bounded derivations; nothing written over what could not be read; nobody blamed wrongly |
| Credentials (`credentials.py`) | the cached binding; the apps already warned about | `secret`, `require`, `set`, `unset`, `names`, `for_app`, `migrate_to` | `migrate_to` is many calls, each of which may fail; a lookup reads several places one after the other | no secret lost, moves complete, counts truthful; tiers resolved in order; components kept apart; one warning per app, and not none |
| Private directories (`permissions.py`, `runtime.py`, `relocation.py`) | the file system | `ensure_private_dir`, `restrict_dir_to_owner`, `runtime_dir`, `relocate_once` | check then act | a directory that is used is private; one relocation |
| Scrubbing (`scrub.py`) | none | `scrub_exception` and friends | cyclic and shared arguments, accessors that raise | ends, and leaves nothing reachable unscrubbed |
| Environment, paths, layout (`environment.py`, `paths.py`, `layout.py`) | a process-wide default layout | lookups | string validation; a lossy fold | a segment cannot leave its directory |
| `cli.py`, `git_credential.py` | none | commands; git's `get`, `store`, `erase` | git chooses the host and the user name; two reads in a row | a plain get answers from the store it was asked about alone |
| `secret.py`, `errors.py`, `backends/protocol.py`, `backends/factory.py`, `json_file.py` | none | values, exceptions, an interface, constructors | none | |

How they interact: `Credentials` calls one backend, under its binding (app,
namespace). The file backend (and the encrypted one) runs every `set` and `unset`
inside `exclusive_store_lock`, which takes the thread lock of the path and then the
flock through `_oslock`; it saves through `write_bytes_atomic`. The keyring backend
calls the keyring and then a fallback backend, as a rule the file backend of the
same app. `migrate_to` calls two backends in turn. `FileLock` uses `_oslock` on a file in
`runtime_dir`, which `ensure_private_dir` makes private. `git-credential-credbox` and
`credbox` are processes that live for one request: they go through a `Credentials`, save
for their plain gets, which call the backend.

## Modules

| module | what it is |
|---|---|
| `StoreContent` | the content of a store file and the effect of every operation on it, as operators: `parse_store`, `serialize_store`, `WithSecret`, `WithoutSecret`, `Lookup`, ... |
| `SecretStore` | the promise: what a caller of a file-based backend may rely on, without locks, temporary files or snapshots |
| `FileStore` | the file backend with its locks and its atomic write, step by step |
| `FileStoreProperties` | its properties, and the refinement mapping to `SecretStore` |
| `StoreContentLemmas`, `FileStore_proofs` | proofs about the content's operators, and about the file backend |
| `FileLock` | the single-instance lock and its properties |
| `SingleInstance`, `SingleInstance_proofs` | `FileLock` composed with `runtime_dir` and `ensure_private_dir`, and another user of the machine; proofs about both modules |
| `KeyringStore`, `KeyringProperties`, `KeyringStore_proofs` | the keyring backend over its fallback; its properties, with history variables; proofs |
| `Migrate`, `Migrate_proofs` | `migrate_to` between any two bindings, and its properties; proofs |
| `EncryptedStore`, `EncryptedProperties`, `EncryptedStore_proofs` | the encrypted backend; its properties and its refinement mapping to `SecretStore`; proofs |
| `Resolve` | the `Credentials` facade: tiers, binding, redirects, the orphan warning |
| `Frontends` | git's helper and the `credbox` command, beside the library's callers of `Resolve` |
| `ResolveProperties`, `Resolve_proofs` | what the two owe their callers, with history variables; proofs |
| `Scrub`, `ScrubProperties`, `Scrub_proofs` | the walk of `scrub_exception`, and its properties; proofs |
| `MCFileStore`, `MCSingleInstance`, `MCKeyring`, `MCMigrate`, `MCEncrypted`, `MCResolve`, `MCScrub` | small instances for TLC; `MCFileStore`, `MCKeyring` and `MCMigrate` add a `Rest` step for the state in which every call has been made, so deadlock is checked everywhere else |

`KeyringStore`, `Migrate` and `Resolve` treat a call of a file store as one step. That is not an
assumption of convenience: it is what `ImplementsSecretStore` says of `FileStore`.

### FileStore

State: `file` is what the path holds for every reader, `recoverable` the contents a
power loss may leave there (a rename adds one, a directory sync leaves only the
current one). `temp` and `snapshot` are the temporary file and the loaded map of each
writer. `registry`, `lockRef` and `lockHolder` are the weak registry of thread locks,
the strong reference each frame of `exclusive_store_lock` has, and who holds which lock
object; an entry of the registry vanishes when the last reference does (`Return`), and
a thread that comes later gets a new object (`NewLock`). `osLock` is the flock.

Every action is a step that another thread, a crash or a power loss can come between:
`GetThreadLock`, `AcquireThreadLock`, `OpenLockFile`, `LockExclusive` (or `Degrade`),
`Load`, `Stage` (mkstemp), `WriteTemp`, `Rename`, `SyncDir`, `Unlock`,
`ReleaseThreadLock`, `Return`. `LoadNothing`, `LoadFaults` and `NotEncodable` are the
early exits; `InterruptedEntering` (while a thread waits for the registry or the thread
lock, or opens the lock file), `FailsWithoutTemp`, `FailsWithTemp`, `SyncDirFails` and
`ReadFails` are an `OSError` or an interrupt at each place. `Cleanup` unlinks the temporary
file of a write that failed; when that fails too (`UnlinkFails`), or the writer dies, the file
stays for good: `debris` counts those. `UnlockFails` is `unlock` or `close` raising: the
handle is closed all the same and the thread lock released, but the caller of a write that
is in place and synced gets an error. `faults` counts what hits a call, `deaths` the crashes
and power losses. A reader (`Read`) takes one
look at the path and no lock. A torn temporary file is `Malformed`; a file system keeps
only what was synced (`OnDisk`).

### FileLock

One object per run. `Contended` needs a holder; `OperationFails` is the errno that
`_outcome_for` cannot place and calls contention all the same. `FailClosed` and
`FallOpen` are the two answers to `UNSUPPORTED`. `Release` clears the handle and the
flag before `Close` frees the lock, in the code's order. A crash frees it too.

### KeyringStore

A call is `NoBackend`, `Failed`, `Hit`, `Miss` or `Change` on the keyring, then perhaps
one of `FallbackReads`, `FallbackWrites`, `FallbackRefuses`, `FallbackFails` on the file.
`Headless` processes have no keyring backend while others have one, as on a machine
used both from a desktop and over ssh; `Bare` processes have no fallback. A keyring
call that fails may have done its work. `DeleteRefused` is a keyring that will not delete an
item and says so with the exception it has for an absent one, which the code takes for "ok".
`KeyringProperties` adds four history variables: items whose file copy is accounted for,
calls during which the item was set nowhere at some instant, calls during which somebody
else wrote it, and unsets whose item the keyring kept.

### Migrate

The names of the source, each value, the names of the destination, each write and each
removal are steps of their own; a step that fails may have done its write. `Retry` is
the caller running the same migration again. `Sibling` is another component writing its
own namespace of the source's or the destination's file. Names are visited in any
order, of which the code's (sorted) is one. `initial` is a history variable.

### EncryptedStore

`file` is an envelope: its header, the plaintext it was made from, and a `seal`, which is
what the ciphertext is bound to: the passphrase, the cost the key was derived at, and the
header as authenticated data. `Opens` says the three agree, which is all that is kept of
AES-GCM and Argon2id. `_try_decrypt` returns its outcomes in the code's order (newer
version, malformed, parameters clamped, KDF unavailable, tag, app). Clients differ in
passphrase and in what their OpenSSL can derive: nothing, one lane only, everything.
A build of the middle sort passes `_ensure_kdf_available` and fails later, on read or in
`_save`. `derived` records every cost Argon2id has been run at. `Replaced` is what goes on
around the store: an envelope from a backup, another app, another passphrase or another
version, one whose header was edited to an extreme, or damage.

The lock and `write_bytes_atomic` are `FileStore`'s: here `Lock` is one step and so is
everything from `mkstemp` to the rename (`Save`); the directory sync stays apart
because a power loss between the two is visible. The faults inside are `IOFails`. Clients
are processes. `lockWorks` says whether the OS lock can be had here, chosen at the start;
where it cannot, `Degrade` lets any number of writers load and save at once, as
`exclusive_store_lock` does after its warning, and the properties that need the lock say
so. `UnlockFails` turns a decided result into an error after the save.

### Resolve and Frontends

Each thread makes a `Credentials` (`Construct`, which validates nothing) and calls it. A
lookup is `Override`, `FromEnv`, `Bind`, `Claim` and perhaps `Probe`, one `Shared` step per
shared store, and `OwnRead`; `require` differs in its last step only (`Ends`). `set` first
runs `CheckSet`. `warned` is the process-wide set of apps claimed under the lock,
`probes` the reads of a legacy store and what came of each: it warned, it found nothing, or it
failed after the claim (`ProbeFails`: a failing `names` or `store_location`, or a filter that
makes the warning an error), which is swallowed and loses the warning. `SetEnv` is the host
changing its environment under a live `Credentials`, `EditStore` a hand edit.

A run of git's helper or of `credbox` is a thread in a process of its own that starts a
request when it is idle and forgets everything at its end (`Exits`). `GitNames` and
`GitGet` are two reads, with others' steps between them; a request that is not over TLS is
declined before either, and a reply with a newline in its name or value is not written.

### Scrub

The walk's own variables: the stack and the `seen` set of exceptions, and of the argument
at hand the pending values (`work`, the recursion flattened in its own order), the
containers expanded, and the depth of each pending value. `holds` is what each field of
each exception still holds. Every text starts with every form of every secret in it, and
`Replace` leaves a `Torn` piece when a part of a target is replaced before the whole. Any
access may raise (`Broken`) or run out of memory (`OutOfMemory`, the one error passed on).

### SingleInstance

`path` is what stands at the per-user root and at the app's directory in it; with
`XDG_RUNTIME_DIR` (`session`) the root is made by the login manager. `MkDir`, `ChmodFresh`,
`Lstat`, `Refuse` and `Accept` are the system calls of `ensure_private_dir`, with a umask
that may lock even the owner out until the chmod. The other user takes a free name in the
sticky temporary directory, replaces what is theirs, and acts in any directory they can
enter. `FileLock`'s own actions are unchanged and run between these.

## Runs

| run | what it shows |
|---|---|
| `filestore_locked` | Three threads in two processes, both locks working, every operation in both layouts, values that cannot be encoded. At most one writer (`OneWriter`), a save changes the very content it replaces (`NoStaleSave`), acknowledged writes survive power loss (`AckedWriteSurvives`), no torn file (`NeverTorn`), no flipped layout (`LayoutKept`), no emptied namespace (`NoEmptiedNamespace`), and the whole implements `SecretStore`. |
| `filestore_degraded` | Two processes where opening the lock file or flock may fail. Across processes nothing is promised; inside one it is (`OneThreadPerProcess`), the degradation is announced (`DegradationAnnounced`), a temporary file stays behind only where a process died or a write and its unlink both failed (`DebrisNeedsTwoFailures`), and every call returns (`EveryCallReturns`) without counting on the lock to fail: a waiter depends on the holder's release, also when unlocking fails. |
| `filelock` | Three runs with different policies, every flock result, crashes, and two intrusions of another user: the lock file is opened in a directory that is ours and private, below another (`OpenedInPrivate`), no chmod lands on what was swapped in (`NothingSwapped`), guarded runs exclude each other, the flag is truthful, `require_lock` is respected, the lock comes free. |
| `keyring` | Four processes (two with a keyring, one headless, one without fallback), three calls, two faults. `NoShadowedCopy`; `AckedWriteTakesHold` (but for a delete the keyring refused); `AnswerIsCurrent`: no get answers with a file copy that the keyring's value shadows, a failing keyring included. |
| `keyring_unset` | Violated: `AckedUnsetIsGone`. |
| `keyring_race` | Violated: `NoneOnlyWhenSetNowhere`. |
| `migrate` | Seven pairs of bindings, copied and moved, 28 initial fillings, up to three attempts, two faults and two sibling writes. `NothingLost`, `MoveComplete`, `CopyKeepsSource`, `ResultTruthful`, `LegalMigrationCompletes`. |
| `migrate_alias` | Violated: `NothingLost`, between a file backend and a keyring backend on one file. |
| `migrate_blank` | Violated: `LegalMigrationCompletes`, with a blank name in the source. |
| `encrypted` | Five clients (two owners, one on a one-lane build, a stranger, one without Argon2id), ten foreign envelopes, two calls, two faults. `DerivationBounded`, `OnlyAuthenticContent`, `OwnerIsNotMisled`, and, where the OS lock works, `KeyKept` and `KeepsPromise`: while nothing outside changes the file it implements `SecretStore`. Both kinds of file system are in the run. |
| `resolve` | Two threads of a host and one program on four stores, three environments, two calls, one change. `FirstTierDecides`: each answer, error or "unset" is one the tiers in order could have given during the call. `ComponentsApart`, `ProbedOnce`. `OrphanAnnounced`: the warning is never skipped, nor given for another component; it may be lost to a failure, as its docstring says. `StoreOnlyGets`: plain gets know no environment, and git is answered over TLS only. |
| `scrub` | All links between three exceptions and a group, all shapes of three containers, depth limit 2. `ScrubTypeOK` (with the depth limit), `ScrubbedAll`, `WorkBounded` (each value handled lowers what is left to do), `Terminates`. |

### Disagreements between code and documentation

1. `KeyringBackend.unset` says that it "raises rather than silently reporting a delete that
   may not have happened" (`backends/keyring.py:127-128`), and answers "ok" to every
   `PasswordDeleteError` (line 286), which a keyring raises for an absent item and for a
   delete that failed alike. (`keyring_unset`)
2. `KeyringBackend.get` documents `None` as "when set nowhere" (`backends/keyring.py:63`).
   Its two reads are not one: a `set` that fills the keyring and clears the file between
   them makes it answer `None` for a secret that was set at every instant.
   (`keyring_race`)
3. `migrate_to` identifies a store by the type of its backend (`credentials.py:431`). A
   `KeyringBackend` on a machine without a keyring is the file backend of the same
   file: a move between the two writes every secret onto itself and then removes it.
   (`migrate_alias`)
4. A blank name in a flat file (`FileBackend.set` accepts one) stops a conversion of
   layout with `BlankSecretError` after the source was cleared. (`migrate_blank`)

Met while modelling, and not run: `FileLock.acquire` documents `False` as "ONLY when another
process genuinely holds it" (`locking.py:87`), while `_outcome_for` (`_oslock.py:103`) gives
the same answer for any errno outside four (`OperationFails` in `FileLock`, a step of
`filelock`). `runtime_dir` goes by `XDG_RUNTIME_DIR`, which a login
session has and a cron job has not, so "a cron run and a manual one" (repository
`README.md:317`, `locking.py:3`) lock two files and do not exclude each other.
`SingleInstance` chooses the variable once for all runs, so its exclusion is claimed among
runs that agree on it. A lookup that reads its tiers one after the other can answer `None`
for a secret that was moved from a later tier to an earlier one in between; `secret`
promises nothing about writers, and `FirstTierDecides` says what remains true.

### Bounds

`FileStore`: `MaxCalls` bounds the calls of a behaviour, `MaxFaults` its faults. Three
calls are enough for two writers in conflict and a third that arrives while a lock object
is being given up, which is when a weak registry can go wrong; one fault is enough for
every single failure, and two (in `filestore_degraded`) for a failing cleanup. Two lock
objects suffice, since a process refers to one at a time. The contents include none, one
that does not parse, and both layouts. `KeyringStore`: with three calls a headless or
concurrent writer can leave a copy, a second can hide it and a third can meet it; two
faults are a keyring and a file that fail in one call, or a refused delete and a crash.
`Migrate`: two names (one of them blank-valued in some files) make a half-way point in
every loop; the second and third attempts finish what faults broke off. `EncryptedStore`:
two calls put a second writer between the load and the save of a first, two faults put a
foreign envelope under it and take it away again; the parameters stand at, below and
above each limit and at a value `int()` refuses. `Resolve`: two calls and one change are a
lookup and a writer, or two threads at the first access, with one edit or one change of
environment at any point of them. `Scrub`: three exceptions make every cycle through
cause, context and members; three containers exceed the depth limit of 2 and repeat.
`SingleInstance`: the second intrusion undoes or follows up the first. Symmetry is
used for threads of one process, for the two desktop processes and for the two owners of the
encrypted store, and not in runs with liveness.

### Fairness

`FileStore`: weak fairness of each thread's own steps (`Run`), not of calls, faults or
crashes, nor of `Degrade`: a lock that is not to be had is something that befalls a thread, so
one that waits for the flock is only ever sure of the holder's release. Neither
`threading.Lock` nor `flock` is fair; with finitely many calls each lock is taken finitely
often, so a waiter is in the end alone with it, and weak fairness of `Run` is enough. An
unbounded stream of writers could starve one: the code does not exclude it and nothing here
claims it. `SingleInstance`: weak fairness of the steps of a run that holds the lock, i.e.
bodies end; nothing is assumed of a run that is still making its directory. `Scrub`: weak
fairness of the walk, which is one thread's loop.

## Proofs

Checked by TLAPS for every value of the constants, from the assumptions the modules
state about them, which TLC evaluates in the runs: `ContentAssumption`,
`FileStoreAssumption`, `FileLockAssumption`, `EncryptedAssumption`, `EnvelopeAssumption`,
`OwnEnvelopeAssumption`, `OutcomeAssumption`, `KeyringAssumption`, `MigrateAssumption`,
`ResolveAssumption`, `FrontendAssumption`, `AuthorAssumption`, `ScrubAssumption`,
`TornAssumption`. Most give a constant its type or keep special values (`None`, `Absent`,
errors, torn texts) apart from data. Two say more, and are what the code does:
`ContentAssumption` that stripping a stripped value changes nothing, `AuthorAssumption`
that a label (who stores a value) stays with the value when it is stripped, that a
component stores its own, and that the stores begin, and hand edits leave them, with every
value in a section of the component it is labelled with.

Four hypotheses are not assumptions of a module, because runs exist that break them or
the code allows what they exclude; each is named in the theorem that needs it.
`Serialized`: no lock faults, or one process. `NoAlias`: no migration with the file
backend at one end and the keyring backend's fallback on the same file at the other
(`migrate_alias` shows what happens then). `Tame`: no blank names, no values that cannot
be encoded (`migrate_blank`); `NeverLost` and `MovesAreComplete` need it only if some
migration converts a flat file into a namespaced one (`Converts`). `ByStoreAppAlone`: no
environment's redirect names a section, the case `ComponentsApart` is about. What
`EncryptedStore` promises only while the OS lock can be had, its properties say themselves
(`lockWorks`).

Every safety property that a run checks is the statement of a theorem, for all instances.

`FileStore_proofs`. The inductive invariant is

    IInv == TypeOK /\ ThreadLockInv /\ OsLockInv /\ CarryInv /\ NoStaleSave /\ AckedWriteSurvives

`OneWriter` is not inductive: a lock held by nobody, or two lock objects for one path,
would let a second writer in. `ThreadLockInv` says that every frame refers to the object
in the registry and that exactly the thread past the acquisition holds it, and
`OsLockInv` that where locks do not fail, whoever is in the body has the flock; together
they give exclusion (`Exclusion`). `CarryInv` says what a writer carries at each
position (a snapshot of its call's layout, a temporary file that is complete and synced
before the rename). With exclusion, no other thread's step changes the file under a
writer, which makes `NoStaleSave` inductive, and no rename falls between a directory
sync and the acknowledgement, which makes `AckedWriteSurvives` inductive. From `IInv`:
`TypeCorrectness`, `ThreadMutualExclusion`, `MutualExclusion`, `NoLostUpdate`,
`Durability`; and by looking at the steps that change the file
(`FileSteps`), `NoTornFile`, `LayoutPreserved`, `NamespacesPruned`. `NeverSilentlyDegraded`
adds one thing to `IInv`: a process forgets its warnings only together with its threads.
`BoundedDebris` counts: `2 * debris` plus the writers in `cleanup`, each of which has already
failed once, never exceeds `faults` while nothing has died.

`Refinement`: where the writers are serialized, `Spec => ImplementsSecretStore`. The
abstract phase is a function of the position (`PhaseOf`): a write takes effect at
`Rename`, is applied until `SyncDir` decides its result, and every other step of a
writer, taking and giving up locks and staging included, is a stutter. `NoStaleSave` is
what makes `Rename` the abstract `Commit`, which applies the operation to the content of
that very instant. `Serialized` (no lock faults, or one process) is a statement about
constants and cannot be dropped: across processes that degraded, updates can be lost, as
the warning says.

`StoreContentLemmas` proves that every operation keeps the layout of its store, writes its
own section as asked (`SectionOfApply`) and leaves every other alone
(`OtherSectionsOfApply`), and that only `{}` is in both layouts (`OnlyEmptyFitsBoth`).

`SingleInstance_proofs`. Of `FileLock`: the flock's owner is between taking and closing, a
handle is kept exactly in the body, and the flag is set exactly where no flock is
(`LockInvariance`); hence `GuardedRunsNeverOverlap`, `HoldsAreReported`,
`RequiredRunsAreGuarded`. Of the directories, the inductive invariant is

    DirInv == DirTypeOK /\ RootSecured /\ FreshIsOurs /\ VerifiedStands /\ ReadyInPrivate

`NothingSwapped` speaks of the instant of a chmod; what makes it inductive is that a
directory of ours out of the other user's reach only ever gets tighter (`PathSettles`),
and that a run comes to the app's directory only when the root is such a one. A run that
has just made a directory, or has seen it by `lstat`, can then rely on it
(`NothingIsSwapped`), and when `runtime_dir` has returned both levels are private
(`OpenedOnlyInPrivate`). A run with its directories is a run of `FileLock`
(`RunsAreLockRuns`, a refinement under the identity), so the lock's theorems hold of the
composition too (`RunsKeepLockPromises`).

`EncryptedStore_proofs`. The inductive invariant is

    IInv == EncTypeOK /\ FilesSound /\ DerivationBounded /\ WriterHasLock /\ WriterOpened

`EnvelopeAssumption` says of foreign envelopes only that whoever sealed one derived its key at
the cost in the header they sealed; their headers, passphrases and contents are free, and so
is every later edit. `FilesSound` carries that through saves, edits and power losses.
`DerivationBounded` is inductive once headers are integers where they parse (`CostBounded`,
for any integers). `WriterOpened`, that a writer about to save has in front of it nothing, or
an envelope it could decrypt, needs `WriterHasLock`: without the lock another's save could
come in between. Both speak of the time when the OS lock still works (`lockWorks`): after
`Degrade` a writer goes on without it, as `exclusive_store_lock` does, and nothing is
promised. Hence `PassphraseKept` (while the lock works, no write replaces what its passphrase
does not open), and from the operators alone `Authenticity` (what opens was sealed by the same
passphrase for this app) and `OwnerNotBlamed` (`OwnerDecrypts`: an unedited envelope of this
version opens, because `_clamp` leaves its own cost alone).

`EncryptedRefinement` is `KeepsPromise`: every step but one of something outside that replaces
the file (`Replaced`), while the lock works, is a step of `SecretStore` on the plaintext, or a
stutter. What makes `Save` the abstract commit is `RefInv`: a writer at `Save` holds the
plaintext the file has (`SnapshotCurrent`, again while the lock works), and each client is on
the way its operation asks for (`OpKnown`).

`KeyringStore_proofs`. The inductive invariant is

    KInv == /\ KTypeOK /\ Accounted
            /\ \A c \in Client : Phase(c) /\ RingTaken(c) /\ FileTaken(c) /\ AnswerTaken(c)

`Phase` is what a client knows between its two calls: in particular the fallback is only
reached when the keyring did not fail. `AnswerTaken` adds what a get has learned as long as
nobody else wrote the item: when the keyring was empty it still is, and what it returns is
what the two stores together hold, which is `AnswersAreCurrent`. `RingTaken` and
`FileTaken` say of each of the two writes of an operation that it is still there unless
somebody else has written the item since, but for a delete that the keyring refused and the
code acknowledged (`keyring_unset`); together they are `AckedWritesTakeHold`.
`Accounted` lets a copy stand behind a keyring entry only while its writer is between
keyring and fallback, or with an excuse (`CopiesAreAccountedFor`).

`Migrate_proofs`. `MInv` relates the four maps that matter: what source and destination
hold now and what they held at first (`SE`, `DE`, `IE`, `ID`). `Kept`: what is left in the
source is what was there. `Arrived`: what is gone from it is in the destination.
`Remembered` and `Landed`: what the loops have read, and what of that they have written.
`Untouched`: before the first write of the first attempt nothing has changed, which the
counts depend on. `Intact` sets apart a conversion of layout that a fault broke off, where
the code promises less. The invariant holds through any number of attempts, faults and
writes of siblings (`MigrateInvariance`); from it `NeverLost`, `MovesAreComplete`,
`CopiesKeepTheSource`, `ResultsAreTruthful`, `LegalMigrationsComplete`. `Entries` is the one
operator through which names and values of a binding are read, so that an operation's
effect on another binding needs to be proved once.

`Resolve_proofs` has three invariants, each on top of the one before. `WInv`: a claimed app
has been probed or exactly one thread is about to (`Claimed`, `Followed`), and a thread at a
store tier has passed the claim (`Passed`); hence `LegacyProbedOnce` and
`OrphansAreAnnounced`, which is as strong as the probe is: it is tried once, and a failure it
swallows loses the warning, which the record of the probe says. `LInv`: the history of each
tier holds what the tier holds now (`Current`), and every tier a lookup has left was unset
when it was consulted (`SoFar`); hence `LookupsAreDecided` for any number of shared stores. It
also keeps that a request of git on its way to the store came over TLS (`KindOK`), which
`PlainGetsReadTheStore` needs. `AInv`: every section of a store holds only values labelled
with the component of that section, with the store's own app, or with nobody (`Authored`);
hence `ComponentsStayApart`.

`Scrub_proofs`. `NothingIsLeft` is about `_replace_targets` alone: in an order that puts no
target before a longer one, after the k-th replacement exactly the targets are whole that
have neither been replaced nor contain one that has (`LeftAfter`, `OneReplacement`), so
after the last nothing is. `_replace_targets` is a recursive function, and two descriptions
of one are compared at the least index at which they differ (`LeastNatural`, from the
well-foundedness of the naturals): this is the one argument here that is an induction over
data, and it needs a first-order statement of the invariant (`LeftAfter`) to go through. The
invariant of the walk, `SInv == Typed /\ Progress`, is that visited exceptions other than
the one at hand are clean and lead only to visited or pending ones; at the return nothing
is pending, so the visited ones are a closed set that contains the root, which is what
`Reachable` asks about (`ScrubsEverythingReachable`). `Typed` has the depth limit
(`ScrubTypeCorrect`): a container is expanded only below it.

Only model-checked: liveness (`EveryCallReturns`, `LockComesFree`, `Terminates`), which is
beyond this prover, and `WorkBounded`, whose measure is a fold over a set: what a fold
computes is an induction over data through an operator parameter, which no installed
prover can instantiate. The four violated properties have counterexamples and no theorem.

## Not modelled

- The Windows branches: `msvcrt` locks and the retries of `_replace`.
- Mode bits of files and of the config directory (`restrict_dir_to_owner`) and the warnings
  about them: best effort, and no other behaviour depends on them.
- `relocate_once`: one check and one `os.replace`, called by no module of the library.
- An interrupt between two bytecodes, such as between `mkstemp` and the `try`, or between
  `thread_lock.acquire()` and its `try`. An interrupt is modelled where a step blocks or
  calls the system, in `FileStore`; elsewhere (in the orphan probe, which it would leave
  claimed and silent) it is not.
- The same path under two spellings (the thread lock is per spelling; the flock is not).
- `FileLock`: one object driven by several threads or inherited by a fork.
- What the frames of a traceback hold (the reason for the encrypted backend's returned
  outcomes): a property of Python frames, with no counterpart in a state.
- `credbox path`, `dirs` and `doctor`, which print; `--keyring`; argument parsing.
- `paths.py`, `layout.py` and the fold of `env_var_prefix`: strings; validity is a parameter.
- In `Scrub`: texts that hold only some targets, percent-encoding, `bytes`.
- Text: wording of errors, JSON syntax, stripping (a relation between values), order of names.
- In `Migrate`: a live keyring, values that cannot be encoded, other writers of the very
  scopes that are migrated.

## Plan

Done: every module with TLC, and a theorem for every safety property the runs check. What
is left, in this order:

1. `FileStore_proofs`: that a reader between two writers sees one of the contents a
   refinement step committed, stated on `FileStore` itself rather than through `SecretStore`.
2. `Scrub_proofs`: `WorkBounded` with the cost as a sum along a sequence of the containers,
   by the least-index argument of `NothingIsLeft`.
3. `Migrate_proofs`: that a retry after a fault ends in the state the first attempt would
   have reached, without siblings.
4. Shorter proofs where two modules argue alike (the sections of a store in `Migrate_proofs`
   and `KeyringStore_proofs`).
