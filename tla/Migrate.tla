------------------------------- MODULE Migrate -------------------------------
(***************************************************************************)
(* Credentials.migrate_to: copy or move every secret of one store into     *)
(* another, one backend call at a time.  Between two calls a sibling       *)
(* component may change its own namespace of the same file; any call may   *)
(* fail, and the process may die; the caller may then try again.           *)
(*                                                                         *)
(* A backend call is one step, as FileStore is shown to implement.  Of the *)
(* keyring backend the machine without a keyring is modelled, where every  *)
(* call is the file fallback's.                                            *)
(***************************************************************************)
EXTENDS StoreContent, FiniteSets

CONSTANTS
    App,
    Migrations,   \* the migrations asked for
    SiblingOps,   \* writes of other components: records [at |-> store, op |-> write]
    InitFiles,    \* what the files may hold at first
    BlankNames,   \* names that are empty or whitespace only
    MaxAttempts,  \* bound: times the migration is started
    MaxSibling,   \* bound: writes of siblings
    MaxFaults     \* bound: failing calls and crashes

Backend == {"file", "encrypted", "keyring"}
Binding == [backend : Backend, app : App, ns : Scope]
File    == [name : {"credentials.json", "credentials.enc"}, app : App]

ASSUME MigrateAssumption ==
    /\ Migrations \subseteq [source : Binding, dest : Binding, remove_source : BOOLEAN]
    /\ SiblingOps \subseteq [at : File, op : {op \in Op : IsWrite(op)}]
    /\ InitFiles \subseteq [File -> Content]
    /\ BlankNames \subseteq Name
    /\ MaxAttempts \in Nat /\ MaxSibling \in Nat /\ MaxFaults \in Nat

VARIABLES
    files,         \* the contents of every store file
    request,       \* the migration: source, dest, remove_source
    pc,            \* where migrate_to is
    source_names,  \* source.names()
    todo,          \* names the current loop has still to visit
    stored,        \* stored_secrets, as a map
    existing,      \* dest.names() before the first write
    result,        \* the MigrationResult
    initial,       \* history: files before the first attempt
    attempts, writes, faults

locals == <<source_names, todo, stored, existing, result>>
counts == <<attempts, writes, faults>>
mvars == <<files, request, pc, locals, initial, counts>>

-----------------------------------------------------------------------------
(* The stores *)

FileOf(b) ==
    [name |-> IF b.backend = "encrypted" THEN "credentials.enc" ELSE "credentials.json",
     app |-> b.app]

src == request.source
dst == request.dest

\* Binding b can read fs ...
Readable(fs, b) == Loads(fs[FileOf(b)], b.ns)

\* ... and this is its part of the file, none when it cannot ...
Entries(fs, b) ==
    IF Readable(fs, b) THEN Section(Loaded(fs[FileOf(b)]), b.ns) ELSE EmptyStore

\* ... of which names() and get() answer these.
NamesIn(fs, b) == DOMAIN Entries(fs, b)
ValueIn(fs, b, n) ==
    IF n \in NamesIn(fs, b) THEN normalize_secret_value(Entries(fs, b)[n]) ELSE None

\* A write of file f that does not raise, and the files it leaves.
Accepted(f, op) ==
    /\ Loads(files[f], op.ns)
    /\ Writes(op, Loaded(files[f])) => serialize_store(Apply(op, Loaded(files[f])))

Written(f, op) ==
    IF Writes(op, Loaded(files[f]))
    THEN [files EXCEPT ![f] = Apply(op, Loaded(@))] ELSE files

SetOp(n)   == [kind |-> "set", ns |-> dst.ns, name |-> n, value |-> stored[n]]
UnsetOp(n) == [kind |-> "unset", ns |-> src.ns, name |-> n]

-----------------------------------------------------------------------------
(* The tests migrate_to makes on its two bindings *)

is_same_backend == src.backend = dst.backend
is_same_file == is_same_backend /\ src.app = dst.app
has_layout_conflict == is_same_file /\ (src.ns = None) # (dst.ns = None)

Illegal ==
    \/ is_same_file /\ src.ns = dst.ns
    \/ has_layout_conflict /\ src.ns # None

NoResult == [migrated |-> 0, overwritten |-> 0, moved |-> FALSE]

Init ==
    /\ files \in InitFiles
    /\ request \in Migrations
    /\ pc = "start"
    /\ source_names = {} /\ todo = {} /\ existing = {}
    /\ stored = EmptyStore
    /\ result = NoResult
    /\ initial = files
    /\ attempts = 0 /\ writes = 0 /\ faults = 0

\* The loop that starts at position p visits the names S.
Loop(p, S) == pc' = p /\ todo' = S

\* A call raised: migrate_to ends there, its locals gone.
Raises ==
    /\ pc' = "failed"
    /\ source_names' = {} /\ todo' = {} /\ existing' = {}
    /\ stored' = EmptyStore
    /\ UNCHANGED result

-----------------------------------------------------------------------------
(* Reading the source *)

Reject ==
    /\ pc = "start"
    /\ Illegal
    /\ pc' = "rejected"
    /\ UNCHANGED <<files, request, locals, initial, counts>>

ReadNames ==
    /\ pc = "start"
    /\ ~Illegal
    /\ attempts < MaxAttempts
    /\ attempts' = attempts + 1
    /\ IF Readable(files, src)
       THEN /\ source_names' = NamesIn(files, src)
            /\ Loop("read", NamesIn(files, src))
            /\ UNCHANGED <<stored, existing, result>>
       ELSE Raises
    /\ UNCHANGED <<files, request, initial, writes, faults>>

\* get one name; a blank value reads as None and is not kept.
ReadValue ==
    /\ pc = "read"
    /\ \E n \in todo :
         IF Readable(files, src)
         THEN /\ todo' = todo \ {n}
              /\ stored' = IF ValueIn(files, src, n) = None THEN stored
                           ELSE Put(stored, n, ValueIn(files, src, n))
              /\ UNCHANGED <<pc, source_names, existing, result>>
         ELSE Raises
    /\ UNCHANGED <<files, request, initial, counts>>

\* Mutant: a conversion clears only the names it got a value for.
StartClearOfStored ==
    /\ pc = "read" /\ todo = {}
    /\ has_layout_conflict
    /\ Loop("clear", DOMAIN stored)
    /\ UNCHANGED <<files, request, source_names, stored, existing, result, initial, counts>>

\* Same file, flat to namespaced: clear the source first, by its full key list ...
StartClear ==
    /\ pc = "read" /\ todo = {}
    /\ has_layout_conflict
    /\ Loop("clear", source_names)
    /\ UNCHANGED <<files, request, source_names, stored, existing, result, initial, counts>>

\* Mutant: the source is cleared first in every migration.
ClearsFirst ==
    /\ pc = "read" /\ todo = {}
    /\ ~has_layout_conflict /\ Readable(files, dst)
    /\ existing' = NamesIn(files, dst)
    /\ Loop("clear", source_names)
    /\ UNCHANGED <<files, request, source_names, stored, result, initial, counts>>

\* ... otherwise the destination's names are read, and it is written first.
ReadExisting ==
    /\ pc = "read" /\ todo = {}
    /\ ~has_layout_conflict
    /\ IF Readable(files, dst)
       THEN /\ existing' = NamesIn(files, dst)
            /\ Loop("write", DOMAIN stored)
            /\ UNCHANGED <<source_names, stored, result>>
       ELSE Raises
    /\ UNCHANGED <<files, request, initial, counts>>

-----------------------------------------------------------------------------
(* Writing the destination and removing the source *)

\* self.unset(name), in the loop that clears and in the one that removes.
Remove ==
    /\ pc \in {"clear", "remove"}
    /\ \E n \in todo :
         IF Accepted(FileOf(src), UnsetOp(n))
         THEN /\ files' = Written(FileOf(src), UnsetOp(n))
              /\ todo' = todo \ {n}
              /\ UNCHANGED <<pc, source_names, stored, existing, result>>
         ELSE Raises /\ UNCHANGED files
    /\ UNCHANGED <<request, initial, counts>>

EndClear ==
    /\ pc = "clear" /\ todo = {}
    /\ Loop("write", DOMAIN stored)
    /\ UNCHANGED <<files, request, source_names, stored, existing, result, initial, counts>>

\* dest.set(name, value=value): Credentials.set refuses a blank name.
Write ==
    /\ pc = "write"
    /\ \E n \in todo :
         IF n \notin BlankNames /\ Accepted(FileOf(dst), SetOp(n))
         THEN /\ files' = Written(FileOf(dst), SetOp(n))
              /\ todo' = todo \ {n}
              /\ UNCHANGED <<pc, source_names, stored, existing, result>>
         ELSE Raises /\ UNCHANGED files
    /\ UNCHANGED <<request, initial, counts>>

\* Mutant: the source is removed although only a copy was asked for.
StartRemoveAlways ==
    /\ pc = "write" /\ todo = {}
    /\ ~has_layout_conflict
    /\ Loop("remove", source_names)
    /\ UNCHANGED <<files, request, source_names, stored, existing, result, initial, counts>>

\* Mutant: only the names it got a value for are removed.
StartRemoveOfStored ==
    /\ pc = "write" /\ todo = {}
    /\ ~has_layout_conflict /\ request.remove_source
    /\ Loop("remove", DOMAIN stored)
    /\ UNCHANGED <<files, request, source_names, stored, existing, result, initial, counts>>

StartRemove ==
    /\ pc = "write" /\ todo = {}
    /\ ~has_layout_conflict /\ request.remove_source
    /\ Loop("remove", source_names)
    /\ UNCHANGED <<files, request, source_names, stored, existing, result, initial, counts>>

moved == has_layout_conflict \/ request.remove_source

\* Mutant: overwritten counts what the destination holds at the end.
FinishCountsLate ==
    /\ todo = {}
    /\ pc = (IF request.remove_source /\ ~has_layout_conflict THEN "remove" ELSE "write")
    /\ result' = [migrated |-> Cardinality(DOMAIN stored),
                  overwritten |-> Cardinality(DOMAIN stored \cap NamesIn(files, dst)),
                  moved |-> moved]
    /\ pc' = "done"
    /\ UNCHANGED <<files, request, source_names, todo, stored, existing, initial, counts>>

Finish ==
    /\ todo = {}
    /\ pc = (IF request.remove_source /\ ~has_layout_conflict THEN "remove" ELSE "write")
    /\ result' = [migrated |-> Cardinality(DOMAIN stored),
                  overwritten |-> Cardinality(DOMAIN stored \cap existing),
                  moved |-> moved]
    /\ pc' = "done"
    /\ UNCHANGED <<files, request, source_names, todo, stored, existing, initial, counts>>

-----------------------------------------------------------------------------
(* Failures, the caller's retry, and the sibling components *)

\* The write a failing call of the current loop had begun, for name n.
Pending(n) ==
    IF pc = "write" THEN Written(FileOf(dst), SetOp(n)) ELSE Written(FileOf(src), UnsetOp(n))

\* A call fails or the process dies.  The write it was in may be in place, as
\* FileStore shows, when the file could be written at all.
Fails ==
    /\ pc \in {"start", "read", "clear", "write", "remove"}
    /\ faults < MaxFaults /\ faults' = faults + 1
    /\ Raises
    /\ \/ files' = files
       \/ /\ pc \in {"clear", "write", "remove"}
          /\ \E n \in todo :
               /\ IF pc = "write" THEN n \notin BlankNames /\ Accepted(FileOf(dst), SetOp(n))
                  ELSE Accepted(FileOf(src), UnsetOp(n))
               /\ files' = Pending(n)
    /\ UNCHANGED <<request, initial, attempts, writes>>

Retry ==
    /\ pc = "failed"
    /\ attempts < MaxAttempts
    /\ pc' = "start"
    /\ UNCHANGED <<files, request, locals, initial, counts>>

\* Another component of a namespaced application writes its own section.
Sibling ==
    /\ writes < MaxSibling /\ writes' = writes + 1
    /\ \E s \in SiblingOps :
         /\ s.op.ns # None
         /\ \A b \in {src, dst} : FileOf(b) = s.at => b.ns # s.op.ns
         /\ files[s.at] \in NestedStore \ {EmptyStore}
         /\ Accepted(s.at, s.op)
         /\ files' = Written(s.at, s.op)
    /\ UNCHANGED <<request, pc, locals, initial, attempts, faults>>

Next == \/ Reject \/ ReadNames \/ ReadValue \/ StartClear \/ ReadExisting
        \/ Remove \/ EndClear \/ Write \/ StartRemove \/ Finish
        \/ Fails \/ Retry \/ Sibling

Spec == Init /\ [][Next]_mvars

-----------------------------------------------------------------------------
(* Properties *)

\* The value the source had for n before the first attempt, None when it had none.
Original(n) == ValueIn(initial, src, n)
Secrets == {n \in Name : Original(n) # None}

Places(n) == {ValueIn(files, src, n), ValueIn(files, dst, n)}

\* Every secret of the source is at all times in the source or in the destination,
\* through failures, crashes and retries; a conversion of layout, which clears its
\* source first, may instead hold it in memory, until a fault (Credentials.migrate_to).
NothingLost ==
    \A n \in Secrets :
        \/ Original(n) \in Places(n)
        \/ has_layout_conflict /\ n \in DOMAIN stored /\ Original(n) = stored[n]
        \/ has_layout_conflict /\ faults > 0

\* A move that reports its result has emptied the source, blank values included, and
\* put every secret in the destination, also those of attempts that failed.
MoveComplete ==
    pc = "done" /\ moved =>
        /\ NamesIn(files, src) = {}
        /\ ~has_layout_conflict \/ faults = 0
             => \A n \in Secrets : ValueIn(files, dst, n) = Original(n)

\* A copy never changes the source's scope, nor does a request that is refused: the
\* source stays readable and holds what it held.
CopyKeepsSource ==
    ~moved \/ Illegal =>
        /\ Readable(initial, src) => Readable(files, src)
        /\ Entries(files, src) = Entries(initial, src)

\* The MigrationResult counts the secrets that landed and those that replaced a name
\* the destination had.
ResultTruthful ==
    pc = "done" /\ attempts = 1 =>
        /\ result.migrated = Cardinality(Secrets)
        /\ result.overwritten = Cardinality(Secrets \cap NamesIn(initial, dst))

\* With no fault, a legal migration between two stores that can be read completes: it
\* never gives up half way through (Credentials.migrate_to's Raises clause).
LegalMigrationCompletes ==
    pc = "failed" /\ faults = 0 =>
        ~Readable(initial, src) \/ (~has_layout_conflict /\ ~Readable(initial, dst))
=============================================================================
