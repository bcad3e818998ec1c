---------------------------- MODULE Migrate_proofs ----------------------------
(***************************************************************************)
(* What a migration keeps, for any stores, names, siblings and faults:     *)
(* nothing is lost, a move is complete, a copy leaves its source alone,    *)
(* the result it reports is the truth, and with no fault it completes.     *)
(***************************************************************************)
EXTENDS Migrate, StoreContentLemmas

\* The source's and the destination's part of the files, now and at first ...
SE == Entries(files, src)
DE == Entries(files, dst)
IE == Entries(initial, src)
ID == Entries(initial, dst)

\* ... and whether they could be read.
SourceReads == Readable(files, src)
DestReads   == Readable(files, dst)
SourceRead  == Readable(initial, src)
DestRead    == Readable(initial, dst)

\* No migration has the plain file backend at one end and, for the same app, the
\* keyring's fallback at the other: they are one file (see the run migrate_alias).
NoAlias ==
    \A m \in Migrations :
        FileOf(m.source) = FileOf(m.dest) => m.source.backend = m.dest.backend

\* Every name a store file holds can be set, and every value be encoded (see the
\* run migrate_blank).
Tame == BlankNames = {} /\ Unencodable = {}

Running == pc \in {"read", "clear", "write", "remove", "done"}
Idle    == pc \in {"start", "failed", "rejected"}

\* The first attempt, or before it.
Fresh == attempts = 0 \/ (attempts = 1 /\ pc \notin {"failed", "start"})

\* No conversion has been broken off.
Intact == ~has_layout_conflict \/ Fresh \/ (faults = 0 /\ Tame)

MTypeOK ==
    /\ files \in [File -> Content] /\ initial \in [File -> Content]
    /\ request \in Migrations
    /\ pc \in {"start", "read", "clear", "write", "remove", "done", "failed", "rejected"}
    /\ source_names \subseteq Name /\ todo \subseteq Name /\ existing \subseteq Name
    /\ stored \in FlatStore
    /\ attempts \in Nat /\ writes \in Nat /\ faults \in Nat

\* Where the migration can be.
Control ==
    /\ Illegal => attempts = 0 /\ Idle
    /\ Running => attempts > 0
    /\ pc = "clear" => has_layout_conflict
    /\ pc = "remove" => ~has_layout_conflict /\ request.remove_source
    /\ Idle => stored = EmptyStore /\ existing = {}
    /\ has_layout_conflict => existing = {}

\* What it can still read.
Access ==
    /\ ~has_layout_conflict =>
         /\ SourceRead => SourceReads
         /\ DestRead => DestReads
    /\ pc \in {"read", "clear"} => SourceReads
    /\ has_layout_conflict /\ pc = "write" => DestReads
    /\ has_layout_conflict /\ Intact /\ Idle =>
         (SourceRead => SourceReads)

\* What the loops have still to visit.
Loops ==
    /\ pc \in {"read", "remove"} => todo \subseteq source_names
    /\ pc = "read" \/ (pc = "write" /\ ~has_layout_conflict) => source_names = DOMAIN SE
    /\ pc \in {"clear", "remove"} => DOMAIN SE \subseteq todo
    /\ has_layout_conflict /\ pc \in {"write", "done"} => DOMAIN SE = {}
    /\ pc = "write" => todo \subseteq DOMAIN stored
    /\ pc = "done" /\ moved => DOMAIN SE = {}

\* What is left in the source is what it held ...
Kept ==
    /\ Intact => /\ DOMAIN SE \subseteq DOMAIN IE
                 /\ \A n \in DOMAIN SE : SE[n] = IE[n]
    /\ ~moved \/ Illegal => SE = IE
    /\ has_layout_conflict /\ Intact /\ (Idle \/ pc = "read") => SE = IE

\* ... and what is gone from it is in the destination.
Arrived ==
    ~has_layout_conflict =>
        \A n \in DOMAIN IE \ DOMAIN SE :
            Stripped[IE[n]] # None =>
                n \in DOMAIN DE /\ Stripped[DE[n]] = Stripped[IE[n]]

\* The names whose value has been read.
Visited == IF pc = "read" THEN source_names \ todo ELSE source_names

\* What the migration remembers of the source ...
Remembered ==
    Intact /\ Running =>
        /\ source_names \subseteq DOMAIN IE
        /\ has_layout_conflict => source_names = DOMAIN IE
        /\ DOMAIN stored = {n \in Visited : Stripped[IE[n]] # None}
        /\ \A n \in DOMAIN stored : stored[n] = Stripped[IE[n]]

\* ... and what of it the destination has.
Landed ==
    pc \in {"write", "remove", "done"} =>
        \A n \in DOMAIN stored \ (IF pc = "write" THEN todo ELSE {}) :
            n \in DOMAIN DE /\ DE[n] = stored[n]

\* Nothing has changed before the first attempt writes.
Untouched ==
    Fresh =>
        /\ Idle \/ pc = "read" => SE = IE /\ DE = ID
        /\ Running => source_names = DOMAIN IE
        /\ ~has_layout_conflict /\ pc \in {"write", "remove", "done"} => existing = DOMAIN ID

Reported ==
    pc = "done" =>
        /\ result.migrated = Cardinality(DOMAIN stored)
        /\ result.overwritten = Cardinality(DOMAIN stored \cap existing)

\* With no fault only an unreadable store stops it.
Unstopped ==
    Tame /\ faults = 0 /\ SourceRead
      /\ (has_layout_conflict \/ DestRead) => pc # "failed"

MInv == /\ MTypeOK /\ Control /\ Access /\ Loops /\ Kept /\ Arrived
        /\ Remembered /\ Landed /\ Untouched /\ Reported /\ Unstopped

-----------------------------------------------------------------------------
(* What one write does to what the two ends hold *)

\* The bindings of a migration, and the file each reads.
LEMMA Ends ==
    ASSUME MigrateAssumption, MTypeOK
    PROVE  /\ src \in Binding /\ dst \in Binding
           /\ src.ns \in Scope /\ dst.ns \in Scope
           /\ \A b \in Binding : FileOf(b) \in File
  BY DEF MigrateAssumption, MTypeOK, src, dst, Binding, FileOf, File

\* What a binding reads of any files is a flat map.
LEMMA EntriesFlat ==
    ASSUME NEW fs, NEW b \in Binding
    PROVE  Entries(fs, b) \in FlatStore
  <1>1. b.ns \in Scope
    BY DEF Binding
  <1>2. QED BY <1>1, LoadedParses, SectionFlat, EmptyStoreFits DEF Entries, Readable

\* A flat binding finds nothing in a file that reads as a namespaced one.
LEMMA FlatSeesNoSections ==
    ASSUME ContentAssumption, NEW fs, NEW b \in Binding, b.ns = None,
           fs[FileOf(b)] \in NestedStore \cup {Absent}
    PROVE  Entries(fs, b) = EmptyStore
  <1>1. Readable(fs, b) => Loaded(fs[FileOf(b)]) = EmptyStore
    BY OnlyEmptyFitsBoth DEF Readable, Loads, parse_store, Loaded
  <1>2. QED BY <1>1 DEF Entries, Section

\* The files after an accepted write, and the sections of the file it wrote.
LEMMA WrittenFile ==
    ASSUME ContentAssumption, files \in [File -> Content], NEW f \in File,
           NEW op \in Op, IsWrite(op), Accepted(f, op)
    PROVE  LET new == Loaded(Written(f, op)[f])
               old == Loaded(files[f])
           IN  /\ Written(f, op) \in [File -> Content]
               /\ \A g \in File \ {f} : Written(f, op)[g] = files[g]
               /\ Loads(Written(f, op)[f], op.ns)
               /\ Section(new, op.ns)
                    = IF op.kind = "set" THEN Put(Section(old, op.ns), op.name, op.value)
                      ELSE Drop(Section(old, op.ns), op.name)
               /\ op.ns # None => \A ns \in Namespace \ {op.ns} :
                                     ns # None => Section(new, ns) = Section(old, ns)
  <1> DEFINE old == Loaded(files[f])
  <1>1. op.ns \in Scope /\ op.kind \in {"set", "unset"}
    BY DEF Op, IsWrite
  <1>2. Loads(files[f], op.ns) /\ parse_store(old, op.ns)
    BY <1>1, LoadedParses DEF Accepted
  <1>3. Section(old, op.ns) \in FlatStore
    BY <1>1, <1>2, SectionFlat
  <1>4. CASE Writes(op, old)
    <2>1. Written(f, op) = [files EXCEPT ![f] = Apply(op, old)]
      BY <1>4 DEF Written
    <2>2. parse_store(Apply(op, old), op.ns) /\ Apply(op, old) \in Store
      BY <1>2, ApplyKeepsLayout
    <2>3. Written(f, op)[f] = Apply(op, old) /\ Loaded(Written(f, op)[f]) = Apply(op, old)
      BY <2>1, <2>2 DEF Loaded, ContentAssumption
    <2>4. Section(Apply(op, old), op.ns)
            = IF op.kind = "set" THEN Put(Section(old, op.ns), op.name, op.value)
              ELSE Drop(Section(old, op.ns), op.name)
      BY <1>2, SectionOfApply
    <2>5. op.ns # None => \A ns \in Namespace \ {op.ns} :
                            ns # None => Section(Apply(op, old), ns) = Section(old, ns)
      BY OtherSectionsOfApply
    <2>6. Written(f, op) \in [File -> Content] /\ \A g \in File \ {f} : Written(f, op)[g] = files[g]
      BY <2>1, <2>2 DEF Content
    <2>7. Loads(Written(f, op)[f], op.ns)
      BY <2>2, <2>3 DEF Loads
    <2>8. QED BY <2>3, <2>4, <2>5, <2>6, <2>7
  <1>5. CASE ~Writes(op, old)
    <2>1. Written(f, op) = files
      BY <1>5 DEF Written
    <2>2. op.kind # "set" /\ op.name \notin DOMAIN Section(old, op.ns)
      BY <1>1, <1>5 DEF Writes, NamesOf
    <2>3. Drop(Section(old, op.ns), op.name) = Section(old, op.ns)
      BY <1>3, <2>2, DropAbsent
    <2>4. QED BY <1>2, <2>1, <2>2, <2>3
  <1>6. QED BY <1>4, <1>5

\* A write into scope ns of a file, seen from binding b: its own scope changes as the
\* write says, any other is as it was.
LEMMA WriteSeenFrom ==
    ASSUME ContentAssumption, files \in [File -> Content], NEW f \in File,
           NEW op \in Op, IsWrite(op), Accepted(f, op), files' = Written(f, op),
           NEW b \in Binding, FileOf(b) \in File
    PROVE  /\ files' \in [File -> Content]
           /\ FileOf(b) # f => /\ Readable(files', b) <=> Readable(files, b)
                               /\ Entries(files', b) = Entries(files, b)
           /\ FileOf(b) = f /\ b.ns = op.ns =>
                /\ Readable(files', b)
                /\ Entries(files', b)
                     = IF op.kind = "set" THEN Put(Entries(files, b), op.name, op.value)
                       ELSE Drop(Entries(files, b), op.name)
           /\ FileOf(b) = f /\ b.ns # op.ns /\ op.ns # None =>
                /\ b.ns # None => Readable(files', b)
                /\ Entries(files', b) = Entries(files, b)
  <1>1. PICK fs : fs = Written(f, op)
    OBVIOUS
  <1>2. /\ fs \in [File -> Content]
        /\ \A g \in File \ {f} : fs[g] = files[g]
        /\ Loads(fs[f], op.ns)
        /\ Section(Loaded(fs[f]), op.ns)
             = IF op.kind = "set" THEN Put(Section(Loaded(files[f]), op.ns), op.name, op.value)
               ELSE Drop(Section(Loaded(files[f]), op.ns), op.name)
        /\ op.ns # None => \A ns \in Namespace \ {op.ns} :
               ns # None => Section(Loaded(fs[f]), ns) = Section(Loaded(files[f]), ns)
    BY <1>1, WrittenFile
  <1>3. files' = fs
    BY <1>1
  <1>4. Loads(files[f], op.ns)
    BY DEF Accepted
  <1>5. FileOf(b) # f => /\ Readable(fs, b) <=> Readable(files, b)
                         /\ Entries(fs, b) = Entries(files, b)
    BY <1>2 DEF Readable, Entries
  <1>6. FileOf(b) = f /\ b.ns = op.ns =>
          /\ Readable(fs, b)
          /\ Entries(fs, b)
               = IF op.kind = "set" THEN Put(Entries(files, b), op.name, op.value)
                 ELSE Drop(Entries(files, b), op.name)
    BY <1>2, <1>4 DEF Readable, Entries
  <1>7. ASSUME FileOf(b) = f, b.ns # op.ns, op.ns # None, b.ns # None
        PROVE  Readable(fs, b) /\ Entries(fs, b) = Entries(files, b)
    <2>1. b.ns \in Namespace
      BY <1>7 DEF Binding, Scope
    <2>2. Readable(fs, b) /\ Readable(files, b)
      BY <1>2, <1>4, <1>7 DEF Readable, Loads, parse_store
    <2>3. Section(Loaded(fs[f]), b.ns) = Section(Loaded(files[f]), b.ns)
      BY <1>2, <1>7, <2>1
    <2>4. QED BY <1>7, <2>2, <2>3 DEF Entries
  <1>8. ASSUME FileOf(b) = f, op.ns # None, b.ns = None
        PROVE  Entries(fs, b) = Entries(files, b)
    <2>1. fs[f] \in NestedStore \cup {Absent} /\ files[f] \in NestedStore \cup {Absent}
      BY <1>2, <1>4, <1>8 DEF Loads, parse_store
    <2>2. Entries(fs, b) = EmptyStore /\ Entries(files, b) = EmptyStore
      BY <1>8, <2>1, FlatSeesNoSections
    <2>3. QED BY <2>2
  <1>9. QED BY <1>2, <1>3, <1>5, <1>6, <1>7, <1>8

\* The two ends share a file only as namespaces of it, or in a conversion of layout.
LEMMA Apart ==
    ASSUME NoAlias, MTypeOK, ~Illegal
    PROVE  /\ has_layout_conflict =>
                FileOf(src) = FileOf(dst) /\ src.ns = None /\ dst.ns # None
           /\ ~has_layout_conflict /\ FileOf(src) = FileOf(dst) =>
                src.ns # None /\ dst.ns # None /\ src.ns # dst.ns
  <1>1. FileOf(src) = FileOf(dst) => src.backend = dst.backend /\ src.app = dst.app
    BY DEF NoAlias, MTypeOK, src, dst, FileOf
  <1>2. src.backend = dst.backend /\ src.app = dst.app => FileOf(src) = FileOf(dst)
    BY DEF FileOf
  <1>3. QED
    BY <1>1, <1>2 DEF Illegal, has_layout_conflict, is_same_file, is_same_backend

\* dest.set puts one secret in the destination and leaves the source's part alone.
LEMMA SetEffect ==
    ASSUME NoAlias, ContentAssumption, MigrateAssumption, MTypeOK, ~Illegal, request' = request,
           NEW n \in DOMAIN stored, Accepted(FileOf(dst), SetOp(n)),
           files' = Written(FileOf(dst), SetOp(n))
    PROVE  /\ files' \in [File -> Content]
           /\ DestReads' /\ DE' = Put(DE, n, stored[n])
           /\ SE' = SE /\ (~has_layout_conflict /\ SourceReads => SourceReads')
  <1>1. /\ src \in Binding /\ dst \in Binding /\ dst.ns \in Scope
        /\ FileOf(src) \in File /\ FileOf(dst) \in File
    BY Ends
  <1>2. n \in Name /\ stored[n] \in Value
    BY FlatStoreChar DEF MTypeOK
  <1>3. PICK op : op = SetOp(n)
    OBVIOUS
  <1>4. /\ op \in Op /\ IsWrite(op) /\ op.ns = dst.ns
        /\ op.kind = "set" /\ op.name = n /\ op.value = stored[n]
    BY <1>1, <1>2, <1>3 DEF SetOp, Op, IsWrite
  <1>5. files \in [File -> Content] /\ Accepted(FileOf(dst), op) /\ files' = Written(FileOf(dst), op)
    BY <1>3 DEF MTypeOK
  <1>6. /\ files' \in [File -> Content]
        /\ Readable(files', dst)
        /\ Entries(files', dst) = Put(Entries(files, dst), n, stored[n])
    BY <1>1, <1>4, <1>5, WriteSeenFrom
  <1>7. /\ Entries(files', src) = Entries(files, src)
        /\ ~has_layout_conflict /\ Readable(files, src) => Readable(files', src)
    BY <1>1, <1>4, <1>5, WriteSeenFrom, Apart
  <1>8. src' = src /\ dst' = dst
    BY DEF src, dst
  <1>9. QED BY <1>6, <1>7, <1>8 DEF SE, DE, SourceReads, DestReads

\* self.unset takes one name from the source and leaves the destination's part alone,
\* but for a conversion, whose destination has no section yet.
LEMMA UnsetEffect ==
    ASSUME NoAlias, ContentAssumption, MigrateAssumption, MTypeOK, ~Illegal, request' = request,
           NEW n \in Name, Accepted(FileOf(src), UnsetOp(n)),
           files' = Written(FileOf(src), UnsetOp(n))
    PROVE  /\ files' \in [File -> Content]
           /\ SourceReads' /\ SE' = Drop(SE, n)
           /\ ~has_layout_conflict => DE' = DE /\ (DestReads => DestReads')
  <1>1. /\ src \in Binding /\ dst \in Binding /\ src.ns \in Scope
        /\ FileOf(src) \in File /\ FileOf(dst) \in File
    BY Ends
  <1>3. PICK op : op = UnsetOp(n)
    OBVIOUS
  <1>4. /\ op \in Op /\ IsWrite(op) /\ op.ns = src.ns
        /\ op.kind = "unset" /\ op.name = n
    BY <1>1, <1>3 DEF UnsetOp, Op, IsWrite
  <1>5. files \in [File -> Content] /\ Accepted(FileOf(src), op) /\ files' = Written(FileOf(src), op)
    BY <1>3 DEF MTypeOK
  <1>6. /\ files' \in [File -> Content]
        /\ Readable(files', src)
        /\ Entries(files', src) = Drop(Entries(files, src), n)
    BY <1>1, <1>4, <1>5, WriteSeenFrom
  <1>7. ~has_layout_conflict =>
          /\ Entries(files', dst) = Entries(files, dst)
          /\ Readable(files, dst) => Readable(files', dst)
    BY <1>1, <1>4, <1>5, WriteSeenFrom, Apart
  <1>8. src' = src /\ dst' = dst
    BY DEF src, dst
  <1>9. QED BY <1>6, <1>7, <1>8 DEF SE, DE, SourceReads, DestReads

\* A sibling's write leaves both ends' parts alone.
LEMMA SiblingEffect ==
    ASSUME ContentAssumption, MigrateAssumption, MTypeOK, Sibling
    PROVE  /\ files' \in [File -> Content]
           /\ SE' = SE /\ (SourceReads => SourceReads')
           /\ DE' = DE /\ (DestReads => DestReads')
  <1>1. /\ src \in Binding /\ dst \in Binding
        /\ FileOf(src) \in File /\ FileOf(dst) \in File
    BY Ends
  <1>2. PICK s \in SiblingOps :
          /\ s.op.ns # None
          /\ \A b \in {src, dst} : FileOf(b) = s.at => b.ns # s.op.ns
          /\ files[s.at] \in NestedStore \ {EmptyStore}
          /\ Accepted(s.at, s.op)
          /\ files' = Written(s.at, s.op)
    BY DEF Sibling
  <1>3. s.at \in File /\ s.op \in Op /\ IsWrite(s.op)
    BY DEF MigrateAssumption
  <1>4. files \in [File -> Content]
    BY DEF MTypeOK
  <1>5. ASSUME NEW b \in {src, dst}
        PROVE  /\ files' \in [File -> Content]
               /\ Entries(files', b) = Entries(files, b)
               /\ Readable(files, b) => Readable(files', b)
    <2>1. b \in Binding /\ FileOf(b) \in File
      BY <1>1
    <2>2. FileOf(b) = s.at /\ b.ns = None => ~Readable(files, b)
      BY <1>2, OnlyEmptyFitsBoth DEF Readable, Loads, parse_store, ContentAssumption, Store
    <2>3. QED BY <1>2, <1>3, <1>4, <2>1, <2>2, WriteSeenFrom
  <1>6. src' = src /\ dst' = dst
    BY DEF Sibling, src, dst
  <1>7. QED BY <1>5, <1>6 DEF SE, DE, SourceReads, DestReads

-----------------------------------------------------------------------------
(* One step of the migration keeps the invariant *)
\* What no step of the migration changes.
LEMMA Fixed ==
    ASSUME request' = request, initial' = initial
    PROVE  /\ has_layout_conflict' = has_layout_conflict
           /\ Illegal' = Illegal /\ moved' = moved
           /\ IE' = IE /\ ID' = ID /\ SourceRead' = SourceRead /\ DestRead' = DestRead
           /\ files' = files =>
                /\ SE' = SE /\ DE' = DE
                /\ SourceReads' = SourceReads /\ DestReads' = DestReads
  <1>1. src' = src /\ dst' = dst
    BY DEF src, dst
  <1>2. /\ has_layout_conflict' = has_layout_conflict
        /\ Illegal' = Illegal /\ moved' = moved
    BY <1>1 DEF has_layout_conflict, is_same_file, is_same_backend, Illegal, moved
  <1>3. IE' = IE /\ ID' = ID /\ SourceRead' = SourceRead /\ DestRead' = DestRead
    BY <1>1 DEF IE, ID, SourceRead, DestRead
  <1>4. files' = files => /\ SE' = SE /\ DE' = DE
                         /\ SourceReads' = SourceReads /\ DestReads' = DestReads
    BY <1>1 DEF SE, DE, SourceReads, DestReads
  <1>5. QED BY <1>2, <1>3, <1>4

\* What the two ends hold are flat maps.
LEMMA EndsFlat ==
    ASSUME MigrateAssumption, MTypeOK
    PROVE  SE \in FlatStore /\ DE \in FlatStore /\ IE \in FlatStore /\ ID \in FlatStore
  BY Ends, EntriesFlat DEF SE, DE, IE, ID

\* The source's names and values.
LEMMA EndsValues ==
    ASSUME MigrateAssumption, ContentAssumption, MTypeOK
    PROVE  /\ DOMAIN SE \subseteq Name /\ DOMAIN DE \subseteq Name /\ DOMAIN IE \subseteq Name
           /\ \A n \in DOMAIN IE : /\ IE[n] \in Value
                                   /\ Stripped[IE[n]] \in Value \cup {None}
                                   /\ Stripped[IE[n]] # None =>
                                        Stripped[Stripped[IE[n]]] = Stripped[IE[n]]
           /\ \A n \in DOMAIN SE : SE[n] \in Value /\ Stripped[SE[n]] \in Value \cup {None}
  <1>1. /\ DOMAIN SE \subseteq Name /\ DOMAIN DE \subseteq Name /\ DOMAIN IE \subseteq Name
        /\ \A n \in DOMAIN IE : IE[n] \in Value
        /\ \A n \in DOMAIN SE : SE[n] \in Value
    BY EndsFlat, FlatStoreChar
  <1>2. \A x \in Value : /\ Stripped[x] \in Value \cup {None}
                         /\ Stripped[x] # None => Stripped[Stripped[x]] = Stripped[x]
    BY DEF ContentAssumption
  <1>3. QED BY <1>1, <1>2

\* A conversion that has cleared its source can write the namespace.
LEMMA ClearedReads ==
    ASSUME ContentAssumption, MigrateAssumption, MTypeOK, NoAlias, ~Illegal, has_layout_conflict,
           SourceReads, DOMAIN SE = {}
    PROVE  DestReads
  <1>1. FileOf(src) = FileOf(dst) /\ src.ns = None /\ dst.ns # None
    BY Apart
  <1>2. SE = EmptyStore
    BY EndsFlat, NoKeys
  <1>3. Loaded(files[FileOf(src)]) = EmptyStore
    BY <1>1, <1>2 DEF SE, SourceReads, Entries, Section
  <1>4. files[FileOf(src)] \in {Absent, EmptyStore}
    BY <1>3 DEF Loaded
  <1>5. QED BY <1>1, <1>4, EmptyStoreFits DEF DestReads, Readable, Loads, parse_store

LEMMA RejectKeeps ==
    ASSUME MInv, Reject
    PROVE  MInv'
<1> USE DEF locals, counts, Idle, Running, Fresh, Intact
<1>1. /\ pc = "start" /\ pc' = "rejected" /\ Illegal
      /\ UNCHANGED <<files, request, locals, initial, counts>>
  BY DEF Reject
<1>2. MTypeOK' /\ Control' /\ Access'
  BY <1>1, Fixed DEF MInv, MTypeOK, Control, Access
<1>3. Loops' /\ Kept' /\ Arrived'
  BY <1>1, Fixed DEF MInv, Loops, Kept, Arrived
<1>4. Remembered' /\ Landed' /\ Untouched' /\ Reported' /\ Unstopped'
  BY <1>1, Fixed DEF MInv, Control, Remembered, Landed, Untouched, Reported, Unstopped
<1>5. QED BY <1>2, <1>3, <1>4 DEF MInv

LEMMA ReadNamesKeeps ==
    ASSUME MigrateAssumption, ContentAssumption, MInv, ReadNames
    PROVE  MInv'
<1> USE DEF locals, counts, Idle, Running, Fresh, Intact, Visited
<1>1. /\ pc = "start" /\ ~Illegal /\ attempts' = attempts + 1
      /\ UNCHANGED <<files, request, initial, writes, faults>>
      /\ \/ /\ SourceReads /\ pc' = "read"
            /\ source_names' = DOMAIN SE /\ todo' = DOMAIN SE
            /\ stored' = stored /\ existing' = existing
         \/ /\ ~SourceReads /\ pc' = "failed"
            /\ source_names' = {} /\ todo' = {} /\ existing' = {} /\ stored' = EmptyStore
  BY DEF ReadNames, SourceReads, SE, NamesIn, Loop, Raises
<1>2. /\ stored = EmptyStore /\ existing = {} /\ stored' = EmptyStore /\ DOMAIN EmptyStore = {}
      /\ EmptyStore \in FlatStore
  BY <1>1, EmptyStoreFits DEF MInv, Control, EmptyStore
<1>3. MTypeOK' /\ Control'
  BY <1>1, <1>2, Fixed, EndsValues DEF MInv, MTypeOK, Control
<1>4. Access' /\ Loops'
  BY <1>1, <1>2, Fixed DEF MInv, MTypeOK, Access, Control, Loops
<1>5. Kept' /\ Arrived' /\ Landed' /\ Reported'
  BY <1>1, Fixed DEF MInv, MTypeOK, Kept, Arrived, Landed, Reported
<1>6. Remembered' /\ Untouched'
  BY <1>1, <1>2, Fixed DEF MInv, MTypeOK, Kept, Untouched, Remembered
<1>7. Unstopped'
  BY <1>1, Fixed DEF MInv, MTypeOK, Access, Unstopped, Tame
<1>8. QED BY <1>3, <1>4, <1>5, <1>6, <1>7 DEF MInv

LEMMA ReadValueKeeps ==
    ASSUME MigrateAssumption, ContentAssumption, MInv, ReadValue
    PROVE  MInv'
<1> USE DEF locals, counts, Idle, Running, Fresh, Intact
<1>1. PICK n \in todo :
        /\ pc = "read" /\ pc' = pc /\ todo' = todo \ {n}
        /\ stored' = IF Stripped[SE[n]] = None THEN stored ELSE Put(stored, n, Stripped[SE[n]])
        /\ UNCHANGED <<files, request, source_names, existing, initial, counts>>
  BY DEF ReadValue, MInv, Access, SourceReads, Loops, SE, NamesIn, ValueIn, normalize_secret_value
<1>2. n \in DOMAIN SE /\ n \in Name /\ Stripped[SE[n]] \in Value \cup {None}
  BY <1>1, EndsValues DEF MInv, Loops
<1>3. stored' \in FlatStore
  BY <1>1, <1>2, FlatUpdates DEF MInv, MTypeOK
<1>4. MTypeOK' /\ Control'
  BY <1>1, <1>3, Fixed DEF MInv, MTypeOK, Control
<1>5. Access' /\ Loops' /\ Kept'
  BY <1>1, Fixed DEF MInv, Access, Loops, Kept
<1>6. Arrived' /\ Landed' /\ Reported' /\ Untouched' /\ Unstopped'
  BY <1>1, Fixed DEF MInv, Arrived, Landed, Reported, Untouched, Unstopped
<1>7. Remembered'
  <2> SUFFICES ASSUME Intact'
               PROVE  Remembered'
    BY DEF Remembered
  <2>1. Intact /\ SE[n] = IE[n]
    BY <1>1, <1>2, Fixed DEF MInv, Kept
  <2>2. DOMAIN stored = {m \in source_names \ todo : Stripped[IE[m]] # None}
    BY <1>1, <2>1 DEF MInv, Remembered, Visited
  <2>3. /\ DOMAIN stored' = {m \in source_names' \ todo' : Stripped[IE[m]] # None}
        /\ \A m \in DOMAIN stored' : stored'[m] = Stripped[IE[m]]
    BY <1>1, <1>2, <2>1, <2>2 DEF Put, MInv, Loops, Remembered
  <2>4. QED BY <1>1, <2>1, <2>3, Fixed DEF MInv, Remembered, Visited
<1>8. QED BY <1>4, <1>5, <1>6, <1>7 DEF MInv

LEMMA StartClearKeeps ==
    ASSUME MInv, StartClear
    PROVE  MInv'
<1> USE DEF locals, counts, Idle, Running, Fresh, Intact, Visited
<1>1. /\ pc = "read" /\ todo = {} /\ has_layout_conflict
      /\ pc' = "clear" /\ todo' = source_names
      /\ UNCHANGED <<files, request, source_names, stored, existing, result, initial, counts>>
  BY DEF StartClear, Loop
<1>2. MTypeOK' /\ Control' /\ Access' /\ Loops'
  BY <1>1, Fixed DEF MInv, MTypeOK, Control, Access, Loops
<1>3. Kept' /\ Arrived' /\ Remembered' /\ Landed'
  BY <1>1, Fixed DEF MInv, Kept, Arrived, Remembered, Landed
<1>4. Untouched' /\ Reported' /\ Unstopped'
  BY <1>1, Fixed DEF MInv, Untouched, Reported, Unstopped
<1>5. QED BY <1>2, <1>3, <1>4 DEF MInv

LEMMA ReadExistingKeeps ==
    ASSUME MigrateAssumption, ContentAssumption, MInv, ReadExisting
    PROVE  MInv'
<1> USE DEF locals, counts, Idle, Running, Fresh, Intact, Visited
<1>1. /\ pc = "read" /\ todo = {} /\ ~has_layout_conflict
      /\ UNCHANGED <<files, request, initial, counts>>
      /\ \/ /\ DestReads /\ pc' = "write"
            /\ existing' = DOMAIN DE /\ todo' = DOMAIN stored
            /\ UNCHANGED <<source_names, stored>>
         \/ /\ ~DestReads /\ pc' = "failed"
            /\ source_names' = {} /\ todo' = {} /\ existing' = {} /\ stored' = EmptyStore
  BY DEF ReadExisting, DestReads, DE, NamesIn, Loop, Raises
<1>2. DOMAIN stored \subseteq Name
  BY FlatStoreChar DEF MInv, MTypeOK
<1>3. MTypeOK' /\ Control'
  BY <1>1, <1>2, Fixed, EndsValues, EmptyStoreFits DEF MInv, MTypeOK, Control
<1>4. Access' /\ Loops' /\ Kept'
  BY <1>1, Fixed DEF MInv, Access, Loops, Kept
<1>5. Arrived' /\ Landed'
  BY <1>1, Fixed DEF MInv, Arrived, Landed
<1>6. Remembered'
  BY <1>1, Fixed DEF MInv, Remembered
<1>7. Untouched' /\ Reported'
  BY <1>1, Fixed DEF MInv, MTypeOK, Control, Untouched, Reported
<1>8. Unstopped'
  BY <1>1, Fixed DEF MInv, Access, Unstopped, Tame
<1>9. QED BY <1>3, <1>4, <1>5, <1>6, <1>7, <1>8 DEF MInv

LEMMA EndClearKeeps ==
    ASSUME MigrateAssumption, ContentAssumption, NoAlias, MInv, EndClear
    PROVE  MInv'
<1> USE DEF locals, counts, Idle, Running, Fresh, Intact, Visited
<1>1. /\ pc = "clear" /\ todo = {}
      /\ pc' = "write" /\ todo' = DOMAIN stored
      /\ UNCHANGED <<files, request, source_names, stored, existing, result, initial, counts>>
  BY DEF EndClear, Loop
<1>2. DOMAIN stored \subseteq Name
  BY FlatStoreChar DEF MInv, MTypeOK
<1>3. has_layout_conflict /\ ~Illegal /\ DOMAIN SE = {} /\ DestReads
  BY <1>1, ClearedReads DEF MInv, Control, Access, Loops
<1>4. MTypeOK' /\ Control' /\ Access' /\ Loops'
  BY <1>1, <1>2, <1>3, Fixed DEF MInv, MTypeOK, Control, Access, Loops
<1>5. Kept' /\ Arrived' /\ Remembered' /\ Landed'
  BY <1>1, <1>3, Fixed DEF MInv, Kept, Arrived, Remembered, Landed
<1>6. Untouched' /\ Reported' /\ Unstopped'
  BY <1>1, <1>3, Fixed DEF MInv, Untouched, Reported, Unstopped
<1>7. QED BY <1>4, <1>5, <1>6 DEF MInv

LEMMA StartRemoveKeeps ==
    ASSUME MInv, StartRemove
    PROVE  MInv'
<1> USE DEF locals, counts, Idle, Running, Fresh, Intact, Visited
<1>1. /\ pc = "write" /\ todo = {} /\ ~has_layout_conflict /\ request.remove_source
      /\ pc' = "remove" /\ todo' = source_names
      /\ UNCHANGED <<files, request, source_names, stored, existing, result, initial, counts>>
  BY DEF StartRemove, Loop
<1>2. MTypeOK' /\ Control'
  BY <1>1, Fixed DEF MInv, MTypeOK, Control
<1>3. Access' /\ Loops'
  BY <1>1, Fixed DEF MInv, Access, Loops
<1>4. Kept' /\ Arrived' /\ Remembered' /\ Landed'
  BY <1>1, Fixed DEF MInv, Kept, Arrived, Remembered, Landed
<1>5. Untouched' /\ Reported' /\ Unstopped'
  BY <1>1, Fixed DEF MInv, Untouched, Reported, Unstopped
<1>6. QED BY <1>2, <1>3, <1>4, <1>5 DEF MInv

LEMMA FinishKeeps ==
    ASSUME MInv, Finish
    PROVE  MInv'
<1> USE DEF locals, counts, Idle, Running, Fresh, Intact, Visited
<1>1. /\ todo = {} /\ pc' = "done"
      /\ \/ pc = "remove" /\ ~has_layout_conflict
         \/ pc = "write" /\ ~has_layout_conflict /\ ~moved
         \/ pc = "write" /\ has_layout_conflict
      /\ result' = [migrated |-> Cardinality(DOMAIN stored),
                    overwritten |-> Cardinality(DOMAIN stored \cap existing),
                    moved |-> moved]
      /\ UNCHANGED <<files, request, source_names, todo, stored, existing, initial, counts>>
  BY DEF Finish, moved
<1>2. MTypeOK' /\ Control'
  BY <1>1, Fixed DEF MInv, MTypeOK, Control
<1>3. DOMAIN SE = {} \/ (~moved /\ ~has_layout_conflict)
  BY <1>1 DEF MInv, Loops
<1>4. Access' /\ Loops'
  BY <1>1, <1>3, Fixed DEF MInv, Access, Loops
<1>5. Kept' /\ Arrived' /\ Remembered' /\ Landed'
  BY <1>1, Fixed DEF MInv, Kept, Arrived, Remembered, Landed
<1>6. Untouched' /\ Reported' /\ Unstopped'
  BY <1>1, Fixed DEF MInv, Untouched, Reported, Unstopped
<1>7. QED BY <1>2, <1>4, <1>5, <1>6 DEF MInv

LEMMA RetryKeeps ==
    ASSUME MInv, Retry
    PROVE  MInv'
<1> USE DEF locals, counts, Idle, Running, Fresh, Intact
<1>1. /\ pc = "failed" /\ pc' = "start"
      /\ UNCHANGED <<files, request, locals, initial, counts>>
  BY DEF Retry
<1>2. MTypeOK' /\ Control' /\ Access' /\ Loops'
  BY <1>1, Fixed DEF MInv, MTypeOK, Control, Access, Loops
<1>3. Kept' /\ Arrived' /\ Remembered' /\ Landed'
  BY <1>1, Fixed DEF MInv, Kept, Arrived, Remembered, Landed
<1>4. Untouched' /\ Reported' /\ Unstopped'
  BY <1>1, Fixed DEF MInv, Untouched, Reported, Unstopped
<1>5. QED BY <1>2, <1>3, <1>4 DEF MInv

\* A secret that leaves the source, or is written over, is in the destination.
LEMMA ArrivedAfterSet ==
    ASSUME MigrateAssumption, ContentAssumption, MInv, request' = request, initial' = initial,
           pc = "write", NEW n \in DOMAIN stored, SE' = SE, DE' = Put(DE, n, stored[n])
    PROVE  Arrived'
<1> SUFFICES ASSUME ~has_layout_conflict, NEW m \in DOMAIN IE \ DOMAIN SE, Stripped[IE[m]] # None
             PROVE  m \in DOMAIN DE' /\ Stripped[DE'[m]] = Stripped[IE[m]]
  BY Fixed DEF Arrived
<1>1. m \in DOMAIN DE /\ Stripped[DE[m]] = Stripped[IE[m]]
  BY DEF MInv, Arrived
<1>2. m = n => stored[n] = Stripped[IE[m]] /\ Stripped[stored[n]] = Stripped[IE[m]]
  BY EndsValues DEF MInv, Remembered, Intact, Running
<1>3. QED BY <1>1, <1>2 DEF Put

LEMMA ArrivedAfterUnset ==
    ASSUME MigrateAssumption, ContentAssumption, MInv, request' = request, initial' = initial,
           pc \in {"clear", "remove"}, NEW n \in todo, SE' = Drop(SE, n),
           ~has_layout_conflict => DE' = DE
    PROVE  Arrived'
<1> SUFFICES ASSUME ~has_layout_conflict, NEW m \in DOMAIN IE \ DOMAIN SE', Stripped[IE[m]] # None
             PROVE  m \in DOMAIN DE /\ Stripped[DE[m]] = Stripped[IE[m]]
  BY Fixed DEF Arrived
<1>1. CASE m \notin DOMAIN SE
  BY <1>1 DEF MInv, Arrived
<1>2. CASE m \in DOMAIN SE
  <2>1. m = n /\ pc = "remove" /\ n \in source_names
    BY <1>2 DEF Drop, MInv, Control, Loops
  <2>2. n \in DOMAIN stored /\ stored[n] = Stripped[IE[n]]
    BY <2>1 DEF MInv, Remembered, Intact, Running, Visited
  <2>3. n \in DOMAIN DE /\ DE[n] = stored[n]
    BY <2>1, <2>2 DEF MInv, Landed
  <2>4. Stripped[stored[n]] = stored[n]
    BY <2>1, <2>2, EndsValues DEF MInv
  <2>5. QED BY <2>1, <2>2, <2>3, <2>4
<1>3. QED BY <1>1, <1>2

\* With names that can be set and values that can be encoded, a write to a store that
\* can be read is accepted.
LEMMA TameAccepts ==
    ASSUME Tame
    PROVE  /\ \A n \in todo : DestReads => n \notin BlankNames /\ Accepted(FileOf(dst), SetOp(n))
           /\ \A n \in todo : SourceReads => Accepted(FileOf(src), UnsetOp(n))
<1>1. \A s : serialize_store(s)
  BY DEF serialize_store, Tame
<1>2. QED
  BY <1>1 DEF Accepted, Tame, DestReads, SourceReads, Readable, SetOp, UnsetOp

LEMMA WriteKeeps ==
    ASSUME MigrateAssumption, ContentAssumption, NoAlias, MInv, pc = "write", pc' = pc,
           NEW n \in todo, Accepted(FileOf(dst), SetOp(n)),
           files' = Written(FileOf(dst), SetOp(n)), todo' = todo \ {n},
           UNCHANGED <<request, source_names, stored, existing, result, initial, counts>>
    PROVE  MInv'
<1> USE DEF counts, Idle, Running, Fresh, Intact, Visited
<1>1. /\ files' \in [File -> Content]
      /\ DestReads' /\ DE' = Put(DE, n, stored[n])
      /\ SE' = SE /\ (~has_layout_conflict /\ SourceReads => SourceReads')
  BY SetEffect DEF MInv, Loops, Control
<1>2. n \in DOMAIN stored
  BY DEF MInv, Loops
<1>3. MTypeOK' /\ Control'
  BY <1>1, Fixed DEF MInv, MTypeOK, Control
<1>4. Access' /\ Loops' /\ Kept'
  BY <1>1, Fixed DEF MInv, Access, Loops, Kept
<1>5. Arrived'
  BY <1>1, <1>2, ArrivedAfterSet
<1>6. Remembered'
  BY <1>1, Fixed DEF MInv, Remembered
<1>7. Landed'
  BY <1>1, <1>2 DEF MInv, Landed, Put
<1>8. Untouched' /\ Reported' /\ Unstopped'
  BY <1>1, Fixed DEF MInv, Untouched, Reported, Unstopped
<1>9. QED BY <1>3, <1>4, <1>5, <1>6, <1>7, <1>8 DEF MInv

LEMMA RemoveKeeps ==
    ASSUME MigrateAssumption, ContentAssumption, NoAlias, MInv,
           pc \in {"clear", "remove"}, pc' = pc,
           NEW n \in todo, Accepted(FileOf(src), UnsetOp(n)),
           files' = Written(FileOf(src), UnsetOp(n)), todo' = todo \ {n},
           UNCHANGED <<request, source_names, stored, existing, result, initial, counts>>
    PROVE  MInv'
<1> USE DEF counts, Idle, Running, Fresh, Intact, Visited
<1>1. /\ files' \in [File -> Content]
      /\ SourceReads' /\ SE' = Drop(SE, n)
      /\ ~has_layout_conflict => DE' = DE /\ (DestReads => DestReads')
  BY UnsetEffect DEF MInv, MTypeOK, Control
<1>2. DOMAIN SE' = DOMAIN SE \ {n} /\ \A m \in DOMAIN SE' : SE'[m] = SE[m]
  BY <1>1 DEF Drop
<1>3. ~(~moved \/ Illegal)
  BY DEF MInv, Control, moved
<1>4. MTypeOK' /\ Control'
  BY <1>1, Fixed DEF MInv, MTypeOK, Control
<1>5. Access' /\ Loops'
  BY <1>1, <1>2, Fixed DEF MInv, Access, Loops, Control
<1>6. Kept'
  BY <1>2, <1>3, Fixed DEF MInv, Kept
<1>7. Arrived'
  BY <1>1, ArrivedAfterUnset
<1>8. Remembered'
  BY Fixed DEF MInv, Remembered
<1>9. Landed'
  BY <1>1 DEF MInv, Landed, Control
<1>10. Untouched' /\ Reported' /\ Unstopped'
  BY Fixed DEF MInv, Untouched, Reported, Unstopped
<1>11. QED BY <1>4, <1>5, <1>6, <1>7, <1>8, <1>9, <1>10 DEF MInv

\* A call raised or the process died, its write in place or not.
LEMMA GivingUpKeeps ==
    ASSUME MigrateAssumption, ContentAssumption, NoAlias, MInv,
           pc \in {"start", "read", "clear", "write", "remove"},
           Raises, UNCHANGED <<request, initial, attempts, writes>>,
           faults' \in Nat, faults' >= faults,
           has_layout_conflict /\ pc # "start" => faults' > 0 \/ ~Tame,
           ~(Tame /\ faults' = 0 /\ SourceRead /\ (has_layout_conflict \/ DestRead)),
           \/ files' = files
           \/ \E n \in todo : /\ pc = "write" /\ Accepted(FileOf(dst), SetOp(n))
                              /\ files' = Written(FileOf(dst), SetOp(n))
           \/ \E n \in todo : /\ pc \in {"clear", "remove"} /\ Accepted(FileOf(src), UnsetOp(n))
                              /\ files' = Written(FileOf(src), UnsetOp(n))
    PROVE  MInv'
<1> USE DEF Idle, Running, Fresh
<1>1. /\ pc' = "failed" /\ source_names' = {} /\ todo' = {} /\ existing' = {}
      /\ stored' = EmptyStore /\ EmptyStore \in FlatStore
  BY EmptyStoreFits DEF Raises
<1>2. Intact' => Intact /\ (~has_layout_conflict \/ (pc = "start" /\ files' = files))
  BY <1>1, Fixed DEF Intact, MInv, MTypeOK, Control
<1>3. /\ files' \in [File -> Content]
      /\ ~has_layout_conflict => /\ SourceReads => SourceReads'
                                 /\ DestReads => DestReads'
      /\ Arrived'
      /\ DOMAIN SE' \subseteq DOMAIN SE /\ \A m \in DOMAIN SE' : SE'[m] = SE[m]
      /\ SE' = SE \/ ~(~moved \/ Illegal)
  <2>1. CASE files' = files
    BY <2>1, Fixed DEF MInv, MTypeOK, Arrived
  <2>2. ASSUME NEW n \in todo, pc = "write", Accepted(FileOf(dst), SetOp(n)),
               files' = Written(FileOf(dst), SetOp(n))
        PROVE  <1>3!:
    <3>1. n \in DOMAIN stored /\ ~Illegal
      BY <2>2 DEF MInv, Loops, Control
    <3>2. /\ files' \in [File -> Content] /\ DestReads' /\ DE' = Put(DE, n, stored[n])
          /\ SE' = SE /\ (~has_layout_conflict /\ SourceReads => SourceReads')
      BY <2>2, <3>1, SetEffect DEF MInv
    <3>3. QED BY <2>2, <3>1, <3>2, ArrivedAfterSet
  <2>3. ASSUME NEW n \in todo, pc \in {"clear", "remove"}, Accepted(FileOf(src), UnsetOp(n)),
               files' = Written(FileOf(src), UnsetOp(n))
        PROVE  <1>3!:
    <3>1. n \in Name /\ ~Illegal /\ moved
      BY <2>3 DEF MInv, MTypeOK, Control, moved
    <3>2. /\ files' \in [File -> Content] /\ SourceReads' /\ SE' = Drop(SE, n)
          /\ ~has_layout_conflict => DE' = DE /\ (DestReads => DestReads')
      BY <2>3, <3>1, UnsetEffect DEF MInv
    <3>3. DOMAIN SE' \subseteq DOMAIN SE /\ \A m \in DOMAIN SE' : SE'[m] = SE[m]
      BY <3>2 DEF Drop
    <3>4. QED BY <2>3, <3>1, <3>2, <3>3, ArrivedAfterUnset
  <2>4. QED BY <2>1, <2>2, <2>3
<1>4. MTypeOK' /\ Control'
  BY <1>1, <1>3, Fixed DEF MInv, MTypeOK, Control
<1>5. Access' /\ Loops'
  BY <1>1, <1>2, <1>3, Fixed DEF MInv, Access, Loops
<1>6. Kept'
  BY <1>1, <1>2, <1>3, Fixed DEF MInv, Kept
<1>7. Untouched'
  BY <1>1, <1>2, Fixed DEF MInv, Control, MTypeOK, Untouched
<1>8. Remembered' /\ Landed' /\ Reported' /\ Unstopped'
  BY <1>1, Fixed DEF Remembered, Landed, Reported, Unstopped
<1>9. QED BY <1>3, <1>4, <1>5, <1>6, <1>7, <1>8 DEF MInv

\* The loops: a call that is accepted, or one that raises.
LEMMA LoopsKeep ==
    ASSUME MigrateAssumption, ContentAssumption, NoAlias, MInv, Write \/ Remove
    PROVE  MInv'
<1>1. CASE Write
  <2>1. PICK n \in todo :
          IF n \notin BlankNames /\ Accepted(FileOf(dst), SetOp(n))
          THEN /\ files' = Written(FileOf(dst), SetOp(n))
               /\ todo' = todo \ {n}
               /\ UNCHANGED <<pc, source_names, stored, existing, result>>
          ELSE Raises /\ UNCHANGED files
    BY <1>1 DEF Write
  <2>2. pc = "write" /\ UNCHANGED <<request, initial, counts>>
    BY <1>1 DEF Write
  <2>3. CASE n \notin BlankNames /\ Accepted(FileOf(dst), SetOp(n))
    BY <2>1, <2>2, <2>3, WriteKeeps
  <2>4. CASE ~(n \notin BlankNames /\ Accepted(FileOf(dst), SetOp(n)))
    <3>1. Raises /\ files' = files /\ UNCHANGED <<attempts, writes, faults>>
      BY <2>1, <2>2, <2>4 DEF counts
    <3>2. Tame => ~DestReads
      BY <2>4, TameAccepts
    <3>3. faults \in Nat /\ faults >= faults
      BY DEF MInv, MTypeOK
    <3>4. /\ has_layout_conflict => ~Tame
          /\ ~(Tame /\ SourceRead /\ (has_layout_conflict \/ DestRead))
      BY <2>2, <3>2 DEF MInv, Access
    <3>5. QED BY <2>2, <3>1, <3>3, <3>4, GivingUpKeeps
  <2>5. QED BY <2>3, <2>4
<1>2. CASE Remove
  <2>1. PICK n \in todo :
          IF Accepted(FileOf(src), UnsetOp(n))
          THEN /\ files' = Written(FileOf(src), UnsetOp(n))
               /\ todo' = todo \ {n}
               /\ UNCHANGED <<pc, source_names, stored, existing, result>>
          ELSE Raises /\ UNCHANGED files
    BY <1>2 DEF Remove
  <2>2. pc \in {"clear", "remove"} /\ UNCHANGED <<request, initial, counts>>
    BY <1>2 DEF Remove
  <2>3. CASE Accepted(FileOf(src), UnsetOp(n))
    BY <2>1, <2>2, <2>3, RemoveKeeps
  <2>4. CASE ~Accepted(FileOf(src), UnsetOp(n))
    <3>1. Raises /\ files' = files /\ UNCHANGED <<attempts, writes, faults>>
      BY <2>1, <2>2, <2>4 DEF counts
    <3>2. Tame => ~SourceReads
      BY <2>4, TameAccepts
    <3>3. faults \in Nat /\ faults >= faults
      BY DEF MInv, MTypeOK
    <3>4. /\ has_layout_conflict => ~Tame
          /\ ~(Tame /\ SourceRead /\ (has_layout_conflict \/ DestRead))
      BY <2>2, <3>2 DEF MInv, Access, Control
    <3>5. QED BY <2>2, <3>1, <3>3, <3>4, GivingUpKeeps
  <2>5. QED BY <2>3, <2>4
<1>3. QED BY <1>1, <1>2

LEMMA FailsKeeps ==
    ASSUME MigrateAssumption, ContentAssumption, NoAlias, MInv, Fails
    PROVE  MInv'
<1>1. /\ pc \in {"start", "read", "clear", "write", "remove"}
      /\ faults' = faults + 1 /\ Raises
      /\ UNCHANGED <<request, initial, attempts, writes>>
  BY DEF Fails
<1>2. \/ files' = files
      \/ \E n \in todo : /\ pc = "write" /\ Accepted(FileOf(dst), SetOp(n))
                         /\ files' = Written(FileOf(dst), SetOp(n))
      \/ \E n \in todo : /\ pc \in {"clear", "remove"} /\ Accepted(FileOf(src), UnsetOp(n))
                         /\ files' = Written(FileOf(src), UnsetOp(n))
  BY DEF Fails, Pending
<1>3. faults' \in Nat /\ faults' > 0 /\ faults' >= faults
  BY <1>1 DEF MInv, MTypeOK
<1>4. QED BY <1>1, <1>2, <1>3, GivingUpKeeps

LEMMA SiblingKeeps ==
    ASSUME MigrateAssumption, ContentAssumption, MInv, Sibling
    PROVE  MInv'
<1> USE DEF locals, Idle, Running, Fresh, Intact, Visited
<1>1. /\ writes' = writes + 1
      /\ UNCHANGED <<request, pc, locals, initial, attempts, faults>>
  BY DEF Sibling
<1>2. /\ files' \in [File -> Content]
      /\ SE' = SE /\ (SourceReads => SourceReads')
      /\ DE' = DE /\ (DestReads => DestReads')
  BY SiblingEffect DEF MInv
<1>3. MTypeOK' /\ Control' /\ Access'
  BY <1>1, <1>2, Fixed DEF MInv, MTypeOK, Control, Access
<1>4. Loops' /\ Kept' /\ Arrived'
  BY <1>1, <1>2, Fixed DEF MInv, Loops, Kept, Arrived
<1>5. Remembered' /\ Landed'
  BY <1>1, <1>2, Fixed DEF MInv, Remembered, Landed
<1>6. Untouched' /\ Reported' /\ Unstopped'
  BY <1>1, <1>2, Fixed DEF MInv, Untouched, Reported, Unstopped
<1>7. QED BY <1>3, <1>4, <1>5, <1>6 DEF MInv

-----------------------------------------------------------------------------
(* The theorems *)

\* The invariant holds of every migration between stores that are not one file under
\* two names, whatever fails.
THEOREM MigrateInvariance == ASSUME NoAlias PROVE Spec => []MInv
<1>1. Init => MInv
  <2> SUFFICES ASSUME Init
               PROVE  MInv
    OBVIOUS
  <2> USE DEF Init, Idle, Running
  <2>1. SE = IE /\ DE = ID /\ SourceReads = SourceRead /\ DestReads = DestRead
    BY DEF SE, IE, DE, ID, SourceReads, SourceRead, DestReads, DestRead
  <2>2. MTypeOK /\ Control
    BY EmptyStoreFits, MigrateAssumption DEF MTypeOK, Control
  <2>3. Access /\ Loops /\ Kept /\ Arrived
    BY <2>1 DEF Access, Loops, Kept, Arrived
  <2>4. Remembered /\ Landed /\ Untouched /\ Reported /\ Unstopped
    BY <2>1 DEF Remembered, Landed, Untouched, Reported, Unstopped
  <2>5. QED BY <2>2, <2>3, <2>4 DEF MInv
<1>2. MInv /\ [Next]_mvars => MInv'
  <2> SUFFICES ASSUME MInv, [Next]_mvars
               PROVE  MInv'
    OBVIOUS
  <2> USE MigrateAssumption, ContentAssumption
  <2>1. CASE Reject \/ ReadNames \/ ReadValue
    BY <2>1, RejectKeeps, ReadNamesKeeps, ReadValueKeeps
  <2>2. CASE StartClear \/ EndClear \/ ReadExisting
    BY <2>2, StartClearKeeps, EndClearKeeps, ReadExistingKeeps
  <2>3. CASE Write \/ Remove
    BY <2>3, LoopsKeep
  <2>4. CASE StartRemove \/ Finish \/ Retry
    BY <2>4, StartRemoveKeeps, FinishKeeps, RetryKeeps
  <2>5. CASE Fails \/ Sibling
    BY <2>5, FailsKeeps, SiblingKeeps
  <2>6. CASE UNCHANGED mvars
    <3> USE <2>6 DEF mvars, locals, counts, Idle, Running, Fresh, Intact, Visited
    <3>1. MTypeOK' /\ Control' /\ Access' /\ Loops' /\ Kept' /\ Arrived'
      BY Fixed DEF MInv, MTypeOK, Control, Access, Loops, Kept, Arrived
    <3>2. Remembered' /\ Landed' /\ Untouched' /\ Reported' /\ Unstopped'
      BY Fixed DEF MInv, Remembered, Landed, Untouched, Reported, Unstopped
    <3>3. QED BY <3>1, <3>2 DEF MInv
  <2>7. QED BY <2>1, <2>2, <2>3, <2>4, <2>5, <2>6 DEF Next
<1>3. QED BY <1>1, <1>2, PTL DEF Spec

\* Migration m converts a flat file into a namespaced one.
Converts(m) ==
    FileOf(m.source) = FileOf(m.dest) /\ m.source.ns = None /\ m.dest.ns # None

\* What the properties of Migrate read, in the terms of the invariant.
LEMMA Seen ==
    /\ \A n : Original(n) = IF n \in DOMAIN IE THEN Stripped[IE[n]] ELSE None
    /\ \A n : ValueIn(files, src, n) = IF n \in DOMAIN SE THEN Stripped[SE[n]] ELSE None
    /\ \A n : ValueIn(files, dst, n) = IF n \in DOMAIN DE THEN Stripped[DE[n]] ELSE None
  BY DEF Original, ValueIn, NamesIn, normalize_secret_value, IE, SE, DE

\* A legal conversion of layout meets no name that cannot be set and no value that
\* cannot be encoded.
LEMMA TameConversions ==
    ASSUME NoAlias, MTypeOK, Tame \/ \A m \in Migrations : ~Converts(m),
           has_layout_conflict, ~Illegal
    PROVE  Tame
  BY Apart DEF MTypeOK, Converts, src, dst

\* Whatever fails, each secret of the source is in the source or in the destination
\* (migrate_to's durability), if names that cannot be set and values that cannot be
\* encoded meet no conversion of layout.
THEOREM NeverLost ==
    ASSUME NoAlias, Tame \/ \A m \in Migrations : ~Converts(m)
    PROVE  Spec => []NothingLost
<1>1. MInv => NothingLost
  <2> SUFFICES ASSUME MInv, NEW n \in Name, Original(n) # None,
                      ~(has_layout_conflict /\ faults > 0)
               PROVE  \/ Original(n) \in Places(n)
                      \/ has_layout_conflict /\ n \in DOMAIN stored /\ Original(n) = stored[n]
    BY DEF NothingLost, Secrets
  <2>1. n \in DOMAIN IE /\ Original(n) = Stripped[IE[n]] /\ Stripped[IE[n]] # None
    BY Seen
  <2>2. CASE ~has_layout_conflict
    <3>1. n \in DOMAIN SE => SE[n] = IE[n]
      BY <2>2 DEF MInv, Kept, Intact
    <3>2. n \notin DOMAIN SE => n \in DOMAIN DE /\ Stripped[DE[n]] = Stripped[IE[n]]
      BY <2>1, <2>2 DEF MInv, Arrived
    <3>3. QED BY <2>1, <3>1, <3>2, Seen DEF Places
  <2>3. CASE has_layout_conflict
    <3>1. Intact
      <4>1. faults = 0
        BY <2>3 DEF MInv, MTypeOK
      <4>2. Illegal => Fresh
        BY DEF MInv, Control, Fresh
      <4>3. ~Illegal => Tame
        BY <2>3, TameConversions DEF MInv
      <4>4. QED BY <4>1, <4>2, <4>3 DEF Intact
    <3>2. CASE Idle \/ pc = "read"
      <4>1. SE = IE
        BY <2>3, <3>1, <3>2 DEF MInv, Kept
      <4>2. QED BY <2>1, <4>1, Seen DEF Places
    <3>3. CASE ~(Idle \/ pc = "read")
      <4>1. Running
        BY <3>3 DEF MInv, MTypeOK, Idle, Running
      <4>2. source_names = DOMAIN IE /\ Visited = source_names
        BY <2>3, <3>1, <3>3, <4>1 DEF MInv, Remembered, Visited
      <4>3. QED BY <2>1, <2>3, <3>1, <4>1, <4>2 DEF MInv, Remembered
    <3>4. QED BY <3>2, <3>3
  <2>4. QED BY <2>2, <2>3
<1>2. QED BY <1>1, MigrateInvariance, PTL

\* A move that reports its result left nothing behind and brought every secret along.
THEOREM MovesAreComplete ==
    ASSUME NoAlias, Tame \/ \A m \in Migrations : ~Converts(m)
    PROVE  Spec => []MoveComplete
<1>1. MInv => MoveComplete
  <2> SUFFICES ASSUME MInv, pc = "done", moved
               PROVE  /\ NamesIn(files, src) = {}
                      /\ ~has_layout_conflict \/ faults = 0
                           => \A n \in Secrets : ValueIn(files, dst, n) = Original(n)
    BY DEF MoveComplete
  <2>1. DOMAIN SE = {}
    BY DEF MInv, Loops
  <2>2. ASSUME ~has_layout_conflict \/ faults = 0, NEW n \in Secrets
        PROVE  ValueIn(files, dst, n) = Original(n)
    <3>1. n \in DOMAIN IE /\ Original(n) = Stripped[IE[n]] /\ Stripped[IE[n]] # None
      BY Seen DEF Secrets
    <3>2. CASE ~has_layout_conflict
      BY <2>1, <3>1, <3>2, Seen DEF MInv, Arrived
    <3>3. CASE has_layout_conflict
      <4>1. Intact /\ Running
        BY <2>2, <3>3, TameConversions DEF MInv, Control, Intact, Running, Idle
      <4>2. n \in DOMAIN stored /\ stored[n] = Stripped[IE[n]]
        BY <3>1, <3>3, <4>1 DEF MInv, Remembered, Visited
      <4>3. n \in DOMAIN DE /\ DE[n] = stored[n]
        BY <4>2 DEF MInv, Landed
      <4>4. Stripped[stored[n]] = stored[n]
        BY <3>1, <4>2, EndsValues, MigrateAssumption, ContentAssumption DEF MInv
      <4>5. QED BY <3>1, <4>2, <4>3, <4>4, Seen
    <3>4. QED BY <3>2, <3>3
  <2>3. QED BY <2>1, <2>2 DEF SE, NamesIn
<1>2. QED BY <1>1, MigrateInvariance, PTL

\* A copy, or a refused request, never changes what the source holds.
THEOREM CopiesKeepTheSource == ASSUME NoAlias PROVE Spec => []CopyKeepsSource
<1>1. MInv => CopyKeepsSource
  <2> SUFFICES ASSUME MInv, ~moved \/ Illegal
               PROVE  (SourceRead => SourceReads) /\ SE = IE
    BY DEF CopyKeepsSource, SourceRead, SourceReads, SE, IE
  <2>1. SE = IE
    BY DEF MInv, Kept
  <2>2. SourceRead => SourceReads
    <3>1. CASE has_layout_conflict
      <4>1. Illegal /\ attempts = 0 /\ Idle
        BY <3>1 DEF MInv, Control, moved
      <4>2. QED BY <3>1, <4>1 DEF MInv, Access, Intact, Fresh
    <3>2. CASE ~has_layout_conflict
      BY <3>2 DEF MInv, Access
    <3>3. QED BY <3>1, <3>2
  <2>3. QED BY <2>1, <2>2
<1>2. QED BY <1>1, MigrateInvariance, PTL

\* The counts of a first attempt's MigrationResult are those of the stores it found.
THEOREM ResultsAreTruthful == ASSUME NoAlias PROVE Spec => []ResultTruthful
<1>1. MInv => ResultTruthful
  <2> SUFFICES ASSUME MInv, pc = "done", attempts = 1
               PROVE  /\ result.migrated = Cardinality(Secrets)
                      /\ result.overwritten = Cardinality(Secrets \cap NamesIn(initial, dst))
    BY DEF ResultTruthful
  <2>1. Fresh /\ Running /\ Intact
    BY DEF Fresh, Running, Intact
  <2>2. Secrets = {n \in DOMAIN IE : Stripped[IE[n]] # None}
    BY Seen, EndsValues, MigrateAssumption, ContentAssumption DEF Secrets, MInv
  <2>3. DOMAIN stored = Secrets
    BY <2>1, <2>2 DEF MInv, Untouched, Remembered, Visited
  <2>4. DOMAIN stored \cap existing = Secrets \cap DOMAIN ID
    <3>1. CASE ~has_layout_conflict
      BY <2>1, <2>3, <3>1 DEF MInv, Untouched
    <3>2. CASE has_layout_conflict
      <4>1. existing = {} /\ ~Illegal
        BY <2>1, <3>2 DEF MInv, Control, Running, Idle
      <4>2. SourceRead /\ DestRead => IE = EmptyStore
        <5>1. src \in Binding /\ FileOf(src) = FileOf(dst) /\ src.ns = None /\ dst.ns # None
          BY <3>2, <4>1, Apart, Ends, MigrateAssumption DEF MInv
        <5>2. SourceRead /\ DestRead => initial[FileOf(src)] \in NestedStore \cup {Absent}
          BY <5>1 DEF DestRead, Readable, Loads, parse_store
        <5>3. QED BY <5>1, <5>2, FlatSeesNoSections, ContentAssumption DEF IE
      <4>3. (~SourceRead => IE = EmptyStore) /\ (~DestRead => ID = EmptyStore)
        BY DEF SourceRead, DestRead, IE, ID, Entries
      <4>4. DOMAIN IE = {} \/ DOMAIN ID = {}
        BY <4>2, <4>3 DEF EmptyStore
      <4>5. QED BY <2>2, <4>1, <4>4
    <3>3. QED BY <3>1, <3>2
  <2>5. QED BY <2>3, <2>4 DEF MInv, Reported, ID, NamesIn
<1>2. QED BY <1>1, MigrateInvariance, PTL

\* With no fault, a migration between stores that can be read, whose names can be set
\* and whose values can be encoded, never gives up half way through.
THEOREM LegalMigrationsComplete ==
    ASSUME NoAlias, Tame
    PROVE  Spec => []LegalMigrationCompletes
<1>1. MInv => LegalMigrationCompletes
  BY DEF MInv, Unstopped, LegalMigrationCompletes, SourceRead, DestRead
<1>2. QED BY <1>1, MigrateInvariance, PTL
=============================================================================
