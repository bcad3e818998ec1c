------------------------- MODULE KeyringStore_proofs -------------------------
(***************************************************************************)
(* The keyring backend over its fallback, for any number of sessions with  *)
(* and without a keyring: an answer is what is set, even when the keyring  *)
(* fails, an acknowledged write has taken hold in both stores, and no copy *)
(* is left in the file behind a keyring entry that is not accounted for.   *)
(***************************************************************************)
EXTENDS KeyringProperties, StoreContentLemmas

\* The items a content of the file holds, and the value of one.
Copies(c)  == {i \in Item : Loads(c, i[1]) /\ i[2] \in NamesOf(Loaded(c), i[1])}
Copy(c, i) == Section(Loaded(c), i[1])[i[2]]

\* What the file holds after op, which the fallback accepts.
After(c, op) == IF Writes(op, Loaded(c)) THEN Apply(op, Loaded(c)) ELSE c

-----------------------------------------------------------------------------
(* The inductive invariant *)

KTypeOK ==
    /\ ring \in [Item -> Value \cup {None}]
    /\ file \in Content
    /\ pc \in [Client -> {"idle", "keyring", "fallback", "return"}]
    /\ call \in [Client -> Op \cup {None}]
    /\ status \in [Client -> {None, "ok", "no_backend", "failed"}]
    /\ outcome \in [Client -> Outcome \cup {None}]
    /\ touched \subseteq Client

\* What a client knows at each point of its call.
Phase(c) ==
    /\ pc[c] = "idle" => status[c] = None
    /\ pc[c] # "idle" => call[c] \in Op
    /\ pc[c] = "keyring" => status[c] = None /\ call[c].kind # "names"
    /\ pc[c] = "fallback" => /\ c \notin Bare /\ status[c] # "failed"
                             /\ IsWrite(call[c]) => status[c] \in {"ok", "no_backend"}
    /\ pc[c] = "fallback" /\ call[c].kind = "get" => status[c] \in {"ok", "no_backend"}
    /\ status[c] = "no_backend" => c \in Headless
    /\ status[c] = "ok" => c \notin Headless

\* The value the item of client c's write is to have.
NewValue(c) == IF call[c].kind = "set" THEN call[c].value ELSE None

\* A keyring write that succeeded, but for a delete that was refused, is there until
\* somebody else writes the item ...
RingTaken(c) ==
    Writing(c) /\ c \notin touched \cup undeleted /\ status[c] = "ok"
        => ring[item(c)] = NewValue(c)

\* ... and so is what the fallback acknowledged.
FileTaken(c) ==
    pc[c] = "return" /\ Writing(c) /\ outcome[c] = Ok /\ c \notin touched =>
        IF status[c] = "ok" THEN c \notin Bare => item(c) \notin Copies(file)
        ELSE /\ item(c) \in Copies(file) <=> call[c].kind = "set"
             /\ call[c].kind = "set" => Copy(file, item(c)) = NewValue(c)

\* A get asks the file where its keyring has nothing to say, and answers what is set.
AnswerTaken(c) ==
    call[c].kind = "get" /\ c \notin touched =>
        /\ pc[c] = "fallback" /\ status[c] = "ok" => cleaned(item(c)) = None
        /\ pc[c] = "return" /\ outcome[c] # Error
             => outcome[c] = [kind |-> "value", value |-> Effective(c, item(c))]

\* A copy behind an entry of the keyring is about to be cleared, or excused.
Accounted ==
    \A i \in Copies(file) :
        ring[i] # None =>
            i \in excused \/ \E c \in Client : Writing(c) /\ item(c) = i /\ pc[c] = "fallback"

KInv ==
    /\ KTypeOK /\ Accounted
    /\ \A c \in Client : Phase(c) /\ RingTaken(c) /\ FileTaken(c) /\ AnswerTaken(c)

-----------------------------------------------------------------------------
(* What a write of the fallback does to the copies *)

\* It sets or removes the copy of its own item ...
LEMMA OwnCopy ==
    ASSUME ContentAssumption, NEW c \in Content, NEW op \in Op, IsWrite(op), Loads(c, op.ns)
    PROVE  /\ op.kind = "set" => /\ <<op.ns, op.name>> \in Copies(After(c, op))
                                 /\ Copy(After(c, op), <<op.ns, op.name>>) = op.value
           /\ op.kind = "unset" => <<op.ns, op.name>> \notin Copies(After(c, op))
<1> DEFINE it == <<op.ns, op.name>>
<1>1. /\ op.ns \in Scope /\ op.name \in Name /\ op.kind \in {"set", "unset"}
      /\ it \in Item /\ it[1] = op.ns /\ it[2] = op.name
  BY DEF Op, IsWrite, Item
<1>2. parse_store(Loaded(c), op.ns)
  BY <1>1, LoadedParses
<1>3. CASE Writes(op, Loaded(c))
  <2>1. After(c, op) = Apply(op, Loaded(c))
    BY <1>3 DEF After
  <2>2. parse_store(After(c, op), op.ns) /\ After(c, op) \in Store
    BY <1>2, <2>1, ApplyKeepsLayout
  <2>3. Loads(After(c, op), op.ns) /\ Loaded(After(c, op)) = After(c, op)
    BY <2>2 DEF Loads, Loaded, ContentAssumption
  <2>4. Section(After(c, op), op.ns)
          = IF op.kind = "set" THEN Put(Section(Loaded(c), op.ns), op.name, op.value)
            ELSE Drop(Section(Loaded(c), op.ns), op.name)
    BY <1>2, <2>1, SectionOfApply
  <2>5. QED BY <1>1, <2>3, <2>4 DEF Copies, Copy, NamesOf, Put, Drop
<1>4. CASE ~Writes(op, Loaded(c))
  BY <1>1, <1>4 DEF After, Writes, Copies
<1>5. QED BY <1>3, <1>4

\* ... and leaves those of all other items alone.
LEMMA OtherCopies ==
    ASSUME ContentAssumption, NEW c \in Content, NEW op \in Op, IsWrite(op), Loads(c, op.ns),
           NEW i \in Item, i # <<op.ns, op.name>>
    PROVE  /\ i \in Copies(After(c, op)) <=> i \in Copies(c)
           /\ i \in Copies(c) => Copy(After(c, op), i) = Copy(c, i)
<1> DEFINE new == After(c, op)
<1>1. /\ op.ns \in Scope /\ op.name \in Name /\ op.kind \in {"set", "unset"}
      /\ i[1] \in Scope /\ i[2] \in Name /\ i = <<i[1], i[2]>>
  BY DEF Op, IsWrite, Item
<1>2. parse_store(Loaded(c), op.ns)
  BY <1>1, LoadedParses
<1>3. CASE ~Writes(op, Loaded(c))
  BY <1>3 DEF After
<1>4. CASE Writes(op, Loaded(c))
  <2>1. new = Apply(op, Loaded(c))
    BY <1>4 DEF After
  <2>2. parse_store(new, op.ns) /\ new \in Store
    BY <1>2, <2>1, ApplyKeepsLayout
  <2>3. Loaded(new) = new /\ new # Absent
    BY <2>2 DEF Loaded, ContentAssumption
  <2>4. CASE i[1] = op.ns
    <3>1. Loads(new, i[1]) /\ Loads(c, i[1])
      BY <2>2, <2>4 DEF Loads
    <3>2. Section(new, i[1])
            = IF op.kind = "set" THEN Put(Section(Loaded(c), i[1]), op.name, op.value)
              ELSE Drop(Section(Loaded(c), i[1]), op.name)
      BY <1>2, <2>1, <2>4, SectionOfApply
    <3>3. i[2] # op.name
      BY <1>1, <2>4
    <3>4. QED BY <2>3, <3>1, <3>2, <3>3 DEF Copies, Copy, NamesOf, Put, Drop
  <2>5. CASE i[1] # op.ns /\ i[1] # None /\ op.ns # None
    <3>1. Section(new, i[1]) = Section(Loaded(c), i[1])
      BY <1>1, <2>1, <2>5, OtherSectionsOfApply DEF Scope
    <3>2. Loads(new, i[1]) /\ Loads(c, i[1])
      BY <2>2, <2>5 DEF Loads, parse_store
    <3>3. QED BY <2>3, <3>1, <3>2 DEF Copies, Copy, NamesOf
  <2>6. CASE i[1] # op.ns /\ (i[1] = None \/ op.ns = None)
    \* The two scopes share only the file that holds nothing.
    <3>1. ASSUME NEW s, parse_store(s, op.ns), parse_store(s, i[1])
          PROVE  s = EmptyStore
      BY <2>6, <3>1, OnlyEmptyFitsBoth DEF parse_store
    <3>2. DOMAIN Section(EmptyStore, i[1]) = {}
      BY DEF Section, EmptyStore
    <3>3. i \notin Copies(new)
      BY <2>2, <2>3, <3>1, <3>2 DEF Copies, Loads, NamesOf
    <3>4. i \notin Copies(c)
      BY <1>1, <1>2, <3>1, <3>2, LoadedParses DEF Copies, NamesOf
    <3>5. QED BY <3>3, <3>4
  <2>7. QED BY <2>4, <2>5, <2>6
<1>5. QED BY <1>3, <1>4

-----------------------------------------------------------------------------
(* What one step of a client does *)

\* What is answered from a file is the copy, if it has one.
LEMMA ToldOfCopy ==
    ASSUME NEW c, NEW i \in Item
    PROVE  (IF Loads(c, i[1]) THEN Lookup(Loaded(c), i[1], i[2]) ELSE None)
             = IF i \in Copies(c) THEN normalize_secret_value(Copy(c, i)) ELSE None
  BY DEF Lookup, Copies, Copy, NamesOf

LEMMA ItemType ==
    ASSUME KTypeOK, NEW c \in Client, call[c] \in Op, call[c].kind # "names"
    PROVE  /\ item(c) \in Item /\ call[c].ns \in Scope /\ call[c].name \in Name
           /\ IsWrite(call[c]) => NewValue(c) \in Value \cup {None}
  BY DEF Op, item, Item, IsWrite, NewValue

\* Only the stepping client's call advances.
LEMMA OthersStay ==
    ASSUME KTypeOK, NEW d \in Client, Step(d), NEW c \in Client \ {d}
    PROVE  /\ pc'[c] = pc[c] /\ call'[c] = call[c]
           /\ status'[c] = status[c] /\ outcome'[c] = outcome[c]
<1> USE DEF KTypeOK, Answers, Ends, Passes
<1>1. CASE Call(d) \/ Return(d) \/ Crash(d)
  BY <1>1 DEF Call, Return, Crash
<1>2. CASE Keyring(d)
  BY <1>2 DEF Keyring, NoBackend, Failed, Hit, Miss, Change, DeleteRefused
<1>3. CASE Fallback(d)
  BY <1>3 DEF Fallback, FallbackReads, FallbackWrites, FallbackRefuses, FallbackFails
<1>4. QED BY <1>1, <1>2, <1>3 DEF Step

\* The operation a fallback executes is a write of the caller's item.
LEMMA FallbackWritesItem ==
    ASSUME KTypeOK, NEW d \in Client, call[d] \in Op, IsWrite(call[d]), Accepts(d)
    PROVE  /\ FallbackOp(d) \in Op /\ IsWrite(FallbackOp(d))
           /\ item(d) = <<FallbackOp(d).ns, FallbackOp(d).name>>
           /\ FallbackOp(d).kind = IF status[d] = "ok" THEN "unset" ELSE call[d].kind
           /\ FallbackOp(d).kind = "set" => FallbackOp(d).value = NewValue(d)
           /\ Loads(file, FallbackOp(d).ns) /\ FileAfter(d) = After(file, FallbackOp(d))
<1>1. call[d].kind \in {"set", "unset"}
  BY DEF IsWrite
<1>2. CASE call[d].kind = "set" /\ status[d] = "ok"
  <2>1. FallbackOp(d) = [kind |-> "unset", ns |-> call[d].ns, name |-> call[d].name]
    BY <1>2 DEF FallbackOp
  <2>2. FallbackOp(d) \in Op
    BY <2>1, <1>1 DEF Op
  <2>3. QED BY <1>2, <2>1, <2>2 DEF IsWrite, item, Accepts, FileAfter, After
<1>3. CASE ~(call[d].kind = "set" /\ status[d] = "ok")
  <2>1. FallbackOp(d) = call[d]
    BY <1>3 DEF FallbackOp
  <2>2. QED BY <1>1, <1>3, <2>1 DEF item, Accepts, FileAfter, After, NewValue
<1>4. QED BY <1>2, <1>3

\* A write of the fallback's file that the step may do.
LEMMA StepOnFile ==
    ASSUME KTypeOK, NEW d \in Client, Phase(d), Step(d)
    PROVE  \/ file' = file
           \/ /\ pc[d] = "fallback" /\ call[d] \in Op /\ IsWrite(call[d])
              /\ Accepts(d) /\ file' = FileAfter(d)
<1>1. CASE Call(d) \/ Return(d) \/ Crash(d)
  BY <1>1 DEF Call, Return, Crash
<1>2. CASE Keyring(d)
  BY <1>2 DEF Keyring, NoBackend, Failed, Hit, Miss, Change, DeleteRefused
<1>3. CASE Fallback(d)
  BY <1>3 DEF Fallback, FallbackReads, FallbackWrites, FallbackRefuses, FallbackFails, Phase
<1>4. QED BY <1>1, <1>2, <1>3 DEF Step

\* The keyring entry the step may write.
LEMMA StepOnRing ==
    ASSUME KTypeOK, NEW d \in Client, Phase(d), Step(d)
    PROVE  \/ ring' = ring
           \/ /\ pc[d] = "keyring" /\ call[d] \in Op /\ IsWrite(call[d])
              /\ ring' = [ring EXCEPT ![item(d)] = NewValue(d)]
<1>0. ASSUME Phase(d), pc[d] = "keyring"
      PROVE  /\ call[d] \in Op /\ call[d].kind \in {"get", "set", "unset"}
             /\ \/ RingAfter(d) = ring
                \/ /\ IsWrite(call[d])
                   /\ RingAfter(d) = [ring EXCEPT ![item(d)] = NewValue(d)]
  <2>1. call[d] \in Op /\ call[d].kind \in {"get", "set", "unset"}
    BY <1>0 DEF Phase, Op
  <2>2. QED BY <2>1 DEF RingAfter, NewValue, IsWrite
<1>1. CASE Call(d) \/ Return(d) \/ Crash(d)
  BY <1>1 DEF Call, Return, Crash
<1>2. CASE NoBackend(d) \/ Hit(d) \/ Miss(d) \/ DeleteRefused(d)
  BY <1>2 DEF NoBackend, Hit, Miss, DeleteRefused
<1>3. CASE Failed(d) \/ Change(d)
  BY <1>0, <1>3 DEF Failed, Change
<1>4. CASE Fallback(d)
  BY <1>4 DEF Fallback, FallbackReads, FallbackWrites, FallbackRefuses, FallbackFails
<1>5. QED BY <1>1, <1>2, <1>3, <1>4 DEF Step, Keyring

\* No step touches an item that the stepping client does not write.
LEMMA OtherItemsStay ==
    ASSUME ContentAssumption, KTypeOK, NEW d \in Client, Phase(d), Step(d),
           NEW i \in Item, ~(Writing(d) /\ item(d) = i)
    PROVE  /\ ring'[i] = ring[i]
           /\ i \in Copies(file') <=> i \in Copies(file)
           /\ i \in Copies(file) => Copy(file', i) = Copy(file, i)
<1>1. ring'[i] = ring[i]
  <2>1. pc[d] = "keyring" /\ IsWrite(call[d]) => Writing(d)
    BY DEF Writing
  <2>2. QED BY <2>1, StepOnRing, ItemType DEF KTypeOK
<1>2. /\ i \in Copies(file') <=> i \in Copies(file)
      /\ i \in Copies(file) => Copy(file', i) = Copy(file, i)
  <2>1. CASE file' = file
    BY <2>1
  <2>2. CASE /\ pc[d] = "fallback" /\ call[d] \in Op /\ IsWrite(call[d])
             /\ Accepts(d) /\ file' = FileAfter(d)
    <3>1. i # item(d)
      BY <2>2 DEF Writing
    <3>2. PICK op : op = FallbackOp(d)
      OBVIOUS
    <3>3. /\ op \in Op /\ IsWrite(op) /\ Loads(file, op.ns)
          /\ item(d) = <<op.ns, op.name>> /\ file' = After(file, op)
      BY <2>2, <3>2, FallbackWritesItem
    <3>4. PICK f : f = After(file, op)
      OBVIOUS
    <3>5. /\ i \in Copies(f) <=> i \in Copies(file)
          /\ i \in Copies(file) => Copy(f, i) = Copy(file, i)
      BY <3>1, <3>3, <3>4, OtherCopies DEF KTypeOK
    <3>6. QED BY <3>3, <3>4, <3>5
  <2>3. QED BY <2>1, <2>2, StepOnFile
<1>3. QED BY <1>1, <1>2

\* What the histories record of a step, in the terms of the invariant.
LEMMA Recorded ==
    ASSUME KTypeOK, Record
    PROVE  /\ touched' \subseteq Client
           /\ \A c \in Client : Busy(c)' /\ c \in touched => c \in touched'
           /\ \A c \in Client : Busy(c)' /\ (c \in undeleted \/ Withheld(c)) => c \in undeleted'
           /\ \A c, d \in Client :
                Busy(c)' /\ c # d /\ Writing(d) /\ item(d) = item(c)' => c \in touched'
           /\ \A i \in excused : i \in Copies(file') => i \in excused'
           /\ \A d \in Client : Excuses(d) /\ item(d) \in Copies(file') => item(d) \in excused'
<1>1. \A i : i \in Copies(file') => InFile(i)'
  BY DEF Copies, InFile
<1>2. QED BY <1>1 DEF Record

\* The step keeps the invariant of the client that takes it.
LEMMA OwnStep ==
    ASSUME ContentAssumption, KeyringAssumption, KInv, NEW d \in Client, Step(d), Record
    PROVE  KTypeOK' /\ Phase(d)' /\ RingTaken(d)' /\ FileTaken(d)'
<1> USE DEF Answers, Ends, Passes
<1>1. KTypeOK /\ Phase(d) /\ RingTaken(d) /\ FileTaken(d)
  BY DEF KInv
<1>2. /\ touched' \subseteq Client
      /\ Writing(d)' /\ d \in touched => d \in touched'
      /\ Writing(d)' /\ (d \in undeleted \/ Withheld(d)) => d \in undeleted'
  BY <1>1, Recorded DEF Writing, Busy, IsWrite
<1>3. {Ok, Error, [kind |-> "value", value |-> None]} \subseteq Outcome /\ Ok # Error
  BY DEF Outcome, Ok, Error
<1>4. CASE Call(d)
  <2>1. PICK op \in Ops :
          /\ call' = [call EXCEPT ![d] = op]
          /\ IF op.kind = "names" THEN Passes(d, Answer(op, EmptyStore))
             ELSE pc' = [pc EXCEPT ![d] = "keyring"] /\ UNCHANGED outcome
    BY <1>4 DEF Call
  <2>2. pc[d] = "idle" /\ ring' = ring /\ file' = file /\ status' = status
    BY <1>4 DEF Call
  <2>3. op \in Op /\ op.ns \in Scope
    BY DEF KeyringAssumption, Op
  <2>4. op.kind = "names" => ~IsWrite(op) /\ Answer(op, EmptyStore) \in Outcome
    <3>1. parse_store(EmptyStore, op.ns)
      BY EmptyStoreFits DEF parse_store
    <3>2. QED BY <2>3, <3>1, AnswerType DEF IsWrite
  <2>5. call'[d] = op /\ status'[d] = None /\ pc'[d] \in {"keyring", "fallback", "return"}
    BY <1>1, <2>1, <2>2 DEF KTypeOK, Phase
  <2>6. KTypeOK'
    BY <1>1, <1>2, <2>1, <2>2, <2>3, <2>4 DEF KTypeOK
  <2>7. Phase(d)'
    BY <1>1, <2>1, <2>3, <2>4, <2>5 DEF KTypeOK, Phase, KeyringAssumption
  <2>8. RingTaken(d)'
    BY <2>5 DEF RingTaken, KeyringAssumption
  <2>9. FileTaken(d)'
    BY <1>1, <2>1, <2>4, <2>5 DEF FileTaken, Writing, KTypeOK
  <2>10. QED BY <2>6, <2>7, <2>8, <2>9
<1>5. CASE NoBackend(d)
  <2>1. /\ pc[d] = "keyring" /\ call[d] \in Op /\ call[d].kind # "names"
        /\ ring' = ring /\ file' = file /\ call' = call /\ status'[d] = "no_backend" /\ d \in Headless
        /\ \/ d \in Bare /\ pc'[d] = "return" /\ outcome'[d] = Error
           \/ d \notin Bare /\ pc'[d] = "fallback"
    BY <1>1, <1>5 DEF NoBackend, KTypeOK, Phase
  <2>2. KTypeOK'
    BY <1>1, <1>2, <1>3, <1>5 DEF NoBackend, KTypeOK
  <2>3. Phase(d)' /\ RingTaken(d)'
    BY <2>1 DEF Phase, RingTaken
  <2>4. FileTaken(d)'
    BY <1>3, <2>1 DEF FileTaken
  <2>5. QED BY <2>2, <2>3, <2>4
<1>6. CASE Failed(d)
  <2>1. /\ pc[d] = "keyring" /\ call[d] \in Op /\ call' = call /\ file' = file
        /\ pc'[d] = "return" /\ status'[d] = "failed" /\ outcome'[d] = Error
    BY <1>1, <1>6 DEF Failed, KTypeOK, Phase
  <2>2. ring' \in [Item -> Value \cup {None}]
    BY <1>1, StepOnRing, ItemType DEF KTypeOK, IsWrite
  <2>3. KTypeOK'
    BY <1>1, <1>2, <1>3, <1>6, <2>2 DEF Failed, KTypeOK
  <2>4. Phase(d)' /\ RingTaken(d)'
    BY <2>1 DEF Phase, RingTaken
  <2>5. FileTaken(d)'
    BY <1>3, <2>1 DEF FileTaken
  <2>6. QED BY <2>3, <2>4, <2>5
<1>7. CASE Hit(d) \/ Miss(d)
  <2>1. /\ pc[d] = "keyring" /\ call[d] \in Op /\ call[d].kind = "get" /\ ~IsWrite(call[d])
        /\ ring' = ring /\ file' = file /\ call' = call
        /\ pc'[d] \in {"fallback", "return"} /\ status'[d] = "ok"
        /\ d \notin Headless /\ (pc'[d] = "fallback" => d \notin Bare)
    BY <1>1, <1>7 DEF Hit, Miss, KTypeOK, Phase, IsWrite
  <2>2. cleaned(item(d)) \in Value \cup {None}
    BY <1>1, <2>1, ItemType DEF cleaned, normalize_secret_value, KTypeOK, ContentAssumption
  <2>3. [kind |-> "value", value |-> cleaned(item(d))] \in Outcome
    BY <2>2 DEF Outcome
  <2>4. KTypeOK'
    BY <1>1, <1>2, <1>3, <1>7, <2>3 DEF Hit, Miss, KTypeOK
  <2>5. Phase(d)' /\ RingTaken(d)' /\ FileTaken(d)'
    BY <2>1 DEF Phase, RingTaken, FileTaken, Writing
  <2>6. QED BY <2>4, <2>5
<1>8. CASE Change(d)
  <2>1. /\ pc[d] = "keyring" /\ call[d] \in Op /\ IsWrite(call[d]) /\ call' = call /\ file' = file
        /\ status'[d] = "ok" /\ d \notin Headless
        /\ pc'[d] = IF d \in Bare THEN "return" ELSE "fallback"
    BY <1>1, <1>8 DEF Change, KTypeOK, Phase
  <2>2. ring' = [ring EXCEPT ![item(d)] = NewValue(d)]
    BY <1>8, <2>1 DEF Change, RingAfter, NewValue, IsWrite
  <2>3. item(d) \in Item /\ NewValue(d) \in Value \cup {None}
    BY <1>1, <2>1, ItemType DEF IsWrite
  <2>4. KTypeOK'
    BY <1>1, <1>2, <1>3, <1>8, <2>2, <2>3 DEF Change, KTypeOK
  <2>5. Phase(d)'
    BY <2>1 DEF Phase
  <2>6. item(d)' = item(d) /\ NewValue(d)' = NewValue(d)
    BY <2>1 DEF item, NewValue
  <2>7. RingTaken(d)'
    BY <1>1, <2>2, <2>3, <2>6 DEF RingTaken, KTypeOK
  <2>8. FileTaken(d)'
    BY <2>1 DEF FileTaken
  <2>9. QED BY <2>4, <2>5, <2>7, <2>8
<1>9. CASE FallbackReads(d)
  <2>1. /\ pc[d] = "fallback" /\ call[d] \in Op /\ ~IsWrite(call[d]) /\ status[d] # "failed"
        /\ ring' = ring /\ file' = file /\ call' = call /\ status' = status
        /\ pc'[d] = "return"
    BY <1>1, <1>9 DEF FallbackReads, KTypeOK, Phase
  <2>2. Loads(file, call[d].ns) => Answer(call[d], Loaded(file)) \in Outcome
    BY <2>1, LoadedParses, AnswerType DEF Op
  <2>3. KTypeOK'
    BY <1>1, <1>2, <1>3, <1>9, <2>2 DEF FallbackReads, KTypeOK
  <2>4. Phase(d)' /\ RingTaken(d)' /\ FileTaken(d)'
    BY <1>1, <2>1 DEF Phase, RingTaken, FileTaken, Writing
  <2>5. QED BY <2>3, <2>4
<1>10. CASE FallbackWrites(d)
  <2>1. /\ pc[d] = "fallback" /\ call[d] \in Op /\ IsWrite(call[d]) /\ d \notin Bare
        /\ status[d] \in {"ok", "no_backend"} /\ Accepts(d)
        /\ ring' = ring /\ file' = FileAfter(d) /\ call' = call /\ status' = status
        /\ pc'[d] = "return"
    BY <1>1, <1>10 DEF FallbackWrites, KTypeOK, Phase
  <2>2. PICK op : op = FallbackOp(d)
    OBVIOUS
  <2>3. /\ op \in Op /\ IsWrite(op) /\ item(d) = <<op.ns, op.name>>
        /\ op.kind = (IF status[d] = "ok" THEN "unset" ELSE call[d].kind)
        /\ op.kind = "set" => op.value = NewValue(d)
        /\ Loads(file, op.ns) /\ file' = After(file, op)
    BY <1>1, <2>1, <2>2, FallbackWritesItem
  <2>4. PICK f : f = After(file, op)
    OBVIOUS
  <2>5. f \in Content
    BY <1>1, <2>3, <2>4, LoadedParses, ApplyKeepsLayout DEF After, Content, KTypeOK, Op
  <2>6. /\ op.kind = "set" => item(d) \in Copies(f) /\ Copy(f, item(d)) = op.value
        /\ op.kind = "unset" => item(d) \notin Copies(f)
    BY <1>1, <2>3, <2>4, OwnCopy DEF KTypeOK
  <2>7. item(d)' = item(d) /\ NewValue(d)' = NewValue(d) /\ file' = f /\ Writing(d)
    BY <2>1, <2>3, <2>4 DEF item, NewValue, Writing
  <2>8. KTypeOK'
    BY <1>1, <1>2, <1>3, <1>10, <2>5, <2>7 DEF FallbackWrites, KTypeOK
  <2>9. Phase(d)'
    BY <1>1, <2>1 DEF Phase
  <2>10. d \notin touched' \cup undeleted' => d \notin touched \cup undeleted
    BY <1>2, <2>1 DEF Writing
  <2>11. RingTaken(d)'
    BY <1>1, <2>1, <2>7, <2>10 DEF RingTaken
  <2>12. call[d].kind \in {"set", "unset"}
    BY <2>1 DEF IsWrite
  <2>13. FileTaken(d)'
    BY <2>1, <2>3, <2>6, <2>7, <2>12 DEF FileTaken
  <2>14. QED BY <2>8, <2>9, <2>11, <2>13
<1>11. CASE FallbackRefuses(d) \/ FallbackFails(d)
  <2>1. /\ pc[d] = "fallback" /\ call[d] \in Op /\ status[d] # "failed"
        /\ ring' = ring /\ call' = call /\ status' = status
        /\ pc'[d] = "return" /\ outcome'[d] = Error
    BY <1>1, <1>11 DEF FallbackRefuses, FallbackFails, KTypeOK, Phase
  <2>2. file' \in Content
    <3>1. CASE file' = file
      BY <1>1, <3>1 DEF KTypeOK
    <3>2. CASE IsWrite(call[d]) /\ Accepts(d) /\ file' = FileAfter(d)
      <4>1. PICK op : op = FallbackOp(d)
        OBVIOUS
      <4>2. op \in Op /\ IsWrite(op) /\ Loads(file, op.ns) /\ file' = After(file, op)
        BY <1>1, <2>1, <3>2, <4>1, FallbackWritesItem
      <4>3. QED BY <1>1, <4>2, LoadedParses, ApplyKeepsLayout DEF After, Content, KTypeOK, Op
    <3>3. QED BY <1>11, <3>1, <3>2 DEF FallbackRefuses, FallbackFails
  <2>3. KTypeOK'
    BY <1>1, <1>2, <1>3, <1>11, <2>2 DEF FallbackRefuses, FallbackFails, KTypeOK
  <2>4. Phase(d)' /\ FileTaken(d)'
    BY <1>1, <1>3, <2>1 DEF Phase, FileTaken
  <2>5. Writing(d)' => Writing(d) /\ item(d)' = item(d) /\ NewValue(d)' = NewValue(d)
    BY <2>1 DEF item, NewValue, Writing
  <2>6. RingTaken(d)'
    BY <1>1, <1>2, <2>1, <2>5 DEF RingTaken
  <2>7. QED BY <2>3, <2>4, <2>6
<1>12. CASE Return(d) \/ Crash(d)
  <2>1. ring' = ring /\ file' = file /\ pc'[d] = "idle" /\ status'[d] = None
    BY <1>1, <1>12 DEF Return, Crash, KTypeOK
  <2>2. KTypeOK'
    BY <1>1, <1>2, <1>12 DEF Return, Crash, KTypeOK
  <2>3. Phase(d)' /\ RingTaken(d)' /\ FileTaken(d)'
    BY <2>1 DEF Phase, RingTaken, FileTaken, Writing
  <2>4. QED BY <2>2, <2>3
<1>13. CASE DeleteRefused(d)
  <2>1. /\ pc[d] = "keyring" /\ call[d] \in Op /\ call[d].kind = "unset" /\ IsWrite(call[d])
        /\ call' = call /\ file' = file /\ ring' = ring /\ ring[item(d)] # None
        /\ status'[d] = "ok" /\ d \notin Headless
        /\ pc'[d] = IF d \in Bare THEN "return" ELSE "fallback"
    BY <1>1, <1>13 DEF DeleteRefused, KTypeOK, Phase, IsWrite
  <2>2. KTypeOK'
    BY <1>1, <1>2, <1>3, <1>13 DEF DeleteRefused, KTypeOK
  <2>3. Phase(d)'
    BY <2>1 DEF Phase
  <2>4. Withheld(d)
    BY <2>1 DEF Withheld
  <2>5. RingTaken(d)'
    BY <1>2, <2>4 DEF RingTaken
  <2>6. FileTaken(d)'
    BY <2>1 DEF FileTaken
  <2>7. QED BY <2>2, <2>3, <2>5, <2>6
<1>14. QED
  BY <1>4, <1>5, <1>6, <1>7, <1>8, <1>9, <1>10, <1>11, <1>12, <1>13 DEF Step, Keyring, Fallback

\* So does what it knows of its answer.
LEMMA OwnAnswer ==
    ASSUME KInv, NEW d \in Client, Step(d), Record
    PROVE  AnswerTaken(d)'
<1> SUFFICES ASSUME call'[d].kind = "get", d \notin touched'
             PROVE  /\ pc'[d] = "fallback" /\ status'[d] = "ok" => cleaned(item(d))' = None
                    /\ pc'[d] = "return" /\ outcome'[d] # Error
                         => outcome'[d] = [kind |-> "value", value |-> Effective(d, item(d))']
  BY DEF AnswerTaken
<1> USE DEF Answers, Ends, Passes
<1>1. KTypeOK /\ Phase(d) /\ AnswerTaken(d)
  BY DEF KInv
<1>2. CASE Call(d)
  <2>1. PICK op \in Ops :
          /\ call' = [call EXCEPT ![d] = op]
          /\ IF op.kind = "names" THEN Passes(d, Answer(op, EmptyStore))
             ELSE pc' = [pc EXCEPT ![d] = "keyring"] /\ UNCHANGED outcome
    BY <1>2 DEF Call
  <2>2. pc'[d] = "keyring"
    BY <1>1, <2>1 DEF KTypeOK
  <2>3. QED BY <2>2
<1>3. CASE Return(d) \/ Crash(d)
  BY <1>1, <1>3 DEF Return, Crash, KTypeOK
<1>4. CASE NoBackend(d) \/ Failed(d)
  BY <1>1, <1>4 DEF NoBackend, Failed, KTypeOK
<1>5. CASE Hit(d) \/ Miss(d)
  <2>1. /\ pc[d] = "keyring" /\ d \notin Headless /\ ring' = ring /\ call' = call
    BY <1>5 DEF Hit, Miss
  <2>2. cleaned(item(d))' = cleaned(item(d)) /\ item(d)' = item(d)
    BY <2>1 DEF cleaned, item
  <2>3. CASE Hit(d)
    <3>1. /\ cleaned(item(d)) # None /\ pc'[d] = "return"
          /\ outcome'[d] = [kind |-> "value", value |-> cleaned(item(d))]
      BY <1>1, <2>3 DEF Hit, KTypeOK
    <3>2. Effective(d, item(d))' = cleaned(item(d))
      BY <2>1, <2>2, <3>1 DEF Effective
    <3>3. QED BY <3>1, <3>2
  <2>4. CASE Miss(d)
    <3>1. /\ cleaned(item(d)) = None
          /\ \/ d \notin Bare /\ pc'[d] = "fallback"
             \/ /\ d \in Bare /\ pc'[d] = "return"
                /\ outcome'[d] = [kind |-> "value", value |-> None]
      BY <1>1, <2>4 DEF Miss, KTypeOK
    <3>2. d \in Bare => Effective(d, item(d))' = None
      BY <2>1, <2>2, <3>1 DEF Effective
    <3>3. QED BY <2>2, <3>1, <3>2
  <2>5. QED BY <1>5, <2>3, <2>4
<1>6. CASE Change(d) \/ DeleteRefused(d) \/ FallbackWrites(d) \/ FallbackRefuses(d)
  BY <1>6 DEF Change, DeleteRefused, FallbackWrites, FallbackRefuses, IsWrite
<1>7. CASE FallbackFails(d)
  BY <1>1, <1>7 DEF FallbackFails, KTypeOK
<1>8. CASE FallbackReads(d)
  <2>1. /\ pc[d] = "fallback" /\ call[d] \in Op /\ d \notin Bare
        /\ status[d] \in {"ok", "no_backend"} /\ call[d].kind = "get"
        /\ ring' = ring /\ file' = file /\ call' = call /\ pc'[d] = "return"
        /\ outcome'[d] = IF Loads(file, call[d].ns) THEN Answer(call[d], Loaded(file)) ELSE Error
    BY <1>1, <1>8 DEF FallbackReads, KTypeOK, Phase
  <2>2. d \notin touched
    BY <1>1, <2>1, Recorded DEF Busy
  <2>3. status[d] = "ok" => cleaned(item(d)) = None
    BY <1>1, <2>1, <2>2 DEF AnswerTaken
  <2>4. item(d)[1] = call[d].ns /\ item(d)[2] = call[d].name
    BY DEF item
  <2>5. Effective(d, item(d)) = FileValue(item(d))
    BY <1>1, <2>1, <2>3 DEF Effective, Phase
  <2>6. outcome'[d] # Error => outcome'[d] = [kind |-> "value", value |-> FileValue(item(d))]
    BY <2>1, <2>4 DEF FileValue, Answer
  <2>7. Effective(d, item(d))' = Effective(d, item(d))
    BY <2>1 DEF Effective, FileValue, cleaned, item
  <2>8. QED BY <2>1, <2>5, <2>6, <2>7
<1>9. QED
  BY <1>2, <1>3, <1>4, <1>5, <1>6, <1>7, <1>8 DEF Step, Keyring, Fallback

\* It keeps that of all others.
LEMMA OthersStep ==
    ASSUME ContentAssumption, KInv, NEW d \in Client, Step(d), Record, NEW c \in Client \ {d}
    PROVE  Phase(c)' /\ RingTaken(c)' /\ FileTaken(c)' /\ AnswerTaken(c)'
<1>1. KTypeOK /\ Phase(d) /\ Phase(c) /\ RingTaken(c) /\ FileTaken(c) /\ AnswerTaken(c)
  BY DEF KInv
<1>2. /\ pc'[c] = pc[c] /\ call'[c] = call[c]
      /\ status'[c] = status[c] /\ outcome'[c] = outcome[c]
  BY <1>1, OthersStay
<1>3. Writing(c)' = Writing(c) /\ item(c)' = item(c) /\ NewValue(c)' = NewValue(c)
  BY <1>2 DEF Writing, item, NewValue
<1>4. ASSUME Busy(c), c \notin touched'
      PROVE  /\ c \notin touched
             /\ c \notin undeleted' => c \notin undeleted
             /\ item(c) \in Item
             /\ ring'[item(c)] = ring[item(c)]
             /\ item(c) \in Copies(file') <=> item(c) \in Copies(file)
             /\ item(c) \in Copies(file) => Copy(file', item(c)) = Copy(file, item(c))
  <2>1. Busy(c)' /\ call[c] \in Op /\ call[c].kind # "names"
    BY <1>1, <1>2, <1>4 DEF Busy, Writing, IsWrite, Phase
  <2>2. /\ c \notin touched /\ ~(Writing(d) /\ item(d) = item(c))
        /\ c \notin undeleted' => c \notin undeleted
    BY <1>1, <1>3, <1>4, <2>1, Recorded
  <2>3. item(c) \in Item
    BY <1>1, <2>1, ItemType
  <2>4. QED BY <1>1, <2>2, <2>3, OtherItemsStay
<1>b. Writing(c) => Busy(c)
  BY DEF Writing, Busy, IsWrite
<1>5. Phase(c)'
  BY <1>1, <1>2 DEF Phase
<1>6. RingTaken(c)'
  BY <1>1, <1>2, <1>3, <1>4, <1>b DEF RingTaken
<1>7. FileTaken(c)'
  BY <1>1, <1>2, <1>3, <1>4, <1>b DEF FileTaken
<1>8. AnswerTaken(c)'
  <2> SUFFICES ASSUME pc[c] # "idle", call[c].kind = "get", c \notin touched'
               PROVE  AnswerTaken(c)'
    BY <1>2 DEF AnswerTaken
  <2>1. PICK i \in Item : i = item(c)
    BY <1>4 DEF Busy
  <2>2. /\ c \notin touched /\ item(c)' = i /\ ring'[i] = ring[i]
        /\ i \in Copies(file') <=> i \in Copies(file)
        /\ i \in Copies(file) => Copy(file', i) = Copy(file, i)
    BY <1>3, <1>4, <2>1 DEF Busy
  <2>3. cleaned(i)' = cleaned(i)
    BY <2>2 DEF cleaned
  <2>4. FileValue(i)' = FileValue(i)
    BY <2>2, ToldOfCopy DEF FileValue
  <2>5. Effective(c, i)' = Effective(c, i)
    BY <2>3, <2>4 DEF Effective
  <2>6. cleaned(item(c))' = cleaned(i) /\ Effective(c, item(c))' = Effective(c, i)
    BY <2>2, <2>3, <2>5
  <2>7. QED BY <1>1, <1>2, <2>1, <2>2, <2>6 DEF AnswerTaken
<1>9. QED BY <1>5, <1>6, <1>7, <1>8

\* A step that leaves a copy behind a keyring entry is still to clear it, or is excused.
LEMMA AccountedStep ==
    ASSUME ContentAssumption, KInv, NEW d \in Client, Step(d), Record
    PROVE  Accounted'
<1> SUFFICES ASSUME NEW i \in Copies(file'), ring'[i] # None, i \notin excused'
             PROVE  \E c \in Client : (Writing(c) /\ item(c) = i /\ pc[c] = "fallback")'
  BY DEF Accounted
<1>1. KTypeOK /\ Phase(d) /\ Accounted /\ i \in Item
  BY DEF KInv, Copies
<1>2. i \notin excused /\ (Excuses(d) => item(d) # i)
  BY <1>1, Recorded
<1>3. ASSUME NEW c \in Client \ {d}, Writing(c), item(c) = i, pc[c] = "fallback"
      PROVE  (Writing(c) /\ item(c) = i /\ pc[c] = "fallback")'
  BY <1>1, <1>3, OthersStay DEF Writing, item
<1>4. CASE ~(Writing(d) /\ item(d) = i)
  <2>1. ring[i] # None /\ i \in Copies(file)
    BY <1>1, <1>4, OtherItemsStay
  <2>2. PICK c \in Client : Writing(c) /\ item(c) = i /\ pc[c] = "fallback"
    BY <1>1, <1>2, <2>1 DEF Accounted
  <2>3. QED BY <1>3, <1>4, <2>2
<1>5. CASE Writing(d) /\ item(d) = i /\ pc[d] = "keyring"
  <2>1. Step(d) => \/ NoBackend(d) \/ Failed(d) \/ Change(d) \/ DeleteRefused(d)
                   \/ Crash(d)
    BY <1>5 DEF Step, Keyring, Fallback, Call, Return, Hit, Miss, FallbackReads, FallbackWrites,
                FallbackRefuses, FallbackFails, Writing, IsWrite
  <2>2. CASE NoBackend(d)
    BY <1>1, <1>2, <1>5, <2>2 DEF NoBackend, Excuses, Answers, KTypeOK
  <2>3. CASE Failed(d)
    BY <1>1, <1>2, <1>5, <2>3 DEF Failed, Ends, Excuses, KTypeOK
  <2>4. CASE Change(d) \/ DeleteRefused(d)
    <3>1. d \notin Bare
      BY <1>2, <1>5 DEF Excuses
    <3>2. pc'[d] = "fallback" /\ call'[d] = call[d]
      BY <1>1, <2>4, <3>1 DEF Change, DeleteRefused, Passes, KTypeOK
    <3>3. QED BY <1>5, <3>2 DEF Writing, item
  <2>5. CASE Crash(d)
    BY <1>1, <1>2, <1>5, <2>5 DEF Crash, Excuses, KTypeOK
  <2>6. QED BY <2>1, <2>2, <2>3, <2>4, <2>5
<1>6. CASE Writing(d) /\ item(d) = i /\ pc[d] = "fallback"
  <2>1. /\ FallbackWrites(d) \/ FallbackRefuses(d) \/ FallbackFails(d) \/ Crash(d)
        /\ call[d] \in Op /\ IsWrite(call[d]) /\ status[d] \in {"ok", "no_backend"}
    BY <1>1, <1>6 DEF Step, Keyring, Fallback, Call, Return, NoBackend, Failed, Hit, Miss, Change,
                      DeleteRefused, FallbackReads, Writing, Phase
  <2>2. CASE FallbackWrites(d)
    <3>1. status[d] = "ok"
      BY <1>1, <1>2, <1>6, <2>1, <2>2 DEF FallbackWrites, Excuses
    <3>2. PICK op : op = FallbackOp(d)
      OBVIOUS
    <3>3. /\ op \in Op /\ IsWrite(op) /\ i = <<op.ns, op.name>> /\ op.kind = "unset"
          /\ Loads(file, op.ns) /\ file' = After(file, op)
      BY <1>1, <1>6, <2>1, <2>2, <3>1, <3>2, FallbackWritesItem DEF FallbackWrites
    <3>4. PICK f : f = After(file, op)
      OBVIOUS
    <3>5. i \notin Copies(f)
      BY <1>1, <3>3, <3>4, OwnCopy DEF KTypeOK
    <3>6. QED BY <3>3, <3>4, <3>5
  <2>3. CASE FallbackRefuses(d) \/ FallbackFails(d)
    BY <1>1, <1>2, <1>6, <2>3 DEF FallbackRefuses, FallbackFails, Ends, Excuses, KTypeOK
  <2>4. CASE Crash(d)
    BY <1>1, <1>2, <1>6, <2>4 DEF Crash, Excuses, KTypeOK
  <2>5. QED BY <2>1, <2>2, <2>3, <2>4
<1>7. CASE Writing(d) /\ item(d) = i /\ pc[d] = "return"
  <2>1. Return(d)
    BY <1>7 DEF Step, Keyring, Fallback, Call, NoBackend, Failed, Hit, Miss, Change, DeleteRefused,
                FallbackReads, FallbackWrites, FallbackRefuses, FallbackFails, Crash
  <2>2. ring' = ring /\ file' = file
    BY <2>1 DEF Return
  <2>3. PICK c \in Client : Writing(c) /\ item(c) = i /\ pc[c] = "fallback"
    BY <1>2, <2>2, <1>1 DEF Accounted
  <2>4. QED BY <1>3, <1>7, <2>3
<1>8. QED BY <1>1, <1>4, <1>5, <1>6, <1>7 DEF Writing, KTypeOK

-----------------------------------------------------------------------------
(* The theorems *)

\* The invariant holds of any number of sessions, with and without a keyring.
THEOREM KeyringInvariance == HSpec => []KInv
<1> USE ContentAssumption, KeyringAssumption
<1>1. HInit => KInv
  <2> SUFFICES ASSUME HInit
               PROVE  KInv
    OBVIOUS
  <2>1. KTypeOK
    BY DEF HInit, Init, KTypeOK
  <2>2. \A i \in Item : ring[i] = None
    BY DEF HInit, Init
  <2>3. Accounted
    BY <2>2 DEF Accounted, Copies
  <2>4. \A c \in Client : Phase(c) /\ RingTaken(c) /\ FileTaken(c) /\ AnswerTaken(c)
    BY DEF HInit, Init, Phase, RingTaken, FileTaken, AnswerTaken, Writing
  <2>5. QED BY <2>1, <2>3, <2>4 DEF KInv
<1>2. KInv /\ [Next /\ Record]_<<kvars, history>> => KInv'
  <2> SUFFICES ASSUME KInv, [Next /\ Record]_<<kvars, history>>
               PROVE  KInv'
    OBVIOUS
  <2>1. CASE Next /\ Record
    <3>1. PICK d \in Client : Step(d)
      BY <2>1 DEF Next
    <3>2. KTypeOK' /\ Phase(d)' /\ RingTaken(d)' /\ FileTaken(d)' /\ AnswerTaken(d)'
      BY <2>1, <3>1, OwnStep, OwnAnswer
    <3>3. \A c \in Client \ {d} :
            Phase(c)' /\ RingTaken(c)' /\ FileTaken(c)' /\ AnswerTaken(c)'
      BY <2>1, <3>1, OthersStep
    <3>4. Accounted'
      BY <2>1, <3>1, AccountedStep
    <3>5. QED BY <3>2, <3>3, <3>4 DEF KInv
  <2>2. CASE UNCHANGED <<kvars, history>>
    <3>1. /\ UNCHANGED <<ring, file, pc, call, status, outcome>>
          /\ UNCHANGED <<excused, touched, undeleted>>
      BY <2>2 DEF kvars, history
    <3>2. KTypeOK'
      BY <3>1 DEF KInv, KTypeOK
    <3>3. \A c \in Client : Phase(c)' /\ RingTaken(c)' /\ FileTaken(c)' /\ AnswerTaken(c)'
      BY <3>1 DEF KInv, Phase, RingTaken, FileTaken, AnswerTaken, Writing, item, NewValue,
                  Effective, FileValue, cleaned
    <3>4. Accounted'
      BY <3>1 DEF KInv, Accounted, Writing, item
    <3>5. QED BY <3>2, <3>3, <3>4 DEF KInv
  <2>3. QED BY <2>1, <2>2
<1>3. QED BY <1>1, <1>2, PTL DEF HSpec

\* A get that nobody's write overlaps answers what is set, the keyring's value before
\* the file's, or an error: a keyring that fails is not bridged by a copy in the file
\* that it shadows (KeyringBackend.get).
THEOREM AnswersAreCurrent == HSpec => []AnswerIsCurrent
<1>1. KInv => AnswerIsCurrent
  BY DEF KInv, AnswerTaken, AnswerIsCurrent
<1>2. QED BY <1>1, KeyringInvariance, PTL

\* A set or unset that returns success is in the keyring, but for a delete that it
\* refused, and in no file copy, or, without a keyring, in the file, unless somebody
\* else wrote the item meanwhile.
THEOREM AckedWritesTakeHold == HSpec => []AckedWriteTakesHold
<1>1. KInv => AckedWriteTakesHold
  <2> SUFFICES ASSUME KInv, NEW c \in Client, pc[c] = "return", Writing(c),
                      outcome[c] = Ok, c \notin touched
               PROVE  LET i == item(c)
                      IN  IF status[c] = "ok"
                          THEN /\ c \notin undeleted => ring[i] = NewValue(c)
                               /\ c \notin Bare => ~InFile(i)
                          ELSE /\ InFile(i) <=> call[c].kind = "set"
                               /\ call[c].kind = "set" =>
                                    Section(Loaded(file), i[1])[i[2]] = NewValue(c)
    BY DEF AckedWriteTakesHold, NewValue
  <2>1. RingTaken(c) /\ FileTaken(c)
    BY DEF KInv
  <2>2. item(c) \in Item
    BY ItemType DEF KInv, Phase, Writing, IsWrite
  <2>3. InFile(item(c)) <=> item(c) \in Copies(file)
    BY <2>2 DEF InFile, Copies
  <2>4. QED BY <2>1, <2>3 DEF RingTaken, FileTaken, Copy
<1>2. QED BY <1>1, KeyringInvariance, PTL

\* No plaintext copy stays in the file behind a keyring entry, but while its writer is
\* between its two calls, or where it was excused by an error, a crash or a session
\* without keyring or fallback.
THEOREM CopiesAreAccountedFor == HSpec => []NoShadowedCopy
<1>1. KInv => NoShadowedCopy
  BY DEF KInv, Accounted, NoShadowedCopy, InFile, Copies
<1>2. QED BY <1>1, KeyringInvariance, PTL
=============================================================================
