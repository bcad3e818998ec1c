------------------------- MODULE KeyringProperties -------------------------
(***************************************************************************)
(* What makes the keyring backend correct.  Four history variables record  *)
(* what the properties speak of; no step of the program depends on them.   *)
(***************************************************************************)
EXTENDS KeyringStore

VARIABLES
    excused,    \* items whose copy in the file is accounted for
    seenUnset,  \* clients whose item was set nowhere at some instant of the call
    touched,    \* clients on whose item another client wrote during the call
    undeleted   \* clients in an unset whose item the keyring has not let go

history == <<excused, seenUnset, touched, undeleted>>

InFile(i)     == Loads(file, i[1]) /\ i[2] \in NamesOf(Loaded(file), i[1])
FileValue(i)  == IF Loads(file, i[1]) THEN Lookup(Loaded(file), i[1], i[2]) ELSE None
SetNowhere(i) == cleaned(i) = None /\ FileValue(i) = None

\* The client is in a call that names an item.
Busy(c)    == pc[c] # "idle" /\ call[c].kind # "names"
Writing(c) == pc[c] # "idle" /\ IsWrite(call[c])

\* The writer that may leave a copy behind: it was told of an error, it died, it
\* has no fallback to clear, or it wrote the copy itself, having no keyring.
Excuses(c) ==
    Writing(c) /\ pc[c] # "return"
      /\ (pc'[c] = "idle" \/ outcome'[c] = Error \/ status'[c] = "no_backend" \/ c \in Bare)

HInit ==
    /\ Init
    /\ excused = {}
    /\ seenUnset = {}
    /\ touched = {}
    /\ undeleted = {}

\* The keyring answered the delete, and the item is still there.
Withheld(c) ==
    /\ pc[c] = "keyring" /\ call[c].kind = "unset"
    /\ status'[c] = "ok" /\ ring'[item(c)] # None

Record ==
    /\ excused' = {i \in excused \cup {item(c) : c \in {d \in Client : Excuses(d)}} : InFile(i)'}
    /\ seenUnset' = {c \in Client : Busy(c)' /\ (c \in seenUnset \/ SetNowhere(item(c))')}
    /\ touched' = {c \in Client :
                     /\ Busy(c)'
                     /\ c \in touched \/ \E d \in Client \ {c} : Writing(d) /\ item(d) = item(c)'}
    /\ undeleted' = {c \in Client : Busy(c)' /\ (c \in undeleted \/ Withheld(c))}

HSpec == HInit /\ [][Next /\ Record]_<<kvars, history>>

-----------------------------------------------------------------------------

\* A plaintext copy behind a keyring entry remains only while a writer of it is
\* between its two calls, or where KeyringBackend.set or unset said it may (an error),
\* its process died, or a session without keyring or fallback wrote the entry.
NoShadowedCopy ==
    \A i \in Item :
        ring[i] # None /\ InFile(i)
            => i \in excused \/ \E c \in Client : Writing(c) /\ item(c) = i /\ pc[c] = "fallback"

\* A set or unset about to return success has taken hold when nobody else wrote the
\* item meanwhile: in the keyring, but for a delete that it refused, and in no file
\* copy, or, without a keyring, in the file (KeyringBackend.set, unset).
AckedWriteTakesHold ==
    \A c \in Client :
        pc[c] = "return" /\ Writing(c) /\ outcome[c] = Ok /\ c \notin touched =>
            LET i == item(c)
                new == IF call[c].kind = "set" THEN call[c].value ELSE None
            IN  IF status[c] = "ok" THEN /\ c \notin undeleted => ring[i] = new
                                         /\ c \notin Bare => ~InFile(i)
                ELSE /\ InFile(i) <=> call[c].kind = "set"
                     /\ call[c].kind = "set" => Section(Loaded(file), i[1])[i[2]] = new

\* What a session has under item i: the keyring's value, where it reaches one, before
\* the file's.
Effective(c, i) ==
    IF c \in Headless THEN FileValue(i)
    ELSE IF cleaned(i) # None \/ c \in Bare THEN cleaned(i) ELSE FileValue(i)

\* A get that answers, when nobody wrote the item meanwhile, answers what is set: a
\* copy in the file that the keyring's value shadows is never served, not even when
\* the keyring fails (KeyringBackend.get: "fail closed").
AnswerIsCurrent ==
    \A c \in Client :
        (/\ pc[c] = "return" /\ call[c].kind = "get"
         /\ outcome[c] # Error /\ c \notin touched)
            => outcome[c] = [kind |-> "value", value |-> Effective(c, item(c))]

\* An unset that returns success leaves nothing in the keyring, unless somebody else
\* wrote the item meanwhile (KeyringBackend.unset: "raises rather than silently
\* reporting a delete that may not have happened").
AckedUnsetIsGone ==
    \A c \in Client :
        (/\ pc[c] = "return" /\ call[c].kind = "unset" /\ outcome[c] = Ok
         /\ status[c] = "ok" /\ c \notin touched)
            => ring[item(c)] = None

\* get answers None only when, at some instant of the call, the item was set neither
\* in the keyring nor in the file (KeyringBackend.get: "or None when set nowhere").
NoneOnlyWhenSetNowhere ==
    \A c \in Client \ (Headless \cup Bare) :
        pc[c] = "return" /\ call[c].kind = "get" /\ outcome[c] = [kind |-> "value", value |-> None]
            => c \in seenUnset
=============================================================================
