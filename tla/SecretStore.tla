---------------------------- MODULE SecretStore ----------------------------
(***************************************************************************)
(* What a file-based SecretBackend promises its callers, with no lock, no  *)
(* temporary file and no snapshot: every set or unset takes effect at one  *)
(* instant on the content the store has at that instant, every get or      *)
(* names answers from one instant's content, a refused operation changes   *)
(* nothing, and what a writer was told is stored survives a power loss.    *)
(***************************************************************************)
EXTENDS StoreContent

CONSTANTS
    Client,       \* the concurrent callers
    Ops,          \* the operations they issue
    InitContent,  \* contents the store may start with
    DirSync       \* TRUE when the file system can sync a directory

VARIABLES
    store,        \* the content readers see
    recoverable,  \* the contents a power loss may leave
    phase,        \* where each client is in its call
    call,         \* the operation it issued
    outcome       \* what it gets back, once decided

svars == <<store, recoverable, phase, call, outcome>>

Phase == {"idle", "called", "applied", "done"}

Init ==
    /\ store \in InitContent
    /\ recoverable = {store}
    /\ phase = [c \in Client |-> "idle"]
    /\ call = [c \in Client |-> None]
    /\ outcome = [c \in Client |-> None]

Invoke(c) ==
    /\ phase[c] = "idle"
    /\ \E op \in Ops : call' = [call EXCEPT ![c] = op]
    /\ phase' = [phase EXCEPT ![c] = "called"]
    /\ UNCHANGED <<store, recoverable, outcome>>

\* The call ends with nothing written: a read, a refusal, an unset of nothing.
Decide(c, result) ==
    /\ phase[c] = "called"
    /\ phase' = [phase EXCEPT ![c] = "done"]
    /\ outcome' = [outcome EXCEPT ![c] = result]
    /\ UNCHANGED <<store, recoverable, call>>

Query(c) ==
    /\ phase[c] = "called" /\ ~IsWrite(call[c])
    /\ Loads(store, call[c].ns)
    /\ Decide(c, Answer(call[c], Loaded(store)))

Refuse(c) == Decide(c, Error)

NothingToUnset(c) ==
    /\ phase[c] = "called" /\ IsWrite(call[c])
    /\ Loads(store, call[c].ns)
    /\ ~Writes(call[c], Loaded(store))
    /\ Decide(c, Ok)

\* The instant a write takes effect.
Commit(c) ==
    /\ phase[c] = "called"
    /\ IsWrite(call[c])
    /\ Loads(store, call[c].ns)
    /\ Writes(call[c], Loaded(store))
    /\ store' = Apply(call[c], Loaded(store))
    /\ recoverable' = recoverable \cup {store'}
    /\ phase' = [phase EXCEPT ![c] = "applied"]
    /\ UNCHANGED <<call, outcome>>

\* The writer is told it is stored, and then a power loss cannot undo it; or
\* it is told of an error although the content is in place.
Acknowledge(c) ==
    /\ phase[c] = "applied"
    /\ outcome' = [outcome EXCEPT ![c] = Ok]
    /\ recoverable' = IF DirSync THEN {store} ELSE recoverable
    /\ phase' = [phase EXCEPT ![c] = "done"]
    /\ UNCHANGED <<store, call>>

ReportUnsynced(c) ==
    /\ phase[c] = "applied"
    /\ outcome' = [outcome EXCEPT ![c] = Error]
    /\ phase' = [phase EXCEPT ![c] = "done"]
    /\ UNCHANGED <<store, recoverable, call>>

\* A step after the write took effect fails, the unlocking: the writer is told of an
\* error although the store holds its write, even durably.
FailAfterwards(c) ==
    /\ phase[c] = "done" /\ IsWrite(call[c])
    /\ outcome' = [outcome EXCEPT ![c] = Error]
    /\ UNCHANGED <<store, recoverable, phase, call>>

Return(c) ==
    /\ phase[c] = "done"
    /\ phase' = [phase EXCEPT ![c] = "idle"]
    /\ call' = [call EXCEPT ![c] = None]
    /\ outcome' = [outcome EXCEPT ![c] = None]
    /\ UNCHANGED <<store, recoverable>>

\* The calls of some clients end unanswered: their process is gone.
Vanish(gone) ==
    /\ phase' = [c \in Client |-> IF c \in gone THEN "idle" ELSE phase[c]]
    /\ call' = [c \in Client |-> IF c \in gone THEN None ELSE call[c]]
    /\ outcome' = [c \in Client |-> IF c \in gone THEN None ELSE outcome[c]]

ProcessDies ==
    /\ \E gone \in SUBSET Client : Vanish(gone)
    /\ UNCHANGED <<store, recoverable>>

PowerLoss ==
    /\ store' \in recoverable
    /\ recoverable' = {store'}
    /\ Vanish(Client)

Step(c) == \/ Invoke(c) \/ Query(c) \/ Refuse(c) \/ NothingToUnset(c)
           \/ Commit(c) \/ Acknowledge(c) \/ ReportUnsynced(c)
           \/ FailAfterwards(c) \/ Return(c)

Next == (\E c \in Client : Step(c)) \/ ProcessDies \/ PowerLoss

Spec == Init /\ [][Next]_svars
=============================================================================
