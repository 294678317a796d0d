---------------------------- MODULE DirectoryStore ----------------------------
(***************************************************************************)
(* DirectoryStore: one file for each record, replaced by renaming a        *)
(* temporary file over it.  Writers and deleters of all keys share the     *)
(* file lock "mutation"; readers take no lock.                             *)
(*                                                                         *)
(* A file that was written but not synced may be torn by a loss of power,  *)
(* and a rename or removal that was not followed by a sync of the          *)
(* directory may be undone by it.                                          *)
(***************************************************************************)
CONSTANTS Callers, Keys, Values, Absent, Nobody

VARIABLES
    record,     \* the file of each key
    possible,   \* for each key, the files a loss of power may leave there
    mutation,   \* the holder of the file lock "mutation"
    temporary,  \* the temporary file of each process
    at,         \* the next step of each process
    call        \* the call each process has made

storeVars == <<record, possible, mutation, temporary, at, call>>

\* A file is torn until all of it is written and synced when it is on disk.
Files == [value : Values, state : {"torn", "whole", "synced"}]
Missing == [value |-> Absent, state |-> "synced"]

Requests ==
    [op : {"read"}, key : Keys, expected : {Absent}, new : {Absent},
     answer : {Nobody}]
    \cup [op : {"write"}, key : Keys, expected : Values \cup {Absent},
          new : Values, answer : {Nobody}]
    \cup [op : {"delete"}, key : Keys, expected : Values, new : {Absent},
          answer : {Nobody}]

Answers == Values \cup {Absent, Nobody, "done", "refused", "error"}

Calls ==
    [op : {"read", "write", "delete"}, key : Keys,
     expected : Values \cup {Absent}, new : Values \cup {Absent},
     answer : Answers]

ASSUME NobodyAssumption == Nobody \notin Callers /\ Nobody \notin Calls

StoreInit ==
    /\ record = [k \in Keys |-> Missing]
    /\ possible = [k \in Keys |-> {Missing}]
    /\ mutation = Nobody
    /\ temporary = [p \in Callers |-> Missing]
    /\ at = [p \in Callers |-> "idle"]
    /\ call = [p \in Callers |-> Nobody]

Proceed(p, s) == at' = [at EXCEPT ![p] = s]

Answer(p, a) ==
    /\ call' = [call EXCEPT ![p].answer = a]
    /\ Proceed(p, "return")

----------------------------------------------------------------------------
Invoke(p) ==
    /\ at[p] = "idle"
    /\ \E c \in Requests :
          /\ call' = [call EXCEPT ![p] = c]
          /\ Proceed(p, IF c.op = "read" THEN "read" ELSE "lock")
    /\ UNCHANGED <<record, possible, mutation, temporary>>

\* read(): the file is opened and read, and never written once it has the
\* record's name.
Read(p) ==
    /\ at[p] = "read"
    /\ Answer(p, IF record[call[p].key].state = "torn" THEN "torn"
                 ELSE record[call[p].key].value)
    /\ UNCHANGED <<record, possible, mutation, temporary>>

\* mutation(), which waits at most MUTATION_TIMEOUT: then the call fails.
TakeMutation(p) ==
    /\ at[p] = "lock" /\ mutation = Nobody
    /\ mutation' = p
    /\ Proceed(p, "compare")
    /\ UNCHANGED <<record, possible, temporary, call>>

Compare(p) ==
    /\ at[p] = "compare"
    /\ IF record[call[p].key].value = call[p].expected
         THEN /\ Proceed(p, IF call[p].op = "write" THEN "create" ELSE "remove")
              /\ UNCHANGED call
         ELSE Answer(p, "refused")
    /\ UNCHANGED <<record, possible, mutation, temporary>>

\* replace(): the temporary file is created and filled ...
CreateTemporary(p) ==
    /\ at[p] = "create"
    /\ temporary' = [temporary EXCEPT ![p] =
                       [value |-> call[p].new, state |-> "torn"]]
    /\ Proceed(p, "write")
    /\ UNCHANGED <<record, possible, mutation, call>>

WriteTemporary(p) ==
    /\ at[p] = "write"
    /\ temporary' = [temporary EXCEPT ![p].state = "whole"]
    /\ Proceed(p, "sync")
    /\ UNCHANGED <<record, possible, mutation, call>>

\* ... synced ...
SyncTemporary(p) ==
    /\ at[p] = "sync"
    /\ temporary' = [temporary EXCEPT ![p].state = "synced"]
    /\ Proceed(p, "rename")
    /\ UNCHANGED <<record, possible, mutation, call>>

Place(p, file) ==
    LET k == call[p].key
    IN  /\ record' = [record EXCEPT ![k] = file]
        /\ possible' = [possible EXCEPT ![k] = @ \cup {file}]

\* ... renamed over the record ...
Rename(p) ==
    /\ at[p] = "rename"
    /\ Place(p, temporary[p])
    /\ temporary' = [temporary EXCEPT ![p] = Missing]
    /\ Proceed(p, "settle")
    /\ UNCHANGED <<mutation, call>>

\* delete(): the file is removed ...
Remove(p) ==
    /\ at[p] = "remove"
    /\ Place(p, Missing)
    /\ Proceed(p, "settle")
    /\ UNCHANGED <<mutation, temporary, call>>

SkipDirectory(p) ==
    /\ at[p] = "settle"
    /\ Answer(p, "done")
    /\ UNCHANGED <<record, possible, mutation, temporary>>

\* ... and the directory synced.
SyncDirectory(p) ==
    /\ at[p] = "settle"
    /\ possible' = [k \in Keys |-> {record[k]}]
    /\ Answer(p, "done")
    /\ UNCHANGED <<record, mutation, temporary>>

\* A step fails, or the lock stays busy; the temporary file is removed.
Fail(p) ==
    /\ at[p] \notin {"idle", "return"}
    /\ Answer(p, "error")
    /\ temporary' = [temporary EXCEPT ![p] = Missing]
    /\ UNCHANGED <<record, possible, mutation>>

\* The lock is dropped when the call returns and when its process dies, which
\* leaves the temporary file under a name that keys() skips.
End(p) ==
    /\ Proceed(p, "idle")
    /\ call' = [call EXCEPT ![p] = Nobody]
    /\ mutation' = IF mutation = p THEN Nobody ELSE mutation
    /\ temporary' = [temporary EXCEPT ![p] = Missing]
    /\ UNCHANGED <<record, possible>>

Return(p) == at[p] = "return" /\ End(p)

Die(p) == at[p] \notin {"idle", "return"} /\ End(p)

\* What the disk may hold of a file when the power is lost.
Remains(f) ==
    IF f.state = "synced" THEN {f}
    ELSE {[f EXCEPT !.state = s] : s \in {"torn", "synced"}}

PowerLoss ==
    /\ record' \in [Keys -> Files \cup {Missing}]
    /\ \A k \in Keys : \E f \in possible[k] : record'[k] \in Remains(f)
    /\ possible' = [k \in Keys |-> {record'[k]}]
    /\ mutation' = Nobody
    /\ temporary' = [p \in Callers |-> Missing]
    /\ at' = [p \in Callers |-> "idle"]
    /\ call' = [p \in Callers |-> Nobody]

StoreStep(p) ==
    \/ Invoke(p) \/ Read(p) \/ TakeMutation(p) \/ Compare(p)
    \/ CreateTemporary(p) \/ WriteTemporary(p) \/ SyncTemporary(p)
    \/ Rename(p) \/ Remove(p) \/ SyncDirectory(p)
    \/ Fail(p) \/ Return(p) \/ Die(p)

StoreNext == (\E p \in Callers : StoreStep(p)) \/ PowerLoss

StoreSpec == StoreInit /\ [][StoreNext]_storeVars

----------------------------------------------------------------------------
StoreSteps == {"idle", "read", "lock", "compare", "create", "write", "sync",
          "rename", "remove", "settle", "return"}

StoreTypeOK ==
    /\ record \in [Keys -> Files \cup {Missing}]
    /\ possible \in [Keys -> SUBSET (Files \cup {Missing})]
    /\ mutation \in Callers \cup {Nobody}
    /\ temporary \in [Callers -> Files \cup {Missing}]
    /\ at \in [Callers -> StoreSteps]
    /\ call \in [Callers -> Calls \cup {Nobody}]
    /\ \A p \in Callers : at[p] = "idle" <=> call[p] = Nobody

\* "no partial or torn value is ever visible": what a reader finds, and what
\* it may find after a loss of power, is always a complete record on disk.
NeverTorn ==
    \A k \in Keys : \A f \in possible[k] \cup {record[k]} : f.state = "synced"

\* The steps from the comparison to the change.
Changing == {"create", "write", "sync", "rename", "remove"}

\* The comparison a write or delete is based on still holds when it changes
\* the record, whoever else writes, fails or dies in between.
ComparisonHolds ==
    \A p \in Callers : at[p] \in Changing =>
        record[call[p].key].value = call[p].expected

Register == INSTANCE CompareAndSet WITH
    value <- [k \in Keys |-> record[k].value],
    survivors <- [k \in Keys |-> {f.value : f \in possible[k]}],
    took <- {p \in Callers : at[p] = "settle"}

\* The store is an atomic, durable compare-and-set register for each key.
ImplementsRegister == Register!ASpec
=============================================================================
