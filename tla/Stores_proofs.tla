---------------------------- MODULE Stores_proofs ----------------------------
(***************************************************************************)
(* The two state stores.                                                   *)
(*                                                                         *)
(* DirectoryStore implements a durable compare-and-set register for each   *)
(* key, for any number of callers, keys and values.                        *)
(*                                                                         *)
(* The comparison holds until the change because the lock "mutation" is    *)
(* held from the one to the other and every change is made under it; a     *)
(* record is never torn because a file is synced before it gets the        *)
(* record's name; and a value that was confirmed survives because nothing  *)
(* else is left in the directory when the confirmation is given.           *)
(*                                                                         *)
(* The locks of MemoryStore exclude, and are never left free with a thread *)
(* asleep on them, for any number of threads and names.                    *)
(***************************************************************************)
EXTENDS DirectoryStore, MemoryLocks, TLAPS

\* The steps for which the lock is held.
Held == Changing \cup {"compare", "settle"}

Mutex == \A p \in Callers : at[p] \in Held => mutation = p

\* What a call is, step by step.
CallFits ==
    \A p \in Callers :
        /\ at[p] \notin {"idle", "return"} =>
              call[p] \in Requests /\ call[p].answer = Nobody
        /\ at[p] = "read" => call[p].op = "read"
        /\ at[p] \in Held \cup {"lock"} => call[p].op # "read"
        /\ at[p] \in Changing \ {"remove"} => call[p].op = "write"
        /\ at[p] = "remove" => call[p].op = "delete"

\* How far the temporary file is.
TemporaryFits ==
    \A p \in Callers :
        /\ at[p] \in {"write", "sync", "rename"} =>
              temporary[p].value = call[p].new
        /\ at[p] = "rename" => temporary[p].state = "synced"

Present == \A k \in Keys : record[k] \in possible[k]

IInv ==
    /\ StoreTypeOK
    /\ Mutex
    /\ CallFits
    /\ TemporaryFits
    /\ Present
    /\ NeverTorn
    /\ ComparisonHolds

----------------------------------------------------------------------------
LEMMA RequestsAreCalls == Requests \subseteq Calls
  BY DEF Requests, Calls, Answers

LEMMA FilesShape ==
    /\ Missing.value = Absent /\ Missing.state = "synced"
    /\ \A f \in Files \cup {Missing} :
          f.value \in Values \cup {Absent}
          /\ f.state \in {"torn", "whole", "synced"}
  BY DEF Files, Missing

LEMMA RequestShape ==
    ASSUME NEW c \in Requests
    PROVE  /\ c.key \in Keys /\ c.answer = Nobody
           /\ c.op \in {"read", "write", "delete"}
           /\ c.op = "write" => c.new \in Values
           /\ c.op = "delete" => c.new = Absent
           /\ c.expected \in Values \cup {Absent}
  BY DEF Requests

LEMMA InitIInv == StoreInit => IInv
  BY FilesShape DEF StoreInit, IInv, StoreTypeOK, Mutex, CallFits, TemporaryFits, Present,
     NeverTorn, ComparisonHolds, Held, Changing, StoreSteps

----------------------------------------------------------------------------
(* The steps of one call.                                                  *)

\* A step that leaves the records alone and does not take the lock.
LEMMA OwnStep ==
    ASSUME IInv, NEW p \in Callers,
           UNCHANGED <<record, possible, mutation>>,
           NEW s \in StoreSteps \ {"idle"}, at' = [at EXCEPT ![p] = s],
           s \in Held => at[p] \in Held,
           NEW c \in Calls, call' = [call EXCEPT ![p] = c],
           NEW f \in Files \cup {Missing},
           temporary' = [temporary EXCEPT ![p] = f],
           s # "return" => c \in Requests /\ c.answer = Nobody,
           s = "read" => c.op = "read",
           s \in Held \cup {"lock"} => c.op # "read",
           s \in Changing \ {"remove"} => c.op = "write",
           s = "remove" => c.op = "delete",
           s \in Changing => record[c.key].value = c.expected,
           s \in {"write", "sync", "rename"} => f.value = c.new,
           s = "rename" => f.state = "synced"
    PROVE  IInv'
  <1> USE DEF IInv
  <1>1. StoreTypeOK'
    BY NobodyAssumption DEF StoreTypeOK
  <1>2. Mutex'
    BY DEF Mutex, StoreTypeOK
  <1>3. CallFits'
    BY DEF CallFits, StoreTypeOK
  <1>4. TemporaryFits'
    BY DEF TemporaryFits, StoreTypeOK
  <1>5. Present' /\ NeverTorn'
    BY DEF Present, NeverTorn
  <1>6. ComparisonHolds'
    BY DEF ComparisonHolds, StoreTypeOK
  <1> QED
    BY <1>1, <1>2, <1>3, <1>4, <1>5, <1>6

LEMMA AnswerCalls ==
    ASSUME NEW c \in Calls, NEW a \in Answers
    PROVE  [c EXCEPT !.answer = a] \in Calls
  BY DEF Calls

LEMMA AnswerKeeps ==
    ASSUME IInv, NEW p \in Callers, NEW a \in Answers, Answer(p, a),
           at[p] # "idle",
           UNCHANGED <<record, possible, mutation>>,
           NEW f \in Files \cup {Missing},
           temporary' = [temporary EXCEPT ![p] = f]
    PROVE  IInv'
  <1>1. call[p] \in Calls
    BY DEF IInv, StoreTypeOK
  <1>2. call' = [call EXCEPT ![p] = [call[p] EXCEPT !.answer = a]]
    BY DEF Answer
  <1>3. [call[p] EXCEPT !.answer = a] \in Calls
    BY <1>1, AnswerCalls
  <1>4. at' = [at EXCEPT ![p] = "return"]
    BY DEF Answer, Proceed
  <1> DEFINE s == "return"
             c == [call[p] EXCEPT !.answer = a]
  <1>5. /\ s \in StoreSteps \ {"idle"}
        /\ s \notin Held \cup {"lock", "read", "write", "sync", "rename"}
        /\ s \notin Changing /\ s # "remove"
    BY DEF StoreSteps, Held, Changing
  <1>6. s = "return" /\ c \in Calls /\ call' = [call EXCEPT ![p] = c]
        /\ at' = [at EXCEPT ![p] = s]
    BY <1>2, <1>3, <1>4
  <1> HIDE DEF s, c
  <1> QED
    BY <1>5, <1>6, OwnStep

LEMMA SameTemporary ==
    ASSUME StoreTypeOK, NEW p \in Callers, UNCHANGED temporary
    PROVE  /\ temporary[p] \in Files \cup {Missing}
           /\ temporary' = [temporary EXCEPT ![p] = temporary[p]]
  BY DEF StoreTypeOK

LEMMA SameCall ==
    ASSUME IInv, NEW p \in Callers, UNCHANGED call, at[p] # "idle"
    PROVE  /\ call[p] \in Calls
           /\ call' = [call EXCEPT ![p] = call[p]]
  BY DEF IInv, StoreTypeOK

\* A step within a call that goes on.
LEMMA WithinCall ==
    ASSUME IInv, NEW p \in Callers, at[p] \notin {"idle", "return"},
           UNCHANGED <<record, possible, mutation, call>>,
           NEW s \in StoreSteps \ {"idle", "return"}, at' = [at EXCEPT ![p] = s],
           s \in Held => at[p] \in Held,
           NEW f \in Files \cup {Missing},
           temporary' = [temporary EXCEPT ![p] = f],
           s = "read" => call[p].op = "read",
           s \in Held \cup {"lock"} => call[p].op # "read",
           s \in Changing \ {"remove"} => call[p].op = "write",
           s = "remove" => call[p].op = "delete",
           s \in Changing =>
              record[call[p].key].value = call[p].expected,
           s \in {"write", "sync", "rename"} => f.value = call[p].new,
           s = "rename" => f.state = "synced"
    PROVE  IInv'
  <1> DEFINE c == call[p]
  <1>1. c \in Calls /\ call' = [call EXCEPT ![p] = c]
    BY SameCall
  <1>2. c \in Requests /\ c.answer = Nobody
    BY DEF IInv, CallFits
  <1> HIDE DEF c
  <1>3. c = call[p]
    BY DEF c
  <1> QED
    BY <1>1, <1>2, <1>3, OwnStep

\* A change of the record leaves a process that does not hold the lock in
\* what it knows.
LEMMA PlaceKeeps ==
    ASSUME IInv, NEW p \in Callers, at[p] \in Held,
           NEW file \in Files \cup {Missing}, file.state = "synced",
           Place(p, file), at' = [at EXCEPT ![p] = "settle"],
           NEW f \in Files \cup {Missing},
           temporary' = [temporary EXCEPT ![p] = f],
           UNCHANGED <<mutation, call>>
    PROVE  IInv'
  <1> USE DEF IInv
  <1>1. call[p] \in Requests /\ call[p].answer = Nobody /\ call[p].op # "read"
    BY DEF CallFits, Held, Changing
  <1>2. call[p].key \in Keys
    BY <1>1, RequestShape
  <1>3. \A q \in Callers \ {p} : at'[q] = at[q] /\ at[q] \notin Held
    BY NobodyAssumption DEF Mutex, StoreTypeOK
  <1>4. StoreTypeOK'
    BY <1>2 DEF StoreTypeOK, Place, StoreSteps, Held, Changing
  <1>5. Mutex'
    BY <1>3 DEF Mutex, StoreTypeOK
  <1>6. CallFits'
    BY <1>1 DEF CallFits, StoreTypeOK, Changing
  <1>7. TemporaryFits'
    BY DEF TemporaryFits, StoreTypeOK
  <1>8. Present' /\ NeverTorn'
    BY <1>2 DEF Present, NeverTorn, Place, StoreTypeOK
  <1>9. ComparisonHolds'
    BY <1>3 DEF ComparisonHolds, Held, Changing, StoreTypeOK
  <1> QED
    BY <1>4, <1>5, <1>6, <1>7, <1>8, <1>9

LEMMA StepIInv ==
    ASSUME IInv, NEW p \in Callers, StoreStep(p)
    PROVE  IInv'
  <1> USE DEF Proceed
  <1> temporary[p] \in Files \cup {Missing} /\ Missing \in Files \cup {Missing}
    BY DEF IInv, StoreTypeOK
  <1>1. CASE Invoke(p)
    <2>1. PICK c \in Requests :
            /\ call' = [call EXCEPT ![p] = c]
            /\ Proceed(p, IF c.op = "read" THEN "read" ELSE "lock")
      BY <1>1 DEF Invoke
    <2>2. c \in Calls /\ c.answer = Nobody
      BY RequestsAreCalls, RequestShape
    <2>3. temporary' = [temporary EXCEPT ![p] = temporary[p]]
      BY <1>1, SameTemporary DEF Invoke, IInv
    <2>4. UNCHANGED <<record, possible, mutation>>
      BY <1>1 DEF Invoke
    <2>5. CASE c.op = "read"
      <3>1. /\ "read" \in StoreSteps \ {"idle"}
            /\ "read" \notin Held \cup {"lock"} /\ "read" \notin Changing
            /\ at' = [at EXCEPT ![p] = "read"]
        BY <2>1, <2>5 DEF StoreSteps, Held, Changing
      <3> QED
        BY <2>1, <2>2, <2>3, <2>4, <2>5, <3>1, OwnStep
    <2>6. CASE c.op # "read"
      <3>1. /\ "lock" \in StoreSteps \ {"idle"}
            /\ "lock" \notin Held /\ "lock" \notin Changing
            /\ at' = [at EXCEPT ![p] = "lock"]
        BY <2>1, <2>6 DEF StoreSteps, Held, Changing
      <3>2. "lock" # "return" /\ "lock" # "read" /\ "lock" # "remove"
        OBVIOUS
      <3>3. "lock" \notin {"write", "sync", "rename"}
        OBVIOUS
      <3>4. call' = [call EXCEPT ![p] = c] /\ c \in Calls /\ c \in Requests
        BY <2>1, <2>2
      <3> QED
        BY <2>2, <2>3, <2>4, <2>6, <3>1, <3>2, <3>3, <3>4, OwnStep
    <2> QED
      BY <2>5, <2>6
  <1>2. CASE Read(p)
    <2>1. call[p].key \in Keys
      BY <1>2, RequestShape DEF Read, IInv, CallFits
    <2>2. record[call[p].key].state = "synced"
      BY <2>1 DEF IInv, NeverTorn
    <2>3. record[call[p].key].value \in Answers
      BY <2>1, FilesShape DEF IInv, StoreTypeOK, Answers
    <2>4. Answer(p, record[call[p].key].value)
      BY <1>2, <2>2 DEF Read
    <2> QED
      BY <1>2, <2>3, <2>4, SameTemporary, AnswerKeeps DEF Read, IInv
  <1>3. CASE TakeMutation(p)
    <2>1. \A q \in Callers : at[q] \notin Held
      BY <1>3, NobodyAssumption DEF TakeMutation, IInv, Mutex
    <2>2. StoreTypeOK'
      BY <1>3 DEF TakeMutation, IInv, StoreTypeOK, StoreSteps
    <2>3. Mutex'
      BY <1>3, <2>1 DEF TakeMutation, IInv, Mutex, StoreTypeOK
    <2>4. CallFits'
      BY <1>3 DEF TakeMutation, IInv, CallFits, StoreTypeOK, Held, Changing
    <2>5. TemporaryFits' /\ Present' /\ NeverTorn'
      BY <1>3 DEF TakeMutation, IInv, TemporaryFits, Present, NeverTorn, StoreTypeOK
    <2>6. ComparisonHolds'
      BY <1>3 DEF TakeMutation, IInv, ComparisonHolds, StoreTypeOK, Changing
    <2> QED
      BY <2>2, <2>3, <2>4, <2>5, <2>6 DEF IInv
  <1>4. CASE Compare(p)
    <2>1. call[p] \in Requests /\ call[p].op # "read"
      BY <1>4 DEF Compare, IInv, CallFits, Held
    <2>2. UNCHANGED <<record, possible, mutation, temporary>>
      BY <1>4 DEF Compare
    <2>3. CASE record[call[p].key].value # call[p].expected
      <3>1. Answer(p, "refused") /\ "refused" \in Answers
        BY <1>4, <2>3 DEF Compare, Answers
      <3> QED
        BY <1>4, <2>2, <3>1, SameTemporary, AnswerKeeps DEF Compare, IInv
    <2>4. CASE /\ record[call[p].key].value = call[p].expected
               /\ call[p].op = "write"
      <3>1. /\ "create" \in StoreSteps \ {"idle", "return"}
            /\ at' = [at EXCEPT ![p] = "create"]
            /\ UNCHANGED call
        BY <1>4, <2>4 DEF Compare, StoreSteps
      <3>2. at[p] \notin {"idle", "return"} /\ at[p] \in Held
        BY <1>4 DEF Compare, Held
      <3>3. "create" \notin {"read", "write", "sync", "rename", "remove"}
        OBVIOUS
      <3>4. /\ temporary[p] \in Files \cup {Missing}
            /\ temporary' = [temporary EXCEPT ![p] = temporary[p]]
        BY <2>2, SameTemporary DEF IInv
      <3> QED
        BY <2>1, <2>2, <2>4, <3>1, <3>2, <3>3, <3>4, WithinCall
    <2>5. CASE /\ record[call[p].key].value = call[p].expected
               /\ call[p].op = "delete"
      <3>1. /\ "remove" \in StoreSteps \ {"idle", "return"}
            /\ at' = [at EXCEPT ![p] = "remove"]
            /\ UNCHANGED call
        BY <1>4, <2>5 DEF Compare, StoreSteps
      <3>2. at[p] \notin {"idle", "return"} /\ at[p] \in Held
        BY <1>4 DEF Compare, Held
      <3>3. "remove" \notin {"read", "write", "sync", "rename"}
        OBVIOUS
      <3>4. /\ temporary[p] \in Files \cup {Missing}
            /\ temporary' = [temporary EXCEPT ![p] = temporary[p]]
        BY <2>2, SameTemporary DEF IInv
      <3> QED
        BY <2>1, <2>2, <2>5, <3>1, <3>2, <3>3, <3>4, WithinCall
    <2> QED
      BY <2>1, <2>3, <2>4, <2>5, RequestShape
  <1>5. CASE CreateTemporary(p)
    <2> DEFINE f == [value |-> call[p].new, state |-> "torn"]
    <2>1. call[p].new \in Values /\ call[p].op = "write"
      BY <1>5, RequestShape DEF CreateTemporary, IInv, CallFits, Held, Changing
    <2>2. f \in Files /\ f.value = call[p].new
      BY <2>1 DEF Files
    <2>3. /\ "write" \in StoreSteps \ {"idle", "return"}
          /\ at[p] \notin {"idle", "return"} /\ at[p] \in Held
          /\ at' = [at EXCEPT ![p] = "write"]
          /\ temporary' = [temporary EXCEPT ![p] = f]
          /\ UNCHANGED <<record, possible, mutation, call>>
      BY <1>5 DEF CreateTemporary, StoreSteps, Held, Changing
    <2>4. record[call[p].key].value = call[p].expected
      BY <1>5 DEF CreateTemporary, IInv, ComparisonHolds, Changing
    <2> HIDE DEF f
    <2> QED
      BY <2>1, <2>2, <2>3, <2>4, WithinCall
  <1>6. CASE WriteTemporary(p)
    <2> DEFINE f == [temporary[p] EXCEPT !.state = "whole"]
    <2>1. /\ call[p].op = "write" /\ call[p].new \in Values
          /\ temporary[p].value = call[p].new
      BY <1>6, RequestShape
      DEF WriteTemporary, IInv, CallFits, Held, Changing, TemporaryFits
    <2>2. f \in Files \cup {Missing} /\ f.value = call[p].new
      BY <2>1 DEF Files, Missing
    <2>3. /\ "sync" \in StoreSteps \ {"idle", "return"}
          /\ at[p] \notin {"idle", "return"} /\ at[p] \in Held
          /\ at' = [at EXCEPT ![p] = "sync"]
          /\ temporary' = [temporary EXCEPT ![p] = f]
          /\ UNCHANGED <<record, possible, mutation, call>>
      BY <1>6 DEF WriteTemporary, StoreSteps, Held, Changing
    <2>4. record[call[p].key].value = call[p].expected
      BY <1>6 DEF WriteTemporary, IInv, ComparisonHolds, Changing
    <2> HIDE DEF f
    <2> QED
      BY <2>1, <2>2, <2>3, <2>4, WithinCall
  <1>7. CASE SyncTemporary(p)
    <2> DEFINE f == [temporary[p] EXCEPT !.state = "synced"]
    <2>1. /\ call[p].op = "write" /\ call[p].new \in Values
          /\ temporary[p].value = call[p].new
      BY <1>7, RequestShape
      DEF SyncTemporary, IInv, CallFits, Held, Changing, TemporaryFits
    <2>2. /\ f \in Files \cup {Missing} /\ f.value = call[p].new
          /\ f.state = "synced"
      BY <2>1 DEF Files, Missing
    <2>3. /\ "rename" \in StoreSteps \ {"idle", "return"}
          /\ at[p] \notin {"idle", "return"} /\ at[p] \in Held
          /\ at' = [at EXCEPT ![p] = "rename"]
          /\ temporary' = [temporary EXCEPT ![p] = f]
          /\ UNCHANGED <<record, possible, mutation, call>>
      BY <1>7 DEF SyncTemporary, StoreSteps, Held, Changing
    <2>4. record[call[p].key].value = call[p].expected
      BY <1>7 DEF SyncTemporary, IInv, ComparisonHolds, Changing
    <2> HIDE DEF f
    <2> QED
      BY <2>1, <2>2, <2>3, <2>4, WithinCall
  <1>8. CASE Rename(p)
    <2>1. at[p] \in Held /\ temporary[p].state = "synced"
      BY <1>8 DEF Rename, IInv, TemporaryFits, Held, Changing
    <2> QED
      BY <1>8, <2>1, PlaceKeeps DEF Rename
  <1>9. CASE Remove(p)
    <2>1. at[p] \in Held /\ Missing.state = "synced"
      BY <1>9 DEF Remove, Held, Changing, Missing
    <2> QED
      BY <1>9, <2>1, PlaceKeeps, SameTemporary DEF Remove, IInv
  <1>10. CASE SyncDirectory(p)
    <2> USE <1>10 DEF SyncDirectory
    <2>1. "done" \in Answers
      BY DEF Answers
    <2>2. \A q \in Callers : q # p => at'[q] = at[q] /\ call'[q] = call[q]
      BY DEF Answer, IInv, StoreTypeOK
    <2>3. at' = [at EXCEPT ![p] = "return"] /\ at[p] # "idle"
      BY DEF Answer
    <2>4. call[p] \in Calls
      BY <2>3 DEF IInv, StoreTypeOK
    <2>5. [call[p] EXCEPT !.answer = "done"] \in Calls
      BY <2>1, <2>4, AnswerCalls
    <2>6. call' = [call EXCEPT ![p] = [call[p] EXCEPT !.answer = "done"]]
      BY DEF Answer
    <2>7. StoreTypeOK'
      BY <2>3, <2>5, <2>6, NobodyAssumption DEF IInv, StoreTypeOK, StoreSteps
    <2>8. Mutex'
      BY <2>3 DEF IInv, Mutex, StoreTypeOK, Held, Changing
    <2>9. CallFits'
      BY <2>2, <2>3 DEF IInv, CallFits, StoreTypeOK, Held, Changing
    <2>10. TemporaryFits'
      BY <2>2, <2>3 DEF IInv, TemporaryFits, StoreTypeOK
    <2>11. Present' /\ NeverTorn'
      BY DEF IInv, Present, NeverTorn, StoreTypeOK
    <2>12. ComparisonHolds'
      BY <2>2, <2>3 DEF IInv, ComparisonHolds, StoreTypeOK, Changing
    <2> QED
      BY <2>7, <2>8, <2>9, <2>10, <2>11, <2>12 DEF IInv
  <1>11. CASE Fail(p)
    <2>1. "error" \in Answers
      BY DEF Answers
    <2> QED
      BY <1>11, <2>1, AnswerKeeps DEF Fail
  <1>12. CASE End(p)
    <2>1. /\ at' = [at EXCEPT ![p] = "idle"]
          /\ call' = [call EXCEPT ![p] = Nobody]
          /\ temporary' = [temporary EXCEPT ![p] = Missing]
          /\ UNCHANGED <<record, possible>>
      BY <1>12 DEF End
    <2>2. StoreTypeOK'
      BY <1>12, <2>1 DEF End, IInv, StoreTypeOK, StoreSteps
    <2>3. Mutex'
      BY <1>12, <2>1, NobodyAssumption DEF End, IInv, Mutex, StoreTypeOK, Held, Changing
    <2>4. CallFits'
      BY <2>1 DEF IInv, CallFits, StoreTypeOK, Held, Changing
    <2>5. TemporaryFits' /\ Present' /\ NeverTorn'
      BY <2>1 DEF IInv, TemporaryFits, Present, NeverTorn, StoreTypeOK
    <2>6. ComparisonHolds'
      BY <2>1 DEF IInv, ComparisonHolds, StoreTypeOK, Changing
    <2> QED
      BY <2>2, <2>3, <2>4, <2>5, <2>6 DEF IInv
  <1> QED
    BY <1>1, <1>2, <1>3, <1>4, <1>5, <1>6, <1>7, <1>8, <1>9, <1>10, <1>11,
       <1>12 DEF StoreStep, Return, Die

LEMMA PowerLossIInv == IInv /\ PowerLoss => IInv'
  <1> SUFFICES ASSUME IInv, PowerLoss PROVE IInv'
    OBVIOUS
  <1> USE DEF PowerLoss
  <1>1. StoreTypeOK'
    BY DEF IInv, StoreTypeOK, StoreSteps
  <1>2. Present'
    BY DEF Present
  <1>3. NeverTorn'
    <2> SUFFICES ASSUME NEW k \in Keys PROVE record'[k].state = "synced"
      BY DEF NeverTorn
    <2>1. PICK f \in possible[k] : record'[k] \in Remains(f)
      OBVIOUS
    <2>2. f.state = "synced"
      BY DEF IInv, NeverTorn
    <2> QED
      BY <2>1, <2>2 DEF Remains
  <1>4. Mutex' /\ CallFits' /\ TemporaryFits' /\ ComparisonHolds'
    BY DEF Mutex, CallFits, TemporaryFits, ComparisonHolds, Held, Changing
  <1> QED
    BY <1>1, <1>2, <1>3, <1>4 DEF IInv

\* The invariant is inductive.
THEOREM Inductive == StoreSpec => []IInv
  <1>1. IInv /\ UNCHANGED storeVars => IInv'
    BY DEF storeVars, IInv, StoreTypeOK, Mutex, CallFits, TemporaryFits, Present,
           NeverTorn, ComparisonHolds
  <1>2. IInv /\ [StoreNext]_storeVars => IInv'
    BY <1>1, StepIInv, PowerLossIInv DEF StoreNext
  <1> QED
    BY <1>2, InitIInv, PTL DEF StoreSpec

\* Every variable keeps its type: no reader is ever answered with a torn
\* record.
THEOREM TypeCorrect == StoreSpec => []StoreTypeOK
  BY Inductive, PTL DEF IInv

\* replace() and delete() never leave, and no loss of power produces, a
\* record that is not complete.
THEOREM AlwaysWhole == StoreSpec => []NeverTorn
  BY Inductive, PTL DEF IInv

\* The comparison of write() and delete() holds when they change the record,
\* for any number of competing callers.
THEOREM ComparisonAlwaysHolds == StoreSpec => []ComparisonHolds
  BY Inductive, PTL DEF IInv

----------------------------------------------------------------------------
(* The refinement.                                                         *)

LEMMA InitRefines == StoreInit => Register!AInit
  BY DEF StoreInit, Register!AInit, Missing

LEMMA OpenCall ==
    ASSUME IInv, NEW p \in Callers, at[p] \notin {"idle", "return"}
    PROVE  /\ Register!Open(p)
           /\ call[p].key \in Keys
  BY RequestShape DEF IInv, StoreTypeOK, CallFits, Register!Open

\* StoreSteps that neither change a record nor answer a call.
LEMMA Stutter ==
    ASSUME IInv, NEW p \in Callers, UNCHANGED <<record, possible, call>>,
           NEW s \in StoreSteps \ {"settle"}, at' = [at EXCEPT ![p] = s],
           at[p] # "settle"
    PROVE  UNCHANGED Register!avars
  <1>1. {q \in Callers : at[q] = "settle"}' = {q \in Callers : at[q] = "settle"}
    BY DEF IInv, StoreTypeOK
  <1> QED
    BY <1>1 DEF Register!avars

LEMMA ChangeRefines ==
    ASSUME IInv, NEW p \in Callers, at[p] \in Changing,
           NEW file \in Files \cup {Missing}, file.value = call[p].new,
           Place(p, file), at' = [at EXCEPT ![p] = "settle"],
           UNCHANGED call
    PROVE  Register!AChange(p)
  <1>1. Register!Open(p) /\ call[p].key \in Keys
    BY OpenCall DEF Changing
  <1>2. call[p].op # "read" /\ at[p] # "settle"
    BY DEF IInv, CallFits, Held, Changing
  <1>3. record[call[p].key].value = call[p].expected
    BY DEF IInv, ComparisonHolds
  <1>4. [k \in Keys |-> record[k].value]'
        = [[k \in Keys |-> record[k].value]
             EXCEPT ![call[p].key] = call[p].new]
    BY <1>1 DEF Place, IInv, StoreTypeOK
  <1>5. [k \in Keys |-> {f.value : f \in possible[k]}]'
        = [[k \in Keys |-> {f.value : f \in possible[k]}]
             EXCEPT ![call[p].key] = @ \cup {call[p].new}]
    <2> DEFINE S == [k \in Keys |-> {f.value : f \in possible[k]}]
    <2>1. ASSUME NEW k \in Keys
          PROVE  {f.value : f \in possible'[k]}
                 = IF k = call[p].key THEN S[k] \cup {call[p].new} ELSE S[k]
      <3>1. CASE k = call[p].key
        <4>1. possible'[k] = possible[k] \cup {file}
          BY <3>1 DEF Place, IInv, StoreTypeOK
        <4> QED
          BY <3>1, <4>1
      <3>2. CASE k # call[p].key
        BY <3>2 DEF Place, IInv, StoreTypeOK
      <3> QED
        BY <3>1, <3>2
    <2> QED
      BY <1>1, <2>1
  <1>6. {q \in Callers : at[q] = "settle"}'
        = {q \in Callers : at[q] = "settle"} \cup {p}
    BY DEF IInv, StoreTypeOK
  <1> QED
    BY <1>1, <1>2, <1>3, <1>4, <1>5, <1>6 DEF Register!AChange

LEMMA StepRefines ==
    ASSUME IInv, NEW p \in Callers, StoreStep(p)
    PROVE  Register!ANext \/ UNCHANGED Register!avars
  <1> USE DEF Proceed
  <1>1. CASE Invoke(p)
    <2>1. call[p] = Nobody
      BY <1>1 DEF Invoke, IInv, StoreTypeOK
    <2>2. {q \in Callers : at[q] = "settle"}' = {q \in Callers : at[q] = "settle"}
      BY <1>1 DEF Invoke, IInv, StoreTypeOK
    <2>3. Register!AInvoke(p)
      BY <1>1, <2>1, <2>2 DEF Invoke, Register!AInvoke, Requests,
                              Register!Requests
    <2> QED
      BY <2>3 DEF Register!ANext
  <1>2. CASE Read(p)
    <2>1. Register!Open(p) /\ call[p].key \in Keys
      BY <1>2, OpenCall DEF Read
    <2>2. record[call[p].key].state = "synced" /\ call[p].op = "read"
      BY <1>2, <2>1 DEF Read, IInv, NeverTorn, CallFits
    <2>3. {q \in Callers : at[q] = "settle"}' = {q \in Callers : at[q] = "settle"}
      BY <1>2 DEF Read, Answer, IInv, StoreTypeOK
    <2>4. Register!ARead(p)
      BY <1>2, <2>1, <2>2, <2>3
      DEF Read, Answer, Register!ARead, Register!AAnswer
    <2> QED
      BY <2>4 DEF Register!ANext
  <1>3. CASE TakeMutation(p)
    BY <1>3, Stutter DEF TakeMutation, StoreSteps
  <1>4. CASE Compare(p)
    <2>1. CASE record[call[p].key].value = call[p].expected
      BY <1>4, <2>1, Stutter DEF Compare, StoreSteps
    <2>2. CASE record[call[p].key].value # call[p].expected
      <3>1. Register!Open(p) /\ call[p].key \in Keys
        BY <1>4, OpenCall DEF Compare
      <3>2. call[p].op # "read"
        BY <1>4 DEF Compare, IInv, CallFits, Held
      <3>3. {q \in Callers : at[q] = "settle"}'
            = {q \in Callers : at[q] = "settle"}
        BY <1>4, <2>2 DEF Compare, Answer, IInv, StoreTypeOK
      <3>4. Register!ARefuse(p)
        BY <1>4, <2>2, <3>1, <3>2, <3>3
        DEF Compare, Answer, Register!ARefuse, Register!AAnswer
      <3> QED
        BY <3>4 DEF Register!ANext
    <2> QED
      BY <2>1, <2>2
  <1>5. CASE CreateTemporary(p)
    BY <1>5, Stutter DEF CreateTemporary, StoreSteps
  <1>6. CASE WriteTemporary(p)
    BY <1>6, Stutter DEF WriteTemporary, StoreSteps
  <1>7. CASE SyncTemporary(p)
    BY <1>7, Stutter DEF SyncTemporary, StoreSteps
  <1>8. CASE Rename(p)
    <2>1. /\ at[p] \in Changing /\ temporary[p].value = call[p].new
          /\ temporary[p] \in Files \cup {Missing}
      BY <1>8 DEF Rename, IInv, StoreTypeOK, TemporaryFits, Changing
    <2>2. Register!AChange(p)
      BY <1>8, <2>1, ChangeRefines DEF Rename
    <2> QED
      BY <2>2 DEF Register!ANext
  <1>9. CASE Remove(p)
    <2>1. at[p] \in Changing /\ Missing.value = call[p].new
      BY <1>9, RequestShape, FilesShape DEF Remove, IInv, CallFits, Changing
    <2>2. Register!AChange(p)
      BY <1>9, <2>1, ChangeRefines DEF Remove
    <2> QED
      BY <2>2 DEF Register!ANext
  <1>10. CASE SyncDirectory(p)
    <2>1. Register!Open(p)
      BY <1>10, OpenCall DEF SyncDirectory
    <2>2. [k \in Keys |-> {f.value : f \in possible[k]}]'
          = [k \in Keys |-> {[j \in Keys |-> record[j].value][k]}]
      BY <1>10 DEF SyncDirectory
    <2>3. {q \in Callers : at[q] = "settle"}'
          = {q \in Callers : at[q] = "settle"} \ {p}
      BY <1>10 DEF SyncDirectory, Answer, IInv, StoreTypeOK
    <2>4. Register!AConfirm(p)
      BY <1>10, <2>1, <2>2, <2>3
      DEF SyncDirectory, Answer, Register!AConfirm, Register!AAnswer
    <2> QED
      BY <2>4 DEF Register!ANext
  <1>11. CASE Fail(p)
    <2>1. Register!Open(p)
      BY <1>11, OpenCall DEF Fail
    <2>2. {q \in Callers : at[q] = "settle"}'
          = {q \in Callers : at[q] = "settle"} \ {p}
      BY <1>11 DEF Fail, Answer, IInv, StoreTypeOK
    <2>3. Register!AFail(p)
      BY <1>11, <2>1, <2>2 DEF Fail, Answer, Register!AFail, Register!AAnswer
    <2> QED
      BY <2>3 DEF Register!ANext
  <1>12. CASE End(p) /\ at[p] # "idle"
    <2>1. call[p] # Nobody
      BY <1>12 DEF IInv, StoreTypeOK
    <2>2. {q \in Callers : at[q] = "settle"}'
          = {q \in Callers : at[q] = "settle"} \ {p}
      BY <1>12 DEF End, IInv, StoreTypeOK
    <2>3. Register!AEnd(p)
      BY <1>12, <2>1, <2>2 DEF End, Register!AEnd
    <2> QED
      BY <2>3 DEF Register!ANext
  <1> QED
    BY <1>1, <1>2, <1>3, <1>4, <1>5, <1>6, <1>7, <1>8, <1>9, <1>10, <1>11,
       <1>12 DEF StoreStep, Return, Die

LEMMA PowerLossRefines ==
    ASSUME IInv, PowerLoss
    PROVE  Register!APowerLoss
  <1> DEFINE v == [k \in Keys |-> record[k].value]
  <1>1. v' \in [Keys -> Values \cup {Absent}]
    BY FilesShape DEF PowerLoss
  <1>2. \A k \in Keys : \E f \in possible[k] : record'[k].value = f.value
    <2> SUFFICES ASSUME NEW k \in Keys
                 PROVE  \E f \in possible[k] : record'[k].value = f.value
      OBVIOUS
    <2>1. PICK f \in possible[k] : record'[k] \in Remains(f)
      BY DEF PowerLoss
    <2>2. f.state = "synced"
      BY DEF IInv, NeverTorn
    <2> QED
      BY <2>1, <2>2 DEF Remains
  <1>3. \A k \in Keys :
          v'[k] \in [j \in Keys |-> {f.value : f \in possible[j]}][k]
    BY <1>2
  <1>4. [k \in Keys |-> {f.value : f \in possible[k]}]'
        = [k \in Keys |-> {v'[k]}]
    BY DEF PowerLoss
  <1>5. {q \in Callers : at[q] = "settle"}' = {}
    BY DEF PowerLoss
  <1> QED
    BY <1>1, <1>3, <1>4, <1>5 DEF PowerLoss, Register!APowerLoss

\* DirectoryStore's write(), delete() and read() implement an atomic and
\* durable compare-and-set register for each key, whatever fails, dies or
\* competes and whenever the power is lost.
THEOREM Refinement == StoreSpec => ImplementsRegister
  <1>1. IInv /\ [StoreNext]_storeVars => [Register!ANext]_Register!avars
    <2> SUFFICES ASSUME IInv, [StoreNext]_storeVars
                 PROVE  Register!ANext \/ UNCHANGED Register!avars
      OBVIOUS
    <2>1. CASE \E p \in Callers : StoreStep(p)
      BY <2>1, StepRefines
    <2>2. CASE PowerLoss
      BY <2>2, PowerLossRefines DEF Register!ANext
    <2>3. CASE UNCHANGED storeVars
      BY <2>3 DEF storeVars, Register!avars
    <2> QED
      BY <2>1, <2>2, <2>3 DEF StoreNext
  <1>2. StoreSpec => Register!ASpec
    BY <1>1, InitRefines, Inductive, PTL DEF StoreSpec, Register!ASpec
  <1> QED
    BY <1>2 DEF ImplementsRegister

----------------------------------------------------------------------------
(* The locks of MemoryStore.                                               *)

HoldersHeld == \A t \in Threads : stage[t] = "holds" => name[t] \in held

LocksIInv == LocksTypeOK /\ HoldersHeld /\ Exclusive /\ HeldByOne /\ NotStranded

LEMMA LocksStepIInv ==
    ASSUME LocksIInv, NEW t \in Threads, LocksStep(t)
    PROVE  LocksIInv'
  <1> USE NoNameAssumption DEF LocksIInv, LocksTypeOK, Turn
  <1>1. CASE Call(t)
    BY <1>1 DEF Call, HoldersHeld, Exclusive, HeldByOne, NotStranded
  <1>2. CASE Try(t)
    <2>1. CASE name[t] \in held
      BY <1>2, <2>1 DEF Try, HoldersHeld, Exclusive, HeldByOne, NotStranded
    <2>2. CASE name[t] \notin held
      <3>1. held' = held \cup {name[t]} /\ UNCHANGED name
            /\ stage' = [stage EXCEPT ![t] = "holds"]
        BY <1>2, <2>2 DEF Try
      <3>2. LocksTypeOK' /\ HoldersHeld' /\ Exclusive'
        BY <1>2, <2>2, <3>1 DEF Try, HoldersHeld, Exclusive
      <3>3. HeldByOne' /\ NotStranded'
        BY <1>2, <2>2, <3>1 DEF Try, HeldByOne, NotStranded
      <3> QED
        BY <3>2, <3>3
    <2> QED
      BY <2>1, <2>2
  <1>3. CASE Wake(t)
    BY <1>3 DEF Wake, HoldersHeld, Exclusive, HeldByOne, NotStranded
  <1>4. CASE Busy(t)
    BY <1>4 DEF Busy, HoldersHeld, Exclusive, HeldByOne, NotStranded
  <1>5. CASE Release(t)
    BY <1>5 DEF Release, HoldersHeld, Exclusive, HeldByOne, NotStranded
  <1>6. CASE Notify(t)
    BY <1>6 DEF Notify, HoldersHeld, Exclusive, HeldByOne, NotStranded
  <1> QED
    BY <1>1, <1>2, <1>3, <1>4, <1>5, <1>6 DEF LocksStep

\* The invariant is inductive.
THEOREM LocksInductive == LocksSpec => []LocksIInv
  <1>1. LocksInit => LocksIInv
    BY NoNameAssumption
    DEF LocksInit, LocksIInv, LocksTypeOK, HoldersHeld, Exclusive, HeldByOne, NotStranded
  <1>2. LocksIInv /\ [LocksNext]_lockVars => LocksIInv'
    BY LocksStepIInv
    DEF LocksNext, lockVars, LocksIInv, LocksTypeOK, HoldersHeld, Exclusive, HeldByOne, NotStranded
  <1> QED
    BY <1>1, <1>2, PTL DEF LocksSpec

\* lock() excludes every other thread that asks for the same name.
THEOREM AlwaysExclusive == LocksSpec => []Exclusive
  BY LocksInductive, PTL DEF LocksIInv

\* release() never leaves a thread asleep on a free lock: the wake-up reaches
\* the waiters of every name.
THEOREM NeverStranded == LocksSpec => []NotStranded
  BY LocksInductive, PTL DEF LocksIInv

==============================================================================
