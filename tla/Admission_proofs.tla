--------------------------- MODULE Admission_proofs ---------------------------
(***************************************************************************)
(* "They cannot both pass": whatever the number of processes and however   *)
(* the destinations are nested, a tree and something inside it are never   *)
(* both admitted.                                                          *)
(*                                                                         *)
(* The argument is that of a flag protocol.  A process raises its flag,    *)
(* the record, before it looks at the flags of others, and a flag is never *)
(* lowered: of two processes whose destinations are nested, the one that   *)
(* looks last finds the flag of the other.                                 *)
(***************************************************************************)
EXTENDS Admission, TLAPS

\* A process that has passed admit()'s first step has left its record.
Recorded ==
    \A p \in Procs :
        /\ pc[p] \in {"kind", "look", "admitted"} =>
              /\ ref[p] \in References
              /\ authority[ref[p].path] = ref[p].kind
        /\ pc[p] \in {"idle", "lock", "parents", "record", "kind"} =>
              clear[p] = {}
        /\ pc[p] \in {"lock", "parents", "record"} => ref[p] \in References
        /\ clear[p] # {} =>
              ref[p] \in References /\ authority[ref[p].path] # None

\* An admitted reference has its record.
AdmittedRecorded ==
    \A r \in admitted : authority[r.path] = r.kind

\* Two processes never both miss the record of the other.
OneSees ==
    \A p, q \in Procs :
        ref[q].path \in clear[p] => ref[p].path \notin clear[q]

\* A process never misses the record of an admitted reference that looked at
\* the process's own destination.
SeesAdmitted ==
    \A r \in admitted : \A p \in Procs :
        ref[p].path \in Looked(r) => r.path \notin clear[p]

\* Two admitted references did not both look at the other's destination.
AdmittedApart ==
    \A r, s \in admitted : s.path \in Looked(r) => r.path \notin Looked(s)

Protocol ==
    /\ Recorded
    /\ AdmittedRecorded
    /\ OneSees
    /\ SeesAdmitted
    /\ AdmittedApart

----------------------------------------------------------------------------
(* Looking: a destination is never inside itself, and None is no place.    *)

LEMMA LookedElsewhere ==
    ASSUME NEW r \in References
    PROVE  Looked(r) \subseteq Paths \ {r.path}
  BY NestingAssumption DEF Looked, Above, Below, References

LEMMA LookedBothWays ==
    ASSUME NEW r \in References, NEW s \in References,
           r.kind = "tree", <<s.path, r.path>> \in Under
    PROVE  s.path \in Looked(r) /\ r.path \in Looked(s)
  BY DEF Looked, Above, Below, References

LEMMA KindIsRecord ==
    ASSUME NEW r \in References
    PROVE  r.path \in Paths /\ r.kind \in Kinds /\ r.kind # None
  BY NoneAssumption DEF References

LEMMA NoPlace == NoReference.path \notin Paths /\ NoReference \notin References
  BY NoneAssumption DEF NoReference, References

----------------------------------------------------------------------------
(* The file system stays a tree.                                           *)

LEMMA CreateParentTree ==
    ASSUME fs \in FileSystems, NEW b \in Paths,
           \A c \in Above(b) : fs[c] = "directory",
           NEW form \in {"file", "directory"}, fs[b] = "absent"
    PROVE  [fs EXCEPT ![b] = form] \in FileSystems
  BY NestingAssumption DEF FileSystems, Above

LEMMA ReplaceTree ==
    ASSUME fs \in FileSystems, NEW a \in Paths,
           NEW form \in {"absent", "file", "directory"},
           form # "absent" => \A b \in Above(a) : fs[b] = "directory"
    PROVE  [b \in Paths |-> IF b = a THEN form
                            ELSE IF b \in Below(a) THEN "absent"
                            ELSE fs[b]] \in FileSystems
  <1> DEFINE g == [b \in Paths |-> IF b = a THEN form
                                   ELSE IF b \in Below(a) THEN "absent"
                                   ELSE fs[b]]
  <1>1. fs \in [Paths -> {"absent", "file", "directory"}]
    BY DEF FileSystems
  <1>2. g \in [Paths -> {"absent", "file", "directory"}]
    BY <1>1
  <1>3. ASSUME NEW b \in Paths, g[b] # "absent", NEW c \in Above(b)
        PROVE  g[c] = "directory"
    <2>1. c \in Paths /\ <<b, c>> \in Under
      BY DEF Above
    <2>2. CASE b = a
      <3>1. c # a /\ c \notin Below(a)
        BY <2>1, <2>2, NestingAssumption DEF Below
      <3> QED
        BY <1>3, <2>1, <2>2, <3>1
    <2>3. CASE b # a
      <3>1. b \notin Below(a) /\ fs[b] # "absent"
        BY <1>3, <2>3
      <3>2. c # a /\ c \notin Below(a)
        BY <2>1, <3>1, NestingAssumption DEF Below
      <3>3. fs[c] = "directory"
        BY <1>3, <3>1 DEF FileSystems
      <3> QED
        BY <2>1, <3>2, <3>3
    <2> QED
      BY <2>2, <2>3
  <1> QED
    BY <1>2, <1>3 DEF FileSystems

LEMMA RemoveTree ==
    ASSUME fs \in FileSystems, NEW a \in Paths
    PROVE  [b \in Paths |-> IF b \in {a} \cup Below(a) THEN "absent"
                            ELSE fs[b]] \in FileSystems
  <1>1. [b \in Paths |-> IF b \in {a} \cup Below(a) THEN "absent" ELSE fs[b]]
        = [b \in Paths |-> IF b = a THEN "absent"
                           ELSE IF b \in Below(a) THEN "absent" ELSE fs[b]]
    OBVIOUS
  <1> QED
    BY <1>1, ReplaceTree

----------------------------------------------------------------------------
(* Types.                                                                  *)

LEMMA InitTypes == Init => TypeOK
  <1> SUFFICES ASSUME Init PROVE TypeOK
    OBVIOUS
  <1>1. changes \in 0..MaxChanges
    BY NestingAssumption DEF Init
  <1> QED
    BY <1>1 DEF Init, TypeOK, Steps

LEMMA StepTypes ==
    ASSUME TypeOK, Recorded, NEW p \in Procs, Step(p)
    PROVE  TypeOK'
  <1> USE DEF TypeOK, Steps, Goto
  <1>1. CASE Begin(p)
    BY <1>1 DEF Begin, Recorded
  <1>2. CASE Lock(p)
    BY <1>2, KindIsRecord DEF Lock, Recorded
  <1>3. CASE CreateParent(p)
    <2>1. fs' \in FileSystems
      BY <1>3, CreateParentTree DEF CreateParent, Above
    <2> QED
      BY <1>3, <2>1 DEF CreateParent
  <1>4. CASE Record(p)
    BY <1>4, KindIsRecord DEF Record, Recorded
  <1>5. CASE ValidateKind(p)
    BY <1>5 DEF ValidateKind
  <1>6. CASE Look(p)
    <2>1. ref[p] \in References
      BY <1>6 DEF Look, Recorded
    <2> QED
      BY <1>6, <2>1, LookedElsewhere DEF Look
  <1>7. CASE Admit(p)
    BY <1>7 DEF Admit, Recorded
  <1>8. CASE Publish(p)
    <2>1. ref[p].path \in Paths
      BY <1>8, KindIsRecord DEF Publish, Recorded
    <2>2. fs' \in FileSystems
      <3>1. PICK form \in {"absent", Form(ref[p].kind)} :
              fs' = [b \in Paths |-> IF b = ref[p].path THEN form
                                     ELSE IF b \in Below(ref[p].path)
                                            THEN "absent" ELSE fs[b]]
        BY <1>8 DEF Publish
      <3>2. form \in {"absent", "file", "directory"}
        BY DEF Form
      <3>3. \A b \in Above(ref[p].path) : fs[b] = "directory"
        BY <1>8 DEF Publish
      <3> QED
        BY <2>1, <3>1, <3>2, <3>3, ReplaceTree
    <2>3. removed' \subseteq Paths
      BY <1>8, <2>1 DEF Publish, Vanish, Below
    <2> QED
      BY <1>8, <2>2, <2>3 DEF Publish
  <1>9. CASE Leave(p)
    BY <1>9 DEF Leave
  <1> QED
    BY <1>1, <1>2, <1>3, <1>4, <1>5, <1>6, <1>7, <1>8, <1>9 DEF Step

LEMMA UserTypes ==
    ASSUME TypeOK, User
    PROVE  TypeOK'
  <1> USE DEF TypeOK
  <1>1. changes' \in 0..MaxChanges
    BY NestingAssumption DEF User
  <1>2. PICK a \in Paths : UserCreates(a) \/ UserRemoves(a)
    BY DEF User
  <1>3. CASE UserCreates(a)
    <2>1. fs' \in FileSystems
      BY <1>3, CreateParentTree DEF UserCreates
    <2> QED
      BY <1>1, <1>3, <2>1 DEF User, UserCreates
  <1>4. CASE UserRemoves(a)
    <2>1. fs' \in FileSystems
      BY <1>4, RemoveTree DEF UserRemoves
    <2>2. removed' \subseteq Paths
      BY <1>4 DEF UserRemoves, Vanish, Below
    <2> QED
      BY <1>1, <2>1, <2>2 DEF User
  <1> QED
    BY <1>2, <1>3, <1>4

----------------------------------------------------------------------------
(* The flag protocol.  What matters to it and what does not.              *)

Flags == <<authority, pc, ref, clear, admitted>>

LEMMA InitProtocol == Init => Protocol
  BY DEF Init, Protocol, Recorded, AdmittedRecorded, OneSees, SeesAdmitted,
         AdmittedApart

LEMMA FlagsKeep ==
    ASSUME Protocol, UNCHANGED Flags
    PROVE  Protocol'
  BY DEF Protocol, Flags, Recorded, AdmittedRecorded, OneSees, SeesAdmitted,
         AdmittedApart

\* Steps of a process that has looked nowhere and starts or goes on looking
\* nowhere; the flags may only rise.
LEMMA QuietKeeps ==
    ASSUME TypeOK, Protocol, NEW p \in Procs,
           clear'[p] = {},
           \A q \in Procs \ {p} : ref'[q] = ref[q] /\ clear'[q] = clear[q],
           \A q \in Procs \ {p} : pc'[q] = pc[q],
           \A a \in Paths : authority[a] # None => authority'[a] = authority[a],
           admitted' = admitted,
           pc'[p] \in {"lock", "parents", "record"} => ref'[p] \in References,
           pc'[p] \in {"kind", "look", "admitted"} =>
              /\ ref'[p] \in References
              /\ authority'[ref'[p].path] = ref'[p].kind
    PROVE  Protocol'
  <1>1. Recorded'
    <2> SUFFICES ASSUME NEW q \in Procs
                 PROVE  /\ pc'[q] \in {"kind", "look", "admitted"} =>
                              /\ ref'[q] \in References
                              /\ authority'[ref'[q].path] = ref'[q].kind
                        /\ pc'[q] \in {"idle", "lock", "parents", "record",
                                       "kind"} => clear'[q] = {}
                        /\ pc'[q] \in {"lock", "parents", "record"} =>
                              ref'[q] \in References
                        /\ clear'[q] # {} => /\ ref'[q] \in References
                                             /\ authority'[ref'[q].path] # None
      BY DEF Recorded
    <2>1. CASE q = p
      BY <2>1
    <2>2. CASE q # p
      BY <2>2, KindIsRecord DEF Protocol, Recorded
    <2> QED
      BY <2>1, <2>2
  <1>2. AdmittedRecorded'
    BY KindIsRecord DEF Protocol, AdmittedRecorded, TypeOK
  <1>3. OneSees'
    BY DEF Protocol, OneSees
  <1>4. SeesAdmitted'
    BY DEF Protocol, SeesAdmitted
  <1>5. AdmittedApart'
    BY DEF Protocol, AdmittedApart
  <1> QED
    BY <1>1, <1>2, <1>3, <1>4, <1>5 DEF Protocol

LEMMA LookKeeps ==
    ASSUME TypeOK, Protocol, NEW p \in Procs, Look(p)
    PROVE  Protocol'
  <1>1. ref[p] \in References /\ authority[ref[p].path] # None
    BY KindIsRecord DEF Look, Protocol, Recorded
  <1>2. PICK b \in Looked(ref[p]) :
          IF authority[b] = None
            THEN clear' = [clear EXCEPT ![p] = @ \cup {b}] /\ UNCHANGED pc
            ELSE Goto(p, "failed") /\ UNCHANGED clear
    BY DEF Look
  <1>3. UNCHANGED <<authority, ref, admitted>>
    BY DEF Look
  <1>4. CASE authority[b] = None
    <2>1. pc' = pc /\ clear' = [clear EXCEPT ![p] = @ \cup {b}]
      BY <1>2, <1>4
    <2>2. b \in Paths /\ b # ref[p].path
      BY <1>1, LookedElsewhere
    <2>3. \A q \in Procs : ref[q].path = b => clear[q] = {}
      BY <1>4 DEF Protocol, Recorded
    <2>4. Recorded'
      BY <1>1, <1>3, <2>1 DEF Protocol, Recorded, TypeOK, Look
    <2>5. AdmittedRecorded'
      BY <1>3 DEF Protocol, AdmittedRecorded
    <2>6. OneSees'
      <3> SUFFICES ASSUME NEW q \in Procs, NEW o \in Procs,
                          ref[o].path \in clear'[q], ref[q].path \in clear'[o]
                   PROVE  FALSE
        BY <1>3 DEF OneSees
      <3>1. CASE q = p /\ o = p
        <4>1. ref[p].path \in clear[p]
          BY <2>1, <2>2, <3>1 DEF TypeOK
        <4> QED
          BY <4>1 DEF Protocol, OneSees
      <3>2. CASE q = p /\ o # p
        <4>1. clear'[o] = clear[o] /\ clear'[p] = clear[p] \cup {b}
          BY <2>1, <3>2 DEF TypeOK
        <4>2. CASE ref[o].path = b
          BY <2>3, <3>2, <4>1, <4>2
        <4>3. CASE ref[o].path # b
          BY <3>2, <4>1, <4>3 DEF Protocol, OneSees
        <4> QED
          BY <4>2, <4>3
      <3>3. CASE q # p /\ o = p
        <4>1. clear'[q] = clear[q] /\ clear'[p] = clear[p] \cup {b}
          BY <2>1, <3>3 DEF TypeOK
        <4>2. CASE ref[q].path = b
          BY <2>3, <3>3, <4>1, <4>2
        <4>3. CASE ref[q].path # b
          BY <3>3, <4>1, <4>3 DEF Protocol, OneSees
        <4> QED
          BY <4>2, <4>3
      <3>4. CASE q # p /\ o # p
        BY <2>1, <3>4 DEF TypeOK, Protocol, OneSees
      <3> QED
        BY <3>1, <3>2, <3>3, <3>4
    <2>7. SeesAdmitted'
      <3> SUFFICES ASSUME NEW r \in admitted, NEW q \in Procs,
                          ref[q].path \in Looked(r)
                   PROVE  r.path \notin clear'[q]
        BY <1>3 DEF SeesAdmitted
      <3>1. authority[r.path] # None
        BY KindIsRecord DEF Protocol, AdmittedRecorded, TypeOK
      <3>2. r.path \notin clear[q]
        BY DEF Protocol, SeesAdmitted
      <3> QED
        BY <1>4, <2>1, <3>1, <3>2 DEF TypeOK
    <2>8. AdmittedApart'
      BY <1>3 DEF Protocol, AdmittedApart
    <2> QED
      BY <2>4, <2>5, <2>6, <2>7, <2>8 DEF Protocol
  <1>5. CASE authority[b] # None
    <2>1. pc' = [pc EXCEPT ![p] = "failed"] /\ clear' = clear
      BY <1>2, <1>5 DEF Goto
    <2> QED
      BY <1>3, <2>1
      DEF TypeOK, Protocol, Recorded, AdmittedRecorded, OneSees, SeesAdmitted,
          AdmittedApart
  <1> QED
    BY <1>4, <1>5

LEMMA AdmitKeeps ==
    ASSUME TypeOK, Protocol, NEW p \in Procs, Admit(p)
    PROVE  Protocol'
  <1>1. /\ UNCHANGED <<authority, ref, clear>>
        /\ pc' = [pc EXCEPT ![p] = "admitted"]
        /\ admitted' = admitted \cup {ref[p]}
        /\ clear[p] = Looked(ref[p])
    BY DEF Admit, Goto
  <1>2. ref[p] \in References /\ authority[ref[p].path] = ref[p].kind
    BY DEF Admit, Protocol, Recorded
  <1>3. ref[p].path \notin Looked(ref[p])
    BY <1>2, LookedElsewhere
  <1>4. Recorded'
    BY <1>1, <1>2 DEF TypeOK, Protocol, Recorded, Admit
  <1>5. AdmittedRecorded'
    BY <1>1, <1>2 DEF Protocol, AdmittedRecorded
  <1>6. OneSees'
    BY <1>1 DEF Protocol, OneSees
  <1>7. SeesAdmitted'
    \* OneSees: a process at a destination p looked at does not miss p
    BY <1>1 DEF Protocol, SeesAdmitted, OneSees
  <1>8. AdmittedApart'
    BY <1>1, <1>3 DEF Protocol, AdmittedApart, SeesAdmitted
  <1> QED
    BY <1>4, <1>5, <1>6, <1>7, <1>8 DEF Protocol

LEMMA StepProtocol ==
    ASSUME TypeOK, Protocol, NEW p \in Procs, Step(p)
    PROVE  Protocol'
  <1> USE DEF Goto
  <1>1. CASE Begin(p)
    BY <1>1, QuietKeeps DEF Begin, TypeOK, Protocol, Recorded
  <1>2. CASE Lock(p)
    BY <1>2, QuietKeeps DEF Lock, TypeOK, Protocol, Recorded
  <1>3. CASE CreateParent(p)
    BY <1>3, QuietKeeps DEF CreateParent, TypeOK, Protocol, Recorded
  <1>4. CASE Record(p)
    <2>1. ref[p] \in References /\ clear[p] = {}
      BY <1>4 DEF Record, Protocol, Recorded
    <2> QED
      BY <1>4, <2>1, KindIsRecord, QuietKeeps DEF Record, TypeOK
  <1>5. CASE ValidateKind(p)
    BY <1>5, QuietKeeps DEF ValidateKind, TypeOK, Protocol, Recorded
  <1>6. CASE Look(p)
    BY <1>6, LookKeeps
  <1>7. CASE Admit(p)
    BY <1>7, AdmitKeeps
  <1>8. CASE Publish(p)
    BY <1>8, FlagsKeep DEF Publish, Flags
  <1>9. CASE Leave(p)
    BY <1>9, QuietKeeps DEF Leave, TypeOK
  <1> QED
    BY <1>1, <1>2, <1>3, <1>4, <1>5, <1>6, <1>7, <1>8, <1>9 DEF Step

----------------------------------------------------------------------------
\* The types and the flag protocol together are inductive.
THEOREM Inductive == Spec => [](TypeOK /\ Protocol)
  <1>1. Init => TypeOK /\ Protocol
    BY InitTypes, InitProtocol
  <1>2. TypeOK /\ Protocol /\ [Next]_vars => (TypeOK /\ Protocol)'
    <2> SUFFICES ASSUME TypeOK, Protocol, [Next]_vars
                 PROVE  TypeOK' /\ Protocol'
      OBVIOUS
    <2>1. CASE \E p \in Procs : Step(p)
      BY <2>1, StepTypes, StepProtocol DEF Protocol
    <2>2. CASE User
      BY <2>2, UserTypes, FlagsKeep DEF User, Flags
    <2>3. CASE UNCHANGED vars
      BY <2>3, FlagsKeep DEF vars, Flags, TypeOK
    <2> QED
      BY <2>1, <2>2, <2>3 DEF Next
  <1> QED
    BY <1>1, <1>2, PTL DEF Spec

\* Every variable keeps its type: the file system stays a tree whatever
\* processes and owner do to it, and a process notes only destinations that
\* hierarchy_conflicts() has it look at.
THEOREM TypeCorrect == Spec => []TypeOK
  BY Inductive, PTL

\* A tree and something inside it are never both admitted, for any number of
\* processes and any nesting of destinations.
THEOREM CannotBothPass == Spec => []NeverNested
  <1>1. TypeOK /\ Protocol => NeverNested
    <2> SUFFICES ASSUME TypeOK, Protocol, NEW r \in admitted, NEW s \in admitted,
                        r.kind = "tree", <<s.path, r.path>> \in Under
                 PROVE  FALSE
      BY DEF NeverNested
    <2>1. s.path \in Looked(r) /\ r.path \in Looked(s)
      BY LookedBothWays DEF TypeOK
    <2> QED
      BY <2>1 DEF Protocol, AdmittedApart
  <1> QED
    BY <1>1, Inductive, PTL

\* A destination is admitted as a document or as a tree, never as both: the
\* authority record that admit() writes first is never changed.
THEOREM OneKind == Spec => []KindsAgree
  <1>1. Protocol => KindsAgree
    BY DEF Protocol, AdmittedRecorded, KindsAgree
  <1> QED
    BY <1>1, Inductive, PTL

----------------------------------------------------------------------------
(* Documents.  A process that admits a document does not look below it: it *)
(* relies on what the destination is.  A process inside has made sure that *)
(* everything above it is a directory before it looks at the records, so a *)
(* document whose record it did not find is validated later, against that  *)
(* directory.                                                              *)

\* The destination is the directory that an inner process has found or made,
\* unless it has vanished since.
Stands(b) == fs[b] = "directory" \/ b \in removed

\* The destinations that an inner process, running or done, has found free.
FoundFree ==
    {b \in Paths : \/ \E p \in Procs : b \in clear[p] \cap Above(ref[p].path)
                   \/ \E s \in admitted : b \in Above(s.path)}

\* The destinations validated for a document.
Documents ==
    {b \in Paths :
        \/ \E p \in Procs : /\ pc[p] \in {"look", "admitted"}
                            /\ ref[p].kind = "document" /\ ref[p].path = b
        \/ \E r \in admitted : r.kind = "document" /\ r.path = b}

\* create_parents() leaves nothing absent above the destination, and the
\* validation after the record finds no file there.
ParentsStand ==
    \A p \in Procs : \A b \in Above(ref[p].path) :
        /\ pc[p] \in {"record", "kind"} => fs[b] # "absent" \/ b \in removed
        /\ pc[p] \in {"look", "admitted"} => Stands(b)

Ground ==
    /\ ParentsStand
    /\ \A b \in FoundFree : Stands(b)
    /\ Documents \cap FoundFree \subseteq removed

LEMMA InitGround == Init => Ground
  BY DEF Init, Ground, ParentsStand, FoundFree, Documents

\* A directory that goes is remembered, and so is anything else.
LEMMA GoneIsRemembered ==
    ASSUME TypeOK, Protocol,
           (\E p \in Procs : Step(p)) \/ User \/ UNCHANGED vars,
           NEW b \in Paths
    PROVE  /\ removed \subseteq removed'
           /\ fs[b] # "absent" /\ fs'[b] # fs[b] => b \in removed'
  <1>1. CASE \E p \in Procs : Step(p)
    <2>1. PICK p \in Procs : Step(p)
      BY <1>1
    <2>2. CASE Publish(p)
      <3>1. \/ b \in {ref[p].path} \cup Below(ref[p].path)
            \/ fs'[b] = fs[b]
        BY <2>2 DEF Publish
      <3>2. removed' = removed \cup
              {a \in {ref[p].path} \cup Below(ref[p].path) :
                  fs[a] \notin {"absent", fs'[a]}}
        BY <2>2 DEF Publish, Vanish
      <3> QED
        BY <3>1, <3>2
    <2>3. CASE CreateParent(p)
      BY <2>3 DEF CreateParent, TypeOK, FileSystems
    <2>4. CASE ~Publish(p) /\ ~CreateParent(p)
      BY <2>1, <2>4
      DEF Step, Begin, Lock, Record, ValidateKind, Look, Admit, Leave
    <2> QED
      BY <2>2, <2>3, <2>4
  <1>2. CASE User
    <2>1. PICK a \in Paths : UserCreates(a) \/ UserRemoves(a)
      BY <1>2 DEF User
    <2>2. CASE UserCreates(a)
      BY <2>2 DEF UserCreates, TypeOK, FileSystems
    <2>3. CASE UserRemoves(a)
      <3>1. b \in {a} \cup Below(a) \/ fs'[b] = fs[b]
        BY <2>3 DEF UserRemoves
      <3>2. removed' = removed \cup
              {c \in {a} \cup Below(a) : fs[c] \notin {"absent", fs'[c]}}
        BY <2>3 DEF UserRemoves, Vanish
      <3> QED
        BY <3>1, <3>2
    <2> QED
      BY <2>1, <2>2, <2>3
  <1>3. CASE UNCHANGED vars
    BY <1>3 DEF vars
  <1> QED
    BY <1>1, <1>2, <1>3

\* Steps that neither find a destination free nor validate a document.
LEMMA GroundKeeps ==
    ASSUME TypeOK, Ground,
           \A b \in Paths :
              /\ removed \subseteq removed'
              /\ fs[b] # "absent" /\ fs'[b] # fs[b] => b \in removed',
           FoundFree' \subseteq FoundFree, Documents' \subseteq Documents,
           ParentsStand'
    PROVE  Ground'
  <1>1. FoundFree' \subseteq Paths
    BY DEF FoundFree
  <1>2. \A b \in FoundFree' : Stands(b)'
    BY <1>1 DEF Ground, Stands
  <1>3. (Documents \cap FoundFree)' \subseteq removed'
    BY <1>1 DEF Ground
  <1> QED
    BY <1>2, <1>3 DEF Ground

\* What stood above a process that goes on standing where it was.
LEMMA ParentsKeep ==
    ASSUME TypeOK, Protocol, Ground,
           (\E p \in Procs : Step(p)) \/ User \/ UNCHANGED vars,
           NEW p \in Procs, pc'[p] = pc[p], ref'[p] = ref[p],
           NEW b \in Above(ref[p].path)
    PROVE  /\ pc'[p] \in {"record", "kind"} =>
                 fs'[b] # "absent" \/ b \in removed'
           /\ pc'[p] \in {"look", "admitted"} =>
                 fs'[b] = "directory" \/ b \in removed'
  <1>1. b \in Paths
    BY DEF Above
  <1> QED
    BY <1>1, GoneIsRemembered DEF Ground, ParentsStand, Stands

LEMMA StepGround ==
    ASSUME TypeOK, Protocol, Ground, NEW p \in Procs, Step(p)
    PROVE  Ground'
  <1> USE DEF Goto
  <1>0. /\ \A b \in Paths :
              /\ removed \subseteq removed'
              /\ fs[b] # "absent" /\ fs'[b] # fs[b] => b \in removed'
        /\ \A q \in Procs : pc'[q] = pc[q] /\ ref'[q] = ref[q] =>
              \A b \in Above(ref[q].path) :
                 /\ pc'[q] \in {"record", "kind"} =>
                       fs'[b] # "absent" \/ b \in removed'
                 /\ pc'[q] \in {"look", "admitted"} =>
                       fs'[b] = "directory" \/ b \in removed'
    BY GoneIsRemembered, ParentsKeep
  \* The others stand where they were: what is left is the process itself.
  <1>a. ASSUME \A q \in Procs \ {p} : pc'[q] = pc[q] /\ ref'[q] = ref[q],
               \A b \in Above(ref'[p].path) :
                  /\ pc'[p] \in {"record", "kind"} =>
                        fs'[b] # "absent" \/ b \in removed'
                  /\ pc'[p] \in {"look", "admitted"} =>
                        fs'[b] = "directory" \/ b \in removed'
        PROVE  ParentsStand'
    <2> SUFFICES ASSUME NEW q \in Procs, NEW b \in Above(ref'[q].path)
                 PROVE  /\ pc'[q] \in {"record", "kind"} =>
                              fs'[b] # "absent" \/ b \in removed'
                        /\ pc'[q] \in {"look", "admitted"} =>
                              fs'[b] = "directory" \/ b \in removed'
      BY DEF ParentsStand, Stands, Above
    <2> QED
      BY <1>0, <1>a
  <1>1. CASE Begin(p) \/ Lock(p)
    <2>1. /\ pc'[p] \in {"lock", "parents"} /\ clear' = clear
          /\ clear[p] = {} /\ admitted' = admitted
          /\ \A q \in Procs \ {p} : pc'[q] = pc[q] /\ ref'[q] = ref[q]
      BY <1>1 DEF Begin, Lock, TypeOK, Protocol, Recorded
    <2>2. ParentsStand'
      BY <1>a, <2>1
    <2>3. FoundFree' \subseteq FoundFree
      BY <2>1 DEF FoundFree, Above
    <2>4. Documents' \subseteq Documents
      BY <2>1 DEF Documents
    <2> QED
      BY <1>0, <2>2, <2>3, <2>4, GroundKeeps
  <1>2. CASE CreateParent(p)
    <2>1. /\ UNCHANGED <<ref, clear, admitted>>
          /\ pc'[p] \in {"parents", "record"}
          /\ \A q \in Procs \ {p} : pc'[q] = pc[q] /\ ref'[q] = ref[q]
      BY <1>2 DEF CreateParent, TypeOK
    <2>2. pc'[p] = "record" =>
            fs' = fs /\ \A b \in Above(ref[p].path) : fs[b] # "absent"
      BY <1>2 DEF CreateParent
    <2>3. ParentsStand'
      BY <1>a, <2>1, <2>2
    <2>4. FoundFree' = FoundFree
      BY <2>1 DEF FoundFree, Above
    <2>5. Documents' \subseteq Documents
      BY <2>1 DEF Documents
    <2> QED
      BY <1>0, <2>3, <2>4, <2>5, GroundKeeps
  <1>3. CASE Record(p)
    <2>1. /\ UNCHANGED <<ref, clear, admitted, fs, removed>>
          /\ pc[p] = "record" /\ pc'[p] \in {"kind", "failed"}
          /\ \A q \in Procs \ {p} : pc'[q] = pc[q] /\ ref'[q] = ref[q]
      BY <1>3 DEF Record, TypeOK
    <2>2. ParentsStand'
      BY <1>a, <2>1 DEF Ground, ParentsStand
    <2>3. FoundFree' = FoundFree
      BY <2>1 DEF FoundFree, Above
    <2>4. Documents' \subseteq Documents
      BY <2>1 DEF Documents
    <2> QED
      BY <1>0, <2>2, <2>3, <2>4, GroundKeeps
  <1>4. CASE ValidateKind(p)
    <2>1. /\ UNCHANGED <<ref, clear, admitted, fs, removed>>
          /\ pc[p] = "kind"
          /\ \A q \in Procs \ {p} : pc'[q] = pc[q] /\ ref'[q] = ref[q]
          /\ \/ pc'[p] = "look" /\ KindFits(ref[p])
             \/ pc'[p] = "failed"
      BY <1>4 DEF ValidateKind, TypeOK
    <2>2. ref[p] \in References
      BY <2>1 DEF Protocol, Recorded
    <2>3. ParentsStand'
      <3>1. \A b \in Above(ref[p].path) : KindFits(ref[p]) =>
               fs[b] = "directory" \/ b \in removed
        BY <2>1 DEF Ground, ParentsStand, KindFits, TypeOK, FileSystems, Above
      <3> QED
        BY <1>a, <2>1, <3>1
    <2>4. FoundFree' = FoundFree
      BY <2>1 DEF FoundFree, Above
    \* the document that is validated is not the directory of an inner process
    <2>5. \A b \in Documents' \cap FoundFree : b \in removed
      <3> SUFFICES ASSUME NEW b \in Documents', b \in FoundFree
                   PROVE  b \in removed
        OBVIOUS
      <3>1. CASE b \in Documents
        BY <3>1 DEF Ground
      <3>2. CASE b \notin Documents
        <4>1. /\ ref[p].kind = "document" /\ ref[p].path = b
              /\ pc'[p] = "look" /\ KindFits(ref[p])
          BY <2>1, <3>2 DEF Documents
        <4>2. fs[b] # "directory"
          BY <4>1 DEF KindFits, Form
        <4> QED
          BY <4>2 DEF Ground, Stands
      <3> QED
        BY <3>1, <3>2
    <2> QED
      BY <2>1, <2>3, <2>4, <2>5 DEF Ground, Stands
  <1>5. CASE Look(p)
    <2>1. /\ UNCHANGED <<ref, admitted, fs, removed>>
          /\ pc[p] = "look" /\ pc'[p] \in {"look", "failed"}
          /\ \A q \in Procs \ {p} : pc'[q] = pc[q] /\ ref'[q] = ref[q]
      BY <1>5 DEF Look, TypeOK
    <2>2. ParentsStand'
      BY <1>a, <2>1 DEF Ground, ParentsStand, Stands
    <2>3. Documents' \subseteq Documents
      BY <2>1 DEF Documents
    <2>4. \A b \in FoundFree' : b \in FoundFree \/
             (b \in Above(ref[p].path) /\ authority[b] = None)
      <3>1. PICK c \in Looked(ref[p]) :
              IF authority[c] = None
                THEN clear' = [clear EXCEPT ![p] = @ \cup {c}] /\ UNCHANGED pc
                ELSE Goto(p, "failed") /\ UNCHANGED clear
        BY <1>5 DEF Look
      <3>2. \A q \in Procs : clear'[q] \subseteq clear[q] \/
               (q = p /\ authority[c] = None /\ clear'[q] = clear[q] \cup {c})
        BY <3>1 DEF TypeOK
      <3> SUFFICES ASSUME NEW b \in FoundFree'
                   PROVE  b \in FoundFree \/
                          (b \in Above(ref[p].path) /\ authority[b] = None)
        OBVIOUS
      <3>3. b \in Paths
        BY DEF FoundFree
      <3>4. CASE \E q \in Procs : b \in clear'[q] /\ b \in Above(ref'[q].path)
        <4>1. PICK q \in Procs : b \in clear'[q] /\ b \in Above(ref'[q].path)
          BY <3>4
        <4>2. b \in Above(ref[q].path)
          BY <2>1, <4>1 DEF Above
        <4>3. CASE b \in clear[q]
          BY <3>3, <4>2, <4>3 DEF FoundFree
        <4>4. CASE b \notin clear[q]
          <5>1. q = p /\ authority[c] = None /\ b = c
            BY <3>2, <4>1, <4>4
          <5> QED
            BY <4>2, <5>1
        <4> QED
          BY <4>3, <4>4
      <3>5. CASE \E r \in admitted' : b \in Above(r.path)
        BY <2>1, <3>3, <3>5 DEF FoundFree
      <3> QED
        BY <3>4, <3>5 DEF FoundFree, Above
    <2>5. \A b \in Documents : authority[b] # None
      BY KindIsRecord
      DEF Documents, Protocol, Recorded, AdmittedRecorded, TypeOK
    <2>6. \A b \in FoundFree' : Stands(b)
      BY <2>1, <2>4 DEF Ground, ParentsStand
    <2> QED
      BY <2>1, <2>2, <2>3, <2>4, <2>5, <2>6 DEF Ground, Stands
  <1>6. CASE Admit(p)
    <2>1. /\ UNCHANGED <<ref, clear, fs, removed>>
          /\ pc[p] = "look" /\ pc'[p] = "admitted"
          /\ \A q \in Procs \ {p} : pc'[q] = pc[q] /\ ref'[q] = ref[q]
          /\ admitted' = admitted \cup {ref[p]}
          /\ Above(ref[p].path) \subseteq clear[p]
      BY <1>6 DEF Admit, TypeOK, Looked
    <2>2. ParentsStand'
      BY <1>a, <2>1 DEF Ground, ParentsStand, Stands
    <2>3. FoundFree' \subseteq FoundFree
      BY <2>1 DEF FoundFree, Above
    <2>4. Documents' \subseteq Documents
      BY <2>1 DEF Documents
    <2> QED
      BY <1>0, <2>2, <2>3, <2>4, GroundKeeps
  <1>7. CASE Publish(p)
    <2>1. UNCHANGED <<pc, ref, clear, admitted>>
      BY <1>7 DEF Publish
    <2>2. ParentsStand'
      BY <1>0, <2>1 DEF ParentsStand, Stands, Above
    <2>3. FoundFree' = FoundFree
      BY <2>1 DEF FoundFree, Above
    <2>4. Documents' = Documents
      BY <2>1 DEF Documents
    <2> QED
      BY <1>0, <2>2, <2>3, <2>4, GroundKeeps
  <1>8. CASE Leave(p)
    <2>1. /\ admitted' = admitted /\ pc'[p] = "idle" /\ clear'[p] = {}
          /\ \A q \in Procs \ {p} : /\ pc'[q] = pc[q] /\ ref'[q] = ref[q]
                                    /\ clear'[q] = clear[q]
      BY <1>8 DEF Leave, TypeOK
    <2>2. ParentsStand'
      BY <1>a, <2>1
    <2>3. FoundFree' \subseteq FoundFree
      BY <2>1 DEF FoundFree, Above
    <2>4. Documents' \subseteq Documents
      BY <2>1 DEF Documents
    <2> QED
      BY <1>0, <2>2, <2>3, <2>4, GroundKeeps
  <1> QED
    BY <1>1, <1>2, <1>3, <1>4, <1>5, <1>6, <1>7, <1>8 DEF Step

LEMMA OtherGround ==
    ASSUME TypeOK, Protocol, Ground, User \/ UNCHANGED vars
    PROVE  Ground'
  <1>1. UNCHANGED <<pc, ref, clear, admitted>>
    BY DEF User, vars
  <1>2. FoundFree' = FoundFree
    BY <1>1 DEF FoundFree, Above
  <1>3. Documents' = Documents
    BY <1>1 DEF Documents
  <1>4. ParentsStand'
    BY <1>1, ParentsKeep DEF ParentsStand, Stands, Above
  <1>5. \A b \in Paths :
           /\ removed \subseteq removed'
           /\ fs[b] # "absent" /\ fs'[b] # fs[b] => b \in removed'
    BY GoneIsRemembered
  <1> QED
    BY <1>2, <1>3, <1>4, <1>5, GroundKeeps

\* A document and something inside it are both admitted only when what was at
\* the document's destination has vanished at some time, although the process
\* that admits the document never looks below it: for any number of processes
\* and any nesting of destinations.
THEOREM DocumentsStayApart == Spec => []DocumentsApart
  <1>1. Init => Ground
    BY InitGround
  <1>2. TypeOK /\ Protocol /\ Ground /\ [Next]_vars => Ground'
    BY StepGround, OtherGround DEF Next
  <1>3. TypeOK /\ Ground => DocumentsApart
    <2> SUFFICES ASSUME TypeOK, Ground, NEW r \in admitted, NEW s \in admitted,
                        r.kind = "document", <<s.path, r.path>> \in Under
                 PROVE  r.path \in removed
      BY DEF DocumentsApart
    <2>1. r.path \in Paths
      BY DEF TypeOK, References
    <2>2. r.path \in Documents /\ r.path \in FoundFree
      BY <2>1 DEF Documents, FoundFree, Above
    <2> QED
      BY <2>2 DEF Ground
  <1> QED
    BY <1>1, <1>2, <1>3, Inductive, PTL DEF Spec

\* All three together: what the stores run checks of two processes, for any
\* number of them.
THEOREM NeverContradict == Spec => []NoConflict
  BY CannotBothPass, OneKind, DocumentsStayApart, PTL DEF NoConflict

=============================================================================
