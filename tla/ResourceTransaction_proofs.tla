--------------------- MODULE ResourceTransaction_proofs ---------------------
(***************************************************************************)
(* Proofs about ResourceTransaction, for any number of processes,          *)
(* transactions, nodes and user edits.                                     *)
(***************************************************************************)
EXTENDS ResourceTransaction, TLAPS

\* What the program counter of a process says about the lock.
Mutex ==
    \A p \in Procs :
        /\ pc[p] \in Holding => lock = p
        /\ lock = p => pc[p] \in Holding \cup {"previewing"}

\* Up to the journal the directory holds what prepare() made so far.
Preparing(p) ==
    LET t == plan[p].tx
    IN  /\ pc[p] \in {"mkdir", "unprepare"} => parts[t] = {}
        /\ At(p, "mkstaging") => parts[t] = {"root"}
        /\ At(p, "mkbackup") => parts[t] = {"root", "staging"}
        /\ pc[p] \in {"stage", "verify", "journal"} => parts[t] = Parts

Unjournaled == {"mkdir", "mkstaging", "mkbackup", "stage", "verify",
                "journal", "abandon", "release"}
Journaled == {"publish", "backup", "place", "confirm", "commit",
              "acknowledge", "cleanup", "forget",
              "rollback", "undo", "restore", "restored"}

\* What it says about the records and the directory.
PcFacts ==
    \A p \in Procs :
        /\ pc[p] \in Forward \cup {"previewed", "fresh", "prepare"}
              => plan[p].tx \in Tx
        /\ pc[p] \in Forward => preparation = plan[p].tx
        /\ Preparing(p)
        /\ pc[p] \in Unjournaled => journal = None
        /\ pc[p] \in Journaled => journal # None
        /\ pc[p] \in Closing \cup {"abandon"} => preparation \in Tx
        /\ pc[p] \in {"forget", "release"} => parts[preparation] = {}

IInv == TypeOK /\ Mutex /\ PcFacts /\ Discoverable

\* Contents stay contents: a shrunk, a moved and a grown revision.
LEMMA ContentTypes ==
    /\ Empty \in Content
    /\ \A c \in Content : c # Empty => Shrunk(c) \in Content
    /\ \A w \in Writers : Whole(w) \in Content
    /\ \A c \in Content, w \in Writers :
          c.left # Nodes => [by |-> w, left |-> c.left + 1] \in Content
<1> USE ConstantsAssumption DEF Content, Empty, Whole
<1>1. Empty \in Content
  OBVIOUS
<1>2. \A c \in Content : c # Empty => Shrunk(c) \in Content
  BY DEF Shrunk
<1>3. \A w \in Writers : Whole(w) \in Content
  OBVIOUS
<1>4. ASSUME NEW c \in Content, NEW w \in Writers, c.left # Nodes
      PROVE  [by |-> w, left |-> c.left + 1] \in Content
  <2>1. c.left + 1 \in 1..Nodes
    BY <1>4
  <2> QED
    BY <2>1
<1> QED
  BY <1>1, <1>2, <1>3, <1>4

LEMMA WriteNodeType == ASSUME IInv, NEW p \in Procs,
   WriteNode(p) PROVE TypeOK'
<1> USE DEF IInv, WriteNode, At, Goto, records, local, history
<1>1. plan[p].tx \in Tx /\ plan[p].tx \in Writers
  BY DEF PcFacts, Forward, Writers
<1>2. staged' \in [Tx -> Content]
  <2>1. staged[plan[p].tx] \in Content /\ staged \in [Tx -> Content]
    BY <1>1 DEF TypeOK
  <2>2. CASE staged[plan[p].tx].left = Nodes
    BY <2>1, <2>2
  <2>3. CASE staged[plan[p].tx].left # Nodes
    <3>1. [by |-> plan[p].tx,
       left |-> staged[plan[p].tx].left + 1] \in Content
      BY <1>1, <2>1, <2>3, ContentTypes
    <3> QED
      BY <3>1, <2>1, <2>3
  <2> QED
    BY <2>2, <2>3
<1>3. late' \subseteq Writers
  BY <1>1 DEF TypeOK
<1> QED
  BY <1>2, <1>3 DEF TypeOK, Steps, Holding, Forward

LEMMA MoveIntoPlaceType == ASSUME IInv, NEW p \in Procs,
   MoveIntoPlace(p) PROVE TypeOK'
<1> USE DEF IInv, MoveIntoPlace, At, Goto, records, local, history
<1>1. plan[p].tx \in Tx
  BY DEF PcFacts, Forward
<1>2. dest' \in Content /\ staged' \in [Tx -> Content]
  BY <1>1, ContentTypes DEF TypeOK
<1> QED
  BY <1>2 DEF TypeOK, Steps, Holding, Forward

LEMMA CommitType == ASSUME IInv, NEW p \in Procs, Commit(p) PROVE TypeOK'
<1> USE DEF IInv, Commit, At, Goto, files, local
<1>1. plan[p].tx \in Tx
  BY DEF PcFacts, Forward
<1>2. dest.by \in Writers \cup {None}
  BY DEF TypeOK, Content, Empty
<1> QED
  BY <1>1, <1>2 DEF TypeOK, Steps, Holding, Forward

LEMMA CleanupType == ASSUME IInv, NEW p \in Procs, Cleanup(p) PROVE TypeOK'
<1> USE DEF IInv, Cleanup, At, Goto, Refusal, records, local, history
<1>1. preparation \in Tx
  BY DEF PcFacts, Closing
<1>2. staged' \in [Tx -> Content]
  BY <1>1, ContentTypes DEF TypeOK
<1>3. backup' \in [Tx -> Content]
  BY <1>1, ContentTypes DEF TypeOK
<1> QED
  BY <1>2, <1>3 DEF TypeOK, Steps, Holding, Forward, Closing

LEMMA WriteJournalFacts ==
    ASSUME IInv, NEW p \in Procs, WriteJournal(p) PROVE PcFacts'
<1> USE DEF IInv, WriteJournal, At, Goto, records, local, history
<1>1. plan[p].tx \in Tx /\ preparation = plan[p].tx
  BY DEF PcFacts, Forward
<1>2. journal' # None
  <2>1. plan[p] \in Plans
    BY DEF TypeOK
  <2>2. plan[p].before \in Content /\ plan[p].previous \in Tx \cup {None}
    BY <2>1 DEF Plans
  <2>3. After(plan[p]) \in Content
    <3>1. plan[p].goal \in Goals
      BY <2>1 DEF Plans
    <3> QED
      BY <1>1, <2>2, <3>1, ContentTypes DEF After, Goals, Writers
  <2>4. JournalOf(plan[p]) \in Journals
    BY <1>1, <2>2, <2>3 DEF JournalOf, Journals
  <2> QED
    BY <2>4, NoneIsNoJournal
<1>3. \A q \in Procs : q # p => ~(pc[q] \in Holding)
  BY DEF Mutex, Holding, Forward
<1>4. ASSUME NEW q \in Procs, q # p
      PROVE  pc'[q] \notin Holding /\ pc'[q] = pc[q] /\ plan'[q] = plan[q]
  BY <1>3, <1>4 DEF TypeOK
<1>5. pc'[p] = "publish"
  BY DEF TypeOK
<1> QED
  BY <1>1, <1>2, <1>4, <1>5
     DEF PcFacts, Preparing, Unjournaled, Journaled, Holding, Forward,
         Recovering, Closing

LEMMA PreviewRecordsKeeps == ASSUME IInv, NEW p \in Procs,
   PreviewRecords(p) PROVE IInv'
<1> USE DEF IInv, PreviewRecords, At, Goto, Plan, Empty, files, records,
        history
<1>1. TypeOK'
  BY ConstantsAssumption, NoneIsNoJournal DEF TypeOK, Steps, Holding, Forward,
     Recovering, Closing, Content, Writers, UserRev, Plans, Goals, Journals,
     Parts
<1>2. Mutex'
  BY DEF TypeOK, Mutex, Steps, Holding, Forward, Recovering, Closing
<1>3. PcFacts'
  BY DEF TypeOK, Mutex, PcFacts, At, Preparing, Unjournaled, Journaled, Steps,
     Holding, Forward, Recovering, Closing
<1>4. Discoverable'
  BY DEF TypeOK, Discoverable
<1> QED
  BY <1>1, <1>2, <1>3, <1>4

LEMMA PreviewContentKeeps == ASSUME IInv, NEW p \in Procs,
   PreviewContent(p) PROVE IInv'
<1> USE DEF IInv, PreviewContent, At, Goto, Plan, Empty, files, records
<1>1. TypeOK'
  BY ConstantsAssumption, NoneIsNoJournal DEF TypeOK, Steps, Holding, Forward,
     Recovering, Closing, Content, Writers, UserRev, Plans, Goals, Journals,
     Parts
<1>2. Mutex'
  BY DEF TypeOK, Mutex, Steps, Holding, Forward, Recovering, Closing
<1>3. PcFacts'
  BY DEF TypeOK, Mutex, PcFacts, At, Preparing, Unjournaled, Journaled, Steps,
     Holding, Forward, Recovering, Closing
<1>4. Discoverable'
  BY DEF TypeOK, Discoverable
<1> QED
  BY <1>1, <1>2, <1>3, <1>4

LEMMA GiveUpKeeps == ASSUME IInv, NEW p \in Procs, GiveUp(p) PROVE IInv'
<1> USE DEF IInv, GiveUp, Goto, NoPlan, Plan, Empty, files, records, history
<1>1. TypeOK'
  BY ConstantsAssumption, NoneIsNoJournal DEF TypeOK, Steps, Holding, Forward,
     Recovering, Closing, Content, Writers, UserRev, Plans, Goals, Journals,
     Parts
<1>2. Mutex'
  BY DEF TypeOK, Mutex, Steps, Holding, Forward, Recovering, Closing
<1>3. PcFacts'
  BY DEF TypeOK, Mutex, PcFacts, At, Preparing, Unjournaled, Journaled, Steps,
     Holding, Forward, Recovering, Closing
<1>4. Discoverable'
  BY DEF TypeOK, Discoverable
<1> QED
  BY <1>1, <1>2, <1>3, <1>4

LEMMA LockForApplyKeeps == ASSUME IInv, NEW p \in Procs,
   LockForApply(p) PROVE IInv'
<1> USE DEF IInv, LockForApply, At, Goto, files, records, local, history
<1>1. TypeOK'
  BY DEF TypeOK, Steps, Holding, Forward, Recovering, Closing
<1>2. Mutex'
  BY ConstantsAssumption, NoneIsNoJournal DEF TypeOK, Mutex, Steps, Holding,
     Forward, Recovering, Closing, Content, Writers, UserRev, Plans, Goals,
     Journals, Parts
<1>3. PcFacts'
  BY DEF TypeOK, Mutex, PcFacts, At, Preparing, Unjournaled, Journaled, Steps,
     Holding, Forward, Recovering, Closing
<1>4. Discoverable'
  BY DEF TypeOK, Discoverable
<1> QED
  BY <1>1, <1>2, <1>3, <1>4

LEMMA LockForRecoveryKeeps == ASSUME IInv, NEW p \in Procs,
   LockForRecovery(p) PROVE IInv'
<1> USE DEF IInv, LockForRecovery, At, Goto, files, records, history
<1>1. TypeOK'
  BY DEF TypeOK, Steps, Holding, Forward, Recovering, Closing
<1>2. Mutex'
  BY ConstantsAssumption, NoneIsNoJournal DEF TypeOK, Mutex, Steps, Holding,
     Forward, Recovering, Closing, Content, Writers, UserRev, Plans, Goals,
     Journals, Parts
<1>3. PcFacts'
  BY DEF TypeOK, Mutex, PcFacts, At, Preparing, Unjournaled, Journaled, Steps,
     Holding, Forward, Recovering, Closing
<1>4. Discoverable'
  BY DEF TypeOK, Discoverable
<1> QED
  BY <1>1, <1>2, <1>3, <1>4

LEMMA FreshKeeps == ASSUME IInv, NEW p \in Procs, Fresh(p) PROVE IInv'
<1> USE DEF IInv, Fresh, At, Goto, PlanHolds, files, records, local, history
<1>1. TypeOK'
  BY DEF TypeOK, Steps, Holding, Forward, Recovering, Closing
<1>2. Mutex'
  BY DEF TypeOK, Mutex, Steps, Holding, Forward, Recovering, Closing
<1>3. PcFacts'
  BY DEF TypeOK, Mutex, PcFacts, At, Preparing, Unjournaled, Journaled, Steps,
     Holding, Forward, Recovering, Closing
<1>4. Discoverable'
  BY DEF TypeOK, Discoverable
<1> QED
  BY <1>1, <1>2, <1>3, <1>4

LEMMA PrepareKeeps == ASSUME IInv, NEW p \in Procs, Prepare(p) PROVE IInv'
<1> USE DEF IInv, Prepare, At, Goto, PlanHolds, files, history
<1>1. TypeOK'
  BY ConstantsAssumption, NoneIsNoJournal DEF TypeOK, Steps, Holding, Forward,
     Recovering, Closing, Content, Writers, UserRev, Plans, Goals, Journals,
     Parts
<1>2. Mutex'
  BY DEF TypeOK, Mutex, Steps, Holding, Forward, Recovering, Closing
<1>3. PcFacts'
  BY ConstantsAssumption, NoneIsNoJournal DEF TypeOK, Mutex, PcFacts, At,
     Preparing, Unjournaled, Journaled, Steps, Holding, Forward, Recovering,
     Closing, Discoverable, Content, Writers, UserRev, Plans, Goals, Journals,
     Parts
<1>4. Discoverable'
  BY ConstantsAssumption, SMTT(60) DEF TypeOK, Mutex, Discoverable, PcFacts,
     At, Preparing, Unjournaled, Journaled, Steps, Holding, Forward,
     Recovering, Closing, Content, Writers, UserRev, Plans, Goals, Journals,
     Parts
<1> QED
  BY <1>1, <1>2, <1>3, <1>4

LEMMA MakeDirectoryKeeps == ASSUME IInv, NEW p \in Procs,
   MakeDirectory(p) PROVE IInv'
<1> USE DEF IInv, MakeDirectory, At, Goto, MakePart, records, local, history
<1>1. TypeOK'
  <2>1. plan[p].tx \in Tx
    BY DEF TypeOK, PcFacts, Preparing, Unjournaled, Steps, Holding, Forward
  <2>2. parts' \in [Tx -> SUBSET Parts]
    BY <2>1 DEF TypeOK, Parts
  <2>3. pc' \in [Procs -> Steps]
    BY DEF TypeOK, Steps, Holding, Forward, Recovering, Closing
  <2> QED
    BY <2>2, <2>3 DEF TypeOK
<1>2. Mutex'
  BY DEF TypeOK, Mutex, Steps, Holding, Forward, Recovering, Closing
<1>3. PcFacts'
  BY DEF TypeOK, Mutex, PcFacts, At, Preparing, Unjournaled, Journaled, Steps,
     Holding, Forward, Recovering, Closing
<1>4. Discoverable'
  BY DEF TypeOK, Discoverable, PcFacts, At, Preparing, Unjournaled, Journaled,
     Forward, Closing
<1> QED
  BY <1>1, <1>2, <1>3, <1>4

LEMMA MakeStagingKeeps == ASSUME IInv, NEW p \in Procs,
   MakeStaging(p) PROVE IInv'
<1> USE DEF IInv, MakeStaging, At, Goto, MakePart, records, local, history
<1>1. TypeOK'
  <2>1. plan[p].tx \in Tx
    BY DEF TypeOK, PcFacts, Preparing, Unjournaled, Steps, Holding, Forward
  <2>2. parts' \in [Tx -> SUBSET Parts]
    BY <2>1 DEF TypeOK, Parts
  <2>3. pc' \in [Procs -> Steps]
    BY DEF TypeOK, Steps, Holding, Forward, Recovering, Closing
  <2> QED
    BY <2>2, <2>3 DEF TypeOK
<1>2. Mutex'
  BY DEF TypeOK, Mutex, Steps, Holding, Forward, Recovering, Closing
<1>3. PcFacts'
  BY DEF TypeOK, Mutex, PcFacts, At, Preparing, Unjournaled, Journaled, Steps,
     Holding, Forward, Recovering, Closing
<1>4. Discoverable'
  BY DEF TypeOK, Discoverable, PcFacts, At, Preparing, Unjournaled, Journaled,
     Forward, Closing
<1> QED
  BY <1>1, <1>2, <1>3, <1>4

LEMMA MakeBackupKeeps == ASSUME IInv, NEW p \in Procs,
   MakeBackup(p) PROVE IInv'
<1> USE DEF IInv, MakeBackup, At, Goto, MakePart, records, local, history
<1>1. TypeOK'
  <2>1. plan[p].tx \in Tx
    BY DEF TypeOK, PcFacts, Preparing, Unjournaled, Steps, Holding, Forward
  <2>2. parts' \in [Tx -> SUBSET Parts]
    BY <2>1 DEF TypeOK, Parts
  <2>3. pc' \in [Procs -> Steps]
    BY DEF TypeOK, Steps, Holding, Forward, Recovering, Closing
  <2> QED
    BY <2>2, <2>3 DEF TypeOK
<1>2. Mutex'
  BY DEF TypeOK, Mutex, Steps, Holding, Forward, Recovering, Closing
<1>3. PcFacts'
  BY DEF TypeOK, Mutex, PcFacts, At, Preparing, Unjournaled, Journaled, Steps,
     Holding, Forward, Recovering, Closing, Discoverable, Parts
<1>4. Discoverable'
  BY DEF TypeOK, Discoverable, PcFacts, At, Preparing, Unjournaled, Journaled,
     Forward, Closing
<1> QED
  BY <1>1, <1>2, <1>3, <1>4

LEMMA WriteNodeKeeps == ASSUME IInv, NEW p \in Procs, WriteNode(p) PROVE IInv'
<1> USE DEF IInv, WriteNode, At, Goto, records, local, history
<1>1. TypeOK'
  BY WriteNodeType
<1>2. Mutex'
  BY DEF TypeOK, Mutex, Steps, Holding, Forward, Recovering, Closing
<1>3. PcFacts'
  BY DEF TypeOK, Mutex, PcFacts, At, Preparing, Unjournaled, Journaled, Steps,
     Holding, Forward, Recovering, Closing
<1>4. Discoverable'
  BY ConstantsAssumption, NoneIsNoJournal DEF TypeOK, Discoverable, PcFacts,
     At, Preparing, Unjournaled, Journaled, Steps, Holding, Forward,
     Recovering, Closing, Content, Writers, UserRev, Plans, Goals, Journals,
     Parts
<1> QED
  BY <1>1, <1>2, <1>3, <1>4

LEMMA VerifyBeforeKeeps == ASSUME IInv, NEW p \in Procs,
   VerifyBefore(p) PROVE IInv'
<1> USE DEF IInv, VerifyBefore, At, Goto, files, records, local, history
<1>1. TypeOK'
  BY DEF TypeOK, Steps, Holding, Forward, Recovering, Closing
<1>2. Mutex'
  BY DEF TypeOK, Mutex, Steps, Holding, Forward, Recovering, Closing
<1>3. PcFacts'
  BY DEF TypeOK, Mutex, PcFacts, At, Preparing, Unjournaled, Journaled, Steps,
     Holding, Forward, Recovering, Closing
<1>4. Discoverable'
  BY DEF TypeOK, Discoverable
<1> QED
  BY <1>1, <1>2, <1>3, <1>4

LEMMA WriteJournalKeeps == ASSUME IInv, NEW p \in Procs,
   WriteJournal(p) PROVE IInv'
<1> USE DEF IInv, WriteJournal, At, Goto, JournalOf, After, Empty, Whole,
        local, history
<1>1. TypeOK'
  BY ConstantsAssumption, NoneIsNoJournal DEF TypeOK, Steps, Holding, Forward,
     Recovering, Closing, Content, Writers, UserRev, Plans, Goals, Journals,
     Parts, PcFacts, At, Preparing, Unjournaled, Journaled, Discoverable
<1>2. Mutex'
  BY DEF TypeOK, Mutex, Steps, Holding, Forward, Recovering, Closing
<1>3. PcFacts'
  BY WriteJournalFacts
<1>4. Discoverable'
  BY DEF TypeOK, Discoverable, PcFacts, At, Preparing, Unjournaled, Journaled,
     Forward, Closing
<1> QED
  BY <1>1, <1>2, <1>3, <1>4

LEMMA DiscardStagedKeeps == ASSUME IInv, NEW p \in Procs,
   DiscardStaged(p) PROVE IInv'
<1> USE DEF IInv, DiscardStaged, At, Goto, Shrunk, Empty, records, local,
        history
<1>1. TypeOK'
  <2>1. \A c \in Content : c # Empty => Shrunk(c) \in Content
    BY ContentTypes
  <2>2. staged' \in [Tx -> Content]
    BY <2>1 DEF TypeOK
  <2>3. pc' \in [Procs -> Steps]
    BY DEF TypeOK, Steps, Holding, Forward, Recovering, Closing
  <2> QED
    BY <2>2, <2>3 DEF TypeOK
<1>2. Mutex'
  BY DEF TypeOK, Mutex, Steps, Holding, Forward, Recovering, Closing
<1>3. PcFacts'
  BY DEF TypeOK, Mutex, PcFacts, At, Preparing, Unjournaled, Journaled, Steps,
     Holding, Forward, Recovering, Closing
<1>4. Discoverable'
  BY DEF TypeOK, Discoverable
<1> QED
  BY <1>1, <1>2, <1>3, <1>4

LEMMA UnstageKeeps == ASSUME IInv, NEW p \in Procs, Unstage(p) PROVE IInv'
<1> USE DEF IInv, Unstage, At, Goto, RemovePart, Removable, Empty, records,
        local, history
<1>1. TypeOK'
  BY DEF TypeOK, Steps, Holding, Forward, Recovering, Closing
<1>2. Mutex'
  BY DEF TypeOK, Mutex, Steps, Holding, Forward, Recovering, Closing
<1>3. PcFacts'
  BY DEF TypeOK, Mutex, PcFacts, At, Preparing, Unjournaled, Journaled, Steps,
     Holding, Forward, Recovering, Closing
<1>4. Discoverable'
  BY DEF TypeOK, Discoverable
<1> QED
  BY <1>1, <1>2, <1>3, <1>4

LEMMA UnprepareKeeps == ASSUME IInv, NEW p \in Procs, Unprepare(p) PROVE IInv'
<1> USE DEF IInv, Unprepare, At, Goto, files, local, history
<1>1. TypeOK'
  BY DEF TypeOK, Steps, Holding, Forward, Recovering, Closing
<1>2. Mutex'
  BY DEF TypeOK, Mutex, Steps, Holding, Forward, Recovering, Closing
<1>3. PcFacts'
  BY DEF TypeOK, Mutex, PcFacts, At, Preparing, Unjournaled, Journaled, Steps,
     Holding, Forward, Recovering, Closing
<1>4. Discoverable'
  BY DEF TypeOK, Discoverable, PcFacts, At, Preparing, Unjournaled, Journaled,
     Forward, Closing
<1> QED
  BY <1>1, <1>2, <1>3, <1>4

LEMMA PublishKeeps == ASSUME IInv, NEW p \in Procs, Publish(p) PROVE IInv'
<1> USE DEF IInv, Publish, At, Goto, Recorded, JournalOf, After, Empty, Whole,
        files, records, local, history
<1>1. TypeOK'
  BY DEF TypeOK, Steps, Holding, Forward, Recovering, Closing
<1>2. Mutex'
  BY DEF TypeOK, Mutex, Steps, Holding, Forward, Recovering, Closing
<1>3. PcFacts'
  BY DEF TypeOK, Mutex, PcFacts, At, Preparing, Unjournaled, Journaled, Steps,
     Holding, Forward, Recovering, Closing
<1>4. Discoverable'
  BY DEF TypeOK, Discoverable
<1> QED
  BY <1>1, <1>2, <1>3, <1>4

LEMMA MoveToBackupKeeps == ASSUME IInv, NEW p \in Procs,
   MoveToBackup(p) PROVE IInv'
<1> USE DEF IInv, MoveToBackup, At, Goto, Empty, records, local, history
<1>1. TypeOK'
  <2>1. plan[p].tx \in Tx
    BY DEF TypeOK, PcFacts, Steps, Holding, Forward
  <2>2. Empty \in Content
    BY DEF Content
  <2>3. dest' \in Content /\ backup' \in [Tx -> Content]
    BY <2>1, <2>2 DEF TypeOK
  <2>4. pc' \in [Procs -> Steps]
    BY DEF TypeOK, Steps, Holding, Forward, Recovering, Closing
  <2> QED
    BY <2>3, <2>4 DEF TypeOK
<1>2. Mutex'
  BY DEF TypeOK, Mutex, Steps, Holding, Forward, Recovering, Closing
<1>3. PcFacts'
  BY DEF TypeOK, Mutex, PcFacts, At, Preparing, Unjournaled, Journaled, Steps,
     Holding, Forward, Recovering, Closing
<1>4. Discoverable'
  BY DEF TypeOK, Discoverable
<1> QED
  BY <1>1, <1>2, <1>3, <1>4

LEMMA MoveIntoPlaceKeeps == ASSUME IInv, NEW p \in Procs,
   MoveIntoPlace(p) PROVE IInv'
<1> USE DEF IInv, MoveIntoPlace, At, Goto, Empty, records, local, history
<1>1. TypeOK'
  BY MoveIntoPlaceType
<1>2. Mutex'
  BY DEF TypeOK, Mutex, Steps, Holding, Forward, Recovering, Closing
<1>3. PcFacts'
  BY DEF TypeOK, Mutex, PcFacts, At, Preparing, Unjournaled, Journaled, Steps,
     Holding, Forward, Recovering, Closing
<1>4. Discoverable'
  BY DEF TypeOK, Discoverable
<1> QED
  BY <1>1, <1>2, <1>3, <1>4

LEMMA ConfirmKeeps == ASSUME IInv, NEW p \in Procs, Confirm(p) PROVE IInv'
<1> USE DEF IInv, Confirm, At, Goto, Recorded, JournalOf, After, Empty, Whole,
        files, records, local, history
<1>1. TypeOK'
  BY DEF TypeOK, Steps, Holding, Forward, Recovering, Closing
<1>2. Mutex'
  BY DEF TypeOK, Mutex, Steps, Holding, Forward, Recovering, Closing
<1>3. PcFacts'
  BY DEF TypeOK, Mutex, PcFacts, At, Preparing, Unjournaled, Journaled, Steps,
     Holding, Forward, Recovering, Closing
<1>4. Discoverable'
  BY DEF TypeOK, Discoverable
<1> QED
  BY <1>1, <1>2, <1>3, <1>4

LEMMA CommitKeeps == ASSUME IInv, NEW p \in Procs, Commit(p) PROVE IInv'
<1> USE DEF IInv, Commit, At, Goto, files, local
<1>1. TypeOK'
  BY CommitType
<1>2. Mutex'
  BY DEF TypeOK, Mutex, Steps, Holding, Forward, Recovering, Closing
<1>3. PcFacts'
  BY DEF TypeOK, Mutex, PcFacts, At, Preparing, Unjournaled, Journaled, Steps,
     Holding, Forward, Recovering, Closing
<1>4. Discoverable'
  BY DEF TypeOK, Discoverable
<1> QED
  BY <1>1, <1>2, <1>3, <1>4

LEMMA AcknowledgeKeeps == ASSUME IInv, NEW p \in Procs,
   Acknowledge(p) PROVE IInv'
<1> USE DEF IInv, Acknowledge, At, Goto, files, records, history
<1>1. TypeOK'
  BY DEF TypeOK, Steps, Holding, Forward, Recovering, Closing
<1>2. Mutex'
  BY DEF TypeOK, Mutex, Steps, Holding, Forward, Recovering, Closing
<1>3. PcFacts'
  BY DEF TypeOK, Mutex, PcFacts, At, Preparing, Unjournaled, Journaled, Steps,
     Holding, Forward, Recovering, Closing
<1>4. Discoverable'
  BY DEF TypeOK, Discoverable
<1> QED
  BY <1>1, <1>2, <1>3, <1>4

LEMMA CleanupKeeps == ASSUME IInv, NEW p \in Procs, Cleanup(p) PROVE IInv'
<1> USE DEF IInv, Cleanup, At, Goto, Refusal, Shrunk, Remnant, Empty, records,
        local, history
<1>1. TypeOK'
  BY CleanupType
<1>2. Mutex'
  BY DEF TypeOK, Mutex, Steps, Holding, Forward, Recovering, Closing
<1>3. PcFacts'
  BY DEF TypeOK, Mutex, PcFacts, At, Preparing, Unjournaled, Journaled, Steps,
     Holding, Forward, Recovering, Closing
<1>4. Discoverable'
  BY DEF TypeOK, Discoverable
<1> QED
  BY <1>1, <1>2, <1>3, <1>4

LEMMA RemoveDirectoriesKeeps == ASSUME IInv, NEW p \in Procs,
   RemoveDirectories(p) PROVE IInv'
<1> USE DEF IInv, RemoveDirectories, At, Goto, RemovePart, Removable, Empty,
        records, local, history
<1>1. TypeOK'
  BY DEF TypeOK, Steps, Holding, Forward, Recovering, Closing
<1>2. Mutex'
  BY DEF TypeOK, Mutex, Steps, Holding, Forward, Recovering, Closing
<1>3. PcFacts'
  BY DEF TypeOK, Mutex, PcFacts, At, Preparing, Unjournaled, Journaled, Steps,
     Holding, Forward, Recovering, Closing
<1>4. Discoverable'
  BY DEF TypeOK, Discoverable
<1> QED
  BY <1>1, <1>2, <1>3, <1>4

LEMMA DeleteJournalKeeps == ASSUME IInv, NEW p \in Procs,
   DeleteJournal(p) PROVE IInv'
<1> USE DEF IInv, DeleteJournal, At, Goto, files, local, history
<1>1. TypeOK'
  BY DEF TypeOK, Steps, Holding, Forward, Recovering, Closing
<1>2. Mutex'
  BY DEF TypeOK, Mutex, Steps, Holding, Forward, Recovering, Closing
<1>3. PcFacts'
  BY DEF TypeOK, Mutex, PcFacts, At, Preparing, Unjournaled, Journaled, Steps,
     Holding, Forward, Recovering, Closing
<1>4. Discoverable'
  BY DEF TypeOK, Discoverable
<1> QED
  BY <1>1, <1>2, <1>3, <1>4

LEMMA DeletePreparationKeeps == ASSUME IInv, NEW p \in Procs,
   DeletePreparation(p) PROVE IInv'
<1> USE DEF IInv, DeletePreparation, At, Goto, files, local, history
<1>1. TypeOK'
  BY DEF TypeOK, Steps, Holding, Forward, Recovering, Closing
<1>2. Mutex'
  BY DEF TypeOK, Mutex, Steps, Holding, Forward, Recovering, Closing
<1>3. PcFacts'
  BY DEF TypeOK, Mutex, PcFacts, At, Preparing, Unjournaled, Journaled, Steps,
     Holding, Forward, Recovering, Closing
<1>4. Discoverable'
  BY DEF TypeOK, Discoverable, PcFacts, At, Preparing, Unjournaled, Journaled,
     Forward, Closing
<1> QED
  BY <1>1, <1>2, <1>3, <1>4

LEMMA ReportFailureKeeps == ASSUME IInv, NEW p \in Procs,
   ReportFailure(p) PROVE IInv'
<1> USE DEF IInv, ReportFailure, At, Goto, files, records, history
<1>1. TypeOK'
  BY DEF TypeOK, Steps, Holding, Forward, Recovering, Closing
<1>2. Mutex'
  BY DEF TypeOK, Mutex, Steps, Holding, Forward, Recovering, Closing
<1>3. PcFacts'
  BY DEF TypeOK, Mutex, PcFacts, At, Preparing, Unjournaled, Journaled, Steps,
     Holding, Forward, Recovering, Closing
<1>4. Discoverable'
  BY DEF TypeOK, Discoverable
<1> QED
  BY <1>1, <1>2, <1>3, <1>4

LEMMA RecoverKeeps == ASSUME IInv, NEW p \in Procs, Recover(p) PROVE IInv'
<1> USE DEF IInv, Recover, At, Goto, files, records, local, history
<1>1. TypeOK'
  BY DEF TypeOK, Steps, Holding, Forward, Recovering, Closing
<1>2. Mutex'
  BY DEF TypeOK, Mutex, Steps, Holding, Forward, Recovering, Closing
<1>3. PcFacts'
  BY ConstantsAssumption, NoneIsNoJournal DEF TypeOK, Mutex, PcFacts, At,
     Preparing, Unjournaled, Journaled, Steps, Holding, Forward, Recovering,
     Closing, Discoverable, Content, Writers, UserRev, Plans, Goals, Journals,
     Parts
<1>4. Discoverable'
  BY DEF TypeOK, Discoverable
<1> QED
  BY <1>1, <1>2, <1>3, <1>4

LEMMA AbandonKeeps == ASSUME IInv, NEW p \in Procs, Abandon(p) PROVE IInv'
<1> USE DEF IInv, Abandon, At, Goto, Shrunk, Empty, records, local, history
<1>1. TypeOK'
  <2>1. \A c \in Content : c # Empty => Shrunk(c) \in Content
    BY ContentTypes
  <2>2. staged' \in [Tx -> Content]
    BY <2>1 DEF TypeOK
  <2>3. pc' \in [Procs -> Steps]
    BY DEF TypeOK, Steps, Holding, Forward, Recovering, Closing
  <2> QED
    BY <2>2, <2>3 DEF TypeOK
<1>2. Mutex'
  BY DEF TypeOK, Mutex, Steps, Holding, Forward, Recovering, Closing
<1>3. PcFacts'
  BY DEF TypeOK, Mutex, PcFacts, At, Preparing, Unjournaled, Journaled, Steps,
     Holding, Forward, Recovering, Closing
<1>4. Discoverable'
  BY DEF TypeOK, Discoverable
<1> QED
  BY <1>1, <1>2, <1>3, <1>4

LEMMA RollbackKeeps == ASSUME IInv, NEW p \in Procs, Rollback(p) PROVE IInv'
<1> USE DEF IInv, Rollback, At, Goto, Empty, Suspect, Settled, Published,
        SetAside, Accounted, files, records, local, history
<1>1. TypeOK'
  BY DEF TypeOK, Steps, Holding, Forward, Recovering, Closing
<1>2. Mutex'
  BY DEF TypeOK, Mutex, Steps, Holding, Forward, Recovering, Closing
<1>3. PcFacts'
  BY ConstantsAssumption, NoneIsNoJournal DEF TypeOK, Mutex, PcFacts, At,
     Preparing, Unjournaled, Journaled, Steps, Holding, Forward, Recovering,
     Closing, Discoverable, Content, Writers, UserRev, Plans, Goals, Journals,
     Parts
<1>4. Discoverable'
  BY DEF TypeOK, Discoverable
<1> QED
  BY <1>1, <1>2, <1>3, <1>4

LEMMA MoveToStagingKeeps == ASSUME IInv, NEW p \in Procs,
   MoveToStaging(p) PROVE IInv'
<1> USE DEF IInv, MoveToStaging, At, Goto, Empty, records, local, history
<1>1. TypeOK'
  BY ConstantsAssumption, NoneIsNoJournal DEF TypeOK, Steps, Holding, Forward,
     Recovering, Closing, Content, Writers, UserRev, Plans, Goals, Journals,
     Parts
<1>2. Mutex'
  BY DEF TypeOK, Mutex, Steps, Holding, Forward, Recovering, Closing
<1>3. PcFacts'
  BY ConstantsAssumption, NoneIsNoJournal DEF TypeOK, Mutex, PcFacts, At,
     Preparing, Unjournaled, Journaled, Steps, Holding, Forward, Recovering,
     Closing, Discoverable, Content, Writers, UserRev, Plans, Goals, Journals,
     Parts
<1>4. Discoverable'
  BY DEF TypeOK, Discoverable
<1> QED
  BY <1>1, <1>2, <1>3, <1>4

LEMMA MoveBackKeeps == ASSUME IInv, NEW p \in Procs, MoveBack(p) PROVE IInv'
<1> USE DEF IInv, MoveBack, At, Goto, Empty, records, local, history
<1>1. TypeOK'
  <2>1. preparation \in Tx
    BY DEF TypeOK, Discoverable, PcFacts, Journaled, Steps, Journals
  <2>2. Empty \in Content
    BY DEF Content
  <2>3. dest' \in Content /\ backup' \in [Tx -> Content]
    BY <2>1, <2>2 DEF TypeOK
  <2>4. pc' \in [Procs -> Steps]
    BY DEF TypeOK, Steps, Holding, Forward, Recovering, Closing
  <2> QED
    BY <2>3, <2>4 DEF TypeOK
<1>2. Mutex'
  BY DEF TypeOK, Mutex, Steps, Holding, Forward, Recovering, Closing
<1>3. PcFacts'
  BY DEF TypeOK, Mutex, PcFacts, At, Preparing, Unjournaled, Journaled, Steps,
     Holding, Forward, Recovering, Closing
<1>4. Discoverable'
  BY DEF TypeOK, Discoverable
<1> QED
  BY <1>1, <1>2, <1>3, <1>4

LEMMA ConfirmRestoredKeeps == ASSUME IInv, NEW p \in Procs,
   ConfirmRestored(p) PROVE IInv'
<1> USE DEF IInv, ConfirmRestored, At, Goto, files, records, local, history
<1>1. TypeOK'
  BY DEF TypeOK, Steps, Holding, Forward, Recovering, Closing
<1>2. Mutex'
  BY DEF TypeOK, Mutex, Steps, Holding, Forward, Recovering, Closing
<1>3. PcFacts'
  BY ConstantsAssumption, NoneIsNoJournal DEF TypeOK, Mutex, PcFacts, At,
     Preparing, Unjournaled, Journaled, Steps, Holding, Forward, Recovering,
     Closing, Discoverable, Content, Writers, UserRev, Plans, Goals, Journals,
     Parts
<1>4. Discoverable'
  BY DEF TypeOK, Discoverable
<1> QED
  BY <1>1, <1>2, <1>3, <1>4

LEMMA ResumeKeeps == ASSUME IInv, NEW p \in Procs, Resume(p) PROVE IInv'
<1> USE DEF IInv, Resume, At, Goto, Plan, Empty, files, records, history
<1>1. TypeOK'
  BY ConstantsAssumption, NoneIsNoJournal DEF TypeOK, Steps, Holding, Forward,
     Recovering, Closing, Content, Writers, UserRev, Plans, Goals, Journals,
     Parts
<1>2. Mutex'
  BY DEF TypeOK, Mutex, Steps, Holding, Forward, Recovering, Closing
<1>3. PcFacts'
  BY DEF TypeOK, Mutex, PcFacts, At, Preparing, Unjournaled, Journaled, Steps,
     Holding, Forward, Recovering, Closing
<1>4. Discoverable'
  BY DEF TypeOK, Discoverable
<1> QED
  BY <1>1, <1>2, <1>3, <1>4

LEMMA UnlockKeeps == ASSUME IInv, NEW p \in Procs, Unlock(p) PROVE IInv'
<1> USE DEF IInv, Unlock, Goto, Forgotten, NoPlan, Plan, Empty, files,
        records, history
<1>1. TypeOK'
  BY ConstantsAssumption, NoneIsNoJournal DEF TypeOK, Steps, Holding, Forward,
     Recovering, Closing, Content, Writers, UserRev, Plans, Goals, Journals,
     Parts
<1>2. Mutex'
  BY ConstantsAssumption, NoneIsNoJournal DEF TypeOK, Mutex, Steps, Holding,
     Forward, Recovering, Closing, Content, Writers, UserRev, Plans, Goals,
     Journals, Parts
<1>3. PcFacts'
  BY DEF TypeOK, Mutex, PcFacts, At, Preparing, Unjournaled, Journaled, Steps,
     Holding, Forward, Recovering, Closing
<1>4. Discoverable'
  BY DEF TypeOK, Discoverable
<1> QED
  BY <1>1, <1>2, <1>3, <1>4

LEMMA FailKeeps == ASSUME IInv, NEW p \in Procs, Fail(p) PROVE IInv'
<1> USE DEF IInv, Fail, At, Goto, Trouble, OnError, files, records, history
<1>1. TypeOK'
  BY DEF TypeOK, Steps, Holding, Forward, Recovering, Closing
<1>2. Mutex'
  BY DEF TypeOK, Mutex, Steps, Holding, Forward, Recovering, Closing
<1>3. PcFacts'
  BY DEF TypeOK, Mutex, PcFacts, At, Preparing, Unjournaled, Journaled, Steps,
     Holding, Forward, Recovering, Closing
<1>4. Discoverable'
  BY DEF TypeOK, Discoverable
<1> QED
  BY <1>1, <1>2, <1>3, <1>4

LEMMA CrashKeeps == ASSUME IInv, NEW p \in Procs, Crash(p) PROVE IInv'
<1> USE DEF IInv, Crash, Goto, Forgotten, NoPlan, Plan, Empty, files, records,
        history
<1>1. TypeOK'
  BY ConstantsAssumption, NoneIsNoJournal DEF TypeOK, Steps, Holding, Forward,
     Recovering, Closing, Content, Writers, UserRev, Plans, Goals, Journals,
     Parts
<1>2. Mutex'
  BY ConstantsAssumption, NoneIsNoJournal DEF TypeOK, Mutex, Steps, Holding,
     Forward, Recovering, Closing, Content, Writers, UserRev, Plans, Goals,
     Journals, Parts
<1>3. PcFacts'
  BY DEF TypeOK, Mutex, PcFacts, At, Preparing, Unjournaled, Journaled, Steps,
     Holding, Forward, Recovering, Closing
<1>4. Discoverable'
  BY DEF TypeOK, Discoverable
<1> QED
  BY <1>1, <1>2, <1>3, <1>4

LEMMA UserWriteKeeps == IInv /\ UserWrite => IInv'
<1> SUFFICES ASSUME IInv, UserWrite PROVE IInv'
  OBVIOUS
<1> USE DEF IInv, UserWrite, Whole, records, local, UserChange
<1>1. TypeOK'
  BY ConstantsAssumption, NoneIsNoJournal DEF TypeOK, Steps, Holding, Forward,
     Recovering, Closing, Content, Writers, UserRev, Plans, Goals, Journals,
     Parts
<1>2. Mutex'
  BY DEF TypeOK, Mutex
<1>3. PcFacts'
  BY DEF TypeOK, Mutex, PcFacts, At, Preparing, Unjournaled, Journaled, Steps,
     Holding, Forward, Recovering, Closing
<1>4. Discoverable'
  BY DEF TypeOK, Discoverable
<1> QED
  BY <1>1, <1>2, <1>3, <1>4

LEMMA UserDeleteKeeps == IInv /\ UserDelete => IInv'
<1> SUFFICES ASSUME IInv, UserDelete PROVE IInv'
  OBVIOUS
<1> USE DEF IInv, UserDelete, Empty, records, local, UserChange
<1>1. TypeOK'
  BY ConstantsAssumption, NoneIsNoJournal DEF TypeOK, Steps, Holding, Forward,
     Recovering, Closing, Content, Writers, UserRev, Plans, Goals, Journals,
     Parts
<1>2. Mutex'
  BY DEF TypeOK, Mutex
<1>3. PcFacts'
  BY DEF TypeOK, Mutex, PcFacts, At, Preparing, Unjournaled, Journaled, Steps,
     Holding, Forward, Recovering, Closing
<1>4. Discoverable'
  BY DEF TypeOK, Discoverable
<1> QED
  BY <1>1, <1>2, <1>3, <1>4

LEMMA UserRetouchKeeps == IInv /\ UserRetouch => IInv'
<1> SUFFICES ASSUME IInv, UserRetouch PROVE IInv'
  OBVIOUS
<1> USE DEF IInv, UserRetouch, Empty, records, local
<1>1. TypeOK'
  BY ConstantsAssumption, NoneIsNoJournal DEF TypeOK, Steps, Holding, Forward,
     Recovering, Closing, Content, Writers, UserRev, Plans, Goals, Journals,
     Parts
<1>2. Mutex'
  BY DEF TypeOK, Mutex
<1>3. PcFacts'
  BY DEF TypeOK, Mutex, PcFacts, At, Preparing, Unjournaled, Journaled, Steps,
     Holding, Forward, Recovering, Closing
<1>4. Discoverable'
  BY DEF TypeOK, Discoverable
<1> QED
  BY <1>1, <1>2, <1>3, <1>4

LEMMA InitIInv == Init => IInv
<1> SUFFICES ASSUME Init PROVE IInv
  OBVIOUS
<1> USE ConstantsAssumption DEF Init
<1>1. dest \in Content
  BY ContentTypes DEF Writers, UserRev, Whole, Empty
<1>2. kept \subseteq Writers
  BY DEF Writers, UserRev, Whole, Empty
<1>3. NoPlan \in Plans
  BY ContentTypes DEF NoPlan, Plan, Plans, Goals
<1>4. TypeOK
  BY <1>1, <1>2, <1>3, ContentTypes DEF TypeOK, Steps, Parts
<1>5. Mutex
  BY DEF Mutex, Holding, Forward, Recovering, Closing
<1>6. PcFacts
  BY DEF PcFacts, At, Preparing, Unjournaled, Journaled, Forward, Closing
<1>7. Discoverable
  BY DEF Discoverable, Empty
<1> QED
  BY <1>4, <1>5, <1>6, <1>7 DEF IInv

LEMMA PrepareStepKeeps == ASSUME IInv, NEW p \in Procs,
   PrepareStep(p) PROVE IInv'
  BY PrepareKeeps, MakeDirectoryKeeps, MakeStagingKeeps, MakeBackupKeeps,
        WriteNodeKeeps, VerifyBeforeKeeps, WriteJournalKeeps,
        DiscardStagedKeeps, UnstageKeeps, UnprepareKeeps DEF PrepareStep

LEMMA PublishStepKeeps == ASSUME IInv, NEW p \in Procs,
   PublishStep(p) PROVE IInv'
  BY PublishKeeps, MoveToBackupKeeps, MoveIntoPlaceKeeps, ConfirmKeeps,
        CommitKeeps, AcknowledgeKeeps DEF PublishStep

LEMMA CleanupStepKeeps == ASSUME IInv, NEW p \in Procs,
   CleanupStep(p) PROVE IInv'
  BY CleanupKeeps, RemoveDirectoriesKeeps, DeleteJournalKeeps,
        DeletePreparationKeeps DEF CleanupStep

LEMMA RecoverStepKeeps == ASSUME IInv, NEW p \in Procs,
   RecoverStep(p) PROVE IInv'
  BY ReportFailureKeeps, RecoverKeeps, AbandonKeeps, RollbackKeeps,
        MoveToStagingKeeps, MoveBackKeeps, ConfirmRestoredKeeps, ResumeKeeps
           DEF RecoverStep

LEMMA BeginKeeps == ASSUME IInv, NEW p \in Procs, Begin(p) PROVE IInv'
  BY PreviewRecordsKeeps, PreviewContentKeeps, GiveUpKeeps,
        LockForApplyKeeps, LockForRecoveryKeeps DEF Begin

\* The invariant is inductive: one case per kind of step.
LEMMA NextIInv == IInv /\ [Next]_vars => IInv'
<1> SUFFICES ASSUME IInv, [Next]_vars PROVE IInv'
  OBVIOUS
<1>1. ASSUME NEW p \in Procs, Begin(p) PROVE IInv'
  BY <1>1, BeginKeeps
<1>2. ASSUME NEW p \in Procs, Work(p) PROVE IInv'
  BY <1>2, PrepareStepKeeps, PublishStepKeeps, CleanupStepKeeps,
     RecoverStepKeeps, FreshKeeps, UnlockKeeps DEF Work
<1>3. ASSUME NEW p \in Procs, Fail(p) \/ Crash(p) PROVE IInv'
  BY <1>3, FailKeeps, CrashKeeps
<1>4. CASE User
  BY <1>4, UserWriteKeeps, UserDeleteKeeps, UserRetouchKeeps DEF User
<1>5. CASE UNCHANGED vars
  BY <1>5 DEF vars, files, records, local, history, IInv, TypeOK, Mutex,
              PcFacts, At, Preparing, Discoverable
<1> QED
  BY <1>1, <1>2, <1>3, <1>4, <1>5 DEF Next

THEOREM Inductive == Spec => []IInv
<1> QED
  BY InitIInv, NextIInv, PTL DEF Spec

\* Every variable keeps its type, for any number of processes, transactions,
\* nodes and edits: the state that resource_transaction.rs works on.
THEOREM TypeCorrect == Spec => []TypeOK
<1>1. IInv => TypeOK
  BY DEF IInv
<1> QED
  BY <1>1, Inductive, PTL

\* Whatever fails, dies or competes, private data on disk is always named by
\* the preparation record and a journal never outlives its preparation: what
\* recover() reads is enough to find all that prepare() and publish() left.
THEOREM AlwaysDiscoverable == Spec => []Discoverable
<1>1. IInv => Discoverable
  BY DEF IInv
<1> QED
  BY <1>1, Inductive, PTL

----------------------------------------------------------------------------
(* What a report says.                                                     *)

\* A receipt, a remembered commit and a report name committed transactions;
\* a process that runs a transaction forward has planned it.
Reports ==
    /\ receipt # None => receipt \in committed
    /\ \A p \in Procs :
        /\ At(p, "acknowledge") => plan[p].tx \in committed
        /\ pc[p] \in Forward => mode[p] = "forward"
        /\ At(p, "fail") => plan[p].tx \in Tx
        /\ mode[p] = "forward"
              => /\ plan[p].tx \in Tx
                 /\ pc[p] \in Forward \cup Closing \cup {"fail", "finish"}
        /\ reported[p]
              => /\ plan[p].tx \in committed /\ mode[p] # "sync"
                 /\ pc[p] \in Closing \cup Recovering
                                \cup {"fail", "resume", "finish", "refused"}

LEMMA PreviewRecordsReports ==
   ASSUME IInv, Reports, NEW p \in Procs, PreviewRecords(p) PROVE Reports'
  BY DEF PreviewRecords, At, Goto, files, records, history, Plan, IInv,
     TypeOK, PcFacts, Reports, Forward, Recovering, Closing

LEMMA PreviewContentReports ==
   ASSUME IInv, Reports, NEW p \in Procs, PreviewContent(p) PROVE Reports'
  BY ConstantsAssumption DEF PreviewContent, At, Goto, files, records, Plan,
     IInv, TypeOK, PcFacts, Reports, Forward, Recovering, Closing

LEMMA GiveUpReports ==
   ASSUME IInv, Reports, NEW p \in Procs, GiveUp(p) PROVE Reports'
  BY DEF GiveUp, At, Goto, files, records, history, IInv, TypeOK, PcFacts,
     Reports, Forward, Recovering, Closing

LEMMA LockForApplyReports ==
   ASSUME IInv, Reports, NEW p \in Procs, LockForApply(p) PROVE Reports'
  BY DEF LockForApply, At, Goto, files, records, local, history, IInv,
     TypeOK, PcFacts, Reports, Forward, Recovering, Closing

LEMMA LockForRecoveryReports ==
   ASSUME IInv, Reports, NEW p \in Procs, LockForRecovery(p) PROVE Reports'
  BY DEF LockForRecovery, At, Goto, files, records, history, IInv, TypeOK,
     PcFacts, Reports, Forward, Recovering, Closing

LEMMA FreshReports ==
   ASSUME IInv, Reports, NEW p \in Procs, Fresh(p) PROVE Reports'
  BY DEF Fresh, At, Goto, files, records, local, history, PlanHolds, IInv,
     TypeOK, PcFacts, Reports, Forward, Recovering, Closing

LEMMA PrepareReports ==
   ASSUME IInv, Reports, NEW p \in Procs, Prepare(p) PROVE Reports'
  BY DEF Prepare, At, Goto, files, history, PlanHolds, IInv, TypeOK,
     PcFacts, Reports, Forward, Recovering, Closing

LEMMA MakeDirectoryReports ==
   ASSUME IInv, Reports, NEW p \in Procs, MakeDirectory(p) PROVE Reports'
  BY DEF MakeDirectory, At, MakePart, Goto, records, local, history, IInv,
     TypeOK, PcFacts, Reports, Forward, Recovering, Closing

LEMMA MakeStagingReports ==
   ASSUME IInv, Reports, NEW p \in Procs, MakeStaging(p) PROVE Reports'
  BY DEF MakeStaging, At, MakePart, Goto, records, local, history, IInv,
     TypeOK, PcFacts, Reports, Forward, Recovering, Closing

LEMMA MakeBackupReports ==
   ASSUME IInv, Reports, NEW p \in Procs, MakeBackup(p) PROVE Reports'
  BY DEF MakeBackup, At, MakePart, Goto, records, local, history, IInv,
     TypeOK, PcFacts, Reports, Forward, Recovering, Closing

LEMMA WriteNodeReports ==
   ASSUME IInv, Reports, NEW p \in Procs, WriteNode(p) PROVE Reports'
  BY DEF WriteNode, At, Goto, records, local, history, IInv, TypeOK,
     PcFacts, Reports, Forward, Recovering, Closing

LEMMA VerifyBeforeReports ==
   ASSUME IInv, Reports, NEW p \in Procs, VerifyBefore(p) PROVE Reports'
  BY DEF VerifyBefore, At, Goto, files, records, local, history, IInv,
     TypeOK, PcFacts, Reports, Forward, Recovering, Closing

LEMMA WriteJournalReports ==
   ASSUME IInv, Reports, NEW p \in Procs, WriteJournal(p) PROVE Reports'
  BY DEF WriteJournal, At, Goto, local, history, JournalOf, IInv, TypeOK,
     PcFacts, Reports, Forward, Recovering, Closing

LEMMA DiscardStagedReports ==
   ASSUME IInv, Reports, NEW p \in Procs, DiscardStaged(p) PROVE Reports'
  BY DEF DiscardStaged, At, Goto, records, local, history, IInv, TypeOK,
     PcFacts, Reports, Forward, Recovering, Closing

LEMMA UnstageReports ==
   ASSUME IInv, Reports, NEW p \in Procs, Unstage(p) PROVE Reports'
  BY DEF Unstage, At, Goto, records, local, history, RemovePart, Removable,
     IInv, TypeOK, PcFacts, Reports, Forward, Recovering, Closing

LEMMA UnprepareReports ==
   ASSUME IInv, Reports, NEW p \in Procs, Unprepare(p) PROVE Reports'
  BY DEF Unprepare, At, Goto, files, local, history, IInv, TypeOK, PcFacts,
     Reports, Forward, Recovering, Closing

LEMMA PublishReports ==
   ASSUME IInv, Reports, NEW p \in Procs, Publish(p) PROVE Reports'
  BY DEF Publish, At, Goto, files, records, local, history, IInv, TypeOK,
     PcFacts, Reports, Forward, Recovering, Closing

LEMMA MoveToBackupReports ==
   ASSUME IInv, Reports, NEW p \in Procs, MoveToBackup(p) PROVE Reports'
  BY DEF MoveToBackup, At, Goto, records, local, history, IInv, TypeOK,
     PcFacts, Reports, Forward, Recovering, Closing

LEMMA MoveIntoPlaceReports ==
   ASSUME IInv, Reports, NEW p \in Procs, MoveIntoPlace(p) PROVE Reports'
  BY DEF MoveIntoPlace, At, Goto, records, local, history, IInv, TypeOK,
     PcFacts, Reports, Forward, Recovering, Closing

LEMMA ConfirmReports ==
   ASSUME IInv, Reports, NEW p \in Procs, Confirm(p) PROVE Reports'
  BY DEF Confirm, At, Goto, files, records, local, history, IInv, TypeOK,
     PcFacts, Reports, Forward, Recovering, Closing

LEMMA CommitReports ==
   ASSUME IInv, Reports, NEW p \in Procs, Commit(p) PROVE Reports'
  BY ConstantsAssumption DEF Commit, At, Goto, files, local, IInv, TypeOK,
     PcFacts, Reports, Forward, Recovering, Closing

LEMMA AcknowledgeReports ==
   ASSUME IInv, Reports, NEW p \in Procs, Acknowledge(p) PROVE Reports'
  BY ConstantsAssumption DEF Acknowledge, At, Goto, files, records, history,
     IInv, TypeOK, PcFacts, Reports, Forward, Recovering, Closing

LEMMA CleanupReports ==
   ASSUME IInv, Reports, NEW p \in Procs, Cleanup(p) PROVE Reports'
  BY DEF Cleanup, At, Goto, records, local, history, Refusal, IInv, TypeOK,
     PcFacts, Reports, Forward, Recovering, Closing

LEMMA RemoveDirectoriesReports ==
   ASSUME IInv, Reports, NEW p \in Procs, RemoveDirectories(p) PROVE Reports'
  BY DEF RemoveDirectories, At, Goto, records, local, history, RemovePart,
     Removable, IInv, TypeOK, PcFacts, Reports, Forward, Recovering, Closing

LEMMA DeleteJournalReports ==
   ASSUME IInv, Reports, NEW p \in Procs, DeleteJournal(p) PROVE Reports'
  BY DEF DeleteJournal, At, Goto, files, local, history, IInv, TypeOK,
     PcFacts, Reports, Forward, Recovering, Closing

LEMMA DeletePreparationReports ==
   ASSUME IInv, Reports, NEW p \in Procs, DeletePreparation(p) PROVE Reports'
  BY DEF DeletePreparation, At, Goto, files, local, history, IInv, TypeOK,
     PcFacts, Reports, Forward, Recovering, Closing

LEMMA ReportFailureReports ==
   ASSUME IInv, Reports, NEW p \in Procs, ReportFailure(p) PROVE Reports'
  BY ConstantsAssumption DEF ReportFailure, At, Goto, files, records,
     history, IInv, TypeOK, PcFacts, Reports, Forward, Recovering, Closing

LEMMA RecoverReports ==
   ASSUME IInv, Reports, NEW p \in Procs, Recover(p) PROVE Reports'
  BY DEF Recover, At, Goto, files, records, local, history, IInv, TypeOK,
     PcFacts, Reports, Forward, Recovering, Closing

LEMMA AbandonReports ==
   ASSUME IInv, Reports, NEW p \in Procs, Abandon(p) PROVE Reports'
  BY DEF Abandon, At, Goto, records, local, history, IInv, TypeOK, PcFacts,
     Reports, Forward, Recovering, Closing

LEMMA RollbackReports ==
   ASSUME IInv, Reports, NEW p \in Procs, Rollback(p) PROVE Reports'
  BY DEF Rollback, At, Goto, files, records, local, history, IInv, TypeOK,
     PcFacts, Reports, Forward, Recovering, Closing

LEMMA MoveToStagingReports ==
   ASSUME IInv, Reports, NEW p \in Procs, MoveToStaging(p) PROVE Reports'
  BY DEF MoveToStaging, At, Goto, records, local, history, IInv, TypeOK,
     PcFacts, Reports, Forward, Recovering, Closing

LEMMA MoveBackReports ==
   ASSUME IInv, Reports, NEW p \in Procs, MoveBack(p) PROVE Reports'
  BY DEF MoveBack, At, Goto, records, local, history, IInv, TypeOK, PcFacts,
     Reports, Forward, Recovering, Closing

LEMMA ConfirmRestoredReports ==
   ASSUME IInv, Reports, NEW p \in Procs, ConfirmRestored(p) PROVE Reports'
  BY DEF ConfirmRestored, At, Goto, files, records, local, history, IInv,
     TypeOK, PcFacts, Reports, Forward, Recovering, Closing

LEMMA ResumeReports ==
   ASSUME IInv, Reports, NEW p \in Procs, Resume(p) PROVE Reports'
  BY DEF Resume, At, Goto, files, records, history, Plan, IInv, TypeOK,
     PcFacts, Reports, Forward, Recovering, Closing

LEMMA UnlockReports ==
   ASSUME IInv, Reports, NEW p \in Procs, Unlock(p) PROVE Reports'
  BY DEF Unlock, At, files, records, history, Forgotten, Goto, IInv, TypeOK,
     PcFacts, Reports, Forward, Recovering, Closing

LEMMA FailReports ==
   ASSUME IInv, Reports, NEW p \in Procs, Fail(p) PROVE Reports'
  BY DEF Fail, At, Goto, files, records, history, OnError, Trouble, IInv,
     TypeOK, PcFacts, Reports, Forward, Recovering, Closing

LEMMA CrashReports ==
   ASSUME IInv, Reports, NEW p \in Procs, Crash(p) PROVE Reports'
  BY DEF Crash, At, files, records, history, Forgotten, Goto, IInv, TypeOK,
     PcFacts, Reports, Forward, Recovering, Closing

LEMMA NextReports == IInv /\ Reports /\ [Next]_vars => Reports'
<1> SUFFICES ASSUME IInv, Reports, [Next]_vars PROVE Reports'
  OBVIOUS
<1>1. ASSUME NEW p \in Procs, Begin(p) PROVE Reports'
  BY <1>1, PreviewRecordsReports, PreviewContentReports, GiveUpReports,
     LockForApplyReports, LockForRecoveryReports DEF Begin
<1>2. ASSUME NEW p \in Procs, PrepareStep(p) PROVE Reports'
  BY <1>2, PrepareReports, MakeDirectoryReports, MakeStagingReports,
     MakeBackupReports, WriteNodeReports, VerifyBeforeReports,
     WriteJournalReports, DiscardStagedReports, UnstageReports,
     UnprepareReports DEF PrepareStep
<1>3. ASSUME NEW p \in Procs, PublishStep(p) PROVE Reports'
  BY <1>3, PublishReports, MoveToBackupReports, MoveIntoPlaceReports,
     ConfirmReports, CommitReports, AcknowledgeReports DEF PublishStep
<1>4. ASSUME NEW p \in Procs, CleanupStep(p) PROVE Reports'
  BY <1>4, CleanupReports, RemoveDirectoriesReports, DeleteJournalReports,
     DeletePreparationReports DEF CleanupStep
<1>5. ASSUME NEW p \in Procs, RecoverStep(p) PROVE Reports'
  BY <1>5, ReportFailureReports, RecoverReports, AbandonReports,
     RollbackReports, MoveToStagingReports, MoveBackReports,
     ConfirmRestoredReports, ResumeReports DEF RecoverStep
<1>6. ASSUME NEW p \in Procs, Fail(p) \/ Crash(p) PROVE Reports'
  BY <1>6, FailReports, CrashReports
<1>7. CASE User
  BY <1>7 DEF User, UserWrite, UserDelete, UserRetouch, UserChange, records,
              local, Reports, At
<1>8. CASE UNCHANGED vars
  BY <1>8 DEF vars, records, local, history, Reports, At
<1> QED
  BY <1>1, <1>2, <1>3, <1>4, <1>5, <1>6, <1>7, <1>8, FreshReports,
     UnlockReports DEF Next, Work

LEMMA InitReports == Init => Reports
  BY DEF Init, Reports, At, Forward

\* What a process reports as completed has its receipt written, whatever
\* failed or died on the way: TransactionOutcome::completed of
\* execute_transaction() never names a resource whose write is not durable.
THEOREM ReportedIsCommitted == Spec => []ReportIsTrue
<1>1. Reports => ReportIsTrue
  BY DEF Reports, ReportIsTrue
<1>2. IInv /\ Reports /\ [Next]_vars => (IInv /\ Reports)'
  BY NextIInv, NextReports
<1> QED
  BY <1>1, <1>2, InitIInv, InitReports, PTL DEF Spec
----------------------------------------------------------------------------
(* Whole revisions outside the private directory.                          *)

Complete(c) == c.left \in {0, Nodes}

\* What is planned, recorded and about to be moved to the destination is a
\* complete revision or nothing.
Wholes ==
    /\ Complete(dest)
    /\ journal # None => Complete(journal.before)
    /\ \A p \in Procs :
        /\ Complete(plan[p].before)
        /\ pc[p] \in {"backup", "place"} /\ plan[p].goal = "write"
              => Complete(staged[plan[p].tx])
        /\ At(p, "place") => plan[p].goal = "write"
        /\ pc[p] \in {"undo", "restore"} => Complete(backup[preparation])

LEMMA PreviewRecordsWhole ==
   ASSUME IInv, Wholes, NEW p \in Procs, PreviewRecords(p) PROVE Wholes'
  BY ConstantsAssumption DEF PreviewRecords, At, Goto, files, records,
     history, Plan, Empty, IInv, TypeOK, Mutex, PcFacts, Wholes, Complete,
     Holding, Forward, Recovering

LEMMA PreviewContentWhole ==
   ASSUME IInv, Wholes, NEW p \in Procs, PreviewContent(p) PROVE Wholes'
  BY ConstantsAssumption DEF PreviewContent, At, Goto, files, records, Plan,
     Empty, IInv, TypeOK, Mutex, PcFacts, Wholes, Complete, Holding,
     Forward, Recovering

LEMMA GiveUpWhole ==
   ASSUME IInv, Wholes, NEW p \in Procs, GiveUp(p) PROVE Wholes'
  BY ConstantsAssumption DEF GiveUp, At, Goto, files, records, history,
     NoPlan, Plan, Empty, IInv, TypeOK, Mutex, PcFacts, Wholes, Complete,
     Holding, Forward, Recovering

LEMMA LockForApplyWhole ==
   ASSUME IInv, Wholes, NEW p \in Procs, LockForApply(p) PROVE Wholes'
  BY ConstantsAssumption DEF LockForApply, At, Goto, files, records, local,
     history, IInv, TypeOK, Mutex, PcFacts, Wholes, Complete, Holding,
     Forward, Recovering

LEMMA LockForRecoveryWhole ==
   ASSUME IInv, Wholes, NEW p \in Procs, LockForRecovery(p) PROVE Wholes'
  BY ConstantsAssumption DEF LockForRecovery, At, Goto, files, records,
     history, IInv, TypeOK, Mutex, PcFacts, Wholes, Complete, Holding,
     Forward, Recovering

LEMMA FreshWhole ==
   ASSUME IInv, Wholes, NEW p \in Procs, Fresh(p) PROVE Wholes'
  BY ConstantsAssumption DEF Fresh, At, Goto, files, records, local,
     history, IInv, TypeOK, Mutex, PcFacts, Wholes, Complete, Holding,
     Forward, Recovering

LEMMA PrepareWhole ==
   ASSUME IInv, Wholes, NEW p \in Procs, Prepare(p) PROVE Wholes'
  BY ConstantsAssumption DEF Prepare, At, Goto, files, history, IInv,
     TypeOK, Mutex, PcFacts, Wholes, Complete, Holding, Forward, Recovering

LEMMA MakeDirectoryWhole ==
   ASSUME IInv, Wholes, NEW p \in Procs, MakeDirectory(p) PROVE Wholes'
  BY ConstantsAssumption DEF MakeDirectory, At, MakePart, Goto, records,
     local, history, IInv, TypeOK, Mutex, PcFacts, Wholes, Complete,
     Holding, Forward, Recovering

LEMMA MakeStagingWhole ==
   ASSUME IInv, Wholes, NEW p \in Procs, MakeStaging(p) PROVE Wholes'
  BY ConstantsAssumption DEF MakeStaging, At, MakePart, Goto, records,
     local, history, IInv, TypeOK, Mutex, PcFacts, Wholes, Complete,
     Holding, Forward, Recovering

LEMMA MakeBackupWhole ==
   ASSUME IInv, Wholes, NEW p \in Procs, MakeBackup(p) PROVE Wholes'
  BY ConstantsAssumption DEF MakeBackup, At, MakePart, Goto, records, local,
     history, IInv, TypeOK, Mutex, PcFacts, Wholes, Complete, Holding,
     Forward, Recovering

LEMMA WriteNodeWhole ==
   ASSUME IInv, Wholes, NEW p \in Procs, WriteNode(p) PROVE Wholes'
  BY ConstantsAssumption DEF WriteNode, At, Goto, records, local, history,
     IInv, TypeOK, Mutex, PcFacts, Wholes, Complete, Holding, Forward,
     Recovering

LEMMA VerifyBeforeWhole ==
   ASSUME IInv, Wholes, NEW p \in Procs, VerifyBefore(p) PROVE Wholes'
  BY ConstantsAssumption DEF VerifyBefore, At, Goto, files, records, local,
     history, IInv, TypeOK, Mutex, PcFacts, Wholes, Complete, Holding,
     Forward, Recovering

LEMMA WriteJournalWhole ==
   ASSUME IInv, Wholes, NEW p \in Procs, WriteJournal(p) PROVE Wholes'
  BY ConstantsAssumption DEF WriteJournal, At, Goto, local, history,
     JournalOf, IInv, TypeOK, Mutex, PcFacts, Wholes, Complete, Holding,
     Forward, Recovering

LEMMA DiscardStagedWhole ==
   ASSUME IInv, Wholes, NEW p \in Procs, DiscardStaged(p) PROVE Wholes'
  BY ConstantsAssumption DEF DiscardStaged, At, Goto, records, local,
     history, Empty, IInv, TypeOK, Mutex, PcFacts, Wholes, Complete,
     Holding, Forward, Recovering

LEMMA UnstageWhole ==
   ASSUME IInv, Wholes, NEW p \in Procs, Unstage(p) PROVE Wholes'
  BY ConstantsAssumption DEF Unstage, At, Goto, records, local, history,
     RemovePart, IInv, TypeOK, Mutex, PcFacts, Wholes, Complete, Holding,
     Forward, Recovering

LEMMA UnprepareWhole ==
   ASSUME IInv, Wholes, NEW p \in Procs, Unprepare(p) PROVE Wholes'
  BY ConstantsAssumption DEF Unprepare, At, Goto, files, local, history,
     IInv, TypeOK, Mutex, PcFacts, Wholes, Complete, Holding, Forward,
     Recovering

LEMMA PublishWhole ==
   ASSUME IInv, Wholes, NEW p \in Procs, Publish(p) PROVE Wholes'
<1> USE DEF Publish, At, Goto, files, records, local, history
<1>1. plan[p].goal \in Goals /\ Complete(plan[p].before)
  BY DEF IInv, TypeOK, Plans, Wholes
<1>2. Complete(After(plan[p]))
  BY <1>1 DEF After, Whole, Empty, Complete, Goals
<1>3. pc'[p] \in {"backup", "place"}
         => staged[plan[p].tx] = After(plan[p]) /\ dest = plan[p].before
            /\ After(plan[p]) # dest
  BY DEF IInv, TypeOK
<1>4. pc'[p] = "place" => plan[p].goal = "write"
  BY <1>1, <1>3 DEF After, Goals, IInv, TypeOK
<1>5. pc'[p] \in {"backup", "place", "confirm", "fail"}
         /\ \A q \in Procs : q # p => pc'[q] = pc[q]
  BY DEF IInv, TypeOK
<1> QED
  BY <1>2, <1>3, <1>4, <1>5 DEF Wholes, Complete

LEMMA MoveToBackupWhole ==
   ASSUME IInv, Wholes, NEW p \in Procs, MoveToBackup(p) PROVE Wholes'
  BY ConstantsAssumption DEF MoveToBackup, At, Goto, records, local,
     history, Empty, IInv, TypeOK, Mutex, PcFacts, Wholes, Complete,
     Holding, Forward, Recovering

LEMMA MoveIntoPlaceWhole ==
   ASSUME IInv, Wholes, NEW p \in Procs, MoveIntoPlace(p) PROVE Wholes'
  BY ConstantsAssumption DEF MoveIntoPlace, At, Goto, records, local,
     history, Empty, IInv, TypeOK, Mutex, PcFacts, Wholes, Complete,
     Holding, Forward, Recovering

LEMMA ConfirmWhole ==
   ASSUME IInv, Wholes, NEW p \in Procs, Confirm(p) PROVE Wholes'
  BY ConstantsAssumption DEF Confirm, At, Goto, files, records, local,
     history, Empty, After, IInv, TypeOK, Mutex, PcFacts, Wholes, Complete,
     Holding, Forward, Recovering

LEMMA CommitWhole ==
   ASSUME IInv, Wholes, NEW p \in Procs, Commit(p) PROVE Wholes'
  BY ConstantsAssumption DEF Commit, At, Goto, files, local, IInv, TypeOK,
     Mutex, PcFacts, Wholes, Complete, Holding, Forward, Recovering

LEMMA AcknowledgeWhole ==
   ASSUME IInv, Wholes, NEW p \in Procs, Acknowledge(p) PROVE Wholes'
  BY ConstantsAssumption DEF Acknowledge, At, Goto, files, records, history,
     IInv, TypeOK, Mutex, PcFacts, Wholes, Complete, Holding, Forward,
     Recovering

LEMMA CleanupWhole ==
   ASSUME IInv, Wholes, NEW p \in Procs, Cleanup(p) PROVE Wholes'
  BY ConstantsAssumption DEF Cleanup, At, Goto, records, local, history,
     Refusal, Empty, Closing, IInv, TypeOK, Mutex, PcFacts, Wholes,
     Complete, Holding, Forward, Recovering

LEMMA RemoveDirectoriesWhole ==
   ASSUME IInv, Wholes, NEW p \in Procs, RemoveDirectories(p) PROVE Wholes'
  BY ConstantsAssumption DEF RemoveDirectories, At, Goto, records, local,
     history, RemovePart, Closing, IInv, TypeOK, Mutex, PcFacts, Wholes,
     Complete, Holding, Forward, Recovering

LEMMA DeleteJournalWhole ==
   ASSUME IInv, Wholes, NEW p \in Procs, DeleteJournal(p) PROVE Wholes'
  BY ConstantsAssumption DEF DeleteJournal, At, Goto, files, local, history,
     Closing, IInv, TypeOK, Mutex, PcFacts, Wholes, Complete, Holding,
     Forward, Recovering

LEMMA DeletePreparationWhole ==
   ASSUME IInv, Wholes, NEW p \in Procs, DeletePreparation(p) PROVE Wholes'
  BY ConstantsAssumption DEF DeletePreparation, At, Goto, files, local,
     history, Closing, IInv, TypeOK, Mutex, PcFacts, Wholes, Complete,
     Holding, Forward, Recovering

LEMMA ReportFailureWhole ==
   ASSUME IInv, Wholes, NEW p \in Procs, ReportFailure(p) PROVE Wholes'
  BY ConstantsAssumption DEF ReportFailure, At, Goto, files, records,
     history, IInv, TypeOK, Mutex, PcFacts, Wholes, Complete, Holding,
     Forward, Recovering

LEMMA RecoverWhole ==
   ASSUME IInv, Wholes, NEW p \in Procs, Recover(p) PROVE Wholes'
  BY ConstantsAssumption DEF Recover, At, Goto, files, records, local,
     history, IInv, TypeOK, Mutex, PcFacts, Wholes, Complete, Holding,
     Forward, Recovering

LEMMA AbandonWhole ==
   ASSUME IInv, Wholes, NEW p \in Procs, Abandon(p) PROVE Wholes'
  BY ConstantsAssumption DEF Abandon, At, Goto, records, local, history,
     Empty, IInv, TypeOK, Mutex, PcFacts, Wholes, Complete, Holding,
     Forward, Recovering

LEMMA RollbackWhole ==
   ASSUME IInv, Wholes, NEW p \in Procs, Rollback(p) PROVE Wholes'
<1> USE DEF Rollback, At, Goto, files, records, local, history
<1>1. pc'[p] \in {"undo", "restore"} => Complete(backup[preparation])
  <2>1. pc'[p] = "undo" => Published(preparation)
    BY DEF IInv, TypeOK
  <2>2. pc'[p] = "restore" => SetAside(preparation)
    BY DEF IInv, TypeOK
  <2>3. Complete(journal.before)
    BY DEF IInv, PcFacts, Journaled, Wholes
  <2> QED
    BY <2>1, <2>2, <2>3 DEF Published, SetAside, Accounted, Complete, Empty
<1>2. pc'[p] \in {"refused", "cleanup", "undo", "restore"}
         /\ \A q \in Procs : q # p => pc'[q] = pc[q]
  BY DEF IInv, TypeOK
<1> QED
  BY <1>1, <1>2 DEF Wholes, Complete

LEMMA MoveToStagingWhole ==
   ASSUME IInv, Wholes, NEW p \in Procs, MoveToStaging(p) PROVE Wholes'
  BY ConstantsAssumption DEF MoveToStaging, At, Goto, records, local,
     history, Empty, IInv, TypeOK, Mutex, PcFacts, Wholes, Complete,
     Holding, Forward, Recovering

LEMMA MoveBackWhole ==
   ASSUME IInv, Wholes, NEW p \in Procs, MoveBack(p) PROVE Wholes'
  BY ConstantsAssumption DEF MoveBack, At, Goto, records, local, history,
     Empty, IInv, TypeOK, Mutex, PcFacts, Wholes, Complete, Holding,
     Forward, Recovering

LEMMA ConfirmRestoredWhole ==
   ASSUME IInv, Wholes, NEW p \in Procs, ConfirmRestored(p) PROVE Wholes'
  BY ConstantsAssumption DEF ConfirmRestored, At, Goto, files, records,
     local, history, IInv, TypeOK, Mutex, PcFacts, Wholes, Complete,
     Holding, Forward, Recovering

LEMMA ResumeWhole ==
   ASSUME IInv, Wholes, NEW p \in Procs, Resume(p) PROVE Wholes'
  BY ConstantsAssumption DEF Resume, At, Goto, files, records, history,
     Plan, Empty, IInv, TypeOK, Mutex, PcFacts, Wholes, Complete, Holding,
     Forward, Recovering

LEMMA UnlockWhole ==
   ASSUME IInv, Wholes, NEW p \in Procs, Unlock(p) PROVE Wholes'
  BY ConstantsAssumption DEF Unlock, At, files, records, history, Forgotten,
     Goto, NoPlan, Plan, Empty, IInv, TypeOK, Mutex, PcFacts, Wholes,
     Complete, Holding, Forward, Recovering

LEMMA FailWhole ==
   ASSUME IInv, Wholes, NEW p \in Procs, Fail(p) PROVE Wholes'
  BY ConstantsAssumption DEF Fail, At, Goto, files, records, history,
     OnError, Trouble, IInv, TypeOK, Mutex, PcFacts, Wholes, Complete,
     Holding, Forward, Recovering

LEMMA CrashWhole ==
   ASSUME IInv, Wholes, NEW p \in Procs, Crash(p) PROVE Wholes'
  BY ConstantsAssumption DEF Crash, At, files, records, history, Forgotten,
     Goto, NoPlan, Plan, Empty, IInv, TypeOK, Mutex, PcFacts, Wholes,
     Complete, Holding, Forward, Recovering

LEMMA NextWholes == IInv /\ Wholes /\ [Next]_vars => Wholes'
<1> SUFFICES ASSUME IInv, Wholes, [Next]_vars PROVE Wholes'
  OBVIOUS
<1>1. ASSUME NEW p \in Procs, Begin(p) PROVE Wholes'
  BY <1>1, PreviewRecordsWhole, PreviewContentWhole, GiveUpWhole,
     LockForApplyWhole, LockForRecoveryWhole DEF Begin
<1>2. ASSUME NEW p \in Procs, PrepareStep(p) PROVE Wholes'
  BY <1>2, PrepareWhole, MakeDirectoryWhole, MakeStagingWhole,
     MakeBackupWhole, WriteNodeWhole, VerifyBeforeWhole,
     WriteJournalWhole, DiscardStagedWhole, UnstageWhole,
     UnprepareWhole DEF PrepareStep
<1>3. ASSUME NEW p \in Procs, PublishStep(p) PROVE Wholes'
  BY <1>3, PublishWhole, MoveToBackupWhole, MoveIntoPlaceWhole,
     ConfirmWhole, CommitWhole, AcknowledgeWhole DEF PublishStep
<1>4. ASSUME NEW p \in Procs, CleanupStep(p) PROVE Wholes'
  BY <1>4, CleanupWhole, RemoveDirectoriesWhole, DeleteJournalWhole,
     DeletePreparationWhole DEF CleanupStep
<1>5. ASSUME NEW p \in Procs, RecoverStep(p) PROVE Wholes'
  BY <1>5, ReportFailureWhole, RecoverWhole, AbandonWhole,
     RollbackWhole, MoveToStagingWhole, MoveBackWhole,
     ConfirmRestoredWhole, ResumeWhole DEF RecoverStep
<1>6. ASSUME NEW p \in Procs, Fail(p) \/ Crash(p) PROVE Wholes'
  BY <1>6, FailWhole, CrashWhole
<1>7. CASE User
  BY <1>7, ConstantsAssumption
     DEF User, UserWrite, UserDelete, UserRetouch, UserChange, Whole, Empty,
         records, local, Wholes, Complete, At
<1>8. CASE UNCHANGED vars
  BY <1>8 DEF vars, files, records, local, history, Wholes, Complete, At
<1> QED
  BY <1>1, <1>2, <1>3, <1>4, <1>5, <1>6, <1>7, <1>8, FreshWhole,
     UnlockWhole DEF Next, Work

LEMMA InitWholes == Init => Wholes
  BY DEF Init, Wholes, Complete, At, Whole, Empty, NoPlan, Plan

\* At every moment of a transaction, of a recovery and after a crash the
\* destination is a complete revision or absent: write_revision() and
\* destroy(), which work node by node, only ever run in the private directory.
THEOREM AlwaysWhole == Spec => []DestinationWhole
<1>1. Wholes => DestinationWhole
  BY DEF Wholes, Complete, DestinationWhole
<1>2. IInv /\ Wholes /\ [Next]_vars => (IInv /\ Wholes)'
  BY NextIInv, NextWholes
<1> QED
  BY <1>1, <1>2, InitIInv, InitWholes, PTL DEF Spec

=============================================================================
