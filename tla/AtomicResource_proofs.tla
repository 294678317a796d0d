------------------------ MODULE AtomicResource_proofs ------------------------
(***************************************************************************)
(* ResourceTransaction loses nothing that must survive, and implements     *)
(* AtomicResource: for any number of processes, transactions, nodes and    *)
(* user edits.                                                             *)
(*                                                                         *)
(* The argument follows who wrote what.  A transaction id and an edit      *)
(* number are drawn once (Drawn), so the three places of a transaction     *)
(* never hold two revisions of one writer (Apart).  What the records say   *)
(* of a transaction that nobody is running, after a crash or a failure,    *)
(* bounds what its places hold (Journaling); what its step says of a       *)
(* running one bounds them further (Intact on the way to the commit,       *)
(* Reversing on the way back).                                             *)
(***************************************************************************)
EXTENDS ResourceTransaction_proofs

\* No record, no plan and no place has heard of the writer w.
Unseen(w) ==
    /\ w \notin kept \cup committed
    /\ w \notin {dest.by, preparation}
    /\ \A t \in Tx : w \notin {staged[t].by, backup[t].by}
    /\ \A p \in Procs : plan[p].before.by # w
    /\ journal # None => journal.before.by # w

Planned(p) ==
    /\ plan[p].previous \in committed \cup {None}
    /\ plan[p].tx # None =>
         /\ plan[p].tx \in used
         /\ plan[p].previous # plan[p].tx
         /\ plan[p].before.by # plan[p].tx
         /\ \A q \in Procs : plan[q].tx = plan[p].tx => q = p
    /\ pc[p] \in {"previewed", "fresh", "prepare"} => Unseen(plan[p].tx)

\* Ids and edit numbers are drawn once, and a plan's id is its own.
Drawn ==
    /\ \A t \in Tx \ used : Unseen(t)
    /\ \A n \in UserRev : n > edits => Unseen(n)
    /\ \A p \in Procs : Planned(p)

\* The three places of a transaction hold revisions of different writers, and
\* its backup is never its own.
Apart ==
    \A t \in Tx :
        /\ backup[t].by # t
        /\ dest.by \in {staged[t].by, backup[t].by} => dest = Empty
        /\ staged[t].by = backup[t].by => staged[t] = Empty

\* Nothing of the transaction t has left its staging area.
Unmoved(t) ==
    /\ t \notin kept \cup committed
    /\ dest.by # t
    /\ staged[t] # Empty => staged[t].by = t
    /\ backup[t] = Empty

\* A journal without its receipt: a published revision that must survive was
\* modified after the directory's time, and that directory is still there.
Pending(t) ==
    /\ t \in kept => dest.by = t /\ t \in late
    /\ dest.by = t => "root" \in parts[t]
    /\ journal.before = journal.staged => staged[t] = Empty /\ backup[t] = Empty

\* A journal with its receipt: only the replaced revision is left.
Done(t) ==
    /\ receipt = t
    /\ staged[t] = Empty
    /\ backup[t] # Empty
         => backup[t].by = journal.before.by /\ backup[t].by \notin kept

Journaling ==
    LET t == preparation
    IN  /\ t # None /\ journal = None
             => (t \in committed /\ parts[t] = {}) \/ Unmoved(t)
        /\ journal # None =>
             /\ journal.before.by # t /\ journal.previous # t
             /\ journal.staged \in {journal.before, Empty, Whole(t)}
             /\ IF t \in committed THEN Done(t) ELSE Pending(t)

\* On the way to the commit.
Intact(p) ==
    LET t == plan[p].tx
        before == plan[p].before
    IN  /\ pc[p] \in {"mkdir", "mkstaging", "mkbackup", "stage", "verify",
                      "journal", "discard", "unstage", "unprepare",
                      "publish", "backup"} => Unmoved(t)
        /\ pc[p] \in {"mkdir", "mkstaging", "mkbackup"} => staged[t] = Empty
        /\ At(p, "stage") => plan[p].goal = "write"
        /\ pc[p] \in {"verify", "journal"} /\ plan[p].goal # "write"
             => staged[t] = Empty
        /\ pc[p] \in {"publish", "backup", "place"} => parts[t] = Parts
        /\ At(p, "backup") =>
             /\ journal = JournalOf(plan[p])
             /\ After(plan[p]) # before /\ before # Empty
             /\ staged[t] = After(plan[p])
        /\ pc[p] \in {"place", "confirm", "commit"}
             => t \notin kept \cup committed
        /\ At(p, "place") =>
             /\ journal = JournalOf(plan[p])
             /\ journal.staged = Whole(t) /\ staged[t] = Whole(t)
             /\ backup[t] # Empty \/ before = Empty
        /\ At(p, "commit") =>
             /\ journal = JournalOf(plan[p])
             /\ staged[t] = Empty
             /\ backup[t] = IF After(plan[p]) = before THEN Empty ELSE before

\* On the way back, and out.
Reversing(p) ==
    LET t == preparation
    IN  /\ pc[p] \in {"rollback", "undo", "restore", "restored"}
             => t \notin committed
        /\ pc[p] \in {"undo", "restore", "restored"} => t \notin kept
        /\ At(p, "undo") =>
             /\ staged[t] = Empty /\ backup[t] = journal.before
             /\ journal.staged = Whole(t)
             /\ dest \in {Empty, journal.staged} \/ dest.by \in UserRev
        /\ At(p, "restore") =>
             /\ staged[t].by \in {None, t}
             /\ backup[t] = journal.before /\ backup[t] # Empty
             /\ journal.before # journal.staged
        /\ At(p, "restored") => backup[t] = Empty
        /\ pc[p] \in {"cleanup", "rmdirs", "forget"}
             /\ journal # None /\ t \notin committed
             => t \notin kept /\ dest.by # t /\ backup[t] = Empty

Steady == Drawn /\ Apart /\ Journaling /\ KeptSurvives
Walking == \A p \in Procs : Intact(p) /\ Reversing(p)
\* The resource is what it was to AtomicResource.
Alike == UNCHANGED <<Logical.by, receipt, committed, edits>>
AtomicNext == [Atomic!ANext]_(Atomic!avars)

Known == IInv /\ Reports /\ Wholes
Safe == Known /\ Steady /\ Walking

----------------------------------------------------------------------------
(* Steps that move nothing, and processes that stand by.                   *)

\* A process that holds the lock is the only one.
LEMMA Alone ==
    ASSUME IInv, NEW p \in Procs, pc[p] \in Holding,
           NEW q \in Procs, q # p
    PROVE  pc[q] \notin Holding
  BY DEF IInv, Mutex

\* Another process is where it was: what is known of it needs the lock.
LEMMA Others ==
    ASSUME IInv, NEW p \in Procs, pc[p] \in Holding,
           \A q \in Procs : q # p => pc'[q] = pc[q],
           Intact(p)', Reversing(p)'
    PROVE  Walking'
<1>1. ASSUME NEW q \in Procs, q # p PROVE Intact(q)' /\ Reversing(q)'
  <2>1. pc'[q] \notin Holding
    BY <1>1, Alone
  <2> QED
    BY <2>1 DEF Intact, Reversing, At, Holding, Forward, Recovering, Closing
<1> QED
  BY <1>1 DEF Walking

\* A process without the lock takes a step that leaves files and records.
LEMMA Bystanders ==
    ASSUME Walking, NEW p \in Procs,
           UNCHANGED <<files, records, kept, committed>>,
           \A q \in Procs : q # p => pc'[q] = pc[q] /\ plan'[q] = plan[q],
           pc'[p] \in {"idle", "previewing", "previewed", "fresh", "recover",
                       "finish"}
    PROVE  Walking'
<1>1. ASSUME NEW q \in Procs, q # p PROVE Intact(q)' /\ Reversing(q)'
  BY <1>1 DEF Walking, Intact, Reversing, Unmoved, At, files, records
<1>2. Intact(p)' /\ Reversing(p)'
  BY DEF Intact, Reversing, At
<1> QED
  BY <1>1, <1>2 DEF Walking

\* Files, records, plans and history stay.
LEMMA Still ==
    ASSUME Steady, UNCHANGED <<files, records, history, plan>>,
           \A q \in Procs : pc'[q] \in {"previewed", "fresh", "prepare"}
                              => pc[q] \in {"previewed", "fresh", "prepare"}
    PROVE  Steady'
<1> USE DEF files, records, history
<1>1. Drawn'
  BY DEF Steady, Drawn, Planned, Unseen
<1>2. Apart' /\ Journaling'
  BY DEF Steady, Apart, Journaling, Unmoved, Pending, Done
<1>3. KeptSurvives'
  BY DEF Steady, KeptSurvives, Places
<1> QED
  BY <1>1, <1>2, <1>3 DEF Steady

LEMMA LockForApplySafe ==
    ASSUME Safe, NEW p \in Procs, LockForApply(p)
    PROVE  Steady' /\ Walking'
<1> USE DEF LockForApply, At, Goto, files, records, local, history
<1>1. Steady'
  BY Still DEF Safe, Known, IInv, TypeOK
<1>2. Walking'
  BY Bystanders DEF Safe, Known, IInv, TypeOK
<1> QED
  BY <1>1, <1>2

LEMMA LockForRecoverySafe ==
    ASSUME Safe, NEW p \in Procs, LockForRecovery(p)
    PROVE  Steady' /\ Walking'
<1> USE DEF LockForRecovery, At, Goto, files, records, history
<1>1. Steady'
  BY Still DEF Safe, Known, IInv, TypeOK
<1>2. Walking'
  BY Bystanders DEF Safe, Known, IInv, TypeOK
<1> QED
  BY <1>1, <1>2

LEMMA FreshSafe ==
    ASSUME Safe, NEW p \in Procs, Fresh(p)
    PROVE  Steady' /\ Walking'
<1> USE DEF Fresh, At, Goto, files, records, local, history
<1>1. pc[p] \in Holding
  BY DEF Holding, Forward, Recovering, Closing
<1>2. Steady'
  BY Still DEF Safe, Known, IInv, TypeOK
<1>3. Intact(p)' /\ Reversing(p)'
  BY DEF Safe, Known, IInv, TypeOK, Walking, Intact, Reversing, Unmoved
<1>4. \A q \in Procs : q # p => pc'[q] = pc[q]
  BY DEF Safe, Known, IInv, TypeOK
<1> QED
  BY <1>1, <1>2, <1>3, <1>4, Others DEF Safe, Known

LEMMA VerifyBeforeSafe ==
    ASSUME Safe, NEW p \in Procs, VerifyBefore(p)
    PROVE  Steady' /\ Walking'
<1> USE DEF VerifyBefore, At, Goto, files, records, local, history
<1>1. pc[p] \in Holding
  BY DEF Holding, Forward, Recovering, Closing
<1>2. Steady'
  BY Still DEF Safe, Known, IInv, TypeOK
<1>3. Intact(p)' /\ Reversing(p)'
  <2>1. pc'[p] \in {"journal", "discard"} /\ Intact(p)
    BY DEF Safe, Known, IInv, TypeOK, Walking
  <2>2. Reversing(p)'
    BY <2>1 DEF Reversing
  <2>3. Intact(p)'
    BY <2>1 DEF Intact, Unmoved
  <2> QED
    BY <2>2, <2>3
<1>4. \A q \in Procs : q # p => pc'[q] = pc[q]
  BY DEF Safe, Known, IInv, TypeOK
<1> QED
  BY <1>1, <1>2, <1>3, <1>4, Others DEF Safe, Known

LEMMA PublishSafe ==
    ASSUME Safe, NEW p \in Procs, Publish(p)
    PROVE  Steady' /\ Walking'
<1> USE DEF Publish, At, Goto, files, records, local, history
<1>1. pc[p] \in Holding
  BY DEF Holding, Forward, Recovering, Closing
<1>2. Steady'
  BY Still DEF Safe, Known, IInv, TypeOK
<1>3. Intact(p)' /\ Reversing(p)'
  <2> DEFINE tx == plan[p].tx
  <2>1. pc'[p] \in {"backup", "place", "confirm", "fail"} /\ Intact(p)
    BY DEF Safe, Known, IInv, TypeOK, Walking
  <2>2. Reversing(p)'
    BY <2>1 DEF Reversing
  <2>3. Unmoved(tx) /\ parts[tx] = Parts
    BY <2>1 DEF Intact
  <2>4. CASE pc'[p] \in {"confirm", "fail"}
    BY <2>2, <2>3, <2>4 DEF Intact, Unmoved
  <2>5. CASE pc'[p] \in {"backup", "place"}
    <3>1. /\ journal = JournalOf(plan[p]) /\ dest = plan[p].before
          /\ After(plan[p]) # dest /\ staged[tx] = After(plan[p])
          /\ pc'[p] = IF dest # Empty THEN "backup" ELSE "place"
      BY <2>5 DEF Recorded, Safe, Known, IInv, TypeOK
    <3>2. CASE dest # Empty
      BY <2>2, <2>3, <3>1, <3>2 DEF Intact, Unmoved
    <3>3. CASE dest = Empty
      <4>1. plan[p].goal \in Goals
        BY DEF Safe, Known, IInv, TypeOK, Plans
      <4>2. After(plan[p]) = Whole(tx)
        BY <3>1, <3>3, <4>1 DEF After, Goals
      <4>3. journal.staged = Whole(tx)
        BY <3>1, <4>2 DEF JournalOf
      <4> QED
        BY <2>2, <2>3, <3>1, <3>3, <4>2, <4>3 DEF Intact, Unmoved
    <3> QED
      BY <3>2, <3>3
  <2> QED
    BY <2>1, <2>2, <2>4, <2>5
<1>4. \A q \in Procs : q # p => pc'[q] = pc[q]
  BY DEF Safe, Known, IInv, TypeOK
<1> QED
  BY <1>1, <1>2, <1>3, <1>4, Others DEF Safe, Known

LEMMA ConfirmSafe ==
    ASSUME Safe, NEW p \in Procs, Confirm(p)
    PROVE  Steady' /\ Walking'
<1> USE DEF Confirm, At, Goto, files, records, local, history
<1>1. pc[p] \in Holding
  BY DEF Holding, Forward, Recovering, Closing
<1>2. Steady'
  BY Still DEF Safe, Known, IInv, TypeOK
<1>3. Intact(p)' /\ Reversing(p)'
  <2>1. pc'[p] \in {"commit", "fail"} /\ Intact(p)
    BY DEF Safe, Known, IInv, TypeOK, Walking
  <2>2. Reversing(p)'
    BY <2>1 DEF Reversing
  <2>3. Intact(p)'
    BY <2>1 DEF Intact, Recorded, Safe, Known, IInv, TypeOK
  <2> QED
    BY <2>2, <2>3
<1>4. \A q \in Procs : q # p => pc'[q] = pc[q]
  BY DEF Safe, Known, IInv, TypeOK
<1> QED
  BY <1>1, <1>2, <1>3, <1>4, Others DEF Safe, Known

LEMMA AcknowledgeSafe ==
    ASSUME Safe, NEW p \in Procs, Acknowledge(p)
    PROVE  Steady' /\ Walking'
<1> USE DEF Acknowledge, At, Goto, files, records, history
<1>1. pc[p] \in Holding
  BY DEF Holding, Forward, Recovering, Closing
<1>2. Steady'
  BY Still DEF Safe, Known, IInv, TypeOK
<1>3. Intact(p)' /\ Reversing(p)'
  <2>1. pc'[p] = "cleanup" /\ preparation \in committed
    BY DEF Safe, Known, IInv, TypeOK, Reports, PcFacts, Forward
  <2>2. Reversing(p)'
    BY <2>1 DEF Reversing
  <2>3. Intact(p)'
    BY <2>1 DEF Intact
  <2> QED
    BY <2>2, <2>3
<1>4. \A q \in Procs : q # p => pc'[q] = pc[q]
  BY DEF Safe, Known, IInv, TypeOK
<1> QED
  BY <1>1, <1>2, <1>3, <1>4, Others DEF Safe, Known

LEMMA ReportFailureSafe ==
    ASSUME Safe, NEW p \in Procs, ReportFailure(p)
    PROVE  Steady' /\ Walking'
<1> USE DEF ReportFailure, At, Goto, files, records, history
<1>1. pc[p] \in Holding
  BY DEF Holding, Forward, Recovering, Closing
<1>2. Steady'
  BY Still DEF Safe, Known, IInv, TypeOK
<1>3. Intact(p)' /\ Reversing(p)'
  BY DEF Safe, Known, IInv, TypeOK, Walking, Intact, Reversing, Unmoved
<1>4. \A q \in Procs : q # p => pc'[q] = pc[q]
  BY DEF Safe, Known, IInv, TypeOK
<1> QED
  BY <1>1, <1>2, <1>3, <1>4, Others DEF Safe, Known

LEMMA RecoverSafe ==
    ASSUME Safe, NEW p \in Procs, Recover(p)
    PROVE  Steady' /\ Walking'
<1> USE DEF Recover, At, Goto, files, records, local, history
<1>1. pc[p] \in Holding
  BY DEF Holding, Forward, Recovering, Closing
<1>2. Steady'
  BY Still DEF Safe, Known, IInv, TypeOK
<1>3. Intact(p)' /\ Reversing(p)'
  <2>1. pc'[p] \in {"resume", "abandon", "refused", "cleanup", "rollback"}
    BY DEF Safe, Known, IInv, TypeOK
  <2>2. Intact(p)'
    BY <2>1 DEF Intact
  <2>3. pc'[p] = "cleanup" => preparation \in committed
    <3> SUFFICES ASSUME pc'[p] = "cleanup" PROVE preparation \in committed
      OBVIOUS
    <3>1. journal # None /\ receipt = journal.tx
      BY DEF Safe, Known, IInv, TypeOK
    <3>2. journal \in Journals /\ journal.tx = preparation
      BY <3>1 DEF Safe, Known, IInv, TypeOK, Discoverable
    <3>3. receipt # None
      BY <3>1, <3>2, ConstantsAssumption DEF Journals
    <3> QED
      BY <3>1, <3>2, <3>3 DEF Safe, Known, Reports
  <2>4. pc'[p] = "rollback" => preparation \notin committed
    BY DEF Safe, Known, IInv, TypeOK, Discoverable, Steady, Journaling, Done
  <2> QED
    BY <2>1, <2>2, <2>3, <2>4 DEF Reversing
<1>4. \A q \in Procs : q # p => pc'[q] = pc[q]
  BY DEF Safe, Known, IInv, TypeOK
<1> QED
  BY <1>1, <1>2, <1>3, <1>4, Others DEF Safe, Known

LEMMA RollbackSafe ==
    ASSUME Safe, NEW p \in Procs, Rollback(p)
    PROVE  Steady' /\ Walking'
<1> USE DEF Rollback, At, Goto, files, records, local, history
<1>1. pc[p] \in Holding
  BY DEF Holding, Forward, Recovering, Closing
<1>2. Steady'
  BY Still DEF Safe, Known, IInv, TypeOK
<1>3. Intact(p)' /\ Reversing(p)'
  <2> DEFINE tx == preparation
  <2>1. /\ pc'[p] \in {"cleanup", "undo", "restore", "refused"}
        /\ pc'[p] # "refused" => ~Suspect(tx)
        /\ pc'[p] = "cleanup" => Settled(tx)
        /\ pc'[p] = "undo" => Published(tx)
        /\ pc'[p] = "restore" => SetAside(tx)
    BY DEF Safe, Known, IInv, TypeOK
  <2>2. Intact(p)'
    BY <2>1 DEF Intact
  <2>3. /\ tx \in Tx /\ journal # None /\ journal.tx = tx /\ tx \notin committed
        /\ journal.before.by # tx /\ Pending(tx)
        /\ journal.staged \in {journal.before, Empty, Whole(tx)}
    BY NoneIsNoJournal
    DEF Safe, Known, IInv, TypeOK, Discoverable, PcFacts, Journaled, Journals,
        Walking, Reversing, Steady, Journaling
  <2>4. CASE pc'[p] = "cleanup"
    <3>1. dest.by # tx /\ tx \notin kept
      BY <2>1, <2>3, <2>4 DEF Settled, Pending
    <3>2. backup[tx] = Empty
      BY <2>1, <2>3, <2>4 DEF Settled, Pending
    <3> QED
      BY <2>2, <2>4, <3>1, <3>2 DEF Reversing
  <2>5. CASE pc'[p] = "undo"
    <3>1. journal.staged = Whole(tx) /\ dest = Whole(tx)
      BY <2>1, <2>3, <2>5 DEF Published
    <3>2. tx \notin kept
      BY <2>1, <2>3, <2>5, <3>1 DEF Published, Pending, Suspect, Whole
    <3>3. staged[tx] = Empty /\ backup[tx] = journal.before
      BY <2>1, <2>5 DEF Published, Accounted
    <3> QED
      BY <2>2, <2>3, <2>5, <3>1, <3>2, <3>3 DEF Reversing
  <2>6. CASE pc'[p] = "restore"
    <3>1. /\ dest = Empty /\ backup[tx] = journal.before /\ backup[tx] # Empty
          /\ staged[tx] \in {Empty, journal.staged}
          /\ journal.before # journal.staged
      BY <2>1, <2>6 DEF SetAside, Accounted
    <3>2. tx \notin kept
      BY <2>3, <3>1, ConstantsAssumption DEF Pending, Empty
    <3>3. staged[tx].by \in {None, tx}
      BY <2>3, <3>1 DEF Empty, Whole
    <3> QED
      BY <2>2, <2>3, <2>6, <3>1, <3>2, <3>3 DEF Reversing
  <2>7. CASE pc'[p] = "refused"
    BY <2>2, <2>7 DEF Reversing
  <2> QED
    BY <2>1, <2>2, <2>4, <2>5, <2>6, <2>7
<1>4. \A q \in Procs : q # p => pc'[q] = pc[q]
  BY DEF Safe, Known, IInv, TypeOK
<1> QED
  BY <1>1, <1>2, <1>3, <1>4, Others DEF Safe, Known

LEMMA ConfirmRestoredSafe ==
    ASSUME Safe, NEW p \in Procs, ConfirmRestored(p)
    PROVE  Steady' /\ Walking'
<1> USE DEF ConfirmRestored, At, Goto, files, records, local, history
<1>1. pc[p] \in Holding
  BY DEF Holding, Forward, Recovering, Closing
<1>2. Steady'
  BY Still DEF Safe, Known, IInv, TypeOK
<1>3. Intact(p)' /\ Reversing(p)'
  <2>1. pc'[p] \in {"cleanup", "finish"} /\ Reversing(p)
        /\ (pc'[p] = "cleanup" => dest = journal.before)
    BY DEF Safe, Known, IInv, TypeOK, Walking
  <2>2. Intact(p)'
    BY <2>1 DEF Intact
  <2>3. journal # None => journal.before.by # preparation
    BY DEF Safe, Steady, Journaling
  <2>4. Reversing(p)'
    BY <2>1, <2>3 DEF Reversing
  <2> QED
    BY <2>2, <2>4
<1>4. \A q \in Procs : q # p => pc'[q] = pc[q]
  BY DEF Safe, Known, IInv, TypeOK
<1> QED
  BY <1>1, <1>2, <1>3, <1>4, Others DEF Safe, Known

LEMMA FailSafe ==
    ASSUME Safe, NEW p \in Procs, Fail(p)
    PROVE  Steady' /\ Walking'
<1> USE DEF Fail, At, Goto, files, records, history, OnError, Trouble
<1>1. pc[p] \in Holding
  BY DEF Holding, Forward, Recovering, Closing
<1>2. Steady'
  BY Still DEF Safe, Known, IInv, TypeOK
<1>3. Intact(p)' /\ Reversing(p)'
  BY DEF Safe, Known, IInv, TypeOK, Walking, Intact, Reversing, Unmoved
<1>4. \A q \in Procs : q # p => pc'[q] = pc[q]
  BY DEF Safe, Known, IInv, TypeOK
<1> QED
  BY <1>1, <1>2, <1>3, <1>4, Others DEF Safe, Known

----------------------------------------------------------------------------
(* Steps that change what a process plans.                                 *)

\* A plan without a transaction claims nothing.
LEMMA Replanned ==
    ASSUME Safe, NEW p \in Procs, NEW x \in committed \cup {None},
           UNCHANGED <<files, records, history>>,
           plan' = [plan EXCEPT ![p] = Plan(None, x, Empty, "own")],
           \A q \in Procs : q # p => pc'[q] = pc[q],
           pc'[p] \notin {"previewed", "fresh", "prepare"}
    PROVE  Steady'
<1> USE DEF files, records, history
<1>1. /\ plan'[p] = Plan(None, x, Empty, "own")
      /\ \A q \in Procs : q # p => plan'[q] = plan[q]
  BY DEF Safe, Known, IInv, TypeOK
<1>2. \A w \in Writers : Unseen(w) => Unseen(w)'
  BY <1>1, ConstantsAssumption DEF Unseen, Plan, Empty, Writers
<1>3. Planned(p)'
  BY <1>1 DEF Planned, Plan
<1>4. ASSUME NEW q \in Procs, q # p PROVE Planned(q)'
  <2>1. Planned(q) /\ plan[q].tx \in Tx \cup {None}
    BY DEF Safe, Steady, Drawn, Known, IInv, TypeOK, Plans
  <2>2. pc[q] \in {"previewed", "fresh", "prepare"} => plan[q].tx \in Tx
    BY DEF Safe, Known, IInv, PcFacts
  <2> QED
    BY <1>1, <1>2, <1>4, <2>1, <2>2 DEF Planned, Plan, Writers
<1>5. Drawn'
  BY <1>2, <1>3, <1>4 DEF Safe, Steady, Drawn, Writers
<1>6. Apart' /\ Journaling'
  BY DEF Safe, Steady, Apart, Journaling, Unmoved, Pending, Done
<1>7. KeptSurvives'
  BY DEF Safe, Steady, KeptSurvives, Places
<1> QED
  BY <1>5, <1>6, <1>7 DEF Steady

LEMMA PreviewRecordsSafe ==
    ASSUME Safe, NEW p \in Procs, PreviewRecords(p)
    PROVE  Steady' /\ Walking'
<1> USE DEF PreviewRecords, At, Goto, files, records, history, Plan
<1>1. \A q \in Procs : q # p => pc'[q] = pc[q] /\ plan'[q] = plan[q]
  BY DEF Safe, Known, IInv, TypeOK
<1>2. pc'[p] \in {"idle", "previewing", "finish"}
  BY DEF Safe, Known, IInv, TypeOK
<1>3. receipt \in committed \cup {None}
  BY DEF Safe, Known, Reports
<1>4. Steady'
  BY <1>1, <1>2, <1>3, Replanned
<1>5. Walking'
  BY <1>1, <1>2, Bystanders DEF Safe, history
<1> QED
  BY <1>4, <1>5

LEMMA GiveUpSafe ==
    ASSUME Safe, NEW p \in Procs, GiveUp(p)
    PROVE  Steady' /\ Walking'
<1> USE DEF GiveUp, At, Goto, files, records, history, NoPlan, Plan
<1>1. \A q \in Procs : q # p => pc'[q] = pc[q] /\ plan'[q] = plan[q]
  BY DEF Safe, Known, IInv, TypeOK
<1>2. pc'[p] \in {"idle", "previewing", "finish"}
  BY DEF Safe, Known, IInv, TypeOK
<1>3. receipt \in committed \cup {None}
  BY DEF Safe, Known, Reports
<1>4. Steady'
  BY <1>1, <1>2, <1>3, Replanned
<1>5. Walking'
  BY <1>1, <1>2, Bystanders DEF Safe, history
<1> QED
  BY <1>4, <1>5

LEMMA ResumeSafe ==
    ASSUME Safe, NEW p \in Procs, Resume(p)
    PROVE  Steady' /\ Walking'
<1> USE DEF Resume, At, Goto, files, records, history, Plan
<1>1. \A q \in Procs : q # p => pc'[q] = pc[q] /\ plan'[q] = plan[q]
  BY DEF Safe, Known, IInv, TypeOK
<1>2. pc'[p] \in {"idle", "previewing", "finish"}
  BY DEF Safe, Known, IInv, TypeOK
<1>3. receipt \in committed \cup {None}
  BY DEF Safe, Known, Reports
<1>4. Steady'
  <2>1. CASE mode[p] = "sync"
    BY <1>1, <1>2, <1>3, <2>1, Replanned
  <2>2. CASE mode[p] # "sync"
    BY <1>1, <1>2, <2>2, Still DEF Safe
  <2> QED
    BY <2>1, <2>2
<1>5. Walking'
  BY <1>1, <1>2, Bystanders DEF Safe, history
<1> QED
  BY <1>4, <1>5

LEMMA UnlockSafe ==
    ASSUME Safe, NEW p \in Procs, Unlock(p)
    PROVE  Steady' /\ Walking'
<1> USE DEF Unlock, At, files, records, history, Forgotten, Goto, NoPlan,
        Plan
<1>1. \A q \in Procs : q # p => pc'[q] = pc[q] /\ plan'[q] = plan[q]
  BY DEF Safe, Known, IInv, TypeOK
<1>2. pc'[p] \in {"idle", "previewing", "finish"}
  BY DEF Safe, Known, IInv, TypeOK
<1>3. receipt \in committed \cup {None}
  BY DEF Safe, Known, Reports
<1>4. Steady'
  BY <1>1, <1>2, <1>3, Replanned
<1>5. Walking'
  BY <1>1, <1>2, Bystanders DEF Safe, history
<1> QED
  BY <1>4, <1>5

LEMMA CrashSafe ==
    ASSUME Safe, NEW p \in Procs, Crash(p)
    PROVE  Steady' /\ Walking'
<1> USE DEF Crash, At, files, records, history, Forgotten, Goto, NoPlan,
        Plan
<1>1. \A q \in Procs : q # p => pc'[q] = pc[q] /\ plan'[q] = plan[q]
  BY DEF Safe, Known, IInv, TypeOK
<1>2. pc'[p] \in {"idle", "previewing", "finish"}
  BY DEF Safe, Known, IInv, TypeOK
<1>3. receipt \in committed \cup {None}
  BY DEF Safe, Known, Reports
<1>4. Steady'
  BY <1>1, <1>2, <1>3, Replanned
<1>5. Walking'
  BY <1>1, <1>2, Bystanders DEF Safe, history
<1> QED
  BY <1>4, <1>5

LEMMA PreviewContentSafe ==
    ASSUME Safe, NEW p \in Procs, PreviewContent(p)
    PROVE  Steady' /\ Walking'
<1> USE DEF PreviewContent, At, Goto, files, records, Plan
<1>1. PICK t \in Tx \ used, goal \in Goals :
        /\ plan' = [plan EXCEPT ![p] = Plan(t, @.previous, dest, goal)]
        /\ used' = used \cup {t}
  OBVIOUS
<1>2. /\ plan'[p] = Plan(t, plan[p].previous, dest, goal)
      /\ \A q \in Procs : q # p => pc'[q] = pc[q] /\ plan'[q] = plan[q]
      /\ pc'[p] \in {"fresh", "previewed"}
  BY <1>1 DEF Safe, Known, IInv, TypeOK
<1>3. Unseen(t) /\ t \in Writers /\ t # None
  BY <1>1, ConstantsAssumption DEF Safe, Steady, Drawn, Writers
<1>4. \A w \in Writers : Unseen(w) => Unseen(w)'
  BY <1>2 DEF Unseen, Plan
<1>5. Planned(p)'
  BY <1>1, <1>2, <1>3, <1>4
  DEF Safe, Steady, Drawn, Planned, Plan, Unseen
<1>6. ASSUME NEW q \in Procs, q # p PROVE Planned(q)'
  <2>1. Planned(q) /\ plan[q].tx \in Tx \cup {None}
    BY DEF Safe, Steady, Drawn, Known, IInv, TypeOK, Plans
  <2>2. pc[q] \in {"previewed", "fresh", "prepare"} => plan[q].tx \in Tx
    BY DEF Safe, Known, IInv, PcFacts
  <2> QED
    BY <1>1, <1>2, <1>4, <1>6, <2>1, <2>2 DEF Planned, Plan, Writers
<1>7. Drawn'
  BY <1>1, <1>4, <1>5, <1>6 DEF Safe, Steady, Drawn, Writers
<1>8. Apart' /\ Journaling'
  BY DEF Safe, Steady, Apart, Journaling, Unmoved, Pending, Done
<1>9. Walking'
  BY <1>2, Bystanders DEF Safe
<1>10. KeptSurvives'
  BY DEF Safe, Steady, KeptSurvives, Places
<1> QED
  BY <1>7, <1>8, <1>9, <1>10 DEF Steady

----------------------------------------------------------------------------
(* Steps of the lock holder that change files, records or history.         *)

\* What nobody has heard of stays drawn once.
LEMMA MovedDrawn ==
    ASSUME Safe, committed \subseteq committed', UNCHANGED <<used, edits, plan>>,
           \A w \in Writers : Unseen(w) => Unseen(w)',
           \A q \in Procs : pc'[q] \in {"previewed", "fresh", "prepare"}
                              => pc[q] \in {"previewed", "fresh", "prepare"}
    PROVE  Drawn'
<1>1. ASSUME NEW q \in Procs PROVE Planned(q)'
  <2>1. Planned(q)
    BY DEF Safe, Steady, Drawn
  <2>2. pc[q] \in {"previewed", "fresh", "prepare"} => plan[q].tx \in Tx
    BY DEF Safe, Known, IInv, PcFacts
  <2> QED
    BY <2>1, <2>2 DEF Planned, Writers
<1> QED
  BY <1>1 DEF Safe, Steady, Drawn, Writers

\* The lock holder's transaction is the only one with a directory.
LEMMA OnlyOne ==
    ASSUME Safe
    PROVE  \A x \in Tx : x # preparation
                => staged[x] = Empty /\ backup[x] = Empty
  BY DEF Safe, Known, IInv, Discoverable

\* Nothing has no writer, and destroying nodes keeps the writer of the rest.
LEMMA NoBy == \A c \in Content : c.by = None <=> c = Empty
  BY ConstantsAssumption DEF Content, Empty, Writers

LEMMA ShrunkBy ==
    \A c \in Content : c # Empty =>
        /\ Shrunk(c) \in Content
        /\ Shrunk(c).by \in {c.by, None}
  BY ContentTypes DEF Shrunk, Empty

\* The destination is always a complete revision or nothing.
LEMMA WholeDest == ASSUME Safe PROVE dest # Empty => dest = Whole(dest.by)
  BY DEF Safe, Known, Wholes, Complete, IInv, TypeOK, Content, Whole, Empty

LEMMA PrepareSafe ==
    ASSUME Safe, NEW p \in Procs, Prepare(p)
    PROVE  Steady' /\ Walking'
<1> USE DEF At
<1> DEFINE tx == plan[p].tx
<1>1. pc[p] \in Holding /\ \A q \in Procs : q # p => pc'[q] = pc[q]
  BY DEF Prepare, Goto, Safe, Known, IInv, TypeOK, Holding
<1>2. pc'[p] \in {"mkdir", "fail"}
      /\ UNCHANGED <<files, journal, receipt, history, plan>>
  BY DEF Prepare, Goto, Safe, Known, IInv, TypeOK
<1> USE DEF files, history
<1>3. CASE pc'[p] = "fail"
  <2>1. UNCHANGED preparation
    BY <1>3 DEF Prepare, Goto, Safe, Known, IInv, TypeOK
  <2>2. Steady'
    BY <1>1, <1>2, <1>3, <2>1, Still DEF Safe, records
  <2>3. Intact(p)' /\ Reversing(p)'
    BY <1>3 DEF Intact, Reversing
  <2> QED
    BY <1>1, <2>2, <2>3, Others DEF Safe, Known
<1>4. CASE pc'[p] = "mkdir"
  <2>1. preparation' = tx /\ preparation = None
    BY <1>4 DEF Prepare, Goto, PlanHolds, Safe, Known, IInv, TypeOK
  <2>2. tx \in Tx /\ tx # None /\ Planned(p) /\ Drawn
    BY ConstantsAssumption
    DEF Prepare, Safe, Steady, Drawn, Known, IInv, PcFacts
  <2>3. journal = None /\ staged[tx] = Empty /\ backup[tx] = Empty
    BY <2>1, <2>2, ConstantsAssumption
    DEF Safe, Known, IInv, Discoverable, TypeOK, Journals
  <2>4. Unseen(tx)
    BY <2>2 DEF Prepare, Planned
  <2>5. \A w \in Writers : w # tx /\ Unseen(w) => Unseen(w)'
    BY <1>2, <2>1 DEF Unseen
  <2>6. \A q \in Procs : Planned(q)'
    <3>1. Planned(p)'
      BY <1>2, <1>4, <2>2 DEF Planned
    <3>2. ASSUME NEW q \in Procs, q # p PROVE Planned(q)'
      <4>1. Planned(q) /\ plan[q].tx \in Tx \cup {None}
        BY DEF Safe, Steady, Drawn, Known, IInv, TypeOK, Plans
      <4>2. pc[q] \in {"previewed", "fresh", "prepare"} => plan[q].tx \in Tx
        BY DEF Safe, Known, IInv, PcFacts
      <4>3. plan[q].tx # tx
        BY <2>2, <3>2 DEF Planned
      <4> QED
        BY <1>1, <1>2, <2>5, <3>2, <4>1, <4>2, <4>3 DEF Planned, Writers
    <3> QED
      BY <3>1, <3>2
  <2>7. Drawn'
    <3>1. tx \in used /\ tx \notin UserRev
      BY <2>2, ConstantsAssumption DEF Planned
    <3> QED
      BY <1>2, <2>2, <2>5, <2>6, <3>1 DEF Drawn, Writers
  <2>8. Apart'
    BY <1>2 DEF Safe, Steady, Apart
  <2>9. KeptSurvives'
    BY <1>2 DEF Safe, Steady, KeptSurvives, Places
  <2>10. Unmoved(tx)'
    BY <1>2, <2>3, <2>4 DEF Unmoved, Unseen
  <2>11. Journaling'
    BY <1>2, <2>1, <2>3, <2>10 DEF Journaling, Unmoved
  <2>12. Intact(p)' /\ Reversing(p)'
    BY <1>2, <1>4, <2>3, <2>10 DEF Intact, Reversing, Unmoved
  <2> QED
    BY <1>1, <2>7, <2>8, <2>11, <2>12, <2>9, Others DEF Safe, Known, Steady
<1> QED
  BY <1>2, <1>3, <1>4

LEMMA MakeDirectorySafe ==
    ASSUME Safe, NEW p \in Procs, MakeDirectory(p)
    PROVE  Steady' /\ Walking' /\ Alike
<1> USE DEF At
<1> DEFINE tx == preparation
<1>1. pc[p] \in Holding /\ \A q \in Procs : q # p => pc'[q] = pc[q]
  BY DEF MakeDirectory, At, MakePart, Goto, records, local, history, Safe,
     Known, IInv, TypeOK, Holding, Forward, Recovering, Closing
<1>2. /\ tx \in Tx /\ tx \in Writers /\ tx # None
      /\ plan[p].tx = tx
      /\ staged[tx] \in Content /\ backup[tx] \in Content /\ dest \in Content
  <2>1. tx \in Tx /\ plan[p].tx = tx
    BY NoneIsNoJournal
    DEF MakeDirectory, Safe, Known, IInv, TypeOK, PcFacts, Discoverable, Forward,
        Closing, Journaled, Journals, MakePart
  <2> QED
    BY <2>1, ConstantsAssumption DEF Safe, Known, IInv, TypeOK, Writers
<1>3. /\ Intact(p) /\ Reversing(p)
      /\ Drawn /\ Apart /\ Journaling /\ KeptSurvives /\ kept \subseteq Writers
  BY DEF Safe, Walking, Steady, Known, IInv, TypeOK
<1>4. /\ pc'[p] = "mkstaging"
      /\ UNCHANGED <<dest, staged, backup, preparation, journal, receipt, kept, committed, used, edits, plan>>
  BY <1>2
  DEF MakeDirectory, At, MakePart, Goto, records, local, history, Safe,
      Known, IInv, TypeOK
<1>5. \A w \in Writers : Unseen(w) => Unseen(w)'
  BY <1>2, <1>4 DEF Unseen
<1>6. Drawn'
  BY <1>1, <1>4, <1>5, MovedDrawn DEF Safe
<1>7. Apart'
  BY <1>3, <1>4 DEF Apart
<1>8. Journaling'
  <2>1. Unmoved(tx) /\ journal = None
    BY <1>2, <1>3 DEF Intact, MakeDirectory, Safe, Known, IInv, PcFacts, Unjournaled,
       MakePart
  <2> QED
    BY <1>4, <2>1 DEF Journaling, Unmoved
<1>9. Intact(p)'
  <2>1. Unmoved(tx) /\ staged[tx] = Empty
    BY <1>2, <1>3 DEF Intact, MakeDirectory, MakePart
  <2> QED
    BY <1>2, <1>4, <2>1 DEF Intact, Unmoved
<1>10. Reversing(p)'
  BY <1>4 DEF Reversing
<1>11. KeptSurvives'
  BY <1>3, <1>4 DEF KeptSurvives, Places
<1>12. Alike
  BY <1>4 DEF Alike, Logical, Uncommitted
<1>13. Steady' /\ Walking'
  BY <1>1, <1>6, <1>7, <1>8, <1>9, <1>10, <1>11, Others
  DEF Safe, Known, Steady
<1> QED
  BY <1>12, <1>13

LEMMA MakeStagingSafe ==
    ASSUME Safe, NEW p \in Procs, MakeStaging(p)
    PROVE  Steady' /\ Walking' /\ Alike
<1> USE DEF At
<1> DEFINE tx == preparation
<1>1. pc[p] \in Holding /\ \A q \in Procs : q # p => pc'[q] = pc[q]
  BY DEF MakeStaging, At, MakePart, Goto, records, local, history, Safe,
     Known, IInv, TypeOK, Holding, Forward, Recovering, Closing
<1>2. /\ tx \in Tx /\ tx \in Writers /\ tx # None
      /\ plan[p].tx = tx
      /\ staged[tx] \in Content /\ backup[tx] \in Content /\ dest \in Content
  <2>1. tx \in Tx /\ plan[p].tx = tx
    BY NoneIsNoJournal
    DEF MakeStaging, Safe, Known, IInv, TypeOK, PcFacts, Discoverable, Forward,
        Closing, Journaled, Journals, MakePart
  <2> QED
    BY <2>1, ConstantsAssumption DEF Safe, Known, IInv, TypeOK, Writers
<1>3. /\ Intact(p) /\ Reversing(p)
      /\ Drawn /\ Apart /\ Journaling /\ KeptSurvives /\ kept \subseteq Writers
  BY DEF Safe, Walking, Steady, Known, IInv, TypeOK
<1>4. /\ pc'[p] = "mkbackup"
      /\ UNCHANGED <<dest, staged, backup, preparation, journal, receipt, kept, committed, used, edits, plan>>
  BY <1>2
  DEF MakeStaging, At, MakePart, Goto, records, local, history, Safe, Known,
      IInv, TypeOK
<1>5. \A w \in Writers : Unseen(w) => Unseen(w)'
  BY <1>2, <1>4 DEF Unseen
<1>6. Drawn'
  BY <1>1, <1>4, <1>5, MovedDrawn DEF Safe
<1>7. Apart'
  BY <1>3, <1>4 DEF Apart
<1>8. Journaling'
  <2>1. Unmoved(tx) /\ journal = None
    BY <1>2, <1>3 DEF Intact, MakeStaging, Safe, Known, IInv, PcFacts, Unjournaled,
       MakePart
  <2> QED
    BY <1>4, <2>1 DEF Journaling, Unmoved
<1>9. Intact(p)'
  <2>1. Unmoved(tx) /\ staged[tx] = Empty
    BY <1>2, <1>3 DEF Intact, MakeStaging, MakePart
  <2> QED
    BY <1>2, <1>4, <2>1 DEF Intact, Unmoved
<1>10. Reversing(p)'
  BY <1>4 DEF Reversing
<1>11. KeptSurvives'
  BY <1>3, <1>4 DEF KeptSurvives, Places
<1>12. Alike
  BY <1>4 DEF Alike, Logical, Uncommitted
<1>13. Steady' /\ Walking'
  BY <1>1, <1>6, <1>7, <1>8, <1>9, <1>10, <1>11, Others
  DEF Safe, Known, Steady
<1> QED
  BY <1>12, <1>13

LEMMA MakeBackupSafe ==
    ASSUME Safe, NEW p \in Procs, MakeBackup(p)
    PROVE  Steady' /\ Walking' /\ Alike
<1> USE DEF At
<1> DEFINE tx == preparation
<1>1. pc[p] \in Holding /\ \A q \in Procs : q # p => pc'[q] = pc[q]
  BY DEF MakeBackup, At, MakePart, Goto, records, local, history, Safe,
     Known, IInv, TypeOK, Holding, Forward, Recovering, Closing
<1>2. /\ tx \in Tx /\ tx \in Writers /\ tx # None
      /\ plan[p].tx = tx
      /\ staged[tx] \in Content /\ backup[tx] \in Content /\ dest \in Content
  <2>1. tx \in Tx /\ plan[p].tx = tx
    BY NoneIsNoJournal
    DEF MakeBackup, Safe, Known, IInv, TypeOK, PcFacts, Discoverable, Forward,
        Closing, Journaled, Journals, MakePart
  <2> QED
    BY <2>1, ConstantsAssumption DEF Safe, Known, IInv, TypeOK, Writers
<1>3. /\ Intact(p) /\ Reversing(p)
      /\ Drawn /\ Apart /\ Journaling /\ KeptSurvives /\ kept \subseteq Writers
  BY DEF Safe, Walking, Steady, Known, IInv, TypeOK
<1>4. /\ pc'[p] \in {"stage", "verify"}
      /\ pc'[p] = "stage" => plan[p].goal = "write"
      /\ UNCHANGED <<dest, staged, backup, preparation, journal, receipt, kept, committed, used, edits, plan>>
  BY <1>2
  DEF MakeBackup, At, MakePart, Goto, records, local, history, Safe, Known,
      IInv, TypeOK
<1>5. \A w \in Writers : Unseen(w) => Unseen(w)'
  BY <1>2, <1>4 DEF Unseen
<1>6. Drawn'
  BY <1>1, <1>4, <1>5, MovedDrawn DEF Safe
<1>7. Apart'
  BY <1>3, <1>4 DEF Apart
<1>8. Journaling'
  <2>1. Unmoved(tx) /\ journal = None
    BY <1>2, <1>3 DEF Intact, MakeBackup, Safe, Known, IInv, PcFacts, Unjournaled,
       MakePart
  <2> QED
    BY <1>4, <2>1 DEF Journaling, Unmoved
<1>9. Intact(p)'
  <2>1. Unmoved(tx) /\ staged[tx] = Empty
    BY <1>2, <1>3 DEF Intact, MakeBackup, MakePart
  <2> QED
    BY <1>2, <1>4, <2>1 DEF Intact, Unmoved
<1>10. Reversing(p)'
  BY <1>4 DEF Reversing
<1>11. KeptSurvives'
  BY <1>3, <1>4 DEF KeptSurvives, Places
<1>12. Alike
  BY <1>4 DEF Alike, Logical, Uncommitted
<1>13. Steady' /\ Walking'
  BY <1>1, <1>6, <1>7, <1>8, <1>9, <1>10, <1>11, Others
  DEF Safe, Known, Steady
<1> QED
  BY <1>12, <1>13

LEMMA WriteNodeSafe ==
    ASSUME Safe, NEW p \in Procs, WriteNode(p)
    PROVE  Steady' /\ Walking' /\ Alike
<1> USE DEF At
<1> DEFINE tx == preparation
<1>1. pc[p] \in Holding /\ \A q \in Procs : q # p => pc'[q] = pc[q]
  BY DEF WriteNode, At, Goto, records, local, history, Safe, Known, IInv,
     TypeOK, Holding, Forward, Recovering, Closing
<1>2. /\ tx \in Tx /\ tx \in Writers /\ tx # None
      /\ plan[p].tx = tx
      /\ staged[tx] \in Content /\ backup[tx] \in Content /\ dest \in Content
  <2>1. tx \in Tx /\ plan[p].tx = tx
    BY NoneIsNoJournal
    DEF WriteNode, Safe, Known, IInv, TypeOK, PcFacts, Discoverable, Forward,
        Closing, Journaled, Journals
  <2> QED
    BY <2>1, ConstantsAssumption DEF Safe, Known, IInv, TypeOK, Writers
<1>3. /\ Intact(p) /\ Reversing(p)
      /\ Drawn /\ Apart /\ Journaling /\ KeptSurvives /\ kept \subseteq Writers
  BY DEF Safe, Walking, Steady, Known, IInv, TypeOK
<1>4. /\ pc'[p] \in {"stage", "verify"}
      /\ staged'[tx] \in Content /\ staged'[tx].by \in {staged[tx].by, tx}
      /\ pc'[p] = "verify" => staged'[tx].left = Nodes
      /\ \A x \in Tx : x # tx => staged'[x] = staged[x]
      /\ UNCHANGED <<dest, backup, parts, preparation, journal, receipt, kept, committed, used, edits, plan>>
  BY <1>2, ContentTypes
  DEF WriteNode, At, Goto, records, local, history, Safe, Known, IInv,
      TypeOK
<1>5. \A w \in Writers : Unseen(w) => Unseen(w)'
  BY <1>2, <1>4 DEF Unseen
<1>6. Drawn'
  BY <1>1, <1>4, <1>5, MovedDrawn DEF Safe
<1>7. Apart'
  <2>1. Unmoved(tx)
    BY <1>2, <1>3 DEF Intact, WriteNode
  <2> QED
    BY <1>2, <1>3, <1>4, <2>1, NoBy, OnlyOne DEF Apart, Empty, Unmoved
<1>8. Journaling'
  <2>1. Unmoved(tx) /\ journal = None
    BY <1>2, <1>3 DEF Intact, WriteNode, Safe, Known, IInv, PcFacts, Unjournaled
  <2> QED
    BY <1>2, <1>4, <2>1, NoBy DEF Journaling, Unmoved
<1>9. Intact(p)'
  <2>1. Unmoved(tx) /\ plan[p].goal = "write"
    BY <1>2, <1>3 DEF Intact, WriteNode
  <2> QED
    BY <1>2, <1>4, <2>1, NoBy DEF Intact, Unmoved
<1>10. Reversing(p)'
  BY <1>4 DEF Reversing
<1>11. KeptSurvives'
  <2>1. Unmoved(tx)
    BY <1>2, <1>3 DEF Intact, WriteNode
  <2>2. \A w \in kept : staged[tx] # Whole(w)
    BY <1>2, <1>3, <2>1, NoBy, ConstantsAssumption
       DEF Unmoved, Whole, Empty, Writers
  <2> QED
    BY <1>3, <1>4, <2>2 DEF KeptSurvives, Places
<1>12. Alike
  <2>1. journal = None
    BY DEF WriteNode, Safe, Known, IInv, PcFacts, Unjournaled
  <2> QED
    BY <1>4, <2>1 DEF Alike, Logical, Uncommitted
<1>13. Steady' /\ Walking'
  BY <1>1, <1>6, <1>7, <1>8, <1>9, <1>10, <1>11, Others
  DEF Safe, Known, Steady
<1> QED
  BY <1>12, <1>13

LEMMA WriteJournalSafe ==
    ASSUME Safe, NEW p \in Procs, WriteJournal(p)
    PROVE  Steady' /\ Walking' /\ Alike
<1> USE DEF At
<1> DEFINE tx == preparation
<1>1. pc[p] \in Holding /\ \A q \in Procs : q # p => pc'[q] = pc[q]
  BY DEF WriteJournal, At, Goto, local, history, Safe, Known, IInv, TypeOK,
     Holding, Forward, Recovering, Closing
<1>2. /\ tx \in Tx /\ tx \in Writers /\ tx # None
      /\ plan[p].tx = tx
      /\ staged[tx] \in Content /\ backup[tx] \in Content /\ dest \in Content
  <2>1. tx \in Tx /\ plan[p].tx = tx
    BY NoneIsNoJournal
    DEF WriteJournal, Safe, Known, IInv, TypeOK, PcFacts, Discoverable, Forward,
        Closing, Journaled, Journals
  <2> QED
    BY <2>1, ConstantsAssumption DEF Safe, Known, IInv, TypeOK, Writers
<1>3. /\ Intact(p) /\ Reversing(p)
      /\ Drawn /\ Apart /\ Journaling /\ KeptSurvives /\ kept \subseteq Writers
  BY DEF Safe, Walking, Steady, Known, IInv, TypeOK
<1>4. /\ pc'[p] = "publish" /\ journal' = JournalOf(plan[p])
      /\ UNCHANGED <<dest, staged, backup, parts, preparation, receipt, kept, committed, used, edits, plan>>
  BY <1>2
  DEF WriteJournal, At, Goto, local, history, Safe, Known, IInv, TypeOK
<1>5. \A w \in Writers : Unseen(w) => Unseen(w)'
  BY <1>2, <1>4 DEF Unseen, JournalOf
<1>6. Drawn'
  BY <1>1, <1>4, <1>5, MovedDrawn DEF Safe
<1>7. Apart'
  BY <1>3, <1>4 DEF Apart
<1>8. Journaling'
  <2>1. Unmoved(tx) /\ (plan[p].goal # "write" => staged[tx] = Empty)
    BY <1>2, <1>3 DEF Intact, WriteJournal
  <2>2. plan[p].before.by # tx /\ plan[p].previous # tx
    BY <1>2, <1>3 DEF Drawn, Planned
  <2>3. /\ After(plan[p]) \in {plan[p].before, Empty, Whole(tx)}
        /\ After(plan[p]) = plan[p].before => staged[tx] = Empty
    <3>1. plan[p].goal \in Goals
      BY DEF Safe, Known, IInv, TypeOK, Plans
    <3> QED
      BY <1>2, <2>1, <2>2, <3>1 DEF After, Goals, Whole
  <2> QED
    BY <1>2, <1>4, <2>1, <2>2, <2>3 DEF Journaling, Pending, Unmoved, JournalOf
<1>9. Intact(p)'
  <2>1. Unmoved(tx) /\ parts[tx] = Parts
    BY <1>2, <1>3 DEF Intact, WriteJournal, Safe, Known, IInv, PcFacts, Preparing
  <2> QED
    BY <1>2, <1>4, <2>1 DEF Intact, Unmoved
<1>10. Reversing(p)'
  BY <1>4 DEF Reversing
<1>11. KeptSurvives'
  BY <1>3, <1>4 DEF KeptSurvives, Places
<1>12. Alike
  <2>1. journal = None /\ Unmoved(tx)
    BY <1>2, <1>3
    DEF WriteJournal, Intact, Safe, Known, IInv, PcFacts, Unjournaled
  <2>2. /\ staged[tx].by \notin UserRev /\ backup[tx] = Empty /\ dest.by # tx
    BY <1>2, <2>1, ConstantsAssumption DEF Unmoved, Empty
  <2>3. /\ journal'.before = plan[p].before /\ journal'.tx = tx
        /\ journal'.staged \in {plan[p].before, Empty, Whole(tx)}
    <3>1. plan[p].goal \in Goals
      BY DEF Safe, Known, IInv, TypeOK, Plans
    <3> QED
      BY <1>2, <1>4, <3>1 DEF JournalOf, After, Goals
  <2>4. Logical = dest
    BY <2>1 DEF Logical, Uncommitted
  <2>5. Logical' = dest
    BY <1>4, <2>2, <2>3 DEF Logical, Uncommitted, Whole, Empty
  <2> QED
    BY <1>4, <2>4, <2>5 DEF Alike
<1>13. Steady' /\ Walking'
  BY <1>1, <1>6, <1>7, <1>8, <1>9, <1>10, <1>11, Others
  DEF Safe, Known, Steady
<1> QED
  BY <1>12, <1>13

LEMMA DiscardStagedSafe ==
    ASSUME Safe, NEW p \in Procs, DiscardStaged(p)
    PROVE  Steady' /\ Walking' /\ Alike
<1> USE DEF At
<1> DEFINE tx == preparation
<1>1. pc[p] \in Holding /\ \A q \in Procs : q # p => pc'[q] = pc[q]
  BY DEF DiscardStaged, At, Goto, records, local, history, Safe, Known,
     IInv, TypeOK, Holding, Forward, Recovering, Closing
<1>2. /\ tx \in Tx /\ tx \in Writers /\ tx # None
      /\ plan[p].tx = tx
      /\ staged[tx] \in Content /\ backup[tx] \in Content /\ dest \in Content
  <2>1. tx \in Tx /\ plan[p].tx = tx
    BY NoneIsNoJournal
    DEF DiscardStaged, Safe, Known, IInv, TypeOK, PcFacts, Discoverable, Forward,
        Closing, Journaled, Journals
  <2> QED
    BY <2>1, ConstantsAssumption DEF Safe, Known, IInv, TypeOK, Writers
<1>3. /\ Intact(p) /\ Reversing(p)
      /\ Drawn /\ Apart /\ Journaling /\ KeptSurvives /\ kept \subseteq Writers
  BY DEF Safe, Walking, Steady, Known, IInv, TypeOK
<1>4. /\ pc'[p] \in {"discard", "unstage"}
      /\ staged'[tx] \in Content /\ staged'[tx].by \in {staged[tx].by, None}
      /\ \A x \in Tx : x # tx => staged'[x] = staged[x]
      /\ UNCHANGED <<dest, backup, parts, late, preparation, journal, receipt, kept, committed, used, edits, plan>>
  BY <1>2, ShrunkBy, ContentTypes
  DEF DiscardStaged, At, Goto, records, local, history, Safe, Known, IInv,
      TypeOK
<1>5. \A w \in Writers : Unseen(w) => Unseen(w)'
  BY <1>2, <1>4, ConstantsAssumption DEF Unseen, Writers
<1>6. Drawn'
  BY <1>1, <1>4, <1>5, MovedDrawn DEF Safe
<1>7. Apart'
  BY <1>2, <1>3, <1>4, NoBy, OnlyOne DEF Apart, Empty
<1>8. Journaling'
  <2>1. Unmoved(tx)
    BY <1>2, <1>3 DEF Intact, DiscardStaged
  <2>2. Unmoved(tx)'
    BY <1>2, <1>4, <2>1, NoBy DEF Unmoved
  <2>3. staged[tx] = Empty => staged'[tx] = Empty
    BY <1>2, <1>4, NoBy
  <2> QED
    BY <1>2, <1>3, <1>4, <2>1, <2>2, <2>3 DEF Journaling, Pending, Unmoved
<1>9. Intact(p)'
  <2>1. Unmoved(tx)
    BY <1>2, <1>3 DEF Intact, DiscardStaged
  <2>2. Unmoved(tx)'
    BY <1>2, <1>4, <2>1, NoBy DEF Unmoved
  <2> QED
    BY <1>2, <1>4, <2>2 DEF Intact
<1>10. Reversing(p)'
  BY <1>4 DEF Reversing
<1>11. KeptSurvives'
  <2>1. Unmoved(tx)
    BY <1>2, <1>3 DEF Intact, DiscardStaged
  <2>2. \A w \in kept : staged[tx] # Whole(w)
    BY <1>2, <1>3, <2>1, NoBy, ConstantsAssumption
       DEF Unmoved, Whole, Empty, Writers
  <2> QED
    BY <1>3, <1>4, <2>2 DEF KeptSurvives, Places
<1>12. Alike
  <2>1. Unmoved(tx) /\ tx \notin UserRev /\ None \notin UserRev
        /\ (journal # None => journal.tx = tx)
    BY <1>2, <1>3, ConstantsAssumption
    DEF DiscardStaged, Intact, Safe, Known, IInv, Discoverable
  <2>2. staged[tx].by \notin UserRev /\ staged'[tx].by \notin UserRev
    BY <1>2, <1>4, <2>1, NoBy DEF Unmoved
  <2> QED
    BY <1>4, <2>1, <2>2 DEF Alike, Logical, Uncommitted
<1>13. Steady' /\ Walking'
  BY <1>1, <1>6, <1>7, <1>8, <1>9, <1>10, <1>11, Others
  DEF Safe, Known, Steady
<1> QED
  BY <1>12, <1>13

LEMMA UnstageSafe ==
    ASSUME Safe, NEW p \in Procs, Unstage(p)
    PROVE  Steady' /\ Walking' /\ Alike
<1> USE DEF At
<1> DEFINE tx == preparation
<1>1. pc[p] \in Holding /\ \A q \in Procs : q # p => pc'[q] = pc[q]
  BY DEF Unstage, At, Goto, records, local, history, RemovePart, Safe,
     Known, IInv, TypeOK, Holding, Forward, Recovering, Closing
<1>2. /\ tx \in Tx /\ tx \in Writers /\ tx # None
      /\ plan[p].tx = tx
      /\ staged[tx] \in Content /\ backup[tx] \in Content /\ dest \in Content
  <2>1. tx \in Tx /\ plan[p].tx = tx
    BY NoneIsNoJournal
    DEF Unstage, Safe, Known, IInv, TypeOK, PcFacts, Discoverable, Forward,
        Closing, Journaled, Journals
  <2> QED
    BY <2>1, ConstantsAssumption DEF Safe, Known, IInv, TypeOK, Writers
<1>3. /\ Intact(p) /\ Reversing(p)
      /\ Drawn /\ Apart /\ Journaling /\ KeptSurvives /\ kept \subseteq Writers
  BY DEF Safe, Walking, Steady, Known, IInv, TypeOK
<1>4. /\ pc'[p] \in {"unstage", "unprepare", "fail"}
      /\ UNCHANGED <<dest, staged, backup, preparation, journal, receipt, kept, committed, used, edits, plan>>
  BY <1>2
  DEF Unstage, At, Goto, records, local, history, RemovePart, Safe, Known,
      IInv, TypeOK
<1>5. \A w \in Writers : Unseen(w) => Unseen(w)'
  BY <1>2, <1>4 DEF Unseen
<1>6. Drawn'
  BY <1>1, <1>4, <1>5, MovedDrawn DEF Safe
<1>7. Apart'
  BY <1>3, <1>4 DEF Apart
<1>8. Journaling'
  <2>1. Unmoved(tx)
    BY <1>2, <1>3 DEF Intact, Unstage
  <2> QED
    BY <1>2, <1>3, <1>4, <2>1 DEF Journaling, Pending, Unmoved
<1>9. Intact(p)'
  <2>1. Unmoved(tx)
    BY <1>2, <1>3 DEF Intact, Unstage
  <2> QED
    BY <1>2, <1>4, <2>1 DEF Intact, Unmoved
<1>10. Reversing(p)'
  BY <1>4 DEF Reversing
<1>11. KeptSurvives'
  BY <1>3, <1>4 DEF KeptSurvives, Places
<1>12. Alike
  BY <1>4 DEF Alike, Logical, Uncommitted
<1>13. Steady' /\ Walking'
  BY <1>1, <1>6, <1>7, <1>8, <1>9, <1>10, <1>11, Others
  DEF Safe, Known, Steady
<1> QED
  BY <1>12, <1>13

LEMMA UnprepareSafe ==
    ASSUME Safe, NEW p \in Procs, Unprepare(p)
    PROVE  Steady' /\ Walking' /\ Alike
<1> USE DEF At
<1> DEFINE tx == preparation
<1>1. pc[p] \in Holding /\ \A q \in Procs : q # p => pc'[q] = pc[q]
  BY DEF Unprepare, At, Goto, files, local, history, Safe, Known, IInv,
     TypeOK, Holding, Forward, Recovering, Closing
<1>2. /\ tx \in Tx /\ tx \in Writers /\ tx # None
      /\ plan[p].tx = tx
      /\ staged[tx] \in Content /\ backup[tx] \in Content /\ dest \in Content
  <2>1. tx \in Tx /\ plan[p].tx = tx
    BY NoneIsNoJournal
    DEF Unprepare, Safe, Known, IInv, TypeOK, PcFacts, Discoverable, Forward,
        Closing, Journaled, Journals
  <2> QED
    BY <2>1, ConstantsAssumption DEF Safe, Known, IInv, TypeOK, Writers
<1>3. /\ Intact(p) /\ Reversing(p)
      /\ Drawn /\ Apart /\ Journaling /\ KeptSurvives /\ kept \subseteq Writers
  BY DEF Safe, Walking, Steady, Known, IInv, TypeOK
<1>4. /\ pc'[p] = "fail"
      /\ preparation' = IF journal = None THEN None ELSE tx
      /\ UNCHANGED <<dest, staged, backup, parts, late, journal, receipt, kept, committed, used, edits, plan>>
  BY <1>2
  DEF Unprepare, At, Goto, files, local, history, Safe, Known, IInv, TypeOK
<1>5. \A w \in Writers : Unseen(w) => Unseen(w)'
  BY <1>2, <1>4, ConstantsAssumption DEF Unseen, Writers
<1>6. Drawn'
  BY <1>1, <1>4, <1>5, MovedDrawn DEF Safe
<1>7. Apart'
  BY <1>3, <1>4 DEF Apart
<1>8. Journaling'
  <2>1. CASE journal = None
    BY <1>4, <2>1 DEF Journaling
  <2>2. CASE journal # None
    BY <1>3, <1>4, <2>2 DEF Journaling, Pending, Done
  <2> QED
    BY <2>1, <2>2
<1>9. Intact(p)'
  BY <1>4 DEF Intact
<1>10. Reversing(p)'
  BY <1>4 DEF Reversing
<1>11. KeptSurvives'
  BY <1>3, <1>4 DEF KeptSurvives, Places
<1>12. Alike
  BY <1>4 DEF Alike, Logical, Uncommitted
<1>13. Steady' /\ Walking'
  BY <1>1, <1>6, <1>7, <1>8, <1>9, <1>10, <1>11, Others
  DEF Safe, Known, Steady
<1> QED
  BY <1>12, <1>13

LEMMA MoveToBackupSafe ==
    ASSUME Safe, NEW p \in Procs, MoveToBackup(p)
    PROVE  Steady' /\ Walking' /\ Alike
<1> USE DEF At
<1> DEFINE tx == preparation
<1>1. pc[p] \in Holding /\ \A q \in Procs : q # p => pc'[q] = pc[q]
  BY DEF MoveToBackup, At, Goto, records, local, history, Safe, Known, IInv,
     TypeOK, Holding, Forward, Recovering, Closing
<1>2. /\ tx \in Tx /\ tx \in Writers /\ tx # None
      /\ plan[p].tx = tx
      /\ staged[tx] \in Content /\ backup[tx] \in Content /\ dest \in Content
  <2>1. tx \in Tx /\ plan[p].tx = tx
    BY NoneIsNoJournal
    DEF MoveToBackup, Safe, Known, IInv, TypeOK, PcFacts, Discoverable, Forward,
        Closing, Journaled, Journals
  <2> QED
    BY <2>1, ConstantsAssumption DEF Safe, Known, IInv, TypeOK, Writers
<1>3. /\ Intact(p) /\ Reversing(p)
      /\ Drawn /\ Apart /\ Journaling /\ KeptSurvives /\ kept \subseteq Writers
  BY DEF Safe, Walking, Steady, Known, IInv, TypeOK
<1>4. /\ pc'[p] \in {"place", "confirm", "fail"}
      /\ \/ pc'[p] = "fail" /\ UNCHANGED <<dest, backup>>
         \/ /\ dest # Empty /\ dest' = Empty /\ backup'[tx] = dest
            /\ pc'[p] = "place" => plan[p].goal = "write"
      /\ \A x \in Tx : x # tx => backup'[x] = backup[x]
      /\ UNCHANGED <<staged, parts, late, preparation, journal, receipt, kept, committed, used, edits, plan>>
  BY <1>2
  DEF MoveToBackup, At, Goto, records, local, history, Safe, Known, IInv,
      TypeOK
<1>5. \A w \in Writers : Unseen(w) => Unseen(w)'
  BY <1>2, <1>4, ConstantsAssumption DEF Unseen, Empty, Writers
<1>6. Drawn'
  BY <1>1, <1>4, <1>5, MovedDrawn DEF Safe
<1>7. Apart'
  <2>1. CASE UNCHANGED <<dest, backup>>
    BY <1>2, <1>3, <1>4, <2>1 DEF Apart
  <2>2. CASE ~UNCHANGED <<dest, backup>>
    <3>1. /\ Unmoved(tx)
          /\ staged[tx].by \in {None, tx}
      BY <1>2, <1>3, NoBy DEF Intact, MoveToBackup, Unmoved
    <3>2. dest'.by = None /\ backup'[tx] = dest /\ dest.by \notin {None, tx}
      BY <1>2, <1>4, <2>2, <3>1, NoBy DEF Empty, Unmoved
    <3> QED
      BY <1>2, <1>3, <1>4, <2>2, <3>1, <3>2, NoBy, OnlyOne DEF Apart, Empty
  <2> QED
    BY <2>1, <2>2
<1>8. Journaling'
  <2>1. Unmoved(tx) /\ journal.before # journal.staged
    BY <1>2, <1>3 DEF Intact, MoveToBackup, JournalOf
  <2>2. journal # None
    BY DEF MoveToBackup, Safe, Known, IInv, PcFacts, Journaled
  <2>3. dest'.by # tx
    BY <1>2, <1>4, <2>1 DEF Unmoved, Empty
  <2> QED
    BY <1>2, <1>3, <1>4, <2>1, <2>2, <2>3 DEF Journaling, Pending, Unmoved
<1>9. Intact(p)'
  <2>1. /\ Unmoved(tx) /\ parts[tx] = Parts
        /\ journal = JournalOf(plan[p]) /\ staged[tx] = After(plan[p])
    BY <1>2, <1>3 DEF Intact, MoveToBackup
  <2>2. pc'[p] = "place"
          => journal.staged = Whole(tx) /\ staged[tx] = Whole(tx)
             /\ backup'[tx] # Empty
    BY <1>2, <1>4, <2>1 DEF JournalOf, After
  <2> QED
    BY <1>2, <1>4, <2>1, <2>2 DEF Intact, Unmoved
<1>10. Reversing(p)'
  BY <1>4 DEF Reversing
<1>11. KeptSurvives'
  <2>1. \A w \in kept : Whole(w) # Empty
    BY <1>3, ConstantsAssumption DEF Whole, Empty, Writers
  <2>2. backup[tx] = Empty
    BY <1>2, <1>3 DEF Intact, Unmoved, MoveToBackup
  <2> QED
    BY <1>2, <1>3, <1>4, <2>1, <2>2 DEF KeptSurvives, Places
<1>12. Alike
  <2>1. /\ journal # None /\ journal.tx = tx
        /\ receipt # tx \/ tx \in committed
        /\ tx \notin UserRev /\ None \notin UserRev
    BY <1>2, ConstantsAssumption, NoneIsNoJournal
    DEF MoveToBackup, Safe, Known, IInv, PcFacts, Journaled, Discoverable, TypeOK,
        Reports, Journals
  <2>2. /\ journal.before.by # tx
        /\ journal.staged \in {journal.before, Empty, Whole(tx)}
        /\ IF tx \in committed THEN Done(tx) ELSE Pending(tx)
    BY <1>3, <2>1 DEF Journaling
  <2>3. /\ Unmoved(tx) /\ tx \notin committed
        /\ journal.before # journal.staged
    BY <1>2, <1>3 DEF Intact, Unmoved, MoveToBackup, JournalOf
  <2>4. CASE UNCHANGED <<dest, backup>>
    BY <1>4, <2>4 DEF Alike, Logical, Uncommitted
  <2>5. CASE dest # Empty /\ dest' = Empty /\ backup'[tx] = dest
    <3>1. Logical = dest
      <4>1. dest = journal.staged => journal.staged = journal.before
        BY <2>2, <2>3, <2>5 DEF Unmoved, Whole
      <4> QED
        BY <2>1, <2>3, <2>5, <4>1 DEF Logical, Uncommitted
    <3>2. staged'[tx].by \notin UserRev
      BY <1>2, <1>4, <2>1, <2>3, NoBy DEF Unmoved
    <3>3. Logical' = dest
      BY <1>4, <2>1, <2>3, <2>5, <3>2 DEF Logical, Uncommitted
    <3> QED
      BY <1>4, <3>1, <3>3 DEF Alike
  <2> QED
    BY <1>4, <2>4, <2>5
<1>13. Steady' /\ Walking'
  BY <1>1, <1>6, <1>7, <1>8, <1>9, <1>10, <1>11, Others
  DEF Safe, Known, Steady
<1> QED
  BY <1>12, <1>13

LEMMA MoveIntoPlaceSafe ==
    ASSUME Safe, NEW p \in Procs, MoveIntoPlace(p)
    PROVE  Steady' /\ Walking' /\ Alike
<1> USE DEF At
<1> DEFINE tx == preparation
<1>1. pc[p] \in Holding /\ \A q \in Procs : q # p => pc'[q] = pc[q]
  BY DEF MoveIntoPlace, At, Goto, records, local, history, Safe, Known,
     IInv, TypeOK, Holding, Forward, Recovering, Closing
<1>2. /\ tx \in Tx /\ tx \in Writers /\ tx # None
      /\ plan[p].tx = tx
      /\ staged[tx] \in Content /\ backup[tx] \in Content /\ dest \in Content
  <2>1. tx \in Tx /\ plan[p].tx = tx
    BY NoneIsNoJournal
    DEF MoveIntoPlace, Safe, Known, IInv, TypeOK, PcFacts, Discoverable, Forward,
        Closing, Journaled, Journals
  <2> QED
    BY <2>1, ConstantsAssumption DEF Safe, Known, IInv, TypeOK, Writers
<1>3. /\ Intact(p) /\ Reversing(p)
      /\ Drawn /\ Apart /\ Journaling /\ KeptSurvives /\ kept \subseteq Writers
  BY DEF Safe, Walking, Steady, Known, IInv, TypeOK
<1>4. /\ \/ pc'[p] = "fail" /\ UNCHANGED <<dest, staged>>
         \/ /\ pc'[p] = "confirm" /\ dest = Empty
            /\ dest' = staged[tx] /\ staged'[tx] = Empty
      /\ \A x \in Tx : x # tx => staged'[x] = staged[x]
      /\ UNCHANGED <<backup, parts, late, preparation, journal, receipt, kept, committed, used, edits, plan>>
  BY <1>2
  DEF MoveIntoPlace, At, Goto, records, local, history, Safe, Known, IInv,
      TypeOK
<1>5. \A w \in Writers : Unseen(w) => Unseen(w)'
  BY <1>2, <1>4, ConstantsAssumption DEF Unseen, Empty, Writers
<1>6. Drawn'
  BY <1>1, <1>4, <1>5, MovedDrawn DEF Safe
<1>7. Apart'
  <2>1. CASE UNCHANGED <<dest, staged>>
    BY <1>2, <1>3, <1>4, <2>1 DEF Apart
  <2>2. CASE ~UNCHANGED <<dest, staged>>
    <3>1. dest'.by = tx /\ staged'[tx] = Empty
      BY <1>2, <1>3, <1>4, <2>2 DEF Intact, MoveIntoPlace, Whole
    <3> QED
      BY <1>2, <1>3, <1>4, <2>2, <3>1, OnlyOne DEF Apart, Empty
  <2> QED
    BY <2>1, <2>2
<1>8. Journaling'
  <2>1. /\ tx \notin kept \cup committed /\ "root" \in parts[tx]
        /\ journal.staged = Whole(tx) /\ journal # None
    BY <1>2, <1>3 DEF Intact, MoveIntoPlace, Parts, Safe, Known, IInv, PcFacts, Journaled
  <2>2. journal.before # journal.staged
    BY <1>3, <2>1 DEF Journaling, Whole
  <2> QED
    BY <1>2, <1>3, <1>4, <2>1, <2>2 DEF Journaling, Pending
<1>9. Intact(p)'
  <2>1. tx \notin kept \cup committed
    BY <1>2, <1>3 DEF Intact, MoveIntoPlace
  <2> QED
    BY <1>2, <1>4, <2>1 DEF Intact
<1>10. Reversing(p)'
  BY <1>4 DEF Reversing
<1>11. KeptSurvives'
  <2>1. \A w \in kept : Whole(w) # Empty
    BY <1>3, ConstantsAssumption DEF Whole, Empty, Writers
  <2> QED
    BY <1>2, <1>3, <1>4, <2>1 DEF KeptSurvives, Places
<1>12. Alike
  <2>1. /\ journal # None /\ journal.tx = tx
        /\ receipt # tx \/ tx \in committed
        /\ tx \notin UserRev /\ None \notin UserRev
    BY <1>2, ConstantsAssumption, NoneIsNoJournal
    DEF MoveIntoPlace, Safe, Known, IInv, PcFacts, Journaled, Discoverable, TypeOK,
        Reports, Journals
  <2>2. /\ journal.before.by # tx
        /\ journal.staged \in {journal.before, Empty, Whole(tx)}
        /\ IF tx \in committed THEN Done(tx) ELSE Pending(tx)
    BY <1>3, <2>1 DEF Journaling
  <2>3. /\ tx \notin committed
        /\ journal.staged = Whole(tx) /\ staged[tx] = Whole(tx)
        /\ backup[tx] # Empty \/ journal.before = Empty
    BY <1>2, <1>3 DEF Intact, MoveIntoPlace, JournalOf
  <2>4. CASE UNCHANGED <<dest, staged>>
    BY <1>4, <2>4 DEF Alike, Logical, Uncommitted
  <2>5. CASE dest = Empty /\ dest' = staged[tx]
    <3>1. Logical = IF backup[tx] # Empty THEN backup[tx] ELSE Empty
      BY <2>1, <2>3, <2>5 DEF Logical, Uncommitted, Whole
    <3>2. dest' # Empty
      BY <1>2, <2>3, <2>5 DEF Whole, Empty
    <3>3. Logical' = IF backup[tx] # Empty THEN backup[tx] ELSE Empty
      BY <1>4, <2>1, <2>3, <2>5, <3>2 DEF Logical, Uncommitted
    <3> QED
      BY <1>4, <3>1, <3>3 DEF Alike
  <2> QED
    BY <1>4, <2>4, <2>5
<1>13. Steady' /\ Walking'
  BY <1>1, <1>6, <1>7, <1>8, <1>9, <1>10, <1>11, Others
  DEF Safe, Known, Steady
<1> QED
  BY <1>12, <1>13

LEMMA CommitSafe ==
    ASSUME Safe, NEW p \in Procs, Commit(p)
    PROVE  Steady' /\ Walking' /\ \E t \in Tx : Atomic!ACommit(t)
<1> USE DEF At
<1> DEFINE tx == preparation
<1>1. pc[p] \in Holding /\ \A q \in Procs : q # p => pc'[q] = pc[q]
  BY DEF Commit, At, Goto, files, local, Safe, Known, IInv, TypeOK, Holding,
     Forward, Recovering, Closing
<1>2. /\ tx \in Tx /\ tx \in Writers /\ tx # None
      /\ plan[p].tx = tx
      /\ staged[tx] \in Content /\ backup[tx] \in Content /\ dest \in Content
  <2>1. tx \in Tx /\ plan[p].tx = tx
    BY NoneIsNoJournal
    DEF Commit, Safe, Known, IInv, TypeOK, PcFacts, Discoverable, Forward,
        Closing, Journaled, Journals
  <2> QED
    BY <2>1, ConstantsAssumption DEF Safe, Known, IInv, TypeOK, Writers
<1>3. /\ Intact(p) /\ Reversing(p)
      /\ Drawn /\ Apart /\ Journaling /\ KeptSurvives /\ kept \subseteq Writers
  BY DEF Safe, Walking, Steady, Known, IInv, TypeOK
<1>4. /\ pc'[p] = "acknowledge"
      /\ receipt' = tx /\ committed' = committed \cup {tx}
      /\ kept' = (kept \ {plan[p].before.by}) \cup ({dest.by} \ {None})
      /\ UNCHANGED <<dest, staged, backup, parts, late, preparation, journal, used, edits, plan>>
  BY <1>2
  DEF Commit, At, Goto, files, local, Safe, Known, IInv, TypeOK
<1>5. \A w \in Writers : Unseen(w) => Unseen(w)'
  BY <1>2, <1>4 DEF Unseen
<1>6. Drawn'
  BY <1>1, <1>4, <1>5, MovedDrawn DEF Safe
<1>7. Apart'
  BY <1>3, <1>4 DEF Apart
<1>8. Journaling'
  <2>1. /\ journal = JournalOf(plan[p]) /\ journal # None
        /\ staged[tx] = Empty /\ backup[tx] \in {Empty, plan[p].before}
    BY <1>2, <1>3 DEF Intact, Commit, Safe, Known, IInv, PcFacts, Journaled
  <2>2. backup[tx] # Empty => backup[tx].by \notin kept'
    BY <1>2, <1>3, <1>4, <2>1, NoBy DEF Apart
  <2>3. Done(tx)'
    BY <1>2, <1>4, <2>1, <2>2 DEF Done, JournalOf
  <2> QED
    BY <1>2, <1>3, <1>4, <2>1, <2>3 DEF Journaling
<1>9. Intact(p)'
  BY <1>4 DEF Intact
<1>10. Reversing(p)'
  BY <1>4 DEF Reversing
<1>11. KeptSurvives'
  <2>1. dest.by # None => dest = Whole(dest.by)
    BY WholeDest DEF Empty
  <2> QED
    BY <1>3, <1>4, <2>1 DEF KeptSurvives, Places
<1>12. Atomic!ACommit(tx)
  <2>1. /\ journal # None /\ journal.tx = tx
        /\ receipt # tx \/ tx \in committed
        /\ tx \notin UserRev /\ None \notin UserRev
    BY <1>2, ConstantsAssumption, NoneIsNoJournal
    DEF Commit, Safe, Known, IInv, PcFacts, Journaled, Discoverable, TypeOK,
        Reports, Journals
  <2>2. /\ journal.before.by # tx
        /\ journal.staged \in {journal.before, Empty, Whole(tx)}
        /\ IF tx \in committed THEN Done(tx) ELSE Pending(tx)
    BY <1>3, <2>1 DEF Journaling
  <2>3. tx \notin committed
    BY <1>2, <1>3 DEF Intact, Commit
  <2>4. Logical' = dest
    BY <1>4, <2>1 DEF Logical, Uncommitted
  <2>5. dest.by \in {tx, Logical.by, None}
    <3>1. CASE dest = Empty
      BY <3>1 DEF Empty
    <3>2. CASE dest # Empty /\ dest = Whole(tx)
      BY <3>2 DEF Whole
    <3>3. CASE dest # Empty /\ dest # Whole(tx)
      BY <2>1, <2>2, <2>3, <3>3 DEF Pending, Logical, Uncommitted
    <3> QED
      BY <3>1, <3>2, <3>3
  <2> QED
    BY <1>2, <1>4, <2>3, <2>4, <2>5 DEF Atomic!ACommit
<1>13. Steady' /\ Walking'
  BY <1>1, <1>6, <1>7, <1>8, <1>9, <1>10, <1>11, Others
  DEF Safe, Known, Steady
<1> QED
  BY <1>12, <1>13, <1>2

LEMMA CleanupSafe ==
    ASSUME Safe, NEW p \in Procs, Cleanup(p)
    PROVE  Steady' /\ Walking' /\ Alike
<1> USE DEF At
<1> DEFINE tx == preparation
<1>1. pc[p] \in Holding /\ \A q \in Procs : q # p => pc'[q] = pc[q]
  BY DEF Cleanup, At, Goto, records, local, history, Refusal, Safe, Known,
     IInv, TypeOK, Holding, Forward, Recovering, Closing
<1>2. /\ tx \in Tx /\ tx \in Writers /\ tx # None
      /\ staged[tx] \in Content /\ backup[tx] \in Content /\ dest \in Content
  <2>1. tx \in Tx
    BY NoneIsNoJournal
    DEF Cleanup, Safe, Known, IInv, TypeOK, PcFacts, Discoverable, Forward,
        Closing, Journaled, Journals
  <2> QED
    BY <2>1, ConstantsAssumption DEF Safe, Known, IInv, TypeOK, Writers
<1>3. /\ Intact(p) /\ Reversing(p)
      /\ Drawn /\ Apart /\ Journaling /\ KeptSurvives /\ kept \subseteq Writers
  BY DEF Safe, Walking, Steady, Known, IInv, TypeOK
<1>4. /\ pc'[p] \in {"cleanup", "rmdirs", "fail", "refused"}
      /\ staged'[tx] \in Content /\ staged'[tx].by \in {staged[tx].by, None}
      /\ backup'[tx] \in Content /\ backup'[tx].by \in {backup[tx].by, None}
      /\ staged'[tx] # staged[tx] => Remnant(staged[tx], journal.staged)
      /\ backup'[tx] # backup[tx] => Remnant(backup[tx], journal.before)
      /\ \A x \in Tx : x # tx => staged'[x] = staged[x]
      /\ \A x \in Tx : x # tx => backup'[x] = backup[x]
      /\ UNCHANGED <<dest, parts, late, preparation, journal, receipt, kept, committed, used, edits, plan>>
  BY <1>2, ShrunkBy, ContentTypes
  DEF Cleanup, At, Goto, records, local, history, Refusal, Safe, Known,
      IInv, TypeOK
<1>5. \A w \in Writers : Unseen(w) => Unseen(w)'
  BY <1>2, <1>4, ConstantsAssumption DEF Unseen, Writers
<1>6. Drawn'
  BY <1>1, <1>4, <1>5, MovedDrawn DEF Safe
<1>7. Apart'
  BY <1>2, <1>3, <1>4, NoBy, OnlyOne DEF Apart, Empty
<1>8. Journaling'
  <2>1. /\ staged[tx] = Empty => staged'[tx] = Empty
        /\ backup[tx] = Empty => backup'[tx] = Empty
        /\ backup'[tx] # Empty => backup'[tx].by = backup[tx].by
    BY <1>2, <1>4, NoBy
  <2>2. journal # None
    BY DEF Cleanup, Safe, Known, IInv, PcFacts, Journaled
  <2>3. CASE tx \in committed
    BY <1>2, <1>3, <1>4, <2>1, <2>2, <2>3, NoBy DEF Journaling, Done
  <2>4. CASE tx \notin committed
    BY <1>2, <1>3, <1>4, <2>1, <2>2, <2>4 DEF Journaling, Pending
  <2> QED
    BY <2>3, <2>4
<1>9. Intact(p)'
  BY <1>4 DEF Intact
<1>10. Reversing(p)'
  <2>1. backup[tx] = Empty => backup'[tx] = Empty
    BY <1>2, <1>4, NoBy
  <2> QED
    BY <1>2, <1>3, <1>4, <2>1 DEF Reversing, Cleanup
<1>11. KeptSurvives'
  <2>1. journal # None
    BY DEF Cleanup, Safe, Known, IInv, PcFacts, Journaled
  <2>2. ASSUME NEW w \in kept, staged[tx] = Whole(w) PROVE staged'[tx] = staged[tx]
    <3>1. staged[tx] # Empty /\ staged[tx].by = w /\ w # None
      BY <1>3, <2>2, ConstantsAssumption DEF Whole, Empty, Writers
    <3>2. tx \notin committed /\ Pending(tx)
      BY <1>3, <2>1, <3>1 DEF Journaling, Done
    <3>3. journal.staged \in {Empty, Whole(tx)}
      BY <1>3, <2>1, <3>1, <3>2 DEF Journaling, Pending
    <3>4. w = tx => dest.by = tx /\ dest # Empty
      BY <1>2, <3>2 DEF Pending, Empty
    <3>5. w # tx
      BY <1>2, <1>3, <3>1, <3>4 DEF Apart
    <3> QED
      BY <1>4, <3>1, <3>3, <3>5 DEF Remnant, Whole, Empty
  <2>3. ASSUME NEW w \in kept, backup[tx] = Whole(w) PROVE backup'[tx] = backup[tx]
    <3>1. backup[tx] # Empty /\ backup[tx].by = w
      BY <1>3, <2>3, ConstantsAssumption DEF Whole, Empty, Writers
    <3>2. tx \notin committed
      BY <1>3, <2>1, <3>1 DEF Journaling, Done
    <3> QED
      BY <1>3, <2>1, <3>1, <3>2 DEF Reversing, Cleanup
  <2> QED
    BY <1>3, <1>4, <2>2, <2>3 DEF KeptSurvives, Places
<1>12. Alike
  <2>1. /\ journal # None /\ journal.tx = tx
        /\ receipt # tx \/ tx \in committed
        /\ tx \notin UserRev /\ None \notin UserRev
    BY <1>2, ConstantsAssumption, NoneIsNoJournal
    DEF Cleanup, Safe, Known, IInv, PcFacts, Journaled, Discoverable, TypeOK,
        Reports, Journals
  <2>2. /\ journal.before.by # tx
        /\ journal.staged \in {journal.before, Empty, Whole(tx)}
        /\ IF tx \in committed THEN Done(tx) ELSE Pending(tx)
    BY <1>3, <2>1 DEF Journaling
  <2>3. CASE tx \in committed
    BY <1>4, <2>1, <2>2, <2>3 DEF Done, Alike, Logical, Uncommitted
  <2>4. CASE tx \notin committed
    <3>1. backup[tx] = Empty /\ backup'[tx] = Empty
      BY <1>2, <1>3, <1>4, <2>1, <2>4, NoBy DEF Reversing, Cleanup
    <3>2. staged'[tx] = staged[tx] \/ staged[tx].by \in {None, tx}
      BY <1>4, <2>2, <2>4 DEF Remnant, Pending, Whole, Empty
    <3>3. \/ staged'[tx] = staged[tx]
          \/ staged'[tx].by \notin UserRev /\ staged[tx].by \notin UserRev
      BY <1>4, <2>1, <3>2
    <3> QED
      BY <1>4, <2>1, <3>1, <3>3 DEF Alike, Logical, Uncommitted
  <2> QED
    BY <2>3, <2>4
<1>13. Steady' /\ Walking'
  BY <1>1, <1>6, <1>7, <1>8, <1>9, <1>10, <1>11, Others
  DEF Safe, Known, Steady
<1> QED
  BY <1>12, <1>13

LEMMA RemoveDirectoriesSafe ==
    ASSUME Safe, NEW p \in Procs, RemoveDirectories(p)
    PROVE  Steady' /\ Walking' /\ Alike
<1> USE DEF At
<1> DEFINE tx == preparation
<1>1. pc[p] \in Holding /\ \A q \in Procs : q # p => pc'[q] = pc[q]
  BY DEF RemoveDirectories, At, Goto, records, local, history, RemovePart,
     Safe, Known, IInv, TypeOK, Holding, Forward, Recovering, Closing
<1>2. /\ tx \in Tx /\ tx \in Writers /\ tx # None
      /\ staged[tx] \in Content /\ backup[tx] \in Content /\ dest \in Content
  <2>1. tx \in Tx
    BY NoneIsNoJournal
    DEF RemoveDirectories, Safe, Known, IInv, TypeOK, PcFacts, Discoverable, Forward,
        Closing, Journaled, Journals
  <2> QED
    BY <2>1, ConstantsAssumption DEF Safe, Known, IInv, TypeOK, Writers
<1>3. /\ Intact(p) /\ Reversing(p)
      /\ Drawn /\ Apart /\ Journaling /\ KeptSurvives /\ kept \subseteq Writers
  BY DEF Safe, Walking, Steady, Known, IInv, TypeOK
<1>4. /\ pc'[p] \in {"rmdirs", "release", "forget"}
      /\ pc'[p] = "forget" => journal # None
      /\ parts'[tx] \subseteq parts[tx]
      /\ UNCHANGED <<dest, staged, backup, preparation, journal, receipt, kept, committed, used, edits, plan>>
  BY <1>2
  DEF RemoveDirectories, At, Goto, records, local, history, RemovePart,
      Safe, Known, IInv, TypeOK
<1>5. \A w \in Writers : Unseen(w) => Unseen(w)'
  BY <1>2, <1>4 DEF Unseen
<1>6. Drawn'
  BY <1>1, <1>4, <1>5, MovedDrawn DEF Safe
<1>7. Apart'
  BY <1>3, <1>4 DEF Apart
<1>8. Journaling'
  <2>1. journal # None /\ tx \notin committed
          => tx \notin kept /\ dest.by # tx /\ backup[tx] = Empty
    BY <1>3 DEF Reversing, RemoveDirectories
  <2> QED
    BY <1>2, <1>3, <1>4, <2>1 DEF Journaling, Pending, Done, Unmoved
<1>9. Intact(p)'
  BY <1>4 DEF Intact
<1>10. Reversing(p)'
  BY <1>2, <1>3, <1>4 DEF Reversing, RemoveDirectories
<1>11. KeptSurvives'
  BY <1>3, <1>4 DEF KeptSurvives, Places
<1>12. Alike
  BY <1>4 DEF Alike, Logical, Uncommitted
<1>13. Steady' /\ Walking'
  BY <1>1, <1>6, <1>7, <1>8, <1>9, <1>10, <1>11, Others
  DEF Safe, Known, Steady
<1> QED
  BY <1>12, <1>13

LEMMA DeleteJournalSafe ==
    ASSUME Safe, NEW p \in Procs, DeleteJournal(p)
    PROVE  Steady' /\ Walking' /\ Alike
<1> USE DEF At
<1> DEFINE tx == preparation
<1>1. pc[p] \in Holding /\ \A q \in Procs : q # p => pc'[q] = pc[q]
  BY DEF DeleteJournal, At, Goto, files, local, history, Safe, Known, IInv,
     TypeOK, Holding, Forward, Recovering, Closing
<1>2. /\ tx \in Tx /\ tx \in Writers /\ tx # None
      /\ staged[tx] \in Content /\ backup[tx] \in Content /\ dest \in Content
  <2>1. tx \in Tx
    BY NoneIsNoJournal
    DEF DeleteJournal, Safe, Known, IInv, TypeOK, PcFacts, Discoverable, Forward,
        Closing, Journaled, Journals
  <2> QED
    BY <2>1, ConstantsAssumption DEF Safe, Known, IInv, TypeOK, Writers
<1>3. /\ Intact(p) /\ Reversing(p)
      /\ Drawn /\ Apart /\ Journaling /\ KeptSurvives /\ kept \subseteq Writers
  BY DEF Safe, Walking, Steady, Known, IInv, TypeOK
<1>4. /\ pc'[p] = "release" /\ journal' = None
      /\ UNCHANGED <<dest, staged, backup, parts, late, preparation, receipt, kept, committed, used, edits, plan>>
  BY <1>2
  DEF DeleteJournal, At, Goto, files, local, history, Safe, Known, IInv,
      TypeOK
<1>5. \A w \in Writers : Unseen(w) => Unseen(w)'
  BY <1>2, <1>4 DEF Unseen
<1>6. Drawn'
  BY <1>1, <1>4, <1>5, MovedDrawn DEF Safe
<1>7. Apart'
  BY <1>3, <1>4 DEF Apart
<1>8. Journaling'
  <2>1. parts[tx] = {} /\ journal # None
    BY DEF DeleteJournal, Safe, Known, IInv, PcFacts, Journaled
  <2>2. staged[tx] = Empty /\ backup[tx] = Empty
    BY <1>2, <2>1 DEF Safe, Known, IInv, Discoverable
  <2>3. tx \notin committed => tx \notin kept /\ dest.by # tx
    BY <1>3, <2>1 DEF Reversing, DeleteJournal
  <2> QED
    BY <1>2, <1>4, <2>1, <2>2, <2>3 DEF Journaling, Unmoved
<1>9. Intact(p)'
  BY <1>4 DEF Intact
<1>10. Reversing(p)'
  BY <1>4 DEF Reversing
<1>11. KeptSurvives'
  BY <1>3, <1>4 DEF KeptSurvives, Places
<1>12. Alike
  <2>1. /\ journal # None /\ journal.tx = tx
        /\ receipt # tx \/ tx \in committed
        /\ tx \notin UserRev /\ None \notin UserRev
    BY <1>2, ConstantsAssumption, NoneIsNoJournal
    DEF DeleteJournal, Safe, Known, IInv, PcFacts, Journaled, Discoverable, TypeOK,
        Reports, Journals
  <2>2. /\ journal.before.by # tx
        /\ journal.staged \in {journal.before, Empty, Whole(tx)}
        /\ IF tx \in committed THEN Done(tx) ELSE Pending(tx)
    BY <1>3, <2>1 DEF Journaling
  <2>3. Logical' = dest
    BY <1>4 DEF Logical, Uncommitted
  <2>4. CASE tx \in committed
    BY <1>4, <2>1, <2>2, <2>3, <2>4 DEF Done, Alike, Logical, Uncommitted
  <2>5. CASE tx \notin committed
    <3>1. parts[tx] = {}
      BY DEF DeleteJournal, Safe, Known, IInv, PcFacts
    <3>2. staged[tx] = Empty /\ backup[tx] = Empty
      BY <1>2, <3>1 DEF Safe, Known, IInv, Discoverable
    <3>3. dest.by # tx
      BY <1>3, <2>1, <2>5 DEF Reversing, DeleteJournal
    <3>4. Logical = dest
      BY <2>1, <2>2, <3>2, <3>3 DEF Logical, Uncommitted, Empty, Whole
    <3> QED
      BY <1>4, <2>3, <3>4 DEF Alike
  <2> QED
    BY <2>4, <2>5
<1>13. Steady' /\ Walking'
  BY <1>1, <1>6, <1>7, <1>8, <1>9, <1>10, <1>11, Others
  DEF Safe, Known, Steady
<1> QED
  BY <1>12, <1>13

LEMMA DeletePreparationSafe ==
    ASSUME Safe, NEW p \in Procs, DeletePreparation(p)
    PROVE  Steady' /\ Walking' /\ Alike
<1> USE DEF At
<1> DEFINE tx == preparation
<1>1. pc[p] \in Holding /\ \A q \in Procs : q # p => pc'[q] = pc[q]
  BY DEF DeletePreparation, At, Goto, files, local, history, Safe, Known,
     IInv, TypeOK, Holding, Forward, Recovering, Closing
<1>2. /\ tx \in Tx /\ tx \in Writers /\ tx # None
      /\ staged[tx] \in Content /\ backup[tx] \in Content /\ dest \in Content
  <2>1. tx \in Tx
    BY NoneIsNoJournal
    DEF DeletePreparation, Safe, Known, IInv, TypeOK, PcFacts, Discoverable, Forward,
        Closing, Journaled, Journals
  <2> QED
    BY <2>1, ConstantsAssumption DEF Safe, Known, IInv, TypeOK, Writers
<1>3. /\ Intact(p) /\ Reversing(p)
      /\ Drawn /\ Apart /\ Journaling /\ KeptSurvives /\ kept \subseteq Writers
  BY DEF Safe, Walking, Steady, Known, IInv, TypeOK
<1>4. /\ pc'[p] \in {"finish", "resume"} /\ preparation' = None
      /\ UNCHANGED <<dest, staged, backup, parts, late, journal, receipt, kept, committed, used, edits, plan>>
  BY <1>2
  DEF DeletePreparation, At, Goto, files, local, history, Safe, Known, IInv,
      TypeOK
<1>5. \A w \in Writers : Unseen(w) => Unseen(w)'
  BY <1>2, <1>4, ConstantsAssumption DEF Unseen, Writers
<1>6. Drawn'
  BY <1>1, <1>4, <1>5, MovedDrawn DEF Safe
<1>7. Apart'
  BY <1>3, <1>4 DEF Apart
<1>8. Journaling'
  <2>1. journal = None
    BY DEF DeletePreparation, Safe, Known, IInv, PcFacts, Unjournaled
  <2> QED
    BY <1>4, <2>1 DEF Journaling
<1>9. Intact(p)'
  BY <1>4 DEF Intact
<1>10. Reversing(p)'
  BY <1>4 DEF Reversing
<1>11. KeptSurvives'
  BY <1>3, <1>4 DEF KeptSurvives, Places
<1>12. Alike
  BY <1>4 DEF Alike, Logical, Uncommitted
<1>13. Steady' /\ Walking'
  BY <1>1, <1>6, <1>7, <1>8, <1>9, <1>10, <1>11, Others
  DEF Safe, Known, Steady
<1> QED
  BY <1>12, <1>13

LEMMA AbandonSafe ==
    ASSUME Safe, NEW p \in Procs, Abandon(p)
    PROVE  Steady' /\ Walking' /\ Alike
<1> USE DEF At
<1> DEFINE tx == preparation
<1>1. pc[p] \in Holding /\ \A q \in Procs : q # p => pc'[q] = pc[q]
  BY DEF Abandon, At, Goto, records, local, history, Safe, Known, IInv,
     TypeOK, Holding, Forward, Recovering, Closing
<1>2. /\ tx \in Tx /\ tx \in Writers /\ tx # None
      /\ staged[tx] \in Content /\ backup[tx] \in Content /\ dest \in Content
  <2>1. tx \in Tx
    BY NoneIsNoJournal
    DEF Abandon, Safe, Known, IInv, TypeOK, PcFacts, Discoverable, Forward,
        Closing, Journaled, Journals
  <2> QED
    BY <2>1, ConstantsAssumption DEF Safe, Known, IInv, TypeOK, Writers
<1>3. /\ Intact(p) /\ Reversing(p)
      /\ Drawn /\ Apart /\ Journaling /\ KeptSurvives /\ kept \subseteq Writers
  BY DEF Safe, Walking, Steady, Known, IInv, TypeOK
<1>4. /\ pc'[p] \in {"abandon", "rmdirs", "refused"}
      /\ staged'[tx] \in Content /\ staged'[tx].by \in {staged[tx].by, None}
      /\ \A x \in Tx : x # tx => staged'[x] = staged[x]
      /\ UNCHANGED <<dest, backup, parts, late, preparation, journal, receipt, kept, committed, used, edits, plan>>
  BY <1>2, ShrunkBy, ContentTypes
  DEF Abandon, At, Goto, records, local, history, Safe, Known, IInv, TypeOK
<1>5. \A w \in Writers : Unseen(w) => Unseen(w)'
  BY <1>2, <1>4, ConstantsAssumption DEF Unseen, Writers
<1>6. Drawn'
  BY <1>1, <1>4, <1>5, MovedDrawn DEF Safe
<1>7. Apart'
  BY <1>2, <1>3, <1>4, NoBy, OnlyOne DEF Apart, Empty
<1>8. Journaling'
  <2>1. journal = None
    BY DEF Abandon, Safe, Known, IInv, PcFacts, Unjournaled
  <2>2. /\ staged[tx] = Empty => staged'[tx] = Empty
        /\ staged'[tx] # Empty => staged'[tx].by = staged[tx].by
    BY <1>2, <1>4, NoBy
  <2> QED
    BY <1>2, <1>3, <1>4, <2>1, <2>2 DEF Journaling, Unmoved
<1>9. Intact(p)'
  BY <1>4 DEF Intact
<1>10. Reversing(p)'
  <2>1. journal = None
    BY DEF Abandon, Safe, Known, IInv, PcFacts, Unjournaled
  <2> QED
    BY <1>4, <2>1 DEF Reversing
<1>11. KeptSurvives'
  <2>1. Unmoved(tx) \/ staged[tx] = Empty
    BY <1>2, <1>3
    DEF Abandon, Journaling, Safe, Known, IInv, PcFacts, Unjournaled, Discoverable
  <2>2. \A w \in kept : staged[tx] # Whole(w)
    BY <1>2, <1>3, <2>1, NoBy, ConstantsAssumption
       DEF Unmoved, Whole, Empty, Writers
  <2> QED
    BY <1>3, <1>4, <2>2 DEF KeptSurvives, Places
<1>12. Alike
  <2>1. journal = None
    BY DEF Abandon, Safe, Known, IInv, PcFacts, Unjournaled
  <2> QED
    BY <1>4, <2>1 DEF Alike, Logical, Uncommitted
<1>13. Steady' /\ Walking'
  BY <1>1, <1>6, <1>7, <1>8, <1>9, <1>10, <1>11, Others
  DEF Safe, Known, Steady
<1> QED
  BY <1>12, <1>13

LEMMA MoveToStagingSafe ==
    ASSUME Safe, NEW p \in Procs, MoveToStaging(p)
    PROVE  Steady' /\ Walking' /\ Alike
<1> USE DEF At
<1> DEFINE tx == preparation
<1>1. pc[p] \in Holding /\ \A q \in Procs : q # p => pc'[q] = pc[q]
  BY DEF MoveToStaging, At, Goto, records, local, history, Safe, Known,
     IInv, TypeOK, Holding, Forward, Recovering, Closing
<1>2. /\ tx \in Tx /\ tx \in Writers /\ tx # None
      /\ staged[tx] \in Content /\ backup[tx] \in Content /\ dest \in Content
  <2>1. tx \in Tx
    BY NoneIsNoJournal
    DEF MoveToStaging, Safe, Known, IInv, TypeOK, PcFacts, Discoverable, Forward,
        Closing, Journaled, Journals
  <2> QED
    BY <2>1, ConstantsAssumption DEF Safe, Known, IInv, TypeOK, Writers
<1>3. /\ Intact(p) /\ Reversing(p)
      /\ Drawn /\ Apart /\ Journaling /\ KeptSurvives /\ kept \subseteq Writers
  BY DEF Safe, Walking, Steady, Known, IInv, TypeOK
<1>4. /\ \/ pc'[p] = "finish" /\ UNCHANGED <<dest, staged>>
         \/ /\ pc'[p] \in {"finish", "cleanup", "restore"}
            /\ dest # Empty /\ dest' = Empty /\ staged'[tx] = dest
            /\ pc'[p] = "cleanup" => backup[tx] = Empty
            /\ pc'[p] = "restore" => backup[tx] # Empty /\ dest = journal.staged
      /\ \A x \in Tx : x # tx => staged'[x] = staged[x]
      /\ UNCHANGED <<backup, parts, late, preparation, journal, receipt, kept, committed, used, edits, plan>>
  BY <1>2
  DEF MoveToStaging, At, Goto, records, local, history, Safe, Known, IInv,
      TypeOK
<1>5. \A w \in Writers : Unseen(w) => Unseen(w)'
  BY <1>2, <1>4, ConstantsAssumption DEF Unseen, Empty, Writers
<1>6. Drawn'
  BY <1>1, <1>4, <1>5, MovedDrawn DEF Safe
<1>7. Apart'
  BY <1>2, <1>3, <1>4, NoBy, OnlyOne DEF Apart, Empty
<1>8. Journaling'
  <2>1. /\ tx \notin kept \cup committed /\ staged[tx] = Empty
        /\ journal.staged = Whole(tx) /\ backup[tx] = journal.before
    BY <1>3 DEF Reversing, MoveToStaging
  <2>2. journal # None /\ journal.before.by # tx
    BY <1>3 DEF MoveToStaging, Safe, Known, IInv, PcFacts, Journaled, Journaling
  <2>3. dest'.by = tx => "root" \in parts[tx]
    BY <1>2, <1>3, <1>4, <2>1, <2>2 DEF Journaling, Pending, Empty
  <2> QED
    BY <1>2, <1>3, <1>4, <2>1, <2>2, <2>3 DEF Journaling, Pending, Whole
<1>9. Intact(p)'
  BY <1>4 DEF Intact
<1>10. Reversing(p)'
  <2>1. /\ tx \notin kept \cup committed /\ staged[tx] = Empty
        /\ journal.staged = Whole(tx) /\ backup[tx] = journal.before
    BY <1>3 DEF Reversing, MoveToStaging
  <2>2. journal # None /\ journal.before.by # tx
    BY <1>3 DEF MoveToStaging, Safe, Known, IInv, PcFacts, Journaled, Journaling
  <2>3. CASE pc'[p] = "finish"
    BY <2>3 DEF Reversing
  <2>4. CASE pc'[p] # "finish"
    BY <1>2, <1>4, <2>1, <2>2, <2>4 DEF Reversing, Empty, Whole
  <2> QED
    BY <2>3, <2>4
<1>11. KeptSurvives'
  <2>1. \A w \in kept : Whole(w) # Empty
    BY <1>3, ConstantsAssumption DEF Whole, Empty, Writers
  <2>2. staged[tx] = Empty
    BY <1>3 DEF Reversing, MoveToStaging
  <2> QED
    BY <1>2, <1>3, <1>4, <2>1, <2>2 DEF KeptSurvives, Places
<1>12. Alike
  <2>1. /\ journal # None /\ journal.tx = tx
        /\ receipt # tx \/ tx \in committed
        /\ tx \notin UserRev /\ None \notin UserRev
    BY <1>2, ConstantsAssumption, NoneIsNoJournal
    DEF MoveToStaging, Safe, Known, IInv, PcFacts, Journaled, Discoverable, TypeOK,
        Reports, Journals
  <2>2. /\ journal.before.by # tx
        /\ journal.staged \in {journal.before, Empty, Whole(tx)}
        /\ IF tx \in committed THEN Done(tx) ELSE Pending(tx)
    BY <1>3, <2>1 DEF Journaling
  <2>3. /\ tx \notin committed /\ staged[tx] = Empty
        /\ journal.staged = Whole(tx) /\ backup[tx] = journal.before
        /\ dest \in {Empty, journal.staged} \/ dest.by \in UserRev
    BY <1>3 DEF Reversing, MoveToStaging
  <2>4. CASE UNCHANGED <<dest, staged>>
    BY <1>4, <2>4 DEF Alike, Logical, Uncommitted
  <2>5. CASE dest # Empty /\ dest' = Empty /\ staged'[tx] = dest
    <3>1. CASE dest = journal.staged
      <4>1. staged'[tx].by \notin UserRev
        BY <2>1, <2>3, <2>5, <3>1 DEF Whole
      <4>2. Logical = backup[tx]
        BY <2>1, <2>3, <2>5, <3>1 DEF Logical, Uncommitted
      <4>3. Logical' = backup[tx]
        BY <1>4, <2>1, <2>3, <2>5, <4>1 DEF Logical, Uncommitted
      <4> QED
        BY <1>4, <4>2, <4>3 DEF Alike
    <3>2. CASE dest # journal.staged
      <4>1. Logical = dest
        BY <2>5, <3>2 DEF Logical
      <4>2. Logical' = dest
        BY <1>4, <2>1, <2>3, <2>5, <3>2 DEF Logical, Uncommitted
      <4> QED
        BY <1>4, <4>1, <4>2 DEF Alike
    <3> QED
      BY <3>1, <3>2
  <2> QED
    BY <1>4, <2>4, <2>5
<1>13. Steady' /\ Walking'
  BY <1>1, <1>6, <1>7, <1>8, <1>9, <1>10, <1>11, Others
  DEF Safe, Known, Steady
<1> QED
  BY <1>12, <1>13

LEMMA MoveBackSafe ==
    ASSUME Safe, NEW p \in Procs, MoveBack(p)
    PROVE  Steady' /\ Walking' /\ Alike
<1> USE DEF At
<1> DEFINE tx == preparation
<1>1. pc[p] \in Holding /\ \A q \in Procs : q # p => pc'[q] = pc[q]
  BY DEF MoveBack, At, Goto, records, local, history, Safe, Known, IInv,
     TypeOK, Holding, Forward, Recovering, Closing
<1>2. /\ tx \in Tx /\ tx \in Writers /\ tx # None
      /\ staged[tx] \in Content /\ backup[tx] \in Content /\ dest \in Content
  <2>1. tx \in Tx
    BY NoneIsNoJournal
    DEF MoveBack, Safe, Known, IInv, TypeOK, PcFacts, Discoverable, Forward,
        Closing, Journaled, Journals
  <2> QED
    BY <2>1, ConstantsAssumption DEF Safe, Known, IInv, TypeOK, Writers
<1>3. /\ Intact(p) /\ Reversing(p)
      /\ Drawn /\ Apart /\ Journaling /\ KeptSurvives /\ kept \subseteq Writers
  BY DEF Safe, Walking, Steady, Known, IInv, TypeOK
<1>4. /\ \/ pc'[p] = "finish" /\ UNCHANGED <<dest, backup>>
         \/ /\ pc'[p] = "restored" /\ dest = Empty
            /\ dest' = backup[tx] /\ backup'[tx] = Empty
      /\ \A x \in Tx : x # tx => backup'[x] = backup[x]
      /\ UNCHANGED <<staged, parts, late, preparation, journal, receipt, kept, committed, used, edits, plan>>
  BY <1>2
  DEF MoveBack, At, Goto, records, local, history, Safe, Known, IInv, TypeOK
<1>5. \A w \in Writers : Unseen(w) => Unseen(w)'
  BY <1>2, <1>4, ConstantsAssumption DEF Unseen, Empty, Writers
<1>6. Drawn'
  BY <1>1, <1>4, <1>5, MovedDrawn DEF Safe
<1>7. Apart'
  <2>1. /\ tx \notin kept \cup committed /\ staged[tx].by \in {None, tx}
        /\ backup[tx] = journal.before /\ journal.before # journal.staged
        /\ backup[tx] # Empty
    BY <1>3 DEF Reversing, MoveBack
  <2>2. journal # None /\ journal.before.by # tx
    BY <1>3 DEF MoveBack, Safe, Known, IInv, PcFacts, Journaled, Journaling
  <2> QED
    BY <1>2, <1>3, <1>4, <2>1, <2>2, NoBy, OnlyOne DEF Apart, Empty
<1>8. Journaling'
  <2>1. /\ tx \notin kept \cup committed /\ staged[tx].by \in {None, tx}
        /\ backup[tx] = journal.before /\ journal.before # journal.staged
        /\ backup[tx] # Empty
    BY <1>3 DEF Reversing, MoveBack
  <2>2. journal # None /\ journal.before.by # tx
    BY <1>3 DEF MoveBack, Safe, Known, IInv, PcFacts, Journaled, Journaling
  <2> QED
    BY <1>2, <1>3, <1>4, <2>1, <2>2 DEF Journaling, Pending
<1>9. Intact(p)'
  BY <1>4 DEF Intact
<1>10. Reversing(p)'
  <2>1. /\ tx \notin kept \cup committed /\ staged[tx].by \in {None, tx}
        /\ backup[tx] = journal.before /\ journal.before # journal.staged
        /\ backup[tx] # Empty
    BY <1>3 DEF Reversing, MoveBack
  <2>2. journal # None /\ journal.before.by # tx
    BY <1>3 DEF MoveBack, Safe, Known, IInv, PcFacts, Journaled, Journaling
  <2> QED
    BY <1>2, <1>4, <2>1 DEF Reversing
<1>11. KeptSurvives'
  <2>1. \A w \in kept : Whole(w) # Empty
    BY <1>3, ConstantsAssumption DEF Whole, Empty, Writers
  <2> QED
    BY <1>2, <1>3, <1>4, <2>1 DEF KeptSurvives, Places
<1>12. Alike
  <2>1. /\ journal # None /\ journal.tx = tx
        /\ receipt # tx \/ tx \in committed
        /\ tx \notin UserRev /\ None \notin UserRev
    BY <1>2, ConstantsAssumption, NoneIsNoJournal
    DEF MoveBack, Safe, Known, IInv, PcFacts, Journaled, Discoverable, TypeOK,
        Reports, Journals
  <2>2. /\ journal.before.by # tx
        /\ journal.staged \in {journal.before, Empty, Whole(tx)}
        /\ IF tx \in committed THEN Done(tx) ELSE Pending(tx)
    BY <1>3, <2>1 DEF Journaling
  <2>3. /\ tx \notin committed /\ staged[tx].by \notin UserRev
        /\ backup[tx] = journal.before /\ backup[tx] # Empty
        /\ journal.before # journal.staged
    BY <1>3, <2>1 DEF Reversing, MoveBack
  <2>4. CASE UNCHANGED <<dest, backup>>
    BY <1>4, <2>4 DEF Alike, Logical, Uncommitted
  <2>5. CASE dest = Empty /\ dest' = backup[tx]
    <3>1. Logical = backup[tx]
      BY <2>1, <2>3, <2>5 DEF Logical, Uncommitted
    <3>2. Logical' = backup[tx]
      BY <1>4, <2>1, <2>3, <2>5 DEF Logical, Uncommitted
    <3> QED
      BY <1>4, <3>1, <3>2 DEF Alike
  <2> QED
    BY <1>4, <2>4, <2>5
<1>13. Steady' /\ Walking'
  BY <1>1, <1>6, <1>7, <1>8, <1>9, <1>10, <1>11, Others
  DEF Safe, Known, Steady
<1> QED
  BY <1>12, <1>13

----------------------------------------------------------------------------
(* The user, and the invariant.                                            *)

\* A fresh edit number is nobody's.
LEMMA FreshEdit ==
    ASSUME Safe, edits < MaxEdits
    PROVE  edits + 1 \in UserRev /\ edits + 1 \in Writers
           /\ edits + 1 \notin Tx /\ edits + 1 # None /\ Unseen(edits + 1)
  BY ConstantsAssumption
  DEF Safe, Known, IInv, TypeOK, Steady, Drawn, UserRev, Writers

LEMMA UserSafe == ASSUME Safe, User PROVE Steady' /\ Walking'
<1> USE DEF At
<1>1. /\ edits < MaxEdits /\ edits' = edits + 1 /\ edits \in 0..MaxEdits
      /\ UNCHANGED <<staged, backup, parts, preparation, journal, receipt,
                     lock, pc, mode, plan, reported, committed, used>>
      /\ late \subseteq late'
  BY DEF User, UserWrite, UserDelete, UserRetouch, UserChange, records, local,
     Safe, Known, IInv, TypeOK
<1>2. \/ UserWrite \/ UserDelete
      \/ UserRetouch /\ UNCHANGED dest
  BY DEF User, UserRetouch
<1>3. \/ dest' = Whole(edits + 1)
      \/ dest' = Empty
      \/ dest' = dest /\ dest # Empty
  BY <1>2 DEF UserWrite, UserDelete, UserRetouch, UserChange
<1>4. /\ kept' \subseteq kept \cup {edits + 1} \cup {dest.by}
      /\ lock # None => kept' \subseteq kept \cup {edits + 1}
      /\ dest' # dest => dest.by \notin kept' \/ dest.by = None
      /\ dest' = dest => dest.by \in late'
  <2>1. CASE UserWrite
    BY <2>1, FreshEdit DEF UserWrite, UserChange, Whole, Unseen, Empty
  <2>2. CASE UserDelete
    BY <2>2 DEF UserDelete, UserChange, Empty
  <2>3. CASE UserRetouch
    BY <2>3 DEF UserRetouch
  <2> QED
    BY <1>2, <2>1, <2>2, <2>3
<1>5. \A w \in Writers : w # edits + 1 /\ Unseen(w) => Unseen(w)'
  BY <1>1, <1>3, <1>4, ConstantsAssumption
  DEF Unseen, Whole, Empty, Writers
<1>6. Drawn'
  <2>1. \A t \in Tx \ used' : Unseen(t)'
    BY <1>1, <1>5, FreshEdit DEF Safe, Steady, Drawn, Writers
  <2>2. \A n \in UserRev : n > edits' => Unseen(n)'
    BY <1>1, <1>5, ConstantsAssumption
    DEF Safe, Steady, Drawn, Writers, UserRev
  <2>3. ASSUME NEW q \in Procs PROVE Planned(q)'
    <3>1. Planned(q)
      BY DEF Safe, Steady, Drawn
    <3>2. pc[q] \in {"previewed", "fresh", "prepare"} => plan[q].tx \in Tx
      BY DEF Safe, Known, IInv, PcFacts
    <3> QED
      BY <1>1, <1>5, <3>1, <3>2, FreshEdit DEF Planned, Writers
  <2> QED
    BY <2>1, <2>2, <2>3 DEF Drawn
<1>7. Apart'
  BY <1>1, <1>3, FreshEdit, NoBy
  DEF Safe, Steady, Apart, Unseen, Whole, Empty, Known, IInv, TypeOK
<1>8. \A t \in Tx : Unmoved(t) => Unmoved(t)'
  BY <1>1, <1>3, <1>4, FreshEdit, ConstantsAssumption
  DEF Unmoved, Whole, Empty
<1>9. Journaling'
  <2>1. preparation \in Tx \cup {None} /\ Journaling
        /\ (journal # None => preparation \in Tx)
    BY ConstantsAssumption
    DEF Safe, Steady, Known, IInv, TypeOK, Discoverable, Journals
  <2>2. ASSUME NEW t \in Tx, Pending(t) PROVE Pending(t)'
    BY <1>1, <1>3, <1>4, <2>2, FreshEdit, ConstantsAssumption
    DEF Pending, Whole, Empty
  <2>3. ASSUME NEW t \in Tx, Done(t), preparation = t PROVE Done(t)'
    <3>1. backup[t].by = dest.by => backup[t] = Empty
      BY NoBy DEF Safe, Steady, Apart, Known, IInv, TypeOK, Empty
    <3>2. backup[t].by # edits + 1
      BY <1>1, FreshEdit DEF Unseen
    <3> QED
      BY <1>1, <1>4, <2>3, <3>1, <3>2 DEF Done
  <2> QED
    BY <1>1, <1>8, <2>1, <2>2, <2>3 DEF Journaling
<1>10. ASSUME NEW q \in Procs PROVE Intact(q)' /\ Reversing(q)'
  <2>1. Intact(q) /\ Reversing(q)
    BY DEF Safe, Walking
  <2>2. pc[q] \in Holding => lock # None
    BY ConstantsAssumption DEF Safe, Known, IInv, Mutex
  <2>3. \A t \in Tx : pc[q] \in Holding /\ t \notin kept => t \notin kept'
    BY <1>1, <1>4, <2>2, FreshEdit
  <2>4. pc[q] \in Forward => plan[q].tx \in Tx
    BY DEF Safe, Known, IInv, PcFacts
  <2>5. Intact(q)'
    BY <1>1, <1>8, <2>1, <2>3, <2>4 DEF Intact, Holding, Forward
  <2>6. pc[q] \in Journaled \cup Closing => preparation \in Tx
    BY ConstantsAssumption
    DEF Safe, Known, IInv, PcFacts, Discoverable, TypeOK, Journals
  <2>7. dest'.by # preparation \/ dest'.by = dest.by \/ dest'.by = None
    BY <1>1, <1>3, FreshEdit, ConstantsAssumption
    DEF Whole, Empty, Safe, Known, IInv, TypeOK
  <2>8. dest' \in {Empty, dest} \/ dest'.by \in UserRev
    BY <1>1, <1>3, FreshEdit DEF Whole
  <2>9. Reversing(q)'
    BY <1>1, <2>1, <2>3, <2>6, <2>7, <2>8, ConstantsAssumption
    DEF Reversing, Holding, Recovering, Closing, Journaled
  <2> QED
    BY <2>5, <2>9
<1>11. KeptSurvives'
  <2>1. KeptSurvives /\ UNCHANGED <<staged, backup>>
    BY <1>1 DEF Safe, Steady
  <2>2. CASE UserWrite
    BY <2>1, <2>2
    DEF UserWrite, UserChange, KeptSurvives, Places, Whole, Empty
  <2>3. CASE UserDelete
    BY <2>1, <2>3 DEF UserDelete, UserChange, KeptSurvives, Places, Whole, Empty
  <2>4. CASE UserRetouch
    <3>1. dest' = dest /\ kept' \subseteq kept \cup {dest.by} /\ dest # Empty
      BY <2>4 DEF UserRetouch
    <3>2. dest = Whole(dest.by)
      BY <3>1, WholeDest
    <3> QED
      BY <2>1, <3>1, <3>2 DEF KeptSurvives, Places
  <2> QED
    BY <1>2, <2>2, <2>3, <2>4
<1> QED
  BY <1>6, <1>7, <1>9, <1>10, <1>11 DEF Steady, Walking

\* A step that touches neither the places nor the records is none of
\* AtomicResource.
LEMMA Unnoticed ==
    ASSUME UNCHANGED <<dest, staged, backup, journal, receipt, committed, edits>>
    PROVE  Alike
  BY DEF Alike, Logical, Uncommitted

LEMMA BeginAlike == ASSUME NEW p \in Procs, Begin(p) PROVE Alike
<1>1. UNCHANGED <<dest, staged, backup, journal, receipt, committed, edits>>
  BY DEF Begin, PreviewRecords, PreviewContent, GiveUp, LockForApply,
     LockForRecovery, files, records, history
<1> QED
  BY <1>1, Unnoticed

LEMMA QuietAlike ==
    ASSUME NEW p \in Procs,
           \/ Prepare(p) \/ VerifyBefore(p) \/ Publish(p) \/ Confirm(p)
           \/ Acknowledge(p) \/ ReportFailure(p) \/ Recover(p) \/ Rollback(p)
           \/ ConfirmRestored(p) \/ Resume(p) \/ Fresh(p) \/ Unlock(p)
           \/ Fail(p) \/ Crash(p)
    PROVE  Alike
<1>1. UNCHANGED <<dest, staged, backup, journal, receipt, committed, edits>>
  BY DEF Prepare, VerifyBefore, Publish, Confirm, Acknowledge, ReportFailure,
     Recover, Rollback, ConfirmRestored, Resume, Fresh, Unlock, Fail, Crash,
     files, records, history
<1> QED
  BY <1>1, Unnoticed

LEMMA UserAlike == ASSUME Safe, IInv', User PROVE Atomic!AUserEdit
<1>1. Logical'.by \in Atomic!Authors
  <2>1. /\ dest' \in Content
        /\ journal' # None => journal'.tx \in Tx
        /\ \A t \in Tx : staged'[t] \in Content /\ backup'[t] \in Content
    BY DEF IInv, TypeOK, Journals
  <2>2. Logical' \in Content
    BY <2>1, ContentTypes DEF Logical, Uncommitted
  <2>3. \A c \in Content : c.by \in Writers \cup {None}
    BY DEF Content, Empty
  <2> QED
    BY <2>2, <2>3 DEF Atomic!Authors, Writers, UserRev
<1>2. /\ edits < MaxEdits /\ edits' = edits + 1
      /\ UNCHANGED <<receipt, committed>>
  BY DEF User, UserWrite, UserDelete, UserRetouch, UserChange, records
<1> QED
  BY <1>1, <1>2 DEF Atomic!AUserEdit

LEMMA NextSafe == Safe /\ [Next]_vars => Safe'
<1> SUFFICES ASSUME Safe, [Next]_vars PROVE Safe'
  OBVIOUS
<1>1. Known'
  BY NextIInv, NextReports, NextWholes DEF Safe, Known
<1>2. ASSUME NEW p \in Procs, Begin(p) PROVE Steady' /\ Walking'
  BY <1>2, PreviewRecordsSafe, PreviewContentSafe, GiveUpSafe,
     LockForApplySafe, LockForRecoverySafe DEF Begin
<1>3. ASSUME NEW p \in Procs, PrepareStep(p) PROVE Steady' /\ Walking'
  BY <1>3, PrepareSafe, MakeDirectorySafe, MakeStagingSafe, MakeBackupSafe,
     WriteNodeSafe, VerifyBeforeSafe, WriteJournalSafe, DiscardStagedSafe,
     UnstageSafe, UnprepareSafe DEF PrepareStep
<1>4. ASSUME NEW p \in Procs, PublishStep(p) PROVE Steady' /\ Walking'
  BY <1>4, PublishSafe, MoveToBackupSafe, MoveIntoPlaceSafe, ConfirmSafe,
     CommitSafe, AcknowledgeSafe DEF PublishStep
<1>5. ASSUME NEW p \in Procs, CleanupStep(p) PROVE Steady' /\ Walking'
  BY <1>5, CleanupSafe, RemoveDirectoriesSafe, DeleteJournalSafe,
     DeletePreparationSafe DEF CleanupStep
<1>6. ASSUME NEW p \in Procs, RecoverStep(p) PROVE Steady' /\ Walking'
  BY <1>6, ReportFailureSafe, RecoverSafe, AbandonSafe, RollbackSafe,
     MoveToStagingSafe, MoveBackSafe, ConfirmRestoredSafe, ResumeSafe
     DEF RecoverStep
<1>7. ASSUME NEW p \in Procs, Fail(p) \/ Crash(p) PROVE Steady' /\ Walking'
  BY <1>7, FailSafe, CrashSafe
<1>8. ASSUME UNCHANGED vars PROVE Steady' /\ Walking'
  <2>1. Steady'
    BY <1>8, Still DEF vars, local, Safe
  <2>2. Walking'
    BY <1>8 DEF vars, files, records, local, history, Safe, Walking, Intact,
       Reversing, Unmoved, At
  <2> QED
    BY <2>1, <2>2
<1>9. Steady' /\ Walking'
  BY <1>2, <1>3, <1>4, <1>5, <1>6, <1>7, <1>8, FreshSafe, UnlockSafe,
     UserSafe DEF Next, Work
<1> QED
  BY <1>1, <1>9 DEF Safe

LEMMA InitSafe == Init => Safe
<1> SUFFICES ASSUME Init PROVE Safe
  OBVIOUS
<1> USE DEF Init
<1>1. Known
  BY InitIInv, InitReports, InitWholes DEF Known
<1>2. 0 \in UserRev /\ None \notin Writers /\ 0 \notin Tx
  BY ConstantsAssumption DEF UserRev, Writers
<1>3. Drawn
  <2>1. \A w \in Writers : w # 0 => Unseen(w)
    BY <1>2 DEF Unseen, NoPlan, Plan, Empty, Whole
  <2>2. \A p \in Procs : Planned(p)
    BY DEF Planned, NoPlan, Plan
  <2> QED
    BY <1>2, <2>1, <2>2 DEF Drawn, Writers
<1>4. Apart
  BY <1>2 DEF Apart, Empty, Whole, Writers
<1>5. Journaling
  BY DEF Journaling
<1>6. Walking
  BY DEF Walking, Intact, Reversing, At
<1>7. KeptSurvives
  BY <1>2 DEF KeptSurvives, Places, Whole, Empty
<1> QED
  BY <1>1, <1>3, <1>4, <1>5, <1>6, <1>7 DEF Safe, Steady

\* Whatever fails, dies or competes, each revision the user wrote and each
\* committed one is complete somewhere, until the user replaces it or a
\* transaction that planned to commits: no rename of publish_with() or
\* rollback(), and no destroy() of cleanup(), discard() or abandon(), takes
\* the last copy.
THEOREM KeptAlwaysSurvives == Spec => []KeptSurvives
<1>1. Safe => KeptSurvives
  BY DEF Safe, Steady
<1> QED
  BY <1>1, InitSafe, NextSafe, PTL DEF Spec

LEMMA NextAtomic == Safe /\ Safe' /\ [Next]_vars => AtomicNext
<1> SUFFICES ASSUME Safe, Safe', [Next]_vars PROVE AtomicNext
  OBVIOUS
<1>1. Alike => AtomicNext
  BY DEF Alike, AtomicNext, Atomic!avars
<1>2. ASSUME NEW p \in Procs, PrepareStep(p) PROVE Alike
  BY <1>2, MakeDirectorySafe, MakeStagingSafe, MakeBackupSafe,
     WriteNodeSafe, QuietAlike, WriteJournalSafe, DiscardStagedSafe,
     UnstageSafe, UnprepareSafe DEF PrepareStep
<1>3. ASSUME NEW p \in Procs, PublishStep(p)
      PROVE  Alike \/ \E t \in Tx : Atomic!ACommit(t)
  BY <1>3, QuietAlike, MoveToBackupSafe, MoveIntoPlaceSafe, CommitSafe
     DEF PublishStep
<1>4. ASSUME NEW p \in Procs, CleanupStep(p) PROVE Alike
  BY <1>4, CleanupSafe, RemoveDirectoriesSafe, DeleteJournalSafe,
     DeletePreparationSafe DEF CleanupStep
<1>5. ASSUME NEW p \in Procs, RecoverStep(p) PROVE Alike
  BY <1>5, QuietAlike, AbandonSafe, MoveToStagingSafe, MoveBackSafe
     DEF RecoverStep
<1>6. ASSUME NEW p \in Procs, Begin(p) \/ Work(p) \/ Fail(p) \/ Crash(p)
      PROVE  Alike \/ \E t \in Tx : Atomic!ACommit(t)
  BY <1>2, <1>3, <1>4, <1>5, <1>6, BeginAlike, QuietAlike DEF Work
<1>7. CASE User
  BY <1>7, UserAlike DEF Safe, Known, AtomicNext, Atomic!ANext
<1>8. CASE UNCHANGED vars
  BY <1>1, <1>8, Unnoticed DEF vars, files, records, history
<1>9. (\E t \in Tx : Atomic!ACommit(t)) => AtomicNext
  BY DEF AtomicNext, Atomic!ANext
<1> QED
  BY <1>1, <1>6, <1>7, <1>8, <1>9 DEF Next

\* The journaled transaction implements AtomicResource: the content that a
\* recovery would leave and the receipt change in one step, that of the
\* receipt write, and in no other step of a transaction, a recovery, a failure
\* or a crash.
THEOREM TransactionIsAtomic == Spec => ImplementsAtomic
<1>1. Init => Atomic!AInit
  BY DEF Init, Atomic!AInit, Logical, Uncommitted, Empty, Whole
<1>2. Safe /\ Safe' /\ [Next]_vars => [Atomic!ANext]_(Atomic!avars)
  BY NextAtomic DEF AtomicNext
<1> QED
  BY <1>1, <1>2, InitSafe, NextSafe, PTL DEF Spec, ImplementsAtomic, Atomic!ASpec

----------------------------------------------------------------------------
(* Recovery without user edits.                                            *)

\* The destination, the staged and the replaced revision of a transaction
\* between its journal and its receipt: not yet moved, half way, published.
Waiting(t) == dest = journal.before /\ backup[t] = Empty

Halfway(t) ==
    /\ dest = Empty
    /\ backup[t] = journal.before /\ journal.before # Empty
    /\ staged[t] \in {Empty, journal.staged}

Moved(t) ==
    /\ dest = journal.staged /\ journal.staged = Whole(t)
    /\ staged[t] = Empty
    /\ backup[t] = journal.before

\* The records and the three places tell how far a journaled transaction got.
Traced ==
    LET t == preparation
    IN  journal # None =>
          /\ receipt \in {journal.tx, journal.previous}
          /\ late = {}
          /\ staged[t] # Empty
               => journal.staged = Whole(t) /\ staged[t].by = t
          /\ backup[t] # Empty => backup[t].by = journal.before.by
          /\ t \notin committed => Waiting(t) \/ Halfway(t) \/ Moved(t)

\* What prepare() checked before the journal still holds.
Early == {"mkdir", "mkstaging", "mkbackup", "stage", "verify", "journal"}

Checked(p) ==
    /\ pc[p] \in Early => receipt = plan[p].previous
    /\ At(p, "journal") => dest = plan[p].before

Clean == Traced /\ (\A p \in Procs : Checked(p)) /\ NeverRefused

LEMMA TracedStill ==
    ASSUME Traced, UNCHANGED <<dest, staged, backup, records, committed>>,
           late' \in {late, {}}
    PROVE  Traced'
  BY DEF Traced, Waiting, Halfway, Moved, records

\* The step of one process; what the others checked needs the lock.
LEMMA OneStep ==
    ASSUME Safe, Clean, NEW p \in Procs,
           pc[p] \in Holding \/ UNCHANGED <<dest, receipt>>,
           \A q \in Procs : q # p => pc'[q] = pc[q] /\ plan'[q] = plan[q],
           Traced', Checked(p)', pc'[p] # "refused"
    PROVE  Clean'
<1>1. ASSUME NEW q \in Procs, q # p PROVE Checked(q)' /\ pc'[q] # "refused"
  <2>1. CASE UNCHANGED <<dest, receipt>>
    BY <1>1, <2>1 DEF Clean, Checked, NeverRefused, At
  <2>2. CASE pc[p] \in Holding
    <3>1. pc'[q] \notin Holding
      BY <1>1, <2>2, Alone DEF Safe, Known
    <3> QED
      BY <3>1 DEF Checked, Early, At, Holding, Forward
  <2> QED
    BY <2>1, <2>2
<1> QED
  BY <1>1 DEF Clean, NeverRefused

\* Steps that leave the places and the records, away from prepare().
LEMMA QuietClean ==
    ASSUME Safe, Clean, NEW p \in Procs,
           \/ Begin(p) \/ Fresh(p) \/ Publish(p) \/ Confirm(p)
           \/ Acknowledge(p) \/ ReportFailure(p) \/ ConfirmRestored(p)
           \/ Resume(p) \/ Unlock(p) \/ Fail(p) \/ Crash(p)
    PROVE  Clean'
<1> USE DEF Begin, PreviewRecords, PreviewContent, GiveUp, LockForApply,
            LockForRecovery, Fresh, Publish, Confirm, Acknowledge,
            ReportFailure, ConfirmRestored, Resume, Unlock, Forgotten,
            Fail, OnError, Trouble, Crash, At, Goto
<1>1. pc \in [Procs -> Steps] /\ plan \in [Procs -> Plans]
  BY DEF Safe, Known, IInv, TypeOK
<1>2. UNCHANGED <<dest, staged, backup, late, records, committed>>
  BY DEF files, records, history
<1>3. pc'[p] \notin Early \cup {"refused"}
  BY <1>1 DEF Early, Recovering, Closing
<1>4. \A q \in Procs : q # p => pc'[q] = pc[q] /\ plan'[q] = plan[q]
  BY <1>1 DEF local
<1>5. Traced' /\ Checked(p)'
  BY <1>2, <1>3, TracedStill DEF Clean, Checked, Early
<1> QED
  BY <1>2, <1>3, <1>4, <1>5, OneStep DEF records

----------------------------------------------------------------------------
(* The decisions of recover_locked(), abandon() and rollback().            *)

LEMMA RecoverClean ==
    ASSUME Safe, Clean, NEW p \in Procs, Recover(p) PROVE Clean'
<1> USE DEF Recover, At, Goto, files, records, local, history
<1>1. pc[p] \in Holding
  BY DEF Holding, Recovering
<1>2. Traced'
  BY TracedStill DEF Clean
<1>3. journal # None => /\ journal.tx = preparation
                        /\ receipt \in {journal.tx, journal.previous}
  BY DEF Safe, Known, IInv, Discoverable, Clean, Traced
<1>4. pc'[p] \notin Early \cup {"refused"}
  BY <1>3 DEF Safe, Known, IInv, TypeOK, Early
<1>5. Checked(p)' /\ \A q \in Procs : q # p => pc'[q] = pc[q]
  BY <1>4 DEF Safe, Known, IInv, TypeOK, Checked
<1> QED
  BY <1>1, <1>2, <1>4, <1>5, OneStep

\* Nothing has left the staging area of a preparation without a journal.
LEMMA AbandonClean ==
    ASSUME Safe, Clean, NEW p \in Procs, Abandon(p) PROVE Clean'
<1> USE DEF Abandon, At, Goto, records, local, history
<1>1. pc[p] \in Holding
  BY DEF Holding, Recovering
<1>2. journal = None /\ preparation \in Tx
  BY DEF Safe, Known, IInv, PcFacts, Unjournaled
<1>3. backup[preparation] = Empty
  <2>1. parts[preparation] = {} => backup[preparation] = Empty
    BY <1>2 DEF Safe, Known, IInv, Discoverable
  <2> QED
    BY <1>2, <2>1, ConstantsAssumption DEF Safe, Steady, Journaling, Unmoved
<1>4. Traced'
  BY <1>2 DEF Traced
<1>5. pc'[p] \in {"abandon", "rmdirs"}
  BY <1>3 DEF Safe, Known, IInv, TypeOK
<1>6. Checked(p)' /\ \A q \in Procs : q # p => pc'[q] = pc[q]
  BY <1>5 DEF Safe, Known, IInv, TypeOK, Checked, Early
<1> QED
  BY <1>1, <1>4, <1>5, <1>6, OneStep

\* The three places say how far the transaction got, and nothing was modified
\* since its journal.
LEMMA RollbackClean ==
    ASSUME Safe, Clean, NEW p \in Procs, Rollback(p) PROVE Clean'
<1> USE DEF Rollback, At, Goto, files, records, local, history
<1> DEFINE t == preparation
<1>1. pc[p] \in Holding
  BY DEF Holding, Recovering
<1>2. journal # None /\ t \notin committed
  BY DEF Safe, Known, IInv, PcFacts, Journaled, Walking, Reversing
<1>3. Traced'
  BY TracedStill DEF Clean
<1>4. ~Suspect(t)
  BY <1>2 DEF Clean, Traced, Suspect
<1>5. /\ journal.before = journal.staged
           => staged[t] = Empty /\ backup[t] = Empty
      /\ journal.before.by # t
  BY <1>2 DEF Safe, Steady, Journaling, Pending
<1>6. Settled(t) \/ Published(t) \/ SetAside(t)
  <2>1. CASE Waiting(t)
    BY <2>1 DEF Waiting, Settled
  <2>2. CASE Halfway(t)
    BY <1>5, <2>2 DEF Halfway, SetAside, Accounted
  <2>3. CASE Moved(t)
    <3>1. journal.staged.by = t /\ t # None
      BY <1>2, <2>3, ConstantsAssumption DEF Moved, Whole, Safe, Known, IInv,
         TypeOK, Discoverable, Journals
    <3> QED
      BY <1>5, <2>3, <3>1 DEF Moved, Published, Accounted, Empty
  <2> QED
    BY <1>2, <2>1, <2>2, <2>3 DEF Clean, Traced
<1>7. pc'[p] \in {"cleanup", "undo", "restore"}
  BY <1>4, <1>6 DEF Safe, Known, IInv, TypeOK
<1>8. Checked(p)' /\ \A q \in Procs : q # p => pc'[q] = pc[q]
  BY <1>7 DEF Safe, Known, IInv, TypeOK, Checked, Early
<1> QED
  BY <1>1, <1>3, <1>7, <1>8, OneStep

----------------------------------------------------------------------------
(* prepare().                                                              *)

LEMMA PrepareClean ==
    ASSUME Safe, Clean, NEW p \in Procs, Prepare(p) PROVE Clean'
<1> USE DEF Prepare, At, Goto, files, history
<1>1. pc[p] \in Holding
  BY DEF Holding
<1>2. Traced'
  <2>1. CASE PlanHolds(p)
    <3>1. journal = None
      <4>1. preparation = None /\ journal \in Journals \cup {None}
        BY <2>1 DEF PlanHolds, Safe, Known, IInv, TypeOK
      <4>2. journal # None => journal.tx \in Tx
        BY <4>1 DEF Journals
      <4> QED
        BY <4>1, <4>2, ConstantsAssumption DEF Safe, Known, IInv, Discoverable
    <3> QED
      BY <3>1 DEF Traced
  <2>2. CASE ~PlanHolds(p)
    BY <2>2, TracedStill DEF Clean, records
  <2> QED
    BY <2>1, <2>2
<1>3. pc'[p] \in {"mkdir", "fail"} /\ Checked(p)'
  BY DEF PlanHolds, Safe, Known, IInv, TypeOK, Checked, Early
<1>4. \A q \in Procs : q # p => pc'[q] = pc[q]
  BY DEF Safe, Known, IInv, TypeOK
<1> QED
  BY <1>1, <1>2, <1>3, <1>4, OneStep

\* The steps from the directory to the last look before the journal.
LEMMA StagingClean ==
    ASSUME Safe, Clean, NEW p \in Procs,
           \/ MakeDirectory(p) \/ MakeStaging(p) \/ MakeBackup(p)
           \/ WriteNode(p) \/ VerifyBefore(p)
    PROVE  Clean'
<1> USE DEF MakeDirectory, MakeStaging, MakeBackup, MakePart, WriteNode,
            VerifyBefore, At, Goto, files, records, local, history
<1>1. pc[p] \in Holding /\ pc[p] \in Unjournaled
  BY DEF Holding, Forward, Unjournaled
<1>2. Traced'
  BY <1>1 DEF Safe, Known, IInv, PcFacts, Traced
<1>3. pc \in [Procs -> Steps]
  BY DEF Safe, Known, IInv, TypeOK
<1>4. Checked(p)' /\ pc'[p] # "refused"
  BY <1>3 DEF Clean, Checked, Early
<1>5. \A q \in Procs : q # p => pc'[q] = pc[q]
  BY <1>3
<1> QED
  BY <1>1, <1>2, <1>4, <1>5, OneStep

\* The journal starts where the records were checked.
LEMMA WriteJournalClean ==
    ASSUME Safe, Clean, NEW p \in Procs, WriteJournal(p) PROVE Clean'
<1> USE DEF WriteJournal, At, Goto, local, history
<1> DEFINE t == plan[p].tx
<1>1. pc[p] \in Holding
  BY DEF Holding, Forward
<1>2. preparation = t /\ t \in Tx /\ plan[p] \in Plans
  BY DEF Safe, Known, IInv, PcFacts, Forward, TypeOK
<1>3. receipt = plan[p].previous /\ dest = plan[p].before
  BY DEF Clean, Checked, Early
<1>4. Unmoved(t) /\ (plan[p].goal # "write" => staged[t] = Empty)
  BY DEF Safe, Walking, Intact
<1>5. /\ journal'.before = plan[p].before
      /\ journal'.previous = plan[p].previous
      /\ plan[p].goal = "write" => journal'.staged = Whole(t)
  BY DEF JournalOf, After
<1>6. Traced'
  BY <1>2, <1>3, <1>4, <1>5 DEF Traced, Waiting, Unmoved
<1>7. pc'[p] = "publish" /\ \A q \in Procs : q # p => pc'[q] = pc[q]
  BY DEF Safe, Known, IInv, TypeOK
<1>8. Checked(p)'
  BY <1>7 DEF Checked, Early
<1> QED
  BY <1>1, <1>6, <1>7, <1>8, OneStep

\* discard() destroys what is staged; nothing has left the staging area.
LEMMA DiscardStagedClean ==
    ASSUME Safe, Clean, NEW p \in Procs, DiscardStaged(p) PROVE Clean'
<1> USE DEF DiscardStaged, At, Goto, records, local, history
<1> DEFINE t == plan[p].tx
<1>1. pc[p] \in Holding
  BY DEF Holding, Forward
<1>2. preparation = t /\ t \in Tx /\ staged[t] \in Content
  BY DEF Safe, Known, IInv, PcFacts, Forward, TypeOK
<1>3. Unmoved(t)
  BY DEF Safe, Walking, Intact
<1>4. staged'[t] # Empty => staged[t] # Empty /\ staged'[t].by = staged[t].by
  BY <1>2, ShrunkBy, NoBy DEF Safe, Known, IInv, TypeOK
<1>5. Traced'
  <2>1. Moved(t) => dest.by = t
    BY DEF Moved, Whole
  <2> QED
    BY <1>2, <1>3, <1>4, <2>1 DEF Clean, Traced, Waiting, Halfway, Unmoved
<1>6. pc'[p] \in {"discard", "unstage"}
  BY DEF Safe, Known, IInv, TypeOK
<1>7. Checked(p)' /\ \A q \in Procs : q # p => pc'[q] = pc[q]
  BY <1>6 DEF Safe, Known, IInv, TypeOK, Checked, Early
<1> QED
  BY <1>1, <1>5, <1>6, <1>7, OneStep

LEMMA UnstageClean ==
    ASSUME Safe, Clean, NEW p \in Procs, Unstage(p) \/ RemoveDirectories(p)
    PROVE  Clean'
<1> USE DEF Unstage, RemoveDirectories, RemovePart, At, Goto, records, local,
            history
<1>1. pc[p] \in Holding
  BY DEF Holding, Forward, Closing
<1>2. Traced'
  BY TracedStill DEF Clean
<1>3. pc'[p] \notin Early \cup {"refused"}
  BY DEF Safe, Known, IInv, TypeOK, Early
<1>4. Checked(p)' /\ \A q \in Procs : q # p => pc'[q] = pc[q]
  BY <1>3 DEF Safe, Known, IInv, TypeOK, Checked
<1> QED
  BY <1>1, <1>2, <1>3, <1>4, OneStep

\* The records are withdrawn only without a journal.
LEMMA WithdrawClean ==
    ASSUME Safe, Clean, NEW p \in Procs,
           Unprepare(p) \/ DeleteJournal(p) \/ DeletePreparation(p)
    PROVE  Clean'
<1> USE DEF Unprepare, DeleteJournal, DeletePreparation, At, Goto, files,
            local, history
<1>1. pc[p] \in Holding
  BY DEF Holding, Forward, Closing
<1>2. Traced'
  <2>1. CASE Unprepare(p) /\ journal # None
    BY <2>1, TracedStill DEF Clean, records
  <2>2. CASE journal' = None
    BY <2>2 DEF Traced
  <2>3. At(p, "release") => journal = None
    BY DEF Safe, Known, IInv, PcFacts, Unjournaled
  <2> QED
    BY <2>1, <2>2, <2>3
<1>3. pc'[p] \in {"fail", "release", "finish", "resume"}
  BY DEF Safe, Known, IInv, TypeOK
<1>4. Checked(p)' /\ \A q \in Procs : q # p => pc'[q] = pc[q]
  BY <1>3 DEF Safe, Known, IInv, TypeOK, Checked, Early
<1> QED
  BY <1>1, <1>2, <1>3, <1>4, OneStep

----------------------------------------------------------------------------
(* The moves of publish_with() and rollback(), and the commit.             *)

LEMMA MoveToBackupClean ==
    ASSUME Safe, Clean, NEW p \in Procs, MoveToBackup(p) PROVE Clean'
<1> USE DEF MoveToBackup, At, Goto, records, local, history
<1> DEFINE t == plan[p].tx
<1>1. pc[p] \in Holding
  BY DEF Holding, Forward
<1>2. preparation = t /\ t \in Tx /\ backup \in [Tx -> Content]
  BY DEF Safe, Known, IInv, PcFacts, Forward, TypeOK
<1>3. /\ Unmoved(t) /\ journal = JournalOf(plan[p])
      /\ staged[t] = After(plan[p])
  BY DEF Safe, Walking, Intact
<1>4. Traced'
  <2>1. journal.before = plan[p].before /\ journal.staged = After(plan[p])
    BY <1>3 DEF JournalOf
  <2>2. Moved(t) => dest.by = t
    BY DEF Moved, Whole
  <2>3. journal # None
    BY DEF Safe, Known, IInv, PcFacts, Journaled
  <2>4. dest # Empty => Waiting(t)
    BY <1>2, <1>3, <2>2, <2>3 DEF Clean, Traced, Halfway, Unmoved
  <2>5. CASE UNCHANGED <<dest, backup>>
    BY <2>5, TracedStill DEF Clean
  <2>6. CASE dest # Empty /\ backup' = [backup EXCEPT ![t] = dest] /\ dest' = Empty
    <3>1. Halfway(t)'
      BY <1>2, <1>3, <2>1, <2>4, <2>6 DEF Halfway, Waiting
    <3> QED
      BY <1>2, <2>6, <3>1 DEF Clean, Traced, Halfway
  <2> QED
    BY <2>5, <2>6
<1>5. pc'[p] \in {"fail", "place", "confirm"}
  BY DEF Safe, Known, IInv, TypeOK
<1>6. Checked(p)' /\ \A q \in Procs : q # p => pc'[q] = pc[q]
  BY <1>5 DEF Safe, Known, IInv, TypeOK, Checked, Early
<1> QED
  BY <1>1, <1>4, <1>5, <1>6, OneStep

LEMMA MoveIntoPlaceClean ==
    ASSUME Safe, Clean, NEW p \in Procs, MoveIntoPlace(p) PROVE Clean'
<1> USE DEF MoveIntoPlace, At, Goto, records, local, history
<1> DEFINE t == plan[p].tx
<1>1. pc[p] \in Holding
  BY DEF Holding, Forward
<1>2. preparation = t /\ t \in Tx /\ staged \in [Tx -> Content]
  BY DEF Safe, Known, IInv, PcFacts, Forward, TypeOK
<1>3. /\ journal.staged = Whole(t) /\ staged[t] = Whole(t)
      /\ t \notin committed
  BY DEF Safe, Walking, Intact
<1>4. journal # None
  BY DEF Safe, Known, IInv, PcFacts, Journaled
<1>5. Traced'
  <2>1. CASE UNCHANGED <<dest, staged>>
    BY <2>1, TracedStill DEF Clean
  <2>2. CASE /\ dest = Empty /\ dest' = staged[t]
             /\ staged' = [staged EXCEPT ![t] = Empty]
    <3>1. backup[t] = journal.before
      BY <1>2, <1>3, <1>4, <2>2 DEF Clean, Traced, Waiting, Halfway, Moved
    <3>2. Moved(t)'
      BY <1>2, <1>3, <2>2, <3>1 DEF Moved
    <3> QED
      BY <1>2, <2>2, <3>2 DEF Clean, Traced, Moved
  <2> QED
    BY <2>1, <2>2
<1>6. pc'[p] \in {"confirm", "fail"}
  BY DEF Safe, Known, IInv, TypeOK
<1>7. Checked(p)' /\ \A q \in Procs : q # p => pc'[q] = pc[q]
  BY <1>6 DEF Safe, Known, IInv, TypeOK, Checked, Early
<1> QED
  BY <1>1, <1>5, <1>6, <1>7, OneStep

LEMMA CommitClean ==
    ASSUME Safe, Clean, NEW p \in Procs, Commit(p) PROVE Clean'
<1> USE DEF Commit, At, Goto, files, local
<1>1. pc[p] \in Holding
  BY DEF Holding, Forward
<1>2. preparation = plan[p].tx
  BY DEF Safe, Known, IInv, PcFacts, Forward
<1>3. journal.tx = plan[p].tx
  BY DEF Safe, Walking, Intact, JournalOf
<1>4. Traced'
  BY <1>2, <1>3 DEF Clean, Traced
<1>5. pc'[p] = "acknowledge" /\ \A q \in Procs : q # p => pc'[q] = pc[q]
  BY DEF Safe, Known, IInv, TypeOK
<1>6. Checked(p)'
  BY <1>5 DEF Checked, Early
<1> QED
  BY <1>1, <1>4, <1>5, <1>6, OneStep

LEMMA MoveToStagingClean ==
    ASSUME Safe, Clean, NEW p \in Procs, MoveToStaging(p) PROVE Clean'
<1> USE DEF MoveToStaging, At, Goto, records, local, history
<1> DEFINE t == preparation
<1>1. pc[p] \in Holding
  BY DEF Holding, Recovering
<1>2. journal # None /\ t \in Tx /\ staged \in [Tx -> Content]
  BY ConstantsAssumption DEF Safe, Known, IInv, PcFacts, Journaled, TypeOK,
     Discoverable, Journals
<1>3. /\ t \notin committed
      /\ staged[t] = Empty /\ backup[t] = journal.before
      /\ journal.staged = Whole(t)
  BY DEF Safe, Walking, Reversing
<1>4. Traced'
  <2>1. CASE UNCHANGED <<dest, staged>>
    BY <2>1, TracedStill DEF Clean
  <2>2. CASE /\ dest # Empty /\ dest' = Empty
             /\ staged' = [staged EXCEPT ![t] = dest]
    <3>1. dest = Whole(t)
      BY <1>2, <1>3, <2>2 DEF Clean, Traced, Waiting, Halfway, Moved
    <3>2. staged'[t] = Whole(t) /\ Whole(t).by = t
      BY <1>2, <2>2, <3>1 DEF Whole
    <3>3. Waiting(t)' \/ Halfway(t)'
      BY <1>3, <2>2, <3>2 DEF Waiting, Halfway
    <3> QED
      BY <1>2, <1>3, <2>2, <3>2, <3>3 DEF Clean, Traced
  <2> QED
    BY <2>1, <2>2
<1>5. pc'[p] \in {"finish", "cleanup", "restore"}
  BY DEF Safe, Known, IInv, TypeOK
<1>6. Checked(p)' /\ \A q \in Procs : q # p => pc'[q] = pc[q]
  BY <1>5 DEF Safe, Known, IInv, TypeOK, Checked, Early
<1> QED
  BY <1>1, <1>4, <1>5, <1>6, OneStep

LEMMA MoveBackClean ==
    ASSUME Safe, Clean, NEW p \in Procs, MoveBack(p) PROVE Clean'
<1> USE DEF MoveBack, At, Goto, records, local, history
<1> DEFINE t == preparation
<1>1. pc[p] \in Holding
  BY DEF Holding, Recovering
<1>2. journal # None /\ t \in Tx /\ backup \in [Tx -> Content]
  BY ConstantsAssumption DEF Safe, Known, IInv, PcFacts, Journaled, TypeOK,
     Discoverable, Journals
<1>3. backup[t] = journal.before
  BY DEF Safe, Walking, Reversing
<1>4. Traced'
  <2>1. CASE UNCHANGED <<dest, backup>>
    BY <2>1, TracedStill DEF Clean
  <2>2. CASE dest' = backup[t] /\ backup' = [backup EXCEPT ![t] = Empty]
    BY <1>2, <1>3, <2>2 DEF Clean, Traced, Waiting
  <2> QED
    BY <2>1, <2>2
<1>5. pc'[p] \in {"finish", "restored"}
  BY DEF Safe, Known, IInv, TypeOK
<1>6. Checked(p)' /\ \A q \in Procs : q # p => pc'[q] = pc[q]
  BY <1>5 DEF Safe, Known, IInv, TypeOK, Checked, Early
<1> QED
  BY <1>1, <1>4, <1>5, <1>6, OneStep

\* cleanup() finds what it can account for, and destroys it.
LEMMA CleanupClean ==
    ASSUME Safe, Clean, NEW p \in Procs, Cleanup(p) PROVE Clean'
<1> USE DEF Cleanup, At, Goto, records, local, history
<1> DEFINE t == preparation
<1>1. pc[p] \in Holding
  BY DEF Holding, Closing
<1>2. /\ journal # None /\ t \in Tx /\ journal.before \in Content
      /\ staged \in [Tx -> Content] /\ backup \in [Tx -> Content]
  BY ConstantsAssumption DEF Safe, Known, IInv, PcFacts, Journaled, TypeOK,
     Discoverable, Journals
<1>3. t \notin committed => dest.by # t /\ backup[t] = Empty
  BY <1>2 DEF Safe, Walking, Reversing
<1>4. Remnant(staged[t], journal.staged)
  <2>1. staged[t] \in Content
    BY <1>2
  <2>2. CASE staged[t] = Empty
    BY <2>2 DEF Remnant
  <2>3. CASE staged[t] # Empty
    <3>1. journal.staged = Whole(t) /\ staged[t].by = t
      BY <1>2, <2>3 DEF Clean, Traced
    <3>2. staged[t].left <= Nodes
      BY <2>1, <2>3, ConstantsAssumption DEF Content
    <3> QED
      BY <3>1, <3>2 DEF Remnant, Whole
  <2> QED
    BY <2>2, <2>3
<1>5. Remnant(backup[t], journal.before)
  <2>1. CASE backup[t] = Empty
    BY <2>1 DEF Remnant
  <2>2. CASE backup[t] # Empty
    <3>1. backup[t].by = journal.before.by /\ journal.before # Empty
      BY <1>2, <2>2, NoBy DEF Clean, Traced
    <3>2. journal.before.left = Nodes
      BY <1>2, <3>1 DEF Safe, Known, Wholes, Complete, Content
    <3> QED
      BY <1>2, <2>2, <3>1, <3>2 DEF Remnant, Content
  <2> QED
    BY <2>1, <2>2
<1>6. pc'[p] \in {"cleanup", "rmdirs"}
  BY <1>4, <1>5 DEF Safe, Known, IInv, TypeOK
<1>7. Traced'
  <2>1. CASE UNCHANGED <<staged, backup>>
    BY <2>1, TracedStill DEF Clean
  <2>2. CASE /\ staged[t] # Empty /\ UNCHANGED backup
             /\ staged' = [staged EXCEPT ![t] = Shrunk(@)]
    <3>1. staged'[t] # Empty => staged'[t].by = staged[t].by
      BY <1>2, <2>2, ShrunkBy, NoBy
    <3>2. Moved(t) => dest.by = t
      BY DEF Moved, Whole
    <3> QED
      BY <1>2, <1>3, <2>2, <3>1, <3>2
         DEF Clean, Traced, Waiting, Halfway
  <2>3. CASE /\ backup[t] # Empty /\ UNCHANGED staged
             /\ backup' = [backup EXCEPT ![t] = Shrunk(@)]
    <3>1. backup'[t] # Empty => backup'[t].by = backup[t].by
      BY <1>2, <2>3, ShrunkBy, NoBy
    <3> QED
      BY <1>2, <1>3, <2>3, <3>1 DEF Clean, Traced
  <2> QED
    BY <1>4, <1>5, <2>1, <2>2, <2>3
<1>8. Checked(p)' /\ \A q \in Procs : q # p => pc'[q] = pc[q]
  BY <1>6 DEF Safe, Known, IInv, TypeOK, Checked, Early
<1> QED
  BY <1>1, <1>6, <1>7, <1>8, OneStep

LEMMA NextClean ==
    Safe /\ (edits = 0 => Clean) /\ [Next]_vars => (edits = 0 => Clean)'
<1> SUFFICES ASSUME Safe, edits = 0 => Clean, [Next]_vars, edits' = 0
             PROVE  Clean'
  OBVIOUS
<1>1. CASE User
  BY <1>1 DEF User, UserWrite, UserDelete, UserRetouch, UserChange, Safe,
     Known, IInv, TypeOK
<1>2. CASE UNCHANGED vars
  <2>1. Clean
    BY <1>2 DEF vars, history
  <2> QED
    BY <1>2, <2>1 DEF vars, files, records, local, history, Clean, Traced,
       Waiting, Halfway, Moved, Checked, NeverRefused, At
<1>3. ASSUME NEW p \in Procs, Begin(p) \/ Work(p) \/ Fail(p) \/ Crash(p)
      PROVE  Clean'
  <2>1. edits' = edits
    BY <1>3 DEF Begin, Work, PrepareStep, PublishStep, CleanupStep, RecoverStep,
       PreviewRecords, PreviewContent, GiveUp, LockForApply, LockForRecovery,
       Prepare, MakeDirectory, MakeStaging, MakeBackup, MakePart, WriteNode,
       VerifyBefore, WriteJournal, DiscardStaged, Unstage, Unprepare, Publish,
       MoveToBackup, MoveIntoPlace, Confirm, Commit, Acknowledge, Cleanup,
       RemoveDirectories, DeleteJournal, DeletePreparation, ReportFailure,
       Recover, Abandon, Rollback, MoveToStaging, MoveBack, ConfirmRestored,
       Resume, Fresh, Unlock, Fail, Crash, history
  <2>2. Clean
    BY <2>1
  <2>3. CASE PrepareStep(p)
    BY <2>2, <2>3, PrepareClean, StagingClean, WriteJournalClean,
       DiscardStagedClean, UnstageClean, WithdrawClean DEF PrepareStep
  <2>4. CASE PublishStep(p)
    BY <2>2, <2>4, QuietClean, MoveToBackupClean, MoveIntoPlaceClean,
       CommitClean DEF PublishStep
  <2>5. CASE CleanupStep(p)
    BY <2>2, <2>5, CleanupClean, UnstageClean, WithdrawClean DEF CleanupStep
  <2>6. CASE RecoverStep(p)
    BY <2>2, <2>6, QuietClean, RecoverClean, AbandonClean, RollbackClean,
       MoveToStagingClean, MoveBackClean DEF RecoverStep
  <2> QED
    BY <1>3, <2>2, <2>3, <2>4, <2>5, <2>6, QuietClean DEF Work
<1> QED
  BY <1>1, <1>2, <1>3 DEF Next

\* As long as the user leaves the destination alone, recovery refuses nothing:
\* whatever failed or died and at which step, recover_locked() and cleanup()
\* can account for all that the program has left in the three places.
THEOREM NeverRefusesItsOwn == Spec => [](edits = 0 => NeverRefused)
<1>1. Init => Clean
  BY DEF Init, Clean, Traced, Checked, Early, NeverRefused, At
<1>2. Clean => NeverRefused
  BY DEF Clean
<1> QED
  BY <1>1, <1>2, InitSafe, NextSafe, NextClean, PTL DEF Spec
=============================================================================
