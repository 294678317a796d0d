------------------------- MODULE ResourceTransaction -------------------------
(***************************************************************************)
(* One managed resource of an installation, and the processes that change  *)
(* it: the journaled transaction of resource_transaction.rs (prepare,      *)
(* stage, publish, commit, cleanup) and its recovery (abandon, rollback,   *)
(* cleanup), as run by apply, synchronize and recover_installation.        *)
(*                                                                         *)
(* The processes share the destination path, a private transaction         *)
(* directory per transaction id and three records of the state store.      *)
(* They serialise on the resource lock; the owner of the destination (the  *)
(* "user" below) does not and may edit it between any two steps.  A step   *)
(* is one system call or one store operation.  Two consecutive reads of    *)
(* the destination with no effect in between are one step.                 *)
(*                                                                         *)
(* A revision is what observe() returns: a list of nodes carrying their    *)
(* inodes, so no two writes produce equal revisions.  It is abstracted to  *)
(* the writer (a transaction id, or the number of a user edit) and to the  *)
(* number of nodes still present: destroy() removes them one by one from   *)
(* the end of the list.                                                    *)
(***************************************************************************)
EXTENDS Naturals

CONSTANTS
    Procs,      \* processes that preview, apply, synchronize and recover
    Tx,         \* transaction ids, each used once
    None,       \* the absent record, owner or writer
    Nodes,      \* the number of nodes of a complete revision
    MaxEdits    \* bound on the user's edits of the destination

UserRev == 0..MaxEdits

ASSUME ConstantsAssumption ==
    /\ Nodes \in Nat \ {0}
    /\ MaxEdits \in Nat
    /\ None \notin Tx \cup UserRev \cup Procs
    /\ Tx \cap UserRev = {}

VARIABLES
    dest,         \* content of the destination path
    staged,       \* content of <transaction directory>/staging/resource
    backup,       \* content of <transaction directory>/backup/resource
    parts,        \* the directories that exist of each transaction directory
    late,         \* revisions modified after the transaction directory was
    preparation,  \* the resource's preparation record: a transaction id
    journal,      \* the resource's journal record
    receipt,      \* the resource's receipt record: the committed transaction
    lock,         \* the holder of the resource lock
    pc,           \* the next step of each process
    mode,         \* what each lock holder's current pass is for
    plan,         \* the plan each process previewed
    reported,     \* whether the resource is in TransactionOutcome::completed
    kept,         \* history: complete revisions that must not be lost
    committed,    \* history: transactions whose receipt was written
    used,         \* history: transaction ids already drawn
    edits         \* number of the user's edits so far

files   == <<dest, staged, backup, parts, late>>
records == <<preparation, journal, receipt>>
local   == <<mode, plan, reported>>
history == <<kept, committed, used, edits>>
vars    == <<files, records, lock, pc, local, history>>

----------------------------------------------------------------------------
(* Revisions, directories, plans and records.                              *)

Writers == Tx \cup UserRev
Empty == [by |-> None, left |-> 0]
Whole(w) == [by |-> w, left |-> Nodes]
Content == [by : Writers, left : 1..Nodes] \cup {Empty}

Shrunk(c) == IF c.left = 1 THEN Empty ELSE [by |-> c.by, left |-> c.left - 1]

ExactRemnant(c, d) == c = Empty \/ c = d

\* cleanup_revision(): the nodes of c are a prefix of those of d.
Remnant(c, d) == c = Empty \/ (c.by = d.by /\ c.left <= d.left)

Parts == {"root", "staging", "backup"}

\* "own" changes the receipt only, "remove" deletes, "write" replaces.
Goals == {"own", "remove", "write"}
Plan(t, r, c, g) == [tx |-> t, previous |-> r, before |-> c, goal |-> g]
NoPlan == Plan(None, None, Empty, "own")
Plans == [tx : Tx \cup {None}, previous : Tx \cup {None},
          before : Content, goal : Goals]

After(pl) == CASE pl.goal = "own"    -> pl.before
               [] pl.goal = "remove" -> Empty
               [] pl.goal = "write"  -> Whole(pl.tx)

\* published equals staged, and backup equals before, in every journal.
Journals == [tx : Tx, previous : Tx \cup {None},
             before : Content, staged : Content]
ASSUME NoneIsNoJournal == None \notin Journals

JournalOf(pl) == [tx |-> pl.tx, previous |-> pl.previous,
                  before |-> pl.before, staged |-> After(pl)]

At(p, s) == pc[p] = s
Goto(p, s) == pc' = [pc EXCEPT ![p] = s]

\* Steps of a process that holds the lock.
Forward == {"mkdir", "mkstaging", "mkbackup", "stage", "verify", "journal",
            "discard", "unstage", "unprepare",
            "publish", "backup", "place", "confirm", "commit", "acknowledge"}
Recovering == {"recover", "rollback", "undo", "restore", "restored", "abandon"}
Closing == {"cleanup", "rmdirs", "forget", "release"}
Holding == Forward \cup Recovering \cup Closing
             \cup {"resume", "fresh", "prepare", "fail", "finish", "refused"}
Steps == Holding \cup {"idle", "previewing", "previewed"}

\* The error path of a step outside prepare(): execute_transaction re-reads
\* the receipt and recovers; recover_locked returns.
Trouble(p) == IF mode[p] = "forward" THEN "fail" ELSE "finish"

----------------------------------------------------------------------------
Init ==
    /\ dest \in {Empty, Whole(0)}
    /\ staged = [t \in Tx |-> Empty]
    /\ backup = [t \in Tx |-> Empty]
    /\ parts = [t \in Tx |-> {}]
    /\ late = {}
    /\ preparation = None /\ journal = None /\ receipt = None
    /\ lock = None
    /\ pc = [p \in Procs |-> "idle"]
    /\ mode = [p \in Procs |-> "recover"]
    /\ plan = [p \in Procs |-> NoPlan]
    /\ reported = [p \in Procs |-> FALSE]
    /\ kept = {dest.by} \ {None}
    /\ committed = {} /\ used = {} /\ edits = 0

----------------------------------------------------------------------------
(* Preview, locks and the checks before a transaction.                     *)

\* plan_resource(): the records are read first ...
PreviewRecords(p) ==
    /\ At(p, "idle")
    /\ preparation = None
    /\ plan' = [plan EXCEPT ![p] = Plan(None, receipt, Empty, "own")]
    /\ Goto(p, "previewing")
    /\ UNCHANGED <<files, records, lock, mode, reported, history>>

\* ... and the destination after them, without the lock (preview) or with it
\* (synchronize): the two reads may belong to different moments.
PreviewContent(p) ==
    /\ At(p, "previewing")
    /\ \E t \in Tx \ used, goal \in Goals :
          /\ goal = "remove" => dest # Empty
          /\ plan' = [plan EXCEPT ![p] = Plan(t, @.previous, dest, goal)]
          /\ used' = used \cup {t}
    /\ Goto(p, IF lock = p THEN "fresh" ELSE "previewed")
    /\ UNCHANGED <<files, records, lock, mode, reported,
                   kept, committed, edits>>

\* The plan carries an error, or apply() never gets the lock.
GiveUp(p) ==
    /\ pc[p] \in {"previewing", "previewed"}
    /\ plan' = [plan EXCEPT ![p] = NoPlan]
    /\ Goto(p, IF lock = p THEN "finish" ELSE "idle")
    /\ UNCHANGED <<files, records, lock, mode, reported, history>>

LockForApply(p) ==
    /\ At(p, "previewed") /\ lock = None
    /\ lock' = p
    /\ Goto(p, "fresh")
    /\ UNCHANGED <<files, records, local, history>>

\* recover_installation ("recover") or the first half of synchronize ("sync").
LockForRecovery(p) ==
    /\ At(p, "idle") /\ lock = None
    /\ lock' = p
    /\ \E m \in {"recover", "sync"} : mode' = [mode EXCEPT ![p] = m]
    /\ Goto(p, "recover")
    /\ UNCHANGED <<files, records, plan, reported, history>>

PlanHolds(p) ==
    /\ dest = plan[p].before
    /\ receipt = plan[p].previous
    /\ preparation = None

Fresh(p) ==
    /\ At(p, "fresh")
    /\ Goto(p, IF PlanHolds(p) THEN "prepare" ELSE "finish")
    /\ UNCHANGED <<files, records, lock, local, history>>

----------------------------------------------------------------------------
(* prepare(): the preparation record, the private directory, the staged    *)
(* revision and the journal.                                               *)

Prepare(p) ==
    /\ At(p, "prepare")
    /\ mode' = [mode EXCEPT ![p] = "forward"]
    /\ IF PlanHolds(p)
         THEN preparation' = plan[p].tx /\ Goto(p, "mkdir")
         ELSE UNCHANGED preparation /\ Goto(p, "fail")
    /\ UNCHANGED <<files, journal, receipt, lock, plan, reported, history>>

\* A new entry also moves the modification time of the transaction directory.
MakePart(p, step, part, next) ==
    /\ At(p, step)
    /\ parts' = [parts EXCEPT ![plan[p].tx] = @ \cup {part}]
    /\ late' = {}
    /\ Goto(p, next)
    /\ UNCHANGED <<dest, staged, backup, records, lock, local, history>>

MakeDirectory(p) == MakePart(p, "mkdir", "root", "mkstaging")
MakeStaging(p) == MakePart(p, "mkstaging", "staging", "mkbackup")
MakeBackup(p) ==
    MakePart(p, "mkbackup", "backup",
             IF plan[p].goal = "write" THEN "stage" ELSE "verify")

\* write_revision(): one node at a time, then a look at the result.
WriteNode(p) ==
    LET t == plan[p].tx
    IN  /\ At(p, "stage")
        /\ IF staged[t].left = Nodes
             THEN UNCHANGED <<staged, late>> /\ Goto(p, "verify")
             ELSE /\ staged' = [staged EXCEPT ![t] =
                                  [by |-> t, left |-> staged[t].left + 1]]
                  /\ late' = late \cup {t}
                  /\ UNCHANGED pc
        /\ UNCHANGED <<dest, backup, parts, records, lock, local, history>>

\* journal_for(): the last look at the destination before the journal.
VerifyBefore(p) ==
    /\ At(p, "verify")
    /\ Goto(p, IF dest = plan[p].before THEN "journal" ELSE "discard")
    /\ UNCHANGED <<files, records, lock, local, history>>

\* touch() makes this moment the boundary of later modifications.
WriteJournal(p) ==
    /\ At(p, "journal")
    /\ late' = {}
    /\ journal' = JournalOf(plan[p])
    /\ Goto(p, "publish")
    /\ UNCHANGED <<dest, staged, backup, parts, preparation, receipt,
                   lock, local, history>>

\* discard() after a failure in stage(): it destroys a staged revision it
\* recorded, and leaves a half-written one alone.
DiscardStaged(p) ==
    LET t == plan[p].tx
    IN  /\ At(p, "discard")
        /\ IF staged[t] = Empty
             THEN UNCHANGED staged /\ Goto(p, "unstage")
             ELSE /\ staged' = [staged EXCEPT ![t] = Shrunk(@)]
                  /\ UNCHANGED pc
        /\ UNCHANGED <<dest, backup, parts, late,
                       records, lock, local, history>>

\* The directories rmdir can take: an empty area, or a root without areas.
Removable(t) ==
    {part \in parts[t] : /\ part = "staging" => staged[t] = Empty
                         /\ part = "backup" => backup[t] = Empty
                         /\ part = "root" => parts[t] = {"root"}}

RemovePart(t, part) ==
    /\ parts' = [parts EXCEPT ![t] = @ \ {part}]
    /\ late' = {}

UnstageBlindly(p) ==
    /\ At(p, "unstage")
    /\ LET t == plan[p].tx
       IN  \/ /\ \E part \in Removable(t) : RemovePart(t, part)
              /\ UNCHANGED pc
           \/ UNCHANGED <<parts, late>> /\ Goto(p, "unprepare")
    /\ UNCHANGED <<dest, staged, backup, records, lock, local, history>>

\* remove_directories(ignore_failures = true): each rmdir may fail.
Unstage(p) ==
    /\ At(p, "unstage")
    /\ LET t == plan[p].tx
       IN  \/ /\ \E part \in Removable(t) : RemovePart(t, part)
              /\ UNCHANGED pc
           \/ /\ UNCHANGED <<parts, late>>
              /\ Goto(p, IF parts[t] = {} THEN "unprepare" ELSE "fail")
    /\ UNCHANGED <<dest, staged, backup, records, lock, local, history>>

\* release(): only a preparation without a journal is withdrawn.
Unprepare(p) ==
    /\ At(p, "unprepare")
    /\ preparation' = IF journal = None THEN None ELSE preparation
    /\ Goto(p, "fail")
    /\ UNCHANGED <<files, journal, receipt, lock, local, history>>

----------------------------------------------------------------------------
(* publish_with() and publish_receipt_with().                              *)

\* require_journal() and preparation_for().
Recorded(p) == journal = JournalOf(plan[p]) /\ preparation = plan[p].tx

Publish(p) ==
    /\ At(p, "publish")
    /\ Goto(p, IF ~Recorded(p) \/ dest # plan[p].before THEN "fail"
               ELSE IF After(plan[p]) = dest THEN "confirm"
               ELSE IF staged[plan[p].tx] # After(plan[p]) THEN "fail"
               ELSE IF dest # Empty THEN "backup" ELSE "place")
    /\ UNCHANGED <<files, records, lock, local, history>>

\* move_revision() renames whatever is there by now, then looks at it.
MoveToBackup(p) ==
    LET t == plan[p].tx
    IN  /\ At(p, "backup")
        /\ IF dest = Empty \/ "backup" \notin parts[t]
             THEN Goto(p, "fail") /\ UNCHANGED <<dest, backup>>
             ELSE /\ backup' = [backup EXCEPT ![t] = dest]
                  /\ dest' = Empty
                  /\ Goto(p, IF dest # plan[p].before THEN "fail"
                             ELSE IF plan[p].goal = "write" THEN "place"
                             ELSE "confirm")
        /\ UNCHANGED <<staged, parts, late, records, lock, local, history>>

CopyIntoPlace(p) ==
    LET t == plan[p].tx
    IN  /\ At(p, "place")
        /\ IF dest.left < Nodes
             THEN /\ dest' = [by |-> t, left |-> dest.left + 1]
                  /\ UNCHANGED <<staged, pc>>
             ELSE /\ staged' = [staged EXCEPT ![t] = Empty]
                  /\ UNCHANGED dest /\ Goto(p, "confirm")
        /\ UNCHANGED <<backup, parts, late, records, lock, local, history>>

ReplaceInPlace(p) ==
    LET t == plan[p].tx
    IN  /\ At(p, "place")
        /\ dest' = staged[t]
        /\ staged' = [staged EXCEPT ![t] = Empty]
        /\ Goto(p, "confirm")
        /\ UNCHANGED <<backup, parts, late, records, lock, local, history>>

\* The rename is exclusive: it fails when something is at the destination.
MoveIntoPlace(p) ==
    LET t == plan[p].tx
    IN  /\ At(p, "place")
        /\ IF dest = Empty
             THEN /\ dest' = staged[t]
                  /\ staged' = [staged EXCEPT ![t] = Empty]
                  /\ Goto(p, "confirm")
             ELSE Goto(p, "fail") /\ UNCHANGED <<dest, staged>>
        /\ UNCHANGED <<backup, parts, late, records, lock, local, history>>

Confirm(p) ==
    LET t == plan[p].tx
        own == After(plan[p]) = plan[p].before
        ok == /\ Recorded(p)
              /\ dest = After(plan[p])
              /\ staged[t] = Empty
              /\ backup[t] = IF own THEN Empty ELSE plan[p].before
              /\ receipt = plan[p].previous
    IN  /\ At(p, "confirm")
        /\ Goto(p, IF ok THEN "commit" ELSE "fail")
        /\ UNCHANGED <<files, records, lock, local, history>>

\* The commit point.  From here the previous revision may be destroyed and
\* what is at the destination is the user's.
Commit(p) ==
    /\ At(p, "commit")
    /\ receipt' = plan[p].tx
    /\ committed' = committed \cup {plan[p].tx}
    /\ kept' = (kept \ {plan[p].before.by}) \cup ({dest.by} \ {None})
    /\ Goto(p, "acknowledge")
    /\ UNCHANGED <<files, preparation, journal, lock, local, used, edits>>

\* The callback of publish_receipt_with(): the write is known to be done.
Acknowledge(p) ==
    /\ At(p, "acknowledge")
    /\ reported' = [reported EXCEPT ![p] = TRUE]
    /\ Goto(p, "cleanup")
    /\ UNCHANGED <<files, records, lock, mode, plan, history>>

----------------------------------------------------------------------------
(* cleanup(): destroys both private revisions, then the directories, then  *)
(* the records, and refuses private data it cannot account for.            *)

Refusal(p) == IF mode[p] = "forward" THEN "fail" ELSE "refused"

Cleanup(p) ==
    LET t == preparation
    IN  /\ At(p, "cleanup")
        /\ \/ /\ staged[t] # Empty
              /\ Remnant(staged[t], journal.staged)
              /\ staged' = [staged EXCEPT ![t] = Shrunk(@)]
              /\ UNCHANGED <<backup, pc>>
           \/ /\ staged[t] = Empty /\ backup[t] # Empty
              /\ Remnant(backup[t], journal.before)
              /\ backup' = [backup EXCEPT ![t] = Shrunk(@)]
              /\ UNCHANGED <<staged, pc>>
           \/ /\ staged[t] = Empty /\ backup[t] = Empty
              /\ Goto(p, "rmdirs")
              /\ UNCHANGED <<staged, backup>>
           \/ /\ \/ ~Remnant(staged[t], journal.staged)
                 \/ staged[t] = Empty /\ ~Remnant(backup[t], journal.before)
              /\ Goto(p, Refusal(p))
              /\ UNCHANGED <<staged, backup>>
        /\ UNCHANGED <<dest, parts, late, records, lock, local, history>>

RemoveDirectories(p) ==
    LET t == preparation
    IN  /\ At(p, "rmdirs")
        /\ \/ /\ \E part \in Removable(t) :
                    /\ part = "backup" => "staging" \notin parts[t]
                    /\ RemovePart(t, part)
              /\ UNCHANGED pc
           \/ /\ parts[t] = {}
              /\ Goto(p, IF journal = None THEN "release" ELSE "forget")
              /\ UNCHANGED <<parts, late>>
        /\ UNCHANGED <<dest, staged, backup, records, lock, local, history>>

DeleteJournal(p) ==
    /\ At(p, "forget")
    /\ journal' = None
    /\ Goto(p, "release")
    /\ UNCHANGED <<files, preparation, receipt, lock, local, history>>

DeletePreparation(p) ==
    /\ At(p, "release")
    /\ preparation' = None
    /\ Goto(p, IF mode[p] = "forward" THEN "finish" ELSE "resume")
    /\ UNCHANGED <<files, journal, receipt, lock, local, history>>

----------------------------------------------------------------------------
(* Recovery: after an error of the same process, or of a later process     *)
(* that finds the records.                                                 *)

ReportJournal(p) ==
    /\ At(p, "fail")
    /\ reported' = [reported EXCEPT ![p] = @ \/ journal # None]
    /\ mode' = [mode EXCEPT ![p] = "recover"]
    /\ Goto(p, "recover")
    /\ UNCHANGED <<files, records, lock, plan, history>>

\* execute_transaction(): the receipt is read again unless the write is
\* known to be done; the failed read counts as "not committed".
ReportFailure(p) ==
    /\ At(p, "fail")
    /\ reported' = [reported EXCEPT ![p] = @ \/ receipt = plan[p].tx]
    /\ mode' = [mode EXCEPT ![p] = "recover"]
    /\ Goto(p, "recover")
    /\ UNCHANGED <<files, records, lock, plan, history>>

RecoverJournals(p) ==
    /\ At(p, "recover")
    /\ Goto(p, IF journal = None THEN "resume"
               ELSE IF journal.tx # preparation THEN "refused"
               ELSE IF receipt = journal.tx THEN "cleanup"
               ELSE IF receipt = journal.previous THEN "rollback"
               ELSE "refused")
    /\ UNCHANGED <<files, records, lock, local, history>>

Recover(p) ==
    /\ At(p, "recover")
    /\ Goto(p, IF journal = None
                THEN IF preparation = None THEN "resume" ELSE "abandon"
               ELSE IF journal.tx # preparation THEN "refused"
               ELSE IF receipt = journal.tx THEN "cleanup"
               ELSE IF receipt = journal.previous THEN "rollback"
               ELSE "refused")
    /\ UNCHANGED <<files, records, lock, local, history>>

\* abandon(): without a journal nothing was moved, so what is staged is the
\* transaction's own and the backup must be empty.
Abandon(p) ==
    LET t == preparation
    IN  /\ At(p, "abandon")
        /\ IF backup[t] = Empty /\ staged[t] # Empty
             THEN /\ staged' = [staged EXCEPT ![t] = Shrunk(@)]
                  /\ UNCHANGED pc
             ELSE /\ Goto(p, IF backup[t] = Empty THEN "rmdirs" ELSE "refused")
                  /\ UNCHANGED staged
        /\ UNCHANGED <<dest, backup, parts, late,
                       records, lock, local, history>>

\* rollback(): the three places decide what was done and can be undone.
Suspect(t) ==
    /\ dest # Empty /\ dest \in {journal.before, journal.staged}
    /\ "root" \in parts[t]
    /\ dest.by \in late

Accounted(t) ==
    /\ staged[t] \in {Empty, journal.staged}
    /\ backup[t] \in {Empty, journal.before}

SettledEitherWay(t) ==
    /\ dest \in {journal.before, journal.staged}
    /\ backup[t] = Empty \/ (Accounted(t) /\ journal.before = journal.staged)

Settled(t) ==
    /\ dest = journal.before
    /\ backup[t] = Empty \/ (Accounted(t) /\ journal.before = journal.staged)

Published(t) ==
    /\ Accounted(t) /\ journal.before # journal.staged
    /\ dest # Empty /\ dest = journal.staged /\ staged[t] = Empty
    /\ backup[t] # Empty \/ journal.before = Empty

SetAside(t) ==
    /\ Accounted(t) /\ journal.before # journal.staged
    /\ dest = Empty /\ backup[t] # Empty

Rollback(p) ==
    LET t == preparation
    IN  /\ At(p, "rollback")
        /\ Goto(p, IF Suspect(t) THEN "refused"
                   ELSE IF Settled(t) THEN "cleanup"
                   ELSE IF Published(t) THEN "undo"
                   ELSE IF SetAside(t) THEN "restore"
                   ELSE "refused")
        /\ UNCHANGED <<files, records, lock, local, history>>

\* The published revision goes back to staging; the rename takes whatever is
\* at the destination by now, and the check after it sees what that was.
MoveToStaging(p) ==
    LET t == preparation
    IN  /\ At(p, "undo")
        /\ IF dest = Empty \/ "staging" \notin parts[t]
             THEN Goto(p, "finish") /\ UNCHANGED <<dest, staged>>
             ELSE /\ staged' = [staged EXCEPT ![t] = dest]
                  /\ dest' = Empty
                  /\ Goto(p, IF dest # journal.staged THEN "finish"
                             ELSE IF backup[t] = Empty THEN "cleanup"
                             ELSE "restore")
        /\ UNCHANGED <<backup, parts, late, records, lock, local, history>>

MoveBack(p) ==
    LET t == preparation
    IN  /\ At(p, "restore")
        /\ IF dest = Empty
             THEN /\ dest' = backup[t]
                  /\ backup' = [backup EXCEPT ![t] = Empty]
                  /\ Goto(p, "restored")
             ELSE Goto(p, "finish") /\ UNCHANGED <<dest, backup>>
        /\ UNCHANGED <<staged, parts, late, records, lock, local, history>>

ConfirmRestored(p) ==
    /\ At(p, "restored")
    /\ Goto(p, IF dest = journal.before THEN "cleanup" ELSE "finish")
    /\ UNCHANGED <<files, records, lock, local, history>>

\* recover_locked() has returned: recover_installation is done, synchronize
\* goes on to plan.
Resume(p) ==
    /\ At(p, "resume")
    /\ IF mode[p] = "sync"
         THEN /\ plan' = [plan EXCEPT ![p] = Plan(None, receipt, Empty, "own")]
              /\ Goto(p, "previewing")
         ELSE UNCHANGED plan /\ Goto(p, "finish")
    /\ UNCHANGED <<files, records, lock, mode, reported, history>>

Forgotten(p) ==
    /\ plan' = [plan EXCEPT ![p] = NoPlan]
    /\ mode' = [mode EXCEPT ![p] = "recover"]
    /\ reported' = [reported EXCEPT ![p] = FALSE]
    /\ Goto(p, "idle")
    /\ lock' = IF lock = p THEN None ELSE lock

Unlock(p) ==
    /\ pc[p] \in {"finish", "refused"}
    /\ Forgotten(p)
    /\ UNCHANGED <<files, records, history>>

----------------------------------------------------------------------------
(* Failures, crashes and the user.                                         *)

\* Where an I/O error at a step leads.  A store operation may fail after it
\* took effect (its directory sync fails): that error surfaces one step
\* later, so the step after it has the error path of both.
OnError(p, e) ==
    \/ At(p, "mkdir") /\ e \in {"unprepare", "fail"}
    \/ pc[p] \in {"mkstaging", "mkbackup", "stage"} /\ e = "unstage"
    \/ At(p, "verify") /\ e \in {"discard", "unstage"}
    \/ At(p, "journal") /\ e = "discard"
    \/ At(p, "publish") /\ e \in {"discard", "fail"}
    \/ /\ pc[p] \in {"prepare", "discard", "unstage", "unprepare", "backup",
                     "place", "confirm", "commit", "acknowledge"}
       /\ e = "fail"
    \/ pc[p] \in {"fresh", "resume"} \cup Recovering /\ e = "finish"
    \/ pc[p] \in Closing /\ e = Trouble(p)
    \/ At(p, "fail") /\ e = "recover"

Fail(p) ==
    /\ \E e \in Steps : OnError(p, e) /\ Goto(p, e)
    /\ mode' = [mode EXCEPT ![p] = IF At(p, "fail") THEN "recover" ELSE @]
    /\ UNCHANGED <<files, records, lock, plan, reported, history>>

\* The process dies; the operating system releases its file locks.
Crash(p) ==
    /\ pc[p] # "idle"
    /\ Forgotten(p)
    /\ UNCHANGED <<files, records, history>>

UserChange(content) ==
    /\ edits < MaxEdits
    /\ edits' = edits + 1
    /\ dest' = content
    /\ kept' = (kept \ {dest.by}) \cup ({content.by} \ {None})
    /\ late' = late \cup ({content.by} \ {None})
    /\ UNCHANGED <<staged, backup, parts, records, lock, pc, local,
                   committed, used>>

UserWrite == UserChange(Whole(edits + 1))
UserDelete == dest # Empty /\ UserChange(Empty)

\* The user saves the same bytes again.  Between two operations this makes
\* the revision the user's own, whatever transaction wrote it.
UserRetouch ==
    /\ edits < MaxEdits /\ dest # Empty
    /\ edits' = edits + 1
    /\ late' = late \cup {dest.by}
    /\ kept' = IF lock = None THEN kept \cup {dest.by} ELSE kept
    /\ UNCHANGED <<dest, staged, backup, parts, records, lock, pc, local,
                   committed, used>>

User == UserWrite \/ UserDelete \/ UserRetouch

----------------------------------------------------------------------------
\* One step of a process that neither fails nor dies.
PrepareStep(p) ==
    \/ Prepare(p) \/ MakeDirectory(p) \/ MakeStaging(p) \/ MakeBackup(p)
    \/ WriteNode(p) \/ VerifyBefore(p) \/ WriteJournal(p)
    \/ DiscardStaged(p) \/ Unstage(p) \/ Unprepare(p)

PublishStep(p) ==
    \/ Publish(p) \/ MoveToBackup(p) \/ MoveIntoPlace(p)
    \/ Confirm(p) \/ Commit(p) \/ Acknowledge(p)

CleanupStep(p) ==
    \/ Cleanup(p) \/ RemoveDirectories(p)
    \/ DeleteJournal(p) \/ DeletePreparation(p)

RecoverStep(p) ==
    \/ ReportFailure(p) \/ Recover(p) \/ Abandon(p) \/ Rollback(p)
    \/ MoveToStaging(p) \/ MoveBack(p) \/ ConfirmRestored(p) \/ Resume(p)

Work(p) ==
    \/ PrepareStep(p) \/ PublishStep(p) \/ CleanupStep(p) \/ RecoverStep(p)
    \/ Fresh(p) \/ Unlock(p)

Begin(p) ==
    \/ PreviewRecords(p) \/ PreviewContent(p) \/ GiveUp(p)
    \/ LockForApply(p) \/ LockForRecovery(p)

Next ==
    \/ \E p \in Procs : Begin(p) \/ Work(p) \/ Fail(p) \/ Crash(p)
    \/ User

Spec == Init /\ [][Next]_vars

\* For liveness: from some moment on nothing fails or dies and the user
\* leaves the destination alone, a running process runs on, and somebody
\* runs the recovery as long as it is needed.
Fairness ==
    /\ <>[][\E p \in Procs : Begin(p) \/ Work(p)]_vars
    /\ \A p \in Procs :
          WF_vars(Work(p) \/ PreviewContent(p) \/ GiveUp(p))
    /\ WF_vars(\E p \in Procs : LockForRecovery(p))

FairSpec == Spec /\ Fairness

----------------------------------------------------------------------------
(* Properties.                                                             *)

TypeOK ==
    /\ dest \in Content
    /\ staged \in [Tx -> Content]
    /\ backup \in [Tx -> Content]
    /\ parts \in [Tx -> SUBSET Parts]
    /\ late \subseteq Writers
    /\ preparation \in Tx \cup {None}
    /\ journal \in Journals \cup {None}
    /\ receipt \in Tx \cup {None}
    /\ lock \in Procs \cup {None}
    /\ pc \in [Procs -> Steps]
    /\ mode \in [Procs -> {"forward", "recover", "sync"}]
    /\ plan \in [Procs -> Plans]
    /\ reported \in [Procs -> BOOLEAN]
    /\ kept \subseteq Writers
    /\ committed \subseteq Tx /\ used \subseteq Tx
    /\ edits \in 0..MaxEdits

\* A reader of the destination finds a complete revision or nothing, at every
\* moment of a transaction, a recovery or a crash: nodes are written and
\* destroyed one at a time only inside the private directory.
DestinationWhole == dest.left \in {0, Nodes}

\* Nothing that must survive is lost: each revision the user wrote, and each
\* committed one, is complete at the destination or in a private directory
\* until the user replaces it or a transaction that planned to commits.
Places == {dest} \cup {staged[t] : t \in Tx} \cup {backup[t] : t \in Tx}
KeptSurvives == \A w \in kept : Whole(w) \in Places

\* Private data is never orphaned: a transaction directory that exists is the
\* one the preparation names, its areas live in it, and a journal always has
\* its preparation, so recovery finds whatever a crash left behind.
Discoverable ==
    /\ \A t \in Tx : parts[t] # {} => preparation = t
    /\ \A t \in Tx : staged[t] # Empty => "staging" \in parts[t]
    /\ \A t \in Tx : backup[t] # Empty => "backup" \in parts[t]
    /\ \A t \in Tx : parts[t] # {} => "root" \in parts[t]
    /\ journal # None => preparation = journal.tx

\* A reported completion is a committed transaction.
ReportIsTrue ==
    \A p \in Procs : reported[p] => plan[p].tx \in committed

\* The user's view of the resource while a transaction is between its journal
\* and its receipt: what a recovery would leave at the destination.
Uncommitted == journal # None /\ receipt # journal.tx
Logical ==
    LET t == journal.tx
    IN  IF ~Uncommitted \/ dest \notin {Empty, journal.staged} THEN dest
        ELSE IF dest = Empty /\ staged[t].by \in UserRev THEN staged[t]
        ELSE IF backup[t] # Empty THEN backup[t]
        ELSE IF journal.before = Empty THEN Empty ELSE dest

\* The transaction implements AtomicResource: whatever fails, dies or
\* competes, the resource changes together with its receipt or not at all.
Atomic == INSTANCE AtomicResource WITH content <- Logical.by
ImplementsAtomic == Atomic!ASpec

\* Recovery never refuses data the program alone has produced (checked
\* without user edits).
NeverRefused == \A p \in Procs : pc[p] # "refused"

\* Recovery terminates: a retained preparation is eventually resolved, and a
\* held lock released, so that neither blocks the resource for good.
RecoveryEnds ==
    /\ preparation # None ~> preparation = None
    /\ \A p \in Procs : lock = p ~> lock # p
=============================================================================
