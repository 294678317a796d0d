----------------------------- MODULE Installation -----------------------------
(***************************************************************************)
(* The lifecycle of installations over the resources they share: preview   *)
(* and apply, synchronize, remove and recover, by several processes of one *)
(* state store.  A call reads its installation's index, takes the index    *)
(* lock and the locks of all the resources it refers to, in destination    *)
(* order, plans, announces the pending generation in the index, executes   *)
(* one transaction per resource and then completes the index.  It can fail *)
(* or die between any two steps, and what it leaves is all that the next   *)
(* call knows.                                                             *)
(*                                                                         *)
(* A transaction on one resource is the one ResourceTransaction models: it *)
(* replaces content and receipt together and leaves, until its cleanup, an *)
(* open record that recovery resolves.                                     *)
(***************************************************************************)
EXTENDS ResourcePlan

CONSTANTS
    Procs,          \* processes that call the lifecycle
    Kinds,          \* the calls they make: of "apply", "sync", "recover"
    Policies,       \* the acquisition policies they ask for
    Replaces,       \* the values of replace_modified they pass
    Found,          \* what selections may hold before anything is installed
    MaxFaults,      \* bound: failed steps and crashes
    MaxEdits        \* bound: edits by the user

ASSUME ProcessAssumption ==
    /\ Kinds \subseteq {"apply", "sync", "recover"}
    /\ Found \subseteq Contents
    /\ Policies \subseteq Acquisitions /\ Replaces \subseteq BOOLEAN
    /\ MaxFaults \in Nat /\ MaxEdits \in Nat

VARIABLES
    index,          \* the stored index of every installation, or None
    ledger,         \* the claim recorded in its resource's receipt, or None
    receipts,       \* the resources that have a receipt
    content,        \* what every selection holds
    open,           \* the resources with a preparation or a journal
    indexLock,      \* who holds the lock of an installation's index
    resourceLock,   \* who holds the lock of a resource
    pc, job, snap,  \* where a process is, for whom, and what it has read
    rest, wave,     \* the resources still to do, and those to do now
    faults, edits

store == <<index, ledger, receipts, content, open>>
locks == <<indexLock, resourceLock>>
progress == <<pc, job, snap, rest, wave>>
vars == <<index, ledger, receipts, content, open, indexLock, resourceLock,
          pc, job, snap, rest, wave, faults, edits>>

Jobs ==
    [kind : Kinds \ {"recover"}, inst : Installs, gen : Generations \cup {None},
     acquisition : Policies, replace : Replaces]
    \cup [kind : {"recover"}, inst : Installs, gen : {None},
          acquisition : {"conflict"}, replace : {FALSE}]

\* A generation is installed where it was rendered for.
Callable(j) ==
    /\ j.kind \in Kinds
    /\ j.gen # None => Rendering[j.gen] = j.inst

\* Everything build_preview() reads about the resources rs.
Snapshot(i, rs) ==
    [index |-> index[i], refs |-> rs,
     ledger |-> [c \in ClaimsAt(rs) |-> ledger[c]],
     content |-> [c \in ClaimsAt(rs) |-> content[c]],
     receipts |-> receipts \cap rs,
     open |-> open \cap rs]

\* What synchronize() and recover_installation() know before they hold locks.
IndexOnly(i, rs) ==
    [index |-> index[i], refs |-> rs, ledger |-> <<>>, content |-> <<>>,
     receipts |-> {}, open |-> {}]

Idle == [index |-> None, refs |-> {}, ledger |-> <<>>, content |-> <<>>,
         receipts |-> {}, open |-> {}]

First(rs) == CHOOSE r \in rs : \A q \in rs : r <= q

Held(p) == {r \in Resources : resourceLock[r] = p}

Init ==
    /\ index = [i \in Installs |-> None]
    /\ ledger = [c \in Claims |-> None]
    /\ receipts = {}
    /\ content \in [Claims -> Found]
    /\ open = {}
    /\ indexLock = [i \in Installs |-> None]
    /\ resourceLock = [r \in Resources |-> None]
    /\ pc = [p \in Procs |-> "idle"]
    /\ job = [p \in Procs |-> None]
    /\ snap = [p \in Procs |-> Idle]
    /\ rest = [p \in Procs |-> {}]
    /\ wave = [p \in Procs |-> {}]
    /\ faults = 0
    /\ edits = 0
-----------------------------------------------------------------------------
\* The call returns, or its process ends: every lock it holds is released.
Return(p) ==
    /\ indexLock' = [i \in Installs |-> IF indexLock[i] = p THEN None ELSE indexLock[i]]
    /\ resourceLock' = [r \in Resources |-> IF resourceLock[r] = p THEN None ELSE resourceLock[r]]
    /\ pc' = [pc EXCEPT ![p] = "idle"]
    /\ job' = [job EXCEPT ![p] = None]
    /\ snap' = [snap EXCEPT ![p] = Idle]
    /\ rest' = [rest EXCEPT ![p] = {}]
    /\ wave' = [wave EXCEPT ![p] = {}]

Fault == faults < MaxFaults /\ faults' = faults + 1

GoTo(p, label) == pc' = [pc EXCEPT ![p] = label]

\* preview() and preview_removal(), or the first lines of synchronize() and
\* recover_installation(): the index is read without a lock, and a preview
\* reads all that it plans from.  Nothing is recovered where no index is.
Start(p, j) ==
    LET i == j.inst
        refs == References(j.gen, index[i])
    IN  /\ pc[p] = "idle"
        /\ Callable(j)
        /\ j.kind = "recover" => index[i] # None
        /\ job' = [job EXCEPT ![p] = j]
        /\ snap' = [snap EXCEPT ![p] = IF j.kind = "apply" THEN Snapshot(i, refs) ELSE IndexOnly(i, refs)]
        /\ GoTo(p, "index")
        /\ UNCHANGED <<store, locks, rest, wave, faults, edits>>

\* The index lock is taken, and the index must be the one that was read.
LockIndex(p) ==
    LET i == job[p].inst
    IN  /\ pc[p] = "index"
        /\ indexLock[i] = None
        /\ IF index[i] = snap[p].index
           THEN /\ indexLock' = [indexLock EXCEPT ![i] = p]
                /\ rest' = [rest EXCEPT ![p] = snap[p].refs]
                /\ GoTo(p, "lock")
                /\ UNCHANGED <<resourceLock, job, snap, wave>>
           ELSE Return(p)
        /\ UNCHANGED <<store, faults, edits>>

LockAnyOrder(p) ==
    /\ pc[p] = "lock"
    /\ \E r \in rest[p] :
           /\ resourceLock[r] = None
           /\ resourceLock' = [resourceLock EXCEPT ![r] = p]
           /\ rest' = [rest EXCEPT ![p] = @ \ {r}]
    /\ UNCHANGED <<store, indexLock, pc, job, snap, wave, faults, edits>>

\* The next resource lock, in destination order.
LockResource(p) ==
    LET r == First(rest[p])
    IN  /\ pc[p] = "lock"
        /\ rest[p] # {}
        /\ resourceLock[r] = None
        /\ resourceLock' = [resourceLock EXCEPT ![r] = p]
        /\ rest' = [rest EXCEPT ![p] = @ \ {r}]
        /\ UNCHANGED <<store, indexLock, pc, job, snap, wave, faults, edits>>

\* All locks are held.  A preview is checked at once; recover_locked() first
\* reads the index again and makes sure that no recorded ownership was lost.
Locked(p) ==
    /\ pc[p] = "lock"
    /\ rest[p] = {}
    /\ \/ /\ job[p].kind = "apply"
          /\ GoTo(p, "check")
          /\ UNCHANGED <<locks, job, snap, rest, wave>>
       \/ /\ job[p].kind # "apply"
          /\ IF /\ index[job[p].inst] = snap[p].index
                /\ \A r \in snap[p].refs : ExpectsReceipt(snap[p].index, r) => r \in receipts
             THEN /\ rest' = [rest EXCEPT ![p] = snap[p].refs]
                  /\ GoTo(p, "recover")
                  /\ UNCHANGED <<locks, job, snap, wave>>
             ELSE Return(p)
    /\ UNCHANGED <<store, faults, edits>>

\* Process p waits for a lock that q holds.
WaitsFor(p, q) ==
    \/ pc[p] = "index" /\ indexLock[job[p].inst] = q
    \/ pc[p] = "lock" /\ rest[p] # {} /\ resourceLock[First(rest[p])] = q

\* fresh(): nothing the plan was made from has changed.
Fresh(p) == snap[p] = Snapshot(job[p].inst, snap[p].refs)

\* A lock is not had in time, the preview is stale before any lock is taken,
\* or a lock or a destination cannot be used.
GiveUp(p) ==
    /\ pc[p] \in {"index", "lock"}
    /\ \/ Fault
       \/ /\ \/ \E q \in Procs : WaitsFor(p, q)
             \/ pc[p] = "index" /\ job[p].kind = "apply" /\ ~Fresh(p)
          /\ UNCHANGED faults
    /\ Return(p)
    /\ UNCHANGED <<store, edits>>
-----------------------------------------------------------------------------
SkipRecovery(p) ==
    /\ pc[p] = "recover"
    /\ rest[p] # {}
    /\ rest' = [rest EXCEPT ![p] = @ \ {First(rest[p])}]
    /\ UNCHANGED <<store, locks, pc, job, snap, wave, faults, edits>>

\* recover(): an open transaction of this or of any other installation is
\* finished or rolled back.  Neither moves the receipt.
RecoverResource(p) ==
    /\ pc[p] = "recover"
    /\ rest[p] # {}
    /\ rest' = [rest EXCEPT ![p] = @ \ {First(rest[p])}]
    /\ open' = open \ {First(rest[p])}
    /\ UNCHANGED <<index, ledger, receipts, content, locks, pc, job, snap, wave, faults, edits>>

RecoveryFails(p) ==
    /\ pc[p] = "recover"
    /\ rest[p] # {}
    /\ Fault
    /\ Return(p)
    /\ UNCHANGED <<store, edits>>

\* recover_installation() is done; synchronize() plans afresh, under locks.
Recovered(p) ==
    LET i == job[p].inst
    IN  /\ pc[p] = "recover"
        /\ rest[p] = {}
        /\ IF job[p].kind = "recover"
           THEN Return(p)
           ELSE /\ snap' = [snap EXCEPT ![p] = Snapshot(i, References(job[p].gen, index[i]))]
                /\ GoTo(p, "check")
                /\ UNCHANGED <<locks, job, rest, wave>>
        /\ UNCHANGED <<store, faults, edits>>
-----------------------------------------------------------------------------
AllUnchanged(p) == \A r \in snap[p].refs : UnchangedPlan(job[p], snap[p], r)

\* The index says what the call wants it to say, or there is none to remove.
IndexAgrees(p) ==
    LET ix == snap[p].index
    IN  IF ix = None THEN job[p].gen = None
        ELSE ix.current = job[p].gen /\ ix.pending = None /\ ix.residual = {}

\* run_locked() up to its first write.
Check(p) ==
    /\ pc[p] = "check"
    /\ IF \/ PlanError(job[p], snap[p])
          \/ OrderError(job[p], snap[p])
          \/ snap[p].open # {}
          \/ ~Fresh(p)
          \/ AllUnchanged(p) /\ IndexAgrees(p)
       THEN Return(p)
       ELSE GoTo(p, "announce") /\ UNCHANGED <<locks, job, snap, rest, wave>>
    /\ UNCHANGED <<store, faults, edits>>

\* execute_transaction(): the pending index is written before any content.
Announce(p) ==
    LET refs == snap[p].refs
    IN  /\ pc[p] = "announce"
        /\ index' = [index EXCEPT ![job[p].inst] = PendingIndex(snap[p].index, job[p].gen, refs)]
        /\ rest' = [rest EXCEPT ![p] = refs]
        /\ wave' = [wave EXCEPT ![p] = Wave(job[p], snap[p], refs)]
        /\ GoTo(p, IF refs = {} THEN "complete" ELSE "prepare")
        /\ UNCHANGED <<ledger, receipts, content, open, locks, job, snap, faults, edits>>

\* The write fails, before or after its effect.
AnnounceFails(p) ==
    LET pending == PendingIndex(snap[p].index, job[p].gen, snap[p].refs)
    IN  /\ pc[p] = "announce"
        /\ Fault
        /\ index' \in {index, [index EXCEPT ![job[p].inst] = pending]}
        /\ Return(p)
        /\ UNCHANGED <<ledger, receipts, content, open, edits>>

\* The next plan of the wave, then the next wave.
Advance(p) ==
    LET done == First(wave[p])
        left == rest[p] \ {done}
        now == wave[p] \ {done}
    IN  /\ rest' = [rest EXCEPT ![p] = left]
        /\ wave' = [wave EXCEPT ![p] = IF now # {} THEN now ELSE Wave(job[p], snap[p], left)]
        /\ GoTo(p, IF left = {} THEN "complete" ELSE "prepare")

Skip(p) ==
    /\ pc[p] = "prepare"
    /\ UnchangedPlan(job[p], snap[p], First(wave[p]))
    /\ Advance(p)
    /\ UNCHANGED <<store, locks, job, snap, faults, edits>>

\* The destination still holds what the plan was made from.
AsPlanned(p, r) == \A c \in ClaimsAt({r}) : content[c] = snap[p].content[c]

Prepare(p) ==
    LET r == First(wave[p])
    IN  /\ pc[p] = "prepare"
        /\ ~UnchangedPlan(job[p], snap[p], r)
        /\ AsPlanned(p, r)
        /\ open' = open \cup {r}
        /\ GoTo(p, "publish")
        /\ UNCHANGED <<index, ledger, receipts, content, locks, job, snap, rest, wave, faults, edits>>

\* publish(): the receipt is the commit point.
Publish(p) ==
    LET r == First(wave[p])
        here == ClaimsAt({r})
    IN  /\ pc[p] = "publish"
        /\ AsPlanned(p, r)
        /\ ledger' = [c \in Claims |-> IF c \in here THEN Planned(job[p], snap[p], c) ELSE ledger[c]]
        /\ content' = [c \in Claims |-> IF c \in here THEN After(job[p], snap[p], c) ELSE content[c]]
        /\ receipts' = receipts \cup {r}
        /\ GoTo(p, "cleanup")
        /\ UNCHANGED <<index, open, locks, job, snap, rest, wave, faults, edits>>

Cleanup(p) ==
    /\ pc[p] = "cleanup"
    /\ open' = open \ {First(wave[p])}
    /\ Advance(p)
    /\ UNCHANGED <<index, ledger, receipts, content, locks, job, snap, faults, edits>>

StopThenComplete(p) ==
    LET r == First(wave[p])
    IN  /\ pc[p] \in {"prepare", "publish", "cleanup"}
        /\ pc[p] = "prepare" => ~UnchangedPlan(job[p], snap[p], r)
        /\ Fault
        /\ open' \in {open, open \ {r}}
        /\ GoTo(p, "complete")
        /\ UNCHANGED <<index, ledger, receipts, content, locks, job, snap, rest, wave, edits>>

\* A step of the transaction on one resource fails.  The resource is
\* recovered, which may fail as well, and no further plan is executed: what
\* has been committed stays.
Stop(p) ==
    LET r == First(wave[p])
    IN  /\ pc[p] \in {"prepare", "publish", "cleanup"}
        /\ pc[p] = "prepare" => ~UnchangedPlan(job[p], snap[p], r)
        /\ \/ /\ pc[p] # "cleanup" /\ ~AsPlanned(p, r)
              /\ open' = open \ {r}
              /\ UNCHANGED faults
           \/ /\ Fault
              /\ open' \in {open, open \ {r}}
        /\ Return(p)
        /\ UNCHANGED <<index, ledger, receipts, content, edits>>

\* The completed index replaces the pending one.
Complete(p) ==
    /\ pc[p] = "complete"
    /\ index' = [index EXCEPT ![job[p].inst] = CompletedIndex(job[p].gen)]
    /\ Return(p)
    /\ UNCHANGED <<ledger, receipts, content, open, faults, edits>>

CompleteFails(p) ==
    /\ pc[p] = "complete"
    /\ Fault
    /\ index' \in {index, [index EXCEPT ![job[p].inst] = CompletedIndex(job[p].gen)]}
    /\ Return(p)
    /\ UNCHANGED <<ledger, receipts, content, open, edits>>

\* The process dies; the operating system releases its locks.
Crash(p) ==
    /\ pc[p] # "idle"
    /\ Fault
    /\ Return(p)
    /\ UNCHANGED <<store, edits>>

\* The user writes or removes a selection, taking no lock.
Edit(c, b) ==
    /\ edits < MaxEdits
    /\ edits' = edits + 1
    /\ content[c] # b
    /\ content' = [content EXCEPT ![c] = b]
    /\ UNCHANGED <<index, ledger, receipts, open, locks, progress, faults>>

Step(p) ==
    \/ LockIndex(p) \/ LockResource(p) \/ Locked(p)
    \/ RecoverResource(p) \/ Recovered(p)
    \/ Check(p) \/ Announce(p) \/ Skip(p) \/ Prepare(p) \/ Publish(p) \/ Cleanup(p)
    \/ Complete(p)

Next ==
    \/ \E p \in Procs :
           \/ \E j \in Jobs : Start(p, j)
           \/ Step(p)
           \/ GiveUp(p) \/ RecoveryFails(p) \/ AnnounceFails(p) \/ Stop(p)
           \/ CompleteFails(p) \/ Crash(p)
    \/ \E c \in Claims, b \in Contents : Edit(c, b)

Spec == Init /\ [][Next]_vars
-----------------------------------------------------------------------------
Indexes ==
    [current : Generations \cup {None}, pending : Generations \cup {None},
     previous : Generations \cup {None}, residual : SUBSET Resources]

Owned ==
    [claim : Claims, owner : {Bundle[i] : i \in Installs}, gen : Generations,
     baseline : Contents]

\* None stands for nothing recorded, and for nobody.
ASSUME NoneAssumption ==
    None \notin Procs /\ None \notin Owned /\ None \notin Indexes

Labels == {"idle", "index", "lock", "recover", "check", "announce",
           "prepare", "publish", "cleanup", "complete"}

\* The variables hold what the stores, the file system and the calls can hold.
TypeOK ==
    /\ index \in [Installs -> Indexes \cup {None}]
    /\ ledger \in [Claims -> Owned \cup {None}]
    /\ receipts \subseteq Resources /\ open \subseteq Resources
    /\ content \in [Claims -> Contents]
    /\ indexLock \in [Installs -> Procs \cup {None}]
    /\ resourceLock \in [Resources -> Procs \cup {None}]
    /\ pc \in [Procs -> Labels]
    /\ job \in [Procs -> Jobs \cup {None}]
    /\ rest \in [Procs -> SUBSET Resources] /\ wave \in [Procs -> SUBSET Resources]
    /\ faults \in 0..MaxFaults /\ edits \in 0..MaxEdits

\* Whatever an installation owns, and whatever transaction it left open, is at
\* a resource its index names: source-free inspection, removal and recovery
\* find it.  An index that several installations of one bundle maintain has
\* the claims of that bundle between them.  The other way round, the receipt of
\* a committed generation is never missing, so that no call is refused for lost
\* ownership.
Discoverable ==
    /\ \A c \in Claims : ledger[c] # None =>
           \E i \in Installs : Bundle[i] = ledger[c].owner /\ Site[c] \in IndexResources(index[i])
    /\ \A r \in open : \E i \in Installs : r \in IndexResources(index[i])
    /\ \A i \in Installs, r \in Resources : ExpectsReceipt(index[i], r) => r \in receipts

\* A completed index is exact: the bundle owns what the generation holds, in
\* that generation, and nothing else anywhere.
CompletedIsExact ==
    \A i \in Installs :
        (index[i] # None /\ index[i] = CompletedIndex(index[i].current)) =>
            {c \in Claims : ledger[c] # None /\ ledger[c].owner = Bundle[i]} = Membership(index[i].current)
            /\ \A c \in Membership(index[i].current) : ledger[c].gen = index[i].current

\* At every moment, through partial failures and crashes too, each recorded
\* claim's required assets are recorded, with the content of the generation
\* that refers to them unless the reference is a stable one.
ReferencesHold ==
    \A c \in Claims : ledger[c] # None =>
        \A q \in Requirements(ledger[c]) :
            /\ ledger[q] # None
            /\ <<c, q>> \in Stable[ledger[c].gen]
               \/ Body[ledger[q].gen][q] = Body[ledger[c].gen][q]

\* No circle of processes waits for each other's locks, whatever resources
\* their installations share.
NoLockCycle ==
    \A ps \in (SUBSET Procs) \ {{}} : \E p \in ps : \A q \in ps : ~WaitsFor(p, q)

MovedByOwner(c) ==
    ledger[c] # None /\ ledger'[c] # ledger[c] =>
        /\ ledger'[c] # None => ledger'[c].owner = ledger[c].owner
        /\ \E p \in Procs : pc[p] = "publish" /\ Bundle[job[p].inst] = ledger[c].owner

\* Recorded content and ownership only move together with the installation
\* that owns them: a claim is never taken from another bundle, and it is given
\* up by a call of its own bundle only.
OwnersOnly == [][\A c \in Claims : MovedByOwner(c)]_vars

BaselineStays(c) ==
    ledger'[c] # ledger[c] =>
        /\ ledger[c] = None => content[c] \in {Nothing, content'[c], ledger'[c].baseline}
        /\ ledger[c] # None /\ ledger'[c] = None => content'[c] = ledger[c].baseline
        /\ ledger[c] # None /\ ledger'[c] # None => ledger'[c].baseline = ledger[c].baseline

\* Content that no bundle owns is replaced by takeover alone, and the receipt
\* keeps it as the baseline; it comes back when the claim is given up, and a
\* baseline is never replaced or dropped before.
BaselinesKept == [][\A c \in Claims : BaselineStays(c)]_vars

EditStays(c) ==
    (/\ content'[c] # content[c] /\ edits' = edits
     /\ ledger[c] # None /\ content[c] # Body[ledger[c].gen][c]) =>
        \E p \in Procs : pc[p] = "publish" /\ job[p].replace

\* What the user wrote over an owned selection is replaced on request only.
EditsKept == [][\A c \in Claims : EditStays(c)]_vars

\* A running call is executed further, and the host synchronizes again as
\* long as it has something to do; failures and edits end, their number being
\* bounded.
Fairness ==
    \A p \in Procs :
        /\ WF_vars(Step(p) \/ GiveUp(p) \/ Stop(p))
        /\ WF_vars(\E j \in Jobs : j.kind = "sync" /\ Start(p, j))
FairSpec == Spec /\ Fairness

\* A call that failed or died leaves nothing that stops the next ones for
\* good: again and again no transaction is open, and every index that was
\* announced is completed.
Settles ==
    []<>(/\ open = {}
         /\ \A i \in Installs : index[i] # None => index[i] = CompletedIndex(index[i].current))
=============================================================================
