------------------------------- MODULE Admission -------------------------------
(***************************************************************************)
(* Admission of resources to management: TransactionLocks::acquire() and   *)
(* admit() with hierarchy_conflicts(), for references whose destinations   *)
(* may lie inside one another.                                             *)
(*                                                                         *)
(* Each destination has one authority record and one lock in the state     *)
(* store.  A process writes the record of its own destination first and    *)
(* looks for records above and below it afterwards, one store read at a    *)
(* time, while other processes do the same for other destinations and the  *)
(* owner of the file system adds and removes files.  A record is never     *)
(* deleted.                                                                *)
(***************************************************************************)
EXTENDS Naturals

CONSTANTS
    Procs,      \* processes that acquire, publish and release
    Paths,      \* destinations
    Under,      \* the pairs <<lower, upper>> of nested destinations
    None,       \* no record, no owner
    MaxChanges  \* bound on the changes the user makes to the file system

ASSUME NestingAssumption ==
    /\ Under \subseteq Paths \X Paths
    /\ \A a \in Paths : <<a, a>> \notin Under
    /\ \A a, b, c \in Paths :
          <<a, b>> \in Under /\ <<b, c>> \in Under => <<a, c>> \in Under
    /\ MaxChanges \in Nat

Kinds == {"document", "tree"}

ASSUME NoneAssumption == None \notin Kinds \cup Procs \cup Paths

VARIABLES
    authority,  \* the kind recorded for each destination
    fs,         \* what the file system has at each destination
    lock,       \* the holder of each destination's lock
    pc,         \* the next step of each process
    ref,        \* the reference each process works on
    clear,      \* the destinations it looked at and found without a record
    admitted,   \* history: the references that were ever admitted
    removed,    \* history: destinations whose file or directory vanished
    changes     \* number of the user's changes so far

vars == <<authority, fs, lock, pc, ref, clear, admitted, removed, changes>>

References == [path : Paths, kind : Kinds]
NoReference == [path |-> None, kind |-> None]
Above(a) == {b \in Paths : <<a, b>> \in Under}
Below(a) == {b \in Paths : <<b, a>> \in Under}

Form(kind) == IF kind = "document" THEN "file" ELSE "directory"

\* What the file system may hold: only directories contain anything.
FileSystems ==
    {f \in [Paths -> {"absent", "file", "directory"}] :
        \A a \in Paths : f[a] # "absent" =>
            \A b \in Above(a) : f[b] = "directory"}

Goto(p, s) == pc' = [pc EXCEPT ![p] = s]

Init ==
    /\ authority = [a \in Paths |-> None]
    /\ fs \in FileSystems
    /\ lock = [a \in Paths |-> None]
    /\ pc = [p \in Procs |-> "idle"]
    /\ ref = [p \in Procs |-> NoReference]
    /\ clear = [p \in Procs |-> {}]
    /\ admitted = {} /\ removed = {} /\ changes = 0

----------------------------------------------------------------------------
\* validate_kind(): the destination is absent or of the reference's kind; a
\* file above it makes the look itself fail.
KindFits(r) ==
    /\ fs[r.path] \in {"absent", Form(r.kind)}
    /\ \A b \in Above(r.path) : fs[b] # "file"

\* The first validation is made before the lock is taken.
Begin(p) ==
    /\ pc[p] = "idle"
    /\ \E r \in References : KindFits(r) /\ ref' = [ref EXCEPT ![p] = r]
    /\ Goto(p, "lock")
    /\ UNCHANGED <<authority, fs, lock, clear, admitted, removed, changes>>

\* ResourceLockGuard::acquire(); a timeout is a Leave.
Lock(p) ==
    /\ pc[p] = "lock" /\ lock[ref[p].path] = None
    /\ lock' = [lock EXCEPT ![ref[p].path] = p]
    /\ Goto(p, "parents")
    /\ UNCHANGED <<authority, fs, ref, clear, admitted, removed, changes>>

\* create_parents(): the missing directories above, from the top.
CreateParent(p) ==
    /\ pc[p] = "parents"
    /\ \/ \E b \in Above(ref[p].path) :
             /\ fs[b] = "absent"
             /\ \A c \in Above(b) : fs[c] = "directory"
             /\ fs' = [fs EXCEPT ![b] = "directory"]
             /\ UNCHANGED pc
       \/ /\ \A b \in Above(ref[p].path) : fs[b] # "absent"
          /\ Goto(p, "record") /\ UNCHANGED fs
    /\ UNCHANGED <<authority, lock, ref, clear, admitted, removed, changes>>

\* admit(): the record is written if absent; an existing one must agree.
Record(p) ==
    /\ pc[p] = "record"
    /\ IF authority[ref[p].path] \in {None, ref[p].kind}
         THEN /\ authority' = [authority EXCEPT ![ref[p].path] = ref[p].kind]
              /\ Goto(p, "kind")
         ELSE UNCHANGED authority /\ Goto(p, "failed")
    /\ UNCHANGED <<fs, lock, ref, clear, admitted, removed, changes>>

\* The second validation, after the record: "a file declaration cannot bypass
\* descendant fences".
ValidateKind(p) ==
    /\ pc[p] = "kind"
    /\ Goto(p, IF KindFits(ref[p]) THEN "look" ELSE "failed")
    /\ UNCHANGED <<authority, fs, lock, ref, clear, admitted, removed, changes>>

\* Where hierarchy_conflicts() looks: above, and for a tree below as well.
LookedAbove(r) == Above(r.path)

Looked(r) == Above(r.path) \cup (IF r.kind = "tree" THEN Below(r.path) ELSE {})

\* One read for each destination above, and then for a tree the keys of the
\* records below, which a store lists without stopping the writers.
Look(p) ==
    /\ pc[p] = "look"
    /\ \E b \in Looked(ref[p]) \ clear[p] :
          /\ b \in Below(ref[p].path) => Above(ref[p].path) \subseteq clear[p]
          /\ IF authority[b] = None
               THEN clear' = [clear EXCEPT ![p] = @ \cup {b}] /\ UNCHANGED pc
               ELSE Goto(p, "failed") /\ UNCHANGED clear
    /\ UNCHANGED <<authority, fs, lock, ref, admitted, removed, changes>>

Admit(p) ==
    /\ pc[p] = "look" /\ clear[p] = Looked(ref[p])
    /\ Goto(p, "admitted")
    /\ admitted' = admitted \cup {ref[p]}
    /\ UNCHANGED <<authority, fs, lock, ref, clear, removed, changes>>

\* The transaction puts a revision at the destination or removes the one
\* there; either way what was below the destination goes with it.
Vanish(gone) ==
    removed' = removed \cup {a \in gone : fs[a] \notin {"absent", fs'[a]}}

Publish(p) ==
    LET a == ref[p].path
    IN  /\ pc[p] = "admitted"
        /\ KindFits(ref[p]) /\ \A b \in Above(a) : fs[b] = "directory"
        /\ \E form \in {"absent", Form(ref[p].kind)} :
              fs' = [b \in Paths |-> IF b = a THEN form
                                     ELSE IF b \in Below(a) THEN "absent"
                                     ELSE fs[b]]
        /\ Vanish({a} \cup Below(a))
        /\ UNCHANGED <<authority, lock, pc, ref, clear, admitted, changes>>

\* The locks are dropped: the work is done, a step failed, the lock was not
\* acquired in time or the process died.
Leave(p) ==
    /\ pc[p] # "idle"
    /\ Goto(p, "idle")
    /\ lock' = [a \in Paths |-> IF lock[a] = p THEN None ELSE lock[a]]
    /\ ref' = [ref EXCEPT ![p] = NoReference]
    /\ clear' = [clear EXCEPT ![p] = {}]
    /\ UNCHANGED <<authority, fs, admitted, removed, changes>>

UserCreates(a) ==
    /\ fs[a] = "absent"
    /\ \A b \in Above(a) : fs[b] = "directory"
    /\ \E form \in {"file", "directory"} : fs' = [fs EXCEPT ![a] = form]
    /\ UNCHANGED removed

UserRemoves(a) ==
    /\ fs[a] # "absent"
    /\ fs' = [b \in Paths |-> IF b \in {a} \cup Below(a) THEN "absent"
                              ELSE fs[b]]
    /\ Vanish({a} \cup Below(a))

User ==
    /\ changes < MaxChanges
    /\ changes' = changes + 1
    /\ \E a \in Paths : UserCreates(a) \/ UserRemoves(a)
    /\ UNCHANGED <<authority, lock, pc, ref, clear, admitted>>

Step(p) ==
    \/ Begin(p) \/ Lock(p) \/ CreateParent(p) \/ Record(p) \/ ValidateKind(p)
    \/ Look(p) \/ Admit(p) \/ Publish(p) \/ Leave(p)

Next == (\E p \in Procs : Step(p)) \/ User

Spec == Init /\ [][Next]_vars

----------------------------------------------------------------------------
Steps == {"idle", "lock", "parents", "record", "kind", "look", "admitted",
          "failed"}

TypeOK ==
    /\ authority \in [Paths -> Kinds \cup {None}]
    /\ fs \in FileSystems
    /\ lock \in [Paths -> Procs \cup {None}]
    /\ pc \in [Procs -> Steps]
    /\ ref \in [Procs -> References \cup {NoReference}]
    /\ clear \in [Procs -> SUBSET Paths]
    /\ \A p \in Procs : clear[p] # {} =>
          ref[p] \in References /\ clear[p] \subseteq Looked(ref[p])
    /\ admitted \subseteq References
    /\ removed \subseteq Paths
    /\ changes \in 0..MaxChanges

\* "They cannot both pass": a tree and something inside it are never both
\* admitted, at whatever times and in whatever order their processes write
\* their records, look for others, fail, die and try again.
NeverNested ==
    \A r, s \in admitted :
        r.kind = "tree" => <<s.path, r.path>> \notin Under

\* A destination is admitted as a document or as a tree, never as both.
KindsAgree ==
    \A r, s \in admitted : r.path = s.path => r.kind = s.kind

\* Documents do not look for records below them: the directory that an inner
\* admission has found or created keeps the outer one out, unless what was at
\* the outer destination has vanished at some time.
DocumentsApart ==
    \A r, s \in admitted :
        r.kind = "document" /\ <<s.path, r.path>> \in Under
        => r.path \in removed

\* No two admissions contradict each other, neither at one destination nor
\* at two of which one is inside the other.
NoConflict == NeverNested /\ KindsAgree /\ DocumentsApart
=============================================================================
