---------------------------- MODULE AtomicResource ----------------------------
(***************************************************************************)
(* What a managed resource promises: its content and its receipt change    *)
(* together, in one step, or not at all.  A crash, an I/O error, a         *)
(* recovery, a stale preview or a competing process is no step of this     *)
(* specification.                                                          *)
(***************************************************************************)
EXTENDS Naturals

CONSTANTS Tx, None, MaxEdits

VARIABLES
    content,    \* who wrote what the resource holds: Tx, a user edit, None
    receipt,    \* the transaction that owns the resource, or None
    committed,  \* the transactions committed so far
    edits       \* number of the user's edits so far

avars == <<content, receipt, committed, edits>>

Authors == Tx \cup 0..MaxEdits \cup {None}

AInit ==
    /\ content \in {None, 0}
    /\ receipt = None
    /\ committed = {}
    /\ edits = 0

\* A transaction replaces the content, removes it, or keeps it and takes
\* ownership only.  Keeping and removing are also what is left of a commit
\* when the user edits the destination between its last check and the commit.
ACommit(t) ==
    /\ t \notin committed
    /\ committed' = committed \cup {t}
    /\ receipt' = t
    /\ content' \in {t, content, None}
    /\ UNCHANGED edits

AUserEdit ==
    /\ edits < MaxEdits
    /\ edits' = edits + 1
    /\ content' \in Authors
    /\ UNCHANGED <<receipt, committed>>

ANext == (\E t \in Tx : ACommit(t)) \/ AUserEdit

ASpec == AInit /\ [][ANext]_avars
=============================================================================
