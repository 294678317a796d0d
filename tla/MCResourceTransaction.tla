----------------------- MODULE MCResourceTransaction ------------------------
(***************************************************************************)
(* What rollback() assumes about a transaction directory that is gone.     *)
(*                                                                         *)
(* rollback() compares the modification times of the destination with the  *)
(* time of the transaction directory, and skips the comparison when the    *)
(* directory no longer exists.  The comment at the comparison gives the    *)
(* reason: only the cleanup of an earlier rollback, which passed the       *)
(* comparison, removes the directory.  This module remembers which         *)
(* transactions passed it and states that reason.                          *)
(***************************************************************************)
EXTENDS ResourceTransaction, TLC

Symmetry == Permutations(Procs) \cup Permutations(Tx)

VARIABLE checked   \* history: transactions whose comparison was made

bvars == <<vars, checked>>

BInit == Init /\ checked = {}

\* rollback() went past the comparison with the directory in place.
Passed(p) ==
    /\ At(p, "rollback") /\ "root" \in parts[preparation]
    /\ pc'[p] \in {"cleanup", "undo", "restore"}

BNext ==
    /\ Next
    /\ checked' = IF \E p \in Procs : Passed(p)
                    THEN checked \cup {preparation} ELSE checked

BSpec == BInit /\ [][BNext]_bvars
\* Without the history.
MCSpec == BInit /\ [][Next /\ UNCHANGED checked]_bvars
MCFairSpec == MCSpec /\ Fairness

\* The comment "Only cleanup, after this check passed, removes the directory
\* or moves its time": a rollback that skips the comparison for a destination
\* it recognises continues one that made it.
SkipsOnlyAfterCheck ==
    \A p \in Procs :
        (/\ At(p, "rollback")
         /\ dest # Empty /\ dest \in {journal.before, journal.staged}
         /\ "root" \notin parts[preparation])
        => preparation \in checked
=============================================================================
