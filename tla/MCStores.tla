------------------------------- MODULE MCStores -------------------------------
(***************************************************************************)
(* The state stores and what stands on them, one part in each behaviour:   *)
(* "admission" of a directory, one inside it and a destination inside      *)
(* both; the "directory" store, two callers of two records of two values;  *)
(* the "memory" store's locks, four threads and two names.                 *)
(***************************************************************************)
EXTENDS Admission, DirectoryStore, MemoryLocks, TLC

CONSTANTS outer, middle, inner

VARIABLE part

Chain == {<<middle, outer>>, <<inner, middle>>, <<inner, outer>>}

Symmetry ==
    Permutations(Procs) \cup Permutations(Callers) \cup Permutations(Keys)

PartsInit ==
    /\ part \in {"admission", "directory", "memory"}
    /\ Init /\ StoreInit /\ LocksInit
    /\ part # "admission" => \A a \in Paths : fs[a] = "absent"

PartsNext ==
    /\ UNCHANGED part
    /\ \/ part = "admission" /\ Next /\ UNCHANGED <<storeVars, lockVars>>
       \/ part = "directory" /\ StoreNext /\ UNCHANGED <<vars, lockVars>>
       \/ part = "memory" /\ LocksNext /\ UNCHANGED <<vars, storeVars>>

PartsSpec == PartsInit /\ [][PartsNext]_<<part, vars, storeVars, lockVars>>
=============================================================================
