------------------------- MODULE Installation_proofs -------------------------
(***************************************************************************)
(* What holds of the installation lifecycle for every rendering, any       *)
(* number of processes, installations and shared resources, and any number *)
(* of failures, crashes and edits.                                         *)
(*                                                                         *)
(* The invariant IInv says of each process what it may rely on between two *)
(* of its steps: the locks it holds, that the index is as it was read or   *)
(* announced, that the plan was executable, and how far it is: resources   *)
(* not yet reached are as they were read, the others as planned.  A step   *)
(* of another process keeps it (Frame), because that process only touches  *)
(* what it has locked itself (Touches).  Of the process that steps, each   *)
(* action has a lemma.                                                     *)
(***************************************************************************)
EXTENDS Installation, FiniteSetTheorems, TLAPS

-----------------------------------------------------------------------------
(* The invariant.                                                          *)

\* Where a process executes the plan that it has checked.
Executing == {"announce", "prepare", "publish", "cleanup", "complete"}

\* A running call knows its job and the index it has read, and refers to what
\* references() says of the two.
Known(p) ==
    pc[p] # "idle" =>
        /\ job[p] \in Jobs
        /\ snap[p].index \in Indexes \cup {None}
        /\ snap[p].refs = References(job[p].gen, snap[p].index)

\* The resources a process has locked.
Holding(p) ==
    CASE pc[p] \in {"idle", "index"} -> {}
      [] pc[p] = "lock"              -> snap[p].refs \ rest[p]
      [] OTHER                       -> snap[p].refs

\* The locks are where the process believes them to be, taken in destination
\* order.
Locking(p) ==
    /\ \A i \in Installs :
          indexLock[i] = p <=> pc[p] \notin {"idle", "index"} /\ job[p].inst = i
    /\ \A r \in Resources : resourceLock[r] = p <=> r \in Holding(p)
    /\ pc[p] \in {"lock", "recover"} => rest[p] \subseteq snap[p].refs
    /\ pc[p] = "lock" =>
          \A h \in snap[p].refs \ rest[p], r \in rest[p] : h < r

\* Under its lock the index is as it was read, or as it was announced.
IndexKnown(p) ==
    /\ pc[p] \in {"lock", "recover", "check", "announce"} =>
          index[job[p].inst] = snap[p].index
    /\ pc[p] \in Executing \ {"announce"} =>
          index[job[p].inst] =
             PendingIndex(snap[p].index, job[p].gen, snap[p].refs)

\* The resources whose receipt is still to be replaced.
Undone(p) ==
    CASE pc[p] = "announce" -> snap[p].refs
      [] pc[p] = "cleanup"  -> rest[p] \ {First(wave[p])}
      [] OTHER              -> rest[p]

\* The plan was made from what the stores held, and was found executable.
Sound(p) ==
    pc[p] \in Executing =>
        /\ snap[p].ledger \in [ClaimsAt(snap[p].refs) -> Owned \cup {None}]
        /\ snap[p].content \in [ClaimsAt(snap[p].refs) -> Contents]
        /\ snap[p].receipts \subseteq receipts
        /\ ~PlanError(job[p], snap[p])
        /\ ~OrderError(job[p], snap[p])

\* What the plan has not reached is as it was read, and the rest as planned.
Halfway(p) ==
    pc[p] \in Executing =>
        /\ \A c \in ClaimsAt(snap[p].refs) :
              ledger[c] = IF Site[c] \in Undone(p) THEN snap[p].ledger[c]
                          ELSE Planned(job[p], snap[p], c)
        /\ snap[p].refs \ Undone(p) \subseteq receipts
        /\ \A r \in open \cap snap[p].refs :
              pc[p] \in {"publish", "cleanup"} /\ r = First(wave[p])

\* The plans of the wave wait for none of the rest.
Waving(p) ==
    /\ pc[p] \in {"prepare", "publish", "cleanup"} =>
          /\ wave[p] # {} /\ wave[p] \subseteq rest[p]
          /\ rest[p] \subseteq snap[p].refs
          /\ \A r \in wave[p], q \in rest[p] :
                <<r, q>> \notin Edges(job[p], snap[p])
    /\ pc[p] = "complete" => rest[p] = {}

Labelled == \A c \in Claims : ledger[c] # None => ledger[c].claim = c

Process(p) ==
    /\ Known(p) /\ Locking(p) /\ IndexKnown(p)
    /\ Sound(p) /\ Halfway(p) /\ Waving(p)

IInv ==
    /\ TypeOK /\ DOMAIN snap = Procs
    /\ Labelled
    /\ \A p \in Procs : Process(p)
----------------------------------------------------------------------------
(* Destination order.                                                      *)

LEMMA NatMin ==
    ASSUME NEW S \in SUBSET Nat, S # {}
    PROVE  \E x \in S : \A y \in S : x <= y
  <1> DEFINE R == OpToRel(<, Nat)
  <1>1. R = {e \in Nat \X Nat : e[1] < e[2]}
    BY Zenon DEF OpToRel
  <1>2. IsWellFoundedOn(R, Nat)
    BY NatLessThanWellFounded, Zenon
  <1> HIDE DEF R
  <1>3. PICK x \in S : \A y \in S : ~ (<<y, x>> \in R)
    BY <1>2, WFMin
  <1>4. ASSUME NEW y \in S PROVE x <= y
    <2>1. y < x => <<y, x>> \in R
      BY <1>1
    <2> QED
      BY <1>3, <2>1
  <1> QED
    BY <1>4

LEMMA FirstIn ==
    ASSUME NEW rs \in SUBSET Resources, rs # {}
    PROVE  First(rs) \in rs /\ \A q \in rs : First(rs) <= q
  BY NatMin, RenderingAssumption DEF First

----------------------------------------------------------------------------
(* What a job and an index refer to.                                       *)

LEMMA JobFields ==
    ASSUME NEW j \in Jobs
    PROVE  /\ j.inst \in Installs /\ j.gen \in Generations \cup {None}
           /\ j.kind \in {"apply", "sync", "recover"}
           /\ j.acquisition \in Acquisitions
  BY ProcessAssumption DEF Jobs, Acquisitions

LEMMA MembersType ==
    ASSUME NEW g \in Generations \cup {None}
    PROVE  /\ Membership(g) \subseteq Claims /\ Members(g) \subseteq Resources
           /\ Members(g) = {Site[c] : c \in Membership(g)}
  BY RenderingAssumption DEF Membership, Members

LEMMA IndexResourcesType ==
    ASSUME NEW ix \in Indexes \cup {None}
    PROVE  IndexResources(ix) \subseteq Resources
  BY MembersType DEF IndexResources, Indexes

LEMMA ReferencesType ==
    ASSUME NEW ix \in Indexes \cup {None}, NEW g \in Generations \cup {None}
    PROVE  References(g, ix) \subseteq Resources
  BY MembersType, IndexResourcesType DEF References

LEMMA IndexTypes ==
    ASSUME NEW ix \in Indexes \cup {None}, NEW g \in Generations \cup {None},
           NEW rs \in SUBSET Resources
    PROVE  /\ PendingIndex(ix, g, rs) \in Indexes
           /\ CompletedIndex(g) \in Indexes
  BY DEF PendingIndex, CompletedIndex, Indexes

----------------------------------------------------------------------------
(* What a plan makes of a claim.                                           *)

\* A snapshot of the claims at the resources rs.
Observed(s) ==
    /\ s.ledger \in [ClaimsAt(s.refs) -> Owned \cup {None}]
    /\ s.content \in [ClaimsAt(s.refs) -> Contents]

LEMMA PlannedCases ==
    ASSUME NEW j \in Jobs, NEW s, Observed(s), NEW c \in ClaimsAt(s.refs)
    PROVE  /\ c \in Desired(j, s) =>
                 /\ j.gen \in Generations /\ Body[j.gen][c] # Nothing
                 /\ Planned(j, s, c) \in Owned
                 /\ Planned(j, s, c).claim = c
                 /\ Planned(j, s, c).owner = Bundle[j.inst]
                 /\ Planned(j, s, c).gen = j.gen
                 /\ Planned(j, s, c).baseline = Baseline(j, s, c)
                 /\ After(j, s, c) = Body[j.gen][c]
           /\ c \in Own(j, s) \ Desired(j, s) =>
                 /\ Planned(j, s, c) = None
                 /\ After(j, s, c) = s.ledger[c].baseline
           /\ c \notin Own(j, s) \cup Desired(j, s) =>
                 /\ Planned(j, s, c) = s.ledger[c]
                 /\ After(j, s, c) = s.content[c]
           /\ Planned(j, s, c) \in Owned \cup {None}
           /\ After(j, s, c) \in Contents
  <1> USE DEF Observed
  <1>1. c \in Claims /\ c \in DOMAIN s.ledger /\ s.content[c] \in Contents
    BY DEF ClaimsAt
  <1>2. c \in Own(j, s) =>
           s.ledger[c] \in Owned /\ s.ledger[c].baseline \in Contents
    BY <1>1 DEF Own, Owned
  <1>3. Baseline(j, s, c) \in Contents
    BY <1>1, <1>2, RenderingAssumption DEF Baseline
  <1>4. c \in Desired(j, s) =>
           /\ j.gen \in Generations /\ Body[j.gen][c] # Nothing
           /\ Body[j.gen][c] \in Contents
    BY <1>1, JobFields, RenderingAssumption DEF Desired, Membership
  <1>5. c \in Desired(j, s) =>
           Planned(j, s, c) = [claim |-> c, owner |-> Bundle[j.inst],
                               gen |-> j.gen, baseline |-> Baseline(j, s, c)]
    BY DEF Planned
  <1>6. c \in Desired(j, s) => Planned(j, s, c) \in Owned
    BY <1>1, <1>3, <1>4, <1>5, JobFields DEF Owned
  <1>7. c \in Own(j, s) \ Desired(j, s) =>
           /\ Planned(j, s, c) = None
           /\ After(j, s, c) = s.ledger[c].baseline
    BY DEF Planned, After
  <1>8. c \notin Own(j, s) \cup Desired(j, s) =>
           /\ Planned(j, s, c) = s.ledger[c]
           /\ After(j, s, c) = s.content[c]
    BY DEF Planned, After
  <1>9. c \in Desired(j, s) => After(j, s, c) = Body[j.gen][c]
    BY DEF After
  <1> QED
    BY <1>1, <1>2, <1>4, <1>5, <1>6, <1>7, <1>8, <1>9

\* order_plans() has refused a cycle, so that something can always be done.
LEMMA WaveExists ==
    ASSUME NEW j, NEW s, ~OrderError(j, s), NEW left \in SUBSET s.refs,
           left # {}
    PROVE  Wave(j, s, left) # {}
  BY DEF OrderError, Wave

----------------------------------------------------------------------------
(* What a step of one process leaves of the others.                        *)

\* Process q changes its own progress, indexes and resources it has locked,
\* and locks that it holds or that nobody holds; receipts only appear.
Touches(q) ==
    /\ \A p \in Procs \ {q} :
          /\ pc'[p] = pc[p] /\ job'[p] = job[p] /\ snap'[p] = snap[p]
          /\ rest'[p] = rest[p] /\ wave'[p] = wave[p]
    /\ \A i \in Installs :
          /\ index'[i] # index[i] => indexLock[i] = q
          /\ indexLock'[i] # indexLock[i] =>
                indexLock[i] \in {None, q} /\ indexLock'[i] \in {None, q}
    /\ \A c \in Claims : ledger'[c] # ledger[c] => resourceLock[Site[c]] = q
    /\ \A r \in Resources :
          /\ (r \in open') # (r \in open) => resourceLock[r] = q
          /\ resourceLock'[r] # resourceLock[r] =>
                resourceLock[r] \in {None, q} /\ resourceLock'[r] \in {None, q}
    /\ receipts \subseteq receipts'

\* What has to be shown of each step.
Kept(q) ==
    /\ TypeOK' /\ DOMAIN snap' = Procs
    /\ Labelled'
    /\ Touches(q)
    /\ Process(q)'

LEMMA HoldingType ==
    ASSUME IInv, NEW p \in Procs
    PROVE  /\ Holding(p) \subseteq Resources
           /\ pc[p] # "idle" =>
                 /\ job[p].inst \in Installs
                 /\ job[p].gen \in Generations \cup {None}
                 /\ snap[p].refs \subseteq Resources
           /\ rest[p] \subseteq Resources /\ wave[p] \subseteq Resources
  <1>1. pc[p] # "idle" =>
           /\ job[p].inst \in Installs
           /\ job[p].gen \in Generations \cup {None}
           /\ snap[p].refs \subseteq Resources
    BY JobFields, ReferencesType DEF IInv, Process, Known
  <1>2. rest[p] \subseteq Resources /\ wave[p] \subseteq Resources
    BY DEF IInv, TypeOK
  <1> QED
    BY <1>1, <1>2 DEF Holding

LEMMA Frame ==
    ASSUME IInv, NEW q \in Procs, Touches(q), NEW p \in Procs \ {q}
    PROVE  Process(p)'
  <1>1. /\ pc'[p] = pc[p] /\ job'[p] = job[p] /\ snap'[p] = snap[p]
        /\ rest'[p] = rest[p] /\ wave'[p] = wave[p]
    BY DEF Touches
  <1>2. p # None /\ q # None
    BY NoneAssumption
  <1>3. Process(p)
    BY DEF IInv
  <1>4. Known(p)'
    BY <1>1, <1>3 DEF Process, Known
  <1>5. Holding(p)' = Holding(p) /\ Undone(p)' = Undone(p)
    BY <1>1 DEF Holding, Undone
  <1>6. Locking(p)'
    BY <1>1, <1>2, <1>3, <1>5 DEF Process, Locking, Touches
  <1>7. IndexKnown(p)'
    <2>1. CASE pc[p] \in {"idle", "index"}
      BY <1>1, <2>1 DEF IndexKnown, Executing
    <2>2. CASE pc[p] \notin {"idle", "index"}
      <3>1. job[p].inst \in Installs
        BY <2>2, HoldingType
      <3>2. index'[job[p].inst] = index[job[p].inst]
        BY <1>3, <2>2, <3>1 DEF Process, Locking, Touches
      <3> QED
        BY <1>1, <1>3, <3>2 DEF Process, IndexKnown
    <2> QED
      BY <2>1, <2>2
  <1>8. Sound(p)'
    BY <1>1, <1>3 DEF Process, Sound, Touches
  <1>9. Halfway(p)'
    <2> SUFFICES ASSUME pc[p] \in Executing PROVE Halfway(p)'
      BY <1>1 DEF Halfway
    <2>1. /\ snap[p].refs \subseteq Resources
          /\ \A r \in snap[p].refs : resourceLock[r] = p
      BY <1>3, HoldingType DEF Process, Locking, Holding, Executing
    <2>2. \A c \in ClaimsAt(snap[p].refs) : ledger'[c] = ledger[c]
      BY <2>1 DEF ClaimsAt, Touches
    <2>3. open' \cap snap[p].refs = open \cap snap[p].refs
      BY <2>1 DEF Touches
    <2>4. receipts \subseteq receipts'
      BY DEF Touches
    <2> QED
      BY <1>1, <1>3, <1>5, <2>2, <2>3, <2>4 DEF Process, Halfway
  <1>10. Waving(p)'
    BY <1>1, <1>3 DEF Process, Waving
  <1> QED
    BY <1>4, <1>6, <1>7, <1>8, <1>9, <1>10 DEF Process

LEMMA KeptKeeps ==
    ASSUME IInv, NEW q \in Procs, Kept(q)
    PROVE  IInv'
  BY Frame DEF Kept, IInv

----------------------------------------------------------------------------
(* The steps of one process.                                               *)

\* The call ends: nothing is known of the process any more.
LEMMA ReturnKeeps ==
    ASSUME IInv, NEW p \in Procs, Return(p)
    PROVE  /\ Process(p)'
           /\ \A q \in Procs \ {p} :
                 /\ pc'[q] = pc[q] /\ job'[q] = job[q] /\ snap'[q] = snap[q]
                 /\ rest'[q] = rest[q] /\ wave'[q] = wave[q]
           /\ \A i \in Installs : indexLock'[i] # indexLock[i] =>
                 indexLock[i] = p /\ indexLock'[i] = None
           /\ \A r \in Resources : resourceLock'[r] # resourceLock[r] =>
                 resourceLock[r] = p /\ resourceLock'[r] = None
           /\ indexLock' \in [Installs -> Procs \cup {None}]
           /\ resourceLock' \in [Resources -> Procs \cup {None}]
           /\ pc' \in [Procs -> Labels] /\ job' \in [Procs -> Jobs \cup {None}]
           /\ rest' \in [Procs -> SUBSET Resources]
           /\ wave' \in [Procs -> SUBSET Resources]
           /\ DOMAIN snap' = Procs
  <1>1. TypeOK /\ DOMAIN snap = Procs /\ p # None
    BY NoneAssumption DEF IInv
  <1>2. pc'[p] = "idle"
    BY <1>1 DEF Return, TypeOK
  <1>3. \A i \in Installs : indexLock'[i] # p
    BY <1>1 DEF Return
  <1>4. \A r \in Resources : resourceLock'[r] # p
    BY <1>1 DEF Return
  <1>5. Process(p)'
    BY <1>2, <1>3, <1>4
    DEF Process, Known, Locking, Holding, IndexKnown, Sound, Halfway, Waving,
        Executing
  <1>6. /\ indexLock' \in [Installs -> Procs \cup {None}]
        /\ resourceLock' \in [Resources -> Procs \cup {None}]
    BY <1>1 DEF Return, TypeOK
  <1>7. /\ pc' \in [Procs -> Labels] /\ job' \in [Procs -> Jobs \cup {None}]
        /\ rest' \in [Procs -> SUBSET Resources]
        /\ wave' \in [Procs -> SUBSET Resources]
        /\ DOMAIN snap' = Procs
    BY <1>1 DEF Return, TypeOK, Labels
  <1>8. \A q \in Procs \ {p} :
           /\ pc'[q] = pc[q] /\ job'[q] = job[q] /\ snap'[q] = snap[q]
           /\ rest'[q] = rest[q] /\ wave'[q] = wave[q]
    BY <1>1 DEF Return, TypeOK
  <1>9. /\ \A i \in Installs : indexLock'[i] # indexLock[i] =>
              indexLock[i] = p /\ indexLock'[i] = None
        /\ \A r \in Resources : resourceLock'[r] # resourceLock[r] =>
              resourceLock[r] = p /\ resourceLock'[r] = None
    BY DEF Return
  <1> QED
    BY <1>5, <1>6, <1>7, <1>8, <1>9

\* A call ends that has changed no more than resources and the index it has
\* locked, and no record.
LEMMA EndKeeps ==
    ASSUME IInv, NEW p \in Procs, Return(p), UNCHANGED <<ledger, receipts>>,
           content' = content, edits' = edits,
           faults' \in 0..MaxFaults,
           index' \in [Installs -> Indexes \cup {None}],
           open' \subseteq Resources,
           \A i \in Installs : index'[i] # index[i] => indexLock[i] = p,
           \A r \in Resources :
              (r \in open') # (r \in open) => resourceLock[r] = p
    PROVE  Kept(p)
  <1>1. TypeOK'
    BY ReturnKeeps DEF IInv, TypeOK
  <1>2. Labelled'
    BY DEF IInv, Labelled
  <1>3. Touches(p)
    BY ReturnKeeps DEF Touches
  <1> QED
    BY <1>1, <1>2, <1>3, ReturnKeeps DEF Kept

LEMMA FaultType ==
    ASSUME IInv, Fault \/ faults' = faults
    PROVE  faults' \in 0..MaxFaults
  BY ProcessAssumption DEF IInv, TypeOK, Fault

LEMMA StartKeeps ==
    ASSUME IInv, NEW p \in Procs, NEW j \in Jobs, Start(p, j)
    PROVE  Kept(p)
  <1> DEFINE refs == References(j.gen, index[j.inst])
             s == IF j.kind = "apply" THEN Snapshot(j.inst, refs)
                  ELSE IndexOnly(j.inst, refs)
  <1>1. /\ pc[p] = "idle" /\ pc' = [pc EXCEPT ![p] = "index"]
        /\ job' = [job EXCEPT ![p] = j] /\ snap' = [snap EXCEPT ![p] = s]
        /\ UNCHANGED <<store, locks, rest, wave, faults, edits>>
    BY DEF Start, GoTo
  <1>2. TypeOK /\ DOMAIN snap = Procs
    BY DEF IInv
  <1>3. /\ pc'[p] = "index" /\ job'[p] = j /\ snap'[p] = s
        /\ \A q \in Procs \ {p} :
              pc'[q] = pc[q] /\ job'[q] = job[q] /\ snap'[q] = snap[q]
    BY <1>1, <1>2 DEF TypeOK
  <1>4. s.index = index[j.inst] /\ s.refs = refs
    BY DEF Snapshot, IndexOnly
  <1>5. TypeOK' /\ DOMAIN snap' = Procs /\ Labelled'
    BY <1>1, <1>2 DEF IInv, TypeOK, Labels, Labelled, store, locks
  <1>6. Touches(p)
    BY <1>1, <1>3 DEF Touches, store, locks
  <1>7. Process(p)'
    <2>1. index[j.inst] \in Indexes \cup {None}
      BY <1>2, JobFields DEF TypeOK
    <2>2. Known(p)'
      BY <1>3, <1>4, <2>1 DEF Known
    <2>3. \A i \in Installs : indexLock[i] # p
      BY <1>1 DEF IInv, Process, Locking
    <2>4. \A r \in Resources : resourceLock[r] # p
      BY <1>1 DEF IInv, Process, Locking, Holding
    <2>5. Locking(p)'
      BY <1>1, <1>3, <2>3, <2>4 DEF Locking, Holding, locks
    <2> QED
      BY <1>3, <2>2, <2>5
      DEF Process, IndexKnown, Sound, Halfway, Waving, Executing
  <1> QED
    BY <1>5, <1>6, <1>7 DEF Kept

LEMMA LockIndexKeeps ==
    ASSUME IInv, NEW p \in Procs, LockIndex(p)
    PROVE  Kept(p)
  <1> DEFINE i == job[p].inst
  <1>1. TypeOK /\ DOMAIN snap = Procs
    BY DEF IInv
  <1>2. /\ pc[p] = "index" /\ indexLock[i] = None
        /\ UNCHANGED <<store, faults, edits>>
    BY DEF LockIndex
  <1>3. i \in Installs /\ snap[p].refs \subseteq Resources
    BY <1>2, HoldingType
  <1>4. CASE index[i] # snap[p].index
    <2>1. Return(p)
      BY <1>4 DEF LockIndex
    <2> QED
      BY <1>1, <1>2, <2>1, EndKeeps DEF TypeOK, store
  <1>5. CASE index[i] = snap[p].index
    <2>1. /\ indexLock' = [indexLock EXCEPT ![i] = p]
          /\ rest' = [rest EXCEPT ![p] = snap[p].refs]
          /\ pc' = [pc EXCEPT ![p] = "lock"]
          /\ UNCHANGED <<resourceLock, job, snap, wave>>
      BY <1>5 DEF LockIndex, GoTo
    <2>2. /\ pc'[p] = "lock" /\ rest'[p] = snap[p].refs
          /\ \A q \in Procs \ {p} : pc'[q] = pc[q] /\ rest'[q] = rest[q]
      BY <1>1, <2>1 DEF TypeOK
    <2>3. TypeOK' /\ DOMAIN snap' = Procs /\ Labelled'
      BY <1>1, <1>2, <1>3, <2>1 DEF IInv, TypeOK, Labels, Labelled, store
    <2>4. Touches(p)
      BY <1>1, <1>2, <2>1, <2>2 DEF Touches, store, TypeOK
    <2>5. Known(p)'
      BY <1>2, <2>1 DEF IInv, Process, Known
    <2>6. Locking(p)'
      <3>1. \A r \in Resources : resourceLock[r] # p
        BY <1>2 DEF IInv, Process, Locking, Holding
      <3>2. \A k \in Installs : indexLock[k] # p
        BY <1>2 DEF IInv, Process, Locking
      <3> QED
        BY <1>1, <1>3, <2>1, <2>2, <3>1, <3>2 DEF Locking, Holding, TypeOK
    <2>7. IndexKnown(p)'
      BY <1>2, <1>5, <2>1, <2>2 DEF IndexKnown, Executing, store
    <2> QED
      BY <2>2, <2>3, <2>4, <2>5, <2>6, <2>7
      DEF Kept, Process, Sound, Halfway, Waving, Executing
  <1> QED
    BY <1>4, <1>5

LEMMA LockResourceKeeps ==
    ASSUME IInv, NEW p \in Procs, LockResource(p)
    PROVE  Kept(p)
  <1> DEFINE r == First(rest[p])
  <1>1. TypeOK /\ DOMAIN snap = Procs
    BY DEF IInv
  <1>2. /\ pc[p] = "lock" /\ rest[p] # {} /\ resourceLock[r] = None
        /\ resourceLock' = [resourceLock EXCEPT ![r] = p]
        /\ rest' = [rest EXCEPT ![p] = @ \ {r}]
        /\ UNCHANGED <<store, indexLock, pc, job, snap, wave, faults, edits>>
    BY DEF LockResource
  <1>3. /\ rest[p] \subseteq Resources
        /\ rest[p] \subseteq snap[p].refs /\ snap[p].refs \subseteq Resources
    BY <1>2, HoldingType DEF IInv, Process, Locking
  <1>4. r \in rest[p] /\ \A q \in rest[p] : r <= q
    BY <1>2, <1>3, FirstIn
  <1>5. /\ rest'[p] = rest[p] \ {r}
        /\ \A q \in Procs \ {p} : rest'[q] = rest[q]
    BY <1>1, <1>2 DEF TypeOK
  <1>6. TypeOK' /\ DOMAIN snap' = Procs /\ Labelled'
    BY <1>1, <1>2, <1>3 DEF IInv, TypeOK, Labelled, store
  <1>7. Touches(p)
    BY <1>1, <1>2, <1>5 DEF Touches, store, TypeOK
  <1>8. Known(p)'
    BY <1>2 DEF IInv, Process, Known
  <1>9. Locking(p)'
    <2>1. Holding(p)' = Holding(p) \cup {r}
      BY <1>2, <1>3, <1>4, <1>5 DEF Holding
    <2>2. \A h \in snap[p].refs \ rest'[p], q \in rest'[p] : h < q
      <3> SUFFICES ASSUME NEW h \in snap[p].refs \ rest'[p], NEW q \in rest'[p]
                   PROVE  h < q
        OBVIOUS
      <3>1. CASE h = r
        <4>1. q \in rest[p] /\ q # r /\ r <= q
          BY <1>4, <1>5
        <4>2. q \in Nat /\ r \in Nat
          BY <1>3, <1>4, <4>1, RenderingAssumption
        <4> HIDE DEF r
        <4> QED
          BY <3>1, <4>1, <4>2
      <3>2. CASE h # r
        BY <1>2, <1>5, <3>2 DEF IInv, Process, Locking
      <3> QED
        BY <3>1, <3>2
    <2>3. \A k \in Resources : resourceLock'[k] = p <=> k \in Holding(p)'
      BY <1>1, <1>2, <1>3, <1>4, <2>1 DEF IInv, Process, Locking, TypeOK
    <2> QED
      BY <1>2, <1>3, <1>5, <2>2, <2>3 DEF IInv, Process, Locking
  <1>10. IndexKnown(p)'
    BY <1>2 DEF IInv, Process, IndexKnown, store, Executing
  <1> QED
    BY <1>2, <1>6, <1>7, <1>8, <1>9, <1>10
    DEF Kept, Process, Sound, Halfway, Waving, Executing

LEMMA LockedKeeps ==
    ASSUME IInv, NEW p \in Procs, Locked(p)
    PROVE  Kept(p)
  <1>1. TypeOK /\ DOMAIN snap = Procs
    BY DEF IInv
  <1>2. /\ pc[p] = "lock" /\ rest[p] = {}
        /\ UNCHANGED <<store, faults, edits>>
    BY DEF Locked
  <1>3. CASE Return(p)
    BY <1>1, <1>2, <1>3, EndKeeps DEF TypeOK, store
  <1>4. CASE ~Return(p)
    <2>1. /\ UNCHANGED <<locks, job, snap, wave>>
          /\ pc' = [pc EXCEPT ![p] = "check"] \/ pc' = [pc EXCEPT ![p] = "recover"]
          /\ rest' = rest \/ rest' = [rest EXCEPT ![p] = snap[p].refs]
          /\ pc' = [pc EXCEPT ![p] = "check"] \/ rest' = [rest EXCEPT ![p] = snap[p].refs]
      BY <1>4 DEF Locked, GoTo
    <2>2. snap[p].refs \subseteq Resources
      BY <1>2, HoldingType
    <2>3. /\ pc'[p] \in {"check", "recover"}
          /\ pc'[p] = "recover" => rest'[p] = snap[p].refs
          /\ \A q \in Procs \ {p} : pc'[q] = pc[q] /\ rest'[q] = rest[q]
      BY <1>1, <2>1 DEF TypeOK
    <2>4. TypeOK' /\ DOMAIN snap' = Procs /\ Labelled'
      <3>1. pc' \in [Procs -> Labels] /\ rest' \in [Procs -> SUBSET Resources]
        BY <1>1, <2>1, <2>2 DEF TypeOK, Labels
      <3> QED
        BY <1>1, <1>2, <2>1, <3>1 DEF IInv, TypeOK, Labelled, store, locks
    <2>5. Touches(p)
      BY <1>2, <2>1, <2>3 DEF Touches, store, locks
    <2>6. Known(p)'
      BY <1>2, <2>1, <2>3 DEF IInv, Process, Known
    <2>7. Locking(p)'
      <3>1. Holding(p)' = Holding(p)
        BY <1>2, <2>1, <2>3 DEF Holding
      <3> QED
        BY <1>2, <2>1, <2>3, <3>1 DEF IInv, Process, Locking, locks
    <2>8. IndexKnown(p)'
      BY <1>2, <2>1, <2>3 DEF IInv, Process, IndexKnown, Executing, store
    <2> QED
      BY <2>3, <2>4, <2>5, <2>6, <2>7, <2>8
      DEF Kept, Process, Sound, Halfway, Waving, Executing
  <1> QED
    BY <1>3, <1>4

LEMMA GiveUpKeeps ==
    ASSUME IInv, NEW p \in Procs, GiveUp(p) \/ RecoveryFails(p) \/ Crash(p)
    PROVE  Kept(p)
  <1>1. Return(p) /\ UNCHANGED <<store, edits>> /\ (Fault \/ faults' = faults)
    BY DEF GiveUp, RecoveryFails, Crash
  <1>2. faults' \in 0..MaxFaults
    BY <1>1, FaultType
  <1> QED
    BY <1>1, <1>2, EndKeeps DEF IInv, TypeOK, store

LEMMA RecoverResourceKeeps ==
    ASSUME IInv, NEW p \in Procs, RecoverResource(p)
    PROVE  Kept(p)
  <1> DEFINE r == First(rest[p])
  <1>1. TypeOK /\ DOMAIN snap = Procs
    BY DEF IInv
  <1>2. /\ pc[p] = "recover" /\ rest[p] # {}
        /\ rest' = [rest EXCEPT ![p] = @ \ {r}] /\ open' = open \ {r}
        /\ UNCHANGED <<index, ledger, receipts, content, locks, pc, job, snap,
                       wave, faults, edits>>
    BY DEF RecoverResource
  <1>3. r \in rest[p] /\ rest[p] \subseteq snap[p].refs
    BY <1>2, HoldingType, FirstIn DEF IInv, Process, Locking
  <1>4. r \in Resources /\ resourceLock[r] = p
    BY <1>2, <1>3, HoldingType DEF IInv, Process, Locking, Holding
  <1>5. /\ rest'[p] = rest[p] \ {r}
        /\ \A q \in Procs \ {p} : rest'[q] = rest[q]
    BY <1>1, <1>2 DEF TypeOK
  <1>6. TypeOK' /\ DOMAIN snap' = Procs /\ Labelled'
    BY <1>1, <1>2 DEF IInv, TypeOK, Labelled, locks
  <1>7. Touches(p)
    BY <1>2, <1>4, <1>5 DEF Touches, locks
  <1>8. Known(p)'
    BY <1>2 DEF IInv, Process, Known
  <1>9. Locking(p)'
    BY <1>2, <1>3, <1>5 DEF IInv, Process, Locking, Holding, locks
  <1>10. IndexKnown(p)'
    BY <1>2 DEF IInv, Process, IndexKnown, Executing
  <1> QED
    BY <1>2, <1>6, <1>7, <1>8, <1>9, <1>10
    DEF Kept, Process, Sound, Halfway, Waving, Executing

LEMMA RecoveredKeeps ==
    ASSUME IInv, NEW p \in Procs, Recovered(p)
    PROVE  Kept(p)
  <1> DEFINE i == job[p].inst
             s == Snapshot(i, References(job[p].gen, index[i]))
  <1>1. TypeOK /\ DOMAIN snap = Procs
    BY DEF IInv
  <1>2. /\ pc[p] = "recover" /\ rest[p] = {}
        /\ UNCHANGED <<store, faults, edits>>
    BY DEF Recovered
  <1>3. CASE Return(p)
    BY <1>1, <1>2, <1>3, EndKeeps DEF TypeOK, store
  <1>4. CASE ~Return(p)
    <2>1. /\ snap' = [snap EXCEPT ![p] = s]
          /\ pc' = [pc EXCEPT ![p] = "check"]
          /\ UNCHANGED <<locks, job, rest, wave>>
      BY <1>4 DEF Recovered, GoTo
    <2>2. /\ pc'[p] = "check" /\ snap'[p] = s
          /\ \A q \in Procs \ {p} : pc'[q] = pc[q] /\ snap'[q] = snap[q]
      BY <1>1, <2>1 DEF TypeOK
    <2>3. /\ index[i] = snap[p].index
          /\ snap[p].refs = References(job[p].gen, snap[p].index)
          /\ job[p] \in Jobs /\ snap[p].index \in Indexes \cup {None}
      BY <1>2 DEF IInv, Process, IndexKnown, Known
    <2>4. s.index = snap[p].index /\ s.refs = snap[p].refs
      BY <2>3 DEF Snapshot
    <2>5. TypeOK' /\ DOMAIN snap' = Procs /\ Labelled'
      BY <1>1, <1>2, <2>1 DEF IInv, TypeOK, Labels, Labelled, store, locks
    <2>6. Touches(p)
      BY <1>2, <2>1, <2>2 DEF Touches, store, locks
    <2>7. Known(p)'
      BY <2>1, <2>2, <2>3, <2>4 DEF Known
    <2>8. Locking(p)'
      <3>1. Holding(p)' = Holding(p)
        BY <1>2, <2>2, <2>4 DEF Holding
      <3> QED
        BY <1>2, <2>1, <2>2, <3>1 DEF IInv, Process, Locking, locks
    <2>9. IndexKnown(p)'
      BY <1>2, <2>1, <2>2, <2>3, <2>4 DEF IndexKnown, Executing, store
    <2> QED
      BY <2>2, <2>5, <2>6, <2>7, <2>8, <2>9
      DEF Kept, Process, Sound, Halfway, Waving, Executing
  <1> QED
    BY <1>3, <1>4

\* What is checked is what is there: nothing moves while the locks are held.
LEMMA CheckKeeps ==
    ASSUME IInv, NEW p \in Procs, Check(p)
    PROVE  Kept(p)
  <1> DEFINE j == job[p]
             s == snap[p]
  <1>1. TypeOK /\ DOMAIN snap = Procs
    BY DEF IInv
  <1>2. pc[p] = "check" /\ UNCHANGED <<store, faults, edits>>
    BY DEF Check
  <1>3. CASE Return(p)
    BY <1>1, <1>2, <1>3, EndKeeps DEF TypeOK, store
  <1>4. CASE ~Return(p)
    <2>1. /\ pc' = [pc EXCEPT ![p] = "announce"]
          /\ UNCHANGED <<locks, job, snap, rest, wave>>
          /\ ~PlanError(j, s) /\ ~OrderError(j, s) /\ s.open = {} /\ Fresh(p)
      BY <1>4 DEF Check, GoTo
    <2>2. /\ pc'[p] = "announce"
          /\ \A q \in Procs \ {p} : pc'[q] = pc[q]
      BY <1>1, <2>1 DEF TypeOK
    <2>3. /\ s.ledger = [c \in ClaimsAt(s.refs) |-> ledger[c]]
          /\ s.content = [c \in ClaimsAt(s.refs) |-> content[c]]
          /\ s.receipts = receipts \cap s.refs
          /\ open \cap s.refs = {}
      BY <2>1 DEF Fresh, Snapshot
    <2>4. TypeOK' /\ DOMAIN snap' = Procs /\ Labelled'
      BY <1>1, <1>2, <2>1 DEF IInv, TypeOK, Labels, Labelled, store, locks
    <2>5. Touches(p)
      BY <1>2, <2>1, <2>2 DEF Touches, store, locks
    <2>6. Known(p)'
      BY <1>2, <2>1 DEF IInv, Process, Known
    <2>7. Locking(p)'
      <3>1. Holding(p)' = Holding(p)
        BY <1>2, <2>1, <2>2 DEF Holding
      <3> QED
        BY <1>2, <2>1, <2>2, <3>1 DEF IInv, Process, Locking, locks
    <2>8. IndexKnown(p)'
      BY <1>2, <2>1, <2>2 DEF IInv, Process, IndexKnown, Executing, store
    <2>9. Sound(p)'
      <3>1. /\ s.ledger \in [ClaimsAt(s.refs) -> Owned \cup {None}]
            /\ s.content \in [ClaimsAt(s.refs) -> Contents]
        BY <1>1, <2>3 DEF TypeOK, ClaimsAt
      <3> QED
        BY <1>2, <2>1, <2>3, <3>1 DEF Sound, store
    <2>10. Halfway(p)'
      <3>1. Undone(p)' = s.refs
        BY <2>1, <2>2 DEF Undone
      <3>2. \A c \in ClaimsAt(s.refs) :
               Site[c] \in s.refs /\ ledger'[c] = s.ledger[c]
        BY <1>2, <2>3 DEF ClaimsAt, store
      <3> QED
        BY <1>2, <2>1, <2>2, <2>3, <3>1, <3>2 DEF Halfway, store
    <2>11. Waving(p)'
      BY <2>2 DEF Waving
    <2> QED
      BY <2>4, <2>5, <2>6, <2>7, <2>8, <2>9, <2>10, <2>11 DEF Kept, Process
  <1> QED
    BY <1>3, <1>4

\* The next wave, of what is left.
LEMMA WaveOfRest ==
    ASSUME NEW j, NEW s, ~OrderError(j, s), NEW left \in SUBSET s.refs
    PROVE  /\ Wave(j, s, left) \subseteq left
           /\ left # {} => Wave(j, s, left) # {}
           /\ \A r \in Wave(j, s, left), q \in left : <<r, q>> \notin Edges(j, s)
  BY WaveExists DEF Wave

LEMMA AnnounceKeeps ==
    ASSUME IInv, NEW p \in Procs, Announce(p)
    PROVE  Kept(p)
  <1> DEFINE j == job[p]
             s == snap[p]
             i == job[p].inst
             pending == PendingIndex(s.index, j.gen, s.refs)
  <1>1. TypeOK /\ DOMAIN snap = Procs
    BY DEF IInv
  <1>2. /\ pc[p] = "announce"
        /\ index' = [index EXCEPT ![i] = pending]
        /\ rest' = [rest EXCEPT ![p] = s.refs]
        /\ wave' = [wave EXCEPT ![p] = Wave(j, s, s.refs)]
        /\ pc' = [pc EXCEPT ![p] = IF s.refs = {} THEN "complete" ELSE "prepare"]
        /\ UNCHANGED <<ledger, receipts, content, open, locks, job, snap,
                       faults, edits>>
    BY DEF Announce, GoTo
  <1>3. /\ i \in Installs /\ j.gen \in Generations \cup {None}
        /\ s.refs \subseteq Resources /\ s.index \in Indexes \cup {None}
    BY <1>2, HoldingType DEF IInv, Process, Known
  <1>4. /\ pc'[p] = IF s.refs = {} THEN "complete" ELSE "prepare"
        /\ rest'[p] = s.refs /\ wave'[p] = Wave(j, s, s.refs)
        /\ \A q \in Procs \ {p} :
              pc'[q] = pc[q] /\ rest'[q] = rest[q] /\ wave'[q] = wave[q]
    BY <1>1, <1>2 DEF TypeOK
  <1>5. indexLock[i] = p
    BY <1>2, <1>3 DEF IInv, Process, Locking
  <1>6. ~OrderError(j, s)
    BY <1>2 DEF IInv, Process, Sound, Executing
  <1>7. pending \in Indexes
    BY <1>3, IndexTypes
  <1>8. TypeOK' /\ DOMAIN snap' = Procs /\ Labelled'
    <2>1. Wave(j, s, s.refs) \subseteq Resources
      BY <1>3 DEF Wave
    <2>2. pc' \in [Procs -> Labels]
      BY <1>1, <1>2 DEF TypeOK, Labels
    <2> QED
      BY <1>1, <1>2, <1>3, <1>7, <2>1, <2>2 DEF IInv, TypeOK, Labelled, locks
  <1>9. Touches(p)
    BY <1>1, <1>2, <1>3, <1>4, <1>5 DEF Touches, TypeOK, locks
  <1>10. Known(p)'
    BY <1>2 DEF IInv, Process, Known
  <1>11. Locking(p)'
    <2>1. Holding(p)' = Holding(p)
      BY <1>2, <1>4 DEF Holding
    <2> QED
      BY <1>2, <1>4, <2>1 DEF IInv, Process, Locking, locks
  <1>12. IndexKnown(p)'
    BY <1>1, <1>2, <1>3, <1>4 DEF IndexKnown, TypeOK
  <1>13. Sound(p)'
    BY <1>2 DEF IInv, Process, Sound, Executing
  <1>14. Halfway(p)'
    <2>1. Undone(p) = s.refs /\ Undone(p)' = s.refs
      BY <1>2, <1>4 DEF Undone
    <2> QED
      BY <1>2, <1>4, <2>1 DEF IInv, Process, Halfway, Executing
  <1>15. Waving(p)'
    BY <1>2, <1>4, <1>6, WaveOfRest DEF Waving
  <1> QED
    BY <1>8, <1>9, <1>10, <1>11, <1>12, <1>13, <1>14, <1>15 DEF Kept, Process

\* The write of an index that fails: the index is the one before or the one
\* after it.
LEMMA IndexWriteFails ==
    ASSUME IInv, NEW p \in Procs, pc[p] \in {"announce", "complete"},
           Return(p), Fault, NEW ix \in Indexes,
           index' = index \/ index' = [index EXCEPT ![job[p].inst] = ix],
           UNCHANGED <<ledger, receipts, content, open, edits>>
    PROVE  Kept(p)
  <1>1. TypeOK /\ faults' \in 0..MaxFaults
    BY FaultType DEF IInv
  <1>2. job[p].inst \in Installs /\ indexLock[job[p].inst] = p
    BY HoldingType DEF IInv, Process, Locking
  <1>3. index' \in [Installs -> Indexes \cup {None}]
    BY <1>1 DEF TypeOK
  <1>4. \A i \in Installs : index'[i] # index[i] => indexLock[i] = p
    BY <1>1, <1>2 DEF TypeOK
  <1> QED
    BY <1>1, <1>3, <1>4, EndKeeps DEF TypeOK

LEMMA AnnounceFailsKeeps ==
    ASSUME IInv, NEW p \in Procs, AnnounceFails(p)
    PROVE  Kept(p)
  <1>1. pc[p] = "announce"
    BY DEF AnnounceFails
  <1>2. PendingIndex(snap[p].index, job[p].gen, snap[p].refs) \in Indexes
    BY <1>1, HoldingType, IndexTypes DEF IInv, Process, Known
  <1> QED
    BY <1>2, IndexWriteFails DEF AnnounceFails

LEMMA CompleteFailsKeeps ==
    ASSUME IInv, NEW p \in Procs, CompleteFails(p)
    PROVE  Kept(p)
  <1>1. pc[p] = "complete"
    BY DEF CompleteFails
  <1>2. CompletedIndex(job[p].gen) \in Indexes
    BY <1>1, HoldingType, IndexTypes DEF IInv, Process, Known
  <1> QED
    BY <1>2, IndexWriteFails DEF CompleteFails

LEMMA CompleteKeeps ==
    ASSUME IInv, NEW p \in Procs, Complete(p)
    PROVE  Kept(p)
  <1>1. /\ pc[p] = "complete" /\ Return(p)
        /\ index' = [index EXCEPT ![job[p].inst] = CompletedIndex(job[p].gen)]
        /\ UNCHANGED <<ledger, receipts, content, open, faults, edits>>
    BY DEF Complete
  <1>2. TypeOK
    BY DEF IInv
  <1>3. CompletedIndex(job[p].gen) \in Indexes
    BY <1>1, HoldingType, IndexTypes DEF IInv, Process, Known
  <1>4. job[p].inst \in Installs /\ indexLock[job[p].inst] = p
    BY <1>1, HoldingType DEF IInv, Process, Locking
  <1>5. index' \in [Installs -> Indexes \cup {None}]
    BY <1>1, <1>2, <1>3 DEF TypeOK
  <1>6. \A i \in Installs : index'[i] # index[i] => indexLock[i] = p
    BY <1>1, <1>2, <1>4 DEF TypeOK
  <1> QED
    BY <1>1, <1>2, <1>5, <1>6, EndKeeps DEF TypeOK

\* The resource that a process works on is one it has locked and still has to
\* do.
LEMMA Current ==
    ASSUME IInv, NEW p \in Procs, pc[p] \in {"prepare", "publish", "cleanup"}
    PROVE  /\ First(wave[p]) \in wave[p] /\ First(wave[p]) \in rest[p]
           /\ wave[p] \subseteq rest[p] /\ rest[p] \subseteq snap[p].refs
           /\ First(wave[p]) \in snap[p].refs /\ First(wave[p]) \in Resources
           /\ resourceLock[First(wave[p])] = p
           /\ snap[p].refs \subseteq Resources
           /\ job[p] \in Jobs /\ Observed(snap[p])
           /\ ~PlanError(job[p], snap[p]) /\ ~OrderError(job[p], snap[p])
           /\ snap[p].receipts \subseteq receipts
  <1>1. /\ wave[p] # {} /\ wave[p] \subseteq rest[p]
        /\ rest[p] \subseteq snap[p].refs /\ snap[p].refs \subseteq Resources
    BY HoldingType DEF IInv, Process, Waving
  <1>2. First(wave[p]) \in wave[p]
    BY <1>1, FirstIn
  <1>3. resourceLock[First(wave[p])] = p
    BY <1>1, <1>2 DEF IInv, Process, Locking, Holding
  <1>4. /\ job[p] \in Jobs /\ Observed(snap[p])
        /\ ~PlanError(job[p], snap[p]) /\ ~OrderError(job[p], snap[p])
        /\ snap[p].receipts \subseteq receipts
    BY DEF IInv, Process, Known, Sound, Executing, Observed
  <1> QED
    BY <1>1, <1>2, <1>3, <1>4

LEMMA AdvanceKeeps ==
    ASSUME IInv, NEW p \in Procs, pc[p] \in {"prepare", "cleanup"}, Advance(p),
           UNCHANGED <<index, ledger, receipts, content, locks, job, snap,
                       faults, edits>>,
           open' = open \/ open' = open \ {First(wave[p])},
           open' \cap snap[p].refs = {},
           First(wave[p]) \in receipts,
           \A c \in ClaimsAt(snap[p].refs) :
              Site[c] = First(wave[p]) =>
                 ledger[c] = Planned(job[p], snap[p], c)
    PROVE  Kept(p)
  <1> DEFINE j == job[p]
             s == snap[p]
             r == First(wave[p])
             left == rest[p] \ {r}
             now == wave[p] \ {r}
  <1>1. TypeOK /\ DOMAIN snap = Procs
    BY DEF IInv
  <1>2. /\ r \in wave[p] /\ r \in rest[p]
        /\ wave[p] \subseteq rest[p] /\ rest[p] \subseteq s.refs
        /\ r \in Resources /\ resourceLock[r] = p /\ s.refs \subseteq Resources
        /\ ~OrderError(j, s)
    BY Current
  <1>3. /\ rest' = [rest EXCEPT ![p] = left]
        /\ wave' = [wave EXCEPT ![p] = IF now # {} THEN now ELSE Wave(j, s, left)]
        /\ pc' = [pc EXCEPT ![p] = IF left = {} THEN "complete" ELSE "prepare"]
    BY DEF Advance, GoTo
  <1>4. /\ rest'[p] = left
        /\ wave'[p] = (IF now # {} THEN now ELSE Wave(j, s, left))
        /\ pc'[p] = (IF left = {} THEN "complete" ELSE "prepare")
        /\ \A q \in Procs \ {p} :
              pc'[q] = pc[q] /\ rest'[q] = rest[q] /\ wave'[q] = wave[q]
    BY <1>1, <1>3 DEF TypeOK
  <1>5. wave'[p] \subseteq left
    BY <1>2, <1>4 DEF Wave
  <1>6. TypeOK' /\ DOMAIN snap' = Procs /\ Labelled'
    <2>1. pc' \in [Procs -> Labels]
      BY <1>1, <1>3 DEF TypeOK, Labels
    <2>2. /\ rest' \in [Procs -> SUBSET Resources]
          /\ wave' \in [Procs -> SUBSET Resources]
      BY <1>1, <1>2, <1>3, <1>4, <1>5 DEF TypeOK
    <2> QED
      BY <1>1, <2>1, <2>2 DEF IInv, TypeOK, Labelled, locks
  <1>7. Touches(p)
    BY <1>2, <1>4 DEF Touches, locks
  <1>8. Known(p)'
    BY <1>4 DEF IInv, Process, Known
  <1>9. Locking(p)'
    <2>1. Holding(p)' = Holding(p)
      BY <1>4 DEF Holding
    <2> QED
      BY <1>4, <2>1 DEF IInv, Process, Locking, locks
  <1>10. IndexKnown(p)'
    BY <1>4 DEF IInv, Process, IndexKnown, Executing
  <1>11. Sound(p)'
    BY <1>4 DEF IInv, Process, Sound, Executing
  <1>12. Halfway(p)'
    <2>1. Undone(p)' = left
      BY <1>4 DEF Undone
    <2>2. Undone(p) \subseteq rest[p] /\ left \subseteq Undone(p)
      BY DEF Undone
    <2>3. /\ \A c \in ClaimsAt(s.refs) :
                ledger[c] = IF Site[c] \in Undone(p) THEN s.ledger[c]
                            ELSE Planned(j, s, c)
          /\ s.refs \ Undone(p) \subseteq receipts
      BY DEF IInv, Process, Halfway, Executing
    <2>4. \A c \in ClaimsAt(s.refs) :
             ledger[c] = IF Site[c] \in left THEN s.ledger[c]
                         ELSE Planned(j, s, c)
      BY <2>2, <2>3
    <2>5. s.refs \ left \subseteq receipts
      BY <2>2, <2>3
    <2> QED
      BY <2>1, <2>4, <2>5 DEF Halfway
  <1>13. Waving(p)'
    <2>1. \A a \in wave[p], q \in rest[p] : <<a, q>> \notin Edges(j, s)
      BY DEF IInv, Process, Waving
    <2>2. left \subseteq s.refs
      BY <1>2
    <2>3. /\ left # {} => Wave(j, s, left) # {}
          /\ \A a \in Wave(j, s, left), q \in left : <<a, q>> \notin Edges(j, s)
      BY <1>2, <2>2, WaveOfRest
    <2>4. \A a \in wave'[p], q \in left : <<a, q>> \notin Edges(j, s)
      BY <1>4, <2>1, <2>3
    <2>5. left # {} => wave'[p] # {}
      BY <1>4, <2>3
    <2> HIDE DEF left
    <2> QED
      BY <1>4, <1>5, <2>2, <2>4, <2>5 DEF Waving
  <1> QED
    BY <1>6, <1>7, <1>8, <1>9, <1>10, <1>11, <1>12, <1>13 DEF Kept, Process

LEMMA SkipKeeps ==
    ASSUME IInv, NEW p \in Procs, Skip(p)
    PROVE  Kept(p)
  <1> DEFINE r == First(wave[p])
  <1>1. /\ pc[p] = "prepare" /\ UnchangedPlan(job[p], snap[p], r) /\ Advance(p)
        /\ UNCHANGED <<store, locks, job, snap, faults, edits>>
    BY DEF Skip
  <1>2. r \in rest[p] /\ snap[p].receipts \subseteq receipts
    BY <1>1, Current
  <1>3. r \in receipts
    BY <1>1, <1>2 DEF UnchangedPlan
  <1>4. \A c \in ClaimsAt(snap[p].refs) :
           Site[c] = r => ledger[c] = Planned(job[p], snap[p], c)
    BY <1>1, <1>2
    DEF IInv, Process, Halfway, Executing, Undone, UnchangedPlan, ClaimsAt
  <1>5. open \cap snap[p].refs = {}
    BY <1>1 DEF IInv, Process, Halfway, Executing
  <1> QED
    BY <1>1, <1>3, <1>4, <1>5, AdvanceKeeps DEF store

LEMMA CleanupKeeps ==
    ASSUME IInv, NEW p \in Procs, Cleanup(p)
    PROVE  Kept(p)
  <1> DEFINE r == First(wave[p])
  <1>1. /\ pc[p] = "cleanup" /\ open' = open \ {r} /\ Advance(p)
        /\ UNCHANGED <<index, ledger, receipts, content, locks, job, snap,
                       faults, edits>>
    BY DEF Cleanup
  <1>2. r \in snap[p].refs
    BY <1>1, Current
  <1>3. Undone(p) = rest[p] \ {r}
    BY <1>1 DEF Undone
  <1>4. r \in receipts
    BY <1>1, <1>2, <1>3 DEF IInv, Process, Halfway, Executing
  <1>5. \A c \in ClaimsAt(snap[p].refs) :
           Site[c] = r => ledger[c] = Planned(job[p], snap[p], c)
    BY <1>1, <1>3 DEF IInv, Process, Halfway, Executing
  <1>6. open' \cap snap[p].refs = {}
    BY <1>1 DEF IInv, Process, Halfway, Executing
  <1> QED
    BY <1>1, <1>4, <1>5, <1>6, AdvanceKeeps

LEMMA PrepareKeeps ==
    ASSUME IInv, NEW p \in Procs, Prepare(p)
    PROVE  Kept(p)
  <1> DEFINE r == First(wave[p])
  <1>1. TypeOK /\ DOMAIN snap = Procs
    BY DEF IInv
  <1>2. /\ pc[p] = "prepare" /\ open' = open \cup {r}
        /\ pc' = [pc EXCEPT ![p] = "publish"]
        /\ UNCHANGED <<index, ledger, receipts, content, locks, job, snap, rest,
                       wave, faults, edits>>
    BY DEF Prepare, GoTo
  <1>3. r \in Resources /\ resourceLock[r] = p
    BY <1>2, Current
  <1>4. pc'[p] = "publish" /\ \A q \in Procs \ {p} : pc'[q] = pc[q]
    BY <1>1, <1>2 DEF TypeOK
  <1>5. TypeOK' /\ DOMAIN snap' = Procs /\ Labelled'
    BY <1>1, <1>2, <1>3 DEF IInv, TypeOK, Labels, Labelled, locks
  <1>6. Touches(p)
    BY <1>2, <1>3, <1>4 DEF Touches, locks
  <1>7. Known(p)'
    BY <1>2 DEF IInv, Process, Known
  <1>8. Locking(p)'
    <2>1. Holding(p)' = Holding(p)
      BY <1>2, <1>4 DEF Holding
    <2> QED
      BY <1>2, <1>4, <2>1 DEF IInv, Process, Locking, locks
  <1>9. IndexKnown(p)'
    BY <1>2, <1>4 DEF IInv, Process, IndexKnown, Executing
  <1>10. Sound(p)'
    BY <1>2, <1>4 DEF IInv, Process, Sound, Executing
  <1>11. Halfway(p)'
    <2>1. Undone(p)' = Undone(p)
      BY <1>2, <1>4 DEF Undone
    <2> QED
      BY <1>2, <1>4, <2>1 DEF IInv, Process, Halfway, Executing
  <1>12. Waving(p)'
    BY <1>2, <1>4 DEF IInv, Process, Waving
  <1> QED
    BY <1>5, <1>6, <1>7, <1>8, <1>9, <1>10, <1>11, <1>12 DEF Kept, Process

\* What the publication of one resource does, in terms of the plan.
LEMMA Published ==
    ASSUME IInv, NEW p \in Procs, Publish(p)
    PROVE  /\ pc[p] = "publish" /\ job[p] \in Jobs /\ Observed(snap[p])
           /\ ~PlanError(job[p], snap[p]) /\ ~OrderError(job[p], snap[p])
           /\ First(wave[p]) \in snap[p].refs
           /\ ledger' \in [Claims -> Owned \cup {None}]
           /\ content' \in [Claims -> Contents]
           /\ \A c \in Claims :
                 IF Site[c] = First(wave[p])
                 THEN /\ c \in ClaimsAt(snap[p].refs)
                      /\ ledger[c] = snap[p].ledger[c]
                      /\ content[c] = snap[p].content[c]
                      /\ ledger'[c] = Planned(job[p], snap[p], c)
                      /\ content'[c] = After(job[p], snap[p], c)
                 ELSE ledger'[c] = ledger[c] /\ content'[c] = content[c]
  <1> DEFINE r == First(wave[p])
             s == snap[p]
  <1>1. /\ pc[p] = "publish" /\ AsPlanned(p, r)
        /\ ledger' = [c \in Claims |-> IF c \in ClaimsAt({r})
                         THEN Planned(job[p], s, c) ELSE ledger[c]]
        /\ content' = [c \in Claims |-> IF c \in ClaimsAt({r})
                         THEN After(job[p], s, c) ELSE content[c]]
    BY DEF Publish
  <1>2. /\ r \in s.refs /\ r \in rest[p] /\ job[p] \in Jobs /\ Observed(s)
        /\ ~PlanError(job[p], s) /\ ~OrderError(job[p], s)
    BY <1>1, Current
  <1>3. \A c \in Claims : Site[c] = r =>
           /\ c \in ClaimsAt({r}) /\ c \in ClaimsAt(s.refs)
           /\ content[c] = s.content[c]
    BY <1>1, <1>2 DEF ClaimsAt, AsPlanned
  <1>4. \A c \in Claims : Site[c] = r => ledger[c] = s.ledger[c]
    <2>1. Undone(p) = rest[p]
      BY <1>1 DEF Undone
    <2>2. \A c \in ClaimsAt(s.refs) :
             Site[c] \in rest[p] => ledger[c] = s.ledger[c]
      BY <1>1, <2>1 DEF IInv, Process, Halfway, Executing
    <2> QED
      BY <1>2, <1>3, <2>2
  <1>5. \A c \in Claims : c \in ClaimsAt({r}) <=> Site[c] = r
    BY DEF ClaimsAt
  <1>6. \A c \in ClaimsAt(s.refs) :
           /\ Planned(job[p], s, c) \in Owned \cup {None}
           /\ After(job[p], s, c) \in Contents
    BY <1>2, PlannedCases
  <1>7. /\ ledger' \in [Claims -> Owned \cup {None}]
        /\ content' \in [Claims -> Contents]
    BY <1>1, <1>3, <1>5, <1>6 DEF IInv, TypeOK
  <1> QED
    BY <1>1, <1>2, <1>3, <1>4, <1>5, <1>7

LEMMA PublishKeeps ==
    ASSUME IInv, NEW p \in Procs, Publish(p)
    PROVE  Kept(p)
  <1> DEFINE r == First(wave[p])
             j == job[p]
             s == snap[p]
  <1>1. TypeOK /\ DOMAIN snap = Procs
    BY DEF IInv
  <1>2. /\ pc[p] = "publish" /\ receipts' = receipts \cup {r}
        /\ pc' = [pc EXCEPT ![p] = "cleanup"]
        /\ UNCHANGED <<index, open, locks, job, snap, rest, wave, faults, edits>>
    BY DEF Publish, GoTo
  <1>3. /\ r \in Resources /\ r \in rest[p] /\ resourceLock[r] = p
        /\ rest[p] \subseteq s.refs
    BY <1>2, Current
  <1>4. /\ ledger' \in [Claims -> Owned \cup {None}]
        /\ content' \in [Claims -> Contents]
        /\ job[p] \in Jobs /\ Observed(s)
        /\ \A c \in Claims :
              IF Site[c] = r
              THEN /\ c \in ClaimsAt(s.refs)
                   /\ ledger[c] = s.ledger[c]
                   /\ ledger'[c] = Planned(j, s, c)
              ELSE ledger'[c] = ledger[c]
    BY Published
  <1>5. pc'[p] = "cleanup" /\ \A q \in Procs \ {p} : pc'[q] = pc[q]
    BY <1>1, <1>2 DEF TypeOK
  <1>6. TypeOK'
    BY <1>1, <1>2, <1>3, <1>4 DEF TypeOK, Labels, locks
  <1>7. Labelled'
    <2> SUFFICES ASSUME NEW c \in Claims, ledger'[c] # None
                 PROVE  ledger'[c].claim = c
      BY DEF Labelled
    <2>1. CASE ledger'[c] = ledger[c]
      BY <2>1 DEF IInv, Labelled
    <2>2. CASE ledger'[c] # ledger[c]
      <3>1. /\ c \in ClaimsAt(s.refs) /\ ledger'[c] = Planned(j, s, c)
            /\ ledger[c] = s.ledger[c]
        BY <1>4, <2>2
      <3> QED
        BY <1>4, <2>2, <3>1, PlannedCases
    <2> QED
      BY <2>1, <2>2
  <1>8. Touches(p)
    BY <1>2, <1>3, <1>4, <1>5 DEF Touches, locks
  <1>9. Known(p)'
    BY <1>2 DEF IInv, Process, Known
  <1>10. Locking(p)'
    <2>1. Holding(p)' = Holding(p)
      BY <1>2, <1>5 DEF Holding
    <2> QED
      BY <1>2, <1>5, <2>1 DEF IInv, Process, Locking, locks
  <1>11. IndexKnown(p)'
    BY <1>2, <1>5 DEF IInv, Process, IndexKnown, Executing
  <1>12. Sound(p)'
    BY <1>2, <1>5 DEF IInv, Process, Sound, Executing
  <1>13. Halfway(p)'
    <2>1. Undone(p)' = rest[p] \ {r} /\ Undone(p) = rest[p]
      BY <1>2, <1>5 DEF Undone
    <2>2. /\ \A c \in ClaimsAt(s.refs) :
                ledger[c] = IF Site[c] \in rest[p] THEN s.ledger[c]
                            ELSE Planned(j, s, c)
          /\ s.refs \ rest[p] \subseteq receipts
          /\ \A k \in open \cap s.refs : k = r
      BY <1>2, <2>1 DEF IInv, Process, Halfway, Executing
    <2>3. \A c \in ClaimsAt(s.refs) :
             ledger'[c] = IF Site[c] \in rest[p] \ {r} THEN s.ledger[c]
                          ELSE Planned(j, s, c)
      BY <1>3, <1>4, <2>2 DEF ClaimsAt
    <2> QED
      BY <1>2, <1>5, <2>1, <2>2, <2>3 DEF Halfway
  <1>14. Waving(p)'
    BY <1>2, <1>5 DEF IInv, Process, Waving
  <1> QED
    BY <1>1, <1>2, <1>6, <1>7, <1>8, <1>9, <1>10, <1>11, <1>12, <1>13, <1>14
    DEF Kept, Process

LEMMA StopKeeps ==
    ASSUME IInv, NEW p \in Procs, Stop(p)
    PROVE  Kept(p)
  <1> DEFINE r == First(wave[p])
  <1>1. /\ pc[p] \in {"prepare", "publish", "cleanup"}
        /\ open' = open \/ open' = open \ {r}
        /\ Fault \/ faults' = faults
        /\ Return(p)
        /\ UNCHANGED <<index, ledger, receipts, content, edits>>
    BY DEF Stop
  <1>2. r \in Resources /\ resourceLock[r] = p
    BY <1>1, Current
  <1>3. faults' \in 0..MaxFaults
    BY <1>1, FaultType
  <1> QED
    BY <1>1, <1>2, <1>3, EndKeeps DEF IInv, TypeOK

LEMMA StepKeeps ==
    ASSUME IInv, NEW p \in Procs,
           \/ \E j \in Jobs : Start(p, j)
           \/ Step(p)
           \/ GiveUp(p) \/ RecoveryFails(p) \/ AnnounceFails(p) \/ Stop(p)
           \/ CompleteFails(p) \/ Crash(p)
    PROVE  Kept(p)
  BY StartKeeps, LockIndexKeeps, LockResourceKeeps, LockedKeeps,
     RecoverResourceKeeps, RecoveredKeeps, CheckKeeps, AnnounceKeeps, SkipKeeps,
     PrepareKeeps, PublishKeeps, CleanupKeeps, CompleteKeeps, GiveUpKeeps,
     AnnounceFailsKeeps, StopKeeps, CompleteFailsKeeps DEF Step

\* The user's edits touch nothing that a call has written down.
LEMMA EditKeeps ==
    ASSUME IInv, NEW c \in Claims, NEW b \in Contents, Edit(c, b)
    PROVE  IInv'
  <1>1. /\ content' = [content EXCEPT ![c] = b] /\ edits' = edits + 1
        /\ edits < MaxEdits
        /\ UNCHANGED <<index, ledger, receipts, open, locks, progress, faults>>
    BY DEF Edit
  <1>2. TypeOK'
    BY <1>1, ProcessAssumption DEF IInv, TypeOK, locks, progress
  <1>3. ASSUME NEW p \in Procs PROVE Process(p)'
    <2>1. Process(p)
      BY DEF IInv
    <2>2. Known(p)' /\ IndexKnown(p)' /\ Sound(p)' /\ Waving(p)'
      BY <1>1, <2>1 DEF Process, Known, IndexKnown, Sound, Waving, progress
    <2>3. Holding(p)' = Holding(p) /\ Undone(p)' = Undone(p)
      BY <1>1 DEF Holding, Undone, progress
    <2>4. Locking(p)' /\ Halfway(p)'
      BY <1>1, <2>1, <2>3 DEF Process, Locking, Halfway, locks, progress
    <2> QED
      BY <2>2, <2>4 DEF Process
  <1> QED
    BY <1>1, <1>2, <1>3 DEF IInv, Labelled, progress

LEMMA StutterKeeps ==
    ASSUME IInv, UNCHANGED vars
    PROVE  IInv'
  <1>1. TypeOK'
    BY DEF IInv, TypeOK, vars
  <1>2. ASSUME NEW p \in Procs PROVE Process(p)'
    <2>1. Process(p)
      BY DEF IInv
    <2>2. Known(p)' /\ IndexKnown(p)' /\ Sound(p)' /\ Waving(p)'
      BY <2>1 DEF Process, Known, IndexKnown, Sound, Waving, vars
    <2>3. Holding(p)' = Holding(p) /\ Undone(p)' = Undone(p)
      BY DEF Holding, Undone, vars
    <2>4. Locking(p)' /\ Halfway(p)'
      BY <2>1, <2>3 DEF Process, Locking, Halfway, vars
    <2> QED
      BY <2>2, <2>4 DEF Process
  <1> QED
    BY <1>1, <1>2 DEF IInv, Labelled, vars

LEMMA InitKeeps == Init => IInv
  <1> SUFFICES ASSUME Init PROVE IInv
    OBVIOUS
  <1>1. TypeOK
    BY ProcessAssumption DEF Init, TypeOK, Labels
  <1>2. ASSUME NEW p \in Procs PROVE Process(p)
    BY NoneAssumption
    DEF Init, Process, Known, Locking, Holding, IndexKnown, Sound, Halfway,
        Waving, Executing
  <1> QED
    BY <1>1, <1>2 DEF Init, IInv, Labelled

LEMMA Invariant == Spec => []IInv
  <1>1. IInv /\ [Next]_vars => IInv'
    BY StepKeeps, KeptKeeps, EditKeeps, StutterKeeps DEF Next
  <1> QED
    BY <1>1, InitKeeps, PTL DEF Spec

\* Every variable keeps its type.
THEOREM TypeCorrect == Spec => []TypeOK
  <1>1. IInv => TypeOK
    BY DEF IInv
  <1> QED
    BY <1>1, Invariant, PTL

----------------------------------------------------------------------------
(* Locks.                                                                  *)

\* Above a resource a process waits for there are fewer resources than above
\* any it has locked.
LEMMA FewerAbove ==
    ASSUME NEW r \in Resources, NEW q \in Resources, r < q
    PROVE  /\ Cardinality({k \in Resources : r < k}) \in Nat
           /\ Cardinality({k \in Resources : q < k}) \in Nat
           /\ Cardinality({k \in Resources : q < k})
                 < Cardinality({k \in Resources : r < k})
  <1> DEFINE low == {k \in Resources : r < k}
             high == {k \in Resources : q < k}
  <1>1. Resources \subseteq Nat /\ IsFiniteSet(Resources)
    BY RenderingAssumption
  <1>2. low \in SUBSET Resources /\ high \in SUBSET Resources
    OBVIOUS
  <1>3. IsFiniteSet(low) /\ IsFiniteSet(high)
    BY <1>1, <1>2, FS_Subset
  <1>4. Cardinality(low) \in Nat /\ Cardinality(high) \in Nat
    BY <1>3, FS_CardinalityType
  <1>5. high \subseteq low /\ q \in low /\ q \notin high
    <2>1. \A k \in Resources : k \in Nat /\ (q < k => r < k)
      BY <1>1
    <2>2. q \in low /\ q \notin high
      BY <1>1
    <2> QED
      BY <2>1, <2>2
  <1>6. /\ Cardinality(high) <= Cardinality(low)
        /\ Cardinality(low) = Cardinality(high) => low = high
    BY <1>3, <1>5, FS_Subset
  <1> HIDE DEF low, high
  <1>7. Cardinality(high) < Cardinality(low)
    BY <1>4, <1>5, <1>6
  <1> QED
    BY <1>4, <1>7 DEF low, high

\* A process that somebody waits for and that waits itself waits for a
\* resource, and for one behind those it has locked.
LEMMA WaitsBehind ==
    ASSUME IInv, NEW p \in Procs, NEW q \in Procs, NEW o \in Procs,
           WaitsFor(p, q), WaitsFor(q, o)
    PROVE  /\ pc[q] = "lock" /\ rest[q] # {} /\ First(rest[q]) \in Resources
           /\ pc[p] = "lock" =>
                 /\ First(rest[p]) \in Resources
                 /\ First(rest[p]) < First(rest[q])
  <1>1. pc[q] \in {"index", "lock"} /\ q # None
    BY NoneAssumption DEF WaitsFor
  <1>2. pc[p] = "index" => pc[q] \notin {"idle", "index"}
    <2>1. pc[p] = "index" => job[p].inst \in Installs
      BY HoldingType
    <2> QED
      BY <2>1 DEF WaitsFor, IInv, Process, Locking
  <1>3. pc[p] = "lock" =>
          /\ First(rest[p]) \in Resources /\ First(rest[p]) \in Holding(q)
    <2>1. pc[p] = "lock" => First(rest[p]) \in Resources
      BY HoldingType, FirstIn DEF WaitsFor
    <2> QED
      BY <2>1 DEF WaitsFor, IInv, Process, Locking
  <1>4. pc[q] = "lock" /\ rest[q] # {}
    BY <1>1, <1>2, <1>3 DEF WaitsFor, Holding
  <1>5. First(rest[q]) \in rest[q] /\ First(rest[q]) \in Resources
    BY <1>4, HoldingType, FirstIn
  <1>6. pc[p] = "lock" => First(rest[p]) \in snap[q].refs \ rest[q]
    BY <1>3, <1>4 DEF Holding
  <1> QED
    BY <1>3, <1>4, <1>5, <1>6 DEF IInv, Process, Locking

\* No circle of processes waits for each other's locks, for any number of
\* processes and installations and whatever resources they share: the resource
\* locks are taken in destination order, and nobody waits for an index while
\* it holds a lock.
THEOREM NeverDeadlocked == Spec => []NoLockCycle
  <1>1. IInv => NoLockCycle
    <2> SUFFICES ASSUME IInv, NEW ps \in SUBSET Procs, ps # {},
                        \A p \in ps : \E q \in ps : WaitsFor(p, q)
                 PROVE  FALSE
      BY DEF NoLockCycle
    <2> DEFINE Waiting == {p \in ps : pc[p] = "lock"}
               Behind(p) == Cardinality({k \in Resources : First(rest[p]) < k})
               Counts == {Behind(p) : p \in Waiting}
    <2>1. \A p, q \in ps : WaitsFor(p, q) =>
             /\ q \in Waiting
             /\ p \in Waiting => Behind(q) < Behind(p) /\ Behind(p) \in Nat
      <3> SUFFICES ASSUME NEW p \in ps, NEW q \in ps, WaitsFor(p, q)
                   PROVE  /\ q \in Waiting
                          /\ p \in Waiting =>
                                Behind(q) < Behind(p) /\ Behind(p) \in Nat
        OBVIOUS
      <3>1. PICK o \in ps : WaitsFor(q, o)
        OBVIOUS
      <3>2. p \in Procs /\ q \in Procs /\ o \in Procs
        OBVIOUS
      <3>3. /\ pc[q] = "lock" /\ First(rest[q]) \in Resources
            /\ pc[p] = "lock" =>
                  /\ First(rest[p]) \in Resources
                  /\ First(rest[p]) < First(rest[q])
        BY <3>1, <3>2, WaitsBehind
      <3> QED
        BY <3>3, FewerAbove
    <2> HIDE DEF Behind
    <2>2. \A p \in Waiting : Behind(p) \in Nat
      BY <2>1
    <2>3. Counts \in SUBSET Nat /\ Counts # {}
      BY <2>1, <2>2
    <2>4. PICK least \in Counts : \A n \in Counts : least <= n
      BY <2>3, NatMin
    <2>5. PICK p \in Waiting : least = Behind(p)
      BY <2>4
    <2>6. PICK q \in ps : WaitsFor(p, q)
      BY <2>5
    <2>7. q \in Waiting /\ Behind(q) < Behind(p)
      BY <2>1, <2>5, <2>6
    <2>8. Behind(p) <= Behind(q) /\ Behind(p) \in Nat /\ Behind(q) \in Nat
      BY <2>2, <2>4, <2>5, <2>7
    <2> QED
      BY <2>7, <2>8
  <1> QED
    BY <1>1, Invariant, PTL

----------------------------------------------------------------------------
(* What a publication may do to recorded and to unrecorded content.        *)

LEMMA OthersPublishNothing ==
    ASSUME IInv, [Next]_vars, \A p \in Procs : ~Publish(p)
    PROVE  ledger' = ledger /\ (content' = content \/ edits' # edits)
  <1>1. CASE UNCHANGED vars
    BY <1>1 DEF vars
  <1>2. CASE \E c \in Claims, b \in Contents : Edit(c, b)
    BY <1>2 DEF Edit, IInv, TypeOK
  <1>3. CASE \E p \in Procs : \/ \E j \in Jobs : Start(p, j)
                              \/ Step(p)
                              \/ GiveUp(p) \/ RecoveryFails(p) \/ AnnounceFails(p)
                              \/ Stop(p) \/ CompleteFails(p) \/ Crash(p)
    BY <1>3
    DEF Start, Step, LockIndex, LockResource, Locked, RecoverResource,
        Recovered, Check, Announce, Skip, Prepare, Cleanup, Complete, GiveUp,
        RecoveryFails, AnnounceFails, Stop, CompleteFails, Crash, store
  <1> QED
    BY <1>1, <1>2, <1>3 DEF Next

\* Of a claim that changes hands or content: it was free, or it was the
\* publishing bundle's own.
LEMMA PlannedChange ==
    ASSUME NEW j \in Jobs, NEW s, Observed(s), ~PlanError(j, s),
           NEW c \in ClaimsAt(s.refs)
    PROVE  /\ (s.ledger[c] # None /\ Planned(j, s, c) # s.ledger[c]) =>
                 /\ s.ledger[c].owner = Bundle[j.inst]
                 /\ Planned(j, s, c) # None =>
                       /\ Planned(j, s, c).owner = s.ledger[c].owner
                       /\ Planned(j, s, c).baseline = s.ledger[c].baseline
                 /\ Planned(j, s, c) = None =>
                       After(j, s, c) = s.ledger[c].baseline
           /\ (s.ledger[c] = None /\ Planned(j, s, c) # None) =>
                 s.content[c] \in
                    {Nothing, After(j, s, c), Planned(j, s, c).baseline}
           /\ (/\ s.ledger[c] # None /\ After(j, s, c) # s.content[c]
               /\ s.content[c] # Body[s.ledger[c].gen][c]) => j.replace
  <1>1. c \in Claims /\ c \in DOMAIN s.ledger
    BY DEF Observed, ClaimsAt
  <1>2. /\ Conflicting(j, s) = {} /\ Unacquirable(j, s) = {}
        /\ Modified(j, s) # {} => j.replace
    BY DEF PlanError
  <1>3. c \in Own(j, s) <=>
          s.ledger[c] # None /\ s.ledger[c].owner = Bundle[j.inst]
    BY <1>1 DEF Own
  <1>4. c \in Desired(j, s) /\ s.ledger[c] # None => c \in Own(j, s)
    BY <1>2, <1>3 DEF Conflicting
  <1>5. c \in Own(j, s) => Baseline(j, s, c) = s.ledger[c].baseline
    BY DEF Baseline
  <1>6. c \in Desired(j, s) \ Own(j, s) =>
          s.content[c] \in {Nothing, Body[j.gen][c], Baseline(j, s, c)}
    BY <1>2, JobFields DEF Unacquirable, Baseline, Acquisitions
  <1>7. c \in Own(j, s) /\ s.content[c] # Body[s.ledger[c].gen][c] => j.replace
    BY <1>2 DEF Modified
  <1>8. (s.ledger[c] # None /\ Planned(j, s, c) # s.ledger[c]) =>
           /\ c \in Own(j, s)
           /\ Planned(j, s, c) # None => c \in Desired(j, s)
           /\ Planned(j, s, c) = None => c \notin Desired(j, s)
    BY <1>4, NoneAssumption, PlannedCases
  <1>9. (s.ledger[c] = None /\ Planned(j, s, c) # None) =>
           c \in Desired(j, s) \ Own(j, s)
    BY <1>3, PlannedCases
  <1>10. (s.ledger[c] # None /\ After(j, s, c) # s.content[c]) => c \in Own(j, s)
    BY <1>4, PlannedCases
  <1> QED
    BY <1>3, <1>5, <1>6, <1>7, <1>8, <1>9, <1>10, PlannedCases

\* Recorded ownership moves by a call of the owning bundle only, and never to
\* another bundle.
THEOREM OnlyOwnersMove == Spec => OwnersOnly
  <1>1. IInv /\ [Next]_vars => [\A c \in Claims : MovedByOwner(c)]_vars
    <2> SUFFICES ASSUME IInv, [Next]_vars PROVE \A c \in Claims : MovedByOwner(c)
      OBVIOUS
    <2>1. CASE \A p \in Procs : ~Publish(p)
      BY <2>1, OthersPublishNothing DEF MovedByOwner
    <2>2. CASE \E p \in Procs : Publish(p)
      <3>1. PICK p \in Procs : Publish(p)
        BY <2>2
      <3> QED
        BY <3>1, Published, PlannedChange DEF MovedByOwner
    <2> QED
      BY <2>1, <2>2
  <1> QED
    BY <1>1, Invariant, PTL DEF Spec, OwnersOnly

\* What nobody owned is kept as the baseline when it is taken over, and comes
\* back when the claim is given up; until then the baseline stays.
THEOREM BaselinesAlwaysKept == Spec => BaselinesKept
  <1>1. IInv /\ [Next]_vars => [\A c \in Claims : BaselineStays(c)]_vars
    <2> SUFFICES ASSUME IInv, [Next]_vars PROVE \A c \in Claims : BaselineStays(c)
      OBVIOUS
    <2>1. CASE \A p \in Procs : ~Publish(p)
      BY <2>1, OthersPublishNothing DEF BaselineStays
    <2>2. CASE \E p \in Procs : Publish(p)
      <3>1. PICK p \in Procs : Publish(p)
        BY <2>2
      <3> QED
        BY <3>1, Published, PlannedChange DEF BaselineStays
    <2> QED
      BY <2>1, <2>2
  <1> QED
    BY <1>1, Invariant, PTL DEF Spec, BaselinesKept

\* What the user wrote over an owned selection is replaced on request only.
THEOREM EditsAlwaysKept == Spec => EditsKept
  <1>1. IInv /\ [Next]_vars => [\A c \in Claims : EditStays(c)]_vars
    <2> SUFFICES ASSUME IInv, [Next]_vars PROVE \A c \in Claims : EditStays(c)
      OBVIOUS
    <2>1. CASE \A p \in Procs : ~Publish(p)
      BY <2>1, OthersPublishNothing DEF EditStays
    <2>2. CASE \E p \in Procs : Publish(p)
      <3>1. PICK p \in Procs : Publish(p)
        BY <2>2
      <3> QED
        BY <3>1, Published, PlannedChange DEF EditStays
    <2> QED
      BY <2>1, <2>2
  <1> QED
    BY <1>1, Invariant, PTL DEF Spec, EditsKept

----------------------------------------------------------------------------
(* What an index names.                                                    *)

LEMMA PendingNames ==
    ASSUME NEW ix \in Indexes \cup {None}, NEW g \in Generations \cup {None},
           NEW rs, rs = References(g, ix)
    PROVE  /\ IndexResources(PendingIndex(ix, g, rs)) = rs
           /\ IndexResources(ix) \subseteq rs /\ Members(g) \subseteq rs
           /\ \A r \in Resources :
                 ExpectsReceipt(PendingIndex(ix, g, rs), r) =>
                    ExpectsReceipt(ix, r)
  <1> DEFINE current == IF ix = None THEN None ELSE ix.current
  <1>1. PendingIndex(ix, g, rs) =
          [current |-> current, pending |-> g, previous |-> current,
           residual |-> rs]
    BY DEF PendingIndex
  <1>2. current \in Generations \cup {None}
    BY DEF Indexes
  <1>3. rs \subseteq Resources
    BY ReferencesType
  <1>4. PendingIndex(ix, g, rs) # None
    BY <1>3, IndexTypes, NoneAssumption
  <1>5. IndexResources(ix) \subseteq rs /\ Members(g) \subseteq rs
    BY DEF References
  <1>6. Members(None) = {}
    BY DEF Members, Membership
  <1>7. Members(current) \subseteq IndexResources(ix)
    BY <1>6 DEF IndexResources
  <1>8. IndexResources(PendingIndex(ix, g, rs)) = rs
    BY <1>1, <1>4, <1>5, <1>7 DEF IndexResources
  <1>9. ASSUME NEW r \in Resources, ExpectsReceipt(PendingIndex(ix, g, rs), r)
        PROVE  ExpectsReceipt(ix, r)
    BY <1>1, <1>6, <1>9 DEF ExpectsReceipt
  <1> QED
    BY <1>5, <1>8, <1>9

LEMMA CompletedNames ==
    ASSUME NEW g \in Generations \cup {None}
    PROVE  /\ IndexResources(CompletedIndex(g)) = Members(g)
           /\ CompletedIndex(g).current = g
           /\ \A r \in Resources :
                 ExpectsReceipt(CompletedIndex(g), r) => r \in Members(g)
  <1>1. CompletedIndex(g) # None
    <2>1. CompletedIndex(g) \in Indexes
      BY DEF CompletedIndex, Indexes
    <2> QED
      BY <2>1, NoneAssumption
  <1>2. Members(None) = {}
    BY DEF Members, Membership
  <1> QED
    BY <1>1, <1>2 DEF CompletedIndex, IndexResources, ExpectsReceipt

\* When the plan is done the bundle owns, of what it referred to, what the
\* generation holds; nothing of it is open, and all of it has receipts.
LEMMA PlanDone ==
    ASSUME IInv, NEW p \in Procs, pc[p] = "complete"
    PROVE  /\ \A c \in Claims :
                 (/\ ledger[c] # None /\ ledger[c].owner = Bundle[job[p].inst]
                  /\ Site[c] \in snap[p].refs) =>
                    c \in Membership(job[p].gen)
           /\ \A c \in Membership(job[p].gen) :
                 /\ c \in Claims
                 /\ ledger[c] # None /\ ledger[c].owner = Bundle[job[p].inst]
                 /\ ledger[c].gen = job[p].gen
           /\ snap[p].refs \subseteq receipts
           /\ open \cap snap[p].refs = {}
           /\ Members(job[p].gen) \subseteq snap[p].refs
           /\ job[p].gen \in Generations \cup {None}
           /\ job[p].inst \in Installs /\ indexLock[job[p].inst] = p
           /\ IndexResources(index[job[p].inst]) = snap[p].refs
  <1> DEFINE j == job[p]
             s == snap[p]
  <1>1. /\ j \in Jobs /\ s.index \in Indexes \cup {None}
        /\ s.refs = References(j.gen, s.index)
        /\ Observed(s) /\ rest[p] = {} /\ Undone(p) = {}
    BY DEF IInv, Process, Known, Sound, Waving, Undone, Executing, Observed
  <1>2. /\ j.gen \in Generations \cup {None} /\ j.inst \in Installs
        /\ s.refs \subseteq Resources
    BY HoldingType
  <1>3. indexLock[j.inst] = p
    BY <1>2 DEF IInv, Process, Locking
  <1>4. /\ index[j.inst] = PendingIndex(s.index, j.gen, s.refs)
        /\ IndexResources(index[j.inst]) = s.refs
        /\ Members(j.gen) \subseteq s.refs
    BY <1>1, <1>2, PendingNames DEF IInv, Process, IndexKnown, Executing
  <1>5. /\ \A c \in ClaimsAt(s.refs) : ledger[c] = Planned(j, s, c)
        /\ s.refs \subseteq receipts /\ open \cap s.refs = {}
    BY <1>1 DEF IInv, Process, Halfway, Executing
  <1>6. \A c \in ClaimsAt(s.refs) :
           c \in Desired(j, s) <=> c \in Membership(j.gen)
    BY <1>1 DEF Observed, Desired
  <1>7. ASSUME NEW c \in Claims, ledger[c] # None,
               ledger[c].owner = Bundle[j.inst], Site[c] \in s.refs
        PROVE  c \in Membership(j.gen)
    <2>1. c \in ClaimsAt(s.refs) /\ ledger[c] = Planned(j, s, c)
      BY <1>5, <1>7 DEF ClaimsAt
    <2>2. c \in DOMAIN s.ledger
      BY <1>1, <2>1 DEF Observed
    <2>3. c \in Desired(j, s)
      BY <1>1, <1>7, <2>1, <2>2, PlannedCases DEF Own
    <2> QED
      BY <1>6, <2>1, <2>3
  <1>8. ASSUME NEW c \in Membership(j.gen)
        PROVE  /\ c \in Claims /\ ledger[c] # None
               /\ ledger[c].owner = Bundle[j.inst] /\ ledger[c].gen = j.gen
    <2>1. c \in Claims /\ Site[c] \in Members(j.gen)
      BY <1>2, MembersType
    <2>2. c \in ClaimsAt(s.refs)
      BY <1>4, <2>1 DEF ClaimsAt
    <2>3. c \in Desired(j, s) /\ ledger[c] = Planned(j, s, c)
      BY <1>5, <1>6, <2>2
    <2> QED
      BY <1>1, <2>1, <2>2, <2>3, NoneAssumption, PlannedCases
  <1> QED
    BY <1>2, <1>3, <1>4, <1>5, <1>7, <1>8

----------------------------------------------------------------------------
(* What a step does to the stores.                                         *)

\* The index of one installation is announced.
Announces(p) ==
    /\ job[p].inst \in Installs
    /\ snap[p].index = index[job[p].inst]
    /\ snap[p].index \in Indexes \cup {None}
    /\ job[p].gen \in Generations \cup {None}
    /\ snap[p].refs = References(job[p].gen, snap[p].index)
    /\ index' = [index EXCEPT ![job[p].inst] =
                    PendingIndex(snap[p].index, job[p].gen, snap[p].refs)]
    /\ UNCHANGED <<ledger, receipts, content, open>>

\* It is completed.
Completes(p) ==
    /\ pc[p] = "complete"
    /\ index' = [index EXCEPT ![job[p].inst] = CompletedIndex(job[p].gen)]
    /\ UNCHANGED <<ledger, receipts, content, open>>

\* Transactions are opened or closed at the resources of an announced index.
Opens(p) ==
    /\ pc[p] = "prepare"
    /\ open' = open \cup {First(wave[p])}
    /\ UNCHANGED <<index, ledger, receipts>>

Closes ==
    /\ open' \subseteq open
    /\ UNCHANGED <<index, ledger, receipts>>

LEMMA StoreSteps ==
    ASSUME IInv, [Next]_vars
    PROVE  \/ Closes
           \/ \E p \in Procs :
                 Announces(p) \/ Completes(p) \/ Opens(p) \/ Publish(p)
  <1>1. CASE UNCHANGED vars
    BY <1>1 DEF vars, Closes
  <1>2. CASE \E c \in Claims, b \in Contents : Edit(c, b)
    BY <1>2 DEF Edit, Closes
  <1>3. ASSUME NEW p \in Procs, Announce(p) \/ AnnounceFails(p)
        PROVE  Announces(p) \/ Closes
    <2>1. pc[p] = "announce"
      BY <1>3 DEF Announce, AnnounceFails
    <2>2. /\ job[p].inst \in Installs
          /\ job[p].gen \in Generations \cup {None}
          /\ snap[p].index = index[job[p].inst]
          /\ snap[p].index \in Indexes \cup {None}
          /\ snap[p].refs = References(job[p].gen, snap[p].index)
      BY <2>1, HoldingType DEF IInv, Process, Known, IndexKnown
    <2> QED
      BY <1>3, <2>2 DEF Announce, AnnounceFails, Announces, Closes
  <1>4. ASSUME NEW p \in Procs, Complete(p) \/ CompleteFails(p)
        PROVE  Completes(p) \/ Closes
    BY <1>4 DEF Complete, CompleteFails, Completes, Closes
  <1>5. ASSUME NEW p \in Procs,
               \/ \E j \in Jobs : Start(p, j)
               \/ LockIndex(p) \/ LockResource(p) \/ Locked(p)
               \/ RecoverResource(p) \/ Recovered(p) \/ Check(p) \/ Skip(p)
               \/ Cleanup(p) \/ GiveUp(p) \/ RecoveryFails(p) \/ Stop(p)
               \/ Crash(p)
        PROVE  Closes
    BY <1>5
    DEF Start, LockIndex, LockResource, Locked, RecoverResource, Recovered,
        Check, Skip, Cleanup, GiveUp, RecoveryFails, Stop, Crash, store, Closes
  <1>6. ASSUME NEW p \in Procs, Prepare(p)
        PROVE  Opens(p)
    BY <1>6 DEF Prepare, Opens
  <1> QED
    BY <1>1, <1>2, <1>3, <1>4, <1>5, <1>6 DEF Next, Step

\* A publication under an announced index.
LEMMA PublishedUnder ==
    ASSUME IInv, NEW p \in Procs, pc[p] \in {"prepare", "publish"}
    PROVE  /\ job[p].inst \in Installs
           /\ First(wave[p]) \in IndexResources(index[job[p].inst])
           /\ IndexResources(index[job[p].inst]) = snap[p].refs
           /\ index[job[p].inst].residual # {}
           /\ First(wave[p]) \in Resources
  <1>1. /\ job[p] \in Jobs /\ First(wave[p]) \in snap[p].refs
        /\ First(wave[p]) \in Resources
    BY Current
  <1>2. /\ index[job[p].inst] =
             PendingIndex(snap[p].index, job[p].gen, snap[p].refs)
        /\ snap[p].index \in Indexes \cup {None}
        /\ snap[p].refs = References(job[p].gen, snap[p].index)
    BY DEF IInv, Process, IndexKnown, Known, Executing
  <1>3. IndexResources(index[job[p].inst]) = snap[p].refs
    BY <1>1, <1>2, JobFields, PendingNames
  <1>4. index[job[p].inst].residual = snap[p].refs
    BY <1>2 DEF PendingIndex
  <1> QED
    BY <1>1, <1>3, <1>4, JobFields

LEMMA DiscoverableKeeps ==
    ASSUME IInv, Discoverable, [Next]_vars
    PROVE  Discoverable'
  <1>1. CASE Closes
    BY <1>1 DEF Closes, Discoverable
  <1>2. ASSUME NEW p \in Procs, Announces(p)
        PROVE  Discoverable'
    <2> DEFINE i == job[p].inst
    <2>1. /\ i \in Installs /\ index \in [Installs -> Indexes \cup {None}]
          /\ index'[i] = PendingIndex(index[i], job[p].gen, snap[p].refs)
          /\ \A k \in Installs \ {i} : index'[k] = index[k]
          /\ UNCHANGED <<ledger, receipts, open>>
      BY <1>2 DEF Announces, IInv, TypeOK
    <2>2. /\ IndexResources(index[i]) \subseteq IndexResources(index'[i])
          /\ \A r \in Resources : ExpectsReceipt(index'[i], r) =>
                ExpectsReceipt(index[i], r)
      <3>1. /\ index[i] \in Indexes \cup {None}
            /\ job[p].gen \in Generations \cup {None}
            /\ snap[p].refs = References(job[p].gen, index[i])
        BY <1>2 DEF Announces
      <3> QED
        BY <2>1, <3>1, PendingNames
    <2>3. \A k \in Installs :
             /\ IndexResources(index[k]) \subseteq IndexResources(index'[k])
             /\ \A r \in Resources : ExpectsReceipt(index'[k], r) =>
                   ExpectsReceipt(index[k], r)
      BY <2>1, <2>2
    <2> QED
      BY <2>1, <2>3 DEF Discoverable
  <1>3. ASSUME NEW p \in Procs, Completes(p)
        PROVE  Discoverable'
    <2> DEFINE i == job[p].inst
    <2>1. /\ i \in Installs /\ job[p].gen \in Generations \cup {None}
          /\ IndexResources(index[i]) = snap[p].refs
          /\ snap[p].refs \subseteq receipts /\ open \cap snap[p].refs = {}
          /\ Members(job[p].gen) \subseteq snap[p].refs
          /\ \A c \in Claims :
                (/\ ledger[c] # None /\ ledger[c].owner = Bundle[i]
                 /\ Site[c] \in snap[p].refs) => c \in Membership(job[p].gen)
      BY <1>3, PlanDone DEF Completes
    <2>2. /\ index'[i] = CompletedIndex(job[p].gen)
          /\ \A k \in Installs \ {i} : index'[k] = index[k]
          /\ UNCHANGED <<ledger, receipts, open>>
      BY <1>3, <2>1 DEF Completes, IInv, TypeOK
    <2>3. /\ IndexResources(index'[i]) = Members(job[p].gen)
          /\ \A r \in Resources :
                ExpectsReceipt(index'[i], r) => r \in Members(job[p].gen)
      BY <2>1, <2>2, CompletedNames
    <2>4. ASSUME NEW c \in Claims, ledger[c] # None
          PROVE  \E k \in Installs : /\ Bundle[k] = ledger[c].owner
                                     /\ Site[c] \in IndexResources(index'[k])
      <3>1. PICK k \in Installs : /\ Bundle[k] = ledger[c].owner
                                  /\ Site[c] \in IndexResources(index[k])
        BY <2>4 DEF Discoverable
      <3>2. CASE k # i
        BY <2>2, <3>1, <3>2
      <3>3. CASE k = i
        <4>1. c \in Membership(job[p].gen)
          BY <2>1, <2>4, <3>1, <3>3
        <4>2. Site[c] \in Members(job[p].gen)
          BY <4>1 DEF Members
        <4> QED
          BY <2>3, <3>1, <3>3, <4>2
      <3> QED
        BY <3>2, <3>3
    <2>5. ASSUME NEW r \in open
          PROVE  \E k \in Installs : r \in IndexResources(index'[k])
      <3>1. PICK k \in Installs : r \in IndexResources(index[k])
        BY DEF Discoverable
      <3>2. k # i
        BY <2>1, <3>1
      <3> QED
        BY <2>2, <3>1, <3>2
    <2>6. ASSUME NEW k \in Installs, NEW r \in Resources,
                 ExpectsReceipt(index'[k], r)
          PROVE  r \in receipts
      BY <2>1, <2>2, <2>3, <2>6 DEF Discoverable
    <2> QED
      BY <2>2, <2>4, <2>5, <2>6 DEF Discoverable
  <1>4. ASSUME NEW p \in Procs, Opens(p)
        PROVE  Discoverable'
    <2>1. /\ job[p].inst \in Installs
          /\ First(wave[p]) \in IndexResources(index[job[p].inst])
      BY <1>4, PublishedUnder DEF Opens
    <2> QED
      BY <1>4, <2>1 DEF Opens, Discoverable
  <1>5. ASSUME NEW p \in Procs, Publish(p)
        PROVE  Discoverable'
    <2> DEFINE r == First(wave[p])
    <2>1. UNCHANGED <<index, open>> /\ receipts \subseteq receipts'
      BY <1>5 DEF Publish
    <2>2. /\ job[p].inst \in Installs
          /\ r \in IndexResources(index[job[p].inst])
      BY <1>5, Published, PublishedUnder
    <2>3. ASSUME NEW c \in Claims, ledger'[c] # None
          PROVE  \E k \in Installs : /\ Bundle[k] = ledger'[c].owner
                                     /\ Site[c] \in IndexResources(index[k])
      <3>1. CASE ledger'[c] = ledger[c]
        BY <2>3, <3>1 DEF Discoverable
      <3>2. CASE ledger'[c] # ledger[c]
        <4>1. /\ Site[c] = r /\ ledger'[c].owner = Bundle[job[p].inst]
          BY <1>5, <2>3, <3>2, Published, PlannedCases
        <4> QED
          BY <2>2, <4>1
      <3> QED
        BY <3>1, <3>2
    <2> QED
      BY <2>1, <2>3 DEF Discoverable
  <1> QED
    BY <1>1, <1>2, <1>3, <1>4, <1>5, StoreSteps

\* Whatever an installation owns, and whatever transaction it left open, is at
\* a resource its index names, and no receipt that an index calls for is
\* missing, whatever fails, dies or competes: for any number of installations,
\* resources, generations and processes.
THEOREM AlwaysDiscoverable == Spec => []Discoverable
  <1>1. Init => Discoverable
    BY DEF Init, Discoverable, ExpectsReceipt
  <1> QED
    BY <1>1, DiscoverableKeeps, Invariant, PTL DEF Spec

----------------------------------------------------------------------------
(* One context for each bundle.  What a bundle owns is then one            *)
(* installation's own, and only that installation's calls move it.         *)

OneContext == \A i, k \in Installs : Bundle[i] = Bundle[k] => i = k

\* An index that is completed announces nothing.
LEMMA CompletedIsQuiet ==
    ASSUME NEW g
    PROVE  CompletedIndex(g).residual = {} /\ CompletedIndex(g).pending = None
           /\ CompletedIndex(g).previous = None
  BY DEF CompletedIndex

LEMMA ExactKeeps ==
    ASSUME OneContext, IInv, Discoverable, CompletedIsExact, [Next]_vars
    PROVE  CompletedIsExact'
  <1> SUFFICES ASSUME NEW i \in Installs, index'[i] # None,
                      index'[i] = CompletedIndex(index'[i].current)
               PROVE  /\ {c \in Claims : ledger'[c] # None
                                         /\ ledger'[c].owner = Bundle[i]}
                            = Membership(index'[i].current)
                      /\ \A c \in Membership(index'[i].current) :
                            ledger'[c].gen = index'[i].current
    BY DEF CompletedIsExact
  <1>0. /\ IInv' /\ Discoverable'
        /\ index' \in [Installs -> Indexes \cup {None}]
    <2>1. IInv'
      BY StepKeeps, KeptKeeps, EditKeeps, StutterKeeps DEF Next
    <2> QED
      BY <2>1, DiscoverableKeeps DEF IInv, TypeOK
  <1>1. ASSUME index'[i] = index[i], ledger' = ledger
        PROVE  /\ {c \in Claims : ledger'[c] # None
                                  /\ ledger'[c].owner = Bundle[i]}
                     = Membership(index'[i].current)
               /\ \A c \in Membership(index'[i].current) :
                     ledger'[c].gen = index'[i].current
    BY <1>1 DEF CompletedIsExact
  <1>2. CASE Closes
    BY <1>1, <1>2 DEF Closes
  <1>3. ASSUME NEW p \in Procs, Opens(p)
        PROVE  index'[i] = index[i] /\ ledger' = ledger
    BY <1>3 DEF Opens
  <1>4. ASSUME NEW p \in Procs, Announces(p)
        PROVE  /\ {c \in Claims : ledger'[c] # None
                                  /\ ledger'[c].owner = Bundle[i]}
                     = Membership(index'[i].current)
               /\ \A c \in Membership(index'[i].current) :
                     ledger'[c].gen = index'[i].current
    <2>1. CASE job[p].inst # i
      <3>1. index'[i] = index[i] /\ ledger' = ledger
        BY <1>4, <2>1 DEF Announces
      <3> QED
        BY <1>1, <3>1
    \* an announced index is complete only where nothing was or is to be owned
    <2>2. CASE job[p].inst = i
      <3>1. /\ index'[i] = PendingIndex(index[i], job[p].gen, snap[p].refs)
            /\ ledger' = ledger
        BY <1>4, <2>2 DEF Announces, IInv, TypeOK
      <3>2. /\ index'[i].residual = {} /\ index'[i].previous = None
            /\ index'[i].pending = None
        BY CompletedIsQuiet
      <3>3. index'[i].current = index'[i].previous
        BY <3>1 DEF PendingIndex
      <3>4. Membership(None) = {} /\ Members(None) = {}
        BY DEF Membership, Members
      <3>5. IndexResources(index'[i]) = {}
        BY <3>2, <3>3, <3>4 DEF IndexResources
      <3>6. \A c \in Claims :
               ~(ledger'[c] # None /\ ledger'[c].owner = Bundle[i])
        BY <1>0, <3>5 DEF Discoverable, OneContext
      <3> QED
        BY <3>2, <3>3, <3>4, <3>6
    <2> QED
      BY <2>1, <2>2
  <1>5. ASSUME NEW p \in Procs, Completes(p)
        PROVE  /\ {c \in Claims : ledger'[c] # None
                                  /\ ledger'[c].owner = Bundle[i]}
                     = Membership(index'[i].current)
               /\ \A c \in Membership(index'[i].current) :
                     ledger'[c].gen = index'[i].current
    <2>1. CASE job[p].inst # i
      <3>1. index'[i] = index[i] /\ ledger' = ledger
        BY <1>5, <2>1 DEF Completes
      <3> QED
        BY <1>1, <3>1
    <2>2. CASE job[p].inst = i
      <3>1. /\ \A c \in Claims :
                  (/\ ledger[c] # None /\ ledger[c].owner = Bundle[i]
                   /\ Site[c] \in snap[p].refs) =>
                     c \in Membership(job[p].gen)
            /\ \A c \in Membership(job[p].gen) :
                  /\ c \in Claims
                  /\ ledger[c] # None /\ ledger[c].owner = Bundle[i]
                  /\ ledger[c].gen = job[p].gen
            /\ IndexResources(index[i]) = snap[p].refs
            /\ job[p].gen \in Generations \cup {None}
        BY <1>5, <2>2, PlanDone DEF Completes
      <3>2. /\ index'[i] = CompletedIndex(job[p].gen) /\ ledger' = ledger
        BY <1>5, <2>2 DEF Completes, IInv, TypeOK
      <3>3. index'[i].current = job[p].gen
        BY <3>1, <3>2, CompletedNames
      <3>4. \A c \in Claims :
               ledger[c] # None /\ ledger[c].owner = Bundle[i] =>
                  Site[c] \in snap[p].refs
        BY <3>1 DEF Discoverable, OneContext
      <3> QED
        BY <3>1, <3>2, <3>3, <3>4
    <2> QED
      BY <2>1, <2>2
  <1>6. ASSUME NEW p \in Procs, Publish(p)
        PROVE  /\ {c \in Claims : ledger'[c] # None
                                  /\ ledger'[c].owner = Bundle[i]}
                     = Membership(index'[i].current)
               /\ \A c \in Membership(index'[i].current) :
                     ledger'[c].gen = index'[i].current
    <2>1. /\ index' = index /\ pc[p] = "publish"
          /\ job[p].inst \in Installs /\ index[job[p].inst].residual # {}
      BY <1>6, PublishedUnder DEF Publish
    <2>2. job[p].inst # i
      BY <2>1, CompletedIsQuiet
    <2>3. Bundle[job[p].inst] # Bundle[i]
      BY <2>1, <2>2 DEF OneContext
    <2>4. \A c \in Claims : ledger'[c] # ledger[c] =>
             /\ ledger[c] # None => ledger[c].owner = Bundle[job[p].inst]
             /\ ledger'[c] # None => ledger'[c].owner = Bundle[job[p].inst]
      BY <1>6, Published, PlannedChange, PlannedCases
    <2>5. \A c \in Claims :
             (ledger[c] # None /\ ledger[c].owner = Bundle[i]) <=>
                (ledger'[c] # None /\ ledger'[c].owner = Bundle[i])
      BY <2>3, <2>4
    <2>6. \A c \in Claims :
             ledger'[c] # None /\ ledger'[c].owner = Bundle[i] =>
                ledger'[c] = ledger[c]
      BY <2>3, <2>4
    <2>7. /\ {c \in Claims : ledger[c] # None /\ ledger[c].owner = Bundle[i]}
                = Membership(index[i].current)
          /\ \A c \in Membership(index[i].current) :
                ledger[c].gen = index[i].current
      BY <2>1 DEF CompletedIsExact
    <2>8. {c \in Claims : ledger[c] # None /\ ledger[c].owner = Bundle[i]}
             = {c \in Claims : ledger'[c] # None /\ ledger'[c].owner = Bundle[i]}
      BY <2>5
    <2> QED
      BY <2>1, <2>6, <2>7, <2>8
  <1> QED
    BY <1>1, <1>2, <1>3, <1>4, <1>5, <1>6, StoreSteps

\* A completed index is exact, when no bundle is installed in two contexts of
\* one state store: the bundle owns what the generation holds, in that
\* generation, and nothing else anywhere.
THEOREM CompletedStaysExact ==
    ASSUME OneContext
    PROVE  Spec => []CompletedIsExact
  <1>1. Init => CompletedIsExact
    BY DEF Init, CompletedIsExact
  <1>2. IInv /\ Discoverable /\ CompletedIsExact /\ [Next]_vars =>
          CompletedIsExact'
    BY ExactKeeps
  <1> QED
    BY <1>1, <1>2, AlwaysDiscoverable, Invariant, PTL DEF Spec

----------------------------------------------------------------------------
(* References.                                                             *)

\* What a claim requires belongs to its own bundle.
SameOwner ==
    \A c \in Claims : ledger[c] # None =>
        \A q \in Requirements(ledger[c]) :
            ledger[q] # None /\ ledger[q].owner = ledger[c].owner

\* The plan never requires what it does not hold.
LEMMA NeededIsHeld ==
    ASSUME NEW g \in Generations, NEW c \in Claims, NEW q \in Claims,
           <<c, q>> \in Needs[g]
    PROVE  c \in Membership(g) /\ q \in Membership(g) /\ Site[q] \in Members(g)
  <1>1. Body[g][c] # Nothing /\ Body[g][q] # Nothing
    BY RenderingAssumption
  <1>2. g # None
    BY RenderingAssumption
  <1> QED
    BY <1>1, <1>2 DEF Membership, Members

\* One publication keeps every reference whole.  The dependent claim is new:
\* what it requires is published with it or before it.  Or it stays, and what
\* it requires changes: then not before the dependent's own resource, if it is
\* given up, and not in content, unless the reference is a stable one.
LEMMA ReferenceKeeps ==
    ASSUME OneContext, IInv, Discoverable, ReferencesHold, SameOwner,
           NEW p \in Procs, Publish(p),
           NEW c \in Claims, ledger'[c] # None,
           NEW q \in Claims, q \in Requirements(ledger'[c])
    PROVE  /\ ledger'[q] # None /\ ledger'[q].owner = ledger'[c].owner
           /\ \/ <<c, q>> \in Stable[ledger'[c].gen]
              \/ Body[ledger'[q].gen][q] = Body[ledger'[c].gen][q]
  <1> DEFINE j == job[p]
             s == snap[p]
             r == First(wave[p])
  <1>1. /\ j \in Jobs /\ Observed(s) /\ ~PlanError(j, s) /\ ~OrderError(j, s)
        /\ r \in s.refs
        /\ \A k \in Claims :
              IF Site[k] = r
              THEN /\ k \in ClaimsAt(s.refs)
                   /\ ledger[k] = s.ledger[k]
                   /\ ledger'[k] = Planned(j, s, k)
              ELSE ledger'[k] = ledger[k]
        /\ ledger' \in [Claims -> Owned \cup {None}]
    BY Published
  <1>2. /\ pc[p] = "publish" /\ r \in rest[p] /\ r \in wave[p]
        /\ rest[p] \subseteq s.refs
    BY Current DEF Publish
  <1>3. /\ j.inst \in Installs /\ IndexResources(index[j.inst]) = s.refs
        /\ j.gen \in Generations \cup {None} /\ Members(j.gen) \subseteq s.refs
    <2>1. /\ s.index \in Indexes \cup {None}
          /\ s.refs = References(j.gen, s.index)
      BY <1>2 DEF IInv, Process, Known
    <2> QED
      BY <1>1, <1>2, <2>1, PublishedUnder, JobFields DEF References
  \* what has been done is as planned, what has not is as it was read
  <1>4. \A k \in ClaimsAt(s.refs) :
           ledger[k] = IF Site[k] \in rest[p] THEN s.ledger[k]
                       ELSE Planned(j, s, k)
    <2>1. Undone(p) = rest[p]
      BY <1>2 DEF Undone
    <2> QED
      BY <1>2, <2>1 DEF IInv, Process, Halfway, Executing
  <1>5. \A k \in rest[p] : <<r, k>> \notin Edges(j, s)
    BY <1>2 DEF IInv, Process, Waving
  <1>6. Labelled /\ Labelled'
    <2>1. Kept(p)
      BY PublishKeeps
    <2> QED
      BY <2>1 DEF Kept, IInv
  <1>7. /\ ledger'[c].claim = c /\ <<c, q>> \in Needs[ledger'[c].gen]
        /\ ledger'[c].gen \in Generations
    BY <1>1, <1>6 DEF Labelled, Requirements, Owned
  <1>8. \A k \in ClaimsAt(s.refs) :
           k \in Desired(j, s) <=> k \in Membership(j.gen)
    BY <1>1 DEF Observed, Desired
  <1> DEFINE Whole ==
               /\ ledger'[q] # None /\ ledger'[q].owner = ledger'[c].owner
               /\ \/ <<c, q>> \in Stable[ledger'[c].gen]
                  \/ Body[ledger'[q].gen][q] = Body[ledger'[c].gen][q]
  <1>9. CASE ledger'[c] = ledger[c] /\ ledger'[q] = ledger[q]
    BY <1>9 DEF ReferencesHold, SameOwner
  \* both are as planned
  <1>10. ASSUME c \in ClaimsAt(s.refs), c \in Desired(j, s),
                ledger'[c] = Planned(j, s, c),
                Site[q] = r \/ Site[q] \notin rest[p]
         PROVE  Whole
    <2>1. /\ ledger'[c].gen = j.gen /\ ledger'[c].owner = Bundle[j.inst]
          /\ j.gen \in Generations
      BY <1>1, <1>10, PlannedCases
    <2>2. q \in Membership(j.gen) /\ Site[q] \in Members(j.gen)
      BY <1>7, <2>1, NeededIsHeld
    <2>3. q \in ClaimsAt(s.refs) /\ q \in Desired(j, s)
      BY <1>3, <1>8, <2>2 DEF ClaimsAt
    <2>4. /\ Planned(j, s, q) # None /\ Planned(j, s, q).gen = j.gen
          /\ Planned(j, s, q).owner = Bundle[j.inst]
      BY <1>1, <2>3, NoneAssumption, PlannedCases
    <2>5. ledger'[q] = Planned(j, s, q)
      BY <1>1, <1>4, <1>10, <2>3
    <2> QED
      BY <2>1, <2>4, <2>5
  \* a changed claim is or was of this plan's bundle
  <1>11. ASSUME NEW k \in Claims, ledger'[k] # ledger[k], ledger[k] # None
         PROVE  /\ Site[k] = r /\ k \in ClaimsAt(s.refs)
                /\ ledger[k] = s.ledger[k] /\ ledger'[k] = Planned(j, s, k)
                /\ ledger[k].owner = Bundle[j.inst]
                /\ ledger'[k] # None => ledger'[k].owner = ledger[k].owner
    BY <1>1, <1>11, PlannedChange
  <1>12. ASSUME NEW k \in ClaimsAt(s.refs), Planned(j, s, k) # None,
                k \notin Desired(j, s)
         PROVE  /\ Planned(j, s, k) = s.ledger[k]
                /\ Planned(j, s, k).owner # Bundle[j.inst]
    <2>1. k \notin Own(j, s) /\ Planned(j, s, k) = s.ledger[k]
      BY <1>1, <1>12, PlannedCases
    <2> QED
      BY <1>1, <1>12, <2>1 DEF Own, Observed
  <1>13. CASE Site[c] = r
    <2>1. /\ c \in ClaimsAt(s.refs) /\ ledger'[c] = Planned(j, s, c)
          /\ ledger[c] = s.ledger[c]
      BY <1>1, <1>13
    <2>2. CASE c \in Desired(j, s)
      \* it does not run ahead of what it requires
      <3>1. Site[q] = r \/ Site[q] \notin rest[p]
        <4> SUFFICES ASSUME Site[q] # r PROVE Site[q] \notin rest[p]
          OBVIOUS
        <4>1. ledger'[c].gen = j.gen /\ j.gen \in Generations
          BY <1>1, <2>1, <2>2, PlannedCases
        <4>2. <<c, q>> \in Needs[j.gen] /\ j.gen # None
          BY <1>7, <4>1, RenderingAssumption
        <4>3. <<r, Site[q]>> \in Edges(j, s)
          <5>1. <<c, q>> \in {n \in Needs[j.gen] : Site[n[1]] # Site[n[2]]}
            BY <1>13, <4>2
          <5>2. <<Site[c], Site[q]>> \in
                  {<<Site[e[1]], Site[e[2]]>> :
                      e \in {n \in Needs[j.gen] : Site[n[1]] # Site[n[2]]}}
            BY <5>1
          <5> QED
            BY <1>13, <4>2, <5>2 DEF Edges
        <4> QED
          BY <1>5, <4>3
      <3> QED
        BY <1>10, <2>1, <2>2, <3>1
    <2>3. CASE c \notin Desired(j, s)
      <3>1. ledger'[c] = ledger[c] /\ ledger[c].owner # Bundle[j.inst]
        BY <1>12, <2>1, <2>3
      <3>2. ledger[q] # None /\ ledger[q].owner = ledger[c].owner
        BY <3>1 DEF SameOwner
      <3>3. ledger'[q] = ledger[q]
        BY <1>11, <3>1, <3>2
      <3> QED
        BY <1>9, <3>1, <3>3
    <2> QED
      BY <2>2, <2>3
  <1>14. CASE Site[c] # r /\ ledger'[q] # ledger[q]
    <2>1. ledger'[c] = ledger[c]
      BY <1>1, <1>14
    <2>2. ledger[q] # None /\ ledger[q].owner = ledger[c].owner
      BY <2>1 DEF SameOwner
    <2>3. /\ Site[q] = r /\ q \in ClaimsAt(s.refs)
          /\ ledger[q] = s.ledger[q] /\ ledger'[q] = Planned(j, s, q)
          /\ ledger[c].owner = Bundle[j.inst]
          /\ ledger'[q] # None => ledger'[q].owner = ledger[c].owner
      BY <1>11, <1>14, <2>2
    <2>4. c \in ClaimsAt(s.refs)
      <3>1. PICK i \in Installs : /\ Bundle[i] = ledger[c].owner
                                  /\ Site[c] \in IndexResources(index[i])
        BY <2>1 DEF Discoverable
      <3>2. i = j.inst
        BY <1>3, <2>3, <3>1 DEF OneContext
      <3> QED
        BY <1>3, <3>1, <3>2 DEF ClaimsAt
    <2>5. CASE Site[c] \notin rest[p]
      <3>1. ledger'[c] = Planned(j, s, c)
        BY <1>4, <2>1, <2>4, <2>5
      <3>2. c \in Desired(j, s)
        BY <1>12, <2>1, <2>3, <2>4, <3>1
      <3> QED
        BY <1>10, <2>3, <2>4, <3>1, <3>2
    <2>6. CASE Site[c] \in rest[p]
      <3>1. ledger[c] = s.ledger[c]
        BY <1>4, <2>4, <2>6
      <3>2. c \in DOMAIN s.ledger /\ q \in DOMAIN s.ledger
        BY <1>1, <2>3, <2>4 DEF Observed
      <3>3. <<c, q>> \in Recorded(s)
        BY <1>14, <2>1, <2>3, <3>1, <3>2 DEF Recorded
      \* it is not given up before the resource that refers to it
      <3>4. Planned(j, s, q) # None
        <4> SUFFICES ASSUME Planned(j, s, q) = None PROVE FALSE
          OBVIOUS
        <4>1. Retired(j, s, q)
          BY <2>2, <2>3 DEF Retired
        <4>2. <<c, q>> \in {n \in Recorded(s) : Retired(j, s, n[2])}
          BY <3>3, <4>1
        <4>3. <<Site[q], Site[c]>> \in
                {<<Site[e[2]], Site[e[1]]>> :
                    e \in {n \in Recorded(s) : Retired(j, s, n[2])}}
          BY <4>2
        <4>4. <<r, Site[c]>> \in Edges(j, s)
          BY <2>3, <4>3 DEF Edges
        <4> QED
          BY <1>5, <2>6, <4>4
      <3>5. \/ Body[s.ledger[q].gen][q] = Body[Planned(j, s, q).gen][q]
            \/ <<c, q>> \in Stable[s.ledger[c].gen]
        <4>1. ~(/\ s.ledger[q] # None /\ Planned(j, s, q) # None
                /\ Body[s.ledger[q].gen][q] # Body[Planned(j, s, q).gen][q]
                /\ <<c, q>> \notin Stable[s.ledger[c].gen])
          <5>1. \A e \in Recorded(s) :
                  ~(/\ s.ledger[e[2]] # None /\ Planned(j, s, e[2]) # None
                    /\ Body[s.ledger[e[2]].gen][e[2]]
                          # Body[Planned(j, s, e[2]).gen][e[2]]
                    /\ e \notin Stable[s.ledger[e[1]].gen])
            BY <1>1 DEF OrderError
          <5> DEFINE e == <<c, q>>
          <5>2. e \in Recorded(s) /\ e[1] = c /\ e[2] = q
            BY <3>3
          <5> HIDE DEF e
          <5>3. ~(/\ s.ledger[q] # None /\ Planned(j, s, q) # None
                  /\ Body[s.ledger[q].gen][q] # Body[Planned(j, s, q).gen][q]
                  /\ e \notin Stable[s.ledger[c].gen])
            BY <5>1, <5>2
          <5> QED
            BY <5>3 DEF e
        <4> QED
          BY <2>2, <2>3, <3>4, <4>1
      <3>6. \/ <<c, q>> \in Stable[ledger[c].gen]
            \/ Body[ledger[q].gen][q] = Body[ledger[c].gen][q]
        BY <2>1 DEF ReferencesHold
      <3> QED
        BY <2>1, <2>3, <3>1, <3>4, <3>5, <3>6
    <2> QED
      BY <2>5, <2>6
  <1> QED
    BY <1>1, <1>9, <1>13, <1>14

LEMMA ReferencesKeep ==
    ASSUME OneContext, IInv, Discoverable, ReferencesHold, SameOwner,
           [Next]_vars
    PROVE  ReferencesHold' /\ SameOwner'
  <1>1. CASE ledger' = ledger
    BY <1>1 DEF ReferencesHold, SameOwner
  <1>2. CASE \E p \in Procs : Publish(p)
    BY <1>2, ReferenceKeeps DEF ReferencesHold, SameOwner, Requirements
  <1> QED
    BY <1>1, <1>2, OthersPublishNothing

\* At every moment of every call, through partial failures and crashes too,
\* what a recorded claim requires is recorded, with the content of the
\* generation that refers to it unless the reference is a stable one: when no
\* bundle is installed in two contexts of one state store.  (Where one is,
\* the run installation_contexts shows the reference broken.)
THEOREM ReferencesAlwaysHold ==
    ASSUME OneContext
    PROVE  Spec => []ReferencesHold
  <1>1. Init => ReferencesHold /\ SameOwner
    BY DEF Init, ReferencesHold, SameOwner
  <1>2. /\ IInv /\ Discoverable /\ ReferencesHold /\ SameOwner /\ [Next]_vars
        => (ReferencesHold /\ SameOwner)'
    BY ReferencesKeep
  <1> QED
    BY <1>1, <1>2, AlwaysDiscoverable, Invariant, PTL DEF Spec

=============================================================================
