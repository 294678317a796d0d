------------------------------ MODULE Inspection ------------------------------
(***************************************************************************)
(* What a host is told of an installation without anything being changed:  *)
(* the source-free inspection of a bundle in a context, the inspection of  *)
(* a skill target against the bundle the host has, the preview of a call   *)
(* with its summary, and the call that install, update and uninstall make  *)
(* of it.  Everything is read from the index, the receipts, the open       *)
(* transactions and the destinations, as they are at one moment, between   *)
(* any two steps of the calls that Installation models.                    *)
(***************************************************************************)
EXTENDS Installation

\* check_receipt(): a committed generation has claims here, and no receipt is.
Unreceipted(i, r) == ExpectsReceipt(index[i], r) /\ r \notin receipts

\* stored_receipt(): the claims of the resource, of whatever bundle.
StoredClaims(r) == {c \in ClaimsAt({r}) : ledger[c] # None}

\* claim_observations(): does the selection hold what was published?
Status(c) == IF content[c] = Body[ledger[c].gen][c] THEN "current" ELSE "modified"

\* pending_recovery(): a transaction that was not cleaned up.
Recoverable(r) == r \in open

\* One resource of installation i, when the resources bad cannot be read.
ResourceObservation(i, bad, r) ==
    IF r \in bad \/ Unreceipted(i, r)
    THEN [error |-> TRUE, claims |-> {}, recovery |-> FALSE]
    ELSE [error |-> FALSE, claims |-> StoredClaims(r), recovery |-> Recoverable(r)]

Seen(i, bad) == [r \in IndexResources(index[i]) |-> ResourceObservation(i, bad, r)]

CurrentGeneration(ix) == IF ix = None THEN None ELSE ix.current

PendingGeneration(ix) == ix # None /\ ix.pending # None

\* A call has announced what it has not completed.
Pending(ix) == ix # None /\ (ix.pending # None \/ ix.previous # None \/ ix.residual # {})

\* The claims of the bundle at the resources seen.
Actual(i, seen) ==
    {c \in UNION {seen[r].claims : r \in DOMAIN seen} : ledger[c].owner = Bundle[i]}

\* Version and digests name the generation.
Intact(i, g, seen) ==
    /\ \A r \in DOMAIN seen : ~seen[r].error /\ ~seen[r].recovery
    /\ \A c \in Actual(i, seen) : ledger[c].gen = g /\ Status(c) = "current"

\* inspect(): the resources the index names, and whether they are all as the
\* current generation wants them.
Inspect(i, bad) ==
    LET seen == Seen(i, bad)
        g == CurrentGeneration(index[i])
    IN  [generation |-> g, pending |-> Pending(index[i]), resources |-> seen,
         current |-> /\ g # None /\ ~Pending(index[i])
                     /\ Intact(i, g, seen) /\ Actual(i, seen) = Membership(g)]

\* InstallationObservation::matches(): is it the generation the host has?
Matches(i, g, bad) ==
    LET seen == Inspect(i, bad)
    IN  seen.current /\ ~seen.pending /\ seen.generation = g
-----------------------------------------------------------------------------
\* The call that preview() and preview_removal() plan.
Previewed(i, g, acquisition, replace) ==
    [kind |-> "apply", inst |-> i, gen |-> g, acquisition |-> acquisition, replace |-> replace]

\* What a call for g would read now.
Now(i, g) == Snapshot(i, References(g, index[i]))

\* Why the plan of one resource was refused.  Of several reasons the code
\* keeps one, by the order of the claims; here it is the one named first.
Refusal(j, s, r) ==
    LET here == ClaimsAt({r})
    IN  IF r \in MissingReceipts(s) THEN "invalid_state"
        ELSE IF ~j.replace /\ here \cap Modified(j, s) # {} THEN "modified"
        ELSE IF here \cap (Conflicting(j, s) \cup Unacquirable(j, s)) # {} THEN "conflict"
        ELSE "none"

\* public_preview(): plans that have no order leave a preview without plans.
Unordered(j, s) == ~PlanError(j, s) /\ OrderError(j, s)

\* LifecyclePreview::applicable()
Applicable(j, s) == ~Unordered(j, s) /\ \A r \in s.refs : Refusal(j, s, r) = "none" /\ r \notin s.open

\* action(): what a summary calls the change of one resource.
Action(j, s, r) ==
    LET here == ClaimsAt({r})
    IN  IF Refusal(j, s, r) # "none" \/ r \in s.open THEN "conflict"
        ELSE IF UnchangedPlan(j, s, r) THEN "unchanged"
        ELSE IF \A c \in here : After(j, s, c) = Nothing THEN "delete"
        ELSE IF \A c \in here : s.content[c] = Nothing THEN "create"
        ELSE "update"

\* summarize()
Summary(j, s) ==
    [applicable |-> Applicable(j, s),
     changes |-> [r \in IF Unordered(j, s) THEN {} ELSE s.refs |-> Action(j, s, r)]]
-----------------------------------------------------------------------------
\* installed_inventory(): the generation that the first resource with claims
\* of the bundle records.
Installed(i) ==
    LET own == {c \in ClaimsAt(IndexResources(index[i])) : ledger[c] # None /\ ledger[c].owner = Bundle[i]}
    IN  IF own = {} THEN None
        ELSE ledger[CHOOSE c \in own : \A d \in own : Site[c] <= Site[d]].gen

\* skill_observation(): the state of a target, and what disagrees with the
\* bundle the host has, which is g.
SkillObservation(i, g, bad) ==
    LET seen == Inspect(i, bad)
        recovery == \E r \in DOMAIN seen.resources : seen.resources[r].recovery
        error == \E r \in DOMAIN seen.resources : seen.resources[r].error
    IN  [state |-> IF recovery THEN "recovery_needed"
                   ELSE IF error THEN "unknown"
                   ELSE IF Installed(i) # None THEN "installed" ELSE "absent",
         error |-> error,
         revision |-> Installed(i) = g,
         content |-> Matches(i, g, bad),
         edited |-> {c \in UNION {seen.resources[r].claims : r \in DOMAIN seen.resources} : Status(c) # "current"}]

\* inspect() of a target, with the conflicts and the errors of a preview.
TargetInspection(i, g, bad) ==
    LET seen == SkillObservation(i, g, bad)
        j == Previewed(i, g, "conflict", FALSE)
        s == Now(i, g)
        plans == DOMAIN Summary(j, s).changes
        error == \/ seen.error \/ Unordered(j, s)
                 \/ \E r \in plans : Refusal(j, s, r) \notin {"none", "conflict"}
    IN  [state |-> IF error /\ seen.state # "recovery_needed" THEN "unknown" ELSE seen.state,
         error |-> error, revision |-> seen.revision, content |-> seen.content,
         edited |-> seen.edited,
         conflicts |-> {r \in plans : Refusal(j, s, r) = "conflict"}]

\* Observation::is_current()
IsCurrent(i, g, bad) ==
    LET seen == TargetInspection(i, g, bad)
    IN  /\ seen.state = "installed" /\ ~seen.error
        /\ seen.revision /\ seen.content
        /\ seen.conflicts = {}
        /\ \A c \in seen.edited : ledger[c].owner # Bundle[i]

\* skills(): the call that is made for a target, or None where a revision that
\* is installed must not be replaced without an explicit update.
SkillCall(operation, i, g, replace) ==
    LET prior == Inspect(i, {}).generation
    IN  IF operation = "install" /\ prior \notin {None, g} THEN None
        ELSE [kind |-> "sync", inst |-> i, gen |-> IF operation = "uninstall" THEN None ELSE g,
              acquisition |-> "conflict", replace |-> operation # "install" /\ replace]
-----------------------------------------------------------------------------
\* The index names one generation, the bundle owns what it holds and nothing
\* else anywhere, each selection is as published and nothing is open there.
Settled(i, g) ==
    /\ index[i] = CompletedIndex(g)
    /\ {c \in Claims : ledger[c] # None /\ ledger[c].owner = Bundle[i]} = Membership(g)
    /\ \A c \in Membership(g) : ledger[c].gen = g /\ content[c] = Body[g][c]
    /\ open \cap Members(g) = {}

\* An inspection calls current exactly what is, and only when it has read every
\* resource of the generation: no claim, edit or transaction anywhere escapes it.
CurrentIsTrue ==
    \A i \in Installs :
        LET current == Inspect(i, {}).current
        IN  /\ current <=> index[i] # None /\ index[i].current # None /\ Settled(i, index[i].current)
            /\ current => \A r \in IndexResources(index[i]) : ~Inspect(i, {r}).current

\* Where an inspection shows no generation and nothing pending, the bundle
\* owns nothing, at any resource.
AbsentIsGone ==
    \A i \in Installs :
        Inspect(i, {}).generation = None /\ ~Inspect(i, {}).pending =>
            \A c \in Claims : ledger[c] # None => ledger[c].owner # Bundle[i]

\* What is called current stays: when it holds anything, the inspection of the
\* target against the same bundle agrees; its preview is applicable and
\* announces no change; install changes nothing, whatever generation it is
\* called with; and nothing keeps a removal from giving everything up.
CurrentIsKept ==
    \A i \in Installs : Inspect(i, {}).current =>
        LET g == Inspect(i, {}).generation
            now == Now(i, g)
            kept == Summary(Previewed(i, g, "conflict", FALSE), now)
            removed == Summary(Previewed(i, None, "conflict", FALSE), Now(i, None))
        IN  /\ Membership(g) # {} => IsCurrent(i, g, {})
            /\ kept.applicable /\ \A r \in DOMAIN kept.changes : kept.changes[r] = "unchanged"
            /\ \A h \in {x \in Generations : Rendering[x] = i} :
                   LET j == SkillCall("install", i, h, FALSE)
                   IN  j # None => j.gen = g /\ \A r \in Members(g) : UnchangedPlan(j, now, r)
            /\ removed.applicable /\ \A r \in Members(g) : removed.changes[r] \in {"update", "delete"}

\* What the records and the reports made from them say of an installation is
\* true at every moment, also in the middle of calls and after failed ones.
ReportsAreTrue == CompletedIsExact /\ CurrentIsTrue /\ AbsentIsGone /\ CurrentIsKept

\* A call that has completed is reported as current, unless the user has
\* written something: whatever had failed before, nothing is left to do.
CompletesCurrent ==
    [][\A p \in Procs, i \in Installs :
          Complete(p) /\ job[p].inst = i /\ job[p].gen # None /\ edits = 0 =>
              Inspect(i, {})'.current]_vars
=============================================================================
