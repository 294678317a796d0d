----------------------------- MODULE ResourcePlan -----------------------------
(***************************************************************************)
(* What one call of the lifecycle intends to do, as pure operators over    *)
(* what it has read: the resources it refers to (references), the plan of  *)
(* each resource (plan_resource), the order in which the plans are         *)
(* executed (order_plans) and the index before and after (pending_index,   *)
(* completed_index).                                                       *)
(*                                                                         *)
(* A claim is one selection of one resource: a whole file, a subtree, a    *)
(* section or a key of a shared document.  A generation is one version of  *)
(* a bundle rendered in one context; it says what every claim holds and    *)
(* which claims refer to which.  Resources are numbers, in destination     *)
(* order.                                                                  *)
(***************************************************************************)
EXTENDS Naturals, FiniteSets

CONSTANTS
    Resources,      \* the managed destinations, a set of numbers
    Claims,         \* the selections inside them
    Site,           \* [Claims -> Resources]: the resource of a claim
    Contents,       \* what a selection can hold
    Nothing,        \* the content of a selection that is absent
    Installs,       \* logical installations: a bundle in a context
    Bundle,         \* [Installs -> bundle identifiers]
    Generations,    \* rendered versions
    Rendering,      \* [Generations -> Installs]
    Body,           \* [Generations -> [Claims -> Contents]]
    Needs,          \* [Generations -> dependency edges, dependent first]
    Stable,         \* [Generations -> the stable-reference edges among them]
    None

Acquisitions == {"conflict", "adopt", "takeover"}

\* Artifacts are translated from one bundle: a dependency joins two rendered
\* artifacts, and the state store lies outside every resource.
ASSUME RenderingAssumption ==
    /\ Resources \subseteq Nat /\ IsFiniteSet(Resources) /\ IsFiniteSet(Claims)
    /\ Site \in [Claims -> Resources]
    /\ Nothing \in Contents /\ None \notin Generations \cup Contents
    /\ Rendering \in [Generations -> Installs]
    /\ Body \in [Generations -> [Claims -> Contents]]
    /\ \A g \in Generations :
           /\ Needs[g] \subseteq Claims \X Claims
           /\ Stable[g] \subseteq Needs[g]
           /\ \A e \in Needs[g] : Body[g][e[1]] # Nothing /\ Body[g][e[2]] # Nothing
-----------------------------------------------------------------------------
ClaimsAt(rs) == {c \in Claims : Site[c] \in rs}

\* The claims of a generation: its membership.
Membership(g) == IF g = None THEN {} ELSE {c \in Claims : Body[g][c] # Nothing}

Members(g) == {Site[c] : c \in Membership(g)}

\* Index::resources(): everything an index knows of.
IndexResources(ix) ==
    IF ix = None THEN {}
    ELSE ix.residual \cup UNION {Members(g) : g \in {ix.current, ix.pending, ix.previous}}

\* references(): the resources a call reads, locks and plans.
References(g, ix) == Members(g) \cup IndexResources(ix)

\* A receipt must exist where a completed generation has claims.
ExpectsReceipt(ix, r) == ix # None /\ r \in Members(ix.current) \cup Members(ix.previous)

PendingWithoutResidual(ix, g, refs) ==
    LET current == IF ix = None THEN None ELSE ix.current
    IN  [current |-> current, pending |-> g, previous |-> current, residual |-> {}]

PendingIndex(ix, g, refs) ==
    LET current == IF ix = None THEN None ELSE ix.current
    IN  [current |-> current, pending |-> g, previous |-> current, residual |-> refs]

CompletedIndex(g) ==
    [current |-> g, pending |-> None, previous |-> None, residual |-> {}]

\* The requirements an owned claim was published with.
Requirements(owned) == {q \in Claims : <<owned.claim, q>> \in Needs[owned.gen]}
-----------------------------------------------------------------------------
(***************************************************************************)
(* The plan of a job over a snapshot.  A job is the installation, the      *)
(* generation it asks for (None removes), how content that nobody owns is  *)
(* acquired, and whether modified content may be replaced.  A snapshot     *)
(* holds the index, and for the resources referred to the claims recorded, *)
(* the content observed, the receipts found and the open transactions.     *)
(***************************************************************************)
Own(j, s) == {c \in DOMAIN s.ledger : s.ledger[c] # None /\ s.ledger[c].owner = Bundle[j.inst]}

Desired(j, s) == Membership(j.gen) \cap DOMAIN s.ledger

\* Somebody else's claim is in the way.
Conflicting(j, s) ==
    {c \in Desired(j, s) : s.ledger[c] # None /\ s.ledger[c].owner # Bundle[j.inst]}

\* The installation's own content was changed or removed by its user.
Modified(j, s) ==
    {c \in Own(j, s) : s.content[c] # Body[s.ledger[c].gen][c]}

\* Content that nobody owns is in the way.
Unacquirable(j, s) ==
    {c \in Desired(j, s) \ Own(j, s) :
        /\ s.content[c] # Nothing
        /\ \/ j.acquisition = "conflict"
           \/ j.acquisition = "adopt" /\ s.content[c] # Body[j.gen][c]}

MissingReceipts(s) == {r \in s.refs \ s.receipts : ExpectsReceipt(s.index, r)}

PlanErrorUnlessModified(j, s) ==
    Conflicting(j, s) # {} \/ Unacquirable(j, s) # {} \/ MissingReceipts(s) # {}

PlanErrorOwnOnly(j, s) ==
    \/ ~j.replace /\ Modified(j, s) # {}
    \/ Unacquirable(j, s) # {}
    \/ MissingReceipts(s) # {}

PlanError(j, s) ==
    \/ Conflicting(j, s) # {}
    \/ ~j.replace /\ Modified(j, s) # {}
    \/ Unacquirable(j, s) # {}
    \/ MissingReceipts(s) # {}

BaselineAgain(j, s, c) == IF j.acquisition = "takeover" THEN s.content[c] ELSE Nothing

\* What the selection held when the claim was first acquired by takeover.
Baseline(j, s, c) ==
    IF c \in Own(j, s) THEN s.ledger[c].baseline
    ELSE IF j.acquisition = "takeover" THEN s.content[c]
    ELSE Nothing

\* The claim in the new receipt.
Planned(j, s, c) ==
    IF c \in Desired(j, s)
    THEN [claim |-> c, owner |-> Bundle[j.inst], gen |-> j.gen, baseline |-> Baseline(j, s, c)]
    ELSE IF c \in Own(j, s) THEN None
    ELSE s.ledger[c]

\* The selection in the new revision: the desired content, the baseline of a
\* retired claim, and every other selection as it was observed.
After(j, s, c) ==
    IF c \in Desired(j, s) THEN Body[j.gen][c]
    ELSE IF c \in Own(j, s) THEN s.ledger[c].baseline
    ELSE s.content[c]

UnchangedPlan(j, s, r) ==
    /\ r \in s.receipts
    /\ \A c \in ClaimsAt({r}) : Planned(j, s, c) = s.ledger[c] /\ After(j, s, c) = s.content[c]
-----------------------------------------------------------------------------
(***************************************************************************)
(* order_plans().  An edge <<r, q>> makes r wait for q.                    *)
(***************************************************************************)
\* The recorded references <<dependent, required>> between two resources of
\* the plan.
Recorded(s) ==
    {e \in (DOMAIN s.ledger) \X (DOMAIN s.ledger) :
        /\ s.ledger[e[1]] # None
        /\ e[2] \in Requirements(s.ledger[e[1]])
        /\ Site[e[1]] # Site[e[2]]}

Retired(j, s, c) == s.ledger[c] # None /\ Planned(j, s, c) = None

EdgesOfPublication(j, s) ==
    LET needs == IF j.gen = None THEN {} ELSE Needs[j.gen]
    IN  {<<Site[e[1]], Site[e[2]]>> : e \in {n \in needs : Site[n[1]] # Site[n[2]]}}

\* Required resources are published before the dependent ones; a required
\* claim is retired after the resource that referred to it.
Edges(j, s) ==
    LET needs == IF j.gen = None THEN {} ELSE Needs[j.gen]
    IN  {<<Site[e[1]], Site[e[2]]>> : e \in {n \in needs : Site[n[1]] # Site[n[2]]}}
        \cup {<<Site[e[2]], Site[e[1]]>> : e \in {n \in Recorded(s) : Retired(j, s, n[2])}}

OrderError(j, s) ==
    \* "referenced asset changes require a distinct revision destination"
    \/ \E e \in Recorded(s) :
           /\ s.ledger[e[2]] # None /\ Planned(j, s, e[2]) # None
           /\ Body[s.ledger[e[2]].gen][e[2]] # Body[Planned(j, s, e[2]).gen][e[2]]
           /\ e \notin Stable[s.ledger[e[1]].gen]
    \* "cannot retire an asset with an active reference"
    \/ \E e \in Recorded(s) :
           /\ Retired(j, s, e[2]) /\ Planned(j, s, e[1]) # None
           /\ e[2] \in Requirements(Planned(j, s, e[1]))
    \* "cyclic resource dependencies"
    \/ \E rs \in (SUBSET s.refs) \ {{}} : \A r \in rs : \E q \in rs : <<r, q>> \in Edges(j, s)

\* The plans that wait for none of the rest; they are executed in
\* destination order before the next wave is taken.
Wave(j, s, rest) == {r \in rest : \A q \in rest : <<r, q>> \notin Edges(j, s)}
=============================================================================
