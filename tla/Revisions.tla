------------------------------- MODULE Revisions -------------------------------
(***************************************************************************)
(* Resources that bundles own in whole or by subtrees: a file, a tree, or  *)
(* a container of skills.  A revision is what a destination holds: a       *)
(* function from relative paths (the root is <<>>) to nodes               *)
(* [data, touched]: a file's content and mode, or "dir", and whether the   *)
(* node was made or changed by somebody else since the last transaction    *)
(* staged it (its identity and attributes are no longer those recorded).   *)
(***************************************************************************)
EXTENDS Selections

Revision(data) == IF data = None THEN <<>> ELSE data

Data(revision) == [p \in DOMAIN revision |-> revision[p].data]

\* Everything a transaction stages is as it is recorded.
Staged(contents) == [p \in DOMAIN contents |-> [data |-> contents[p], touched |-> FALSE]]

Below(path, base) == Inside(path, base) /\ path # base

\* selected: the nodes of a claim, by their path in it.
Selected(revision, claim) ==
    LET at    == claim.path
        paths == {p \in DOMAIN revision : Inside(p, at)}
    IN  IF claim.kind # "subtree" THEN Data(revision)
        ELSE [q \in {SubSeq(p, Len(at) + 1, Len(p)) : p \in paths} |-> revision[at \o q].data]

\* replace_selection: other nodes stay, missing parents are made.
Replaced(contents, claim, by) ==
    LET at      == claim.path
        others  == {p \in DOMAIN contents : ~Inside(p, at)}
        ours    == {at \o q : q \in DOMAIN by}
        parents == IF ours = {} THEN {} ELSE {SubSeq(at, 1, n) : n \in 0..(Len(at) - 1)}
    IN  IF claim.kind # "subtree" THEN by
        ELSE [p \in others \cup ours \cup parents |->
                 IF p \in ours THEN by[SubSeq(p, Len(at) + 1, Len(p))]
                 ELSE IF p \in others THEN contents[p] ELSE "dir"]

\* container_provenance: the directories that were made around the subtrees and
\* are still as they were made; those that hold no owned subtree any more go,
\* unless they hold something else.
StillAround(path, claims) == \E c \in claims : c.kind = "subtree" /\ Below(c.path, path)

Made(before, after, made, claims) ==
    {p \in made : p \in DOMAIN before /\ ~before[p].touched}
    \cup {p \in DOMAIN after \ DOMAIN before : after[p] = "dir" /\ StillAround(p, claims)}

Emptied(after, made, claims) ==
    LET given == {p \in made \cap DOMAIN after : ~StillAround(p, claims)}
    IN  {p \in given : \A q \in DOMAIN after : Below(q, p) => q \in given}
-----------------------------------------------------------------------------
Observation(revision, owned, r) ==
    LET held    == Selected(revision, r.claim)
        old     == OldSelection(owned, r.claim)
        current == IF old = None /\ held = <<>> THEN None ELSE held
        seen    == [current |-> current, old |-> old,
                    intact  |-> old # None /\ held = old.installed,
                    matches |-> r.content = held]
    IN  [claim |-> r.claim, current |-> current, old |-> old, content |-> r.content,
         status |-> Status(seen, r.content = Retired, r.acquisition)]

\* What takes the place of what is there: the content asked for, what takeover
\* replaced, or nothing.
Replacement(o) ==
    IF o.content # Retired THEN o.content
    ELSE IF o.old.baseline # None THEN o.old.baseline ELSE <<>>

\* The other branch of plan_resource: whole files, trees and subtrees.
EditRevision(data, owned, provenance, requests) ==
    LET before == Revision(data)
        seen   == [i \in DOMAIN requests |-> Observation(before, owned, requests[i])] \o <<>>
        after  == FoldLeft(
                      LAMBDA contents, o :
                          IF o.current = Replacement(o) THEN contents
                          ELSE Replaced(contents, o.claim, Replacement(o)),
                      Data(before), seen)
        kept   == {o \in Range(seen) : o.content # Retired}
        of(c)  == CHOOSE o \in kept : o.claim = c
        claims == (DOMAIN owned \ {o.claim : o \in Range(seen)}) \cup {o.claim : o \in kept}
        made   == Made(before, after, Range(provenance.containers), claims)
        final  == [p \in DOMAIN after \ Emptied(after, made, claims) |-> after[p]]
    IN  IF \E o \in Range(seen) : o.status \in Blocking THEN [verdict |-> "blocked", seen |-> seen]
        ELSE [verdict    |-> "applicable",
              data       |-> IF DOMAIN final = {} THEN None ELSE Staged(final),
              owned      |-> [c \in claims |-> IF \E o \in kept : o.claim = c
                                              THEN Selection(of(c), of(c).content, <<>>) ELSE owned[c]],
              provenance |-> [provenance EXCEPT
                                !.containers = SetToSeq({p \in made : StillAround(p, claims)})]]
=============================================================================
