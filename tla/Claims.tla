-------------------------------- MODULE Claims --------------------------------
(***************************************************************************)
(* What a bundle may own of one resource: the claim, a kind of ownership   *)
(* with its selector, and the test that keeps two claims apart.            *)
(*                                                                         *)
(* A path is a sequence of names, a section a pair of boundary lines, a    *)
(* selector a sequence of parts: a key of an object or the member of an    *)
(* array that has an identity (found under a key path of the member).      *)
(***************************************************************************)
EXTENDS Naturals, Sequences

CONSTANT Portable   \* [names -> folded names]: portable_path_key of one name

WholeKinds == {"file", "tree"}

Whole(kind) == [kind |-> kind]
Subtree(path) == [kind |-> "subtree", path |-> path]
Section(start, end) == [kind |-> "section", start |-> start, end |-> end]
Structured(parts) == [kind |-> "structured", parts |-> parts]

Key(name) == [part |-> "key", name |-> name]
Member(key, identity) == [part |-> "member", key |-> key, identity |-> identity]

\* SectionBoundaries::new, Selector::new and the path check of Claim::new.
ValidClaim(c) ==
    CASE c.kind \in WholeKinds -> TRUE
      [] c.kind = "subtree"    -> c.path # <<>>
      [] c.kind = "section"    -> c.start # c.end
      [] c.kind = "structured" -> c.parts # <<>>
-----------------------------------------------------------------------------
SectionsMeet(left, right) == {left.start, left.end} \cap {right.start, right.end} # {}

\* Two different parts that can never select the same place: two keys, or two
\* identities under the same key path.
PartsApart(p, q) ==
    /\ p.part = q.part
    /\ p.part = "member" => p.key = q.key /\ p.identity # q.identity

\* The first part in which two selectors differ decides; without one, one
\* selector is a prefix of the other.
SelectorsMeet(left, right) ==
    \A i \in 1..Len(left) :
        (/\ i <= Len(right)
         /\ left[i] # right[i]
         /\ \A j \in 1..(i - 1) : left[j] = right[j])
        => ~PartsApart(left[i], right[i])

Folded(path) == [i \in 1..Len(path) |-> Portable[path[i]]]

\* path lies in the directory (or is the file) base.
Inside(path, base) == Len(base) <= Len(path) /\ SubSeq(path, 1, Len(base)) = base

PathsMeet(left, right) ==
    Inside(Folded(left), Folded(right)) \/ Inside(Folded(right), Folded(left))

\* Claim::overlaps.
Overlaps(left, right) ==
    \/ left.kind \in WholeKinds
    \/ right.kind \in WholeKinds
    \/ left.kind # right.kind
    \/ left.kind = "section" /\ SectionsMeet(left, right)
    \/ left.kind = "structured" /\ SelectorsMeet(left.parts, right.parts)
    \/ left.kind = "subtree" /\ PathsMeet(left.path, right.path)
=============================================================================
