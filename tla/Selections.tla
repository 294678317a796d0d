------------------------------ MODULE Selections ------------------------------
(***************************************************************************)
(* What the editors of shared documents have in common: the requests of an *)
(* edit, the state each of them finds its selection in, and the record of  *)
(* what is owned afterwards.                                               *)
(*                                                                         *)
(* A request sets the content of a claim, or retires it (content Retired). *)
(* Owned selections are a function from claims to records: what was        *)
(* installed, how it was acquired, what it replaced (None unless taken     *)
(* over) and the separator written before it.                              *)
(***************************************************************************)
EXTENDS Claims, SequencesExt, FiniteSets

CONSTANTS
    Retired,    \* the content of a request that gives a selection up
    None        \* no selection, no document

\* decode_document: without the byte order mark; NUL is refused.
HasBom(data) == data # None /\ data # <<>> /\ data[1] = "bom"
Decoded(data) == IF data = None THEN <<>> ELSE IF HasBom(data) THEN Tail(data) ELSE data
Undecodable(data) == data # None /\ Contains(data, "nul")
Encoded(data, text) == IF HasBom(data) THEN <<"bom">> \o text ELSE text

\* selection_status.  o tells what an edit observes of a request: the current
\* selection, its owned record old, whether it is intact, as it was installed,
\* and whether it matches the content asked for.
Status(o, retiring, acquisition) ==
    IF o.old # None
    THEN CASE o.current = None \/ ~o.intact -> "modified"
           [] retiring                      -> "removed"
           [] o.matches                     -> "current"
           [] OTHER                         -> "updated"
    ELSE CASE retiring                      -> "conflict"
           [] o.current = None              -> "created"
           [] acquisition = "takeover"      -> "taken-over"
           [] acquisition = "adopt" /\ o.matches -> "adopted"
           [] OTHER                         -> "conflict"

Blocking == {"conflict", "modified"}

OldSelection(owned, claim) == IF claim \in DOMAIN owned THEN owned[claim] ELSE None

\* Mutant of Selection: an owner keeps the whole record.
SelectionAsBefore(o, installed, separator) ==
    IF o.old # None THEN o.old
    ELSE [installed |-> installed, disposition |-> o.status,
          baseline |-> IF o.status = "taken-over" THEN o.current ELSE None,
          separator |-> separator]

\* ownership_for: an owner keeps how it acquired the selection, what it
\* replaced and the separator; a new owner remembers what it took over.
Selection(o, installed, separator) ==
    IF o.old # None THEN [o.old EXCEPT !.installed = installed]
    ELSE [installed   |-> installed,
          disposition |-> o.status,
          baseline    |-> IF o.status = "taken-over" THEN o.current ELSE None,
          separator   |-> separator]

\* validate_inputs: the claims of one edit are distinct and apart.
InputsFail(owned, requests) ==
    LET claims == DOMAIN owned \cup {r.claim : r \in Range(requests)}
    IN  \/ \E i, j \in 1..Len(requests) : i # j /\ requests[i].claim = requests[j].claim
        \/ \E c, d \in claims : c # d /\ Overlaps(c, d)

\* DocumentProvenance: the empty document ours was created as, the containers
\* and line breaks that were created around what is owned, and the fields and
\* the empty source of a document schema.
NoProvenance ==
    [empty |-> None, containers |-> <<>>, separators |-> {}, fields |-> <<>>, schemaEmpty |-> None]

\* Without the line break that was added to one of the documents given.
Unterminated(after, documents) ==
    CASE Len(after) > 1 /\ IsSuffix(<<"cr", "lf">>, after) /\ Front(Front(after)) \in documents
            -> Front(Front(after))
      [] after # <<>> /\ Last(after) \in {"cr", "lf"} /\ Front(after) \in documents
            -> Front(after)
      [] OTHER -> after

\* edit_result: a document nothing of which is owned any more is removed when
\* it is as empty as it was created.
EditResult(after, owned, creation) ==
    LET final == Unterminated(after, creation.separators)
    IN  IF DOMAIN owned = {}
        THEN [verdict |-> "applicable", owned |-> owned, provenance |-> NoProvenance,
              data |-> IF creation.empty # None /\ final = creation.empty THEN None ELSE final]
        ELSE [verdict |-> "applicable", owned |-> owned, provenance |-> creation, data |-> after]
=============================================================================
