---------------------------- MODULE SharedDocument ----------------------------
(***************************************************************************)
(* One document that several bundles and its user write to: the plan of a  *)
(* resource (plan_resource) over an editor.  A plan is computed            *)
(* from the file that is there and is published only when the file is      *)
(* still the one it was computed from, so planning and publishing are one  *)
(* step here; ResourceTransaction and Installation model what happens in   *)
(* between.                                                                *)
(*                                                                         *)
(* The receipt of the document is owned, owner, required and provenance:   *)
(* the selections, the bundle of each and the document schemas it needs,   *)
(* and what was created around them.                                       *)
(***************************************************************************)
EXTENDS Selections

CONSTANTS
    Formats,            \* the formats a document may have
    Bundles,
    Wishes,             \* [Formats -> [Bundles -> the artifact sequences its versions render]]
    CallModes,          \* [acquisition, replace]: what a call may ask for
    Documents,          \* [Formats -> what the file may hold before anybody owns any of it]
    MaxEdits,           \* user edits in one behaviour
    Unknown,
    \* The editor of a format, and what it makes of a document:
    EditWith(_, _, _, _, _, _, _),  \* format, data, owned, provenance, requests, schemas, validate
    Observed(_, _, _),      \* what the document holds for a claim, or None
    Intact(_, _, _),        \* an observed selection is as it was installed
    Foreign(_, _, _),       \* what the document holds outside a set of claims
    Readable(_, _, _),      \* the editor can read the document for a set of claims
    Restores(_, _, _),      \* a document is another one, as its user left it
    UserDocuments(_, _)     \* what the user may turn the document into

VARIABLES
    format,     \* of the document
    doc,        \* the file, None while absent
    owned,      \* [claims -> selections]
    owner,      \* [claims -> Bundles]
    required,   \* [claims -> the schemas its artifact needs]
    provenance,
    edits,      \* user edits so far
    user        \* auxiliary: the file as it would be had no bundle come, while
                \* that is known

vars == <<format, doc, owned, owner, required, provenance, edits, user>>

OwnClaims(b) == {c \in DOMAIN owned : owner[c] = b}

Wanting(artifacts) == {a.claim : a \in Range(artifacts)}

\* "claim overlaps recorded ownership".
ClaimConflict(b, artifacts) ==
    \E c \in Wanting(artifacts), d \in DOMAIN owned :
        Overlaps(c, d) /\ (owner[d] # b \/ c # d)

\* Mutant of Requests: the claims of every bundle that are not wanted go.
RetireAll(b, artifacts, acquisition) ==
    LET given == SetToSeq(DOMAIN owned \ Wanting(artifacts))
    IN  [i \in 1..Len(given) |->
            [claim |-> given[i], content |-> Retired, acquisition |-> "conflict"]]
        \o [i \in 1..Len(artifacts) |->
            [claim |-> artifacts[i].claim, content |-> artifacts[i].content,
             acquisition |-> acquisition]]

\* Retirements of what the bundle no longer renders, then its artifacts.
Requests(b, artifacts, acquisition) ==
    LET given == SetToSeq(OwnClaims(b) \ Wanting(artifacts))
    IN  [i \in 1..Len(given) |->
            [claim |-> given[i], content |-> Retired, acquisition |-> "conflict"]]
        \o [i \in 1..Len(artifacts) |->
            [claim |-> artifacts[i].claim, content |-> artifacts[i].content,
             acquisition |-> acquisition]]

\* The schemas of every other bundle's claims and of the artifacts.
ActiveSchemas(b, artifacts) ==
    UNION {required[c] : c \in DOMAIN owned \ OwnClaims(b)}
    \cup UNION {a.schemas : a \in Range(artifacts)}

\* replace_modified: what the user made of a selection counts as installed.
Accepted(seen) ==
    [c \in DOMAIN owned |->
        LET changed == {o \in Range(seen) :
                            o.claim = c /\ o.status = "modified" /\ o.current # None}
        IN  IF changed = {} THEN owned[c]
            ELSE [owned[c] EXCEPT !.installed = (CHOOSE o \in changed : TRUE).current]]

\* What plan_resource makes of the document for a bundle.
Planned(b, artifacts, acquisition, replace) ==
    LET requests == Requests(b, artifacts, acquisition)
        with(selections) ==
            EditWith(format, doc, selections, provenance, requests,
                     ActiveSchemas(b, artifacts), artifacts # <<>>)
        edit == with(owned)
    IN  IF ClaimConflict(b, artifacts) THEN [verdict |-> "fails"]
        ELSE IF replace /\ edit.verdict = "blocked" THEN with(Accepted(edit.seen))
        ELSE edit
-----------------------------------------------------------------------------
Init ==
    /\ format \in Formats
    /\ doc \in Documents[format]
    /\ user = doc
    /\ owned = <<>> /\ owner = <<>> /\ required = <<>>
    /\ provenance = NoProvenance
    /\ edits = 0

\* The user's view after a plan: adopted content is the bundle's from then on, a
\* schema field that no bundle needs any more but that stays for other content
\* is the user's, and so is what remains when the last bundle left.
UserAfter(edit) ==
    IF \/ \E c \in DOMAIN edit.owned \ DOMAIN owned : edit.owned[c].disposition = "adopted"
       \/ /\ DOMAIN edit.owned # {}
          /\ DOMAIN provenance.fields # {} /\ DOMAIN edit.provenance.fields = {}
    THEN Unknown
    ELSE IF DOMAIN edit.owned = {} /\ user = Unknown THEN edit.data ELSE user

\* A plan of a shared document, published.
Publish(b, artifacts, edit) ==
    LET schemas(c) == (CHOOSE a \in Range(artifacts) : a.claim = c).schemas
        wanted     == Wanting(artifacts)
    IN  /\ edit.verdict = "applicable"
        /\ doc' = edit.data
        /\ owned' = edit.owned
        /\ owner' = [c \in DOMAIN edit.owned |-> IF c \in wanted THEN b ELSE owner[c]]
        /\ required' = [c \in DOMAIN edit.owned |-> IF c \in wanted THEN schemas(c) ELSE required[c]]
        /\ provenance' = edit.provenance
        /\ user' = UserAfter(edit)
        /\ UNCHANGED <<format, edits>>

\* A bundle comes, or comes in a later version, or goes.
Plan ==
    \E b \in Bundles, choice \in CallModes :
        \E artifacts \in Wishes[format][b] \cup {<<>>} :
            /\ OwnClaims(b) # {} \/ artifacts # <<>>
            /\ \E edit \in {Planned(b, artifacts, choice.acquisition, choice.replace)} :
                   Publish(b, artifacts, edit)

\* The user writes or removes the file.
UserWrites ==
    /\ edits < MaxEdits
    /\ edits' = edits + 1
    /\ doc # None
    /\ doc' \in UserDocuments(format, doc) \cup {None}
    /\ user' = IF DOMAIN owned = {} THEN doc' ELSE Unknown
    /\ UNCHANGED <<format, owned, owner, required, provenance>>

Next == Plan \/ UserWrites

Spec == Init /\ [][Next]_vars
-----------------------------------------------------------------------------
\* When the last bundle has left a file its user did not touch meanwhile, the
\* file is byte for byte what it was before the first one came, and is absent
\* again if it was absent (separators, takeover baselines, created containers,
\* empty documents: editors.rs:1141-1160, 1757-1790, 2207-2250); a schema field
\* stays in a document that has other content (hook-protocol.md:217-219).
Restored == DOMAIN owned = {} /\ user # Unknown => Restores(format, doc, user)

\* A bundle can always leave such a file: nothing that is written for one
\* bundle makes the editor refuse to take another one's selections out.
CanLeave ==
    user # Unknown =>
        \A b \in Bundles : OwnClaims(b) # {} => Planned(b, <<>>, "conflict", FALSE).verdict = "applicable"

\* A plan is one bundle's: the records of every other bundle stay as they are,
\* and so does each of its selections that its user has left as installed.
OthersKept ==
    [][edits' = edits =>
        \E b \in Bundles :
            /\ \A c \in DOMAIN owned' :
                owner'[c] # b => c \in DOMAIN owned /\ owner[c] = owner'[c]
            /\ \A c \in DOMAIN owned :
                owner[c] # b =>
                    /\ c \in DOMAIN owned' /\ owned'[c] = owned[c] /\ owner'[c] = owner[c]
                    /\ LET as(file) == Intact(format, Observed(format, file, c), owned[c])
                       IN  as(doc) => as(doc')]_vars

\* What a plan says it installed is what the file holds, in a file the editor
\* can read again.
PublishedIsThere ==
    [][edits' = edits =>
        /\ Readable(format, doc', DOMAIN owned')
        /\ \A c \in DOMAIN owned' :
            (c \notin DOMAIN owned \/ owned'[c] # owned[c]) =>
                Intact(format, Observed(format, doc', c), owned'[c])]_vars

\* A plan keeps everything of the user outside the claims it owns before or
\* after it, in order, whatever the user did to the file before.
ForeignKept ==
    [][edits' = edits =>
        LET claims == DOMAIN owned \cup DOMAIN owned'
        IN  Foreign(format, doc', claims) = Foreign(format, doc, claims)]_vars
=============================================================================
