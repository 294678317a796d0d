-------------------------- MODULE StructuredEditor --------------------------
(***************************************************************************)
(* The editor of shared JSON, JSONC and TOML documents: selections of      *)
(* object fields and array members that bundles own in a document whose    *)
(* other values belong to its user.  The document is a backend             *)
(* (DocumentBackend): the operator parameters, each of which can fail with *)
(* Refused.                                                                *)
(*                                                                         *)
(* A content is [value, raw, placement]: raw is how the backend writes the *)
(* value, placement None or [position, anchor].                            *)
(***************************************************************************)
EXTENDS Selections

CONSTANTS
    Format,             \* "json", "jsonc" or "toml"
    Refused,
    Parse(_),           \* a text as a document
    TextOf(_),
    Native(_, _),       \* the value at a path
    Syntax(_, _), OwnedSyntax(_, _), EmptySyntax(_, _), Layout(_, _), Prefix(_, _),
    Put(_, _, _, _),            \* document, path, raw, layout
    Insert(_, _, _, _, _, _),   \* document, array, index, raw, prefix, layout
    Delete(_, _),
    Relocate(_, _, _, _, _, _)  \* document, path, index, raw, prefix, layout

IsObject(v) == "object" \in DOMAIN v
IsArray(v)  == "array" \in DOMAIN v
IsScalar(v) == "scalar" \in DOMAIN v

RECURSIVE FieldAt(_, _), ResolveFrom(_, _, _)

Field(v, name) ==
    IF v # None /\ IsObject(v) /\ name \in DOMAIN v.object THEN v.object[name] ELSE None

FieldAt(v, key) == IF key = <<>> THEN v ELSE FieldAt(Field(v, Head(key)), Tail(key))

\* identity_at: what identifies an array member, None if it has no identity.
IdentityAt(v, key) ==
    LET at == FieldAt(v, key)
    IN  IF at # None /\ (key = <<>> \/ IsScalar(at)) THEN at ELSE None

\* member_index: an identity that occurs twice makes every member ambiguous.
MemberIndex(array, member) ==
    LET identity == [n \in DOMAIN array |-> IdentityAt(array[n], member.key)] \o <<>>
        at == {n \in DOMAIN array : identity[n] = member.identity}
    IN  IF \E m, n \in DOMAIN array : m # n /\ identity[m] # None /\ identity[m] = identity[n]
        THEN Refused
        ELSE IF at = {} THEN None ELSE CHOOSE n \in at : TRUE

\* resolve: the path of a selector, None where nothing is selected.
Step(doc, path, part) ==
    LET node == Native(doc, path)
        at   == MemberIndex(node.array, part)
    IN  IF part.part = "key"
        THEN IF ~IsObject(node) THEN Refused
             ELSE IF part.name \in DOMAIN node.object THEN Append(path, [key |-> part.name])
             ELSE None
        ELSE IF ~IsArray(node) THEN Refused
             ELSE IF at \in {None, Refused} THEN at ELSE Append(path, [index |-> at])

ResolveFrom(doc, path, parts) ==
    IF parts = <<>> \/ path \in {None, Refused} THEN path
    ELSE ResolveFrom(doc, Step(doc, path, Head(parts)), Tail(parts))

Resolve(doc, parts) == ResolveFrom(doc, <<>>, parts)
-----------------------------------------------------------------------------
(***************************************************************************)
(* Snapshots: what is remembered of a selection.                           *)
(***************************************************************************)
\* anchor: a member by which a position next to it is found again.
Anchor(array, n, key) ==
    LET identity == IdentityAt(array[n], key)
        member   == IF identity # None THEN Member(key, identity) ELSE Member(<<>>, array[n])
    IN  IF MemberIndex(array, member) = n THEN member ELSE Refused

\* array_position.
PositionAt(doc, path, key) ==
    LET array     == Native(doc, Front(path)).array
        n         == Last(path).index
        previous  == IF n > 1 THEN Anchor(array, n - 1, key) ELSE None
        following == IF n < Len(array) THEN Anchor(array, n + 1, key) ELSE None
    IN  IF \/ Refused \in {previous, following}
           \/ previous # None /\ previous = following THEN Refused
        ELSE [previous |-> previous, following |-> following, prefix |-> Prefix(doc, path)]

\* structured_snapshot.
Snapshot(doc, parts) ==
    LET path     == Resolve(doc, parts)
        position == IF Last(parts).part = "member" THEN PositionAt(doc, path, Last(parts).key) ELSE None
    IN  IF path \in {None, Refused} THEN path
        ELSE IF position = Refused THEN Refused
        ELSE [value |-> Native(doc, path), syntax |-> Syntax(doc, path),
              owned |-> OwnedSyntax(doc, path), position |-> position, layout |-> Layout(doc, path)]

\* A selection as it was installed; white space in a JSON value is anybody's.
AsInstalled(current, selection) ==
    /\ current \notin {None, Refused}
    /\ current.value = selection.installed.value
    /\ Format = "json" \/ current.owned = selection.installed.owned
-----------------------------------------------------------------------------
(***************************************************************************)
(* Writing a value.                                                        *)
(***************************************************************************)
\* insertion_index.
InsertionIndex(array, placement) ==
    LET at == MemberIndex(array, placement.anchor)
    IN  IF placement = None \/ placement.position = "last" THEN Len(array) + 1
        ELSE IF placement.position = "first" THEN 1
        ELSE IF at \in {None, Refused} THEN Refused
        ELSE IF placement.position = "after" THEN at + 1 ELSE at

\* parents: the containers on the way to a selection, from its part i; those
\* that are missing are created empty and recorded.
RECURSIVE Parents(_, _, _)
Parents(into, parts, i) ==
    LET path == Append(into.path, [key |-> parts[i].name])
        made == Put(into.doc, path, IF parts[i + 1].part = "key" THEN <<"{", "}">> ELSE <<"[", "]">>, <<>>)
        next == Step(into.doc, into.path, parts[i])
    IN  IF i = Len(parts) THEN into
        ELSE IF next = Refused THEN Refused
        ELSE IF next # None THEN Parents([into EXCEPT !.path = next], parts, i + 1)
        ELSE IF parts[i].part = "member" THEN Refused
        ELSE IF made = Refused THEN Refused
        ELSE Parents([doc |-> made, path |-> path,
                      containers |-> Append(into.containers,
                          [parts |-> SubSeq(parts, 1, i), syntax |-> EmptySyntax(made, path)])],
                     parts, i + 1)

\* put_structured: the document with the content at its selection.
PutMember(doc, path, member, content) ==
    LET array == Native(doc, path).array
        n     == MemberIndex(array, member)
        to    == IF n \in {None, Refused} THEN InsertionIndex(array, content.placement)
                 ELSE IF content.placement = None THEN n
                 ELSE InsertionIndex(RemoveAt(array, n), content.placement)
        at    == Append(path, [index |-> n])
    IN  IF \/ ~IsArray(Native(doc, path))
           \/ IdentityAt(content.value, member.key) # member.identity THEN Refused
        ELSE IF Refused \in {n, to} THEN Refused
        ELSE IF n = None THEN Insert(doc, path, to, content.raw, None, <<>>)
        ELSE IF to = n THEN Put(doc, at, content.raw, <<>>)
        ELSE Relocate(doc, at, to, content.raw, None, <<>>)

PutStructured(doc, parts, content, containers) ==
    LET into == Parents([doc |-> doc, path |-> <<>>, containers |-> containers], parts, 1)
        last == Last(parts)
        done == IF last.part = "member" THEN PutMember(into.doc, into.path, last, content)
                ELSE IF ~IsObject(Native(into.doc, into.path)) THEN Refused
                ELSE Put(into.doc, Append(into.path, [key |-> last.name]), content.raw, <<>>)
    IN  IF into = Refused THEN Refused
        ELSE IF done = Refused THEN Refused
        ELSE [doc |-> done, containers |-> into.containers]
-----------------------------------------------------------------------------
(***************************************************************************)
(* Giving a selection up.                                                  *)
(***************************************************************************)
Anchored(array, member) == IF member = None THEN None ELSE MemberIndex(array, member)

\* restoration_index: between the anchors that are left.
RestorationIndex(array, position) ==
    LET previous  == Anchored(array, position.previous)
        following == Anchored(array, position.following)
    IN  CASE Refused \in {previous, following} -> Refused
          [] None \notin {previous, following} /\ previous >= following -> Refused
          [] previous # None -> previous + 1
          [] following # None -> following
          [] OTHER -> IF array = <<>> THEN 1 ELSE Refused

\* restore_structured: what takeover replaced comes back where it was, what was
\* created goes.
RestoreStructured(doc, parts, baseline) ==
    LET path  == Resolve(doc, parts)
        array == Native(doc, Front(path)).array
        n     == Last(path).index
        to    == RestorationIndex(RemoveAt(array, n), baseline.position)
    IN  IF path \in {None, Refused} THEN Refused
        ELSE IF baseline = None THEN Delete(doc, path)
        ELSE IF Last(parts).part = "key" THEN Put(doc, path, baseline.syntax, baseline.layout)
        ELSE IF baseline.position = None \/ to = Refused THEN Refused
        ELSE IF to = n THEN Put(doc, path, baseline.syntax, baseline.layout)
        ELSE Relocate(doc, path, to, baseline.syntax, baseline.position.prefix, baseline.layout)

\* What has to stand before what when the members of a group return to an
\* array: the members that stay keep their order, one that returns goes
\* between its anchors.  baseline is a function from indices to baselines.
Precedences(array, baseline) ==
    LET foreign == DOMAIN array \ DOMAIN baseline
    IN  {<<m, n>> \in foreign \X foreign : m < n /\ ~\E k \in foreign : m < k /\ k < n}
        \cup {<<Anchored(array, baseline[n].position.previous), n>> : n \in DOMAIN baseline}
        \cup {<<n, Anchored(array, baseline[n].position.following)>> : n \in DOMAIN baseline}

RECURSIVE RestoredOrder(_, _, _), Brought(_, _, _, _, _)

\* The members left in an order that respects the edges: of those that are
\* ready, the ones that return first, from the left; Refused when they
\* contradict.
RestoredOrder(left, returning, edges) ==
    LET ready == {n \in left : \A m \in left : <<m, n>> \notin edges}
        first == IF ready \cap returning # {} THEN ready \cap returning ELSE ready
        next  == CHOOSE n \in first : \A m \in first : n <= m
        rest  == RestoredOrder(left \ {next}, returning, edges)
    IN  IF left = {} THEN <<>>
        ELSE IF ready = {} THEN Refused
        ELSE IF rest = Refused THEN Refused ELSE <<next>> \o rest

\* Brings the members of the order to their positions, from position t on: a
\* member that stays by moving what is in front of it to the end, one that
\* returns with its baseline.  current is the order that is there.
Brought(doc, array, baseline, order, current) ==
    LET t     == Len(current) - Len(order) + 1
        at    == SelectInSeq(current, LAMBDA n : n = Head(order))
        front == Append(array, [index |-> t])
        path  == Append(array, [index |-> at])
        old   == baseline[Head(order)]
        moved == Relocate(doc, front, Len(current), Syntax(doc, front), None, Layout(doc, front))
        back  == IF at = t THEN Put(doc, path, old.syntax, old.layout)
                 ELSE Relocate(doc, path, t, old.syntax, old.position.prefix, old.layout)
    IN  IF doc = Refused THEN Refused
        ELSE IF order = <<>> THEN doc
        ELSE IF Head(order) \in DOMAIN baseline
        THEN Brought(back, array, baseline, Tail(order), InsertAt(RemoveAt(current, at), t, Head(order)))
        ELSE IF at = t THEN Brought(doc, array, baseline, Tail(order), current)
        ELSE Brought(moved, array, baseline, order, Append(RemoveAt(current, t), current[t]))

\* restore_batch: several taken-over members of one array return together.
RestoreBatch(doc, group) ==
    LET paths    == [k \in DOMAIN group |-> Resolve(doc, group[k].claim.parts)]
        where    == Front(paths[1])
        array    == Native(doc, where).array
        index(k) == Last(paths[k]).index
        baseline == [n \in {index(k) : k \in DOMAIN group} |->
                        group[CHOOSE k \in DOMAIN group : index(k) = n].old.baseline]
        anchors(n) == {Anchored(array, baseline[n].position.previous),
                       Anchored(array, baseline[n].position.following)}
        order    == RestoredOrder(DOMAIN array, DOMAIN baseline, Precedences(array, baseline))
    IN  IF \E k \in DOMAIN group : paths[k] \in {None, Refused} THEN Refused
        ELSE IF \E n \in DOMAIN baseline :
                   Refused \in anchors(n) \/ (anchors(n) = {None} /\ Len(array) > 1) THEN Refused
        ELSE IF order = Refused THEN Refused
        ELSE Brought(doc, where, baseline, order, [k \in DOMAIN array |-> k] \o <<>>)
-----------------------------------------------------------------------------
(***************************************************************************)
(* The edit.                                                               *)
(***************************************************************************)
\* What is observed of a request before anything is edited.
Observation(doc, owned, r) ==
    LET current == Snapshot(doc, r.claim.parts)
        old     == OldSelection(owned, r.claim)
        seen    == [current |-> current, old |-> old,
                    intact  |-> old # None /\ AsInstalled(current, old),
                    matches |-> r.content # Retired /\ current # None
                                /\ current.value = r.content.value]
    IN  [claim |-> r.claim, content |-> r.content, current |-> current, old |-> old,
         status |-> IF current = Refused THEN Refused
                    ELSE Status(seen, r.content = Retired, r.acquisition)]

\* The taken-over members of one array that the edit gives up, in order.
Group(seen, claim) ==
    SelectSeq(seen, LAMBDA o : /\ o.status = "removed" /\ o.old.baseline # None
                               /\ Last(o.claim.parts).part = "member"
                               /\ Front(o.claim.parts) = Front(claim.parts))

Retire(edit, o, seen) ==
    LET group   == Group(seen, o.claim)
        batched == Len(group) > 1 /\ o.claim \in {g.claim : g \in Range(group)}
        doc     == IF o.claim \in edit.retired THEN edit.doc
                   ELSE IF batched THEN RestoreBatch(edit.doc, group)
                   ELSE RestoreStructured(edit.doc, o.claim.parts, o.old.baseline)
    IN  IF doc = Refused THEN Refused
        ELSE [edit EXCEPT !.doc = doc,
                          !.owned = [c \in DOMAIN edit.owned \ {o.claim} |-> edit.owned[c]],
                          !.retired = @ \cup (IF batched THEN {g.claim : g \in Range(group)} ELSE {})]

SetSelection(edit, o) ==
    LET keeps     == o.status \in {"adopted", "current"} /\ o.content.placement = None
        put       == IF keeps THEN [doc |-> edit.doc, containers |-> edit.containers]
                     ELSE PutStructured(edit.doc, o.claim.parts, o.content, edit.containers)
        installed == Snapshot(put.doc, o.claim.parts)
    IN  IF put = Refused THEN Refused
        ELSE IF installed \in {None, Refused} THEN Refused
        ELSE IF installed.value # o.content.value THEN Refused
        ELSE [edit EXCEPT !.doc = put.doc, !.containers = put.containers,
                          !.owned = (o.claim :> Selection(o, installed, <<>>)) @@ @]

\* structured_request; a request that cannot be carried out is a conflict.
RECURSIVE Requested(_, _, _)
Requested(edit, left, seen) ==
    LET o    == Head(left)
        next == IF o.status = "removed" THEN Retire(edit, o, seen) ELSE SetSelection(edit, o)
    IN  IF left = <<>> THEN edit
        ELSE Requested(IF o.status \in Blocking THEN [edit EXCEPT !.blocked = TRUE]
                       ELSE IF next = Refused THEN [edit EXCEPT !.blocked = TRUE] ELSE next,
                       Tail(left), seen)

\* prune: a created container goes when it is as empty as it was created and
\* nothing in it is owned; the deepest first.
RECURSIVE Prune(_, _)
Prune(edit, left) ==
    LET container == Head(left)
        path  == Resolve(edit.doc, container.parts)
        value == Native(edit.doc, path)
        empty == \/ IsObject(value) /\ DOMAIN value.object = {}
                 \/ IsArray(value) /\ value.array = <<>>
        gone  == Delete(edit.doc, path)
    IN  IF left = <<>> THEN edit
        ELSE IF path = Refused THEN Refused
        ELSE IF path = None THEN Prune(edit, Tail(left))
        ELSE IF /\ empty /\ EmptySyntax(edit.doc, path) = container.syntax
                /\ \A c \in DOMAIN edit.owned : ~Overlaps(Structured(container.parts), c)
        THEN IF gone = Refused THEN Refused ELSE Prune([edit EXCEPT !.doc = gone], Tail(left))
        ELSE Prune([edit EXCEPT !.containers = <<container>> \o @], Tail(left))

Pruned(edit) ==
    LET depth == 1 + FoldLeft(LAMBDA d, c : IF Len(c.parts) > d THEN Len(c.parts) ELSE d, 0, edit.containers)
        deepestFirst == FlattenSeq([k \in 1..depth |->
                            SelectSeq(edit.containers, LAMBDA c : Len(c.parts) = depth - k)])
    IN  Prune([edit EXCEPT !.containers = <<>>], deepestFirst)

\* The document that is written where there is none.
Blank(owned, requests) ==
    IF Format = "toml" THEN <<>>
    ELSE IF \E c \in DOMAIN owned \cup {r.claim : r \in Range(requests)} : c.parts[1].part = "member"
    THEN <<"[", "]">> ELSE <<"{", "}">>

EndsLine(text) == text # <<>> /\ Last(text) \in {"cr", "lf"}

Creation(data, blank, provenance, edit) ==
    LET text == Decoded(data)
        ended == /\ Format = "toml" /\ data # None /\ text # <<>>
                 /\ ~EndsLine(text) /\ EndsLine(TextOf(edit.doc))
    IN  [provenance EXCEPT
            !.empty = IF data = None /\ DOMAIN edit.owned # {} THEN blank ELSE @,
            !.containers = edit.containers,
            !.separators = IF ended THEN @ \cup {data} ELSE @]

\* edit_document, for a structured format (edit_structured).
EditTree(data, owned, provenance, requests) ==
    LET blank == Blank(owned, requests)
        doc   == Parse(IF data = None THEN blank ELSE Decoded(data))
        seen  == [i \in DOMAIN requests |-> Observation(doc, owned, requests[i])] \o <<>>
        edit  == Requested([doc |-> doc, owned |-> owned, containers |-> provenance.containers,
                            retired |-> {}, blocked |-> FALSE], seen, seen)
        done  == Pruned(edit)
    IN  IF InputsFail(owned, requests) \/ Undecodable(data) THEN [verdict |-> "fails"]
        ELSE IF requests = <<>>
        THEN [verdict |-> "applicable", data |-> data, owned |-> owned, provenance |-> provenance]
        ELSE IF doc = Refused THEN [verdict |-> "fails"]
        ELSE IF \E o \in Range(seen) : o.status = Refused THEN [verdict |-> "fails"]
        ELSE IF edit.blocked THEN [verdict |-> "blocked", seen |-> seen]
        ELSE IF done = Refused THEN [verdict |-> "fails"]
        ELSE EditResult(Encoded(data, TextOf(done.doc)), done.owned,
                        Creation(data, blank, provenance, done))
-----------------------------------------------------------------------------
(***************************************************************************)
(* Document schemas (edit_schema_document): scalar fields, such as a       *)
(* version, that a JSON document needs for what bundles put into it.  They *)
(* belong to no bundle: they are added with the first one that needs them, *)
(* and go again, with the source the document was made from, when nobody   *)
(* does.                                                                   *)
(*                                                                         *)
(* A schema is [key, value, raw].                                          *)
(***************************************************************************)
SchemaClaim(schema) == Structured(<<Key(schema.key)>>)

SchemaContent(schema) == [value |-> schema.value, raw |-> schema.raw, placement |-> None]

BlankSource(data) == data # None /\ Range(data) \subseteq {"sp", "cr", "lf"}

\* is_empty_json_object.
EmptyObject(data) == data = None \/ SelectSeq(data, LAMBDA t : t \notin {"sp", "cr", "lf"}) = <<"{", "}">>

\* "incompatible document schema requirements", "document schema overlaps an
\* app-owned field".
SchemasFail(owned, requests, schemas) ==
    \/ \E s, t \in schemas : s # t /\ s.key = t.key
    \/ \E s \in schemas, c \in DOMAIN owned \cup {r.claim : r \in Range(requests)} :
           Overlaps(SchemaClaim(s), c)

\* The fields added for schemas that are still as they were added, and that no
\* request sets.
KeptFields(doc, fields, requests) ==
    {c \in DOMAIN fields :
        /\ Snapshot(doc, c.parts) = fields[c].installed
        /\ \A r \in Range(requests) : r.content # Retired => ~Overlaps(r.claim, c)}

\* matches: the field is there with the value required.
Matches(data, schema) ==
    LET doc  == Parse(Decoded(data))
        snap == Snapshot(doc, <<Key(schema.key)>>)
    IN  /\ data # None /\ ~BlankSource(data)
        /\ doc # Refused /\ snap \notin {None, Refused}
        /\ snap.value = schema.value

\* The last schema is gone: its fields go too, and when that leaves an empty
\* object and no owner, what the document was made from comes back.
WithoutSchemas(edit, fields, owned, source) ==
    LET given == SetToSeq(fields)
        bare  == EditTree(edit.data, edit.owned, edit.provenance,
                     [i \in DOMAIN given |->
                         [claim |-> given[i], content |-> Retired, acquisition |-> "conflict"]])
    IN  IF bare.verdict = "fails" THEN bare
        ELSE IF bare.verdict = "applicable" /\ DOMAIN owned = {} /\ EmptyObject(bare.data)
        THEN [bare EXCEPT !.data = IF source # None THEN source ELSE @]
        ELSE [edit EXCEPT !.owned = owned,
                          !.provenance.fields = <<>>,
                          !.provenance.schemaEmpty = IF DOMAIN owned = {} THEN None ELSE source]

\* edit_schema_document.
EditSchemaDocument(data, owned, provenance, requests, schemas, validate) ==
    LET normalized == IF BlankSource(data) THEN <<"{", "}">> ELSE data
        source     == IF normalized = data THEN provenance.schemaEmpty ELSE data
        doc        == Parse(IF normalized = None THEN <<"{", "}">> ELSE Decoded(normalized))
        at(s)      == Snapshot(doc, <<Key(s.key)>>)
        wanted     == IF validate THEN schemas ELSE {}
        missing    == SetToSeq({s \in wanted : at(s) = None})
        additions  == [i \in DOMAIN missing |->
                          [claim |-> SchemaClaim(missing[i]), content |-> SchemaContent(missing[i]),
                           acquisition |-> "conflict"]]
        kept       == KeptFields(doc, provenance.fields, requests)
        created    == kept \cup {SchemaClaim(s) : s \in Range(missing)}
        edit       == EditTree(normalized,
                               [c \in DOMAIN owned \cup kept |->
                                   IF c \in DOMAIN owned THEN owned[c] ELSE provenance.fields[c]],
                               [provenance EXCEPT !.fields = <<>>, !.schemaEmpty = None],
                               requests \o additions)
        fields     == [c \in DOMAIN edit.owned \cap created |-> edit.owned[c]]
        others     == [c \in DOMAIN edit.owned \ created |-> edit.owned[c]]
    IN  IF SchemasFail(owned, requests, schemas) THEN [verdict |-> "fails"]
        ELSE IF schemas = {} /\ provenance.fields = <<>> /\ provenance.schemaEmpty = None
        THEN EditTree(data, owned, provenance, requests)
        ELSE IF doc = Refused THEN [verdict |-> "fails"]
        ELSE IF \E s \in wanted : at(s) = Refused THEN [verdict |-> "fails"]
        ELSE IF \E s \in wanted : at(s) # None /\ at(s).value # s.value
        THEN [verdict |-> "blocked", seen |-> <<>>]
        ELSE IF edit.verdict # "applicable" THEN edit
        ELSE IF schemas = {} THEN WithoutSchemas(edit, DOMAIN fields, others, source)
        ELSE [edit EXCEPT !.owned = others,
                          !.provenance.fields = fields,
                          !.provenance.schemaEmpty = source]
=============================================================================
