------------------------------ MODULE StateCodec ------------------------------
(***************************************************************************)
(* What is kept of an installation, what it must satisfy to exist, and how *)
(* it is stored: the records of ownership, resources, installations and    *)
(* transactions, and their encoding.  The constructors of a record are the *)
(* only way to one, for the code that computes it and for the reader of a  *)
(* stored one.                                                             *)
(*                                                                         *)
(* Every value tells what it is.  A text is a number of leading slashes    *)
(* and the parts between the others, so that it can be a path; a digest is *)
(* a text that remembers what it is the digest of; octets stand for bytes, *)
(* named by their hexadecimal digits.                                      *)
(*                                                                         *)
(* The encoding has two readers: this implementation's, which knows the    *)
(* field it decodes, and the reference's (src/python), which decodes       *)
(* whatever it is given and leaves it to the constructors to refuse.  A    *)
(* stored record is the tree its JSON text stands for: a value without     *)
(* type, a number of members, or a tuple of such trees.  Refused stands    *)
(* for every error.                                                        *)
(***************************************************************************)
EXTENDS Integers, Sequences, SequencesExt, FiniteSets

CONSTANTS
    Unportable,     \* parts that no portable path has
    Portable,       \* portable_path_key of the other parts of a subtree
    Identifiers,    \* names that are identifiers
    Alphabet,       \* names in byte order
    NotALine,       \* texts that are blank or have line breaks
    TransactionIds, \* names of 32 hexadecimal digits
    Digests,        \* names of 64 hexadecimal digits
    Whitespace,     \* octets that are white space
    Parsed,         \* octets that are JSON, each with the tree it is
    HeaderKeys,     \* names of TOML headers, each with its keys
    HexTexts,       \* texts that bytes can be read from -> their digits
    Payloads        \* kind of scalar -> texts that are one, canonically

Null == [is |-> "none"]
Text(name) == [is |-> "text", lead |-> 0, parts |-> <<name>>]
EmptyText == [is |-> "text", lead |-> 0, parts |-> <<>>]
DigestOf(x) == [is |-> "text", lead |-> 0, parts |-> <<"sha256">>, of |-> x]
Flag(b) == [is |-> "flag", flag |-> b]
Number(n) == [is |-> "number", number |-> n]
Tuple(items) == [is |-> "tuple", items |-> items]
Octets(digits) == [is |-> "octets", digits |-> digits]
Path(lead, parts) == [is |-> "path", lead |-> lead, parts |-> parts]
Member(enum, value) == [is |-> "enum", enum |-> enum, value |-> value]
Scalar(kind, payload) == [is |-> "scalar", kind |-> kind, payload |-> payload]
Array(members) == [is |-> "array", members |-> members]
Object(pairs) == [is |-> "object", pairs |-> pairs]     \* each with a name and a value, sorted
Record(type, fields) == [is |-> "record", type |-> type, fields |-> fields]

Semantics == {"scalar", "array", "object"}
Rank(text) == IF text.parts = <<>> THEN 0 ELSE SelectInSeq(Alphabet, LAMBDA n : n = text.parts[1])
Distinct(seq) == \A i, j \in DOMAIN seq : i # j => seq[i] # seq[j]
ItemsOf(v) == v.items
-----------------------------------------------------------------------------
(* Texts and paths. *)

\* Where a text is expected, the reference also takes a member of a StrEnum.
Said(v) == IF v.is = "enum" THEN Text(v.value) ELSE v
IsBlank(v) == Said(v) \in NotALine \cup {EmptyText}
Hexadecimal(v, names) ==
    \/ "of" \in DOMAIN Said(v) /\ names = Digests
    \/ \E n \in names : Said(v) = Text(n)
IsIdentifier(v) == \E n \in Identifiers : Said(v) = Text(n)
ValidRelativePath(v) ==
    /\ Said(v).lead = 0 /\ Said(v).parts # <<>>
    /\ ToSet(Said(v).parts) \cap ({"", ".", ".."} \cup Unportable) = {}

\* Two paths are the same place: PathBuf compares components, Path also two
\* leading slashes with one.
Location(path, strict) == IF strict THEN path ELSE [path EXCEPT !.lead = 1]
AbsolutePath(path) == path.lead > 0 /\ ".." \notin ToSet(path.parts)
Concrete(path) == AbsolutePath(path) /\ path.parts # <<>>

\* Claims, as they are told apart.
C == INSTANCE Claims
AsPart(part) ==
    IF part.type = "Key" THEN C!Key(Said(part.fields.name))
    ELSE C!Member(part.fields.key, part.fields.identity)
AsClaim(claim) ==
    LET kind     == claim.fields.kind.value
        selector == claim.fields.selector
    IN  CASE kind \in C!WholeKinds -> C!Whole(kind)
          [] kind = "subtree" -> C!Subtree(Said(selector).parts)
          [] kind = "section" -> C!Section(Said(selector.fields.start), Said(selector.fields.end))
          [] kind = "structured" ->
                C!Structured([i \in DOMAIN selector.fields.parts.items |-> AsPart(selector.fields.parts.items[i])])
Meet(left, right) == C!Overlaps(AsClaim(left), AsClaim(right))
Identity(claim, destination) == DigestOf([claim |-> claim, destination |-> destination])
-----------------------------------------------------------------------------
(* Ownership of documents. *)

KeyRules(f) == Said(f.name) # EmptyText

MemberRules(f) ==
    /\ \A i \in DOMAIN f.key.items : Said(f.key.items[i]) # EmptyText
    /\ f.key.items # <<>> => f.identity.is = "scalar"

SectionBoundariesRules(f) ==
    ~IsBlank(f.start) /\ ~IsBlank(f.end) /\ Said(f.start) # Said(f.end)

SelectorRules(f) == f.parts.items # <<>>

DocumentSchemaRules(f) == f.format.value \in {"json", "jsonc"} /\ Said(f.key) # EmptyText

ClaimRules(f) ==
    CASE f.kind.value \in C!WholeKinds -> f.selector = Null
      [] f.kind.value = "subtree" -> f.selector.is \in {"text", "enum"} /\ ValidRelativePath(f.selector)
      [] f.kind.value = "section" -> f.selector.is = "record" /\ f.selector.type = "SectionBoundaries"
      [] f.kind.value = "structured" -> f.selector.is = "record" /\ f.selector.type = "Selector"

\* Claim::new, where a section may be given by its marker alone.
ClaimFields(f) ==
    IF f.kind.value = "section" /\ f.selector.is \in {"text", "enum"} /\ IsIdentifier(f.selector)
    THEN LET Line(end) == Text("<!-- flyrail:" \o Said(f.selector).parts[1] \o end \o " -->")
         IN  [f EXCEPT !.selector = Record("SectionBoundaries", [start |-> Line(":start"), end |-> Line(":end")])]
    ELSE f

ArrayPositionRules(f) == f.previous # Null => f.previous # f.following

\* layout_headers: the headers of a TOML selection's tables, by the path of
\* each in the value; None of them when the layout is malformed.
Malformed == <<[path |-> <<>>]>>
LayoutHeaders(layout) ==
    LET tree    == Parsed[layout.digits]
        headers == tree.members["headers"].items
        Step(part) == part.is = "text" \/ (part.is = "number" /\ part.number >= 0)
        Entry(e) ==
            /\ e.is = "tuple" /\ Len(e.items) = 2
            /\ e.items[1].is = "tuple" /\ e.items[1].items # <<>>
            /\ \A i \in DOMAIN e.items[1].items : Step(e.items[1].items[i])
            /\ e.items[2].is = "text" /\ e.items[2].parts[1] \in DOMAIN HeaderKeys
    IN  IF layout.digits = "" THEN <<>>
        ELSE IF /\ layout.digits \in DOMAIN Parsed
                /\ tree.is = "members" /\ DOMAIN tree.members = {"version", "headers"}
                /\ tree.members["version"] = Number(1) /\ tree.members["headers"].is = "tuple"
                /\ \A i \in DOMAIN headers : Entry(headers[i])
                /\ Distinct([i \in DOMAIN headers |-> headers[i].items[1]])
        THEN [i \in DOMAIN headers |-> [path |-> headers[i].items[1].items, keys |-> HeaderKeys[headers[i].items[2].parts[1]]]]
        ELSE Malformed

\* The value a path leads to, Null when it leads nowhere.
Led(value, path) ==
    LET Child(v, part) ==
            CASE v.is = "object" /\ part.is = "text" /\ (\E p \in ToSet(v.pairs) : p.name = part) ->
                    (CHOOSE p \in ToSet(v.pairs) : p.name = part).value
              [] v.is = "array" /\ part.is = "number" /\ part.number < Len(v.members) -> v.members[part.number + 1]
              [] OTHER -> Null
        at[i \in 0..Len(path)] == IF i = 0 THEN value ELSE Child(at[i - 1], path[i])
    IN  at[Len(path)]

SelectionSnapshotRules(f) ==
    LET headers == LayoutHeaders(f.layout)
    IN  headers # Malformed /\ \A i \in DOMAIN headers : Led(f.value, headers[i].path).is = "object"

\* The keys on the way to a structured selection, or along a header's path.
KeyPath(claim) ==
    IF claim.fields.kind.value # "structured" THEN <<>>
    ELSE LET parts == claim.fields.selector.fields.parts.items
         IN  SelectSeq([i \in DOMAIN parts |-> IF parts[i].type = "Key" THEN Said(parts[i].fields.name) ELSE Null],
                       LAMBDA k : k # Null)
NamesIn(path) == SelectSeq(path, LAMBDA part : part.is = "text")

SnapshotFits(f, snapshot) ==
    LET s == snapshot.fields
    IN  /\ s.value.is = "octets" <=> f.format = Null
        /\ s.layout.digits # "" =>
              /\ f.format # Null /\ f.format.value = "toml" /\ f.claim.fields.kind.value = "structured"
              /\ \A h \in ToSet(LayoutHeaders(s.layout)) : h.keys = KeyPath(f.claim) \o NamesIn(h.path)

OwnedSelectionRules(f) ==
    /\ f.claim.fields.kind.value = (IF f.format = Null THEN "section" ELSE "structured")
    /\ f.disposition.value = "taken-over" <=> f.baseline # Null
    /\ \A s \in {f.installed, f.baseline} \ {Null} : SnapshotFits(f, s)
    /\ f.format # Null => f.separator = Octets("")

TopLevelScalar(selection) ==
    LET f == selection.fields
    IN  /\ f.disposition.value = "created"
        /\ f.format # Null /\ f.format.value \in {"json", "jsonc"}
        /\ LET parts == f.claim.fields.selector.fields.parts.items IN Len(parts) = 1 /\ parts[1].type = "Key"
        /\ f.installed.fields.value.is = "scalar"

DocumentProvenanceRules(f) ==
    /\ \A i \in DOMAIN f.schema_fields.items : TopLevelScalar(f.schema_fields.items[i])
    /\ Distinct([i \in DOMAIN f.schema_fields.items |-> f.schema_fields.items[i].fields.claim])
    /\ f.schema_empty_document # Null => f.schema_empty_document.digits \in Whitespace
    /\ Distinct([i \in DOMAIN f.containers.items |-> f.containers.items[i].fields.selector])
    /\ \A i \in DOMAIN f.trailing_separators.items : Hexadecimal(f.trailing_separators.items[i], Digests)
-----------------------------------------------------------------------------
(* Resources and what is owned of them. *)

MetadataFits(f, mode) ==
    (\A n \in {"device", "inode", "mode", "uid", "gid"} : f[n].number >= 0) /\ f.mode.number <= mode

AncestorRules(f) == f.path.lead > 0 /\ MetadataFits(f, 4095)

NodeRules(f) == (Said(f.path) = EmptyText \/ ValidRelativePath(f.path)) /\ MetadataFits(f, 511)

\* Byte order, where no name is the beginning of another.
Ordered(p, q) ==
    \/ Len(p) < Len(q) /\ SubSeq(q, 1, Len(p)) = p
    \/ \E i \in 1..Len(p) :
          /\ i <= Len(q) /\ SubSeq(p, 1, i - 1) = SubSeq(q, 1, i - 1)
          /\ Rank(Text(p[i])) < Rank(Text(q[i]))

RevisionRules(f) ==
    LET nodes == f.nodes.items
        PathAt(i) == Said(nodes[i].fields.path).parts
    IN  /\ nodes # <<>> => PathAt(1) = <<>>
        /\ \A i \in DOMAIN nodes \ {1} :
              /\ PathAt(i) # <<>>
              /\ \E j \in DOMAIN nodes : PathAt(j) = Front(PathAt(i)) /\ nodes[j].fields.data = Null
        /\ \A i \in DOMAIN nodes \ {1} : Ordered(PathAt(i - 1), PathAt(i))

ContentOf(revision) ==
    LET nodes == revision.fields.nodes.items
    IN  [i \in DOMAIN nodes |-> <<Said(nodes[i].fields.path), nodes[i].fields.data, nodes[i].fields.mode>>]

IsSchema(f) == f.schema_version = Number(2)

ResourceRefRules(f) == IsSchema(f) /\ Concrete(f.destination)

PreparationRules(f) == Hexadecimal(f.transaction_id, TransactionIds) /\ Concrete(f.directory) /\ IsSchema(f)

Requirements(f, strict) ==
    [i \in DOMAIN f.items |-> <<Location(f.items[i].items[1], strict), f.items[i].items[2]>>]

RequirementsFit(f, strict) ==
    /\ \A r \in ToSet(f.requirements.items) : Concrete(r.items[1]) /\ Hexadecimal(r.items[2], Digests)
    /\ Distinct(Requirements(f.requirements, strict)) /\ Distinct(Requirements(f.stable_requirements, strict))
    /\ ToSet(Requirements(f.stable_requirements, strict)) \subseteq ToSet(Requirements(f.requirements, strict))
    /\ Distinct([i \in DOMAIN f.schema_requirements.items |-> Said(f.schema_requirements.items[i].fields.key)])
    /\ \A schema \in ToSet(f.schema_requirements.items) :
          f.selection # Null /\ f.selection.fields.format = schema.fields.format

OwnershipFits(f) ==
    IF f.claim.fields.kind.value \in {"section", "structured"}
    THEN /\ f.selection # Null /\ f.selection.fields.claim = f.claim
         /\ f.installed = Null /\ f.baseline = Null
         /\ f.disposition = f.selection.fields.disposition
    ELSE /\ f.selection = Null
         /\ f.installed # Null /\ f.installed.fields.nodes.items # <<>>
         /\ f.disposition.value = "taken-over" <=> f.baseline # Null
         /\ f.baseline # Null => f.baseline.fields.nodes.items # <<>>

\* Mutant of OwnedClaimRules: only the reference holds the selection, the
\* revisions and the disposition against the claim.
OwnedClaimRulesUnchecked(f, strict) ==
    /\ Hexadecimal(f.claim_id, Digests) /\ Hexadecimal(f.bundle_digest, Digests) /\ Hexadecimal(f.render_digest, Digests)
    /\ IsIdentifier(f.bundle_id) /\ IsIdentifier(f.artifact_id) /\ ~IsBlank(f.version)
    /\ RequirementsFit(f, strict)
    /\ strict => OwnershipFits(f)

OwnedClaimRules(f, strict) ==
    /\ Hexadecimal(f.claim_id, Digests) /\ Hexadecimal(f.bundle_digest, Digests) /\ Hexadecimal(f.render_digest, Digests)
    /\ IsIdentifier(f.bundle_id) /\ IsIdentifier(f.artifact_id) /\ ~IsBlank(f.version)
    /\ RequirementsFit(f, strict)
    /\ OwnershipFits(f)

Owns(kind) ==
    CASE kind = "document" -> {"file", "section", "structured"}
      [] kind = "tree" -> {"tree"}
      [] kind = "skill-container" -> {"subtree"}

SchemaClaim(schema) ==
    Record("Claim", [kind |-> Member("Ownership", "structured"),
                     selector |-> Record("Selector", [parts |-> Tuple(<<Record("Key", [name |-> schema.fields.key])>>)])])

ReceiptRules(f) ==
    LET claims  == f.claims.items
        created == f.created_directories.items
        schemas == UNION {ToSet(claims[i].fields.schema_requirements.items) : i \in DOMAIN claims}
    IN  /\ IsSchema(f) /\ Hexadecimal(f.transaction_id, TransactionIds)
        /\ created # <<>> => f.resource.fields.kind.value = "skill-container"
        /\ \A i \in DOMAIN created : created[i].fields.data = Null
        /\ Distinct([i \in DOMAIN created |-> Said(created[i].fields.path)])
        /\ \A i \in DOMAIN claims :
              /\ claims[i].fields.claim_id = Identity(claims[i].fields.claim, f.resource.fields.destination)
              /\ \A j \in 1..(i - 1) : ~Meet(claims[i].fields.claim, claims[j].fields.claim)
              /\ claims[i].fields.claim.fields.kind.value \in Owns(f.resource.fields.kind.value)
        /\ \A s, t \in schemas : Said(s.fields.key) = Said(t.fields.key) => s = t
        /\ \A s \in schemas : \A i \in DOMAIN claims : ~Meet(SchemaClaim(s), claims[i].fields.claim)
-----------------------------------------------------------------------------
(* Installations and transactions. *)

GenerationRules(f, strict) ==
    LET membership == f.membership.items
    IN  /\ ~IsBlank(f.version) /\ Hexadecimal(f.bundle_digest, Digests) /\ Hexadecimal(f.render_digest, Digests)
        /\ \A i \in DOMAIN membership :
              LET ids == membership[i].items[2].items
              IN  Distinct(ids) /\ \A j \in DOMAIN ids : Hexadecimal(ids[j], Digests)
        /\ Distinct([i \in DOMAIN membership |-> Location(membership[i].items[1].fields.destination, strict)])

\* Index::resources: what any of its generations refers to, once; the residual
\* ones are taken as they are, where the reference makes a set of them.
ResourceOf(ref, strict) == [destination |-> Location(ref.fields.destination, strict), kind |-> ref.fields.kind]
Resources(f, strict) ==
    {ResourceOf(f.residual.items[i], strict) : i \in DOMAIN f.residual.items}
    \cup UNION {{ResourceOf(g.fields.membership.items[i].items[1], strict) : i \in DOMAIN g.fields.membership.items} :
                    g \in {f.current, f.pending, f.previous} \ {Null}}

IndexRules(f, strict) ==
    /\ IsIdentifier(f.bundle_id) /\ Hexadecimal(f.context_digest, Digests) /\ IsSchema(f)
    /\ ~strict => Distinct([i \in DOMAIN f.residual.items |-> ResourceOf(f.residual.items[i], strict)])
    /\ \A r, s \in Resources(f, strict) : r.destination = s.destination => r = s

JournalRules(f, strict) ==
    /\ \A r \in {f.receipt, f.previous} \ {Null} :
          ResourceOf(r.fields.resource, strict) = ResourceOf(f.resource, strict)
    /\ IsSchema(f)
    /\ ContentOf(f.before) = ContentOf(f.backup) /\ ContentOf(f.staged) = ContentOf(f.published)
-----------------------------------------------------------------------------
(* The encoding. *)

Obj(members) == [is |-> "members", members |-> members]
Fraction == [is |-> "fraction"]
Refused == [is |-> "refused"]

Ownership == {"file", "tree", "subtree", "section", "structured"}
Disposition == {"created", "taken-over", "adopted"}
DocumentFormat == {"json", "jsonc", "toml"}
ResourceKind == {"document", "tree", "skill-container"}
Enums ==
    [Ownership |-> Ownership, Disposition |-> Disposition, DocumentFormat |-> DocumentFormat, ResourceKind |-> ResourceKind]
-----------------------------------------------------------------------------
(* What the fields of each record are. *)

Is(kind) == [kind |-> kind]
Enum(enum) == [kind |-> "enum", enum |-> enum]
A(type) == [kind |-> "record", type |-> type]
Optional(of) == [kind |-> "optional", of |-> of]
SequenceOf(of) == [kind |-> "sequence", of |-> of]
Pair(first, second) == [kind |-> "pair", of |-> <<first, second>>]
Requirement == Pair(Is("path"), Is("text"))
GenerationMember == Pair(A("ResourceRef"), SequenceOf(Is("text")))

KeyFields == [name |-> Is("text")]
MemberFields == [identity |-> Is("semantic"), key |-> SequenceOf(Is("text"))]
SectionBoundariesFields == [start |-> Is("text"), end |-> Is("text")]
SelectorFields == [parts |-> SequenceOf(Is("part"))]
DocumentSchemaFields == [format |-> Enum("DocumentFormat"), key |-> Is("text"), value |-> Is("scalar")]
ArrayPositionFields ==
    [previous |-> Optional(A("Member")), following |-> Optional(A("Member")), prefix |-> Is("octets")]
SelectionSnapshotFields ==
    [value |-> Is("snapshot"), syntax |-> Is("octets"), owned_syntax |-> Is("octets"),
     position |-> Optional(A("ArrayPosition")), layout |-> Is("octets")]
OwnedSelectionFields ==
    [claim |-> A("Claim"), format |-> Optional(Enum("DocumentFormat")), installed |-> A("SelectionSnapshot"),
     disposition |-> Enum("Disposition"), baseline |-> Optional(A("SelectionSnapshot")),
     separator |-> Is("octets")]
CreatedContainerFields == [selector |-> A("Selector"), empty_syntax |-> Is("octets")]
DocumentProvenanceFields ==
    [empty_document |-> Optional(Is("octets")), containers |-> SequenceOf(A("CreatedContainer")),
     trailing_separators |-> SequenceOf(Is("text")), schema_fields |-> SequenceOf(A("OwnedSelection")),
     schema_empty_document |-> Optional(Is("octets"))]
ClaimRecordFields == [kind |-> Enum("Ownership"), selector |-> Is("selector")]
AncestorFields ==
    [n \in {"device", "inode", "mode", "uid", "gid"} |-> Is("number")]
        @@ [path |-> Is("path"), security |-> Is("octets")]
NodeFields ==
    [n \in {"device", "inode", "mode", "uid", "gid"} |-> Is("number")]
        @@ [path |-> Is("text"), data |-> Optional(Is("octets")), security |-> Is("octets")]
RevisionFields == [nodes |-> SequenceOf(A("Node"))]
ResourceRefFields ==
    [destination |-> Is("path"), kind |-> Enum("ResourceKind"), schema_version |-> Is("number")]
OwnedClaimFields ==
    [n \in {"claim_id", "bundle_id", "artifact_id", "version", "bundle_digest", "render_digest"} |-> Is("text")]
        @@ [claim |-> A("Claim"), disposition |-> Enum("Disposition"),
            selection |-> Optional(A("OwnedSelection")),
            installed |-> Optional(A("Revision")), baseline |-> Optional(A("Revision")),
            requirements |-> SequenceOf(Requirement), stable_requirements |-> SequenceOf(Requirement),
            schema_requirements |-> SequenceOf(A("DocumentSchema"))]
ReceiptFields ==
    [resource |-> A("ResourceRef"), transaction_id |-> Is("text"), claims |-> SequenceOf(A("OwnedClaim")),
     provenance |-> A("DocumentProvenance"), created_directories |-> SequenceOf(A("Node")),
     schema_version |-> Is("number")]
GenerationFields ==
    [version |-> Is("text"), bundle_digest |-> Is("text"), render_digest |-> Is("text"),
     membership |-> SequenceOf(GenerationMember)]
IndexFields ==
    [n \in {"current", "pending", "previous"} |-> Optional(A("Generation"))]
        @@ [bundle_id |-> Is("text"), context_digest |-> Is("text"),
            residual |-> SequenceOf(A("ResourceRef")), schema_version |-> Is("number")]
JournalFields ==
    [n \in {"before", "staged", "published", "backup"} |-> A("Revision")]
        @@ [resource |-> A("ResourceRef"), previous |-> Optional(A("Receipt")), receipt |-> A("Receipt"),
            ancestors |-> SequenceOf(A("Ancestor")), schema_version |-> Is("number")]
PreparationFields ==
    [resource |-> A("ResourceRef"), transaction_id |-> Is("text"), directory |-> Is("path"),
     schema_version |-> Is("number")]

FieldsOf ==
    [Key |-> KeyFields, Member |-> MemberFields, SectionBoundaries |-> SectionBoundariesFields,
     Selector |-> SelectorFields, DocumentSchema |-> DocumentSchemaFields, ArrayPosition |-> ArrayPositionFields,
     SelectionSnapshot |-> SelectionSnapshotFields, OwnedSelection |-> OwnedSelectionFields,
     CreatedContainer |-> CreatedContainerFields, DocumentProvenance |-> DocumentProvenanceFields,
     Claim |-> ClaimRecordFields, Ancestor |-> AncestorFields, Node |-> NodeFields, Revision |-> RevisionFields,
     ResourceRef |-> ResourceRefFields, OwnedClaim |-> OwnedClaimFields, Receipt |-> ReceiptFields,
     Generation |-> GenerationFields, Index |-> IndexFields, Journal |-> JournalFields,
     Preparation |-> PreparationFields]

\* The constructor: the record, if its fields may be together.
RulesOf(type, f, strict) ==
    CASE type = "Key" -> KeyRules(f)
      [] type = "Member" -> MemberRules(f)
      [] type = "SectionBoundaries" -> SectionBoundariesRules(f)
      [] type = "Selector" -> SelectorRules(f)
      [] type = "DocumentSchema" -> DocumentSchemaRules(f)
      [] type = "ArrayPosition" -> ArrayPositionRules(f)
      [] type = "SelectionSnapshot" -> SelectionSnapshotRules(f)
      [] type = "OwnedSelection" -> OwnedSelectionRules(f)
      [] type = "CreatedContainer" -> TRUE
      [] type = "DocumentProvenance" -> DocumentProvenanceRules(f)
      [] type = "Claim" -> ClaimRules(f)
      [] type = "Ancestor" -> AncestorRules(f)
      [] type = "Node" -> NodeRules(f)
      [] type = "Revision" -> RevisionRules(f)
      [] type = "ResourceRef" -> ResourceRefRules(f)
      [] type = "OwnedClaim" -> OwnedClaimRules(f, strict)
      [] type = "Receipt" -> ReceiptRules(f)
      [] type = "Generation" -> GenerationRules(f, strict)
      [] type = "Index" -> IndexRules(f, strict)
      [] type = "Journal" -> JournalRules(f, strict)
      [] type = "Preparation" -> PreparationRules(f)
Construct(type, fields, strict) ==
    LET f == IF type = "Claim" THEN ClaimFields(fields) ELSE fields
    IN  IF RulesOf(type, f, strict) THEN Record(type, f) ELSE Refused
-----------------------------------------------------------------------------
(* Writing. *)

Spelled(name) == IF name = "" THEN EmptyText ELSE Text(name)

RECURSIVE SemanticRecord(_), Encode(_)
SemanticRecord(v) ==
    CASE v.is = "scalar" /\ v.kind = "null" -> Tuple(<<Text("null")>>)
      [] v.is = "scalar" /\ v.kind # "null" -> Tuple(<<Text(v.kind), v.payload>>)
      [] v.is = "array" ->
            Tuple(<<Text("array"), Tuple([i \in DOMAIN v.members |-> SemanticRecord(v.members[i])])>>)
      [] v.is = "object" ->
            Tuple(<<Text("object"),
                    Tuple([i \in DOMAIN v.pairs |-> Tuple(<<v.pairs[i].name, SemanticRecord(v.pairs[i].value)>>)])>>)
Encode(v) ==
    CASE v.is \in {"none", "text", "flag", "number"} -> v
      [] v.is = "tuple" -> Tuple([i \in DOMAIN v.items |-> Encode(v.items[i])])
      [] v.is = "octets" -> Obj([bytes |-> Spelled(v.digits)])
      [] v.is = "path" -> Obj([path |-> [is |-> "text", lead |-> v.lead, parts |-> v.parts]])
      [] v.is = "enum" -> Obj([enum |-> Text(v.enum), value |-> Text(v.value)])
      [] v.is \in Semantics -> Obj([value |-> SemanticRecord(v)])
      [] v.is = "record" ->
            Obj([type |-> Text(v.type), fields |-> Obj([n \in DOMAIN v.fields |-> Encode(v.fields[n])])])
-----------------------------------------------------------------------------
(* Reading: what both readers have in common. *)

Has(tree, names) == tree.is = "members" /\ DOMAIN tree.members = names

\* All of a sequence, or Refused.
All(items) == IF \E i \in DOMAIN items : items[i] = Refused THEN Refused ELSE Tuple(items)

RECURSIVE ValueFromRecord(_)
ValueFromRecord(tree) ==
    IF tree.is # "tuple" \/ Len(tree.items) \notin 1..2 THEN Refused
    ELSE IF tree.items = <<Text("null")>> THEN Scalar("null", Null)
    ELSE IF Len(tree.items) # 2 THEN Refused
    ELSE LET tag == tree.items[1]
             raw == tree.items[2]
         IN  CASE tag = Text("array") /\ raw.is = "tuple" ->
                    LET members == [i \in DOMAIN raw.items |-> ValueFromRecord(raw.items[i])]
                    IN  IF All(members) = Refused THEN Refused ELSE Array(members)
               [] tag = Text("object") /\ raw.is = "tuple" ->
                    IF \E i \in DOMAIN raw.items :
                           \/ raw.items[i].is # "tuple" \/ Len(raw.items[i].items) # 2
                           \/ raw.items[i].items[1].is # "text"
                    THEN Refused
                    ELSE LET pairs == [i \in DOMAIN raw.items |-> [name  |-> raw.items[i].items[1],
                                                                   value |-> ValueFromRecord(raw.items[i].items[2])]]
                         IN  IF \/ \E i \in DOMAIN pairs : pairs[i].value = Refused
                                \/ ~Distinct([i \in DOMAIN pairs |-> pairs[i].name])
                             THEN Refused
                             ELSE Object(SortSeq(pairs, LAMBDA p, q : Rank(p.name) < Rank(q.name)))
               [] tag = Text("boolean") /\ raw.is = "flag" -> Scalar("boolean", raw)
               [] raw.is = "text" ->
                    IF \E kind \in DOMAIN Payloads : tag = Text(kind) /\ raw \in Payloads[kind]
                    THEN Scalar(tag.parts[1], raw) ELSE Refused
               [] OTHER -> Refused

OctetsIn(tree) ==
    IF Has(tree, {"bytes"}) /\ tree.members["bytes"].is = "text" /\ \E n \in DOMAIN HexTexts : Spelled(n) = tree.members["bytes"]
    THEN Octets(HexTexts[CHOOSE n \in DOMAIN HexTexts : Spelled(n) = tree.members["bytes"]])
    ELSE Refused

\* Components only; of the slashes two stay two, and any other number is one.
PathIn(tree) ==
    IF Has(tree, {"path"}) /\ tree.members["path"].is = "text"
       /\ tree.members["path"].lead > 0 /\ ".." \notin ToSet(tree.members["path"].parts)
    THEN LET text == tree.members["path"]
         IN  Path(IF text.lead = 2 THEN 2 ELSE 1, SelectSeq(text.parts, LAMBDA p : p \notin {"", "."}))
    ELSE Refused

SemanticIn(tree) == IF Has(tree, {"value"}) THEN ValueFromRecord(tree.members["value"]) ELSE Refused

EnumIn(tree, enum) ==
    IF Has(tree, {"enum", "value"}) /\ tree.members["enum"] = Text(enum)
       /\ \E v \in Enums[enum] : tree.members["value"] = Text(v)
    THEN Member(enum, tree.members["value"].parts[1])
    ELSE Refused

Fields(tree, type) ==
    IF /\ Has(tree, {"type", "fields"}) /\ tree.members["type"] = Text(type)
       /\ Has(tree.members["fields"], DOMAIN FieldsOf[type])
    THEN tree.members["fields"] ELSE Refused
-----------------------------------------------------------------------------
(* This implementation's reader. *)

TypeTag(tree) ==
    IF tree.is = "members" /\ "type" \in DOMAIN tree.members THEN tree.members["type"] ELSE Null

RECURSIVE Decode(_, _)
FromState(type, tree) ==
    LET fields == Fields(tree, type)
    IN  IF fields = Refused THEN Refused
        ELSE LET decoded == [n \in DOMAIN FieldsOf[type] |-> Decode(FieldsOf[type][n], fields.members[n])]
             IN  IF \E n \in DOMAIN decoded : decoded[n] = Refused THEN Refused
                 ELSE Construct(type, decoded, FALSE)
Decode(expected, tree) ==
    CASE expected.kind = "text" -> IF tree.is = "text" THEN tree ELSE Refused
      [] expected.kind = "number" -> IF tree.is = "number" THEN tree ELSE Refused
      [] expected.kind = "octets" -> OctetsIn(tree)
      [] expected.kind = "path" -> PathIn(tree)
      [] expected.kind = "semantic" -> SemanticIn(tree)
      [] expected.kind = "scalar" -> LET v == SemanticIn(tree) IN IF v.is = "scalar" THEN v ELSE Refused
      [] expected.kind = "enum" -> EnumIn(tree, expected.enum)
      [] expected.kind = "record" -> FromState(expected.type, tree)
      [] expected.kind = "optional" -> IF tree = Null THEN Null ELSE Decode(expected.of, tree)
      [] expected.kind = "sequence" ->
            IF tree.is = "tuple" THEN All([i \in DOMAIN tree.items |-> Decode(expected.of, tree.items[i])]) ELSE Refused
      [] expected.kind = "pair" ->
            IF tree.is = "tuple" /\ Len(tree.items) = 2
            THEN All([i \in 1..2 |-> Decode(expected.of[i], tree.items[i])]) ELSE Refused
      [] expected.kind = "part" ->
            IF TypeTag(tree) = Text("Key") THEN FromState("Key", tree)
            ELSE IF TypeTag(tree) = Text("Member") THEN FromState("Member", tree) ELSE Refused
      [] expected.kind = "selector" ->
            IF tree.is \in {"none", "text"} THEN tree
            ELSE IF TypeTag(tree) = Text("SectionBoundaries") THEN FromState("SectionBoundaries", tree)
            ELSE IF TypeTag(tree) = Text("Selector") THEN FromState("Selector", tree) ELSE Refused
      [] expected.kind = "snapshot" ->
            IF OctetsIn(tree) # Refused THEN OctetsIn(tree) ELSE SemanticIn(tree)

\* Mutant of DecodeMetadata: what is read is not compared with what is stored.
DecodeWithoutComparison(type, tree) == FromState(type, tree)

\* decode_metadata, for a record of the type the caller expects: what would
\* not be written back as it is, is refused.
DecodeMetadata(type, tree) ==
    LET value == FromState(type, tree)
    IN  IF value # Refused /\ Encode(value) = tree THEN value ELSE Refused
-----------------------------------------------------------------------------
(* The reference's. *)

\* What a constructor makes of an argument that is of the wrong type.
RECURSIVE Fits(_, _)
Fits(expected, v) ==
    CASE expected.kind = "text" -> v.is \in {"text", "enum"}
      [] expected.kind \in {"number", "octets", "path", "scalar"} -> v.is = expected.kind
      [] expected.kind = "semantic" -> v.is \in Semantics
      [] expected.kind = "enum" -> v.is = "enum" /\ v.enum = expected.enum
      [] expected.kind = "record" -> v.is = "record" /\ v.type = expected.type
      [] expected.kind = "optional" -> v = Null \/ Fits(expected.of, v)
      [] expected.kind = "sequence" -> v.is = "tuple" /\ \A i \in DOMAIN v.items : Fits(expected.of, v.items[i])
      [] expected.kind = "pair" ->
            v.is = "tuple" /\ Len(v.items) = 2 /\ \A i \in 1..2 : Fits(expected.of[i], v.items[i])
      [] expected.kind = "part" -> v.is = "record" /\ v.type \in {"Key", "Member"}
      [] expected.kind = "selector" ->
            v.is \in {"none", "text", "enum"} \/ (v.is = "record" /\ v.type \in {"SectionBoundaries", "Selector"})
      [] expected.kind = "snapshot" -> v.is \in Semantics \cup {"octets"}

RECURSIVE Generic(_)
Generic(tree) ==
    CASE tree.is \in {"none", "text", "flag", "number"} -> tree
      [] tree.is = "fraction" -> Refused
      [] tree.is = "tuple" -> All([i \in DOMAIN tree.items |-> Generic(tree.items[i])])
      [] Has(tree, {"value"}) -> SemanticIn(tree)
      [] Has(tree, {"bytes"}) -> OctetsIn(tree)
      [] Has(tree, {"path"}) -> PathIn(tree)
      [] Has(tree, {"enum", "value"}) ->
            IF \E enum \in DOMAIN Enums : EnumIn(tree, enum) # Refused
            THEN EnumIn(tree, CHOOSE enum \in DOMAIN Enums : EnumIn(tree, enum) # Refused) ELSE Refused
      [] OTHER ->
            IF ~\E type \in DOMAIN FieldsOf : Fields(tree, type) # Refused THEN Refused
            ELSE LET type    == tree.members["type"].parts[1]
                     members == tree.members["fields"].members
                     fields  == [n \in DOMAIN members |-> Generic(members[n])]
                 IN  IF \E n \in DOMAIN fields : fields[n] = Refused \/ ~Fits(FieldsOf[type][n], fields[n])
                     THEN Refused ELSE Construct(type, fields, TRUE)

ReferenceDecode(type, tree) ==
    LET value == Generic(tree)
    IN  IF value.is = "record" /\ value.type = type /\ Encode(value) = tree THEN value ELSE Refused
-----------------------------------------------------------------------------
(***************************************************************************)
(* A record is written, and read again by either implementation: by the    *)
(* one that wrote it and, the layout of the state being a format they      *)
(* share, by the other.  In between somebody may have edited the file: a   *)
(* value replaced, a member or an item removed, added or moved.            *)
(* Writing and both ways of reading are parameters, given Encode,          *)
(* DecodeMetadata and ReferenceDecode.                                     *)
(***************************************************************************)

CONSTANTS
    StoredRecords,  \* the records there are
    MaxEdits,
    Encoded(_),
    ReadState(_, _),        \* a tree, read as a record of a type
    ReadByReference(_, _),
    PlacesOf(_),    \* the places in a tree
    EditsAt(_, _),  \* the trees that one edit in a place makes of it
    Excused(_)      \* records the two are known to disagree about

VARIABLES record, stored, changes, reading, reference
readerVars == <<record, stored, changes, reading, reference>>

Unread == [is |-> "unread"]

ReadersInit ==
    /\ record \in StoredRecords
    /\ \E tree \in {Encoded(record)} : stored = tree
    /\ changes = 0 /\ reading = Unread /\ reference = Unread

Edit ==
    /\ reading = Unread /\ changes < MaxEdits
    /\ \E place \in PlacesOf(stored) : \E tree \in EditsAt(stored, place) : stored' = tree
    /\ changes' = changes + 1
    /\ UNCHANGED <<record, reading, reference>>

ReadBack ==
    /\ reading = Unread
    /\ \E r \in {ReadState(record.type, stored)}, s \in {ReadByReference(record.type, stored)} :
           reading' = r /\ reference' = s
    /\ UNCHANGED <<record, stored, changes>>

ReadersNext == Edit \/ ReadBack
ReadersSpec == ReadersInit /\ [][ReadersNext]_readerVars
-----------------------------------------------------------------------------
(***************************************************************************)
(* What is read is what was written exactly when the file is the one that  *)
(* was written: every record there can be is read back, and no other text  *)
(* passes for it (decode's comparison with what it would write itself).    *)
(***************************************************************************)
OnlyAsWritten ==
    reading # Unread => (reading = record <=> stored = Encoded(record))

(***************************************************************************)
(* A file edited in whatever way is refused by both implementations or     *)
(* read by both, as the same record, but for what Excused names: the       *)
(* installation of one is the installation of the other (the typed decoder *)
(* of codec.rs and the generic one of _codec.py).                          *)
(***************************************************************************)
CodecsAgree ==
    reading # reference => \E r \in {reading, reference} \ {Refused} : Excused(r)
=============================================================================
