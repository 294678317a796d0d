----------------------------- MODULE MCReading ------------------------------
(***************************************************************************)
(* Small instances of what reads bundles and records, one part in each     *)
(* behaviour: a "bundle" is loaded; one of the "records" of the state is   *)
(* written, edited and read back; bundles are rendered (MCRendering).      *)
(***************************************************************************)
EXTENDS BundleLoad, Rendering, StateCodec

CONSTANT Unreadable

VARIABLE part

FoldName(name) == CASE name = "NOTE" -> "note" [] name = "S" -> "s" [] OTHER -> name
ManifestName == <<"flyrail.json">>
Contested == {"m1", "m3"}
UnsafeOnes == {"..", "con"}
Words == {"s", "t", "tiny", "lib", "rules", "srv", "guard"}
Variables == {"TOKEN", "MODE"}
Note == <<"note">>
Skill == <<"s">>
Library == <<"lib">>
Tool == <<"lib", "x">>
-----------------------------------------------------------------------------
(* Manifests. *)

One(skills) == [schema_version |-> 1, id |-> "tiny", version |-> "1", skills |-> skills]
Two(artifacts, assets, edges) ==
    [schema_version |-> 2, id |-> "tiny", version |-> "1",
     artifacts |-> artifacts, assets |-> assets, dependencies |-> edges]
SkillRecord == [kind |-> "skill", id |-> "s", name |-> "s", path |-> Skill, executables |-> <<<<"run">>>>]
Rules == [kind |-> "instruction", id |-> "rules", path |-> Note]
Lib == [id |-> "lib", family |-> "mcp", path |-> Library, executables |-> <<<<"x">>>>]
Asset(path) == [asset |-> "lib", path |-> path]
Server(argv, cwd) ==
    [kind |-> "mcp", id |-> "srv", name |-> "srv",
     transport |-> [kind |-> "stdio",
                    command |-> [argv |-> argv, cwd |-> cwd, env |-> [MODE |-> [text |-> <<"m1">>]]]]]
Remote(port) ==
    [kind |-> "mcp", id |-> "srv", name |-> "srv",
     transport |-> [kind |-> "http", bearer_token_env |-> "TOKEN",
                    url |-> [scheme |-> "https", host |-> "h", port |-> port, credentials |-> FALSE,
                             fragment |-> FALSE, space |-> FALSE]]]
Guard(outcomes, tools, event) ==
    [kind |-> "hook", id |-> "guard", event |-> event, protocol_version |-> 1, outcomes |-> outcomes,
     tools |-> tools, command |-> [argv |-> <<[text |-> <<"m1">>]>>]]
Native(content) ==
    [kind |-> "native", id |-> "t", family |-> "skills", destination |-> <<"t">>,
     audience |-> [agent |-> "cursor", scope |-> "project", surface |-> "ide"], content |-> content]
Edge(mode) == [dependent |-> "srv", required |-> "lib", mode |-> mode]
StartedFrom == Server(<<Asset(<<"x">>), [text |-> <<"m1">>]>>, [asset |-> "lib"])

Catalogue ==
    [m1 |-> One(<<[name |-> "s", path |-> Skill, executables |-> <<<<"run">>>>]>>),
     m3 |-> One(<<[name |-> "s", path |-> Skill]>>),
     overlap |-> One(<<[name |-> "s", path |-> Skill], [name |-> "t", path |-> <<"s", "t">>]>>),
     unknown |-> [schema_version |-> 1, id |-> "tiny", version |-> "1", skills |-> <<>>, extra |-> 1],
     full |-> Two(<<SkillRecord, Rules, StartedFrom>>, <<Lib>>, <<Edge("revision")>>),
     stable |-> Two(<<StartedFrom>>, <<Lib>>, <<Edge("stable-reference")>>),
     unused |-> Two(<<Rules>>, <<Lib>>, <<>>),
     loop |-> Two(<<Rules, StartedFrom>>, <<Lib>>,
                  <<Edge("revision"), [dependent |-> "lib", required |-> "srv"]>>),
     twice |-> Two(<<Rules, Rules>>, <<>>, <<>>),
     folder |-> Two(<<Server(<<[asset |-> "lib"]>>, [text |-> Note])>>, <<Lib>>, <<Edge("revision")>>),
     remote |-> Two(<<Remote(443)>>, <<>>, <<>>),
     port |-> Two(<<Remote(0)>>, <<>>, <<>>),
     guard |-> Two(<<Guard(<<"block">>, <<"m1">>, "before-tool")>>, <<>>, <<>>),
     nowhere |-> Two(<<Guard(<<"block">>, <<"m1">>, "stop")>>, <<>>, <<>>),
     file |-> Two(<<Native([kind |-> "file", path |-> Note])>>, <<>>, <<>>),
     section |-> Two(<<Native([kind |-> "section", marker |-> "t", path |-> Note,
                               boundaries |-> [start |-> "m1", end |-> "m3"]])>>, <<>>, <<>>),
     member |-> Two(<<Native([kind |-> "structured", format |-> "json", value |-> "m1",
                              selector |-> <<[name |-> "k"], [identity |-> "i", key |-> <<>>]>>,
                              placement |-> [position |-> "first"]])>>, <<>>, <<>>),
     misplaced |-> Two(<<Native([kind |-> "structured", format |-> "json", value |-> "m1",
                                 selector |-> <<[name |-> "k"]>>,
                                 placement |-> [position |-> "first"]])>>, <<>>, <<>>)]
ParseManifest(data) ==
    IF data[1] = data[2] /\ data[1] \in DOMAIN Catalogue THEN Catalogue[data[1]] ELSE None
-----------------------------------------------------------------------------
S == INSTANCE StaticSources
     WITH FoldedName <- FoldName, UnsafeNames <- UnsafeOnes, Identifiers <- Words, EnvNames <- Variables,
          SkillFile <- "SKILL.md", ManifestFile <- "flyrail.json", Parse <- ParseManifest

ReadManifest(data) ==
    LET m == ParseManifest(data) IN IF m # None /\ S!ManifestOK(m) THEN m ELSE None
NeedsOf(m) == LET needs == [i \in DOMAIN S!Records(m) |-> S!RecordNeed(m, i)] IN needs
BuildFrom(m, read) == LET b == S!Assemble(m, read) IN b
-----------------------------------------------------------------------------
(* Archives. *)

Packing(name, slash, data) ==
    [name |-> name, slash |-> slash, data |-> data, unix |-> "none", reparse |-> FALSE, ambiguous |-> FALSE,
     method |-> "stored", flags |-> {}]
Top == <<"pkg", "flyrail">>
InTop(path, data) == Packing(Top \o path, FALSE, data)
Contents(id) ==
    <<InTop(<<"flyrail.json">>, <<id, id>>), Packing(Top \o Skill, TRUE, <<>>),
      InTop(<<"s", "SKILL.md">>, <<"m1", "m1">>), InTop(<<"s", "run">>, <<"m1", "m3">>)>>

\* The archive that has these members, one after the other.
Packed(members) ==
    LET offset[i \in 1..(Len(members) + 1)] ==
            IF i = 1 THEN 1 ELSE offset[i - 1] + 1 + Len(members[i - 1].data)
        Cells(m) == <<[header |-> m.name, slash |-> m.slash]>>
                       \o (IF m.method = "stored" THEN m.data
                           ELSE [i \in DOMAIN m.data |-> [packed |-> m.data[i]]])
    IN  [disk      |-> FlattenSeq([i \in DOMAIN members |-> Cells(members[i])]),
         directory |-> offset[Len(members) + 1],
         members   |-> [i \in DOMAIN members |->
                            [name |-> members[i].name, slash |-> members[i].slash, unix |-> members[i].unix,
                             reparse |-> members[i].reparse, ambiguous |-> members[i].ambiguous,
                             method |-> members[i].method, flags |-> members[i].flags,
                             offset |-> offset[i], size |-> Len(members[i].data),
                             packed |-> members[i].data]]]
With(m, field, value) == [m EXCEPT ![field] = value]
Variant(i, field, value) == Packed([Contents("m1") EXCEPT ![i] = With(@, field, value)])
Moved(i, field, value) == [Packed(Contents("m1")) EXCEPT !.members[i] = With(@, field, value)]

Archives ==
    [m1 |-> Packed(Contents("m1")), m3 |-> Packed(Contents("m3")),
     deflated |-> Variant(3, "method", "deflated"), imploded |-> Variant(3, "method", "imploded"),
     encrypted |-> Variant(4, "flags", {"encrypted"}), linked |-> Variant(4, "unix", "symlink"),
     reparse |-> Variant(4, "reparse", TRUE), odd |-> Variant(2, "ambiguous", TRUE),
     unsafe |-> Variant(4, "name", Top \o <<"s", "con">>),
     twice |-> Packed(Append(Contents("m1"), InTop(<<"s", "run">>, <<"m3", "m3">>))),
     under |-> Packed(Append(Contents("m1"), InTop(<<"s", "run", "x">>, <<"m3", "m3">>))),
     spelled |-> Packed(Append(Contents("m1"), InTop(<<"S", "x">>, <<"m3", "m3">>))),
     beside |-> Packed(Append(Contents("m1"), Packing(<<"con">>, FALSE, <<"m3">>))),
     above |-> Packed(Append(Contents("m1"), Packing(<<"pkg">>, FALSE, <<"m3">>))),
     renamed |-> Moved(3, "name", Top \o <<"s", "NOTE">>), overlapping |-> Moved(3, "size", 4),
     elsewhere |-> Moved(3, "offset", Packed(Contents("m1")).members[4].offset),
     corrupt |-> Moved(3, "packed", <<"m3", "m3">>)]

ArchiveIn(data) == IF data[1] = data[2] /\ data[1] \in DOMAIN Archives THEN Archives[data[1]] ELSE None
UnpackFrom(data) == LET b == S!FromArchive(ArchiveIn(data), Top) IN b

\* What was packed under the top directory, whatever the reader thinks of it.
Extracted(archive) ==
    LET in == {m \in ToSet(archive.members) : S!IsUnder(m.name, Top)}
    IN  [p \in {S!Below(m.name, Top) : m \in in} |->
             LET m == CHOOSE n \in in : n.name = Top \o p
             IN  [data |-> IF m.slash THEN None ELSE m.packed, executable |-> FALSE]]
Sound == {"m1", "m3", "deflated", "beside"}
-----------------------------------------------------------------------------
(* Directories. *)

File(id) == [kind |-> "file", data |-> <<id, id>>]
Dir == [kind |-> "dir", data |-> None]
Special == [kind |-> "special", data |-> None]
Busy == (<<"flyrail.json">> :> File("m1")) @@ (Skill :> Dir) @@ (<<"s", "SKILL.md">> :> File("m1"))
            @@ (<<"s", "run">> :> File("m3"))
Holds(id) == (<<"flyrail.json">> :> File(id)) @@ (Note :> File("text")) @@ (Library :> Dir) @@ (Tool :> File("m1"))
                @@ Busy
Without(files, path) == [p \in DOMAIN files \ {path} |-> files[p]]
ZipName == <<"b.zip">>
Zipped(id) == (ZipName :> File(id)) @@ (Note :> File("text"))

Job(files, where, most, paths) ==
    [files |-> files, origin |-> where, allowed |-> [edits |-> most, paths |-> paths, blocks |-> Contested]]
Calm ==
    {Job(Holds(id), None, 0, {}) : id \in DOMAIN Catalogue \cup {"text"}}
    \cup {Job(Zipped(id), ZipName, 0, {}) : id \in DOMAIN Archives \cup {"text"}}
    \cup {Job(f, None, 0, {}) : f \in
            {(<<"NOTE">> :> File("m1")) @@ Holds("m1"), (<<"lib", "s">> :> File("m1")) @@ Holds("full"),
             (<<"lib", "S">> :> Dir) @@ (<<"lib", "s">> :> Dir) @@ Holds("m1"),
             (<<"s", "S">> :> Dir) @@ (<<"s", "s">> :> Dir) @@ Holds("m1"),
             (<<"s", "con">> :> Dir) @@ Holds("m1"), (<<"s", "link">> :> Special) @@ Holds("full"),
             (<<"lib", "link">> :> Special) @@ Holds("m1"), (Note :> Special) @@ Holds("full"),
             (Note :> File("binary")) @@ Holds("full"), (Note :> File("nul")) @@ Holds("full"),
             (<<"s", "run", "x">> :> File("m1")) @@ (<<"s", "run">> :> Dir) @@ Holds("m1"),
             (<<"s", "t">> :> Dir) @@ (<<"s", "t", "run">> :> File("m1")) @@ Holds("m1"),
             (<<"S">> :> Dir) @@ Without(Without(Without(Holds("m1"), Skill), <<"s", "run">>), <<"s", "SKILL.md">>),
             Without(Holds("m1"), <<"s", "SKILL.md">>), Without(Holds("m1"), <<"s", "run">>),
             Without(Holds("full"), Note), Without(Holds("m1"), <<"flyrail.json">>)}}
Disturbed ==
    {Job(Busy, None, 2, {<<"flyrail.json">>, <<"s", "SKILL.md">>}),
     Job(Busy, None, 2, {<<"s", "run">>, <<"s", "new">>}), Job(Busy, None, 3, {<<"s", "run">>}),
     Job(Busy, None, 1, {Skill, Note}), Job(Zipped("m1"), ZipName, 2, {ZipName}),
     Job(Zipped("m1"), ZipName, 1, {Note})}
AllBlocks == DOMAIN Catalogue \cup DOMAIN Archives \cup {"text", "binary", "nul"}
AllJobs == Calm \cup Disturbed

StaticNode(v) == [data |-> IF v.kind = "special" THEN Unreadable ELSE v.data, executable |-> FALSE]
FromStatic(files) == S!LoadFrom(files, S!FileAt(files, ManifestName))
\* A sound archive has to load, and one that loads, to what was packed.
FromPacked(data) ==
    IF ArchiveIn(data) = None \/ (data[1] \notin Sound /\ UnpackFrom(data) = None) THEN None
    ELSE FromStatic(Extracted(ArchiveIn(data)))
LoadedAtOnce(view, where) ==
    LET b == IF where = None THEN FromStatic([p \in DOMAIN view |-> StaticNode(view[p])])
             ELSE IF where \notin DOMAIN view \/ view[where].kind # "file" THEN None
             ELSE FromPacked(view[where].data)
    IN  b
-----------------------------------------------------------------------------
Names == {"..", "con"}
FoldedParts == [p \in {"a", "A", "b", "c", "file", "k", "tiny"} |-> IF p = "A" THEN "a" ELSE p]
Ids == {"tiny", "rules", "file"}
Letters == <<"A", "a", "b", "c", "file", "k", "tiny">>
NoLines == {EmptyText, Text("two lines")}
Transactions == {"t1"}
Sums == {"d1", "d2"}
Spaces == {"", "0a", "20"}
HeaderNames == ("[k]" :> <<Text("k")>>) @@ ("[k.b]" :> <<Text("k"), Text("b")>>)
Headers(entries) == Obj([version |-> Number(1), headers |-> Tuple(entries)])
AtB == Headers(<<Tuple(<<Tuple(<<Text("b")>>), Text("[k.b]")>>)>>)
Layouts ==
    ("7b01" :> AtB) @@ ("7b02" :> Headers(<<Tuple(<<Tuple(<<Text("c")>>), Text("[k.b]")>>)>>))
    @@ ("7b03" :> Headers(<<Tuple(<<Tuple(<<Text("b")>>), Text("[k]")>>)>>))
    @@ ("7b04" :> Headers(AtB.members["headers"].items \o AtB.members["headers"].items))
    @@ ("7b05" :> Headers(<<Tuple(<<Tuple(<<>>), Text("[k]")>>)>>))
HexWritten ==
    [d \in {"", "00ff", "0a", "20", "7b01", "7b02", "7b03", "7b04", "7b05"} |-> d] @@ ("00FF" :> "00ff") @@ ("00 ff" :> "00ff")
Canonical ==
    [string |-> {Text("a"), Text("b"), Text("file"), EmptyText}, integer |-> {Text("1")}, date |-> {Text("2020-01-01")}]
-----------------------------------------------------------------------------
(* Records. *)

Mine(enum) == CHOOSE e \in DOMAIN Enums : enum \in Enums[e]
E(value) == Member(Mine(value), value)
Second == Number(2)
W(name) == Path(1, <<"w", name>>)
Ref(name, kind) == Record("ResourceRef", [destination |-> W(name), kind |-> Member("ResourceKind", kind), schema_version |-> Second])
NodeAt(path, data) ==
    Record("Node", [n \in {"device", "inode", "mode", "uid", "gid"} |-> Number(1)]
                       @@ [path |-> path, data |-> data, security |-> Octets("")])
Directory == NodeAt(EmptyText, Null)
Revised(nodes) == Record("Revision", [nodes |-> Tuple(nodes)])
OneFile == Revised(<<NodeAt(EmptyText, Octets("00ff"))>>)
TreeOf == Revised(<<Directory, NodeAt(Text("a"), Null),
                    NodeAt([is |-> "text", lead |-> 0, parts |-> <<"a", "b">>], Octets("00ff")), NodeAt(Text("b"), Octets(""))>>)
Absent == Revised(<<>>)
Claiming(kind, selector) == Record("Claim", [kind |-> E(kind), selector |-> selector])
KeyOf(name) == Record("Key", [name |-> Text(name)])
MemberOf(identity, key) == Record("Member", [identity |-> identity, key |-> Tuple(key)])
Select(parts) == Record("Selector", [parts |-> Tuple(parts)])
Unit == Scalar("integer", Text("1"))
Lines == Record("SectionBoundaries", [start |-> Text("a"), end |-> Text("b")])
InLines == Claiming("section", Lines)
InDocument(parts) == Claiming("structured", Select(parts))
Identified == MemberOf(Scalar("string", Text("a")), <<Text("k")>>)
Snap(value, position, layout) ==
    Record("SelectionSnapshot", [value |-> value, syntax |-> Octets("00ff"), owned_syntax |-> Octets("0a"),
                                 position |-> position, layout |-> Octets(layout)])
Between == Record("ArrayPosition", [previous |-> Identified, following |-> Null, prefix |-> Octets("20")])
Table == Object(<<[name |-> Text("a"), value |-> Array(<<Unit, Scalar("null", Null)>>)],
                  [name |-> Text("b"), value |-> Object(<<>>)]>>)
Selected(claim, format, installed, disposition, baseline) ==
    Record("OwnedSelection", [claim |-> claim, format |-> format, installed |-> installed,
                              disposition |-> E(disposition), baseline |-> baseline,
                              separator |-> IF format = Null THEN Octets("0a") ELSE Octets("")])
TextSelected == Selected(InLines, Null, Snap(Octets("00ff"), Null, ""), "created", Null)
TomlSelected == Selected(InDocument(<<KeyOf("k")>>), E("toml"), Snap(Table, Null, "7b01"), "created", Null)
JsonSelected ==
    Selected(InDocument(<<KeyOf("k"), Identified>>), E("json"), Snap(Unit, Between, ""), "taken-over",
             Snap(Scalar("boolean", Flag(TRUE)), Between, ""))
SchemaSelected ==
    Selected(InDocument(<<KeyOf("file")>>), E("json"), Snap(Scalar("string", Text("a")), Null, ""), "created", Null)
SchemaOf == Record("DocumentSchema", [format |-> E("json"), key |-> Text("file"), value |-> Scalar("string", Text("a"))])
Held(claim, at, selection, installed, disposition, baseline, schemas) ==
    Record("OwnedClaim",
        [n \in {"bundle_id", "artifact_id"} |-> Text("tiny")] @@ [n \in {"bundle_digest", "render_digest"} |-> Text("d1")]
        @@ [claim |-> claim, claim_id |-> Identity(claim, at), version |-> Text("k"), selection |-> selection,
            installed |-> installed, disposition |-> E(disposition), baseline |-> baseline,
            requirements |-> IF schemas = <<>> THEN Tuple(<<Tuple(<<W("a"), Text("d1")>>), Tuple(<<W("a"), Text("d2")>>)>>) ELSE Tuple(<<>>),
            stable_requirements |-> IF schemas = <<>> THEN Tuple(<<Tuple(<<W("a"), Text("d1")>>)>>) ELSE Tuple(<<>>),
            schema_requirements |-> Tuple(schemas)])
FileHeld == Held(Claiming("file", Null), W("a"), Null, OneFile, "taken-over", OneFile, <<>>)
SharedHeld(selection, schemas) ==
    Held(selection.fields.claim, W("b"), selection, Null, selection.fields.disposition.value, Null, schemas)
SubtreeHeld(path) == Held(Claiming("subtree", path), W("c"), Null, OneFile, "created", Null, <<>>)
NoDocument ==
    Record("DocumentProvenance", [empty_document |-> Null, containers |-> Tuple(<<>>), trailing_separators |-> Tuple(<<>>),
                                  schema_fields |-> Tuple(<<>>), schema_empty_document |-> Null])
Created == Record("CreatedContainer", [selector |-> Select(<<KeyOf("a")>>), empty_syntax |-> Octets("20")])
FullDocument ==
    Record("DocumentProvenance", [empty_document |-> Octets("0a"), containers |-> Tuple(<<Created>>),
                                  trailing_separators |-> Tuple(<<Text("d1"), Text("d1")>>),
                                  schema_fields |-> Tuple(<<SchemaSelected>>), schema_empty_document |-> Octets("20")])
Receives(ref, claims, provenance, made) ==
    Record("Receipt", [resource |-> ref, transaction_id |-> Text("t1"), claims |-> Tuple(claims), provenance |-> provenance,
                       created_directories |-> Tuple(made), schema_version |-> Second])
FileReceipt == Receives(Ref("a", "document"), <<FileHeld>>, NoDocument, <<>>)
EmptyReceipt == Receives(Ref("a", "document"), <<>>, NoDocument, <<>>)
Belongs == <<Ref("a", "document"), <<Text("d1"), Text("d2")>>>>
Generated(pairs) ==
    Record("Generation", [version |-> Text("k"), bundle_digest |-> Text("d1"), render_digest |-> Text("d2"),
                          membership |-> Tuple([i \in DOMAIN pairs |-> Tuple(<<pairs[i][1], Tuple(pairs[i][2])>>)])])
Indexed(current, upcoming, residual) ==
    Record("Index", [bundle_id |-> Text("tiny"), context_digest |-> Text("d1"), current |-> current, pending |-> upcoming,
                     previous |-> Null, residual |-> Tuple(residual), schema_version |-> Second])
Preparing(ref, directory) ==
    Record("Preparation", [resource |-> ref, transaction_id |-> Text("t1"), directory |-> directory,
                           schema_version |-> Second])
Root1 ==
    Record("Ancestor", [n \in {"device", "inode", "mode", "uid", "gid"} |-> Number(1)]
                           @@ [path |-> Path(1, <<>>), security |-> Octets("")])
Journaled(previous, before, staged) ==
    Record("Journal", [resource |-> Ref("a", "document"), previous |-> previous, receipt |-> EmptyReceipt,
                       before |-> before, backup |-> before, staged |-> staged, published |-> staged,
                       ancestors |-> Tuple(<<Root1>>),
                       schema_version |-> Second])

LinesApart == Record("SectionBoundaries", [start |-> Text("c"), end |-> Text("k")])
Adopted == Selected(Claiming("section", LinesApart), Null, Snap(Octets(""), Null, ""), "adopted", Null)
ARecord == Preparing(Ref("a", "document"), W("b"))
Kept ==
    {FileReceipt, Absent, TreeOf, TomlSelected, JsonSelected, ARecord,
     Receives(Ref("b", "document"), <<SharedHeld(TextSelected, <<>>), SharedHeld(Adopted, <<>>)>>, NoDocument, <<>>),
     Receives(Ref("b", "document"), <<SharedHeld(JsonSelected, <<SchemaOf>>)>>, FullDocument, <<>>),
     Receives(Ref("c", "skill-container"), <<SubtreeHeld(Text("a")), SubtreeHeld(Text("b"))>>, NoDocument,
              <<Directory, NodeAt(Text("a"), Null)>>),
     Indexed(Generated(<<Belongs, <<Ref("b", "tree"), <<>>>>>>), Null, <<Ref("c", "tree")>>),
     Indexed(Generated(<<Belongs>>), Generated(<<Belongs>>), <<Ref("a", "document"), Ref("b", "tree")>>),
     Journaled(EmptyReceipt, Absent, OneFile), Journaled(Null, OneFile, Absent)}
-----------------------------------------------------------------------------
(* Edits. *)

Slashed(lead, parts) == Obj([path |-> [is |-> "text", lead |-> lead, parts |-> parts]])
Misfits == {Null, Flag(TRUE), Number(0), Fraction, Text("b"), Encode(E("file"))}
\* What somebody may put where a tree is.
InPlaceOf(t) ==
    Misfits \cup
    CASE t.is = "text" -> {EmptyText, Text("file"), Text("a"), Text("A"), Text("con"), Text("d2")}
      [] t.is = "number" -> {Number(3), Number(-1), Number(4096)}
      [] Has(t, {"bytes"}) ->
            {Obj([bytes |-> Text("00FF")]), Obj([bytes |-> Text("zz")]), Encode(Unit)}
            \cup {Encode(Octets(d)) : d \in {"00ff", "7b02", "7b03", "7b04", "7b05"}}
      [] Has(t, {"path"}) ->
            {Slashed(1, <<"w", "b">>), Slashed(2, <<"w", "a">>), Slashed(3, <<"w", "a">>), Slashed(1, <<"w", ".", "a">>),
             Slashed(1, <<"w", "..", "a">>), Slashed(1, <<>>), Slashed(0, <<"w">>)}
      [] Has(t, {"value"}) -> {Encode(v) : v \in {Scalar("null", Null), Unit, Table, Octets("00ff")}}
      [] Has(t, {"enum", "value"}) -> {Encode(E(v)) : v \in {"json", "tree", "subtree", "section", "taken-over"}}
      [] Has(t, {"type", "fields"}) ->
            {Encode(v) : v \in {KeyOf("k"), Identified, Lines, InLines, Claiming("file", Null), Claiming("subtree", Text("A")),
                                OneFile, Absent, Ref("b", "tree"), Ref("b", "document"), Directory}}
      [] OTHER -> {}

Inside(t) ==
    CASE t.is = "members" -> {[name |-> n] : n \in DOMAIN t.members}
      [] t.is = "tuple" -> {[at |-> i] : i \in DOMAIN t.items}
      [] OTHER -> {}
Child(t, step) == IF t.is = "members" THEN t.members[step.name] ELSE t.items[step.at]
RECURSIVE Places(_), At(_, _), PutAt(_, _, _)
Places(t) == {<<>>} \cup UNION {{<<s>> \o p : p \in Places(Child(t, s))} : s \in Inside(t)}
At(t, place) == IF place = <<>> THEN t ELSE At(Child(t, place[1]), Tail(place))
PutAt(t, place, new) ==
    IF place = <<>> THEN new
    ELSE IF t.is = "members"
    THEN Obj([t.members EXCEPT ![place[1].name] = PutAt(@, Tail(place), new)])
    ELSE Tuple([t.items EXCEPT ![place[1].at] = PutAt(@, Tail(place), new)])
\* Removing, adding and moving what is in it.
Rearranged(t) ==
    CASE t.is = "members" ->
            {Obj([n \in DOMAIN t.members \ {gone} |-> t.members[n]]) : gone \in DOMAIN t.members}
            \cup {Obj(("extra" :> Null) @@ t.members)}
      [] t.is = "tuple" ->
            {Tuple(RemoveAt(t.items, i)) : i \in DOMAIN t.items}
            \cup {Tuple(Append(t.items, t.items[i])) : i \in DOMAIN t.items} \cup {Tuple(Reverse(t.items))}
      [] OTHER -> {}
NewTrees(t, place) ==
    LET old == At(t, place) IN {PutAt(t, place, new) : new \in (InPlaceOf(old) \cup Rearranged(old)) \ {old}}

Write(r) == LET t == Encode(r) IN t
Decoded(type, t) == LET r == DecodeMetadata(type, t) IN r
DecodedByReference(type, t) == LET r == ReferenceDecode(type, t) IN r
PlacesIn(t) == LET places == Places(t) IN places
ChangesAt(t, place) == LET trees == NewTrees(t, place) IN trees

\* The differences that are known: a member of a StrEnum is a text to the
\* reference, PathBuf leaves out a second slash where Path does not, and a
\* residual resource may be listed twice for the reference only.
RECURSIVE Known(_)
Known(v) ==
    CASE v.is = "record" ->
            \/ \E n \in DOMAIN v.fields : Known(v.fields[n])
            \/ \E n \in DOMAIN v.fields \ {"kind", "disposition", "format"} : v.fields[n].is = "enum"
            \/ v.type = "Index" /\ ~Distinct(v.fields.residual.items)
      [] v.is = "tuple" -> \E i \in DOMAIN v.items : v.items[i].is = "enum" \/ Known(v.items[i])
      [] v.is = "path" -> v.lead = 2
      [] OTHER -> FALSE
KnownDifference(v) == LET known == Known(v) IN known
-----------------------------------------------------------------------------
R == INSTANCE MCRendering
AllBundles == R!AllBundles
AllBatches == R!AllBatches
ASSUME BundlesAreGood == None \notin AllBundles
ASSUME ContextsAreGood == \A batch \in AllBatches : \A c \in batch : R!ContextOK(c)
RouteOf(c) == R!RouteOf(c)
RenderOne(b, c) == R!RenderOne(b, c)
RenderAll(results, all) == R!RenderAll(results, all)
PortableFamilies(c) == R!PortableFamilies(c)
Serves(b, a, c, published) == R!Serves(b, a, c, published)
Absolute(c) == R!Absolute(c)
Requirable(b) == R!Requirable(b)
-----------------------------------------------------------------------------
\* What does not happen in a behaviour stands still.
PartsInit ==
    /\ part \in {"bundle", "records", "rendering"}
    /\ Init /\ ReadersInit
    /\ part # "records" => record = ARecord
    /\ part # "bundle" => past = {Busy} /\ allowed.edits = 1
    /\ IF part = "rendering" THEN changes = 0 /\ RenderInit
       ELSE authored = None /\ contexts = {} /\ pending = {} /\ routes = <<>> /\ outcome = Undecided
PartsNext ==
    /\ UNCHANGED part
    /\ \/ part = "bundle" /\ Next /\ UNCHANGED <<readerVars, renderVars>>
       \/ part = "records" /\ ReadersNext /\ UNCHANGED <<vars, renderVars>>
       \/ part = "rendering" /\ RenderNext /\ UNCHANGED <<vars, readerVars>>
PartsSpec == PartsInit /\ [][PartsNext]_<<part, vars, readerVars, renderVars>>
=============================================================================
