----------------------------- MODULE BundleFormat -----------------------------
(***************************************************************************)
(* What a bundle is: the rules of its manifest in both schemas, of its     *)
(* artifacts and support assets, and how they are put together.            *)
(*                                                                         *)
(* A path is a sequence of names.  Text and the bytes of a file are        *)
(* sequences of lines, "nul" and "binary" standing for a line with a NUL   *)
(* and for one that is not UTF-8.  A manifest is the record its JSON       *)
(* holds: a field that is absent is not in its domain.  A tree is a        *)
(* function from paths to nodes.  None stands for what is refused.         *)
(***************************************************************************)
EXTENDS Naturals, Sequences, SequencesExt, FiniteSets

CONSTANTS
    None,
    FoldedName(_),  \* portable_path_key of one name
    UnsafeNames,    \* names validate_relative_path refuses
    Identifiers,    \* what validate_identifier accepts
    EnvNames,       \* what EnvRef::new accepts
    SkillFile       \* "SKILL.md"

ValidPath(path) == path # <<>> /\ \A i \in DOMAIN path : path[i] \notin UnsafeNames
PortableKey(path) == [i \in DOMAIN path |-> FoldedName(path[i])]
Ancestors(path) == {SubSeq(path, 1, n) : n \in 1..Len(path)}
IsUnder(path, root) == Len(path) > Len(root) /\ SubSeq(path, 1, Len(root)) = root
Below(path, root) == SubSeq(path, Len(root) + 1, Len(path))
PortablyApart(p, q) ==
    LET k == PortableKey(p)  l == PortableKey(q)
    IN  k # l /\ ~IsUnder(k, l) /\ ~IsUnder(l, k)

HasNul(text) == Contains(text, "nul")
IsUtf8(data) == ~Contains(data, "binary")
AllDistinct(seq) == Cardinality(ToSet(seq)) = Len(seq)
-----------------------------------------------------------------------------
Folder == [data |-> None, executable |-> FALSE]
Entry(path, node) == [path |-> path, node |-> node]
EntryOK(entry) ==
    ValidPath(entry.path) /\ (entry.node.data = None => ~entry.node.executable)

Listed(tree) == UNION {Ancestors(p) : p \in DOMAIN tree}
NodeIn(tree, path) == IF path \in DOMAIN tree THEN tree[path] ELSE Folder

\* TreeContent::new: no two spellings of one portable path, nothing inside a
\* file; directories nobody listed are added.
TreeContent(tree) ==
    IF \/ \E p, q \in Listed(tree) : p # q /\ PortableKey(p) = PortableKey(q)
       \/ \E p, q \in Listed(tree) : IsUnder(q, p) /\ NodeIn(tree, p).data # None
    THEN None
    ELSE [p \in Listed(tree) |-> NodeIn(tree, p)]

\* snapshot_entries: the same of a list of entries, none of them twice.
Snapshot(entries) ==
    IF AllDistinct([i \in DOMAIN entries |-> entries[i].path])
    THEN TreeContent([p \in {e.path : e \in ToSet(entries)} |->
                          (CHOOSE e \in ToSet(entries) : e.path = p).node])
    ELSE None

FilesOf(tree) == {p \in DOMAIN tree : tree[p].data # None}
-----------------------------------------------------------------------------
(* Manifest records. *)

FieldsAre(raw, required, optional) ==
    required \subseteq DOMAIN raw /\ DOMAIN raw \subseteq required \cup optional
Optional(raw, field, default) == IF field \in DOMAIN raw THEN raw[field] ELSE default
Executables(raw) == Optional(raw, "executables", <<>>)

IdentityOK(m) == m.id \in Identifiers /\ m.version # "blank"

SkillSpecOK(s) ==
    /\ s.name \in Identifiers
    /\ ValidPath(s.path) /\ Last(s.path) = s.name
    /\ \A x \in ToSet(Executables(s)) : ValidPath(x)
    /\ AllDistinct([i \in DOMAIN Executables(s) |-> PortableKey(Executables(s)[i])])

\* read_manifest
ReadManifest(m) ==
    /\ FieldsAre(m, {"schema_version", "id", "version", "skills"}, {})
    /\ m.schema_version = 1
    /\ IdentityOK(m)
    /\ m.skills # <<>>
    /\ \A s \in ToSet(m.skills) : FieldsAre(s, {"name", "path"}, {"executables"}) /\ SkillSpecOK(s)
    /\ \A i, j \in DOMAIN m.skills :
           i # j => /\ m.skills[i].name # m.skills[j].name
                    /\ PortablyApart(m.skills[i].path, m.skills[j].path)

Identity(m) == [id |-> m.id, version |-> m.version]

\* What a record of the manifest reads from the source: a file, a tree or nothing.
ReadFile(path) == [read |-> "file", path |-> path, executables |-> <<>>]
ReadTree(raw) == [read |-> "tree", path |-> raw.path, executables |-> Executables(raw)]
NeedOf(raw) ==
    LET kind == Optional(raw, "kind", "asset")
    IN  CASE kind \in {"skill", "asset", "tree"} -> ReadTree(raw)
          [] kind \in {"instruction", "section"} ->
                 IF "path" \in DOMAIN raw THEN ReadFile(raw.path) ELSE None
          [] kind = "file" -> ReadFile(raw.path)
          [] OTHER -> None
Need(raw) == IF "content" \in DOMAIN raw THEN NeedOf(raw.content) ELSE NeedOf(raw)

\* text(): exactly one of text and path, and what a path holds is UTF-8.
OneText(raw) == ("text" \in DOMAIN raw) # ("path" \in DOMAIN raw)
Text(raw, got) == IF "text" \in DOMAIN raw THEN raw.text ELSE got
TextOK(raw, got) == "text" \in DOMAIN raw \/ IsUtf8(got)

\* tree(): the executables are distinct files of the tree.
TreeOK(raw, got) ==
    /\ AllDistinct(Executables(raw))
    /\ TreeContent(got) # None
    /\ ToSet(Executables(raw)) \subseteq FilesOf(got)
-----------------------------------------------------------------------------
(* Commands and transports. *)

IsAsset(argument) == "asset" \in DOMAIN argument
Argument(a) == IF IsAsset(a) THEN [asset |-> a.asset, path |-> Optional(a, "path", None)] ELSE a
ArgumentOK(a) ==
    IF IsAsset(a) THEN a.asset \in Identifiers /\ ("path" \in DOMAIN a => ValidPath(a.path))
    ELSE ~HasNul(a.text)

CommandOK(c) ==
    /\ FieldsAre(c, {"argv"}, {"env", "cwd"})
    /\ c.argv # <<>> /\ \A a \in ToSet(c.argv) : ArgumentOK(a)
    /\ IsAsset(c.argv[1]) \/ c.argv[1].text # <<>>
    /\ LET env == Optional(c, "env", <<>>)
       IN  /\ DOMAIN env \subseteq EnvNames
           /\ \A n \in DOMAIN env :
                  IF "env" \in DOMAIN env[n] THEN env[n].env \in EnvNames ELSE ~HasNul(env[n].text)
    /\ "cwd" \in DOMAIN c => IF IsAsset(c.cwd) THEN ArgumentOK(c.cwd) ELSE ValidPath(c.cwd.text)
Command(c) ==
    [argv |-> [i \in DOMAIN c.argv |-> Argument(c.argv[i])],
     env  |-> Optional(c, "env", <<>>),
     cwd  |-> IF "cwd" \in DOMAIN c THEN Argument(c.cwd) ELSE None]

\* HttpTransport::new, on the parts of the URL.
UrlOK(url) ==
    /\ url.scheme \in {"http", "https"}
    /\ url.host # "" /\ ~url.credentials /\ ~url.fragment /\ ~url.space
    /\ url.port = None \/ url.port \in 1..65535

TransportOK(t) ==
    \/ t.kind = "stdio" /\ FieldsAre(t, {"kind", "command"}, {}) /\ CommandOK(t.command)
    \/ /\ t.kind = "http" /\ FieldsAre(t, {"kind", "url"}, {"bearer_token_env"})
       /\ UrlOK(t.url)
       /\ "bearer_token_env" \in DOMAIN t => t.bearer_token_env \in EnvNames
Transport(t) ==
    IF t.kind = "stdio" THEN [kind |-> "stdio", command |-> Command(t.command)]
    ELSE [kind |-> "http", url |-> t.url, bearer |-> Optional(t, "bearer_token_env", None)]
-----------------------------------------------------------------------------
(* Native content: a file, a tree, a section or a structured selection. *)

BoundariesOK(b) ==
    /\ FieldsAre(b, {"start", "end"}, {})
    /\ {b.start, b.end} \cap {"blank", "nul"} = {} /\ b.start # b.end
SectionOK(raw, text) ==
    /\ raw.marker \in Identifiers
    /\ ~HasNul(text) /\ ~Contains(text, "flyrail marker")
    /\ "boundaries" \in DOMAIN raw =>
           BoundariesOK(raw.boundaries) /\ {raw.boundaries.start, raw.boundaries.end} \cap ToSet(text) = {}

IsMember(part) == "identity" \in DOMAIN part
PartOK(part) ==
    IF IsMember(part) THEN \A i \in DOMAIN part.key : part.key[i] # "" ELSE part.name # ""
PlacementOK(placement, selector) ==
    /\ FieldsAre(placement, {"position"}, {"anchor"})
    /\ (placement.position \in {"before", "after"}) = ("anchor" \in DOMAIN placement)
    /\ IsMember(Last(selector))
    /\ "anchor" \in DOMAIN placement => placement.anchor # Last(selector)
StructuredOK(raw) ==
    /\ raw.format \in {"json", "jsonc", "toml"}
    /\ raw.selector # <<>> /\ \A part \in ToSet(raw.selector) : PartOK(part)
    /\ "placement" \in DOMAIN raw => PlacementOK(raw.placement, raw.selector)

ContentShaped(raw) ==
    \/ raw.kind = "file" /\ FieldsAre(raw, {"kind", "path"}, {"mode"})
    \/ raw.kind = "tree" /\ FieldsAre(raw, {"kind", "path"}, {"executables"})
    \/ raw.kind = "section" /\ FieldsAre(raw, {"kind", "marker"}, {"text", "path", "boundaries"}) /\ OneText(raw)
    \/ raw.kind = "structured" /\ FieldsAre(raw, {"kind", "format", "selector", "value"}, {"placement"})

\* content(): what native content is, of what was read for it.
Content(raw, got) ==
    CASE raw.kind = "file" -> [kind |-> "file", data |-> got, mode |-> Optional(raw, "mode", "private")]
      [] raw.kind = "tree" ->
             IF TreeOK(raw, got) THEN [kind |-> "tree", entries |-> TreeContent(got)] ELSE None
      [] raw.kind = "section" ->
             IF TextOK(raw, got) /\ SectionOK(raw, Text(raw, got))
             THEN [kind |-> "section", marker |-> raw.marker, text |-> Text(raw, got),
                   boundaries |-> Optional(raw, "boundaries", None)]
             ELSE None
      [] OTHER ->
             IF StructuredOK(raw)
             THEN [kind |-> "structured", format |-> raw.format, selector |-> raw.selector,
                   value |-> raw.value, placement |-> Optional(raw, "placement", None)]
             ELSE None
-----------------------------------------------------------------------------
(* Artifacts. *)

SkillArtifact(id, name, content) ==
    IF /\ {id, name} \subseteq Identifiers
       /\ <<SkillFile>> \in DOMAIN content /\ content[<<SkillFile>>].data # None
    THEN [kind |-> "skill", id |-> id, name |-> name, content |-> content]
    ELSE None

InstructionArtifact(id, text) ==
    IF id \in Identifiers /\ ~HasNul(text) THEN [kind |-> "instruction", id |-> id, text |-> text] ELSE None

McpArtifact(raw) ==
    IF {raw.id, raw.name} \subseteq Identifiers /\ TransportOK(raw.transport)
    THEN [kind |-> "mcp", id |-> raw.id, name |-> raw.name, transport |-> Transport(raw.transport)]
    ELSE None

HookArtifact(raw) ==
    LET outcomes == Optional(raw, "outcomes", <<"continue">>)
        tools    == Optional(raw, "tools", <<>>)
        timeout  == Optional(raw, "timeout_ms", 10000)
    IN  IF /\ raw.protocol_version = 1
           /\ raw.id \in Identifiers /\ CommandOK(raw.command)
           /\ timeout \in 1..300000
           /\ outcomes # <<>> /\ AllDistinct(outcomes) /\ AllDistinct(tools)
           /\ \A i \in DOMAIN tools : tools[i] \notin {"", "nul"}
           /\ tools = <<>> \/ raw.event \in {"before-tool", "after-tool"}
        THEN [kind |-> "hook", id |-> raw.id, event |-> raw.event, command |-> Command(raw.command),
              timeout |-> timeout, outcomes |-> ToSet(outcomes), tools |-> ToSet(tools)]
        ELSE None

AudienceOK(a) ==
    /\ FieldsAre(a, {"agent", "scope"}, {"surface", "platform"})
    /\ a.scope # "directory"
    /\ Optional(a, "surface", "cli") = "ide" => a.agent = "cursor"
    /\ Optional(a, "surface", "cli") = "vscode" => a.agent = "copilot"
Audience(a) ==
    [agent |-> a.agent, scope |-> a.scope, surface |-> Optional(a, "surface", "cli"),
     platform |-> Optional(a, "platform", None)]

NativeArtifact(raw, got) ==
    LET content == Content(raw.content, got)
    IN  IF /\ raw.id \in Identifiers /\ ValidPath(raw.destination)
           /\ AudienceOK(raw.audience) /\ content # None
        THEN [kind |-> "native", id |-> raw.id, family |-> raw.family, audience |-> Audience(raw.audience),
              destination |-> raw.destination, content |-> content]
        ELSE None

SupportAsset(raw, got) ==
    IF raw.id \in Identifiers /\ TreeOK(raw, got)
    THEN [kind |-> "asset", id |-> raw.id, family |-> raw.family, content |-> TreeContent(got)]
    ELSE None

\* source_path
SourcePathsOK(raw) ==
    /\ "path" \in DOMAIN raw => ValidPath(raw.path)
    /\ \A x \in ToSet(Executables(raw)) : ValidPath(x)

\* artifact(), support_asset(): the fields a record has to have.
RecordShaped(raw) ==
    LET kind == Optional(raw, "kind", "asset")
    IN  /\ SourcePathsOK(raw)
        /\ \/ kind = "asset" /\ FieldsAre(raw, {"id", "family", "path"}, {"executables"})
           \/ kind = "skill" /\ FieldsAre(raw, {"kind", "id", "name", "path"}, {"executables"})
           \/ kind = "instruction" /\ FieldsAre(raw, {"kind", "id"}, {"text", "path"}) /\ OneText(raw)
           \/ kind = "mcp" /\ FieldsAre(raw, {"kind", "id", "name", "transport"}, {})
           \/ /\ kind = "hook"
              /\ FieldsAre(raw, {"kind", "id", "event", "command", "protocol_version"},
                           {"timeout_ms", "outcomes", "tools"})
           \/ /\ kind = "native"
              /\ FieldsAre(raw, {"kind", "id", "family", "audience", "destination", "content"}, {})
              /\ SourcePathsOK(raw.content) /\ ContentShaped(raw.content)

Artifact(raw, got) ==
    CASE Optional(raw, "kind", "asset") = "asset" -> SupportAsset(raw, got)
      [] Optional(raw, "kind", "asset") = "skill" ->
             IF TreeOK(raw, got) THEN SkillArtifact(raw.id, raw.name, TreeContent(got)) ELSE None
      [] Optional(raw, "kind", "asset") = "instruction" ->
             IF TextOK(raw, got) THEN InstructionArtifact(raw.id, Text(raw, got)) ELSE None
      [] Optional(raw, "kind", "asset") = "mcp" -> McpArtifact(raw)
      [] Optional(raw, "kind", "asset") = "hook" -> HookArtifact(raw)
      [] OTHER -> NativeArtifact(raw, got)

DependencyOK(d) == {d.dependent, d.required} \subseteq Identifiers /\ d.dependent # d.required
Dependency(raw) ==
    [dependent |-> raw.dependent, required |-> raw.required, mode |-> Optional(raw, "mode", "revision")]
-----------------------------------------------------------------------------
(* Bundles. *)

Requires(edges, name) == {e.required : e \in {f \in edges : f.dependent = name}}

\* dependency_order finds an order: no pair twice, no unknown name, no cycle.
Ordered(names, dependencies) ==
    LET edges == ToSet(dependencies)
    IN  /\ AllDistinct([i \in DOMAIN dependencies |->
                            <<dependencies[i].dependent, dependencies[i].required>>])
        /\ \A e \in edges : {e.dependent, e.required} \subseteq names
        /\ \A stuck \in SUBSET names \ {{}} :
               \E n \in stuck : Requires(edges, n) \cap stuck = {}

CommandOf(a) ==
    CASE a.kind = "hook" -> a.command
      [] a.kind = "mcp" /\ a.transport.kind = "stdio" -> a.transport.command
      [] OTHER -> None

\* validate_asset_reference
ReferenceOK(a, reference, assets, edges) ==
    LET named == {s \in assets : s.id = reference.asset}
    IN  /\ named # {}
        /\ [dependent |-> a.id, required |-> reference.asset, mode |-> "revision"] \in edges
        /\ reference.path = None \/ \E s \in named : reference.path \in DOMAIN s.content

\* asset_references
AssetReferencesOK(a, assets, edges) ==
    LET c == CommandOf(a)
        NodeOf(r) == (CHOOSE s \in assets : s.id = r.asset).content[r.path]
    IN  c # None =>
        /\ \A i \in DOMAIN c.argv : IsAsset(c.argv[i]) =>
               /\ ReferenceOK(a, c.argv[i], assets, edges)
               /\ i = 1 => c.argv[i].path # None /\ NodeOf(c.argv[i]).data # None
        /\ c.cwd # None /\ IsAsset(c.cwd) =>
               /\ ReferenceOK(a, c.cwd, assets, edges)
               /\ c.cwd.path = None \/ NodeOf(c.cwd).data = None

Rebased(tree, root) == [p \in {root} \cup {root \o q : q \in DOMAIN tree} |->
                            IF p = root THEN Folder ELSE tree[Below(p, root)]]
EntriesOf(artifacts) ==
    LET trees == {Rebased(a.content, <<a.name>>) : a \in {b \in artifacts : b.kind = "skill"}}
    IN  [p \in UNION {DOMAIN t : t \in trees} |-> (CHOOSE t \in trees : p \in DOMAIN t)[p]]

\* Bundle::from_artifacts
FromArtifacts(identity, artifacts, assets, dependencies) ==
    LET given  == artifacts \o assets
        skills == SelectSeq(artifacts, LAMBDA a : a.kind = "skill")
        edges  == ToSet(dependencies)
    IN  IF /\ artifacts # <<>>
           /\ AllDistinct([i \in DOMAIN given |-> given[i].id])
           /\ AllDistinct([i \in DOMAIN skills |-> skills[i].name])
           /\ Ordered({a.id : a \in ToSet(given)}, dependencies)
           /\ \A a \in ToSet(artifacts) : AssetReferencesOK(a, ToSet(assets), edges)
           /\ \A s \in ToSet(assets) : \E e \in edges : e.required = s.id
        THEN [schema |-> 2, identity |-> identity, artifacts |-> ToSet(artifacts), assets |-> ToSet(assets),
              dependencies |-> edges, entries |-> EntriesOf(ToSet(artifacts)),
              digest |-> <<"config-v2", ToSet(artifacts), ToSet(assets), edges>>]
        ELSE None

\* from_source, schema 1: every skill has its SKILL.md and its executables.
SkillsOK(m, got) ==
    \A i \in DOMAIN m.skills :
        {<<SkillFile>>} \cup ToSet(Executables(m.skills[i])) \subseteq FilesOf(got[i])
FromSkills(m, got) ==
    LET artifacts == {SkillArtifact(m.skills[i].name, m.skills[i].name, TreeContent(got[i])) :
                          i \in DOMAIN m.skills}
    IN  IF SkillsOK(m, got) /\ \A i \in DOMAIN m.skills : TreeContent(got[i]) # None
        THEN [schema |-> 1, identity |-> Identity(m), artifacts |-> artifacts, assets |-> {},
              dependencies |-> {}, entries |-> EntriesOf(artifacts),
              digest |-> <<"content-v1", EntriesOf(artifacts)>>]
        ELSE None

\* read_config_manifest: the fields of the manifest; its records come next.
ConfigShaped(m) ==
    /\ FieldsAre(m, {"schema_version", "id", "version", "artifacts"}, {"assets", "dependencies"})
    /\ \A raw \in ToSet(m.artifacts) \cup ToSet(Optional(m, "assets", <<>>)) : RecordShaped(raw)

FromConfig(m, got) ==
    LET parts == [i \in DOMAIN got |->
                      Artifact((m.artifacts \o Optional(m, "assets", <<>>))[i], got[i])]
        edges == [i \in DOMAIN Optional(m, "dependencies", <<>>) |-> Dependency(m.dependencies[i])]
        n     == Len(m.artifacts)
    IN  IF /\ \A i \in DOMAIN parts : parts[i] # None
           /\ \A i \in DOMAIN edges : DependencyOK(edges[i])
           /\ IdentityOK(m)
        THEN FromArtifacts(Identity(m), SubSeq(parts, 1, n), SubSeq(parts, n + 1, Len(parts)), edges)
        ELSE None

ManifestOK(m) == IF m.schema_version = 2 THEN ConfigShaped(m) ELSE ReadManifest(m)
Records(m) == IF m.schema_version = 2 THEN m.artifacts \o Optional(m, "assets", <<>>) ELSE m.skills
RecordNeed(m, i) == IF m.schema_version = 2 THEN Need(Records(m)[i]) ELSE ReadTree(m.skills[i])
Assemble(m, got) == IF m.schema_version = 2 THEN FromConfig(m, got) ELSE FromSkills(m, got)
=============================================================================
