------------------------------ MODULE Rendered ------------------------------
(***************************************************************************)
(* What a bundle is rendered to: artifacts with the destination and the    *)
(* content each gets, the edges between them and the notices about what    *)
(* could not be rendered or asks for attention (rendered.rs), and which of *)
(* them cannot share a destination.                                        *)
(*                                                                         *)
(* A text is a sequence of pieces; the text of a path is a "/" and the     *)
(* names of the path.  An id is an authored name, a generated one, or, of  *)
(* what is rendered for several contexts, a route and an id.               *)
(***************************************************************************)
EXTENDS BundleFormat, TLC

(***************************************************************************)
(* Where a host keeps things: the skill container of an agent and scope,   *)
(* the context a bundle is rendered for, and the destinations of its       *)
(* instructions and MCP servers (targets.rs, destinations.rs).             *)
(*                                                                         *)
(* A path is the sequence of its names.  The environment holds the values  *)
(* of the relocating variables: [base, path] with base "/" for an absolute *)
(* path, "~" for one below the home, "" for an empty value and "." for a   *)
(* relative one.  None is an absent path, Invalid a refused one.           *)
(***************************************************************************)
CONSTANTS
    Invalid,
    Ending(_)       \* of a file name: ".mdc", ".instructions.md", ".jsonc" or another

Translatable == {"claude", "codex", "opencode", "pi", "cursor", "copilot"}
Families == {"skills", "instructions", "mcp", "hooks"}

Join(root, path) == IF root = Invalid THEN Invalid ELSE root \o path
RouteOK(path) == path = None \/ ".." \notin ToSet(path)

\* relocated
Relocated(value, home) ==
    CASE value.base = "/" -> value.path
      [] value.base = "~" -> home \o value.path
      [] OTHER -> Invalid

\* environment_value: an empty value is none.
Configured(env, variable) ==
    IF variable \in DOMAIN env /\ env[variable].base # "" THEN env[variable] ELSE None
-----------------------------------------------------------------------------
(* Target: where the skills go. *)

ProjectSuffix(agent) ==
    CASE agent = "claude" -> <<".claude", "skills">>
      [] agent = "codex" -> <<".agents", "skills">>
      [] agent = "opencode" -> <<".opencode", "skills">>
      [] agent = "pi" -> <<".pi", "skills">>
      [] agent = "cursor" -> <<".cursor", "skills">>
      [] agent = "copilot" -> <<".github", "skills">>
      [] agent = "droid" -> <<".factory", "skills">>

UserSuffix(agent) ==
    CASE agent = "opencode" -> <<".config", "opencode", "skills">>
      [] agent = "pi" -> <<".pi", "agent", "skills">>
      [] agent = "copilot" -> <<".copilot", "skills">>
      [] OTHER -> ProjectSuffix(agent)

Relocation(agent) ==
    CASE agent = "claude" -> [variable |-> "CLAUDE_CONFIG_DIR", suffix |-> <<"skills">>]
      [] agent = "opencode" -> [variable |-> "XDG_CONFIG_HOME", suffix |-> <<"opencode", "skills">>]
      [] agent = "pi" -> [variable |-> "PI_CODING_AGENT_DIR", suffix |-> <<"skills">>]
      [] agent = "copilot" -> [variable |-> "COPILOT_HOME", suffix |-> <<"skills">>]
      [] OTHER -> [variable |-> "", suffix |-> <<>>]

\* Target::project, Target::user_parts
Container(c) ==
    LET relocation == Relocation(c.agent)
        value      == Configured(c.env, relocation.variable)
    IN  CASE c.scope = "project" -> c.root \o ProjectSuffix(c.agent)
          [] value # None -> Join(Relocated(value, c.root), relocation.suffix)
          [] OTHER -> c.root \o UserSuffix(c.agent)
-----------------------------------------------------------------------------
(* RenderContext.  root is the project root or the home of the user. *)

AudienceOf(c) == [agent |-> c.agent, scope |-> c.scope, surface |-> c.surface, platform |-> c.platform]
Routes(c) == {c.root, Container(c), c.execution, c.instruction, c.mcp, c.native, c.assets}
ContextOK(c) ==
    /\ AudienceOK(AudienceOf(c))
    /\ Container(c) # Invalid
    /\ \A path \in Routes(c) : RouteOK(path)

InVscodeOfUser(c) == c.surface = "vscode" /\ c.scope = "user"
Or(path, default) == IF path = None THEN default ELSE path

Skills(c) == IF InVscodeOfUser(c) THEN c.root \o <<".copilot", "skills">> ELSE Container(c)
ExecutionRoot(c) == Or(c.execution, c.root)
NativeRoot(c) == Or(c.native, c.root)
AssetRoot(c) == Or(c.assets, Append(c.root, ".flyrail-assets"))

RoutingContext(c) ==
    [agent |-> c.agent, scope |-> c.scope, surface |-> c.surface, platform |-> c.platform,
     root |-> c.root, skills |-> Skills(c), execution |-> ExecutionRoot(c),
     instructions |-> c.instruction, mcp |-> c.mcp, native |-> NativeRoot(c), assets |-> AssetRoot(c),
     node |-> IF c.runtime = None THEN None ELSE c.runtime.node,
     shell |-> IF c.runtime = None THEN None ELSE c.runtime.shell,
     env |-> c.env]

\* user_directory
UserVariable(c) ==
    CASE c.surface = "vscode" -> ""
      [] c.agent = "codex" -> "CODEX_HOME"
      [] OTHER -> Relocation(c.agent).variable
UserDirectory(c) ==
    LET value == Configured(c.env, UserVariable(c))
        suffix == CASE c.agent = "claude" -> <<".claude">>
                    [] c.agent = "codex" -> <<".codex">>
                    [] c.agent = "opencode" -> <<".config">>
                    [] c.agent = "pi" -> <<".pi", "agent">>
                    [] c.agent = "cursor" -> <<".cursor">>
                    [] c.agent = "copilot" -> <<".copilot">>
    IN  Join(IF value # None THEN Relocated(value, c.root) ELSE c.root \o suffix,
             IF c.agent = "opencode" THEN <<"opencode">> ELSE <<>>)

InstructionDestination(c) ==
    CASE c.instruction # None -> c.instruction
      [] c.agent \notin Translatable -> None
      [] c.scope = "project" ->
            c.root \o (CASE c.agent = "claude" -> <<"CLAUDE.md">>
                         [] c.agent = "copilot" -> <<".github", "copilot-instructions.md">>
                         [] OTHER -> <<"AGENTS.md">>)
      [] c.agent = "cursor" -> None
      [] OTHER ->
            Join(UserDirectory(c),
                 <<CASE c.surface = "vscode" -> "instructions"
                     [] c.agent = "claude" -> "CLAUDE.md"
                     [] c.agent = "copilot" -> "copilot-instructions.md"
                     [] OTHER -> "AGENTS.md">>)

McpDestination(c) ==
    CASE c.mcp # None -> c.mcp
      [] c.agent \notin Translatable -> None
      [] c.scope = "project" ->
            c.root \o (CASE c.surface = "vscode" -> <<".vscode", "mcp.json">>
                         [] c.agent \in {"claude", "copilot"} -> <<".mcp.json">>
                         [] c.agent = "codex" -> <<".codex", "config.toml">>
                         [] c.agent = "opencode" -> <<"opencode.json">>
                         [] c.agent = "pi" -> <<".pi", "mcp.json">>
                         [] c.agent = "cursor" -> <<".cursor", "mcp.json">>)
      [] c.surface = "vscode" -> None
      [] c.agent = "claude" ->
            IF Configured(c.env, "CLAUDE_CONFIG_DIR") = None THEN Append(c.root, ".claude.json") ELSE None
      [] c.agent = "opencode" /\ Configured(c.env, "OPENCODE_CONFIG") # None ->
            Relocated(c.env["OPENCODE_CONFIG"], c.root)
      [] OTHER ->
            Join(UserDirectory(c),
                 <<CASE c.agent = "codex" -> "config.toml"
                     [] c.agent = "opencode" -> "opencode.json"
                     [] c.agent = "copilot" -> "mcp-config.json"
                     [] OTHER -> "mcp.json">>)

\* capabilities: the families a context has a portable translation for.
PortableFamilies(c) ==
    IF c.agent \notin Translatable THEN {}
    ELSE {"skills"}
         \cup (IF InstructionDestination(c) # None THEN {"instructions"} ELSE {})
         \cup (IF McpDestination(c) # None THEN {"mcp"} ELSE {})
         \cup (IF c.surface # "vscode" /\ c.runtime # None THEN {"hooks"} ELSE {})
-----------------------------------------------------------------------------
(* What a bundle is rendered to. *)

CONSTANTS
    Identifier(_),      \* the name made of a sequence of strings (a digest)
    Fingerprint(_)      \* the name made of a content (a digest)

LOCAL C == INSTANCE Claims WITH Portable <- [name \in STRING |-> FoldedName(name)]

Display(path) == <<"/">> \o path

RenderedArtifact(id, family, destination, content, subtree, schemas) ==
    [id |-> id, family |-> family, destination |-> destination, content |-> content,
     subtree |-> subtree, schemas |-> schemas]
RenderedArtifactOK(a) ==
    /\ a.destination # <<>> /\ RouteOK(a.destination)
    /\ a.schemas # {} => a.content.kind = "structured"
    /\ \A s \in a.schemas : s.format = a.content.format

FileContent(data) == [kind |-> "file", data |-> data, mode |-> "private"]
TreeOf(entries) == [kind |-> "tree", entries |-> entries]
SectionContent(marker, text) == [kind |-> "section", marker |-> marker, text |-> text, boundaries |-> None]
StructuredContent(format, selector, value) ==
    [kind |-> "structured", format |-> format, selector |-> selector, value |-> value, placement |-> None]

\* A notice concerns an artifact, a collision two.
Notice(about, kind, code) == [about |-> about, kind |-> kind, code |-> code]
Refusal(id, code) == Notice({id}, "unsupported", code)
Blocking(notices) == \E n \in notices : n.kind = "unsupported"

Edge(dependent, required, mode) == [dependent |-> dependent, required |-> required, mode |-> mode]
-----------------------------------------------------------------------------
(* Claims. *)

ClaimOf(a) ==
    CASE a.subtree # None -> C!Subtree(<<a.subtree>>)
      [] a.content.kind \in C!WholeKinds -> C!Whole(a.content.kind)
      [] a.content.kind = "section" ->
            IF a.content.boundaries = None
            THEN C!Section("start of " \o a.content.marker, "end of " \o a.content.marker)
            ELSE C!Section(a.content.boundaries.start, a.content.boundaries.end)
      [] OTHER ->
            C!Structured([i \in DOMAIN a.content.selector |->
                LET part == a.content.selector[i]
                IN  IF IsMember(part) THEN C!Member(part.key, part.identity) ELSE C!Key(part.name)])

FormatsDiffer(a, b) ==
    /\ a.content.kind = "structured" /\ b.content.kind = "structured"
    /\ a.content.format # b.content.format

\* Two artifacts may claim the same only when they are the same.
Collide(a, b) ==
    /\ C!Overlaps(ClaimOf(a), ClaimOf(b))
    /\ \/ ClaimOf(a) # ClaimOf(b)
       \/ a.content # b.content
       \/ a.schemas # b.schemas
       \/ a.family # b.family

\* collision_notices
CollisionNotices(artifacts) ==
    LET meeting == {pair \in artifacts \X artifacts :
                        pair[1].id # pair[2].id /\ pair[1].destination = pair[2].destination}
    IN  {Notice({pair[1].id, pair[2].id}, "unsupported",
                IF FormatsDiffer(pair[1], pair[2]) THEN "document-format-collision" ELSE "destination-collision") :
             pair \in {p \in meeting : FormatsDiffer(p[1], p[2]) \/ Collide(p[1], p[2])}}
-----------------------------------------------------------------------------
(* Rendered bundles. *)

\* dependency_order finds an order: the artifacts that require none of those
\* left are taken until nothing is left.
OrderExists(names, edges) ==
    LET left[i \in 0..Cardinality(names)] ==
            IF i = 0 THEN names
            ELSE LET before == left[i - 1]
                 IN  {n \in before : Requires(edges, n) \cap before # {}}
    IN  /\ \A e \in edges : {e.dependent, e.required} \subseteq names
        /\ \A e, f \in edges : e.dependent = f.dependent /\ e.required = f.required => e = f
        /\ left[Cardinality(names)] = {}

\* A stable reference stays valid while what it names is replaced: it names a
\* whole file, which is bound to the revision of what it requires.
StableReferencesOK(artifacts, edges) ==
    \A e \in edges : e.mode = "stable-reference" =>
        /\ \A a \in artifacts : a.id = e.required => a.content.kind = "file"
        /\ \A f \in edges : f.dependent = e.required => f.mode = "revision"

\* RenderedBundle::with_notices
WithNotices(artifacts, edges, notices, routing) ==
    LET ids == {a.id : a \in artifacts}
    IN  IF /\ \A a \in artifacts : RenderedArtifactOK(a)
           /\ Cardinality(ids) = Cardinality(artifacts)
           /\ OrderExists(ids, edges)
           /\ StableReferencesOK(artifacts, edges)
        THEN [artifacts |-> artifacts, edges |-> edges, notices |-> notices, routing |-> routing]
        ELSE Invalid

\* What is blocked is not published at all.
Published(artifacts, edges, notices, routing) ==
    IF Blocking(notices) THEN WithNotices({}, {}, notices, routing)
    ELSE WithNotices(artifacts, edges, notices, routing)
=============================================================================
