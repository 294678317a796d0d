---------------------------- MODULE Translation -----------------------------
(***************************************************************************)
(* A bundle rendered for a context, and for several contexts at once, as   *)
(* one installation (render and render_many of translation.rs).            *)
(***************************************************************************)
EXTENDS Rendered, HookSupport

(***************************************************************************)
(* An MCP server as the record its host keeps of it (mcp_translation.rs),  *)
(* and the instructions and servers of a bundle as rendered artifacts      *)
(* (the first half of translation.rs).                                     *)
(*                                                                         *)
(* Most pieces of a text are plain; Tokens tells the ones some host would  *)
(* replace: their form and the name they refer to.  A refusal is a code, a *)
(* translation an artifact or None with its notices.                       *)
(***************************************************************************)
CONSTANTS
    Tokens,         \* piece -> [form, name]; every reference has its piece
    LowerCase(_)    \* of a variable's name

Substitutions(piece) ==
    IF piece \notin DOMAIN Tokens THEN {}
    ELSE CASE Tokens[piece].form = "${}" -> {"${"}
           [] Tokens[piece].form = "$" -> {"$a"}
           [] Tokens[piece].form = "{env:}" -> {"{env:"}
           [] Tokens[piece].form = "{file:}" -> {"{file:"}
           [] Tokens[piece].form = "$env:" -> {"$env:", "$a"}
           [] Tokens[piece].form = "${env:}" -> {"${", "{env:"}
Mentions(text, marks) == \E piece \in ToSet(text) : Substitutions(piece) \cap marks # {}

Spelled(form, name) ==
    <<CHOOSE piece \in DOMAIN Tokens : Tokens[piece] = [form |-> form, name |-> name]>>

CopilotCli(c) == c.agent = "copilot" /\ c.surface = "cli"

\* Mutant of Literal: each host looks only for its own way to write a reference.
LiteralOfOneForm(text, c, field) ==
    IF Mentions(text, IF c.agent = "opencode" THEN {"{env:"} ELSE IF c.agent = "codex" THEN {} ELSE {"${"})
    THEN "literal-interpolation" ELSE ""

\* literal: the code that refuses a text the host would not leave alone.
Literal(text, c, field) ==
    LET marks == CASE c.agent = "opencode" -> {"{env:", "{file:"}
                   [] c.agent = "pi" -> {"${", "$env:", "{env:"}
                   [] c.agent = "codex" -> {}
                   [] OTHER -> {"${"}
    IN  CASE CopilotCli(c) /\ field # "env" /\ Mentions(text, marks) -> "literal-interpolation-unverified"
          [] Mentions(text, marks) -> "literal-interpolation"
          [] CopilotCli(c) /\ field = "env" /\ Mentions(text, {"$a"}) -> "literal-interpolation"
          [] OTHER -> ""

\* reference: None when the host has no way to write one.
Reference(name, c, field) ==
    CASE c.agent = "claude" \/ (CopilotCli(c) /\ field = "env") -> Spelled("${}", name)
      [] c.agent = "opencode" -> Spelled("{env:}", name)
      [] c.agent = "cursor" \/ c.surface = "vscode" -> Spelled("${env:}", name)
      [] OTHER -> None

\* asset: where a support asset is, or the text itself.
ArgumentText(argument, assets) ==
    IF IsAsset(argument)
    THEN Display(assets[argument.asset] \o (IF argument.path = None THEN <<>> ELSE argument.path))
    ELSE argument.text

\* The working directory of a command: an asset's, or one below the execution root.
WorkingDirectory(cwd, c, assets) ==
    IF IsAsset(cwd) THEN ArgumentText(cwd, assets) ELSE Display(ExecutionRoot(c) \o cwd.text)

\* The one of two codes that comes first.
First(code, others) == IF code # "" THEN code ELSE others
AnyOf(codes) == IF codes \ {""} = {} THEN "" ELSE CHOOSE code \in codes : code # ""

EnvCode(c, key, value) ==
    CASE "env" \in DOMAIN value /\ c.agent = "codex" -> IF key = value.env THEN "" ELSE "environment-alias"
      [] "env" \in DOMAIN value ->
            IF Reference(value.env, c, "env") = None THEN "portable-env-reference-unverified" ELSE ""
      [] c.agent = "pi" -> ""
      [] OTHER -> Literal(value.text, c, "env")

LowerNames(env) == [n \in 1..Cardinality(DOMAIN env) |-> LowerCase(SetToSeq(DOMAIN env)[n])]
WindowsCode(c, env) ==
    IF c.platform = "windows" /\ ~AllDistinct(LowerNames(env)) THEN "windows-env-collision" ELSE ""

\* stdio: why a command is refused.
CommandCode(command, c, assets) ==
    LET argv == [i \in DOMAIN command.argv |-> ArgumentText(command.argv[i], assets)]
        cwd  == command.cwd
    IN  First(WindowsCode(c, command.env),
        First(AnyOf({Literal(argv[i], c, "argv") :
                        i \in {j \in DOMAIN argv : c.agent # "pi" \/ j # 1}}),
        First(AnyOf({EnvCode(c, key, command.env[key]) : key \in DOMAIN command.env}),
              CASE cwd = None -> ""
                [] c.agent \in {"claude", "cursor"} -> "command-cwd"
                [] OTHER -> Literal(WorkingDirectory(cwd, c, assets), c, "cwd"))))

EnvValue(c, value) == IF "env" \in DOMAIN value THEN Reference(value.env, c, "env") ELSE value.text

\* stdio: the record of a command that is not.
CommandRecord(command, c, assets) ==
    LET argv      == [i \in DOMAIN command.argv |-> ArgumentText(command.argv[i], assets)]
        forwarded == {key \in DOMAIN command.env : c.agent = "codex" /\ "env" \in DOMAIN command.env[key]}
        env       == {<<key, EnvValue(c, command.env[key])>> : key \in DOMAIN command.env \ forwarded}
        typed     == c.agent = "cursor" \/ c.surface = "vscode"
    IN  (IF c.agent = "opencode" THEN [type |-> "local", command |-> argv, environment |-> env]
         ELSE [command |-> argv[1], args |-> Tail(argv), env |-> env])
        @@ (IF typed THEN [type |-> "stdio"] ELSE <<>>)
        @@ (IF c.agent = "pi" THEN [literalEnv |-> TRUE] ELSE <<>>)
        @@ (IF forwarded # {} THEN [env_vars |-> forwarded] ELSE <<>>)
        @@ (IF command.cwd = None THEN <<>> ELSE [cwd |-> WorkingDirectory(command.cwd, c, assets)])

\* http
HttpCode(transport, c) ==
    First(Literal(transport.url.path, c, "url"),
          CASE transport.bearer = None \/ c.agent \in {"codex", "pi"} -> ""
            [] CopilotCli(c) -> "portable-auth-env-unverified"
            [] OTHER -> IF Reference(transport.bearer, c, "headers") = None
                        THEN "portable-env-reference-unverified" ELSE "")
HttpRecord(transport, c) ==
    [url |-> transport.url]
    @@ (CASE c.agent = "opencode" -> [type |-> "remote"]
          [] c.agent \in {"codex", "pi"} -> <<>>
          [] OTHER -> [type |-> "http"])
    @@ (CASE transport.bearer = None -> <<>>
          [] c.agent = "codex" -> [bearer_token_env_var |-> transport.bearer]
          [] c.agent = "pi" -> [auth |-> "bearer", bearerTokenEnv |-> transport.bearer]
          [] OTHER -> [headers |-> [Authorization |->
                          <<"Bearer ">> \o Reference(transport.bearer, c, "headers")]])

ServerMap(c) ==
    CASE c.agent = "codex" -> "mcp_servers"
      [] c.agent = "opencode" -> "mcp"
      [] c.surface = "vscode" -> "servers"
      [] OTHER -> "mcpServers"
ServerFormat(c, path) ==
    CASE c.agent = "codex" -> "toml"
      [] c.agent = "opencode" \/ c.surface = "vscode" \/ Ending(Last(path)) = ".jsonc" -> "jsonc"
      [] OTHER -> "json"

\* mcp_content
ServerCode(a, c, assets) ==
    CASE c.agent = "claude" /\ a.name \in {"workspace", "claude-in-chrome", "computer-use"} ->
            "reserved-server-name"
      [] a.transport.kind = "stdio" -> CommandCode(a.transport.command, c, assets)
      [] OTHER -> HttpCode(a.transport, c)
ServerContent(a, c, path, assets) ==
    StructuredContent(ServerFormat(c, path), <<[name |-> ServerMap(c)], [name |-> a.name]>>,
                      IF a.transport.kind = "stdio" THEN CommandRecord(a.transport.command, c, assets)
                      ELSE HttpRecord(a.transport, c))
-----------------------------------------------------------------------------
(* Translations. *)

Refused(a, code) == [artifact |-> None, notices |-> {Refusal(a.id, code)}]

Activation(a, code) == Notice({a.id}, "activation", code)
InstructionNotices(a, c) ==
    {Activation(a, "instruction-loading")}
    \cup (IF c.agent = "codex" THEN {Activation(a, "codex-instruction-discovery")} ELSE {})
    \cup (IF InVscodeOfUser(c) THEN {Activation(a, "vscode-agent-host-instructions")} ELSE {})
McpNotices(a, c) ==
    {Activation(a, "mcp-activation")}
    \cup (IF c.agent = "pi" THEN {Notice({a.id}, "prerequisite", "pi-mcp-adapter-v2-32-1")} ELSE {})
    \cup (IF c.surface = "vscode" THEN {Activation(a, "vscode-mcp-forwarding")} ELSE {})

\* translate_instruction_artifact
TranslateInstruction(bundleId, a, c) ==
    LET place  == InstructionDestination(c)
        marker == Identifier(<<bundleId, a.id>>)
        path   == IF InVscodeOfUser(c) /\ c.instruction = None
                  THEN Append(place, marker \o ".instructions.md") ELSE place
        modular == Ending(Last(path)) = ".instructions.md"
        rendered(content) ==
            [artifact |-> RenderedArtifact(a.id, "instructions", path, content, None, {}),
             notices |-> InstructionNotices(a, c)]
    IN  CASE place = Invalid -> Invalid
          [] place = None -> Refused(a, "instruction-destination")
          [] InVscodeOfUser(c) ->
                IF modular THEN rendered(FileContent(<<"applyTo">> \o a.text))
                ELSE Refused(a, "instruction-extension")
          [] modular \/ Ending(Last(path)) = ".mdc" -> Refused(a, "native-instruction-required")
          [] OTHER -> rendered(SectionContent(marker, a.text))

\* translate_mcp_artifact
TranslateMcp(a, c, assets) ==
    LET path == McpDestination(c)
        code == ServerCode(a, c, assets)
    IN  CASE path = Invalid -> Invalid
          [] path = None -> Refused(a, IF c.surface = "vscode" THEN "mcp-profile-path" ELSE "mcp-explicit-path")
          [] c.surface = "vscode" /\ Last(path) # "mcp.json" -> Refused(a, "mcp-profile-schema")
          [] code # "" -> Refused(a, code)
          [] OTHER ->
                [artifact |-> RenderedArtifact(a.id, "mcp", path, ServerContent(a, c, path, assets), None, {}),
                 notices |-> McpNotices(a, c)]
-----------------------------------------------------------------------------
(***************************************************************************)
(* The hooks of a bundle as rendered artifacts (hook_translation.rs): the  *)
(* runtime with the handlers in its config, one tree per revision; what    *)
(* starts it, a launcher or a plugin of the host; and the entries of the   *)
(* host's own configuration that lead to the launcher.                     *)
(***************************************************************************)
CONSTANTS
    HandlerLimit, EventTimeoutLimit,    \* 64 handlers and 300000 ms for each event
    RuntimeFiles,       \* the names of the runtime's files
    UrlSafe,            \* names that need no escape in a URL
    ShellSafe,          \* pieces without a character a POSIX shell acts on
    CmdUnsafe           \* pieces with a character cmd.exe acts on between quotes

Seconds == 310
EventNames(agent) ==
    IF agent \in {"claude", "codex"}
    THEN [e \in {"session-start", "before-tool", "after-tool", "prompt", "stop"} |->
            CASE e = "session-start" -> "SessionStart" [] e = "before-tool" -> "PreToolUse"
              [] e = "after-tool" -> "PostToolUse" [] e = "prompt" -> "UserPromptSubmit"
              [] OTHER -> "Stop"]
    ELSE [e \in {"session-start", "before-tool", "after-tool", "prompt", "stop"} |->
            CASE e = "session-start" -> "sessionStart" [] e = "before-tool" -> "preToolUse"
              [] e = "after-tool" -> "postToolUse"
              [] e = "prompt" -> IF agent = "cursor" THEN "beforeSubmitPrompt" ELSE "userPromptSubmitted"
              [] OTHER -> IF agent = "cursor" THEN "stop" ELSE "agentStop"]

\* file_url: what is not safe is escaped, name by name.
FileUrl(path) == [i \in DOMAIN path |-> [name |-> path[i], escaped |-> path[i] \notin UrlSafe]]

Reject(code) == [refused |-> code]
IsRejected(result) == "refused" \in DOMAIN result
-----------------------------------------------------------------------------
(* Command lines. *)

Glued(words) == FlattenSeq([i \in DOMAIN words |-> IF i = 1 THEN words[i] ELSE <<" ">> \o words[i]])

PosixWord(text) ==
    IF text # <<>> /\ ToSet(text) \subseteq ShellSafe THEN text
    ELSE <<"'">> \o FlattenSeq([i \in DOMAIN text |->
                        IF text[i] = "'" THEN <<"'", "\"", "'", "\"", "'">> ELSE <<text[i]>>]) \o <<"'">>

\* shell: the command line of an argv, or a refusal.
Shell(argv, c) ==
    CASE c.platform = "windows" /\ c.agent = "cursor" -> Reject("cursor-windows-shell")
      [] c.platform = "windows" /\ c.runtime.shell # "cmd" -> Reject("hook-shell")
      [] c.platform = "windows" /\ \E w \in ToSet(argv) : ToSet(w) \cap CmdUnsafe # {} ->
            Reject("hook-shell-literal")
      [] c.platform = "windows" ->
            [line |-> Glued([i \in DOMAIN argv |-> <<"\"">> \o argv[i] \o <<"\"">>])]
      [] c.runtime.shell # "posix" -> Reject("hook-shell")
      [] OTHER -> [line |-> Glued([i \in DOMAIN argv |-> PosixWord(argv[i])])]
-----------------------------------------------------------------------------
(* What is installed. *)

NativeDirectory(c) ==
    IF c.scope = "user" THEN UserDirectory(c)
    ELSE Append(c.root, CASE c.agent = "claude" -> ".claude" [] c.agent = "codex" -> ".codex"
                          [] c.agent = "cursor" -> ".cursor" [] c.agent = "copilot" -> ".github"
                          [] c.agent = "opencode" -> ".opencode" [] c.agent = "pi" -> ".pi")
HookBase(bundleId, c) == AssetRoot(c) \o <<bundleId, ".hooks", c.agent>>

HandlerOf(hook, c, assets) ==
    LET command == hook.command
    IN  [id |-> hook.id, event |-> hook.event, timeout |-> hook.timeout,
         outcomes |-> hook.outcomes, tools |-> hook.tools,
         argv |-> [i \in DOMAIN command.argv |-> ArgumentText(command.argv[i], assets)],
         env  |-> command.env,
         cwd  |-> IF command.cwd = None THEN Display(ExecutionRoot(c))
                  ELSE WorkingDirectory(command.cwd, c, assets)]

\* The tree of a revision: the runtime and config.mts.
RuntimeTree(agent, handlers) ==
    [path \in {<<name>> : name \in RuntimeFiles} \cup {<<"config.mts">>} |->
        IF path = <<"config.mts">>
        THEN [data |-> <<"config", [host |-> agent, handlers |-> handlers]>>, executable |-> FALSE]
        ELSE [data |-> <<"runtime", path[1]>>, executable |-> FALSE]]

Launcher(starts, revision) ==
    FileContent(<<"launcher", [starts |-> starts, bridge |-> FileUrl(Append(revision, "bridge.mts")),
                               config |-> FileUrl(Append(revision, "config.mts"))]>>)

Plugin(bundleId, c) ==
    NativeDirectory(c) \o <<IF c.agent = "opencode" THEN "plugins" ELSE "extensions",
                            "flyrail-" \o Identifier(<<bundleId>>) \o ".ts">>

\* The entry of an event in the host's configuration.
NativeEntry(c, argv) ==
    LET line == Shell(argv, c)
    IN  CASE c.agent = "copilot" -> [type |-> "command", exec |-> argv[1], args |-> Tail(argv), timeoutSec |-> Seconds]
          [] c.agent = "claude" -> [hooks |-> <<[type |-> "command", command |-> argv[1], args |-> Tail(argv),
                                                timeout |-> Seconds]>>]
          [] IsRejected(line) -> line
          [] c.agent = "codex" -> [hooks |-> <<[type |-> "command", command |-> line.line, timeout |-> Seconds]>>]
          [] c.agent = "cursor" -> [command |-> line.line, timeout |-> Seconds]

EntryPart(c, entry) ==
    IF c.agent = "cursor" THEN [identity |-> entry.command, key |-> <<"command">>]
    ELSE [identity |-> entry, key |-> <<>>]

\* The artifact that stands for a hook: a member of the host's settings, or, for
\* Copilot, the file that holds the entries of every event.
NativeHook(bundleId, hook, c, entries) ==
    LET name == EventNames(c.agent)
    IN  IF c.agent = "copilot"
        THEN RenderedArtifact(hook.id, "hooks",
                NativeDirectory(c) \o <<"hooks", "flyrail-" \o Identifier(<<bundleId>>) \o ".json">>,
                FileContent(<<"hooks", {<<name[e], entries[e]>> : e \in DOMAIN entries}>>), None, {})
        ELSE RenderedArtifact(hook.id, "hooks",
                Append(NativeDirectory(c), IF c.agent = "claude" THEN "settings.json" ELSE "hooks.json"),
                StructuredContent(IF c.agent = "cursor" THEN "json" ELSE "jsonc",
                                  <<[name |-> "hooks"], [name |-> name[hook.event]],
                                    EntryPart(c, entries[hook.event])>>,
                                  entries[hook.event]),
                None,
                IF c.agent = "cursor" THEN {[format |-> "json", key |-> "version", value |-> 1]} ELSE {})

\* The requirements hook_artifacts checks before it renders anything.
HooksCode(bundle, hooks, c) ==
    LET of(e)     == {h \in hooks : h.event = e}
        timeout(S) == FoldSet(LAMBDA h, sum : sum + h.timeout, 0, S)
        codes     == {UnsupportedHook(c.agent, c.surface, c.platform, h.event, h.outcomes,
                                      LowerNames(h.command.env)) : h \in hooks}
    IN  CASE codes # {Supported} -> AnyOf(codes)
          [] \E h \in hooks : Cardinality(of(h.event)) > HandlerLimit
                              \/ timeout(of(h.event)) > EventTimeoutLimit -> "hook-event-budget"
          [] c.runtime = None -> "hook-runtime"
          [] c.agent \notin EmbeddedHosts /\ c.runtime.node = None -> "hook-runtime"
          [] OTHER -> ""

\* Mutant of NativeEdges: hooks refer to the runtime itself.
EdgesPastTheLauncher(hooks, launcherId, runtimeId) ==
    {Edge(launcherId, runtimeId, "revision")} \cup {Edge(id, runtimeId, "stable-reference") : id \in hooks}
\* The launcher is bound to a revision, the host's entries name the launcher.
NativeEdges(hooks, launcherId, runtimeId) ==
    {Edge(launcherId, runtimeId, "revision")} \cup {Edge(id, launcherId, "stable-reference") : id \in hooks}

\* hook_artifacts: the artifacts and edges of the hooks, a refusal, or Invalid.
HookArtifacts(bundle, c, assets) ==
    LET bundleId   == bundle.identity.id
        hooks      == {a \in bundle.artifacts : a.kind = "hook"}
        code       == HooksCode(bundle, hooks, c)
        tree       == RuntimeTree(c.agent, {HandlerOf(h, c, assets) : h \in hooks})
        base       == HookBase(bundleId, c)
        revision   == base \o <<"revisions", Fingerprint(tree)>>
        runtimeId  == Identifier(<<bundleId, c.agent, "runtime">>)
        launcherId == Identifier(<<bundleId, c.agent, "launcher">>)
        versionId  == Identifier(<<bundleId, c.agent, "version">>)
        authored   == {a.id : a \in bundle.artifacts \cup bundle.assets}
        runtime    == RenderedArtifact(runtimeId, "hooks", revision, TreeOf(tree), None, {})
        required   == {Edge(runtimeId, e.required, "revision") :
                          e \in {d \in bundle.dependencies : \E h \in hooks : h.id = d.dependent}}
        launcher   == Append(base, "entry.mjs")
        argv(e)    == <<Display(c.runtime.node), Display(launcher), <<e>>>>
        entries    == [e \in {h.event : h \in hooks} |-> NativeEntry(c, argv(e))]
        rejected   == {e \in DOMAIN entries : IsRejected(entries[e])}
        embedded   ==
            [artifacts |-> {runtime} \cup {RenderedArtifact(h.id, "hooks", Plugin(bundleId, c),
                                                            Launcher(c.agent, revision), None, {}) : h \in hooks},
             edges |-> required \cup {Edge(h.id, runtimeId, "revision") : h \in hooks}]
        native     ==
            [artifacts |-> {runtime, RenderedArtifact(launcherId, "hooks", launcher,
                                                      Launcher("native", revision), None, {})}
                           \cup {NativeHook(bundleId, h, c, entries) : h \in hooks},
             edges |-> required \cup NativeEdges({h.id : h \in hooks}, launcherId, runtimeId)]
    IN  CASE hooks = {} -> [artifacts |-> {}, edges |-> {}]
          [] code # "" -> Reject(code)
          [] NativeDirectory(c) = Invalid -> Invalid
          [] \E name \in ToSet(base) : LowerCase(name) = "node_modules" -> Reject("hook-node-modules")
          [] authored \cap {runtimeId, launcherId, versionId} # {} -> Reject("hook-generated-id")
          [] c.agent \in EmbeddedHosts -> embedded
          [] c.agent = "claude" /\ Mentions(Display(c.runtime.node) \o Display(launcher), {"${"}) ->
                Reject("hook-literal-interpolation")
          [] c.platform = "windows" /\ Ending(Last(c.runtime.node)) \in {".cmd", ".bat"} ->
                Reject("hook-executable")
          [] rejected # {} -> entries[CHOOSE e \in rejected : TRUE]
          [] OTHER -> native

\* hook_artifacts: what it says of the hooks it renders, on the first of them.
HookNotices(hooks) ==
    {Notice({CHOOSE id \in {h.id : h \in hooks} : TRUE}, kind, code) :
        <<kind, code>> \in {<<"prerequisite", "hook-runtime-prerequisite">>,
                            <<"activation", "hook-activation">>}}
-----------------------------------------------------------------------------
(* Bundles. *)

\* support_asset_artifacts: an asset is installed under its digest.
AssetPlace(bundle, asset, c) ==
    AssetRoot(c) \o <<bundle.identity.id, asset.id, Fingerprint(asset.content)>>
Assets(bundle, c) ==
    [id \in {asset.id : asset \in bundle.assets} |->
        AssetPlace(bundle, CHOOSE asset \in bundle.assets : asset.id = id, c)]
AssetArtifact(bundle, asset, c) ==
    RenderedArtifact(asset.id, asset.family, AssetPlace(bundle, asset, c), TreeOf(asset.content), None, {})

\* translate_native_artifact: native content is for one audience only.
IsFor(audience, c) ==
    /\ audience.agent = c.agent /\ audience.scope = c.scope /\ audience.surface = c.surface
    /\ audience.platform \in {None, c.platform}
NativeOutput(a, c) ==
    RenderedArtifact(a.id, a.family, NativeRoot(c) \o a.destination,
                     IF a.content.kind = "tree" THEN TreeOf(a.content.entries) ELSE a.content, None, {})

SkillOutput(a, c) ==
    RenderedArtifact(a.id, "skills", Skills(c), TreeOf(a.content), a.name, {})

Emitted(artifact) == [artifact |-> artifact, notices |-> {}]
TranslateOne(bundle, a, c, assets) ==
    CASE c.agent \notin Translatable -> Refused(a, "agent-unsupported")
      [] a.kind = "skill" -> Emitted(SkillOutput(a, c))
      [] a.kind = "instruction" -> TranslateInstruction(bundle.identity.id, a, c)
      [] a.kind = "mcp" -> TranslateMcp(a, c, assets)
      [] a.kind = "native" -> Emitted(NativeOutput(a, c))

\* What the selected require, and what that requires.
Closure(edges, selected) ==
    LET reached[n \in 0..Cardinality(edges)] ==
            IF n = 0 THEN selected
            ELSE LET before == reached[n - 1]
                 IN  before \cup UNION {Requires(edges, name) : name \in before}
    IN  reached[Cardinality(edges)]
-----------------------------------------------------------------------------
(* Copilot CLI reads .github/mcp.json after .mcp.json. *)

IsServer(a) ==
    /\ a.content.kind = "structured"
    /\ Len(a.content.selector) = 2
    /\ \A i \in 1..2 : ~IsMember(a.content.selector[i])
    /\ a.content.selector[1].name = "mcpServers"

\* copilot_precedence_notices
PrecedenceNotices(artifacts, contexts) ==
    LET roots == {c.root : c \in {d \in contexts : CopilotCli(d) /\ d.scope = "project"}}
        at(path) == {a \in artifacts : a.destination = path}
        pairs == UNION {at(root \o <<".github", "mcp.json">>) \X at(Append(root, ".mcp.json")) : root \in roots}
    IN  {Notice({p[1].id}, "activation", "copilot-mcp-precedence-unverified") :
            p \in {q \in pairs : ~(IsServer(q[1]) /\ IsServer(q[2]))}}
        \cup
        {Notice({p[1].id}, "unsupported", "copilot-mcp-precedence-collision") :
            p \in {q \in pairs : /\ IsServer(q[1]) /\ IsServer(q[2])
                                 /\ q[1].content.selector = q[2].content.selector
                                 /\ q[1].content.value # q[2].content.value}}
-----------------------------------------------------------------------------
\* render
Render(bundle, c) ==
    LET assets   == Assets(bundle, c)
        hooks    == {a \in bundle.artifacts : a.kind = "hook"}
        hooked   == HookArtifacts(bundle, c, assets)
        chosen   == {a \in bundle.artifacts : a.kind = "native" => IsFor(a.audience, c)}
        parts    == {TranslateOne(bundle, a, c, assets) : a \in chosen \ hooks}
        needed   == Closure(bundle.dependencies, {a.id : a \in chosen})
        outputs  ==
            (IF IsRejected(hooked) THEN {} ELSE hooked.artifacts)
            \cup {p.artifact : p \in {q \in parts : q.artifact # None}}
            \cup {AssetArtifact(bundle, asset, c) : asset \in {s \in bundle.assets : s.id \in needed}}
        ids      == {a.id : a \in outputs}
        told     ==
            UNION {p.notices : p \in parts}
            \cup (CASE IsRejected(hooked) -> {Refusal(h.id, hooked.refused) : h \in hooks}
                    [] hooks = {} -> {}
                    [] OTHER -> HookNotices(hooks))
        missing  == {id \in needed \ ids : ~\E n \in told : id \in n.about /\ n.kind = "unsupported"}
        notices  == told \cup {Refusal(id, "dependency-audience") : id \in missing}
                         \cup CollisionNotices(outputs) \cup PrecedenceNotices(outputs, {c})
        edges    == {e \in bundle.dependencies : e.dependent \in ids}
                    \cup (IF IsRejected(hooked) THEN {} ELSE hooked.edges)
    IN  CASE hooked = Invalid -> Invalid
          [] Invalid \in parts -> Invalid
          [] OTHER -> Published(outputs, edges, notices, RoutingContext(c))

\* render_many, of what the contexts were rendered to one by one: a function
\* from routes.  What is the same for two contexts is rendered twice.
RouteId(route, id) == <<route, id>>
RenderMany(routes, contexts) ==
    LET named(route, names) == {RouteId(route, name) : name \in names}
        artifacts == UNION {{[a EXCEPT !.id = RouteId(route, @)] : a \in routes[route].artifacts} :
                                route \in DOMAIN routes}
        edges     == UNION {{Edge(RouteId(route, e.dependent), RouteId(route, e.required), e.mode) :
                                e \in routes[route].edges} : route \in DOMAIN routes}
        notices   == UNION {{[n EXCEPT !.about = named(route, @)] : n \in routes[route].notices} :
                                route \in DOMAIN routes}
                     \cup CollisionNotices(artifacts) \cup PrecedenceNotices(artifacts, contexts)
    IN  Published(artifacts, edges, notices, DOMAIN routes)
=============================================================================
