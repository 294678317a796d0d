----------------------------- MODULE MCRendering -----------------------------
(***************************************************************************)
(* What Rendering renders: a catalogue of bundles, each for single         *)
(* contexts, usual and odd ones, and for pairs of usual ones.              *)
(***************************************************************************)
EXTENDS Naturals, Sequences, FiniteSets, TLC

CONSTANTS None, Invalid

Unsafe == {".."}
Names == {"tiny", "lib", "rules", "srv", "guard", "warden", "workspace", "bare", "style", "#tiny/codex/version"}
Variables == {"TOKEN", "MODE", "Mode"}
Written ==
    ("${TOKEN}" :> [form |-> "${}", name |-> "TOKEN"]) @@ ("$TOKEN" :> [form |-> "$", name |-> "TOKEN"])
    @@ ("{env:TOKEN}" :> [form |-> "{env:}", name |-> "TOKEN"])
    @@ ("{file:TOKEN}" :> [form |-> "{file:}", name |-> "TOKEN"])
    @@ ("$env:TOKEN" :> [form |-> "$env:", name |-> "TOKEN"])
    @@ ("${env:TOKEN}" :> [form |-> "${env:}", name |-> "TOKEN"])
Lower(name) == CASE name = "Mode" -> "mode" [] name = "MODE" -> "mode" [] OTHER -> name
SameName(name) == name
JoinedNames(names) ==
    LET joined == CASE Len(names) = 1 -> "#" \o names[1]
                    [] Len(names) = 2 -> "#" \o names[1] \o "/" \o names[2]
                    [] OTHER -> "#" \o names[1] \o "/" \o names[2] \o "/" \o names[3]
    IN  joined
Digest(content) == LET digest == ToString(content) IN digest
EndOf(name) ==
    CASE name = "house.mdc" -> ".mdc"
      [] name \in {"house.instructions.md", "#tiny/rules.instructions.md"} -> ".instructions.md"
      [] name = "opencode.jsonc" -> ".jsonc"
      [] name = "node.cmd" -> ".cmd"
      [] OTHER -> ""
RuntimeNames == {"runner.mts", "bridge.mts", "process.mts"}
Quiet == {"/", "opt", "node", "p", "u", "a", ".flyrail-assets", "tiny", ".hooks", "codex", "cursor", "claude",
          "entry.mjs", "before-tool", "stop", "session-start"}
Loud == {"100%", "\""}

H == INSTANCE HostReading
     WITH FoldedName <- SameName, UnsafeNames <- Unsafe, Identifiers <- Names, EnvNames <- Variables,
          SkillFile <- "SKILL.md", Ending <- EndOf, Identifier <- JoinedNames, Fingerprint <- Digest,
          Tokens <- Written, LowerCase <- Lower, HandlerLimit <- 64, EventTimeoutLimit <- 300000,
          RuntimeFiles <- RuntimeNames, UrlSafe <- Quiet \cup RuntimeNames, ShellSafe <- Quiet,
          CmdUnsafe <- Loud
-----------------------------------------------------------------------------
(* Bundles. *)

Plain(text) == [text |-> <<text>>]
FromLib(path) == [asset |-> "lib", path |-> path]
File(data) == [data |-> data, executable |-> FALSE]
Lib == H!SupportAsset([id |-> "lib", family |-> "mcp"], <<"x">> :> File(<<"m1">>))
Skill == H!SkillArtifact("style", "style", <<"SKILL.md">> :> File(<<"m1">>))
Rules == H!InstructionArtifact("rules", <<"m1">>)

Stdio(name, argv, env, cwd) ==
    H!McpArtifact([id |-> "srv", name |-> name, transport |-> [kind |-> "stdio", command |->
        IF cwd = None THEN [argv |-> argv, env |-> env] ELSE [argv |-> argv, env |-> env, cwd |-> cwd]]])
Remote(piece, bearer) ==
    LET url == [scheme |-> "https", host |-> "h", port |-> None, credentials |-> FALSE, fragment |-> FALSE,
                space |-> FALSE, path |-> <<piece>>]
    IN  H!McpArtifact([id |-> "srv", name |-> "srv", transport |->
            IF bearer THEN [kind |-> "http", url |-> url, bearer_token_env |-> "TOKEN"]
            ELSE [kind |-> "http", url |-> url]])
Env(name, value) == name :> value
FromEnv == [env |-> "TOKEN"]

Guard(id, event, outcomes, timeout, command) ==
    H!HookArtifact([id |-> id, event |-> event, protocol_version |-> 1, outcomes |-> outcomes,
                    timeout_ms |-> timeout, command |-> command])
Check == [argv |-> <<FromLib(<<"x">>), Plain("$TOKEN")>>, env |-> Env("MODE", FromEnv), cwd |-> Plain("p")]
Bare == [argv |-> <<Plain("x")>>]
Audience(agent, surface) == [agent |-> agent, scope |-> "project", surface |-> surface]
Native(audience, destination, content) ==
    H!NativeArtifact([id |-> "bare", family |-> "mcp", destination |-> destination, audience |-> audience,
                      content |-> content], <<"m1">>)
Whole == [kind |-> "file", path |-> <<"x">>]
Record(name) ==
    [kind |-> "structured", format |-> "json", value |-> [command |-> <<"other">>],
     selector |-> <<[name |-> "mcpServers"], [name |-> name]>>]

Needs(dependent, required) == [dependent |-> dependent, required |-> required, mode |-> "revision"]
Bundle(artifacts, assets, edges) == H!FromArtifacts([id |-> "tiny", version |-> "1"], artifacts, assets, edges)
Alone(artifact) == Bundle(<<artifact>>, <<>>, <<>>)
WithLib(artifact) == Bundle(<<artifact, Rules>>, <<Lib>>, <<Needs(artifact.id, "lib")>>)

\* A piece that looks like a reference, in every field of a server.
Lookalikes ==
    UNION {{Alone(Stdio("srv", <<Plain("x"), Plain(piece)>>, <<>>, None)),
            Alone(Stdio("srv", <<Plain(piece)>>, <<>>, None)),
            Alone(Stdio("srv", <<Plain("x")>>, Env("MODE", Plain(piece)), None)),
            Alone(Stdio("srv", <<Plain("x")>>, <<>>, Plain(piece))),
            Alone(Remote(piece, FALSE))} : piece \in DOMAIN Written}
Servers ==
    {Bundle(<<Skill, Rules, Stdio("srv", <<Plain("x")>>, Env("MODE", Plain("m1")), None)>>, <<>>, <<>>),
     WithLib(Stdio("srv", <<FromLib(<<"x">>)>>, <<>>, [asset |-> "lib"])),
     Alone(Stdio("srv", <<Plain("x")>>, Env("TOKEN", FromEnv), None)),
     Alone(Stdio("srv", <<Plain("x")>>, Env("MODE", FromEnv), None)),
     Alone(Stdio("srv", <<Plain("x")>>, Env("MODE", Plain("m1")) @@ Env("Mode", Plain("m1")), None)),
     Alone(Stdio("workspace", <<Plain("x")>>, <<>>, None)),
     Alone(Remote("p", TRUE))}
Hooked ==
    {WithLib(Guard("guard", "before-tool", <<"block", "continue">>, 10000, Check)),
     Bundle(<<Guard("guard", "before-tool", <<"block">>, 200000, Bare),
              Guard("warden", "before-tool", <<"continue">>, 100000, Bare),
              Guard("style", "stop", <<"continue">>, 1, Check)>>, <<Lib>>, <<Needs("style", "lib")>>),
     Bundle(<<Guard("guard", "stop", <<"continue">>, 200000, Bare),
              Guard("warden", "stop", <<"continue">>, 100001, Bare)>>, <<>>, <<>>),
     Alone(Guard("guard", "before-tool", <<"modify-input">>, 1, Bare)),
     Alone(Guard("guard", "session-start", <<"context">>, 1, Bare)),
     Bundle(<<Guard("guard", "stop", <<"continue">>, 1, Bare), Skill>>, <<>>, <<Needs("guard", "style")>>),
     Bundle(<<Guard("guard", "stop", <<"continue">>, 1, Bare),
              Guard("warden", "stop", <<"continue">>, 1, Bare)>>, <<>>, <<Needs("guard", "warden")>>),
     Bundle(<<Guard("guard", "stop", <<"continue">>, 1, Bare),
              H!InstructionArtifact("#tiny/codex/version", <<"m1">>)>>, <<>>, <<>>)}
Natives ==
    LET local == Stdio("srv", <<Plain("x")>>, <<>>, None)
        beside(native) == Bundle(<<local, native>>, <<>>, <<>>)
    IN  {beside(Native(Audience("copilot", "cli"), <<".github", "mcp.json">>, Record("srv"))),
         beside(Native(Audience("copilot", "cli"), <<".mcp.json">>, Record("srv"))),
         beside(Native(Audience("copilot", "cli"), <<".mcp.json">>, Whole)),
         beside(Native(Audience("claude", "cli"), <<".mcp.json">>, Record("other"))),
         Bundle(<<Rules, Native(Audience("cursor", "ide"), <<"AGENTS.md">>,
                                [kind |-> "section", marker |-> "style", text |-> <<"m2">>])>>, <<>>,
                <<Needs("rules", "bare")>>),
         Bundle(<<Rules, Skill>>, <<>>,
                <<[dependent |-> "rules", required |-> "style", mode |-> "stable-reference"]>>)}
AllBundles == Lookalikes \cup Servers \cup Hooked \cup Natives
-----------------------------------------------------------------------------
(* Contexts. *)

Node(shell) == [node |-> <<"opt", "node">>, shell |-> shell]
Context(agent, scope, surface) ==
    [agent |-> agent, scope |-> scope, surface |-> surface, platform |-> "linux",
     root |-> <<IF scope = "user" THEN "u" ELSE "p">>, env |-> <<>>, execution |-> None, instruction |-> None,
     mcp |-> None, native |-> None, assets |-> None, runtime |-> Node("posix")]
Agents == {"claude", "codex", "opencode", "pi", "cursor", "copilot", "droid"}
Usual ==
    {Context(agent, scope, "cli") : agent \in Agents, scope \in {"project", "user"}}
    \cup {Context("cursor", "project", "ide"), Context("copilot", "project", "vscode"),
          Context("copilot", "user", "vscode")}

At(base, path) == [base |-> base, path |-> path]
Odd ==
    LET project(agent) == Context(agent, "project", "cli")
        user(agent) == Context(agent, "user", "cli")
        vscode == Context("copilot", "user", "vscode")
    IN  {[user("claude") EXCEPT !.env = ("CLAUDE_CONFIG_DIR" :> At("~", <<"a">>))],
         [user("codex") EXCEPT !.env = ("CODEX_HOME" :> At("/", <<"a">>))],
         [user("codex") EXCEPT !.env = ("CODEX_HOME" :> At(".", <<"a">>))],
         [user("opencode") EXCEPT !.env = ("OPENCODE_CONFIG" :> At("/", <<"opencode.jsonc">>))],
         [user("pi") EXCEPT !.env = ("PI_CODING_AGENT_DIR" :> At("", <<>>))],
         [Context("copilot", "user", "vscode") EXCEPT !.env = ("COPILOT_HOME" :> At("/", <<"a">>))],
         [vscode EXCEPT !.mcp = <<"a", "mcp.json">>],
         [vscode EXCEPT !.mcp = <<"a", "other.json">>, !.instruction = <<"a", "house.instructions.md">>],
         [vscode EXCEPT !.instruction = <<"a", "house.mdc">>],
         [project("claude") EXCEPT !.instruction = <<"p", "house.mdc">>],
         [project("copilot") EXCEPT !.mcp = <<"p", ".github", "mcp.json">>],
         [project("claude") EXCEPT !.runtime = None],
         [project("codex") EXCEPT !.runtime = [node |-> None, shell |-> "posix"]],
         [project("pi") EXCEPT !.runtime = [node |-> None, shell |-> None]],
         [project("codex") EXCEPT !.runtime = Node(None)],
         [project("codex") EXCEPT !.runtime = [node |-> <<"my dir", "'", "node">>, shell |-> "posix"]],
         [project("cursor") EXCEPT !.assets = <<"a", "it", "'", "s", "#">>],
         [project("claude") EXCEPT !.assets = <<"a", "${TOKEN}">>],
         [project("pi") EXCEPT !.assets = <<"a", "node_modules">>],
         [project("codex") EXCEPT !.platform = "windows", !.runtime = [node |-> <<"my dir", "node">>, shell |-> "cmd"]],
         [project("codex") EXCEPT !.platform = "windows", !.runtime = [node |-> <<"100%", "node">>, shell |-> "cmd"]],
         [project("cursor") EXCEPT !.platform = "windows"],
         [project("claude") EXCEPT !.platform = "windows", !.runtime = [node |-> <<"node.cmd">>, shell |-> None]],
         [project("opencode") EXCEPT !.execution = <<"a", "{env:TOKEN}">>]}

\* Contexts that publish into one document.
Shared ==
    LET claude == Context("claude", "project", "cli")  copilot == Context("copilot", "project", "cli")
        codex == Context("codex", "project", "cli")
    IN  {{claude, [copilot EXCEPT !.mcp = <<"p", ".github", "mcp.json">>]},
         {copilot, [copilot EXCEPT !.mcp = <<"p", ".github", "mcp.json">>]},
         {claude, [Context("opencode", "project", "cli") EXCEPT !.mcp = <<"p", ".mcp.json">>]},
         {[claude EXCEPT !.root = <<"u">>], Context("claude", "user", "cli")},
         {[codex EXCEPT !.assets = <<"a">>], [Context("codex", "user", "cli") EXCEPT !.assets = <<"a">>]},
         {codex, [codex EXCEPT !.execution = <<"a">>]}}
AllBatches == {{c} : c \in Usual \cup Odd} \cup {{c, d} : c \in Usual, d \in Usual} \cup Shared

ContextOK(c) == H!ContextOK(c)
-----------------------------------------------------------------------------
RouteOf(c) == LET r == H!RoutingContext(c) IN r
RenderOne(b, c) == LET r == H!Render(b, c) IN r
RenderAll(results, all) == LET r == H!RenderMany(results, all) IN r
PortableFamilies(c) == LET families == H!PortableFamilies(c) IN families
Absolute(c) == \A variable \in DOMAIN c.env : c.env[variable].base # "."
Requirable(b) ==
    LET hooks == {a.id : a \in {h \in b.artifacts : h.kind = "hook"}}
    IN  /\ \A id \in hooks : H!Closure(b.dependencies, H!Requires(b.dependencies, id)) \cap hooks = {}
        /\ \A e \in b.dependencies : e.mode = "revision"

\* What an artifact of a bundle comes to for the host of a context.
PlaceOf(published, c, id) ==
    (CHOOSE a \in published : a.id = <<RouteOf(c), id>>).destination
Meant(published, c, argument) ==
    IF H!IsAsset(argument)
    THEN H!Display(PlaceOf(published, c, argument.asset)
                   \o (IF argument.path = None THEN <<>> ELSE argument.path))
    ELSE argument.text
MeantCwd(published, c, cwd) ==
    IF H!IsAsset(cwd) THEN Meant(published, c, cwd) ELSE H!Display(H!ExecutionRoot(c) \o cwd.text)
MeantServer(published, c, a) ==
    IF a.transport.kind = "http"
    THEN [url |-> a.transport.url, path |-> H!Verbatim(a.transport.url.path), token |-> a.transport.bearer]
    ELSE LET command == a.transport.command
         IN  [argv |-> [i \in DOMAIN command.argv |-> H!Verbatim(Meant(published, c, command.argv[i]))],
              env  |-> {<<key, IF "env" \in DOMAIN command.env[key] THEN H!Variable(command.env[key].env)
                               ELSE H!Verbatim(command.env[key].text)>> : key \in DOMAIN command.env},
              cwd  |-> IF command.cwd = None THEN None
                       ELSE H!Verbatim(MeantCwd(published, c, command.cwd))]
MeantHandler(published, c, a) ==
    [id |-> a.id, event |-> a.event, timeout |-> a.timeout, outcomes |-> a.outcomes, tools |-> a.tools,
     argv |-> [i \in DOMAIN a.command.argv |-> Meant(published, c, a.command.argv[i])],
     env |-> a.command.env,
     cwd |-> IF a.command.cwd = None THEN H!Display(H!ExecutionRoot(c))
             ELSE MeantCwd(published, c, a.command.cwd)]
HooksFor(b, events) == {a \in b.artifacts : a.kind = "hook" /\ a.event \in events}

ServedTo(b, a, c, published) ==
    CASE a.kind = "mcp" ->
            \* Nothing else answers to the server's name.
            LET seen == H!RecordsSeen(published, c, a.name)
            IN  {H!ReadServer(c, v) : v \in seen} = {MeantServer(published, c, a)}
      [] a.kind = "hook" /\ c.agent \in H!EmbeddedHosts ->
            H!PluginRuns(published, c) =
                {{MeantHandler(published, c, h) : h \in {x \in b.artifacts : x.kind = "hook"}}}
      [] a.kind = "hook" ->
            H!Runs(published, c, a.event) = {{MeantHandler(published, c, h) : h \in HooksFor(b, {a.event})}}
      [] a.kind = "instruction" ->
            LET marker == JoinedNames(<<b.identity.id, a.id>>)
                place == H!InstructionDestination(c)
            IN  \E output \in published :
                    IF H!InVscodeOfUser(c)
                    THEN EndOf(output.destination[Len(output.destination)]) = ".instructions.md"
                         /\ output.content.data = <<"applyTo">> \o a.text
                    ELSE output.destination = place /\ output.content = H!SectionContent(marker, a.text)
      [] a.kind = "skill" ->
            \E output \in published :
                output.destination = H!Skills(c) /\ output.subtree = a.name /\ output.content.entries = a.content
      [] OTHER -> TRUE
Serves(b, a, c, published) == LET served == ServedTo(b, a, c, published) IN served
=============================================================================
