----------------------------- MODULE HostReading -----------------------------
(***************************************************************************)
(* How the hosts read what is installed for them: the variables they       *)
(* replace in a server's fields, the shells that read a hook's command     *)
(* line, and the documents each looks at (the tables of                    *)
(* spec/translation.md and spec/hook-protocol.md).  None of it is code of  *)
(* this repository.                                                        *)
(***************************************************************************)
EXTENDS Translation

-----------------------------------------------------------------------------
(* Text. *)

Verbatim(text) == [i \in DOMAIN text |-> [as |-> "text", of |-> text[i]]]
Variable(name) == <<[as |-> "variable", of |-> name]>>

\* The forms a host replaces by a variable, and those it does something else
\* or something unknown with.
Replaced(c, field) ==
    CASE c.agent = "claude" -> {"${}"}
      [] c.agent = "opencode" -> {"{env:}"}
      [] c.agent = "pi" -> {"${}", "$env:", "{env:}"}
      [] c.agent = "cursor" \/ c.surface = "vscode" -> {"${env:}"}
      [] CopilotCli(c) /\ field = "env" -> {"${}", "$"}
      [] OTHER -> {}
Unclear(c, field) ==
    CASE c.agent = "codex" -> {}
      [] c.agent = "opencode" -> {"{file:}", "${env:}"}
      [] CopilotCli(c) /\ field = "env" -> {"$env:", "${env:}"}
      [] OTHER -> {"${}", "${env:}"} \ Replaced(c, field)

ReadText(c, field, text) ==
    [i \in DOMAIN text |->
        LET token == IF text[i] \in DOMAIN Tokens THEN Tokens[text[i]] ELSE [form |-> "plain", name |-> ""]
        IN  CASE token.form \in Replaced(c, field) -> [as |-> "variable", of |-> token.name]
              [] token.form \in Unclear(c, field) -> [as |-> "unclear", of |-> text[i]]
              [] OTHER -> [as |-> "text", of |-> text[i]]]
-----------------------------------------------------------------------------
(* Servers. *)

MapName(c) ==
    CASE c.agent = "codex" -> "mcp_servers" [] c.agent = "opencode" -> "mcp"
      [] c.surface = "vscode" -> "servers" [] OTHER -> "mcpServers"

\* The documents a host looks for servers in, the first one first.
ServerDocuments(c) ==
    IF CopilotCli(c) /\ c.scope = "project"
    THEN <<Append(c.root, ".mcp.json"), c.root \o <<".github", "mcp.json">>, McpDestination(c)>>
    ELSE <<McpDestination(c)>>

RecordsAt(artifacts, c, path, name) ==
    {a.content.value : a \in {b \in artifacts :
        /\ b.destination = path
        /\ b.content.kind = "structured"
        /\ b.content.selector = <<[name |-> MapName(c)], [name |-> name]>>
        /\ (b.content.format = "toml") = (c.agent = "codex")}}

\* What there is of a server in the first document that has it.
RecordsSeen(artifacts, c, name) ==
    LET at == [i \in DOMAIN ServerDocuments(c) |-> RecordsAt(artifacts, c, ServerDocuments(c)[i], name)]
        has == {i \in DOMAIN at : at[i] # {}}
    IN  IF has = {} THEN {} ELSE at[CHOOSE i \in has : \A j \in has : i <= j]

ReadCommand(c, v) ==
    LET argv == IF c.agent = "opencode" THEN v.command ELSE <<v.command>> \o v.args
        env  == IF c.agent = "opencode" THEN v.environment ELSE v.env
        asIs == c.agent = "pi" /\ "literalEnv" \in DOMAIN v
    IN  [argv |-> [i \in DOMAIN argv |-> IF c.agent = "pi" /\ i = 1 THEN Verbatim(argv[i])
                                         ELSE ReadText(c, "argv", argv[i])],
         env  |-> {<<e[1], IF asIs THEN Verbatim(e[2]) ELSE ReadText(c, "env", e[2])>> : e \in env}
                  \cup (IF "env_vars" \in DOMAIN v THEN {<<n, Variable(n)>> : n \in v.env_vars} ELSE {}),
         cwd  |-> IF "cwd" \in DOMAIN v THEN ReadText(c, "cwd", v.cwd) ELSE None]

ReadToken(c, v) ==
    CASE "bearer_token_env_var" \in DOMAIN v -> v.bearer_token_env_var
      [] "bearerTokenEnv" \in DOMAIN v /\ v.auth = "bearer" -> v.bearerTokenEnv
      [] "headers" \in DOMAIN v ->
            LET read == ReadText(c, "headers", v.headers.Authorization)
            IN  IF Len(read) = 2 /\ read[2].as = "variable" THEN read[2].of ELSE "no token"
      [] OTHER -> None

ReadServer(c, v) ==
    IF "url" \in DOMAIN v
    THEN [url |-> v.url, path |-> ReadText(c, "url", v.url.path), token |-> ReadToken(c, v)]
    ELSE ReadCommand(c, v)
-----------------------------------------------------------------------------
(* Hooks. *)

\* A shell reads a line piece by piece: [words, word, open, quote], open when a
\* word has begun.  A piece it would act on makes the word unclear.
ShellStep(shell, state, piece) ==
    LET quotes == IF shell = "cmd" THEN {"\""} ELSE {"'", "\""}
        into(p) == [state EXCEPT !.word = Append(@, p), !.open = TRUE]
    IN  CASE piece = state.quote -> [state EXCEPT !.quote = "none"]
          [] state.quote = "none" /\ piece \in quotes -> [state EXCEPT !.quote = piece, !.open = TRUE]
          [] state.quote = "none" /\ piece = " " ->
                [words |-> IF state.open THEN Append(state.words, state.word) ELSE state.words,
                 word |-> <<>>, open |-> FALSE, quote |-> "none"]
          [] state.quote = "none" /\ piece \notin ShellSafe -> into("unclear")
          [] state.quote = "\"" /\ (piece \in CmdUnsafe \/ (shell = "posix" /\ piece # "'")) -> into("unclear")
          [] OTHER -> into(piece)
ShellReads(shell, line) ==
    FoldLeft(LAMBDA state, piece : ShellStep(shell, state, piece),
             [words |-> <<>>, word |-> <<>>, open |-> FALSE, quote |-> "none"],
             Append(line, " ")).words

HostEvent(c, event) ==
    CASE c.agent \in {"claude", "codex"} ->
            (CASE event = "session-start" -> "SessionStart" [] event = "before-tool" -> "PreToolUse"
               [] event = "after-tool" -> "PostToolUse" [] event = "prompt" -> "UserPromptSubmit"
               [] OTHER -> "Stop")
      [] event = "session-start" -> "sessionStart"
      [] event = "before-tool" -> "preToolUse"
      [] event = "after-tool" -> "postToolUse"
      [] event = "prompt" -> IF c.agent = "cursor" THEN "beforeSubmitPrompt" ELSE "userPromptSubmitted"
      [] OTHER -> IF c.agent = "cursor" THEN "stop" ELSE "agentStop"

In(path, directory) == Len(path) = Len(directory) + 1 /\ IsPrefix(directory, path)

\* The entries a host has for an event.
HookEntries(artifacts, c, event) ==
    LET directory == NativeDirectory(c)
        settings == Append(directory, IF c.agent = "claude" THEN "settings.json" ELSE "hooks.json")
        files == {a \in artifacts : /\ In(a.destination, Append(directory, "hooks"))
                                    /\ a.content.kind = "file" /\ a.content.data[1] = "hooks"}
    IN  IF c.agent = "copilot"
        THEN UNION {{pair[2] : pair \in {p \in a.content.data[2] : p[1] = HostEvent(c, event)}} : a \in files}
        ELSE {a.content.value : a \in {b \in artifacts :
                /\ b.destination = settings /\ b.content.kind = "structured"
                /\ SubSeq(b.content.selector, 1, 2) = <<[name |-> "hooks"], [name |-> HostEvent(c, event)]>>}}

\* The argv an entry starts.
Starts(c, entry) ==
    CASE c.agent = "copilot" -> <<entry.exec>> \o entry.args
      [] c.agent = "claude" ->
            LET argv == <<entry.hooks[1].command>> \o entry.hooks[1].args
            IN  [i \in DOMAIN argv |->
                    IF Mentions(argv[i], {"${"}) THEN <<"unclear">> ELSE argv[i]]
      [] c.agent = "codex" -> ShellReads(c.runtime.shell, entry.hooks[1].command)
      [] c.agent = "cursor" -> ShellReads(c.runtime.shell, entry.command)

\* The file a URL names; a name that had to be escaped and is not is another.
Imported(url) ==
    [i \in DOMAIN url |-> IF url[i].escaped \/ url[i].name \in UrlSafe THEN url[i].name ELSE "unclear"]

\* What is in the trees at a path.
NodesAt(artifacts, path) ==
    UNION {{a.content.entries[q] : q \in {r \in DOMAIN a.content.entries : a.destination \o r = path}} :
              a \in {b \in artifacts : b.content.kind = "tree" /\ b.subtree = None}}

\* The handlers a launcher runs: those of the config it imports, next to the bridge.
LaunchedBy(artifacts, launcher) ==
    LET configs == NodesAt(artifacts, Imported(launcher.config))
        bridges == NodesAt(artifacts, Imported(launcher.bridge))
    IN  IF bridges = {} THEN {} ELSE UNION {node.data[2].handlers : node \in configs}

LaunchersAt(artifacts, path) ==
    {a.content.data[2] : a \in {b \in artifacts : /\ b.content.kind = "file" /\ Display(b.destination) = path
                                                  /\ b.content.data[1] = "launcher"}}

\* What an event makes a host run: for every entry of the event its handlers.
Runs(artifacts, c, event) ==
    {LET argv == Starts(c, entry)
     IN  IF Len(argv) # 3 \/ argv[1] # Display(c.runtime.node) THEN {}
         ELSE {h \in UNION {LaunchedBy(artifacts, l) : l \in LaunchersAt(artifacts, argv[2])} :
                    <<h.event>> = argv[3]} :
     entry \in HookEntries(artifacts, c, event)}

\* The handlers a plugin registers, for every event.
PluginRuns(artifacts, c) ==
    {LaunchedBy(artifacts, a.content.data[2]) : a \in {b \in artifacts :
        /\ b.content.kind = "file" /\ b.content.data[1] = "launcher" /\ b.content.data[2].starts = c.agent
        /\ In(b.destination, Append(NativeDirectory(c),
                                    IF c.agent = "opencode" THEN "plugins" ELSE "extensions"))}}
=============================================================================
