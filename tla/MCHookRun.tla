------------------------------ MODULE MCHookRun -------------------------------
(***************************************************************************)
(* HookRun with the records of HookProtocol and the hosts of HookBridge.   *)
(* Two handlers of one event, listed in descending order of id, each       *)
(* declaring the most that its host can preserve, or little.  The limits   *)
(* are small: texts of eight bytes, containers three deep, outputs of      *)
(* twenty-four tokens and requests of forty.                               *)
(***************************************************************************)
EXTENDS HookRun

Text(s) == [str |-> s]
Yes == [lit |-> "true"]

Size(v) == CASE v.str = "" -> 0 [] v.str = "half" -> 5 [] v.str = "long" -> 9 [] OTHER -> 1

\* What a text holds that a Cursor result may be.
Told(v) == IF v = Text("told") THEN <<[p |-> "{"], [p |-> "}"]>> ELSE <<[p |-> "}"]>>

B == INSTANCE HookBridge WITH
        DepthLimit <- 3, Huge <- 999, InputLimit <- 40, OutputLimit <- 24, ErrorLimit <- 1,
        TextLimit <- 8, TextSize <- Size, BlankTexts <- {Text(""), Text(" ")},
        HandlerLimit <- 2, EventTimeoutLimit <- 2, None <- None, EmbeddedJson <- Told
-----------------------------------------------------------------------------
\* Hooks as they are authored, and the configurations rendered from them.

Hook(id, ev, outcomes, tools, ref) ==
    [id |-> id, event |-> ev, timeout |-> 1, outcomes |-> outcomes, tools |-> tools,
     env |-> IF ref THEN <<[name |-> "HOME", folded |-> "home", ref |-> TRUE]>> ELSE <<>>]

Declared ==
    {<<"continue">>, <<"context", "continue">>, <<"block", "continue">>,
     <<"continue", "modify-input">>, <<"block", "context", "continue">>,
     <<"block", "continue", "modify-input">>, <<"ask", "block", "continue", "modify-input">>,
     <<"ask", "block", "context", "continue", "modify-input">>}

Authored(ev, outcomes) ==
    <<Hook(2, ev, outcomes, IF ev \in B!ToolEvents THEN <<"Bash">> ELSE <<>>, FALSE),
      Hook(1, ev, outcomes, <<>>, TRUE)>>

Preserved(agent, ev) ==
    {d \in Declared : B!UnsupportedHook(agent, "cli", "linux", ev, Range(d), <<>>) = B!Supported}

Most(agent, ev) ==
    {d \in Preserved(agent, ev) : \A o \in Preserved(agent, ev) : ~(Range(d) \subseteq Range(o)) \/ d = o}

Rendered ==
    [agent \in B!Hosts |->
        UNION {{B!HookConfig(agent, Authored(ev, d)) : d \in Most(agent, ev)} : ev \in B!Events}]

\* What HookHandler::new accepts.
ASSUME HandlersAreGood ==
    \A agent \in B!Hosts : \A c \in Rendered[agent] : \A i \in DOMAIN c.handlers :
        B!ValidHandler(c.handlers[i]) /\ ToSet(c.handlers[i].outcomes) \subseteq B!Outcomes

HostsOfAll == B!Hosts
Streams == B!NativeHosts
-----------------------------------------------------------------------------
\* What a host calls with: good calls, and the ones it should not make.

Args == B!Object(<<<<"path", Text("p")>>>>)
Good == <<"cwd", Text("dir")>>

NativeCall(agent, ev, tool) ==
    LET copilot == agent = "copilot"
    IN  B!Object(
            <<Good, <<"model", B!Null>>>>
            \o (CASE ev \in B!ToolEvents ->
                    <<<<IF copilot THEN "toolName" ELSE "tool_name", Text(tool)>>,
                      <<IF copilot THEN "toolArgs" ELSE "tool_input", Args>>,
                      <<IF copilot THEN "toolCallId" ELSE "tool_use_id", Text("c1")>>,
                      <<CASE copilot -> "toolResult" [] agent = "cursor" -> "tool_output"
                          [] OTHER -> "tool_response", Text(IF tool = "odd" THEN "odd" ELSE "told")>>>>
                  [] ev = "prompt" -> <<<<"prompt", Text(tool)>>>>
                  [] ev = "stop" ->
                    <<<<"stopReason", Text(IF tool = "odd" THEN "error" ELSE "end_turn")>>,
                      <<"status", Text(IF tool = "odd" THEN "error" ELSE "completed")>>>>
                  [] OTHER -> <<>>))

EmbeddedCall(agent, ev, tool) ==
    B!Object(
        IF agent = "pi"
        THEN (CASE ev \in B!ToolEvents ->
                <<<<"toolName", Text(tool)>>, <<"input", Args>>, <<"toolCallId", Text("c1")>>,
                  <<"isError", IF tool = "odd" THEN Yes ELSE [lit |-> "false"]>>,
                  <<"content", [arr |-> <<Text("told")>>]>>>>
             [] ev = "prompt" -> <<<<"text", Text(tool)>>, <<"source", Text("user")>>>>
             [] OTHER -> <<>>)
        ELSE <<<<"type", Text(IF tool = "odd" THEN "session.deleted" ELSE "session.created")>>,
               <<"id", Text("s1")>>, <<"sessionID", Text("s1")>>, <<"callID", Text("c1")>>,
               <<"tool", Text(tool)>>, <<"args", Args>>, <<"title", Text("t")>>, <<"output", Text("told")>>>>)

Tools(ev) == IF ev \in B!ToolEvents THEN {"Bash", "Edit", "odd"} ELSE {"Bash", "odd"}

CallsOf(agent, ev) ==
    LET calls ==
            IF agent \in B!NativeHosts
            THEN {B!Encode(NativeCall(agent, ev, tool)) : tool \in Tools(ev)}
                 \cup {<<[p |-> "{"]>>, B!Encode(B!Object(<<Good>>))}
            ELSE {EmbeddedCall(agent, ev, tool) : tool \in Tools(ev)}
    IN  calls

Read(agent, ev, sent) ==
    LET parsed  == B!RunnerParse(sent)
        of(raw) == B!RequestOf(agent, ev, raw)
        result(r) == IF r = None THEN [passed |-> TRUE] ELSE IF B!IsRefused(r) THEN r ELSE [request |-> r]
    IN  IF agent \notin B!NativeHosts THEN result(of(sent))
        ELSE IF Len(sent) > 40 THEN [refused |-> "input-limit"]
        ELSE IF ~B!IsParsed(parsed) THEN [refused |-> parsed.error]
        ELSE result(of(parsed.value))

Raw(agent, sent) == IF agent \in B!NativeHosts THEN B!RunnerParse(sent).value ELSE sent
-----------------------------------------------------------------------------
\* What commands write: every outcome, and what is refused in one way each.

Reply(outcome, v) == B!Encode(B!Response(outcome, v))

NewArgs == B!Object(<<<<"path", Text("q")>>>>)

Bad ==
    {None, Reply("context", Text(" ")), Reply("block", Text("long")),
     B!Encode(B!Object(<<<<"version", B!Number(2)>>, <<"outcome", Text("continue")>>>>)),
     B!Encode(B!Object(<<<<"version", B!Number(1)>>, <<"outcome", Text("continue")>>, <<"version", B!Number(1)>>>>)),
     B!Encode(B!Object(<<<<"version", B!Number(1)>>, <<"outcome", Text("continue")>>, <<"text", Text("t")>>>>)),
     Reply("modify-input", [arr |-> <<>>]),
     Reply("modify-input", B!Object(<<<<"path", B!Number(999)>>>>)),
     Reply("modify-input", B!Object(<<<<"__proto__", B!Null>>>>)),
     Reply("modify-input", B!Object(<<<<"path", [arr |-> <<[arr |-> <<>>]>>]>>>>)),
     Reply("modify-input", B!Object(<<<<"path", [arr |-> <<Text("q"), Text("q"), Text("q")>>]>>>>)),
     Reply("continue", None) \o <<[p |-> "}"]>>,
     <<[p |-> "["], [p |-> "]"]>>,
     Reply("modify-input", B!Object(<<<<"path", [arr |-> <<Text("q"), Text("q"), Text("q"), Text("q"), Text("q")>>]>>>>))}

Replies(agent, h) ==
    LET all == {Reply("continue", None), Reply("block", Text("r1")), Reply("ask", Text("r2")),
                Reply("context", Text("half")),
                Reply("modify-input", IF h.event = "prompt" THEN Text("new") ELSE NewArgs)}
    IN  IF agent = "claude" /\ h.event = "before-tool" /\ h.id = 1 THEN all \cup (Bad \ {None})
        ELSE all \cup {<<[p |-> "["], [p |-> "]"]>>}

Accepted(out, ev, outcomes) ==
    LET parsed == B!RunnerParse(out)
        o      == B!RunnerOutcome(parsed.value, ev, Range(outcomes))
        name   == B!Field(o, "outcome").str
        field  == B!OutcomeField(name)
    IN  IF out = None \/ ~B!IsParsed(parsed) THEN [refused |-> "invalid-output"]
        ELSE IF B!IsRefused(o) THEN o
        ELSE [outcome |-> name, value |-> IF field = None THEN None ELSE B!Field(o, field)]

Same(out, ev, outcomes, current) ==
    LET parsed  == B!RunnerParse(out)
        runner  == IF B!IsParsed(parsed) THEN B!RunnerOutcome(parsed.value, ev, Range(outcomes))
                   ELSE B!Refused("invalid-output")
        eff == B!Encode(B!EffectsRecord(current.effects))
        record(o) == {o.obj[i] : i \in DOMAIN o.obj}
        library == B!ReadResponse(out, ev, Range(outcomes))
        same(x, y) == IF B!IsRefused(x) \/ B!IsRefused(y) THEN x = y ELSE record(x) = record(y)
    IN  /\ out # None => same(library, runner)
        /\ B!ReadRequest(B!Encode(current.input)) = current.input
        /\ Len(eff) <= 24 => B!ReadEffects(eff) = current.effects

Fits(request) ==
    LET fits == B!Sendable(request, 0) /\ Len(B!Encode(request)) <= 40 IN fits

Replaced(request, v) ==
    LET at1(i) == IF request.obj[i][1] = "input" THEN <<"input", v>> ELSE request.obj[i]
    IN  B!Object([i \in DOMAIN request.obj |-> at1(i)])

InputIn(request) == LET v == B!Optional(request, "input") IN v

TooLong(out) == LET long == Len(out) > 24 IN long

ContextsOver(contexts) == LET over == B!Joined(contexts) > 8 IN over

ToolIn(request) ==
    LET tool == B!Optional(request, "tool") IN IF tool = None THEN "" ELSE tool.str

Answers(agent, ev, sent, eff) ==
    LET ans == B!AnswerTo(agent, ev, Raw(agent, sent), eff) IN ans

Sees(agent, ev, ans) == LET seen == B!HostSees(agent, ev, ans) IN seen

Silent == B!NoEffect
Unchanged == B!NothingSeen
=============================================================================
