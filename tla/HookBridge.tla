------------------------------ MODULE HookBridge ------------------------------
(***************************************************************************)
(* Between a host and the runner (bridge.mts): what a host calls with      *)
(* becomes a request, and the effects of a run become what that host acts  *)
(* on.                                                                     *)
(***************************************************************************)
EXTENDS HookProtocol, HookSupport

CONSTANTS
    EmbeddedJson(_)     \* the tokens a text holds (Cursor sends tool results as text)

-----------------------------------------------------------------------------
(* A host's call becomes a request.                                        *)

Null == [lit |-> "null"]

Member(key, v) == IF v = None THEN <<>> ELSE <<<<key, v>>>>

\* selected: the fields that are there and not null, under the protocol's names.
Selected(raw, names) ==
    LET present == SelectSeq(names, LAMBDA n : Optional(raw, n[1]) \notin {None, Null})
    IN  Object([i \in DOMAIN present |-> <<present[i][2], Field(raw, present[i][1])>>])

NamesFor(host) ==
    IF host = "copilot"
    THEN <<<<"cwd", "cwd">>, <<"sessionId", "session_id">>, <<"timestamp", "timestamp">>,
           <<"stop_hook_active", "stop_hook_active">>, <<"stopReason", "stop_reason">>>>
    ELSE LET same == <<"cwd", "session_id", "transcript_path", "permission_mode", "model",
                       "stop_hook_active", "conversation_id", "generation_id">>
         IN  [i \in DOMAIN same |-> <<same[i], same[i]>>]

\* An Input of runner.mts.
Input(event, context, tool, input, result) ==
    Object(<<<<"version", Number(1)>>, <<"event", Text(event)>>, <<"context", context>>>>
           \o Member("tool", tool) \o Member("input", input) \o Member("result", result))

WithCallId(context, id) ==
    IF id # None /\ IsText(id) THEN Object(Append(context.obj, <<"tool_call_id", id>>)) ELSE context

\* normalize.
Normalize(host, event, raw) ==
    LET copilot == host = "copilot"
        at(copilotName, name) == Optional(raw, IF copilot THEN copilotName ELSE name)
        tool    == at("toolName", "tool_name")
        input   == at("toolArgs", "tool_input")
        output  == Optional(raw, "tool_output")
        told    == ParseJson(EmbeddedJson(output), InputLimit)
        result  == IF event = "before-tool" THEN None
                   ELSE IF host = "cursor" THEN told.value
                   ELSE at("toolResult", "tool_response")
        context == Selected(raw, NamesFor(host))
    IN  CASE ~IsObject(raw) -> Refused("host-input")
          [] event \in ToolEvents ->
                CASE tool = None \/ ~IsText(tool) \/ TextSize(tool) = 0 -> Refused("host-tool")
                  [] input = None -> Refused("host-arguments")
                  [] event = "after-tool" /\ host = "cursor" /\ (output = None \/ ~IsText(output)) ->
                        Refused("host-result")
                  [] event = "after-tool" /\ host = "cursor" /\ ~IsParsed(told) -> Refused(told.error)
                  [] event = "after-tool" /\ result = None -> Refused("host-result")
                  [] OTHER -> Input(event, WithCallId(context, at("toolCallId", "tool_use_id")),
                                    tool, input, result)
          [] event = "prompt" ->
                IF Optional(raw, "prompt") = None \/ ~IsText(Field(raw, "prompt"))
                THEN Refused("host-prompt")
                ELSE Input(event, context, None, Field(raw, "prompt"), None)
          [] OTHER -> Input(event, context, None, None, None)

\* native: a stop that is not the completion of an assistant run is not an event.
Passed(host, event, raw) ==
    /\ event = "stop" /\ IsObject(raw)
    /\ \/ host = "copilot" /\ Optional(raw, "stopReason") # Text("end_turn")
       \/ host = "cursor" /\ Optional(raw, "status") # Text("completed")

\* registerPi: the callback of an event.
PiInput(event, raw) ==
    LET seen == Object(<<<<"cwd", Text("dir")>>, <<"execution_mode", Text("tui")>>, <<"has_ui", [lit |-> "true"]>>>>)
        tool == Optional(raw, "toolName")
        args == Optional(raw, "input")
        result == Selected(raw, <<<<"content", "content">>, <<"details", "details">>,
                                  <<"isError", "is_error">>, <<"usage", "usage">>>>)
        text == Optional(raw, "text")
        source == Optional(raw, "source")
    IN  CASE event \in ToolEvents ->
                IF tool = None \/ ~IsText(tool) \/ args = None \/ ~IsObject(args) THEN Refused("pi-tool")
                ELSE Input(event, WithCallId(seen, Optional(raw, "toolCallId")), tool, args,
                           IF event = "after-tool" THEN result ELSE None)
          [] event = "prompt" ->
                IF text = None \/ ~IsText(text) THEN Refused("pi-prompt")
                ELSE Input(event, IF source # None /\ IsText(source)
                                  THEN Object(Append(seen.obj, <<"source", source>>)) ELSE seen,
                           None, text, None)
          [] OTHER -> Input(event, seen, None, None, None)

\* openCode: the callback of an event.
OpenCodeInput(event, raw) ==
    LET called == Object(<<<<"cwd", Text("dir")>>, <<"session_id", Field(raw, "sessionID")>>,
                           <<"tool_call_id", Field(raw, "callID")>>>>)
        result == Object(<<<<"title", Field(raw, "title")>>, <<"output", Field(raw, "output")>>>>
                         \o Member("metadata", Optional(raw, "metadata")))
        info   == Optional(raw, "id")
    IN  CASE event = "before-tool" -> Input(event, called, Field(raw, "tool"), Field(raw, "args"), None)
          [] event = "after-tool" -> Input(event, called, Field(raw, "tool"), Field(raw, "args"), result)
          [] OTHER -> Input(event, Object(<<<<"cwd", Text("dir")>>>>
                                          \o (IF info = None THEN <<>> ELSE <<<<"session_id", info>>>>)),
                            None, None, None)
-----------------------------------------------------------------------------
(* The effects of a run become what the host acts on: the object written   *)
(* or returned, the arguments replaced in place, the error thrown and the  *)
(* context appended in place.                                              *)

Answer(output, args, thrown, appended) ==
    [output |-> output, args |-> args, thrown |-> thrown, appended |-> appended]

\* {} on standard output, or a callback that does nothing.
NoEffect == Answer(Object(<<>>), None, None, <<>>)

\* contexts.join('\n').
JoinedContexts(effects) == IF effects.contexts = <<>> THEN None ELSE [joined |-> effects.contexts]

Permission(decision) == IF decision = None THEN None ELSE Text(IF decision = "block" THEN "deny" ELSE "ask")

\* Mutant of NativeOutput: a blocked call is changed all the same.
BlockedInput(host, event, effects) ==
    IF host = "copilot"
    THEN Object(Member("modifiedArgs", effects.input)
                \o Member("permissionDecision", Permission(effects.decision))
                \o Member("permissionDecisionReason", effects.reason))
    ELSE Object(Member("additionalContext", JoinedContexts(effects)))

\* nativeOutput.
NativeOutput(host, event, effects) ==
    LET context  == JoinedContexts(effects)
        decision == effects.decision
        replaced == IF decision = "block" THEN None ELSE effects.input
        verdict  == Member("permissionDecision", Permission(decision))
                    \o Member("permissionDecisionReason", effects.reason)
        specific == Member("additionalContext", context)
                    \o (IF event = "before-tool" THEN verdict \o Member("updatedInput", replaced) ELSE <<>>)
    IN  CASE host \in {"claude", "codex"} ->
                Object((IF event # "before-tool" /\ decision = "block"
                        THEN <<<<"decision", Text("block")>>, <<"reason", effects.reason>>>> ELSE <<>>)
                       \o (IF specific = <<>> THEN <<>>
                           ELSE <<<<"hookSpecificOutput",
                                    Object(<<<<"hookEventName", Text(event)>>>> \o specific)>>>>))
          [] host = "cursor" ->
                Object(Member("additional_context", context)
                       \o (IF decision = None THEN <<>>
                           ELSE IF event = "before-tool" THEN <<<<"permission", Text("deny")>>>>
                           ELSE <<<<"continue", [lit |-> "false"]>>>>)
                       \o Member("user_message", effects.reason))
          [] OTHER -> Object(Member("additionalContext", context) \o Member("modifiedArgs", replaced) \o verdict)

\* What registerPi's callback returns or changes.
PiAnswer(event, raw, effects) ==
    LET returns(pairs) == Answer(Object(pairs), None, None, <<>>)
    IN  CASE effects.decision # None ->
                returns(<<<<"block", [lit |-> "true"]>>, <<"reason", effects.reason>>>>)
          [] event = "before-tool" /\ effects.input # None -> [NoEffect EXCEPT !.args = effects.input]
          [] event = "prompt" /\ effects.input # None ->
                returns(<<<<"action", Text("transform")>>, <<"text", effects.input>>>>)
          [] event = "after-tool" /\ effects.contexts # <<>> ->
                IF Has(raw, "content") /\ DOMAIN Field(raw, "content") = {"arr"}
                THEN returns(<<<<"content", JoinedContexts(effects)>>>>) ELSE NoEffect
          [] OTHER -> NoEffect

\* What openCode's callback throws or changes.
OpenCodeAnswer(event, effects) ==
    CASE event = "before-tool" ->
            IF effects.decision = "block" THEN [NoEffect EXCEPT !.thrown = effects.reason]
            ELSE [NoEffect EXCEPT !.args = effects.input]
      [] event = "after-tool" -> [NoEffect EXCEPT !.appended = effects.contexts]
      [] OTHER -> NoEffect

\* What is made of a host's call; None where the callback returns before it
\* makes a request.
RequestOf(host, event, raw) ==
    CASE host \in NativeHosts -> IF Passed(host, event, raw) THEN None ELSE Normalize(host, event, raw)
      [] host = "pi" ->
            IF event = "after-tool" /\ Optional(raw, "isError") = [lit |-> "true"] THEN None
            ELSE PiInput(event, raw)
      [] OTHER ->
            IF event = "session-start" /\ Optional(raw, "type") # Text("session.created") THEN None
            ELSE OpenCodeInput(event, raw)

AnswerTo(host, event, raw, effects) ==
    CASE host \in NativeHosts -> Answer(NativeOutput(host, event, effects), None, None, <<>>)
      [] host = "pi" -> PiAnswer(event, raw, effects)
      [] OTHER -> OpenCodeAnswer(event, effects)
-----------------------------------------------------------------------------
(* External: what each host makes of an answer (spec/hook-protocol.md      *)
(* 135-165).  A host ignores what it does not document.                    *)

Seen(decision, reason, input, contexts) ==
    [decision |-> decision, reason |-> reason, input |-> input, contexts |-> contexts]

NothingSeen == Seen(None, None, None, <<>>)

ContextsIn(o, key) == IF Has(o, key) THEN Field(o, key).joined ELSE <<>>

\* A permission the host knows: Codex does not ask.
Verdict(host, o, key) ==
    CASE ~Has(o, key) -> None
      [] Field(o, key) = Text("deny") -> "block"
      [] Field(o, key) = Text("ask") /\ host \in {"claude", "copilot"} -> "ask"
      [] OTHER -> None

HostSees(host, event, answer) ==
    LET o == answer.output
        specific == IF Has(o, "hookSpecificOutput") THEN Field(o, "hookSpecificOutput") ELSE Object(<<>>)
        when(decision, key, of) == Seen(decision, IF decision = None THEN None ELSE Optional(of, key), None, <<>>)
    IN  CASE host \in {"claude", "codex"} ->
                LET decided ==
                        IF event = "before-tool"
                        THEN when(Verdict(host, specific, "permissionDecision"), "permissionDecisionReason", specific)
                        ELSE when(IF Has(o, "decision") THEN "block" ELSE None, "reason", o)
                IN  [decided EXCEPT !.contexts = ContextsIn(specific, "additionalContext"),
                                    !.input = IF host = "claude" THEN Optional(specific, "updatedInput") ELSE None]
          [] host = "cursor" ->
                [when(IF event = "before-tool" THEN Verdict(host, o, "permission")
                      ELSE IF Has(o, "continue") THEN "block" ELSE None, "user_message", o)
                 EXCEPT !.contexts = ContextsIn(o, "additional_context")]
          [] host = "copilot" ->
                IF event = "prompt" THEN NothingSeen
                ELSE [when(Verdict(host, o, "permissionDecision"), "permissionDecisionReason", o)
                      EXCEPT !.contexts = ContextsIn(o, "additionalContext"),
                             !.input = Optional(o, "modifiedArgs")]
          [] host = "pi" ->
                Seen(IF Has(o, "block") THEN "block" ELSE None, Optional(o, "reason"),
                     IF answer.args # None THEN answer.args ELSE Optional(o, "text"),
                     ContextsIn(o, "content"))
          [] OTHER ->
                Seen(IF answer.thrown = None THEN None ELSE "block", answer.thrown, answer.args,
                     answer.appended)
=============================================================================
