---------------------------- MODULE HookProtocol ----------------------------
(***************************************************************************)
(* The records of the hook protocol.  Both ends read and write them: the   *)
(* library (hooks.rs: HookHandler, HookConfig, HookRequest, HookResponse,  *)
(* HookEffects) for the commands, and the bridge (runner.mts) for the host.*)
(***************************************************************************)
EXTENDS Integers, Sequences, SequencesExt, FiniteSets, TLC

(***************************************************************************)
(* The JSON that hook commands, the bridge and the library exchange, as    *)
(* both programs read it: HookParser of hooks.rs, and parse of runner.mts, *)
(* which hands the grammar to the JavaScript engine and scans the tokens   *)
(* for what the engine lets through.                                       *)
(*                                                                         *)
(* A text is a sequence of tokens, each of size one.  A token is a mark    *)
(* [p |-> c] or a scalar, and a scalar is its own value: [str |-> s],      *)
(* [num |-> n] or [lit |-> w].  Containers are [arr |-> values] and        *)
(* [obj |-> pairs of a key and a value], in order, as HookValue keeps them.*)
(***************************************************************************)
CONSTANTS
    DepthLimit,     \* JSON_DEPTH_LIMIT
    Huge            \* a number that has no finite value

Mark(c) == [p |-> c]
Text(s) == [str |-> s]
Number(n) == [num |-> n]
Object(pairs) == [obj |-> pairs]

IsObject(v) == DOMAIN v = {"obj"}
IsText(v) == DOMAIN v = {"str"}
IsScalar(t) == DOMAIN t # {"p"}

ReservedKeys == {"__proto__", "constructor", "prototype"}

Keys(o) == {o.obj[i][1] : i \in DOMAIN o.obj}
Has(o, key) == key \in Keys(o)
Field(o, key) == o.obj[CHOOSE i \in DOMAIN o.obj : o.obj[i][1] = key][2]

\* encode_hook_json.
RECURSIVE Encode(_)
Encode(v) ==
    LET separated(parts) ==
            FoldLeft(LAMBDA text, part : IF text = <<>> THEN part ELSE text \o <<Mark(",")>> \o part,
                     <<>>, parts)
        members(pairs) ==
            [i \in DOMAIN pairs |-> <<Text(pairs[i][1]), Mark(":")>> \o Encode(pairs[i][2])]
    IN  CASE DOMAIN v = {"arr"} ->
                <<Mark("[")>> \o separated([i \in DOMAIN v.arr |-> Encode(v.arr[i])]) \o <<Mark("]")>>
          [] DOMAIN v = {"obj"} -> <<Mark("{")>> \o separated(members(v.obj)) \o <<Mark("}")>>
          [] OTHER -> <<v>>
-----------------------------------------------------------------------------
(* hooks.rs: a syntax pass with an explicit stack, which remembers the     *)
(* first flaw of a text that is otherwise well formed.                     *)

Flawed(s, code) == [s EXCEPT !.flaw = IF @ = "none" THEN code ELSE @]

Broken(s) == [s EXCEPT !.ok = FALSE]

\* A value is expected, with the expectations below left after it.
ValueStep(s, below, t) ==
    LET opened(next) ==
            LET deeper == [s EXCEPT !.expect = Append(below, next), !.depth = @ + 1]
            IN  IF deeper.depth > DepthLimit THEN Flawed(deeper, "json-depth") ELSE deeper
        after == [s EXCEPT !.expect = below]
    IN  CASE t = Mark("[") -> opened("ArrayFirst")
          [] t = Mark("{") -> [opened("ObjectFirst") EXCEPT !.keys = Append(@, {})]
          [] IsScalar(t) -> IF t = Number(Huge) THEN Flawed(after, "json-number") ELSE after
          [] OTHER -> Broken(s)

KeyStep(s, rest, t) ==
    LET seen  == Last(s.keys)
        after == [s EXCEPT !.expect = Append(rest, "Colon"), !.keys = Front(@) \o <<seen \cup {t.str}>>]
    IN  IF ~IsText(t) THEN Broken(s)
        ELSE IF t.str \in seen \cup ReservedKeys THEN Flawed(after, "json-key") ELSE after

\* One token against the expectation on top of the stack.
SyntaxStep(s, t) ==
    LET top  == Last(s.expect)
        rest == Front(s.expect)
        shut == [s EXCEPT !.expect = rest, !.depth = @ - 1]
        object == [shut EXCEPT !.keys = IF @ = <<>> THEN @ ELSE Front(@)]
    IN  CASE ~s.ok -> s
          [] top = "Value" -> ValueStep(s, rest, t)
          [] top = "ArrayFirst" ->
                IF t = Mark("]") THEN shut ELSE ValueStep(s, Append(rest, "ArrayNext"), t)
          [] top = "ArrayNext" ->
                IF t = Mark("]") THEN shut
                ELSE IF t = Mark(",") THEN [s EXCEPT !.expect = @ \o <<"Value">>] ELSE Broken(s)
          [] top = "ObjectFirst" -> IF t = Mark("}") THEN object ELSE KeyStep(s, rest, t)
          [] top = "ObjectKey" -> KeyStep(s, rest, t)
          [] top = "Colon" ->
                IF t = Mark(":") THEN [s EXCEPT !.expect = rest \o <<"ObjectNext", "Value">>] ELSE Broken(s)
          [] top = "ObjectNext" ->
                IF t = Mark("}") THEN object
                ELSE IF t = Mark(",") THEN [s EXCEPT !.expect = Append(rest, "ObjectKey")] ELSE Broken(s)
          [] OTHER -> Broken(s)

\* validate_syntax.
Syntax(text) ==
    FoldLeft(SyntaxStep,
             [expect |-> <<"End", "Value">>, keys |-> <<>>, depth |-> 0, flaw |-> "none", ok |-> TRUE],
             text)

\* The value that starts at a position of a well-formed text, and where it ends.
RECURSIVE ValueAt(_, _), Items(_, _, _, _)
ValueAt(text, i) ==
    CASE text[i] = Mark("[") -> Items(text, i + 1, Mark("]"), <<>>)
      [] text[i] = Mark("{") -> Items(text, i + 1, Mark("}"), <<>>)
      [] OTHER -> [value |-> text[i], next |-> i + 1]

Items(text, i, end, done) ==
    IF text[i] = end
    THEN [value |-> IF end = Mark("]") THEN [arr |-> done] ELSE Object(done), next |-> i + 1]
    ELSE IF text[i] = Mark(",") THEN Items(text, i + 1, end, done)
    ELSE IF end = Mark("]")
    THEN LET item == ValueAt(text, i) IN Items(text, item.next, end, Append(done, item.value))
    ELSE LET item == ValueAt(text, i + 2)
         IN  Items(text, item.next, end, Append(done, <<text[i].str, item.value>>))

Invalid(code) == [error |-> code]
Parsed(v) == [value |-> v]
IsParsed(result) == DOMAIN result = {"value"}

\* parse_json: the syntax first, then the first flaw, then the value.
ParseJson(text, limit) ==
    LET s == Syntax(text)
    IN  IF Len(text) > limit THEN Invalid("input-limit")
        ELSE IF ~s.ok \/ s.expect # <<"End">> THEN Invalid("invalid-json")
        ELSE IF s.flaw # "none" THEN Invalid(s.flaw)
        ELSE Parsed(ValueAt(text, 1).value)

\* validate_json: what may be put on the wire.
RECURSIVE Sendable(_, _)
Sendable(v, depth) ==
    CASE DOMAIN v = {"arr"} ->
            depth < DepthLimit /\ \A i \in DOMAIN v.arr : Sendable(v.arr[i], depth + 1)
      [] DOMAIN v = {"obj"} ->
            /\ depth < DepthLimit
            /\ \A i \in DOMAIN v.obj :
                /\ v.obj[i][1] \notin ReservedKeys
                /\ \A j \in 1..i-1 : v.obj[j][1] # v.obj[i][1]
                /\ Sendable(v.obj[i][2], depth + 1)
      [] OTHER -> v # Number(Huge)
-----------------------------------------------------------------------------
(* runner.mts: JSON.parse, then one pass over the tokens that keeps, for   *)
(* each open container, the keys seen and whether a string is one.         *)

\* The JavaScript grammar: the end of the value at a position, 0 if there is none.
RECURSIVE EndOf(_, _), EndOfItems(_, _, _)
EndOf(text, i) ==
    CASE i > Len(text) -> 0
      [] text[i] = Mark("[") ->
            IF i < Len(text) /\ text[i + 1] = Mark("]") THEN i + 2 ELSE EndOfItems(text, i + 1, Mark("]"))
      [] text[i] = Mark("{") ->
            IF i < Len(text) /\ text[i + 1] = Mark("}") THEN i + 2 ELSE EndOfItems(text, i + 1, Mark("}"))
      [] OTHER -> IF IsScalar(text[i]) THEN i + 1 ELSE 0

EndOfItems(text, i, end) ==
    LET keyed == i + 1 <= Len(text) /\ IsText(text[i]) /\ text[i + 1] = Mark(":")
        after == IF end = Mark("]") THEN EndOf(text, i) ELSE IF keyed THEN EndOf(text, i + 2) ELSE 0
    IN  IF after = 0 \/ after > Len(text) THEN 0
        ELSE IF text[after] = end THEN after + 1
        ELSE IF text[after] = Mark(",") THEN EndOfItems(text, after + 1, end)
        ELSE 0

\* Mutant of NextKey: a string after any comma is a key.
AfterAnyComma(container) == [container EXCEPT !.key = TRUE]

\* After a comma a key follows in an object, a value in an array.
NextKey(container) == [container EXCEPT !.key = container.object]

\* One turn of the token loop; nothing is looked at once something was thrown.
TokenStep(s, t) ==
    LET open    == s.stack # <<>>
        current == Last(s.stack)
        with(container) == [s EXCEPT !.stack = Front(@) \o <<container>>]
    IN  CASE s.thrown # "none" -> s
          [] t \in {Mark("{"), Mark("[")} ->
                IF Len(s.stack) >= DepthLimit THEN [s EXCEPT !.thrown = "json-depth"]
                ELSE [s EXCEPT !.stack =
                        Append(@, [keys |-> {}, key |-> t = Mark("{"), object |-> t = Mark("{")])]
          [] t \in {Mark("}"), Mark("]")} -> [s EXCEPT !.stack = Front(@)]
          [] open /\ t = Mark(",") -> with(NextKey(current))
          [] open /\ current.key /\ IsText(t) ->
                IF t.str \in current.keys \cup ReservedKeys THEN [s EXCEPT !.thrown = "json-key"]
                ELSE with([current EXCEPT !.keys = @ \cup {t.str}, !.key = FALSE])
          [] t = Number(Huge) -> [s EXCEPT !.thrown = "json-number"]
          [] OTHER -> s

RunnerParse(text) ==
    LET s == FoldLeft(TokenStep, [stack |-> <<>>, thrown |-> "none"], text)
    IN  IF EndOf(text, 1) # Len(text) + 1 THEN Invalid("invalid-json")
        ELSE IF s.thrown # "none" THEN Invalid(s.thrown)
        ELSE Parsed(ValueAt(text, 1).value)
-----------------------------------------------------------------------------
(* The records. *)

CONSTANTS
    InputLimit, OutputLimit, ErrorLimit,    \* in tokens
    TextLimit, TextSize(_),                 \* bytes of a text
    BlankTexts,
    HandlerLimit, EventTimeoutLimit,
    None

Events == {"session-start", "before-tool", "after-tool", "prompt", "stop"}
ToolEvents == {"before-tool", "after-tool"}
Outcomes == {"continue", "block", "ask", "modify-input", "context"}

Distinct(s) == \A i, j \in DOMAIN s : i # j => s[i] # s[j]

\* HookHandler::new, of the fields that are not plain text.
ValidHandler(h) ==
    /\ h.timeout \in 1..EventTimeoutLimit
    /\ h.outcomes # <<>> /\ Distinct(h.outcomes) /\ Distinct(h.tools)
    /\ h.tools # <<>> => h.event \in ToolEvents
    /\ Distinct([i \in DOMAIN h.env |-> h.env[i].name])

Total(values) == FoldLeft(LAMBDA sum, v : sum + v, 0, values)

\* The bound on the handlers of one event, in HookConfig::new and again in
\* hook_artifacts.
WithinBudget(handlers) ==
    \A event \in Events :
        LET selected == SelectSeq(handlers, LAMBDA h : h.event = event)
        IN  /\ Len(selected) <= HandlerLimit
            /\ Total([i \in DOMAIN selected |-> selected[i].timeout]) <= EventTimeoutLimit

\* HookConfig::new.
HookConfig(host, handlers) ==
    IF WithinBudget(handlers)
    THEN [host |-> host, handlers |-> SortSeq(handlers, LAMBDA a, b : a.id < b.id)]
    ELSE None
-----------------------------------------------------------------------------
Refused(code) == [refused |-> code]
IsRefused(r) == DOMAIN r = {"refused"}

\* HookRequest::new.
HookRequest(event, context, tool, input, result) ==
    LET tooled == event \in ToolEvents
        fields == <<<<"version", Number(1)>>, <<"event", Text(event)>>, <<"context", context>>>>
                  \o (IF tool = None THEN <<>> ELSE <<<<"tool", tool>>>>)
                  \o (IF input = None THEN <<>> ELSE <<<<"input", input>>>>)
                  \o (IF result = None THEN <<>> ELSE <<<<"result", result>>>>)
        request == Object(fields)
    IN  CASE ~IsObject(context) -> Refused("host-input")
          [] tooled /\ (tool = None \/ TextSize(tool) = 0) -> Refused("host-tool")
          [] tooled /\ input = None -> Refused("host-arguments")
          [] event = "after-tool" /\ result = None -> Refused("host-result")
          [] event = "prompt" /\ (input = None \/ ~IsText(input)) -> Refused("host-prompt")
          [] \/ ~tooled /\ tool # None
             \/ event \notin ToolEvents \cup {"prompt"} /\ input # None
             \/ event # "after-tool" /\ result # None -> Refused("input-fields")
          [] ~Sendable(request, 0) -> Refused("json")
          [] Len(Encode(request)) > InputLimit -> Refused("input-limit")
          [] OTHER -> request

Optional(o, key) == IF Has(o, key) THEN Field(o, key) ELSE None

\* HookRequest::parse: what a command makes of its standard input.
ReadRequest(text) ==
    LET read == ParseJson(text, InputLimit)
        o    == read.value
        tool == Optional(o, "tool")
    IN  CASE ~IsParsed(read) -> Refused(read.error)
          [] ~IsObject(o) -> Refused("host-input")
          [] Keys(o) \ {"version", "event", "context", "tool", "input", "result"} # {} ->
                Refused("input-fields")
          [] Optional(o, "version") # Number(1) -> Refused("input-version")
          [] Optional(o, "event") \notin {Text(e) : e \in Events} -> Refused("input-event")
          [] ~Has(o, "context") -> Refused("host-input")
          [] tool # None /\ ~IsText(tool) -> Refused("host-tool")
          [] OTHER -> HookRequest(Field(o, "event").str, Field(o, "context"), tool,
                                  Optional(o, "input"), Optional(o, "result"))
-----------------------------------------------------------------------------
\* The field that goes with an outcome.
OutcomeField(outcome) ==
    CASE outcome \in {"block", "ask"} -> "reason"
      [] outcome = "context" -> "text"
      [] outcome = "modify-input" -> "input"
      [] OTHER -> None

Response(outcome, value) ==
    Object(<<<<"version", Number(1)>>, <<"outcome", Text(outcome)>>>>
           \o (IF value = None THEN <<>> ELSE <<<<OutcomeField(outcome), value>>>>))

\* HookResponse::text, with the empty text for a missing or a wrong field.
GoodText(v) == v # None /\ IsText(v) /\ v \notin BlankTexts /\ TextSize(v) <= TextLimit

GoodReplacement(event, v) ==
    v # None /\ (IF event = "prompt" THEN IsText(v) ELSE IsObject(v))

\* HookResponse::parse.
ReadResponse(text, event, declared) ==
    LET read    == ParseJson(text, OutputLimit)
        o       == read.value
        outcome == Field(o, "outcome")
        field   == OutcomeField(outcome.str)
        value   == IF field = None THEN None ELSE Optional(o, field)
    IN  CASE Len(text) > OutputLimit -> Refused("stdout-limit")
          [] ~IsParsed(read) -> Refused("invalid-output")
          [] ~IsObject(o) -> Refused("undeclared-outcome")
          [] Optional(o, "version") # Number(1) -> Refused("undeclared-outcome")
          [] Optional(o, "outcome") \notin {Text(d) : d \in declared} -> Refused("undeclared-outcome")
          [] \/ Len(o.obj) # (IF field = None THEN 2 ELSE 3)
             \/ Keys(o) \ {"version", "outcome", field} # {} -> Refused("output-fields")
          [] outcome.str \in {"block", "ask"} /\ ~GoodText(value) -> Refused("reason")
          [] outcome.str = "context" /\ ~GoodText(value) -> Refused("context")
          [] outcome.str = "modify-input" /\ ~GoodReplacement(event, value) -> Refused("replacement")
          [] OTHER -> Response(outcome.str, value)

\* outcome of runner.mts, of the value of a command's output.
RunnerOutcome(v, event, declared) ==
    LET named(outcomes) == Has(v, "outcome") /\ Field(v, "outcome") \in {Text(d) : d \in outcomes}
        field  == OutcomeField(Field(v, "outcome").str)
        keys   == {"version", "outcome"} \cup (IF field = None THEN {} ELSE {field})
        textField == GoodText(Optional(v, field))
    IN  CASE ~IsObject(v) -> Refused("undeclared-outcome")
          [] Optional(v, "version") # Number(1) -> Refused("undeclared-outcome")
          [] ~named(declared) -> Refused("undeclared-outcome")
          [] Keys(v) # keys -> Refused("output-fields")
          [] named({"block", "ask"}) /\ ~textField -> Refused("reason")
          [] named({"context"}) /\ ~textField -> Refused("context")
          [] named({"modify-input"}) /\ ~GoodReplacement(event, Field(v, "input")) -> Refused("replacement")
          [] OTHER -> v

\* The effects of a run as one record, without what it does not have.
EffectsRecord(effects) ==
    Object(<<<<"contexts", [arr |-> effects.contexts]>>>>
           \o (IF effects.input = None THEN <<>> ELSE <<<<"input", effects.input>>>>)
           \o (IF effects.decision = None THEN <<>>
               ELSE <<<<"decision", Text(effects.decision)>>, <<"reason", effects.reason>>>>))

\* joined_utf8_len, and the length of contexts.join('\n').
Joined(texts) ==
    Total([i \in DOMAIN texts |-> TextSize(texts[i])]) + (IF texts = <<>> THEN 0 ELSE Len(texts) - 1)

\* HookEffects::parse.
ReadEffects(text) ==
    LET read     == ParseJson(text, OutputLimit)
        o        == read.value
        contexts == Field(o, "contexts").arr
        decision == Optional(o, "decision")
        reason   == Optional(o, "reason")
    IN  CASE ~IsParsed(read) -> Refused("invalid-output")
          [] ~IsObject(o) -> Refused("output-fields")
          [] Keys(o) \ {"input", "contexts", "decision", "reason"} # {} -> Refused("output-fields")
          [] ~Has(o, "contexts") \/ DOMAIN Field(o, "contexts") # {"arr"} -> Refused("output-fields")
          [] \E i \in DOMAIN contexts : ~IsText(contexts[i]) -> Refused("context")
          [] Range(contexts) \cap BlankTexts # {} \/ Joined(contexts) > TextLimit ->
                Refused("context-limit")
          [] decision \notin {None, Text("block"), Text("ask")} -> Refused("undeclared-outcome")
          [] reason # None /\ ~GoodText(reason) -> Refused("reason")
          [] (decision = None) # (reason = None) -> Refused("output-fields")
          [] OTHER -> [contexts |-> contexts, input |-> Optional(o, "input"),
                       decision |-> IF decision = None THEN None ELSE decision.str,
                       reason |-> reason]
=============================================================================
