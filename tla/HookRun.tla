------------------------------- MODULE HookRun --------------------------------
(***************************************************************************)
(* One call of the hook bridge by a host: the request is read, the         *)
(* handlers of the event run one after the other as child processes, and   *)
(* what they said is folded into one answer (native of bridge.mts, run and *)
(* execute of runner.mts, start of process.mts, on POSIX).                 *)
(*                                                                         *)
(* A child process leads a process group.  It may start a descendant: one  *)
(* that keeps its output pipes open, one that closes them, or one that     *)
(* keeps them and leaves the group.                                        *)
(* Children write, exit and linger as they please, and time passes as long *)
(* as no timer of the bridge is due; every other step is the bridge's.     *)
(***************************************************************************)
EXTENDS Integers, FiniteSets, SequencesExt

CONSTANTS
    KnownHosts, StreamHosts,
    Commands,               \* [KnownHosts -> the configurations rendered for it]
    Calls(_, _),            \* what a host may call with, for an event
    Written(_, _),          \* host, handler: what its command may write
    StdinDeadline, EventDeadline,
    MaxLag,                 \* ticks the bridge itself may take
    None,
    \* The records (HookProtocol) and the table of hosts (HookBridge):
    ReadCall(_, _, _),      \* host, event, call: [request], [refused] or [passed]
    FitForWire(_),          \* bytes() lets the input through
    InputOf(_), WithInput(_, _),
    Accept(_, _, _),        \* output, event, outcomes: [outcome, value] or [refused]
    TooMuch(_),             \* the contexts of a run exceed the limit
    Overflows(_),           \* an output exceeds the limit
    ToolOf(_),
    Answering(_, _, _, _), NothingDone,
    SeenBy(_, _, _), NothingChanged,
    SameToTheLibrary(_, _, _, _)    \* the library agrees about output, event, outcomes, input

\* A rendered configuration: HookConfig sorts its handlers by id, and the time
\* limit of each is positive.
ASSUME ConfigAssumption ==
    \A h \in KnownHosts : \A c \in Commands[h] :
        LET handlers == c.handlers
        IN  /\ handlers \in Seq(Range(handlers))
            /\ \A i \in DOMAIN handlers : handlers[i].timeout \in Nat /\ handlers[i].id \in Nat
            /\ \A i, j \in DOMAIN handlers : i < j => handlers[i].id < handlers[j].id

ASSUME ClockAssumption ==
    StdinDeadline \in Nat /\ EventDeadline \in Nat \ {0} /\ MaxLag \in Nat

VARIABLES
    host, event, config, call, ambient,
    phase,      \* "call", "run", "done"
    now, deadline, lag,
    at,         \* the next handler, or the one that runs
    child,      \* NoChild, or the child process as the bridge knows it
    alive,      \* processes: <<handler, kind>>
    input,      \* the request the next handler is sent
    effects,
    answer, fault,
    given       \* auxiliary: [id, sent, outcome] of the handlers that were heard

called == <<host, event, config, call, ambient>>
clock == <<now, deadline, lag>>
vars == <<called, clock, phase, at, child, alive, input, effects, answer, fault, given>>

NoChild == <<>>

Handler == config.handlers[at]

\* kill(-pid): what is left of the group of the running handler.
Killed == {p \in alive : p[1] = at /\ p[2] # "away"}

Done(ans, code) ==
    /\ phase' = "done" /\ answer' = ans /\ fault' = code

Fail(code) == Done(NothingDone, code)
-----------------------------------------------------------------------------
NoEffects == [contexts |-> <<>>, input |-> None, decision |-> None, reason |-> None]

Init ==
    /\ host \in KnownHosts
    /\ config \in Commands[host]
    /\ event \in {config.handlers[i].event : i \in DOMAIN config.handlers}
    /\ call \in Calls(host, event)
    /\ ambient \in BOOLEAN
    /\ phase = "call"
    /\ now = 0 /\ deadline = 0 /\ lag = 0
    /\ at = 1 /\ child = NoChild /\ alive = {}
    /\ input = None /\ effects = NoEffects
    /\ answer = None /\ fault = None /\ given = <<>>

\* The host calls, or ends the bridge's standard input: readInput, normalize or
\* a callback, and the start of run.
ReadInput ==
    /\ phase = "call"
    /\ \E read \in {ReadCall(host, event, call)} :
        CASE DOMAIN read = {"passed"} ->
                Done(NothingDone, None) /\ UNCHANGED <<clock, at, input>>
          [] DOMAIN read = {"refused"} ->
                Fail(read.refused) /\ UNCHANGED <<clock, at, input>>
          [] OTHER ->
                /\ deadline' = now + EventDeadline
                /\ input' = read.request
                /\ IF FitForWire(read.request)
                   THEN phase' = "run" /\ UNCHANGED <<answer, fault>>
                   ELSE Fail("input-limit")
                /\ UNCHANGED <<now, lag, at>>
    /\ UNCHANGED <<called, child, alive, effects, given>>

StdinTimeout ==
    /\ phase = "call" /\ host \in StreamHosts /\ now >= StdinDeadline
    /\ Fail("stdin-timeout")
    /\ UNCHANGED <<called, clock, at, child, alive, input, effects, given>>

Matches(h) == h.event = event /\ (h.tools = <<>> \/ ToolOf(input) \in Range(h.tools))

LastHandler == at > Len(config.handlers)

\* The loop passes a handler of another event or tool.
PassOver ==
    /\ phase = "run" /\ child = NoChild /\ ~LastHandler /\ ~Matches(Handler)
    /\ at' = at + 1
    /\ UNCHANGED <<called, clock, phase, child, alive, input, effects, answer, fault, given>>

Remaining(h) ==
    IF h.timeout < deadline - now THEN h.timeout ELSE deadline - now

MissingEnv(h) == ~ambient /\ \E i \in DOMAIN h.env : h.env[i].ref

\* execute, up to the child process.
Start ==
    /\ phase = "run" /\ child = NoChild /\ ~LastHandler /\ Matches(Handler)
    /\ \/ /\ ~FitForWire(input) \/ MissingEnv(Handler) \/ Remaining(Handler) <= 0
          /\ Fail(CASE ~FitForWire(input) -> "input-limit"
                    [] MissingEnv(Handler) -> "missing-env"
                    [] OTHER -> "event-timeout")
          /\ UNCHANGED <<child, alive>>
       \/ /\ FitForWire(input) /\ ~MissingEnv(Handler) /\ Remaining(Handler) > 0
          /\ \E kinds \in {{}, {"piped"}, {"quiet"}, {"away"}} :
                alive' = alive \cup {<<at, kind>> : kind \in kinds \cup {"leader"}}
          /\ child' = [out |-> None, reply |-> [refused |-> "invalid-output"], err |-> "none",
                       code |-> None, noticed |-> FALSE, due |-> now + Remaining(Handler)]
          /\ UNCHANGED <<phase, answer, fault>>
    /\ UNCHANGED <<called, clock, at, input, effects, given>>

\* spawn reports an error: no executable, no directory.
SpawnFails ==
    /\ phase = "run" /\ child = NoChild /\ ~LastHandler /\ Matches(Handler)
    /\ FitForWire(input) /\ ~MissingEnv(Handler) /\ Remaining(Handler) > 0
    /\ Fail("spawn")
    /\ UNCHANGED <<called, clock, at, child, alive, input, effects, given>>

\* The loop is over.
Complete ==
    /\ phase = "run" /\ child = NoChild /\ LastHandler
    /\ IF now >= deadline THEN Fail("event-timeout")
       ELSE Done(Answering(host, event, call, effects), None)
    /\ UNCHANGED <<called, clock, at, child, alive, input, effects, given>>
-----------------------------------------------------------------------------
\* Mutant of Settle: the leader is killed, what it started is not.
SettleLeader(code) ==
    /\ child' = NoChild
    /\ alive' = alive \ {<<at, "leader">>}
    /\ Fail(code)

\* finish with an error: the rest of the group is killed first.
Settle(code) ==
    /\ child' = NoChild
    /\ alive' = alive \ Killed
    /\ Fail(code)

\* Output is kept along with what finish and outcome will make of it.
Writes ==
    /\ child # NoChild /\ child.out = None /\ <<at, "leader">> \in alive
    /\ \E out \in Written(host, Handler) :
        IF Overflows(out) THEN Settle("stdout-limit")
        ELSE \E reply \in {Accept(out, event, Handler.outcomes)} :
                /\ child' = [child EXCEPT !.out = out, !.reply = reply]
                /\ UNCHANGED <<phase, alive, answer, fault>>
    /\ UNCHANGED <<called, clock, at, input, effects, given>>

\* Diagnostics: within the limit, beyond it, or not UTF-8.
WritesError ==
    /\ child # NoChild /\ child.err = "none" /\ <<at, "leader">> \in alive
    /\ \/ Settle("stderr-limit")
       \/ child' = [child EXCEPT !.err = "bytes"] /\ UNCHANGED <<phase, alive, answer, fault>>
    /\ UNCHANGED <<called, clock, at, input, effects, given>>

LeaderExits ==
    /\ child # NoChild /\ <<at, "leader">> \in alive
    /\ \E code \in {0, 1} : child' = [child EXCEPT !.code = code]
    /\ alive' = alive \ {<<at, "leader">>}
    /\ UNCHANGED <<called, clock, phase, at, input, effects, answer, fault, given>>

\* exited.then(cleanup).
NoticeExit ==
    /\ child # NoChild /\ child.code # None /\ ~child.noticed
    /\ child' = [child EXCEPT !.noticed = TRUE]
    /\ alive' = alive \ Killed
    /\ UNCHANGED <<called, clock, phase, at, input, effects, answer, fault, given>>

\* Nobody holds the pipes any more.
Closed == child.code # None /\ alive \cap {<<at, "piped">>, <<at, "away">>} = {}

\* What run does with an outcome that was accepted.
Fold(h, o) ==
    LET contexts == Append(effects.contexts, o.value)
    IN  CASE o.outcome = "modify-input" ->
                /\ input' = WithInput(input, o.value)
                /\ effects' = [effects EXCEPT !.input = o.value]
                /\ at' = at + 1 /\ UNCHANGED <<phase, answer, fault>>
          [] o.outcome = "context" ->
                /\ effects' = [effects EXCEPT !.contexts = contexts]
                /\ IF TooMuch(contexts) THEN Fail("context-limit") /\ UNCHANGED at
                   ELSE at' = at + 1 /\ UNCHANGED <<phase, answer, fault>>
                /\ UNCHANGED input
          [] o.outcome \in {"block", "ask"} ->
                /\ effects' = [effects EXCEPT !.decision = o.outcome, !.reason = o.value]
                /\ Done(Answering(host, event, call, effects'), None)
                /\ UNCHANGED <<at, input>>
          [] OTHER -> at' = at + 1 /\ UNCHANGED <<input, effects, phase, answer, fault>>

Listened(h, o) == Append(given, [id |-> h.id, sent |-> input, outcome |-> o])

\* completed: finish, the checks of the output, and the rest of the turn of run.
Finish ==
    /\ child # NoChild /\ Closed
    /\ IF \/ child.code # 0 \/ child.err = "bytes" \/ DOMAIN child.reply = {"refused"}
          \/ now >= deadline
       THEN /\ Settle(CASE child.code # 0 -> "exit"
                        [] child.err = "bytes" -> "invalid-output"
                        [] DOMAIN child.reply = {"refused"} -> child.reply.refused
                        [] OTHER -> "event-timeout")
            /\ UNCHANGED <<at, input, effects, given>>
       ELSE /\ child' = NoChild
            /\ alive' = alive \ Killed
            /\ given' = Listened(Handler, child.reply)
            /\ Fold(Handler, child.reply)
    /\ UNCHANGED <<called, clock>>

\* Mutant of Timeout: the timer is cleared when the leader exits.
TimeoutOfLeader ==
    /\ child # NoChild /\ now >= child.due /\ child.code = None
    /\ Settle("timeout")
    /\ UNCHANGED <<called, clock, at, input, effects, given>>

\* The timer of execute.
Timeout ==
    /\ child # NoChild /\ now >= child.due
    /\ Settle("timeout")
    /\ UNCHANGED <<called, clock, at, input, effects, given>>

\* Time passes while no timer of the bridge is due.
Tick ==
    /\ phase # "done"
    /\ now' = now + 1
    /\ \/ /\ phase = "call" /\ host \in StreamHosts /\ now < StdinDeadline /\ lag' = lag
       \/ /\ phase = "run" /\ child # NoChild /\ now < child.due /\ lag' = lag
       \/ /\ phase = "run" /\ child = NoChild /\ lag < MaxLag /\ lag' = lag + 1
    /\ UNCHANGED <<called, deadline, phase, at, child, alive, input, effects, answer, fault, given>>

Bridge == StdinTimeout \/ PassOver \/ Start \/ Complete \/ NoticeExit \/ Finish \/ Timeout

Next ==
    \/ ReadInput \/ StdinTimeout \/ PassOver \/ Start \/ SpawnFails \/ Complete
    \/ Writes \/ WritesError \/ LeaderExits \/ NoticeExit \/ Finish \/ Timeout \/ Tick

\* The event loop runs what is ready and fires its timers; a callback of an
\* embedded host is called at once.  Nothing is assumed of the children or of
\* the host's end of standard input.
Fairness ==
    /\ WF_vars(Bridge) /\ WF_vars(Tick)
    /\ WF_vars(host \notin StreamHosts /\ ReadInput)

Spec == Init /\ [][Next]_vars /\ Fairness
-----------------------------------------------------------------------------
\* The answer the outcomes call for: contexts in order, the first decision, the
\* last replacement unless the call is blocked.
Called ==
    LET of(outcome) == SelectSeq(given, LAMBDA g : g.outcome.outcome = outcome)
        decided == SelectSeq(given, LAMBDA g : g.outcome.outcome \in {"block", "ask"})
        contexts == of("context")
        replaced == of("modify-input")
        blocked == of("block") # <<>>
    IN  [decision |-> IF decided = <<>> THEN None ELSE decided[1].outcome.outcome,
         reason   |-> IF decided = <<>> THEN None ELSE decided[1].outcome.value,
         input    |-> IF blocked \/ replaced = <<>> THEN None ELSE Last(replaced).outcome.value,
         contexts |-> [i \in DOMAIN contexts |-> contexts[i].outcome.value]]

\* No handler is heard twice, nor before one of a smaller id.
HeardInOrder == \A i \in 1..Len(given) - 1 : given[i].id < given[i + 1].id

\* The positions in given of the outcomes of some kinds.
Heard(kinds) == {i \in DOMAIN given : given[i].outcome.outcome \in kinds}

ValueAt(i) == given[i].outcome.value

\* Each handler is sent the request the one before it was sent, with the
\* replacement that one asked for.
PassedOn ==
    \A i \in 1..Len(given) - 1 :
        given[i + 1].sent = IF i \in Heard({"modify-input"})
                            THEN WithInput(given[i].sent, ValueAt(i)) ELSE given[i].sent

\* The contexts heard, each at its rank among them.
ContextsKept ==
    LET contexts == Heard({"context"})
    IN  /\ Len(effects.contexts) = Cardinality(contexts)
        /\ \A i \in contexts :
            effects.contexts[Cardinality({j \in contexts : j <= i})] = ValueAt(i)

\* The last replacement, or none.
LastReplacement ==
    LET replaced == Heard({"modify-input"})
    IN  /\ replaced = {} => effects.input = None
        /\ \A i \in replaced : (\A j \in replaced : j <= i) => effects.input = ValueAt(i)

\* A decision ends the run, and is told with its reason; without one there is none.
DecisionEnds ==
    LET decided == Heard({"block", "ask"})
    IN  /\ decided = {} => effects.decision = None /\ effects.reason = None
        /\ \A i \in decided :
            /\ i = Len(given) /\ phase = "done" /\ fault = None
            /\ effects.decision = given[i].outcome.outcome /\ effects.reason = ValueAt(i)

\* What is accumulated is what was heard, nothing dropped, doubled or out of place.
Accumulated == PassedOn /\ ContextsKept /\ LastReplacement /\ DecisionEnds

\* What the handlers said reaches the host whole or not at all: in ascending
\* order of id, each handler with the replacement of the ones before it, and
\* after any failure the host is told nothing (hook-protocol.md:69-85: "any
\* runtime failure discards accumulated host effects"; runner.mts:172-192,
\* bridge.mts:35-61 and 95-136).
EffectsReachTheHost ==
    /\ HeardInOrder
    /\ Accumulated
    /\ \A i \in 1..Len(given) - 1 :
        i \in Heard({"modify-input"}) => InputOf(given[i + 1].sent) = ValueAt(i)
    /\ phase = "done" =>
        SeenBy(host, event, answer) = IF fault = None THEN Called ELSE NothingChanged

\* No process of an earlier handler is left when the next one starts or the host
\* is answered, whatever it started and however it ended; descendants that made a
\* group of their own are outside (runner.mts:127-146, hook-protocol.md:123-126).
NothingLeftRunning == \A p \in alive : p[2] = "away" \/ (child # NoChild /\ p[1] = at)

\* The host is answered before the standard input's deadline and the event's have
\* both passed, though the bridge takes time itself between handlers: the host's
\* own timeout of 310 seconds is never what ends a run (runner.mts:117, 173).
InTime == phase # "done" => now <= StdinDeadline + EventDeadline

\* Two implementations, one protocol: the library reads the requests that the
\* bridge sends as what they are, and accepts, refuses and reads the outputs of
\* commands and the effects of a run as the bridge does (hooks.rs:230-261,
\* 363-425, 736-783; runner.mts:21-47, 162-171).  Neither the time nor other
\* processes enter, so it is looked at while a command runs alone and is silent.
ProtocolAgrees ==
    child # NoChild /\ child.err = "none" /\ alive = {<<at, "leader">>} =>
        SameToTheLibrary(child.out, event, Handler.outcomes, [input |-> input, effects |-> effects])

\* The host is always answered: no command, however it hangs, and nothing it
\* leaves behind keeps the bridge (runner.mts:84, 126, 155-156), and in time.
Answered == []InTime /\ <>(phase = "done")
=============================================================================
