--------------------------- MODULE HookRun_proofs ----------------------------
(***************************************************************************)
(* Proofs about HookRun, for any configurations, calls, outputs and        *)
(* deadlines: what may still run when the host is answered, in which order *)
(* the handlers are heard, and how long the host waits.                    *)
(*                                                                         *)
(* Of the records and the table of hosts (ReadCall, Accept, Answering and  *)
(* the other operators that are constants) nothing is assumed.             *)
(***************************************************************************)
EXTENDS HookRun, FiniteSetTheorems, TLAPS

Kinds == {"leader", "piped", "quiet", "away"}
Handlers == config.handlers

TypeOK ==
    /\ host \in KnownHosts /\ config \in Commands[host]
    /\ phase \in {"call", "run", "done"}
    /\ now \in Nat /\ deadline \in Nat /\ lag \in 0..MaxLag
    /\ at \in Nat \ {0}
    /\ child # NoChild => "due" \in DOMAIN child /\ child.due \in Nat
    /\ alive \subseteq Nat \X Kinds
    /\ \E S : given \in Seq(S)

\* A timer is set within the deadline of the event, and no time passes beyond
\* it.  Between two handlers the bridge is late by its own lag at most.
Timely ==
    /\ phase = "call" => child = NoChild /\ lag = 0 /\ now <= StdinDeadline
    /\ phase = "run" => deadline <= StdinDeadline + EventDeadline
    /\ phase = "run" /\ child = NoChild => now < deadline + lag
    /\ child # NoChild => /\ phase = "run" /\ at \in DOMAIN Handlers
                          /\ now <= child.due /\ child.due <= deadline

\* The handlers that were heard come before the one that runs.
Ordered ==
    /\ phase = "call" => given = <<>>
    /\ \A i \in DOMAIN given : given[i].id \in Nat
    /\ \A i, j \in DOMAIN given : i < j => given[i].id < given[j].id
    /\ phase = "run" =>
         \A i \in DOMAIN given, k \in DOMAIN Handlers :
            k >= at => given[i].id < Handlers[k].id

IInv == TypeOK /\ Timely /\ Ordered /\ NothingLeftRunning

----------------------------------------------------------------------------
LEMMA HandlerFacts ==
    ASSUME TypeOK
    PROVE  /\ Handlers \in Seq(Range(Handlers))
           /\ \A i \in DOMAIN Handlers : /\ Handlers[i].timeout \in Nat
                                         /\ Handlers[i].id \in Nat
           /\ \A i, j \in DOMAIN Handlers :
                 i < j => Handlers[i].id < Handlers[j].id
           /\ ~LastHandler => at \in DOMAIN Handlers
<1>1. /\ Handlers \in Seq(Range(Handlers))
      /\ \A i \in DOMAIN Handlers : /\ Handlers[i].timeout \in Nat
                                    /\ Handlers[i].id \in Nat
      /\ \A i, j \in DOMAIN Handlers : i < j => Handlers[i].id < Handlers[j].id
  BY ConfigAssumption DEF TypeOK, Handlers
<1>2. ~LastHandler => at \in DOMAIN Handlers
  <2>1. DOMAIN Handlers = 1..Len(Handlers) /\ Len(Handlers) \in Nat
    BY <1>1
  <2> QED
    BY <2>1 DEF LastHandler, TypeOK, Handlers
<1> QED
  BY <1>1, <1>2

\* A child is not the absence of one.
LEMMA RealChild ==
    /\ \A out, reply, err, code, noticed, due :
          [out |-> out, reply |-> reply, err |-> err, code |-> code,
           noticed |-> noticed, due |-> due] # NoChild
    /\ "due" \notin DOMAIN NoChild
  BY DEF NoChild

LEMMA InitIInv == Init => IInv
<1> SUFFICES ASSUME Init PROVE IInv
  OBVIOUS
<1>1. TypeOK
  <2>1. given \in Seq({})
    BY DEF Init
  <2> QED
    BY <2>1, ClockAssumption DEF Init, TypeOK
<1>2. Timely /\ Ordered /\ NothingLeftRunning
  BY ClockAssumption DEF Init, Timely, Ordered, NothingLeftRunning
<1> QED
  BY <1>1, <1>2 DEF IInv

\* The bridge settles, for whatever reason: only descendants that left the
\* group of the child are left.
LEMMA FailKeeps ==
    ASSUME IInv, NEW code, Fail(code), UNCHANGED <<called, clock, at, given>>,
           \/ UNCHANGED <<child, alive>> /\ child = NoChild
           \/ child' = NoChild /\ alive' = alive \ Killed
    PROVE  IInv'
<1> USE DEF Fail, Done, called, clock
<1>1. TypeOK'
  BY DEF IInv, TypeOK
<1>2. Timely' /\ Ordered'
  BY DEF IInv, Timely, Ordered
<1>3. NothingLeftRunning'
  BY DEF IInv, NothingLeftRunning, Killed
<1> QED
  BY <1>1, <1>2, <1>3 DEF IInv

LEMMA ReadInputKeeps == ASSUME IInv, ReadInput PROVE IInv'
<1> USE DEF ReadInput, Fail, Done, called, clock
<1>1. /\ phase = "call" /\ phase' \in {"run", "done"}
      /\ UNCHANGED <<host, config, now, lag, at, child, alive, given>>
      /\ deadline' \in {deadline, now + EventDeadline}
      /\ phase' = "run" => deadline' = now + EventDeadline
  OBVIOUS
<1>2. TypeOK'
  BY <1>1, ClockAssumption DEF IInv, TypeOK
<1>3. Timely'
  BY <1>1, ClockAssumption DEF IInv, TypeOK, Timely
<1>4. Ordered'
  BY <1>1 DEF IInv, Ordered
<1>5. NothingLeftRunning'
  BY <1>1 DEF IInv, NothingLeftRunning
<1> QED
  BY <1>2, <1>3, <1>4, <1>5 DEF IInv

LEMMA PassOverKeeps == ASSUME IInv, PassOver PROVE IInv'
<1> USE DEF PassOver, called, clock
<1>1. TypeOK'
  BY DEF IInv, TypeOK
<1>2. Timely' /\ NothingLeftRunning'
  BY DEF IInv, Timely, NothingLeftRunning
<1>3. Ordered'
  <2>1. DOMAIN Handlers \subseteq Nat
    BY HandlerFacts DEF IInv
  <2> QED
    BY <2>1 DEF IInv, TypeOK, Ordered, Handlers
<1> QED
  BY <1>1, <1>2, <1>3 DEF IInv

LEMMA StartKeeps == ASSUME IInv, Start PROVE IInv'
<1>1. CASE Fail(CASE ~FitForWire(input) -> "input-limit"
                  [] MissingEnv(Handler) -> "missing-env"
                  [] OTHER -> "event-timeout") /\ UNCHANGED <<child, alive>>
  BY <1>1, FailKeeps DEF Start
<1>2. CASE /\ Remaining(Handler) > 0
           /\ \E kinds \in {{}, {"piped"}, {"quiet"}, {"away"}} :
                alive' = alive \cup {<<at, kind>> : kind \in kinds \cup {"leader"}}
           /\ child' = [out |-> None, reply |-> [refused |-> "invalid-output"],
                        err |-> "none", code |-> None, noticed |-> FALSE,
                        due |-> now + Remaining(Handler)]
           /\ UNCHANGED phase
  <2> USE DEF Start, called, clock
  <2>1. at \in DOMAIN Handlers /\ Handler.timeout \in Nat
    BY HandlerFacts DEF IInv, Handler, Handlers
  <2>2. /\ now + Remaining(Handler) \in Nat
        /\ now <= now + Remaining(Handler)
        /\ now + Remaining(Handler) <= deadline
    BY <1>2, <2>1 DEF Remaining, IInv, TypeOK
  <2>3. child' # NoChild /\ child'.due = now + Remaining(Handler)
        /\ "due" \in DOMAIN child'
    BY <1>2, RealChild
  <2>4. \A q \in alive' : q \in alive \/ (q[1] = at /\ q \in Nat \X Kinds)
    BY <1>2 DEF IInv, TypeOK, Kinds
  <2>5. TypeOK'
    BY <1>2, <2>2, <2>3, <2>4 DEF IInv, TypeOK
  <2>6. Timely'
    BY <1>2, <2>1, <2>2, <2>3 DEF IInv, Timely, Handlers
  <2>7. Ordered'
    BY <1>2 DEF IInv, Ordered, Handlers
  <2>8. NothingLeftRunning'
    BY <2>3, <2>4 DEF IInv, NothingLeftRunning
  <2> QED
    BY <2>5, <2>6, <2>7, <2>8 DEF IInv
<1> QED
  BY <1>1, <1>2 DEF Start

LEMMA CompleteKeeps == ASSUME IInv, Complete PROVE IInv'
<1> USE DEF Complete, Fail, Done, called, clock
<1>1. TypeOK'
  BY DEF IInv, TypeOK
<1>2. Timely' /\ Ordered' /\ NothingLeftRunning'
  BY DEF IInv, Timely, Ordered, NothingLeftRunning
<1> QED
  BY <1>1, <1>2 DEF IInv

\* A field of the child other than its timer changes, or nothing of it.
LEMMA ChildKeeps ==
    ASSUME IInv, child # NoChild, child' # NoChild,
           "due" \in DOMAIN child', child'.due = child.due,
           alive' \subseteq alive,
           UNCHANGED <<called, clock, at, given, phase>>
    PROVE  IInv'
<1> USE DEF called, clock
<1>1. TypeOK'
  BY DEF IInv, TypeOK
<1>2. Timely' /\ Ordered'
  BY DEF IInv, Timely, Ordered, Handlers
<1>3. NothingLeftRunning'
  BY DEF IInv, NothingLeftRunning
<1> QED
  BY <1>1, <1>2, <1>3 DEF IInv

LEMMA WritesKeeps == ASSUME IInv, Writes PROVE IInv'
<1>1. \/ Settle("stdout-limit")
      \/ \E out, reply : /\ child' = [child EXCEPT !.out = out, !.reply = reply]
                         /\ UNCHANGED <<phase, alive>>
  BY Zenon DEF Writes
<1>2. CASE Settle("stdout-limit")
  BY <1>2, FailKeeps DEF Writes, Settle
<1>3. ASSUME NEW out, NEW reply,
             child' = [child EXCEPT !.out = out, !.reply = reply],
             UNCHANGED <<phase, alive>>
      PROVE  IInv'
  <2>1. child # NoChild
    BY DEF Writes
  <2>2. child' # NoChild /\ "due" \in DOMAIN child' /\ child'.due = child.due
    BY <1>3, <2>1, RealChild DEF IInv, TypeOK
  <2>3. UNCHANGED <<called, clock, at, given>>
    BY Zenon DEF Writes
  <2> QED
    BY <1>3, <2>1, <2>2, <2>3, ChildKeeps
<1> QED
  BY Zenon, <1>1, <1>2, <1>3

LEMMA WritesErrorKeeps == ASSUME IInv, WritesError PROVE IInv'
<1>1. CASE Settle("stderr-limit")
  BY <1>1, FailKeeps DEF WritesError, Settle
<1>2. CASE /\ child' = [child EXCEPT !.err = "bytes"]
           /\ UNCHANGED <<phase, alive, answer, fault>>
  <2>1. child' # NoChild /\ "due" \in DOMAIN child' /\ child'.due = child.due
    BY <1>2, RealChild DEF WritesError, IInv, TypeOK
  <2> QED
    BY <1>2, <2>1, ChildKeeps DEF WritesError
<1> QED
  BY <1>1, <1>2 DEF WritesError

LEMMA LeaderExitsKeeps == ASSUME IInv, LeaderExits PROVE IInv'
<1>1. child' # NoChild /\ "due" \in DOMAIN child' /\ child'.due = child.due
  BY RealChild DEF LeaderExits, IInv, TypeOK
<1> QED
  BY <1>1, ChildKeeps DEF LeaderExits

LEMMA NoticeExitKeeps == ASSUME IInv, NoticeExit PROVE IInv'
<1>1. child' # NoChild /\ "due" \in DOMAIN child' /\ child'.due = child.due
  BY RealChild DEF NoticeExit, IInv, TypeOK
<1> QED
  BY <1>1, ChildKeeps DEF NoticeExit

\* The outcome of the handler is accepted: it is heard last so far, and the
\* next one comes after it.
LEMMA FoldKeeps ==
    ASSUME IInv, child # NoChild, now < deadline,
           child' = NoChild, alive' = alive \ Killed,
           given' = Listened(Handler, child.reply), Fold(Handler, child.reply),
           UNCHANGED <<called, clock>>
    PROVE  IInv'
<1> USE DEF called, clock
<1>1. /\ at' \in {at, at + 1} /\ phase' \in {phase, "done"}
      /\ phase' = "run" => at' = at + 1
  BY DEF Fold, Fail, Done, IInv, Timely
<1>2. \E S : given' \in Seq(S)
  <2>1. PICK S : given \in Seq(S)
    BY DEF IInv, TypeOK
  <2> DEFINE g == [id |-> Handler.id, sent |-> input, outcome |-> child.reply]
  <2>2. Append(given, g) \in Seq(S \cup {g})
    BY <2>1
  <2> QED
    BY <2>2 DEF Listened
<1>3. TypeOK'
  BY <1>1, <1>2 DEF IInv, TypeOK, Timely
<1>4. Timely'
  BY <1>1 DEF IInv, TypeOK, Timely
<1>5. Ordered'
  <2>1. PICK S : given \in Seq(S)
    BY DEF IInv, TypeOK
  <2>2. /\ DOMAIN given' = 1..(Len(given) + 1) /\ DOMAIN given = 1..Len(given)
        /\ Len(given) \in Nat
        /\ \A i \in DOMAIN given : given'[i] = given[i]
        /\ given'[Len(given) + 1].id = Handlers[at].id
    BY <2>1 DEF Listened, Handler, Handlers
  <2>3. phase = "run" /\ at \in DOMAIN Handlers
    BY DEF IInv, Timely
  <2>4. /\ DOMAIN Handlers \subseteq Nat /\ Handlers[at].id \in Nat
        /\ \A k \in DOMAIN Handlers :
              /\ Handlers[k].id \in Nat
              /\ k > at => Handlers[at].id < Handlers[k].id
    BY <2>3, HandlerFacts DEF IInv
  <2>5. \A i \in DOMAIN given :
           /\ given[i].id \in Nat
           /\ given[i].id < Handlers[at].id
           /\ \A k \in DOMAIN Handlers : k >= at => given[i].id < Handlers[k].id
    BY <2>3, <2>4 DEF IInv, TypeOK, Ordered
  <2>6. \A i \in DOMAIN given' : given'[i].id \in Nat
    BY <2>2, <2>4, <2>5
  <2>7. \A i, j \in DOMAIN given' : i < j => given'[i].id < given'[j].id
    BY <2>2, <2>5 DEF IInv, Ordered
  <2>8. phase' = "run" =>
           \A i \in DOMAIN given', k \in DOMAIN Handlers :
              k >= at' => given'[i].id < Handlers[k].id
    <3>1. \A i \in DOMAIN given' : i \in DOMAIN given \/ i = Len(given) + 1
      BY <2>2
    <3>2. at \in Nat /\ \A k \in DOMAIN Handlers : k >= at + 1 => k >= at /\ k > at
      BY <2>3, <2>4
    <3> QED
      BY <1>1, <2>2, <2>4, <2>5, <3>1, <3>2
  <2>9. phase' # "call"
    BY <1>1, <2>3
  <2>10. Handlers' = Handlers
    BY DEF Handlers
  <2> QED
    BY <2>6, <2>7, <2>8, <2>9, <2>10 DEF Ordered
<1>6. NothingLeftRunning'
  BY DEF IInv, NothingLeftRunning, Killed
<1> QED
  BY <1>3, <1>4, <1>5, <1>6 DEF IInv

LEMMA FinishKeeps == ASSUME IInv, Finish PROVE IInv'
<1>1. CASE \E code : Settle(code) /\ UNCHANGED <<at, given>>
  BY <1>1, FailKeeps DEF Finish, Settle
<1>2. CASE /\ ~(now >= deadline) /\ child' = NoChild
           /\ alive' = alive \ Killed
           /\ given' = Listened(Handler, child.reply)
           /\ Fold(Handler, child.reply)
  <2>1. now < deadline
    BY <1>2 DEF IInv, TypeOK
  <2> QED
    BY <1>2, <2>1, FoldKeeps DEF Finish
<1> QED
  BY <1>1, <1>2 DEF Finish

LEMMA TickKeeps == ASSUME IInv, Tick PROVE IInv'
<1> USE DEF Tick, called
<1>1. TypeOK'
  BY ClockAssumption DEF IInv, TypeOK
<1>2. Timely'
  BY ClockAssumption DEF IInv, TypeOK, Timely, Handlers
<1>3. Ordered' /\ NothingLeftRunning'
  BY DEF IInv, Ordered, NothingLeftRunning, Handlers
<1> QED
  BY <1>1, <1>2, <1>3 DEF IInv

LEMMA NextIInv == IInv /\ [Next]_vars => IInv'
<1> SUFFICES ASSUME IInv, [Next]_vars PROVE IInv'
  OBVIOUS
<1>1. CASE StdinTimeout
  BY <1>1, FailKeeps DEF StdinTimeout, IInv, Timely
<1>2. CASE SpawnFails
  BY <1>2, FailKeeps DEF SpawnFails
<1>3. CASE Timeout
  BY <1>3, FailKeeps DEF Timeout, Settle
<1>4. CASE UNCHANGED vars
  BY <1>4 DEF vars, called, clock, IInv, TypeOK, Timely, Ordered, Handlers,
     NothingLeftRunning
<1> QED
  BY <1>1, <1>2, <1>3, <1>4, ReadInputKeeps, PassOverKeeps, StartKeeps,
     CompleteKeeps, WritesKeeps, WritesErrorKeeps, LeaderExitsKeeps, NoticeExitKeeps,
     FinishKeeps, TickKeeps DEF Next

\* Whatever a command starts and however it ends, times out or is refused,
\* nothing of an earlier handler's process group runs beside the next one or
\* after the answer (runner.mts, execute).
THEOREM AlwaysNothingLeft == Spec => []NothingLeftRunning
<1>1. IInv => NothingLeftRunning
  BY DEF IInv
<1> QED
  BY <1>1, InitIInv, NextIInv, PTL DEF Spec

\* No handler is heard twice, nor one before another of a smaller id: run()
\* goes through the configuration in the order HookConfig gave it.
THEOREM AlwaysInOrder == Spec => []HeardInOrder
<1>1. IInv => HeardInOrder
  BY DEF IInv, TypeOK, Ordered, HeardInOrder
<1> QED
  BY <1>1, InitIInv, NextIInv, PTL DEF Spec

\* As long as the host waits, no more time has passed than its standard input
\* and the event may take and the bridge itself took in between.
WaitsNoLonger ==
    phase # "done" =>
        \/ now <= StdinDeadline + EventDeadline
        \/ now < StdinDeadline + EventDeadline + MaxLag

\* However the commands hang, the bridge is late by its own delays alone: each
\* timer of execute() is cut to what is left of the event.
THEOREM AlwaysWaitsNoLonger == Spec => []WaitsNoLonger
<1>1. IInv => WaitsNoLonger
  BY ClockAssumption DEF IInv, TypeOK, Timely, WaitsNoLonger
<1> QED
  BY <1>1, InitIInv, NextIInv, PTL DEF Spec

----------------------------------------------------------------------------
(* What the host is told.                                                  *)

\* The answer tells all the effects of a run that came to its end or to a
\* decision, or nothing.
AllOrNothing ==
    phase = "done" =>
        \/ answer = NothingDone
        \/ /\ fault = None /\ answer = Answering(host, event, call, effects)
           /\ LastHandler \/ effects.decision \in {"block", "ask"}

Told == "decision" \in DOMAIN effects /\ AllOrNothing

\* Nothing follows the answer, and until then there is none.
LEMMA TellingSteps ==
    ASSUME Told, effects' = effects, UNCHANGED <<host, event, config, call, at>>,
           phase' # "done" \/ answer' = NothingDone
    PROVE  Told'
  BY DEF Told, AllOrNothing

LEMMA FoldTold ==
    ASSUME Told, NEW o, Fold(Handler, o), phase = "run", UNCHANGED called
    PROVE  Told'
<1>1. CASE o.outcome = "modify-input"
  BY <1>1 DEF Told, AllOrNothing, Fold
<1>2. CASE o.outcome = "context"
  BY <1>2 DEF Told, AllOrNothing, Fold, Fail, Done
<1>3. CASE o.outcome \in {"block", "ask"}
  BY <1>3 DEF Told, AllOrNothing, Fold, Done, called
<1>4. CASE o.outcome \notin {"modify-input", "context", "block", "ask"}
  BY <1>4 DEF Told, AllOrNothing, Fold
<1> QED
  BY <1>1, <1>2, <1>3, <1>4

LEMMA NextTold == IInv /\ Told /\ [Next]_vars => Told'
<1> SUFFICES ASSUME IInv, Told, [Next]_vars PROVE Told'
  OBVIOUS
<1> USE DEF called, clock
<1>1. CASE ReadInput
  BY <1>1, TellingSteps DEF ReadInput, Fail, Done
<1>2. CASE StdinTimeout \/ SpawnFails \/ Start
  BY <1>2, TellingSteps DEF StdinTimeout, SpawnFails, Start, Fail, Done
<1>3. CASE PassOver \/ LeaderExits \/ NoticeExit \/ Tick
  BY <1>3 DEF PassOver, LeaderExits, NoticeExit, Tick, IInv, Timely, Told,
     AllOrNothing
<1>4. CASE Complete
  BY <1>4 DEF Complete, Fail, Done, Told, AllOrNothing, LastHandler
<1>5. CASE Writes \/ WritesError \/ Timeout
  <2>1. phase = "run" /\ UNCHANGED <<called, at, effects>>
    BY <1>5, Zenon DEF Writes, WritesError, Timeout, IInv, Timely
  <2>2. (\E code : Settle(code)) \/ UNCHANGED phase
    BY <1>5, Zenon DEF Writes, WritesError, Timeout
  <2> QED
    BY <2>1, <2>2, TellingSteps DEF Settle, Fail, Done
<1>6. CASE Finish
  <2>1. phase = "run"
    BY <1>6 DEF Finish, IInv, Timely
  <2>2. CASE \E code : Settle(code) /\ UNCHANGED <<at, effects>>
    BY <1>6, <2>2, TellingSteps DEF Finish, Settle, Fail, Done
  <2>3. CASE Fold(Handler, child.reply)
    BY <1>6, <2>1, <2>3, FoldTold DEF Finish
  <2> QED
    BY <1>6, <2>2, <2>3 DEF Finish
<1>7. CASE UNCHANGED vars
  BY <1>7 DEF vars, Told, AllOrNothing, LastHandler
<1> QED
  BY <1>1, <1>2, <1>3, <1>4, <1>5, <1>6, <1>7 DEF Next

\* After any failure the host is told nothing, and otherwise all that was
\* accumulated up to the last handler or the first decision: never the effects
\* of a part of the run (native, run and Settle of finish).
THEOREM AlwaysAllOrNothing == Spec => []AllOrNothing
<1>1. Init => Told
  BY DEF Init, Told, AllOrNothing, NoEffects
<1>2. Told => AllOrNothing
  BY DEF Told
<1> QED
  BY <1>1, <1>2, InitIInv, NextIInv, NextTold, PTL DEF Spec
----------------------------------------------------------------------------
(* What is accumulated is what was heard.                                  *)

\* Between two handlers the request is the one that the last was sent, with
\* what it asked for.
AccumInv ==
    /\ Accumulated
    /\ {"contexts", "input", "decision", "reason"} \subseteq DOMAIN effects
    /\ \E S : effects.contexts \in Seq(S)
    /\ phase # "done" => fault = None
    /\ phase = "run" /\ given # <<>> =>
         input = IF Len(given) \in Heard({"modify-input"})
                 THEN WithInput(given[Len(given)].sent, ValueAt(Len(given)))
                 ELSE given[Len(given)].sent

\* Ranks in a set of positions, and in the set with the next position.
LEMMA Ranks ==
    ASSUME NEW n \in Nat, NEW C \in SUBSET (1..n)
    PROVE  /\ Cardinality(C) \in Nat
           /\ Cardinality(C \cup {n + 1}) = Cardinality(C) + 1
           /\ \A i \in C : /\ Cardinality({j \in C : j <= i}) \in 1..Cardinality(C)
                           /\ {j \in C \cup {n + 1} : j <= i} = {j \in C : j <= i}
           /\ {j \in C \cup {n + 1} : j <= n + 1} = C \cup {n + 1}
<1>1. IsFiniteSet(C) /\ Cardinality(C) \in Nat
  <2>1. IsFiniteSet(1..n)
    BY FS_Interval
  <2> QED
    BY <2>1, FS_Subset, FS_CardinalityType
<1>2. Cardinality(C \cup {n + 1}) = Cardinality(C) + 1
  <2>1. n + 1 \notin C
    OBVIOUS
  <2> QED
    BY <1>1, <2>1, FS_AddElement
<1>3. ASSUME NEW i \in C
      PROVE  /\ Cardinality({j \in C : j <= i}) \in 1..Cardinality(C)
             /\ {j \in C \cup {n + 1} : j <= i} = {j \in C : j <= i}
  <2> DEFINE below == {j \in C : j <= i}
  <2>1. i \in below /\ below \subseteq C
    OBVIOUS
  <2> HIDE DEF below
  <2>2. IsFiniteSet(below) /\ Cardinality(below) \in Nat /\ Cardinality(below) <= Cardinality(C)
    BY <1>1, <2>1, FS_Subset, FS_CardinalityType
  <2>3. Cardinality(below) # 0
    BY <2>1, <2>2, FS_EmptySet
  <2>4. Cardinality(below) \in 1..Cardinality(C)
    BY <1>1, <2>2, <2>3
  <2>5. {j \in C \cup {n + 1} : j <= i} = {j \in C : j <= i}
    OBVIOUS
  <2> QED
    BY <2>4, <2>5 DEF below
<1>4. {j \in C \cup {n + 1} : j <= n + 1} = C \cup {n + 1}
  <2>1. \A j \in C \cup {n + 1} : j <= n + 1
    OBVIOUS
  <2> QED
    BY <2>1
<1> QED
  BY <1>1, <1>2, <1>3, <1>4

\* Nothing is heard, and what was decided stays.
LEMMA SilentAccum ==
    ASSUME AccumInv, UNCHANGED <<given, effects>>,
           phase = "done" => UNCHANGED <<phase, fault>>,
           phase' # "done" => UNCHANGED fault,
           phase' = "run" => given = <<>> \/ (phase = "run" /\ UNCHANGED input)
    PROVE  AccumInv'
<1>1. (\A kinds : Heard(kinds)' = Heard(kinds)) /\ (\A i : ValueAt(i)' = ValueAt(i))
  BY DEF Heard, ValueAt
<1>2. PassedOn' /\ ContextsKept' /\ LastReplacement'
  BY <1>1 DEF AccumInv, Accumulated, PassedOn, ContextsKept, LastReplacement
<1>3. DecisionEnds'
  BY <1>1 DEF AccumInv, Accumulated, DecisionEnds
<1> QED
  BY <1>1, <1>2, <1>3 DEF AccumInv, Accumulated

\* A handler is heard last: which positions and values there are now.
LEMMA OneMore ==
    ASSUME TypeOK, NEW o, given' = Listened(Handler, o), NEW n, n = Len(given)
    PROVE  /\ n \in Nat /\ Len(given') = n + 1
           /\ DOMAIN given = 1..n /\ DOMAIN given' = 1..(n + 1)
           /\ \A i \in 1..n : given'[i] = given[i] /\ ValueAt(i)' = ValueAt(i)
           /\ given'[n + 1].sent = input /\ given'[n + 1].outcome = o
           /\ ValueAt(n + 1)' = o.value
           /\ \A kinds : /\ Heard(kinds) \subseteq 1..n
                         /\ o.outcome \in kinds =>
                               (Heard(kinds)' = (Heard(kinds) \cup {n + 1}))
                         /\ o.outcome \notin kinds => (Heard(kinds)' = Heard(kinds))
<1> DEFINE g == [id |-> Handler.id, sent |-> input, outcome |-> o]
<1>1. PICK S : given \in Seq(S)
  BY DEF TypeOK
<1>2. given' = Append(given, g)
  BY DEF Listened
<1>3. g.sent = input /\ g.outcome = o
  OBVIOUS
<1> HIDE DEF g
<1>4. /\ n \in Nat /\ Len(given') = n + 1
      /\ DOMAIN given = 1..n /\ DOMAIN given' = 1..(n + 1)
      /\ \A i \in 1..n : given'[i] = given[i]
      /\ given'[n + 1] = g
  BY <1>1, <1>2
<1>5. /\ \A i \in 1..n : ValueAt(i)' = ValueAt(i)
      /\ ValueAt(n + 1)' = o.value
  BY <1>3, <1>4 DEF ValueAt
<1>6. ASSUME NEW kinds
      PROVE  /\ Heard(kinds) \subseteq 1..n
             /\ o.outcome \in kinds => (Heard(kinds)' = (Heard(kinds) \cup {n + 1}))
             /\ o.outcome \notin kinds => (Heard(kinds)' = Heard(kinds))
  <2>1. Heard(kinds)' = {i \in 1..(n + 1) : given'[i].outcome.outcome \in kinds}
    BY <1>4 DEF Heard
  <2>2. Heard(kinds) = {i \in 1..n : given[i].outcome.outcome \in kinds}
    BY <1>4 DEF Heard
  <2>3. \A i \in 1..n : given'[i].outcome.outcome = given[i].outcome.outcome
    BY <1>4
  <2>4. given'[n + 1].outcome.outcome = o.outcome
    BY <1>3, <1>4
  <2>5. 1..(n + 1) = (1..n) \cup {n + 1} /\ n + 1 \notin 1..n
    BY <1>4
  <2> QED
    BY <2>1, <2>2, <2>3, <2>4, <2>5
<1> QED
  BY <1>3, <1>4, <1>5, <1>6

\* Each fact about what is accumulated, when one more outcome is folded in.
LEMMA FoldAccum ==
    ASSUME TypeOK, AccumInv, phase = "run", NEW o,
           given' = Listened(Handler, o), Fold(Handler, o)
    PROVE  AccumInv'
<1>0. PICK n : n = Len(given)
  OBVIOUS
<1>1. PICK S : effects.contexts \in Seq(S)
  BY DEF AccumInv
<1>2. /\ n \in Nat /\ DOMAIN given = 1..n /\ DOMAIN given' = 1..(n + 1) /\ Len(given') = n + 1
      /\ \A i \in 1..n : given'[i] = given[i] /\ ValueAt(i)' = ValueAt(i)
      /\ given'[n + 1].sent = input /\ given'[n + 1].outcome = o
      /\ ValueAt(n + 1)' = o.value
  BY <1>0, OneMore
<1>10. \A kinds : /\ Heard(kinds) \subseteq 1..n
                  /\ o.outcome \in kinds => (Heard(kinds)' = (Heard(kinds) \cup {n + 1}))
                  /\ o.outcome \notin kinds => (Heard(kinds)' = Heard(kinds))
  BY <1>0, OneMore
<1>3. PassedOn'
  <2>1. \A i \in 1..n :
           /\ given'[i] = given[i] /\ ValueAt(i)' = ValueAt(i)
           /\ (i \in Heard({"modify-input"})') <=> (i \in Heard({"modify-input"}))
    <3>1. n + 1 \notin 1..n
      BY <1>2
    <3> QED
      BY <1>2, <1>10, <3>1
  <2>2. ASSUME NEW i \in 1..(n - 1)
        PROVE  given'[i + 1].sent = IF i \in Heard({"modify-input"})'
                                    THEN WithInput(given'[i].sent, ValueAt(i)') ELSE given'[i].sent
    <3>1. i \in 1..n /\ i + 1 \in 1..n
      BY <1>2
    <3>2. given[i + 1].sent = IF i \in Heard({"modify-input"})
                              THEN WithInput(given[i].sent, ValueAt(i)) ELSE given[i].sent
      BY <1>0 DEF AccumInv, Accumulated, PassedOn
    <3> QED
      BY <2>1, <3>1, <3>2
  <2>3. n # 0 => given'[n + 1].sent = IF n \in Heard({"modify-input"})'
                                      THEN WithInput(given'[n].sent, ValueAt(n)') ELSE given'[n].sent
    <3> SUFFICES ASSUME n # 0
                 PROVE  given'[n + 1].sent = IF n \in Heard({"modify-input"})'
                                             THEN WithInput(given'[n].sent, ValueAt(n)')
                                             ELSE given'[n].sent
      OBVIOUS
    <3>1. n \in 1..n /\ given # <<>>
      BY <1>2
    <3>2. input = IF n \in Heard({"modify-input"})
                  THEN WithInput(given[n].sent, ValueAt(n)) ELSE given[n].sent
      BY <1>0, <3>1 DEF AccumInv
    <3>3. given'[n + 1].sent = input
      BY <1>2
    <3> QED
      BY <2>1, <3>1, <3>2, <3>3
  <2>4. \A i \in 1..Len(given') - 1 : i \in 1..(n - 1) \/ (i = n /\ n # 0)
    BY <1>2
  <2> QED
    BY <2>2, <2>3, <2>4 DEF PassedOn
<1>4. ContextsKept'
  <2> DEFINE C == Heard({"context"})
  <2>1. C \in SUBSET (1..n)
    BY <1>10
  <2>2. /\ Len(effects.contexts) = Cardinality(C)
        /\ \A i \in C : effects.contexts[Cardinality({j \in C : j <= i})] = ValueAt(i)
    BY DEF AccumInv, Accumulated, ContextsKept
  <2>3. \A i \in C : ValueAt(i)' = ValueAt(i)
    BY <1>2, <2>1
  <2>4. CASE o.outcome = "context"
    <3>1. effects'.contexts = Append(effects.contexts, o.value)
      BY <2>4 DEF Fold, AccumInv
    <3>2. C' = C \cup {n + 1} /\ ValueAt(n + 1)' = o.value
      BY <1>2, <1>10, <2>4
    <3> HIDE DEF C
    <3>3. /\ Len(effects'.contexts) = Cardinality(C')
          /\ effects'.contexts[Cardinality(C')] = o.value
          /\ \A k \in 1..Cardinality(C) : effects'.contexts[k] = effects.contexts[k]
      <4>1. Cardinality(C) \in Nat /\ Cardinality(C') = Cardinality(C) + 1
        BY <1>2, <2>1, <3>2, Ranks
      <4>2. DOMAIN effects.contexts = 1..Cardinality(C) /\ Len(effects.contexts) = Cardinality(C)
        BY <1>1, <2>2
      <4>3. /\ Len(effects'.contexts) = Cardinality(C) + 1
            /\ effects'.contexts[Cardinality(C) + 1] = o.value
            /\ \A k \in 1..Cardinality(C) : effects'.contexts[k] = effects.contexts[k]
        BY <1>1, <3>1, <4>1, <4>2
      <4> QED
        BY <4>1, <4>3
    <3>4. ASSUME NEW i \in C'
          PROVE  effects'.contexts[Cardinality({j \in C' : j <= i})] = ValueAt(i)'
      <4>1. CASE i = n + 1
        <5>1. {j \in C' : j <= i} = C'
          BY <1>2, <2>1, <3>2, <4>1, Ranks
        <5> QED
          BY <3>2, <3>3, <4>1, <5>1
      <4>2. CASE i # n + 1
        <5>1. i \in C
          BY <3>2, <4>2
        <5>2. /\ {j \in C' : j <= i} = {j \in C : j <= i}
              /\ Cardinality({j \in C : j <= i}) \in 1..Cardinality(C)
          BY <1>2, <2>1, <3>2, <5>1, Ranks
        <5> QED
          BY <2>2, <2>3, <3>3, <5>1, <5>2
      <4> QED
        BY <4>1, <4>2
    <3> QED
      BY <3>2, <3>3, <3>4 DEF ContextsKept, C
  <2>5. CASE o.outcome # "context"
    <3>1. effects'.contexts = effects.contexts
      BY <2>5 DEF Fold, AccumInv
    <3>2. C' = C
      BY <1>10, <2>5
    <3> QED
      BY <2>2, <2>3, <3>1, <3>2 DEF ContextsKept
  <2> QED
    BY <2>4, <2>5
<1>5. LastReplacement'
  <2> DEFINE R == Heard({"modify-input"})
  <2>1. R \subseteq 1..n
    BY <1>10
  <2>2. CASE o.outcome = "modify-input"
    <3>1. effects'.input = o.value
      BY <2>2 DEF Fold, AccumInv
    <3>2. R' = R \cup {n + 1} /\ ValueAt(n + 1)' = o.value
      BY <1>2, <1>10, <2>2
    <3> HIDE DEF R
    <3>3. \A i \in R' : n + 1 <= i => i = n + 1
      BY <1>2, <2>1, <3>2
    <3>4. \A i \in R' : (\A j \in R' : j <= i) => i = n + 1
      BY <3>2, <3>3
    <3> QED
      BY <3>1, <3>2, <3>4 DEF LastReplacement, R
  <2>3. CASE o.outcome # "modify-input"
    <3>1. effects'.input = effects.input
      BY <2>3 DEF Fold, AccumInv
    <3>2. R' = R /\ \A i \in R : ValueAt(i)' = ValueAt(i)
      BY <1>2, <1>10, <2>1, <2>3
    <3> QED
      BY <3>1, <3>2 DEF AccumInv, Accumulated, LastReplacement
  <2> QED
    BY <2>2, <2>3
<1>6. DecisionEnds'
  <2> DEFINE D == Heard({"block", "ask"})
  <2>1. D = {} /\ effects.decision = None /\ effects.reason = None
    BY DEF AccumInv, Accumulated, DecisionEnds
  <2>2. CASE o.outcome \in {"block", "ask"}
    <3>1. /\ effects'.decision = o.outcome /\ effects'.reason = o.value
          /\ phase' = "done" /\ fault' = None
      BY <2>2 DEF Fold, Done, AccumInv
    <3>2. D' = {n + 1} /\ given'[n + 1].outcome = o /\ ValueAt(n + 1)' = o.value
      BY <1>2, <1>10, <2>1, <2>2
    <3> QED
      BY <1>2, <3>1, <3>2 DEF DecisionEnds
  <2>3. CASE o.outcome \notin {"block", "ask"}
    <3>1. effects'.decision = effects.decision /\ effects'.reason = effects.reason
      BY <2>3 DEF Fold, AccumInv
    <3>2. D' = {}
      BY <1>10, <2>1, <2>3
    <3> QED
      BY <2>1, <3>1, <3>2 DEF DecisionEnds
  <2> QED
    BY <2>2, <2>3
<1>7. /\ {"contexts", "input", "decision", "reason"} \subseteq DOMAIN effects'
      /\ \E T : effects'.contexts \in Seq(T)
  <2>1. Append(effects.contexts, o.value) \in Seq(S \cup {o.value}) /\ effects.contexts \in Seq(S)
    BY <1>1
  <2>2. /\ DOMAIN effects' = DOMAIN effects
        /\ effects'.contexts \in {effects.contexts, Append(effects.contexts, o.value)}
    BY DEF Fold, AccumInv
  <2> QED
    BY <2>1, <2>2 DEF AccumInv
<1>11. phase' # "done" => fault' = None
  BY DEF Fold, Fail, Done, AccumInv
<1>8. phase' = "run" =>
        input' = IF n + 1 \in Heard({"modify-input"})'
                 THEN WithInput(given'[n + 1].sent, ValueAt(n + 1)')
                 ELSE given'[n + 1].sent
  <2>1. n + 1 \in Heard({"modify-input"})' <=> o.outcome = "modify-input"
    <3>1. n + 1 \notin Heard({"modify-input"})
      BY <1>2, <1>10
    <3> QED
      BY <1>10, <3>1
  <2>2. /\ o.outcome = "modify-input" => (input' = WithInput(input, o.value))
        /\ o.outcome # "modify-input" => (input' = input)
    BY DEF Fold
  <2> QED
    BY <1>2, <2>1, <2>2
<1>9. (phase = "run" /\ given # <<>> =>
         input = IF Len(given) \in Heard({"modify-input"})
                 THEN WithInput(given[Len(given)].sent, ValueAt(Len(given)))
                 ELSE given[Len(given)].sent)'
  BY <1>2, <1>8 DEF ValueAt
<1> QED
  BY <1>3, <1>4, <1>5, <1>6, <1>7, <1>9, <1>11 DEF AccumInv, Accumulated

\* Nothing is heard of a handler but by Finish, nor after the answer.
LEMMA NextAccum == IInv /\ Told /\ AccumInv /\ [Next]_vars => AccumInv'
<1> SUFFICES ASSUME IInv, Told, AccumInv, [Next]_vars PROVE AccumInv'
  OBVIOUS
<1>1. CASE ReadInput
  <2>1. phase = "call" /\ given = <<>>
    BY <1>1 DEF ReadInput, IInv, Ordered
  <2> QED
    BY <1>1, <2>1, SilentAccum DEF ReadInput, Fail, Done
<1>2. CASE StdinTimeout \/ SpawnFails \/ Complete \/ PassOver \/ Start
  BY <1>2, SilentAccum DEF StdinTimeout, SpawnFails, Complete, PassOver, Start, Fail, Done
<1>3. CASE Writes \/ WritesError \/ LeaderExits \/ NoticeExit \/ Timeout \/ Tick
  <2>1. /\ phase # "done" /\ UNCHANGED <<input, effects, given>>
        /\ phase' = "run" => phase = "run"
        /\ phase' # "done" => UNCHANGED fault
    <3>1. CASE Writes \/ WritesError \/ Timeout
      <4>1. child # NoChild /\ UNCHANGED <<input, effects, given>>
        BY <3>1, Zenon DEF Writes, WritesError, Timeout
      <4>2. (\E code : Settle(code)) \/ UNCHANGED fault
        BY <3>1, Zenon DEF Writes, WritesError, Timeout
      <4>3. phase' # "done" => UNCHANGED fault
        BY <4>2 DEF Settle, Fail, Done
      <4> QED
        BY <4>1, <4>3 DEF IInv, Timely
    <3>2. CASE LeaderExits \/ NoticeExit \/ Tick
      BY <3>2 DEF LeaderExits, NoticeExit, Tick, IInv, Timely
    <3> QED
      BY <1>3, <3>1, <3>2
  <2> QED
    BY <2>1, SilentAccum
<1>4. CASE Finish
  <2>1. phase = "run"
    BY <1>4 DEF Finish, IInv, Timely
  <2>2. CASE \E code : Settle(code) /\ UNCHANGED <<input, effects, given>>
    BY <2>1, <2>2, SilentAccum DEF Settle, Fail, Done
  <2>3. CASE given' = Listened(Handler, child.reply) /\ Fold(Handler, child.reply)
    BY <2>1, <2>3, FoldAccum DEF IInv
  <2> QED
    BY <1>4, <2>2, <2>3 DEF Finish
<1>5. CASE UNCHANGED vars
  BY <1>5, SilentAccum DEF vars
<1> QED
  BY <1>1, <1>2, <1>3, <1>4, <1>5 DEF Next

\* What is accumulated, and so what the host is told of a run that ends well, is
\* what the handlers said: each was sent the request as the ones before it left
\* it, every context is kept at its place, the replacement is the last one, and
\* a decision is the last thing heard (run of runner.mts, its switch over the
\* outcomes; hook-protocol.md:69-85).
THEOREM AlwaysAccumulated == Spec => []Accumulated
<1>1. Init => Told /\ AccumInv
  <2>1. Init => Told
    BY DEF Init, Told, AllOrNothing, NoEffects
  <2>2. ASSUME Init PROVE AccumInv
    <3>1. given = <<>> /\ effects = NoEffects /\ phase = "call"
      BY <2>2 DEF Init
    <3>2. \A kinds : Heard(kinds) = {}
      BY <3>1 DEF Heard
    <3>3. Cardinality({}) = 0
      BY FS_EmptySet
    <3>4. effects.contexts \in Seq({})
      BY <3>1 DEF NoEffects
    <3>5. Accumulated
      <4>1. PassedOn
        BY <3>1 DEF PassedOn
      <4>2. ContextsKept
        BY <3>1, <3>2, <3>3 DEF NoEffects, ContextsKept
      <4>3. LastReplacement /\ DecisionEnds
        BY <3>1, <3>2 DEF NoEffects, LastReplacement, DecisionEnds
      <4> QED
        BY <4>1, <4>2, <4>3 DEF Accumulated
    <3>6. {"contexts", "input", "decision", "reason"} \subseteq DOMAIN effects
      BY <3>1 DEF NoEffects
    <3>7. fault = None
      BY <2>2 DEF Init
    <3> QED
      BY <3>1, <3>4, <3>5, <3>6, <3>7 DEF AccumInv
  <2> QED
    BY <2>1, <2>2
<1>2. AccumInv => Accumulated
  BY DEF AccumInv
<1> QED
  BY <1>1, <1>2, InitIInv, NextIInv, NextTold, NextAccum, PTL DEF Spec
=============================================================================
