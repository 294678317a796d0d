---------------------------- MODULE CompareAndSet ----------------------------
(***************************************************************************)
(* What a state store promises: each call takes effect in one step between *)
(* its invocation and its return, a write or delete only when the value is *)
(* the expected one; an answer "done" is durable; a call that fails, or    *)
(* whose process dies, has taken effect or has not.                        *)
(***************************************************************************)
CONSTANTS
    Callers,      \* callers
    Keys,       \* keys of records
    Values,     \* values of records
    Absent,     \* the key has no value
    Nobody        \* no call, no answer yet

VARIABLES
    value,      \* the value of each key
    survivors,  \* for each key, the values that a loss of power may leave
    call,       \* the call each process has made
    took        \* the processes whose call has changed its key

avars == <<value, survivors, call, took>>

Requests ==
    [op : {"read"}, key : Keys, expected : {Absent}, new : {Absent},
     answer : {Nobody}]
    \cup [op : {"write"}, key : Keys, expected : Values \cup {Absent},
          new : Values, answer : {Nobody}]
    \cup [op : {"delete"}, key : Keys, expected : Values, new : {Absent},
          answer : {Nobody}]

AInit ==
    /\ value = [k \in Keys |-> Absent]
    /\ survivors = [k \in Keys |-> {Absent}]
    /\ call = [p \in Callers |-> Nobody]
    /\ took = {}

AInvoke(p) ==
    /\ call[p] = Nobody
    /\ \E c \in Requests : call' = [call EXCEPT ![p] = c]
    /\ UNCHANGED <<value, survivors, took>>

Open(p) == call[p] # Nobody /\ call[p].answer = Nobody

AAnswer(p, a) == call' = [call EXCEPT ![p].answer = a]

ARead(p) ==
    /\ Open(p) /\ call[p].op = "read"
    /\ AAnswer(p, value[call[p].key])
    /\ UNCHANGED <<value, survivors, took>>

ARefuse(p) ==
    /\ Open(p) /\ call[p].op # "read" /\ p \notin took
    /\ value[call[p].key] # call[p].expected
    /\ AAnswer(p, "refused")
    /\ UNCHANGED <<value, survivors, took>>

AChange(p) ==
    /\ Open(p) /\ call[p].op # "read" /\ p \notin took
    /\ value[call[p].key] = call[p].expected
    /\ value' = [value EXCEPT ![call[p].key] = call[p].new]
    /\ survivors' = [survivors EXCEPT ![call[p].key] = @ \cup {call[p].new}]
    /\ took' = took \cup {p}
    /\ UNCHANGED call

\* "atomic and durable once the call returns"
AConfirm(p) ==
    /\ Open(p) /\ p \in took
    /\ AAnswer(p, "done")
    /\ survivors' = [k \in Keys |-> {value[k]}]
    /\ took' = took \ {p}
    /\ UNCHANGED value

AFail(p) ==
    /\ Open(p)
    /\ AAnswer(p, "error")
    /\ took' = took \ {p}
    /\ UNCHANGED <<value, survivors>>

\* The call returns, or its process dies with it.
AEnd(p) ==
    /\ call[p] # Nobody
    /\ call' = [call EXCEPT ![p] = Nobody]
    /\ took' = took \ {p}
    /\ UNCHANGED <<value, survivors>>

APowerLoss ==
    /\ value' \in [Keys -> Values \cup {Absent}]
    /\ \A k \in Keys : value'[k] \in survivors[k]
    /\ survivors' = [k \in Keys |-> {value'[k]}]
    /\ call' = [p \in Callers |-> Nobody]
    /\ took' = {}

ANext ==
    \/ \E p \in Callers : \/ AInvoke(p) \/ ARead(p) \/ ARefuse(p) \/ AChange(p)
                        \/ AConfirm(p) \/ AFail(p) \/ AEnd(p)
    \/ APowerLoss

ASpec == AInit /\ [][ANext]_avars
=============================================================================
