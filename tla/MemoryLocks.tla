------------------------------ MODULE MemoryLocks ------------------------------
(***************************************************************************)
(* MemoryStore::lock() and release(): a set of held names under a mutex,   *)
(* and one condition variable for the waiters of every name.               *)
(***************************************************************************)
CONSTANTS Threads, Names, NoName

ASSUME NoNameAssumption == NoName \notin Names

VARIABLES
    held,   \* the names that are locked
    stage,     \* the next step of each thread
    name    \* the lock each thread wants, holds or gives back

lockVars == <<held, stage, name>>

LocksInit ==
    /\ held = {}
    /\ stage = [t \in Threads |-> "idle"]
    /\ name = [t \in Threads |-> NoName]

Turn(t, s) == stage' = [stage EXCEPT ![t] = s]

Call(t) ==
    /\ stage[t] = "idle"
    /\ \E n \in Names : name' = [name EXCEPT ![t] = n]
    /\ Turn(t, "try")
    /\ UNCHANGED held

\* The condition of the loop and what follows it, under the mutex; waiting
\* gives the mutex up and goes to sleep in one step.
Try(t) ==
    /\ stage[t] = "try"
    /\ IF name[t] \in held
         THEN Turn(t, "asleep") /\ UNCHANGED held
         ELSE Turn(t, "holds") /\ held' = held \cup {name[t]}
    /\ UNCHANGED name

WakeAndTake(t) ==
    /\ stage[t] = "asleep"
    /\ Turn(t, "holds")
    /\ held' = held \cup {name[t]}
    /\ UNCHANGED name

\* wait_timeout() may also return by itself or because the time is over.
Wake(t) ==
    /\ stage[t] = "asleep"
    /\ Turn(t, "try")
    /\ UNCHANGED <<held, name>>

\* No time remains: StoreError::Busy.
Busy(t) ==
    /\ stage[t] = "try" /\ name[t] \in held
    /\ Turn(t, "idle")
    /\ name' = [name EXCEPT ![t] = NoName]
    /\ UNCHANGED held

Release(t) ==
    /\ stage[t] = "holds"
    /\ held' = held \ {name[t]}
    /\ Turn(t, "notify")
    /\ UNCHANGED name

NotifyOne(t) ==
    /\ stage[t] = "notify"
    /\ \/ \E u \in Threads :
             /\ stage[u] = "asleep"
             /\ stage' = [stage EXCEPT ![t] = "idle", ![u] = "try"]
       \/ (\A u \in Threads : stage[u] # "asleep") /\ Turn(t, "idle")
    /\ name' = [name EXCEPT ![t] = NoName]
    /\ UNCHANGED held

\* notify_all()
Notify(t) ==
    /\ stage[t] = "notify"
    /\ stage' = [u \in Threads |-> IF u = t THEN "idle"
                                ELSE IF stage[u] = "asleep" THEN "try" ELSE stage[u]]
    /\ name' = [name EXCEPT ![t] = NoName]
    /\ UNCHANGED held

LocksStep(t) ==
    Call(t) \/ Try(t) \/ Wake(t) \/ Busy(t) \/ Release(t) \/ Notify(t)

LocksNext == \E t \in Threads : LocksStep(t)

LocksSpec == LocksInit /\ [][LocksNext]_lockVars

----------------------------------------------------------------------------
LocksTypeOK ==
    /\ held \subseteq Names
    /\ stage \in [Threads -> {"idle", "try", "asleep", "holds", "notify"}]
    /\ name \in [Threads -> Names \cup {NoName}]
    /\ \A t \in Threads : (name[t] = NoName) <=> (stage[t] = "idle")

\* "A held lock excludes every other handle": also a thread that was woken by
\* the release of a lock that a third thread has taken since.
Exclusive ==
    \A t, u \in Threads :
        stage[t] = "holds" /\ stage[u] = "holds" /\ name[t] = name[u] => t = u

\* No lock is left behind: a name is locked only while some thread holds it.
HeldByOne == \A n \in held : \E t \in Threads : stage[t] = "holds" /\ name[t] = n

\* No thread sleeps on a free lock with nobody left to wake it: one condition
\* variable serves all names, so a wake-up must not be spent on the waiter of
\* another name.
NotStranded ==
    \A t \in Threads : stage[t] = "asleep" /\ name[t] \notin held =>
        \E u \in Threads : stage[u] = "notify"
=============================================================================
