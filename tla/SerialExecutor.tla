--------------------------- MODULE SerialExecutor ---------------------------
(***************************************************************************)
(* What the actor thread pool of the reactor server promises: the tasks    *)
(* submitted for one actor (one client's connection handler) begin in the  *)
(* order they were submitted, one at a time, none skipped and none twice,  *)
(* until the pool is shut down.  Tasks of an actor are numbered from 1 in  *)
(* the order of their submission, so three counters say it all.            *)
(***************************************************************************)
EXTENDS Naturals

CONSTANTS Actor,      \* the connection handlers that tasks are submitted for
          MaxTasks    \* bound: tasks submitted per actor

VARIABLES submitted,  \* submitted[a]: how many tasks of a were submitted
          begun,      \* begun[a]: how many of them have begun
          running,    \* running[a]: the last one that began has not ended
          down        \* the pool was shut down

vars == <<submitted, begun, running, down>>

Init ==
    /\ submitted = [a \in Actor |-> 0]
    /\ begun     = [a \in Actor |-> 0]
    /\ running   = [a \in Actor |-> FALSE]
    /\ down      = FALSE

Submit(a) ==
    /\ submitted[a] < MaxTasks
    /\ submitted' = [submitted EXCEPT ![a] = @ + 1]
    /\ UNCHANGED <<begun, running, down>>

Begin(a) ==
    /\ ~down
    /\ ~running[a]
    /\ begun[a] < submitted[a]
    /\ begun'   = [begun EXCEPT ![a] = @ + 1]
    /\ running' = [running EXCEPT ![a] = TRUE]
    /\ UNCHANGED <<submitted, down>>

End(a) ==
    /\ running[a]
    /\ running' = [running EXCEPT ![a] = FALSE]
    /\ UNCHANGED <<submitted, begun, down>>

Shutdown ==
    /\ ~down
    /\ down' = TRUE
    /\ UNCHANGED <<submitted, begun, running>>

Next == Shutdown \/ \E a \in Actor : Submit(a) \/ Begin(a) \/ End(a)

Safety == Init /\ [][Next]_vars

(* Every task begins unless the pool goes down first, and ends.            *)
Progress ==
    \A a \in Actor :
        /\ \A k \in 1..MaxTasks : submitted[a] >= k ~> begun[a] >= k \/ down
        /\ running[a] ~> ~running[a]

Spec == Safety /\ Progress
=============================================================================
