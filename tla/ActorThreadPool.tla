--------------------------- MODULE ActorThreadPool ---------------------------
(***************************************************************************)
(* The thread pool of the reactor server.  The selector thread submits a   *)
(* task per chunk of bytes read for an actor (the connection handler); the *)
(* pool must run the tasks of one actor one after the other while tasks of *)
(* different actors share the worker threads.  Every statement of submit   *)
(* and complete is a step of the thread that runs it, so the Java monitor  *)
(* of the actor (synchronized (act)) is part of the model and is what the  *)
(* properties rest on.                                                     *)
(***************************************************************************)
EXTENDS Naturals, Sequences

CONSTANTS Actor,      \* the objects tasks are submitted for
          Submitter,  \* threads that call submit (the selector thread)
          Worker,     \* the threads of the fixed thread pool
          Nobody,     \* neither a thread nor an actor
          MaxTasks    \* bound: tasks submitted per actor

ASSUME PoolAssumption ==
    /\ Submitter \cap Worker = {}
    /\ Nobody \notin Submitter \cup Worker \cup Actor
    /\ MaxTasks \in Nat

Thread == Submitter \cup Worker

Task == [act : Actor, n : 1..MaxTasks]

NoTask == [act |-> Nobody, n |-> 0]

VARIABLES playingNow, \* actors with a task that is queued or running
          acts,       \* acts[a]: the runnables waiting for a's turn
          threads,    \* the work queue of the ExecutorService
          down,       \* shutdownNow was called
          monitor,    \* monitor[a]: the thread inside synchronized (a)
          pc,         \* the statement each thread is at
          job,        \* the runnable each thread is submitting or running
          submitted,  \* history: submitted[a] numbers the tasks of a
          begun       \* history: the number of the last task of a that began

vars == <<playingNow, acts, threads, down, monitor, pc, job, submitted, begun>>

Init ==
    /\ playingNow = {}
    /\ acts      = [a \in Actor |-> <<>>]
    /\ threads   = <<>>
    /\ down      = FALSE
    /\ monitor   = [a \in Actor |-> Nobody]
    /\ pc        = [t \in Thread |-> "idle"]
    /\ job       = [t \in Thread |-> NoTask]
    /\ submitted = [a \in Actor |-> 0]
    /\ begun     = [a \in Actor |-> 0]

Goto(t, from, to) ==
    /\ pc[t] = from
    /\ pc' = [pc EXCEPT ![t] = to]

-----------------------------------------------------------------------------
(* submit(act, r): the calling thread enters the actor's monitor, ...      *)
Submit(t, a) ==
    /\ submitted[a] < MaxTasks
    /\ monitor[a] = Nobody
    /\ Goto(t, "idle", "test")
    /\ monitor'   = [monitor EXCEPT ![a] = t]
    /\ job'       = [job EXCEPT ![t] = [act |-> a, n |-> submitted[a] + 1]]
    /\ submitted' = [submitted EXCEPT ![a] = @ + 1]
    /\ UNCHANGED <<playingNow, acts, threads, down, begun>>

MutantTest(t) ==
    /\ Goto(t, "test", "mark")
    /\ UNCHANGED <<playingNow, acts, threads, down, monitor, job, submitted, begun>>

(* ... looks whether a task of the actor is already queued or running,     *)
Test(t) ==
    /\ Goto(t, "test", IF job[t].act \in playingNow THEN "defer" ELSE "mark")
    /\ UNCHANGED <<playingNow, acts, threads, down, monitor, job, submitted, begun>>

Mark(t) ==
    /\ Goto(t, "mark", "execute")
    /\ playingNow' = playingNow \cup {job[t].act}
    /\ UNCHANGED <<acts, threads, down, monitor, job, submitted, begun>>

MutantDefer(t) ==
    /\ Goto(t, "defer", "exit")
    /\ acts' = [acts EXCEPT ![job[t].act] = <<job[t]>> \o @]
    /\ UNCHANGED <<playingNow, threads, down, monitor, job, submitted, begun>>

(* ... and if so leaves the task in the actor's own queue.                 *)
Defer(t) ==
    /\ Goto(t, "defer", "exit")
    /\ acts' = [acts EXCEPT ![job[t].act] = Append(@, job[t])]
    /\ UNCHANGED <<playingNow, threads, down, monitor, job, submitted, begun>>

(* execute(r, act), from submit and from complete: the task joins the work *)
(* queue; after shutdownNow the executor rejects it with an exception.     *)
Execute(t) ==
    /\ Goto(t, "execute", "exit")
    /\ threads' = IF down THEN threads ELSE Append(threads, job[t])
    /\ UNCHANGED <<playingNow, acts, down, monitor, job, submitted, begun>>

Exit(t) ==
    /\ Goto(t, "exit", "idle")
    /\ monitor' = [monitor EXCEPT ![job[t].act] = Nobody]
    /\ job'     = [job EXCEPT ![t] = NoTask]
    /\ UNCHANGED <<playingNow, acts, threads, down, submitted, begun>>

-----------------------------------------------------------------------------
(* A worker thread takes the next task, runs it, and in the finally clause *)
(* (whether the task returned or threw) calls complete(act).               *)
Take(t) ==
    /\ threads # <<>>
    /\ Goto(t, "idle", "run")
    /\ job'     = [job EXCEPT ![t] = Head(threads)]
    /\ threads' = Tail(threads)
    /\ begun'   = [begun EXCEPT ![Head(threads).act] = Head(threads).n]
    /\ UNCHANGED <<playingNow, acts, down, monitor, submitted>>

Return(t) ==
    /\ Goto(t, "run", "complete")
    /\ UNCHANGED <<playingNow, acts, threads, down, monitor, job, submitted, begun>>

Complete(t) ==
    /\ Goto(t, "complete", "poll")
    /\ monitor[job[t].act] = Nobody
    /\ monitor' = [monitor EXCEPT ![job[t].act] = t]
    /\ UNCHANGED <<playingNow, acts, threads, down, job, submitted, begun>>

MutantNoEmptyTest(t) ==
    LET a == job[t].act
    IN  /\ Goto(t, "poll", "execute")
        /\ job'  = [job EXCEPT ![t] = IF acts[a] = <<>> THEN NoTask ELSE Head(acts[a])]
        /\ acts' = [acts EXCEPT ![a] = IF @ = <<>> THEN @ ELSE Tail(@)]
        /\ UNCHANGED <<playingNow, threads, down, monitor, submitted, begun>>

MutantNoPoll(t) ==
    /\ Goto(t, "poll", "unmark")
    /\ UNCHANGED <<playingNow, acts, threads, down, monitor, job, submitted, begun>>

(* complete takes the actor's next waiting task, or finds none.            *)
Poll(t) ==
    LET a == job[t].act
    IN  /\ Goto(t, "poll", IF acts[a] = <<>> THEN "unmark" ELSE "execute")
        /\ job'  = IF acts[a] = <<>> THEN job ELSE [job EXCEPT ![t] = Head(acts[a])]
        /\ acts' = IF acts[a] = <<>> THEN acts ELSE [acts EXCEPT ![a] = Tail(@)]
        /\ UNCHANGED <<playingNow, threads, down, monitor, submitted, begun>>

Unmark(t) ==
    /\ Goto(t, "unmark", "exit")
    /\ playingNow' = playingNow \ {job[t].act}
    /\ UNCHANGED <<acts, threads, down, monitor, job, submitted, begun>>

(* shutdown(): shutdownNow discards what the work queue still holds.       *)
Shutdown ==
    /\ ~down
    /\ down' = TRUE
    /\ threads' = <<>>
    /\ UNCHANGED <<playingNow, acts, monitor, pc, job, submitted, begun>>

SubmitStep(t) == Test(t) \/ Mark(t) \/ Defer(t)

WorkerStep(t) == Take(t) \/ Return(t) \/ Complete(t) \/ Poll(t) \/ Unmark(t)

Next ==
    \/ \E t \in Submitter : (\E a \in Actor : Submit(t, a)) \/ SubmitStep(t)
    \/ \E t \in Worker : WorkerStep(t)
    \/ \E t \in Thread : Execute(t) \/ Exit(t)
    \/ Shutdown

(* Threads that can run are eventually scheduled and tasks end (process    *)
(* returns or throws).  Nothing obliges clients to send or the server to   *)
(* stop, so Submit and Shutdown carry no fairness.                         *)
Fairness ==
    /\ \A t \in Submitter : WF_vars(SubmitStep(t))
    /\ \A t \in Worker : WF_vars(WorkerStep(t))
    /\ \A t \in Thread : WF_vars(Execute(t) \/ Exit(t))

Spec == Init /\ [][Next]_vars /\ Fairness

-----------------------------------------------------------------------------
Inside == {"test", "mark", "defer", "execute", "exit", "poll", "unmark"}

(* The values the pool's state ranges over.  A task's number lies between  *)
(* 1 and the number of tasks submitted for its actor.                      *)
TypeOK ==
    /\ playingNow \subseteq Actor
    /\ acts \in [Actor -> Seq(Task)]
    /\ threads \in Seq(Task)
    /\ down \in BOOLEAN
    /\ monitor \in [Actor -> Thread \cup {Nobody}]
    /\ pc \in [Thread -> Inside \cup {"idle", "run", "complete"}]
    /\ job \in [Thread -> Task \cup {NoTask}]
    /\ submitted \in [Actor -> 0..MaxTasks]
    /\ begun \in [Actor -> 0..MaxTasks]

(* Two workers never run tasks of the same actor at the same time: the     *)
(* protocol object and the frame decoder of a connection have no lock of   *)
(* their own and rely on it (StompNonBlockingConnectionHandler).           *)
OneTaskPerActor ==
    \A t, u \in Worker :
        pc[t] = "run" /\ pc[u] = "run" /\ job[t].act = job[u].act => t = u

(* A thread still responsible for actor a: it runs a task of a or is about *)
(* to queue one or to look for one.                                        *)
Carries(t, a) ==
    job[t].act = a /\ pc[t] \in {"execute", "run", "complete", "poll"}

Queued(a) == \E i \in 1..Len(threads) : threads[i].act = a

(* A task that waits in an actor's own queue is never stranded: unless the *)
(* pool was shut down, some thread or the work queue still holds a task of *)
(* that actor, whose completion will poll the queue.                       *)
NoStrandedTask ==
    \A a \in Actor :
        acts[a] # <<>> /\ ~down => Queued(a) \/ \E t \in Thread : Carries(t, a)

-----------------------------------------------------------------------------
Serial == INSTANCE SerialExecutor WITH
    running <- [a \in Actor |-> \E t \in Worker : pc[t] = "run" /\ job[t].act = a]

(* The pool implements the serial executor: per actor, tasks begin in the  *)
(* order of submission, one at a time, and as long as the pool is up every *)
(* submitted task begins and ends.                                         *)
ImplementsSerial == Serial!Spec
=============================================================================
