------------------------ MODULE ActorThreadPoolProofs ------------------------
(***************************************************************************)
(* For any set of actors, submitting threads, workers and tasks: tasks of  *)
(* one actor never run at the same time, and no waiting task is forgotten. *)
(*                                                                         *)
(* An actor in playingNow has exactly one token: an entry of the work      *)
(* queue, or a thread between marking (or taking) and unmarking.  That it  *)
(* is unique rests on the monitor, because the test of playingNow and the  *)
(* marking are separate steps.                                             *)
(***************************************************************************)
EXTENDS ActorThreadPool, Integers, TLAPS

(* The statements at which a thread holds the token of its job's actor.    *)
Holding == {"execute", "run", "complete", "poll", "unmark"}

JobOK == \A t \in Thread : pc[t] = "idle" <=> job[t] = NoTask

ActsOK == \A a \in Actor : \A i \in 1..Len(acts[a]) : acts[a][i].act = a

MonitorOK == \A t \in Thread : pc[t] \in Inside => monitor[job[t].act] = t

(* At most one token per actor.                                            *)
TokenOK ==
    /\ \A t, u \in Thread : pc[t] \in Holding /\ pc[u] \in Holding /\ job[t].act = job[u].act => t = u
    /\ \A t \in Thread : pc[t] \in Holding => \A i \in 1..Len(threads) : threads[i].act # job[t].act
    /\ \A i, j \in 1..Len(threads) : threads[i].act = threads[j].act => i = j

(* playingNow covers the tokens, and what a thread inside the monitor has  *)
(* read of it is still so.                                                 *)
PlayingOK ==
    /\ \A t \in Thread : pc[t] \in Holding => job[t].act \in playingNow
    /\ \A i \in 1..Len(threads) : threads[i].act \in playingNow
    /\ \A t \in Thread : pc[t] = "mark" => job[t].act \notin playingNow
    /\ \A t \in Thread : pc[t] = "defer" => job[t].act \in playingNow

(* Tasks wait only for actors that play, and none when one is unmarked.    *)
WaitingOK ==
    /\ \A a \in Actor : acts[a] # <<>> => a \in playingNow
    /\ \A t \in Thread : pc[t] = "unmark" => acts[job[t].act] = <<>>

(* Every playing actor has a token while the pool is up.                   *)
InQueue(a)  == \E i \in 1..Len(threads) : threads[i].act = a
InThread(a) == \E t \in Thread : pc[t] \in Holding /\ job[t].act = a

AliveOK == \A a \in playingNow : down \/ InQueue(a) \/ InThread(a)

IInv == TypeOK /\ JobOK /\ ActsOK /\ MonitorOK /\ TokenOK /\ PlayingOK /\ WaitingOK /\ AliveOK

-----------------------------------------------------------------------------
(* A thread that is not idle has a task.                                   *)
LEMMA BusyHasTask ==
    ASSUME TypeOK, JobOK, NEW t \in Thread, pc[t] # "idle"
    PROVE  job[t] \in Task
BY DEF TypeOK, JobOK

(* What a task is does not matter to the provers, only that NoTask is none. *)
LEMMA NoTaskNotTask == NoTask \notin Task
BY DEF NoTask, Task

LEMMA TaskActs == \A j \in Task : j.act \in Actor /\ j.n \in 1..MaxTasks
BY DEF Task

(* The invariant holds initially.                                          *)
LEMMA InitIInv == Init => IInv
<1> SUFFICES ASSUME Init PROVE IInv
  OBVIOUS
<1>1. <<>> \in Seq(Task) /\ Len(<<>>) = 0
  OBVIOUS
<1>2. TypeOK
  <2>1. acts \in [Actor -> Seq(Task)] /\ threads \in Seq(Task)
    BY <1>1 DEF Init
  <2>2. monitor \in [Actor -> Thread \cup {Nobody}]
    BY DEF Init
  <2>3. pc \in [Thread -> Inside \cup {"idle", "run", "complete"}]
    BY DEF Init
  <2>4. job \in [Thread -> Task \cup {NoTask}]
    BY DEF Init
  <2>5. submitted \in [Actor -> 0..MaxTasks] /\ begun \in [Actor -> 0..MaxTasks]
    BY PoolAssumption DEF Init
  <2>6. playingNow \subseteq Actor /\ down \in BOOLEAN
    BY DEF Init
  <2> QED BY <2>1, <2>2, <2>3, <2>4, <2>5, <2>6 DEF TypeOK
<1>3. JobOK /\ MonitorOK
  BY DEF Init, JobOK, MonitorOK, Inside
<1>4. ActsOK
  BY <1>1 DEF Init, ActsOK
<1>5. TokenOK
  BY <1>1 DEF Init, TokenOK, Holding
<1>6. PlayingOK /\ WaitingOK /\ AliveOK
  BY <1>1 DEF Init, PlayingOK, WaitingOK, AliveOK, Holding
<1> QED BY <1>2, <1>3, <1>4, <1>5, <1>6 DEF IInv

(* A step that leaves the work queue alone and takes no token away.        *)
LEMMA TokenKept ==
    ASSUME AliveOK, UNCHANGED <<playingNow, threads, down>>,
           \A u \in Thread : pc[u] \in Holding => pc'[u] \in Holding /\ job'[u].act = job[u].act
    PROVE  AliveOK'
<1> SUFFICES ASSUME NEW a \in playingNow, ~down
             PROVE  InQueue(a)' \/ InThread(a)'
  BY DEF AliveOK
<1>1. CASE InQueue(a)
  BY <1>1 DEF InQueue
<1>2. CASE InThread(a)
  BY <1>2 DEF InThread
<1> QED BY <1>1, <1>2 DEF AliveOK

LEMMA SubmitKeeps ==
    ASSUME IInv, NEW t \in Thread, NEW a \in Actor, Submit(t, a)
    PROVE  IInv'
<1>a. submitted[a] + 1 \in 1..MaxTasks /\ [act |-> a, n |-> submitted[a] + 1] \in Task
  BY PoolAssumption DEF IInv, TypeOK, Submit, Task
<1>1. TypeOK'
  BY <1>a DEF IInv, TypeOK, Submit, Goto, Inside
<1>2. JobOK'
  BY <1>a, NoTaskNotTask DEF IInv, TypeOK, JobOK, Submit, Goto
<1>3. ActsOK'
  BY DEF IInv, ActsOK, Submit
<1>4. MonitorOK'
  BY PoolAssumption DEF IInv, TypeOK, MonitorOK, Submit, Goto, Thread
<1>5. TokenOK'
  BY DEF IInv, TokenOK, Submit, Goto, Holding
<1>6. PlayingOK'
  BY DEF IInv, PlayingOK, Submit, Goto, Holding
<1>7. WaitingOK'
  BY DEF IInv, WaitingOK, Submit, Goto
<1>8. AliveOK'
  <2>1. \A u \in Thread : pc[u] \in Holding => pc'[u] \in Holding /\ job'[u].act = job[u].act
    BY DEF Submit, Goto, Holding
  <2> QED BY <2>1, TokenKept DEF IInv, Submit
<1> QED BY <1>1, <1>2, <1>3, <1>4, <1>5, <1>6, <1>7, <1>8 DEF IInv

LEMMA TestKeeps ==
    ASSUME IInv, NEW t \in Thread, Test(t)
    PROVE  IInv'
<1>a. job[t] \in Task
  BY BusyHasTask DEF IInv, Test, Goto
<1>1. TypeOK'
  BY DEF IInv, TypeOK, Test, Goto, Inside
<1>2. JobOK'
  BY DEF IInv, JobOK, Test, Goto
<1>3. ActsOK'
  BY DEF IInv, ActsOK, Test
<1>4. MonitorOK'
  BY DEF IInv, TypeOK, MonitorOK, Test, Goto
<1>5. TokenOK'
  BY DEF IInv, TokenOK, Test, Goto, Holding
<1>6. PlayingOK'
  BY DEF IInv, PlayingOK, Test, Goto, Holding
<1>7. WaitingOK'
  BY DEF IInv, WaitingOK, Test, Goto
<1>8. AliveOK'
  <2>1. \A u \in Thread : pc[u] \in Holding => pc'[u] \in Holding /\ job'[u].act = job[u].act
    BY DEF Test, Goto, Holding
  <2> QED BY <2>1, TokenKept DEF IInv, Test
<1> QED BY <1>1, <1>2, <1>3, <1>4, <1>5, <1>6, <1>7, <1>8 DEF IInv

LEMMA MarkKeeps ==
    ASSUME IInv, NEW t \in Thread, Mark(t)
    PROVE  IInv'
<1>a. job[t] \in Task
  BY BusyHasTask DEF IInv, Mark, Goto
<1>1. TypeOK'
  BY <1>a, TaskActs DEF IInv, TypeOK, Mark, Goto, Inside
<1>2. JobOK'
  BY DEF IInv, JobOK, Mark, Goto
<1>3. ActsOK'
  BY DEF IInv, ActsOK, Mark
<1>4. MonitorOK'
  BY DEF IInv, TypeOK, MonitorOK, Mark, Goto
<1>5. TokenOK'
  BY DEF IInv, TokenOK, Mark, Goto, PlayingOK
<1>6. PlayingOK'
  BY DEF IInv, TypeOK, PlayingOK, Mark, Goto, MonitorOK
<1>7. WaitingOK'
  BY DEF IInv, WaitingOK, Mark, Goto
<1>8. AliveOK'
  <2>1. \A u \in Thread \ {t} : pc'[u] = pc[u] /\ job'[u] = job[u]
    BY DEF Mark, Goto
  <2>2. pc'[t] \in Holding /\ job'[t] = job[t] /\ pc[t] \notin Holding
    BY DEF IInv, TypeOK, Mark, Goto, Holding
  <2>3. ASSUME NEW x \in playingNow, ~down PROVE InQueue(x)' \/ InThread(x)'
    <3>1. CASE InQueue(x)
      BY <3>1 DEF InQueue, Mark
    <3>2. CASE InThread(x)
      BY <3>2, <2>1, <2>2 DEF InThread
    <3> QED BY <3>1, <3>2, <2>3 DEF IInv, AliveOK
  <2>4. InThread(job[t].act)'
    BY <2>2 DEF InThread
  <2> QED BY <2>3, <2>4 DEF AliveOK, Mark
<1> QED BY <1>1, <1>2, <1>3, <1>4, <1>5, <1>6, <1>7, <1>8 DEF IInv

LEMMA DeferKeeps ==
    ASSUME IInv, NEW t \in Thread, Defer(t)
    PROVE  IInv'
<1>a. job[t] \in Task
  BY BusyHasTask DEF IInv, Defer, Goto
<1>b. acts[job[t].act] \in Seq(Task)
  BY <1>a, TaskActs DEF IInv, TypeOK
<1>c. /\ Append(acts[job[t].act], job[t]) \in Seq(Task)
  /\ Len(acts[job[t].act]) \in Nat
  /\ Len(Append(acts[job[t].act], job[t])) = Len(acts[job[t].act]) + 1
  /\ \A i \in 1..Len(acts[job[t].act]) : Append(acts[job[t].act], job[t])[i] = acts[job[t].act][i]
  /\ Append(acts[job[t].act], job[t])[Len(acts[job[t].act]) + 1] = job[t]
  BY <1>a, <1>b
<1>1. TypeOK'
  BY <1>c DEF IInv, TypeOK, Defer, Goto, Inside
<1>2. JobOK'
  BY DEF IInv, JobOK, Defer, Goto
<1>3. ActsOK'
  BY DEF IInv, ActsOK, Defer
<1>4. MonitorOK'
  BY DEF IInv, TypeOK, MonitorOK, Defer, Goto
<1>5. TokenOK'
  BY DEF IInv, TokenOK, Defer, Goto, Holding
<1>6. PlayingOK'
  BY DEF IInv, PlayingOK, Defer, Goto
<1>7. WaitingOK'
  BY DEF IInv, WaitingOK, Defer, Goto, MonitorOK, PlayingOK, Inside
<1>8. AliveOK'
  <2>1. \A u \in Thread : pc[u] \in Holding => pc'[u] \in Holding /\ job'[u].act = job[u].act
    BY DEF Defer, Goto, Holding
  <2> QED BY <2>1, TokenKept DEF IInv, Defer
<1> QED BY <1>1, <1>2, <1>3, <1>4, <1>5, <1>6, <1>7, <1>8 DEF IInv

LEMMA ExecuteKeeps ==
    ASSUME IInv, NEW t \in Thread, Execute(t)
    PROVE  IInv'
<1>a. job[t] \in Task
  BY BusyHasTask DEF IInv, Execute, Goto
<1>c. /\ Append(threads, job[t]) \in Seq(Task)
  /\ Len(threads) \in Nat
  /\ Len(Append(threads, job[t])) = Len(threads) + 1
  /\ \A i \in 1..Len(threads) : Append(threads, job[t])[i] = threads[i]
  /\ Append(threads, job[t])[Len(threads) + 1] = job[t]
  BY <1>a DEF IInv, TypeOK
<1>1. TypeOK'
  BY <1>c DEF IInv, TypeOK, Execute, Goto, Inside
<1>2. JobOK'
  BY DEF IInv, JobOK, Execute, Goto
<1>3. ActsOK'
  BY DEF IInv, ActsOK, Execute
<1>4. MonitorOK'
  BY DEF IInv, TypeOK, MonitorOK, Execute, Goto
<1>5. TokenOK'
  BY DEF IInv, TypeOK, TokenOK, Execute, Goto, Holding
<1>6. PlayingOK'
  BY DEF IInv, PlayingOK, Execute, Goto, Holding
<1>7. WaitingOK'
  BY DEF IInv, WaitingOK, Execute, Goto
<1>8. AliveOK'
  <2>1. \A u \in Thread \ {t} : pc'[u] = pc[u] /\ job'[u] = job[u]
    BY DEF Execute, Goto
  <2>2. ASSUME NEW x \in playingNow, ~down PROVE InQueue(x)' \/ InThread(x)'
    <3>1. threads' = Append(threads, job[t])
      BY <2>2 DEF Execute
    <3>2. CASE InQueue(x)
      BY <3>1, <3>2 DEF InQueue
    <3>3. CASE job[t].act = x
      BY <3>1, <3>3 DEF InQueue
    <3>4. CASE InThread(x) /\ job[t].act # x
      BY <3>4, <2>1 DEF InThread
    <3> QED BY <3>2, <3>3, <3>4, <2>2 DEF IInv, AliveOK
  <2> QED BY <2>2 DEF AliveOK, Execute
<1> QED BY <1>1, <1>2, <1>3, <1>4, <1>5, <1>6, <1>7, <1>8 DEF IInv

LEMMA ExitKeeps ==
    ASSUME IInv, NEW t \in Thread, Exit(t)
    PROVE  IInv'
<1>a. job[t] \in Task
  BY BusyHasTask DEF IInv, Exit, Goto
<1>1. TypeOK'
  BY DEF IInv, TypeOK, Exit, Goto
<1>2. JobOK'
  BY DEF IInv, TypeOK, JobOK, Exit, Goto
<1>3. ActsOK'
  BY DEF IInv, ActsOK, Exit
<1>4. MonitorOK'
  BY DEF IInv, TypeOK, MonitorOK, Exit, Goto, Inside
<1>5. TokenOK'
  BY DEF IInv, TokenOK, Exit, Goto, Holding
<1>6. PlayingOK'
  BY DEF IInv, PlayingOK, Exit, Goto, Holding
<1>7. WaitingOK'
  BY DEF IInv, WaitingOK, Exit, Goto
<1>8. AliveOK'
  <2>1. \A u \in Thread : pc[u] \in Holding => pc'[u] \in Holding /\ job'[u].act = job[u].act
    BY DEF Exit, Goto, Holding
  <2> QED BY <2>1, TokenKept DEF IInv, Exit
<1> QED BY <1>1, <1>2, <1>3, <1>4, <1>5, <1>6, <1>7, <1>8 DEF IInv

LEMMA TakeKeeps ==
    ASSUME IInv, NEW t \in Thread, Take(t)
    PROVE  IInv'
<1>a. threads # <<>> /\ Head(threads) = threads[1] /\ Tail(threads) \in Seq(Task)
  /\ Len(threads) \in Nat \ {0} /\ Len(Tail(threads)) = Len(threads) - 1
  /\ \A i \in 1..Len(Tail(threads)) : Tail(threads)[i] = threads[i + 1]
  BY DEF IInv, TypeOK, Take
<1>b. threads[1] \in Task
  BY <1>a
<1>1. TypeOK'
  BY TaskActs DEF IInv, TypeOK, Take, Goto
<1>2. JobOK'
  BY NoTaskNotTask DEF IInv, TypeOK, JobOK, Take, Goto
<1>3. ActsOK'
  BY DEF IInv, ActsOK, Take
<1>4. MonitorOK'
  BY DEF IInv, MonitorOK, Take, Goto, Inside
<1>5. TokenOK'
  BY DEF IInv, TypeOK, TokenOK, Take, Goto
<1>6. PlayingOK'
  BY DEF IInv, TypeOK, PlayingOK, Take, Goto
<1>7. WaitingOK'
  BY DEF IInv, WaitingOK, Take, Goto
<1>8. AliveOK'
  <2>1. \A u \in Thread \ {t} : pc'[u] = pc[u] /\ job'[u] = job[u]
    BY DEF Take, Goto
  <2>2. pc[t] \notin Holding /\ pc'[t] \in Holding /\ job'[t] = threads[1]
    BY DEF IInv, TypeOK, Take, Goto, Holding
  <2>3. ASSUME NEW x \in playingNow, ~down PROVE InQueue(x)' \/ InThread(x)'
    <3>1. CASE InThread(x)
      BY <3>1, <2>1, <2>2 DEF InThread
    <3>2. CASE threads[1].act = x
      BY <3>2, <2>2 DEF InThread
    <3>3. CASE InQueue(x) /\ threads[1].act # x
      <4>1. PICK i \in 1..Len(threads) : threads[i].act = x
        BY <3>3 DEF InQueue
      <4>2. i # 1 /\ i - 1 \in 1..Len(Tail(threads)) /\ Tail(threads)[i - 1] = threads[i]
        BY <4>1, <3>3
      <4> QED BY <4>1, <4>2 DEF InQueue, Take
    <3> QED BY <3>1, <3>2, <3>3, <2>3 DEF IInv, AliveOK
  <2> QED BY <2>3 DEF AliveOK, Take
<1> QED BY <1>1, <1>2, <1>3, <1>4, <1>5, <1>6, <1>7, <1>8 DEF IInv

LEMMA ReturnKeeps ==
    ASSUME IInv, NEW t \in Thread, Return(t)
    PROVE  IInv'
<1>a. job[t] \in Task
  BY BusyHasTask DEF IInv, Return, Goto
<1>1. TypeOK'
  BY DEF IInv, TypeOK, Return, Goto
<1>2. JobOK'
  BY DEF IInv, JobOK, Return, Goto
<1>3. ActsOK'
  BY DEF IInv, ActsOK, Return
<1>4. MonitorOK'
  BY DEF IInv, MonitorOK, Return, Goto, Inside
<1>5. TokenOK'
  BY DEF IInv, TokenOK, Return, Goto, Holding
<1>6. PlayingOK'
  BY DEF IInv, PlayingOK, Return, Goto, Holding
<1>7. WaitingOK'
  BY DEF IInv, WaitingOK, Return, Goto
<1>8. AliveOK'
  <2>1. \A u \in Thread : pc[u] \in Holding => pc'[u] \in Holding /\ job'[u].act = job[u].act
    BY DEF Return, Goto, Holding
  <2> QED BY <2>1, TokenKept DEF IInv, Return
<1> QED BY <1>1, <1>2, <1>3, <1>4, <1>5, <1>6, <1>7, <1>8 DEF IInv

LEMMA CompleteKeeps ==
    ASSUME IInv, NEW t \in Thread, Complete(t)
    PROVE  IInv'
<1>a. job[t] \in Task
  BY BusyHasTask DEF IInv, Complete, Goto
<1>1. TypeOK'
  BY DEF IInv, TypeOK, Complete, Goto, Inside
<1>2. JobOK'
  BY DEF IInv, JobOK, Complete, Goto
<1>3. ActsOK'
  BY DEF IInv, ActsOK, Complete
<1>4. MonitorOK'
  BY PoolAssumption, <1>a, TaskActs DEF IInv, TypeOK, MonitorOK, Complete, Goto, Thread
<1>5. TokenOK'
  BY DEF IInv, TokenOK, Complete, Goto, Holding
<1>6. PlayingOK'
  BY DEF IInv, PlayingOK, Complete, Goto, Holding
<1>7. WaitingOK'
  BY DEF IInv, WaitingOK, Complete, Goto
<1>8. AliveOK'
  <2>1. \A u \in Thread : pc[u] \in Holding => pc'[u] \in Holding /\ job'[u].act = job[u].act
    BY DEF Complete, Goto, Holding
  <2> QED BY <2>1, TokenKept DEF IInv, Complete
<1> QED BY <1>1, <1>2, <1>3, <1>4, <1>5, <1>6, <1>7, <1>8 DEF IInv

LEMMA PollKeeps ==
    ASSUME IInv, NEW t \in Thread, Poll(t)
    PROVE  IInv'
<1>a. job[t] \in Task
  BY BusyHasTask DEF IInv, Poll, Goto
<1>b. acts[job[t].act] \in Seq(Task)
  BY <1>a, TaskActs DEF IInv, TypeOK
<1>c. ASSUME acts[job[t].act] # <<>> PROVE /\ Head(acts[job[t].act]) = acts[job[t].act][1]
  /\ Head(acts[job[t].act]) \in Task
 /\ Tail(acts[job[t].act]) \in Seq(Task)
  /\ Len(acts[job[t].act]) \in Nat \ {0} /\ Len(Tail(acts[job[t].act])) = Len(acts[job[t].act]) - 1
  /\ \A i \in 1..Len(Tail(acts[job[t].act])) : Tail(acts[job[t].act])[i] = acts[job[t].act][i + 1]
  BY <1>b, <1>c
<1>d. acts[job[t].act] # <<>> => Head(acts[job[t].act]).act = job[t].act
  BY <1>a, TaskActs DEF IInv, ActsOK
<1>1. TypeOK'
  BY <1>c DEF IInv, TypeOK, Poll, Goto, Inside
<1>2. JobOK'
  BY <1>c, NoTaskNotTask DEF IInv, JobOK, Poll, Goto
<1>3. ActsOK'
  BY DEF IInv, ActsOK, Poll
<1>4. MonitorOK'
  BY <1>d DEF IInv, TypeOK, MonitorOK, Poll, Goto
<1>5. TokenOK'
  BY <1>d DEF IInv, TokenOK, Poll, Goto, Holding
<1>6. PlayingOK'
  BY <1>d DEF IInv, PlayingOK, Poll, Goto, Holding
<1>7. WaitingOK'
  BY DEF IInv, WaitingOK, Poll, Goto
<1>8. AliveOK'
  <2>1. \A u \in Thread : pc[u] \in Holding => pc'[u] \in Holding /\ job'[u].act = job[u].act
    BY <1>d DEF Poll, Goto, Holding
  <2> QED BY <2>1, TokenKept DEF IInv, Poll
<1> QED BY <1>1, <1>2, <1>3, <1>4, <1>5, <1>6, <1>7, <1>8 DEF IInv

LEMMA UnmarkKeeps ==
    ASSUME IInv, NEW t \in Thread, Unmark(t)
    PROVE  IInv'
<1>a. job[t] \in Task
  BY BusyHasTask DEF IInv, Unmark, Goto
<1>1. TypeOK'
  BY DEF IInv, TypeOK, Unmark, Goto, Inside
<1>2. JobOK'
  BY DEF IInv, JobOK, Unmark, Goto
<1>3. ActsOK'
  BY DEF IInv, ActsOK, Unmark
<1>4. MonitorOK'
  BY DEF IInv, TypeOK, MonitorOK, Unmark, Goto
<1>5. TokenOK'
  BY DEF IInv, TokenOK, Unmark, Goto, Holding
<1>6. PlayingOK'
  BY TaskActs DEF IInv, TypeOK, PlayingOK, Unmark, Goto, Holding, MonitorOK, TokenOK
<1>7. WaitingOK'
  BY DEF IInv, WaitingOK, Unmark, Goto
<1>8. AliveOK'
  <2>1. \A u \in Thread \ {t} : pc'[u] = pc[u] /\ job'[u] = job[u]
    BY DEF Unmark, Goto
  <2>2. ASSUME NEW x \in playingNow, x # job[t].act, ~down PROVE InQueue(x)' \/ InThread(x)'
    <3>1. CASE InQueue(x)
      BY <3>1 DEF InQueue, Unmark
    <3>2. CASE InThread(x)
      BY <3>2, <2>1, <2>2 DEF InThread
    <3> QED BY <3>1, <3>2, <2>2 DEF IInv, AliveOK
  <2> QED BY <2>2 DEF AliveOK, Unmark
<1> QED BY <1>1, <1>2, <1>3, <1>4, <1>5, <1>6, <1>7, <1>8 DEF IInv

LEMMA ShutdownKeeps ==
    ASSUME IInv, Shutdown
    PROVE  IInv'
<1>a. <<>> \in Seq(Task) /\ Len(<<>>) = 0
  OBVIOUS
<1>1. TypeOK'
  BY DEF IInv, TypeOK, Shutdown
<1>2. JobOK'
  BY DEF IInv, JobOK, Shutdown
<1>3. ActsOK'
  BY DEF IInv, ActsOK, Shutdown
<1>4. MonitorOK'
  BY DEF IInv, MonitorOK, Shutdown
<1>5. TokenOK'
  BY DEF IInv, TokenOK, Shutdown
<1>6. PlayingOK'
  BY DEF IInv, PlayingOK, Shutdown
<1>7. WaitingOK'
  BY DEF IInv, WaitingOK, Shutdown
<1>8. AliveOK'
  BY DEF Shutdown, AliveOK
<1> QED BY <1>1, <1>2, <1>3, <1>4, <1>5, <1>6, <1>7, <1>8 DEF IInv

-----------------------------------------------------------------------------
(* Every step of the pool keeps the invariant.                             *)
LEMMA NextKeepsIInv == IInv /\ [Next]_vars => IInv'
<1> SUFFICES ASSUME IInv, [Next]_vars PROVE IInv'
  OBVIOUS
<1>1. ASSUME NEW t \in Submitter, NEW a \in Actor, Submit(t, a) PROVE IInv'
  BY <1>1, SubmitKeeps DEF Thread
<1>2. ASSUME NEW t \in Submitter, SubmitStep(t) PROVE IInv'
  BY <1>2, TestKeeps, MarkKeeps, DeferKeeps DEF SubmitStep, Thread
<1>3. ASSUME NEW t \in Worker, WorkerStep(t) PROVE IInv'
  BY <1>3, TakeKeeps, ReturnKeeps, CompleteKeeps, PollKeeps, UnmarkKeeps DEF WorkerStep, Thread
<1>4. ASSUME NEW t \in Thread, Execute(t) \/ Exit(t) PROVE IInv'
  BY <1>4, ExecuteKeeps, ExitKeeps
<1>5. CASE Shutdown
  BY <1>5, ShutdownKeeps
<1>6. CASE UNCHANGED vars
  BY <1>6 DEF vars, IInv, TypeOK, JobOK, ActsOK, MonitorOK, TokenOK, PlayingOK, WaitingOK,
     AliveOK, InQueue, InThread
<1> QED BY <1>1, <1>2, <1>3, <1>4, <1>5, <1>6 DEF Next

(* The inductive invariant holds in every reachable state of the pool.     *)
THEOREM PoolInvariant == Spec => []IInv
BY InitIInv, NextKeepsIInv, PTL DEF Spec

(* Type correctness, for every number of actors, threads and tasks.        *)
THEOREM PoolTypeOK == Spec => []TypeOK
<1>1. IInv => TypeOK
  BY DEF IInv
<1> QED BY PoolInvariant, <1>1, PTL

(* Tasks of one actor never overlap: submit's test and its marking are two *)
(* steps, and the monitor of the actor makes them one.                     *)
THEOREM PoolOneTaskPerActor == Spec => []OneTaskPerActor
<1>1. IInv => OneTaskPerActor
  BY DEF IInv, TokenOK, OneTaskPerActor, Holding, Thread
<1> QED BY PoolInvariant, <1>1, PTL

(* No task is left waiting with nobody to poll for it.                     *)
THEOREM PoolNoStrandedTask == Spec => []NoStrandedTask
<1>1. ASSUME IInv PROVE NoStrandedTask
  <2> SUFFICES ASSUME NEW a \in Actor, acts[a] # <<>>, ~down
               PROVE  Queued(a) \/ \E t \in Thread : Carries(t, a)
    BY DEF NoStrandedTask
  <2>1. InQueue(a) \/ InThread(a)
    BY <1>1 DEF IInv, WaitingOK, AliveOK
  <2>2. CASE InQueue(a)
    BY <2>2 DEF InQueue, Queued
  <2>3. CASE InThread(a)
    <3>1. PICK t \in Thread : pc[t] \in Holding /\ job[t].act = a
      BY <2>3 DEF InThread
    <3>2. pc[t] # "unmark"
      BY <1>1, <3>1 DEF IInv, WaitingOK
    <3> QED BY <3>1, <3>2 DEF Carries, Holding
  <2> QED BY <2>1, <2>2, <2>3
<1> QED BY PoolInvariant, <1>1, PTL

-----------------------------------------------------------------------------
(***************************************************************************)
(* The thread pool implements the safety part of SerialExecutor for any    *)
(* number of actors, threads and tasks.                                    *)
(*                                                                         *)
(* What is added to the invariant above is the order of the numbers: the   *)
(* tasks of an actor that have not begun are, from the next one on, the    *)
(* one with a token, then the waiting ones, then the one a thread is just  *)
(* submitting.                                                             *)
(***************************************************************************)

(* Statements of submit at which the new task is with its thread only.     *)
Fresh == {"test", "mark", "defer"}

Incoming(a) == \E t \in Thread : pc[t] \in Fresh /\ job[t].act = a

(* Tasks of a that were given a token so far.                              *)
Given(a) == submitted[a] - Len(acts[a]) - (IF Incoming(a) THEN 1 ELSE 0)

(* The token is with a task that has not begun.                            *)
InExecute(a) == \E t \in Thread : pc[t] = "execute" /\ job[t].act = a

NewOK(a) == \A t \in Thread : pc[t] \in Fresh /\ job[t].act = a => job[t].n = submitted[a]

RankOK(a) == \A i \in 1..Len(acts[a]) : acts[a][i].n = Given(a) + i

NextOK(a) ==
    /\ Given(a) = IF InQueue(a) \/ InExecute(a) THEN begun[a] + 1 ELSE begun[a]
    /\ \A i \in 1..Len(threads) : threads[i].act = a => threads[i].n = begun[a] + 1
    /\ \A t \in Thread : pc[t] = "execute" /\ job[t].act = a => job[t].n = begun[a] + 1

OrderOK(a) == NewOK(a) /\ RankOK(a) /\ (~down => NextOK(a))

SInv ==
    /\ IInv
    /\ down => threads = <<>>
    /\ \A a \in Actor : OrderOK(a)

-----------------------------------------------------------------------------
LEMMA InitSInv == Init => SInv
<1> SUFFICES ASSUME Init PROVE SInv
  OBVIOUS
<1>1. ASSUME NEW a \in Actor PROVE OrderOK(a)
  <2>1. ~Incoming(a) /\ ~InExecute(a) /\ ~InQueue(a) /\ Len(acts[a]) = 0 /\ Len(threads) = 0
    BY DEF Init, Incoming, Fresh, InExecute, InQueue
  <2>2. Given(a) = 0
    BY <2>1 DEF Init, Given
  <2> QED BY <2>1, <2>2 DEF Init, OrderOK, NewOK, RankOK, NextOK, Fresh
<1> QED BY <1>1, InitIInv DEF SInv, Init

(* Nothing changes for an actor whose tasks stay where they are.           *)
LEMMA OrderStays ==
    ASSUME NEW a \in Actor, OrderOK(a), down' = down,
           submitted'[a] = submitted[a], begun'[a] = begun[a], acts'[a] = acts[a],
           \A u \in Thread :
              /\ pc'[u] \in Fresh /\ job'[u].act = a <=> pc[u] \in Fresh /\ job[u].act = a
              /\ pc'[u] = "execute" /\ job'[u].act = a <=> pc[u] = "execute" /\ job[u].act = a
              /\ pc[u] \in Fresh \cup {"execute"} /\ job[u].act = a => job'[u] = job[u],
           InQueue(a)' <=> InQueue(a),
           \A i \in 1..Len(threads') : threads'[i].act = a =>
              \E j \in 1..Len(threads) : threads[j] = threads'[i]
    PROVE  OrderOK(a)'
<1>1. (Incoming(a)' <=> Incoming(a)) /\ (InExecute(a)' <=> InExecute(a))
  BY DEF Incoming, InExecute
<1>2. Given(a)' = Given(a)
  BY <1>1 DEF Given
<1>3. NewOK(a)'
  BY DEF OrderOK, NewOK
<1>4. RankOK(a)'
  BY <1>2 DEF OrderOK, RankOK
<1>5. ~down => NextOK(a)'
  BY <1>1, <1>2 DEF OrderOK, NextOK
<1> QED BY <1>3, <1>4, <1>5 DEF OrderOK

(* Steps of one thread that neither queue, hand out nor begin a task.      *)
LEMMA QuietKeeps ==
    ASSUME IInv, \A a \in Actor : OrderOK(a), NEW t \in Thread,
           UNCHANGED <<submitted, begun, acts, threads, down>>,
           \A u \in Thread \ {t} : pc'[u] = pc[u] /\ job'[u] = job[u],
           \/ pc[t] \notin Fresh \cup {"execute"} /\ pc'[t] \notin Fresh \cup {"execute"}
           \/ pc[t] \in Fresh /\ pc'[t] \in Fresh /\ job'[t] = job[t]
    PROVE  \A a \in Actor : OrderOK(a)'
<1> TAKE a \in Actor
<1>1. InQueue(a)' <=> InQueue(a)
  BY DEF InQueue
<1>2. \A u \in Thread :
         /\ pc'[u] \in Fresh /\ job'[u].act = a <=> pc[u] \in Fresh /\ job[u].act = a
         /\ pc'[u] = "execute" /\ job'[u].act = a <=> pc[u] = "execute" /\ job[u].act = a
         /\ pc[u] \in Fresh \cup {"execute"} /\ job[u].act = a => job'[u] = job[u]
  BY DEF Fresh
<1> QED BY <1>1, <1>2, OrderStays

LEMMA SubmitOrder ==
    ASSUME SInv, NEW t \in Thread, NEW b \in Actor, Submit(t, b)
    PROVE  \A a \in Actor : OrderOK(a)'
<1> TAKE a \in Actor
<1>a. /\ pc[t] = "idle" /\ pc'[t] = "test" /\ job'[t].act = b /\ job'[t].n = submitted[b] + 1
      /\ \A u \in Thread \ {t} : pc'[u] = pc[u] /\ job'[u] = job[u]
      /\ submitted' = [submitted EXCEPT ![b] = @ + 1]
      /\ UNCHANGED <<begun, acts, threads, down>>
  BY DEF SInv, IInv, TypeOK, Submit, Goto
<1>b. OrderOK(a)
  BY DEF SInv
<1>1. CASE a # b
  <2>1. InQueue(a)' <=> InQueue(a)
    BY <1>a DEF InQueue
  <2>2. submitted'[a] = submitted[a]
    BY <1>a, <1>1 DEF SInv, IInv, TypeOK
  <2> QED BY <1>a, <1>b, <1>1, <2>1, <2>2, OrderStays DEF Fresh
<1>2. CASE a = b
  <2>1. \A u \in Thread : pc[u] \in Fresh \cup {"execute"} => job[u].act # a
    BY <1>2, PoolAssumption DEF SInv, IInv, MonitorOK, Submit, Fresh, Inside, Thread
  <2>2. Incoming(a)' /\ ~Incoming(a) /\ ~InExecute(a) /\ ~InExecute(a)'
    BY <1>a, <1>2, <2>1 DEF Incoming, InExecute, Fresh
  <2>3. submitted'[a] = submitted[a] + 1 /\ submitted[a] \in Nat
    BY <1>a, <1>2, PoolAssumption DEF SInv, IInv, TypeOK
  <2>4. Len(acts[a]) \in Nat
    BY DEF SInv, IInv, TypeOK
  <2>5. Given(a)' = Given(a)
    BY <1>a, <2>2, <2>3, <2>4 DEF Given
  <2>6. NewOK(a)'
    BY <1>a, <1>2, <2>1, <2>3 DEF NewOK, Fresh
  <2>7. RankOK(a)'
    BY <1>a, <1>b, <2>5 DEF OrderOK, RankOK
  <2>8. InQueue(a)' <=> InQueue(a)
    BY <1>a DEF InQueue
  <2>9. ~down => NextOK(a)'
    BY <1>a, <1>b, <2>1, <2>2, <2>5, <2>8 DEF OrderOK, NextOK
  <2> QED BY <1>a, <2>6, <2>7, <2>9 DEF OrderOK
<1> QED BY <1>1, <1>2

LEMMA MarkOrder ==
    ASSUME SInv, NEW t \in Thread, Mark(t)
    PROVE  \A a \in Actor : OrderOK(a)'
<1> TAKE a \in Actor
<1>a. /\ pc[t] = "mark" /\ pc'[t] = "execute"
      /\ \A u \in Thread \ {t} : pc'[u] = pc[u]
      /\ UNCHANGED <<begun, acts, threads, down, job, submitted>>
  BY DEF SInv, IInv, TypeOK, Mark, Goto
<1>b. OrderOK(a)
  BY DEF SInv
<1>c. InQueue(a)' <=> InQueue(a)
  BY <1>a DEF InQueue
<1>1. CASE job[t].act # a
  BY <1>a, <1>b, <1>c, <1>1, OrderStays DEF Fresh
<1>2. CASE job[t].act = a
  <2>1. a \notin playingNow
    BY <1>a, <1>2 DEF SInv, IInv, PlayingOK
  <2>2. acts[a] = <<>> /\ ~InQueue(a) /\ ~InExecute(a)
    BY <2>1 DEF SInv, IInv, WaitingOK, PlayingOK, InQueue, InExecute, Holding
  <2>3. \A u \in Thread \ {t} : pc[u] \in Fresh \cup {"execute"} => job[u].act # a
    BY <1>a, <1>2 DEF SInv, IInv, MonitorOK, Fresh, Inside
  <2>4. Incoming(a) /\ ~Incoming(a)' /\ InExecute(a)'
    BY <1>a, <1>2, <2>3 DEF Incoming, InExecute, Fresh
  <2>5. Len(acts[a]) = 0 /\ submitted[a] \in Nat
    BY <2>2, PoolAssumption DEF SInv, IInv, TypeOK
  <2>6. Given(a) = submitted[a] - 1 /\ Given(a)' = submitted[a]
    BY <1>a, <2>4, <2>5 DEF Given
  <2>7. job[t].n = submitted[a]
    BY <1>a, <1>b, <1>2 DEF OrderOK, NewOK, Fresh
  <2>8. NewOK(a)' /\ RankOK(a)'
    BY <1>a, <2>3, <2>5 DEF NewOK, RankOK, Fresh
  <2>9. ~down => Given(a) = begun[a]
    BY <1>b, <2>2 DEF OrderOK, NextOK
  <2>10. ASSUME ~down PROVE NextOK(a)'
    <3>1. Given(a)' = begun[a] + 1 /\ job[t].n = begun[a] + 1
      BY <2>5, <2>6, <2>7, <2>9, <2>10
    <3>2. \A i \in 1..Len(threads) : threads[i].act # a
      BY <2>2 DEF InQueue
    <3> QED BY <1>a, <2>3, <2>4, <3>1, <3>2 DEF NextOK
  <2> QED BY <1>a, <2>8, <2>10 DEF OrderOK
<1> QED BY <1>1, <1>2

LEMMA DeferOrder ==
    ASSUME SInv, NEW t \in Thread, Defer(t)
    PROVE  \A a \in Actor : OrderOK(a)'
<1> TAKE a \in Actor
<1>a. /\ pc[t] = "defer" /\ pc'[t] = "exit"
      /\ \A u \in Thread \ {t} : pc'[u] = pc[u]
      /\ acts' = [acts EXCEPT ![job[t].act] = Append(@, job[t])]
      /\ UNCHANGED <<begun, threads, down, job, submitted>>
  BY DEF SInv, IInv, TypeOK, Defer, Goto
<1>b. OrderOK(a)
  BY DEF SInv
<1>c. InQueue(a)' <=> InQueue(a)
  BY <1>a DEF InQueue
<1>1. CASE job[t].act # a
  <2>1. acts'[a] = acts[a]
    BY <1>a, <1>1 DEF SInv, IInv, TypeOK
  <2> QED BY <1>a, <1>b, <1>c, <1>1, <2>1, OrderStays DEF Fresh
<1>2. CASE job[t].act = a
  <2>1. \A u \in Thread \ {t} : pc[u] \in Fresh \cup {"execute"} => job[u].act # a
    BY <1>a, <1>2 DEF SInv, IInv, MonitorOK, Fresh, Inside
  <2>2. Incoming(a) /\ ~Incoming(a)' /\ (InExecute(a)' <=> InExecute(a))
    BY <1>a, <1>2, <2>1 DEF Incoming, InExecute, Fresh
  <2>3. acts[a] \in Seq(Task) /\ acts'[a] = Append(acts[a], job[t]) /\ submitted[a] \in Nat
    BY <1>a, <1>2, PoolAssumption DEF SInv, IInv, TypeOK
  <2>4. job[t] \in Task
    BY <1>a, BusyHasTask DEF SInv, IInv
  <2>5. /\ Len(acts'[a]) = Len(acts[a]) + 1 /\ Len(acts[a]) \in Nat
        /\ \A i \in 1..Len(acts[a]) : acts'[a][i] = acts[a][i]
        /\ acts'[a][Len(acts[a]) + 1] = job[t]
    BY <2>3, <2>4
  <2>6. Given(a)' = Given(a) /\ Given(a) + Len(acts[a]) + 1 = submitted[a] /\ Given(a) \in Int
    <3>1. Given(a) = submitted[a] - Len(acts[a]) - 1
      BY <2>2 DEF Given
    <3>2. Given(a)' = submitted[a] - Len(acts'[a]) - 0
      BY <1>a, <2>2 DEF Given
    <3>3. PICK n \in Nat : n = Len(acts[a]) /\ n + 1 = Len(acts'[a])
      BY <2>5
    <3>4. submitted[a] \in Nat
      BY <2>3
    <3> QED BY <3>1, <3>2, <3>3, <3>4
  <2>7. job[t].n = submitted[a]
    BY <1>a, <1>b, <1>2 DEF OrderOK, NewOK, Fresh
  <2>8. NewOK(a)'
    BY <1>a, <2>1 DEF NewOK, Fresh
  <2>9. RankOK(a)'
    <3> SUFFICES ASSUME NEW i \in 1..Len(acts'[a]) PROVE acts'[a][i].n = Given(a) + i
      BY <2>6 DEF RankOK
    <3>1. CASE i \in 1..Len(acts[a])
      BY <1>b, <2>5, <3>1 DEF OrderOK, RankOK
    <3>2. CASE i = Len(acts[a]) + 1
      BY <2>5, <2>6, <2>7, <3>2
    <3> QED BY <2>5, <3>1, <3>2
  <2>10. ~down => NextOK(a)'
    BY <1>a, <1>b, <1>c, <2>1, <2>2, <2>6 DEF OrderOK, NextOK
  <2> QED BY <1>a, <2>8, <2>9, <2>10 DEF OrderOK
<1> QED BY <1>1, <1>2

LEMMA ExecuteOrder ==
    ASSUME SInv, NEW t \in Thread, Execute(t)
    PROVE  \A a \in Actor : OrderOK(a)'
<1> TAKE a \in Actor
<1>a. /\ pc[t] = "execute" /\ pc'[t] = "exit"
      /\ \A u \in Thread \ {t} : pc'[u] = pc[u]
      /\ threads' = IF down THEN threads ELSE Append(threads, job[t])
      /\ UNCHANGED <<acts, begun, down, job, submitted>>
  BY DEF SInv, IInv, TypeOK, Execute, Goto
<1>b. OrderOK(a)
  BY DEF SInv
<1>c. /\ ~down => /\ Len(threads') = Len(threads) + 1
                  /\ threads'[Len(threads) + 1] = job[t]
                  /\ \A i \in 1..Len(threads) : threads'[i] = threads[i]
      /\ Len(threads) \in Nat
  <2>1. threads \in Seq(Task) /\ job[t] \in Task
    BY <1>a, BusyHasTask DEF SInv, IInv, TypeOK
  <2> QED BY <1>a, <2>1
<1>d. (Incoming(a)' <=> Incoming(a)) /\ NewOK(a)'
  BY <1>a, <1>b DEF Incoming, Fresh, OrderOK, NewOK
<1>e. Given(a)' = Given(a) /\ RankOK(a)'
  BY <1>a, <1>b, <1>d DEF Given, OrderOK, RankOK
<1>1. CASE down
  BY <1>a, <1>d, <1>e, <1>1 DEF OrderOK
<1>2. CASE ~down /\ job[t].act # a
  <2>1. InQueue(a)' <=> InQueue(a)
    <3>1. ASSUME InQueue(a)' PROVE InQueue(a)
      BY <1>c, <1>2, <3>1 DEF InQueue
    <3>2. ASSUME InQueue(a) PROVE InQueue(a)'
      BY <1>c, <1>2, <3>2 DEF InQueue
    <3> QED BY <3>1, <3>2
  <2>2. InExecute(a)' <=> InExecute(a)
    BY <1>a, <1>2 DEF InExecute
  <2>3. \A i \in 1..Len(threads') : threads'[i].act = a => threads'[i].n = begun[a] + 1
    BY <1>b, <1>c, <1>2 DEF OrderOK, NextOK
  <2>4. NextOK(a)'
    BY <1>a, <1>b, <1>e, <1>2, <2>1, <2>2, <2>3 DEF OrderOK, NextOK
  <2> QED BY <1>d, <1>e, <2>4 DEF OrderOK
<1>3. CASE ~down /\ job[t].act = a
  <2>1. InExecute(a) /\ job[t].n = begun[a] + 1 /\ Given(a) = begun[a] + 1
    BY <1>a, <1>b, <1>3 DEF OrderOK, NextOK, InExecute
  <2>2. /\ \A i \in 1..Len(threads) : threads[i].act # a
        /\ \A u \in Thread \ {t} : pc[u] = "execute" => job[u].act # a
    BY <1>a, <1>3 DEF SInv, IInv, TokenOK, Holding
  <2>3. InQueue(a)'
    BY <1>c, <1>3 DEF InQueue
  <2>4. \A i \in 1..Len(threads') : threads'[i].act = a => threads'[i].n = begun[a] + 1
    BY <1>c, <1>3, <2>1, <2>2
  <2>5. NextOK(a)'
    BY <1>a, <1>e, <2>1, <2>2, <2>3, <2>4 DEF NextOK
  <2> QED BY <1>d, <1>e, <2>5 DEF OrderOK
<1> QED BY <1>1, <1>2, <1>3

(* Whoever takes a task takes the next one of its actor.                   *)
LEMMA HeadIsNext ==
    ASSUME SInv, threads # <<>>
    PROVE  /\ ~down /\ Head(threads) = threads[1] /\ Head(threads) \in Task
           /\ Len(Tail(threads)) = Len(threads) - 1 /\ Len(threads) \in Nat \ {0}
           /\ \A i \in 1..Len(Tail(threads)) : Tail(threads)[i] = threads[i + 1]
           /\ Head(threads).n = begun[Head(threads).act] + 1
           /\ Given(Head(threads).act) = begun[Head(threads).act] + 1
           /\ \A i \in 1..Len(Tail(threads)) : Tail(threads)[i].act # Head(threads).act
           /\ \A u \in Thread : pc[u] \in Holding => job[u].act # Head(threads).act
<1>1. threads \in Seq(Task) /\ ~down
  BY DEF SInv, IInv, TypeOK
<1>2. /\ Head(threads) = threads[1] /\ Head(threads) \in Task
      /\ Len(Tail(threads)) = Len(threads) - 1 /\ Len(threads) \in Nat \ {0}
      /\ \A i \in 1..Len(Tail(threads)) : Tail(threads)[i] = threads[i + 1]
  BY <1>1
<1>3. PICK b \in Actor : b = Head(threads).act
  BY <1>2, TaskActs
<1>4. 1 \in 1..Len(threads) /\ threads[1].act = b
  BY <1>2, <1>3
<1>5. OrderOK(b) /\ InQueue(b)
  BY <1>4 DEF SInv, InQueue
<1>6. threads[1].n = begun[b] + 1 /\ Given(b) = begun[b] + 1
  BY <1>1, <1>4, <1>5 DEF OrderOK, NextOK
<1>7. ASSUME NEW i \in 1..Len(Tail(threads)) PROVE Tail(threads)[i].act # b
  <2>1. i + 1 \in 1..Len(threads) /\ i + 1 # 1
    BY <1>2
  <2> QED BY <1>2, <1>4, <2>1 DEF SInv, IInv, TokenOK
<1>8. \A u \in Thread : pc[u] \in Holding => job[u].act # b
  BY <1>4 DEF SInv, IInv, TokenOK
<1> QED BY <1>1, <1>2, <1>3, <1>6, <1>7, <1>8

LEMMA TakeOrder ==
    ASSUME SInv, NEW t \in Thread, Take(t)
    PROVE  \A a \in Actor : OrderOK(a)'
<1> TAKE a \in Actor
<1> DEFINE b == Head(threads).act
<1>a. /\ pc[t] = "idle" /\ pc'[t] = "run" /\ job'[t] = Head(threads)
      /\ \A u \in Thread \ {t} : pc'[u] = pc[u] /\ job'[u] = job[u]
      /\ threads # <<>> /\ threads' = Tail(threads)
      /\ begun' = [begun EXCEPT ![b] = Head(threads).n]
      /\ UNCHANGED <<acts, down, submitted>>
  BY DEF SInv, IInv, TypeOK, Take, Goto
<1>b. OrderOK(a)
  BY DEF SInv
<1>1. CASE a # b
  <2>1. begun'[a] = begun[a]
    BY <1>a, <1>1 DEF SInv, IInv, TypeOK
  <2>2. \A i \in 1..Len(threads') : \E j \in 1..Len(threads) : threads[j] = threads'[i]
    <3> SUFFICES ASSUME NEW i \in 1..Len(threads')
                 PROVE  i + 1 \in 1..Len(threads) /\ threads[i + 1] = threads'[i]
      OBVIOUS
    <3> QED BY <1>a, HeadIsNext
  <2>3. InQueue(a)' => InQueue(a)
    BY <2>2 DEF InQueue
  <2>4. ASSUME InQueue(a) PROVE InQueue(a)'
    <3>1. PICK i \in 1..Len(threads) : threads[i].act = a
      BY <2>4 DEF InQueue
    <3>2. i # 1
      BY <1>a, <1>1, <3>1, HeadIsNext
    <3>3. i - 1 \in 1..Len(threads') /\ threads'[i - 1] = threads[i]
      BY <1>a, <3>2, HeadIsNext
    <3> QED BY <3>1, <3>3 DEF InQueue
  <2> QED BY <1>a, <1>b, <1>1, <2>1, <2>2, <2>3, <2>4, OrderStays DEF Fresh
<1>2. CASE a = b
  <2>1. /\ \A i \in 1..Len(threads') : threads'[i].act # a
        /\ \A u \in Thread : pc[u] = "execute" => job[u].act # a
        /\ Given(a) = begun[a] + 1 /\ Head(threads).n = begun[a] + 1
    BY <1>a, <1>2, HeadIsNext DEF Holding
  <2>2. begun'[a] = begun[a] + 1
    BY <1>a, <1>2, <2>1 DEF SInv, IInv, TypeOK
  <2>3. Incoming(a)' <=> Incoming(a)
    BY <1>a DEF Incoming, Fresh
  <2>4. Given(a)' = Given(a)
    BY <1>a, <2>3 DEF Given
  <2>5. NewOK(a)' /\ RankOK(a)'
    BY <1>a, <1>b, <2>4 DEF OrderOK, NewOK, RankOK, Fresh
  <2>6. ~InQueue(a)' /\ ~InExecute(a)'
    BY <1>a, <2>1 DEF InQueue, InExecute
  <2>7. NextOK(a)'
    BY <1>a, <2>1, <2>2, <2>4, <2>6 DEF NextOK
  <2> QED BY <2>5, <2>7 DEF OrderOK
<1> QED BY <1>1, <1>2

LEMMA PollOrder ==
    ASSUME SInv, NEW t \in Thread, Poll(t)
    PROVE  \A a \in Actor : OrderOK(a)'
<1> DEFINE b == job[t].act
<1>1. CASE acts[b] = <<>>
  <2>1. /\ pc[t] = "poll" /\ pc'[t] = "unmark"
        /\ \A u \in Thread \ {t} : pc'[u] = pc[u]
        /\ UNCHANGED <<acts, threads, down, job, submitted, begun>>
    BY <1>1 DEF SInv, IInv, TypeOK, Poll, Goto
  <2> QED BY <2>1, QuietKeeps DEF SInv, Fresh
<1>2. CASE acts[b] # <<>>
  <2> TAKE a \in Actor
  <2>a. /\ pc[t] = "poll" /\ pc'[t] = "execute" /\ job'[t] = Head(acts[b])
        /\ \A u \in Thread \ {t} : pc'[u] = pc[u] /\ job'[u] = job[u]
        /\ acts' = [acts EXCEPT ![b] = Tail(@)]
        /\ UNCHANGED <<threads, down, submitted, begun>>
    BY <1>2 DEF SInv, IInv, TypeOK, Poll, Goto
  <2>b. OrderOK(a)
    BY DEF SInv
  <2>c. b \in Actor /\ acts[b] \in Seq(Task)
    BY <2>a, BusyHasTask, TaskActs DEF SInv, IInv, TypeOK
  <2>d. /\ Head(acts[b]) = acts[b][1] /\ Len(acts[b]) \in Nat \ {0}
        /\ Len(Tail(acts[b])) = Len(acts[b]) - 1
        /\ \A i \in 1..Len(Tail(acts[b])) : Tail(acts[b])[i] = acts[b][i + 1]
    BY <1>2, <2>c
  <2>e. job'[t].act = b
    BY <2>a, <2>c, <2>d DEF SInv, IInv, ActsOK
  <2>f. InQueue(a)' <=> InQueue(a)
    BY <2>a DEF InQueue
  <2>1. CASE a # b
    <3>1. acts'[a] = acts[a]
      BY <2>a, <2>1 DEF SInv, IInv, TypeOK
    <3> QED BY <2>a, <2>b, <2>e, <2>f, <2>1, <3>1, OrderStays DEF Fresh
  <2>2. CASE a = b
    <3>1. /\ \A i \in 1..Len(threads) : threads[i].act # a
          /\ \A u \in Thread : pc[u] = "execute" => job[u].act # a
      BY <2>a, <2>2 DEF SInv, IInv, TokenOK, Holding
    <3>2. ~InQueue(a) /\ ~InExecute(a) /\ InExecute(a)'
      BY <2>a, <2>2, <2>e, <3>1 DEF InQueue, InExecute
    <3>3. Incoming(a)' <=> Incoming(a)
      BY <2>a DEF Incoming, Fresh
    <3>4. acts'[a] = Tail(acts[a]) /\ submitted[a] \in Nat
      BY <2>a, <2>2, PoolAssumption DEF SInv, IInv, TypeOK
    <3>5. Given(a)' = Given(a) + 1 /\ Given(a) \in Int
      <4>1. PICK n \in Nat : n = Len(acts[a]) /\ n - 1 = Len(acts'[a])
        BY <2>d, <2>2, <3>4
      <4>2. PICK k \in {0, 1} : /\ Given(a) = submitted[a] - n - k
                               /\ Given(a)' = submitted[a] - (n - 1) - k
        BY <2>a, <3>3, <4>1 DEF Given
      <4>3. submitted[a] \in Nat
        BY <3>4
      <4> QED BY <4>1, <4>2, <4>3
    <3>6. NewOK(a)'
      BY <2>a, <2>b DEF OrderOK, NewOK, Fresh
    <3>7. RankOK(a)'
      <4> SUFFICES ASSUME NEW i \in 1..Len(acts'[a]) PROVE acts'[a][i].n = Given(a) + 1 + i
        BY <3>5 DEF RankOK
      <4>1. i + 1 \in 1..Len(acts[a]) /\ acts'[a][i] = acts[a][i + 1]
        BY <2>d, <2>2, <3>4
      <4>2. acts[a][i + 1].n = Given(a) + (i + 1)
        BY <2>b, <4>1 DEF OrderOK, RankOK
      <4> QED BY <3>5, <4>1, <4>2
    <3>8. job'[t].n = Given(a) + 1
      BY <2>a, <2>b, <2>d, <2>2 DEF OrderOK, RankOK
    <3>9. ASSUME ~down PROVE NextOK(a)'
      <4>1. Given(a) = begun[a]
        BY <2>b, <3>2, <3>9 DEF OrderOK, NextOK
      <4> QED BY <2>a, <2>f, <3>1, <3>2, <3>5, <3>8, <4>1 DEF NextOK
    <3> QED BY <2>a, <3>6, <3>7, <3>9 DEF OrderOK
  <2> QED BY <2>1, <2>2
<1> QED BY <1>1, <1>2

LEMMA NextKeepsSInv == SInv /\ [Next]_vars => SInv'
<1> SUFFICES ASSUME SInv, [Next]_vars PROVE SInv'
  OBVIOUS
<1>1. IInv'
  BY NextKeepsIInv DEF SInv
<1>2. (down => threads = <<>>)'
  BY DEF SInv, Next, SubmitStep, WorkerStep, Submit, Test, Mark, Defer, Take, Return, Complete,
     Poll, Unmark, Execute, Exit, Shutdown, vars
<1>3. ASSUME NEW t \in Thread, Test(t) \/ Return(t) \/ Complete(t) \/ Unmark(t) \/ Exit(t)
      PROVE  \A a \in Actor : OrderOK(a)'
  <2>1. /\ \A u \in Thread \ {t} : pc'[u] = pc[u] /\ job'[u] = job[u]
        /\ UNCHANGED <<submitted, begun, acts, threads, down>>
    BY <1>3 DEF SInv, IInv, TypeOK, Test, Return, Complete, Unmark, Exit, Goto
  <2>2. \/ pc[t] \notin Fresh \cup {"execute"} /\ pc'[t] \notin Fresh \cup {"execute"}
        \/ pc[t] \in Fresh /\ pc'[t] \in Fresh /\ job'[t] = job[t]
    BY <1>3 DEF SInv, IInv, TypeOK, Test, Return, Complete, Unmark, Exit, Goto, Fresh
  <2> QED BY <2>1, <2>2, QuietKeeps DEF SInv
<1>4. ASSUME Shutdown PROVE \A a \in Actor : OrderOK(a)'
  <2> TAKE a \in Actor
  <2>1. Incoming(a)' <=> Incoming(a)
    BY <1>4 DEF Shutdown, Incoming
  <2>2. Given(a)' = Given(a)
    BY <1>4, <2>1 DEF Shutdown, Given
  <2> QED BY <1>4, <2>2 DEF SInv, OrderOK, NewOK, RankOK, Shutdown
<1>5. ASSUME UNCHANGED vars PROVE \A a \in Actor : OrderOK(a)'
  BY <1>5 DEF SInv, OrderOK, NewOK, RankOK, NextOK, Given, Incoming, InQueue, InExecute, vars
<1>6. \A a \in Actor : OrderOK(a)'
  BY <1>3, <1>4, <1>5, SubmitOrder, MarkOrder, DeferOrder, ExecuteOrder, TakeOrder, PollOrder
     DEF Next, SubmitStep, WorkerStep, Thread
<1> QED BY <1>1, <1>2, <1>6 DEF SInv

(* The counters of tasks submitted and begun agree with the queues.        *)
THEOREM PoolOrder == Spec => []SInv
BY InitSInv, NextKeepsSInv, PTL DEF Spec

-----------------------------------------------------------------------------
(* The refinement: Submit, Take, Return and Shutdown are the steps of      *)
(* SerialExecutor, and nothing else shows.                                 *)
Running(a) == \E t \in Worker : pc[t] = "run" /\ job[t].act = a

Runs == [a \in Actor |-> Running(a)]

LEMMA SubmitIsSubmit ==
    ASSUME SInv, NEW t \in Submitter, NEW a \in Actor, Submit(t, a)
    PROVE  Serial!Submit(a)
<1>1. \A u \in Worker : pc'[u] = pc[u] /\ job'[u] = job[u]
  BY PoolAssumption DEF SInv, IInv, TypeOK, Submit, Goto, Thread
<1>2. Runs' = Runs
  BY <1>1 DEF Runs, Running
<1> QED BY <1>2 DEF Submit, Serial!Submit, Runs, Running

LEMMA TakeIsBegin ==
    ASSUME SInv, NEW t \in Worker, Take(t), NEW b \in Actor, b = Head(threads).act
    PROVE  Serial!Begin(b)
<1>1. threads # <<>>
  BY DEF Take
<1>2. /\ pc[t] = "idle" /\ pc'[t] = "run" /\ job'[t] = Head(threads)
      /\ \A u \in Worker \ {t} : pc'[u] = pc[u] /\ job'[u] = job[u]
  BY DEF SInv, IInv, TypeOK, Take, Goto, Thread
<1>3. ~Running(b)
  BY <1>1, HeadIsNext DEF Running, Thread, Holding
<1>4. Runs' = [Runs EXCEPT ![b] = TRUE]
  BY <1>1, <1>2, <1>3, ZenonT(60) DEF Runs, Running
<1>5. begun[b] < submitted[b] /\ Head(threads).n = begun[b] + 1
  <2>1. Given(b) = begun[b] + 1 /\ Head(threads).n = begun[b] + 1
    BY <1>1, HeadIsNext
  <2>2. Given(b) <= submitted[b] /\ begun[b] \in Nat /\ submitted[b] \in Nat
    <3>1. Len(acts[b]) \in Nat /\ begun[b] \in Nat /\ submitted[b] \in Nat
      BY <1>1, PoolAssumption DEF SInv, IInv, TypeOK
    <3> QED BY <3>1 DEF Given
  <2> QED BY <2>1, <2>2
<1>6. ~down /\ begun' = [begun EXCEPT ![b] = begun[b] + 1] /\ UNCHANGED <<submitted, down>>
  BY <1>1, <1>5, HeadIsNext DEF Take
<1>7. ~Runs[b]
  BY <1>1, <1>3 DEF Runs
<1> QED BY <1>4, <1>5, <1>6, <1>7 DEF Serial!Begin, Runs, Running

LEMMA ReturnIsEnd ==
    ASSUME SInv, NEW t \in Worker, Return(t), NEW b \in Actor, b = job[t].act
    PROVE  Serial!End(b)
<1>1. /\ pc[t] = "run" /\ pc'[t] = "complete"
      /\ \A u \in Worker \ {t} : pc'[u] = pc[u]
      /\ UNCHANGED <<job, submitted, begun, down>>
  BY DEF SInv, IInv, TypeOK, Return, Goto, Thread
<1>3. \A u \in Worker : pc[u] = "run" /\ job[u].act = b => u = t
  BY <1>1 DEF SInv, IInv, TokenOK, Thread, Holding
<1>4. Running(b) /\ ~Running(b)'
  BY <1>1, <1>3 DEF Running
<1>5. \A a \in Actor \ {b} : Running(a)' <=> Running(a)
  BY <1>1 DEF Running
<1>6. Runs' = [Runs EXCEPT ![b] = FALSE] /\ Runs[b]
  <2>1. Runs[b] /\ Runs'[b] = FALSE
    BY <1>4 DEF Runs, Running
  <2>2. \A a \in Actor \ {b} : Runs'[a] = Runs[a]
    BY <1>5 DEF Runs, Running
  <2> QED BY <2>1, <2>2 DEF Runs
<1> QED BY <1>1, <1>6 DEF Serial!End, Runs, Running

(* A thread that neither begins nor ends a task shows nothing.             *)
LEMMA InnerStep ==
    ASSUME SInv, NEW t \in Thread, pc[t] # "run", pc'[t] # "run",
           \A u \in Thread \ {t} : pc'[u] = pc[u] /\ job'[u] = job[u],
           UNCHANGED <<submitted, begun, down>>
    PROVE  UNCHANGED Serial!vars
<1>1. Runs' = Runs
  BY DEF Runs, Running, Thread
<1> QED BY <1>1 DEF Serial!vars, Runs, Running

LEMMA StepIsSerial == SInv /\ [Next]_vars => [Serial!Next]_Serial!vars
<1> SUFFICES ASSUME SInv, [Next]_vars PROVE [Serial!Next]_Serial!vars
  OBVIOUS
<1>1. ASSUME NEW t \in Submitter, NEW a \in Actor, Submit(t, a) PROVE Serial!Next
  BY <1>1, SubmitIsSubmit DEF Serial!Next
<1>2. ASSUME NEW t \in Worker, Take(t) PROVE Serial!Next
  <2>1. PICK b \in Actor : b = Head(threads).act
    BY <1>2, HeadIsNext, TaskActs DEF Take
  <2>2. Serial!Begin(b)
    BY <1>2, <2>1, TakeIsBegin
  <2> QED BY <2>2 DEF Serial!Next
<1>3. ASSUME NEW t \in Worker, Return(t) PROVE Serial!Next
  <2>1. PICK b \in Actor : b = job[t].act
    BY <1>3, BusyHasTask, TaskActs DEF SInv, IInv, Thread, Return, Goto
  <2>2. Serial!End(b)
    BY <1>3, <2>1, ReturnIsEnd
  <2> QED BY <2>2 DEF Serial!Next
<1>4. ASSUME NEW t \in Thread,
             \/ Test(t) \/ Mark(t) \/ Defer(t) \/ Complete(t) \/ Poll(t) \/ Unmark(t)
             \/ Execute(t) \/ Exit(t)
      PROVE  UNCHANGED Serial!vars
  <2>1. pc[t] # "run" /\ pc'[t] # "run" /\ UNCHANGED <<submitted, begun, down>>
    BY <1>4 DEF SInv, IInv, TypeOK, Test, Mark, Defer, Complete, Poll, Unmark, Execute, Exit, Goto
  <2>2. \A u \in Thread \ {t} : pc'[u] = pc[u] /\ job'[u] = job[u]
    BY <1>4 DEF SInv, IInv, TypeOK, Test, Mark, Defer, Complete, Poll, Unmark, Execute, Exit, Goto
  <2> QED BY <2>1, <2>2, InnerStep
<1>5. ASSUME Shutdown PROVE Serial!Next
  <2>1. Runs' = Runs
    BY <1>5 DEF Shutdown, Runs, Running
  <2> QED BY <1>5, <2>1 DEF Shutdown, Serial!Next, Serial!Shutdown, Runs, Running
<1>6. ASSUME UNCHANGED vars PROVE UNCHANGED Serial!vars
  <2>1. Runs' = Runs
    BY <1>6 DEF vars, Runs, Running
  <2> QED BY <1>6, <2>1 DEF vars, Serial!vars, Runs, Running
<1> QED BY <1>1, <1>2, <1>3, <1>4, <1>5, <1>6 DEF Next, SubmitStep, WorkerStep, Thread

LEMMA InitIsSerial == Init => Serial!Init
<1> SUFFICES ASSUME Init PROVE Serial!Init
  OBVIOUS
<1>1. \A a \in Actor : ~Running(a)
  BY DEF Init, Running, Thread
<1>2. Runs = [a \in Actor |-> FALSE]
  BY <1>1 DEF Runs, Running
<1> QED BY <1>2 DEF Init, Serial!Init, Runs, Running

(* The pool implements SerialExecutor: the tasks of an actor begin in the  *)
(* order in which they were submitted, one at a time, none twice and none  *)
(* left out before a later one, until the pool is shut down.               *)
THEOREM PoolImplementsSerial == Spec => Serial!Safety
BY PoolOrder, InitIsSerial, StepIsSerial, PTL DEF Spec, Serial!Safety
=============================================================================
