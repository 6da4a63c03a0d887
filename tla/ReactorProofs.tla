---------------------------- MODULE ReactorProofs ----------------------------
(***************************************************************************)
(* For any connections, endings and number of chunks: no frame that a      *)
(* worker queued is forgotten, the selector does not sleep on a task, and  *)
(* it does not close the channel of a client that is still there and go on *)
(* without the frames queued for it.                                       *)
(*                                                                         *)
(* The handlers of a connection exist from its accept on (FreshOK), and    *)
(* what select() found stays true until the key is handled, as only the    *)
(* selector thread reads (SelectedOK).  A frame is watched from the        *)
(* statement that queues it, through the task, to the interest set; one    *)
(* queued after the selector found the queue empty is still at one of the  *)
(* first two (WatchedOK), so neither narrowing the interest nor closing    *)
(* the channel leaves it behind unannounced.                               *)
(***************************************************************************)
EXTENDS Reactor, TLAPS

Fresh(c) == client[c] \in {"absent", "waiting"}

(* What was read or is processed was sent before.                          *)
CountOK == \A c \in Conn : unread[c] + pending[c] <= chunks

FreshOK(c) == Fresh(c) =>
    /\ key[c] = "none" /\ writeQueue[c] = 0
    /\ c \notin connections /\ \A d \in Conn : target[d] # c

SelectedOK(c) ==
    /\ <<c, "accept">> \in selected => client[c] = "waiting"
    /\ <<c, "read">> \in selected => ~Fresh(c) /\ (client[c] = "connected" => unread[c] > 0)
    /\ <<c, "write">> \in selected \/ writing = c => ~Fresh(c)

(* The selector runs all tasks before it sleeps; later ones wake it.       *)
TasksOK ==
    at \notin {"tasks", "crashed"} /\ selectorTasks # <<>> => wakeup \/ \E c \in Conn : pc[c] = "wake"

(* A queued frame is announced, or the key is interested in writing, or    *)
(* the client hung up, or the selector thread is gone.                     *)
WatchedOK(c) == writeQueue[c] > 0 =>
    /\ key[c] = "valid" => "write" \in interest[c] \/ Announced(c)
    /\ client[c] = "connected" /\ key[c] # "valid" => at = "crashed" \/ Announced(c)
    /\ at = "empty" /\ writing = c => Announced(c)

IInv == /\ TypeOK /\ CountOK /\ TasksOK
        /\ \A c \in Conn : FreshOK(c) /\ SelectedOK(c) /\ WatchedOK(c)

-----------------------------------------------------------------------------
(* The invariant holds initially.                                          *)
LEMMA InitIInv == Init => IInv
<1> SUFFICES ASSUME Init PROVE IInv
  OBVIOUS
<1>1. TypeOK
  <2>1. writeQueue \in [Conn -> Nat] /\ selectorTasks \in Seq(Conn)
    BY DEF Init
  <2>2. /\ unread \in [Conn -> 0..MaxChunks] /\ chunks \in 0..MaxChunks
        /\ pending \in [Conn -> 0..MaxChunks]
    BY ReactorAssumption DEF Init
  <2> QED BY <2>1, <2>2 DEF Init, TypeOK
<1>2. CountOK /\ \A c \in Conn : FreshOK(c) /\ SelectedOK(c)
  BY ReactorAssumption DEF Init, CountOK, FreshOK, SelectedOK, Fresh
<1>3. TasksOK /\ \A c \in Conn : WatchedOK(c)
  BY DEF Init, TasksOK, WatchedOK
<1> QED BY <1>1, <1>2, <1>3 DEF IInv

(* A step that takes no task and leaves the workers that are about to post *)
(* one where they are.                                                     *)
LEMMA AnnouncedStays ==
    ASSUME NEW c \in Conn, Announced(c), selectorTasks' = selectorTasks,
           \A d \in Conn : pc[d] = "post" => pc'[d] = "post" /\ target'[d] = target[d]
    PROVE  Announced(c)'
BY DEF Announced

LEMMA ClientConnectsKeeps ==
    ASSUME IInv, NEW c \in Conn, ClientConnects(c)
    PROVE  IInv'
<1>a. /\ client[c] = "absent"
      /\ client' = [client EXCEPT ![c] = "waiting"]
  BY DEF ClientConnects
<1>b. UNCHANGED <<unread, chunks, room, key, interest, writeQueue, connections, shouldTerminate,
                  selectorTasks, wakeup, selected, at, writing, pending, pc, target, ending>>
  BY DEF ClientConnects, clients, channel, protocol, selector, shared, worker
<1>1. TypeOK'
  BY <1>a, <1>b, ReactorAssumption DEF IInv, TypeOK, ReadOnly, ReadWrite
<1>2. CountOK' /\ TasksOK'
  BY <1>b DEF IInv, CountOK, TasksOK
<1>3. ASSUME NEW e \in Conn PROVE FreshOK(e)' /\ SelectedOK(e)' /\ WatchedOK(e)'
  <2>1. TypeOK /\ FreshOK(e) /\ SelectedOK(e) /\ WatchedOK(e) /\ FreshOK(c) /\ SelectedOK(c)
    BY <1>3 DEF IInv
  <2>2. FreshOK(e)'
    BY <1>3, <1>a, <1>b, <2>1, ReactorAssumption DEF TypeOK, FreshOK, SelectedOK, Fresh
  <2>3. SelectedOK(e)'
    BY <1>3, <1>a, <1>b, <2>1, ReactorAssumption DEF TypeOK, FreshOK, SelectedOK, Fresh
  <2>4. Announced(e) => Announced(e)'
    BY <1>a, <1>b, <2>1, AnnouncedStays DEF TypeOK
  <2>5. WatchedOK(e)'
    BY <1>3, <1>a, <1>b, <2>1, <2>4, ReactorAssumption DEF TypeOK, WatchedOK, FreshOK, SelectedOK, Fresh
  <2> QED BY <2>2, <2>3, <2>5
<1> QED BY <1>1, <1>2, <1>3 DEF IInv

LEMMA ClientSendsKeeps ==
    ASSUME IInv, NEW c \in Conn, ClientSends(c)
    PROVE  IInv'
<1>a. /\ client[c] = "connected"
      /\ chunks < MaxChunks
      /\ unread' = [unread EXCEPT ![c] = @ + 1]
      /\ chunks' = chunks + 1
  BY DEF ClientSends
<1>b. UNCHANGED <<client, room, key, interest, writeQueue, connections, shouldTerminate,
                  selectorTasks, wakeup, selected, at, writing, pending, pc, target, ending>>
  BY DEF ClientSends, clients, channel, protocol, selector, shared, worker
<1>c. chunks' \in 0..MaxChunks /\ unread[c] + 1 \in 0..MaxChunks
  BY <1>a, ReactorAssumption DEF IInv, TypeOK, CountOK
<1>d. unread' \in [Conn -> 0..MaxChunks]
  BY <1>a, <1>c DEF IInv, TypeOK
<1>1. TypeOK'
  BY <1>b, <1>c, <1>d DEF IInv, TypeOK
<1>2. TasksOK'
  BY <1>b DEF IInv, TasksOK
<1>3. CountOK'
  BY <1>a, <1>b DEF IInv, TypeOK, CountOK
<1>4. ASSUME NEW e \in Conn PROVE FreshOK(e)' /\ SelectedOK(e)' /\ WatchedOK(e)'
  <2>1. TypeOK /\ FreshOK(e) /\ SelectedOK(e) /\ WatchedOK(e) /\ FreshOK(c) /\ SelectedOK(c)
    BY <1>4 DEF IInv
  <2>2. FreshOK(e)'
    BY <1>4, <1>a, <1>b, <2>1, ReactorAssumption DEF TypeOK, FreshOK, SelectedOK, Fresh
  <2>3. SelectedOK(e)'
    BY <1>4, <1>a, <1>b, <2>1, ReactorAssumption DEF TypeOK, FreshOK, SelectedOK, Fresh
  <2>4. Announced(e) => Announced(e)'
    BY <1>a, <1>b, <2>1, AnnouncedStays DEF TypeOK
  <2>5. WatchedOK(e)'
    BY <1>4, <1>a, <1>b, <2>1, <2>4, ReactorAssumption DEF TypeOK, WatchedOK, FreshOK, SelectedOK, Fresh
  <2> QED BY <2>2, <2>3, <2>5
<1> QED BY <1>1, <1>2, <1>3, <1>4 DEF IInv

LEMMA ClientReadsKeeps ==
    ASSUME IInv, NEW c \in Conn, ClientReads(c)
    PROVE  IInv'
<1>a. /\ room' = [room EXCEPT ![c] = TRUE]
  BY DEF ClientReads
<1>b. UNCHANGED <<client, unread, chunks, key, interest, writeQueue, connections, shouldTerminate,
                  selectorTasks, wakeup, selected, at, writing, pending, pc, target, ending>>
  BY DEF ClientReads, clients, channel, protocol, selector, shared, worker
<1>1. TypeOK'
  BY <1>a, <1>b, ReactorAssumption DEF IInv, TypeOK, ReadOnly, ReadWrite
<1>2. CountOK' /\ TasksOK'
  BY <1>b DEF IInv, CountOK, TasksOK
<1>3. ASSUME NEW e \in Conn PROVE FreshOK(e)' /\ SelectedOK(e)' /\ WatchedOK(e)'
  <2>1. TypeOK /\ FreshOK(e) /\ SelectedOK(e) /\ WatchedOK(e) /\ FreshOK(c) /\ SelectedOK(c)
    BY <1>3 DEF IInv
  <2>2. FreshOK(e)'
    BY <1>b, <2>1 DEF FreshOK, SelectedOK, Fresh
  <2>3. SelectedOK(e)'
    BY <1>b, <2>1 DEF FreshOK, SelectedOK, Fresh
  <2>4. Announced(e) => Announced(e)'
    BY <1>a, <1>b, <2>1, AnnouncedStays DEF TypeOK
  <2>5. WatchedOK(e)'
    BY <1>3, <1>a, <1>b, <2>1, <2>4, ReactorAssumption DEF TypeOK, WatchedOK, FreshOK, SelectedOK, Fresh
  <2> QED BY <2>2, <2>3, <2>5
<1> QED BY <1>1, <1>2, <1>3 DEF IInv

LEMMA ClientHangsUpKeeps ==
    ASSUME IInv, NEW c \in Conn, ClientHangsUp(c)
    PROVE  IInv'
<1>a. /\ client[c] = "connected"
      /\ client' = [client EXCEPT ![c] = "hungUp"]
  BY DEF ClientHangsUp
<1>b. UNCHANGED <<unread, chunks, room, key, interest, writeQueue, connections, shouldTerminate,
                  selectorTasks, wakeup, selected, at, writing, pending, pc, target, ending>>
  BY DEF ClientHangsUp, clients, channel, protocol, selector, shared, worker
<1>1. TypeOK'
  BY <1>a, <1>b, ReactorAssumption DEF IInv, TypeOK, ReadOnly, ReadWrite
<1>2. CountOK' /\ TasksOK'
  BY <1>b DEF IInv, CountOK, TasksOK
<1>3. ASSUME NEW e \in Conn PROVE FreshOK(e)' /\ SelectedOK(e)' /\ WatchedOK(e)'
  <2>1. TypeOK /\ FreshOK(e) /\ SelectedOK(e) /\ WatchedOK(e) /\ FreshOK(c) /\ SelectedOK(c)
    BY <1>3 DEF IInv
  <2>2. FreshOK(e)'
    BY <1>3, <1>a, <1>b, <2>1, ReactorAssumption DEF TypeOK, FreshOK, SelectedOK, Fresh
  <2>3. SelectedOK(e)'
    BY <1>3, <1>a, <1>b, <2>1, ReactorAssumption DEF TypeOK, FreshOK, SelectedOK, Fresh
  <2>4. Announced(e) => Announced(e)'
    BY <1>a, <1>b, <2>1, AnnouncedStays DEF TypeOK
  <2>5. WatchedOK(e)'
    BY <1>3, <1>a, <1>b, <2>1, <2>4, ReactorAssumption DEF TypeOK, WatchedOK, FreshOK, SelectedOK, Fresh
  <2> QED BY <2>2, <2>3, <2>5
<1> QED BY <1>1, <1>2, <1>3 DEF IInv

LEMMA SelectKeeps ==
    ASSUME IInv, Select
    PROVE  IInv'
<1>a. /\ at = "select"
      /\ at' = "tasks"
      /\ wakeup' = FALSE
      /\ key' = [c \in Conn |-> IF key[c] = "cancelled" THEN "none" ELSE key[c]]
      /\ selected' \subseteq Ready \cup Waiting
  BY DEF Select, SelectorAt
<1>b. UNCHANGED <<client, unread, chunks, room, interest, writeQueue,
                  connections, shouldTerminate, selectorTasks, writing, pending, pc, target, ending>>
  BY DEF Select, SelectorAt, clients, channel, protocol, selector, shared, worker
<1>c. Ready \cup Waiting \subseteq Conn \X {"accept", "read", "write"}
  BY DEF Ready, Waiting
<1>d. key' \in [Conn -> {"none", "valid", "cancelled"}]
  BY <1>a DEF IInv, TypeOK
<1>1. TypeOK'
  BY <1>c, <1>d, <1>a, <1>b, ReactorAssumption DEF IInv, TypeOK, ReadOnly, ReadWrite
<1>2. CountOK'
  BY <1>b DEF IInv, CountOK
<1>3. TasksOK'
  BY <1>a, <1>b DEF IInv, TypeOK, TasksOK
<1>4. ASSUME NEW e \in Conn PROVE SelectedOK(e)'
  <2>1. TypeOK /\ FreshOK(e) /\ SelectedOK(e)
    BY <1>4 DEF IInv
  <2>2. <<e, "accept">> \in Ready \cup Waiting => client[e] = "waiting"
    BY DEF Ready, Waiting
  <2>3. <<e, "read">> \in Ready \cup Waiting =>
           key[e] = "valid" /\ (client[e] = "hungUp" \/ unread[e] > 0)
    BY DEF Ready, Waiting
  <2>4. <<e, "write">> \in Ready \cup Waiting => key[e] = "valid"
    BY DEF Ready, Waiting
  <2>5. key[e] = "valid" => ~Fresh(e)
    BY <2>1 DEF FreshOK
  <2>6. Fresh(e)' = Fresh(e) /\ writing' = writing /\ client' = client /\ unread' = unread
    BY <1>b DEF Fresh
  <2> QED BY <1>a, <2>1, <2>2, <2>3, <2>4, <2>5, <2>6 DEF SelectedOK
<1>5. ASSUME NEW e \in Conn PROVE FreshOK(e)' /\ WatchedOK(e)'
  <2>1. TypeOK /\ FreshOK(e) /\ SelectedOK(e) /\ WatchedOK(e)
    BY <1>5 DEF IInv
  <2>2. FreshOK(e)'
    BY <1>5, <1>a, <1>b, <2>1, ReactorAssumption DEF TypeOK, FreshOK, SelectedOK, Fresh
  <2>4. Announced(e) => Announced(e)'
    BY <1>a, <1>b, <2>1, AnnouncedStays DEF TypeOK
  <2>5. WatchedOK(e)'
    BY <1>5, <1>a, <1>b, <2>1, <2>4, ReactorAssumption DEF TypeOK, WatchedOK, FreshOK, SelectedOK, Fresh
  <2> QED BY <2>2, <2>5
<1> QED BY <1>1, <1>2, <1>3, <1>4, <1>5 DEF IInv

LEMMA RunTaskKeeps ==
    ASSUME IInv, RunTask
    PROVE  IInv'
<1>a. /\ selectorTasks # <<>>
      /\ at = "tasks"
      /\ selectorTasks' = Tail(selectorTasks)
      /\ \/ /\ at' = "tasks" /\ key[Head(selectorTasks)] = "valid"
            /\ interest' = [interest EXCEPT ![Head(selectorTasks)] = ReadWrite]
         \/ at' = "crashed" /\ interest' = interest /\ key[Head(selectorTasks)] # "valid"
  BY DEF RunTask, SelectorAt
<1>b. UNCHANGED <<client, unread, chunks, room, key, writeQueue, connections,
                  shouldTerminate, wakeup, selected, writing, pending, pc, target, ending>>
  BY DEF RunTask, SelectorAt, clients, channel, protocol, selector, shared, worker
<1>c. selectorTasks \in Seq(Conn) /\ Head(selectorTasks) \in Conn /\ selectorTasks' \in Seq(Conn)
  BY <1>a DEF IInv, TypeOK
<1>e. ReadWrite \in SUBSET {"read", "write"}
  BY DEF ReadWrite
<1>d. interest' \in [Conn -> SUBSET {"read", "write"}] /\ at' \in {"tasks", "crashed"}
  <2>1. interest \in [Conn -> SUBSET {"read", "write"}]
    BY DEF IInv, TypeOK
  <2> QED BY <1>a, <1>e, <2>1
<1>1. TypeOK'
  BY <1>c, <1>d, <1>a, <1>b, ReactorAssumption DEF IInv, TypeOK, ReadOnly, ReadWrite
<1>2. CountOK'
  BY <1>b DEF IInv, CountOK
<1>3. TasksOK'
  BY <1>a, <1>b DEF IInv, TypeOK, TasksOK
<1>4. ASSUME NEW e \in Conn, WatchedOK(e) PROVE WatchedOK(e)'
  <2>1. TypeOK
    BY DEF IInv
  <2>2. ASSUME e # Head(selectorTasks), Announced(e) PROVE Announced(e)'
    <3>1. ASSUME NEW i \in 1..Len(selectorTasks), selectorTasks[i] = e
          PROVE  \E j \in 1..Len(selectorTasks') : selectorTasks'[j] = e
      <4>1. i # 1 /\ i - 1 \in 1..Len(Tail(selectorTasks)) /\ Tail(selectorTasks)[i - 1] = e
        BY <2>2, <3>1, <1>a, <1>c
      <4> QED BY <4>1, <1>a
    <3> QED BY <2>2, <3>1, <1>b DEF Announced
  <2>3. CASE e # Head(selectorTasks)
    <3>1. interest'[e] = interest[e]
      BY <1>a, <1>c, <2>1, <2>3 DEF TypeOK
    <3> QED BY <1>4, <1>a, <1>b, <2>2, <2>3, <3>1 DEF WatchedOK
  <2>4. CASE e = Head(selectorTasks)
    <3>1. at' = "crashed" \/ key[e] = "valid"
      BY <1>a, <2>4
    <3>2. "write" \in interest'[e] \/ key[e] # "valid"
      BY <1>a, <1>c, <2>1, <2>4 DEF TypeOK, ReadWrite
    <3> QED BY <3>1, <3>2, <1>a, <1>b DEF WatchedOK
  <2> QED BY <2>3, <2>4
<1>5. ASSUME NEW e \in Conn PROVE FreshOK(e)' /\ SelectedOK(e)' /\ WatchedOK(e)'
  <2>1. TypeOK /\ FreshOK(e) /\ SelectedOK(e) /\ WatchedOK(e)
    BY <1>5 DEF IInv
  <2>2. FreshOK(e)'
    BY <1>b, <2>1 DEF FreshOK, SelectedOK, Fresh
  <2>3. SelectedOK(e)'
    BY <1>b, <2>1 DEF FreshOK, SelectedOK, Fresh
  <2>4. WatchedOK(e)'
    BY <1>5, <1>4, <2>1
  <2> QED BY <2>2, <2>3, <2>4
<1> QED BY <1>1, <1>2, <1>3, <1>4, <1>5 DEF IInv

LEMMA TasksDoneKeeps ==
    ASSUME IInv, TasksDone
    PROVE  IInv'
<1>a. /\ at = "tasks"
      /\ at' = "keys"
      /\ selectorTasks = <<>>
  BY DEF TasksDone, SelectorAt
<1>b. UNCHANGED <<client, unread, chunks, room, key, interest, writeQueue, connections,
                  shouldTerminate, selectorTasks, wakeup, selected, writing, pending, pc, target, ending>>
  BY DEF TasksDone, SelectorAt, clients, channel, protocol, selector, shared, worker
<1>1. TypeOK'
  BY <1>a, <1>b, ReactorAssumption DEF IInv, TypeOK, ReadOnly, ReadWrite
<1>2. CountOK'
  BY <1>b DEF IInv, CountOK
<1>3. TasksOK'
  BY <1>a, <1>b DEF IInv, TypeOK, TasksOK
<1>4. ASSUME NEW e \in Conn PROVE FreshOK(e)' /\ SelectedOK(e)' /\ WatchedOK(e)'
  <2>1. TypeOK /\ FreshOK(e) /\ SelectedOK(e) /\ WatchedOK(e)
    BY <1>4 DEF IInv
  <2>2. FreshOK(e)'
    BY <1>b, <2>1 DEF FreshOK, SelectedOK, Fresh
  <2>3. SelectedOK(e)'
    BY <1>b, <2>1 DEF FreshOK, SelectedOK, Fresh
  <2>4. Announced(e) => Announced(e)'
    BY <1>a, <1>b, <2>1, AnnouncedStays DEF TypeOK
  <2>5. WatchedOK(e)'
    BY <1>4, <1>a, <1>b, <2>1, <2>4, ReactorAssumption DEF TypeOK, WatchedOK, FreshOK, SelectedOK, Fresh
  <2> QED BY <2>2, <2>3, <2>5
<1> QED BY <1>1, <1>2, <1>3, <1>4 DEF IInv

LEMMA AcceptKeeps ==
    ASSUME IInv, NEW c \in Conn, Accept(c)
    PROVE  IInv'
<1>a. /\ at = "keys"
      /\ <<c, "accept">> \in selected
      /\ selected' = selected \ {<<c, "accept">>}
      /\ client' = [client EXCEPT ![c] = "connected"]
      /\ key' = [key EXCEPT ![c] = "valid"]
      /\ interest' = [interest EXCEPT ![c] = ReadOnly]
      /\ connections' = connections \cup {c}
  BY DEF Accept, SelectorAt
<1>b. UNCHANGED <<unread, chunks, room, writeQueue, shouldTerminate, selectorTasks,
                  wakeup, at, writing, pending, pc, target, ending>>
  BY DEF Accept, SelectorAt, clients, channel, protocol, selector, shared, worker
<1>1. TypeOK'
  BY <1>a, <1>b, ReactorAssumption DEF IInv, TypeOK, ReadOnly, ReadWrite
<1>2. CountOK' /\ TasksOK'
  BY <1>b DEF IInv, CountOK, TasksOK
<1>3. ASSUME NEW e \in Conn PROVE FreshOK(e)' /\ SelectedOK(e)' /\ WatchedOK(e)'
  <2>1. TypeOK /\ FreshOK(e) /\ SelectedOK(e) /\ WatchedOK(e) /\ FreshOK(c) /\ SelectedOK(c)
    BY <1>3 DEF IInv
  <2>2. FreshOK(e)'
    BY <1>3, <1>a, <1>b, <2>1, ReactorAssumption DEF TypeOK, FreshOK, SelectedOK, Fresh
  <2>3. SelectedOK(e)'
    BY <1>3, <1>a, <1>b, <2>1, ReactorAssumption DEF TypeOK, FreshOK, SelectedOK, Fresh
  <2>4. Announced(e) => Announced(e)'
    BY <1>a, <1>b, <2>1, AnnouncedStays DEF TypeOK
  <2>5. WatchedOK(e)'
    BY <1>3, <1>a, <1>b, <2>1, <2>4, ReactorAssumption DEF TypeOK, WatchedOK, FreshOK, SelectedOK, Fresh
  <2> QED BY <2>2, <2>3, <2>5
<1> QED BY <1>1, <1>2, <1>3 DEF IInv

LEMMA ReadChunkKeeps ==
    ASSUME IInv, NEW c \in Conn, Read(c), unread[c] > 0
    PROVE  IInv'
<1>a. /\ <<c, "read">> \in selected
      /\ selected' = selected \ {<<c, "read">>}
      /\ at = "keys"
      /\ unread[c] > 0
      /\ at' = at
      /\ unread' = [unread EXCEPT ![c] = @ - 1]
      /\ pending' = [pending EXCEPT ![c] = @ + 1]
      /\ key' = key /\ connections' = connections /\ shouldTerminate' = shouldTerminate
  BY DEF Read, SelectorAt, Close, protocol
<1>b. UNCHANGED <<client, chunks, room, interest, writeQueue,
                  selectorTasks, wakeup, writing, pc, target, ending>>
  BY DEF Read, SelectorAt, Close, clients, channel, protocol, selector, shared, worker
<1>c. unread' \in [Conn -> 0..MaxChunks] /\ pending[c] + 1 \in 0..MaxChunks
  BY <1>a, ReactorAssumption DEF IInv, TypeOK, CountOK
<1>d. pending' \in [Conn -> 0..MaxChunks]
  BY <1>a, <1>c DEF IInv, TypeOK
<1>1. TypeOK'
  BY <1>c, <1>d, <1>a, <1>b, ReactorAssumption DEF IInv, TypeOK, ReadOnly, ReadWrite
<1>2. CountOK'
  BY <1>a, <1>b DEF IInv, TypeOK, CountOK
<1>3. TasksOK'
  BY <1>a, <1>b DEF IInv, TypeOK, TasksOK
<1>4. ASSUME NEW e \in Conn PROVE FreshOK(e)' /\ SelectedOK(e)' /\ WatchedOK(e)'
  <2>1. TypeOK /\ FreshOK(e) /\ SelectedOK(e) /\ WatchedOK(e) /\ FreshOK(c) /\ SelectedOK(c)
    BY <1>4 DEF IInv
  <2>2. FreshOK(e)'
    BY <1>4, <1>a, <1>b, <2>1, ReactorAssumption DEF TypeOK, FreshOK, SelectedOK, Fresh
  <2>3. SelectedOK(e)'
    BY <1>4, <1>a, <1>b, <2>1, ReactorAssumption DEF TypeOK, FreshOK, SelectedOK, Fresh
  <2>4. Announced(e) => Announced(e)'
    BY <1>a, <1>b, <2>1, AnnouncedStays DEF TypeOK
  <2>5. WatchedOK(e)'
    BY <1>4, <1>a, <1>b, <2>1, <2>4, ReactorAssumption DEF TypeOK, WatchedOK, FreshOK, SelectedOK, Fresh
  <2> QED BY <2>2, <2>3, <2>5
<1> QED BY <1>1, <1>2, <1>3, <1>4 DEF IInv

LEMMA ReadClosesKeeps ==
    ASSUME IInv, NEW c \in Conn, Read(c), ~ (unread[c] > 0)
    PROVE  IInv'
<1>a. /\ <<c, "read">> \in selected
      /\ selected' = selected \ {<<c, "read">>}
      /\ at = "keys"
      /\ at' \in {"keys", "crashed"}
      /\ unread' = unread /\ pending' = pending
      /\ key' = [key EXCEPT ![c] = IF @ = "valid" THEN "cancelled" ELSE @]
      /\ connections' = connections \ {c}
      /\ shouldTerminate' = [shouldTerminate EXCEPT ![c] = TRUE]
  BY DEF Read, SelectorAt, Close, protocol
<1>b. UNCHANGED <<client, chunks, room, interest, writeQueue,
                  selectorTasks, wakeup, writing, pc, target, ending>>
  BY DEF Read, SelectorAt, Close, clients, channel, protocol, selector, shared, worker
<1>1. TypeOK'
  BY <1>a, <1>b, ReactorAssumption DEF IInv, TypeOK, ReadOnly, ReadWrite
<1>2. CountOK'
  BY <1>a, <1>b DEF IInv, TypeOK, CountOK
<1>3. TasksOK'
  BY <1>a, <1>b DEF IInv, TypeOK, TasksOK
<1>4. ASSUME NEW e \in Conn PROVE FreshOK(e)' /\ SelectedOK(e)' /\ WatchedOK(e)'
  <2>1. TypeOK /\ FreshOK(e) /\ SelectedOK(e) /\ WatchedOK(e) /\ FreshOK(c) /\ SelectedOK(c)
    BY <1>4 DEF IInv
  <2>2. FreshOK(e)'
    BY <1>4, <1>a, <1>b, <2>1, ReactorAssumption DEF TypeOK, FreshOK, SelectedOK, Fresh
  <2>3. SelectedOK(e)'
    BY <1>4, <1>a, <1>b, <2>1, ReactorAssumption DEF TypeOK, FreshOK, SelectedOK, Fresh
  <2>4. Announced(e) => Announced(e)'
    BY <1>a, <1>b, <2>1, AnnouncedStays DEF TypeOK
  <2>5. WatchedOK(e)'
    BY <1>4, <1>a, <1>b, <2>1, <2>4, ReactorAssumption DEF TypeOK, WatchedOK, FreshOK, SelectedOK, Fresh
  <2> QED BY <2>2, <2>3, <2>5
<1> QED BY <1>1, <1>2, <1>3, <1>4 DEF IInv

LEMMA WriteKeeps ==
    ASSUME IInv, NEW c \in Conn, Write(c)
    PROVE  IInv'
<1>a. /\ <<c, "write">> \in selected
      /\ selected' = selected \ {<<c, "write">>}
      /\ at = "keys"
      /\ \/ at' = "write" /\ writing' = c
         \/ at' = "keys" /\ writing' = writing
  BY DEF Write, SelectorAt
<1>b. UNCHANGED <<client, unread, chunks, room, key, interest, writeQueue,
                  connections, shouldTerminate, selectorTasks, wakeup, pending, pc, target, ending>>
  BY DEF Write, SelectorAt, clients, channel, protocol, selector, shared, worker
<1>1. TypeOK'
  BY <1>a, <1>b, ReactorAssumption DEF IInv, TypeOK, ReadOnly, ReadWrite
<1>2. CountOK'
  BY <1>b DEF IInv, CountOK
<1>3. TasksOK'
  BY <1>a, <1>b DEF IInv, TypeOK, TasksOK
<1>4. ASSUME NEW e \in Conn PROVE FreshOK(e)' /\ SelectedOK(e)' /\ WatchedOK(e)'
  <2>1. TypeOK /\ FreshOK(e) /\ SelectedOK(e) /\ WatchedOK(e) /\ FreshOK(c) /\ SelectedOK(c)
    BY <1>4 DEF IInv
  <2>2. FreshOK(e)'
    BY <1>b, <2>1 DEF FreshOK, Fresh
  <2>3. SelectedOK(e)'
    BY <1>4, <1>a, <1>b, <2>1, ReactorAssumption DEF TypeOK, FreshOK, SelectedOK, Fresh
  <2>4. Announced(e) => Announced(e)'
    BY <1>a, <1>b, <2>1, AnnouncedStays DEF TypeOK
  <2>5. WatchedOK(e)'
    BY <1>4, <1>a, <1>b, <2>1, <2>4, ReactorAssumption DEF TypeOK, WatchedOK, FreshOK, SelectedOK, Fresh
  <2> QED BY <2>2, <2>3, <2>5
<1> QED BY <1>1, <1>2, <1>3, <1>4 DEF IInv

LEMMA KeysDoneKeeps ==
    ASSUME IInv, KeysDone
    PROVE  IInv'
<1>a. /\ at = "keys"
      /\ at' = "select"
      /\ selected = {}
  BY DEF KeysDone, SelectorAt
<1>b. UNCHANGED <<client, unread, chunks, room, key, interest, writeQueue, connections,
                  shouldTerminate, selectorTasks, wakeup, selected, writing, pending, pc, target, ending>>
  BY DEF KeysDone, SelectorAt, clients, channel, protocol, selector, shared, worker
<1>1. TypeOK'
  BY <1>a, <1>b, ReactorAssumption DEF IInv, TypeOK, ReadOnly, ReadWrite
<1>2. CountOK'
  BY <1>b DEF IInv, CountOK
<1>3. TasksOK'
  BY <1>a, <1>b DEF IInv, TypeOK, TasksOK
<1>4. ASSUME NEW e \in Conn PROVE FreshOK(e)' /\ SelectedOK(e)' /\ WatchedOK(e)'
  <2>1. TypeOK /\ FreshOK(e) /\ SelectedOK(e) /\ WatchedOK(e)
    BY <1>4 DEF IInv
  <2>2. FreshOK(e)'
    BY <1>b, <2>1 DEF FreshOK, SelectedOK, Fresh
  <2>3. SelectedOK(e)'
    BY <1>b, <2>1 DEF FreshOK, SelectedOK, Fresh
  <2>4. Announced(e) => Announced(e)'
    BY <1>a, <1>b, <2>1, AnnouncedStays DEF TypeOK
  <2>5. WatchedOK(e)'
    BY <1>4, <1>a, <1>b, <2>1, <2>4, ReactorAssumption DEF TypeOK, WatchedOK, FreshOK, SelectedOK, Fresh
  <2> QED BY <2>2, <2>3, <2>5
<1> QED BY <1>1, <1>2, <1>3, <1>4 DEF IInv

LEMMA WriteFrameKeeps ==
    ASSUME IInv, NEW c \in Conn, WriteFrame(c)
    PROVE  IInv'
<1>a. /\ writing = c
      /\ writeQueue[c] > 0
      /\ writeQueue' = [writeQueue EXCEPT ![c] = @ - 1]
      /\ \E left \in BOOLEAN : room' = [room EXCEPT ![c] = left]
  BY DEF WriteFrame, SelectorAt
<1>b. UNCHANGED <<client, unread, chunks, key, interest, connections, shouldTerminate, selectorTasks,
                  wakeup, selected, at, writing, pending, pc, target, ending>>
  BY DEF WriteFrame, SelectorAt, clients, channel, protocol, selector, shared, worker
<1>1. TypeOK'
  BY <1>a, <1>b, ReactorAssumption DEF IInv, TypeOK, ReadOnly, ReadWrite
<1>2. CountOK' /\ TasksOK'
  BY <1>b DEF IInv, CountOK, TasksOK
<1>3. ASSUME NEW e \in Conn PROVE FreshOK(e)' /\ SelectedOK(e)' /\ WatchedOK(e)'
  <2>1. TypeOK /\ FreshOK(e) /\ SelectedOK(e) /\ WatchedOK(e) /\ FreshOK(c) /\ SelectedOK(c)
    BY <1>3 DEF IInv
  <2>2. FreshOK(e)'
    BY <1>3, <1>a, <1>b, <2>1, ReactorAssumption DEF TypeOK, FreshOK, SelectedOK, Fresh
  <2>3. SelectedOK(e)'
    BY <1>b, <2>1 DEF SelectedOK, Fresh
  <2>4. Announced(e) => Announced(e)'
    BY <1>a, <1>b, <2>1, AnnouncedStays DEF TypeOK
  <2>5. WatchedOK(e)'
    BY <1>3, <1>a, <1>b, <2>1, <2>4, ReactorAssumption DEF TypeOK, WatchedOK, FreshOK, SelectedOK, Fresh
  <2> QED BY <2>2, <2>3, <2>5
<1> QED BY <1>1, <1>2, <1>3 DEF IInv

LEMMA WritePartKeeps ==
    ASSUME IInv, NEW c \in Conn, WritePart(c)
    PROVE  IInv'
<1>a. /\ at = "write"
      /\ at' = "keys"
      /\ writing' = Nobody
  BY DEF WritePart, SelectorAt
<1>b. UNCHANGED <<client, unread, chunks, room, key, interest, writeQueue,
                  connections, shouldTerminate, selectorTasks, wakeup, selected, pending, pc, target, ending>>
  BY DEF WritePart, SelectorAt, clients, channel, protocol, selector, shared, worker
<1>1. TypeOK'
  BY <1>a, <1>b, ReactorAssumption DEF IInv, TypeOK, ReadOnly, ReadWrite
<1>2. CountOK'
  BY <1>b DEF IInv, CountOK
<1>3. TasksOK'
  BY <1>a, <1>b DEF IInv, TypeOK, TasksOK
<1>4. ASSUME NEW e \in Conn PROVE FreshOK(e)' /\ SelectedOK(e)' /\ WatchedOK(e)'
  <2>1. TypeOK /\ FreshOK(e) /\ SelectedOK(e) /\ WatchedOK(e) /\ FreshOK(c) /\ SelectedOK(c)
    BY <1>4 DEF IInv
  <2>2. FreshOK(e)'
    BY <1>b, <2>1 DEF FreshOK, Fresh
  <2>3. SelectedOK(e)'
    BY <1>4, <1>a, <1>b, <2>1, ReactorAssumption DEF TypeOK, FreshOK, SelectedOK, Fresh
  <2>4. Announced(e) => Announced(e)'
    BY <1>a, <1>b, <2>1, AnnouncedStays DEF TypeOK
  <2>5. WatchedOK(e)'
    BY <1>4, <1>a, <1>b, <2>1, <2>4, ReactorAssumption DEF TypeOK, WatchedOK, FreshOK, SelectedOK, Fresh
  <2> QED BY <2>2, <2>3, <2>5
<1> QED BY <1>1, <1>2, <1>3, <1>4 DEF IInv

LEMMA WriteFailsKeeps ==
    ASSUME IInv, NEW c \in Conn, WriteFails(c)
    PROVE  IInv'
<1>a. /\ writing = c
      /\ at = "write"
      /\ at' \in {"write", "crashed"}
      /\ key[c] # "valid" \/ client[c] = "hungUp"
      /\ key' = [key EXCEPT ![c] = IF @ = "valid" THEN "cancelled" ELSE @]
      /\ connections' = connections \ {c}
      /\ shouldTerminate' = [shouldTerminate EXCEPT ![c] = TRUE]
  BY DEF WriteFails, SelectorAt, Close
<1>b. UNCHANGED <<client, unread, chunks, room, interest, writeQueue,
                  selectorTasks, wakeup, selected, writing, pending, pc, target, ending>>
  BY DEF WriteFails, SelectorAt, Close, clients, channel, protocol, selector, shared, worker
<1>1. TypeOK'
  BY <1>a, <1>b, ReactorAssumption DEF IInv, TypeOK, ReadOnly, ReadWrite
<1>2. CountOK'
  BY <1>b DEF IInv, CountOK
<1>3. TasksOK'
  BY <1>a, <1>b DEF IInv, TypeOK, TasksOK
<1>4. ASSUME NEW e \in Conn PROVE FreshOK(e)' /\ SelectedOK(e)' /\ WatchedOK(e)'
  <2>1. TypeOK /\ FreshOK(e) /\ SelectedOK(e) /\ WatchedOK(e) /\ FreshOK(c) /\ SelectedOK(c)
    BY <1>4 DEF IInv
  <2>2. FreshOK(e)'
    BY <1>4, <1>a, <1>b, <2>1, ReactorAssumption DEF TypeOK, FreshOK, SelectedOK, Fresh
  <2>3. SelectedOK(e)'
    BY <1>b, <2>1 DEF SelectedOK, Fresh
  <2>4. Announced(e) => Announced(e)'
    BY <1>a, <1>b, <2>1, AnnouncedStays DEF TypeOK
  <2>5. WatchedOK(e)'
    BY <1>4, <1>a, <1>b, <2>1, <2>4, ReactorAssumption DEF TypeOK, WatchedOK, FreshOK, SelectedOK, Fresh
  <2> QED BY <2>2, <2>3, <2>5
<1> QED BY <1>1, <1>2, <1>3, <1>4 DEF IInv

LEMMA WriteLoopEndsKeeps ==
    ASSUME IInv, NEW c \in Conn, WriteLoopEnds(c)
    PROVE  IInv'
<1>a. /\ at = "write"
      /\ at' = "drained"
  BY DEF WriteLoopEnds, SelectorAt
<1>b. UNCHANGED <<client, unread, chunks, room, key, interest, writeQueue, connections,
                  shouldTerminate, selectorTasks, wakeup, selected, writing, pending, pc, target, ending>>
  BY DEF WriteLoopEnds, SelectorAt, clients, channel, protocol, selector, shared, worker
<1>1. TypeOK'
  BY <1>a, <1>b, ReactorAssumption DEF IInv, TypeOK, ReadOnly, ReadWrite
<1>2. CountOK'
  BY <1>b DEF IInv, CountOK
<1>3. TasksOK'
  BY <1>a, <1>b DEF IInv, TypeOK, TasksOK
<1>4. ASSUME NEW e \in Conn PROVE FreshOK(e)' /\ SelectedOK(e)' /\ WatchedOK(e)'
  <2>1. TypeOK /\ FreshOK(e) /\ SelectedOK(e) /\ WatchedOK(e) /\ FreshOK(c) /\ SelectedOK(c)
    BY <1>4 DEF IInv
  <2>2. FreshOK(e)'
    BY <1>b, <2>1 DEF FreshOK, SelectedOK, Fresh
  <2>3. SelectedOK(e)'
    BY <1>b, <2>1 DEF FreshOK, SelectedOK, Fresh
  <2>4. Announced(e) => Announced(e)'
    BY <1>a, <1>b, <2>1, AnnouncedStays DEF TypeOK
  <2>5. WatchedOK(e)'
    BY <1>4, <1>a, <1>b, <2>1, <2>4, ReactorAssumption DEF TypeOK, WatchedOK, FreshOK, SelectedOK, Fresh
  <2> QED BY <2>2, <2>3, <2>5
<1> QED BY <1>1, <1>2, <1>3, <1>4 DEF IInv

LEMMA TestQueueKeeps ==
    ASSUME IInv, NEW c \in Conn, TestQueue(c)
    PROVE  IInv'
<1>a. /\ writing = c
      /\ at = "drained"
      /\ \/ at' = "empty" /\ writing' = c /\ writeQueue[c] = 0
         \/ at' = "keys" /\ writing' = Nobody
  BY DEF TestQueue, SelectorAt
<1>b. UNCHANGED <<client, unread, chunks, room, key, interest, writeQueue, connections,
                  shouldTerminate, selectorTasks, wakeup, selected, pending, pc, target, ending>>
  BY DEF TestQueue, SelectorAt, clients, channel, protocol, selector, shared, worker
<1>1. TypeOK'
  BY <1>a, <1>b, ReactorAssumption DEF IInv, TypeOK, ReadOnly, ReadWrite
<1>2. CountOK'
  BY <1>b DEF IInv, CountOK
<1>3. TasksOK'
  BY <1>a, <1>b DEF IInv, TypeOK, TasksOK
<1>4. ASSUME NEW e \in Conn PROVE FreshOK(e)' /\ SelectedOK(e)' /\ WatchedOK(e)'
  <2>1. TypeOK /\ FreshOK(e) /\ SelectedOK(e) /\ WatchedOK(e) /\ FreshOK(c) /\ SelectedOK(c)
    BY <1>4 DEF IInv
  <2>2. FreshOK(e)'
    BY <1>b, <2>1 DEF FreshOK, Fresh
  <2>3. SelectedOK(e)'
    BY <1>4, <1>a, <1>b, <2>1, ReactorAssumption DEF TypeOK, SelectedOK, Fresh
  <2>4. Announced(e) => Announced(e)'
    BY <1>a, <1>b, <2>1, AnnouncedStays DEF TypeOK
  <2>5. WatchedOK(e)'
    BY <1>4, <1>a, <1>b, <2>1, <2>4, ReactorAssumption DEF TypeOK, WatchedOK, FreshOK, SelectedOK, Fresh
  <2> QED BY <2>2, <2>3, <2>5
<1> QED BY <1>1, <1>2, <1>3, <1>4 DEF IInv

LEMMA AfterWriteClosesKeeps ==
    ASSUME IInv, NEW c \in Conn, AfterWrite(c), shouldTerminate[c]
    PROVE  IInv'
<1>a. /\ writing = c
      /\ at = "empty"
      /\ writing' = Nobody
      /\ interest' = interest
      /\ at' \in {"keys", "crashed"}
      /\ key' = [key EXCEPT ![c] = IF @ = "valid" THEN "cancelled" ELSE @]
      /\ connections' = connections \ {c}
      /\ shouldTerminate' = [shouldTerminate EXCEPT ![c] = TRUE]
  BY DEF AfterWrite, SelectorAt, Close, protocol
<1>b. UNCHANGED <<client, unread, chunks, room, writeQueue,
                  selectorTasks, wakeup, selected, pending, pc, target, ending>>
  BY DEF AfterWrite, SelectorAt, Close, clients, channel, protocol, selector, shared, worker
<1>1. TypeOK'
  BY <1>a, <1>b, ReactorAssumption DEF IInv, TypeOK, ReadOnly, ReadWrite
<1>2. CountOK'
  BY <1>b DEF IInv, CountOK
<1>3. TasksOK'
  BY <1>a, <1>b DEF IInv, TypeOK, TasksOK
<1>4. ASSUME NEW e \in Conn PROVE FreshOK(e)' /\ SelectedOK(e)' /\ WatchedOK(e)'
  <2>1. TypeOK /\ FreshOK(e) /\ SelectedOK(e) /\ WatchedOK(e) /\ FreshOK(c) /\ SelectedOK(c)
    BY <1>4 DEF IInv
  <2>2. FreshOK(e)'
    BY <1>4, <1>a, <1>b, <2>1, ReactorAssumption DEF TypeOK, FreshOK, SelectedOK, Fresh
  <2>3. SelectedOK(e)'
    BY <1>4, <1>a, <1>b, <2>1, ReactorAssumption DEF TypeOK, FreshOK, SelectedOK, Fresh
  <2>4. Announced(e) => Announced(e)'
    BY <1>a, <1>b, <2>1, AnnouncedStays DEF TypeOK
  <2>5. WatchedOK(e)'
    BY <1>4, <1>a, <1>b, <2>1, <2>4, ReactorAssumption DEF TypeOK, WatchedOK, FreshOK, SelectedOK, Fresh
  <2> QED BY <2>2, <2>3, <2>5
<1> QED BY <1>1, <1>2, <1>3, <1>4 DEF IInv

LEMMA AfterWriteRestsKeeps ==
    ASSUME IInv, NEW c \in Conn, AfterWrite(c), ~shouldTerminate[c]
    PROVE  IInv'
<1>a. /\ writing = c
      /\ at = "empty"
      /\ writing' = Nobody
      /\ interest' = [interest EXCEPT ![c] = ReadOnly]
      /\ at' = "keys"
      /\ key' = key /\ connections' = connections /\ shouldTerminate' = shouldTerminate
  BY DEF AfterWrite, SelectorAt, Close, protocol
<1>b. UNCHANGED <<client, unread, chunks, room, writeQueue,
                  selectorTasks, wakeup, selected, pending, pc, target, ending>>
  BY DEF AfterWrite, SelectorAt, Close, clients, channel, protocol, selector, shared, worker
<1>1. TypeOK'
  BY <1>a, <1>b, ReactorAssumption DEF IInv, TypeOK, ReadOnly, ReadWrite
<1>2. CountOK'
  BY <1>b DEF IInv, CountOK
<1>3. TasksOK'
  BY <1>a, <1>b DEF IInv, TypeOK, TasksOK
<1>4. ASSUME NEW e \in Conn PROVE FreshOK(e)' /\ SelectedOK(e)' /\ WatchedOK(e)'
  <2>1. TypeOK /\ FreshOK(e) /\ SelectedOK(e) /\ WatchedOK(e) /\ FreshOK(c) /\ SelectedOK(c)
    BY <1>4 DEF IInv
  <2>2. FreshOK(e)'
    BY <1>4, <1>a, <1>b, <2>1, ReactorAssumption DEF TypeOK, FreshOK, SelectedOK, Fresh
  <2>3. SelectedOK(e)'
    BY <1>4, <1>a, <1>b, <2>1, ReactorAssumption DEF TypeOK, FreshOK, SelectedOK, Fresh
  <2>4. Announced(e) => Announced(e)'
    BY <1>a, <1>b, <2>1, AnnouncedStays DEF TypeOK
  <2>5. WatchedOK(e)'
    BY <1>4, <1>a, <1>b, <2>1, <2>4, ReactorAssumption DEF TypeOK, WatchedOK, FreshOK, SelectedOK, Fresh
  <2> QED BY <2>2, <2>3, <2>5
<1> QED BY <1>1, <1>2, <1>3, <1>4 DEF IInv

LEMMA ProcessFrameKeeps ==
    ASSUME IInv, NEW c \in Conn, Process(c), NEW d \in connections, ending' = ending,
           pc' = [pc EXCEPT ![c] = "add"], target' = [target EXCEPT ![c] = d]
    PROVE  IInv'
<1>a. /\ pending[c] > 0
      /\ pc[c] = "idle"
      /\ pending' = [pending EXCEPT ![c] = @ - 1]
      /\ pc' = [pc EXCEPT ![c] = "add"]
      /\ target' = [target EXCEPT ![c] = d]
      /\ ending' = ending
  BY DEF Process, End, Goto
<1>b. UNCHANGED <<client, unread, chunks, room, key, interest, writeQueue,
                  connections, shouldTerminate, selectorTasks, wakeup, selected, at, writing>>
  BY DEF Process, End, Goto, clients, channel, protocol, selector, shared, worker
<1>c. pending' \in [Conn -> 0..MaxChunks]
  BY <1>a, ReactorAssumption DEF IInv, TypeOK
<1>d. d \in Conn /\ d # Nobody
  BY ReactorAssumption DEF IInv, TypeOK
<1>1. TypeOK'
  <2>1. /\ target' \in [Conn -> Conn \cup {Nobody}]
        /\ pc' \in [Conn -> {"idle", "add", "post", "wake", "terminate"}]
        /\ ending' \in [Conn -> BOOLEAN]
        /\ \A e \in Conn : target'[e] = Nobody <=> pc'[e] \in {"idle", "terminate"}
    BY <1>a, <1>d DEF IInv, TypeOK
  <2> QED BY <1>b, <1>c, <2>1 DEF IInv, TypeOK
<1>2. CountOK'
  BY <1>a, <1>b DEF IInv, TypeOK, CountOK
<1>3. TasksOK'
  BY <1>a, <1>b DEF IInv, TypeOK, TasksOK
<1>4. ASSUME NEW e \in Conn PROVE FreshOK(e)' /\ SelectedOK(e)' /\ WatchedOK(e)'
  <2>1. TypeOK /\ FreshOK(e) /\ SelectedOK(e) /\ WatchedOK(e) /\ FreshOK(c) /\ SelectedOK(c)
    BY <1>4 DEF IInv
  <2>2. FreshOK(e)'
    BY <1>4, <1>a, <1>b, <2>1, ReactorAssumption DEF TypeOK, FreshOK, SelectedOK, Fresh
  <2>3. SelectedOK(e)'
    BY <1>b, <2>1 DEF SelectedOK, Fresh
  <2>4. Announced(e) => Announced(e)'
    BY <1>a, <1>b, <2>1, AnnouncedStays DEF TypeOK
  <2>5. WatchedOK(e)'
    BY <1>4, <1>a, <1>b, <2>1, <2>4, ReactorAssumption DEF TypeOK, WatchedOK, FreshOK, SelectedOK, Fresh
  <2> QED BY <2>2, <2>3, <2>5
<1> QED BY <1>1, <1>2, <1>3, <1>4 DEF IInv

LEMMA ProcessLastKeeps ==
    ASSUME IInv, NEW c \in Conn, Process(c), c \in connections, ending' = [ending EXCEPT ![c] = TRUE],
           pc' = [pc EXCEPT ![c] = "add"], target' = [target EXCEPT ![c] = c]
    PROVE  IInv'
<1>a. /\ pending[c] > 0
      /\ pc[c] = "idle"
      /\ pending' = [pending EXCEPT ![c] = @ - 1]
      /\ pc' = [pc EXCEPT ![c] = "add"]
      /\ target' = [target EXCEPT ![c] = c]
      /\ ending' = [ending EXCEPT ![c] = TRUE]
  BY DEF Process, End, Goto
<1>b. UNCHANGED <<client, unread, chunks, room, key, interest, writeQueue,
                  connections, shouldTerminate, selectorTasks, wakeup, selected, at, writing>>
  BY DEF Process, End, Goto, clients, channel, protocol, selector, shared, worker
<1>c. pending' \in [Conn -> 0..MaxChunks]
  BY <1>a, ReactorAssumption DEF IInv, TypeOK
<1>1. TypeOK'
  BY <1>c, <1>a, <1>b, ReactorAssumption DEF IInv, TypeOK, ReadOnly, ReadWrite
<1>2. CountOK'
  BY <1>a, <1>b DEF IInv, TypeOK, CountOK
<1>3. TasksOK'
  BY <1>a, <1>b DEF IInv, TypeOK, TasksOK
<1>4. ASSUME NEW e \in Conn PROVE FreshOK(e)' /\ SelectedOK(e)' /\ WatchedOK(e)'
  <2>1. TypeOK /\ FreshOK(e) /\ SelectedOK(e) /\ WatchedOK(e) /\ FreshOK(c) /\ SelectedOK(c)
    BY <1>4 DEF IInv
  <2>2. FreshOK(e)'
    BY <1>4, <1>a, <1>b, <2>1, ReactorAssumption DEF TypeOK, FreshOK, SelectedOK, Fresh
  <2>3. SelectedOK(e)'
    BY <1>b, <2>1 DEF SelectedOK, Fresh
  <2>4. Announced(e) => Announced(e)'
    BY <1>a, <1>b, <2>1, AnnouncedStays DEF TypeOK
  <2>5. WatchedOK(e)'
    BY <1>4, <1>a, <1>b, <2>1, <2>4, ReactorAssumption DEF TypeOK, WatchedOK, FreshOK, SelectedOK, Fresh
  <2> QED BY <2>2, <2>3, <2>5
<1> QED BY <1>1, <1>2, <1>3, <1>4 DEF IInv

LEMMA ProcessEndKeeps ==
    ASSUME IInv, NEW c \in Conn, Process(c), ending' = [ending EXCEPT ![c] = TRUE],
           pc' = [pc EXCEPT ![c] = "terminate"], target' = target
    PROVE  IInv'
<1>a. /\ pending[c] > 0
      /\ pc[c] = "idle"
      /\ pending' = [pending EXCEPT ![c] = @ - 1]
      /\ pc' = [pc EXCEPT ![c] = "terminate"]
      /\ target' = target
      /\ ending' = [ending EXCEPT ![c] = TRUE]
  BY DEF Process, End, Goto
<1>b. UNCHANGED <<client, unread, chunks, room, key, interest, writeQueue,
                  connections, shouldTerminate, selectorTasks, wakeup, selected, at, writing>>
  BY DEF Process, End, Goto, clients, channel, protocol, selector, shared, worker
<1>c. pending' \in [Conn -> 0..MaxChunks]
  BY <1>a, ReactorAssumption DEF IInv, TypeOK
<1>1. TypeOK'
  BY <1>c, <1>a, <1>b, ReactorAssumption DEF IInv, TypeOK, ReadOnly, ReadWrite
<1>2. CountOK'
  BY <1>a, <1>b DEF IInv, TypeOK, CountOK
<1>3. TasksOK'
  BY <1>a, <1>b DEF IInv, TypeOK, TasksOK
<1>4. ASSUME NEW e \in Conn PROVE FreshOK(e)' /\ SelectedOK(e)' /\ WatchedOK(e)'
  <2>1. TypeOK /\ FreshOK(e) /\ SelectedOK(e) /\ WatchedOK(e) /\ FreshOK(c) /\ SelectedOK(c)
    BY <1>4 DEF IInv
  <2>2. FreshOK(e)'
    BY <1>4, <1>a, <1>b, <2>1, ReactorAssumption DEF TypeOK, FreshOK, SelectedOK, Fresh
  <2>3. SelectedOK(e)'
    BY <1>b, <2>1 DEF SelectedOK, Fresh
  <2>4. Announced(e) => Announced(e)'
    BY <1>a, <1>b, <2>1, AnnouncedStays DEF TypeOK
  <2>5. WatchedOK(e)'
    BY <1>4, <1>a, <1>b, <2>1, <2>4, ReactorAssumption DEF TypeOK, WatchedOK, FreshOK, SelectedOK, Fresh
  <2> QED BY <2>2, <2>3, <2>5
<1> QED BY <1>1, <1>2, <1>3, <1>4 DEF IInv

LEMMA ProcessNothingKeeps ==
    ASSUME IInv, NEW c \in Conn, Process(c), pc' = pc, target' = target, ending' = ending
    PROVE  IInv'
<1>a. /\ pending[c] > 0
      /\ pc[c] = "idle"
      /\ pending' = [pending EXCEPT ![c] = @ - 1]
      /\ pc' = pc /\ target' = target /\ ending' = ending
  BY DEF Process, End, Goto
<1>b. UNCHANGED <<client, unread, chunks, room, key, interest, writeQueue,
                  connections, shouldTerminate, selectorTasks, wakeup, selected, at, writing>>
  BY DEF Process, End, Goto, clients, channel, protocol, selector, shared, worker
<1>c. pending' \in [Conn -> 0..MaxChunks]
  BY <1>a, ReactorAssumption DEF IInv, TypeOK
<1>1. TypeOK'
  BY <1>c, <1>a, <1>b, ReactorAssumption DEF IInv, TypeOK, ReadOnly, ReadWrite
<1>2. CountOK'
  BY <1>a, <1>b DEF IInv, TypeOK, CountOK
<1>3. TasksOK'
  BY <1>a, <1>b DEF IInv, TypeOK, TasksOK
<1>4. ASSUME NEW e \in Conn PROVE FreshOK(e)' /\ SelectedOK(e)' /\ WatchedOK(e)'
  <2>1. TypeOK /\ FreshOK(e) /\ SelectedOK(e) /\ WatchedOK(e) /\ FreshOK(c) /\ SelectedOK(c)
    BY <1>4 DEF IInv
  <2>2. FreshOK(e)'
    BY <1>4, <1>a, <1>b, <2>1, ReactorAssumption DEF TypeOK, FreshOK, SelectedOK, Fresh
  <2>3. SelectedOK(e)'
    BY <1>b, <2>1 DEF SelectedOK, Fresh
  <2>4. Announced(e) => Announced(e)'
    BY <1>a, <1>b, <2>1, AnnouncedStays DEF TypeOK
  <2>5. WatchedOK(e)'
    BY <1>4, <1>a, <1>b, <2>1, <2>4, ReactorAssumption DEF TypeOK, WatchedOK, FreshOK, SelectedOK, Fresh
  <2> QED BY <2>2, <2>3, <2>5
<1> QED BY <1>1, <1>2, <1>3, <1>4 DEF IInv

LEMMA AddKeeps ==
    ASSUME IInv, NEW c \in Conn, Add(c)
    PROVE  IInv'
<1>a. /\ pc[c] = "add"
      /\ pc' = [pc EXCEPT ![c] = "post"]
      /\ writeQueue' = [writeQueue EXCEPT ![target[c]] = @ + 1]
  BY DEF Add, Goto
<1>b. UNCHANGED <<client, unread, chunks, room, key, interest, connections,
                  shouldTerminate, selectorTasks, wakeup, selected, at, writing, pending, target, ending>>
  BY DEF Add, Goto, clients, channel, protocol, selector, shared, worker
<1>c. pc[c] # "idle" /\ target[c] \in Conn
  BY <1>a DEF IInv, TypeOK
<1>d. /\ writeQueue' \in [Conn -> Nat]
      /\ \A e \in Conn \ {target[c]} : writeQueue'[e] = writeQueue[e]
  BY <1>a, <1>c DEF IInv, TypeOK
<1>e. /\ pc' \in [Conn -> {"idle", "add", "post", "wake", "terminate"}]
      /\ \A e \in Conn : target[e] = Nobody <=> pc'[e] \in {"idle", "terminate"}
  BY <1>a DEF IInv, TypeOK
<1>1. TypeOK'
  BY <1>d, <1>e, <1>b DEF IInv, TypeOK
<1>2. CountOK'
  BY <1>b DEF IInv, CountOK
<1>3. TasksOK'
  BY <1>a, <1>b DEF IInv, TypeOK, TasksOK
<1>4. ASSUME NEW e \in Conn, WatchedOK(e) PROVE WatchedOK(e)'
  <2>1. pc'[c] = "post" /\ \A d \in Conn : pc[d] = "post" => pc'[d] = "post"
    BY <1>a DEF IInv, TypeOK
  <2>2. Announced(e) \/ target[c] = e => Announced(e)'
    BY <1>b, <2>1 DEF Announced
  <2>3. target[c] # e => writeQueue'[e] = writeQueue[e]
    BY <1>d
  <2> QED BY <1>4, <1>b, <2>2, <2>3 DEF WatchedOK
<1>5. ASSUME NEW e \in Conn PROVE FreshOK(e)' /\ SelectedOK(e)' /\ WatchedOK(e)'
  <2>1. TypeOK /\ FreshOK(e) /\ SelectedOK(e) /\ WatchedOK(e) /\ FreshOK(c) /\ SelectedOK(c)
    BY <1>5 DEF IInv
  <2>2. FreshOK(e)'
    BY <1>5, <1>a, <1>b, <2>1, ReactorAssumption DEF TypeOK, FreshOK, SelectedOK, Fresh
  <2>3. SelectedOK(e)'
    BY <1>b, <2>1 DEF SelectedOK, Fresh
  <2>4. WatchedOK(e)'
    BY <1>5, <1>4, <2>1
  <2> QED BY <2>2, <2>3, <2>4
<1> QED BY <1>1, <1>2, <1>3, <1>4, <1>5 DEF IInv

LEMMA PostKeeps ==
    ASSUME IInv, NEW c \in Conn, Post(c)
    PROVE  IInv'
<1>a. /\ pc[c] = "post"
      /\ pc' = [pc EXCEPT ![c] = "wake"]
      /\ selectorTasks' = Append(selectorTasks, target[c])
  BY DEF Post, Goto
<1>b. UNCHANGED <<client, unread, chunks, room, key, interest, writeQueue,
                  connections, shouldTerminate, wakeup, selected, at, writing, pending, target, ending>>
  BY DEF Post, Goto, clients, channel, protocol, selector, shared, worker
<1>c. target[c] \in Conn /\ selectorTasks \in Seq(Conn)
  BY <1>a DEF IInv, TypeOK
<1>d. /\ selectorTasks' \in Seq(Conn) /\ Len(selectorTasks) \in Nat
      /\ Len(selectorTasks') = Len(selectorTasks) + 1
      /\ \A i \in 1..Len(selectorTasks) : selectorTasks'[i] = selectorTasks[i]
      /\ selectorTasks'[Len(selectorTasks) + 1] = target[c]
  <2> DEFINE t == target[c]
  <2> HIDE DEF t
  <2>1. selectorTasks' = Append(selectorTasks, t) /\ t \in Conn
    BY <1>a, <1>c DEF t
  <2>2. selectorTasks'[Len(selectorTasks) + 1] = t
    BY <2>1, <1>c
  <2> QED BY <2>1, <2>2, <1>c DEF t
<1>1. TypeOK'
  BY <1>c, <1>d, <1>a, <1>b, ReactorAssumption DEF IInv, TypeOK, ReadOnly, ReadWrite
<1>2. CountOK'
  BY <1>b DEF IInv, CountOK
<1>3. TasksOK'
  BY <1>a, <1>b DEF IInv, TypeOK, TasksOK
<1>4. ASSUME NEW e \in Conn, WatchedOK(e) PROVE WatchedOK(e)'
  <2>1. ASSUME Announced(e) PROVE Announced(e)'
    <3>1. CASE target[c] = e
      <4>1. Len(selectorTasks) + 1 \in 1..Len(selectorTasks') /\ selectorTasks'[Len(selectorTasks) + 1] = e
        BY <1>d, <3>1
      <4> QED BY <4>1 DEF Announced
    <3>2. CASE target[c] # e
      <4>1. \A d \in Conn : target[d] = e => pc'[d] = pc[d]
        BY <3>2, <1>a DEF IInv, TypeOK
      <4>2. \A i \in 1..Len(selectorTasks) : i \in 1..Len(selectorTasks')
        BY <1>d
      <4> QED BY <2>1, <4>1, <4>2, <1>b, <1>d DEF Announced
    <3> QED BY <3>1, <3>2
  <2> QED BY <1>4, <1>b, <2>1 DEF WatchedOK
<1>5. ASSUME NEW e \in Conn PROVE FreshOK(e)' /\ SelectedOK(e)' /\ WatchedOK(e)'
  <2>1. TypeOK /\ FreshOK(e) /\ SelectedOK(e) /\ WatchedOK(e) /\ FreshOK(c) /\ SelectedOK(c)
    BY <1>5 DEF IInv
  <2>2. FreshOK(e)'
    BY <1>5, <1>a, <1>b, <2>1, ReactorAssumption DEF TypeOK, FreshOK, SelectedOK, Fresh
  <2>3. SelectedOK(e)'
    BY <1>b, <2>1 DEF SelectedOK, Fresh
  <2>4. WatchedOK(e)'
    BY <1>5, <1>4, <2>1
  <2> QED BY <2>2, <2>3, <2>4
<1> QED BY <1>1, <1>2, <1>3, <1>4, <1>5 DEF IInv

LEMMA WakeKeeps ==
    ASSUME IInv, NEW c \in Conn, Wake(c)
    PROVE  IInv'
<1>a. /\ pc[c] = "wake"
      /\ pc' = [pc EXCEPT ![c] = IF ending[c] THEN "terminate" ELSE "idle"]
      /\ wakeup' = TRUE
      /\ target' = [target EXCEPT ![c] = Nobody]
  BY DEF Wake, Goto
<1>b. UNCHANGED <<client, unread, chunks, room, key, interest, writeQueue,
                  connections, shouldTerminate, selectorTasks, selected, at, writing, pending, ending>>
  BY DEF Wake, Goto, clients, channel, protocol, selector, shared, worker
<1>1. TypeOK'
  BY <1>a, <1>b, ReactorAssumption DEF IInv, TypeOK, ReadOnly, ReadWrite
<1>2. CountOK'
  BY <1>b DEF IInv, CountOK
<1>3. TasksOK'
  BY <1>a, <1>b DEF IInv, TypeOK, TasksOK
<1>4. ASSUME NEW e \in Conn PROVE FreshOK(e)' /\ SelectedOK(e)' /\ WatchedOK(e)'
  <2>1. TypeOK /\ FreshOK(e) /\ SelectedOK(e) /\ WatchedOK(e) /\ FreshOK(c) /\ SelectedOK(c)
    BY <1>4 DEF IInv
  <2>2. FreshOK(e)'
    BY <1>4, <1>a, <1>b, <2>1, ReactorAssumption DEF TypeOK, FreshOK, SelectedOK, Fresh
  <2>3. SelectedOK(e)'
    BY <1>b, <2>1 DEF SelectedOK, Fresh
  <2>4. Announced(e) => Announced(e)'
    BY <1>a, <1>b, <2>1, AnnouncedStays DEF TypeOK
  <2>5. WatchedOK(e)'
    BY <1>4, <1>a, <1>b, <2>1, <2>4, ReactorAssumption DEF TypeOK, WatchedOK, FreshOK, SelectedOK, Fresh
  <2> QED BY <2>2, <2>3, <2>5
<1> QED BY <1>1, <1>2, <1>3, <1>4 DEF IInv

LEMMA TerminateKeeps ==
    ASSUME IInv, NEW c \in Conn, Terminate(c)
    PROVE  IInv'
<1>a. /\ pc[c] = "terminate"
      /\ pc' = [pc EXCEPT ![c] = "idle"]
      /\ connections' = connections \ {c}
      /\ shouldTerminate' = [shouldTerminate EXCEPT ![c] = TRUE]
      /\ ending' = [ending EXCEPT ![c] = FALSE]
  BY DEF Terminate, Goto
<1>b. UNCHANGED <<client, unread, chunks, room, key, interest, writeQueue,
                  selectorTasks, wakeup, selected, at, writing, pending, target>>
  BY DEF Terminate, Goto, clients, channel, protocol, selector, shared, worker
<1>1. TypeOK'
  BY <1>a, <1>b, ReactorAssumption DEF IInv, TypeOK, ReadOnly, ReadWrite
<1>2. CountOK'
  BY <1>b DEF IInv, CountOK
<1>3. TasksOK'
  BY <1>a, <1>b DEF IInv, TypeOK, TasksOK
<1>4. ASSUME NEW e \in Conn PROVE FreshOK(e)' /\ SelectedOK(e)' /\ WatchedOK(e)'
  <2>1. TypeOK /\ FreshOK(e) /\ SelectedOK(e) /\ WatchedOK(e) /\ FreshOK(c) /\ SelectedOK(c)
    BY <1>4 DEF IInv
  <2>2. FreshOK(e)'
    BY <1>4, <1>a, <1>b, <2>1, ReactorAssumption DEF TypeOK, FreshOK, SelectedOK, Fresh
  <2>3. SelectedOK(e)'
    BY <1>b, <2>1 DEF SelectedOK, Fresh
  <2>4. Announced(e) => Announced(e)'
    BY <1>a, <1>b, <2>1, AnnouncedStays DEF TypeOK
  <2>5. WatchedOK(e)'
    BY <1>4, <1>a, <1>b, <2>1, <2>4, ReactorAssumption DEF TypeOK, WatchedOK, FreshOK, SelectedOK, Fresh
  <2> QED BY <2>2, <2>3, <2>5
<1> QED BY <1>1, <1>2, <1>3, <1>4 DEF IInv

LEMMA StutterKeeps ==
    ASSUME IInv, UNCHANGED vars
    PROVE  IInv'
<1>b. UNCHANGED <<client, unread, chunks, room, key, interest, writeQueue, connections,
                  shouldTerminate, selectorTasks, wakeup, selected, at, writing, pending, pc,
                  target, ending>>
  BY DEF vars, clients, channel, protocol, selector, shared, worker
<1>1. TypeOK' /\ CountOK' /\ TasksOK'
  BY <1>b DEF IInv, TypeOK, CountOK, TasksOK
<1>2. ASSUME NEW e \in Conn PROVE FreshOK(e)' /\ SelectedOK(e)' /\ WatchedOK(e)'
  <2>1. TypeOK /\ FreshOK(e) /\ SelectedOK(e) /\ WatchedOK(e)
    BY <1>2 DEF IInv
  <2>2. FreshOK(e)'
    BY <1>2, <1>b, <2>1, ReactorAssumption DEF TypeOK, FreshOK, SelectedOK, Fresh
  <2>3. SelectedOK(e)'
    BY <1>2, <1>b, <2>1, ReactorAssumption DEF TypeOK, FreshOK, SelectedOK, Fresh
  <2>4. Announced(e) => Announced(e)'
    BY <1>b, <2>1, AnnouncedStays DEF TypeOK
  <2>5. WatchedOK(e)'
    BY <1>2, <1>b, <2>1, <2>4, ReactorAssumption DEF TypeOK, WatchedOK, FreshOK, SelectedOK, Fresh
  <2> QED BY <2>2, <2>3, <2>5
<1> QED BY <1>1, <1>2 DEF IInv

(* A read finds bytes or the end of the input; after the tests of the      *)
(* queue continueWrite closes or rests; a chunk has four outcomes.         *)
LEMMA ReadKeeps ==
    ASSUME IInv, NEW c \in Conn, Read(c)
    PROVE  IInv'
BY ReadChunkKeeps, ReadClosesKeeps

LEMMA AfterWriteKeeps ==
    ASSUME IInv, NEW c \in Conn, AfterWrite(c)
    PROVE  IInv'
BY AfterWriteClosesKeeps, AfterWriteRestsKeeps

LEMMA ProcessKeeps ==
    ASSUME IInv, NEW c \in Conn, Process(c)
    PROVE  IInv'
<1>1. CASE \E d \in connections :
              /\ pc' = [pc EXCEPT ![c] = "add"] /\ target' = [target EXCEPT ![c] = d]
              /\ ending' = ending
  BY <1>1, ProcessFrameKeeps
<1>2. CASE End(c, "add") /\ c \in connections
  BY <1>2, ProcessLastKeeps DEF End, Goto
<1>3. CASE End(c, "terminate")
  <2>1. target' = target
    BY <1>3 DEF IInv, TypeOK, End
  <2> QED BY <1>3, <2>1, ProcessEndKeeps DEF End, Goto
<1>4. CASE UNCHANGED worker
  BY <1>4, ProcessNothingKeeps DEF worker
<1> QED BY <1>1, <1>2, <1>3, <1>4 DEF Process, Goto, Answer

(* Every step preserves the invariant.                                     *)
LEMMA NextIInv == IInv /\ [Next]_vars => IInv'
<1> SUFFICES ASSUME IInv, [Next]_vars PROVE IInv'
  OBVIOUS
<1>1. CASE UNCHANGED vars
  BY <1>1, StutterKeeps
<1>2. CASE SelectorStep
  BY <1>2, SelectKeeps, RunTaskKeeps, TasksDoneKeeps, KeysDoneKeeps, AcceptKeeps, ReadKeeps,
     WriteKeeps, WriteFrameKeeps, WritePartKeeps, WriteFailsKeeps, WriteLoopEndsKeeps,
     TestQueueKeeps, AfterWriteKeeps DEF SelectorStep
<1>3. ASSUME NEW c \in Conn, ClientStep(c) PROVE IInv'
  BY <1>3, ClientConnectsKeeps, ClientSendsKeeps, ClientReadsKeeps, ClientHangsUpKeeps
     DEF ClientStep
<1>4. ASSUME NEW c \in Conn, WorkerStep(c) PROVE IInv'
  BY <1>4, ProcessKeeps, AddKeeps, PostKeeps, WakeKeeps, TerminateKeeps DEF WorkerStep
<1> QED BY <1>1, <1>2, <1>3, <1>4 DEF Next

(* The invariant holds in every reachable state.                           *)
THEOREM ReactorInvariant == Spec => []IInv
<1>1. Init => IInv
  BY InitIInv
<1>2. IInv /\ [Next]_vars => IInv'
  BY NextIInv
<1> QED BY <1>1, <1>2, PTL DEF Spec

-----------------------------------------------------------------------------
(* The variables of the reactor, its handlers and the workers keep their   *)
(* types; a worker has a target exactly where send uses one.               *)
THEOREM ReactorTypeOK == Spec => []TypeOK
BY ReactorInvariant, PTL DEF IInv

(* A frame that send queued is never forgotten: the key is interested in   *)
(* writing, or the task that makes it so is queued or about to be.         *)
THEOREM ReactorFramesAreWatched == Spec => []FramesAreWatched
<1>1. IInv => FramesAreWatched
  BY DEF IInv, WatchedOK, FramesAreWatched
<1> QED BY <1>1, ReactorInvariant, PTL

(* The selector thread does not sleep in select() on a task that a worker  *)
(* posted: wakeup() was called, or is the worker's next statement.         *)
THEOREM ReactorTasksAreAnnounced == Spec => []TasksAreAnnounced
<1>1. IInv => TasksAreAnnounced
  BY DEF IInv, TasksOK, TasksAreAnnounced
<1> QED BY <1>1, ReactorInvariant, PTL

(* When continueWrite closes the channel of a client that did not hang up, *)
(* a frame it leaves in the queue has its task still to come, and that     *)
(* task ends serve(): the server never goes on without a queued frame.     *)
THEOREM ReactorNoFrameAbandoned == Spec => []NoFrameAbandoned
<1>1. IInv => NoFrameAbandoned
  BY DEF IInv, WatchedOK, NoFrameAbandoned
<1> QED BY <1>1, ReactorInvariant, PTL
=============================================================================
