------------------------------- MODULE Reactor -------------------------------
(***************************************************************************)
(* The reactor server: one selector thread that accepts, reads, writes and *)
(* closes, and the pool's workers that run the protocol and queue frames.  *)
(* The threads share the write queues, the queue of selector tasks and the *)
(* selector's wakeup; the interest set of a key is changed by the selector *)
(* thread only, for the workers through selectorTasks.                     *)
(*                                                                         *)
(*  - ActorThreadPool runs the chunks read from one connection in order    *)
(*    and one at a time, so each connection has a worker of its own here.  *)
(*  - A chunk stands for one call of send: its processing sends one frame  *)
(*    or none and may end the connection (an error, DISCONNECT).  A SEND   *)
(*    with several receivers is several chunks; the rest of what the       *)
(*    protocol does is in the modules Broker and Sessions.                 *)
(*  - The key of a connection is "valid", "cancelled" once its channel is  *)
(*    closed, and "none" before it is accepted and after the selector has  *)
(*    forgotten it; keyFor is then null and the task it is captured by     *)
(*    throws like one that holds a cancelled key.                          *)
(***************************************************************************)
EXTENDS Naturals, Sequences

CONSTANTS Conn,      \* connections
          Nobody,    \* no connection
          Endings,   \* how connections may end, see ReactorAssumption
          MaxChunks  \* bound: chunks of bytes the clients send in all

(* "answered": an error, or a DISCONNECT with a receipt; "silent": a       *)
(* DISCONNECT without; "hangUp": the client closes; "reset": writing to a  *)
(* client that hung up throws; "logout": the SQL call or the unsubscribing *)
(* in handleDisconnect throws.                                             *)
ASSUME ReactorAssumption ==
    /\ Nobody \notin Conn
    /\ Endings \subseteq {"answered", "silent", "hangUp", "reset", "logout"}
    /\ MaxChunks \in Nat

VARIABLES client,          \* client[c]: what the client has done
          unread,          \* unread[c]: chunks the server has not read yet
          chunks,          \* how many chunks the clients have sent
          room,            \* room[c]: the socket takes another frame
          key,             \* key[c]: the selection key of the channel
          interest,        \* interest[c]: its interest set
          writeQueue,      \* writeQueue[c]: how many frames it holds
          connections,     \* keys of ConnectionsManager.connections
          shouldTerminate, \* shouldTerminate[c]: the protocol's flag
          selectorTasks,   \* connections whose interest set is to be widened
          wakeup,          \* selector.wakeup() was called
          selected,        \* ready operations not handled yet
          at,              \* the statement the selector thread is at
          writing,         \* the connection whose continueWrite it is in
          pending,         \* pending[c]: chunks submitted to the pool
          pc,              \* the statement c's worker is at
          target,          \* target[c]: the connection it sends a frame to
          ending           \* ending[c]: it then ends its own connection

clients  == <<client, unread, chunks, room>>
channel  == <<key, interest, writeQueue>>
protocol == <<connections, shouldTerminate>>
selector == <<selected, at, writing>>
shared   == <<selectorTasks, wakeup>>
worker   == <<pc, target, ending>>
vars     == <<clients, channel, protocol, selector, shared, worker, pending>>

Init ==
    /\ client          = [c \in Conn |-> "absent"]
    /\ unread          = [c \in Conn |-> 0]
    /\ chunks          = 0
    /\ room            = [c \in Conn |-> TRUE]
    /\ key             = [c \in Conn |-> "none"]
    /\ interest        = [c \in Conn |-> {}]
    /\ writeQueue      = [c \in Conn |-> 0]
    /\ connections     = {}
    /\ shouldTerminate = [c \in Conn |-> FALSE]
    /\ selectorTasks   = <<>>
    /\ wakeup          = FALSE
    /\ selected        = {}
    /\ at              = "select"
    /\ writing         = Nobody
    /\ pending         = [c \in Conn |-> 0]
    /\ pc              = [c \in Conn |-> "idle"]
    /\ target          = [c \in Conn |-> Nobody]
    /\ ending          = [c \in Conn |-> FALSE]

-----------------------------------------------------------------------------
(* Clients: connect, send, read what they are sent, hang up.               *)
ClientConnects(c) ==
    /\ client[c] = "absent"
    /\ client' = [client EXCEPT ![c] = "waiting"]
    /\ UNCHANGED <<unread, chunks, room, channel, protocol, selector, shared, worker, pending>>

ClientSends(c) ==
    /\ client[c] = "connected"
    /\ chunks < MaxChunks
    /\ unread' = [unread EXCEPT ![c] = @ + 1]
    /\ chunks' = chunks + 1
    /\ UNCHANGED <<client, room, channel, protocol, selector, shared, worker, pending>>

ClientReads(c) ==
    /\ ~room[c]
    /\ client[c] = "connected"
    /\ room' = [room EXCEPT ![c] = TRUE]
    /\ UNCHANGED <<client, unread, chunks, channel, protocol, selector, shared, worker, pending>>

ClientHangsUp(c) ==
    /\ "hangUp" \in Endings
    /\ client[c] = "connected"
    /\ client' = [client EXCEPT ![c] = "hungUp"]
    /\ UNCHANGED <<unread, chunks, room, channel, protocol, selector, shared, worker, pending>>

-----------------------------------------------------------------------------
(* The selector thread: select(), ...                                      *)
SelectorAt(from, to) == at = from /\ at' = to

Ready ==
    {ready \in Conn \X {"read", "write"} :
        LET c == ready[1]  op == ready[2]
        IN  /\ key[c] = "valid"
            /\ op \in interest[c]
            /\ \/ client[c] = "hungUp"
               \/ op = "read" /\ unread[c] > 0
               \/ op = "write" /\ room[c]}

Waiting == {<<c, "accept">> : c \in {d \in Conn : client[d] = "waiting"}}

Select ==
    /\ SelectorAt("select", "tasks")
    /\ wakeup \/ Ready \cup Waiting # {}
    /\ \/ Waiting = {} /\ selected' = Ready
       \/ \E one \in Waiting : selected' = Ready \cup {one}
    /\ wakeup' = FALSE
    /\ key' = [c \in Conn |-> IF key[c] = "cancelled" THEN "none" ELSE key[c]]
    /\ UNCHANGED <<clients, interest, writeQueue, protocol, writing, selectorTasks, worker, pending>>

MutantReadWrite == {"read"}
MutantReadOnly  == {}

(* The interest sets: with frames to write, and without.                   *)
ReadWrite == {"read", "write"}
ReadOnly  == {"read"}

(* ... then the tasks of the workers.  interestOps of a key that is null   *)
(* or cancelled throws, and serve() catches neither exception.             *)
RunTask ==
    /\ selectorTasks # <<>>
    /\ IF key[Head(selectorTasks)] = "valid"
       THEN /\ interest' = [interest EXCEPT ![Head(selectorTasks)] = ReadWrite]
            /\ at = "tasks" /\ UNCHANGED at
       ELSE SelectorAt("tasks", "crashed") /\ UNCHANGED interest
    /\ selectorTasks' = Tail(selectorTasks)
    /\ UNCHANGED <<clients, key, writeQueue, protocol, selected, writing, wakeup, worker, pending>>

TasksDone ==
    /\ SelectorAt("tasks", "keys")
    /\ selectorTasks = <<>>
    /\ UNCHANGED <<clients, channel, protocol, selected, writing, shared, worker, pending>>

(* ... then the keys that are ready: an accept, ...                        *)
Accept(c) ==
    /\ SelectorAt("keys", "keys")
    /\ <<c, "accept">> \in selected
    /\ selected'    = selected \ {<<c, "accept">>}
    /\ client'      = [client EXCEPT ![c] = "connected"]
    /\ key'         = [key EXCEPT ![c] = "valid"]
    /\ interest'    = [interest EXCEPT ![c] = ReadOnly]
    /\ connections' = connections \cup {c}
    /\ UNCHANGED <<unread, chunks, room, writeQueue, shouldTerminate, writing, shared, worker, pending>>

(* close(): the channel and handleDisconnect, which may throw.             *)
Close(c, from, to) ==
    /\ \/ SelectorAt(from, to)
       \/ "logout" \in Endings /\ SelectorAt(from, "crashed")
    /\ key'             = [key EXCEPT ![c] = IF @ = "valid" THEN "cancelled" ELSE @]
    /\ connections'     = connections \ {c}
    /\ shouldTerminate' = [shouldTerminate EXCEPT ![c] = TRUE]

MutantRead(c) ==
    /\ <<c, "read">> \in selected
    /\ selected' = selected \ {<<c, "read">>}
    /\ IF unread[c] > 0
       THEN /\ SelectorAt("keys", "keys")
            /\ pending' = [pending EXCEPT ![c] = @ + 1]
            /\ UNCHANGED <<key, protocol>>
       ELSE /\ Close(c, "keys", "keys")
            /\ UNCHANGED pending
    /\ UNCHANGED <<clients, interest, writeQueue, writing, shared, worker>>

(* ... a read, whose chunk goes to the pool; at the end of input, close;   *)
Read(c) ==
    /\ <<c, "read">> \in selected
    /\ selected' = selected \ {<<c, "read">>}
    /\ IF unread[c] > 0
       THEN /\ SelectorAt("keys", "keys")
            /\ unread'  = [unread EXCEPT ![c] = @ - 1]
            /\ pending' = [pending EXCEPT ![c] = @ + 1]
            /\ UNCHANGED <<key, protocol>>
       ELSE /\ Close(c, "keys", "keys")
            /\ UNCHANGED <<unread, pending>>
    /\ UNCHANGED <<client, chunks, room, interest, writeQueue, writing, shared, worker>>

MutantWrite(c) ==
    /\ <<c, "write">> \in selected
    /\ <<c, "read">> \notin selected
    /\ selected' = selected \ {<<c, "write">>}
    /\ IF key[c] = "valid" /\ shouldTerminate[c]
       THEN Close(c, "keys", "keys") /\ UNCHANGED writing
       ELSE IF key[c] = "valid"
       THEN SelectorAt("keys", "write") /\ writing' = c /\ UNCHANGED <<key, protocol>>
       ELSE SelectorAt("keys", "keys") /\ UNCHANGED <<key, protocol, writing>>
    /\ UNCHANGED <<clients, interest, writeQueue, shared, worker, pending>>

(* ... and, unless the read closed the channel, a write: continueWrite.    *)
Write(c) ==
    /\ <<c, "write">> \in selected
    /\ <<c, "read">> \notin selected
    /\ selected' = selected \ {<<c, "write">>}
    /\ IF key[c] = "valid"
       THEN SelectorAt("keys", "write") /\ writing' = c
       ELSE SelectorAt("keys", "keys") /\ UNCHANGED writing
    /\ UNCHANGED <<clients, channel, protocol, shared, worker, pending>>

KeysDone ==
    /\ SelectorAt("keys", "select")
    /\ selected = {}
    /\ UNCHANGED <<clients, channel, protocol, selected, writing, shared, worker, pending>>

-----------------------------------------------------------------------------
(* continueWrite: a frame is written as a whole, ...                       *)
WriteFrame(c) ==
    /\ SelectorAt("write", "write")
    /\ writing = c /\ writeQueue[c] > 0 /\ key[c] = "valid"
    /\ room[c] \/ client[c] = "hungUp"
    /\ writeQueue' = [writeQueue EXCEPT ![c] = @ - 1]
    /\ \E left \in BOOLEAN : room' = [room EXCEPT ![c] = left]
    /\ UNCHANGED <<client, unread, chunks, key, interest, protocol, selected, writing, shared, worker, pending>>

(* ... or in part, and the rest waits for the next select, ...             *)
WritePart(c) ==
    /\ SelectorAt("write", "keys")
    /\ writing = c /\ writeQueue[c] > 0 /\ key[c] = "valid"
    /\ ~room[c] /\ client[c] # "hungUp"
    /\ writing' = Nobody
    /\ UNCHANGED <<clients, channel, protocol, selected, shared, worker, pending>>

(* ... or throws: the channel is closed and the loop goes on, for the      *)
(* frame is still queued and every further write throws as well.           *)
WriteFails(c) ==
    /\ writing = c /\ writeQueue[c] > 0
    /\ key[c] # "valid" \/ ("reset" \in Endings /\ client[c] = "hungUp")
    /\ Close(c, "write", "write")
    /\ UNCHANGED <<clients, interest, writeQueue, selected, writing, shared, worker, pending>>

(* The loop ends when it finds the queue empty; the test after it looks    *)
(* again, and only then is the protocol asked whether it has ended: while  *)
(* the selector is between two of these tests a worker may queue a frame.  *)
WriteLoopEnds(c) ==
    /\ SelectorAt("write", "drained")
    /\ writing = c /\ writeQueue[c] = 0
    /\ UNCHANGED <<clients, channel, protocol, selected, writing, shared, worker, pending>>

TestQueue(c) ==
    /\ writing = c
    /\ IF writeQueue[c] = 0
       THEN SelectorAt("drained", "empty") /\ UNCHANGED writing
       ELSE SelectorAt("drained", "keys") /\ writing' = Nobody
    /\ UNCHANGED <<clients, channel, protocol, selected, shared, worker, pending>>

AfterWrite(c) ==
    /\ writing = c
    /\ writing' = Nobody
    /\ IF shouldTerminate[c]
       THEN /\ Close(c, "empty", "keys")
            /\ UNCHANGED interest
       ELSE /\ SelectorAt("empty", "keys")
            /\ interest' = [interest EXCEPT ![c] = ReadOnly]
            /\ UNCHANGED <<key, protocol>>
    /\ UNCHANGED <<clients, writeQueue, selected, shared, worker, pending>>

-----------------------------------------------------------------------------
(* A worker processes a chunk: a frame for a connection that is registered *)
(* (its own or, for a SEND, a subscriber), or none; and it may end its own *)
(* connection, with a last frame if that is asked for and it is still      *)
(* registered, or without one.                                             *)
Goto(c, from, to) ==
    /\ pc[c] = from
    /\ pc' = [pc EXCEPT ![c] = to]

End(c, first) ==
    /\ Goto(c, "idle", first)
    /\ target' = [target EXCEPT ![c] = IF first = "add" THEN c ELSE @]
    /\ ending' = [ending EXCEPT ![c] = TRUE]

(* The statement that ends a connection with a last frame begins with:     *)
(* send, if a handler is registered for it, else handleDisconnect.         *)
Answer(c) == IF c \in connections THEN "add" ELSE "terminate"

Process(c) ==
    /\ pending[c] > 0
    /\ pending' = [pending EXCEPT ![c] = @ - 1]
    /\ \/ \E d \in connections :
             /\ Goto(c, "idle", "add")
             /\ target' = [target EXCEPT ![c] = d]
             /\ UNCHANGED ending
       \/ "answered" \in Endings /\ End(c, Answer(c))
       \/ "silent" \in Endings /\ End(c, "terminate")
       \/ pc[c] = "idle" /\ UNCHANGED worker
    /\ UNCHANGED <<clients, channel, protocol, selector, shared>>

(* send: the frame joins the queue, the selector gets a task and a wakeup. *)
Add(c) ==
    /\ Goto(c, "add", "post")
    /\ writeQueue' = [writeQueue EXCEPT ![target[c]] = @ + 1]
    /\ UNCHANGED <<clients, key, interest, protocol, selector, shared, target, ending, pending>>

Post(c) ==
    /\ Goto(c, "post", "wake")
    /\ selectorTasks' = Append(selectorTasks, target[c])
    /\ UNCHANGED <<clients, channel, protocol, selector, wakeup, target, ending, pending>>

MutantWake(c) ==
    /\ Goto(c, "wake", IF ending[c] THEN "terminate" ELSE "idle")
    /\ target' = [target EXCEPT ![c] = Nobody]
    /\ UNCHANGED <<clients, channel, protocol, selector, shared, ending, pending>>

Wake(c) ==
    /\ Goto(c, "wake", IF ending[c] THEN "terminate" ELSE "idle")
    /\ wakeup' = TRUE
    /\ target' = [target EXCEPT ![c] = Nobody]
    /\ UNCHANGED <<clients, channel, protocol, selector, selectorTasks, ending, pending>>

(* handleDisconnect, after the last frame was sent, if there is one.       *)
Terminate(c) ==
    /\ Goto(c, "terminate", "idle")
    /\ connections'     = connections \ {c}
    /\ shouldTerminate' = [shouldTerminate EXCEPT ![c] = TRUE]
    /\ ending'          = [ending EXCEPT ![c] = FALSE]
    /\ UNCHANGED <<clients, channel, selector, shared, target, pending>>

-----------------------------------------------------------------------------
ClientStep(c) == ClientConnects(c) \/ ClientSends(c) \/ ClientReads(c) \/ ClientHangsUp(c)

SelectorStep ==
    \/ Select \/ RunTask \/ TasksDone \/ KeysDone
    \/ \E c \in Conn :
        \/ Accept(c) \/ Read(c) \/ Write(c)
        \/ WriteFrame(c) \/ WritePart(c) \/ WriteFails(c)
        \/ WriteLoopEnds(c) \/ TestQueue(c) \/ AfterWrite(c)

WorkerStep(c) == Process(c) \/ Add(c) \/ Post(c) \/ Wake(c) \/ Terminate(c)

Next == SelectorStep \/ \E c \in Conn : ClientStep(c) \/ WorkerStep(c)

(* The selector thread and the pool's workers run when they can, and a     *)
(* client that stays reads what it is sent; it need not do anything else.  *)
Fairness ==
    /\ WF_vars(SelectorStep)
    /\ \A c \in Conn : WF_vars(WorkerStep(c)) /\ WF_vars(ClientReads(c))

Spec == Init /\ [][Next]_vars /\ Fairness

-----------------------------------------------------------------------------
Down == at = "crashed" \/ (at = "write" /\ key[writing] # "valid")

(* The values of the variables; a worker has a target exactly where it     *)
(* uses one, and the selector writes for a connection inside continueWrite *)
TypeOK ==
    /\ client \in [Conn -> {"absent", "waiting", "connected", "hungUp"}]
    /\ unread \in [Conn -> 0..MaxChunks]
    /\ chunks \in 0..MaxChunks
    /\ room \in [Conn -> BOOLEAN]
    /\ key \in [Conn -> {"none", "valid", "cancelled"}]
    /\ interest \in [Conn -> SUBSET {"read", "write"}]
    /\ writeQueue \in [Conn -> Nat]
    /\ connections \subseteq Conn
    /\ shouldTerminate \in [Conn -> BOOLEAN]
    /\ selectorTasks \in Seq(Conn)
    /\ wakeup \in BOOLEAN
    /\ selected \subseteq Conn \X {"accept", "read", "write"}
    /\ at \in {"select", "tasks", "keys", "write", "drained", "empty", "crashed"}
    /\ writing \in Conn \cup {Nobody}
    /\ pending \in [Conn -> 0..MaxChunks]
    /\ pc \in [Conn -> {"idle", "add", "post", "wake", "terminate"}]
    /\ target \in [Conn -> Conn \cup {Nobody}]
    /\ ending \in [Conn -> BOOLEAN]
    /\ \A c \in Conn : target[c] = Nobody <=> pc[c] \in {"idle", "terminate"}
    /\ at # "crashed" => (writing = Nobody <=> at \notin {"write", "drained", "empty"})

(* The task that makes the selector look at c's queue is in the queue of   *)
(* tasks, or a worker is about to post it.                                 *)
Announced(c) ==
    \/ \E i \in 1..Len(selectorTasks) : selectorTasks[i] = c
    \/ \E d \in Conn : pc[d] = "post" /\ target[d] = c

(* A queued frame is never forgotten: while the channel is open, either    *)
(* the selector waits for the socket to take it, or the task that makes it *)
(* so is in the queue or about to be posted.                               *)
FramesAreWatched ==
    \A c \in Conn :
        writeQueue[c] > 0 /\ key[c] = "valid" => "write" \in interest[c] \/ Announced(c)

(* The selector never sleeps on a task: it was woken, or will be.          *)
TasksAreAnnounced ==
    at = "select" /\ selectorTasks # <<>> => wakeup \/ \E c \in Conn : pc[c] = "wake"

(* The server does not close the channel of a client that is still there   *)
(* and go on without the frames queued for it: a frame left in the queue   *)
(* came after the test of the queue, so its task, which finds the key      *)
(* cancelled and stops the selector thread, is still to come.              *)
NoFrameAbandoned ==
    \A c \in Conn :
        writeQueue[c] > 0 /\ client[c] = "connected" /\ key[c] # "valid" =>
            at = "crashed" \/ Announced(c)

(* Every frame queued for a client is written, unless the client hangs up  *)
(* or the selector thread is lost.  A channel that is closed on a client   *)
(* that is still there is no excuse.                                       *)
FramesWritten ==
    \A c \in Conn : writeQueue[c] > 0 ~> writeQueue[c] = 0 \/ client[c] = "hungUp" \/ Down

(* Unless the selector thread is lost the server serves: a client that     *)
(* connects is accepted, what it sends is read while its channel is open,  *)
(* and what was read is processed even when it is not.                     *)
ServerServes ==
    \A c \in Conn :
        /\ client[c] = "waiting" ~> client[c] # "waiting" \/ Down
        /\ unread[c] > 0 ~> unread[c] = 0 \/ key[c] # "valid" \/ Down
        /\ pending[c] > 0 ~> pending[c] = 0 /\ pc[c] = "idle"

-----------------------------------------------------------------------------
(* What a comment of the code says and an interleaving breaks.             *)

(* "if any errors were thrown in the process, send an error frame and      *)
(* close": a connection the protocol has ended is closed.                  *)
EndedIsClosed == \A c \in Conn : shouldTerminate[c] ~> key[c] # "valid" \/ Down
=============================================================================
