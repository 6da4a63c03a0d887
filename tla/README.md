# A verification project for the STOMP server and client

The repository is a STOMP message broker in Java, an SQL gateway in Python that
stores its users and logins, and a C++ client that reports game events through
the broker.  The broker runs in one of two ways: a thread per client
(`StompBaseServer`) or a reactor (`StompReactor`).  This directory holds TLA+
modules of its concurrent parts, TLC configurations that check them, and
proofs that TLAPS checks.

`J` stands for `src/server/src/main/java/bgu/spl/net` below.

## 1. The system

| component | source | state | operations |
|---|---|---|---|
| actor thread pool | `J/srv/ActorThreadPool.java` | work queue, a queue per actor, the set `playingNow` | `submit`, `complete`, `shutdown` |
| subscriptions | `J/srv/SubscriptionManager.java` | `subscriptions` (channel to list), `subDict` (connection to list) | subscribe, unsubscribe, `disconnectUser`, `isSubscribedToChannel` |
| connections | `J/srv/ConnectionsManager.java` | connection id to handler, message counter | connect, disconnect, send to one, send to a channel |
| protocol | `J/srv/StompSrv/StompMsgProtocol.java` | user name, `shouldTerminate` | one per frame, `handleDisconnect` |
| thread-per-client server | `StompBaseServer`, `StompBlockingConnectionHandler` | a thread and a socket per client | accept, run, send, close |
| reactor server | `StompReactor`, `StompNonBlockingConnectionHandler` | selector, keys, selector tasks, write queues | accept, read, write, close |
| frame codec | `StompMsgEncDec`, `src/client/src/ConnectionHandler.cpp` | a buffer of 1024 bytes; the frame read so far | `decodeNextByte`, `encode`; send and read bytes and frames |
| users and sessions | `J/impl/data/{Database,User}.java` | `userMap`, `connectionsIdMap`, a flag per user | login, logout, `isLoggedIn`, file uploads, report |
| SQL server | `src/data/sql_server.py` | tables users, login_history, file_tracking | one statement per socket connection |
| client | `src/client/src/StompClient.cpp`, `StompProtocol.h` | receipts, subscriptions, connection flag | keyboard commands, frames of the server |
| game reports | `src/client/src/event.cpp`, `Game.h` | events per game and user | report, update, summary |

**Interaction.**  A connection handler feeds decoded frames to its protocol
object.  The protocol calls the one `Database` and the one `ConnectionsManager`
of the server, and that calls the handlers of other connections to send to
them.  So the thread of one client runs code on the maps all clients share,
and on the handlers of other clients.  In the reactor the selector thread
reads and writes the sockets and closes them, and pool workers run the
protocol; a worker that has queued a frame asks the selector thread, by a task
and a wakeup, to watch for writability.  Each call to the SQL server opens a
socket, blocks, and may throw.

**What is hard.**

- The maps are concurrent maps and the lists copy-on-write lists, but a
  subscription, a removal or a broadcast is a *sequence* of calls without a
  lock (`SubscriptionManager`).
- The end of a connection is entered two or three times
  (`process`, `solveError`, `close`), part of it may throw, and the maps it
  clears are in use by other threads.
- Login takes two monitors and two SQL calls; each call can fail before or
  after it took effect, and a failed registration is taken back while others
  may have seen it.
- In the reactor, three queues and a set of interests are handed between the
  threads without locks, and an exception on the selector thread ends the
  server.
- The client's keyboard thread and its listener share a table of games; the
  listener changes it under a mutex that the keyboard thread does not take.
- Frames travel as bytes that the network and the reactor cut anywhere, through
  a buffer of fixed size, and either side may close in the middle of one.

The list of hazards, each with its line and the properties that are about it,
is in `PROJECT.json`.

**What makes each component correct.** Pool: the tasks of one actor run one at a
time, in order, and none is forgotten. Broker: the two indexes of subscriptions
agree in the direction a removal needs; a message reaches a subscriber once at
most and in its publisher's order; a connection that is closed in order leaves
nothing behind, and one that has left the map is sent nothing numbered
afterwards. Sessions: one connection per user, ended by that connection only,
and given back by every connection that disconnects in order while no call
fails. Reactor: every queued frame of an open channel is written, the selector
never sleeps on work, and a live server leaves no queued frame behind when it
closes a channel. Codec: the frames decoded are those encoded, whatever the
chunks. Client: both ends count the same subscriptions, and the end of a
connection is noticed. Reports: what a client stores of another's reports has no
gaps while the server's channel lists the client, is in the order and split of
the reporter's own table, and a summary of it does not contradict itself.

## 2. Modules

| module | what it is |
|---|---|
| `SerialExecutor` | abstract: tasks of an actor begin in order, one at a time |
| `ActorThreadPool` | the pool, a step per statement |
| `ActorThreadPoolProofs` | its invariants, and that it implements `SerialExecutor!Safety` |
| `Broker` | subscriptions, connections and the protocol that drives them |
| `BrokerProofs` | its theorems |
| `SessionLock` | abstract: an exclusive lock per user |
| `Sessions` | database and the login part of the protocol |
| `SessionsProofs` | its invariants, the login history, and that it implements `SessionLock!Safety` |
| `Reactor` | selector thread, keys, write queues, workers |
| `ReactorProofs` | its theorems |
| `FrameCodec` | one connection as bytes, for both servers |
| `FrameCodecProofs` | its theorems |
| `Client` | keyboard and listener threads of the client, and the server's side of its connections |
| `ClientProofs` | its theorems |
| `GameLog` | class `Game`, events, and the summary made of them: operators only |
| `Reports` | several clients that report, store and summarise games |
| `ReportsProofs` | that summaries do not contradict themselves |
| `ReportsOrderProofs` | that reports arrive in order, once, and none is lost while the channel lists its receiver, and that summaries show the latest values and agree |
| `MCBroker`, `MCSessions`, `MCReports`, `MCFrameCodec` | the instances of these for TLC: symmetry sets, credentials, report files, frames |

Operators named `Mutant...` are plausible bugs: `PROJECT.json` says which
definition each replaces and which property then fails.  No specification uses
them.

### ActorThreadPool

Each statement of `submit`, `execute` and `complete` is an action of the thread
that is at it; `pc` names the statement, `monitor` is the Java monitor of the
actor (`synchronized (act)`), `job` the runnable in hand.  `submitted` and
`begun` are history.  `Take`/`Return` are the worker's run of a task and
`Complete` the `finally` clause.  The read-write lock around the
`WeakHashMap` is left out: the entry of an actor is reached only inside that
actor's monitor.

### Broker

One protocol thread per connection, as in the thread-per-client server.  A step
is one call on a shared map or list.  What is merged, and why it may be:

- `subDict.get(conId)` and its list are used by the connection's own thread
  only, so their accesses belong to the next shared step.
- `subscriptions.get(channel)` and the operation on the list it returns are one
  step.  If the list is replaced or dropped between the two, the operation has
  an effect on a list nobody can reach, which is what it would have been had it
  come just before.
- A snapshot of a copy-on-write list is taken when the iterator is made; the
  receivers are served in any order, which allows more than the code does.

`connections.get(id)` and the `send` to the handler it returns are two steps:
`Fetch` (`Skip`, if the receiver is not in the map: the exception is caught) and
`Deliver`.  `fetched` is the handler a publisher has got; its connection may leave
the map, and its thread end, before the frame is sent to it.  So "gets nothing after
it has left" would be false; `NothingNewAfterLeaving` says what is true: such a
frame was numbered before the connection left (`leftAt`, history).

`closing` tells in which call of `handleDisconnect` the thread is, which decides
whether an exception is caught (`Throw`).  `Refuse` stands for every frame that
is refused before it touches the maps.  A thread ends in one of two ways: `done`,
after its last `handleDisconnect`, or `dead`, by an exception that leaves `run()`.
`Overflow` is such an end between two frames: a frame longer than the decoder's
array throws past the catch of `IOException`, no `handleDisconnect` follows, and
the handler and the subscriptions of a thread that no longer exists stay.

### Sessions

One step per access to a shared map, synchronized block or SQL call.  A `User`
object is named by the connection that created it, since a connection whose
`CONNECT` failed is closed.  An SQL call has four outcomes: done; answered with
an error (the caller never looks at the answer); done, but the answer was lost;
not done.  The last two throw.  `Faults` says whether SQL calls may fail and
whether the unsubscribing inside `handleDisconnect` may throw, which module
`Broker` shows to happen; a behaviour has all of these (`faults = Faults`) or
none (`faults = {}`), so that one run shows what holds always and what holds
when nothing fails.  `Credential` bounds the pairs of login and passcode that
each connection may send.  `openRows` counts the rows of `login_history` without
a logout time.  `user.logout()` writes the flag outside the monitor that reads
it; it is followed by a volatile write, so a late read sees what an earlier read
would have seen.  `Overflow` is the end of a thread as in `Broker`: the user stays
logged in though no call failed.

### Reactor

The selector thread is a program counter `at` (select, tasks, keys, write,
drained, empty, crashed) with the set `selected` of ready operations; each
connection has a worker, because the pool runs the tasks of one connection one at
a time (shown by `ActorThreadPool`).  A worker's `send` is three steps: `Add` to
the write queue, `Post` a task, `Wake` the selector.  The end of `continueWrite`
is three steps as well: its loop finds the queue empty (`WriteLoopEnds`), the
queue is tested again (`TestQueue`, line 101), and the protocol is asked whether
it has ended (`AfterWrite`, lines 102-104).  A worker may queue a frame between any
two of them.  One queued between the last two goes unwritten if `AfterWrite`
closes the channel, and its task then finds a cancelled key, which ends the
selector thread: `NoFrameAbandoned` says that the server does not go on without
that frame.

Interest sets change on the selector thread only.  `key` is valid, cancelled
(channel closed, not yet seen by a select) or none.  Sockets have room or not:
`ClientReads` makes room.  `writeQueue` is a count, since no property tells frames
apart.  `Endings` says how connections may end: with a last frame (`answered`: an
error, or a DISCONNECT with a receipt), without one (`silent`: a DISCONNECT
without a receipt header), by the client (`hangUp`), and what may fail then
(`reset`, `logout`).  `Terminate` joins `shouldTerminate = true` with the removal
from the connections map: the selector thread reads only the flag, the other
workers only the map.  The pool of read buffers is left out: a buffer belongs to
one task from lease to release.

### Client

The keyboard thread is at a statement `kpc`, the listener at `lpc`; what `main`
does before a frame is sent (`Command`) and after it (`Send`, `Forget`) are
steps of their own, because the listener runs in between. Connections are
numbered; `handler[n]` is the client's object (open, closed, deleted) and
`server[n]` the other side, which answers the frames of a connection in order
(`Serve...`) and may refuse, drop or lose it. Ids are always 0, since `main`
passes its counters by value, so the map of receipts is one entry, and
UNSUBSCRIBE removes the oldest subscription. A RECEIPT frame carries the command
it answers, which only the properties look at.

`main` does not test the flag before a login, so `Login` is possible at every
prompt: while the listener reads from the old handler, and while it has told the
user of an end but not yet cleared the flag (`caught`), which then clears the
flag of the new connection.  What a listener does with a deleted handler is
undefined; `Dangling` is a choice of what it may come to: the rest of a frame, a
failed read, the next handler at the same address, a blocked read (no step), or
the end of the process (`Die`).  Neither "the listener reads no deleted handler"
nor "an end clears the flag of its own connection only" holds of this; the first
is what a comment promises, and the run `client_live_login` refutes it.  The
properties that pass allow for both.

### GameLog and Reports

`GameLog` holds what is computed: how an event of a file becomes a record
(`ParseEvent`), how the event read back from a message differs from it
(`ParseToEvent`: a value ends at its first colon, the lines of the description
are joined, and a key with a colon is split there, its second piece becoming the
value), where `AddUpdate` puts it and which flags it sets, and what a summary
shows.  A text is the sequence of its pieces between colons.  Line breaks occur
in descriptions only: elsewhere they would end a line of the frame, which the
parser, going by lines, does not survive.  `std::sort` keeps equal times in their
order only while it sorts by insertion, up to 16 elements (`InsertionSorted`).
`Insert` does the same up to there (`Place`); a longer list comes out in some
order of its times (`SortOrder`), and the properties about order say so.

In `Reports` each user has a client of two threads.  `kpc` is the statement of
the keyboard thread, `hand` the message its listener has parsed and not yet
stored.  The four getters of `handleSummary` are four steps (`Read`), and a
report is a send and then a store for each event.  `addUpdate` takes the mutex;
the getters, the reset at a join and the erase at an exit do not (`Unlocked`).
Such an access during an `addUpdate` is a data race: it comes out in either
order, or the process ends (`Crash`).  What other modules show in detail is one
step here: the end of a connection, a reconnection, a subscription.  Its outcomes
are kept: `subs[u]` is the list of the connection, `listed[g]` that of the channel,
and whenever the latter changes (`ServeSubscribe`, `ServeUnsubscribe`, `Close`) it
may lose any of its subscribers, since `Broker` shows lists that are replaced or
dropped while others are added to them.  Messages go to those who are `listed`.  A
frame that needs a list which is not there, or the sender in it, is refused
(`Refuses`).  All
subscriptions have id 0, as in `Client`.  `reported`, `published` and `from` are
history: reports sent, those the server accepted, and where a client came in.

### FrameCodec

The client's `ConnectionHandler` and a connection handler of the server, for
`mode` blocking or reactor, with the bytes on their way each way.  The blocking
server decodes a byte at a time; the reactor reads chunks (`ContinueRead`), a
task of the pool decodes each (`DecodeTask`), and writes what fits
(`ContinueWrite`).  A byte too many ends the connection of the blocking server
and the task of the reactor, where the buffer stays full.  A side that closes
loses what the other had not read, from any byte on.

## 3. Runs

Passing runs:

| run | instance | shows |
|---|---|---|
| `pool` | 2 actors, 2 submitters, 2 workers, 3 tasks for each actor, `shutdown` at any step | tasks of an actor never overlap; a waiting task always has somebody who will poll for it; the pool implements `SerialExecutor`, its progress included |
| `broker_safety` | 2 connections, 2 channels, 2 subscriptions each, 2 messages in all, SQL failures, too-long frames | `ListedIsOwned`, `DoneIsGone`, `NothingNewAfterLeaving`; each message once at most and in its publisher's order (`PublisherOrder`) |
| `sessions` | 3 connections, 2 users, 2 passcodes, all failures or none, too-long frames | a client that acts as a user has that user's session, alone; without failures the login history agrees with the sessions; the database implements `SessionLock`, and when nothing fails every connection that enters `handleDisconnect` gives its user back |
| `reactor` | 2 connections, 2 chunks, every ending | no queued frame is forgotten, no task goes unannounced, a channel closed on queued frames takes the server with it (`NoFrameAbandoned`); frames are written, clients accepted and served, while the selector thread is not lost |
| `client` | 2 channels, 2 logins at any moment, 3 commands, every refusal and loss of a connection | both ends count the same subscriptions; every end of a connection is noticed unless the listener was left with a deleted handler |
| `reports` | 2 clients, 1 game, 2 files of 3 events in all, 2 and 3 commands, 1 reconnection, subscribers lost | what a client stores has no gaps, and none that was published while the channel listed it is missing; clients agree on order, split and flags; a summary agrees with itself and shows the latest values of both teams; published reports are stored again and again |
| `codec` | a buffer of 2, frames that are empty, just fit or are a byte too long, 3 frames, chunks up to 4 | only whole frames are handed on, in order; only a frame that is too long overflows; all arrive while both ends stay open; an end is noticed |

Runs that TLC refutes, each with a finding in `PROJECT.json` that quotes the
comment it contradicts:

| run | what happens |
|---|---|
| `broker_lost_subscription` | two first subscribers of a channel: the second `put` drops the list with the first one |
| `sessions_locked_out` | an SQL call that throws in a logout or a login leaves the user logged in for ever |
| `reactor_open` | the ERROR frame is flushed before `shouldTerminate` is set: the connection is never closed |
| `client_live_login` | a login closes and deletes the handler the listener is still reading from |
| `client_receipts` | two commands before the first receipt: one entry for both, and the second receipt is taken for a logout |

The models contain other steps that the code does not guard against, and the
passing properties are stated so as not to deny them: the selector thread is lost
when the interest set of a closed key is changed (`RunTask`), when
`handleDisconnect` throws on it (`Close`), and when a write throws and the loop
of `continueWrite` goes on (`WriteFails`); `Down` names these states.  In
`Broker`, `disconnectUser` may stop half way (`NullPointer`), and the thread then
ends in `dead` rather than `done`; in `Broker` and `Sessions` a frame too long for
the decoder ends it there at once (`Overflow`).  `DoneIsGone` and the progress of
`SessionLock` are about the connections that are closed in order.

**Bounds.** Two actors and two workers are what a race for the pool needs:
another actor only delays; three tasks for an actor fill its queue to two, so
that order can go wrong. Two connections make every race on a channel (first
subscriber, last subscriber, removal under a publisher); two channels and two
subscriptions are needed for `disconnectUser` to stop half way. Sessions needs
three connections: one that fails to register, one that looked the user up
meanwhile, one that comes later; ids are never reused, so each connection logs
in once. In the broker two messages are enough for a wrong order, and for one that
is numbered while another is still being served. In the reactor a worker, its neighbour and the selector thread are all
the parties that meet at one write queue; two chunks let a client send again
after its connection was ended, or both clients at once. Symmetry is used for
invariants and for action properties that treat connections alike, never with
liveness. In the client one reconnection shows every race between an old
connection and a new one, the login over a live connection included, and three commands on two channels a join, another
join and an exit. In `reports` one user reports and leaves, the other joins,
leaves, joins again and summarises; the files hold an event that is later in the
game than the one sent after it, two of equal time, both flags, values for both
teams, and a key and a text with a colon; the lists stay far below the 16 elements
up to which the order of equal times is defined, and what holds of longer ones is
left to the proofs. In `codec`
the buffer of 1024 bytes is one of two: only whether a frame is shorter, as long
or longer matters; three frames let a long one stand between others, and a chunk
of four holds a frame and the beginning of the next. `MaxTasks`, `MaxSubs`,
`MaxSends`, `MaxChunks`, `MaxLogins`, `MaxCommands`, `MaxFrames` and `MaxChunk`
are guards of `Submit`, `Subscribe`, `Send`, `ClientSends`, `Login`, `Command`,
`SendFrameAscii` and `ContinueRead` and bound nothing else; `Types` and
`Credential` say which commands a user types and what a connection sends.
Deadlock is not checked where the configuration says that the system rests: once
the clients have used their bounds, or are silent, nothing need happen.

**Fairness.** Weak fairness of each thread's own steps, and none for what
clients or operators decide (`Submit`, `Shutdown`, in `Sessions` `Request`, in
`Reactor` `ClientStep` except `ClientReads`, in `Client` `User` and `ServerDrops`,
in `FrameCodec` sending and closing).  The schedulers run runnable threads; monitors
are held for bounded steps; SQL calls return or throw (there is no socket timeout in
the code, so an SQL server that never answers is outside the assumption); a client
that stays connected reads what it is sent.  `Broker` has no fairness: its
properties are safety.  In `Client` a listener that is left with a deleted handler
(`Dangling`) need never go on.  In `Reports` only the listeners are fair: a server
thread may have died, nobody must type, and `Crash` need not happen.  The
progress of `SessionLock` and `Delivered` say "again and again no user is on a
connection that leaves" and "again and again all is stored", because a new login
or a new report may come at any time; once there are no more, that is "for ever
from some time on".

## 4. Proofs

TLAPS proves, for all values of the constants that satisfy the named
assumptions:

- `ActorThreadPoolProofs` (from `PoolAssumption`: threads and actors are
  distinct from `Nobody`, submitters and workers are disjoint): `PoolTypeOK`,
  `PoolOneTaskPerActor`, `PoolNoStrandedTask`.  Neither of the two properties is
  inductive: a step of `submit` between the test of `playingNow` and the mark is
  safe only because nobody else can be there.  The invariant `IInv` adds that an
  actor in `playingNow` owns one *token* (an entry of the work queue, or a
  thread from its mark or take to its unmark): `TokenOK` says at most one,
  `AliveOK` at least one while the pool is up, `PlayingOK` that tokens and
  pending decisions agree with `playingNow`, `MonitorOK` that the thread that
  decides is inside the monitor, and `WaitingOK` that only actors that play have
  tasks waiting and none has when it is unmarked.  For `PoolImplementsSerial`,
  `OrderOK` counts: the task in the hands of a submitter is the last one
  submitted, those waiting are numbered from the one handed out, and the one
  that is queued or taken is the next to begin.
- `SessionsProofs` (from `SessionsAssumption`), with every failure allowed:
  `SessionsTypeOK`, `SessionsBacked`, `SessionsOnePerUser`.  The invariant rests
  on `HoldOK`: who is logged in to an object is alone with it, the object is
  flagged and is the one in `userMap`.  `ExamineOK` settles the race with a
  registration that is taken back: an object looked up before is either still in
  `userMap` or flagged for ever, so nobody gets in.  `ConnectOK` and `FreshOK`
  say that a connection asks once.  For `SessionsHistoryMatches` and
  `SessionsImplementLock`, `SeekOK` says that a connection that is logging in
  holds nothing yet and is on no way out, and `RowOK` counts the open rows of a
  user while nothing fails.
- `BrokerProofs`: `BrokerTypeOK`, `BrokerListedIsOwned`, `BrokerDoneIsGone`,
  `BrokerPublisherOrder` and `BrokerNothingNewAfterLeaving`, for any number of
  connections, channels and messages.  `IndexOK` joins `ListedIsOwned` with
  `OneEach` (a connection has one subscription to a channel at most), which the
  removal of one entry needs; `ThreadOK` says what a thread between two calls has
  done (`AddingOK`, `ClosingOK`); `OrderOK` says that the message a publisher has
  in hand is newer than all of its own that were delivered, to whom it has still
  to be delivered, and that the counter is ahead of all (`SendingOK`, `InboxOK`).
  `LeavingOK` says that a handler in a publisher's hand was got while its
  connection was in the map, for the message in hand, which is therefore not newer
  than the moment the connection left.  A subscription that is lost to a second
  first subscriber is allowed: `ListedIsOwned` is the direction that survives
  it; and a thread that ends by an exception is `dead`, of which `DoneIsGone` says
  nothing.
- `ReactorProofs`: `ReactorTypeOK`, `ReactorFramesAreWatched`,
  `ReactorTasksAreAnnounced` and `ReactorNoFrameAbandoned`.  `TasksOK` says that a
  task not yet run has a wakeup pending or a worker about to give one, `CountOK`
  that no chunk is read that was not sent; of each connection `FreshOK` says that
  nothing is in hand before it is accepted, and `SelectedOK` what the selector may
  have found ready.  `WatchedOK` follows a queued frame over the three tests at the
  end of `continueWrite`: the channel is watched for writability, or the frame's
  task is announced, or the client hung up, or the thread is lost.
- `ClientProofs`: `ClientTypeOK` and `ClientCountsAgree`, whenever the user logs
  in and whatever a listener with a deleted handler does.  `StepOK` ties the
  statements of a login to the flag and the handler.  The counts need `CInv`:
  `PlaceOK` and `HandOK` (a frame in hand is recorded), `UntriedOK` (a connection
  not tried is empty) and `CountOK`, the equality with the frame in hand counted
  in.
- `ReportsProofs`: `ReportsSummaryFlags`, for any number of clients, games and
  files.  `LogOK` says that what the stored events say is known to the flags of
  the log, and `CopyOK` the same of what a summary has copied, against the flags
  in the table until it has copied these too: flags are only switched on while
  the keyboard thread is busy with the summary.  The lemmas about lists (`PlaceJoins`,
  `SortOrderIs`, `InsertArranges`) say that an insertion adds its entry and only
  moves the others, for lists of any length.
- `ReportsOrderProofs` (from `ReportsAssumption`: there are finitely many games,
  a file names a game and lists events with an `int` as time): `ReportsTypeOK`,
  `ReportsNoGaps`, `ReportsNothingLost`, `ReportsScoreIsLatest` and, for files whose
  flags are `PlainFlags`, `ReportsAgreement`, whichever subscribers the channel
  loses.  The invariant `OInv` follows a report on its way.  `HeldOK`: a channel lists
  only those whose connections hold the subscription (not the other way round).
  `SendOK`: those of one client to the server have ascending numbers, above all that
  were published.  `QueueOK`: so have those to a client, the one in
  the listener's hand first.  `ArriveOK`, by `Complete`: what is stored comes
  before what is coming, and from the number on at which the client joined or
  last emptied the game nothing that was published while the channel lists it is
  missing; each event of the system (empty, subscribe, store, publish, end, loss) has a lemma about
  `Complete` alone.  `OwnOK`: of its own reports a client has all but the one it
  is about to store.  `BalanceOK` counts subscriptions over the frames that are
  under way, which `TypeOK` needs to say that the server finds one to take away.

  What is listed follows from it: an entry that is added is newer than all it
  joins, so that both lists of a log stay sorted by time and then by number while
  they have 16 elements at most (`Ordered`), and at any length the second is newer
  than the first (`LogsInOrder`) and the first ends where the first report that
  says half-time came in (`LogsSplit`).  A summary copies a log in four reads with
  additions between them: its two lists are in order, and those it copies first
  are older (`CopiesInOrder`), which with the last writer of a key gives
  `ScoreIsLatest`, for the values of both teams and lists up to 16.  For
  `Agreement`, one number of one reporter and game is one event wherever it is, as
  it is in the file or as it is read from a message (`OneEvent`, over all that is
  `Carried`): two tables with the same numbers have the same split and flags, at
  any length, and two sorted lists of the same numbers and times are equal.
  `PlainFlags` says that no file has a flag with a text like `"false:x"`, which is
  cut to `false` at its first colon when it is read from a message, while the
  reporter keeps the whole text, which is not `false`; and no other key that is
  cut to a flag's.  `MCReports` assumes it of its files, so that the run checks
  that it can be met.
- `FrameCodecProofs` (from `CodecAssumption`: the delimiter is no letter):
  `FrameCodecTypeOK`, `FrameCodecFramesIntact`, `FrameCodecOnlyLongOverflow`, for
  any frames, cuts and buffer size.  What was encoded is not computed by recursion
  but quantified: `StreamOK` says that there is a stream, with the places where its
  frames end (`Coded`), such that buffer, chunks and network are consecutive slices
  of it (`Chain`, `Piped`); a new frame makes it longer.  `AnswerOK` says the same
  of the way back, `CloseOK` and `ReceivedOK` what is left when an end is closed.

Each proof has a lemma per action, or per kind of action, with a step per
conjunct of the invariant it can disturb, and the theorems combine the base case
and the step.  The runs check the same properties on their instances.

Every invariant of every passing run is proved.  Only model-checked: the progress
parts of the two refinements and all other liveness (the prover has no fairness
and no ENABLED).

## 5. Not modelled, and the plan

Left out: the text of frames and headers (a frame is accepted or refused; values
of events are modelled as far as they are cut at colons), logging and
`printReport`, host and version headers (the code does not read them), sqlite and
the socket loop of the SQL server, `json.hpp` (vendored), and the template server
with its examples (`Reactor`, `BaseServer`, `newsfeed`, `rci`, `echo`), which the
STOMP server does not use.  The read-write lock around the pool's `WeakHashMap`
and the memory model below it are left out too.

`Sessions` and its proofs are about the thread-per-client server, where one
thread at a time runs the protocol of a connection.  In the reactor
`handleDisconnect` also runs on the selector thread, and the frames behind a
DISCONNECT in one chunk are still processed; what these do to the session is not
modelled.  An SQL server that does not answer, events whose texts other than the
description have line breaks, and a process that goes on after a data race on its
table with a damaged table are not modelled either.

To do, in this order:

1. `ReactorSessions`: `Sessions` with a second thread per connection, the selector
   thread that closes it.  Two connections for one user; does a late
   `Database.logout` end somebody else's session?  Frames after a DISCONNECT in one
   chunk.
2. `SqlServer`: connections served by threads, one statement each, so that the four
   outcomes of a call in `Sessions` are shown to be all there are.
3. Proofs: the safety properties the runs check are all proved.  Worth adding are
   abstract specifications of two components that have none, with the proof that
   they are implemented: `FrameCodec` as a queue of frames in each direction, and
   `Broker` as one queue per publisher and receiver.
