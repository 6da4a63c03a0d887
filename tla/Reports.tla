------------------------------- MODULE Reports -------------------------------
(***************************************************************************)
(* Reports of games from client to client: what each client stores when    *)
(* games are joined, left, reported on and summarised while messages of    *)
(* other clients come in.  A client has a keyboard thread and a listener;  *)
(* the table Games is used by both, and only addUpdate takes its mutex.    *)
(*                                                                         *)
(*  - A client keeps its user's name when it logs in again; the steps of   *)
(*    a reconnection are in module Client and are one step here.  Every    *)
(*    subscription has id 0 (see Client), so that UNSUBSCRIBE takes the    *)
(*    oldest.                                                              *)
(*  - The statements of the server's threads are in Broker, one step per   *)
(*    frame here.  What they may do to each other is kept: a subscription, *)
(*    an unsubscription and the end of a connection may lose subscribers   *)
(*    of the channel, themselves included, because the channel's list is   *)
(*    replaced or removed while others are added to it.  (Broker needs two *)
(*    threads in the list's first or last moments for this; here it may    *)
(*    happen at any such step.)                                            *)
(*  - Frames that do not touch the table are left out.                     *)
(*  - An access to the table without the mutex that meets addUpdate is a   *)
(*    data race: it comes out in either order, or ends the process.        *)
(*  - A report has a number n, counted per reporter and game.  It travels  *)
(*    with the event for the properties only.                              *)
(***************************************************************************)
EXTENDS GameLog, SequencesExt

CONSTANTS User,        \* users, each with a client
          Game,        \* channels
          File,        \* report files: records [game, events]
          Joined,      \* users that have joined every game to begin with
          Types,       \* bound: the commands each user makes use of
          MaxCommands, \* bound: commands each user types
          MaxLogins    \* bound: times a connection is opened again

(* A file names a game and lists events, each with an int as its time.     *)
ASSUME ReportsAssumption ==
    /\ \A f \in File :
          /\ f.game \in Game
          /\ f.events \in Seq(Range(f.events))
          /\ \A e \in Range(f.events) : e.time \in Int
    /\ Joined \subseteq User
    /\ IsFiniteSet(Game)
    /\ Types \in [User -> SUBSET {"join", "exit", "report", "summary"}]
    /\ MaxCommands \in [User -> Nat]
    /\ MaxLogins \in Nat

VARIABLES kpc,           \* the statement each keyboard thread is at
          game,          \* the game of its command
          left,          \* the events it has still to report
          copy,          \* what handleSummary has read so far
          subscriptions, \* keys of the map subscriptions
          isConnected,   \* the client's flag
          Games,         \* Games[u][g][w]: what u's client has of w in g
          hand,          \* the message (one or none) a listener is storing
          open,          \* whether the server has a connection of the user
          subs,          \* subDict: the server's list for that connection
          listed,        \* subscriptions: listed[g] is the list of channel g
          toServer,      \* frames on their way to the server
          toClient,      \* messages on their way to the client
          reported,      \* reported[w][g]: reports w's client has sent
          published,     \* published[w][g]: those the server has accepted
          from,          \* from[u][g][w]: the last of them when u joined
          commands,      \* commands each user has typed
          logins         \* connections opened again so far

keyboard == <<kpc, game, left, copy, subscriptions>>
client   == <<isConnected, Games, hand>>
server   == <<open, subs, listed>>
network  == <<toServer, toClient>>
history  == <<reported, published, from>>
bounds   == <<commands, logins>>
vars     == <<keyboard, client, server, network, history, bounds>>

NoLogs == [g \in Game |-> [w \in User |-> NoUpdates]]
NoCopy == [user |-> {}, log |-> NoUpdates]

Init ==
    /\ kpc           = [u \in User |-> "prompt"]
    /\ game          = [u \in User |-> {}]
    /\ left          = [u \in User |-> <<>>]
    /\ copy          = [u \in User |-> NoCopy]
    /\ subscriptions = [u \in User |-> IF u \in Joined THEN Game ELSE {}]
    /\ isConnected   = [u \in User |-> TRUE]
    /\ Games         = [u \in User |-> NoLogs]
    /\ hand          = [u \in User |-> {}]
    /\ open          = [u \in User |-> TRUE]
    /\ subs          = [u \in User |-> IF u \in Joined THEN SetToSeq(Game) ELSE <<>>]
    /\ listed        = [g \in Game |-> Joined]
    /\ toServer      = [u \in User |-> <<>>]
    /\ toClient      = [u \in User |-> <<>>]
    /\ reported      = [w \in User |-> [g \in Game |-> 0]]
    /\ published     = [w \in User |-> [g \in Game |-> {}]]
    /\ from          = [u \in User |-> [g \in Game |-> [w \in User |-> 0]]]
    /\ commands      = [u \in User |-> 0]
    /\ logins        = 0

KeyboardAt(u, here, next) ==
    /\ kpc[u] = here
    /\ kpc' = [kpc EXCEPT ![u] = next]

The(S) == CHOOSE x \in S : TRUE

(* The last report of w that the server has taken; of its own, u counts    *)
(* those it has sent.                                                      *)
Latest(u, g, w) ==
    IF w = u THEN reported[u][g]
    ELSE IF published[w][g] = {} THEN 0 ELSE Max(published[w][g])

-----------------------------------------------------------------------------
(* The commands.  A client that is not connected refuses them.             *)
Command(u, word) ==
    /\ isConnected[u]
    /\ word \in Types[u]
    /\ commands[u] < MaxCommands[u]
    /\ commands' = [commands EXCEPT ![u] = @ + 1]
    /\ UNCHANGED logins

(* Every command first sends a frame, to a connection that the server may  *)
(* have closed: the frame is lost, or the send fails, main catches the     *)
(* exception and the command ends there.                                   *)
Transmit(u, frame) ==
    /\ toServer' = IF open[u] THEN [toServer EXCEPT ![u] = Append(@, frame)] ELSE toServer
    /\ UNCHANGED toClient

SendFails(u) ==
    /\ ~open[u]
    /\ UNCHANGED network

Join(u, g) ==
    /\ Command(u, "join")
    /\ g \notin subscriptions[u]
    /\ subscriptions' = [subscriptions EXCEPT ![u] = @ \cup {g}]
    /\ \/ /\ Transmit(u, <<"SUBSCRIBE", g>>)
          /\ KeyboardAt(u, "prompt", "reset")
          /\ game' = [game EXCEPT ![u] = {g}]
       \/ /\ SendFails(u)
          /\ KeyboardAt(u, "prompt", "prompt")
          /\ UNCHANGED game
    /\ UNCHANGED <<left, copy, client, server, history>>

Exit(u, g) ==
    /\ Command(u, "exit")
    /\ g \in subscriptions[u]
    /\ \/ /\ Transmit(u, <<"UNSUBSCRIBE">>)
          /\ KeyboardAt(u, "prompt", "erase")
          /\ game' = [game EXCEPT ![u] = {g}]
       \/ /\ SendFails(u)
          /\ KeyboardAt(u, "prompt", "prompt")
          /\ UNCHANGED game
    /\ UNCHANGED <<left, copy, subscriptions, client, server, history>>

Report(u, f) ==
    /\ Command(u, "report")
    /\ KeyboardAt(u, "prompt", IF f.events = <<>> THEN "prompt" ELSE "send")
    /\ game' = [game EXCEPT ![u] = {f.game}]
    /\ left' = [left EXCEPT ![u] = ParseEventsFile(f)]
    /\ UNCHANGED <<copy, subscriptions, client, server, network, history>>

Summarise(u, g, w) ==
    /\ Command(u, "summary")
    /\ KeyboardAt(u, "prompt", "getBefore")
    /\ game' = [game EXCEPT ![u] = {g}]
    /\ copy' = [copy EXCEPT ![u].user = {w}]
    /\ UNCHANGED <<left, subscriptions, client, server, network, history>>

-----------------------------------------------------------------------------
(* handleReport: for each event the frame is sent, then the event stored.  *)
ConstructEventFrame(u, e) ==
    [by |-> u, game |-> The(game[u]), n |-> reported[u][The(game[u])] + 1, event |-> e]

Send(u) ==
    /\ kpc[u] = "send"
    /\ \/ /\ Transmit(u, <<"SEND", ConstructEventFrame(u, Head(left[u]))>>)
          /\ KeyboardAt(u, "send", "store")
          /\ reported' = [reported EXCEPT ![u][The(game[u])] = @ + 1]
          /\ UNCHANGED <<game, left>>
       \/ /\ SendFails(u)
          /\ KeyboardAt(u, "send", "prompt")
          /\ game' = [game EXCEPT ![u] = {}]
          /\ left' = [left EXCEPT ![u] = <<>>]
          /\ UNCHANGED reported
    /\ UNCHANGED <<copy, subscriptions, client, server, published, from, bounds>>

(* handleJoin and handleExit then put an empty Game into the table, or     *)
(* take it out: an absent Game and an empty one are the same to            *)
(* operator[].                                                             *)
ForgetGame(u) ==
    /\ Games' = [Games EXCEPT ![u][The(game[u])] = [w \in User |-> NoUpdates]]
    /\ from'  = [from EXCEPT ![u][The(game[u])] =
                   [w \in User |-> Latest(u, The(game[u]), w)]]
    /\ UNCHANGED <<isConnected, hand>>

Reset(u) ==
    /\ KeyboardAt(u, "reset", "prompt")
    /\ ForgetGame(u)
    /\ game' = [game EXCEPT ![u] = {}]
    /\ UNCHANGED <<left, copy, subscriptions, server, network, reported, published, bounds>>

Erase(u) ==
    /\ KeyboardAt(u, "erase", "prompt")
    /\ ForgetGame(u)
    /\ subscriptions' = [subscriptions EXCEPT ![u] = @ \ game[u]]
    /\ game' = [game EXCEPT ![u] = {}]
    /\ UNCHANGED <<left, copy, server, network, reported, published, bounds>>

AddTo(u, g, w, n, e) ==
    Games' = [Games EXCEPT ![u][g][w] = AddUpdate(@, [n |-> n, event |-> e])]

(* The reporter stores each event after it was sent.                       *)
Store(u) ==
    LET g == The(game[u])
    IN  /\ KeyboardAt(u, "store", IF Len(left[u]) = 1 THEN "prompt" ELSE "send")
        /\ AddTo(u, g, u, reported[u][g], Head(left[u]))
        /\ left' = [left EXCEPT ![u] = Tail(@)]
        /\ game' = [game EXCEPT ![u] = IF Len(left[u]) = 1 THEN {} ELSE @]
        /\ UNCHANGED <<copy, subscriptions, isConnected, hand, server, network, history, bounds>>

-----------------------------------------------------------------------------
(* handleSummary: four reads of the table, without the mutex.              *)
MutantRead(u, here, next, part) ==
    LET other == [before |-> "done", after |-> "half", done |-> "before", half |-> "after"]
    IN  /\ KeyboardAt(u, here, next)
        /\ copy' = [copy EXCEPT ![u].log[other[part]] =
                      Games[u][The(game[u])][The(copy[u].user)][other[part]]]
        /\ UNCHANGED <<game, left, subscriptions, client, server, network, history, bounds>>

Read(u, here, next, part) ==
    /\ KeyboardAt(u, here, next)
    /\ copy' = [copy EXCEPT ![u].log[part] = Games[u][The(game[u])][The(copy[u].user)][part]]
    /\ UNCHANGED <<game, left, subscriptions, client, server, network, history, bounds>>

GetUpdatesBefore(u)    == Read(u, "getBefore", "getAfter", "before")
GetUpdatesAfter(u)     == Read(u, "getAfter", "getDone", "after")
GetIsDone(u)           == Read(u, "getDone", "getHalf", "done")
GetIsBeforeHalftime(u) == Read(u, "getHalf", "print", "half")

WriteSummary(u) ==
    /\ KeyboardAt(u, "print", "prompt")
    /\ game' = [game EXCEPT ![u] = {}]
    /\ copy' = [copy EXCEPT ![u] = NoCopy]
    /\ UNCHANGED <<left, subscriptions, client, server, network, history, bounds>>

-----------------------------------------------------------------------------
MutantReceive(u) ==
    /\ kpc[u] # "crashed" /\ isConnected[u]
    /\ hand[u] = {}
    /\ Len(toClient[u]) > 1
    /\ toClient' = [toClient EXCEPT ![u] = Tail(@)]
    /\ hand' = [hand EXCEPT ![u] =
                  LET m == Head(toClient[u])
                  IN  IF m.by = u THEN {} ELSE {[m EXCEPT !.event = ParseToEvent(@)]}]
    /\ UNCHANGED <<keyboard, isConnected, Games, server, toServer, history, bounds>>

(* The listener: a message of the client's own user is dropped, any other  *)
(* is parsed, ...                                                          *)
Receive(u) ==
    /\ kpc[u] # "crashed" /\ isConnected[u]
    /\ hand[u] = {}
    /\ toClient[u] # <<>>
    /\ toClient' = [toClient EXCEPT ![u] = Tail(@)]
    /\ hand' = [hand EXCEPT ![u] =
                  LET m == Head(toClient[u])
                  IN  IF m.by = u THEN {} ELSE {[m EXCEPT !.event = ParseToEvent(@)]}]
    /\ UNCHANGED <<keyboard, isConnected, Games, server, toServer, history, bounds>>

(* ... and added to the table in addUpdate, which takes the mutex.         *)
Add(u) ==
    /\ \E m \in hand[u] : AddTo(u, m.game, m.by, m.n, m.event)
    /\ hand' = [hand EXCEPT ![u] = {}]
    /\ UNCHANGED <<keyboard, isConnected, server, network, history, bounds>>

Unlocked == {"reset", "erase", "getBefore", "getAfter", "getDone", "getHalf"}

(* The keyboard thread is in the table at the same time.                   *)
Crash(u) ==
    /\ hand[u] # {}
    /\ kpc[u] \in Unlocked
    /\ kpc'  = [kpc EXCEPT ![u] = "crashed"]
    /\ hand' = [hand EXCEPT ![u] = {}]
    /\ UNCHANGED <<game, left, copy, subscriptions, isConnected, Games, server, network, history, bounds>>

(* The end of the connection; what was on its way may be lost.             *)
Notice(u) ==
    /\ isConnected[u] /\ ~open[u]
    /\ hand[u] = {} /\ kpc[u] # "crashed"
    /\ isConnected' = [isConnected EXCEPT ![u] = FALSE]
    /\ toClient'    = [toClient EXCEPT ![u] = <<>>]
    /\ UNCHANGED <<keyboard, Games, hand, server, toServer, history, bounds>>

Login(u) ==
    /\ ~isConnected[u]
    /\ kpc[u] = "prompt"
    /\ logins < MaxLogins
    /\ logins'        = logins + 1
    /\ isConnected'   = [isConnected EXCEPT ![u] = TRUE]
    /\ open'          = [open EXCEPT ![u] = TRUE]
    /\ subscriptions' = [subscriptions EXCEPT ![u] = {}]
    /\ UNCHANGED <<kpc, game, left, copy, Games, hand, subs, listed, network, history, commands>>

-----------------------------------------------------------------------------
(* The server thread of u's connection takes the next frame.               *)
Take(u, command) ==
    /\ open[u]
    /\ toServer[u] # <<>>
    /\ Head(toServer[u])[1] = command
    /\ toServer' = [toServer EXCEPT ![u] = Tail(@)]
    /\ UNCHANGED <<keyboard, client, bounds>>

Holds(u, g) == \E i \in DOMAIN subs[u] : subs[u][i] = g

Subscribed(u, g) == u \in listed[g]

ServeSubscribe(u) ==
    LET g == Head(toServer[u])[2]
    IN  /\ Take(u, "SUBSCRIBE")
        /\ ~Holds(u, g)
        /\ subs' = [subs EXCEPT ![u] = Append(@, g)]
        /\ \E kept \in SUBSET (listed[g] \cup {u}) : listed' = [listed EXCEPT ![g] = kept]
        /\ from' = [from EXCEPT ![u][g] =
                      [w \in User |-> IF w = u THEN @[u] ELSE Latest(u, g, w)]]
        /\ UNCHANGED <<open, toClient, reported, published>>

ServeUnsubscribe(u) ==
    LET g == Head(subs[u])
    IN  /\ Take(u, "UNSUBSCRIBE")
        /\ subs[u] # <<>>
        /\ subs' = [subs EXCEPT ![u] = Tail(@)]
        /\ \E kept \in SUBSET (listed[g] \ {u}) : listed' = [listed EXCEPT ![g] = kept]
        /\ UNCHANGED <<open, toClient, history>>

(* To the subscribers at this moment, the sender included; how the threads *)
(* of the server share the fan-out is in Broker.                           *)
Subscribers(g) == {v \in User : Subscribed(v, g)}

MutantFanOut(m) ==
    [v \in User |-> IF Subscribed(v, m.game) THEN <<m>> \o toClient[v] ELSE toClient[v]]

MutantFanOutOnce(m) ==
    LET first == CHOOSE v \in Subscribers(m.game) : TRUE
    IN  [toClient EXCEPT ![first] = Append(@, m)]

FanOut(m) ==
    [v \in User |-> IF Subscribed(v, m.game) THEN Append(toClient[v], m) ELSE toClient[v]]

ServeSend(u) ==
    LET m == Head(toServer[u])[2]
    IN  /\ Take(u, "SEND")
        /\ Subscribed(u, m.game)
        /\ published' = [published EXCEPT ![u][m.game] = @ \cup {m.n}]
        /\ toClient'  = FanOut(m)
        /\ UNCHANGED <<open, subs, listed, reported, from>>

MutantClose(u) ==
    /\ open[u]
    /\ open'     = [open EXCEPT ![u] = FALSE]
    /\ toServer' = [toServer EXCEPT ![u] = <<>>]
    /\ UNCHANGED <<keyboard, client, subs, listed, toClient, history, bounds>>

(* The server ends the connection, on a frame it refuses or when the       *)
(* client is gone, and its subscriptions.                                  *)
Close(u) ==
    /\ open[u]
    /\ open'     = [open EXCEPT ![u] = FALSE]
    /\ subs'     = [subs EXCEPT ![u] = <<>>]
    /\ \E kept \in [Game -> SUBSET User] :
          /\ \A g \in Game : /\ kept[g] \subseteq listed[g] \ {u}
                             /\ ~Holds(u, g) => kept[g] = listed[g] \ {u}
          /\ listed' = kept
    /\ toServer' = [toServer EXCEPT ![u] = <<>>]
    /\ UNCHANGED <<keyboard, client, toClient, history, bounds>>

(* A SUBSCRIBE or UNSUBSCRIBE also fails when the channel has no list: one *)
(* that was removed before the thread reached it, or dropped since.        *)
Refuses(u) ==
    LET frame == Head(toServer[u])
    IN  /\ toServer[u] # <<>>
        /\ \/ frame[1] = "SUBSCRIBE" /\ (Holds(u, frame[2]) \/ listed[frame[2]] = {})
           \/ frame[1] = "UNSUBSCRIBE" /\ ~Subscribed(u, Head(subs[u]))
           \/ frame[1] = "SEND" /\ ~Subscribed(u, frame[2].game)

ServeError(u) == Refuses(u) /\ Close(u)

HangUp(u) == kpc[u] = "crashed" /\ toServer[u] = <<>> /\ Close(u)

-----------------------------------------------------------------------------
Type(u) ==
    \/ \E g \in Game : Join(u, g) \/ Exit(u, g) \/ \E w \in User : Summarise(u, g, w)
    \/ \E f \in File : Report(u, f)
    \/ Login(u)

Keyboard(u) ==
    \/ Send(u) \/ Reset(u) \/ Erase(u) \/ Store(u)
    \/ GetUpdatesBefore(u) \/ GetUpdatesAfter(u) \/ GetIsDone(u) \/ GetIsBeforeHalftime(u)
    \/ WriteSummary(u)

Listener(u) == Receive(u) \/ Add(u) \/ Notice(u)

Server(u) ==
    \/ ServeSubscribe(u) \/ ServeUnsubscribe(u) \/ ServeSend(u)
    \/ ServeError(u) \/ HangUp(u)

Next ==
    \E u \in User : Type(u) \/ Keyboard(u) \/ Listener(u) \/ Crash(u) \/ Server(u)

(* A listener that can go on does.  That is enough: nobody has to type,    *)
(* connections last, and a thread of the server may stop for good, as it   *)
(* does when an exception ends it.                                         *)
Fairness == \A u \in User : WF_vars(Listener(u))

Spec == Init /\ [][Next]_vars /\ Fairness

-----------------------------------------------------------------------------
(* Properties.                                                             *)

Message == [by : User, game : Game, n : Nat \ {0}]

IsMessage(m) == DOMAIN m = {"by", "game", "n", "event"}
                /\ [x \in {"by", "game", "n"} |-> m[x]] \in Message

IsLog(log) ==
    /\ log.half \in BOOLEAN /\ log.done \in BOOLEAN
    /\ \A list \in {log.before, log.after} :
          \A i \in DOMAIN list : list[i].n \in Nat \ {0}

(* The types of the variables; a thread that is in the table works on one  *)
(* game, and the subscriber a channel lists has a connection that holds    *)
(* the subscription.                                                       *)
TypeOK ==
    /\ \A u \in User :
        /\ kpc[u] \in {"prompt", "send", "store", "print", "crashed"}
                      \cup Unlocked
        /\ game[u] \subseteq Game
        /\ kpc[u] \notin {"prompt", "crashed"} => Cardinality(game[u]) = 1
        /\ kpc[u] \in {"send", "store"} => left[u] # <<>>
        /\ subscriptions[u] \subseteq Game
        /\ \A m \in hand[u] : IsMessage(m) /\ m.by # u
        /\ \A i \in DOMAIN toClient[u] : IsMessage(toClient[u][i])
        /\ \A g \in Game, w \in User : IsLog(Games[u][g][w])
        /\ subs[u] # <<>> => open[u]
        /\ \A g \in Game : Subscribed(u, g) => Holds(u, g)
        /\ open[u] /\ toServer[u] # <<>> /\ Head(toServer[u])[1] = "UNSUBSCRIBE" => subs[u] # <<>>
    /\ isConnected \in [User -> BOOLEAN]
    /\ \A u \in User : commands[u] \in 0 .. MaxCommands[u]
    /\ logins \in 0 .. MaxLogins

Entries(log) == Len(log.before) + Len(log.after)

(* Of another's reports a client has each once at most, and of those that  *)
(* were published since it joined (or last emptied the game) it has no     *)
(* later one without the earlier ones: messages of one sender come in the  *)
(* order in which they were sent, whoever else sends or joins meanwhile.   *)
NoGaps ==
    \A u, w \in User, g \in Game :
        LET stored == Stored(Games[u][g][w])
        IN  /\ Entries(Games[u][g][w]) = Cardinality(stored)
            /\ u # w => \A n \in stored : \A k \in published[w][g] :
                            from[u][g][w] < k /\ k < n => k \in stored

(* What is still to come to u of w's reports of g.                         *)
Coming(u, g, w) ==
    {m.n : m \in {x \in Range(toClient[u]) \cup hand[u] : x.by = w /\ x.game = g}}

Running(u) == kpc[u] # "crashed" /\ isConnected[u] /\ open[u]

(* A report published while the channel listed u, and after u last emptied *)
(* the game, is in u's table or on its way; the reporter stores its own    *)
(* itself, though the server sends them back.                              *)
NothingLost ==
    \A u, w \in User, g \in Game :
        Running(u) /\ Subscribed(u, g) =>
            \A n \in published[w][g] :
                n > from[u][g][w] =>
                    IF u = w THEN n \in Stored(Games[u][g][u]) \/ kpc[u] = "store"
                    ELSE n \in Stored(Games[u][g][w]) \cup Coming(u, g, w)

(* Lists that std::sort still sorts by insertion.                          *)
Short(log) == Len(log.before) <= InsertionSorted /\ Len(log.after) <= InsertionSorted

(* Two clients that have the same reports of a game, the reporter or not,  *)
(* list them in the same order (unless there are so many that std::sort    *)
(* exchanges equal times), split at the same place, and agree whether      *)
(* half-time and the end were reported: one stores what its user wrote,    *)
(* the others what they read from a message.                               *)
Agreement ==
    \A u, v, w \in User, g \in Game :
        LET a == Games[u][g][w]
            b == Games[v][g][w]
        IN  Stored(a) = Stored(b) =>
              /\ Short(a) /\ Short(b) => /\ Numbers(a.before) = Numbers(b.before)
                                        /\ Numbers(a.after) = Numbers(b.after)
              /\ Range(Numbers(a.before)) = Range(Numbers(b.before))
              /\ Range(Numbers(a.after)) = Range(Numbers(b.after))
              /\ a.half = b.half /\ a.done = b.done

(* Half-time and the end of a game read the same in a message as in the    *)
(* file it was sent from: no text that is put there for one of the flags   *)
(* differs from "false" behind a colon only, and no other key is cut to    *)
(* the flag's.  (Otherwise the reporter and the others disagree.)          *)
PlainFlags ==
    \A f \in File : \A e \in Range(f.events) :
        \A flag \in {BeforeHalftime, Active} :
            \A key \in DOMAIN e.game_updates :
                Cut(key) = flag =>
                    LET text == JsonText(e.game_updates[key])
                    IN  key = flag /\ (Cut(text) = <<"false">> => text = <<"false">>)

(* A summary reads the table in four steps while the listener adds to it:  *)
(* it may miss what came in between, but an event it lists never           *)
(* contradicts what it says about half-time and the end of the game.       *)
SummaryFlags ==
    \A u \in User :
        kpc[u] = "print" =>
            LET shown == Summary(copy[u].log)
            IN  /\ shown.beforeHalftime => copy[u].log.after = <<>>
                /\ \A i \in DOMAIN shown.reports :
                      LET e == shown.reports[i].event
                      IN  /\ Says(e, Active) => ~shown.active
                          /\ Says(e, BeforeHalftime) => ~shown.beforeHalftime

(* Every value a summary of lists sorted by insertion shows, of either     *)
(* team, is one of a listed report, and no report it lists that gives      *)
(* another value came later and is as late in the game.                    *)
ShowsLatest(Team(_), reports, shown) ==
    \A s \in Statistic :
        LET Value(i) == Team(reports[i].event)[s]
            giving == {i \in DOMAIN reports : s \in DOMAIN Team(reports[i].event)}
            Later(j, i) == /\ reports[j].n > reports[i].n
                           /\ reports[j].event.time >= reports[i].event.time
        IN  giving # {} =>
              \E i \in giving : shown[s] = Value(i) /\ \A j \in giving : ~Later(j, i)

ScoreIsLatest ==
    \A u \in User :
        kpc[u] = "print" /\ Short(copy[u].log) =>
            LET shown == Summary(copy[u].log)
            IN  /\ ShowsLatest(TeamA, shown.reports, shown.teamA)
                /\ ShowsLatest(TeamB, shown.reports, shown.teamB)

(* Again and again every client a channel lists has stored all its reports *)
(* that were published since it last emptied the game: none stays on its   *)
(* way for ever while users type, join, leave and summarise.               *)
Delivered ==
    []<>(\A u, w \in User, g \in Game :
            u # w /\ Running(u) /\ Subscribed(u, g) =>
                \A n \in published[w][g] :
                    n > from[u][g][w] => n \in Stored(Games[u][g][w]))
=============================================================================
