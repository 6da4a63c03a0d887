------------------------------- MODULE Broker -------------------------------
(***************************************************************************)
(* Channels, subscriptions and message delivery in the thread-per-client   *)
(* server: SubscriptionManager and ConnectionsManager, driven by one       *)
(* protocol thread per connection.  The shared maps are concurrent maps    *)
(* and copy-on-write lists without any lock around sequences of calls, so  *)
(* every call on a shared map is a step of its own.                        *)
(*                                                                         *)
(*  - The entry of subDict for a connection is used by that connection's   *)
(*    thread only; its reads and writes are joined to the neighbouring     *)
(*    shared step.                                                         *)
(*  - subscriptions.get(channel) and the one operation on the list it      *)
(*    returns are a single step: an operation on a list that was replaced  *)
(*    or removed meanwhile has the effect it would have had just before.   *)
(*    connections.get(id) and the send to the handler it returns are two.  *)
(*  - A list of subscriptions is a set; the order of one connection's list *)
(*    is that of the serial numbers n.                                     *)
(*  - Every frame the protocol refuses without touching the maps is        *)
(*    Refuse.  Login state and the SQL server are in module Sessions; here *)
(*    a connection has a user name or not, and SQL calls fail or not.      *)
(*  - leftAt is history: how many messages had been numbered when the      *)
(*    connection was taken out of the map; {} until then.                  *)
(***************************************************************************)
EXTENDS Naturals, Sequences

CONSTANTS Conn,       \* connection ids (conIdGen never reuses one)
          Channel,    \* destinations
          SubId,      \* values of the id header; clients may repeat them
          SqlFaults,  \* whether calls to the SQL server may throw
          MaxSubs,    \* bound: subscriptions made by one connection
          MaxSends    \* bound: SEND frames of all connections

ASSUME BrokerAssumption ==
    /\ SqlFaults \in BOOLEAN
    /\ MaxSubs \in Nat
    /\ MaxSends \in Nat

Subscription == [conId : Conn, channel : Channel, subId : SubId, n : 1..MaxSubs]

Message == [by : Conn, channel : Channel, id : Nat]

VARIABLES topics,        \* keys of SubscriptionManager.subscriptions
          subscriptions, \* subscriptions[ch]: the list of the channel
          known,         \* keys of SubscriptionManager.subDict
          subDict,       \* subDict[c]: the list of the connection
          connections,   \* keys of ConnectionsManager.connections
          named,         \* connections whose protocol has a user name
          idGen,         \* the number of the last message
          inbox,         \* inbox[c]: MESSAGE frames handed to c's handler
          fetched,       \* fetched[c]: the subscription whose handler c has got
          serial,        \* serial[c]: how many subscriptions c has made
          sent,          \* how many messages have been sent
          leftAt,        \* leftAt[c]: idGen when c was taken out of connections
          pc,            \* the statement each connection's thread is at
          closing,       \* the call of handleDisconnect it is in
          todo,          \* subscriptions it is adding, removing or serving
          msg            \* the messages (one or none) it is publishing

manager  == <<topics, subscriptions, known, subDict>>
delivery == <<connections, idGen, inbox, fetched>>
history  == <<serial, sent, leftAt>>
vars     == <<manager, delivery, history, named, pc, closing, todo, msg>>

Init ==
    /\ topics        = {}
    /\ subscriptions = [ch \in Channel |-> {}]
    /\ known         = {}
    /\ subDict       = [c \in Conn |-> {}]
    /\ connections   = {}
    /\ named         = {}
    /\ idGen         = 0
    /\ inbox         = [c \in Conn |-> <<>>]
    /\ fetched       = [c \in Conn |-> {}]
    /\ serial        = [c \in Conn |-> 0]
    /\ sent          = 0
    /\ leftAt        = [c \in Conn |-> {}]
    /\ pc            = [c \in Conn |-> "new"]
    /\ closing       = [c \in Conn |-> "no"]
    /\ todo          = [c \in Conn |-> {}]
    /\ msg           = [c \in Conn |-> {}]

Goto(c, from, to) ==
    /\ pc[c] = from
    /\ pc' = [pc EXCEPT ![c] = to]

(* The element of a connection's list that comes first.                    *)
First(S) == CHOOSE s \in S : \A t \in S : s.n <= t.n

Current(c) == First(todo[c])

Publishing(c) == CHOOSE m \in msg[c] : TRUE

(* An exception.  While a frame is processed (also a DISCONNECT frame) it  *)
(* is caught, answered with an ERROR frame and followed by a call of       *)
(* handleDisconnect.  From that call, or from the one in close(), it       *)
(* leaves run() and the thread ends.                                       *)
Throw(c) ==
    /\ IF closing[c] \in {"no", "logout"}
       THEN /\ pc'      = [pc EXCEPT ![c] = "disconnect"]
            /\ closing' = [closing EXCEPT ![c] = "error"]
       ELSE /\ pc'      = [pc EXCEPT ![c] = "dead"]
            /\ UNCHANGED closing
    /\ todo' = [todo EXCEPT ![c] = {}]
    /\ msg'  = [msg EXCEPT ![c] = {}]

-----------------------------------------------------------------------------
(* A new client: the handler's constructor registers it, ...               *)
Accept(c) ==
    /\ Goto(c, "new", "idle")
    /\ connections' = connections \cup {c}
    /\ UNCHANGED <<manager, idGen, inbox, fetched, named, history, closing, todo, msg>>

(* ... a CONNECT frame that the database accepts gives it a user name.     *)
Login(c) ==
    /\ pc[c] = "idle"
    /\ c \notin named
    /\ named' = named \cup {c}
    /\ UNCHANGED <<manager, delivery, history, pc, closing, todo, msg>>

(* A frame that is refused before it has an effect: malformed, a header    *)
(* missing or not a number, sent before login, a CONNECT the database      *)
(* rejects, a second subscription to a channel, UNSUBSCRIBE without any.   *)
Refuse(c) ==
    /\ pc[c] = "idle"
    /\ Throw(c)
    /\ UNCHANGED <<manager, delivery, named, history>>

(* The receipt, if one was asked for; a receipt header that is not a       *)
(* number throws here, after the frame took effect.                        *)
Reply(c) ==
    /\ Goto(c, "reply", "idle")
    /\ UNCHANGED <<manager, delivery, named, history, closing, todo, msg>>

BadReceipt(c) ==
    /\ pc[c] = "reply"
    /\ Throw(c)
    /\ UNCHANGED <<manager, delivery, named, history>>

-----------------------------------------------------------------------------
(* SUBSCRIBE *)
MutantSubscribed(c, ch) == FALSE

Subscribed(c, ch) == \E s \in subDict[c] : s.channel = ch

Subscribe(c, ch, id) ==
    /\ c \in named
    /\ ~Subscribed(c, ch)
    /\ serial[c] < MaxSubs
    /\ Goto(c, "idle", "hasTopic")
    /\ serial' = [serial EXCEPT ![c] = @ + 1]
    /\ todo'   = [todo EXCEPT ![c] =
                    {[conId |-> c, channel |-> ch, subId |-> id, n |-> serial[c] + 1]}]
    /\ UNCHANGED <<manager, delivery, named, sent, leftAt, closing, msg>>

HasTopic(c) ==
    /\ Goto(c, "hasTopic", IF Current(c).channel \in topics THEN "listAdd" ELSE "putTopic")
    /\ UNCHANGED <<manager, delivery, named, history, closing, todo, msg>>

(* put replaces a list that another thread may have put in the meantime.   *)
PutTopic(c) ==
    /\ Goto(c, "putTopic", "listAdd")
    /\ topics'        = topics \cup {Current(c).channel}
    /\ subscriptions' = [subscriptions EXCEPT ![Current(c).channel] = {}]
    /\ UNCHANGED <<known, subDict, delivery, named, history, closing, todo, msg>>

ListAdd(c) ==
    /\ Goto(c, "listAdd", "reply")
    /\ Current(c).channel \in topics
    /\ subscriptions' = [subscriptions EXCEPT ![Current(c).channel] = @ \cup todo[c]]
    /\ known'         = known \cup {c}
    /\ subDict'       = [subDict EXCEPT ![c] = @ \cup todo[c]]
    /\ todo'          = [todo EXCEPT ![c] = {}]
    /\ UNCHANGED <<topics, delivery, named, history, closing, msg>>

-----------------------------------------------------------------------------
(* UNSUBSCRIBE, and the removal of one subscription                        *)
Unsubscribe(c, id) ==
    LET matching == {s \in subDict[c] : s.subId = id}
    IN  /\ c \in named \cap known
        /\ Goto(c, "idle", IF matching = {} THEN "reply" ELSE "listRemove")
        /\ todo' = [todo EXCEPT ![c] = IF matching = {} THEN {} ELSE {First(matching)}]
        /\ UNCHANGED <<manager, delivery, named, history, closing, msg>>

MutantListRemove(c) ==
    /\ Goto(c, "listRemove", "topicHas")
    /\ Current(c).channel \in topics
    /\ subDict' = [subDict EXCEPT ![c] = @ \ {Current(c)}]
    /\ UNCHANGED <<topics, subscriptions, known, delivery, named, history, closing, todo, msg>>

ListRemove(c) ==
    /\ Goto(c, "listRemove", "topicHas")
    /\ Current(c).channel \in topics
    /\ subscriptions' = [subscriptions EXCEPT ![Current(c).channel] = @ \ {Current(c)}]
    /\ subDict'       = [subDict EXCEPT ![c] = @ \ {Current(c)}]
    /\ UNCHANGED <<topics, known, delivery, named, history, closing, todo, msg>>

(* Where removeSub returns to: the loop of disconnectUser, whose end is    *)
(* the call of the database, or the reply to UNSUBSCRIBE.                  *)
AfterRemoval(c) ==
    IF todo[c] # {Current(c)} THEN "listRemove"
    ELSE IF closing[c] = "no" THEN "reply" ELSE "logout"

Advance(c, toDrop) ==
    IF toDrop
    THEN pc' = [pc EXCEPT ![c] = "topicDrop"] /\ UNCHANGED todo
    ELSE /\ pc'   = [pc EXCEPT ![c] = AfterRemoval(c)]
         /\ todo' = [todo EXCEPT ![c] = @ \ {Current(c)}]

(* removeTopicIfNeeded: containsKey, then get and size, then remove.       *)
TopicHas(c) ==
    /\ pc[c] = "topicHas"
    /\ IF Current(c).channel \in topics
       THEN pc' = [pc EXCEPT ![c] = "topicSize"] /\ UNCHANGED todo
       ELSE Advance(c, FALSE)
    /\ UNCHANGED <<manager, delivery, named, history, closing, msg>>

TopicSize(c) ==
    /\ pc[c] = "topicSize"
    /\ Current(c).channel \in topics
    /\ Advance(c, subscriptions[Current(c).channel] = {})
    /\ UNCHANGED <<manager, delivery, named, history, closing, msg>>

TopicDrop(c) ==
    /\ pc[c] = "topicDrop"
    /\ topics'        = topics \ {Current(c).channel}
    /\ subscriptions' = [subscriptions EXCEPT ![Current(c).channel] = {}]
    /\ Advance(c, FALSE)
    /\ UNCHANGED <<known, subDict, delivery, named, history, closing, msg>>

-----------------------------------------------------------------------------
(* SEND: the sender must be subscribed (containsKey, then a scan of the    *)
(* list), the file name may go to the SQL server, the message gets its     *)
(* number, and goes to every subscription of the list as it is then.       *)
Send(c, ch) ==
    /\ c \in named
    /\ sent < MaxSends
    /\ Goto(c, "idle", "hasChannel")
    /\ sent' = sent + 1
    /\ msg'  = [msg EXCEPT ![c] = {[by |-> c, channel |-> ch, id |-> 0]}]
    /\ UNCHANGED <<manager, delivery, named, serial, leftAt, closing, todo>>

HasChannel(c) ==
    /\ Goto(c, "hasChannel", "scan")
    /\ Publishing(c).channel \in topics
    /\ UNCHANGED <<manager, delivery, named, history, closing, todo, msg>>

Listed(c, ch) == \E s \in subscriptions[ch] : s.conId = c

Scan(c) ==
    /\ Goto(c, "scan", "publish")
    /\ Listed(c, Publishing(c).channel)
    /\ UNCHANGED <<manager, delivery, named, history, closing, todo, msg>>

NotSubscribed(c) ==
    /\ \/ pc[c] = "hasChannel" /\ Publishing(c).channel \notin topics
       \/ /\ pc[c] = "scan"
          /\ Publishing(c).channel \in topics
          /\ ~Listed(c, Publishing(c).channel)
    /\ Throw(c)
    /\ UNCHANGED <<manager, delivery, named, history>>

Publish(c) ==
    /\ Goto(c, "publish", "snapshot")
    /\ idGen' = idGen + 1
    /\ msg'   = [msg EXCEPT ![c] = {[Publishing(c) EXCEPT !.id = idGen + 1]}]
    /\ UNCHANGED <<manager, connections, inbox, fetched, named, history, closing, todo>>

TrackFails(c) ==
    /\ SqlFaults
    /\ pc[c] = "publish"
    /\ Throw(c)
    /\ UNCHANGED <<manager, delivery, named, history>>

Snapshot(c) ==
    LET receivers == subscriptions[Publishing(c).channel]
    IN  /\ Goto(c, "snapshot", IF receivers = {} THEN "reply" ELSE "deliver")
        /\ Publishing(c).channel \in topics
        /\ todo' = [todo EXCEPT ![c] = receivers]
        /\ msg'  = IF receivers = {} THEN [msg EXCEPT ![c] = {}] ELSE msg
        /\ UNCHANGED <<manager, delivery, named, history, closing>>

(* send(id, message) to one receiver: connections.get, then the call of    *)
(* send on the handler it returned, which may have left the map, and whose *)
(* thread may have ended, by then.  A receiver that is not in the map is   *)
(* skipped (the NullPointerException is caught).                           *)
Served(c, s) ==
    /\ todo' = [todo EXCEPT ![c] = @ \ {s}]
    /\ IF todo[c] = {s}
       THEN pc' = [pc EXCEPT ![c] = "reply"] /\ msg' = [msg EXCEPT ![c] = {}]
       ELSE UNCHANGED <<pc, msg>>

Fetch(c, s) ==
    /\ pc[c] = "deliver"
    /\ fetched[c] = {}
    /\ s.conId \in connections
    /\ fetched' = [fetched EXCEPT ![c] = {s}]
    /\ UNCHANGED <<manager, connections, idGen, inbox, named, history, pc, closing, todo, msg>>

Skip(c, s) ==
    /\ pc[c] = "deliver"
    /\ fetched[c] = {}
    /\ s.conId \notin connections
    /\ Served(c, s)
    /\ UNCHANGED <<manager, delivery, named, history, closing>>

Deliver(c, s) ==
    /\ s \in fetched[c]
    /\ inbox'   = [inbox EXCEPT ![s.conId] = Append(@, Publishing(c))]
    /\ fetched' = [fetched EXCEPT ![c] = {}]
    /\ Served(c, s)
    /\ UNCHANGED <<manager, connections, idGen, named, history, closing>>

(* subscriptions.get(channel) is null where the code expects a list.       *)
NullPointer(c) ==
    /\ \/ pc[c] \in {"listAdd", "listRemove", "topicSize"} /\ Current(c).channel \notin topics
       \/ pc[c] \in {"scan", "snapshot"} /\ Publishing(c).channel \notin topics
    /\ Throw(c)
    /\ UNCHANGED <<manager, delivery, named, history>>

-----------------------------------------------------------------------------
(* DISCONNECT; the end of the input (the client closed or the read failed) *)
Disconnect(c) ==
    /\ c \in named
    /\ Goto(c, "idle", "disconnect")
    /\ closing' = [closing EXCEPT ![c] = "logout"]
    /\ UNCHANGED <<manager, delivery, named, history, todo, msg>>

HangUp(c) ==
    /\ Goto(c, "idle", "disconnect")
    /\ closing' = [closing EXCEPT ![c] = "close"]
    /\ UNCHANGED <<manager, delivery, named, history, todo, msg>>

(* A frame that does not fit the decoder's array throws out of run(), past *)
(* close() and the catch of IOException: the thread ends, and the handler, *)
(* the subscriptions and the login stay.                                   *)
Overflow(c) ==
    /\ Goto(c, "idle", "dead")
    /\ UNCHANGED <<manager, delivery, named, history, closing, todo, msg>>

Noted(c) == leftAt' = IF leftAt[c] = {} THEN [leftAt EXCEPT ![c] = {idGen}] ELSE leftAt

MutantUnregisterAlwaysLoops(c) ==
    /\ Goto(c, "disconnect", "listRemove")
    /\ connections' = connections \ {c}
    /\ Noted(c)
    /\ todo' = [todo EXCEPT ![c] = subDict[c]]
    /\ UNCHANGED <<manager, idGen, inbox, fetched, named, serial, sent, closing, msg>>

MutantUnregisterOnly(c) ==
    /\ Goto(c, "disconnect", "logout")
    /\ connections' = connections \ {c}
    /\ Noted(c)
    /\ UNCHANGED <<manager, idGen, inbox, fetched, named, serial, sent, closing, todo, msg>>

MutantUnregisterKeepsHandler(c) ==
    /\ Goto(c, "disconnect", IF subDict[c] = {} THEN "logout" ELSE "listRemove")
    /\ Noted(c)
    /\ todo' = [todo EXCEPT ![c] = subDict[c]]
    /\ UNCHANGED <<manager, delivery, named, serial, sent, closing, msg>>

(* handleDisconnect: the connection leaves the map, disconnectUser goes    *)
(* over the subscriptions of the connection, ...                           *)
Unregister(c) ==
    /\ Goto(c, "disconnect", IF subDict[c] = {} THEN "logout" ELSE "listRemove")
    /\ connections' = connections \ {c}
    /\ Noted(c)
    /\ todo' = [todo EXCEPT ![c] = subDict[c]]
    /\ UNCHANGED <<manager, idGen, inbox, fetched, named, serial, sent, closing, msg>>

(* ... drops its entry, and the user is logged out.  After a frame that    *)
(* terminated the connection, run() leaves its loop and calls close(),     *)
(* which calls handleDisconnect once more.                                 *)
Logout(c) ==
    /\ Goto(c, "logout", IF closing[c] = "close" THEN "done" ELSE "disconnect")
    /\ closing' = [closing EXCEPT ![c] = "close"]
    /\ known'   = known \ {c}
    /\ subDict' = [subDict EXCEPT ![c] = {}]
    /\ named'   = named \ {c}
    /\ UNCHANGED <<topics, subscriptions, delivery, history, todo, msg>>

LogoutFails(c) ==
    /\ SqlFaults
    /\ pc[c] = "logout"
    /\ c \in named
    /\ known'   = known \ {c}
    /\ subDict' = [subDict EXCEPT ![c] = {}]
    /\ Throw(c)
    /\ UNCHANGED <<topics, subscriptions, delivery, named, history>>

-----------------------------------------------------------------------------
Request(c) ==
    \/ Accept(c) \/ Login(c) \/ Refuse(c) \/ Disconnect(c) \/ HangUp(c) \/ Overflow(c)
    \/ \E ch \in Channel : Send(c, ch) \/ \E id \in SubId : Subscribe(c, ch, id)
    \/ \E id \in SubId : Unsubscribe(c, id)

Continue(c) ==
    \/ Reply(c) \/ BadReceipt(c)
    \/ HasTopic(c) \/ PutTopic(c) \/ ListAdd(c)
    \/ ListRemove(c) \/ TopicHas(c) \/ TopicSize(c) \/ TopicDrop(c)
    \/ HasChannel(c) \/ Scan(c) \/ NotSubscribed(c)
    \/ Publish(c) \/ TrackFails(c) \/ Snapshot(c) \/ NullPointer(c)
    \/ \E s \in todo[c] : Fetch(c, s) \/ Skip(c, s) \/ Deliver(c, s)
    \/ Unregister(c) \/ Logout(c) \/ LogoutFails(c)

Next == \E c \in Conn : Request(c) \/ Continue(c)

Spec == Init /\ [][Next]_vars

-----------------------------------------------------------------------------
Removing == {"listRemove", "topicHas", "topicSize", "topicDrop"}
Adding   == {"hasTopic", "putTopic", "listAdd"}
Sending  == {"hasChannel", "scan", "publish", "snapshot", "deliver"}
Ended    == {"done", "dead"}

(* The values of the variables, and that a thread holds subscriptions and  *)
(* a message exactly at the statements that use them.                      *)
TypeOK ==
    /\ topics \subseteq Channel
    /\ subscriptions \in [Channel -> SUBSET Subscription]
    /\ known \subseteq Conn
    /\ subDict \in [Conn -> SUBSET Subscription]
    /\ connections \subseteq Conn
    /\ named \subseteq Conn
    /\ idGen \in Nat
    /\ inbox \in [Conn -> Seq(Message)]
    /\ fetched \in [Conn -> SUBSET Subscription]
    /\ serial \in [Conn -> 0..MaxSubs]
    /\ sent \in 0..MaxSends
    /\ leftAt \in [Conn -> SUBSET Nat]
    /\ pc \in [Conn -> Removing \cup Adding \cup Sending \cup Ended
                         \cup {"new", "idle", "reply", "disconnect", "logout"}]
    /\ closing \in [Conn -> {"no", "logout", "error", "close"}]
    /\ todo \in [Conn -> SUBSET Subscription]
    /\ msg \in [Conn -> SUBSET Message]
    /\ \A c \in Conn : todo[c] # {} <=> pc[c] \in Removing \cup Adding \cup {"deliver"}
    /\ \A c \in Conn : msg[c] # {} <=> pc[c] \in Sending

(* The two indexes agree in one direction whatever the threads do: what a  *)
(* channel's list holds belongs to that channel and is in the list of its  *)
(* connection, so that disconnectUser and unsubscribe can find it.         *)
ListedIsOwned ==
    \A ch \in Channel : \A s \in subscriptions[ch] :
        ch \in topics /\ s.channel = ch /\ s \in subDict[s.conId]

(* A client gets each message once, and the messages of one publisher in   *)
(* the order they were published, although lists are replaced, dropped and *)
(* copied while they are served.                                           *)
PublisherOrder ==
    \A c \in Conn : \A i, j \in 1..Len(inbox[c]) :
        i < j /\ inbox[c][i].by = inbox[c][j].by => inbox[c][i].id < inbox[c][j].id

(* A connection that was closed in order has left nothing behind: no key,  *)
(* no subscription in any channel, no handler, no user name.               *)
DoneIsGone ==
    \A c \in Conn : pc[c] = "done" =>
        /\ c \notin known \cup connections \cup named
        /\ \A ch \in Channel : ~Listed(c, ch)

(* Once a connection was taken out of the map it is handed no message that *)
(* was numbered later, although its subscriptions may still be listed and  *)
(* publishers hold copies of lists with them, and a handler got before.    *)
NothingNewAfterLeaving ==
    \A c \in Conn : \A n \in leftAt[c] : \A i \in 1..Len(inbox[c]) : inbox[c][i].id <= n

-----------------------------------------------------------------------------
(* What a comment of the code says, and concurrent threads break.          *)

(* "returns true iff user is subscribed to the input channel" (of          *)
(* isSubscribedToChannel), for a client that no frame is processed for.    *)
SubscribedIffListed ==
    \A c \in Conn, ch \in Channel :
        pc[c] = "idle" => (Subscribed(c, ch) <=> ch \in topics /\ Listed(c, ch))
=============================================================================
