------------------------------- MODULE Client -------------------------------
(***************************************************************************)
(* The client: the thread that reads commands from the keyboard and the    *)
(* thread that listens to the server, over one connection after another,   *)
(* each with the server's side of it.                                      *)
(*                                                                         *)
(*  - main passes receiptIdGen and subIdGen to process by value, so every  *)
(*    receipt id and every subscription id is 0: receipts has one entry at *)
(*    most, and UNSUBSCRIBE asks the server to remove a subscription with  *)
(*    id 0, which is the oldest.                                           *)
(*  - The user has one name.  The server takes the frames of a connection  *)
(*    in order; its own steps are in Broker and Sessions, here a frame is  *)
(*    answered in one step.                                                *)
(*  - An action of the receipts map is the frame it was recorded for, and  *)
(*    a RECEIPT frame carries, for the properties only, the frame that it  *)
(*    answers.                                                             *)
(*  - login does not ask whether there is a connection: it may come while  *)
(*    the listener reads, and before the flag of an end that was announced *)
(*    is cleared.  A listener whose handler is deleted under it reads      *)
(*    freed memory: what it then does is any outcome of Dangling.          *)
(*  - A report of several events is several reports.  The stored events    *)
(*    (Games) are left out: no step depends on them.                       *)
(***************************************************************************)
EXTENDS Naturals, Sequences, FiniteSets

CONSTANTS Topic,       \* channels the user names
          MaxLogins,   \* bound: connections the client tries
          MaxCommands  \* bound: other commands typed

ASSUME ClientAssumption ==
    /\ MaxLogins \in Nat \ {0}
    /\ MaxCommands \in Nat

Con == 1..MaxLogins

NoCon    == 0
NoAction == <<>>

Join       == {<<"SUBSCRIBE", t>> : t \in Topic}
Exit       == {<<"UNSUBSCRIBE", t>> : t \in Topic}
Logout     == <<"DISCONNECT">>
Connect    == <<"CONNECT">>
Report     == {<<"SEND", t>> : t \in Topic}
Receipted  == Join \cup Exit \cup {Logout}
Frame      == Receipted \cup Report \cup {Connect}
Answer     == {<<"CONNECTED">>, <<"ERROR">>, <<"MESSAGE">>}
                  \cup {<<"RECEIPT", f>> : f \in Receipted}

VARIABLES kpc,           \* the statement the keyboard thread is at
          con,           \* its connection handler, or NoCon
          logins,        \* connections tried so far
          commands,      \* commands typed so far
          out,           \* the frame it is about to send, or NoAction
          subscriptions, \* keys of the map subscriptions
          receipt,       \* receipts[0], or NoAction
          ch,            \* the protocol's connection handler
          isConnected,   \* the protocol's flag
          lpc,           \* the statement the listener thread is at
          reading,       \* the handler parseResponse is called on
          handler,       \* handler[n]: the client's handler of connection n
          server,        \* server[n]: the server's side of connection n
          session,       \* connections the user is logged in on
          subs,          \* subs[n]: the server's list for connection n
          toServer,      \* toServer[n]: frames on their way to the server
          toClient       \* toClient[n]: frames on their way back

keyboard == <<kpc, con, logins, commands, out, subscriptions>>
protocol == <<ch, isConnected>>
listener == <<lpc, reading>>
far      == <<server, session, subs, toClient>>
vars     == <<keyboard, receipt, protocol, listener, handler, far, toServer>>

Init ==
    /\ kpc           = "prompt"
    /\ con           = NoCon
    /\ logins        = 0
    /\ commands      = 0
    /\ out           = NoAction
    /\ subscriptions = {}
    /\ receipt       = NoAction
    /\ ch            = NoCon
    /\ isConnected   = FALSE
    /\ lpc           = "wait"
    /\ reading       = NoCon
    /\ handler       = [n \in Con |-> "none"]
    /\ server        = [n \in Con |-> "none"]
    /\ session       = {}
    /\ subs          = [n \in Con |-> <<>>]
    /\ toServer      = [n \in Con |-> <<>>]
    /\ toClient      = [n \in Con |-> <<>>]

KeyboardAt(from, to) == kpc = from /\ kpc' = to

-----------------------------------------------------------------------------
(* login, whatever the flag says: the old handler, if any, is closed, ...  *)
Login ==
    /\ logins < MaxLogins
    /\ KeyboardAt("prompt", IF con = NoCon THEN "connect" ELSE "clearFlag")
    /\ handler' = IF con = NoCon THEN handler ELSE [handler EXCEPT ![con] = "closed"]
    /\ UNCHANGED <<con, logins, commands, out, subscriptions, receipt, protocol, listener, far, toServer>>

ClearFlag ==
    /\ KeyboardAt("clearFlag", "delete")
    /\ isConnected' = FALSE
    /\ UNCHANGED <<con, logins, commands, out, subscriptions, receipt, ch, listener, handler, far, toServer>>

(* ... and deleted,                                                        *)
Delete ==
    /\ KeyboardAt("delete", "connect")
    /\ handler' = [handler EXCEPT ![con] = "deleted"]
    /\ con' = NoCon
    /\ UNCHANGED <<logins, commands, out, subscriptions, receipt, protocol, listener, far, toServer>>

(* the maps are cleared and a new handler connects, or fails to;           *)
Open ==
    /\ logins'        = logins + 1
    /\ receipt'       = NoAction
    /\ subscriptions' = {}
    /\ \/ /\ KeyboardAt("connect", "setHandler")
          /\ con'     = logins + 1
          /\ handler' = [handler EXCEPT ![logins + 1] = "open"]
          /\ server'  = [server EXCEPT ![logins + 1] = "open"]
       \/ /\ KeyboardAt("connect", "prompt")
          /\ UNCHANGED <<con, handler, server>>
    /\ UNCHANGED <<commands, out, protocol, listener, session, subs, toClient, toServer>>

(* start: the handler, then the flag that wakes the listener; then CONNECT *)
SetHandler ==
    /\ KeyboardAt("setHandler", "setConnected")
    /\ ch' = con
    /\ UNCHANGED <<con, logins, commands, out, subscriptions, receipt, isConnected, listener, handler, far, toServer>>

SetConnected ==
    /\ KeyboardAt("setConnected", "send")
    /\ isConnected' = TRUE
    /\ out'         = Connect
    /\ UNCHANGED <<con, logins, commands, subscriptions, receipt, ch, listener, handler, far, toServer>>

-----------------------------------------------------------------------------
(* The other commands: what is recorded before the frame is sent, ...      *)
Typed(f) ==
    CASE f \in Join -> f[2] \notin subscriptions
      [] f \in Exit -> f[2] \in subscriptions
      [] OTHER      -> TRUE

Command(f) ==
    /\ isConnected
    /\ commands < MaxCommands
    /\ Typed(f)
    /\ KeyboardAt("prompt", "send")
    /\ commands' = commands + 1
    /\ out'      = f
    /\ receipt'  = IF f \in Receipted THEN f ELSE receipt
    /\ subscriptions' = IF f \in Join THEN subscriptions \cup {f[2]} ELSE subscriptions
    /\ UNCHANGED <<con, logins, protocol, listener, handler, far, toServer>>

MutantForget(f) == subscriptions

(* ... and what is forgotten after it.                                     *)
Forget(f) == IF f \in Exit THEN subscriptions \ {f[2]} ELSE subscriptions

Send ==
    /\ KeyboardAt("send", "prompt")
    /\ toServer' = IF server[ch] = "closed" THEN toServer
                   ELSE [toServer EXCEPT ![ch] = Append(@, out)]
    /\ subscriptions' = Forget(out)
    /\ out' = NoAction
    /\ UNCHANGED <<con, logins, commands, receipt, protocol, listener, handler, far>>

(* The socket refuses the frame: an exception that main catches.           *)
SendFails ==
    /\ KeyboardAt("send", "prompt")
    /\ server[ch] = "closed"
    /\ out' = NoAction
    /\ UNCHANGED <<con, logins, commands, subscriptions, receipt, protocol, listener, handler, far, toServer>>

-----------------------------------------------------------------------------
ListenerAt(from, to) == lpc = from /\ lpc' = to

MutantListen ==
    /\ ListenerAt("wait", "read")
    /\ reading' = ch
    /\ UNCHANGED <<keyboard, receipt, protocol, handler, far, toServer>>

(* The listener waits for a connection and reads a frame from it.          *)
Listen ==
    /\ ListenerAt("wait", "read")
    /\ isConnected
    /\ reading' = ch
    /\ UNCHANGED <<keyboard, receipt, protocol, handler, far, toServer>>

(* A receipt whose entry is a join or an exit is announced; any other, and *)
(* one that has no entry, is taken for the end of the connection.          *)
ParseFrame ==
    LET answer == Head(toClient[reading])
        ends   == \/ answer[1] = "ERROR"
                  \/ answer[1] = "RECEIPT" /\ receipt \notin Join \cup Exit
    IN  /\ toClient[reading] # <<>>
        /\ ListenerAt("read", IF ends THEN "caught" ELSE "wait")
        /\ toClient' = [toClient EXCEPT ![reading] = Tail(@)]
        /\ receipt' = IF answer[1] = "RECEIPT" THEN NoAction ELSE receipt
        /\ UNCHANGED <<keyboard, protocol, reading, handler, server, session, subs, toServer>>

Parse == lpc = "read" /\ handler[reading] # "deleted" /\ ParseFrame

(* A connection that is reset may lose the frames on their way.            *)
ReadFails ==
    /\ ListenerAt("read", "caught")
    /\ server[reading] = "closed" \/ handler[reading] = "closed"
    /\ UNCHANGED <<keyboard, receipt, protocol, reading, handler, far, toServer>>

(* The process dies: nothing of it is left, and its sockets are closed.    *)
Die ==
    /\ kpc'           = "dead"
    /\ lpc'           = "dead"
    /\ con'           = NoCon
    /\ ch'            = NoCon
    /\ reading'       = NoCon
    /\ isConnected'   = FALSE
    /\ out'           = NoAction
    /\ subscriptions' = {}
    /\ receipt'       = NoAction
    /\ handler'       = [n \in Con |-> IF handler[n] = "open" THEN "closed" ELSE handler[n]]
    /\ UNCHANGED <<logins, commands, far, toServer>>

(* The handler was deleted under the listener, which may stay blocked in   *)
(* recv, get the rest of a frame, fail, find the next handler at the same  *)
(* address, or end the process.                                            *)
Dangling ==
    /\ lpc = "read" /\ handler[reading] = "deleted"
    /\ \/ ParseFrame
       \/ /\ ListenerAt("read", "caught")
          /\ UNCHANGED <<keyboard, receipt, protocol, reading, handler, far, toServer>>
       \/ /\ con # NoCon /\ reading' = con
          /\ UNCHANGED <<keyboard, receipt, protocol, lpc, handler, far, toServer>>
       \/ Die

MutantCaught ==
    /\ ListenerAt("caught", "wait")
    /\ UNCHANGED <<keyboard, receipt, protocol, reading, handler, far, toServer>>

(* The catch clause of the listener's loop: at "caught" the user is told,  *)
(* then the flag is cleared.                                               *)
Caught ==
    /\ ListenerAt("caught", "wait")
    /\ isConnected' = FALSE
    /\ UNCHANGED <<keyboard, receipt, ch, reading, handler, far, toServer>>

-----------------------------------------------------------------------------
(* The server answers the frames of a connection, one at a time.           *)
Take(n, f) ==
    /\ server[n] = "open"
    /\ toServer[n] # <<>> /\ Head(toServer[n]) = f
    /\ toServer' = [toServer EXCEPT ![n] = Tail(@)]
    /\ UNCHANGED <<keyboard, receipt, protocol, listener, handler>>

Reply(n, answer) == toClient' = [toClient EXCEPT ![n] = Append(@, answer)]

ServeConnect(n) ==
    /\ Take(n, Connect)
    /\ session = {}
    /\ session' = {n}
    /\ Reply(n, <<"CONNECTED">>)
    /\ UNCHANGED <<server, subs>>

ServeSubscribe(n, f) ==
    /\ Take(n, f)
    /\ \A i \in DOMAIN subs[n] : subs[n][i] # f[2]
    /\ subs' = [subs EXCEPT ![n] = Append(@, f[2])]
    /\ Reply(n, <<"RECEIPT", f>>)
    /\ UNCHANGED <<server, session>>

ServeUnsubscribe(n, f) ==
    /\ Take(n, f)
    /\ subs[n] # <<>>
    /\ subs' = [subs EXCEPT ![n] = Tail(@)]
    /\ Reply(n, <<"RECEIPT", f>>)
    /\ UNCHANGED <<server, session>>

(* The sender of a report is a subscriber and gets it back.                *)
ServeSend(n, f) ==
    /\ Take(n, f)
    /\ \E i \in DOMAIN subs[n] : subs[n][i] = f[2]
    /\ Reply(n, <<"MESSAGE">>)
    /\ UNCHANGED <<server, session, subs>>

(* The last frame is sent before the session ends and the socket closes.   *)
ServeDisconnect(n) ==
    /\ Take(n, Logout)
    /\ Reply(n, <<"RECEIPT", Logout>>)
    /\ server' = [server EXCEPT ![n] = "ending"]
    /\ UNCHANGED <<session, subs>>

(* An ERROR frame: a passcode that is wrong or a user who is logged in; a  *)
(* second subscription to a channel; a report to a channel not subscribed. *)
Refused(n, f) ==
    \/ f = Connect
    \/ f \in Join /\ \E i \in DOMAIN subs[n] : subs[n][i] = f[2]
    \/ f \in Report /\ \A i \in DOMAIN subs[n] : subs[n][i] # f[2]

ServeError(n, f) ==
    /\ Refused(n, f)
    /\ Take(n, f)
    /\ Reply(n, <<"ERROR">>)
    /\ server' = [server EXCEPT ![n] = "ending"]
    /\ UNCHANGED <<session, subs>>

(* The end of the input.                                                   *)
ServeHangUp(n) ==
    /\ server[n] = "open"
    /\ toServer[n] = <<>>
    /\ handler[n] \in {"closed", "deleted"}
    /\ server' = [server EXCEPT ![n] = "ending"]
    /\ UNCHANGED <<keyboard, receipt, protocol, listener, handler, session, subs, toClient, toServer>>

(* The server loses the connection, or stops.                              *)
ServerDrops(n) ==
    /\ server[n] = "open"
    /\ server' = [server EXCEPT ![n] = "ending"]
    /\ UNCHANGED <<keyboard, receipt, protocol, listener, handler, session, subs, toClient, toServer>>

Finish(n) ==
    /\ server[n] = "ending"
    /\ server'   = [server EXCEPT ![n] = "closed"]
    /\ session'  = session \ {n}
    /\ subs'     = [subs EXCEPT ![n] = <<>>]
    /\ toServer' = [toServer EXCEPT ![n] = <<>>]
    /\ UNCHANGED <<keyboard, receipt, protocol, listener, handler, toClient>>

-----------------------------------------------------------------------------
Keyboard ==
    \/ ClearFlag \/ Delete \/ Open \/ SetHandler \/ SetConnected
    \/ Send \/ SendFails

User == Login \/ \E f \in Frame \ {Connect} : Command(f)

Listener == Listen \/ Parse \/ ReadFails \/ Caught

Server(n) ==
    \/ ServeConnect(n) \/ ServeDisconnect(n) \/ ServeHangUp(n) \/ Finish(n)
    \/ \E f \in Join : ServeSubscribe(n, f)
    \/ \E f \in Exit : ServeUnsubscribe(n, f)
    \/ \E f \in Report : ServeSend(n, f)
    \/ \E f \in Frame : ServeError(n, f)

Next == Keyboard \/ User \/ Listener \/ Dangling \/ \E n \in Con : Server(n) \/ ServerDrops(n)

(* The two threads and the server go on, except a listener whose handler   *)
(* was deleted; the user need not type anything.                           *)
Fairness ==
    /\ WF_vars(Keyboard)
    /\ WF_vars(Listener)
    /\ \A n \in Con : WF_vars(Server(n))

Spec == Init /\ [][Next]_vars /\ Fairness

-----------------------------------------------------------------------------
(* The values of the variables; a frame is in hand exactly at the send, a  *)
(* read is of some connection, and a connected client has a handler.       *)
TypeOK ==
    /\ kpc \in {"prompt", "clearFlag", "delete", "connect", "setHandler", "setConnected", "send", "dead"}
    /\ con \in Con \cup {NoCon}
    /\ logins \in 0..MaxLogins
    /\ commands \in 0..MaxCommands
    /\ out \in Frame \cup {NoAction}
    /\ subscriptions \subseteq Topic
    /\ receipt \in Receipted \cup {NoAction}
    /\ ch \in Con \cup {NoCon}
    /\ isConnected \in BOOLEAN
    /\ lpc \in {"wait", "read", "caught", "dead"}
    /\ reading \in Con \cup {NoCon}
    /\ handler \in [Con -> {"none", "open", "closed", "deleted"}]
    /\ server \in [Con -> {"none", "open", "ending", "closed"}]
    /\ session \subseteq Con
    /\ subs \in [Con -> Seq(Topic)]
    /\ toServer \in [Con -> Seq(Frame)]
    /\ toClient \in [Con -> Seq(Answer)]
    /\ kpc = "send" <=> out # NoAction
    /\ lpc = "read" => reading # NoCon
    /\ isConnected => ch # NoCon

(* How many frames of a queue, and of the queue to the server, are in F.   *)
Count(s, F)   == Cardinality({i \in DOMAIN s : s[i] \in F})
Pending(n, F) == Count(toServer[n], F)

(* Client and server count the same number of subscriptions once the       *)
(* frames on their way are counted, although they may disagree on which.   *)
CountsAgree ==
    kpc = "prompt" /\ con # NoCon /\ server[con] = "open" /\ handler[con] = "open" =>
        Cardinality(subscriptions) + Pending(con, Exit) = Len(subs[con]) + Pending(con, Join)

(* A logout, and the end of the connection for any other reason, is always *)
(* noticed: the client asks for a login again.  Only a listener that is    *)
(* left with a deleted handler may never come back to look.                *)
EndNoticed ==
    \A n \in Con :
        ch = n /\ (server[n] = "closed" \/ Pending(n, {Logout}) > 0)
            ~> ~isConnected \/ ch # n \/ (lpc = "read" /\ handler[reading] = "deleted")

-----------------------------------------------------------------------------
(* What comments of the code say, and the code breaks.                     *)

(* "con->close(); // wakers waiting thread" (main, before delete con): the *)
(* listener is not left reading from a handler that login has deleted.     *)
HandlerLive == lpc = "read" => handler[reading] # "deleted"

(* "receipts are inserted to a map in the format :                         *)
(* receiptId->ACTION:TOPIC" (of parseResponse): the entry the listener     *)
(* finds for a receipt is the command that the receipt answers.            *)
ReceiptNamesCommand ==
    lpc = "read" /\ toClient[reading] # <<>> /\ Head(toClient[reading])[1] = "RECEIPT"
        => Head(toClient[reading])[2] = receipt
=============================================================================
