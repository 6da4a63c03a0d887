------------------------------ MODULE Sessions ------------------------------
(***************************************************************************)
(* Who is logged in: Database (users, sessions, the calls to the SQL       *)
(* server) and the part of StompMsgProtocol that logs in and out, in the   *)
(* thread-per-client server.  One thread per connection; a step is one     *)
(* access to a shared map, one synchronized block or one SQL call.         *)
(*                                                                         *)
(*  - A User object is named by the connection whose CONNECT created it: a *)
(*    connection whose CONNECT fails is closed, so it creates one at most. *)
(*  - connectionsIdMap has one entry per connection, used by its thread    *)
(*    only, and userName belongs to that thread too; their accesses are    *)
(*    joined to the neighbouring shared step.                              *)
(*  - user.logout() writes its flag outside the monitor that guards the    *)
(*    reads.  It is followed by a remove from a ConcurrentHashMap (a       *)
(*    volatile write), so what another thread can read late is what it     *)
(*    would have read before that step.                                    *)
(***************************************************************************)
EXTENDS Naturals

CONSTANTS Conn,      \* connection ids (conIdGen never reuses one)
          User,      \* user names
          Password,  \* passcodes
          Credential, \* bound: the pairs of both that each sends
          Nobody,    \* neither a connection nor a user (Java null, "")
          Faults     \* what may fail: "sql" calls, the "broker" part of a
                     \* disconnection (module Broker shows how)

ASSUME SessionsAssumption ==
    /\ Nobody \notin Conn \cup User
    /\ Credential \in [Conn -> SUBSET (User \X Password)]
    /\ Faults \subseteq {"sql", "broker"}

VARIABLES userMap,          \* userMap[u]: the User object of name u
          loggedIn,         \* loggedIn[o]: the flag of object o
          connectionsIdMap, \* connectionsIdMap[c]: the object c logged in to
          userName,         \* userName[c]: the name c's protocol has
          asked,            \* asked[c]: login and passcode of c's CONNECT
          found,            \* found[c]: the object c's thread looked up
          openRows,         \* rows of login_history without logout_time
          pc,               \* the statement each connection's thread is at
          closing,          \* the call of handleDisconnect it is in
          faults            \* what fails in this behaviour: all or nothing

vars == <<userMap, loggedIn, connectionsIdMap, userName, asked, found,
          openRows, pc, closing, faults>>

Init ==
    /\ userMap          = [u \in User |-> Nobody]
    /\ loggedIn         = [o \in Conn |-> FALSE]
    /\ connectionsIdMap = [c \in Conn |-> Nobody]
    /\ userName         = [c \in Conn |-> Nobody]
    /\ asked            = [c \in Conn |-> {}]
    /\ found            = [c \in Conn |-> Nobody]
    /\ openRows         = [u \in User |-> 0]
    /\ pc               = [c \in Conn |-> "idle"]
    /\ closing          = [c \in Conn |-> "no"]
    /\ faults           \in {{}, Faults}

Goto(c, from, to) ==
    /\ pc[c] = from
    /\ pc' = [pc EXCEPT ![c] = to]

Asked(c) == CHOOSE request \in asked[c] : TRUE
Name(c)  == Asked(c).login

(* Outcomes of a call to the SQL server: carried out; answered with an     *)
(* error, which the caller never looks at; carried out but the answer was  *)
(* lost; not carried out.  The last two throw.                             *)
SqlOutcome == IF "sql" \in faults THEN {"done", "refused", "lost", "failed"} ELSE {"done"}

Applied(outcome) == outcome \in {"done", "lost"}
Throws(outcome)  == outcome \in {"lost", "failed"}

(* An exception: caught while a frame is processed and answered with ERROR *)
(* and handleDisconnect; from that call, or the one in close(), it ends    *)
(* the thread.                                                             *)
Throw(c) ==
    IF closing[c] \in {"no", "logout"}
    THEN /\ pc'      = [pc EXCEPT ![c] = "disconnect"]
         /\ closing' = [closing EXCEPT ![c] = "error"]
    ELSE /\ pc'      = [pc EXCEPT ![c] = "ended"]
         /\ UNCHANGED closing

-----------------------------------------------------------------------------
(* CONNECT: Database.login.  A connection that has a session is refused.   *)
Connect(c, u, p) ==
    /\ connectionsIdMap[c] = Nobody
    /\ Goto(c, "idle", "hasUser")
    /\ asked' = [asked EXCEPT ![c] = {[login |-> u, passcode |-> p]}]
    /\ UNCHANGED <<userMap, loggedIn, connectionsIdMap, userName, found, openRows, closing>>

HasUser(c) ==
    /\ Goto(c, "hasUser", IF userMap[Name(c)] = Nobody THEN "register" ELSE "lookup")
    /\ UNCHANGED <<userMap, loggedIn, connectionsIdMap, userName, asked, found, openRows, closing>>

MutantRegister(c) ==
    LET u == Name(c)
    IN  /\ Goto(c, "register", "sqlUser")
        /\ userMap'          = [userMap EXCEPT ![u] = IF @ = Nobody THEN c ELSE @]
        /\ loggedIn'         = [loggedIn EXCEPT ![c] = TRUE]
        /\ connectionsIdMap' = [connectionsIdMap EXCEPT ![c] = c]
        /\ UNCHANGED <<userName, asked, found, openRows, closing>>

(* In synchronized (userMap): look again, then add the new user.           *)
Register(c) ==
    LET u == Name(c)
    IN  \/ /\ Goto(c, "register", "lookup")
           /\ userMap[u] # Nobody
           /\ UNCHANGED <<userMap, loggedIn, connectionsIdMap, userName, asked, found, openRows, closing>>
        \/ /\ Goto(c, "register", "sqlUser")
           /\ userMap[u] = Nobody
           /\ userMap'          = [userMap EXCEPT ![u] = c]
           /\ loggedIn'         = [loggedIn EXCEPT ![c] = TRUE]
           /\ connectionsIdMap' = [connectionsIdMap EXCEPT ![c] = c]
           /\ UNCHANGED <<userName, asked, found, openRows, closing>>

(* INSERT INTO users *)
SqlUser(c) ==
    \E outcome \in SqlOutcome :
        /\ Goto(c, "sqlUser", IF Throws(outcome) THEN "undo" ELSE "sqlLogin")
        /\ UNCHANGED <<userMap, loggedIn, connectionsIdMap, userName, asked, found, openRows, closing>>

(* A new user whose rows could not be written is taken back.               *)
Undo(c) ==
    /\ pc[c] = "undo"
    /\ connectionsIdMap' = [connectionsIdMap EXCEPT ![c] = Nobody]
    /\ userMap'          = [userMap EXCEPT ![Name(c)] = Nobody]
    /\ Throw(c)
    /\ UNCHANGED <<loggedIn, userName, asked, found, openRows>>

(* userExistsCase: get the object (another thread may have taken it back:  *)
(* then synchronized throws), then in synchronized (user) examine it.      *)
Lookup(c) ==
    /\ pc[c] = "lookup"
    /\ found' = [found EXCEPT ![c] = userMap[Name(c)]]
    /\ IF userMap[Name(c)] = Nobody
       THEN Throw(c)
       ELSE Goto(c, "lookup", "examine") /\ UNCHANGED closing
    /\ UNCHANGED <<userMap, loggedIn, connectionsIdMap, userName, asked, openRows>>

MutantMayLogin(c) == Asked(found[c]).passcode = Asked(c).passcode

MayLogin(c) ==
    /\ ~loggedIn[found[c]]
    /\ Asked(found[c]).passcode = Asked(c).passcode

MutantExamine(c) ==
    /\ Goto(c, "examine", "sqlLogin")
    /\ MayLogin(c)
    /\ loggedIn' = [loggedIn EXCEPT ![found[c]] = TRUE]
    /\ UNCHANGED <<userMap, connectionsIdMap, userName, asked, found, openRows, closing>>

Examine(c) ==
    /\ Goto(c, "examine", "sqlLogin")
    /\ MayLogin(c)
    /\ loggedIn'         = [loggedIn EXCEPT ![found[c]] = TRUE]
    /\ connectionsIdMap' = [connectionsIdMap EXCEPT ![c] = found[c]]
    /\ UNCHANGED <<userMap, userName, asked, found, openRows, closing>>

Reject(c) ==
    /\ pc[c] = "examine"
    /\ ~MayLogin(c)
    /\ Throw(c)
    /\ UNCHANGED <<userMap, loggedIn, connectionsIdMap, userName, asked, found, openRows>>

(* logLogin: INSERT INTO login_history.  Only after it has the protocol a  *)
(* user name.  If it throws, a new user is taken back; one that existed    *)
(* stays logged in.                                                        *)
SqlLogin(c) ==
    \E outcome \in SqlOutcome :
        /\ pc[c] = "sqlLogin"
        /\ openRows' = [openRows EXCEPT ![Name(c)] = IF Applied(outcome) THEN @ + 1 ELSE @]
        /\ IF ~Throws(outcome)
           THEN /\ userName' = [userName EXCEPT ![c] = Name(c)]
                /\ pc' = [pc EXCEPT ![c] = "idle"]
                /\ UNCHANGED closing
           ELSE /\ UNCHANGED userName
                /\ IF connectionsIdMap[c] = c
                   THEN Goto(c, "sqlLogin", "undo") /\ UNCHANGED closing
                   ELSE Throw(c)
        /\ UNCHANGED <<userMap, loggedIn, connectionsIdMap, asked, found>>

-----------------------------------------------------------------------------
IsLoggedIn(u) == u # Nobody /\ userMap[u] # Nobody /\ loggedIn[userMap[u]]

(* A frame that throws: CONNECT again, any other frame before login (that  *)
(* is conCheck), a malformed one, a SEND or SUBSCRIBE the broker refuses.  *)
Refuse(c) ==
    /\ pc[c] = "idle"
    /\ Throw(c)
    /\ UNCHANGED <<userMap, loggedIn, connectionsIdMap, userName, asked, found, openRows>>

Disconnect(c) ==
    /\ Goto(c, "idle", "disconnect")
    /\ IsLoggedIn(userName[c])
    /\ closing' = [closing EXCEPT ![c] = "logout"]
    /\ UNCHANGED <<userMap, loggedIn, connectionsIdMap, userName, asked, found, openRows>>

HangUp(c) ==
    /\ Goto(c, "idle", "disconnect")
    /\ closing' = [closing EXCEPT ![c] = "close"]
    /\ UNCHANGED <<userMap, loggedIn, connectionsIdMap, userName, asked, found, openRows>>

(* A frame that does not fit the decoder's array throws out of run(), past *)
(* close() and the catch of IOException: the thread ends, and whoever is   *)
(* logged in on the connection stays so.                                   *)
Overflow(c) ==
    /\ Goto(c, "idle", "ended")
    /\ UNCHANGED <<userMap, loggedIn, connectionsIdMap, userName, asked, found, openRows, closing>>

(* The end of handleDisconnect.  run() then calls close(), which enters it *)
(* again.                                                                  *)
Finish(c) ==
    /\ userName' = [userName EXCEPT ![c] = Nobody]
    /\ closing'  = [closing EXCEPT ![c] = "close"]
    /\ pc' = [pc EXCEPT ![c] = IF closing[c] = "close" THEN "ended" ELSE "disconnect"]

MutantHasSession(c) == FALSE

HasSession(c) == IsLoggedIn(userName[c]) /\ connectionsIdMap[c] # Nobody

MutantHandleDisconnect(c) ==
    /\ pc[c] = "disconnect"
    /\ IF HasSession(c)
       THEN /\ Goto(c, "disconnect", "sqlLogout")
            /\ loggedIn' = [loggedIn EXCEPT ![connectionsIdMap[c]] = FALSE]
            /\ UNCHANGED <<userName, closing>>
       ELSE Finish(c) /\ UNCHANGED loggedIn
    /\ UNCHANGED <<userMap, connectionsIdMap, asked, found, openRows>>

HandleDisconnect(c) ==
    /\ pc[c] = "disconnect"
    /\ IF HasSession(c)
       THEN Goto(c, "disconnect", "sqlLogout") /\ UNCHANGED <<userName, closing>>
       ELSE Finish(c)
    /\ UNCHANGED <<userMap, loggedIn, connectionsIdMap, asked, found, openRows>>

(* The broker throws while it removes subscriptions: no logout.            *)
HandleDisconnectThrows(c) ==
    /\ "broker" \in faults
    /\ pc[c] = "disconnect"
    /\ Throw(c)
    /\ UNCHANGED <<userMap, loggedIn, connectionsIdMap, userName, asked, found, openRows>>

(* Database.logout: UPDATE login_history closes the newest open row, ...   *)
SqlLogout(c) ==
    \E outcome \in SqlOutcome :
        /\ pc[c] = "sqlLogout"
        /\ openRows' = [openRows EXCEPT ![userName[c]] =
                          IF Applied(outcome) /\ @ > 0 THEN @ - 1 ELSE @]
        /\ IF Throws(outcome)
           THEN Throw(c)
           ELSE Goto(c, "sqlLogout", "release") /\ UNCHANGED closing
        /\ UNCHANGED <<userMap, loggedIn, connectionsIdMap, userName, asked, found>>

(* ... then the user is free.                                              *)
Release(c) ==
    /\ pc[c] = "release"
    /\ loggedIn'         = [loggedIn EXCEPT ![connectionsIdMap[c]] = FALSE]
    /\ connectionsIdMap' = [connectionsIdMap EXCEPT ![c] = Nobody]
    /\ Finish(c)
    /\ UNCHANGED <<userMap, asked, found, openRows>>

-----------------------------------------------------------------------------
Request(c) ==
    /\ \/ \E pair \in Credential[c] : Connect(c, pair[1], pair[2])
       \/ Refuse(c) \/ Disconnect(c) \/ HangUp(c) \/ Overflow(c)
    /\ UNCHANGED faults

Continue(c) ==
    /\ \/ HasUser(c) \/ Register(c) \/ SqlUser(c) \/ Undo(c)
       \/ Lookup(c) \/ Examine(c) \/ Reject(c) \/ SqlLogin(c)
       \/ HandleDisconnect(c) \/ HandleDisconnectThrows(c) \/ SqlLogout(c) \/ Release(c)
    /\ UNCHANGED faults

Next == \E c \in Conn : Request(c) \/ Continue(c)

(* A thread that can take a step takes one, and SQL calls return or throw; *)
(* clients need not send anything.                                         *)
Fairness == \A c \in Conn : WF_vars(Continue(c))

Spec == Init /\ [][Next]_vars /\ Fairness

-----------------------------------------------------------------------------
Statement == {"idle", "hasUser", "register", "lookup", "examine", "sqlUser", "undo", "sqlLogin",
              "disconnect", "sqlLogout", "release", "ended"}

(* The values of the variables; an object in userMap bears that name and a *)
(* thread at "sqlLogin" or past it has the object it logged in to.         *)
TypeOK ==
    /\ userMap \in [User -> Conn \cup {Nobody}]
    /\ loggedIn \in [Conn -> BOOLEAN]
    /\ connectionsIdMap \in [Conn -> Conn \cup {Nobody}]
    /\ userName \in [Conn -> User \cup {Nobody}]
    /\ asked \in [Conn -> SUBSET [login : User, passcode : Password]]
    /\ found \in [Conn -> Conn \cup {Nobody}]
    /\ openRows \in [User -> Nat]
    /\ pc \in [Conn -> Statement]
    /\ closing \in [Conn -> {"no", "logout", "error", "close"}]
    /\ faults \subseteq Faults
    /\ \A u \in User, o \in Conn : userMap[u] = o => asked[o] # {} /\ Name(o) = u
    /\ \A c \in Conn : pc[c] \in {"sqlUser", "undo", "sqlLogin", "sqlLogout", "release"} =>
          asked[c] # {} /\ connectionsIdMap[c] # Nobody

(* A client that can send frames as user u has the session of u: the       *)
(* object in userMap is the one its connection is logged in to, and is     *)
(* flagged logged in.  So conCheck never refuses a client because of what  *)
(* another connection did.                                                 *)
SessionBacked ==
    \A c \in Conn : pc[c] = "idle" /\ userName[c] # Nobody =>
        /\ connectionsIdMap[c] = userMap[userName[c]]
        /\ IsLoggedIn(userName[c])

(* No two connections act for one user, failures and races included.       *)
OneSessionPerUser ==
    \A c, d \in Conn : userName[c] # Nobody /\ userName[c] = userName[d] => c = d

(* While SQL calls succeed the table agrees with the sessions: a user has  *)
(* at most one open row, and one exactly while a client can act as it.     *)
HistoryMatches ==
    faults = {} => \A u \in User :
        /\ openRows[u] \in {0, 1}
        /\ (\E c \in Conn : pc[c] = "idle" /\ userName[c] = u) => openRows[u] = 1
        /\ (\A c \in Conn : pc[c] \in {"idle", "ended"} /\ userName[c] # u) => openRows[u] = 0

(* The connection that user u is logged in on.                             *)
Holder(u) ==
    LET holders == {c \in Conn : /\ connectionsIdMap[c] # Nobody
                                 /\ Name(connectionsIdMap[c]) = u}
    IN  IF holders = {} THEN Nobody ELSE CHOOSE c \in holders : TRUE

Lock == INSTANCE SessionLock WITH
    holder  <- [u \in User |-> Holder(u)],
    leaving <- {c \in Conn : closing[c] # "no"}

(* The database is an exclusive lock per user, taken by a login and given  *)
(* back by its holder only, whatever fails; and when no SQL or broker call *)
(* fails, it is given back by every connection that enters                 *)
(* handleDisconnect.  A connection whose thread was ended by a too-long    *)
(* frame never does: for the lock it is a holder that stays for good.      *)
ImplementsLock == Lock!Safety /\ (faults = {} => Lock!Progress)

(* "Method that handles client disconnection from the server. either by    *)
(* logout command or by an error": a connection that handleDisconnect has  *)
(* ended holds no user.  Failures of SQL calls break it.                   *)
EndedIsLoggedOut ==
    \A c \in Conn : pc[c] = "ended" /\ closing[c] # "no" => connectionsIdMap[c] = Nobody
=============================================================================
