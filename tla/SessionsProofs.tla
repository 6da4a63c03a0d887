--------------------------- MODULE SessionsProofs ---------------------------
(***************************************************************************)
(* For any set of connections, users and passcodes and whatever fails: a   *)
(* user has at most one session, and a client that has one keeps it until  *)
(* its own connection ends.                                                *)
(*                                                                         *)
(* The core of the argument is HoldOK: whoever is logged in to an object   *)
(* is alone, the object is flagged and still the one in userMap.  The two  *)
(* races are settled by ExamineOK (an object that a failed registration    *)
(* took out of userMap stays flagged, so who looked it up before is turned *)
(* away) and by the second test of userMap inside its monitor.             *)
(***************************************************************************)
EXTENDS Sessions, TLAPS

(* Statements of CONNECT before and after it got hold of an object.        *)
Seeking  == {"hasUser", "register", "lookup", "examine"}
Entering == {"sqlUser", "undo", "sqlLogin"}

(* A thread can start a CONNECT only once.                                 *)
FreshOK == \A c \in Conn : pc[c] = "idle" => asked[c] = {} \/ connectionsIdMap[c] # Nobody

ConnectOK ==
    \A c \in Conn :
        /\ pc[c] \in Seeking \cup Entering => asked[c] # {} /\ userName[c] = Nobody
        /\ pc[c] \in {"sqlUser", "undo"} => connectionsIdMap[c] = c
        /\ pc[c] = "sqlLogin" => \A o \in Conn : connectionsIdMap[c] = o => Name(o) = Name(c)
        /\ pc[c] \in {"sqlLogout", "release"} => userName[c] # Nobody

ExamineOK ==
    \A c \in Conn : pc[c] = "examine" =>
        /\ found[c] \in Conn
        /\ \A o \in Conn : found[c] = o =>
              asked[o] # {} /\ Name(o) = Name(c) /\ (loggedIn[o] \/ userMap[Name(c)] = o)

HoldOK ==
    \A c, o \in Conn : connectionsIdMap[c] = o =>
        /\ asked[c] # {} /\ asked[o] # {}
        /\ loggedIn[o]
        /\ userMap[Name(o)] = o
        /\ \A d \in Conn : connectionsIdMap[d] = o => d = c

NameOK ==
    \A c \in Conn, u \in User : userName[c] = u =>
        connectionsIdMap[c] \in Conn /\ userMap[u] = connectionsIdMap[c]

IInv == TypeOK /\ FreshOK /\ ConnectOK /\ ExamineOK /\ HoldOK /\ NameOK

-----------------------------------------------------------------------------
(* A CONNECT names a user.                                                 *)
LEMMA NameType ==
    ASSUME TypeOK, NEW c \in Conn, asked[c] # {}
    PROVE  Name(c) \in User
<1>1. Asked(c) \in asked[c]
  BY DEF Asked
<1>2. Asked(c) \in [login : User, passcode : Password]
  BY <1>1 DEF TypeOK
<1> QED BY <1>2 DEF Name

(* The name does not change while the frame's headers do not.              *)
LEMMA NameStable ==
    ASSUME UNCHANGED asked
    PROVE  \A c : Name(c)' = Name(c)
BY DEF Name, Asked

(* The invariant holds initially.                                          *)
LEMMA InitIInv == Init => IInv
<1> SUFFICES ASSUME Init PROVE IInv
  OBVIOUS
<1>1. TypeOK
  BY SessionsAssumption DEF Init, TypeOK, Statement
<1>2. FreshOK /\ ConnectOK /\ ExamineOK
  BY DEF Init, FreshOK, ConnectOK, ExamineOK, Seeking, Entering
<1>3. HoldOK /\ NameOK
  BY SessionsAssumption DEF Init, HoldOK, NameOK
<1> QED BY <1>1, <1>2, <1>3 DEF IInv

LEMMA ConnectKeeps ==
    ASSUME IInv, NEW c \in Conn, NEW u \in User, NEW p \in Password, Connect(c, u, p), UNCHANGED faults
    PROVE  IInv'
<1>a. asked[c] = {}
  BY DEF IInv, FreshOK, Connect, Goto
<1>b. \A d \in Conn \ {c} : Name(d)' = Name(d) /\ asked'[d] = asked[d]
  BY DEF Connect, Name, Asked
<1>c. asked' \in [Conn -> SUBSET [login : User, passcode : Password]] /\ asked'[c] # {}
  <2>1. [login |-> u, passcode |-> p] \in [login : User, passcode : Password]
    OBVIOUS
  <2> QED BY <2>1 DEF IInv, TypeOK, Connect
<1>1. TypeOK'
  BY <1>a, <1>b DEF IInv, TypeOK, Statement, Connect, Goto
<1>2. FreshOK'
  BY DEF IInv, TypeOK, FreshOK, Connect, Goto
<1>3. ConnectOK'
  BY <1>a, <1>b, <1>c DEF IInv, TypeOK, ConnectOK, Connect, Goto, HoldOK, NameOK
<1>4. ExamineOK'
  BY <1>a, <1>b DEF IInv, ExamineOK, Connect, Goto
<1>5. HoldOK'
  BY <1>a, <1>b DEF IInv, HoldOK, Connect
<1>6. NameOK'
  BY DEF IInv, NameOK, Connect
<1> QED BY <1>1, <1>2, <1>3, <1>4, <1>5, <1>6 DEF IInv

LEMMA HasUserKeeps ==
    ASSUME IInv, NEW c \in Conn, HasUser(c), UNCHANGED faults
    PROVE  IInv'
<1>a. \A d \in Conn : Name(d)' = Name(d)
  BY NameStable DEF HasUser
<1>1. TypeOK'
  BY <1>a DEF IInv, TypeOK, Statement, HasUser, Goto
<1>2. FreshOK'
  BY DEF IInv, FreshOK, HasUser, Goto
<1>3. ConnectOK'
  BY <1>a DEF IInv, ConnectOK, HasUser, Goto, Seeking
<1>4. ExamineOK'
  BY <1>a DEF IInv, ExamineOK, HasUser, Goto
<1>5. HoldOK'
  BY <1>a DEF IInv, HoldOK, HasUser
<1>6. NameOK'
  BY DEF IInv, NameOK, HasUser
<1> QED BY <1>1, <1>2, <1>3, <1>4, <1>5, <1>6 DEF IInv

LEMMA RegisterKeeps ==
    ASSUME IInv, NEW c \in Conn, Register(c), UNCHANGED faults
    PROVE  IInv'
<1>a. \A d \in Conn : Name(d)' = Name(d)
  BY NameStable DEF Register
<1>1. TypeOK'
  <2>1. Name(c) \in User /\ asked[c] # {}
    BY NameType DEF IInv, ConnectOK, Register, Goto, Seeking
  <2>2. pc' = [pc EXCEPT ![c] = "lookup"] \/ pc' = [pc EXCEPT ![c] = "sqlUser"]
    BY DEF Register, Goto
  <2>3. CASE UNCHANGED <<userMap, loggedIn, connectionsIdMap>> /\ pc' = [pc EXCEPT ![c] = "lookup"]
    BY <1>a, <2>3 DEF IInv, TypeOK, Statement, Register
  <2>4. CASE /\ userMap' = [userMap EXCEPT ![Name(c)] = c]
             /\ loggedIn' = [loggedIn EXCEPT ![c] = TRUE]
             /\ connectionsIdMap' = [connectionsIdMap EXCEPT ![c] = c]
             /\ pc' = [pc EXCEPT ![c] = "sqlUser"]
    BY <1>a, <2>1, <2>4, SessionsAssumption DEF IInv, TypeOK, Statement, Register
  <2> QED BY <2>3, <2>4 DEF Register, Goto
<1>2. FreshOK'
  BY DEF IInv, TypeOK, FreshOK, Register, Goto
<1>3. ConnectOK'
  BY <1>a DEF IInv, TypeOK, ConnectOK, Register, Goto, Seeking
<1>4. ExamineOK'
  BY <1>a, NameType, SessionsAssumption DEF IInv, TypeOK, ExamineOK, Register, Goto
<1>5. HoldOK'
  BY <1>a, NameType, SessionsAssumption DEF IInv, TypeOK, HoldOK, Register, Goto, Seeking, ConnectOK
<1>6. NameOK'
  BY SessionsAssumption DEF IInv, TypeOK, NameOK, Register, Goto, Seeking, ConnectOK
<1> QED BY <1>1, <1>2, <1>3, <1>4, <1>5, <1>6 DEF IInv

LEMMA SqlUserKeeps ==
    ASSUME IInv, NEW c \in Conn, SqlUser(c), UNCHANGED faults
    PROVE  IInv'
<1>a. \A d \in Conn : Name(d)' = Name(d)
  BY NameStable DEF SqlUser
<1>1. TypeOK'
  BY <1>a DEF IInv, TypeOK, Statement, SqlUser, Goto
<1>2. FreshOK'
  BY DEF IInv, FreshOK, SqlUser, Goto
<1>3. ConnectOK'
  BY <1>a DEF IInv, ConnectOK, SqlUser, Goto, Entering
<1>4. ExamineOK'
  BY <1>a DEF IInv, ExamineOK, SqlUser, Goto
<1>5. HoldOK'
  BY <1>a DEF IInv, HoldOK, SqlUser
<1>6. NameOK'
  BY DEF IInv, NameOK, SqlUser
<1> QED BY <1>1, <1>2, <1>3, <1>4, <1>5, <1>6 DEF IInv

LEMMA UndoKeeps ==
    ASSUME IInv, NEW c \in Conn, Undo(c), UNCHANGED faults
    PROVE  IInv'
<1>a. \A d \in Conn : Name(d)' = Name(d)
  BY NameStable DEF Undo
<1>1. TypeOK'
  BY <1>a, SessionsAssumption, ZenonT(60) DEF IInv, TypeOK, Statement, Undo, Throw
<1>2. FreshOK'
  BY DEF IInv, TypeOK, FreshOK, Undo, Throw
<1>3. ConnectOK'
  BY <1>a DEF IInv, TypeOK, ConnectOK, Undo, Throw, Entering
<1>4. ExamineOK'
  BY <1>a DEF IInv, TypeOK, ExamineOK, Undo, Throw, ConnectOK, HoldOK
<1>5. HoldOK'
  BY <1>a, SessionsAssumption DEF IInv, TypeOK, HoldOK, Undo, ConnectOK
<1>6. NameOK'
  BY SessionsAssumption DEF IInv, NameOK, Undo, Entering, ConnectOK, HoldOK
<1> QED BY <1>1, <1>2, <1>3, <1>4, <1>5, <1>6 DEF IInv

LEMMA LookupKeeps ==
    ASSUME IInv, NEW c \in Conn, Lookup(c), UNCHANGED faults
    PROVE  IInv'
<1>a. \A d \in Conn : Name(d)' = Name(d)
  BY NameStable DEF Lookup
<1>1. TypeOK'
  BY <1>a, NameType DEF IInv, TypeOK, Statement, Lookup, Goto, Throw, Seeking, FreshOK, ConnectOK
<1>2. FreshOK'
  BY DEF IInv, TypeOK, FreshOK, Lookup, Goto, Throw
<1>3. ConnectOK'
  BY <1>a DEF IInv, TypeOK, ConnectOK, Lookup, Goto, Throw, Seeking
<1>4. ExamineOK'
  BY <1>a, NameType DEF IInv, TypeOK, ExamineOK, Lookup, Goto, Throw, Seeking, ConnectOK
<1>5. HoldOK'
  BY <1>a DEF IInv, HoldOK, Lookup
<1>6. NameOK'
  BY DEF IInv, NameOK, Lookup
<1> QED BY <1>1, <1>2, <1>3, <1>4, <1>5, <1>6 DEF IInv

LEMMA ExamineKeeps ==
    ASSUME IInv, NEW c \in Conn, Examine(c), UNCHANGED faults
    PROVE  IInv'
<1>a. \A d \in Conn : Name(d)' = Name(d)
  BY NameStable DEF Examine
<1>1. TypeOK'
  BY <1>a, SessionsAssumption DEF IInv, TypeOK, Statement, Examine, Goto, Seeking, ConnectOK,
     ExamineOK
<1>2. FreshOK'
  BY DEF IInv, FreshOK, Examine, Goto
<1>3. ConnectOK'
  BY <1>a DEF IInv, TypeOK, ConnectOK, Examine, Goto, Seeking, ExamineOK
<1>4. ExamineOK'
  BY <1>a DEF IInv, ExamineOK, Examine, Goto
<1>5. HoldOK'
  BY <1>a DEF IInv, TypeOK, HoldOK, Examine, Goto, MayLogin, Seeking, ConnectOK, ExamineOK
<1>6. NameOK'
  BY SessionsAssumption DEF IInv, NameOK, Examine, Goto, Seeking, ConnectOK
<1> QED BY <1>1, <1>2, <1>3, <1>4, <1>5, <1>6 DEF IInv

LEMMA RejectKeeps ==
    ASSUME IInv, NEW c \in Conn, Reject(c), UNCHANGED faults
    PROVE  IInv'
<1>a. \A d \in Conn : Name(d)' = Name(d)
  BY NameStable DEF Reject
<1>1. TypeOK'
  <2>1. pc' \in [Conn -> Statement] /\ closing' \in [Conn -> {"no", "logout", "error", "close"}]
    BY DEF IInv, TypeOK, Statement, Reject, Throw
  <2>2. \A d \in Conn : pc'[d] \in Entering \cup {"sqlLogout", "release"} => pc'[d] = pc[d]
    BY DEF IInv, TypeOK, Reject, Throw, Entering
  <2> QED BY <1>a, <2>1, <2>2 DEF IInv, TypeOK, Reject, Entering
<1>2. FreshOK'
  BY DEF IInv, TypeOK, FreshOK, Reject, Throw
<1>3. ConnectOK'
  BY <1>a DEF IInv, TypeOK, ConnectOK, Reject, Throw, Seeking
<1>4. ExamineOK'
  BY <1>a DEF IInv, TypeOK, ExamineOK, Reject, Throw
<1>5. HoldOK'
  BY <1>a DEF IInv, HoldOK, Reject
<1>6. NameOK'
  BY DEF IInv, NameOK, Reject
<1> QED BY <1>1, <1>2, <1>3, <1>4, <1>5, <1>6 DEF IInv

LEMMA SqlLoginKeeps ==
    ASSUME IInv, NEW c \in Conn, SqlLogin(c), UNCHANGED faults
    PROVE  IInv'
<1>a. \A d \in Conn : Name(d)' = Name(d)
  BY NameStable DEF SqlLogin
<1>b. Name(c) \in User /\ asked[c] # {}
  BY NameType DEF IInv, ConnectOK, SqlLogin, Entering
<1>1. TypeOK'
  <2>1. openRows' \in [User -> Nat]
    <3>1. PICK outcome \in SqlOutcome :
             openRows' = [openRows EXCEPT ![Name(c)] = IF Applied(outcome) THEN @ + 1 ELSE @]
      BY DEF SqlLogin
    <3> QED BY <1>b, <3>1 DEF IInv, TypeOK
  <2>2. pc' \in [Conn -> Statement] /\ closing' \in [Conn -> {"no", "logout", "error", "close"}]
    BY DEF IInv, TypeOK, SqlLogin, Goto, Throw, Statement
  <2>3. userName' \in [Conn -> User \cup {Nobody}]
    BY <1>b DEF IInv, TypeOK, SqlLogin
  <2>4. \A d \in Conn : pc'[d] \in {"sqlUser", "undo", "sqlLogin", "sqlLogout", "release"} =>
           pc[d] \in {"sqlUser", "undo", "sqlLogin", "sqlLogout", "release"}
    BY DEF IInv, TypeOK, SqlLogin, Goto, Throw
  <2>5. UNCHANGED <<userMap, loggedIn, connectionsIdMap, asked, found>>
    BY DEF SqlLogin
  <2> QED BY <1>a, <2>1, <2>2, <2>3, <2>4, <2>5 DEF IInv, TypeOK
<1>2. FreshOK'
  BY DEF IInv, TypeOK, FreshOK, SqlLogin, Goto, Throw
<1>3. ConnectOK'
  BY <1>a DEF IInv, TypeOK, ConnectOK, SqlLogin, Goto, Throw, Seeking, Entering
<1>4. ExamineOK'
  BY <1>a DEF IInv, TypeOK, ExamineOK, SqlLogin, Goto, Throw
<1>5. HoldOK'
  BY <1>a DEF IInv, HoldOK, SqlLogin
<1>6. NameOK'
  BY DEF IInv, TypeOK, NameOK, SqlLogin, ConnectOK, HoldOK
<1> QED BY <1>1, <1>2, <1>3, <1>4, <1>5, <1>6 DEF IInv

LEMMA RefuseKeeps ==
    ASSUME IInv, NEW c \in Conn, Refuse(c), UNCHANGED faults
    PROVE  IInv'
<1>a. \A d \in Conn : Name(d)' = Name(d)
  BY NameStable DEF Refuse
<1>1. TypeOK'
  BY <1>a DEF IInv, TypeOK, Statement, Refuse, Throw
<1>2. FreshOK'
  BY DEF IInv, TypeOK, FreshOK, Refuse, Throw
<1>3. ConnectOK'
  BY <1>a DEF IInv, TypeOK, ConnectOK, Refuse, Throw, Seeking, Entering
<1>4. ExamineOK'
  BY <1>a DEF IInv, TypeOK, ExamineOK, Refuse, Throw
<1>5. HoldOK'
  BY <1>a DEF IInv, HoldOK, Refuse
<1>6. NameOK'
  BY DEF IInv, NameOK, Refuse
<1> QED BY <1>1, <1>2, <1>3, <1>4, <1>5, <1>6 DEF IInv

LEMMA DisconnectKeeps ==
    ASSUME IInv, NEW c \in Conn, Disconnect(c), UNCHANGED faults
    PROVE  IInv'
<1>a. \A d \in Conn : Name(d)' = Name(d)
  BY NameStable DEF Disconnect
<1>1. TypeOK'
  BY <1>a DEF IInv, TypeOK, Statement, Disconnect, Goto
<1>2. FreshOK'
  BY DEF IInv, FreshOK, Disconnect, Goto
<1>3. ConnectOK'
  BY <1>a DEF IInv, ConnectOK, Disconnect, Goto, Seeking, Entering
<1>4. ExamineOK'
  BY <1>a DEF IInv, ExamineOK, Disconnect, Goto
<1>5. HoldOK'
  BY <1>a DEF IInv, HoldOK, Disconnect
<1>6. NameOK'
  BY DEF IInv, NameOK, Disconnect
<1> QED BY <1>1, <1>2, <1>3, <1>4, <1>5, <1>6 DEF IInv

LEMMA HangUpKeeps ==
    ASSUME IInv, NEW c \in Conn, HangUp(c), UNCHANGED faults
    PROVE  IInv'
<1>a. \A d \in Conn : Name(d)' = Name(d)
  BY NameStable DEF HangUp
<1>1. TypeOK'
  BY <1>a DEF IInv, TypeOK, Statement, HangUp, Goto
<1>2. FreshOK'
  BY DEF IInv, FreshOK, HangUp, Goto
<1>3. ConnectOK'
  BY <1>a DEF IInv, ConnectOK, HangUp, Goto, Seeking, Entering
<1>4. ExamineOK'
  BY <1>a DEF IInv, ExamineOK, HangUp, Goto
<1>5. HoldOK'
  BY <1>a DEF IInv, HoldOK, HangUp
<1>6. NameOK'
  BY DEF IInv, NameOK, HangUp
<1> QED BY <1>1, <1>2, <1>3, <1>4, <1>5, <1>6 DEF IInv

LEMMA OverflowKeeps ==
    ASSUME IInv, NEW c \in Conn, Overflow(c), UNCHANGED faults
    PROVE  IInv'
<1>a. \A d \in Conn : Name(d)' = Name(d)
  BY NameStable DEF Overflow
<1>1. TypeOK'
  BY <1>a DEF IInv, TypeOK, Statement, Overflow, Goto
<1>2. FreshOK'
  BY DEF IInv, FreshOK, Overflow, Goto
<1>3. ConnectOK'
  BY <1>a DEF IInv, ConnectOK, Overflow, Goto, Seeking, Entering
<1>4. ExamineOK'
  BY <1>a DEF IInv, ExamineOK, Overflow, Goto
<1>5. HoldOK'
  BY <1>a DEF IInv, HoldOK, Overflow
<1>6. NameOK'
  BY DEF IInv, NameOK, Overflow
<1> QED BY <1>1, <1>2, <1>3, <1>4, <1>5, <1>6 DEF IInv

LEMMA HandleDisconnectKeeps ==
    ASSUME IInv, NEW c \in Conn, HandleDisconnect(c), UNCHANGED faults
    PROVE  IInv'
<1>a. \A d \in Conn : Name(d)' = Name(d)
  BY NameStable DEF HandleDisconnect
<1>1. TypeOK'
  <2>1. HasSession(c) => asked[c] # {} /\ connectionsIdMap[c] # Nobody
    BY DEF IInv, TypeOK, HoldOK, HasSession
  <2>2. pc' \in [Conn -> Statement] /\ closing' \in [Conn -> {"no", "logout", "error", "close"}]
    BY DEF IInv, TypeOK, Statement, HandleDisconnect, Goto, Finish
  <2>3. userName' \in [Conn -> User \cup {Nobody}]
    BY DEF IInv, TypeOK, HandleDisconnect, Finish
  <2>4. \A d \in Conn : pc'[d] \in {"sqlUser", "undo", "sqlLogin", "sqlLogout", "release"} =>
           asked[d] # {} /\ connectionsIdMap[d] # Nobody
    BY <2>1 DEF IInv, TypeOK, HandleDisconnect, Goto, Finish
  <2>5. UNCHANGED <<userMap, loggedIn, connectionsIdMap, asked, found, openRows>>
    BY DEF HandleDisconnect
  <2> QED BY <1>a, <2>2, <2>3, <2>4, <2>5 DEF IInv, TypeOK
<1>2. FreshOK'
  BY DEF IInv, TypeOK, FreshOK, HandleDisconnect, Goto, Finish
<1>3. ConnectOK'
  BY <1>a DEF IInv, TypeOK, ConnectOK, HandleDisconnect, Goto, Finish, HasSession, IsLoggedIn,
     Seeking, Entering
<1>4. ExamineOK'
  BY <1>a DEF IInv, TypeOK, ExamineOK, HandleDisconnect, Goto, Finish
<1>5. HoldOK'
  BY <1>a DEF IInv, HoldOK, HandleDisconnect
<1>6. NameOK'
  BY SessionsAssumption DEF IInv, TypeOK, NameOK, HandleDisconnect, Finish
<1> QED BY <1>1, <1>2, <1>3, <1>4, <1>5, <1>6 DEF IInv

LEMMA HandleDisconnectThrowsKeeps ==
    ASSUME IInv, NEW c \in Conn, HandleDisconnectThrows(c), UNCHANGED faults
    PROVE  IInv'
<1>a. \A d \in Conn : Name(d)' = Name(d)
  BY NameStable DEF HandleDisconnectThrows
<1>1. TypeOK'
  BY <1>a DEF IInv, TypeOK, Statement, HandleDisconnectThrows, Throw
<1>2. FreshOK'
  BY DEF IInv, TypeOK, FreshOK, HandleDisconnectThrows, Throw
<1>3. ConnectOK'
  BY <1>a DEF IInv, TypeOK, ConnectOK, HandleDisconnectThrows, Throw, Seeking, Entering
<1>4. ExamineOK'
  BY <1>a DEF IInv, TypeOK, ExamineOK, HandleDisconnectThrows, Throw
<1>5. HoldOK'
  BY <1>a DEF IInv, HoldOK, HandleDisconnectThrows
<1>6. NameOK'
  BY DEF IInv, NameOK, HandleDisconnectThrows
<1> QED BY <1>1, <1>2, <1>3, <1>4, <1>5, <1>6 DEF IInv

LEMMA SqlLogoutKeeps ==
    ASSUME IInv, NEW c \in Conn, SqlLogout(c), UNCHANGED faults
    PROVE  IInv'
<1>a. \A d \in Conn : Name(d)' = Name(d)
  BY NameStable DEF SqlLogout
<1>1. TypeOK'
  <2>1. userName[c] \in User
    BY DEF IInv, TypeOK, ConnectOK, SqlLogout
  <2>2. openRows' \in [User -> Nat]
    BY <2>1 DEF IInv, TypeOK, SqlLogout
  <2>3. pc' \in [Conn -> Statement] /\ closing' \in [Conn -> {"no", "logout", "error", "close"}]
    BY DEF IInv, TypeOK, Statement, SqlLogout, Throw, Goto
  <2>4. \A d \in Conn : pc'[d] \in Entering \cup {"sqlLogout", "release"} =>
           pc'[d] = pc[d] \/ pc[d] = "sqlLogout"
    BY DEF IInv, TypeOK, SqlLogout, Throw, Goto
  <2> QED BY <1>a, <2>2, <2>3, <2>4 DEF IInv, TypeOK, SqlLogout, Entering
<1>2. FreshOK'
  BY DEF IInv, TypeOK, FreshOK, SqlLogout, Goto, Throw
<1>3. ConnectOK'
  BY <1>a DEF IInv, TypeOK, ConnectOK, SqlLogout, Goto, Throw, Seeking, Entering
<1>4. ExamineOK'
  BY <1>a DEF IInv, TypeOK, ExamineOK, SqlLogout, Goto, Throw
<1>5. HoldOK'
  BY <1>a DEF IInv, HoldOK, SqlLogout
<1>6. NameOK'
  BY DEF IInv, NameOK, SqlLogout
<1> QED BY <1>1, <1>2, <1>3, <1>4, <1>5, <1>6 DEF IInv

LEMMA ReleaseKeeps ==
    ASSUME IInv, NEW c \in Conn, Release(c), UNCHANGED faults
    PROVE  IInv'
<1>a. \A d \in Conn : Name(d)' = Name(d)
  BY NameStable DEF Release
<1>1. TypeOK'
  BY <1>a DEF IInv, TypeOK, Statement, Release, Finish
<1>2. FreshOK'
  BY DEF IInv, FreshOK, Release, Finish
<1>3. ConnectOK'
  BY <1>a DEF IInv, TypeOK, ConnectOK, Release, Finish
<1>4. ExamineOK'
  BY <1>a DEF IInv, ExamineOK, Release, Finish, HoldOK
<1>5. HoldOK'
  BY <1>a, SessionsAssumption DEF IInv, TypeOK, HoldOK, Release
<1>6. NameOK'
  BY SessionsAssumption DEF IInv, TypeOK, NameOK, Release, Finish
<1> QED BY <1>1, <1>2, <1>3, <1>4, <1>5, <1>6 DEF IInv

-----------------------------------------------------------------------------
(* Every step of a thread keeps the invariant.                             *)
LEMMA NextKeepsIInv == IInv /\ [Next]_vars => IInv'
<1> SUFFICES ASSUME IInv, [Next]_vars PROVE IInv'
  OBVIOUS
<1>1. ASSUME NEW c \in Conn, Request(c) PROVE IInv'
  <2>1. ASSUME NEW pair \in Credential[c], Connect(c, pair[1], pair[2]) PROVE IInv'
    <3>1. pair[1] \in User /\ pair[2] \in Password
      BY SessionsAssumption
    <3> QED BY <1>1, <2>1, <3>1, ConnectKeeps DEF Request
  <2> QED BY <1>1, <2>1, RefuseKeeps, DisconnectKeeps, HangUpKeeps, OverflowKeeps DEF Request
<1>2. ASSUME NEW c \in Conn, Continue(c) PROVE IInv'
  BY <1>2, HasUserKeeps, RegisterKeeps, SqlUserKeeps, UndoKeeps, LookupKeeps, ExamineKeeps,
     RejectKeeps, SqlLoginKeeps, HandleDisconnectKeeps, HandleDisconnectThrowsKeeps,
     SqlLogoutKeeps, ReleaseKeeps DEF Continue
<1>3. CASE UNCHANGED vars
  <2>1. \A d \in Conn : Name(d)' = Name(d)
    BY <1>3, NameStable DEF vars
  <2> QED BY <1>3, <2>1 DEF vars, IInv, TypeOK, FreshOK, ConnectOK, ExamineOK, HoldOK, NameOK
<1> QED BY <1>1, <1>2, <1>3 DEF Next

(* The inductive invariant holds in every reachable state.                 *)
THEOREM SessionsInvariant == Spec => []IInv
BY InitIInv, NextKeepsIInv, PTL DEF Spec

(* Type correctness, whatever fails.                                       *)
THEOREM SessionsTypeOK == Spec => []TypeOK
<1>1. IInv => TypeOK
  BY DEF IInv
<1> QED BY SessionsInvariant, <1>1, PTL

(* A client that can act as a user is backed by a session: neither another *)
(* connection nor a failed registration ends it.                           *)
THEOREM SessionsBacked == Spec => []SessionBacked
<1>1. ASSUME IInv PROVE SessionBacked
  <2> SUFFICES ASSUME NEW c \in Conn, userName[c] # Nobody
               PROVE  connectionsIdMap[c] = userMap[userName[c]] /\ IsLoggedIn(userName[c])
    BY DEF SessionBacked
  <2>1. userName[c] \in User
    BY <1>1 DEF IInv, TypeOK
  <2>2. connectionsIdMap[c] \in Conn /\ userMap[userName[c]] = connectionsIdMap[c]
    BY <1>1, <2>1 DEF IInv, NameOK
  <2>3. loggedIn[connectionsIdMap[c]]
    BY <1>1, <2>2 DEF IInv, HoldOK
  <2> QED BY <2>2, <2>3, SessionsAssumption DEF IsLoggedIn
<1> QED BY SessionsInvariant, <1>1, PTL

(* No two connections are ever logged in as the same user.                 *)
THEOREM SessionsOnePerUser == Spec => []OneSessionPerUser
<1>1. ASSUME IInv PROVE OneSessionPerUser
  <2> SUFFICES ASSUME NEW c \in Conn, NEW d \in Conn, userName[c] # Nobody, userName[c] = userName[d]
               PROVE  c = d
    BY DEF OneSessionPerUser
  <2>1. userName[c] \in User
    BY <1>1 DEF IInv, TypeOK
  <2>2. connectionsIdMap[c] \in Conn /\ connectionsIdMap[d] = connectionsIdMap[c]
    BY <1>1, <2>1 DEF IInv, NameOK
  <2> QED BY <1>1, <2>2 DEF IInv, HoldOK
<1> QED BY SessionsInvariant, <1>1, PTL

-----------------------------------------------------------------------------
(***************************************************************************)
(* Two results that rest on this invariant: the database is an exclusive   *)
(* lock for each user whatever fails, and as long as nothing fails the     *)
(* login history agrees with the sessions.                                 *)
(***************************************************************************)

(* A connection that asks for a user has none, and is not on its way out.  *)
SeekOK ==
    \A c \in Conn :
        /\ pc[c] \in Seeking => connectionsIdMap[c] = Nobody
        /\ pc[c] \in Seeking \cup Entering \cup {"idle"} => closing[c] = "no"

(* The row of a user is closed one step before the user is free.           *)
RowOK ==
    \A u \in User :
        /\ \A c \in Conn : userName[c] = u /\ pc[c] # "release" => openRows[u] = 1
        /\ (\A c \in Conn : userName[c] = u => pc[c] = "release") => openRows[u] = 0

LInv == IInv /\ SeekOK /\ (faults = {} => RowOK)

-----------------------------------------------------------------------------
LEMMA InitLInv == Init => LInv
<1> SUFFICES ASSUME Init PROVE LInv
  OBVIOUS
<1>1. SeekOK
  BY DEF Init, SeekOK
<1>2. RowOK
  BY SessionsAssumption DEF Init, RowOK
<1> QED BY <1>1, <1>2, InitIInv DEF LInv

LEMMA SeekKeeps ==
    ASSUME IInv, SeekOK, [Next]_vars
    PROVE  SeekOK'
<1>1. ASSUME NEW c \in Conn, Request(c) PROVE SeekOK'
  <2>1. ASSUME NEW pair \in Credential[c], Connect(c, pair[1], pair[2]) PROVE SeekOK'
    BY <2>1 DEF IInv, TypeOK, SeekOK, Connect, Goto, Seeking, Entering
  <2>2. CASE Refuse(c)
    BY <2>2 DEF IInv, TypeOK, SeekOK, Refuse, Throw, Seeking, Entering
  <2>3. CASE Disconnect(c)
    BY <2>3 DEF IInv, TypeOK, SeekOK, Disconnect, Goto, Seeking, Entering
  <2>4. CASE HangUp(c)
    BY <2>4 DEF IInv, TypeOK, SeekOK, HangUp, Goto, Seeking, Entering
  <2>5. CASE Overflow(c)
    BY <2>5 DEF IInv, TypeOK, SeekOK, Overflow, Goto, Seeking, Entering
  <2> QED BY <1>1, <2>1, <2>2, <2>3, <2>4, <2>5 DEF Request
<1>2. ASSUME NEW c \in Conn, Continue(c) PROVE SeekOK'
  <2>1. CASE HasUser(c)
    BY <2>1 DEF IInv, TypeOK, SeekOK, HasUser, Goto, Seeking, Entering
  <2>2. CASE Register(c)
    BY <2>2 DEF IInv, TypeOK, SeekOK, Register, Goto, Seeking, Entering
  <2>3. CASE SqlUser(c)
    BY <2>3 DEF IInv, TypeOK, SeekOK, SqlUser, Goto, Seeking, Entering
  <2>4. CASE Undo(c)
    BY <2>4 DEF IInv, TypeOK, SeekOK, Undo, Throw, Seeking, Entering
  <2>5. CASE Lookup(c)
    BY <2>5 DEF IInv, TypeOK, SeekOK, Lookup, Goto, Throw, Seeking, Entering
  <2>6. CASE Examine(c)
    BY <2>6 DEF IInv, TypeOK, SeekOK, Examine, Goto, Seeking, Entering
  <2>7. CASE Reject(c)
    BY <2>7 DEF IInv, TypeOK, SeekOK, Reject, Throw, Seeking, Entering
  <2>8. CASE SqlLogin(c)
    BY <2>8 DEF IInv, TypeOK, SeekOK, SqlLogin, Goto, Throw, Seeking, Entering
  <2>9. CASE HandleDisconnect(c)
    BY <2>9 DEF IInv, TypeOK, SeekOK, HandleDisconnect, Goto, Finish, Seeking, Entering
  <2>10. CASE HandleDisconnectThrows(c)
    BY <2>10 DEF IInv, TypeOK, SeekOK, HandleDisconnectThrows, Throw, Seeking, Entering
  <2>11. CASE SqlLogout(c)
    BY <2>11 DEF IInv, TypeOK, SeekOK, SqlLogout, Goto, Throw, Seeking, Entering
  <2>12. CASE Release(c)
    BY <2>12 DEF IInv, TypeOK, SeekOK, Release, Finish, Seeking, Entering
  <2> QED BY <1>2, <2>1, <2>2, <2>3, <2>4, <2>5, <2>6, <2>7, <2>8, <2>9, <2>10, <2>11, <2>12
          DEF Continue
<1>3. CASE UNCHANGED vars
  BY <1>3 DEF vars, SeekOK
<1> QED BY <1>1, <1>2, <1>3 DEF Next

-----------------------------------------------------------------------------
(* The login history.                                                      *)

(* Who bears a user's name bears it alone, and has a session to end.       *)
LEMMA NamesDiffer ==
    ASSUME IInv, NEW c \in Conn, NEW u \in User, userName[c] = u
    PROVE  HasSession(c) /\ \A d \in Conn : userName[d] = u => d = c
<1>1. connectionsIdMap[c] \in Conn /\ userMap[u] = connectionsIdMap[c]
  BY DEF IInv, NameOK
<1>2. loggedIn[connectionsIdMap[c]]
  BY <1>1 DEF IInv, HoldOK
<1>3. HasSession(c)
  BY <1>1, <1>2, SessionsAssumption DEF HasSession, IsLoggedIn
<1>4. ASSUME NEW d \in Conn, userName[d] = u PROVE d = c
  <2>1. connectionsIdMap[d] = connectionsIdMap[c]
    BY <1>1, <1>4 DEF IInv, NameOK
  <2> QED BY <1>1, <2>1 DEF IInv, HoldOK
<1> QED BY <1>3, <1>4

(* A step that neither names a user nor gets to "release" nor writes to    *)
(* the table.                                                              *)
LEMMA RowStays ==
    ASSUME RowOK, UNCHANGED <<openRows, userName>>,
           \A c \in Conn : (pc'[c] = "release") <=> (pc[c] = "release")
    PROVE  RowOK'
BY DEF RowOK

(* At "sqlLogin" nobody has the user's name yet.                           *)
LEMMA LoginIsFirst ==
    ASSUME IInv, NEW c \in Conn, pc[c] = "sqlLogin"
    PROVE  Name(c) \in User /\ \A d \in Conn : userName[d] # Name(c)
<1>1. Name(c) \in User /\ userName[c] = Nobody
  BY NameType DEF IInv, ConnectOK, Entering
<1>2. connectionsIdMap[c] \in Conn
  BY DEF IInv, TypeOK
<1>3. Name(connectionsIdMap[c]) = Name(c) /\ userMap[Name(c)] = connectionsIdMap[c]
  BY <1>2 DEF IInv, ConnectOK, HoldOK
<1>4. ASSUME NEW d \in Conn, userName[d] = Name(c) PROVE FALSE
  <2>1. connectionsIdMap[d] = connectionsIdMap[c]
    BY <1>1, <1>3, <1>4 DEF IInv, NameOK
  <2>2. d = c
    BY <1>2, <2>1 DEF IInv, HoldOK
  <2> QED BY <1>1, <1>4, <2>2, SessionsAssumption
<1> QED BY <1>1, <1>4

LEMMA SqlLoginKeepsRows ==
    ASSUME IInv, RowOK, faults = {}, NEW c \in Conn, SqlLogin(c)
    PROVE  RowOK'
<1>1. Name(c) \in User /\ \A d \in Conn : userName[d] # Name(c)
  BY LoginIsFirst DEF SqlLogin
<1>2. /\ openRows' = [openRows EXCEPT ![Name(c)] = @ + 1]
      /\ userName' = [userName EXCEPT ![c] = Name(c)]
      /\ pc' = [pc EXCEPT ![c] = "idle"]
  BY DEF SqlLogin, SqlOutcome, Applied, Throws
<1>3. openRows[Name(c)] = 0
  BY <1>1 DEF RowOK
<1>4. userName[c] = Nobody /\ pc[c] # "release"
  BY DEF IInv, ConnectOK, SqlLogin, Entering
<1>5. ASSUME NEW u \in User, u # Name(c)
      PROVE  /\ openRows'[u] = openRows[u]
             /\ \A d \in Conn : /\ userName'[d] = u <=> userName[d] = u
                                /\ userName[d] = u => pc'[d] = pc[d]
  BY <1>1, <1>2, <1>4, <1>5, SessionsAssumption DEF IInv, TypeOK
<1>6. openRows'[Name(c)] = 1 /\ userName'[c] = Name(c) /\ pc'[c] = "idle"
  BY <1>1, <1>2, <1>3 DEF IInv, TypeOK
<1> QED BY <1>5, <1>6 DEF RowOK

LEMMA SqlLogoutKeepsRows ==
    ASSUME IInv, RowOK, faults = {}, NEW c \in Conn, SqlLogout(c)
    PROVE  RowOK'
<1>1. userName[c] \in User
  BY DEF IInv, TypeOK, ConnectOK, SqlLogout
<1>2. /\ openRows' = [openRows EXCEPT ![userName[c]] = IF @ > 0 THEN @ - 1 ELSE @]
      /\ pc' = [pc EXCEPT ![c] = "release"]
      /\ pc[c] = "sqlLogout"
      /\ UNCHANGED userName
  BY DEF SqlLogout, SqlOutcome, Applied, Throws, Goto
<1>3. openRows[userName[c]] = 1
  BY <1>1, <1>2 DEF RowOK
<1>4. \A d \in Conn : userName[d] = userName[c] => d = c
  BY <1>1, NamesDiffer
<1>5. ASSUME NEW u \in User, u # userName[c]
      PROVE  /\ openRows'[u] = openRows[u]
             /\ \A d \in Conn : userName[d] = u => pc'[d] = pc[d]
  BY <1>1, <1>2, <1>5 DEF IInv, TypeOK
<1>6. openRows'[userName[c]] = 0 /\ pc'[c] = "release"
  BY <1>1, <1>2, <1>3 DEF IInv, TypeOK
<1> QED BY <1>1, <1>2, <1>4, <1>5, <1>6 DEF RowOK

LEMMA ReleaseKeepsRows ==
    ASSUME IInv, RowOK, NEW c \in Conn, Release(c)
    PROVE  RowOK'
<1>1. userName[c] \in User /\ pc[c] = "release"
  BY DEF IInv, TypeOK, ConnectOK, Release
<1>2. /\ userName' = [userName EXCEPT ![c] = Nobody]
      /\ \A d \in Conn \ {c} : pc'[d] = pc[d]
      /\ UNCHANGED openRows
  BY DEF IInv, TypeOK, Release, Finish
<1>3. \A d \in Conn : userName[d] = userName[c] => d = c
  BY <1>1, NamesDiffer
<1>4. ASSUME NEW u \in User, u # userName[c]
      PROVE  \A d \in Conn : /\ userName'[d] = u <=> userName[d] = u
                             /\ userName[d] = u => pc'[d] = pc[d]
  BY <1>1, <1>2, <1>4, SessionsAssumption DEF IInv, TypeOK
<1>5. \A d \in Conn : userName'[d] # userName[c]
  BY <1>1, <1>2, <1>3, SessionsAssumption DEF IInv, TypeOK
<1>6. openRows[userName[c]] = 0
  BY <1>1, <1>3 DEF RowOK
<1> QED BY <1>2, <1>4, <1>5, <1>6 DEF RowOK

LEMMA HandleDisconnectKeepsRows ==
    ASSUME IInv, RowOK, NEW c \in Conn, HandleDisconnect(c)
    PROVE  RowOK'
<1>1. CASE HasSession(c)
  <2>1. UNCHANGED <<openRows, userName>>
    BY <1>1 DEF HandleDisconnect
  <2>2. \A d \in Conn : (pc'[d] = "release") <=> (pc[d] = "release")
    BY <1>1 DEF IInv, TypeOK, HandleDisconnect, Goto
  <2> QED BY <2>1, <2>2, RowStays
<1>2. CASE ~HasSession(c)
  <2>1. userName[c] = Nobody
    BY <1>2, NamesDiffer DEF IInv, TypeOK
  <2>2. UNCHANGED <<openRows, userName>>
    BY <1>2, <2>1 DEF IInv, TypeOK, HandleDisconnect, Finish
  <2>3. \A d \in Conn : (pc'[d] = "release") <=> (pc[d] = "release")
    BY <1>2 DEF IInv, TypeOK, HandleDisconnect, Finish
  <2> QED BY <2>2, <2>3, RowStays
<1> QED BY <1>1, <1>2

LEMMA RowsKeep ==
    ASSUME IInv, RowOK, faults = {}, [Next]_vars
    PROVE  RowOK'
<1>1. ASSUME NEW c \in Conn, Request(c) PROVE RowOK'
  <2>1. UNCHANGED <<openRows, userName>>
    BY <1>1 DEF Request, Connect, Refuse, Disconnect, HangUp, Overflow
  <2>2. \A d \in Conn : (pc'[d] = "release") <=> (pc[d] = "release")
    BY <1>1 DEF IInv, TypeOK, Request, Connect, Refuse, Disconnect, HangUp, Overflow, Goto, Throw
  <2> QED BY <2>1, <2>2, RowStays
<1>2. ASSUME NEW c \in Conn, Continue(c) PROVE RowOK'
  <2>1. CASE HasUser(c) \/ Register(c) \/ SqlUser(c) \/ Undo(c) \/ Lookup(c)
             \/ Examine(c) \/ Reject(c) \/ HandleDisconnectThrows(c)
    <3>1. UNCHANGED <<openRows, userName>>
      BY <2>1 DEF HasUser, Register, SqlUser, Undo, Lookup, Examine, Reject, HandleDisconnectThrows
    <3>2. \A d \in Conn : (pc'[d] = "release") <=> (pc[d] = "release")
      BY <2>1 DEF IInv, TypeOK, HasUser, Register, SqlUser, Undo, Lookup, Examine, Reject,
         HandleDisconnectThrows, Goto, Throw
    <3> QED BY <3>1, <3>2, RowStays
  <2> QED BY <1>2, <2>1, SqlLoginKeepsRows, SqlLogoutKeepsRows, ReleaseKeepsRows,
             HandleDisconnectKeepsRows DEF Continue
<1>3. CASE UNCHANGED vars
  BY <1>3, RowStays DEF vars
<1> QED BY <1>1, <1>2, <1>3 DEF Next

LEMMA NextKeepsLInv == LInv /\ [Next]_vars => LInv'
<1> SUFFICES ASSUME LInv, [Next]_vars PROVE LInv'
  OBVIOUS
<1>1. IInv' /\ SeekOK'
  BY NextKeepsIInv, SeekKeeps DEF LInv
<1>2. UNCHANGED faults
  BY DEF Next, Request, Continue, vars
<1> QED BY <1>1, <1>2, RowsKeep DEF LInv

(* What both proofs below need of a state, whatever fails.                 *)
THEOREM SessionsLockInvariant == Spec => []LInv
BY InitLInv, NextKeepsLInv, PTL DEF Spec

(* When no call fails the table of logins agrees with the sessions: a user *)
(* has one open row exactly while some connection acts as that user.       *)
THEOREM SessionsHistoryMatches == Spec => []HistoryMatches
<1>1. ASSUME LInv PROVE HistoryMatches
  <2> SUFFICES ASSUME faults = {}, NEW u \in User
               PROVE  /\ openRows[u] \in {0, 1}
                      /\ (\E c \in Conn : pc[c] = "idle" /\ userName[c] = u) => openRows[u] = 1
                      /\ (\A c \in Conn : pc[c] \in {"idle", "ended"} /\ userName[c] # u)
                            => openRows[u] = 0
    BY DEF HistoryMatches
  <2>1. RowOK
    BY <1>1 DEF LInv
  <2> QED BY <2>1 DEF RowOK
<1> QED BY SessionsLockInvariant, <1>1, PTL

-----------------------------------------------------------------------------
(* The lock.                                                               *)
Holders == [u \in User |-> Holder(u)]
Leaving == {c \in Conn : closing[c] # "no"}

Holds(c, u) == connectionsIdMap[c] # Nobody /\ Name(connectionsIdMap[c]) = u

(* The one connection that has a session of u is the holder of u.          *)
HolderOK ==
    \A u \in User :
        /\ Holder(u) \in Conn \cup {Nobody}
        /\ \A c \in Conn : Holder(u) = c <=> Holds(c, u)

LEMMA HolderIs == IInv => HolderOK
<1> SUFFICES ASSUME IInv, NEW u \in User
             PROVE  /\ Holder(u) \in Conn \cup {Nobody}
                    /\ \A c \in Conn : Holder(u) = c <=> Holds(c, u)
  BY DEF HolderOK
<1> DEFINE holders == {c \in Conn : Holds(c, u)}
<1>1. Holder(u) = IF holders = {} THEN Nobody ELSE CHOOSE c \in holders : TRUE
  BY DEF Holder, Holds
<1>2. ASSUME NEW c \in holders, NEW d \in holders PROVE c = d
  <2>1. connectionsIdMap[c] \in Conn /\ connectionsIdMap[d] \in Conn
    BY <1>2 DEF Holds, IInv, TypeOK
  <2>2. connectionsIdMap[c] = connectionsIdMap[d]
    BY <1>2, <2>1 DEF Holds, IInv, HoldOK
  <2> QED BY <1>2, <2>1, <2>2 DEF IInv, HoldOK
<1> QED BY <1>1, <1>2, SessionsAssumption

LEMMA HolderIsNext == IInv' => HolderOK'
BY HolderIs, PTL

(* Steps that change who holds what for one connection and user only.      *)
LEMMA HoldersChange ==
    ASSUME IInv, IInv', NEW c \in Conn, NEW u \in User, NEW h \in Conn \cup {Nobody},
           \A d \in Conn : (Holds(d, u))' <=> h = d,
           \A d \in Conn : \A v \in User \ {u} : (Holds(d, v))' <=> Holds(d, v)
    PROVE  Holders' = [Holders EXCEPT ![u] = h]
<1>1. HolderOK /\ HolderOK'
  BY HolderIs, HolderIsNext
<1>2. Holder(u)' = h
  BY <1>1, SessionsAssumption DEF HolderOK
<1>3. ASSUME NEW v \in User \ {u} PROVE Holder(v)' = Holder(v)
  BY <1>1, <1>3, SessionsAssumption DEF HolderOK
<1> QED BY <1>2, <1>3 DEF Holders

LEMMA HoldersStay ==
    ASSUME IInv, IInv', \A d \in Conn : \A v \in User : (Holds(d, v))' <=> Holds(d, v)
    PROVE  Holders' = Holders
<1>1. HolderOK /\ HolderOK'
  BY HolderIs, HolderIsNext
<1>2. ASSUME NEW v \in User PROVE Holder(v)' = Holder(v)
  BY <1>1, <1>2, SessionsAssumption DEF HolderOK
<1> QED BY <1>2 DEF Holders

LEMMA HoldsSame ==
    ASSUME UNCHANGED <<asked, connectionsIdMap>>
    PROVE  \A d, v : (Holds(d, v))' <=> Holds(d, v)
BY DEF Holds, Name, Asked

(* A step that may put one connection on its way out.                      *)
LEMMA LeaveStep ==
    ASSUME Holders' = Holders, NEW c \in Conn,
           \A d \in Conn \ {c} : closing'[d] = closing[d],
           closing'[c] = closing[c] \/ closing'[c] # "no"
    PROVE  [Lock!Next]_Lock!vars
<1>1. Leaving' = Leaving \/ Leaving' = Leaving \cup {c}
  BY DEF Leaving
<1>2. CASE Leaving' = Leaving
  BY <1>2 DEF Lock!vars, Holders, Leaving
<1>3. CASE Leaving' = Leaving \cup {c}
  <2>1. Lock!Leave(c)
    BY <1>3 DEF Lock!Leave, Holders, Leaving
  <2> QED BY <2>1 DEF Lock!Next
<1> QED BY <1>1, <1>2, <1>3

LEMMA AcquireStep ==
    ASSUME LInv, IInv', NEW c \in Conn, Register(c) \/ Examine(c)
    PROVE  [Lock!Next]_Lock!vars
<1>1. HolderOK
  BY HolderIs DEF LInv
<1>2. connectionsIdMap[c] = Nobody /\ closing[c] = "no" /\ Name(c) \in User
  BY NameType DEF LInv, IInv, SeekOK, ConnectOK, Seeking, Register, Examine, Goto
<1>3. CASE UNCHANGED connectionsIdMap
  <2>1. Holders' = Holders
    BY <1>3, HoldersStay, HoldsSame DEF LInv, Register, Examine
  <2> QED BY <2>1, LeaveStep DEF Register, Examine
<1>4. CASE ~UNCHANGED connectionsIdMap
  <2>1. PICK o \in Conn : /\ connectionsIdMap' = [connectionsIdMap EXCEPT ![c] = o]
                          /\ Name(o) = Name(c)
                          /\ \A d \in Conn : ~Holds(d, Name(c))
    <3>1. CASE Register(c)
      <4>1. userMap[Name(c)] = Nobody /\ connectionsIdMap' = [connectionsIdMap EXCEPT ![c] = c]
        BY <1>4, <3>1 DEF Register
      <4>2. \A d \in Conn : ~Holds(d, Name(c))
        BY <1>2, <4>1, SessionsAssumption DEF LInv, IInv, TypeOK, HoldOK, Holds
      <4> QED BY <4>1, <4>2
    <3>2. CASE Examine(c)
      <4>1. /\ found[c] \in Conn /\ ~loggedIn[found[c]] /\ Name(found[c]) = Name(c)
            /\ userMap[Name(c)] = found[c]
        BY <3>2 DEF LInv, IInv, ExamineOK, Examine, Goto, MayLogin
      <4>2. connectionsIdMap' = [connectionsIdMap EXCEPT ![c] = found[c]]
        BY <3>2 DEF Examine
      <4>3. \A d \in Conn : ~Holds(d, Name(c))
        BY <4>1 DEF LInv, IInv, TypeOK, HoldOK, Holds
      <4> QED BY <4>1, <4>2, <4>3
    <3> QED BY <3>1, <3>2
  <2>2. \A d \in Conn : Name(d)' = Name(d)
    BY NameStable DEF Register, Examine
  <2>3. PICK u \in User : u = Name(c)
    BY <1>2
  <2>4. /\ \A d \in Conn : (Holds(d, u))' <=> c = d
        /\ \A d \in Conn : \A v \in User \ {u} : (Holds(d, v))' <=> Holds(d, v)
    BY <1>2, <2>1, <2>2, <2>3, SessionsAssumption DEF LInv, IInv, TypeOK, Holds
  <2>5. Holders' = [Holders EXCEPT ![Name(c)] = c]
    BY <2>3, <2>4, HoldersChange DEF LInv
  <2>6. Holders[Name(c)] = Nobody
    BY <1>1, <1>2, <2>1 DEF HolderOK, Holders
  <2>7. \A v \in User : Holders[v] # c
    BY <1>1, <1>2 DEF HolderOK, Holders, Holds
  <2>8. Lock!Acquire(c, Name(c))
    BY <1>2, <2>5, <2>6, <2>7 DEF Lock!Acquire, Holders, Leaving, Register, Examine
  <2> QED BY <1>2, <2>8 DEF Lock!Next
<1> QED BY <1>3, <1>4

LEMMA ReleaseStep ==
    ASSUME LInv, IInv', NEW c \in Conn, Undo(c) \/ Release(c)
    PROVE  [Lock!Next]_Lock!vars
<1>1. connectionsIdMap[c] \in Conn
  BY DEF LInv, IInv, TypeOK, Undo, Release
<1>2. PICK u \in User : Holds(c, u)
  BY <1>1, NameType, SessionsAssumption DEF LInv, IInv, HoldOK, Holds
<1>3. connectionsIdMap' = [connectionsIdMap EXCEPT ![c] = Nobody]
  BY DEF Undo, Release
<1>4. \A d \in Conn : Name(d)' = Name(d)
  BY NameStable DEF Undo, Release
<1>5. HolderOK
  BY HolderIs DEF LInv
<1>6. \A d \in Conn : (Holds(d, u))' <=> Nobody = d
  BY <1>2, <1>3, <1>4, <1>5, SessionsAssumption DEF LInv, IInv, TypeOK, Holds, HolderOK
<1>7. \A d \in Conn : \A v \in User \ {u} : (Holds(d, v))' <=> Holds(d, v)
  BY <1>2, <1>3, <1>4, SessionsAssumption DEF LInv, IInv, TypeOK, Holds
<1>8. Holders' = [Holders EXCEPT ![u] = Nobody] /\ Holders[u] = c
  BY <1>2, <1>5, <1>6, <1>7, HoldersChange DEF LInv, HolderOK, Holders
<1>9. Leaving' \in {Leaving, Leaving \cup {c}}
  BY DEF LInv, IInv, TypeOK, Leaving, Undo, Release, Throw, Finish
<1>10. Lock!Release(c, u)
  BY <1>8, <1>9 DEF Lock!Release, Holders, Leaving
<1> QED BY <1>10 DEF Lock!Next

(* The other steps keep every session where it is.                         *)
LEMMA QuietStep ==
    ASSUME LInv, IInv', NEW c \in Conn, UNCHANGED <<asked, connectionsIdMap>>,
           \/ UNCHANGED closing
           \/ Throw(c)
           \/ Finish(c)
           \/ \E x \in {"logout", "close"} : closing' = [closing EXCEPT ![c] = x]
    PROVE  [Lock!Next]_Lock!vars
<1>1. Holders' = Holders
  BY HoldersStay, HoldsSame DEF LInv
<1>2. \A d \in Conn \ {c} : closing'[d] = closing[d]
  BY DEF LInv, IInv, TypeOK, Throw, Finish
<1>3. closing'[c] = closing[c] \/ closing'[c] # "no"
  BY DEF LInv, IInv, TypeOK, Throw, Finish
<1> QED BY <1>1, <1>2, <1>3, LeaveStep

LEMMA ConnectStep ==
    ASSUME LInv, IInv', NEW c \in Conn, NEW u \in User, NEW p \in Password, Connect(c, u, p)
    PROVE  [Lock!Next]_Lock!vars
<1>1. asked[c] = {}
  BY DEF LInv, IInv, FreshOK, Connect, Goto
<1>2. \A d \in Conn \ {c} : Name(d)' = Name(d)
  BY DEF Connect, Name, Asked
<1>3. \A d \in Conn : connectionsIdMap[d] # c
  BY <1>1 DEF LInv, IInv, HoldOK
<1>4. \A d \in Conn : \A v \in User : (Holds(d, v))' <=> Holds(d, v)
  BY <1>2, <1>3 DEF LInv, IInv, TypeOK, Holds, Connect
<1>5. Holders' = Holders
  BY <1>4, HoldersStay DEF LInv
<1> QED BY <1>5, LeaveStep DEF Connect

LEMMA StepImplementsLock == LInv /\ IInv' /\ [Next]_vars => [Lock!Next]_Lock!vars
<1> SUFFICES ASSUME LInv, IInv', [Next]_vars PROVE [Lock!Next]_Lock!vars
  OBVIOUS
<1>1. ASSUME NEW c \in Conn, Request(c) PROVE [Lock!Next]_Lock!vars
  <2>1. ASSUME NEW pair \in Credential[c], Connect(c, pair[1], pair[2])
        PROVE  [Lock!Next]_Lock!vars
    <3>1. pair[1] \in User /\ pair[2] \in Password
      BY SessionsAssumption
    <3> QED BY <2>1, <3>1, ConnectStep
  <2>2. CASE Refuse(c) \/ Disconnect(c) \/ HangUp(c) \/ Overflow(c)
    BY <2>2, QuietStep DEF Refuse, Disconnect, HangUp, Overflow
  <2> QED BY <1>1, <2>1, <2>2 DEF Request
<1>2. ASSUME NEW c \in Conn, Continue(c) PROVE [Lock!Next]_Lock!vars
  <2>1. CASE HasUser(c) \/ SqlUser(c) \/ Lookup(c) \/ Reject(c) \/ SqlLogin(c)
    BY <2>1, QuietStep DEF HasUser, SqlUser, Lookup, Reject, SqlLogin
  <2>2. CASE HandleDisconnect(c) \/ HandleDisconnectThrows(c) \/ SqlLogout(c)
    BY <2>2, QuietStep DEF HandleDisconnect, HandleDisconnectThrows, SqlLogout
  <2> QED BY <1>2, <2>1, <2>2, AcquireStep, ReleaseStep DEF Continue
<1>3. CASE UNCHANGED vars
  <2>1. Holders' = Holders /\ Leaving' = Leaving
    BY <1>3, HoldersStay, HoldsSame DEF vars, LInv, Leaving
  <2> QED BY <2>1 DEF Lock!vars, Holders, Leaving
<1> QED BY <1>1, <1>2, <1>3 DEF Next

LEMMA InitImplementsLock == Init => Lock!Init
<1> SUFFICES ASSUME Init PROVE Lock!Init
  OBVIOUS
<1>1. \A u \in User : Holder(u) = Nobody
  BY DEF Init, Holder
<1> QED BY <1>1 DEF Init, Lock!Init

(* The database implements SessionLock, whatever fails: a login is the     *)
(* taking of a free user by a connection that stays, and only the holder,  *)
(* or its own failing login, gives the user back.                          *)
THEOREM SessionsImplementLock == Spec => Lock!Safety
<1>1. LInv => IInv
  BY DEF LInv
<1> QED BY SessionsLockInvariant, InitImplementsLock, StepImplementsLock, <1>1, PTL
        DEF Spec, Lock!Safety
=============================================================================
