---------------------------- MODULE ClientProofs ----------------------------
(***************************************************************************)
(* For any set of channels, any number of logins and commands, whenever    *)
(* the user logs in and whatever the server does: the variables of the     *)
(* client keep their types, and both ends count the same subscriptions.    *)
(*                                                                         *)
(* The argument for the counts is CountOK, which follows a join and an     *)
(* exit from the map through the frame in hand and the queue to the list   *)
(* of the server; PlaceOK says that the frame in hand goes to the          *)
(* connection the map is about.                                            *)
(***************************************************************************)
EXTENDS Client, FiniteSetTheorems, TLAPS

(* What the keyboard thread knows at its statements.                       *)
StepOK ==
    /\ kpc \in {"clearFlag", "delete", "connect"} => logins < MaxLogins
    /\ kpc \in {"setHandler", "setConnected"} => con # NoCon
    /\ kpc = "setConnected" => ch = con
    /\ kpc = "send" => ch # NoCon

IInv == TypeOK /\ StepOK

-----------------------------------------------------------------------------
(* A frame is never empty, so out tells whether there is one.              *)
LEMMA FrameNotEmpty == NoAction \notin Frame
BY DEF NoAction, Frame, Receipted, Report, Connect, Join, Exit, Logout

(* The channel of a frame that names one.                                  *)
LEMMA FrameTopic == \A f \in Join \cup Exit \cup Report : f[2] \in Topic
BY DEF Join, Exit, Report

LEMMA FrameKinds ==
    /\ Join \subseteq Receipted /\ Exit \subseteq Receipted /\ Logout \in Receipted
    /\ Receipted \subseteq Frame /\ Connect \in Frame
BY DEF Frame, Receipted

(* The invariant holds initially.                                          *)
LEMMA InitIInv == Init => IInv
<1> SUFFICES ASSUME Init PROVE IInv
  OBVIOUS
<1>1. TypeOK
  <2>1. \A S : <<>> \in Seq(S)
    OBVIOUS
  <2>2. /\ subs \in [Con -> Seq(Topic)] /\ toServer \in [Con -> Seq(Frame)]
        /\ toClient \in [Con -> Seq(Answer)]
    BY <2>1 DEF Init
  <2>3. logins \in 0..MaxLogins /\ commands \in 0..MaxCommands
    BY ClientAssumption DEF Init
  <2>4. /\ handler \in [Con -> {"none", "open", "closed", "deleted"}]
        /\ server \in [Con -> {"none", "open", "ending", "closed"}]
    BY DEF Init
  <2> QED BY <2>2, <2>3, <2>4 DEF Init, TypeOK
<1>2. StepOK
  BY DEF Init, StepOK
<1> QED BY <1>1, <1>2 DEF IInv

(* A frame that is taken from the queue or an answer that is put into it   *)
(* leaves sequences of frames and of answers.                              *)
LEMMA TakeTypes ==
    ASSUME TypeOK, NEW n \in Con, NEW f, Take(n, f)
    PROVE  /\ toServer' \in [Con -> Seq(Frame)]
           /\ UNCHANGED <<keyboard, receipt, protocol, listener, handler>>
BY DEF TypeOK, Take

LEMMA ReplyTypes ==
    ASSUME TypeOK, NEW n \in Con, NEW answer \in Answer, Reply(n, answer)
    PROVE  toClient' \in [Con -> Seq(Answer)]
BY DEF TypeOK, Reply

LEMMA AnswerKinds ==
    /\ {<<"CONNECTED">>, <<"ERROR">>, <<"MESSAGE">>} \subseteq Answer
    /\ \A f \in Receipted : <<"RECEIPT", f>> \in Answer
BY DEF Answer

LEMMA LoginKeeps ==
    ASSUME IInv, Login
    PROVE  IInv'
<1>1. TypeOK'
  BY DEF IInv, TypeOK, Login, protocol, listener, far, KeyboardAt
<1>2. StepOK'
  BY DEF StepOK, Login, KeyboardAt
<1> QED BY <1>1, <1>2 DEF IInv

LEMMA ClearFlagKeeps ==
    ASSUME IInv, ClearFlag
    PROVE  IInv'
<1>1. TypeOK'
  BY DEF IInv, TypeOK, ClearFlag, listener, far, KeyboardAt
<1>2. StepOK'
  BY DEF IInv, StepOK, ClearFlag, KeyboardAt
<1> QED BY <1>1, <1>2 DEF IInv

LEMMA DeleteKeeps ==
    ASSUME IInv, Delete
    PROVE  IInv'
<1>1. TypeOK'
  BY DEF IInv, TypeOK, Delete, protocol, listener, far, KeyboardAt
<1>2. StepOK'
  BY DEF IInv, StepOK, Delete, KeyboardAt
<1> QED BY <1>1, <1>2 DEF IInv

LEMMA OpenKeeps ==
    ASSUME IInv, Open
    PROVE  IInv'
<1>1. TypeOK'
  <2>1. logins + 1 \in Con
    BY ClientAssumption DEF IInv, TypeOK, StepOK, Open, KeyboardAt, Con
  <2>2. logins' \in 0..MaxLogins
    BY <2>1 DEF Open, Con
  <2>3. con' \in Con \cup {NoCon} /\ kpc' \in {"prompt", "setHandler"} /\ out = NoAction
    BY <2>1 DEF IInv, TypeOK, Open, KeyboardAt
  <2>4. /\ handler' \in [Con -> {"none", "open", "closed", "deleted"}]
        /\ server' \in [Con -> {"none", "open", "ending", "closed"}]
    BY DEF IInv, TypeOK, Open
  <2> QED BY <2>2, <2>3, <2>4 DEF IInv, TypeOK, Open, protocol, listener
<1>2. StepOK'
  BY DEF IInv, TypeOK, StepOK, Open, listener, KeyboardAt, NoCon
<1> QED BY <1>1, <1>2 DEF IInv

LEMMA SetHandlerKeeps ==
    ASSUME IInv, SetHandler
    PROVE  IInv'
<1>1. TypeOK'
  BY DEF IInv, TypeOK, StepOK, SetHandler, listener, far, KeyboardAt
<1>2. StepOK'
  BY DEF IInv, StepOK, SetHandler, KeyboardAt
<1> QED BY <1>1, <1>2 DEF IInv

LEMMA SetConnectedKeeps ==
    ASSUME IInv, SetConnected
    PROVE  IInv'
<1>1. TypeOK'
  BY FrameNotEmpty, FrameKinds DEF IInv, TypeOK, StepOK, SetConnected, listener, far, KeyboardAt
<1>2. StepOK'
  BY DEF IInv, StepOK, SetConnected, KeyboardAt
<1> QED BY <1>1, <1>2 DEF IInv

LEMMA CommandKeeps ==
    ASSUME IInv, NEW f \in Frame, Command(f)
    PROVE  IInv'
<1>1. TypeOK'
  BY FrameNotEmpty, FrameTopic, ClientAssumption DEF IInv, TypeOK, Command, protocol, listener,
     far, KeyboardAt
<1>2. StepOK'
  BY DEF IInv, TypeOK, StepOK, Command, protocol, KeyboardAt
<1> QED BY <1>1, <1>2 DEF IInv

LEMMA SendKeeps ==
    ASSUME IInv, Send
    PROVE  IInv'
<1>1. TypeOK'
  <2>1. toServer' \in [Con -> Seq(Frame)]
    BY DEF IInv, TypeOK, StepOK, Send, KeyboardAt
  <2>2. subscriptions' \subseteq Topic
    BY DEF IInv, TypeOK, Send, Forget
  <2>3. kpc' = "prompt" /\ out' = NoAction
    BY DEF Send, KeyboardAt
  <2> QED BY <2>1, <2>2, <2>3 DEF IInv, TypeOK, Send, protocol, listener, far
<1>2. StepOK'
  BY DEF StepOK, Send, KeyboardAt
<1> QED BY <1>1, <1>2 DEF IInv

LEMMA SendFailsKeeps ==
    ASSUME IInv, SendFails
    PROVE  IInv'
<1>1. TypeOK'
  BY DEF IInv, TypeOK, SendFails, protocol, listener, far, KeyboardAt
<1>2. StepOK'
  BY DEF StepOK, SendFails, KeyboardAt
<1> QED BY <1>1, <1>2 DEF IInv

LEMMA ListenKeeps ==
    ASSUME IInv, Listen
    PROVE  IInv'
<1>1. TypeOK'
  BY DEF IInv, TypeOK, Listen, keyboard, protocol, far, ListenerAt
<1>2. StepOK'
  BY DEF IInv, StepOK, Listen, keyboard, protocol
<1> QED BY <1>1, <1>2 DEF IInv

LEMMA ParseKeeps ==
    ASSUME IInv, Parse
    PROVE  IInv'
<1>1. TypeOK'
  BY DEF IInv, TypeOK, Parse, ParseFrame, keyboard, protocol, ListenerAt
<1>2. StepOK'
  BY DEF IInv, StepOK, Parse, ParseFrame, keyboard, protocol
<1> QED BY <1>1, <1>2 DEF IInv

LEMMA ReadFailsKeeps ==
    ASSUME IInv, ReadFails
    PROVE  IInv'
<1>1. TypeOK'
  BY DEF IInv, TypeOK, ReadFails, keyboard, protocol, far, ListenerAt
<1>2. StepOK'
  BY DEF IInv, StepOK, ReadFails, keyboard, protocol
<1> QED BY <1>1, <1>2 DEF IInv

LEMMA CaughtKeeps ==
    ASSUME IInv, Caught
    PROVE  IInv'
<1>1. TypeOK'
  BY DEF IInv, TypeOK, Caught, keyboard, far, ListenerAt
<1>2. StepOK'
  BY DEF IInv, StepOK, Caught, keyboard
<1> QED BY <1>1, <1>2 DEF IInv

(* Whatever the listener does with a handler that was deleted.             *)
LEMMA DieKeeps ==
    ASSUME IInv, Die
    PROVE  IInv'
<1>1. handler' \in [Con -> {"none", "open", "closed", "deleted"}]
  BY DEF IInv, TypeOK, Die
<1>2. UNCHANGED <<logins, commands, server, session, subs, toClient, toServer>>
  BY DEF Die, far
<1>3. TypeOK'
  BY <1>1, <1>2 DEF IInv, TypeOK, Die
<1>4. StepOK'
  BY DEF StepOK, Die
<1> QED BY <1>3, <1>4 DEF IInv

LEMMA DanglingKeeps ==
    ASSUME IInv, Dangling
    PROVE  IInv'
<1>1. CASE ParseFrame
  BY <1>1 DEF IInv, TypeOK, StepOK, ParseFrame, keyboard, protocol, ListenerAt
<1>2. CASE /\ ListenerAt("read", "caught")
           /\ UNCHANGED <<keyboard, receipt, protocol, reading, handler, far, toServer>>
  BY <1>2 DEF IInv, TypeOK, StepOK, keyboard, protocol, far, ListenerAt
<1>3. CASE /\ con # NoCon /\ reading' = con
           /\ UNCHANGED <<keyboard, receipt, protocol, lpc, handler, far, toServer>>
  BY <1>3 DEF IInv, TypeOK, StepOK, keyboard, protocol, far
<1> QED BY <1>1, <1>2, <1>3, DieKeeps DEF Dangling

LEMMA ServeConnectKeeps ==
    ASSUME IInv, NEW n \in Con, ServeConnect(n)
    PROVE  IInv'
<1>1. TypeOK'
  <2>1. /\ toServer' \in [Con -> Seq(Frame)]
        /\ UNCHANGED <<keyboard, receipt, protocol, listener, handler>>
    BY TakeTypes DEF IInv, ServeConnect
  <2>2. toClient' \in [Con -> Seq(Answer)]
    BY ReplyTypes, AnswerKinds DEF IInv, ServeConnect
  <2> QED BY <2>1, <2>2 DEF IInv, TypeOK, ServeConnect, keyboard, protocol, listener
<1>2. StepOK'
  BY DEF IInv, StepOK, ServeConnect, keyboard, protocol, Take
<1> QED BY <1>1, <1>2 DEF IInv

LEMMA ServeSubscribeKeeps ==
    ASSUME IInv, NEW n \in Con, NEW f \in Join, ServeSubscribe(n, f)
    PROVE  IInv'
<1>1. TypeOK'
  <2>1. /\ toServer' \in [Con -> Seq(Frame)]
        /\ UNCHANGED <<keyboard, receipt, protocol, listener, handler>>
    BY TakeTypes DEF IInv, ServeSubscribe
  <2>2. toClient' \in [Con -> Seq(Answer)]
    BY ReplyTypes, AnswerKinds, FrameKinds DEF IInv, ServeSubscribe
  <2>3. subs' \in [Con -> Seq(Topic)]
    BY FrameTopic DEF IInv, TypeOK, ServeSubscribe
  <2> QED BY <2>1, <2>2, <2>3 DEF IInv, TypeOK, ServeSubscribe, keyboard, protocol, listener
<1>2. StepOK'
  BY DEF IInv, StepOK, ServeSubscribe, keyboard, protocol, Take
<1> QED BY <1>1, <1>2 DEF IInv

LEMMA ServeUnsubscribeKeeps ==
    ASSUME IInv, NEW n \in Con, NEW f \in Exit, ServeUnsubscribe(n, f)
    PROVE  IInv'
<1>1. TypeOK'
  <2>1. /\ toServer' \in [Con -> Seq(Frame)]
        /\ UNCHANGED <<keyboard, receipt, protocol, listener, handler>>
    BY TakeTypes DEF IInv, ServeUnsubscribe
  <2>2. toClient' \in [Con -> Seq(Answer)]
    BY ReplyTypes, AnswerKinds, FrameKinds DEF IInv, ServeUnsubscribe
  <2>3. subs' \in [Con -> Seq(Topic)]
    BY DEF IInv, TypeOK, ServeUnsubscribe
  <2> QED BY <2>1, <2>2, <2>3 DEF IInv, TypeOK, ServeUnsubscribe, keyboard, protocol, listener
<1>2. StepOK'
  BY DEF IInv, StepOK, ServeUnsubscribe, keyboard, protocol, Take
<1> QED BY <1>1, <1>2 DEF IInv

LEMMA ServeSendKeeps ==
    ASSUME IInv, NEW n \in Con, NEW f \in Report, ServeSend(n, f)
    PROVE  IInv'
<1>1. TypeOK'
  <2>1. /\ toServer' \in [Con -> Seq(Frame)]
        /\ UNCHANGED <<keyboard, receipt, protocol, listener, handler>>
    BY TakeTypes DEF IInv, ServeSend
  <2>2. toClient' \in [Con -> Seq(Answer)]
    BY ReplyTypes, AnswerKinds DEF IInv, ServeSend
  <2> QED BY <2>1, <2>2 DEF IInv, TypeOK, ServeSend, keyboard, protocol, listener
<1>2. StepOK'
  BY DEF IInv, StepOK, ServeSend, keyboard, protocol, Take
<1> QED BY <1>1, <1>2 DEF IInv

LEMMA ServeDisconnectKeeps ==
    ASSUME IInv, NEW n \in Con, ServeDisconnect(n)
    PROVE  IInv'
<1>1. TypeOK'
  <2>1. /\ toServer' \in [Con -> Seq(Frame)]
        /\ UNCHANGED <<keyboard, receipt, protocol, listener, handler>>
    BY TakeTypes DEF IInv, ServeDisconnect
  <2>2. toClient' \in [Con -> Seq(Answer)]
    BY ReplyTypes, AnswerKinds, FrameKinds DEF IInv, ServeDisconnect
  <2> QED BY <2>1, <2>2 DEF IInv, TypeOK, ServeDisconnect, keyboard, protocol, listener
<1>2. StepOK'
  BY DEF IInv, StepOK, ServeDisconnect, keyboard, protocol, Take
<1> QED BY <1>1, <1>2 DEF IInv

LEMMA ServeErrorKeeps ==
    ASSUME IInv, NEW n \in Con, NEW f \in Frame, ServeError(n, f)
    PROVE  IInv'
<1>1. TypeOK'
  <2>1. /\ toServer' \in [Con -> Seq(Frame)]
        /\ UNCHANGED <<keyboard, receipt, protocol, listener, handler>>
    BY TakeTypes DEF IInv, ServeError
  <2>2. toClient' \in [Con -> Seq(Answer)]
    BY ReplyTypes, AnswerKinds DEF IInv, ServeError
  <2> QED BY <2>1, <2>2 DEF IInv, TypeOK, ServeError, keyboard, protocol, listener
<1>2. StepOK'
  BY DEF IInv, StepOK, ServeError, keyboard, protocol, Take
<1> QED BY <1>1, <1>2 DEF IInv

LEMMA ServeHangUpKeeps ==
    ASSUME IInv, NEW n \in Con, ServeHangUp(n)
    PROVE  IInv'
<1>1. TypeOK'
  BY DEF IInv, TypeOK, ServeHangUp, keyboard, protocol, listener
<1>2. StepOK'
  BY DEF IInv, StepOK, ServeHangUp, keyboard, protocol
<1> QED BY <1>1, <1>2 DEF IInv

LEMMA ServerDropsKeeps ==
    ASSUME IInv, NEW n \in Con, ServerDrops(n)
    PROVE  IInv'
<1>1. TypeOK'
  BY DEF IInv, TypeOK, ServerDrops, keyboard, protocol, listener
<1>2. StepOK'
  BY DEF IInv, StepOK, ServerDrops, keyboard, protocol
<1> QED BY <1>1, <1>2 DEF IInv

LEMMA FinishKeeps ==
    ASSUME IInv, NEW n \in Con, Finish(n)
    PROVE  IInv'
<1>1. TypeOK'
  BY DEF IInv, TypeOK, Finish, keyboard, protocol, listener
<1>2. StepOK'
  BY DEF IInv, StepOK, Finish, keyboard, protocol
<1> QED BY <1>1, <1>2 DEF IInv

-----------------------------------------------------------------------------
(* Every step keeps the invariant.                                         *)
LEMMA NextKeepsIInv == IInv /\ [Next]_vars => IInv'
<1> SUFFICES ASSUME IInv, [Next]_vars PROVE IInv'
  OBVIOUS
<1>1. CASE Keyboard \/ User
  BY <1>1, ClearFlagKeeps, DeleteKeeps, OpenKeeps, SetHandlerKeeps, SetConnectedKeeps, SendKeeps,
     SendFailsKeeps, LoginKeeps, CommandKeeps DEF Keyboard, User
<1>2. CASE Listener
  BY <1>2, ListenKeeps, ParseKeeps, ReadFailsKeeps, CaughtKeeps DEF Listener
<1>3. ASSUME NEW n \in Con, Server(n) \/ ServerDrops(n) PROVE IInv'
  BY <1>3, ServeConnectKeeps, ServeDisconnectKeeps, ServeHangUpKeeps, FinishKeeps,
     ServeSubscribeKeeps, ServeUnsubscribeKeeps, ServeSendKeeps, ServeErrorKeeps, ServerDropsKeeps
     DEF Server
<1>4. CASE UNCHANGED vars
  BY <1>4 DEF vars, keyboard, protocol, listener, far, IInv, TypeOK, StepOK
<1> QED BY <1>1, <1>2, <1>3, <1>4, DanglingKeeps DEF Next

(* The inductive invariant holds in every reachable state.                 *)
THEOREM ClientInvariant == Spec => []IInv
BY InitIInv, NextKeepsIInv, PTL DEF Spec

(* Type correctness, at whatever moment the user logs in.                  *)
THEOREM ClientTypeOK == Spec => []TypeOK
<1>1. IInv => TypeOK
  BY DEF IInv
<1> QED BY ClientInvariant, <1>1, PTL

-----------------------------------------------------------------------------
(* The counts of subscriptions, for any user.                              *)

(* The flag is on from the end of a login to the beginning of the next.    *)
PlaceOK ==
    /\ kpc \in {"delete", "connect", "setHandler", "setConnected"} => ~isConnected
    /\ kpc = "connect" => con = NoCon
    /\ isConnected => con # NoCon /\ ch = con
    /\ kpc = "send" => ch = con
    /\ con <= logins

(* The frame in hand has been recorded as a command, not yet sent.         *)
HandOK == out \in Exit => out[2] \in subscriptions

(* Connections that were not tried have seen nothing.                      *)
UntriedOK ==
    \A n \in Con : n > logins => server[n] = "none" /\ subs[n] = <<>> /\ toServer[n] = <<>>

CountOK ==
    /\ IsFiniteSet(subscriptions)
    /\ con # NoCon /\ server[con] = "open" =>
          Cardinality(subscriptions) + Pending(con, Exit)
            = Len(subs[con]) + Pending(con, Join) + (IF out \in Join THEN 1 ELSE 0)

CInv == IInv /\ PlaceOK /\ HandOK /\ UntriedOK /\ CountOK

LEMMA CountEmpty == \A F : Count(<<>>, F) = 0
<1> SUFFICES ASSUME NEW F PROVE Count(<<>>, F) = 0
  OBVIOUS
<1>1. {i \in DOMAIN <<>> : <<>>[i] \in F} = {}
  OBVIOUS
<1> QED BY <1>1, FS_EmptySet DEF Count

LEMMA CountFinite ==
    ASSUME NEW s \in Seq(Frame), NEW F
    PROVE  IsFiniteSet({i \in DOMAIN s : s[i] \in F}) /\ Count(s, F) \in Nat
<1>1. DOMAIN s = 1..Len(s) /\ Len(s) \in Int
  OBVIOUS
<1>2. IsFiniteSet(1..Len(s))
  BY <1>1, FS_Interval
<1>3. IsFiniteSet({i \in DOMAIN s : s[i] \in F})
  BY <1>1, <1>2, FS_Subset
<1> QED BY <1>3, FS_CardinalityType DEF Count

LEMMA CountNat ==
    ASSUME NEW s \in Seq(Frame), NEW F
    PROVE  Count(s, F) \in Nat
BY CountFinite

LEMMA CountAppend ==
    ASSUME NEW s \in Seq(Frame), NEW f \in Frame, NEW F
    PROVE  Count(Append(s, f), F) = Count(s, F) + (IF f \in F THEN 1 ELSE 0)
<1> DEFINE old == {i \in DOMAIN s : s[i] \in F}
           new == {i \in DOMAIN Append(s, f) : Append(s, f)[i] \in F}
           n == Len(s) + 1
<1>1. /\ DOMAIN s = 1..Len(s) /\ DOMAIN Append(s, f) = 1..n /\ Len(s) \in Nat
      /\ \A i \in 1..Len(s) : Append(s, f)[i] = s[i]
      /\ Append(s, f)[n] = f
  OBVIOUS
<1>2. new = IF f \in F THEN old \cup {n} ELSE old
  BY <1>1
<1>3. n \notin old
  BY <1>1
<1>4. IsFiniteSet(old) /\ Cardinality(old) \in Nat
  BY CountFinite DEF Count
<1>5. Cardinality(old \cup {n}) = Cardinality(old) + 1
  BY <1>3, <1>4, FS_AddElement
<1> HIDE DEF old, new
<1>6. Cardinality(new) = Cardinality(old) + (IF f \in F THEN 1 ELSE 0)
  BY <1>2, <1>4, <1>5
<1> QED BY <1>6 DEF Count, old, new

LEMMA CountTail ==
    ASSUME NEW s \in Seq(Frame), s # <<>>, NEW F
    PROVE  Count(s, F) = Count(Tail(s), F) + (IF Head(s) \in F THEN 1 ELSE 0)
<1> DEFINE old == {i \in DOMAIN s : s[i] \in F}
           new == {i \in DOMAIN Tail(s) : Tail(s)[i] \in F}
           back == [i \in old \ {1} |-> i - 1]
<1>1. /\ DOMAIN s = 1..Len(s) /\ DOMAIN Tail(s) = 1..Len(s) - 1 /\ Len(s) \in Nat \ {0}
      /\ \A i \in 1..Len(s) - 1 : Tail(s)[i] = s[i + 1]
      /\ Head(s) = s[1]
  OBVIOUS
<1>2. IsFiniteSet(old) /\ IsFiniteSet(old \ {1}) /\ Cardinality(old) \in Nat
  <2>1. IsFiniteSet(old)
    BY CountFinite
  <2> HIDE DEF old
  <2> QED BY <2>1, FS_RemoveElement, FS_CardinalityType
<1>3. Cardinality(new) = Cardinality(old \ {1})
  <2>1. back \in [old \ {1} -> new]
    BY <1>1
  <2>2. \A i, j \in old \ {1} : back[i] = back[j] => i = j
    BY <1>1
  <2>3. \A k \in new : \E i \in old \ {1} : back[i] = k
    <3> SUFFICES ASSUME NEW k \in new PROVE k + 1 \in old \ {1} /\ back[k + 1] = k
      OBVIOUS
    <3> QED BY <1>1
  <2>4. back \in Bijection(old \ {1}, new)
    BY <2>1, <2>2, <2>3 DEF Bijection, Injection, Surjection, IsInjective
  <2> HIDE DEF old, new, back
  <2>5. ExistsBijection(old \ {1}, new)
    BY <2>4 DEF ExistsBijection
  <2> QED BY <1>2, <2>5, FS_Bijection
<1>4. Cardinality(old \ {1}) = IF 1 \in old THEN Cardinality(old) - 1 ELSE Cardinality(old)
  BY <1>2, FS_RemoveElement
<1>5. 1 \in old <=> Head(s) \in F
  BY <1>1
<1> HIDE DEF old, new
<1>6. Cardinality(old) = Cardinality(new) + (IF Head(s) \in F THEN 1 ELSE 0)
  BY <1>2, <1>3, <1>4, <1>5
<1> QED BY <1>6 DEF Count, old, new

(* The kinds of frames do not overlap.                                     *)
LEMMA FramesDiffer ==
    /\ Join \cap Exit = {}
    /\ Connect \notin Join \cup Exit /\ Logout \notin Join \cup Exit
    /\ Report \cap (Join \cup Exit) = {}
    /\ NoAction \notin Join \cup Exit
BY DEF Join, Exit, Connect, Logout, Report, NoAction

-----------------------------------------------------------------------------
LEMMA InitCInv == Init => CInv
<1> SUFFICES ASSUME Init PROVE CInv
  OBVIOUS
<1>1. PlaceOK /\ HandOK
  BY FramesDiffer DEF Init, PlaceOK, HandOK, NoCon
<1>2. UntriedOK
  BY DEF Init, UntriedOK
<1>3. CountOK
  BY FS_EmptySet DEF Init, CountOK
<1> QED BY <1>1, <1>2, <1>3, InitIInv DEF CInv

(* The server's steps do not touch the client's own variables.             *)
LEMMA FarKeeps ==
    ASSUME PlaceOK, HandOK, UNCHANGED <<keyboard, receipt, protocol, listener>>
    PROVE  PlaceOK' /\ HandOK'
BY DEF PlaceOK, HandOK, keyboard, protocol, listener

LEMMA PlaceKeeps ==
    ASSUME CInv, [Next]_vars
    PROVE  PlaceOK' /\ HandOK'
<1>a. TypeOK /\ PlaceOK /\ HandOK
  BY DEF CInv, IInv
<1>1. CASE Keyboard \/ User
  <2>1. CASE Login
    BY <1>a, <2>1 DEF TypeOK, PlaceOK, HandOK, Login, KeyboardAt, protocol
  <2>2. CASE ClearFlag
    BY <1>a, <2>2 DEF TypeOK, PlaceOK, HandOK, ClearFlag, KeyboardAt
  <2>3. CASE Delete
    BY <1>a, <2>3 DEF TypeOK, PlaceOK, HandOK, Delete, KeyboardAt, protocol, NoCon
  <2>4. CASE Open
    <3>1. out = NoAction /\ UNCHANGED out
      BY <1>a, <2>4 DEF TypeOK, Open, KeyboardAt
    <3>2. PlaceOK'
      BY <1>a, <2>4 DEF TypeOK, PlaceOK, Open, KeyboardAt, protocol, NoCon
    <3> QED BY <3>1, <3>2, FramesDiffer DEF HandOK
  <2>5. CASE SetHandler
    BY <1>a, <2>5 DEF TypeOK, PlaceOK, HandOK, SetHandler, KeyboardAt
  <2>6. CASE SetConnected
    <3>1. con # NoCon /\ ch = con
      BY <2>6 DEF CInv, IInv, StepOK, SetConnected, KeyboardAt
    <3> QED BY <1>a, <2>6, <3>1, FramesDiffer DEF TypeOK, PlaceOK, HandOK, SetConnected, KeyboardAt
  <2>7. CASE Send
    BY <1>a, <2>7, FramesDiffer DEF TypeOK, PlaceOK, HandOK, Send, KeyboardAt, protocol
  <2>8. CASE SendFails
    BY <1>a, <2>8, FramesDiffer DEF TypeOK, PlaceOK, HandOK, SendFails, KeyboardAt, protocol
  <2>9. ASSUME NEW f \in Frame \ {Connect}, Command(f) PROVE PlaceOK' /\ HandOK'
    <3>1. PlaceOK'
      BY <1>a, <2>9 DEF TypeOK, PlaceOK, Command, KeyboardAt, protocol
    <3>2. f \in Exit => f[2] \in subscriptions
      BY <2>9, FramesDiffer DEF Command, Typed
    <3> QED BY <2>9, <3>1, <3>2, FramesDiffer DEF HandOK, Command
  <2> QED BY <1>1, <2>1, <2>2, <2>3, <2>4, <2>5, <2>6, <2>7, <2>8, <2>9 DEF Keyboard, User
<1>2. CASE Listener
  BY <1>a, <1>2 DEF TypeOK, PlaceOK, HandOK, Listener, Listen, Parse, ParseFrame, ReadFails, Caught,
     keyboard, protocol, ListenerAt
<1>5. CASE Dangling
  <2>1. CASE Die
    BY <1>a, <2>1, FramesDiffer DEF TypeOK, PlaceOK, HandOK, Die, NoCon
  <2>2. CASE UNCHANGED <<keyboard, protocol>>
    BY <1>a, <2>2 DEF PlaceOK, HandOK, keyboard, protocol
  <2> QED BY <1>5, <2>1, <2>2 DEF Dangling, ParseFrame
<1>3. ASSUME NEW n \in Con, Server(n) \/ ServerDrops(n) PROVE PlaceOK' /\ HandOK'
  <2>1. UNCHANGED <<keyboard, receipt, protocol, listener>>
    BY <1>3 DEF Server, ServerDrops, ServeConnect, ServeDisconnect, ServeHangUp, Finish,
       ServeSubscribe, ServeUnsubscribe, ServeSend, ServeError, Take
  <2> QED BY <1>a, <2>1, FarKeeps
<1>4. CASE UNCHANGED vars
  BY <1>a, <1>4, FarKeeps DEF vars
<1> QED BY <1>1, <1>2, <1>3, <1>4, <1>5 DEF Next

LEMMA UntriedKeeps ==
    ASSUME CInv, [Next]_vars
    PROVE  UntriedOK'
<1>a. TypeOK /\ UntriedOK /\ PlaceOK
  BY DEF CInv, IInv
<1>1. CASE Open
  <2>1. logins \in Nat /\ logins' = logins + 1 /\ \A n \in Con : n \in Nat
    BY <1>a, <1>1, ClientAssumption DEF TypeOK, Open, Con
  <2>2. ASSUME NEW n \in Con, n > logins' PROVE n > logins /\ server'[n] = server[n]
    <3>1. n > logins /\ n # logins + 1
      BY <2>1, <2>2
    <3> QED BY <1>a, <1>1, <3>1 DEF TypeOK, Open
  <2>3. UNCHANGED <<subs, toServer>>
    BY <1>1 DEF Open
  <2> QED BY <1>a, <2>2, <2>3 DEF UntriedOK
<1>2. CASE Send
  <2>1. con # NoCon /\ ch = con /\ con <= logins
    BY <1>a, <1>2 DEF CInv, IInv, StepOK, PlaceOK, Send, KeyboardAt
  <2>2. \A n \in Con : n > logins => n # ch
    BY <1>a, <2>1 DEF TypeOK, Con, NoCon
  <2>3. \A n \in Con : n > logins => toServer'[n] = toServer[n]
    BY <1>a, <1>2, <2>2 DEF TypeOK, Send
  <2> QED BY <1>a, <1>2, <2>3 DEF UntriedOK, Send, far
<1>3. ASSUME NEW n \in Con, Server(n) \/ ServerDrops(n) PROVE UntriedOK'
  <2>1. server[n] # "none"
    BY <1>3 DEF Server, ServerDrops, ServeConnect, ServeDisconnect, ServeHangUp, Finish,
       ServeSubscribe, ServeUnsubscribe, ServeSend, ServeError, Take
  <2>2. /\ \A k \in Con \ {n} : /\ server'[k] = server[k] /\ subs'[k] = subs[k]
                                /\ toServer'[k] = toServer[k]
        /\ UNCHANGED logins
    BY <1>a, <1>3 DEF TypeOK, Server, ServerDrops, ServeConnect, ServeDisconnect, ServeHangUp, Finish,
       ServeSubscribe, ServeUnsubscribe, ServeSend, ServeError, Take, keyboard
  <2> QED BY <1>a, <2>1, <2>2 DEF UntriedOK
<1>4. ASSUME UNCHANGED <<logins, server, subs, toServer>> PROVE UntriedOK'
  BY <1>a, <1>4 DEF UntriedOK
<1>5. CASE \/ ClearFlag \/ Delete \/ SetHandler \/ SetConnected \/ SendFails \/ User
           \/ Listener \/ Dangling \/ UNCHANGED vars
  BY <1>4, <1>5 DEF ClearFlag, Delete, SetHandler, SetConnected, SendFails, User, Login, Command,
     Listener, Listen, Parse, ParseFrame, ReadFails, Caught, Dangling, Die, vars, keyboard, far
<1> QED BY <1>1, <1>2, <1>3, <1>5 DEF Next, Keyboard

-----------------------------------------------------------------------------
LEMMA CountSame ==
    ASSUME CountOK, UNCHANGED <<subscriptions, con, subs, toServer>>,
           (out' \in Join) <=> (out \in Join),
           con # NoCon /\ server'[con] = "open" => server[con] = "open"
    PROVE  CountOK'
BY DEF CountOK, Pending

LEMMA OpenCounts ==
    ASSUME CInv, Open
    PROVE  CountOK'
<1>1. out = NoAction /\ UNCHANGED <<out, subs, toServer>> /\ subscriptions' = {}
  BY DEF CInv, IInv, TypeOK, Open, KeyboardAt
<1>2. IsFiniteSet(subscriptions') /\ Cardinality(subscriptions') = 0
  BY <1>1, FS_EmptySet
<1>3. CASE con' = logins + 1
  <2>1. logins + 1 \in Con
    BY ClientAssumption DEF CInv, IInv, TypeOK, StepOK, Open, KeyboardAt, Con
  <2>a. logins + 1 > logins
    BY DEF CInv, IInv, TypeOK
  <2>2. subs[logins + 1] = <<>> /\ toServer[logins + 1] = <<>>
    BY <2>1, <2>a DEF CInv, UntriedOK
  <2>3. Pending(con, Exit)' = 0 /\ Pending(con, Join)' = 0
    BY <1>1, <1>3, <2>2, CountEmpty DEF Pending
  <2>4. Len(subs'[con']) = 0
    BY <1>1, <1>3, <2>2
  <2> QED BY <1>1, <1>2, <2>3, <2>4, FramesDiffer DEF CountOK
<1>4. CASE UNCHANGED con
  <2>1. con = NoCon
    BY DEF CInv, PlaceOK, Open, KeyboardAt
  <2> QED BY <1>2, <1>4, <2>1 DEF CountOK
<1> QED BY <1>3, <1>4 DEF Open

LEMMA CommandCounts ==
    ASSUME CInv, NEW f \in Frame \ {Connect}, Command(f)
    PROVE  CountOK'
<1>1. /\ out = NoAction /\ out' = f
      /\ UNCHANGED <<con, subs, toServer, server>>
      /\ subscriptions' = IF f \in Join THEN subscriptions \cup {f[2]} ELSE subscriptions
  BY DEF CInv, IInv, TypeOK, Command, KeyboardAt, far
<1>2. CountOK /\ out \notin Join
  BY <1>1, FramesDiffer DEF CInv
<1>3. CASE f \notin Join
  BY <1>1, <1>2, <1>3, CountSame
<1>4. CASE f \in Join
  <2>1. f[2] \notin subscriptions
    <3>1. Typed(f)
      BY DEF Command
    <3>2. f \notin Exit
      BY <1>4, FramesDiffer
    <3> QED BY <1>4, <3>1, <3>2 DEF Typed
  <2>2. IsFiniteSet(subscriptions) /\ Cardinality(subscriptions) \in Nat
    BY <1>2, FS_CardinalityType DEF CountOK
  <2>3. IsFiniteSet(subscriptions') /\ Cardinality(subscriptions') = Cardinality(subscriptions) + 1
    BY <1>1, <1>4, <2>1, <2>2, FS_AddElement
  <2>4. ASSUME con # NoCon, server[con] = "open"
        PROVE  Cardinality(subscriptions') + Pending(con, Exit) = Len(subs[con]) + Pending(con, Join) + 1
    <3>1. con \in Con
      BY <2>4 DEF CInv, IInv, TypeOK
    <3>a. toServer[con] \in Seq(Frame) /\ subs[con] \in Seq(Topic)
      BY <3>1 DEF CInv, IInv, TypeOK
    <3>2. Pending(con, Exit) \in Nat /\ Pending(con, Join) \in Nat /\ Len(subs[con]) \in Nat
      BY <3>a, CountNat DEF Pending
    <3>3. Cardinality(subscriptions) + Pending(con, Exit) = Len(subs[con]) + Pending(con, Join)
      BY <1>2, <2>4, <3>2 DEF CountOK
    <3> QED BY <2>2, <2>3, <3>2, <3>3
  <2>5. Pending(con, Exit)' = Pending(con, Exit) /\ Pending(con, Join)' = Pending(con, Join)
    BY <1>1 DEF Pending
  <2> QED BY <1>1, <1>4, <2>3, <2>4, <2>5 DEF CountOK
<1> QED BY <1>3, <1>4

LEMMA SendCounts ==
    ASSUME CInv, Send
    PROVE  CountOK'
<1>1. /\ out \in Frame /\ out' = NoAction /\ ch = con /\ con \in Con
      /\ UNCHANGED <<con, subs, server>>
      /\ subscriptions' = IF out \in Exit THEN subscriptions \ {out[2]} ELSE subscriptions
  BY DEF CInv, IInv, TypeOK, StepOK, PlaceOK, Send, KeyboardAt, Forget, far
<1>2. IsFiniteSet(subscriptions) /\ Cardinality(subscriptions) \in Nat
  BY FS_CardinalityType DEF CInv, CountOK
<1>3. /\ IsFiniteSet(subscriptions')
      /\ Cardinality(subscriptions) = Cardinality(subscriptions') + (IF out \in Exit THEN 1 ELSE 0)
      /\ Cardinality(subscriptions') \in Nat
  <2>1. CASE out \in Exit
    <3>1. out[2] \in subscriptions
      BY <2>1 DEF CInv, HandOK
    <3>2. /\ IsFiniteSet(subscriptions \ {out[2]})
          /\ Cardinality(subscriptions \ {out[2]}) = Cardinality(subscriptions) - 1
      BY <1>2, <3>1, FS_RemoveElement
    <3>3. Cardinality(subscriptions \ {out[2]}) \in Nat
      BY <3>2, FS_CardinalityType
    <3> QED BY <1>1, <1>2, <2>1, <3>2, <3>3
  <2>2. CASE out \notin Exit
    BY <1>1, <1>2, <2>2
  <2> QED BY <2>1, <2>2
<1>4. ASSUME server[con] = "open"
      PROVE  Cardinality(subscriptions') + Pending(con, Exit)' = Len(subs[con]) + Pending(con, Join)'
  <2>1. toServer[con] \in Seq(Frame) /\ toServer'[con] = Append(toServer[con], out)
    BY <1>1, <1>4 DEF CInv, IInv, TypeOK, Send
  <2>2. /\ Pending(con, Exit)' = Pending(con, Exit) + (IF out \in Exit THEN 1 ELSE 0)
        /\ Pending(con, Join)' = Pending(con, Join) + (IF out \in Join THEN 1 ELSE 0)
    BY <1>1, <2>1, CountAppend DEF Pending
  <2>a. subs[con] \in Seq(Topic)
    BY <1>1 DEF CInv, IInv, TypeOK
  <2>3. Pending(con, Exit) \in Nat /\ Pending(con, Join) \in Nat /\ Len(subs[con]) \in Nat
    BY <2>a, <2>1, CountNat DEF Pending
  <2>4. Cardinality(subscriptions) + Pending(con, Exit)
          = Len(subs[con]) + Pending(con, Join) + (IF out \in Join THEN 1 ELSE 0)
    BY <1>1, <1>4 DEF CInv, CountOK, Con, NoCon
  <2>5. out \in Exit => out \notin Join
    BY FramesDiffer
  <2>6. CASE out \in Exit
    BY <1>2, <1>3, <2>2, <2>3, <2>4, <2>5, <2>6
  <2>7. CASE out \notin Exit
    BY <1>2, <1>3, <2>2, <2>3, <2>4, <2>7
  <2> QED BY <2>6, <2>7
<1>5. server[con] = "open" => Len(subs[con]) + Pending(con, Join)' \in Nat
  <2>1. ASSUME server[con] = "open" PROVE toServer'[con] \in Seq(Frame) /\ subs[con] \in Seq(Topic)
    BY <1>1, <2>1 DEF CInv, IInv, TypeOK, Send
  <2>2. ASSUME server[con] = "open" PROVE Pending(con, Join)' \in Nat
    BY <1>1, <2>1, <2>2, CountNat DEF Pending
  <2>3. ASSUME server[con] = "open" PROVE Len(subs[con]) \in Nat
    BY <2>1, <2>3
  <2> QED BY <2>2, <2>3
<1>6. out' \notin Join /\ con' = con /\ subs' = subs /\ server' = server
  BY <1>1, FramesDiffer
<1> QED BY <1>3, <1>4, <1>5, <1>6 DEF CountOK

(* The server takes a frame, and changes its list accordingly.             *)
LEMMA ServeCounts ==
    ASSUME CInv, NEW n \in Con, NEW f \in Frame, Take(n, f),
           \A k \in Con \ {n} : server'[k] = server[k] /\ subs'[k] = subs[k],
           \/ server'[n] # "open"
           \/ /\ f \notin Join \cup Exit
              /\ subs'[n] = subs[n]
           \/ f \in Join /\ Len(subs'[n]) = Len(subs[n]) + 1
           \/ f \in Exit /\ Len(subs'[n]) = Len(subs[n]) - 1
    PROVE  CountOK'
<1>1. /\ UNCHANGED <<subscriptions, con, out>> /\ IsFiniteSet(subscriptions)
      /\ toServer' = [toServer EXCEPT ![n] = Tail(@)]
      /\ server[n] = "open" /\ toServer[n] # <<>> /\ Head(toServer[n]) = f
  BY DEF CInv, CountOK, Take, keyboard
<1>2. CASE con # n
  <2>1. con # NoCon => toServer'[con] = toServer[con] /\ con \in Con \ {n}
    BY <1>1, <1>2 DEF CInv, IInv, TypeOK
  <2>2. con # NoCon => /\ Pending(con, Exit)' = Pending(con, Exit)
                       /\ Pending(con, Join)' = Pending(con, Join)
    BY <1>1, <2>1 DEF Pending
  <2> QED BY <1>1, <2>1, <2>2 DEF CInv, CountOK
<1>3. CASE con = n /\ server'[n] # "open"
  BY <1>1, <1>3 DEF CountOK
<1>4. CASE con = n /\ server'[n] = "open"
  <2>1. toServer[n] \in Seq(Frame) /\ toServer'[n] = Tail(toServer[n]) /\ Tail(toServer[n]) \in Seq(Frame)
    BY <1>1 DEF CInv, IInv, TypeOK
  <2>2. /\ Pending(n, Exit) = Pending(n, Exit)' + (IF f \in Exit THEN 1 ELSE 0)
        /\ Pending(n, Join) = Pending(n, Join)' + (IF f \in Join THEN 1 ELSE 0)
    BY <1>1, <2>1, CountTail DEF Pending
  <2>a. Pending(n, Exit)' \in Nat /\ Pending(n, Join)' \in Nat
    BY <2>1, CountNat DEF Pending
  <2>3. /\ Pending(n, Exit)' \in Nat /\ Pending(n, Join)' \in Nat
        /\ Len(subs[n]) \in Nat /\ Cardinality(subscriptions) \in Nat
    BY <1>1, <2>a, FS_CardinalityType DEF CInv, IInv, TypeOK
  <2>4. Cardinality(subscriptions) + Pending(n, Exit)
          = Len(subs[n]) + Pending(n, Join) + (IF out \in Join THEN 1 ELSE 0)
    BY <1>1, <1>4 DEF CInv, CountOK, Con, NoCon
  <2>5. f \in Exit => f \notin Join
    BY FramesDiffer
  <2>6. Cardinality(subscriptions) + Pending(n, Exit)'
          = Len(subs'[n]) + Pending(n, Join)' + (IF out \in Join THEN 1 ELSE 0)
    BY <1>4, <2>2, <2>3, <2>4, <2>5, SMTT(30)
  <2> QED BY <1>1, <1>4, <2>6 DEF CountOK
<1> QED BY <1>2, <1>3, <1>4

LEMMA CountKeeps ==
    ASSUME CInv, [Next]_vars
    PROVE  CountOK'
<1>a. TypeOK /\ PlaceOK /\ CountOK
  BY DEF CInv, IInv
<1>1. CASE \/ Login \/ ClearFlag \/ SetHandler \/ SetConnected \/ SendFails \/ Listener
           \/ UNCHANGED vars
  <2>1. UNCHANGED <<subscriptions, con, subs, toServer, server>>
    BY <1>1 DEF Login, ClearFlag, SetHandler, SetConnected, SendFails, Listener, Listen, Parse,
       ParseFrame, ReadFails, Caught, vars, keyboard, far
  <2>2. CASE ~SendFails
    <3>1. out' \in Join <=> out \in Join
      BY <1>1, <1>a, <2>2, FramesDiffer DEF TypeOK, Login, ClearFlag, SetHandler, SetConnected, Listener,
         Listen, Parse, ParseFrame, ReadFails, Caught, vars, keyboard, KeyboardAt
    <3> QED BY <1>a, <2>1, <3>1, CountSame
  <2>3. CASE SendFails
    <3>1. ch = con /\ server[ch] = "closed"
      BY <1>a, <2>3 DEF PlaceOK, SendFails, KeyboardAt
    <3> QED BY <1>a, <2>1, <3>1 DEF CountOK
  <2> QED BY <2>2, <2>3
<1>2. CASE Delete
  BY <1>a, <1>2 DEF CountOK, Delete
<1>3. ASSUME NEW n \in Con, ServeHangUp(n) \/ ServerDrops(n) PROVE CountOK'
  <2>1. /\ UNCHANGED <<subscriptions, con, subs, toServer, out>>
        /\ server' = [server EXCEPT ![n] = "ending"]
    BY <1>3 DEF ServeHangUp, ServerDrops, keyboard
  <2>2. con # NoCon /\ server'[con] = "open" => server[con] = "open"
    BY <1>a, <2>1 DEF TypeOK
  <2> QED BY <1>a, <2>1, <2>2, CountSame
<1>4. ASSUME NEW n \in Con, Finish(n) PROVE CountOK'
  <2>1. con # NoCon /\ server'[con] = "open" =>
           con # n /\ server[con] = "open" /\ toServer'[con] = toServer[con] /\ subs'[con] = subs[con]
    BY <1>a, <1>4 DEF TypeOK, Finish, keyboard
  <2>2. UNCHANGED <<subscriptions, con, out>>
    BY <1>4 DEF Finish, keyboard
  <2>3. con # NoCon /\ server'[con] = "open" => /\ Pending(con, Exit)' = Pending(con, Exit)
                                               /\ Pending(con, Join)' = Pending(con, Join)
    BY <2>1, <2>2 DEF Pending
  <2> QED BY <1>a, <2>1, <2>2, <2>3 DEF CountOK
<1>5. ASSUME NEW n \in Con, ServeConnect(n) \/ ServeDisconnect(n) PROVE CountOK'
  <2>1. PICK f \in {Connect, Logout} : Take(n, f) /\ UNCHANGED subs
    BY <1>5 DEF ServeConnect, ServeDisconnect
  <2>2. \A k \in Con \ {n} : server'[k] = server[k]
    BY <1>a, <1>5 DEF TypeOK, ServeConnect, ServeDisconnect
  <2> QED BY <2>1, <2>2, ServeCounts, FramesDiffer, FrameKinds
<1>6. ASSUME NEW n \in Con, NEW f \in Join, ServeSubscribe(n, f) PROVE CountOK'
  <2>1. subs[n] \in Seq(Topic) /\ f[2] \in Topic
    BY <1>a, FrameTopic DEF TypeOK
  <2>2. Len(subs'[n]) = Len(subs[n]) + 1 /\ \A k \in Con \ {n} : subs'[k] = subs[k]
    BY <1>a, <1>6, <2>1 DEF TypeOK, ServeSubscribe
  <2> QED BY <1>6, <2>2, ServeCounts, FrameKinds DEF ServeSubscribe
<1>7. ASSUME NEW n \in Con, NEW f \in Exit, ServeUnsubscribe(n, f) PROVE CountOK'
  <2>1. subs[n] \in Seq(Topic) /\ subs[n] # <<>>
    BY <1>a, <1>7 DEF TypeOK, ServeUnsubscribe
  <2>2. Len(subs'[n]) = Len(subs[n]) - 1 /\ \A k \in Con \ {n} : subs'[k] = subs[k]
    BY <1>a, <1>7, <2>1 DEF TypeOK, ServeUnsubscribe
  <2> QED BY <1>7, <2>2, ServeCounts, FrameKinds DEF ServeUnsubscribe
<1>8. ASSUME NEW n \in Con, NEW f \in Report, ServeSend(n, f) PROVE CountOK'
  BY <1>8, ServeCounts, FramesDiffer DEF ServeSend, Frame
<1>9. ASSUME NEW n \in Con, NEW f \in Frame, ServeError(n, f) PROVE CountOK'
  <2>1. server'[n] # "open" /\ \A k \in Con \ {n} : server'[k] = server[k]
    BY <1>a, <1>9 DEF TypeOK, ServeError
  <2> QED BY <1>9, <2>1, ServeCounts DEF ServeError
<1>10. CASE Dangling
  <2>1. CASE Die
    BY <2>1, FS_EmptySet DEF CountOK, Die
  <2>2. CASE UNCHANGED <<keyboard, server, subs, toServer>>
    BY <1>a, <2>2, CountSame DEF keyboard
  <2> QED BY <1>10, <2>1, <2>2 DEF Dangling, ParseFrame, far
<1> QED BY <1>1, <1>2, <1>3, <1>4, <1>5, <1>6, <1>7, <1>8, <1>9, <1>10, OpenCounts, SendCounts,
           CommandCounts DEF Next, Keyboard, User, Server

LEMMA NextKeepsCInv == CInv /\ [Next]_vars => CInv'
BY NextKeepsIInv, PlaceKeeps, UntriedKeeps, CountKeeps DEF CInv

(* What makes the counts agree holds in every behaviour, for any user.     *)
THEOREM ClientCounts == Spec => []CInv
BY InitCInv, NextKeepsCInv, PTL DEF Spec

(* Client and server count the same number of subscriptions, also when the *)
(* user logs in over a live connection, and for any number of channels.    *)
THEOREM ClientCountsAgree == Spec => []CountsAgree
<1>1. ASSUME CInv PROVE CountsAgree
  <2> SUFFICES ASSUME kpc = "prompt", con # NoCon, server[con] = "open"
               PROVE  Cardinality(subscriptions) + Pending(con, Exit)
                        = Len(subs[con]) + Pending(con, Join)
    BY DEF CountsAgree
  <2>1. out \notin Join /\ con \in Con
    BY <1>1, FramesDiffer DEF CInv, IInv, TypeOK
  <2>a. toServer[con] \in Seq(Frame) /\ subs[con] \in Seq(Topic)
    BY <1>1, <2>1 DEF CInv, IInv, TypeOK
  <2>2. Pending(con, Join) \in Nat /\ Len(subs[con]) \in Nat
    BY <2>a, CountNat DEF Pending
  <2> QED BY <1>1, <2>1, <2>2 DEF CInv, CountOK
<1> QED BY ClientCounts, <1>1, PTL
=============================================================================
