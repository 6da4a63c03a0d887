---------------------------- MODULE BrokerProofs ----------------------------
(***************************************************************************)
(* For any connections, channels and bounds, and however the threads of    *)
(* the connections interleave: the types of the broker's variables, the    *)
(* agreement of the two indexes of subscriptions, what an orderly end      *)
(* leaves behind, and the order of one publisher's messages.               *)
(*                                                                         *)
(* The entry of subDict for a connection is its own thread's, so each part *)
(* of the invariant speaks of one thread and of what the others can do to  *)
(* it: AddingOK and OneEach of SUBSCRIBE, ClosingOK of the sweep of        *)
(* disconnectUser, which must hold all that is still listed, SendingOK of  *)
(* a message, which is newer than whatever its publisher sent before, and  *)
(* LeavingOK of a handler that a publisher has got and not yet used.       *)
(***************************************************************************)
EXTENDS Broker, WellFoundedInduction, TLAPS

(* What a SUBSCRIBE is adding: one subscription, to a channel the          *)
(* connection has none for yet.                                            *)
AddingOK ==
    \A c \in Conn : pc[c] \in Adding => \A s \in todo[c] :
        s.conId = c /\ todo[c] = {s} /\ ~Subscribed(c, s.channel)

OneEach ==
    \A c \in Conn : \A s, t \in subDict[c] : s.channel = t.channel => s = t

(* handleDisconnect took the connection out of the map, and goes over all  *)
(* the subscriptions that are left.                                        *)
ClosingOK ==
    \A c \in Conn :
        /\ pc[c] \in Adding \cup Sending \cup {"new", "idle", "reply"} => closing[c] = "no"
        /\ pc[c] \in {"disconnect", "logout"} => closing[c] # "no"
        /\ pc[c] \in Removing \cup {"logout"} /\ closing[c] # "no" =>
              c \notin connections /\ subDict[c] \subseteq todo[c]
        /\ pc[c] \in Removing \ {"listRemove"} => Current(c) \notin subDict[c]
        /\ pc[c] = "done" => c \notin known \cup connections \cup named /\ subDict[c] = {}

(* A publisher holds one message, newer than what its receivers have.      *)
SendingOK ==
    \A c \in Conn : \A m \in msg[c] :
        /\ m.by = c /\ m.id <= idGen /\ msg[c] = {m}
        /\ pc[c] = "snapshot" => \A d \in Conn : \A i \in 1..Len(inbox[d]) :
              inbox[d][i].by = c => inbox[d][i].id < m.id
        /\ pc[c] = "deliver" => \A s \in todo[c] :
              /\ \A t \in todo[c] : s.conId = t.conId => s = t
              /\ \A i \in 1..Len(inbox[s.conId]) :
                    inbox[s.conId][i].by = c => inbox[s.conId][i].id < m.id

InboxOK == \A c \in Conn : \A i \in 1..Len(inbox[c]) : inbox[c][i].id <= idGen

(* A handler was got while its connection was in the map, so the message   *)
(* it is got for is not newer than the connection's leaving.               *)
LeavingOK ==
    /\ \A c \in Conn : fetched[c] # {} => pc[c] = "deliver" /\ fetched[c] \subseteq todo[c]
    /\ \A c \in Conn : leftAt[c] # {} => c \notin connections /\ pc[c] # "new"
    /\ \A c \in Conn : \A s \in fetched[c], m \in msg[c] : \A n \in leftAt[s.conId] : m.id <= n
    /\ NothingNewAfterLeaving

IndexOK == ListedIsOwned /\ OneEach

ThreadOK == AddingOK /\ ClosingOK

OrderOK == SendingOK /\ InboxOK /\ PublisherOrder

Inner == TypeOK /\ IndexOK /\ ThreadOK /\ OrderOK

IInv == Inner /\ LeavingOK

-----------------------------------------------------------------------------
(* The first of some subscriptions is one of them.                         *)
LEMMA FirstIn ==
    ASSUME NEW S \in SUBSET Subscription, S # {}
    PROVE  First(S) \in S
<1>1. DEFINE T == {s.n : s \in S}
<1>2. T \subseteq Nat /\ T # {}
  BY BrokerAssumption DEF Subscription
<1>3. PICK k \in T : \A l \in T : ~ (<<l, k>> \in OpToRel(<, Nat))
  BY <1>2, WFMin, NatLessThanWellFounded
<1>4. \A l \in T : k <= l
  <2> SUFFICES ASSUME NEW l \in T PROVE k <= l
    OBVIOUS
  <2>1. ~ (l < k)
    BY <1>2, <1>3 DEF OpToRel
  <2> QED BY <1>2, <2>1
<1>5. \E s \in S : \A t \in S : s.n <= t.n
  BY <1>4
<1> QED BY <1>5 DEF First

(* The first of the only one is that one.                                  *)
LEMMA FirstOfOne ==
    ASSUME NEW s \in Subscription
    PROVE  First({s}) = s
BY BrokerAssumption DEF First, Subscription

LEMMA CurrentIn ==
    ASSUME TypeOK, NEW c \in Conn, pc[c] \in Removing \cup Adding \cup {"deliver"}
    PROVE  Current(c) \in todo[c] /\ Current(c) \in Subscription /\ Current(c).channel \in Channel
<1>1. todo[c] # {} /\ todo[c] \in SUBSET Subscription
  BY DEF TypeOK
<1> QED BY <1>1, FirstIn DEF Current, Subscription

LEMMA PublishingIn ==
    ASSUME TypeOK, NEW c \in Conn, pc[c] \in Sending
    PROVE  Publishing(c) \in msg[c] /\ Publishing(c) \in Message /\ Publishing(c).channel \in Channel
<1>1. msg[c] # {} /\ msg[c] \in SUBSET Message
  BY DEF TypeOK
<1>2. Publishing(c) \in msg[c]
  BY <1>1 DEF Publishing
<1> QED BY <1>1, <1>2 DEF Message

(* A step that hands no message over and numbers none.                     *)
LEMMA QuietKeeps ==
    ASSUME TypeOK, OrderOK, UNCHANGED <<idGen, inbox>>,
           \A d \in Conn : \/ msg'[d] = {}
                            \/ /\ msg'[d] = msg[d]
                               /\ pc'[d] \in {"snapshot", "deliver"} =>
                                      pc'[d] = pc[d] /\ todo'[d] \subseteq todo[d]
    PROVE  OrderOK'
<1>1. SendingOK'
  BY DEF OrderOK, SendingOK
<1>2. InboxOK' /\ PublisherOrder'
  BY DEF OrderOK, InboxOK, PublisherOrder
<1> QED BY <1>1, <1>2 DEF OrderOK

(* What follows the removal of a subscription.                             *)
LEMMA AdvanceOutcome ==
    ASSUME Inner, NEW c \in Conn, pc[c] \in Removing, NEW toDrop \in BOOLEAN, Advance(c, toDrop)
    PROVE  \/ pc' = [pc EXCEPT ![c] = "topicDrop"] /\ todo' = todo
           \/ /\ pc' = [pc EXCEPT ![c] = "listRemove"]
              /\ todo' = [todo EXCEPT ![c] = @ \ {Current(c)}]
              /\ todo[c] \ {Current(c)} # {}
           \/ /\ pc' = [pc EXCEPT ![c] = IF closing[c] = "no" THEN "reply" ELSE "logout"]
              /\ todo' = [todo EXCEPT ![c] = {}]
              /\ todo[c] = {Current(c)}
<1>1. Current(c) \in todo[c]
  BY CurrentIn DEF Inner
<1>2. CASE toDrop
  BY <1>2 DEF Advance
<1>3. CASE ~toDrop /\ todo[c] = {Current(c)}
  <2>1. todo[c] \ {Current(c)} = {}
    BY <1>3
  <2>2. AfterRemoval(c) = IF closing[c] = "no" THEN "reply" ELSE "logout"
    BY <1>3 DEF AfterRemoval
  <2> QED BY <1>3, <2>1, <2>2 DEF Advance, Inner, TypeOK
<1>4. CASE ~toDrop /\ todo[c] # {Current(c)}
  <2>1. todo[c] \ {Current(c)} # {}
    BY <1>1, <1>4
  <2>2. AfterRemoval(c) = "listRemove"
    BY <1>4 DEF AfterRemoval
  <2> QED BY <1>4, <2>1, <2>2 DEF Advance
<1> QED BY <1>2, <1>3, <1>4

LEMMA AdvanceKeeps ==
    ASSUME Inner, NEW c \in Conn, pc[c] \in Removing \ {"listRemove"},
           NEW toDrop \in BOOLEAN, Advance(c, toDrop),
           topics' \subseteq Channel, subscriptions' \in [Channel -> SUBSET Subscription],
           UNCHANGED <<known, subDict, delivery, named, history, closing, msg>>
    PROVE  TypeOK' /\ ThreadOK' /\ OrderOK'
<1>0. Current(c) \in todo[c] /\ todo[c] \in SUBSET Subscription
  BY CurrentIn DEF Inner, TypeOK
<1>a. CASE pc' = [pc EXCEPT ![c] = "topicDrop"] /\ todo' = todo
  <2>1. TypeOK'
    BY <1>0, <1>a DEF Inner, TypeOK, delivery, history, Adding, Removing, Sending, Ended
  <2>2. AddingOK'
    BY <1>a DEF Inner, ThreadOK, AddingOK, Adding, Subscribed
  <2>3. ClosingOK'
    BY <1>a DEF Inner, TypeOK, ThreadOK, ClosingOK, delivery, Adding, Removing, Sending, Current, Ended
  <2>4. OrderOK'
    BY <1>a, QuietKeeps DEF Inner, TypeOK, delivery
  <2> QED BY <2>1, <2>2, <2>3, <2>4 DEF ThreadOK
<1>b. CASE /\ pc' = [pc EXCEPT ![c] = "listRemove"]
           /\ todo' = [todo EXCEPT ![c] = @ \ {Current(c)}]
           /\ todo[c] \ {Current(c)} # {}
  <2>1. TypeOK'
    BY <1>0, <1>b DEF Inner, TypeOK, delivery, history, Adding, Removing, Sending, Ended
  <2>2. AddingOK'
    BY <1>b DEF Inner, TypeOK, ThreadOK, AddingOK, Adding, Subscribed
  <2>3. ClosingOK'
    BY <1>b DEF Inner, TypeOK, ThreadOK, ClosingOK, delivery, Adding, Removing, Sending, Current, Ended
  <2>4. OrderOK'
    BY <1>b, QuietKeeps DEF Inner, TypeOK, delivery
  <2> QED BY <2>1, <2>2, <2>3, <2>4 DEF ThreadOK
<1>c. CASE /\ pc' = [pc EXCEPT ![c] = IF closing[c] = "no" THEN "reply" ELSE "logout"]
           /\ todo' = [todo EXCEPT ![c] = {}]
           /\ todo[c] = {Current(c)}
  <2>1. TypeOK'
    BY <1>0, <1>c DEF Inner, TypeOK, delivery, history, Adding, Removing, Sending, Ended
  <2>2. AddingOK'
    BY <1>c DEF Inner, TypeOK, ThreadOK, AddingOK, Adding, Subscribed
  <2>3. ClosingOK'
    BY <1>c DEF Inner, TypeOK, ThreadOK, ClosingOK, delivery, Adding, Removing, Sending, Current, Ended
  <2>4. OrderOK'
    BY <1>c, QuietKeeps DEF Inner, TypeOK, delivery
  <2> QED BY <2>1, <2>2, <2>3, <2>4 DEF ThreadOK
<1> QED BY <1>a, <1>b, <1>c, AdvanceOutcome

LEMMA InitInner == Init => Inner
<1> SUFFICES ASSUME Init PROVE Inner
  OBVIOUS
<1>1. TypeOK
  BY BrokerAssumption DEF Init, TypeOK, Adding, Removing, Sending, Ended
<1>2. IndexOK
  BY DEF Init, IndexOK, ListedIsOwned, OneEach
<1>3. ThreadOK
  BY DEF Init, ThreadOK, AddingOK, ClosingOK, Adding, Removing, Sending, Ended
<1>4. OrderOK
  BY DEF Init, OrderOK, SendingOK, InboxOK, PublisherOrder
<1> QED BY <1>1, <1>2, <1>3, <1>4 DEF Inner

(* What an exception leaves of the variables of its thread.                *)
LEMMA ThrowTypes ==
    ASSUME TypeOK, NEW c \in Conn, Throw(c)
    PROVE  /\ pc' \in [Conn -> Removing \cup Adding \cup Sending \cup Ended
                                \cup {"new", "idle", "reply", "disconnect", "logout"}]
           /\ closing' \in [Conn -> {"no", "logout", "error", "close"}]
           /\ todo' \in [Conn -> SUBSET Subscription] /\ msg' \in [Conn -> SUBSET Message]
           /\ \A d \in Conn : todo'[d] # {} <=> pc'[d] \in Removing \cup Adding \cup {"deliver"}
           /\ \A d \in Conn : msg'[d] # {} <=> pc'[d] \in Sending
<1>1. \/ pc' = [pc EXCEPT ![c] = "disconnect"] /\ closing' = [closing EXCEPT ![c] = "error"]
      \/ pc' = [pc EXCEPT ![c] = "dead"] /\ closing' = closing
  BY DEF Throw
<1>2. todo' = [todo EXCEPT ![c] = {}] /\ msg' = [msg EXCEPT ![c] = {}]
  BY DEF Throw
<1>3. closing' \in [Conn -> {"no", "logout", "error", "close"}]
  BY <1>1 DEF TypeOK
<1>4. pc' \in [Conn -> Removing \cup Adding \cup Sending \cup Ended
                           \cup {"new", "idle", "reply", "disconnect", "logout"}]
  BY <1>1 DEF TypeOK, Ended
<1>5. todo' \in [Conn -> SUBSET Subscription] /\ msg' \in [Conn -> SUBSET Message]
  BY <1>2 DEF TypeOK
<1>6. pc'[c] \in {"disconnect", "dead"} /\ todo'[c] = {} /\ msg'[c] = {}
  BY <1>1, <1>2 DEF TypeOK
<1>7. \A d \in Conn \ {c} : todo'[d] = todo[d] /\ msg'[d] = msg[d] /\ pc'[d] = pc[d]
  BY <1>1, <1>2 DEF TypeOK
<1>8. \A d \in Conn : /\ todo'[d] # {} <=> pc'[d] \in Removing \cup Adding \cup {"deliver"}
                      /\ msg'[d] # {} <=> pc'[d] \in Sending
  BY <1>6, <1>7 DEF TypeOK, Removing, Adding, Sending
<1> QED BY <1>3, <1>4, <1>5, <1>8

LEMMA ThrowKeeps ==
    ASSUME Inner, NEW c \in Conn, pc[c] \notin {"dead", "done", "new", "disconnect"}, UNCHANGED <<manager, delivery, named, history>>, Throw(c)
    PROVE  Inner'
<1>1. TypeOK'
  BY ThrowTypes DEF Inner, TypeOK, manager, delivery, history
<1>2. IndexOK'
  BY BrokerAssumption DEF Inner, TypeOK, IndexOK, ListedIsOwned, OneEach, ThreadOK, AddingOK, ClosingOK, Throw, manager, delivery, history, Goto, Adding, Removing, Sending, Ended, Subscribed
<1>3. ThreadOK'
  BY BrokerAssumption DEF Inner, TypeOK, ThreadOK, AddingOK, ClosingOK, Throw, manager, delivery, history, Goto, Adding, Removing, Sending, Ended, Subscribed, Current
<1>4. OrderOK'
  BY BrokerAssumption, QuietKeeps DEF Inner, TypeOK, Throw, manager, delivery, history, Goto, Adding, Removing, Sending, Ended
<1> QED BY <1>1, <1>2, <1>3, <1>4 DEF Inner

LEMMA AcceptKeeps ==
    ASSUME Inner, NEW c \in Conn, Accept(c)
    PROVE  Inner'
<1>1. TypeOK'
  BY BrokerAssumption DEF Inner, TypeOK, Accept, manager, delivery, history, Goto, Adding, Removing, Sending, Ended, Subscription, Message
<1>2. IndexOK'
  BY BrokerAssumption DEF Inner, TypeOK, IndexOK, ListedIsOwned, OneEach, ThreadOK, AddingOK, ClosingOK, Accept, manager, delivery, history, Goto, Adding, Removing, Sending, Ended, Subscribed
<1>3. ThreadOK'
  BY BrokerAssumption DEF Inner, TypeOK, ThreadOK, AddingOK, ClosingOK, Accept, manager, delivery, history, Goto, Adding, Removing, Sending, Ended, Subscribed, Current
<1>4. OrderOK'
  BY BrokerAssumption, QuietKeeps DEF Inner, TypeOK, Accept, manager, delivery, history, Goto, Adding, Removing, Sending, Ended
<1> QED BY <1>1, <1>2, <1>3, <1>4 DEF Inner

LEMMA LoginKeeps ==
    ASSUME Inner, NEW c \in Conn, Login(c)
    PROVE  Inner'
<1>1. TypeOK'
  BY BrokerAssumption DEF Inner, TypeOK, Login, manager, delivery, history, Goto, Adding, Removing, Sending, Ended, Subscription, Message
<1>2. IndexOK'
  BY BrokerAssumption DEF Inner, TypeOK, IndexOK, ListedIsOwned, OneEach, ThreadOK, AddingOK, ClosingOK, Login, manager, delivery, history, Goto, Adding, Removing, Sending, Ended, Subscribed
<1>3. ThreadOK'
  BY BrokerAssumption DEF Inner, TypeOK, ThreadOK, AddingOK, ClosingOK, Login, manager, delivery, history, Goto, Adding, Removing, Sending, Ended, Subscribed, Current
<1>4. OrderOK'
  BY BrokerAssumption, QuietKeeps DEF Inner, TypeOK, Login, manager, delivery, history, Goto, Adding, Removing, Sending, Ended
<1> QED BY <1>1, <1>2, <1>3, <1>4 DEF Inner

LEMMA ReplyKeeps ==
    ASSUME Inner, NEW c \in Conn, Reply(c)
    PROVE  Inner'
<1>1. TypeOK'
  BY BrokerAssumption DEF Inner, TypeOK, Reply, manager, delivery, history, Goto, Adding, Removing, Sending, Ended, Subscription, Message
<1>2. IndexOK'
  BY BrokerAssumption DEF Inner, TypeOK, IndexOK, ListedIsOwned, OneEach, ThreadOK, AddingOK, ClosingOK, Reply, manager, delivery, history, Goto, Adding, Removing, Sending, Ended, Subscribed
<1>3. ThreadOK'
  BY BrokerAssumption DEF Inner, TypeOK, ThreadOK, AddingOK, ClosingOK, Reply, manager, delivery, history, Goto, Adding, Removing, Sending, Ended, Subscribed, Current
<1>4. OrderOK'
  BY BrokerAssumption, QuietKeeps DEF Inner, TypeOK, Reply, manager, delivery, history, Goto, Adding, Removing, Sending, Ended
<1> QED BY <1>1, <1>2, <1>3, <1>4 DEF Inner

LEMMA SubscribeKeeps ==
    ASSUME Inner, NEW c \in Conn, NEW ch \in Channel, NEW id \in SubId, Subscribe(c, ch, id)
    PROVE  Inner'
<1>a. [conId |-> c, channel |-> ch, subId |-> id, n |-> serial[c] + 1] \in Subscription
  BY BrokerAssumption DEF Inner, TypeOK, Subscribe, Subscription
<1>b. serial' \in [Conn -> 0..MaxSubs]
  BY BrokerAssumption DEF Inner, TypeOK, Subscribe
<1>1. TypeOK'
  BY <1>a, <1>b DEF Inner, TypeOK, Subscribe, manager, delivery, history, Goto, Adding, Removing, Sending, Ended
<1>2. IndexOK'
  BY BrokerAssumption DEF Inner, TypeOK, IndexOK, ListedIsOwned, OneEach, ThreadOK, AddingOK, ClosingOK, Subscribe, manager, delivery, history, Goto, Adding, Removing, Sending, Ended, Subscribed
<1>3. ThreadOK'
  BY BrokerAssumption DEF Inner, TypeOK, ThreadOK, AddingOK, ClosingOK, Subscribe, manager, delivery, history, Goto, Adding, Removing, Sending, Ended, Subscribed, Current
<1>4. OrderOK'
  BY BrokerAssumption, QuietKeeps DEF Inner, TypeOK, Subscribe, manager, delivery, history, Goto, Adding, Removing, Sending, Ended
<1> QED BY <1>1, <1>2, <1>3, <1>4 DEF Inner

LEMMA HasTopicKeeps ==
    ASSUME Inner, NEW c \in Conn, HasTopic(c)
    PROVE  Inner'
<1>0. Current(c) \in todo[c] /\ Current(c) \in Subscription /\ Current(c).channel \in Channel
  BY CurrentIn DEF Inner, HasTopic, Goto, Adding, Removing
<1>1. TypeOK'
  BY BrokerAssumption, <1>0 DEF Inner, TypeOK, HasTopic, manager, delivery, history, Goto, Adding, Removing, Sending, Ended, Subscription, Message
<1>2. IndexOK'
  BY BrokerAssumption, <1>0 DEF Inner, TypeOK, IndexOK, ListedIsOwned, OneEach, ThreadOK, AddingOK, ClosingOK, HasTopic, manager, delivery, history, Goto, Adding, Removing, Sending, Ended, Subscribed
<1>3. ThreadOK'
  BY BrokerAssumption, <1>0 DEF Inner, TypeOK, ThreadOK, AddingOK, ClosingOK, HasTopic, manager, delivery, history, Goto, Adding, Removing, Sending, Ended, Subscribed, Current
<1>4. OrderOK'
  BY BrokerAssumption, <1>0, QuietKeeps DEF Inner, TypeOK, HasTopic, manager, delivery, history, Goto, Adding, Removing, Sending, Ended
<1> QED BY <1>1, <1>2, <1>3, <1>4 DEF Inner

LEMMA PutTopicKeeps ==
    ASSUME Inner, NEW c \in Conn, PutTopic(c)
    PROVE  Inner'
<1>0. Current(c) \in todo[c] /\ Current(c) \in Subscription /\ Current(c).channel \in Channel
  BY CurrentIn DEF Inner, PutTopic, Goto, Adding, Removing
<1>1. TypeOK'
  BY BrokerAssumption, <1>0 DEF Inner, TypeOK, PutTopic, manager, delivery, history, Goto, Adding, Removing, Sending, Ended, Subscription, Message
<1>2. IndexOK'
  BY BrokerAssumption, <1>0 DEF Inner, TypeOK, IndexOK, ListedIsOwned, OneEach, ThreadOK, AddingOK, ClosingOK, PutTopic, manager, delivery, history, Goto, Adding, Removing, Sending, Ended, Subscribed
<1>3. ThreadOK'
  BY BrokerAssumption, <1>0 DEF Inner, TypeOK, ThreadOK, AddingOK, ClosingOK, PutTopic, manager, delivery, history, Goto, Adding, Removing, Sending, Ended, Subscribed, Current
<1>4. OrderOK'
  BY BrokerAssumption, <1>0, QuietKeeps DEF Inner, TypeOK, PutTopic, manager, delivery, history, Goto, Adding, Removing, Sending, Ended
<1> QED BY <1>1, <1>2, <1>3, <1>4 DEF Inner

LEMMA ListAddKeeps ==
    ASSUME Inner, NEW c \in Conn, ListAdd(c)
    PROVE  Inner'
<1>0. Current(c) \in todo[c] /\ Current(c) \in Subscription /\ Current(c).channel \in Channel
  BY CurrentIn DEF Inner, ListAdd, Goto, Adding, Removing
<1>1. TypeOK'
  BY BrokerAssumption, <1>0 DEF Inner, TypeOK, ListAdd, manager, delivery, history, Goto, Adding, Removing, Sending, Ended, Subscription, Message
<1>2. IndexOK'
  BY BrokerAssumption, <1>0 DEF Inner, TypeOK, IndexOK, ListedIsOwned, OneEach, ThreadOK, AddingOK, ClosingOK, ListAdd, manager, delivery, history, Goto, Adding, Removing, Sending, Ended, Subscribed
<1>3. ThreadOK'
  BY BrokerAssumption, <1>0 DEF Inner, TypeOK, ThreadOK, AddingOK, ClosingOK, ListAdd, manager, delivery, history, Goto, Adding, Removing, Sending, Ended, Subscribed, Current
<1>4. OrderOK'
  BY BrokerAssumption, <1>0, QuietKeeps DEF Inner, TypeOK, ListAdd, manager, delivery, history, Goto, Adding, Removing, Sending, Ended
<1> QED BY <1>1, <1>2, <1>3, <1>4 DEF Inner

LEMMA UnsubscribeKeeps ==
    ASSUME Inner, NEW c \in Conn, NEW id \in SubId, Unsubscribe(c, id)
    PROVE  Inner'
<1> DEFINE matching == {s \in subDict[c] : s.subId = id}
<1>a. matching # {} => First(matching) \in Subscription
  BY FirstIn DEF Inner, TypeOK
<1>b. todo' = [todo EXCEPT ![c] = IF matching = {} THEN {} ELSE {First(matching)}]
  BY DEF Unsubscribe
<1>c. pc[c] = "idle" /\ pc' = [pc EXCEPT ![c] = IF matching = {} THEN "reply" ELSE "listRemove"]
  BY DEF Unsubscribe, Goto
<1> HIDE DEF matching
<1>1. TypeOK'
  <2>1. CASE matching = {}
    BY <1>b, <1>c, <2>1 DEF Inner, TypeOK, Unsubscribe, manager, delivery, history, Removing, Adding, Sending, Ended
  <2>2. CASE matching # {}
    <3>1. todo' = [todo EXCEPT ![c] = {First(matching)}] /\ pc' = [pc EXCEPT ![c] = "listRemove"]
      BY <1>b, <1>c, <2>2
    <3>2. {First(matching)} \in SUBSET Subscription /\ {First(matching)} # {}
      BY <1>a, <2>2
    <3>3. UNCHANGED <<manager, delivery, named, history, closing, msg>>
      BY DEF Unsubscribe
    <3> QED BY <3>1, <3>2, <3>3, <1>c DEF Inner, TypeOK, manager, delivery, history,
               Removing, Adding, Sending, Ended
  <2> QED BY <2>1, <2>2
<1>2. IndexOK'
  BY BrokerAssumption DEF Inner, TypeOK, IndexOK, ListedIsOwned, OneEach, ThreadOK, AddingOK, ClosingOK, Unsubscribe, manager, delivery, history, Goto, Adding, Removing, Sending, Ended, Subscribed
<1>3. ThreadOK'
  BY BrokerAssumption DEF Inner, TypeOK, ThreadOK, AddingOK, ClosingOK, Unsubscribe, manager, delivery, history, Goto, Adding, Removing, Sending, Ended, Subscribed, Current
<1>4. OrderOK'
  BY <1>b, <1>c, QuietKeeps DEF Inner, TypeOK, Unsubscribe, delivery, Adding, Removing, Sending, Ended
<1> QED BY <1>1, <1>2, <1>3, <1>4 DEF Inner

LEMMA ListRemoveKeeps ==
    ASSUME Inner, NEW c \in Conn, ListRemove(c)
    PROVE  Inner'
<1>0. Current(c) \in todo[c] /\ Current(c) \in Subscription /\ Current(c).channel \in Channel
  BY CurrentIn DEF Inner, ListRemove, Goto, Adding, Removing
<1>1. TypeOK'
  BY BrokerAssumption, <1>0 DEF Inner, TypeOK, ListRemove, manager, delivery, history, Goto, Adding, Removing, Sending, Ended, Subscription, Message
<1>2. IndexOK'
  BY BrokerAssumption, <1>0 DEF Inner, TypeOK, IndexOK, ListedIsOwned, OneEach, ThreadOK, AddingOK, ClosingOK, ListRemove, manager, delivery, history, Goto, Adding, Removing, Sending, Ended, Subscribed
<1>3. ThreadOK'
  BY BrokerAssumption, <1>0 DEF Inner, TypeOK, ThreadOK, AddingOK, ClosingOK, ListRemove, manager, delivery, history, Goto, Adding, Removing, Sending, Ended, Subscribed, Current
<1>4. OrderOK'
  BY BrokerAssumption, <1>0, QuietKeeps DEF Inner, TypeOK, ListRemove, manager, delivery, history, Goto, Adding, Removing, Sending, Ended
<1> QED BY <1>1, <1>2, <1>3, <1>4 DEF Inner

LEMMA TopicHasKeeps ==
    ASSUME Inner, NEW c \in Conn, TopicHas(c)
    PROVE  Inner'
<1>0. Current(c) \in todo[c] /\ Current(c) \in Subscription /\ Current(c).channel \in Channel
  BY CurrentIn DEF Inner, TopicHas, Goto, Adding, Removing
<1>k. TypeOK' /\ ThreadOK' /\ OrderOK'
  <2>1. CASE Current(c).channel \in topics
    <3>1. TypeOK'
      BY <2>1 DEF Inner, TypeOK, TopicHas, manager, delivery, history, Adding, Removing, Sending, Ended
    <3>2. AddingOK'
      <4>1. pc' = [pc EXCEPT ![c] = "topicSize"] /\ todo' = todo /\ subDict' = subDict
        BY <2>1 DEF TopicHas, manager
      <4> QED BY <4>1 DEF Inner, ThreadOK, AddingOK, Adding, Subscribed
    <3>3. ClosingOK'
      BY <2>1 DEF Inner, TypeOK, ThreadOK, ClosingOK, TopicHas, manager, delivery, Adding, Removing, Sending, Current, Ended
    <3>4. OrderOK'
      BY <2>1, QuietKeeps DEF Inner, TypeOK, TopicHas, delivery, Adding, Removing, Sending, Ended
    <3> QED BY <3>1, <3>2, <3>3, <3>4 DEF ThreadOK
  <2>2. CASE Current(c).channel \notin topics
    BY <2>2, AdvanceKeeps DEF Inner, TypeOK, TopicHas, manager, delivery, history, Removing
  <2> QED BY <2>1, <2>2
<1>1. TypeOK'
  BY <1>k
<1>2. IndexOK'
  BY BrokerAssumption, <1>0 DEF Inner, TypeOK, IndexOK, ListedIsOwned, OneEach, ThreadOK, AddingOK, ClosingOK, TopicHas, manager, delivery, history, Goto, Advance, AfterRemoval, Adding, Removing, Sending, Ended, Subscribed
<1>3. ThreadOK'
  BY <1>k
<1>4. OrderOK'
  BY <1>k
<1> QED BY <1>1, <1>2, <1>3, <1>4 DEF Inner

LEMMA TopicSizeKeeps ==
    ASSUME Inner, NEW c \in Conn, TopicSize(c)
    PROVE  Inner'
<1>0. Current(c) \in todo[c] /\ Current(c) \in Subscription /\ Current(c).channel \in Channel
  BY CurrentIn DEF Inner, TopicSize, Goto, Adding, Removing
<1>k. TypeOK' /\ ThreadOK' /\ OrderOK'
  BY BrokerAssumption, <1>0, AdvanceKeeps DEF Inner, TypeOK, TopicSize, manager, delivery, history, Goto, Removing
<1>1. TypeOK'
  BY <1>k
<1>2. IndexOK'
  BY BrokerAssumption, <1>0 DEF Inner, TypeOK, IndexOK, ListedIsOwned, OneEach, ThreadOK, AddingOK, ClosingOK, TopicSize, manager, delivery, history, Goto, Advance, AfterRemoval, Adding, Removing, Sending, Ended, Subscribed
<1>3. ThreadOK'
  BY <1>k
<1>4. OrderOK'
  BY <1>k
<1> QED BY <1>1, <1>2, <1>3, <1>4 DEF Inner

LEMMA TopicDropKeeps ==
    ASSUME Inner, NEW c \in Conn, TopicDrop(c)
    PROVE  Inner'
<1>0. Current(c) \in todo[c] /\ Current(c) \in Subscription /\ Current(c).channel \in Channel
  BY CurrentIn DEF Inner, TopicDrop, Goto, Adding, Removing
<1>k. TypeOK' /\ ThreadOK' /\ OrderOK'
  BY BrokerAssumption, <1>0, AdvanceKeeps DEF Inner, TypeOK, TopicDrop, manager, delivery, history, Goto, Removing
<1>1. TypeOK'
  BY <1>k
<1>2. IndexOK'
  BY BrokerAssumption, <1>0 DEF Inner, TypeOK, IndexOK, ListedIsOwned, OneEach, ThreadOK, AddingOK, ClosingOK, TopicDrop, manager, delivery, history, Goto, Advance, AfterRemoval, Adding, Removing, Sending, Ended, Subscribed
<1>3. ThreadOK'
  BY <1>k
<1>4. OrderOK'
  BY <1>k
<1> QED BY <1>1, <1>2, <1>3, <1>4 DEF Inner

LEMMA SendKeeps ==
    ASSUME Inner, NEW c \in Conn, NEW ch \in Channel, Send(c, ch)
    PROVE  Inner'
<1>a. [by |-> c, channel |-> ch, id |-> 0] \in Message
  BY DEF Message
<1>b. sent' \in 0..MaxSends
  BY BrokerAssumption DEF Inner, TypeOK, Send
<1>1. TypeOK'
  BY <1>a, <1>b DEF Inner, TypeOK, Send, manager, delivery, history, Goto, Adding, Removing, Sending, Ended
<1>2. IndexOK'
  BY BrokerAssumption DEF Inner, TypeOK, IndexOK, ListedIsOwned, OneEach, ThreadOK, AddingOK, ClosingOK, Send, manager, delivery, history, Goto, Adding, Removing, Sending, Ended, Subscribed
<1>3. ThreadOK'
  BY BrokerAssumption DEF Inner, TypeOK, ThreadOK, AddingOK, ClosingOK, Send, manager, delivery, history, Goto, Adding, Removing, Sending, Ended, Subscribed, Current
<1>4. OrderOK'
  <2>1. SendingOK'
    BY DEF Inner, TypeOK, OrderOK, SendingOK, Send, delivery, Goto
  <2>2. InboxOK' /\ PublisherOrder'
    BY DEF Inner, OrderOK, InboxOK, PublisherOrder, Send, delivery
  <2> QED BY <2>1, <2>2 DEF OrderOK
<1> QED BY <1>1, <1>2, <1>3, <1>4 DEF Inner

LEMMA HasChannelKeeps ==
    ASSUME Inner, NEW c \in Conn, HasChannel(c)
    PROVE  Inner'
<1>0. Publishing(c) \in msg[c] /\ Publishing(c) \in Message /\ Publishing(c).channel \in Channel
  BY PublishingIn DEF Inner, HasChannel, Goto, Sending
<1>1. TypeOK'
  BY BrokerAssumption, <1>0 DEF Inner, TypeOK, HasChannel, manager, delivery, history, Goto, Adding, Removing, Sending, Ended, Subscription, Message
<1>2. IndexOK'
  BY BrokerAssumption, <1>0 DEF Inner, TypeOK, IndexOK, ListedIsOwned, OneEach, ThreadOK, AddingOK, ClosingOK, HasChannel, manager, delivery, history, Goto, Adding, Removing, Sending, Ended, Subscribed
<1>3. ThreadOK'
  BY BrokerAssumption, <1>0 DEF Inner, TypeOK, ThreadOK, AddingOK, ClosingOK, HasChannel, manager, delivery, history, Goto, Adding, Removing, Sending, Ended, Subscribed, Current
<1>4. OrderOK'
  BY BrokerAssumption, <1>0, QuietKeeps DEF Inner, TypeOK, HasChannel, manager, delivery, history, Goto, Adding, Removing, Sending, Ended
<1> QED BY <1>1, <1>2, <1>3, <1>4 DEF Inner

LEMMA ScanKeeps ==
    ASSUME Inner, NEW c \in Conn, Scan(c)
    PROVE  Inner'
<1>0. Publishing(c) \in msg[c] /\ Publishing(c) \in Message /\ Publishing(c).channel \in Channel
  BY PublishingIn DEF Inner, Scan, Goto, Sending
<1>1. TypeOK'
  BY BrokerAssumption, <1>0 DEF Inner, TypeOK, Scan, manager, delivery, history, Goto, Adding, Removing, Sending, Ended, Subscription, Message
<1>2. IndexOK'
  BY BrokerAssumption, <1>0 DEF Inner, TypeOK, IndexOK, ListedIsOwned, OneEach, ThreadOK, AddingOK, ClosingOK, Scan, manager, delivery, history, Goto, Adding, Removing, Sending, Ended, Subscribed
<1>3. ThreadOK'
  BY BrokerAssumption, <1>0 DEF Inner, TypeOK, ThreadOK, AddingOK, ClosingOK, Scan, manager, delivery, history, Goto, Adding, Removing, Sending, Ended, Subscribed, Current
<1>4. OrderOK'
  BY BrokerAssumption, <1>0, QuietKeeps DEF Inner, TypeOK, Scan, manager, delivery, history, Goto, Adding, Removing, Sending, Ended
<1> QED BY <1>1, <1>2, <1>3, <1>4 DEF Inner

LEMMA PublishKeeps ==
    ASSUME Inner, NEW c \in Conn, Publish(c)
    PROVE  Inner'
<1>0. Publishing(c) \in msg[c] /\ Publishing(c) \in Message /\ Publishing(c).channel \in Channel
  BY PublishingIn DEF Inner, Publish, Goto, Sending
<1>n. idGen \in Nat /\ idGen' = idGen + 1
  BY DEF Inner, TypeOK, Publish
<1>a. [Publishing(c) EXCEPT !.id = idGen + 1] \in Message /\ idGen' \in Nat
  BY <1>0, <1>n DEF Message
<1>p. Publishing(c).by = c
  BY <1>0 DEF Inner, OrderOK, SendingOK
<1>m. \A m \in msg'[c] : m.by = c /\ m.id = idGen + 1 /\ msg'[c] = {m}
  BY <1>0, <1>p DEF Inner, TypeOK, Publish, Message
<1>i. \A d \in Conn : \A i \in 1..Len(inbox[d]) : inbox[d][i].id \in Nat /\ inbox[d][i].id <= idGen
  <2>1. \A d \in Conn : \A i \in 1..Len(inbox[d]) : inbox[d][i] \in Message
    BY DEF Inner, TypeOK
  <2> QED BY <2>1 DEF Inner, OrderOK, InboxOK, Message
<1>1. TypeOK'
  BY <1>a DEF Inner, TypeOK, Publish, manager, delivery, history, Goto, Adding, Removing, Sending, Ended
<1>2. IndexOK'
  BY BrokerAssumption, <1>0 DEF Inner, TypeOK, IndexOK, ListedIsOwned, OneEach, ThreadOK, AddingOK, ClosingOK, Publish, manager, delivery, history, Goto, Adding, Removing, Sending, Ended, Subscribed
<1>3. ThreadOK'
  BY BrokerAssumption, <1>0 DEF Inner, TypeOK, ThreadOK, AddingOK, ClosingOK, Publish, manager, delivery, history, Goto, Adding, Removing, Sending, Ended, Subscribed, Current
<1>4. OrderOK'
  <2>1. SendingOK'
    <3> SUFFICES ASSUME NEW d \in Conn, NEW m \in msg'[d]
                 PROVE  /\ m.by = d /\ m.id <= idGen' /\ msg'[d] = {m}
                        /\ pc'[d] = "snapshot" => \A e \in Conn : \A i \in 1..Len(inbox'[e]) :
                              inbox'[e][i].by = d => inbox'[e][i].id < m.id
                        /\ pc'[d] = "deliver" => \A s \in todo'[d] :
                              /\ \A t \in todo'[d] : s.conId = t.conId => s = t
                              /\ \A i \in 1..Len(inbox'[s.conId]) :
                                    inbox'[s.conId][i].by = d => inbox'[s.conId][i].id < m.id
      BY DEF SendingOK
    <3>1. CASE d = c
      BY <3>1, <1>n, <1>m, <1>i DEF Inner, TypeOK, Publish, Goto
    <3>2. CASE d # c
      <4>1. m \in msg[d] /\ m.id \in Nat
        BY <3>2 DEF Inner, TypeOK, Publish, Message
      <4> QED BY <3>2, <4>1, <1>n DEF Inner, TypeOK, OrderOK, SendingOK, Publish, Goto
    <3> QED BY <3>1, <3>2
  <2>2. InboxOK'
    BY <1>i, <1>n DEF InboxOK, Publish
  <2>3. PublisherOrder'
    BY DEF Inner, OrderOK, PublisherOrder, Publish
  <2> QED BY <2>1, <2>2, <2>3 DEF OrderOK
<1> QED BY <1>1, <1>2, <1>3, <1>4 DEF Inner

LEMMA SnapshotKeeps ==
    ASSUME Inner, NEW c \in Conn, Snapshot(c)
    PROVE  Inner'
<1>0. Publishing(c) \in msg[c] /\ Publishing(c) \in Message /\ Publishing(c).channel \in Channel
  BY PublishingIn DEF Inner, Snapshot, Goto, Sending
<1>1. TypeOK'
  BY BrokerAssumption, <1>0 DEF Inner, TypeOK, Snapshot, manager, delivery, history, Goto, Adding, Removing, Sending, Ended, Subscription, Message
<1>2. IndexOK'
  BY BrokerAssumption, <1>0 DEF Inner, TypeOK, IndexOK, ListedIsOwned, OneEach, ThreadOK, AddingOK, ClosingOK, Snapshot, manager, delivery, history, Goto, Adding, Removing, Sending, Ended, Subscribed
<1>3. ThreadOK'
  BY BrokerAssumption, <1>0 DEF Inner, TypeOK, ThreadOK, AddingOK, ClosingOK, Snapshot, manager, delivery, history, Goto, Adding, Removing, Sending, Ended, Subscribed, Current
<1>4. OrderOK'
  <2>1. SendingOK'
    <3>1. \A ch \in Channel : \A s, t \in subscriptions[ch] : s.conId = t.conId => s = t
      BY DEF Inner, TypeOK, IndexOK, ListedIsOwned, OneEach, Subscription
    <3>2. \A ch \in Channel : \A s \in subscriptions[ch] : s.conId \in Conn
      BY DEF Inner, TypeOK, Subscription
    <3> DEFINE receivers == subscriptions[Publishing(c).channel]
    <3>3. /\ pc[c] = "snapshot" /\ todo'[c] = receivers /\ msg'[c] \subseteq msg[c]
          /\ \A d \in Conn \ {c} : pc'[d] = pc[d] /\ todo'[d] = todo[d] /\ msg'[d] = msg[d]
          /\ pc'[c] \in {"deliver", "reply"} /\ inbox' = inbox /\ idGen' = idGen
      BY DEF Inner, TypeOK, Snapshot, delivery, Goto
    <3>4. /\ \A s, t \in receivers : s.conId = t.conId => s = t
          /\ \A s \in receivers : s.conId \in Conn
      BY <1>0, <3>1, <3>2
    <3> HIDE DEF receivers
    <3>5. ASSUME NEW d \in Conn, NEW m \in msg'[d]
          PROVE  /\ m.by = d /\ m.id <= idGen' /\ msg'[d] = {m}
                 /\ pc'[d] = "snapshot" => \A e \in Conn : \A i \in 1..Len(inbox'[e]) :
                       inbox'[e][i].by = d => inbox'[e][i].id < m.id
                 /\ pc'[d] = "deliver" => \A s \in todo'[d] :
                       /\ \A t \in todo'[d] : s.conId = t.conId => s = t
                       /\ \A i \in 1..Len(inbox'[s.conId]) :
                             inbox'[s.conId][i].by = d => inbox'[s.conId][i].id < m.id
      <4>1. m \in msg[d] /\ m.by = d /\ m.id <= idGen /\ msg[d] = {m}
        BY <3>3 DEF Inner, OrderOK, SendingOK
      <4>2. CASE d = c
        BY <3>3, <3>4, <4>1, <4>2 DEF Inner, OrderOK, SendingOK
      <4>3. CASE d # c
        BY <3>3, <4>1, <4>3 DEF Inner, OrderOK, SendingOK
      <4> QED BY <4>2, <4>3
    <3> QED BY <3>5 DEF SendingOK
  <2>2. InboxOK' /\ PublisherOrder'
    BY DEF Inner, OrderOK, InboxOK, PublisherOrder, Snapshot, delivery
  <2> QED BY <2>1, <2>2 DEF OrderOK
<1> QED BY <1>1, <1>2, <1>3, <1>4 DEF Inner

(* The handler of a receiver is got, or there is none any more.            *)
LEMMA FetchKeeps ==
    ASSUME Inner, NEW c \in Conn, NEW s \in todo[c], Fetch(c, s)
    PROVE  Inner'
<1>1. TypeOK'
  <2>1. fetched' \in [Conn -> SUBSET Subscription]
    BY DEF Inner, TypeOK, Fetch
  <2> QED BY <2>1 DEF Inner, TypeOK, Fetch, manager, history
<1>2. IndexOK'
  BY DEF Inner, IndexOK, ListedIsOwned, OneEach, Fetch, manager
<1>3. ThreadOK'
  BY DEF Inner, ThreadOK, AddingOK, ClosingOK, Subscribed, Current, Fetch, manager
<1>4. OrderOK'
  BY QuietKeeps DEF Inner, Fetch
<1> QED BY <1>1, <1>2, <1>3, <1>4 DEF Inner

LEMMA SkipKeeps ==
    ASSUME Inner, NEW c \in Conn, NEW s \in todo[c], Skip(c, s)
    PROVE  Inner'
<1>0. /\ pc[c] = "deliver" /\ todo' = [todo EXCEPT ![c] = @ \ {s}]
      /\ UNCHANGED <<manager, delivery, named, history, closing>>
  BY DEF Skip, Served
<1>1. CASE todo[c] = {s}
  <2>0. pc' = [pc EXCEPT ![c] = "reply"] /\ msg' = [msg EXCEPT ![c] = {}]
    BY <1>1 DEF Skip, Served
  <2>1. TypeOK'
    BY <1>0, <1>1, <2>0 DEF Inner, TypeOK, manager, delivery, history, Removing, Adding, Sending
  <2>2. IndexOK'
    BY <1>0 DEF Inner, IndexOK, ListedIsOwned, OneEach, manager
  <2>3. ThreadOK'
    BY <1>0, <2>0 DEF Inner, TypeOK, ThreadOK, AddingOK, ClosingOK, Subscribed, Current, manager,
       delivery, Removing, Adding, Sending
  <2>4. OrderOK'
    BY <1>0, <2>0, QuietKeeps DEF Inner, TypeOK, delivery
  <2> QED BY <2>1, <2>2, <2>3, <2>4 DEF Inner
<1>2. CASE todo[c] # {s}
  <2>0. pc' = pc /\ msg' = msg
    BY <1>2 DEF Skip, Served
  <2>1. TypeOK'
    <3>1. todo'[c] # {} /\ todo' \in [Conn -> SUBSET Subscription]
      BY <1>0, <1>2 DEF Inner, TypeOK
    <3> QED BY <1>0, <2>0, <3>1 DEF Inner, TypeOK, manager, delivery, history
  <2>2. IndexOK'
    BY <1>0 DEF Inner, IndexOK, ListedIsOwned, OneEach, manager
  <2>3. ThreadOK'
    BY <1>0, <2>0 DEF Inner, TypeOK, ThreadOK, AddingOK, ClosingOK, Subscribed, Current, manager,
       delivery, Removing, Adding, Sending
  <2>4. OrderOK'
    BY <1>0, <2>0, QuietKeeps DEF Inner, TypeOK, delivery
  <2> QED BY <2>1, <2>2, <2>3, <2>4 DEF Inner
<1> QED BY <1>1, <1>2

LEMMA DeliverKeeps ==
    ASSUME Inner, LeavingOK, NEW c \in Conn, NEW s \in todo[c], Deliver(c, s)
    PROVE  Inner'
<1>d. pc[c] = "deliver"
  BY DEF LeavingOK, Deliver
<1>a. Publishing(c) \in msg[c] /\ Publishing(c) \in Message /\ s \in Subscription
  BY <1>d, PublishingIn DEF Inner, TypeOK, Sending
<1>b. inbox' \in [Conn -> Seq(Message)]
  BY <1>a DEF Inner, TypeOK, Deliver, Subscription
<1>1. TypeOK'
  <2>1. pc[c] = "deliver" /\ todo' = [todo EXCEPT ![c] = @ \ {s}]
        /\ fetched' = [fetched EXCEPT ![c] = {}]
        /\ UNCHANGED <<manager, connections, idGen, named, history, closing>>
    BY <1>d DEF Deliver, Served
  <2>2. CASE todo[c] = {s}
    <3>1. pc' = [pc EXCEPT ![c] = "reply"] /\ msg' = [msg EXCEPT ![c] = {}]
      BY <2>2 DEF Deliver, Served
    <3>2. todo'[c] = {}
      BY <2>1, <2>2 DEF Inner, TypeOK
    <3> QED BY <1>b, <2>1, <3>1, <3>2 DEF Inner, TypeOK, manager, history, Adding, Removing, Sending
  <2>3. CASE todo[c] # {s}
    <3>1. pc' = pc /\ msg' = msg
      BY <2>3 DEF Deliver, Served
    <3>2. todo'[c] # {}
      BY <2>1, <2>3 DEF Inner, TypeOK
    <3> QED BY <1>b, <2>1, <3>1, <3>2 DEF Inner, TypeOK, manager, history, Adding, Removing
  <2> QED BY <2>2, <2>3
<1>2. IndexOK'
  BY BrokerAssumption, <1>a, <1>d DEF Inner, TypeOK, IndexOK, ListedIsOwned, OneEach, ThreadOK, AddingOK, ClosingOK, Deliver, Served, manager, delivery, history, Goto, Adding, Removing, Sending, Ended, Subscribed
<1>3. ThreadOK'
  BY BrokerAssumption, <1>a, <1>d DEF Inner, TypeOK, ThreadOK, AddingOK, ClosingOK, Deliver, Served, manager, delivery, history, Goto, Adding, Removing, Sending, Ended, Subscribed, Current
<1>4. OrderOK'
  <2> DEFINE m == Publishing(c)  r == s.conId
  <2>1. /\ r \in Conn /\ m.by = c /\ m.id \in Nat /\ m.id <= idGen /\ msg[c] = {m}
        /\ \A t \in todo[c] : t.conId = r => t = s
        /\ \A i \in 1..Len(inbox[r]) : inbox[r][i].by = c => inbox[r][i].id < m.id
    <3>1. pc[c] = "deliver" /\ s \in todo[c] /\ r \in Conn /\ m \in msg[c] /\ m.id \in Nat
      BY <1>a, <1>d DEF Subscription, Message
    <3>2. /\ m.by = c /\ m.id <= idGen /\ msg[c] = {m}
          /\ \A u \in todo[c] :
                /\ \A t \in todo[c] : u.conId = t.conId => u = t
                /\ \A i \in 1..Len(inbox[u.conId]) :
                      inbox[u.conId][i].by = c => inbox[u.conId][i].id < m.id
      <4> HIDE DEF m
      <4> QED BY <3>1 DEF Inner, OrderOK, SendingOK
    <3> QED BY <3>1, <3>2
  <2>2. \A d \in Conn \ {r} : inbox'[d] = inbox[d]
    BY <2>1 DEF Inner, TypeOK, Deliver
  <2>3. inbox[r] \in Seq(Message) /\ inbox'[r] = Append(inbox[r], m)
    BY <2>1 DEF Inner, TypeOK, Deliver
  <2>4. \A i \in 1..Len(inbox'[r]) :
           \/ i \in 1..Len(inbox[r]) /\ inbox'[r][i] = inbox[r][i]
           \/ i = Len(inbox[r]) + 1 /\ inbox'[r][i] = m
    BY <1>a, <2>3
  <2>5. Len(inbox[r]) \in Nat
    BY <2>1 DEF Inner, TypeOK
  <2>6. /\ pc[c] = "deliver" /\ todo'[c] = todo[c] \ {s} /\ msg'[c] \subseteq msg[c]
        /\ \A d \in Conn \ {c} : pc'[d] = pc[d] /\ todo'[d] = todo[d] /\ msg'[d] = msg[d]
        /\ pc'[c] \in {"deliver", "reply"}
    BY <1>d, <2>1 DEF Inner, TypeOK, Deliver, Served
  <2>7. connections' = connections /\ idGen' = idGen
    BY DEF Deliver
  <2> HIDE DEF m, r
  <2>8. SendingOK'
    <3> SUFFICES ASSUME NEW d \in Conn, NEW n \in msg'[d]
                 PROVE  /\ n.by = d /\ n.id <= idGen' /\ msg'[d] = {n}
                        /\ pc'[d] = "snapshot" => \A e \in Conn : \A i \in 1..Len(inbox'[e]) :
                              inbox'[e][i].by = d => inbox'[e][i].id < n.id
                        /\ pc'[d] = "deliver" => \A t \in todo'[d] :
                              /\ \A u \in todo'[d] : t.conId = u.conId => t = u
                              /\ \A i \in 1..Len(inbox'[t.conId]) :
                                    inbox'[t.conId][i].by = d => inbox'[t.conId][i].id < n.id
      BY DEF SendingOK
    <3>1. \A t \in todo[d] : t.conId \in Conn
      BY DEF Inner, TypeOK, Subscription
    <3>a. \A t \in todo[c] : \A i \in 1..Len(inbox[t.conId]) :
             inbox[t.conId][i].by = c => inbox[t.conId][i].id < m.id
      BY <2>1, <2>6 DEF Inner, OrderOK, SendingOK
    <3>b. \A t, u \in todo[c] : t.conId = u.conId => t = u
      BY <2>1, <2>6 DEF Inner, OrderOK, SendingOK
    <3>2. CASE d = c
      <4>1. n = m /\ msg'[c] = {n}
        BY <3>2, <2>1, <2>6
      <4>2. \A t \in todo'[c] : t \in todo[c] /\ t.conId # r /\ inbox'[t.conId] = inbox[t.conId]
        BY <3>1, <3>2, <2>1, <2>2, <2>6
      <4> QED BY <3>2, <3>a, <3>b, <4>1, <4>2, <2>1, <2>6, <2>7
    <3>3. CASE d # c
      <4>1. n \in msg[d] /\ pc'[d] = pc[d] /\ todo'[d] = todo[d] /\ msg'[d] = msg[d] /\ m.by # d
        BY <3>3, <2>1, <2>6
      <4>2. \A e \in Conn : \A i \in 1..Len(inbox'[e]) :
               inbox'[e][i].by = d => i \in 1..Len(inbox[e]) /\ inbox'[e][i] = inbox[e][i]
        BY <4>1, <2>2, <2>4
      <4> QED BY <3>1, <4>1, <4>2, <2>7 DEF Inner, OrderOK, SendingOK
    <3> QED BY <3>2, <3>3
  <2>9. InboxOK'
    BY <2>1, <2>2, <2>4, <2>7 DEF Inner, OrderOK, InboxOK
  <2>10. PublisherOrder'
    <3> SUFFICES ASSUME NEW d \in Conn, NEW i \in 1..Len(inbox'[d]), NEW j \in 1..Len(inbox'[d]),
                        i < j, inbox'[d][i].by = inbox'[d][j].by
                 PROVE  inbox'[d][i].id < inbox'[d][j].id
      BY DEF PublisherOrder
    <3>1. CASE d # r
      BY <3>1, <2>2 DEF Inner, OrderOK, PublisherOrder
    <3>2. CASE d = r
      
      <4>1. /\ i <= Len(inbox[r]) + 1 /\ j <= Len(inbox[r]) + 1
            /\ i \in 1..Len(inbox[r]) /\ inbox'[r][i] = inbox[r][i]
        BY <3>2, <2>4, <2>5
      <4>2. CASE j \in 1..Len(inbox[r]) /\ inbox'[r][j] = inbox[r][j]
        BY <3>2, <4>1, <4>2, <2>1 DEF Inner, OrderOK, PublisherOrder
      <4>3. CASE inbox'[r][j] = m
        BY <3>2, <4>1, <4>3, <2>1
      <4> QED BY <3>2, <4>2, <4>3, <2>4
    <3> QED BY <3>1, <3>2
  <2> QED BY <2>8, <2>9, <2>10 DEF OrderOK
<1> QED BY <1>1, <1>2, <1>3, <1>4 DEF Inner

LEMMA DisconnectKeeps ==
    ASSUME Inner, NEW c \in Conn, Disconnect(c)
    PROVE  Inner'
<1>1. TypeOK'
  BY BrokerAssumption DEF Inner, TypeOK, Disconnect, manager, delivery, history, Goto, Adding, Removing, Sending, Ended, Subscription, Message
<1>2. IndexOK'
  BY BrokerAssumption DEF Inner, TypeOK, IndexOK, ListedIsOwned, OneEach, ThreadOK, AddingOK, ClosingOK, Disconnect, manager, delivery, history, Goto, Adding, Removing, Sending, Ended, Subscribed
<1>3. ThreadOK'
  BY BrokerAssumption DEF Inner, TypeOK, ThreadOK, AddingOK, ClosingOK, Disconnect, manager, delivery, history, Goto, Adding, Removing, Sending, Ended, Subscribed, Current
<1>4. OrderOK'
  BY BrokerAssumption, QuietKeeps DEF Inner, TypeOK, Disconnect, manager, delivery, history, Goto, Adding, Removing, Sending, Ended
<1> QED BY <1>1, <1>2, <1>3, <1>4 DEF Inner

LEMMA HangUpKeeps ==
    ASSUME Inner, NEW c \in Conn, HangUp(c)
    PROVE  Inner'
<1>1. TypeOK'
  BY BrokerAssumption DEF Inner, TypeOK, HangUp, manager, delivery, history, Goto, Adding, Removing, Sending, Ended, Subscription, Message
<1>2. IndexOK'
  BY BrokerAssumption DEF Inner, TypeOK, IndexOK, ListedIsOwned, OneEach, ThreadOK, AddingOK, ClosingOK, HangUp, manager, delivery, history, Goto, Adding, Removing, Sending, Ended, Subscribed
<1>3. ThreadOK'
  BY BrokerAssumption DEF Inner, TypeOK, ThreadOK, AddingOK, ClosingOK, HangUp, manager, delivery, history, Goto, Adding, Removing, Sending, Ended, Subscribed, Current
<1>4. OrderOK'
  BY BrokerAssumption, QuietKeeps DEF Inner, TypeOK, HangUp, manager, delivery, history, Goto, Adding, Removing, Sending, Ended
<1> QED BY <1>1, <1>2, <1>3, <1>4 DEF Inner

LEMMA OverflowKeeps ==
    ASSUME Inner, NEW c \in Conn, Overflow(c)
    PROVE  Inner'
<1>1. TypeOK'
  BY BrokerAssumption DEF Inner, TypeOK, Overflow, manager, delivery, history, Goto, Adding, Removing, Sending, Ended, Subscription, Message
<1>2. IndexOK'
  BY BrokerAssumption DEF Inner, TypeOK, IndexOK, ListedIsOwned, OneEach, ThreadOK, AddingOK, ClosingOK, Overflow, manager, delivery, history, Goto, Adding, Removing, Sending, Ended, Subscribed
<1>3. ThreadOK'
  BY BrokerAssumption DEF Inner, TypeOK, ThreadOK, AddingOK, ClosingOK, Overflow, manager, delivery, history, Goto, Adding, Removing, Sending, Ended, Subscribed, Current
<1>4. OrderOK'
  BY BrokerAssumption, QuietKeeps DEF Inner, TypeOK, Overflow, manager, delivery, history, Goto, Adding, Removing, Sending, Ended
<1> QED BY <1>1, <1>2, <1>3, <1>4 DEF Inner

LEMMA UnregisterKeeps ==
    ASSUME Inner, NEW c \in Conn, Unregister(c)
    PROVE  Inner'
<1>n. leftAt' \in [Conn -> SUBSET Nat]
  BY DEF Inner, TypeOK, Unregister, Noted
<1>1. TypeOK'
  BY <1>n, BrokerAssumption DEF Inner, TypeOK, Unregister, manager, delivery, history, Goto, Adding, Removing, Sending, Ended, Subscription, Message
<1>2. IndexOK'
  BY BrokerAssumption DEF Inner, TypeOK, IndexOK, ListedIsOwned, OneEach, ThreadOK, AddingOK, ClosingOK, Unregister, manager, delivery, history, Goto, Adding, Removing, Sending, Ended, Subscribed
<1>3. ThreadOK'
  BY BrokerAssumption DEF Inner, TypeOK, ThreadOK, AddingOK, ClosingOK, Unregister, manager, delivery, history, Goto, Adding, Removing, Sending, Ended, Subscribed, Current
<1>4. OrderOK'
  BY BrokerAssumption, QuietKeeps DEF Inner, TypeOK, Unregister, manager, delivery, history, Goto, Adding, Removing, Sending, Ended
<1> QED BY <1>1, <1>2, <1>3, <1>4 DEF Inner

LEMMA LogoutKeeps ==
    ASSUME Inner, NEW c \in Conn, Logout(c)
    PROVE  Inner'
<1>1. TypeOK'
  BY BrokerAssumption DEF Inner, TypeOK, Logout, manager, delivery, history, Goto, Adding, Removing, Sending, Ended, Subscription, Message
<1>2. IndexOK'
  <2>1. subDict[c] = {} /\ subscriptions' = subscriptions /\ topics' = topics /\ subDict' = subDict
    <3>1. pc[c] = "logout"
      BY DEF Logout, Goto
    <3>2. todo[c] = {}
      BY <3>1 DEF Inner, TypeOK, Removing, Adding
    <3>3. subDict[c] = {}
      BY <3>1, <3>2 DEF Inner, ThreadOK, ClosingOK, Ended
    <3> QED BY <3>3 DEF Inner, TypeOK, Logout
  <2> QED BY <2>1 DEF Inner, IndexOK, ListedIsOwned, OneEach
<1>3. ThreadOK'
  BY BrokerAssumption DEF Inner, TypeOK, ThreadOK, AddingOK, ClosingOK, Logout, manager, delivery, history, Goto, Adding, Removing, Sending, Ended, Subscribed, Current
<1>4. OrderOK'
  BY BrokerAssumption, QuietKeeps DEF Inner, TypeOK, Logout, manager, delivery, history, Goto, Adding, Removing, Sending, Ended
<1> QED BY <1>1, <1>2, <1>3, <1>4 DEF Inner

LEMMA LogoutFailsKeeps ==
    ASSUME Inner, NEW c \in Conn, LogoutFails(c)
    PROVE  Inner'
<1>1. TypeOK'
  <2>1. known' \subseteq Conn /\ subDict' \in [Conn -> SUBSET Subscription] /\ Throw(c)
    BY DEF Inner, TypeOK, LogoutFails
  <2>2. UNCHANGED <<topics, subscriptions, delivery, named, history>>
    BY DEF LogoutFails
  <2> QED BY <2>1, <2>2, ThrowTypes DEF Inner, TypeOK, delivery, history
<1>2. IndexOK'
  <2>1. subDict[c] = {} /\ subscriptions' = subscriptions /\ topics' = topics /\ subDict' = subDict
    <3>1. pc[c] = "logout"
      BY DEF LogoutFails
    <3>2. todo[c] = {}
      BY <3>1 DEF Inner, TypeOK, Removing, Adding
    <3>3. subDict[c] = {}
      BY <3>1, <3>2 DEF Inner, ThreadOK, ClosingOK, Ended
    <3> QED BY <3>3 DEF Inner, TypeOK, LogoutFails
  <2> QED BY <2>1 DEF Inner, IndexOK, ListedIsOwned, OneEach
<1>3. ThreadOK'
  BY BrokerAssumption DEF Inner, TypeOK, ThreadOK, AddingOK, ClosingOK, LogoutFails, manager, delivery, history, Goto, Throw, Adding, Removing, Sending, Ended, Subscribed, Current
<1>4. OrderOK'
  BY BrokerAssumption, QuietKeeps DEF Inner, TypeOK, LogoutFails, manager, delivery, history, Goto, Throw, Adding, Removing, Sending, Ended
<1> QED BY <1>1, <1>2, <1>3, <1>4 DEF Inner

(* The actions that throw do nothing else, and never before Accept.        *)
LEMMA ThrowingKeeps ==
    ASSUME Inner, NEW c \in Conn,
           Refuse(c) \/ BadReceipt(c) \/ NotSubscribed(c) \/ TrackFails(c) \/ NullPointer(c)
    PROVE  Inner'
BY ThrowKeeps DEF Refuse, BadReceipt, NotSubscribed, TrackFails, NullPointer

LEMMA StutterKeeps == Inner /\ UNCHANGED vars => Inner'
<1> SUFFICES ASSUME Inner, UNCHANGED vars PROVE Inner'
  OBVIOUS
<1>1. TypeOK'
  BY DEF Inner, TypeOK, vars, manager, delivery, history
<1>2. IndexOK'
  BY DEF Inner, IndexOK, ListedIsOwned, OneEach, vars, manager
<1>3. ThreadOK'
  BY DEF Inner, ThreadOK, AddingOK, ClosingOK, Subscribed, Current, vars, manager, delivery
<1>4. OrderOK'
  BY QuietKeeps DEF Inner, vars, delivery
<1> QED BY <1>1, <1>2, <1>3, <1>4 DEF Inner

LEMMA NextInner == IInv /\ [Next]_vars => Inner'
<1> SUFFICES ASSUME IInv, [Next]_vars PROVE Inner'
  OBVIOUS
<1> USE DEF IInv
<1>1. CASE UNCHANGED vars
  BY <1>1, StutterKeeps
<1>2. ASSUME NEW c \in Conn, Request(c) PROVE Inner'
  BY <1>2, AcceptKeeps, LoginKeeps, ThrowingKeeps, DisconnectKeeps, HangUpKeeps, OverflowKeeps,
     SendKeeps, SubscribeKeeps, UnsubscribeKeeps DEF Request
<1>3. ASSUME NEW c \in Conn, Continue(c) PROVE Inner'
  BY <1>3, ReplyKeeps, ThrowingKeeps, HasTopicKeeps, PutTopicKeeps, ListAddKeeps, ListRemoveKeeps,
     TopicHasKeeps, TopicSizeKeeps, TopicDropKeeps, HasChannelKeeps, ScanKeeps, PublishKeeps,
     SnapshotKeeps, FetchKeeps, SkipKeeps, DeliverKeeps, UnregisterKeeps, LogoutKeeps,
     LogoutFailsKeeps DEF Continue
<1> QED BY <1>1, <1>2, <1>3 DEF Next

-----------------------------------------------------------------------------
(* A step of a thread that is not handing a message over, and leaves the   *)
(* map of connections alone.                                               *)
LEMMA LeavingQuiet ==
    ASSUME TypeOK, LeavingOK, NEW c \in Conn, pc[c] # "deliver",
           UNCHANGED <<connections, inbox, fetched, leftAt>>,
           \A d \in Conn \ {c} : pc'[d] = pc[d] /\ todo'[d] = todo[d] /\ msg'[d] = msg[d],
           pc'[c] # "new"
    PROVE  LeavingOK'
<1>1. fetched[c] = {}
  BY DEF LeavingOK
<1>2. \A d \in Conn : fetched'[d] # {} => pc'[d] = "deliver" /\ fetched'[d] \subseteq todo'[d]
  BY <1>1 DEF LeavingOK
<1>3. \A d \in Conn : leftAt'[d] # {} => d \notin connections' /\ pc'[d] # "new"
  BY DEF LeavingOK
<1>4. \A d \in Conn : \A s \in fetched'[d], m \in msg'[d] : \A n \in leftAt'[s.conId] : m.id <= n
  BY <1>1 DEF LeavingOK
<1>5. NothingNewAfterLeaving'
  BY DEF LeavingOK, NothingNewAfterLeaving
<1> QED BY <1>2, <1>3, <1>4, <1>5 DEF LeavingOK

LEMMA ThrowLeaving ==
    ASSUME TypeOK, LeavingOK, NEW c \in Conn, pc[c] # "deliver",
           UNCHANGED <<delivery, history>>, Throw(c)
    PROVE  LeavingOK'
<1>1. \A d \in Conn \ {c} : pc'[d] = pc[d] /\ todo'[d] = todo[d] /\ msg'[d] = msg[d]
  BY DEF TypeOK, Throw
<1>2. pc'[c] # "new"
  BY DEF TypeOK, Throw
<1> QED BY <1>1, <1>2, LeavingQuiet DEF delivery, history

LEMMA RequestLeaving ==
    ASSUME TypeOK, LeavingOK, NEW c \in Conn, Request(c)
    PROVE  LeavingOK'
<1>1. CASE Accept(c)
  <2>1. leftAt[c] = {} /\ UNCHANGED <<inbox, fetched, leftAt, todo, msg>> /\ pc[c] = "new"
    BY <1>1 DEF LeavingOK, Accept, Goto, history
  <2>2. connections' = connections \cup {c} /\ pc' = [pc EXCEPT ![c] = "idle"]
    BY <1>1 DEF Accept, Goto
  <2>3. \A d \in Conn : fetched'[d] # {} => pc'[d] = "deliver" /\ fetched'[d] \subseteq todo'[d]
    BY <2>1, <2>2 DEF TypeOK, LeavingOK
  <2>4. \A d \in Conn : leftAt'[d] # {} => d \notin connections' /\ pc'[d] # "new"
    BY <2>1, <2>2 DEF TypeOK, LeavingOK
  <2>5. NothingNewAfterLeaving'
    BY <2>1 DEF LeavingOK, NothingNewAfterLeaving
  <2> QED BY <2>1, <2>3, <2>4, <2>5 DEF LeavingOK
<1>2. CASE Login(c)
  BY <1>2, LeavingQuiet DEF Login, delivery, history
<1>3. CASE Refuse(c)
  BY <1>3, ThrowLeaving DEF Refuse
<1>4. CASE Disconnect(c) \/ HangUp(c) \/ Overflow(c)
  <2>1. /\ pc[c] = "idle" /\ \E to \in {"disconnect", "dead"} : pc' = [pc EXCEPT ![c] = to]
        /\ UNCHANGED <<delivery, history, todo, msg>>
    BY <1>4 DEF Disconnect, HangUp, Overflow, Goto
  <2> QED BY <2>1, LeavingQuiet DEF TypeOK, delivery, history
<1>5. ASSUME NEW ch \in Channel, Send(c, ch) PROVE LeavingOK'
  BY <1>5, LeavingQuiet DEF TypeOK, Send, Goto, delivery
<1>6. ASSUME NEW ch \in Channel, NEW id \in SubId, Subscribe(c, ch, id) PROVE LeavingOK'
  BY <1>6, LeavingQuiet DEF TypeOK, Subscribe, Goto, delivery
<1>7. ASSUME NEW id \in SubId, Unsubscribe(c, id) PROVE LeavingOK'
  <2>1. /\ pc[c] = "idle" /\ \E to \in {"reply", "listRemove"} : pc' = [pc EXCEPT ![c] = to]
        /\ \E S \in SUBSET Subscription : todo' = [todo EXCEPT ![c] = S]
        /\ UNCHANGED <<delivery, history, msg>>
    <3> DEFINE matching == {s \in subDict[c] : s.subId = id}
    <3>1. matching # {} => First(matching) \in Subscription
      BY FirstIn DEF TypeOK
    <3> QED BY <1>7, <3>1 DEF Unsubscribe, Goto
  <2> QED BY <2>1, LeavingQuiet DEF TypeOK, delivery, history
<1> QED BY <1>1, <1>2, <1>3, <1>4, <1>5, <1>6, <1>7 DEF Request

LEMMA ContinueLeaving ==
    ASSUME IInv, NEW c \in Conn, Continue(c)
    PROVE  LeavingOK'
<1> USE DEF IInv, Inner
<1>1. CASE Reply(c) \/ HasTopic(c) \/ HasChannel(c) \/ Scan(c)
  <2>1. /\ pc[c] # "deliver"
        /\ \E to \in {"idle", "listAdd", "putTopic", "scan", "publish"} : pc' = [pc EXCEPT ![c] = to]
        /\ UNCHANGED <<delivery, history, todo, msg>>
    BY <1>1 DEF Reply, HasTopic, HasChannel, Scan, Goto
  <2> QED BY <2>1, LeavingQuiet DEF TypeOK, delivery, history
<1>2. CASE BadReceipt(c) \/ NotSubscribed(c) \/ TrackFails(c) \/ NullPointer(c) \/ LogoutFails(c)
  BY <1>2, ThrowLeaving DEF BadReceipt, NotSubscribed, TrackFails, NullPointer, LogoutFails
<1>3. CASE PutTopic(c) \/ ListAdd(c) \/ ListRemove(c) \/ Publish(c) \/ Logout(c)
  <2>1. /\ pc[c] # "deliver" /\ UNCHANGED <<connections, inbox, fetched, leftAt>> /\ pc'[c] # "new"
        /\ \A d \in Conn \ {c} : pc'[d] = pc[d] /\ todo'[d] = todo[d] /\ msg'[d] = msg[d]
    BY <1>3 DEF TypeOK, PutTopic, ListAdd, ListRemove, Publish, Logout, Goto, delivery, history
  <2> QED BY <2>1, LeavingQuiet
<1>4. CASE TopicHas(c) \/ TopicSize(c) \/ TopicDrop(c)
  <2>1. /\ pc[c] # "deliver" /\ UNCHANGED <<connections, inbox, fetched, leftAt, msg>>
        /\ \/ pc' = [pc EXCEPT ![c] = "topicSize"] /\ todo' = todo
           \/ \E b \in BOOLEAN : Advance(c, b)
    BY <1>4 DEF TopicHas, TopicSize, TopicDrop, delivery, history
  <2>2. pc'[c] # "new" /\ \A d \in Conn \ {c} : pc'[d] = pc[d] /\ todo'[d] = todo[d]
    BY <2>1 DEF TypeOK, Advance, AfterRemoval
  <2> QED BY <2>1, <2>2, LeavingQuiet
<1>5. CASE Snapshot(c)
  <2>1. pc[c] # "deliver" /\ UNCHANGED <<connections, inbox, fetched, leftAt>> /\ pc'[c] # "new"
    BY <1>5 DEF TypeOK, Snapshot, Goto, delivery, history
  <2>2. \A d \in Conn \ {c} : pc'[d] = pc[d] /\ todo'[d] = todo[d] /\ msg'[d] = msg[d]
    BY <1>5 DEF TypeOK, Snapshot, Goto
  <2> QED BY <2>1, <2>2, LeavingQuiet
<1>6. ASSUME NEW s \in todo[c], Fetch(c, s) PROVE LeavingOK'
  <2>1. /\ pc[c] = "deliver" /\ fetched' = [fetched EXCEPT ![c] = {s}] /\ leftAt[s.conId] = {}
        /\ UNCHANGED <<connections, inbox, leftAt, pc, todo, msg>>
    BY <1>6 DEF TypeOK, Subscription, LeavingOK, Fetch, history
  <2>2. \A d \in Conn : fetched'[d] # {} => pc'[d] = "deliver" /\ fetched'[d] \subseteq todo'[d]
    BY <2>1 DEF TypeOK, LeavingOK
  <2>3. \A d \in Conn : \A t \in fetched'[d], m \in msg'[d] : \A n \in leftAt'[t.conId] : m.id <= n
    BY <2>1 DEF TypeOK, LeavingOK
  <2>4. NothingNewAfterLeaving'
    BY <2>1 DEF LeavingOK, NothingNewAfterLeaving
  <2> QED BY <2>1, <2>2, <2>3, <2>4 DEF LeavingOK
<1>7. ASSUME NEW s \in todo[c], Skip(c, s) PROVE LeavingOK'
  <2>1. /\ pc[c] = "deliver" /\ fetched[c] = {} /\ UNCHANGED <<connections, inbox, fetched, leftAt>>
        /\ pc' \in {pc, [pc EXCEPT ![c] = "reply"]} /\ msg' \in {msg, [msg EXCEPT ![c] = {}]}
        /\ todo' = [todo EXCEPT ![c] = @ \ {s}]
    BY <1>7 DEF Skip, Served, delivery, history
  <2>2. \A d \in Conn : fetched'[d] # {} => pc'[d] = "deliver" /\ fetched'[d] \subseteq todo'[d]
    BY <2>1 DEF TypeOK, LeavingOK
  <2>3. \A d \in Conn : leftAt'[d] # {} => d \notin connections' /\ pc'[d] # "new"
    BY <2>1 DEF TypeOK, LeavingOK
  <2>4. \A d \in Conn : \A t \in fetched'[d], m \in msg'[d] : \A n \in leftAt'[t.conId] : m.id <= n
    BY <2>1 DEF TypeOK, LeavingOK
  <2>5. NothingNewAfterLeaving'
    BY <2>1 DEF LeavingOK, NothingNewAfterLeaving
  <2> QED BY <2>2, <2>3, <2>4, <2>5 DEF LeavingOK
<1>8. ASSUME NEW s \in todo[c], Deliver(c, s) PROVE LeavingOK'
  <2> DEFINE m == Publishing(c)
  <2>0. pc[c] = "deliver" /\ s \in fetched[c] /\ s.conId \in Conn
    BY <1>8 DEF TypeOK, Subscription, LeavingOK, Deliver
  <2>1. /\ fetched' = [fetched EXCEPT ![c] = {}] /\ UNCHANGED <<connections, leftAt>>
        /\ pc' \in {pc, [pc EXCEPT ![c] = "reply"]} /\ msg' \in {msg, [msg EXCEPT ![c] = {}]}
        /\ todo' = [todo EXCEPT ![c] = @ \ {s}]
    BY <1>8 DEF Deliver, Served, history
  <2>2. \A d \in Conn : fetched'[d] # {} => pc'[d] = "deliver" /\ fetched'[d] \subseteq todo'[d]
    BY <2>1 DEF TypeOK, LeavingOK
  <2>3. \A d \in Conn : leftAt'[d] # {} => d \notin connections' /\ pc'[d] # "new"
    BY <2>0, <2>1 DEF TypeOK, LeavingOK
  <2>4. \A d \in Conn : \A t \in fetched'[d], n \in msg'[d] : \A k \in leftAt'[t.conId] : n.id <= k
    BY <2>1 DEF TypeOK, LeavingOK
  <2>5. m \in msg[c] /\ m \in Message
    BY <2>0, PublishingIn DEF Sending
  <2>6. \A k \in leftAt[s.conId] : m.id <= k
    BY <2>0, <2>5 DEF LeavingOK
  <2>7. \A d \in Conn : inbox'[d] = IF d = s.conId THEN Append(inbox[d], m) ELSE inbox[d]
    BY <1>8, <2>0 DEF TypeOK, Deliver
  <2> HIDE DEF m
  <2>8. NothingNewAfterLeaving'
    <3> SUFFICES ASSUME NEW d \in Conn, NEW k \in leftAt[d], NEW i \in 1..Len(inbox'[d])
                 PROVE  inbox'[d][i].id <= k
      BY <2>1 DEF NothingNewAfterLeaving
    <3>1. CASE d # s.conId
      BY <2>7, <3>1 DEF LeavingOK, NothingNewAfterLeaving
    <3>2. CASE d = s.conId
      <4>1. inbox[d] \in Seq(Message) /\ inbox'[d] = Append(inbox[d], m)
        BY <2>7, <3>2 DEF TypeOK
      <4>2. \/ i \in 1..Len(inbox[d]) /\ inbox'[d][i] = inbox[d][i]
            \/ inbox'[d][i] = m
        BY <2>5, <4>1
      <4> QED BY <2>6, <3>2, <4>2 DEF LeavingOK, NothingNewAfterLeaving
    <3> QED BY <3>1, <3>2
  <2> QED BY <2>2, <2>3, <2>4, <2>8 DEF LeavingOK
<1>9. CASE Unregister(c)
  <2>1. /\ pc[c] = "disconnect" /\ connections' = connections \ {c} /\ pc'[c] # "new"
        /\ UNCHANGED <<inbox, fetched, msg>>
        /\ \A d \in Conn \ {c} : pc'[d] = pc[d] /\ todo'[d] = todo[d]
    BY <1>9 DEF TypeOK, Unregister, Goto
  <2>2. \A d \in Conn : leftAt'[d] = leftAt[d] \/ (leftAt'[d] = {idGen} /\ d = c)
    <3>1. leftAt' = leftAt \/ leftAt' = [leftAt EXCEPT ![c] = {idGen}]
      BY <1>9 DEF Unregister, Noted
    <3> QED BY <3>1 DEF TypeOK
  <2>3. fetched[c] = {}
    BY <2>1 DEF LeavingOK
  <2>4. \A d \in Conn : fetched'[d] # {} => pc'[d] = "deliver" /\ fetched'[d] \subseteq todo'[d]
    BY <2>1, <2>3 DEF LeavingOK
  <2>5. \A d \in Conn : leftAt'[d] # {} => d \notin connections' /\ pc'[d] # "new"
    BY <2>1, <2>2 DEF LeavingOK
  <2>6. \A d \in Conn : \A t \in fetched'[d], m \in msg'[d] : \A n \in leftAt'[t.conId] : m.id <= n
    <3>1. \A d \in Conn : \A m \in msg[d] : m.id <= idGen
      BY DEF OrderOK, SendingOK
    <3>2. \A d \in Conn : \A t \in fetched[d] : t.conId \in Conn
      BY DEF TypeOK, Subscription
    <3> QED BY <2>1, <2>2, <3>1, <3>2 DEF LeavingOK
  <2>7. NothingNewAfterLeaving'
    BY <2>1, <2>2 DEF LeavingOK, NothingNewAfterLeaving, OrderOK, InboxOK
  <2> QED BY <2>4, <2>5, <2>6, <2>7 DEF LeavingOK
<1> QED BY <1>1, <1>2, <1>3, <1>4, <1>5, <1>6, <1>7, <1>8, <1>9 DEF Continue

LEMMA InitIInv == Init => IInv
<1>1. ASSUME Init PROVE LeavingOK
  <2>1. \A c \in Conn : fetched[c] = {} /\ leftAt[c] = {}
    BY <1>1 DEF Init
  <2> QED BY <2>1 DEF LeavingOK, NothingNewAfterLeaving
<1> QED BY <1>1, InitInner DEF IInv

(* Every step preserves the invariant.                                     *)
LEMMA NextIInv == IInv /\ [Next]_vars => IInv'
<1> SUFFICES ASSUME IInv, [Next]_vars PROVE IInv'
  OBVIOUS
<1>1. Inner'
  BY NextInner
<1>2. LeavingOK'
  <2>1. CASE UNCHANGED vars
    BY <2>1 DEF IInv, LeavingOK, NothingNewAfterLeaving, vars, delivery, history
  <2>2. ASSUME NEW c \in Conn, Request(c) PROVE LeavingOK'
    BY <2>2, RequestLeaving DEF IInv, Inner
  <2>3. ASSUME NEW c \in Conn, Continue(c) PROVE LeavingOK'
    BY <2>3, ContinueLeaving
  <2> QED BY <2>1, <2>2, <2>3 DEF Next
<1> QED BY <1>1, <1>2 DEF IInv

(* The invariant holds in every reachable state.                           *)
THEOREM BrokerInvariant == Spec => []IInv
<1>1. Init => IInv
  BY InitIInv
<1>2. IInv /\ [Next]_vars => IInv'
  BY NextIInv
<1> QED BY <1>1, <1>2, PTL DEF Spec

-----------------------------------------------------------------------------
(* The variables of SubscriptionManager, ConnectionsManager and of the     *)
(* protocols keep their types, and a thread holds subscriptions and a      *)
(* message exactly at the statements that use them.                        *)
THEOREM BrokerTypeOK == Spec => []TypeOK
BY BrokerInvariant, PTL DEF IInv, Inner

(* What a channel's list holds is in the list of its connection, so that   *)
(* disconnectUser and unsubscribe find it, although nothing locks the two. *)
THEOREM BrokerListedIsOwned == Spec => []ListedIsOwned
BY BrokerInvariant, PTL DEF IInv, Inner, IndexOK

(* A connection whose handleDisconnect ran to its end has left no          *)
(* subscription, handler, or user name behind.                             *)
THEOREM BrokerDoneIsGone == Spec => []DoneIsGone
<1>1. IInv => DoneIsGone
  BY DEF IInv, Inner, TypeOK, IndexOK, ListedIsOwned, ThreadOK, ClosingOK, DoneIsGone, Listed, Subscription, Ended
<1> QED BY <1>1, BrokerInvariant, PTL

(* A client gets each message once, those of one publisher in order.       *)
THEOREM BrokerPublisherOrder == Spec => []PublisherOrder
BY BrokerInvariant, PTL DEF IInv, Inner, OrderOK

(* A connection that was taken out of the map is handed no message with a  *)
(* later number, although publishers may still hold copies of lists with   *)
(* its subscriptions, and its handler, got before.                         *)
THEOREM BrokerNothingNewAfterLeaving == Spec => []NothingNewAfterLeaving
BY BrokerInvariant, PTL DEF IInv, LeavingOK
=============================================================================
