------------------------- MODULE ReportsOrderProofs -------------------------
(***************************************************************************)
(* What becomes of the reports of one client at another: for any number of *)
(* clients, games and files, none is stored twice, later ones are not      *)
(* stored without the earlier ones, and none is lost while the channel     *)
(* lists its receiver.                                                     *)
(*                                                                         *)
(* And what follows for what users see: reports are listed in an order on  *)
(* which all clients agree, and a summary shows the latest values.  An     *)
(* entry is always newer than those it joins, the two lists of a log are   *)
(* apart, and a number stands for one event wherever it is.                *)
(***************************************************************************)
EXTENDS ReportsProofs, SequenceTheorems

(* Events as their files have them, and as they are read from a message.   *)
Original == UNION {Range(ParseEventsFile(f)) : f \in File}
Copied   == {ParseToEvent(e) : e \in Original}

SentMessage   == [by : User, game : Game, n : Nat \ {0}, event : Original]
ParsedMessage == [by : User, game : Game, n : Nat \ {0}, event : Copied]
Entry         == [n : Nat \ {0}, event : Original \cup Copied]
Log           == [before : Seq(Entry), after : Seq(Entry), half : BOOLEAN, done : BOOLEAN]

Request ==
    {<<"SUBSCRIBE", g>> : g \in Game} \cup {<<"UNSUBSCRIBE">>} \cup {<<"SEND", m>> : m \in SentMessage}

-----------------------------------------------------------------------------
(* Numbers.                                                                *)
LEMMA Least ==
    ASSUME NEW S \in SUBSET Nat, S # {}
    PROVE  \E k \in S : \A l \in S : k <= l
<1>1. PICK k \in S : \A l \in S : ~ (<<l, k>> \in OpToRel(<, Nat))
  BY WFMin, NatLessThanWellFounded
<1>2. \A l \in S : k <= l
  <2> SUFFICES ASSUME NEW l \in S PROVE k <= l
    OBVIOUS
  <2>1. ~ (l < k)
    BY <1>1 DEF OpToRel
  <2> QED BY <2>1
<1> QED BY <1>2

LEMMA Greatest ==
    ASSUME NEW S \in SUBSET Nat, S # {}, NEW b \in Nat, \A k \in S : k <= b
    PROVE  Max(S) \in S /\ \A k \in S : k <= Max(S)
<1> DEFINE T == {c \in Nat : \A k \in S : k <= c}
<1>1. PICK c \in T : \A d \in T : c <= d
  <2>1. b \in T
    OBVIOUS
  <2> HIDE DEF T
  <2> QED BY <2>1, Least DEF T
<1>2. c \in Nat /\ \A k \in S : k <= c
  OBVIOUS
<1>3. c \in S
  <2> SUFFICES ASSUME c \notin S PROVE FALSE
    OBVIOUS
  <2>1. \A k \in S : k <= c - 1
    BY <1>2
  <2>2. c - 1 \in Nat
    <3>1. PICK k \in S : TRUE
      OBVIOUS
    <3>2. k \in Nat /\ k <= c - 1
      BY <2>1, <3>1
    <3> QED BY <1>2, <3>2
  <2>3. c - 1 \in T
    BY <2>1, <2>2
  <2> QED BY <1>1, <1>2, <2>3
<1>4. \E m \in S : \A k \in S : m >= k
  BY <1>2, <1>3
<1> QED BY <1>4 DEF Max

(* The first numbers of an interval are counted by the last of them.       *)
LEMMA InitialSegment ==
    ASSUME NEW L \in Nat, NEW D \in SUBSET (1..L), \A i \in D, j \in 1..L : j <= i => j \in D
    PROVE  Cardinality(D) \in 0..L /\ D = 1..Cardinality(D)
<1> DEFINE S == {m \in 0..L : m + 1 \notin D}
<1>1. PICK m \in S : \A k \in S : m <= k
  <2>1. L \in S /\ S \in SUBSET Nat
    OBVIOUS
  <2> HIDE DEF S
  <2> QED BY <2>1, Least
<1>2. 1..m \subseteq D
  <2> SUFFICES ASSUME NEW i \in 1..m PROVE i \in D
    OBVIOUS
  <2>1. i - 1 \in 0..L /\ ~(m <= i - 1)
    OBVIOUS
  <2> QED BY <1>1, <2>1
<1>3. D \subseteq 1..m
  <2> SUFFICES ASSUME NEW i \in D, i > m PROVE FALSE
    OBVIOUS
  <2>1. m + 1 \in 1..L /\ m + 1 <= i
    OBVIOUS
  <2> QED BY <2>1
<1>4. Cardinality(1..m) = m
  BY FS_Interval
<1> QED BY <1>2, <1>3, <1>4

-----------------------------------------------------------------------------
(* An update of a table, and of a table of tables.                         *)
LEMMA Put1 ==
    ASSUME NEW A, NEW S, NEW f \in [A -> S], NEW a \in A, NEW x \in S, NEW new, new = [f EXCEPT ![a] = x]
    PROVE  new \in [A -> S] /\ \A c \in A : new[c] = IF c = a THEN x ELSE f[c]
  OBVIOUS

LEMMA Put2 ==
    ASSUME NEW A, NEW B, NEW S, NEW f \in [A -> [B -> S]], NEW a \in A, NEW b \in B, NEW x \in S,
           NEW new, new = [f EXCEPT ![a][b] = x]
    PROVE  /\ new \in [A -> [B -> S]]
           /\ \A c \in A, d \in B : new[c][d] = IF c = a /\ d = b THEN x ELSE f[c][d]
  OBVIOUS

-----------------------------------------------------------------------------
(* Inserting into a list of entries.                                       *)
LEMMA InsertStores ==
    ASSUME NEW list \in Seq(Entry), NEW entry \in Entry
    PROVE  /\ Insert(list, entry) \in Seq(Entry)
           /\ Len(Insert(list, entry)) = Len(list) + 1
           /\ Range(Insert(list, entry)) = Range(list) \cup {entry}
BY InsertArranges

-----------------------------------------------------------------------------
(* Queues.                                                                 *)
LEMMA RangeTail ==
    ASSUME NEW S, NEW q \in Seq(S), q # <<>>
    PROVE  /\ Head(q) \in S /\ Tail(q) \in Seq(S) /\ Range(q) = {Head(q)} \cup Range(Tail(q))
           /\ Len(q) \in Nat \ {0} /\ Len(Tail(q)) = Len(q) - 1 /\ Head(q) = q[1]
           /\ \A i \in 1..Len(Tail(q)) : Tail(q)[i] = q[i + 1] /\ i + 1 \in 1..Len(q)
<1>1. /\ Head(q) = q[1] /\ Head(q) \in S /\ Tail(q) \in Seq(S) /\ Len(q) \in Nat \ {0}
      /\ Len(Tail(q)) = Len(q) - 1
  OBVIOUS
<1>2. \A i \in 1..Len(Tail(q)) : Tail(q)[i] = q[i + 1] /\ i + 1 \in 1..Len(q)
  BY <1>1
<1>3. DOMAIN q = 1..Len(q) /\ DOMAIN Tail(q) = 1..Len(Tail(q)) /\ 1 \in 1..Len(q)
  BY <1>1
<1>4. Range(Tail(q)) \cup {Head(q)} \subseteq Range(q)
  BY <1>1, <1>2, <1>3 DEF Range
<1>5. ASSUME NEW i \in 1..Len(q), i # 1 PROVE q[i] \in Range(Tail(q))
  <2>1. i - 1 \in 1..Len(Tail(q)) /\ (i - 1) + 1 = i
    BY <1>1, <1>5
  <2>2. Tail(q)[i - 1] = q[i]
    BY <1>2, <2>1
  <2> QED BY <1>3, <2>1, <2>2 DEF Range
<1>6. Range(q) \subseteq {Head(q)} \cup Range(Tail(q))
  BY <1>1, <1>3, <1>5 DEF Range
<1> QED BY <1>1, <1>2, <1>4, <1>6

LEMMA RangeEmpty == Range(<<>>) = {}
  BY DEF Range

(* Messages of one sender about one game, in the order of their numbers.   *)
Alike(x, y) == x.by = y.by /\ x.game = y.game

Ascending(q) == \A i, j \in DOMAIN q : i < j /\ Alike(q[i], q[j]) => q[i].n < q[j].n

LEMMA AscendingAppend ==
    ASSUME NEW S, NEW q \in Seq(S), Ascending(q), NEW x \in S,
           \A y \in Range(q) : Alike(y, x) => y.n < x.n
    PROVE  Ascending(Append(q, x))
<1>1. /\ DOMAIN q = 1..Len(q) /\ Len(q) \in Nat /\ DOMAIN Append(q, x) = 1..Len(q) + 1
      /\ Append(q, x)[Len(q) + 1] = x /\ \A i \in 1..Len(q) : Append(q, x)[i] = q[i]
  OBVIOUS
<1> DEFINE new == Append(q, x)
<1> SUFFICES ASSUME NEW i \in 1..Len(q) + 1, NEW j \in 1..Len(q) + 1, i < j, Alike(new[i], new[j])
             PROVE  new[i].n < new[j].n
  BY <1>1 DEF Ascending
<1>2. i \in 1..Len(q) /\ new[i] = q[i] /\ q[i] \in Range(q)
  BY <1>1 DEF Range
<1>3. CASE j \in 1..Len(q)
  BY <1>1, <1>2, <1>3 DEF Ascending
<1>4. CASE j = Len(q) + 1
  BY <1>1, <1>2, <1>4
<1> QED BY <1>1, <1>3, <1>4

LEMMA AscendingTail ==
    ASSUME NEW S, NEW q \in Seq(S), q # <<>>, Ascending(q)
    PROVE  /\ Ascending(Tail(q))
           /\ \A x \in Range(Tail(q)) : Alike(Head(q), x) => Head(q).n < x.n
<1>1. /\ Len(q) \in Nat \ {0} /\ Len(Tail(q)) = Len(q) - 1 /\ Head(q) = q[1] /\ Tail(q) \in Seq(S)
      /\ \A i \in 1..Len(Tail(q)) : Tail(q)[i] = q[i + 1] /\ i + 1 \in 1..Len(q)
  BY RangeTail
<1>2. DOMAIN q = 1..Len(q) /\ DOMAIN Tail(q) = 1..Len(Tail(q)) /\ 1 \in 1..Len(q)
  BY <1>1
<1> DEFINE new == Tail(q)
<1> HIDE DEF new
<1>3. ASSUME NEW i \in DOMAIN Tail(q), NEW j \in DOMAIN Tail(q), i < j, Alike(Tail(q)[i], Tail(q)[j])
      PROVE  Tail(q)[i].n < Tail(q)[j].n
  <2>1. i + 1 \in DOMAIN q /\ j + 1 \in DOMAIN q /\ i + 1 < j + 1
    BY <1>1, <1>2, <1>3
  <2> QED BY <1>1, <1>2, <1>3, <2>1 DEF Ascending
<1>4. ASSUME NEW i \in DOMAIN Tail(q), Alike(Head(q), Tail(q)[i]) PROVE Head(q).n < Tail(q)[i].n
  <2>1. i + 1 \in DOMAIN q /\ 1 < i + 1 /\ Tail(q)[i] = q[i + 1]
    BY <1>1, <1>2
  <2> QED BY <1>1, <1>2, <1>4, <2>1 DEF Ascending
<1> QED BY <1>3, <1>4 DEF Ascending, Range

-----------------------------------------------------------------------------
(* What a log has stored: each report once.                                *)
Counted(log) ==
    log \in Log /\ IsFiniteSet(Stored(log)) /\ Cardinality(Stored(log)) = Entries(log)

LEMMA StoredRange ==
    ASSUME NEW log PROVE Stored(log) = {x.n : x \in Range(log.before) \cup Range(log.after)}
BY DEF Stored, Range

LEMMA OneMore ==
    \A a, b \in Nat : (a + 1) + b = (a + b) + 1 /\ a + (b + 1) = (a + b) + 1
OBVIOUS

LEMMA AddStores ==
    ASSUME NEW log \in Log, NEW entry \in Entry
    PROVE  /\ AddUpdate(log, entry) \in Log
           /\ Stored(AddUpdate(log, entry)) = Stored(log) \cup {entry.n}
           /\ Entries(AddUpdate(log, entry)) = Entries(log) + 1
<1> DEFINE half == log.half \/ Says(entry.event, BeforeHalftime)
           done == log.done \/ Says(entry.event, Active)
           new == AddUpdate(log, entry)
<1>1. new = [before |-> IF half THEN log.before ELSE Insert(log.before, entry),
             after  |-> IF half THEN Insert(log.after, entry) ELSE log.after,
             half   |-> half, done |-> done]
  BY DEF AddUpdate
<1>2. half \in BOOLEAN /\ done \in BOOLEAN
  BY DEF Log
<1>3. log.before \in Seq(Entry) /\ log.after \in Seq(Entry)
  BY DEF Log
<1> HIDE DEF half, done, new
<1>4. /\ new.before \in Seq(Entry) /\ new.after \in Seq(Entry)
      /\ Range(new.before) \cup Range(new.after) = (Range(log.before) \cup Range(log.after)) \cup {entry}
      /\ Len(new.before) + Len(new.after) = (Len(log.before) + Len(log.after)) + 1
  <2>0. Len(log.before) \in Nat /\ Len(log.after) \in Nat
    BY <1>3
  <2>1. CASE half
    <3>1. new.before = log.before /\ new.after = Insert(log.after, entry)
      BY <1>1, <2>1
    <3>2. /\ Insert(log.after, entry) \in Seq(Entry)
          /\ Len(Insert(log.after, entry)) = Len(log.after) + 1
          /\ Range(Insert(log.after, entry)) = Range(log.after) \cup {entry}
      BY <1>3, InsertStores
    <3>a. Len(new.after) = Len(log.after) + 1
      BY <3>1, <3>2
    <3>b. Len(new.before) = Len(log.before)
      BY <3>1
    <3>3. Len(new.before) + Len(new.after) = (Len(log.before) + Len(log.after)) + 1
      BY <2>0, <3>a, <3>b, OneMore, Zenon
    <3>4. Range(new.before) \cup Range(new.after) = (Range(log.before) \cup Range(log.after)) \cup {entry}
      BY <3>1, <3>2
    <3> QED BY <1>3, <3>1, <3>2, <3>3, <3>4
  <2>2. CASE ~half
    <3>1. new.after = log.after /\ new.before = Insert(log.before, entry)
      BY <1>1, <2>2
    <3>2. /\ Insert(log.before, entry) \in Seq(Entry)
          /\ Len(Insert(log.before, entry)) = Len(log.before) + 1
          /\ Range(Insert(log.before, entry)) = Range(log.before) \cup {entry}
      BY <1>3, InsertStores
    <3>a. Len(new.before) = Len(log.before) + 1
      BY <3>1, <3>2
    <3>b. Len(new.after) = Len(log.after)
      BY <3>1
    <3>3. Len(new.before) + Len(new.after) = (Len(log.before) + Len(log.after)) + 1
      BY <2>0, <3>a, <3>b, OneMore, Zenon
    <3>4. Range(new.before) \cup Range(new.after) = (Range(log.before) \cup Range(log.after)) \cup {entry}
      BY <3>1, <3>2
    <3> QED BY <1>3, <3>1, <3>2, <3>3, <3>4
  <2> QED BY <2>1, <2>2
<1>5. new \in Log
  BY <1>1, <1>2, <1>4 DEF Log
<1>6. Stored(new) = Stored(log) \cup {entry.n}
  BY <1>4, StoredRange
<1>7. Entries(new) = Entries(log) + 1
  BY <1>4 DEF Entries
<1> QED BY <1>5, <1>6, <1>7 DEF new

LEMMA AddCounts ==
    ASSUME NEW log, Counted(log), NEW entry \in Entry, entry.n \notin Stored(log)
    PROVE  Counted(AddUpdate(log, entry))
<1>1. /\ AddUpdate(log, entry) \in Log
      /\ Stored(AddUpdate(log, entry)) = Stored(log) \cup {entry.n}
      /\ Entries(AddUpdate(log, entry)) = Entries(log) + 1
  BY AddStores DEF Counted
<1>2. /\ IsFiniteSet(Stored(log) \cup {entry.n})
      /\ Cardinality(Stored(log) \cup {entry.n}) = Cardinality(Stored(log)) + 1
  BY FS_AddElement DEF Counted
<1> QED BY <1>1, <1>2 DEF Counted

LEMMA EmptyCounts == Counted(NoUpdates) /\ Stored(NoUpdates) = {}
<1>1. Stored(NoUpdates) = {}
  BY DEF Stored, NoUpdates
<1>2. Entries(NoUpdates) = 0
  BY DEF Entries, NoUpdates
<1>3. NoUpdates \in Log
  BY DEF NoUpdates, Log
<1> QED BY <1>1, <1>2, <1>3, FS_EmptySet DEF Counted

-----------------------------------------------------------------------------
(* Numbers stored, coming and published, of one reporter and game at one   *)
(* client, and the last that was published when it joined.                 *)
Complete(stored, coming, all, start, receives, subscribed) ==
    /\ stored \subseteq all /\ coming \subseteq all
    /\ \A n \in stored, c \in coming : n < c
    /\ \A n \in stored, k \in all : start < k /\ k < n => k \in stored
    /\ receives => \A n \in coming, k \in all : start < k /\ k < n => k \in stored \cup coming
    /\ receives /\ subscribed => \A k \in all : start < k => k \in stored \cup coming

(* What can happen to them: the client empties the game, ...               *)
LEMMA CompleteForget ==
    ASSUME NEW S, NEW C \in SUBSET Nat, NEW P \in SUBSET Nat, NEW f, NEW a, NEW b,
           Complete(S, C, P, f, a, b), NEW last \in Nat, \A k \in P : k <= last
    PROVE  Complete({}, C, P, last, a, b)
BY DEF Complete

(* ... it subscribes, ...                                                  *)
LEMMA CompleteSubscribe ==
    ASSUME NEW S, NEW C \in SUBSET Nat, NEW P \in SUBSET Nat, NEW f, NEW a, NEW b, NEW c,
           Complete(S, C, P, f, a, b), NEW last \in Nat, \A k \in P : k <= last
    PROVE  Complete(S, C, P, last, a, c)
BY DEF Complete

(* ... it stores what comes first, ...                                     *)
LEMMA CompleteAdd ==
    ASSUME NEW S, NEW C, NEW P \in SUBSET Nat, NEW f \in Nat, NEW b,
           Complete(S, C, P, f, TRUE, b), NEW D, NEW n, C = {n} \cup D, \A d \in D : n < d
    PROVE  Complete(S \cup {n}, D, P, f, TRUE, b)
<1>1. n \in Nat /\ D \in SUBSET Nat /\ S \in SUBSET Nat
  BY DEF Complete
<1> QED BY <1>1 DEF Complete

(* ... a report is published, ...                                          *)
LEMMA CompletePublish ==
    ASSUME NEW S, NEW C, NEW P \in SUBSET Nat, NEW f \in Nat, NEW a, NEW b,
           Complete(S, C, P, f, a, b), NEW n \in Nat, \A k \in P : k < n
    PROVE  /\ b => Complete(S, C \cup {n}, P \cup {n}, f, a, b)
           /\ ~b => Complete(S, C, P \cup {n}, f, a, b)
<1>1. C \in SUBSET Nat /\ S \in SUBSET Nat
  BY DEF Complete
<1>2. \A k \in P : ~(n < k) /\ ~(n = k) /\ (f < n => TRUE)
  OBVIOUS
<1> QED BY <1>1, <1>2 DEF Complete

(* ... the subscription or the listener ends, ...                          *)
LEMMA CompleteEnd ==
    ASSUME NEW S, NEW C, NEW P, NEW f, NEW a, NEW b, NEW c, NEW d,
           Complete(S, C, P, f, a, b), c => a, d => b
    PROVE  Complete(S, C, P, f, c, d)
BY DEF Complete

(* ... or what was coming is lost.                                         *)
LEMMA CompleteLose ==
    ASSUME NEW S, NEW C, NEW P, NEW f, NEW a, NEW b, NEW c, NEW d, NEW D \in SUBSET C,
           Complete(S, C, P, f, a, b), ~c \/ (D = {} /\ ~d)
    PROVE  Complete(S, D, P, f, c, d)
BY DEF Complete

(* Of its own reports a client has all since it last emptied the game, but *)
(* for the one it is about to store.                                       *)
OwnComplete(stored, last, start, storing) ==
    /\ stored \subseteq 1..last
    /\ storing => last > 0 /\ last \notin stored
    /\ \A n \in 1..last : start < n => n \in stored \/ (storing /\ n = last)

-----------------------------------------------------------------------------
(* The invariant.  The variables have their types.                         *)
Places == {"prompt", "send", "store", "print", "crashed"} \cup Unlocked

TypesOK ==
    /\ kpc \in [User -> Places]
    /\ game \in [User -> SUBSET Game]
    /\ left \in [User -> Seq(Original)]
    /\ subscriptions \in [User -> SUBSET Game]
    /\ isConnected \in [User -> BOOLEAN]
    /\ Games \in [User -> [Game -> [User -> Log]]]
    /\ hand \in [User -> SUBSET ParsedMessage]
    /\ open \in [User -> BOOLEAN]
    /\ subs \in [User -> Seq(Game)]
    /\ listed \in [Game -> SUBSET User]
    /\ toServer \in [User -> Seq(Request)]
    /\ toClient \in [User -> Seq(SentMessage)]
    /\ reported \in [User -> [Game -> Nat]]
    /\ published \in [User -> [Game -> SUBSET (Nat \ {0})]]
    /\ from \in [User -> [Game -> [User -> Nat]]]
    /\ commands \in [User -> Nat]
    /\ logins \in 0..MaxLogins

(* What is set at which statement, and of which connection.                *)
Placed(u) ==
    /\ kpc[u] \notin {"prompt", "crashed"} => \E g \in Game : game[u] = {g}
    /\ kpc[u] \in {"send", "store"} => left[u] # <<>>
    /\ \A m \in hand[u] : hand[u] = {m} /\ m.by # u
    /\ kpc[u] = "crashed" => hand[u] = {}
    /\ ~open[u] => subs[u] = <<>> /\ toServer[u] = <<>>
    /\ open[u] => isConnected[u]
    /\ commands[u] <= MaxCommands[u]

PlaceOK == \A u \in User : Placed(u)

(* A channel lists those only that hold a subscription.                    *)
HeldOK == \A u \in User, g \in Game : Subscribed(u, g) => Holds(u, g)

(* Reports reach the server in the order of their numbers.                 *)
IsSend(r) == r[1] = "SEND"

AscendingSends(q) ==
    \A i, j \in DOMAIN q :
        i < j /\ IsSend(q[i]) /\ IsSend(q[j]) /\ q[i][2].game = q[j][2].game => q[i][2].n < q[j][2].n

(* A report on its way to the server is w's, and newer than those that     *)
(* were published.                                                         *)
Fresh(r, w, sent, accepted) ==
    IsSend(r) => /\ r[2].by = w /\ r[2].n <= sent[r[2].game]
                 /\ \A k \in accepted[r[2].game] : k < r[2].n

Sends(w) ==
    /\ \A g \in Game : published[w][g] \subseteq 1..reported[w][g]
    /\ \A r \in Range(toServer[w]) : Fresh(r, w, reported[w], published[w])
    /\ AscendingSends(toServer[w])

SendOK == \A w \in User : Sends(w)

(* Published reports reach a client in the order of their numbers.         *)
Queued(u) ==
    /\ \A m \in Range(toClient[u]) \cup hand[u] : m.n \in published[m.by][m.game]
    /\ \A m \in hand[u], x \in Range(toClient[u]) : Alike(m, x) => m.n < x.n
    /\ Ascending(toClient[u])

QueueOK == \A u \in User : Queued(u)

(* What the clients have stored.                                           *)
StoredOK == \A u, w \in User, g \in Game : Counted(Games[u][g][w])

Arrives(u, g, w) ==
    Complete(Stored(Games[u][g][w]), Coming(u, g, w), published[w][g], from[u][g][w],
             kpc[u] # "crashed", Subscribed(u, g))

ArriveOK == \A u, w \in User, g \in Game : u # w => Arrives(u, g, w)

OwnOK ==
    \A u \in User, g \in Game :
        OwnComplete(Stored(Games[u][g][u]), reported[u][g], from[u][g][u],
                    kpc[u] = "store" /\ game[u] = {g})

(* The subscriptions that the server has, counted from one frame on their  *)
(* way to the next, up to those that the client has.                       *)
Weight(r) == IF r[1] = "SUBSCRIBE" THEN 1 ELSE IF r[1] = "UNSUBSCRIBE" THEN -1 ELSE 0

Balanced(held, q, ended, last) ==
    \E count \in [0..Len(q) -> Nat] :
        /\ count[0] = held
        /\ \A i \in 1..Len(q) : count[i] = count[i - 1] + Weight(q[i])
        /\ ended \/ count[Len(q)] = last

Listed(u) == Cardinality(subscriptions[u]) - (IF kpc[u] = "erase" THEN 1 ELSE 0)

Balances(u) ==
    /\ kpc[u] = "erase" => game[u] \subseteq subscriptions[u]
    /\ open[u] => Balanced(Len(subs[u]), toServer[u], kpc[u] = "crashed", Listed(u))

BalanceOK == \A u \in User : Balances(u)

OInv == TypesOK /\ PlaceOK /\ HeldOK /\ SendOK /\ QueueOK /\ StoredOK /\ ArriveOK /\ OwnOK /\ BalanceOK

-----------------------------------------------------------------------------
(* Facts about the parts of the state.                                     *)
LEMMA TheOne == \A x : The({x}) = x
  BY DEF The

LEMMA FileEvents ==
    ASSUME NEW f \in File
    PROVE  /\ ParseEventsFile(f) \in Seq(Original)
           /\ f.events # <<>> => ParseEventsFile(f) # <<>>
           /\ f.game \in Game
<1>1. f.events \in Seq(Range(f.events)) /\ f.game \in Game
  BY ReportsAssumption
<1>2. DOMAIN f.events = 1..Len(f.events) /\ Len(f.events) \in Nat
  BY <1>1
<1> DEFINE q == ParseEventsFile(f)
<1>3. q = [i \in 1..Len(f.events) |-> ParseEvent(f.events[i])]
  BY <1>2 DEF ParseEventsFile
<1>4. \A i \in 1..Len(f.events) : q[i] \in Original
  BY <1>3 DEF Original, Range
<1> DEFINE value(i) == ParseEvent(f.events[i])
<1>5. q = [i \in 1..Len(f.events) |-> value(i)] /\ \A i \in 1..Len(f.events) : value(i) \in Original
  BY <1>3, <1>4
<1> HIDE DEF q, value
<1>6. q \in Seq(Original) /\ Len(q) = Len(f.events)
  BY <1>2, <1>5
<1>7. f.events # <<>> => Len(f.events) # 0
  BY <1>1
<1>8. q # <<>> \/ Len(f.events) = 0
  BY <1>6
<1> QED BY <1>1, <1>6, <1>7, <1>8 DEF q

LEMMA RequestForm ==
    /\ \A g \in Game : <<"SUBSCRIBE", g>> \in Request
    /\ <<"UNSUBSCRIBE">> \in Request
    /\ \A m \in SentMessage : <<"SEND", m>> \in Request
    /\ \A r \in Request : /\ r[1] = "SUBSCRIBE" => r[2] \in Game
                          /\ r[1] = "SEND" => r[2] \in SentMessage
<1>1. ASSUME NEW r \in Request
      PROVE  (r[1] = "SUBSCRIBE" => r[2] \in Game) /\ (r[1] = "SEND" => r[2] \in SentMessage)
  <2>1. CASE \E g \in Game : r = <<"SUBSCRIBE", g>>
    BY <2>1
  <2>2. CASE r = <<"UNSUBSCRIBE">>
    BY <2>2
  <2>3. CASE \E m \in SentMessage : r = <<"SEND", m>>
    BY <2>3
  <2> QED BY <2>1, <2>2, <2>3 DEF Request
<1> QED BY <1>1 DEF Request

(* The last number published is at least each of them.                     *)
LEMMA LatestIs ==
    ASSUME TypesOK, SendOK, NEW u \in User, NEW g \in Game, NEW w \in User
    PROVE  /\ Latest(u, g, w) \in Nat
           /\ w = u => Latest(u, g, w) = reported[u][g]
           /\ w # u => \A k \in published[w][g] : k <= Latest(u, g, w)
<1>1. reported[u][g] \in Nat /\ reported[w][g] \in Nat /\ published[w][g] \in SUBSET Nat
  BY DEF TypesOK
<1>2. \A k \in published[w][g] : k <= reported[w][g]
  BY DEF SendOK, Sends
<1>3. CASE w = u
  BY <1>1, <1>3 DEF Latest
<1>4. CASE w # u /\ published[w][g] = {}
  BY <1>4 DEF Latest
<1>5. CASE w # u /\ published[w][g] # {}
  <2>1. Max(published[w][g]) \in published[w][g] /\ \A k \in published[w][g] : k <= Max(published[w][g])
    BY <1>1, <1>2, <1>5, Greatest
  <2> QED BY <1>1, <1>5, <2>1 DEF Latest
<1> QED BY <1>3, <1>4, <1>5

LEMMA TransmitTypes ==
    ASSUME TypesOK, NEW u \in User, NEW r \in Request, Transmit(u, r)
    PROVE  toServer' \in [User -> Seq(Request)] /\ toClient' = toClient
<1>1. Append(toServer[u], r) \in Seq(Request)
  BY DEF TypesOK
<1> QED BY <1>1 DEF Transmit, TypesOK

LEMMA AtPlace ==
    ASSUME PlaceOK, NEW u \in User, kpc[u] \notin {"prompt", "crashed"}
    PROVE  \E g \in Game : game[u] = {g} /\ The(game[u]) = g
<1>1. PICK g \in Game : game[u] = {g}
  BY DEF PlaceOK, Placed
<1>2. The(game[u]) = g
  BY <1>1, TheOne
<1> QED BY <1>1, <1>2

(* Emptying a game: the table and the numbers from which reports count.    *)
LEMMA ForgetTypes ==
    ASSUME TypesOK, SendOK, NEW u \in User, NEW g \in Game, The(game[u]) = g, ForgetGame(u)
    PROVE  /\ Games' \in [User -> [Game -> [User -> Log]]]
           /\ from' \in [User -> [Game -> [User -> Nat]]]
           /\ \A v \in User, h \in Game, w \in User :
                 /\ Games'[v][h][w] = IF v = u /\ h = g THEN NoUpdates ELSE Games[v][h][w]
                 /\ from'[v][h][w] = IF v = u /\ h = g THEN Latest(u, g, w) ELSE from[v][h][w]
<1> DEFINE empty == [w \in User |-> NoUpdates]
           last == [w \in User |-> Latest(u, g, w)]
<1>1. empty \in [User -> Log]
  BY EmptyCounts DEF Counted
<1>2. last \in [User -> Nat]
  BY LatestIs
<1>3. Games' = [Games EXCEPT ![u][g] = empty] /\ from' = [from EXCEPT ![u][g] = last]
  BY DEF ForgetGame
<1>4. Games \in [User -> [Game -> [User -> Log]]] /\ from \in [User -> [Game -> [User -> Nat]]]
  BY DEF TypesOK
<1>5. (\A w \in User : empty[w] = NoUpdates) /\ \A w \in User : last[w] = Latest(u, g, w)
  OBVIOUS
<1> HIDE DEF empty, last
<1>6. /\ Games' \in [User -> [Game -> [User -> Log]]]
      /\ \A v \in User, h \in Game : Games'[v][h] = IF v = u /\ h = g THEN empty ELSE Games[v][h]
  BY <1>1, <1>3, <1>4, Put2
<1>7. /\ from' \in [User -> [Game -> [User -> Nat]]]
      /\ \A v \in User, h \in Game : from'[v][h] = IF v = u /\ h = g THEN last ELSE from[v][h]
  BY <1>2, <1>3, <1>4, Put2
<1>8. ASSUME NEW v \in User, NEW h \in Game, NEW w \in User
      PROVE  /\ Games'[v][h][w] = IF v = u /\ h = g THEN NoUpdates ELSE Games[v][h][w]
             /\ from'[v][h][w] = IF v = u /\ h = g THEN Latest(u, g, w) ELSE from[v][h][w]
  <2>1. CASE v = u /\ h = g
    BY <1>5, <1>6, <1>7, <2>1
  <2>2. CASE ~(v = u /\ h = g)
    BY <1>6, <1>7, <2>2
  <2> QED BY <2>1, <2>2
<1> QED BY <1>6, <1>7, <1>8

(* Storing an event.                                                       *)
LEMMA AddTypes ==
    ASSUME TypesOK, NEW u \in User, NEW g \in Game, NEW w \in User, NEW n \in Nat \ {0},
           NEW e \in Original \cup Copied, AddTo(u, g, w, n, e)
    PROVE  /\ Games' \in [User -> [Game -> [User -> Log]]]
           /\ \A v \in User, h \in Game, x \in User :
                 Games'[v][h][x] = IF v = u /\ h = g /\ x = w
                                   THEN AddUpdate(Games[u][g][w], [n |-> n, event |-> e])
                                   ELSE Games[v][h][x]
<1> DEFINE entry == [n |-> n, event |-> e]
           new == AddUpdate(Games[u][g][w], entry)
<1>1. entry \in Entry
  BY DEF Entry
<1>2. Games[u][g][w] \in Log /\ Games \in [User -> [Game -> [User -> Log]]]
  BY SMTT(30) DEF TypesOK
<1>3. Games' = [Games EXCEPT ![u][g][w] = new]
  BY DEF AddTo
<1> HIDE DEF entry
<1>4. new \in Log
  BY <1>1, <1>2, AddStores
<1> HIDE DEF new
<1> DEFINE row == [Games[u][g] EXCEPT ![w] = new]
<1>5. row \in [User -> Log] /\ \A x \in User : row[x] = IF x = w THEN new ELSE Games[u][g][x]
  BY <1>2, <1>4
<1>6. Games' = [Games EXCEPT ![u][g] = row]
  BY <1>3
<1> HIDE DEF row
<1>7. /\ Games' \in [User -> [Game -> [User -> Log]]]
      /\ \A v \in User, h \in Game : Games'[v][h] = IF v = u /\ h = g THEN row ELSE Games[v][h]
  BY <1>2, <1>5, <1>6, Put2, SMTT(30)
<1>8. ASSUME NEW v \in User, NEW h \in Game, NEW x \in User
      PROVE  Games'[v][h][x] = IF v = u /\ h = g /\ x = w THEN new ELSE Games[v][h][x]
  <2>1. CASE v = u /\ h = g
    BY <1>5, <1>7, <2>1
  <2>2. CASE ~(v = u /\ h = g)
    BY <1>7, <2>2
  <2> QED BY <2>1, <2>2
<1> QED BY <1>7, <1>8 DEF new, entry

(* The first frames of a set of games, as a list.                          *)
LEMMA ListOfSet ==
    ASSUME NEW S, IsFiniteSet(S)
    PROVE  /\ SetToSeq(S) \in Seq(S) /\ Len(SetToSeq(S)) = Cardinality(S)
           /\ \A x \in S : \E i \in DOMAIN SetToSeq(S) : SetToSeq(S)[i] = x
<1>1. Cardinality(S) \in Nat
  BY FS_CardinalityType
<1>2. \E f \in [1..Cardinality(S) -> S] : IsInjective(f)
  <2>1. PICK f : f \in Bijection(1..Cardinality(S), S)
    BY FS_NatBijection, FS_CardinalityType DEF ExistsBijection
  <2> QED BY <2>1 DEF IsInjective, Bijection, Injection
<1>3. SetToSeq(S) \in [1..Cardinality(S) -> S] /\ IsInjective(SetToSeq(S))
  BY <1>2 DEF SetToSeq
<1>4. SetToSeq(S) \in Injection(1..Cardinality(S), S)
  BY <1>3 DEF Injection
<1>5. Cardinality(1..Cardinality(S)) = Cardinality(S)
  BY <1>1, FS_Interval
<1>6. SetToSeq(S) \in Surjection(1..Cardinality(S), S)
  BY <1>4, <1>5, FS_Injection
<1>7. \A x \in S : \E i \in DOMAIN SetToSeq(S) : SetToSeq(S)[i] = x
  BY <1>3, <1>6 DEF Surjection
<1> QED BY <1>1, <1>3, <1>7

(* The reporter stores its report under the number it sent it with.        *)
Stores(u) ==
    \E g \in Game : /\ game[u] = {g} /\ The(game[u]) = g
                    /\ AddTo(u, g, u, reported[u][g], Head(left[u]))
                    /\ reported[u][g] \in Nat \ {0} /\ Head(left[u]) \in Original

LEMMA StoreStores ==
    ASSUME TypesOK, PlaceOK, OwnOK, NEW u \in User, Store(u) PROVE Stores(u)
<1>1. PICK g \in Game : game[u] = {g} /\ The(game[u]) = g
  BY AtPlace DEF Store, KeyboardAt
<1>2. left[u] \in Seq(Original) /\ left[u] # <<>> /\ reported[u][g] \in Nat
  BY DEF Store, KeyboardAt, PlaceOK, Placed, TypesOK
<1>3. Head(left[u]) \in Original
  BY <1>2
<1>4. reported[u][g] > 0
  BY <1>1 DEF OwnOK, OwnComplete, Store, KeyboardAt
<1>5. AddTo(u, g, u, reported[u][g], Head(left[u]))
  BY <1>1 DEF Store
<1> QED BY <1>1, <1>2, <1>3, <1>4, <1>5 DEF Stores

-----------------------------------------------------------------------------
(* Every step keeps the types.                                             *)
LEMMA InitTypes == Init => TypesOK
<1> SUFFICES ASSUME Init PROVE TypesOK
  OBVIOUS
<1>1. NoUpdates \in Log
  BY EmptyCounts DEF Counted
<1>2. Games \in [User -> [Game -> [User -> Log]]]
  BY <1>1 DEF Init, NoLogs
<1>3. SetToSeq(Game) \in Seq(Game) /\ Len(SetToSeq(Game)) = Cardinality(Game)
  BY ListOfSet, ReportsAssumption
<1>4. subs \in [User -> Seq(Game)]
  BY <1>3 DEF Init
<1>5. from \in [User -> [Game -> [User -> Nat]]]
  BY DEF Init
<1>6. logins \in 0..MaxLogins /\ listed \in [Game -> SUBSET User]
  BY ReportsAssumption DEF Init
<1> QED BY <1>2, <1>4, <1>5, <1>6 DEF Init, TypesOK, Places

LEMMA TypeTypes ==
    ASSUME TypesOK, NEW u \in User, Type(u) PROVE TypesOK'
<1>1. ASSUME NEW g \in Game, Join(u, g) PROVE TypesOK'
  <2>1. toServer' \in [User -> Seq(Request)] /\ toClient' = toClient
    <3>1. <<"SUBSCRIBE", g>> \in Request
      BY RequestForm
    <3> QED BY <1>1, <3>1, TransmitTypes DEF Join, SendFails, network, TypesOK
  <2>2. /\ kpc' \in [User -> Places] /\ game' \in [User -> SUBSET Game]
        /\ subscriptions' \in [User -> SUBSET Game] /\ commands' \in [User -> Nat]
    <3>1. \/ kpc' = [kpc EXCEPT ![u] = "reset"] /\ game' = [game EXCEPT ![u] = {g}]
          \/ kpc' = [kpc EXCEPT ![u] = "prompt"] /\ game' = game
      BY <1>1 DEF Join, KeyboardAt
    <3>2. kpc' \in [User -> Places]
      BY <3>1 DEF TypesOK, Places, Unlocked
    <3>3. game' \in [User -> SUBSET Game]
      <4>1. {g} \in SUBSET Game /\ game \in [User -> SUBSET Game]
        BY DEF TypesOK
      <4> QED BY <3>1, <4>1, Put1
    <3>4. commands' \in [User -> Nat]
      BY <1>1 DEF Join, Command, TypesOK
    <3>5. subscriptions' \in [User -> SUBSET Game]
      BY <1>1 DEF Join, TypesOK
    <3> QED BY <3>2, <3>3, <3>4, <3>5
  <2> QED BY <1>1, <2>1, <2>2 DEF Join, Command, TypesOK, client, server, history
<1>2. ASSUME NEW g \in Game, Exit(u, g) PROVE TypesOK'
  <2>1. toServer' \in [User -> Seq(Request)] /\ toClient' = toClient
    <3>1. <<"UNSUBSCRIBE">> \in Request
      BY RequestForm
    <3> QED BY <1>2, <3>1, TransmitTypes DEF Exit, SendFails, network, TypesOK
  <2>2. /\ kpc' \in [User -> Places] /\ game' \in [User -> SUBSET Game]
        /\ commands' \in [User -> Nat]
    <3>1. \/ kpc' = [kpc EXCEPT ![u] = "erase"] /\ game' = [game EXCEPT ![u] = {g}]
          \/ kpc' = [kpc EXCEPT ![u] = "prompt"] /\ game' = game
      BY <1>2 DEF Exit, KeyboardAt
    <3>2. kpc' \in [User -> Places]
      BY <3>1 DEF TypesOK, Places, Unlocked
    <3>3. game' \in [User -> SUBSET Game]
      <4>1. {g} \in SUBSET Game /\ game \in [User -> SUBSET Game]
        BY DEF TypesOK
      <4> QED BY <3>1, <4>1, Put1
    <3>4. commands' \in [User -> Nat]
      BY <1>2 DEF Exit, Command, TypesOK
    <3>5. subscriptions' \in [User -> SUBSET Game]
      BY <1>2 DEF Exit, TypesOK
    <3> QED BY <3>2, <3>3, <3>4, <3>5
  <2> QED BY <1>2, <2>1, <2>2 DEF Exit, Command, TypesOK, client, server, history
<1>3. ASSUME NEW g \in Game, NEW w \in User, Summarise(u, g, w) PROVE TypesOK'
  <2>1. /\ kpc' \in [User -> Places] /\ game' \in [User -> SUBSET Game]
        /\ commands' \in [User -> Nat]
    <3>1. kpc' = [kpc EXCEPT ![u] = "getBefore"] /\ "getBefore" \in Places
      BY <1>3 DEF Summarise, KeyboardAt, Places, Unlocked
    <3>2. kpc' \in [User -> Places]
      BY <3>1 DEF TypesOK
    <3>3. game' \in [User -> SUBSET Game]
      BY <1>3 DEF Summarise, TypesOK
    <3>4. commands' \in [User -> Nat]
      BY <1>3, SMTT(30) DEF Summarise, Command, TypesOK
    <3> QED BY <3>2, <3>3, <3>4
  <2> QED BY <1>3, <2>1 DEF Summarise, Command, TypesOK, client, server, network, history
<1>4. ASSUME NEW f \in File, Report(u, f) PROVE TypesOK'
  <2>1. ParseEventsFile(f) \in Seq(Original) /\ f.game \in Game
    BY FileEvents
  <2>2. /\ kpc' \in [User -> Places] /\ game' \in [User -> SUBSET Game]
        /\ commands' \in [User -> Nat] /\ left' \in [User -> Seq(Original)]
    BY <1>4, <2>1 DEF Report, Command, KeyboardAt, TypesOK, Places
  <2> QED BY <1>4, <2>2 DEF Report, Command, TypesOK, client, server, network, history
<1>5. ASSUME Login(u) PROVE TypesOK'
  <2>1. /\ isConnected' \in [User -> BOOLEAN] /\ open' \in [User -> BOOLEAN]
        /\ subscriptions' \in [User -> SUBSET Game]
    BY <1>5 DEF Login, TypesOK
  <2>2. logins' \in 0..MaxLogins
    BY <1>5, ReportsAssumption DEF Login, TypesOK
  <2> QED BY <1>5, <2>1, <2>2 DEF Login, TypesOK, network, history
<1> QED BY <1>1, <1>2, <1>3, <1>4, <1>5 DEF Type

LEMMA KeyboardTypes ==
    ASSUME TypesOK, PlaceOK, SendOK, OwnOK, NEW u \in User, Keyboard(u) PROVE TypesOK'
<1>1. ASSUME Send(u) PROVE TypesOK'
  <2>1. PICK g \in Game : The(game[u]) = g
    BY <1>1, AtPlace DEF Send, KeyboardAt
  <2>2. left[u] \in Seq(Original) /\ left[u] # <<>> /\ reported[u][g] \in Nat
    BY <1>1 DEF Send, KeyboardAt, PlaceOK, Placed, TypesOK
  <2>3. Head(left[u]) \in Original
    BY <2>2
  <2> DEFINE m == ConstructEventFrame(u, Head(left[u]))
  <2>4. m \in SentMessage
    BY <2>1, <2>2, <2>3 DEF ConstructEventFrame, SentMessage
  <2>5. <<"SEND", m>> \in Request
    BY <2>4, RequestForm
  <2> HIDE DEF m
  <2>6. toServer' \in [User -> Seq(Request)] /\ toClient' = toClient
    BY <1>1, <2>5, TransmitTypes DEF Send, SendFails, network, TypesOK, m
  <2>7. /\ kpc' \in [User -> Places] /\ game' \in [User -> SUBSET Game]
        /\ left' \in [User -> Seq(Original)]
    <3>1. \/ /\ kpc' = [kpc EXCEPT ![u] = "store"]
             /\ game' = game /\ left' = left
          \/ /\ kpc' = [kpc EXCEPT ![u] = "prompt"]
             /\ game' = [game EXCEPT ![u] = {}] /\ left' = [left EXCEPT ![u] = <<>>]
      BY <1>1 DEF Send, KeyboardAt
    <3>2. kpc' \in [User -> Places]
      BY <3>1 DEF TypesOK, Places
    <3>3. game' \in [User -> SUBSET Game]
      BY <3>1 DEF TypesOK
    <3>4. left' \in [User -> Seq(Original)]
      <4>0. <<>> \in Seq(Original)
        OBVIOUS
      <4>1. PICK none \in Seq(Original) : none = <<>>
        BY <4>0, Zenon
      <4>2. left' = left \/ left' = [left EXCEPT ![u] = none]
        BY <3>1, <4>1
      <4>3. left \in [User -> Seq(Original)]
        BY DEF TypesOK
      <4> QED BY <4>2, <4>3, Put1
    <3> QED BY <3>2, <3>3, <3>4
  <2>8. reported' \in [User -> [Game -> Nat]]
    <3>1. reported' = reported \/ reported' = [reported EXCEPT ![u][g] = reported[u][g] + 1]
      BY <1>1, <2>1 DEF Send
    <3>2. reported[u][g] + 1 \in Nat /\ reported \in [User -> [Game -> Nat]]
      BY <2>2 DEF TypesOK
    <3>3. \A x \in Nat : [reported EXCEPT ![u][g] = x] \in [User -> [Game -> Nat]]
      BY <3>2
    <3> QED BY <3>1, <3>2, <3>3
  <2> QED BY <1>1, <2>6, <2>7, <2>8 DEF Send, TypesOK, client, server, bounds
<1>2. ASSUME Reset(u) PROVE TypesOK'
  <2>1. PICK g \in Game : The(game[u]) = g
    BY <1>2, AtPlace DEF Reset, KeyboardAt
  <2>2. Games' \in [User -> [Game -> [User -> Log]]] /\ from' \in [User -> [Game -> [User -> Nat]]]
    BY <1>2, <2>1, ForgetTypes DEF Reset
  <2>3. kpc' \in [User -> Places] /\ game' \in [User -> SUBSET Game]
    BY <1>2 DEF Reset, KeyboardAt, TypesOK, Places
  <2> QED BY <1>2, <2>2, <2>3 DEF Reset, ForgetGame, TypesOK, server, network, bounds
<1>3. ASSUME Erase(u) PROVE TypesOK'
  <2>1. PICK g \in Game : The(game[u]) = g
    BY <1>3, AtPlace DEF Erase, KeyboardAt
  <2>2. Games' \in [User -> [Game -> [User -> Log]]] /\ from' \in [User -> [Game -> [User -> Nat]]]
    BY <1>3, <2>1, ForgetTypes DEF Erase
  <2>3. /\ kpc' \in [User -> Places] /\ game' \in [User -> SUBSET Game]
        /\ subscriptions' \in [User -> SUBSET Game]
    BY <1>3 DEF Erase, KeyboardAt, TypesOK, Places
  <2> QED BY <1>3, <2>2, <2>3 DEF Erase, ForgetGame, TypesOK, server, network, bounds
<1>4. ASSUME Store(u) PROVE TypesOK'
  <2>1. Stores(u)
    BY <1>4, StoreStores
  <2>2. PICK g \in Game :
          /\ AddTo(u, g, u, reported[u][g], Head(left[u]))
          /\ reported[u][g] \in Nat \ {0} /\ Head(left[u]) \in Original
    BY <2>1 DEF Stores
  <2>3. Games' \in [User -> [Game -> [User -> Log]]]
    BY <2>2, AddTypes
  <2>4. left[u] \in Seq(Original) /\ left[u] # <<>>
    BY <1>4 DEF Store, KeyboardAt, TypesOK, PlaceOK, Placed
  <2>5. Tail(left[u]) \in Seq(Original)
    BY <2>4
  <2>6. /\ kpc' \in [User -> Places] /\ game' \in [User -> SUBSET Game]
        /\ left' \in [User -> Seq(Original)]
    BY <1>4, <2>5 DEF Store, KeyboardAt, TypesOK, Places
  <2> QED BY <1>4, <2>3, <2>6 DEF Store, TypesOK, server, network, history, bounds
<1>5. ASSUME NEW here, NEW next \in Places, NEW part, Read(u, here, next, part) PROVE TypesOK'
  <2>1. kpc' \in [User -> Places]
    BY <1>5 DEF Read, KeyboardAt, TypesOK
  <2> QED BY <1>5, <2>1 DEF Read, TypesOK, client, server, network, history, bounds
<1>6. /\ GetUpdatesBefore(u) => TypesOK'
      /\ GetUpdatesAfter(u) => TypesOK'
      /\ GetIsDone(u) => TypesOK'
      /\ GetIsBeforeHalftime(u) => TypesOK'
  <2>1. "getAfter" \in Places /\ "getDone" \in Places /\ "getHalf" \in Places /\ "print" \in Places
    BY DEF Places, Unlocked
  <2> QED BY <1>5, <2>1 DEF GetUpdatesBefore, GetUpdatesAfter, GetIsDone, GetIsBeforeHalftime
<1>7. ASSUME WriteSummary(u) PROVE TypesOK'
  <2>1. kpc' \in [User -> Places] /\ game' \in [User -> SUBSET Game]
    BY <1>7 DEF WriteSummary, KeyboardAt, TypesOK, Places
  <2> QED BY <1>7, <2>1 DEF WriteSummary, TypesOK, client, server, network, history, bounds
<1> QED BY <1>1, <1>2, <1>3, <1>4, <1>6, <1>7 DEF Keyboard

LEMMA ListenerTypes ==
    ASSUME TypesOK, PlaceOK, NEW u \in User, Listener(u) PROVE TypesOK'
<1>1. ASSUME Receive(u) PROVE TypesOK'
  <2>1. toClient[u] \in Seq(SentMessage) /\ toClient[u] # <<>>
    BY <1>1 DEF Receive, TypesOK
  <2>2. Tail(toClient[u]) \in Seq(SentMessage) /\ Head(toClient[u]) \in SentMessage
    BY <2>1
  <2> DEFINE m == Head(toClient[u])
             taken == IF m.by = u THEN {} ELSE {[m EXCEPT !.event = ParseToEvent(@)]}
  <2>3. [m EXCEPT !.event = ParseToEvent(@)] \in ParsedMessage
    <3>1. m.event \in Original
      BY <2>2 DEF SentMessage
    <3>2. ParseToEvent(m.event) \in Copied
      BY <3>1 DEF Copied
    <3> QED BY <2>2, <3>2 DEF SentMessage, ParsedMessage
  <2>4. taken \in SUBSET ParsedMessage
    BY <2>3
  <2>5. hand' = [hand EXCEPT ![u] = taken] /\ toClient' = [toClient EXCEPT ![u] = Tail(toClient[u])]
    BY <1>1 DEF Receive
  <2> HIDE DEF m, taken
  <2>6. hand' \in [User -> SUBSET ParsedMessage]
    BY <2>4, <2>5 DEF TypesOK
  <2>7. toClient' \in [User -> Seq(SentMessage)]
    BY <2>2, <2>5 DEF TypesOK
  <2> QED BY <1>1, <2>6, <2>7 DEF Receive, TypesOK, keyboard, server, history, bounds
<1>2. ASSUME Add(u) PROVE TypesOK'
  <2>1. PICK m \in hand[u] : AddTo(u, m.game, m.by, m.n, m.event)
    BY <1>2 DEF Add
  <2>2. m \in ParsedMessage
    BY <2>1 DEF TypesOK
  <2>3. m.game \in Game /\ m.by \in User /\ m.n \in Nat \ {0} /\ m.event \in Original \cup Copied
    BY <2>2 DEF ParsedMessage
  <2>4. Games' \in [User -> [Game -> [User -> Log]]]
    BY <2>1, <2>3, AddTypes
  <2>5. hand' \in [User -> SUBSET ParsedMessage]
    BY <1>2 DEF Add, TypesOK
  <2> QED BY <1>2, <2>4, <2>5 DEF Add, TypesOK, keyboard, server, network, history, bounds
<1>3. ASSUME Notice(u) PROVE TypesOK'
  <2>1. isConnected' \in [User -> BOOLEAN]
    BY <1>3 DEF Notice, TypesOK
  <2>2. toClient' \in [User -> Seq(SentMessage)]
    <3>1. <<>> \in Seq(SentMessage)
      OBVIOUS
    <3>2. toClient' = [toClient EXCEPT ![u] = <<>>] /\ toClient \in [User -> Seq(SentMessage)]
      BY <1>3 DEF Notice, TypesOK
    <3> QED BY <3>1, <3>2
  <2> QED BY <1>3, <2>1, <2>2 DEF Notice, TypesOK, keyboard, server, history, bounds
<1> QED BY <1>1, <1>2, <1>3 DEF Listener

LEMMA CrashTypes ==
    ASSUME TypesOK, NEW u \in User, Crash(u) PROVE TypesOK'
<1>1. kpc' \in [User -> Places] /\ hand' \in [User -> SUBSET ParsedMessage]
  BY DEF Crash, TypesOK, Places
<1> QED BY <1>1 DEF Crash, TypesOK, server, network, history, bounds

(* What the server takes off the list of frames.                           *)
LEMMA TakeTakes ==
    ASSUME TypesOK, NEW u \in User, NEW command, Take(u, command)
    PROVE  /\ toServer[u] \in Seq(Request) /\ toServer[u] # <<>>
           /\ Head(toServer[u]) \in Request /\ Head(toServer[u])[1] = command
           /\ Tail(toServer[u]) \in Seq(Request)
           /\ toServer' = [toServer EXCEPT ![u] = Tail(toServer[u])]
           /\ toServer' \in [User -> Seq(Request)]
<1>1. toServer[u] \in Seq(Request) /\ toServer[u] # <<>> /\ Head(toServer[u])[1] = command
  BY DEF Take, TypesOK
<1>2. Head(toServer[u]) \in Request /\ Tail(toServer[u]) \in Seq(Request)
  BY <1>1
<1>3. toServer' = [toServer EXCEPT ![u] = Tail(toServer[u])]
  BY DEF Take
<1>4. toServer' \in [User -> Seq(Request)]
  BY <1>2, <1>3 DEF TypesOK
<1> QED BY <1>1, <1>2, <1>3, <1>4

(* A subscription counts the reports of others from the last one on.       *)
LEMMA SubscribeTypes ==
    ASSUME TypesOK, SendOK, NEW u \in User, ServeSubscribe(u)
    PROVE  \E g \in Game :
              /\ g = Head(toServer[u])[2]
              /\ ~Holds(u, g)
              /\ from' \in [User -> [Game -> [User -> Nat]]]
              /\ subs' \in [User -> Seq(Game)]
              /\ subs' = [subs EXCEPT ![u] = Append(subs[u], g)]
              /\ \A v \in User, h \in Game, w \in User :
                    from'[v][h][w] = IF v = u /\ h = g /\ w # u THEN Latest(u, g, w) ELSE from[v][h][w]
<1> DEFINE g == Head(toServer[u])[2]
           last == [w \in User |-> IF w = u THEN from[u][g][u] ELSE Latest(u, g, w)]
<1>1. g \in Game
  <2>1. Head(toServer[u]) \in Request /\ Head(toServer[u])[1] = "SUBSCRIBE"
    BY TakeTakes DEF ServeSubscribe
  <2> QED BY <2>1, RequestForm
<1>2. ~Holds(u, g) /\ subs' = [subs EXCEPT ![u] = Append(subs[u], g)]
  BY DEF ServeSubscribe
<1>3. from' = [from EXCEPT ![u][g] = last]
  BY DEF ServeSubscribe
<1>4. from \in [User -> [Game -> [User -> Nat]]] /\ subs \in [User -> Seq(Game)]
  BY DEF TypesOK
<1> SUFFICES /\ from' \in [User -> [Game -> [User -> Nat]]]
             /\ subs' \in [User -> Seq(Game)]
             /\ \A v \in User, h \in Game, w \in User :
                   from'[v][h][w] = IF v = u /\ h = g /\ w # u THEN Latest(u, g, w) ELSE from[v][h][w]
  BY <1>1, <1>2
<1> HIDE DEF g
<1>5. last \in [User -> Nat]
  BY <1>1, <1>4, LatestIs
<1>6. \A w \in User : last[w] = IF w = u THEN from[u][g][u] ELSE Latest(u, g, w)
  OBVIOUS
<1> HIDE DEF last
<1>7. /\ from' \in [User -> [Game -> [User -> Nat]]]
      /\ \A v \in User, h \in Game : from'[v][h] = IF v = u /\ h = g THEN last ELSE from[v][h]
  BY <1>1, <1>3, <1>4, <1>5, Put2
<1>8. ASSUME NEW v \in User, NEW h \in Game, NEW w \in User
      PROVE  from'[v][h][w] = IF v = u /\ h = g /\ w # u THEN Latest(u, g, w) ELSE from[v][h][w]
  <2>1. CASE v = u /\ h = g
    BY <1>6, <1>7, <2>1
  <2>2. CASE ~(v = u /\ h = g)
    BY <1>7, <2>2
  <2> QED BY <2>1, <2>2
<1>9. subs' \in [User -> Seq(Game)]
  <2>1. Append(subs[u], g) \in Seq(Game)
    BY <1>1, <1>4
  <2> QED BY <1>2, <1>4, <2>1
<1> QED BY <1>7, <1>8, <1>9

(* A report is published and put into the queue of every subscriber.       *)
LEMMA SendTypes ==
    ASSUME TypesOK, NEW u \in User, ServeSend(u)
    PROVE  \E m \in SentMessage :
              /\ m = Head(toServer[u])[2]
              /\ published' \in [User -> [Game -> SUBSET (Nat \ {0})]]
              /\ toClient' \in [User -> Seq(SentMessage)]
              /\ \A w \in User, g \in Game :
                    published'[w][g] = IF w = u /\ g = m.game THEN published[u][m.game] \cup {m.n}
                                       ELSE published[w][g]
              /\ \A v \in User :
                    toClient'[v] = IF Subscribed(v, m.game) THEN Append(toClient[v], m) ELSE toClient[v]
<1> DEFINE m == Head(toServer[u])[2]
           all == published[u][m.game] \cup {m.n}
<1>1. m \in SentMessage
  <2>1. Head(toServer[u]) \in Request /\ Head(toServer[u])[1] = "SEND"
    BY TakeTakes DEF ServeSend
  <2> QED BY <2>1, RequestForm
<1>2. published' = [published EXCEPT ![u][m.game] = all] /\ toClient' = FanOut(m)
  BY DEF ServeSend
<1> SUFFICES /\ published' \in [User -> [Game -> SUBSET (Nat \ {0})]]
             /\ toClient' \in [User -> Seq(SentMessage)]
             /\ \A w \in User, g \in Game :
                    published'[w][g] = IF w = u /\ g = m.game THEN all ELSE published[w][g]
             /\ \A v \in User :
                    toClient'[v] = IF Subscribed(v, m.game) THEN Append(toClient[v], m) ELSE toClient[v]
  BY <1>1
<1> HIDE DEF m
<1>3. m.game \in Game /\ m.n \in Nat \ {0}
  BY <1>1 DEF SentMessage
<1>4. published \in [User -> [Game -> SUBSET (Nat \ {0})]] /\ toClient \in [User -> Seq(SentMessage)]
  BY DEF TypesOK
<1>5. all \in SUBSET (Nat \ {0})
  BY <1>3, <1>4
<1> HIDE DEF all
<1>6. /\ published' \in [User -> [Game -> SUBSET (Nat \ {0})]]
      /\ \A w \in User, g \in Game :
            published'[w][g] = IF w = u /\ g = m.game THEN all ELSE published[w][g]
  BY <1>2, <1>3, <1>4, <1>5, Put2
<1>7. \A v \in User : toClient[v] \in Seq(SentMessage) /\ Append(toClient[v], m) \in Seq(SentMessage)
  BY <1>1, <1>4
<1>8. toClient' = [v \in User |-> IF Subscribed(v, m.game) THEN Append(toClient[v], m) ELSE toClient[v]]
  BY <1>2 DEF FanOut
<1>9. toClient' \in [User -> Seq(SentMessage)]
  BY <1>7, <1>8
<1> QED BY <1>6, <1>8, <1>9

(* What the steps of u's thread do to the lists of the channels: another   *)
(* subscriber may be lost, and only u be added.                            *)
LEMMA ListTypes ==
    ASSUME TypesOK, NEW u \in User, ServeSubscribe(u) \/ ServeUnsubscribe(u) \/ Close(u)
    PROVE  /\ listed' \in [Game -> SUBSET User]
           /\ \A v \in User, h \in Game : Subscribed(v, h)' =>
                 \/ /\ Subscribed(v, h)
                    /\ \/ ServeSubscribe(u)
                       \/ v # u
                       \/ ServeUnsubscribe(u) /\ h # Head(subs[u])
                 \/ ServeSubscribe(u) /\ v = u /\ h = Head(toServer[u])[2]
<1>1. listed \in [Game -> SUBSET User]
  BY DEF TypesOK
<1>2. ASSUME NEW g, NEW kept \in SUBSET User, listed' = [listed EXCEPT ![g] = kept]
      PROVE  /\ listed' \in [Game -> SUBSET User]
             /\ \A h \in Game : listed'[h] = IF h = g THEN kept ELSE listed[h]
  BY <1>1, <1>2
<1>3. CASE ServeSubscribe(u)
  <2> DEFINE g == Head(toServer[u])[2]
  <2>1. g \in Game
    <3>1. Head(toServer[u]) \in Request /\ Head(toServer[u])[1] = "SUBSCRIBE"
      BY <1>3, TakeTakes DEF ServeSubscribe
    <3> QED BY <3>1, RequestForm
  <2>2. PICK kept \in SUBSET (listed[g] \cup {u}) : listed' = [listed EXCEPT ![g] = kept]
    BY <1>3 DEF ServeSubscribe
  <2> HIDE DEF g
  <2>3. kept \in SUBSET User
    BY <1>1, <2>1, <2>2
  <2>4. listed' \in [Game -> SUBSET User] /\ \A h \in Game : listed'[h] = IF h = g THEN kept ELSE listed[h]
    BY <1>2, <2>2, <2>3
  <2>5. \A v \in User, h \in Game : v \in listed'[h] => v \in listed[h] \/ (v = u /\ h = g)
    BY <2>2, <2>4
  <2> QED BY <1>3, <2>4, <2>5 DEF Subscribed, g
<1>4. CASE ServeUnsubscribe(u)
  <2> DEFINE g == Head(subs[u])
  <2>1. g \in Game
    BY <1>4 DEF ServeUnsubscribe, TypesOK
  <2>2. PICK kept \in SUBSET (listed[g] \ {u}) : listed' = [listed EXCEPT ![g] = kept]
    BY <1>4 DEF ServeUnsubscribe
  <2> HIDE DEF g
  <2>3. kept \in SUBSET User
    BY <1>1, <2>1, <2>2
  <2>4. listed' \in [Game -> SUBSET User] /\ \A h \in Game : listed'[h] = IF h = g THEN kept ELSE listed[h]
    BY <1>2, <2>2, <2>3
  <2>5. \A v \in User, h \in Game : v \in listed'[h] => v \in listed[h] /\ (v # u \/ h # g)
    BY <2>2, <2>4
  <2> QED BY <1>4, <2>4, <2>5 DEF Subscribed, g
<1>5. CASE Close(u)
  <2>1. PICK kept \in [Game -> SUBSET User] :
           /\ \A g \in Game : kept[g] \subseteq listed[g] \ {u}
           /\ listed' = kept
    BY <1>5 DEF Close
  <2>2. \A v \in User, h \in Game : v \in listed'[h] => v \in listed[h] /\ v # u
    BY <2>1
  <2> QED BY <2>1, <2>2 DEF Subscribed
<1> QED BY <1>3, <1>4, <1>5

LEMMA CloseTypes ==
    ASSUME TypesOK, NEW u \in User, Close(u)
    PROVE  TypesOK'
<1>1. <<>> \in Seq(Game) /\ <<>> \in Seq(Request)
  OBVIOUS
<1>2. subs' = [subs EXCEPT ![u] = <<>>] /\ toServer' = [toServer EXCEPT ![u] = <<>>]
  BY DEF Close
<1>3. subs' \in [User -> Seq(Game)]
  BY <1>1, <1>2 DEF TypesOK
<1>4. toServer' \in [User -> Seq(Request)]
  BY <1>1, <1>2 DEF TypesOK
<1>5. open' \in [User -> BOOLEAN] /\ listed' \in [Game -> SUBSET User]
  BY ListTypes DEF Close, TypesOK
<1> QED BY <1>3, <1>4, <1>5 DEF Close, TypesOK, keyboard, client, history, bounds

LEMMA ServerTypes ==
    ASSUME TypesOK, SendOK, NEW u \in User, Server(u) PROVE TypesOK'
<1>1. ASSUME ServeSubscribe(u) PROVE TypesOK'
  <2>1. toServer' \in [User -> Seq(Request)]
    BY <1>1, TakeTakes DEF ServeSubscribe
  <2>2. from' \in [User -> [Game -> [User -> Nat]]] /\ subs' \in [User -> Seq(Game)]
    BY <1>1, SubscribeTypes
  <2>3. listed' \in [Game -> SUBSET User]
    BY <1>1, ListTypes
  <2> QED BY <1>1, <2>1, <2>2, <2>3 DEF ServeSubscribe, Take, TypesOK, keyboard, client, bounds
<1>2. ASSUME ServeUnsubscribe(u) PROVE TypesOK'
  <2>1. toServer' \in [User -> Seq(Request)]
    BY <1>2, TakeTakes DEF ServeUnsubscribe
  <2>2. subs[u] \in Seq(Game) /\ subs[u] # <<>> /\ subs' = [subs EXCEPT ![u] = Tail(subs[u])]
    BY <1>2 DEF ServeUnsubscribe, TypesOK
  <2>3. Tail(subs[u]) \in Seq(Game)
    BY <2>2
  <2>4. subs' \in [User -> Seq(Game)]
    BY <2>2, <2>3 DEF TypesOK
  <2>5. listed' \in [Game -> SUBSET User]
    BY <1>2, ListTypes
  <2> QED BY <1>2, <2>1, <2>4, <2>5 DEF ServeUnsubscribe, Take, TypesOK, keyboard, client, history, bounds
<1>3. ASSUME ServeSend(u) PROVE TypesOK'
  <2>1. toServer' \in [User -> Seq(Request)]
    BY <1>3, TakeTakes DEF ServeSend
  <2>2. published' \in [User -> [Game -> SUBSET (Nat \ {0})]] /\ toClient' \in [User -> Seq(SentMessage)]
    BY <1>3, SendTypes
  <2> QED BY <1>3, <2>1, <2>2 DEF ServeSend, Take, TypesOK, keyboard, client, bounds
<1> QED BY <1>1, <1>2, <1>3, CloseTypes DEF Server, ServeError, HangUp

LEMMA StepTypes ==
    ASSUME TypesOK, PlaceOK, SendOK, OwnOK, [Next]_vars PROVE TypesOK'
<1>1. CASE UNCHANGED vars
  BY <1>1 DEF TypesOK, vars, keyboard, client, server, network, history, bounds
<1>2. CASE Next
  BY <1>2, TypeTypes, KeyboardTypes, ListenerTypes, CrashTypes, ServerTypes DEF Next
<1> QED BY <1>1, <1>2

-----------------------------------------------------------------------------
(* A step is one of a user's; of the others it changes only the queues of  *)
(* messages to their clients.                                              *)
Steps(u) == Type(u) \/ Keyboard(u) \/ Listener(u) \/ Crash(u) \/ Server(u)

Stays(v) ==
    /\ kpc'[v] = kpc[v] /\ game'[v] = game[v] /\ left'[v] = left[v]
    /\ subscriptions'[v] = subscriptions[v] /\ isConnected'[v] = isConnected[v]
    /\ Games'[v] = Games[v] /\ hand'[v] = hand[v]
    /\ open'[v] = open[v] /\ subs'[v] = subs[v] /\ toServer'[v] = toServer[v]
    /\ reported'[v] = reported[v] /\ from'[v] = from[v]
    /\ commands'[v] = commands[v]

LEMMA OthersStay ==
    ASSUME TypesOK, NEW u \in User, Steps(u), NEW v \in User, v # u PROVE Stays(v)
<1>1. CASE Type(u)
  <2>1. ASSUME NEW g \in Game, Join(u, g) PROVE Stays(v)
    BY <2>1, SMTT(30) DEF Join, Command, Transmit, SendFails, KeyboardAt, Stays, TypesOK, client, server, network, history
  <2>2. ASSUME NEW g \in Game, Exit(u, g) PROVE Stays(v)
    BY <2>2, SMTT(30) DEF Exit, Command, Transmit, SendFails, KeyboardAt, Stays, TypesOK, client, server, network, history
  <2>3. ASSUME NEW g \in Game, NEW w \in User, Summarise(u, g, w) PROVE Stays(v)
    BY <2>3 DEF Summarise, Command, KeyboardAt, Stays, TypesOK, client, server, network, history
  <2>4. ASSUME NEW f \in File, Report(u, f) PROVE Stays(v)
    BY <2>4 DEF Report, Command, KeyboardAt, Stays, TypesOK, client, server, network, history
  <2>5. ASSUME Login(u) PROVE Stays(v)
    BY <2>5 DEF Login, Stays, TypesOK, network, history
  <2> QED BY <1>1, <2>1, <2>2, <2>3, <2>4, <2>5 DEF Type
<1>2. CASE Keyboard(u)
  <2>1. ASSUME Send(u) PROVE Stays(v)
    <3>1. toServer'[v] = toServer[v]
      BY <2>1 DEF Send, Transmit, SendFails, network, TypesOK
    <3>2. reported'[v] = reported[v]
      BY <2>1 DEF Send, TypesOK
    <3>3. kpc'[v] = kpc[v] /\ game'[v] = game[v] /\ left'[v] = left[v]
      BY <2>1 DEF Send, KeyboardAt, TypesOK
    <3> QED BY <2>1, <3>1, <3>2, <3>3 DEF Send, Stays, client, server, bounds
  <2>2. ASSUME Reset(u) PROVE Stays(v)
    BY <2>2 DEF Reset, KeyboardAt, ForgetGame, Stays, TypesOK, server, network, bounds
  <2>3. ASSUME Erase(u) PROVE Stays(v)
    BY <2>3 DEF Erase, KeyboardAt, ForgetGame, Stays, TypesOK, server, network, bounds
  <2>4. ASSUME Store(u) PROVE Stays(v)
    BY <2>4 DEF Store, KeyboardAt, AddTo, Stays, TypesOK, server, network, history, bounds
  <2>5. ASSUME NEW here, NEW next, NEW part, Read(u, here, next, part) PROVE Stays(v)
    BY <2>5 DEF Read, KeyboardAt, Stays, TypesOK, client, server, network, history, bounds
  <2>6. ASSUME WriteSummary(u) PROVE Stays(v)
    BY <2>6 DEF WriteSummary, KeyboardAt, Stays, TypesOK, client, server, network, history, bounds
  <2> QED BY <1>2, <2>1, <2>2, <2>3, <2>4, <2>5, <2>6
          DEF Keyboard, GetUpdatesBefore, GetUpdatesAfter, GetIsDone, GetIsBeforeHalftime
<1>3. CASE Listener(u)
  <2>1. ASSUME Receive(u) PROVE Stays(v)
    BY <2>1 DEF Receive, Stays, TypesOK, keyboard, server, history, bounds
  <2>2. ASSUME Add(u) PROVE Stays(v)
    BY <2>2 DEF Add, AddTo, Stays, TypesOK, keyboard, server, network, history, bounds
  <2>3. ASSUME Notice(u) PROVE Stays(v)
    BY <2>3 DEF Notice, Stays, TypesOK, keyboard, server, history, bounds
  <2> QED BY <1>3, <2>1, <2>2, <2>3 DEF Listener
<1>4. CASE Crash(u)
  BY <1>4 DEF Crash, Stays, TypesOK, server, network, history, bounds
<1>5. CASE Server(u)
  <2>1. ASSUME ServeSubscribe(u) PROVE Stays(v)
    BY <2>1 DEF ServeSubscribe, Take, Stays, TypesOK, keyboard, client, bounds
  <2>2. ASSUME ServeUnsubscribe(u) PROVE Stays(v)
    BY <2>2 DEF ServeUnsubscribe, Take, Stays, TypesOK, keyboard, client, history, bounds
  <2>3. ASSUME ServeSend(u) PROVE Stays(v)
    BY <2>3 DEF ServeSend, Take, Stays, TypesOK, keyboard, client, bounds
  <2>4. ASSUME Close(u) PROVE Stays(v)
    BY <2>4 DEF Close, Stays, TypesOK, keyboard, client, history, bounds
  <2> QED BY <1>5, <2>1, <2>2, <2>3, <2>4 DEF Server, ServeError, HangUp
<1> QED BY <1>1, <1>2, <1>3, <1>4, <1>5 DEF Steps

-----------------------------------------------------------------------------
(* Every step keeps the lists of the channels within the lists of the      *)
(* connections.                                                            *)
LEMMA InitHeld == Init => HeldOK
<1> SUFFICES ASSUME Init, NEW u \in User, NEW g \in Game, Subscribed(u, g) PROVE Holds(u, g)
  BY DEF HeldOK
<1>1. u \in Joined
  BY DEF Init, Subscribed
<1>2. subs[u] = SetToSeq(Game)
  BY <1>1 DEF Init
<1>3. \E i \in DOMAIN SetToSeq(Game) : SetToSeq(Game)[i] = g
  BY ListOfSet, ReportsAssumption
<1> QED BY <1>2, <1>3 DEF Holds

LEMMA ListsStay ==
    ASSUME NEW u \in User, Steps(u)
    PROVE  \/ UNCHANGED <<subs, listed>>
           \/ ServeSubscribe(u) \/ ServeUnsubscribe(u) \/ Close(u)
<1>1. Type(u) => UNCHANGED <<subs, listed>>
  BY DEF Type, Join, Exit, Summarise, Report, Login, server
<1>2. Keyboard(u) => UNCHANGED <<subs, listed>>
  BY DEF Keyboard, Send, Reset, Erase, Store, Read, WriteSummary, server,
         GetUpdatesBefore, GetUpdatesAfter, GetIsDone, GetIsBeforeHalftime
<1>3. Listener(u) \/ Crash(u) => UNCHANGED <<subs, listed>>
  BY DEF Listener, Receive, Add, Notice, Crash, server
<1>4. ServeSend(u) => UNCHANGED <<subs, listed>>
  BY DEF ServeSend
<1> QED BY <1>1, <1>2, <1>3, <1>4 DEF Steps, Server, ServeError, HangUp

LEMMA StepHeld ==
    ASSUME TypesOK, HeldOK, [Next]_vars PROVE HeldOK'
<1>1. CASE UNCHANGED <<subs, listed>>
  BY <1>1 DEF HeldOK, Subscribed, Holds
<1>2. ASSUME NEW u \in User, Steps(u), ServeSubscribe(u) \/ ServeUnsubscribe(u) \/ Close(u),
             NEW v \in User, NEW g \in Game, Subscribed(v, g)'
      PROVE  Holds(v, g)'
  <2>1. \/ /\ Subscribed(v, g)
           /\ ServeSubscribe(u) \/ v # u \/ (ServeUnsubscribe(u) /\ g # Head(subs[u]))
        \/ ServeSubscribe(u) /\ v = u /\ g = Head(toServer[u])[2]
    BY <1>2, ListTypes
  <2>2. Subscribed(v, g) => \E i \in DOMAIN subs[v] : subs[v][i] = g
    BY DEF HeldOK, Holds
  <2>3. SUFFICES \E i \in DOMAIN subs'[v] : subs'[v][i] = g
    BY DEF Holds
  <2>4. subs[v] \in Seq(Game) /\ subs[u] \in Seq(Game) /\ subs \in [User -> Seq(Game)]
    BY DEF TypesOK
  <2>5. CASE v # u
    <3>1. subs'[v] = subs[v]
      BY <1>2, <2>5, OthersStay DEF Stays
    <3> QED BY <2>1, <2>2, <2>5, <3>1
  <2>6. CASE v = u /\ ServeSubscribe(u)
    <3> DEFINE h == Head(toServer[u])[2]
    <3>1. subs'[v] = Append(subs[v], h)
      BY <2>4, <2>6 DEF ServeSubscribe
    <3> HIDE DEF h
    <3>2. /\ DOMAIN subs[v] = 1..Len(subs[v]) /\ Len(subs[v]) \in Nat
          /\ DOMAIN Append(subs[v], h) = 1..Len(subs[v]) + 1
          /\ Append(subs[v], h)[Len(subs[v]) + 1] = h
          /\ \A i \in 1..Len(subs[v]) : Append(subs[v], h)[i] = subs[v][i]
      BY <2>4
    <3>3. CASE g = h
      BY <3>1, <3>2, <3>3
    <3>4. CASE Subscribed(v, g)
      <4>1. PICK i \in 1..Len(subs[v]) : subs[v][i] = g
        BY <2>2, <3>2, <3>4
      <4>2. i \in 1..Len(subs[v]) + 1 /\ subs'[v][i] = g
        BY <3>1, <3>2, <4>1
      <4> QED BY <3>1, <3>2, <4>2
    <3> QED BY <2>1, <3>3, <3>4 DEF h
  <2>7. CASE v = u /\ ~ServeSubscribe(u)
    <3>1. ServeUnsubscribe(u) /\ Subscribed(v, g) /\ g # Head(subs[u])
      BY <2>1, <2>7
    <3>2. subs[u] # <<>> /\ subs'[v] = Tail(subs[v])
      BY <2>4, <2>7, <3>1 DEF ServeUnsubscribe
    <3>3. /\ DOMAIN subs[v] = 1..Len(subs[v]) /\ Len(subs[v]) \in Nat \ {0}
          /\ Head(subs[v]) = subs[v][1]
          /\ DOMAIN Tail(subs[v]) = 1..Len(subs[v]) - 1
          /\ \A i \in 1..Len(subs[v]) - 1 : Tail(subs[v])[i] = subs[v][i + 1]
      BY <2>4, <2>7, <3>2
    <3>4. PICK i \in 1..Len(subs[v]) : subs[v][i] = g
      BY <2>2, <3>1, <3>3
    <3>5. i # 1
      BY <2>7, <3>1, <3>3, <3>4
    <3>6. i - 1 \in 1..Len(subs[v]) - 1 /\ (i - 1) + 1 = i
      BY <3>3, <3>5
    <3>7. Tail(subs[v])[i - 1] = g
      BY <3>3, <3>4, <3>6
    <3> QED BY <3>2, <3>3, <3>6, <3>7
  <2> QED BY <2>5, <2>6, <2>7
<1>3. CASE UNCHANGED vars
  BY <1>1, <1>3 DEF vars, server
<1>4. ASSUME NEW u \in User, Steps(u) PROVE HeldOK'
  BY <1>1, <1>2, <1>4, ListsStay DEF HeldOK
<1> QED BY <1>3, <1>4 DEF Next, Steps

-----------------------------------------------------------------------------
(* Every step keeps what is set at each statement.                         *)
LEMMA InitPlaced == Init => PlaceOK
<1> SUFFICES ASSUME Init, NEW u \in User PROVE Placed(u)
  BY DEF PlaceOK
<1>1. MaxCommands[u] \in Nat
  BY ReportsAssumption
<1> QED BY <1>1 DEF Init, Placed

LEMMA CommandCounts ==
    ASSUME TypesOK, NEW u \in User, NEW word, Command(u, word)
    PROVE  commands'[u] <= MaxCommands[u]
<1>1. MaxCommands[u] \in Nat /\ commands[u] \in Nat /\ commands[u] < MaxCommands[u]
  BY ReportsAssumption DEF Command, TypesOK
<1>2. commands'[u] = commands[u] + 1
  BY DEF Command, TypesOK
<1> QED BY <1>1, <1>2

LEMMA TypePlaced ==
    ASSUME TypesOK, NEW u \in User, Placed(u), Type(u) PROVE Placed(u)'
<1>1. ASSUME NEW g \in Game, Join(u, g) PROVE Placed(u)'
  <2>1. commands'[u] <= MaxCommands[u]
    BY <1>1, CommandCounts DEF Join
  <2>2. \/ kpc'[u] = "reset" /\ game'[u] = {g}
        \/ kpc'[u] = "prompt"
    BY <1>1 DEF Join, KeyboardAt, TypesOK
  <2>3. ~open[u] => toServer'[u] = toServer[u]
    BY <1>1 DEF Join, Transmit, SendFails, network
  <2>4. kpc[u] = "prompt" /\ UNCHANGED <<left, hand, open, subs, isConnected>>
    BY <1>1 DEF Join, KeyboardAt, client, server
  <2> QED BY <2>1, <2>2, <2>3, <2>4 DEF Placed
<1>2. ASSUME NEW g \in Game, Exit(u, g) PROVE Placed(u)'
  <2>1. commands'[u] <= MaxCommands[u]
    BY <1>2, CommandCounts DEF Exit
  <2>2. \/ kpc'[u] = "erase" /\ game'[u] = {g}
        \/ kpc'[u] = "prompt"
    BY <1>2 DEF Exit, KeyboardAt, TypesOK
  <2>3. ~open[u] => toServer'[u] = toServer[u]
    BY <1>2 DEF Exit, Transmit, SendFails, network
  <2>4. kpc[u] = "prompt" /\ UNCHANGED <<left, hand, open, subs, isConnected>>
    BY <1>2 DEF Exit, KeyboardAt, client, server
  <2> QED BY <2>1, <2>2, <2>3, <2>4 DEF Placed
<1>3. ASSUME NEW g \in Game, NEW w \in User, Summarise(u, g, w) PROVE Placed(u)'
  <2>1. commands'[u] <= MaxCommands[u]
    BY <1>3, CommandCounts DEF Summarise
  <2>2. kpc'[u] = "getBefore" /\ game'[u] = {g}
    BY <1>3 DEF Summarise, KeyboardAt, TypesOK
  <2>3. UNCHANGED <<left, hand, open, subs, isConnected, toServer>>
    BY <1>3 DEF Summarise, client, server, network
  <2>4. kpc[u] = "prompt"
    BY <1>3 DEF Summarise, KeyboardAt
  <2> QED BY <2>1, <2>2, <2>3, <2>4 DEF Placed
<1>4. ASSUME NEW f \in File, Report(u, f) PROVE Placed(u)'
  <2>1. commands'[u] <= MaxCommands[u]
    BY <1>4, CommandCounts DEF Report
  <2>2. /\ kpc'[u] = IF f.events = <<>> THEN "prompt" ELSE "send"
        /\ game'[u] = {f.game} /\ left'[u] = ParseEventsFile(f)
    BY <1>4 DEF Report, KeyboardAt, TypesOK
  <2>3. UNCHANGED <<hand, open, subs, isConnected, toServer>>
    BY <1>4 DEF Report, client, server, network
  <2>4. kpc[u] = "prompt"
    BY <1>4 DEF Report, KeyboardAt
  <2>5. f.game \in Game /\ (f.events # <<>> => ParseEventsFile(f) # <<>>)
    BY FileEvents
  <2> QED BY <2>1, <2>2, <2>3, <2>4, <2>5 DEF Placed
<1>5. ASSUME Login(u) PROVE Placed(u)'
  <2>1. UNCHANGED <<kpc, game, left, hand, subs, toServer, commands>>
    BY <1>5 DEF Login, network
  <2>2. open'[u] /\ isConnected'[u]
    BY <1>5 DEF Login, TypesOK
  <2>3. ~isConnected[u]
    BY <1>5 DEF Login
  <2> QED BY <2>1, <2>2, <2>3 DEF Placed
<1> QED BY <1>1, <1>2, <1>3, <1>4, <1>5 DEF Type

LEMMA KeyboardPlaced ==
    ASSUME TypesOK, NEW u \in User, Placed(u), Keyboard(u) PROVE Placed(u)'
<1>1. ASSUME Send(u) PROVE Placed(u)'
  <2>1. \/ kpc'[u] = "store" /\ game'[u] = game[u] /\ left'[u] = left[u]
        \/ kpc'[u] = "prompt"
    BY <1>1 DEF Send, KeyboardAt, TypesOK
  <2>2. ~open[u] => toServer'[u] = toServer[u]
    BY <1>1 DEF Send, Transmit, SendFails, network
  <2>3. kpc[u] = "send" /\ UNCHANGED <<hand, open, subs, isConnected, commands>>
    BY <1>1 DEF Send, KeyboardAt, client, server, bounds
  <2> QED BY <2>1, <2>2, <2>3 DEF Placed
<1>2. ASSUME Reset(u) \/ Erase(u) PROVE Placed(u)'
  <2>1. kpc'[u] = "prompt" /\ kpc[u] \in {"reset", "erase"}
    BY <1>2 DEF Reset, Erase, KeyboardAt, TypesOK
  <2>2. UNCHANGED <<hand, open, subs, isConnected, toServer, commands>>
    BY <1>2 DEF Reset, Erase, ForgetGame, server, network, bounds
  <2> QED BY <2>1, <2>2 DEF Placed
<1>3. ASSUME Store(u) PROVE Placed(u)'
  <2>1. kpc[u] = "store" /\ UNCHANGED <<hand, open, subs, isConnected, toServer, commands>>
    BY <1>3 DEF Store, KeyboardAt, client, server, network, bounds
  <2>2. left[u] \in Seq(Original) /\ left[u] # <<>>
    BY <2>1 DEF TypesOK, Placed
  <2>3. kpc'[u] = IF Len(left[u]) = 1 THEN "prompt" ELSE "send"
    BY <1>3 DEF Store, KeyboardAt, TypesOK
  <2>4. Len(left[u]) # 1 => game'[u] = game[u]
    BY <1>3 DEF Store, TypesOK
  <2>5. left'[u] = Tail(left[u])
    BY <1>3 DEF Store, TypesOK
  <2>6. Len(left[u]) # 1 => Tail(left[u]) # <<>>
    <3>1. Len(left[u]) \in Nat \ {0} /\ Len(Tail(left[u])) = Len(left[u]) - 1
      BY <2>2
    <3>2. Len(left[u]) # 1 => Len(Tail(left[u])) # 0
      BY <3>1
    <3> QED BY <3>2
  <2> QED BY <2>1, <2>3, <2>4, <2>5, <2>6 DEF Placed
<1>4. ASSUME NEW here \in Summarising, NEW next \in Summarising, NEW part, Read(u, here, next, part)
      PROVE  Placed(u)'
  <2>1. kpc[u] = here /\ kpc'[u] = next
    BY <1>4 DEF Read, KeyboardAt, TypesOK
  <2>2. UNCHANGED <<game, left, hand, open, subs, isConnected, toServer, commands>>
    BY <1>4 DEF Read, client, server, network, bounds
  <2>3. here \notin {"prompt", "crashed"} /\ next \notin {"prompt", "crashed", "send", "store"}
    BY DEF Summarising
  <2> QED BY <2>1, <2>2, <2>3 DEF Placed
<1>5. ASSUME WriteSummary(u) PROVE Placed(u)'
  <2>1. kpc'[u] = "prompt" /\ kpc[u] = "print"
    BY <1>5 DEF WriteSummary, KeyboardAt, TypesOK
  <2>2. UNCHANGED <<hand, open, subs, isConnected, toServer, commands>>
    BY <1>5 DEF WriteSummary, client, server, network, bounds
  <2> QED BY <2>1, <2>2 DEF Placed
<1>6. {"getBefore", "getAfter", "getDone", "getHalf", "print"} \subseteq Summarising
  BY DEF Summarising
<1> QED BY <1>1, <1>2, <1>3, <1>4, <1>5, <1>6
        DEF Keyboard, GetUpdatesBefore, GetUpdatesAfter, GetIsDone, GetIsBeforeHalftime

LEMMA ListenerPlaced ==
    ASSUME TypesOK, NEW u \in User, Placed(u), Listener(u) \/ Crash(u) PROVE Placed(u)'
<1>1. ASSUME Receive(u) PROVE Placed(u)'
  <2> DEFINE m == Head(toClient[u])
             parsed == [m EXCEPT !.event = ParseToEvent(@)]
  <2>1. hand'[u] = IF m.by = u THEN {} ELSE {parsed}
    BY <1>1 DEF Receive, TypesOK
  <2>2. m \in SentMessage
    BY <1>1 DEF Receive, TypesOK
  <2>3. parsed.by = m.by
    BY <2>2 DEF SentMessage
  <2>4. kpc[u] # "crashed" /\ UNCHANGED <<kpc, game, left, open, subs, isConnected, toServer, commands>>
    BY <1>1 DEF Receive, keyboard, server, bounds
  <2> HIDE DEF m, parsed
  <2>5. \A x \in hand'[u] : hand'[u] = {x} /\ x.by # u
    BY <2>1, <2>3
  <2> QED BY <2>4, <2>5 DEF Placed
<1>2. ASSUME Add(u) PROVE Placed(u)'
  <2>1. hand'[u] = {} /\ UNCHANGED <<kpc, game, left, open, subs, isConnected, toServer, commands>>
    BY <1>2 DEF Add, TypesOK, keyboard, server, network, bounds
  <2> QED BY <2>1 DEF Placed
<1>3. ASSUME Notice(u) PROVE Placed(u)'
  <2>1. ~open[u] /\ UNCHANGED <<kpc, game, left, hand, open, subs, toServer, commands>>
    BY <1>3 DEF Notice, keyboard, server, bounds
  <2> QED BY <2>1 DEF Placed
<1>4. ASSUME Crash(u) PROVE Placed(u)'
  <2>1. kpc'[u] = "crashed" /\ hand'[u] = {}
    BY <1>4 DEF Crash, TypesOK
  <2>2. UNCHANGED <<open, subs, isConnected, toServer, commands>>
    BY <1>4 DEF Crash, server, network, bounds
  <2> QED BY <2>1, <2>2 DEF Placed
<1> QED BY <1>1, <1>2, <1>3, <1>4 DEF Listener

LEMMA ServerPlaced ==
    ASSUME TypesOK, NEW u \in User, Placed(u), Server(u) PROVE Placed(u)'
<1>1. UNCHANGED <<kpc, game, left, hand, isConnected, commands>>
  BY DEF Server, ServeSubscribe, ServeUnsubscribe, ServeSend, ServeError, HangUp, Take, Close,
         keyboard, client, bounds
<1>2. \/ open[u] /\ open'[u]
      \/ subs'[u] = <<>> /\ toServer'[u] = <<>> /\ ~open'[u]
  <2>1. CASE ServeSubscribe(u) \/ ServeUnsubscribe(u) \/ ServeSend(u)
    BY <2>1 DEF ServeSubscribe, ServeUnsubscribe, ServeSend, Take
  <2>2. CASE Close(u)
    BY <2>2 DEF Close, TypesOK
  <2> QED BY <2>1, <2>2 DEF Server, ServeError, HangUp
<1> QED BY <1>1, <1>2 DEF Placed

LEMMA StepPlaced ==
    ASSUME TypesOK, PlaceOK, [Next]_vars PROVE PlaceOK'
<1>1. CASE UNCHANGED vars
  BY <1>1 DEF PlaceOK, Placed, vars, keyboard, client, server, network, bounds
<1>2. ASSUME NEW u \in User, Steps(u) PROVE PlaceOK'
  <2>1. Placed(u)'
    BY <1>2, TypePlaced, KeyboardPlaced, ListenerPlaced, ServerPlaced DEF Steps, PlaceOK
  <2>2. ASSUME NEW v \in User, v # u PROVE Placed(v)'
    <3>1. Stays(v) /\ Placed(v)
      BY <1>2, <2>2, OthersStay DEF PlaceOK
    <3> QED BY <3>1 DEF Stays, Placed
  <2> QED BY <2>1, <2>2 DEF PlaceOK
<1> QED BY <1>1, <1>2 DEF Next, Steps

-----------------------------------------------------------------------------
(* Every step keeps the order of the reports on their way to the server.   *)
LEMMA SendsAppend ==
    ASSUME NEW S, NEW q \in Seq(S), AscendingSends(q), NEW x \in S,
           IsSend(x) => \A y \in Range(q) : IsSend(y) /\ y[2].game = x[2].game => y[2].n < x[2].n
    PROVE  AscendingSends(Append(q, x))
<1>1. /\ DOMAIN q = 1..Len(q) /\ Len(q) \in Nat /\ DOMAIN Append(q, x) = 1..Len(q) + 1
      /\ Append(q, x)[Len(q) + 1] = x /\ \A i \in 1..Len(q) : Append(q, x)[i] = q[i]
  OBVIOUS
<1> DEFINE new == Append(q, x)
<1> SUFFICES ASSUME NEW i \in 1..Len(q) + 1, NEW j \in 1..Len(q) + 1, i < j,
                    IsSend(new[i]), IsSend(new[j]), new[i][2].game = new[j][2].game
             PROVE  new[i][2].n < new[j][2].n
  BY <1>1 DEF AscendingSends
<1>2. i \in 1..Len(q) /\ new[i] = q[i] /\ q[i] \in Range(q)
  BY <1>1 DEF Range
<1>3. CASE j \in 1..Len(q)
  BY <1>1, <1>2, <1>3 DEF AscendingSends
<1>4. CASE j = Len(q) + 1
  BY <1>1, <1>2, <1>4
<1> QED BY <1>1, <1>3, <1>4

LEMMA SendsTail ==
    ASSUME NEW S, NEW q \in Seq(S), q # <<>>, AscendingSends(q)
    PROVE  /\ AscendingSends(Tail(q))
           /\ \A r \in Range(Tail(q)) :
                 IsSend(Head(q)) /\ IsSend(r) /\ Head(q)[2].game = r[2].game => Head(q)[2].n < r[2].n
<1>1. /\ Len(q) \in Nat \ {0} /\ Len(Tail(q)) = Len(q) - 1 /\ Head(q) = q[1] /\ Tail(q) \in Seq(S)
      /\ \A i \in 1..Len(Tail(q)) : Tail(q)[i] = q[i + 1] /\ i + 1 \in 1..Len(q)
  BY RangeTail
<1>2. DOMAIN q = 1..Len(q) /\ DOMAIN Tail(q) = 1..Len(Tail(q)) /\ 1 \in 1..Len(q)
  BY <1>1
<1> DEFINE t == Tail(q)
<1>3. ASSUME NEW i \in DOMAIN t, NEW j \in DOMAIN t, i < j, IsSend(t[i]), IsSend(t[j]),
             t[i][2].game = t[j][2].game
      PROVE  t[i][2].n < t[j][2].n
  <2>1. i + 1 \in DOMAIN q /\ j + 1 \in DOMAIN q /\ i + 1 < j + 1
    BY <1>1, <1>2, <1>3
  <2> QED BY <1>1, <1>2, <1>3, <2>1 DEF AscendingSends
<1>4. ASSUME NEW i \in DOMAIN t, IsSend(Head(q)), IsSend(t[i]), Head(q)[2].game = t[i][2].game
      PROVE  Head(q)[2].n < t[i][2].n
  <2>1. i + 1 \in DOMAIN q /\ 1 < i + 1 /\ t[i] = q[i + 1]
    BY <1>1, <1>2
  <2> QED BY <1>1, <1>2, <1>4, <2>1 DEF AscendingSends
<1> QED BY <1>3, <1>4 DEF AscendingSends, Range

LEMMA InitSends == Init => SendOK
<1> SUFFICES ASSUME Init, NEW w \in User PROVE Sends(w)
  BY DEF SendOK
<1>1. toServer[w] = <<>> /\ \A g \in Game : published[w][g] = {}
  BY DEF Init
<1> QED BY <1>1, RangeEmpty DEF Sends, AscendingSends

(* A frame that is no report.                                              *)
LEMMA OtherFrameSends ==
    ASSUME TypesOK, NEW u \in User, Sends(u), NEW r \in Request, ~IsSend(r),
           Transmit(u, r) \/ SendFails(u), UNCHANGED <<reported, published>>
    PROVE  Sends(u)'
<1>1. toServer[u] \in Seq(Request)
  BY DEF TypesOK
<1>2. toServer'[u] \in {toServer[u], Append(toServer[u], r)}
  BY DEF Transmit, SendFails, network, TypesOK
<1>3. AscendingSends(Append(toServer[u], r))
  BY <1>1, SendsAppend DEF Sends
<1>4. Range(Append(toServer[u], r)) = Range(toServer[u]) \cup {r}
  BY <1>1, RangeAppend
<1>5. Fresh(r, u, reported[u], published[u])
  BY DEF Fresh
<1> QED BY <1>2, <1>3, <1>4, <1>5 DEF Sends

LEMMA ReportSends ==
    ASSUME TypesOK, PlaceOK, NEW u \in User, Sends(u), Send(u) PROVE Sends(u)'
<1>1. PICK g \in Game : game[u] = {g} /\ The(game[u]) = g
  BY AtPlace DEF Send, KeyboardAt
<1>2. left[u] \in Seq(Original) /\ left[u] # <<>> /\ reported[u][g] \in Nat
  BY DEF Send, KeyboardAt, PlaceOK, Placed, TypesOK
<1>3. Head(left[u]) \in Original
  BY <1>2
<1> DEFINE m == ConstructEventFrame(u, Head(left[u]))
           r == <<"SEND", m>>
<1>4. m \in SentMessage /\ m.by = u /\ m.game = g /\ m.n = reported[u][g] + 1
  BY <1>1, <1>2, <1>3 DEF ConstructEventFrame, SentMessage
<1>5. r \in Request /\ IsSend(r) /\ r[2] = m
  BY <1>4, RequestForm DEF IsSend
<1>6. \/ Transmit(u, r) /\ reported' = [reported EXCEPT ![u][g] = @ + 1]
      \/ SendFails(u) /\ UNCHANGED reported
  BY <1>1 DEF Send
<1>7. UNCHANGED published
  BY DEF Send
<1>8. toServer[u] \in Seq(Request) /\ reported \in [User -> [Game -> Nat]]
      /\ \A h \in Game : published[u][h] \in SUBSET Nat
  BY DEF TypesOK
<1> HIDE DEF m, r
<1>9. CASE SendFails(u) /\ UNCHANGED reported
  BY <1>7, <1>9 DEF SendFails, network, Sends
<1>10. CASE Transmit(u, r) /\ reported' = [reported EXCEPT ![u][g] = @ + 1]
  <2>1. \A h \in Game : /\ reported'[u][h] = IF h = g THEN reported[u][g] + 1 ELSE reported[u][h]
                        /\ reported[u][h] \in Nat
    BY <1>8, <1>10
  <2>2. \A h \in Game : published'[u][h] \subseteq 1..reported'[u][h]
    BY <1>7, <2>1 DEF Sends
  <2>3. ASSUME NEW x \in Range(toServer[u]) PROVE Fresh(x, u, reported'[u], published'[u])
    <3> SUFFICES ASSUME IsSend(x) PROVE Fresh(x, u, reported'[u], published'[u])
      BY DEF Fresh
    <3>1. x \in Request
      BY <1>8 DEF Range
    <3>2. x[2] \in SentMessage
      BY <3>1, RequestForm DEF IsSend
    <3>3. x[2].game \in Game /\ x[2].n \in Nat
      BY <3>2 DEF SentMessage
    <3>4. /\ x[2].by = u /\ x[2].n <= reported[u][x[2].game]
          /\ \A k \in published[u][x[2].game] : k < x[2].n
      BY DEF Sends, Fresh
    <3>5. x[2].n <= reported'[u][x[2].game]
      BY <2>1, <3>3, <3>4
    <3> QED BY <1>7, <3>4, <3>5 DEF Fresh
  <2>4. \A k \in published[u][g] : k < reported[u][g] + 1
    BY <1>8, <2>1 DEF Sends
  <2>5. Fresh(r, u, reported'[u], published'[u])
    BY <1>4, <1>5, <1>7, <2>1, <2>4 DEF Fresh
  <2>6. ASSUME NEW y \in Range(toServer[u]), IsSend(y), y[2].game = r[2].game PROVE y[2].n < r[2].n
    <3>1. y \in Request
      BY <1>8 DEF Range
    <3>2. y[2] \in SentMessage
      BY <2>6, <3>1, RequestForm DEF IsSend
    <3>3. y[2].n \in Nat
      BY <3>2 DEF SentMessage
    <3>4. y[2].n <= reported[u][g]
      BY <1>4, <1>5, <2>6 DEF Sends, Fresh
    <3> QED BY <1>2, <1>4, <1>5, <3>3, <3>4
  <2>7. AscendingSends(Append(toServer[u], r))
    BY <1>5, <1>8, <2>6, SendsAppend DEF Sends
  <2>8. Range(Append(toServer[u], r)) = Range(toServer[u]) \cup {r}
    BY <1>5, <1>8, RangeAppend
  <2>9. toServer'[u] \in {toServer[u], Append(toServer[u], r)}
    BY <1>10 DEF Transmit, TypesOK
  <2>10. AscendingSends(toServer'[u]) /\ Range(toServer'[u]) \subseteq Range(toServer[u]) \cup {r}
    BY <2>7, <2>8, <2>9 DEF Sends
  <2> QED BY <2>2, <2>3, <2>5, <2>10 DEF Sends
<1> QED BY <1>6, <1>9, <1>10

LEMMA TakeSends ==
    ASSUME TypesOK, NEW u \in User, Sends(u), NEW command, Take(u, command),
           UNCHANGED <<reported, published>>
    PROVE  Sends(u)'
<1>1. toServer[u] \in Seq(Request) /\ toServer[u] # <<>> /\ toServer'[u] = Tail(toServer[u])
  BY TakeTakes DEF TypesOK
<1>2. AscendingSends(Tail(toServer[u]))
  BY <1>1, SendsTail DEF Sends
<1>3. Range(Tail(toServer[u])) \subseteq Range(toServer[u])
  BY <1>1, RangeTail
<1> QED BY <1>1, <1>2, <1>3 DEF Sends

(* What publishing does to the report and to those behind it.              *)
LEMMA PublishSends ==
    ASSUME TypesOK, NEW u \in User, Sends(u), ServeSend(u)
    PROVE  /\ Sends(u)'
           /\ \A k \in published[u][Head(toServer[u])[2].game] : k < Head(toServer[u])[2].n
           /\ Head(toServer[u])[2].by = u
<1>1. PICK m \in SentMessage :
        /\ m = Head(toServer[u])[2]
        /\ \A w \in User, g \in Game :
              published'[w][g] = IF w = u /\ g = m.game THEN published[u][m.game] \cup {m.n}
                                 ELSE published[w][g]
  BY SendTypes
<1>2. /\ toServer[u] \in Seq(Request) /\ toServer[u] # <<>> /\ toServer'[u] = Tail(toServer[u])
      /\ IsSend(Head(toServer[u])) /\ UNCHANGED reported
  BY TakeTakes DEF ServeSend, IsSend, TypesOK
<1>3. Range(toServer[u]) = {Head(toServer[u])} \cup Range(Tail(toServer[u]))
  BY <1>2, RangeTail
<1>4. Fresh(Head(toServer[u]), u, reported[u], published[u])
  BY <1>3 DEF Sends
<1>5. /\ m.by = u /\ m.n <= reported[u][m.game] /\ \A k \in published[u][m.game] : k < m.n
      /\ m.game \in Game /\ m.n \in Nat \ {0}
  BY <1>1, <1>2, <1>4 DEF Fresh, SentMessage
<1>6. AscendingSends(Tail(toServer[u]))
      /\ \A r \in Range(Tail(toServer[u])) : IsSend(r) /\ m.game = r[2].game => m.n < r[2].n
  BY <1>1, <1>2, SendsTail DEF Sends
<1>7. \A g \in Game : published'[u][g] \subseteq 1..reported'[u][g]
  <2>1. \A g \in Game : reported[u][g] \in Nat /\ published[u][g] \subseteq 1..reported[u][g]
    BY DEF Sends, TypesOK
  <2> QED BY <1>1, <1>2, <1>5, <2>1
<1>8. ASSUME NEW r \in Range(Tail(toServer[u])) PROVE Fresh(r, u, reported'[u], published'[u])
  <2> SUFFICES ASSUME IsSend(r) PROVE Fresh(r, u, reported'[u], published'[u])
    BY DEF Fresh
  <2>1. r \in Range(toServer[u])
    BY <1>3
  <2>2. r \in Request
    BY <1>2, <2>1 DEF Range
  <2>3. r[2] \in SentMessage
    BY <2>2, RequestForm DEF IsSend
  <2>4. r[2].game \in Game
    BY <2>3 DEF SentMessage
  <2>5. /\ r[2].by = u /\ r[2].n <= reported[u][r[2].game]
        /\ \A k \in published[u][r[2].game] : k < r[2].n
    BY <2>1 DEF Sends, Fresh
  <2>6. \A k \in published'[u][r[2].game] : k < r[2].n
    BY <1>1, <1>6, <2>4, <2>5
  <2> QED BY <1>2, <2>5, <2>6 DEF Fresh
<1> QED BY <1>1, <1>2, <1>5, <1>6, <1>7, <1>8 DEF Sends

(* What publishes: only the step of the server that takes a report.        *)
LEMMA OnlySendPublishes ==
    ASSUME TypesOK, NEW u \in User, Steps(u)
    PROVE  /\ ServeSend(u) \/ UNCHANGED published
           /\ \A v \in User : v # u => published'[v] = published[v]
<1>1. ServeSend(u) \/ UNCHANGED published
  BY DEF Steps, Type, Keyboard, Listener, Server, Join, Exit, Summarise, Report, Login, Send, Reset,
         Erase, ForgetGame, Store, GetUpdatesBefore, GetUpdatesAfter, GetIsDone, GetIsBeforeHalftime,
         Read, WriteSummary, Receive, Add, Notice, Crash, ServeSubscribe, ServeUnsubscribe,
         ServeError, HangUp, Close, history
<1>2. ServeSend(u) => \A v \in User : v # u => published'[v] = published[v]
  BY DEF ServeSend, TypesOK
<1> QED BY <1>1, <1>2

LEMMA StepSends ==
    ASSUME TypesOK, PlaceOK, SendOK, [Next]_vars PROVE SendOK'
<1>1. CASE UNCHANGED vars
  BY <1>1 DEF SendOK, Sends, Fresh, vars, server, network, history
<1>2. ASSUME NEW u \in User, Steps(u) PROVE SendOK'
  <2>1. Sends(u)'
    <3>0. Sends(u)
      BY DEF SendOK
    <3>1. CASE UNCHANGED <<toServer, reported, published>>
      BY <3>0, <3>1 DEF Sends, Fresh
    <3>2. CASE Type(u)
      <4>1. ASSUME NEW g \in Game, Join(u, g) PROVE Sends(u)'
        <5>1. <<"SUBSCRIBE", g>> \in Request /\ ~IsSend(<<"SUBSCRIBE", g>>)
          BY RequestForm DEF IsSend
        <5> QED BY <3>0, <4>1, <5>1, OtherFrameSends DEF Join, history
      <4>2. ASSUME NEW g \in Game, Exit(u, g) PROVE Sends(u)'
        <5>1. <<"UNSUBSCRIBE">> \in Request /\ ~IsSend(<<"UNSUBSCRIBE">>)
          BY RequestForm DEF IsSend
        <5> QED BY <3>0, <4>2, <5>1, OtherFrameSends DEF Exit, history
      <4> QED BY <3>1, <3>2, <4>1, <4>2 DEF Type, Summarise, Report, Login, network, history
    <3>3. CASE Keyboard(u)
      <4>1. CASE Send(u)
        BY <3>0, <4>1, ReportSends
      <4> QED BY <3>1, <3>3, <4>1 DEF Keyboard, Reset, Erase, ForgetGame, Store, GetUpdatesBefore,
                 GetUpdatesAfter, GetIsDone, GetIsBeforeHalftime, Read, WriteSummary, network, history
    <3>4. CASE Listener(u) \/ Crash(u)
      BY <3>1, <3>4 DEF Listener, Receive, Add, Notice, Crash, network, history
    <3>5. CASE Server(u)
      <4>1. CASE ServeSubscribe(u)
        BY <3>0, <4>1, TakeSends DEF ServeSubscribe
      <4>2. CASE ServeUnsubscribe(u)
        BY <3>0, <4>2, TakeSends DEF ServeUnsubscribe, history
      <4>3. CASE ServeSend(u)
        BY <3>0, <4>3, PublishSends
      <4>4. CASE Close(u)
        <5>1. toServer'[u] = <<>> /\ UNCHANGED <<reported, published>>
          BY <4>4 DEF Close, TypesOK, history
        <5> QED BY <3>0, <5>1, RangeEmpty DEF Sends, AscendingSends
      <4> QED BY <3>5, <4>1, <4>2, <4>3, <4>4 DEF Server, ServeError, HangUp
    <3> QED BY <1>2, <3>2, <3>3, <3>4, <3>5 DEF Steps
  <2>2. ASSUME NEW v \in User, v # u PROVE Sends(v)'
    <3>1. Stays(v) /\ Sends(v) /\ published'[v] = published[v]
      BY <1>2, <2>2, OthersStay, OnlySendPublishes DEF SendOK
    <3> QED BY <3>1 DEF Stays, Sends, Fresh
  <2> QED BY <2>1, <2>2 DEF SendOK
<1> QED BY <1>1, <1>2 DEF Next, Steps

-----------------------------------------------------------------------------
(* The steps that have to do with reports, and those that have not.        *)
Aside(u) ==
    /\ UNCHANGED <<Games, hand, toClient, published, reported, from, listed>>
    /\ kpc[u] \notin {"crashed", "store"} /\ kpc'[u] \notin {"crashed", "store"}

LEMMA KindsOfSteps ==
    ASSUME TypesOK, NEW u \in User, Steps(u)
    PROVE  \/ Aside(u)
           \/ Send(u) \/ Reset(u) \/ Erase(u) \/ Store(u)
           \/ Receive(u) \/ Add(u) \/ Notice(u) \/ Crash(u)
           \/ ServeSubscribe(u) \/ ServeUnsubscribe(u) \/ ServeSend(u) \/ Close(u)
<1>1. CASE Type(u)
  <2>1. UNCHANGED <<Games, hand, toClient, published, reported, from, listed>>
    BY <1>1 DEF Type, Join, Exit, Summarise, Report, Login, Transmit, SendFails,
                client, server, network, history
  <2>2. kpc[u] = "prompt" /\ kpc'[u] \in {"prompt", "reset", "erase", "getBefore", "send"}
    <3>1. ASSUME NEW next, KeyboardAt(u, "prompt", next) PROVE kpc[u] = "prompt" /\ kpc'[u] = next
      BY <3>1 DEF KeyboardAt, TypesOK
    <3>2. Login(u) => kpc[u] = "prompt" /\ kpc'[u] = "prompt"
      BY DEF Login
    <3> QED BY <1>1, <3>1, <3>2 DEF Type, Join, Exit, Summarise, Report
  <2> QED BY <2>1, <2>2 DEF Aside
<1>2. ASSUME NEW here \in Summarising, NEW next \in Summarising, NEW part, Read(u, here, next, part)
      PROVE  Aside(u)
  <2>1. kpc[u] = here /\ kpc'[u] = next
    BY <1>2 DEF Read, KeyboardAt, TypesOK
  <2> QED BY <1>2, <2>1 DEF Read, Aside, Summarising, client, server, network, history
<1>3. ASSUME WriteSummary(u) PROVE Aside(u)
  <2>1. kpc[u] = "print" /\ kpc'[u] = "prompt"
    BY <1>3 DEF WriteSummary, KeyboardAt, TypesOK
  <2> QED BY <1>3, <2>1 DEF WriteSummary, Aside, client, server, network, history
<1>4. {"getBefore", "getAfter", "getDone", "getHalf", "print"} \subseteq Summarising
  BY DEF Summarising
<1>5. CASE Keyboard(u)
  BY <1>2, <1>3, <1>4, <1>5
     DEF Keyboard, GetUpdatesBefore, GetUpdatesAfter, GetIsDone, GetIsBeforeHalftime
<1> QED BY <1>1, <1>5 DEF Steps, Listener, Server, ServeError, HangUp

-----------------------------------------------------------------------------
(* Every step keeps the order of the messages to a client.                 *)
LEMMA InitQueued == Init => QueueOK
<1> SUFFICES ASSUME Init, NEW u \in User PROVE Queued(u)
  BY DEF QueueOK
<1>1. toClient[u] = <<>> /\ hand[u] = {}
  BY DEF Init
<1> QED BY <1>1, RangeEmpty DEF Queued, Ascending

(* A message that is newer than all published ones is put behind them.     *)
LEMMA PublishQueued ==
    ASSUME TypesOK, SendOK, QueueOK, NEW u \in User, ServeSend(u), NEW v \in User
    PROVE  Queued(v)'
<1>1. PICK m \in SentMessage :
        /\ m = Head(toServer[u])[2]
        /\ \A w \in User, g \in Game :
              published'[w][g] = IF w = u /\ g = m.game THEN published[u][m.game] \cup {m.n}
                                 ELSE published[w][g]
        /\ \A x \in User :
              toClient'[x] = IF Subscribed(x, m.game) THEN Append(toClient[x], m) ELSE toClient[x]
  BY SendTypes
<1>2. m.by = u /\ \A k \in published[u][m.game] : k < m.n
  BY <1>1, PublishSends DEF SendOK
<1>3. hand' = hand
  BY DEF ServeSend, Take, client
<1>4. toClient[v] \in Seq(SentMessage) /\ Queued(v) /\ hand[v] \in SUBSET ParsedMessage
  BY DEF QueueOK, TypesOK
<1>5. m.game \in Game
  BY <1>1 DEF SentMessage
<1>6. ASSUME NEW x \in Range(toClient[v]) \cup hand[v]
      PROVE  /\ x.by \in User /\ x.game \in Game /\ x.n \in published'[x.by][x.game]
             /\ Alike(x, m) => x.n < m.n
  <2>1. x \in SentMessage \/ x \in ParsedMessage
    BY <1>4 DEF Range
  <2>2. x.by \in User /\ x.game \in Game
    BY <2>1 DEF SentMessage, ParsedMessage
  <2>3. x.n \in published[x.by][x.game]
    BY <1>4 DEF Queued
  <2> QED BY <1>1, <1>2, <2>2, <2>3 DEF Alike
<1>7. m.n \in published'[m.by][m.game]
  BY <1>1, <1>2, <1>5
<1>8. Range(Append(toClient[v], m)) = Range(toClient[v]) \cup {m}
  BY <1>1, <1>4, RangeAppend
<1>9. Ascending(Append(toClient[v], m))
  BY <1>1, <1>4, <1>6, AscendingAppend DEF Queued
<1>10. ASSUME NEW x \in hand[v], NEW y \in Range(toClient[v]) \cup {m}, Alike(x, y) PROVE x.n < y.n
  BY <1>4, <1>6, <1>10 DEF Queued
<1>11. toClient'[v] \in {toClient[v], Append(toClient[v], m)}
  BY <1>1
<1>12. Ascending(toClient'[v]) /\ Range(toClient'[v]) \subseteq Range(toClient[v]) \cup {m}
  BY <1>4, <1>8, <1>9, <1>11 DEF Queued
<1> QED BY <1>3, <1>6, <1>7, <1>10, <1>12 DEF Queued

LEMMA ReceiveQueued ==
    ASSUME TypesOK, NEW u \in User, Queued(u), Receive(u)
    PROVE  Queued(u)'
<1> DEFINE m == Head(toClient[u])
           parsed == [m EXCEPT !.event = ParseToEvent(@)]
<1>1. toClient[u] \in Seq(SentMessage) /\ toClient[u] # <<>>
  BY DEF Receive, TypesOK
<1>2. toClient'[u] = Tail(toClient[u]) /\ hand'[u] = IF m.by = u THEN {} ELSE {parsed}
  BY DEF Receive, TypesOK
<1>3. m \in SentMessage /\ Range(toClient[u]) = {m} \cup Range(Tail(toClient[u]))
  BY <1>1, RangeTail
<1>4. parsed.by = m.by /\ parsed.game = m.game /\ parsed.n = m.n
  BY <1>3 DEF SentMessage
<1>5. /\ Ascending(Tail(toClient[u]))
      /\ \A x \in Range(Tail(toClient[u])) : Alike(m, x) => m.n < x.n
  BY <1>1, AscendingTail DEF Queued
<1>6. UNCHANGED published
  BY DEF Receive, history
<1> HIDE DEF m, parsed
<1>7. \A x \in Range(toClient'[u]) \cup hand'[u] : x.n \in published'[x.by][x.game]
  BY <1>2, <1>3, <1>4, <1>6 DEF Queued
<1>8. \A x \in hand'[u], y \in Range(toClient'[u]) : Alike(x, y) => x.n < y.n
  BY <1>2, <1>4, <1>5 DEF Alike
<1> QED BY <1>2, <1>5, <1>7, <1>8 DEF Queued

LEMMA StepQueued ==
    ASSUME TypesOK, SendOK, QueueOK, [Next]_vars PROVE QueueOK'
<1>1. CASE UNCHANGED vars
  BY <1>1 DEF QueueOK, Queued, vars, client, network, history
<1>2. ASSUME NEW u \in User, Steps(u) PROVE QueueOK'
  <2>1. CASE ServeSend(u)
    BY <2>1, PublishQueued DEF QueueOK
  <2>2. CASE ~ServeSend(u)
    <3>1. UNCHANGED published
      BY <1>2, <2>2, OnlySendPublishes
    <3>2. ASSUME NEW v \in User, toClient'[v] = toClient[v], hand'[v] \subseteq hand[v]
          PROVE  Queued(v)'
      BY <3>1, <3>2 DEF QueueOK, Queued
    <3>3. Queued(u)'
      <4>1. CASE Receive(u)
        BY <4>1, ReceiveQueued DEF QueueOK
      <4>2. CASE Notice(u)
        <5>1. toClient'[u] = <<>> /\ hand'[u] = hand[u]
          BY <4>2 DEF Notice, TypesOK
        <5> QED BY <3>1, <5>1, RangeEmpty DEF QueueOK, Queued, Ascending
      <4>3. CASE Add(u) \/ Crash(u)
        BY <3>2, <4>3 DEF Add, Crash, network, TypesOK
      <4> QED BY <1>2, <2>2, <3>2, <4>1, <4>2, <4>3, KindsOfSteps
              DEF Aside, Send, Transmit, SendFails, Reset, Erase, ForgetGame, Store, ServeSubscribe,
                  ServeUnsubscribe, Close, Take, client, network
    <3>4. ASSUME NEW v \in User, v # u PROVE Queued(v)'
      <4>1. hand'[v] = hand[v]
        BY <1>2, <3>4, OthersStay DEF Stays
      <4>2. toClient'[v] = toClient[v]
        BY <1>2, <2>2, <3>4, KindsOfSteps
           DEF Aside, Send, Transmit, SendFails, Reset, Erase, Store, Receive, Add, Notice, Crash,
               ServeSubscribe, ServeUnsubscribe, Close, network, TypesOK
      <4> QED BY <3>2, <4>1, <4>2
    <3> QED BY <3>3, <3>4 DEF QueueOK
  <2> QED BY <2>1, <2>2
<1> QED BY <1>1, <1>2 DEF Next, Steps

-----------------------------------------------------------------------------
(* What is coming to a client.                                             *)
NumbersFrom(M, g, w) == {m.n : m \in {x \in M : x.by = w /\ x.game = g}}

LEMMA NumbersUnion ==
    ASSUME NEW M, NEW N, NEW g, NEW w
    PROVE  NumbersFrom(M \cup N, g, w) = NumbersFrom(M, g, w) \cup NumbersFrom(N, g, w)
BY DEF NumbersFrom

LEMMA NumbersOne ==
    ASSUME NEW m, NEW g, NEW w
    PROVE  NumbersFrom({m}, g, w) = IF m.by = w /\ m.game = g THEN {m.n} ELSE {}
BY DEF NumbersFrom

LEMMA NumbersNone == \A g, w : NumbersFrom({}, g, w) = {}
BY DEF NumbersFrom

LEMMA ComingNumbers ==
    ASSUME NEW u, NEW g, NEW w
    PROVE  /\ Coming(u, g, w) = NumbersFrom(Range(toClient[u]), g, w) \cup NumbersFrom(hand[u], g, w)
           /\ Coming(u, g, w)' = NumbersFrom(Range(toClient'[u]), g, w) \cup NumbersFrom(hand'[u], g, w)
<1>1. Coming(u, g, w) = NumbersFrom(Range(toClient[u]) \cup hand[u], g, w)
  BY DEF Coming, NumbersFrom
<1>2. Coming(u, g, w)' = NumbersFrom(Range(toClient'[u]) \cup hand'[u], g, w)
  BY DEF Coming, NumbersFrom
<1> QED BY <1>1, <1>2, NumbersUnion

LEMMA ComingSame ==
    ASSUME NEW u, toClient'[u] = toClient[u], hand'[u] = hand[u]
    PROVE  \A g, w : Coming(u, g, w)' = Coming(u, g, w)
BY DEF Coming

LEMMA ArriveNats ==
    ASSUME TypesOK, NEW u \in User, NEW g \in Game, NEW w \in User, Arrives(u, g, w)
    PROVE  /\ published[w][g] \in SUBSET Nat /\ Coming(u, g, w) \in SUBSET Nat
           /\ Stored(Games[u][g][w]) \in SUBSET Nat /\ from[u][g][w] \in Nat
<1>1. published[w][g] \in SUBSET Nat /\ from[u][g][w] \in Nat
  BY DEF TypesOK
<1>2. Coming(u, g, w) \subseteq published[w][g] /\ Stored(Games[u][g][w]) \subseteq published[w][g]
  BY DEF Arrives, Complete
<1> QED BY <1>1, <1>2

(* The step leaves the reports of w in g alone, or ends what brought them. *)
LEMMA ArriveStays ==
    ASSUME NEW u, NEW g, NEW w, Arrives(u, g, w),
           Games'[u][g][w] = Games[u][g][w], Coming(u, g, w)' = Coming(u, g, w),
           published'[w][g] = published[w][g], from'[u][g][w] = from[u][g][w],
           kpc'[u] # "crashed" => kpc[u] # "crashed", Subscribed(u, g)' => Subscribed(u, g)
    PROVE  Arrives(u, g, w)'
<1> DEFINE S == Stored(Games[u][g][w])
           C == Coming(u, g, w)
           P == published[w][g]
           f == from[u][g][w]
           a == kpc[u] # "crashed"
           b == Subscribed(u, g)
           c == kpc'[u] # "crashed"
           d == Subscribed(u, g)'
<1>1. Complete(S, C, P, f, a, b) /\ (c => a) /\ (d => b)
  BY DEF Arrives
<1>2. Arrives(u, g, w)' <=> Complete(S, C, P, f, c, d)
  BY DEF Arrives
<1> HIDE DEF S, C, P, f, a, b, c, d
<1>3. Complete(S, C, P, f, c, d)
  BY <1>1, CompleteEnd
<1> QED BY <1>2, <1>3

LEMMA InitArrive == Init => StoredOK /\ ArriveOK /\ OwnOK
<1> SUFFICES ASSUME Init, NEW u \in User, NEW w \in User, NEW g \in Game
             PROVE  /\ Counted(Games[u][g][w]) /\ Arrives(u, g, w)
                    /\ OwnComplete(Stored(Games[u][g][u]), reported[u][g], from[u][g][u],
                                   kpc[u] = "store" /\ game[u] = {g})
  BY DEF StoredOK, ArriveOK, OwnOK
<1>1. Games[u][g][w] = NoUpdates /\ Games[u][g][u] = NoUpdates
  BY DEF Init, NoLogs
<1>2. toClient[u] = <<>> /\ hand[u] = {} /\ published[w][g] = {} /\ reported[u][g] = 0
  BY DEF Init
<1>3. Coming(u, g, w) = {}
  <2>1. Coming(u, g, w) = NumbersFrom(Range(toClient[u]), g, w) \cup NumbersFrom(hand[u], g, w)
    BY ComingNumbers
  <2>2. Range(toClient[u]) = {} /\ hand[u] = {}
    BY <1>2, RangeEmpty
  <2>3. NumbersFrom({}, g, w) = {}
    BY NumbersNone
  <2> QED BY <2>1, <2>2, <2>3
<1>4. kpc[u] = "prompt"
  BY DEF Init
<1> QED BY <1>1, <1>2, <1>3, <1>4, EmptyCounts DEF Arrives, Complete, OwnComplete

(* A client empties a game.                                                *)
LEMMA ForgetArrive ==
    ASSUME TypesOK, PlaceOK, SendOK, StoredOK, ArriveOK, OwnOK, NEW u \in User, Reset(u) \/ Erase(u)
    PROVE  StoredOK' /\ ArriveOK' /\ OwnOK'
<1>1. PICK g \in Game : The(game[u]) = g
  BY AtPlace DEF Reset, Erase, KeyboardAt
<1>2. \A v \in User, h \in Game, w \in User :
        /\ Games'[v][h][w] = IF v = u /\ h = g THEN NoUpdates ELSE Games[v][h][w]
        /\ from'[v][h][w] = IF v = u /\ h = g THEN Latest(u, g, w) ELSE from[v][h][w]
  BY <1>1, ForgetTypes DEF Reset, Erase
<1>3. UNCHANGED <<hand, listed, toClient, reported, published>>
  BY DEF Reset, Erase, ForgetGame, server, network
<1>4. /\ kpc[u] \notin {"crashed", "store"} /\ kpc'[u] \notin {"crashed", "store"}
      /\ \A v \in User : v # u => kpc'[v] = kpc[v] /\ game'[v] = game[v]
  BY DEF Reset, Erase, KeyboardAt, TypesOK
<1>5. StoredOK'
  BY <1>2, EmptyCounts DEF StoredOK
<1>6. ASSUME NEW v \in User, NEW h \in Game, NEW w \in User, v # w PROVE Arrives(v, h, w)'
  <2>1. Arrives(v, h, w) /\ Coming(v, h, w)' = Coming(v, h, w) /\ Subscribed(v, h)' = Subscribed(v, h)
    BY <1>3, <1>6, ComingNumbers DEF ArriveOK, Subscribed
  <2>2. CASE ~(v = u /\ h = g)
    BY <1>2, <1>3, <1>4, <2>1, <2>2, ArriveStays
  <2>3. CASE v = u /\ h = g
    <3>1. /\ Latest(u, g, w) \in Nat /\ \A k \in published[w][g] : k <= Latest(u, g, w)
      BY <1>6, <2>3, LatestIs
    <3> DEFINE S == Stored(Games[u][g][w])
               C == Coming(u, g, w)
               P == published[w][g]
               f == from[u][g][w]
               b == Subscribed(u, g)
               last == Latest(u, g, w)
    <3>2. Complete(S, C, P, f, TRUE, b)
      BY <1>4, <2>1, <2>3 DEF Arrives
    <3>3. Arrives(u, g, w)' <=> Complete({}, C, P, last, TRUE, b)
      BY <1>2, <1>3, <1>4, <2>1, <2>3, EmptyCounts DEF Arrives
    <3>4. C \in SUBSET Nat /\ P \in SUBSET Nat /\ last \in Nat /\ \A k \in P : k <= last
      BY <2>1, <2>3, <3>1, ArriveNats
    <3> HIDE DEF S, C, P, f, b, last
    <3>5. Complete({}, C, P, last, TRUE, b)
      BY <3>2, <3>4, CompleteForget
    <3> QED BY <2>3, <3>3, <3>5
  <2> QED BY <2>2, <2>3
<1>7. ASSUME NEW v \in User, NEW h \in Game
      PROVE  OwnComplete(Stored(Games'[v][h][v]), reported'[v][h], from'[v][h][v],
                         kpc'[v] = "store" /\ game'[v] = {h})
  <2>1. OwnComplete(Stored(Games[v][h][v]), reported[v][h], from[v][h][v],
                    kpc[v] = "store" /\ game[v] = {h})
    BY DEF OwnOK
  <2>2. CASE ~(v = u /\ h = g)
    BY <1>2, <1>3, <1>4, <2>1, <2>2 DEF OwnComplete
  <2>3. CASE v = u /\ h = g
    <3>1. Latest(u, g, u) = reported[u][g] /\ reported[u][g] \in Nat
      BY LatestIs DEF TypesOK
    <3> QED BY <1>2, <1>3, <1>4, <2>3, <3>1, EmptyCounts DEF OwnComplete
  <2> QED BY <2>2, <2>3
<1> QED BY <1>5, <1>6, <1>7 DEF ArriveOK, OwnOK

(* Of a client that stores nothing, everything it has is as it was.        *)
OwnStays(v) ==
    /\ \A h \in Game : /\ Games'[v][h][v] = Games[v][h][v] /\ reported'[v][h] = reported[v][h]
                       /\ from'[v][h][v] = from[v][h][v]
    /\ \/ kpc'[v] = kpc[v] /\ game'[v] = game[v]
       \/ kpc[v] # "store" /\ kpc'[v] # "store"

LEMMA OwnKeeps ==
    ASSUME OwnOK, \A v \in User : OwnStays(v) PROVE OwnOK'
<1> SUFFICES ASSUME NEW v \in User, NEW h \in Game
             PROVE  OwnComplete(Stored(Games'[v][h][v]), reported'[v][h], from'[v][h][v],
                                kpc'[v] = "store" /\ game'[v] = {h})
  BY DEF OwnOK
<1>1. OwnComplete(Stored(Games[v][h][v]), reported[v][h], from[v][h][v], kpc[v] = "store" /\ game[v] = {h})
  BY DEF OwnOK
<1> QED BY <1>1 DEF OwnStays, OwnComplete

(* A step that leaves the table and the network to the clients alone.      *)
LEMMA AsideArrive ==
    ASSUME StoredOK, ArriveOK, OwnOK, UNCHANGED <<Games, hand, toClient, published, from>>,
           \A v \in User : kpc'[v] # "crashed" => kpc[v] # "crashed",
           \A v \in User, h \in Game : Subscribed(v, h)' => Subscribed(v, h)
    PROVE  StoredOK' /\ ArriveOK'
<1>1. StoredOK'
  BY DEF StoredOK
<1>2. \A v, h, w : Coming(v, h, w)' = Coming(v, h, w)
  BY ComingNumbers
<1>3. ASSUME NEW v \in User, NEW h \in Game, NEW w \in User, v # w PROVE Arrives(v, h, w)'
  BY <1>2, <1>3, ArriveStays DEF ArriveOK
<1> QED BY <1>1, <1>3 DEF ArriveOK

(* A client sends a report.                                                *)
LEMMA SendArrive ==
    ASSUME TypesOK, PlaceOK, SendOK, StoredOK, ArriveOK, OwnOK, NEW u \in User, Send(u)
    PROVE  StoredOK' /\ ArriveOK' /\ OwnOK'
<1>1. PICK g \in Game : game[u] = {g} /\ The(game[u]) = g
  BY AtPlace DEF Send, KeyboardAt
<1>2. UNCHANGED <<Games, hand, listed, toClient, published, from>>
  BY DEF Send, Transmit, SendFails, client, server, network
<1>3. /\ kpc[u] = "send" /\ kpc'[u] \in {"store", "prompt"}
      /\ \A v \in User : v # u => kpc'[v] = kpc[v] /\ game'[v] = game[v]
  BY DEF Send, KeyboardAt, TypesOK
<1>4. StoredOK' /\ ArriveOK'
  BY <1>2, <1>3, AsideArrive DEF Subscribed
<1>5. reported \in [User -> [Game -> Nat]]
  BY DEF TypesOK
<1>6. \/ /\ reported' = [reported EXCEPT ![u][g] = @ + 1]
         /\ kpc'[u] = "store" /\ game'[u] = {g}
      \/ UNCHANGED reported /\ kpc'[u] = "prompt"
  BY <1>1 DEF Send, KeyboardAt, TypesOK
<1>7. CASE UNCHANGED reported /\ kpc'[u] = "prompt"
  BY <1>2, <1>3, <1>4, <1>7, OwnKeeps DEF OwnStays
<1>8. CASE /\ reported' = [reported EXCEPT ![u][g] = @ + 1]
           /\ kpc'[u] = "store" /\ game'[u] = {g}
  <2>1. \A v \in User, h \in Game :
           reported'[v][h] = IF v = u /\ h = g THEN reported[u][g] + 1 ELSE reported[v][h]
    BY <1>5, <1>8
  <2>2. ASSUME NEW v \in User, NEW h \in Game
        PROVE  OwnComplete(Stored(Games'[v][h][v]), reported'[v][h], from'[v][h][v],
                           kpc'[v] = "store" /\ game'[v] = {h})
    <3>1. OwnComplete(Stored(Games[v][h][v]), reported[v][h], from[v][h][v],
                      kpc[v] = "store" /\ game[v] = {h})
      BY DEF OwnOK
    <3>2. CASE v # u
      BY <1>2, <1>3, <2>1, <3>1, <3>2 DEF OwnComplete
    <3>3. CASE v = u /\ h # g
      <4>1. ~(kpc'[v] = "store" /\ game'[v] = {h}) /\ ~(kpc[v] = "store" /\ game[v] = {h})
        BY <1>3, <1>8, <3>3
      <4> QED BY <1>2, <2>1, <3>1, <3>3, <4>1 DEF OwnComplete
    <3>4. CASE v = u /\ h = g
      <4> DEFINE S == Stored(Games[u][g][u])
                 r == reported[u][g]
                 f == from[u][g][u]
      <4>1. r \in Nat /\ OwnComplete(S, r, f, FALSE)
        BY <1>3, <1>5, <3>1, <3>4
      <4>2. /\ Games'[v][h][v] = Games[u][g][u] /\ reported'[v][h] = r + 1 /\ from'[v][h][v] = f
            /\ kpc'[v] = "store" /\ game'[v] = {h}
        BY <1>2, <1>8, <2>1, <3>4
      <4>3. OwnComplete(S, r + 1, f, TRUE)
        <5> HIDE DEF S, r, f
        <5> QED BY <4>1 DEF OwnComplete
      <4> QED BY <4>2, <4>3
    <3> QED BY <3>2, <3>3, <3>4
  <2> QED BY <1>4, <2>2 DEF OwnOK
<1> QED BY <1>6, <1>7, <1>8

(* The reporter stores its report.                                         *)
LEMMA StoreArrive ==
    ASSUME TypesOK, PlaceOK, SendOK, StoredOK, ArriveOK, OwnOK, NEW u \in User, Store(u)
    PROVE  StoredOK' /\ ArriveOK' /\ OwnOK'
<1>1. PICK g \in Game :
        /\ game[u] = {g} /\ The(game[u]) = g
        /\ AddTo(u, g, u, reported[u][g], Head(left[u]))
        /\ reported[u][g] \in Nat \ {0} /\ Head(left[u]) \in Original
  BY StoreStores DEF Stores
<1> DEFINE r == reported[u][g]
           entry == [n |-> r, event |-> Head(left[u])]
           new == AddUpdate(Games[u][g][u], entry)
<1>2. \A v \in User, h \in Game, x \in User :
         Games'[v][h][x] = IF v = u /\ h = g /\ x = u THEN new ELSE Games[v][h][x]
  BY <1>1, AddTypes
<1>3. UNCHANGED <<hand, listed, toClient, reported, published, from>>
  BY DEF Store, server, network, history
<1>4. /\ kpc[u] = "store" /\ kpc'[u] \in {"prompt", "send"}
      /\ \A v \in User : v # u => kpc'[v] = kpc[v] /\ game'[v] = game[v]
  BY DEF Store, KeyboardAt, TypesOK
<1>5. entry \in Entry /\ entry.n = r
  BY <1>1 DEF Entry
<1>6. Counted(Games[u][g][u]) /\ OwnComplete(Stored(Games[u][g][u]), r, from[u][g][u], TRUE)
  BY <1>1, <1>4 DEF StoredOK, OwnOK
<1>7. r \notin Stored(Games[u][g][u])
  BY <1>6 DEF OwnComplete
<1> HIDE DEF entry
<1>8. Counted(new) /\ Stored(new) = Stored(Games[u][g][u]) \cup {r}
  BY <1>5, <1>6, <1>7, AddCounts, AddStores DEF Counted
<1> HIDE DEF new
<1>9. StoredOK'
  BY <1>2, <1>8 DEF StoredOK
<1>10. ASSUME NEW v \in User, NEW h \in Game, NEW w \in User, v # w PROVE Arrives(v, h, w)'
  <2>1. Arrives(v, h, w) /\ Coming(v, h, w)' = Coming(v, h, w) /\ Subscribed(v, h)' = Subscribed(v, h)
    BY <1>3, <1>10, ComingNumbers DEF ArriveOK, Subscribed
  <2>2. Games'[v][h][w] = Games[v][h][w]
    BY <1>2, <1>10
  <2> QED BY <1>3, <1>4, <2>1, <2>2, ArriveStays
<1>11. ASSUME NEW v \in User, NEW h \in Game
       PROVE  OwnComplete(Stored(Games'[v][h][v]), reported'[v][h], from'[v][h][v],
                          kpc'[v] = "store" /\ game'[v] = {h})
  <2>1. OwnComplete(Stored(Games[v][h][v]), reported[v][h], from[v][h][v],
                    kpc[v] = "store" /\ game[v] = {h})
    BY DEF OwnOK
  <2>2. CASE v # u
    BY <1>2, <1>3, <1>4, <2>1, <2>2 DEF OwnComplete
  <2>3. CASE v = u /\ h # g
    <3>1. ~(kpc'[v] = "store" /\ game'[v] = {h}) /\ ~(kpc[v] = "store" /\ game[v] = {h})
      BY <1>1, <1>4, <2>3
    <3> QED BY <1>2, <1>3, <2>1, <2>3, <3>1 DEF OwnComplete
  <2>4. CASE v = u /\ h = g
    <3> DEFINE S == Stored(Games[u][g][u])
               f == from[u][g][u]
    <3>1. r \in Nat \ {0} /\ OwnComplete(S, r, f, TRUE)
      BY <1>1, <1>6
    <3>2. Stored(Games'[v][h][v]) = S \cup {r} /\ reported'[v][h] = r /\ from'[v][h][v] = f
          /\ ~(kpc'[v] = "store" /\ game'[v] = {h})
      BY <1>2, <1>3, <1>4, <1>8, <2>4
    <3>3. OwnComplete(S \cup {r}, r, f, FALSE)
      <4> HIDE DEF S, r, f
      <4> QED BY <3>1 DEF OwnComplete
    <3> QED BY <3>2, <3>3
  <2> QED BY <2>2, <2>3, <2>4
<1> QED BY <1>9, <1>10, <1>11 DEF ArriveOK, OwnOK

(* The listener takes a message: what is coming stays the same.            *)
LEMMA ReceiveArrive ==
    ASSUME TypesOK, StoredOK, ArriveOK, OwnOK, NEW u \in User, Receive(u)
    PROVE  StoredOK' /\ ArriveOK' /\ OwnOK'
<1> DEFINE m == Head(toClient[u])
           parsed == [m EXCEPT !.event = ParseToEvent(@)]
<1>1. toClient[u] \in Seq(SentMessage) /\ toClient[u] # <<>> /\ hand[u] = {}
  BY DEF Receive, TypesOK
<1>2. /\ toClient'[u] = Tail(toClient[u]) /\ hand'[u] = IF m.by = u THEN {} ELSE {parsed}
      /\ \A v \in User : v # u => toClient'[v] = toClient[v] /\ hand'[v] = hand[v]
  BY DEF Receive, TypesOK
<1>3. m \in SentMessage /\ Range(toClient[u]) = {m} \cup Range(Tail(toClient[u]))
  BY <1>1, RangeTail
<1>4. parsed.by = m.by /\ parsed.game = m.game /\ parsed.n = m.n
  BY <1>3 DEF SentMessage
<1>5. UNCHANGED <<kpc, game, Games, listed, reported, published, from>>
  BY DEF Receive, keyboard, server, history
<1> HIDE DEF m, parsed
<1>6. ASSUME NEW v \in User, NEW h \in Game, NEW w \in User, v # w
      PROVE  Coming(v, h, w)' = Coming(v, h, w)
  <2>1. CASE v # u
    <3>1. toClient'[v] = toClient[v] /\ hand'[v] = hand[v]
      BY <1>2, <2>1
    <3> QED BY <3>1, ComingSame
  <2>2. CASE v = u
    <3> DEFINE rest == NumbersFrom(Range(Tail(toClient[u])), h, w)
               one == IF m.by = w /\ m.game = h THEN {m.n} ELSE {}
    <3>0. NumbersFrom({m}, h, w) = one
      BY NumbersOne
    <3>1. NumbersFrom(Range(toClient[u]), h, w) = one \cup rest
      <4>1. NumbersFrom({m} \cup Range(Tail(toClient[u])), h, w) = NumbersFrom({m}, h, w) \cup rest
        BY NumbersUnion
      <4> QED BY <1>3, <3>0, <4>1
    <3>2. Coming(u, h, w) = one \cup rest
      <4>1. Coming(u, h, w) = NumbersFrom(Range(toClient[u]), h, w) \cup NumbersFrom(hand[u], h, w)
        BY ComingNumbers
      <4>2. NumbersFrom(hand[u], h, w) = {}
        BY <1>1, NumbersNone
      <4> QED BY <3>1, <4>1, <4>2
    <3>3. NumbersFrom(hand'[u], h, w) = one
      <4>1. CASE m.by = u
        BY <1>2, <1>6, <2>2, <4>1, NumbersNone
      <4>2. CASE m.by # u
        BY <1>2, <1>4, <4>2, NumbersOne
      <4> QED BY <4>1, <4>2
    <3>4. Coming(u, h, w)' = rest \cup one
      BY <1>2, <3>3, ComingNumbers
    <3> QED BY <2>2, <3>2, <3>4
  <2> QED BY <2>1, <2>2
<1>7. ASSUME NEW v \in User, NEW h \in Game, NEW w \in User, v # w PROVE Arrives(v, h, w)'
  <2>1. Arrives(v, h, w) /\ Subscribed(v, h)' = Subscribed(v, h)
    BY <1>5, <1>7 DEF ArriveOK, Subscribed
  <2> QED BY <1>5, <1>6, <1>7, <2>1, ArriveStays
<1>8. OwnOK'
  BY <1>5, OwnKeeps DEF OwnStays
<1>9. StoredOK'
  BY <1>5 DEF StoredOK
<1> QED BY <1>7, <1>8, <1>9 DEF ArriveOK

(* The listener stores a message: what came first is stored next.          *)
LEMMA AddArrive ==
    ASSUME TypesOK, PlaceOK, QueueOK, StoredOK, ArriveOK, OwnOK, NEW u \in User, Add(u)
    PROVE  StoredOK' /\ ArriveOK' /\ OwnOK'
<1>1. PICK m \in hand[u] : AddTo(u, m.game, m.by, m.n, m.event)
  BY DEF Add
<1>2. m \in ParsedMessage /\ hand[u] = {m} /\ m.by # u /\ kpc[u] # "crashed"
  BY <1>1 DEF TypesOK, PlaceOK, Placed
<1>3. m.game \in Game /\ m.by \in User /\ m.n \in Nat \ {0} /\ m.event \in Copied
  BY <1>2 DEF ParsedMessage
<1> DEFINE g == m.game
           w == m.by
           n == m.n
           entry == [n |-> n, event |-> m.event]
           new == AddUpdate(Games[u][g][w], entry)
<1>4. \A v \in User, h \in Game, x \in User :
         Games'[v][h][x] = IF v = u /\ h = g /\ x = w THEN new ELSE Games[v][h][x]
  BY <1>1, <1>3, AddTypes
<1>5. /\ UNCHANGED <<kpc, game, listed, toClient, reported, published, from>>
      /\ hand'[u] = {} /\ \A v \in User : v # u => hand'[v] = hand[v]
  BY DEF Add, keyboard, server, network, history, TypesOK
<1>6. entry \in Entry /\ entry.n = n
  BY <1>3 DEF Entry
<1> DEFINE S == Stored(Games[u][g][w])
           C == Coming(u, g, w)
           D == NumbersFrom(Range(toClient[u]), g, w)
           P == published[w][g]
           f == from[u][g][w]
           b == Subscribed(u, g)
<1>7. Complete(S, C, P, f, TRUE, b) /\ Arrives(u, g, w)
  BY <1>2, <1>3 DEF ArriveOK, Arrives
<1>8. C = {n} \cup D
  <2>1. NumbersFrom(hand[u], g, w) = {n}
    BY <1>2, NumbersOne
  <2>2. C = D \cup NumbersFrom(hand[u], g, w)
    BY ComingNumbers
  <2> QED BY <2>1, <2>2
<1>9. \A d \in D : n < d
  BY <1>2 DEF QueueOK, Queued, NumbersFrom, Alike
<1>10. P \in SUBSET Nat /\ f \in Nat /\ S \in SUBSET Nat /\ n \in Nat
  BY <1>3, <1>7, ArriveNats
<1>11. n \notin S
  <2>1. n \in C
    BY <1>8
  <2>2. \A k \in S : k < n
    BY <1>7, <2>1 DEF Complete
  <2> QED BY <1>10, <2>2
<1>12. Counted(Games[u][g][w])
  BY <1>3 DEF StoredOK
<1> HIDE DEF entry
<1>13. Counted(new) /\ Stored(new) = S \cup {n}
  BY <1>6, <1>11, <1>12, AddCounts, AddStores DEF Counted
<1> HIDE DEF new
<1>14. StoredOK'
  BY <1>4, <1>13 DEF StoredOK
<1>15. Complete(S \cup {n}, D, P, f, TRUE, b)
  <2> HIDE DEF S, C, D, P, f, b, n
  <2> QED BY <1>7, <1>8, <1>9, <1>10, CompleteAdd
<1>16. ASSUME NEW v \in User, NEW h \in Game, NEW x \in User, v # x PROVE Arrives(v, h, x)'
  <2>1. Arrives(v, h, x) /\ Subscribed(v, h)' = Subscribed(v, h)
    BY <1>5, <1>16 DEF ArriveOK, Subscribed
  <2>2. CASE ~(v = u /\ h = g /\ x = w)
    <3>1. Games'[v][h][x] = Games[v][h][x]
      BY <1>4, <2>2
    <3>2. Coming(v, h, x)' = Coming(v, h, x)
      <4>1. CASE v # u
        <5>1. toClient'[v] = toClient[v] /\ hand'[v] = hand[v]
          BY <1>5, <4>1
        <5> QED BY <5>1, ComingSame
      <4>2. CASE v = u
        <5>1. NumbersFrom(hand[u], h, x) = {}
          BY <1>2, <2>2, <4>2, NumbersOne
        <5>2. NumbersFrom(hand'[u], h, x) = {}
          BY <1>5, NumbersNone
        <5>3. /\ Coming(u, h, x) = NumbersFrom(Range(toClient[u]), h, x) \cup NumbersFrom(hand[u], h, x)
              /\ Coming(u, h, x)' = NumbersFrom(Range(toClient'[u]), h, x) \cup NumbersFrom(hand'[u], h, x)
          BY ComingNumbers
        <5> QED BY <1>5, <4>2, <5>1, <5>2, <5>3
      <4> QED BY <4>1, <4>2
    <3> QED BY <1>5, <2>1, <3>1, <3>2, ArriveStays
  <2>3. CASE v = u /\ h = g /\ x = w
    <3>1. Coming(u, g, w)' = D
      <4>1. Coming(u, m.game, m.by)' = NumbersFrom(Range(toClient'[u]), m.game, m.by)
                                       \cup NumbersFrom(hand'[u], m.game, m.by)
        BY ComingNumbers
      <4>2. NumbersFrom(hand'[u], m.game, m.by) = {}
        BY <1>5, NumbersNone
      <4>3. NumbersFrom(Range(toClient'[u]), m.game, m.by) = NumbersFrom(Range(toClient[u]), m.game, m.by)
        BY <1>5
      <4> QED BY <4>1, <4>2, <4>3
    <3>2. Stored(Games'[u][g][w]) = S \cup {n}
      BY <1>3, <1>4, <1>13
    <3> QED BY <1>2, <1>5, <1>15, <2>1, <2>3, <3>1, <3>2 DEF Arrives
  <2> QED BY <2>2, <2>3
<1>17. OwnOK'
  <2>1. \A v \in User, h \in Game : Games'[v][h][v] = Games[v][h][v]
    BY <1>2, <1>4
  <2> QED BY <1>5, <2>1, OwnKeeps DEF OwnStays
<1> QED BY <1>14, <1>16, <1>17 DEF ArriveOK

(* The listener sees the end of the connection: what was coming is lost.   *)
LEMMA NoticeArrive ==
    ASSUME TypesOK, PlaceOK, HeldOK, StoredOK, ArriveOK, OwnOK, NEW u \in User, Notice(u)
    PROVE  StoredOK' /\ ArriveOK' /\ OwnOK'
<1>1. /\ UNCHANGED <<kpc, game, Games, hand, listed, reported, published, from>>
      /\ toClient'[u] = <<>> /\ \A v \in User : v # u => toClient'[v] = toClient[v]
  BY DEF Notice, keyboard, server, history, TypesOK
<1>2. hand[u] = {} /\ subs[u] = <<>>
  BY DEF Notice, PlaceOK, Placed
<1>3. \A h \in Game : ~Subscribed(u, h)
  BY <1>2 DEF HeldOK, Holds
<1>4. ASSUME NEW v \in User, NEW h \in Game, NEW w \in User, v # w PROVE Arrives(v, h, w)'
  <2>1. Arrives(v, h, w) /\ Subscribed(v, h)' = Subscribed(v, h)
    BY <1>1, <1>4 DEF ArriveOK, Subscribed
  <2>2. CASE v # u
    <3>1. Coming(v, h, w)' = Coming(v, h, w)
      BY <1>1, <2>2, ComingSame
    <3> QED BY <1>1, <2>1, <3>1, ArriveStays
  <2>3. CASE v = u
    <3> DEFINE S == Stored(Games[u][h][w])
               C == Coming(u, h, w)
               P == published[w][h]
               f == from[u][h][w]
               a == kpc[u] # "crashed"
               b == Subscribed(u, h)
    <3>1. Complete(S, C, P, f, a, b) /\ ~b
      BY <1>3, <2>1, <2>3 DEF Arrives
    <3>2. Coming(u, h, w)' = {}
      <4>1. Coming(u, h, w)' = NumbersFrom(Range(toClient'[u]), h, w) \cup NumbersFrom(hand'[u], h, w)
        BY ComingNumbers
      <4> QED BY <1>1, <1>2, <4>1, NumbersNone, RangeEmpty
    <3>3. Arrives(u, h, w)' <=> Complete(S, {}, P, f, a, b)
      BY <1>1, <2>1, <2>3, <3>2 DEF Arrives
    <3> HIDE DEF S, C, P, f, a, b
    <3>4. Complete(S, {}, P, f, a, b)
      BY <3>1, CompleteLose
    <3> QED BY <2>3, <3>3, <3>4
  <2> QED BY <2>2, <2>3
<1>5. OwnOK'
  BY <1>1, OwnKeeps DEF OwnStays
<1>6. StoredOK'
  BY <1>1 DEF StoredOK
<1> QED BY <1>4, <1>5, <1>6 DEF ArriveOK

(* The client ends in a race: it stores no more.                           *)
LEMMA CrashArrive ==
    ASSUME TypesOK, StoredOK, ArriveOK, OwnOK, NEW u \in User, Crash(u)
    PROVE  StoredOK' /\ ArriveOK' /\ OwnOK'
<1>1. /\ UNCHANGED <<game, Games, listed, toClient, reported, published, from>>
      /\ hand'[u] = {} /\ kpc'[u] = "crashed" /\ kpc[u] \in Unlocked
      /\ \A v \in User : v # u => kpc'[v] = kpc[v] /\ hand'[v] = hand[v]
  BY DEF Crash, server, network, history, TypesOK
<1>2. ASSUME NEW v \in User, NEW h \in Game, NEW w \in User, v # w PROVE Arrives(v, h, w)'
  <2>1. Arrives(v, h, w) /\ Subscribed(v, h)' = Subscribed(v, h)
    BY <1>1, <1>2 DEF ArriveOK, Subscribed
  <2>2. CASE v # u
    <3>1. Coming(v, h, w)' = Coming(v, h, w)
      BY <1>1, <2>2, ComingSame
    <3> QED BY <1>1, <2>1, <2>2, <3>1, ArriveStays
  <2>3. CASE v = u
    <3> DEFINE S == Stored(Games[u][h][w])
               C == Coming(u, h, w)
               D == Coming(u, h, w)'
               P == published[w][h]
               f == from[u][h][w]
               a == kpc[u] # "crashed"
               b == Subscribed(u, h)
    <3>1. Complete(S, C, P, f, a, b)
      BY <2>1, <2>3 DEF Arrives
    <3>2. D \subseteq C
      <4>1. /\ Coming(u, h, w) = NumbersFrom(Range(toClient[u]), h, w) \cup NumbersFrom(hand[u], h, w)
            /\ Coming(u, h, w)' = NumbersFrom(Range(toClient'[u]), h, w) \cup NumbersFrom(hand'[u], h, w)
        BY ComingNumbers
      <4>2. NumbersFrom(hand'[u], h, w) = {}
        BY <1>1, NumbersNone
      <4> QED BY <1>1, <4>1, <4>2
    <3>3. Arrives(u, h, w)' <=> Complete(S, D, P, f, FALSE, b)
      BY <1>1, <2>1, <2>3 DEF Arrives
    <3> HIDE DEF S, C, D, P, f, a, b
    <3>4. Complete(S, D, P, f, FALSE, b)
      BY <3>1, <3>2, CompleteLose
    <3> QED BY <2>3, <3>3, <3>4
  <2> QED BY <2>2, <2>3
<1>3. kpc[u] # "store" /\ kpc'[u] # "store"
  BY <1>1 DEF Unlocked
<1>4. OwnOK'
  BY <1>1, <1>3, OwnKeeps DEF OwnStays
<1>5. StoredOK'
  BY <1>1 DEF StoredOK
<1> QED BY <1>2, <1>4, <1>5 DEF ArriveOK

(* The server takes a subscription: the reports after the last published   *)
(* one will come.                                                          *)
LEMMA SubscribeArrive ==
    ASSUME TypesOK, SendOK, StoredOK, ArriveOK, OwnOK, NEW u \in User, ServeSubscribe(u)
    PROVE  StoredOK' /\ ArriveOK' /\ OwnOK'
<1>1. PICK g \in Game :
        /\ g = Head(toServer[u])[2]
        /\ ~Holds(u, g)
        /\ from' \in [User -> [Game -> [User -> Nat]]]
        /\ subs' \in [User -> Seq(Game)]
        /\ subs' = [subs EXCEPT ![u] = Append(subs[u], g)]
        /\ \A v \in User, h \in Game, w \in User :
              from'[v][h][w] = IF v = u /\ h = g /\ w # u THEN Latest(u, g, w) ELSE from[v][h][w]
  BY SubscribeTypes, Zenon
<1>2. UNCHANGED <<kpc, game, Games, hand, toClient, reported, published>>
  BY DEF ServeSubscribe, Take, keyboard, client
<1>3. ASSUME NEW v \in User, NEW h \in Game, Subscribed(v, h)', ~(v = u /\ h = g) PROVE Subscribed(v, h)
  BY <1>1, <1>3, ListTypes
<1>4. ASSUME NEW v \in User, NEW h \in Game, NEW w \in User, v # w PROVE Arrives(v, h, w)'
  <2>1. Arrives(v, h, w) /\ Coming(v, h, w)' = Coming(v, h, w)
    BY <1>2, <1>4, ComingSame DEF ArriveOK
  <2>2. CASE ~(v = u /\ h = g)
    BY <1>1, <1>2, <1>3, <2>1, <2>2, ArriveStays
  <2>3. CASE v = u /\ h = g
    <3> DEFINE S == Stored(Games[u][g][w])
               C == Coming(u, g, w)
               P == published[w][g]
               f == from[u][g][w]
               a == kpc[u] # "crashed"
               b == Subscribed(u, g)
               c == Subscribed(u, g)'
               last == Latest(u, g, w)
    <3>1. Complete(S, C, P, f, a, b)
      BY <2>1, <2>3 DEF Arrives
    <3>2. C \in SUBSET Nat /\ P \in SUBSET Nat /\ last \in Nat /\ \A k \in P : k <= last
      BY <1>4, <2>1, <2>3, ArriveNats, LatestIs
    <3>3. Arrives(u, g, w)' <=> Complete(S, C, P, last, a, c)
      <4>1. from'[u][g][w] = last
        BY <1>1, <1>4, <2>3
      <4>2. kpc'[u] = kpc[u] /\ Games'[u][g][w] = Games[u][g][w] /\ published'[w][g] = P
            /\ Coming(u, g, w)' = C
        BY <1>2, <2>1, <2>3
      <4>3. Arrives(u, g, w)' <=> Complete(Stored(Games'[u][g][w]), Coming(u, g, w)', published'[w][g],
                                           from'[u][g][w], kpc'[u] # "crashed", c)
        BY DEF Arrives
      <4> QED BY <4>1, <4>2, <4>3
    <3> HIDE DEF S, C, P, f, a, b, c, last
    <3>4. Complete(S, C, P, last, a, c)
      BY <3>1, <3>2, CompleteSubscribe
    <3> QED BY <2>3, <3>3, <3>4
  <2> QED BY <2>2, <2>3
<1>5. \A v \in User, h \in Game : from'[v][h][v] = from[v][h][v]
  BY <1>1
<1>6. OwnOK'
  BY <1>2, <1>5, OwnKeeps DEF OwnStays
<1>7. StoredOK'
  BY <1>2 DEF StoredOK
<1> QED BY <1>4, <1>6, <1>7 DEF ArriveOK

(* The server takes the oldest subscription away.                          *)
LEMMA UnsubscribeArrive ==
    ASSUME TypesOK, StoredOK, ArriveOK, OwnOK, NEW u \in User, ServeUnsubscribe(u)
    PROVE  StoredOK' /\ ArriveOK' /\ OwnOK'
<1>1. UNCHANGED <<kpc, game, Games, hand, toClient, reported, published, from>>
  BY DEF ServeUnsubscribe, Take, keyboard, client, history
<1>2. ~ServeSubscribe(u)
  BY DEF ServeSubscribe, ServeUnsubscribe, Take
<1>3. \A v \in User, h \in Game : Subscribed(v, h)' => Subscribed(v, h)
  BY <1>2, ListTypes
<1>4. StoredOK' /\ ArriveOK'
  BY <1>1, <1>3, AsideArrive
<1>5. OwnOK'
  BY <1>1, OwnKeeps DEF OwnStays
<1> QED BY <1>4, <1>5

LEMMA CloseArrive ==
    ASSUME TypesOK, StoredOK, ArriveOK, OwnOK, NEW u \in User, Close(u)
    PROVE  StoredOK' /\ ArriveOK' /\ OwnOK'
<1>1. UNCHANGED <<kpc, game, Games, hand, toClient, reported, published, from>>
  BY DEF Close, keyboard, client, history
<1>2. ~ServeSubscribe(u)
  <2>1. open'[u] = FALSE
    BY DEF Close, TypesOK
  <2>2. ServeSubscribe(u) => open[u] = open'[u] /\ open[u]
    BY DEF ServeSubscribe, Take
  <2> QED BY <2>1, <2>2
<1>3. \A v \in User, h \in Game : Subscribed(v, h)' => Subscribed(v, h)
  BY <1>2, ListTypes
<1>4. StoredOK' /\ ArriveOK'
  BY <1>1, <1>3, AsideArrive
<1>5. OwnOK'
  BY <1>1, OwnKeeps DEF OwnStays
<1> QED BY <1>4, <1>5

(* The server publishes a report.                                          *)
LEMMA PublishArrive ==
    ASSUME TypesOK, SendOK, StoredOK, ArriveOK, OwnOK, NEW u \in User, ServeSend(u)
    PROVE  StoredOK' /\ ArriveOK' /\ OwnOK'
<1>1. PICK m \in SentMessage :
        /\ m = Head(toServer[u])[2]
        /\ \A w \in User, g \in Game :
              published'[w][g] = IF w = u /\ g = m.game THEN published[u][m.game] \cup {m.n}
                                 ELSE published[w][g]
        /\ \A x \in User :
              toClient'[x] = IF Subscribed(x, m.game) THEN Append(toClient[x], m) ELSE toClient[x]
  BY SendTypes
<1>2. m.by = u /\ \A k \in published[u][m.game] : k < m.n
  BY <1>1, PublishSends DEF SendOK
<1>3. m.game \in Game /\ m.n \in Nat
  BY <1>1 DEF SentMessage
<1>4. UNCHANGED <<kpc, game, Games, hand, listed, reported, from>>
  BY DEF ServeSend, Take, keyboard, client
<1>5. ASSUME NEW v \in User, NEW h \in Game, NEW w \in User
      PROVE  Coming(v, h, w)' = Coming(v, h, w) \cup
                                (IF Subscribed(v, m.game) /\ u = w /\ m.game = h THEN {m.n} ELSE {})
  <2>1. /\ Coming(v, h, w) = NumbersFrom(Range(toClient[v]), h, w) \cup NumbersFrom(hand[v], h, w)
        /\ Coming(v, h, w)' = NumbersFrom(Range(toClient'[v]), h, w) \cup NumbersFrom(hand'[v], h, w)
    BY ComingNumbers
  <2>2. CASE ~Subscribed(v, m.game)
    BY <1>1, <1>4, <2>1, <2>2
  <2>3. CASE Subscribed(v, m.game)
    <3>1. Range(toClient'[v]) = Range(toClient[v]) \cup {m}
      <4>1. toClient[v] \in Seq(SentMessage) /\ toClient'[v] = Append(toClient[v], m)
        BY <1>1, <2>3 DEF TypesOK
      <4> QED BY <1>1, <4>1, RangeAppend
    <3>2. NumbersFrom(Range(toClient[v]) \cup {m}, h, w)
            = NumbersFrom(Range(toClient[v]), h, w) \cup NumbersFrom({m}, h, w)
      BY NumbersUnion
    <3>3. NumbersFrom({m}, h, w) = IF u = w /\ m.game = h THEN {m.n} ELSE {}
      BY <1>2, NumbersOne
    <3>4. NumbersFrom(hand'[v], h, w) = NumbersFrom(hand[v], h, w)
      BY <1>4
    <3> QED BY <2>1, <2>3, <3>1, <3>2, <3>3, <3>4
  <2> QED BY <2>2, <2>3
<1>6. ASSUME NEW v \in User, NEW h \in Game, NEW w \in User, v # w PROVE Arrives(v, h, w)'
  <2>1. Arrives(v, h, w) /\ Subscribed(v, h)' = Subscribed(v, h)
    BY <1>4, <1>6 DEF ArriveOK, Subscribed
  <2>2. CASE ~(w = u /\ h = m.game)
    <3>1. published'[w][h] = published[w][h]
      BY <1>1, <2>2
    <3>2. Coming(v, h, w)' = Coming(v, h, w) \cup {}
      BY <1>5, <2>2
    <3>3. Coming(v, h, w)' = Coming(v, h, w)
      BY <3>2
    <3> QED BY <1>4, <2>1, <3>1, <3>3, ArriveStays
  <2>3. CASE w = u /\ h = m.game
    <3> DEFINE S == Stored(Games[v][h][w])
               C == Coming(v, h, w)
               D == Coming(v, h, w)'
               P == published[w][h]
               f == from[v][h][w]
               a == kpc[v] # "crashed"
               b == Subscribed(v, h)
               n == m.n
    <3>1. Complete(S, C, P, f, a, b)
      BY <2>1 DEF Arrives
    <3>2. P \in SUBSET Nat /\ f \in Nat /\ n \in Nat /\ \A k \in P : k < n
      BY <1>2, <1>3, <2>1, <2>3, ArriveNats
    <3>3. D = IF b THEN C \cup {n} ELSE C
      BY <1>5, <2>3, SMTT(30)
    <3>4. Arrives(v, h, w)' <=> Complete(S, D, P \cup {n}, f, a, b)
      BY <1>1, <1>4, <2>1, <2>3 DEF Arrives
    <3> HIDE DEF S, C, D, P, f, a, b, n
    <3>5. Complete(S, D, P \cup {n}, f, a, b)
      <4>1. b => Complete(S, C \cup {n}, P \cup {n}, f, a, b)
        BY <3>1, <3>2, CompletePublish
      <4>2. ~b => Complete(S, C, P \cup {n}, f, a, b)
        BY <3>1, <3>2, CompletePublish
      <4>3. CASE b
        BY <3>3, <4>1, <4>3
      <4>4. CASE ~b
        BY <3>3, <4>2, <4>4
      <4> QED BY <4>3, <4>4
    <3> QED BY <3>4, <3>5
  <2> QED BY <2>2, <2>3
<1>7. OwnOK'
  BY <1>4, OwnKeeps DEF OwnStays
<1>8. StoredOK'
  BY <1>4 DEF StoredOK
<1> QED BY <1>6, <1>7, <1>8 DEF ArriveOK

(* Every step keeps what the clients have stored in order.                 *)
LEMMA StepArrive ==
    ASSUME TypesOK, PlaceOK, HeldOK, SendOK, QueueOK, StoredOK, ArriveOK, OwnOK, [Next]_vars
    PROVE  StoredOK' /\ ArriveOK' /\ OwnOK'
<1>1. CASE UNCHANGED vars
  <2>1. UNCHANGED <<kpc, game, Games, hand, listed, toClient, reported, published, from>>
    BY <1>1 DEF vars, keyboard, client, server, network, history
  <2>2. StoredOK' /\ ArriveOK'
    BY <2>1, AsideArrive DEF Subscribed
  <2>3. OwnOK'
    BY <2>1, OwnKeeps DEF OwnStays
  <2> QED BY <2>2, <2>3
<1>2. ASSUME NEW u \in User, Steps(u) PROVE StoredOK' /\ ArriveOK' /\ OwnOK'
  <2>1. CASE Aside(u)
    <3>1. \A v \in User : v # u => Stays(v)
      BY <1>2, OthersStay
    <3>2. StoredOK' /\ ArriveOK'
      BY <2>1, <3>1, AsideArrive DEF Aside, Stays, Subscribed
    <3>3. \A v \in User : OwnStays(v)
      BY <2>1, <3>1 DEF Aside, Stays, OwnStays
    <3> QED BY <3>2, <3>3, OwnKeeps
  <2> QED BY <1>2, <2>1, KindsOfSteps, SendArrive, ForgetArrive, StoreArrive, ReceiveArrive, AddArrive,
             NoticeArrive, CrashArrive, SubscribeArrive, UnsubscribeArrive, PublishArrive, CloseArrive
<1> QED BY <1>1, <1>2 DEF Next, Steps

-----------------------------------------------------------------------------
(* Counting subscriptions: nothing is under way, ...                       *)
LEMMA BalanceEmpty ==
    ASSUME NEW n \in Nat, NEW ended PROVE Balanced(n, <<>>, ended, n)
<1> DEFINE count == [i \in 0..0 |-> n]
<1>1. count \in [0..Len(<<>>) -> Nat] /\ count[0] = n /\ Len(<<>>) = 0
  OBVIOUS
<1> HIDE DEF count
<1> QED BY <1>1 DEF Balanced

(* ... a frame is sent, ...                                                *)
LEMMA BalanceAppend ==
    ASSUME NEW held, NEW q \in Seq(Request), NEW ended, NEW last, Balanced(held, q, ended, last), ~ended,
           NEW r \in Request, NEW next \in Nat, next = last + Weight(r)
    PROVE  Balanced(held, Append(q, r), ended, next)
<1>1. PICK count \in [0..Len(q) -> Nat] :
         /\ count[0] = held /\ \A i \in 1..Len(q) : count[i] = count[i - 1] + Weight(q[i])
         /\ count[Len(q)] = last
  BY DEF Balanced
<1> DEFINE new == [i \in 0..Len(q) + 1 |-> IF i = Len(q) + 1 THEN next ELSE count[i]]
           p == Append(q, r)
<1>2. Len(q) \in Nat /\ Len(p) = Len(q) + 1 /\ p[Len(q) + 1] = r /\ \A i \in 1..Len(q) : p[i] = q[i]
  OBVIOUS
<1>3. \A i \in 0..Len(q) + 1 : new[i] \in Nat
  <2>1. \A i \in 0..Len(q) + 1 : i # Len(q) + 1 => i \in 0..Len(q)
    BY <1>2
  <2> QED BY <2>1
<1>4. new \in [0..Len(p) -> Nat]
  BY <1>2, <1>3
<1>5. new[Len(q) + 1] = next /\ \A i \in 0..Len(q) : new[i] = count[i]
  BY <1>2
<1> HIDE DEF new, p
<1>6. ASSUME NEW i \in 1..Len(p) PROVE new[i] = new[i - 1] + Weight(p[i])
  <2>1. i - 1 \in 0..Len(q)
    BY <1>2
  <2>2. CASE i = Len(q) + 1
    BY <1>1, <1>2, <1>5, <2>1, <2>2
  <2>3. CASE i # Len(q) + 1
    <3>1. i \in 1..Len(q) /\ i \in 0..Len(q)
      BY <1>2, <2>3
    <3> QED BY <1>1, <1>2, <1>5, <2>1, <3>1
  <2> QED BY <2>2, <2>3
<1>7. new[0] = held /\ new[Len(p)] = next
  <2>1. 0 \in 0..Len(q)
    BY <1>2
  <2> QED BY <1>1, <1>2, <1>5, <2>1
<1>8. Balanced(held, p, ended, next)
  BY <1>4, <1>6, <1>7 DEF Balanced
<1> QED BY <1>8 DEF p

(* ... a frame is taken, ...                                               *)
LEMMA BalanceTail ==
    ASSUME NEW held, NEW q \in Seq(Request), q # <<>>, NEW ended, NEW last, Balanced(held, q, ended, last)
    PROVE  /\ held \in Nat /\ held + Weight(Head(q)) \in Nat
           /\ Balanced(held + Weight(Head(q)), Tail(q), ended, last)
<1>1. PICK count \in [0..Len(q) -> Nat] :
         /\ count[0] = held /\ \A i \in 1..Len(q) : count[i] = count[i - 1] + Weight(q[i])
         /\ ended \/ count[Len(q)] = last
  BY DEF Balanced
<1> DEFINE p == Tail(q)
           new == [i \in 0..Len(p) |-> count[i + 1]]
<1>2. /\ Len(q) \in Nat \ {0} /\ Len(p) = Len(q) - 1 /\ Head(q) = q[1]
      /\ \A i \in 1..Len(p) : p[i] = q[i + 1] /\ i + 1 \in 1..Len(q)
  BY RangeTail
<1>3. \A i \in 0..Len(p) : i + 1 \in 0..Len(q)
  BY <1>2
<1>4. new \in [0..Len(p) -> Nat] /\ \A i \in 0..Len(p) : new[i] = count[i + 1]
  BY <1>3
<1> HIDE DEF new, p
<1>5. ASSUME NEW i \in 1..Len(p) PROVE new[i] = new[i - 1] + Weight(p[i])
  <2>1. i - 1 \in 0..Len(p) /\ i \in 0..Len(p) /\ (i - 1) + 1 = (i + 1) - 1
    BY <1>2
  <2>2. count[i + 1] = count[(i + 1) - 1] + Weight(q[i + 1])
    BY <1>1, <1>2
  <2> QED BY <1>2, <1>4, <2>1, <2>2
<1>6. new[0] = held + Weight(Head(q)) /\ new[Len(p)] = count[Len(q)] /\ new[0] \in Nat /\ held \in Nat
  <2>1. 0 \in 0..Len(p) /\ Len(p) \in 0..Len(p) /\ 1 \in 1..Len(q) /\ 0 \in 0..Len(q)
        /\ 1 - 1 = 0 /\ 0 + 1 = 1 /\ Len(p) + 1 = Len(q)
    BY <1>2
  <2>2. count[1] = count[0] + Weight(q[1])
    BY <1>1, <2>1
  <2> QED BY <1>1, <1>2, <1>4, <2>1, <2>2
<1>7. Balanced(held + Weight(Head(q)), p, ended, last)
  BY <1>1, <1>4, <1>5, <1>6 DEF Balanced
<1> QED BY <1>6, <1>7 DEF p

(* ... or the client ends.                                                 *)
LEMMA BalanceEnd ==
    ASSUME NEW held, NEW q, NEW ended, NEW last, Balanced(held, q, ended, last), NEW other
    PROVE  Balanced(held, q, TRUE, other)
BY DEF Balanced

(* The subscriptions a client has are finitely many.                       *)
LEMMA SubscriptionsCount ==
    ASSUME TypesOK, NEW u \in User, NEW g \in Game
    PROVE  LET all == subscriptions[u]
           IN  /\ Cardinality(all) \in Nat
               /\ g \in all => /\ Cardinality(all) >= 1
                               /\ Cardinality(all \ {g}) = Cardinality(all) - 1
               /\ g \notin all => Cardinality(all \cup {g}) = Cardinality(all) + 1
<1> DEFINE all == subscriptions[u]
<1>1. all \in SUBSET Game /\ IsFiniteSet(Game)
  BY ReportsAssumption DEF TypesOK
<1> HIDE DEF all
<1>2. IsFiniteSet(all)
  BY <1>1, FS_Subset
<1>3. Cardinality(all) \in Nat
  BY <1>2, FS_CardinalityType
<1>4. ASSUME g \in all PROVE Cardinality(all \ {g}) = Cardinality(all) - 1 /\ Cardinality(all) >= 1
  <2>1. Cardinality(all \ {g}) = Cardinality(all) - 1 /\ IsFiniteSet(all \ {g})
    BY <1>2, <1>4, FS_RemoveElement
  <2>2. Cardinality(all \ {g}) \in Nat
    BY <2>1, FS_CardinalityType
  <2> QED BY <1>3, <2>1, <2>2
<1>5. g \notin all => Cardinality(all \cup {g}) = Cardinality(all) + 1
  BY <1>2, FS_AddElement
<1> QED BY <1>3, <1>4, <1>5 DEF all

LEMMA InitBalance == Init => BalanceOK
<1> SUFFICES ASSUME Init, NEW u \in User PROVE Balances(u)
  BY DEF BalanceOK
<1>1. kpc[u] = "prompt" /\ toServer[u] = <<>>
  BY DEF Init
<1>2. Len(subs[u]) = Cardinality(subscriptions[u]) /\ Cardinality(subscriptions[u]) \in Nat
  <2>1. CASE u \in Joined
    <3>1. subs[u] = SetToSeq(Game) /\ subscriptions[u] = Game
      BY <2>1 DEF Init
    <3> QED BY <3>1, ListOfSet, FS_CardinalityType, ReportsAssumption
  <2>2. CASE u \notin Joined
    <3>1. subs[u] = <<>> /\ subscriptions[u] = {}
      BY <2>2 DEF Init
    <3> QED BY <3>1, FS_EmptySet
  <2> QED BY <2>1, <2>2
<1>3. Listed(u) = Cardinality(subscriptions[u])
  BY <1>1, <1>2 DEF Listed
<1>4. Balanced(Cardinality(subscriptions[u]), <<>>, kpc[u] = "crashed", Cardinality(subscriptions[u]))
  BY <1>2, BalanceEmpty
<1> QED BY <1>1, <1>2, <1>3, <1>4 DEF Balances

(* A step that leaves subscriptions and frames alone.                      *)
LEMMA BalanceStays ==
    ASSUME NEW v, Balances(v), subscriptions'[v] = subscriptions[v],
           kpc'[v] = "erase" <=> kpc[v] = "erase", kpc'[v] = "crashed" <=> kpc[v] = "crashed",
           game'[v] = game[v] \/ kpc[v] # "erase",
           open'[v] => open[v] /\ subs'[v] = subs[v] /\ toServer'[v] = toServer[v]
    PROVE  Balances(v)'
<1>1. Listed(v)' = Listed(v)
  BY DEF Listed
<1>2. (kpc'[v] = "crashed") = (kpc[v] = "crashed")
  OBVIOUS
<1> QED BY <1>1, <1>2 DEF Balances

(* A frame of the client: its weight is the change of what is listed.      *)
LEMMA BalanceTransmit ==
    ASSUME TypesOK, NEW u \in User, Balances(u), NEW r \in Request, Transmit(u, r) \/ SendFails(u),
           kpc[u] # "crashed", kpc'[u] # "crashed", open' = open, subs' = subs,
           kpc'[u] = "erase" => game'[u] \subseteq subscriptions'[u],
           open[u] => Listed(u)' = Listed(u) + Weight(r) /\ Listed(u)' \in Nat
    PROVE  Balances(u)'
<1>1. CASE ~open[u]
  BY <1>1 DEF Balances
<1>2. CASE open[u]
  <2>1. toServer[u] \in Seq(Request) /\ toServer'[u] = Append(toServer[u], r)
    BY <1>2 DEF Transmit, SendFails, TypesOK
  <2>2. Balanced(Len(subs[u]), toServer[u], FALSE, Listed(u))
    <3>1. (kpc[u] = "crashed") = FALSE
      OBVIOUS
    <3> QED BY <1>2, <3>1 DEF Balances
  <2> DEFINE held == Len(subs[u])
             q == toServer[u]
             last == Listed(u)
             next == Listed(u)'
  <2>3. next \in Nat /\ next = last + Weight(r)
    BY <1>2
  <2> HIDE DEF held, q, last, next
  <2>4. Balanced(held, Append(q, r), FALSE, next)
    BY <2>1, <2>2, <2>3, BalanceAppend DEF held, q, last
  <2>5. (kpc'[u] = "crashed") = FALSE
    OBVIOUS
  <2> QED BY <2>1, <2>4, <2>5 DEF Balances, held, q, next
<1> QED BY <1>1, <1>2

(* A frame that the server takes: its weight is the change of the list.    *)
LEMMA BalanceTake ==
    ASSUME TypesOK, NEW u \in User, Balances(u), NEW command, Take(u, command),
           Len(subs'[u]) = Len(subs[u]) + Weight(Head(toServer[u])), open' = open
    PROVE  Balances(u)'
<1>1. /\ toServer[u] \in Seq(Request) /\ toServer[u] # <<>> /\ toServer'[u] = Tail(toServer[u])
      /\ open[u] /\ UNCHANGED <<kpc, game, subscriptions>>
  BY TakeTakes DEF Take, keyboard, TypesOK
<1> DEFINE held == Len(subs[u])
           q == toServer[u]
           ended == kpc[u] = "crashed"
           last == Listed(u)
<1>2. Balanced(held, q, ended, last)
  BY <1>1 DEF Balances
<1>3. q \in Seq(Request) /\ q # <<>>
  BY <1>1
<1> HIDE DEF held, q, ended, last
<1>4. Balanced(held + Weight(Head(q)), Tail(q), ended, last)
  BY <1>2, <1>3, BalanceTail
<1>5. Listed(u)' = last /\ (kpc'[u] = "crashed") = ended
  BY <1>1 DEF Listed, last, ended
<1>6. Balanced(Len(subs'[u]), toServer'[u], kpc'[u] = "crashed", Listed(u)')
  BY <1>1, <1>4, <1>5 DEF held, q
<1> QED BY <1>1, <1>6 DEF Balances

LEMMA ReportRequest ==
    ASSUME TypesOK, PlaceOK, NEW u \in User, Send(u)
    PROVE  <<"SEND", ConstructEventFrame(u, Head(left[u]))>> \in Request
<1>1. PICK g \in Game : game[u] = {g} /\ The(game[u]) = g
  BY AtPlace DEF Send, KeyboardAt
<1>2. left[u] \in Seq(Original) /\ left[u] # <<>> /\ reported[u][g] \in Nat
  BY DEF Send, KeyboardAt, PlaceOK, Placed, TypesOK
<1>3. Head(left[u]) \in Original
  BY <1>2
<1>4. ConstructEventFrame(u, Head(left[u])) \in SentMessage
  BY <1>1, <1>2, <1>3 DEF ConstructEventFrame, SentMessage
<1> QED BY <1>4, RequestForm

LEMMA Weights ==
    /\ \A r : r[1] = "SUBSCRIBE" => Weight(r) = 1
    /\ \A r : r[1] = "UNSUBSCRIBE" => Weight(r) = -1
    /\ \A r : r[1] = "SEND" => Weight(r) = 0
BY DEF Weight

LEMMA TypeBalance ==
    ASSUME TypesOK, PlaceOK, NEW u \in User, Balances(u), Type(u) PROVE Balances(u)'
<1>1. ASSUME NEW g \in Game, Join(u, g) PROVE Balances(u)'
  <2>1. \/ Transmit(u, <<"SUBSCRIBE", g>>) /\ kpc'[u] = "reset"
        \/ SendFails(u) /\ kpc'[u] = "prompt"
    BY <1>1 DEF Join, KeyboardAt, TypesOK
  <2>2. kpc[u] = "prompt" /\ g \notin subscriptions[u] /\ UNCHANGED <<open, subs>>
    BY <1>1 DEF Join, KeyboardAt, server
  <2>3. subscriptions'[u] = subscriptions[u] \cup {g}
    BY <1>1 DEF Join, TypesOK
  <2>4. Listed(u) = Cardinality(subscriptions[u]) /\ Listed(u)' = Cardinality(subscriptions[u] \cup {g})
    <3>1. Cardinality(subscriptions[u]) \in Nat /\ Cardinality(subscriptions[u] \cup {g}) \in Nat
      BY <2>2, SubscriptionsCount
    <3> QED BY <2>1, <2>2, <2>3, <3>1 DEF Listed
  <2>5. <<"SUBSCRIBE", g>> \in Request /\ Weight(<<"SUBSCRIBE", g>>) = 1
    BY RequestForm, Weights
  <2>6. Listed(u)' = Listed(u) + 1 /\ Listed(u)' \in Nat
    BY <2>2, <2>4, SubscriptionsCount
  <2>7. Transmit(u, <<"SUBSCRIBE", g>>) \/ SendFails(u)
    BY <2>1
  <2>8. kpc'[u] \notin {"crashed", "erase"} /\ kpc[u] # "crashed"
    BY <2>1, <2>2
  <2> QED BY <2>2, <2>5, <2>6, <2>7, <2>8, BalanceTransmit
<1>2. ASSUME NEW g \in Game, Exit(u, g) PROVE Balances(u)'
  <2>1. \/ Transmit(u, <<"UNSUBSCRIBE">>) /\ kpc'[u] = "erase" /\ game'[u] = {g}
        \/ SendFails(u) /\ kpc'[u] = "prompt"
    BY <1>2 DEF Exit, KeyboardAt, TypesOK
  <2>2. kpc[u] = "prompt" /\ g \in subscriptions[u] /\ UNCHANGED <<open, subs, subscriptions>>
    BY <1>2 DEF Exit, KeyboardAt, server
  <2>3. Cardinality(subscriptions[u]) \in Nat /\ Cardinality(subscriptions[u]) >= 1
    BY <2>2, SubscriptionsCount
  <2>4. <<"UNSUBSCRIBE">> \in Request /\ Weight(<<"UNSUBSCRIBE">>) = -1
    BY RequestForm, Weights
  <2>5. ASSUME open[u]
        PROVE  Listed(u)' = Listed(u) + Weight(<<"UNSUBSCRIBE">>) /\ Listed(u)' \in Nat
    <3>1. kpc'[u] = "erase"
      BY <2>1, <2>5 DEF SendFails
    <3>2. Listed(u) = Cardinality(subscriptions[u]) /\ Listed(u)' = Cardinality(subscriptions[u]) - 1
      BY <2>2, <2>3, <3>1 DEF Listed
    <3> QED BY <2>3, <2>4, <3>2
  <2>6. Transmit(u, <<"UNSUBSCRIBE">>) \/ SendFails(u)
    BY <2>1
  <2>7. kpc'[u] # "crashed" /\ kpc[u] # "crashed" /\ (kpc'[u] = "erase" => game'[u] \subseteq subscriptions'[u])
    BY <2>1, <2>2
  <2> QED BY <2>2, <2>4, <2>5, <2>6, <2>7, BalanceTransmit
<1>3. ASSUME NEW g \in Game, NEW w \in User, Summarise(u, g, w) PROVE Balances(u)'
  <2>1. kpc[u] = "prompt" /\ kpc'[u] = "getBefore" /\ UNCHANGED <<subscriptions, open, subs, toServer>>
    BY <1>3 DEF Summarise, KeyboardAt, TypesOK, server, network
  <2> QED BY <2>1, BalanceStays
<1>4. ASSUME NEW f \in File, Report(u, f) PROVE Balances(u)'
  <2>1. kpc[u] = "prompt" /\ kpc'[u] \in {"prompt", "send"} /\ UNCHANGED <<subscriptions, open, subs, toServer>>
    BY <1>4 DEF Report, KeyboardAt, TypesOK, server, network
  <2> QED BY <2>1, BalanceStays
<1>5. ASSUME Login(u) PROVE Balances(u)'
  <2>1. /\ kpc[u] = "prompt" /\ kpc'[u] = "prompt" /\ subscriptions'[u] = {}
        /\ UNCHANGED <<subs, toServer>> /\ ~isConnected[u]
    BY <1>5 DEF Login, network, TypesOK
  <2>2. subs'[u] = <<>> /\ toServer'[u] = <<>>
    BY <2>1 DEF PlaceOK, Placed
  <2>3. Listed(u)' = 0
    BY <2>1, FS_EmptySet DEF Listed
  <2>4. Balanced(0, <<>>, kpc'[u] = "crashed", 0)
    BY BalanceEmpty
  <2>5. Len(subs'[u]) = 0
    BY <2>2
  <2> QED BY <2>1, <2>2, <2>3, <2>4, <2>5 DEF Balances
<1> QED BY <1>1, <1>2, <1>3, <1>4, <1>5 DEF Type

LEMMA KeyboardBalance ==
    ASSUME TypesOK, PlaceOK, NEW u \in User, Balances(u), Keyboard(u) PROVE Balances(u)'
<1>1. ASSUME Send(u) PROVE Balances(u)'
  <2> DEFINE r == <<"SEND", ConstructEventFrame(u, Head(left[u]))>>
  <2>1. r \in Request /\ Weight(r) = 0
    BY <1>1, ReportRequest, Weights
  <2>2. Transmit(u, r) \/ SendFails(u)
    BY <1>1 DEF Send
  <2> HIDE DEF r
  <2>3. /\ kpc[u] = "send" /\ kpc'[u] \in {"store", "prompt"}
        /\ UNCHANGED <<open, subs, subscriptions>>
    BY <1>1 DEF Send, KeyboardAt, TypesOK, server
  <2>4. Cardinality(subscriptions[u]) \in Nat
    BY AtPlace, SubscriptionsCount, <2>3
  <2>5. Listed(u) = Cardinality(subscriptions[u]) /\ Listed(u)' = Cardinality(subscriptions[u])
    BY <2>3, <2>4 DEF Listed
  <2>6. kpc'[u] \notin {"crashed", "erase"} /\ kpc[u] # "crashed"
    BY <2>3
  <2>7. Listed(u)' = Listed(u) + Weight(r) /\ Listed(u)' \in Nat
    BY <2>1, <2>4, <2>5
  <2> QED BY <2>1, <2>2, <2>3, <2>6, <2>7, BalanceTransmit
<1>2. ASSUME Reset(u) PROVE Balances(u)'
  <2>1. kpc[u] = "reset" /\ kpc'[u] = "prompt" /\ UNCHANGED <<subscriptions, open, subs, toServer>>
    BY <1>2 DEF Reset, KeyboardAt, TypesOK, server, network
  <2> QED BY <2>1, BalanceStays
<1>3. ASSUME Erase(u) PROVE Balances(u)'
  <2>1. /\ kpc[u] = "erase" /\ kpc'[u] = "prompt" /\ UNCHANGED <<open, subs, toServer>>
        /\ subscriptions'[u] = subscriptions[u] \ game[u]
    BY <1>3 DEF Erase, KeyboardAt, TypesOK, server, network
  <2>2. PICK g \in Game : game[u] = {g}
    BY <2>1, AtPlace
  <2>3. g \in subscriptions[u]
    BY <2>1, <2>2 DEF Balances
  <2>4. /\ Cardinality(subscriptions[u]) \in Nat
        /\ Cardinality(subscriptions[u] \ {g}) = Cardinality(subscriptions[u]) - 1
        /\ Cardinality(subscriptions[u]) >= 1
    BY <2>3, SubscriptionsCount
  <2>5. Listed(u) = Cardinality(subscriptions[u]) - 1
    BY <2>1, <2>4 DEF Listed
  <2>6. Listed(u)' = Cardinality(subscriptions[u] \ {g}) - 0
    BY <2>1, <2>2 DEF Listed
  <2>7. Listed(u)' = Listed(u)
    BY <2>4, <2>5, <2>6
  <2>8. (kpc'[u] = "crashed") = (kpc[u] = "crashed")
    BY <2>1
  <2> QED BY <2>1, <2>7, <2>8 DEF Balances
<1>4. ASSUME Store(u) PROVE Balances(u)'
  <2>1. kpc[u] = "store" /\ kpc'[u] \in {"prompt", "send"} /\ UNCHANGED <<subscriptions, open, subs, toServer>>
    BY <1>4 DEF Store, KeyboardAt, TypesOK, server, network
  <2> QED BY <2>1, BalanceStays
<1>5. ASSUME NEW here \in Summarising, NEW next \in Summarising, NEW part, Read(u, here, next, part)
      PROVE  Balances(u)'
  <2>1. kpc[u] = here /\ kpc'[u] = next /\ UNCHANGED <<subscriptions, open, subs, toServer>>
    BY <1>5 DEF Read, KeyboardAt, TypesOK, server, network
  <2>2. here \notin {"erase", "crashed"} /\ next \notin {"erase", "crashed"}
    BY DEF Summarising
  <2> QED BY <2>1, <2>2, BalanceStays
<1>6. ASSUME WriteSummary(u) PROVE Balances(u)'
  <2>1. kpc[u] = "print" /\ kpc'[u] = "prompt" /\ UNCHANGED <<subscriptions, open, subs, toServer>>
    BY <1>6 DEF WriteSummary, KeyboardAt, TypesOK, server, network
  <2> QED BY <2>1, BalanceStays
<1>7. {"getBefore", "getAfter", "getDone", "getHalf", "print"} \subseteq Summarising
  BY DEF Summarising
<1> QED BY <1>1, <1>2, <1>3, <1>4, <1>5, <1>6, <1>7
        DEF Keyboard, GetUpdatesBefore, GetUpdatesAfter, GetIsDone, GetIsBeforeHalftime

LEMMA ListenerBalance ==
    ASSUME TypesOK, NEW u \in User, Balances(u), Listener(u) \/ Crash(u) PROVE Balances(u)'
<1>1. CASE Listener(u)
  <2>1. UNCHANGED <<kpc, game, subscriptions, open, subs, toServer>>
    BY <1>1 DEF Listener, Receive, Add, Notice, keyboard, server, network
  <2> QED BY <2>1, BalanceStays
<1>2. CASE Crash(u)
  <2>1. kpc'[u] = "crashed" /\ UNCHANGED <<open, subs, toServer>>
    BY <1>2 DEF Crash, TypesOK, server, network
  <2>2. open[u] => Balanced(Len(subs[u]), toServer[u], TRUE, Listed(u)')
    BY BalanceEnd DEF Balances
  <2>3. (kpc'[u] = "crashed") = TRUE
    BY <2>1
  <2> QED BY <2>1, <2>2, <2>3 DEF Balances
<1> QED BY <1>1, <1>2

LEMMA ServerBalance ==
    ASSUME TypesOK, NEW u \in User, Balances(u), Server(u) PROVE Balances(u)'
<1>1. subs[u] \in Seq(Game) /\ subs \in [User -> Seq(Game)] /\ Len(subs[u]) \in Nat
  BY DEF TypesOK
<1>2. ASSUME ServeSubscribe(u) PROVE Balances(u)'
  <2>1. Take(u, "SUBSCRIBE") /\ open' = open
    BY <1>2 DEF ServeSubscribe
  <2>2. Weight(Head(toServer[u])) = 1
    BY <2>1, TakeTakes, Weights
  <2>3. subs'[u] = Append(subs[u], Head(toServer[u])[2])
    BY <1>1, <1>2 DEF ServeSubscribe
  <2>4. Len(subs'[u]) = Len(subs[u]) + 1
    BY <1>1, <2>3
  <2> QED BY <2>1, <2>2, <2>4, BalanceTake
<1>3. ASSUME ServeUnsubscribe(u) PROVE Balances(u)'
  <2>1. Take(u, "UNSUBSCRIBE") /\ open' = open
    BY <1>3 DEF ServeUnsubscribe
  <2>2. Weight(Head(toServer[u])) = -1
    BY <2>1, TakeTakes, Weights
  <2>3. subs'[u] = Tail(subs[u]) /\ subs[u] # <<>>
    BY <1>1, <1>3 DEF ServeUnsubscribe
  <2>4. Len(subs'[u]) = Len(subs[u]) - 1
    BY <1>1, <2>3
  <2>5. Len(subs'[u]) = Len(subs[u]) + (-1)
    BY <1>1, <2>4
  <2> QED BY <2>1, <2>2, <2>5, BalanceTake
<1>4. ASSUME ServeSend(u) PROVE Balances(u)'
  <2>1. Take(u, "SEND") /\ UNCHANGED <<open, subs>>
    BY <1>4 DEF ServeSend
  <2>2. Weight(Head(toServer[u])) = 0
    BY <2>1, TakeTakes, Weights
  <2>3. Len(subs'[u]) = Len(subs[u]) + 0
    BY <1>1, <2>1
  <2> QED BY <2>1, <2>2, <2>3, BalanceTake
<1>5. ASSUME Close(u) PROVE Balances(u)'
  <2>1. ~open'[u] /\ UNCHANGED <<kpc, game, subscriptions>>
    BY <1>5 DEF Close, TypesOK, keyboard
  <2> QED BY <2>1, BalanceStays
<1> QED BY <1>2, <1>3, <1>4, <1>5 DEF Server, ServeError, HangUp

LEMMA StepBalance ==
    ASSUME TypesOK, PlaceOK, BalanceOK, [Next]_vars PROVE BalanceOK'
<1>1. CASE UNCHANGED vars
  BY <1>1, BalanceStays DEF BalanceOK, vars, keyboard, server, network
<1>2. ASSUME NEW u \in User, Steps(u) PROVE BalanceOK'
  <2>1. Balances(u)'
    BY <1>2, TypeBalance, KeyboardBalance, ListenerBalance, ServerBalance DEF Steps, BalanceOK
  <2>2. ASSUME NEW v \in User, v # u PROVE Balances(v)'
    BY <1>2, <2>2, OthersStay, BalanceStays DEF Stays, BalanceOK
  <2> QED BY <2>1, <2>2 DEF BalanceOK
<1> QED BY <1>1, <1>2 DEF Next, Steps

-----------------------------------------------------------------------------
(* The invariant holds, whatever the clients, games and files: see OInv.   *)
THEOREM ReportsOrderInvariant == Spec => []OInv
<1>1. Init => OInv
  BY InitTypes, InitPlaced, InitHeld, InitSends, InitQueued, InitArrive, InitBalance DEF OInv
<1>2. OInv /\ [Next]_vars => OInv'
  BY StepTypes, StepPlaced, StepHeld, StepSends, StepQueued, StepArrive, StepBalance DEF OInv
<1> QED BY <1>1, <1>2, PTL DEF Spec

(* Of another's reports a client has each once at most, and no later one   *)
(* without the earlier ones that were published since it joined.           *)
THEOREM ReportsNoGaps == Spec => []NoGaps
<1>1. OInv => NoGaps
  <2> SUFFICES ASSUME OInv, NEW u \in User, NEW w \in User, NEW g \in Game
               PROVE  /\ Entries(Games[u][g][w]) = Cardinality(Stored(Games[u][g][w]))
                      /\ u # w => \A n \in Stored(Games[u][g][w]) : \A k \in published[w][g] :
                                     from[u][g][w] < k /\ k < n => k \in Stored(Games[u][g][w])
    BY DEF NoGaps
  <2>1. Counted(Games[u][g][w]) /\ (u # w => Arrives(u, g, w))
    BY DEF OInv, StoredOK, ArriveOK
  <2> QED BY <2>1 DEF Counted, Arrives, Complete
<1> QED BY <1>1, ReportsOrderInvariant, PTL

(* A report published while the channel listed a client, and after the     *)
(* client last emptied the game, is in its table or on its way.            *)
THEOREM ReportsNothingLost == Spec => []NothingLost
<1>1. OInv => NothingLost
  <2> SUFFICES ASSUME OInv, NEW u \in User, NEW w \in User, NEW g \in Game, Running(u), Subscribed(u, g),
                      NEW n \in published[w][g], n > from[u][g][w]
               PROVE  IF u = w THEN n \in Stored(Games[u][g][u]) \/ kpc[u] = "store"
                      ELSE n \in Stored(Games[u][g][w]) \cup Coming(u, g, w)
    BY DEF NothingLost
  <2>1. CASE u = w
    <3>1. n \in 1..reported[u][g]
      BY <2>1 DEF OInv, SendOK, Sends
    <3>2. from[u][g][u] \in Nat /\ n \in Nat /\ from[u][g][u] < n
      BY <2>1, <3>1 DEF OInv, TypesOK
    <3>3. OwnComplete(Stored(Games[u][g][u]), reported[u][g], from[u][g][u],
                      kpc[u] = "store" /\ game[u] = {g})
      BY DEF OInv, OwnOK
    <3> QED BY <2>1, <3>1, <3>2, <3>3 DEF OwnComplete
  <2>2. CASE u # w
    <3>1. Arrives(u, g, w) /\ kpc[u] # "crashed"
      BY <2>2 DEF OInv, ArriveOK, Running
    <3>2. from[u][g][w] \in Nat /\ n \in Nat
      BY DEF OInv, TypesOK
    <3>3. from[u][g][w] < n
      BY <3>2
    <3> QED BY <2>2, <3>1, <3>3 DEF Arrives, Complete
  <2> QED BY <2>1, <2>2
<1> QED BY <1>1, ReportsOrderInvariant, PTL

(* The types of the variables: a thread that is in the table works on one  *)
(* game, a channel lists those only whose connections hold a subscription, *)
(* and the server finds a subscription to take away whenever a client      *)
(* gives one up.                                                           *)
THEOREM ReportsTypeOK == Spec => []TypeOK
<1>1. OInv => TypeOK
  <2> SUFFICES ASSUME OInv PROVE TypeOK
    OBVIOUS
  <2>1. TypesOK /\ PlaceOK /\ HeldOK /\ BalanceOK
    BY DEF OInv
  <2>2. ASSUME NEW m, m \in SentMessage \cup ParsedMessage PROVE IsMessage(m)
    <3>1. /\ DOMAIN m = {"by", "game", "n", "event"}
          /\ m["by"] \in User /\ m["game"] \in Game /\ m["n"] \in Nat \ {0}
      BY <2>2 DEF SentMessage, ParsedMessage
    <3>2. [x \in {"by", "game", "n"} |-> m[x]] \in Message
      BY <3>1 DEF Message
    <3> QED BY <3>1, <3>2 DEF IsMessage
  <2>3. ASSUME NEW log \in Log PROVE IsLog(log)
    <3>1. \A list \in {log.before, log.after} : list \in Seq(Entry)
      BY DEF Log
    <3>2. ASSUME NEW list \in Seq(Entry), NEW i \in DOMAIN list PROVE list[i].n \in Nat \ {0}
      <4>1. list[i] \in Entry
        OBVIOUS
      <4> QED BY <4>1 DEF Entry
    <3> QED BY <3>1, <3>2 DEF IsLog, Log
  <2>4. ASSUME NEW u \in User
        PROVE  /\ kpc[u] \in {"prompt", "send", "store", "print", "crashed"} \cup Unlocked
               /\ game[u] \subseteq Game
               /\ kpc[u] \notin {"prompt", "crashed"} => Cardinality(game[u]) = 1
               /\ kpc[u] \in {"send", "store"} => left[u] # <<>>
               /\ subscriptions[u] \subseteq Game
               /\ \A m \in hand[u] : IsMessage(m) /\ m.by # u
               /\ \A i \in DOMAIN toClient[u] : IsMessage(toClient[u][i])
               /\ \A g \in Game, w \in User : IsLog(Games[u][g][w])
               /\ subs[u] # <<>> => open[u]
               /\ \A g \in Game : Subscribed(u, g) => Holds(u, g)
    <3>1. kpc[u] \in Places /\ game[u] \subseteq Game /\ subscriptions[u] \subseteq Game
      BY <2>1 DEF TypesOK
    <3>2. kpc[u] \notin {"prompt", "crashed"} => Cardinality(game[u]) = 1
      <4>1. \A g \in Game : Cardinality({g}) = 1
        BY FS_Singleton
      <4> QED BY <2>1, <4>1 DEF PlaceOK, Placed
    <3>3. \A m \in hand[u] : IsMessage(m) /\ m.by # u
      BY <2>1, <2>2 DEF TypesOK, PlaceOK, Placed
    <3>4. \A i \in DOMAIN toClient[u] : IsMessage(toClient[u][i])
      <4>1. toClient[u] \in Seq(SentMessage)
        BY <2>1 DEF TypesOK
      <4>2. \A i \in DOMAIN toClient[u] : toClient[u][i] \in SentMessage
        BY <4>1
      <4> QED BY <2>2, <4>2
    <3>5. \A g \in Game, w \in User : IsLog(Games[u][g][w])
      BY <2>1, <2>3 DEF TypesOK
    <3>6. /\ kpc[u] \in {"send", "store"} => left[u] # <<>>
          /\ subs[u] # <<>> => open[u]
      BY <2>1 DEF PlaceOK, Placed
    <3> QED BY <2>1, <3>1, <3>2, <3>3, <3>4, <3>5, <3>6 DEF Places, HeldOK
  <2>5. ASSUME NEW u \in User, open[u], toServer[u] # <<>>, Head(toServer[u])[1] = "UNSUBSCRIBE"
        PROVE  subs[u] # <<>>
    <3>1. Balanced(Len(subs[u]), toServer[u], kpc[u] = "crashed", Listed(u))
      BY <2>1, <2>5 DEF BalanceOK, Balances
    <3>2. toServer[u] \in Seq(Request)
      BY <2>1 DEF TypesOK
    <3>3. Len(subs[u]) \in Nat /\ Len(subs[u]) + Weight(Head(toServer[u])) \in Nat
      BY <2>5, <3>1, <3>2, BalanceTail
    <3>4. Weight(Head(toServer[u])) = -1
      BY <2>5, Weights
    <3>5. Len(subs[u]) # 0
      BY <3>3, <3>4
    <3> QED BY <3>5
  <2>6. ASSUME NEW u \in User PROVE commands[u] \in 0..MaxCommands[u]
    BY <2>1, ReportsAssumption DEF TypesOK, PlaceOK, Placed
  <2>7. isConnected \in [User -> BOOLEAN] /\ logins \in 0..MaxLogins
    BY <2>1 DEF TypesOK
  <2> QED BY <2>4, <2>5, <2>6, <2>7 DEF TypeOK
<1> QED BY <1>1, ReportsOrderInvariant, PTL

-----------------------------------------------------------------------------
(* The order of what is stored.  A list is sorted by the time of the game, *)
(* and equal times by the number of the report.                            *)
Sorted(list) ==
    \A i, j \in DOMAIN list :
        i < j => /\ list[i].event.time <= list[j].event.time
                 /\ list[i].event.time = list[j].event.time => list[i].n < list[j].n

(* So it is as long as std::sort sorts by insertion.                       *)
Ordered(list) == Len(list) <= InsertionSorted => Sorted(list)

(* All reports of the first half were sent before those of the second.     *)
Apart(before, after) == \A x \in Range(before), y \in Range(after) : x.n < y.n

InOrder(log) == Ordered(log.before) /\ Ordered(log.after) /\ Apart(log.before, log.after)

(* What a summary that is at a statement has copied of a log: the second   *)
(* list is read later than the first, and has only later reports.          *)
CopyInOrder(copied, here, log) ==
    /\ here \in {"getAfter", "getDone", "getHalf", "print"} =>
          copied.before \in Seq(Entry) /\ Ordered(copied.before)
    /\ here = "getAfter" => Range(copied.before) \subseteq Range(log.before)
    /\ here \in {"getDone", "getHalf", "print"} =>
          /\ copied.after \in Seq(Entry) /\ Ordered(copied.after)
          /\ Apart(copied.before, copied.after)

LogsInOrder == \A u, w \in User, g \in Game : InOrder(Games[u][g][w])

CopiesInOrder ==
    \A u, w \in User, g \in Game :
        kpc[u] \in Summarising /\ game[u] = {g} /\ copy[u].user = {w} =>
            CopyInOrder(copy[u].log, kpc[u], Games[u][g][w])

(* Half-time and the end are noted when a stored event says so, and the    *)
(* second list begins with the first report that says half-time.           *)
All(log) == Range(log.before) \cup Range(log.after)

HalfTime(x) == Says(x.event, BeforeHalftime)
Over(x)     == Says(x.event, Active)

SplitAtHalf(log) ==
    /\ log.half <=> \E x \in All(log) : HalfTime(x)
    /\ log.done <=> \E x \in All(log) : Over(x)
    /\ \A x \in Range(log.before), y \in All(log) : HalfTime(y) => x.n < y.n
    /\ \A x \in Range(log.after) : \E y \in All(log) : HalfTime(y) /\ y.n <= x.n

LogsSplit == \A u, w \in User, g \in Game : SplitAtHalf(Games[u][g][w])

(* Wherever a report is, its number stands for the same event, as far as   *)
(* the order and the split of lists depend on it.                          *)
Same(e, f) ==
    /\ e.time = f.time
    /\ \A key \in {BeforeHalftime, Active} : Says(e, key) <=> Says(f, key)

Carried(x) ==
    \E v \in User :
        \/ \E r \in Range(toServer[v]) : IsSend(r) /\ x = r[2]
        \/ x \in Range(toClient[v]) \cup hand[v]
        \/ \E w \in User, g \in Game : \E y \in All(Games[v][g][w]) :
              x = [by |-> w, game |-> g, n |-> y.n, event |-> y.event]
        \/ kpc[v] = "store" /\ \E g \in game[v] :
              x = [by |-> v, game |-> g, n |-> reported[v][g], event |-> Head(left[v])]

OneEvent ==
    \A x, y : Carried(x) /\ Carried(y) /\ Alike(x, y) /\ x.n = y.n => Same(x.event, y.event)

-----------------------------------------------------------------------------
(* Facts about logs.                                                       *)
LEMMA EventTimes ==
    /\ \A e \in Original : e.time \in Int
    /\ \A e \in Original : ParseToEvent(e).time = e.time
    /\ \A x \in Entry : x.event.time \in Int
<1>1. ASSUME NEW e \in Original PROVE e.time \in Int /\ ParseToEvent(e).time = e.time
  <2>1. PICK f \in File : e \in Range(ParseEventsFile(f))
    BY DEF Original
  <2>2. PICK i \in DOMAIN f.events : e = ParseEvent(f.events[i])
    BY <2>1 DEF ParseEventsFile, Range
  <2>3. f.events[i].time \in Int
    BY ReportsAssumption DEF Range
  <2> QED BY <2>2, <2>3 DEF ParseEvent, ParseToEvent, Event
<1>2. ASSUME NEW x \in Entry PROVE x.event.time \in Int
  <2>1. x.event \in Original \/ \E e \in Original : x.event = ParseToEvent(e)
    BY DEF Entry, Copied
  <2> QED BY <1>1, <2>1
<1> QED BY <1>1, <1>2

(* What an update does to the lists of a log.                              *)
LEMMA AddParts ==
    ASSUME NEW log \in Log, NEW entry \in Entry
    PROVE  LET new == AddUpdate(log, entry)
           IN  /\ new.half = (log.half \/ HalfTime(entry))
               /\ new.done = (log.done \/ Over(entry))
               /\ new.half => /\ new.before = log.before
                              /\ new.after = Insert(log.after, entry)
                              /\ Range(new.after) = Range(log.after) \cup {entry}
               /\ ~new.half => /\ new.after = log.after
                               /\ new.before = Insert(log.before, entry)
                               /\ Range(new.before) = Range(log.before) \cup {entry}
               /\ All(new) = All(log) \cup {entry}
<1> DEFINE half == log.half \/ HalfTime(entry)
           done == log.done \/ Over(entry)
           new == AddUpdate(log, entry)
<1>1. new = [before |-> IF half THEN log.before ELSE Insert(log.before, entry),
             after  |-> IF half THEN Insert(log.after, entry) ELSE log.after,
             half   |-> half, done |-> done]
  BY DEF AddUpdate, HalfTime, Over
<1>2. log.before \in Seq(Entry) /\ log.after \in Seq(Entry)
  BY DEF Log
<1> HIDE DEF half, done, new
<1>3. new.half = half /\ new.done = done
  BY <1>1
<1>4. half => /\ new.before = log.before /\ new.after = Insert(log.after, entry)
              /\ Range(new.after) = Range(log.after) \cup {entry}
  <2>1. Range(Insert(log.after, entry)) = Range(log.after) \cup {entry}
    BY <1>2, InsertStores
  <2> QED BY <1>1, <2>1
<1>5. ~half => /\ new.after = log.after /\ new.before = Insert(log.before, entry)
               /\ Range(new.before) = Range(log.before) \cup {entry}
  <2>1. Range(Insert(log.before, entry)) = Range(log.before) \cup {entry}
    BY <1>2, InsertStores
  <2> QED BY <1>1, <2>1
<1>6. All(new) = All(log) \cup {entry}
  BY <1>4, <1>5 DEF All
<1> QED BY <1>3, <1>4, <1>5, <1>6 DEF half, done, new

(* A report that is newer than all others is put in its place.             *)
LEMMA PlaceSorted ==
    ASSUME NEW list \in Seq(Entry), Sorted(list), NEW entry \in Entry, \A x \in Range(list) : x.n < entry.n
    PROVE  Sorted(Place(list, entry))
<1> DEFINE new == Place(list, entry)
           time(i) == list[i].event.time
           t == entry.event.time
<1>1. PICK k \in 0..Len(list) :
              /\ new \in Seq(Entry)
              /\ Len(new) = Len(list) + 1
              /\ \A i \in 1..k : new[i] = list[i]
              /\ new[k + 1] = entry
              /\ \A i \in k + 1..Len(list) : new[i + 1] = list[i]
              /\ k = Cardinality({i \in 1..Len(list) : list[i].event.time <= entry.event.time})
  BY PlaceEntry
<1>2. Len(list) \in Nat /\ DOMAIN list = 1..Len(list) /\ DOMAIN new = 1..Len(list) + 1
  BY <1>1
<1>3. t \in Int /\ \A i \in 1..Len(list) : list[i] \in Entry /\ time(i) \in Int
  BY EventTimes
<1>4. \A i \in 1..Len(list) : list[i].n < entry.n
  BY <1>2 DEF Range
<1>5. {i \in 1..Len(list) : time(i) <= t} = 1..k
  <2> DEFINE D == {i \in 1..Len(list) : time(i) <= t}
  <2>1. ASSUME NEW i \in D, NEW j \in 1..Len(list), j <= i PROVE j \in D
    <3>1. time(j) <= time(i)
      BY <1>2, <1>3, <2>1 DEF Sorted
    <3> QED BY <1>3, <3>1
  <2>2. k = Cardinality(D) /\ D \in SUBSET (1..Len(list))
    BY <1>1
  <2> HIDE DEF D
  <2>3. D = 1..Cardinality(D)
    BY <1>2, <2>1, <2>2, InitialSegment
  <2> QED BY <2>2, <2>3 DEF D
<1>6. ASSUME NEW i \in 1..Len(list) PROVE (i <= k => time(i) <= t) /\ (i > k => t < time(i))
  BY <1>3, <1>5
<1> HIDE DEF new
<1>7. ASSUME NEW i \in DOMAIN new
      PROVE  \/ i <= k /\ i \in 1..Len(list) /\ new[i] = list[i]
             \/ i = k + 1 /\ new[i] = entry
             \/ i > k + 1 /\ i - 1 \in 1..Len(list) /\ i - 1 > k /\ new[i] = list[i - 1]
  <2>1. CASE i <= k
    BY <1>1, <1>2, <2>1
  <2>2. CASE i = k + 1
    BY <1>1, <2>2
  <2>3. CASE i > k + 1
    <3>1. i - 1 \in k + 1..Len(list) /\ (i - 1) + 1 = i
      BY <1>1, <1>2, <2>3
    <3>2. new[(i - 1) + 1] = list[i - 1]
      BY <1>1, <3>1
    <3> QED BY <1>2, <2>3, <3>1, <3>2
  <2> QED BY <1>1, <1>2, <2>1, <2>2, <2>3
<1> SUFFICES ASSUME NEW i \in DOMAIN new, NEW j \in DOMAIN new, i < j
             PROVE  /\ new[i].event.time <= new[j].event.time
                    /\ new[i].event.time = new[j].event.time => new[i].n < new[j].n
  BY DEF Sorted, new
<1>8. CASE i <= k /\ j <= k
  BY <1>2, <1>7, <1>8 DEF Sorted
<1>9. CASE i <= k /\ j = k + 1
  BY <1>2, <1>4, <1>6, <1>7, <1>9
<1>10. CASE i <= k /\ j > k + 1
  <2>1. i < j - 1 /\ i \in DOMAIN list /\ j - 1 \in DOMAIN list /\ new[i] = list[i] /\ new[j] = list[j - 1]
    BY <1>1, <1>2, <1>7, <1>10
  <2> QED BY <2>1 DEF Sorted
<1>11. CASE i = k + 1 /\ j > k + 1
  <2>1. j - 1 \in 1..Len(list) /\ j - 1 > k /\ new[i] = entry /\ new[j] = list[j - 1]
    BY <1>2, <1>7, <1>11
  <2>2. t < time(j - 1)
    BY <1>6, <2>1
  <2> QED BY <1>3, <2>1, <2>2
<1>12. CASE i > k + 1
  <2>1. /\ i - 1 < j - 1 /\ i - 1 \in DOMAIN list /\ j - 1 \in DOMAIN list
        /\ new[i] = list[i - 1] /\ new[j] = list[j - 1]
    BY <1>1, <1>2, <1>7, <1>12
  <2> QED BY <2>1 DEF Sorted
<1> QED BY <1>1, <1>2, <1>8, <1>9, <1>10, <1>11, <1>12

LEMMA InsertOrdered ==
    ASSUME NEW list \in Seq(Entry), Ordered(list), NEW entry \in Entry, \A x \in Range(list) : x.n < entry.n
    PROVE  Ordered(Insert(list, entry))
<1> SUFFICES ASSUME Len(Insert(list, entry)) <= InsertionSorted PROVE Sorted(Insert(list, entry))
  BY DEF Ordered
<1>1. Len(Insert(list, entry)) = Len(list) + 1 /\ Len(list) \in Nat
  BY InsertArranges
<1>2. Insert(list, entry) = Place(list, entry)
  BY <1>1, InsertArranges
<1>3. Len(list) <= InsertionSorted
  BY <1>1 DEF InsertionSorted
<1>4. Sorted(list)
  BY <1>3 DEF Ordered
<1> QED BY <1>2, <1>4, PlaceSorted

LEMMA NewestInOrder ==
    ASSUME NEW log \in Log, InOrder(log), ~log.half => log.after = <<>>,
           NEW entry \in Entry, \A k \in Stored(log) : k < entry.n
    PROVE  InOrder(AddUpdate(log, entry))
<1> DEFINE new == AddUpdate(log, entry)
<1>1. log.before \in Seq(Entry) /\ log.after \in Seq(Entry)
  BY DEF Log
<1>2. \A x \in Range(log.before) \cup Range(log.after) : x.n < entry.n
  BY StoredRange
<1>3. Ordered(Insert(log.before, entry)) /\ Ordered(Insert(log.after, entry))
  BY <1>1, <1>2, InsertOrdered DEF InOrder
<1>4. /\ new.half => /\ new.before = log.before /\ new.after = Insert(log.after, entry)
                     /\ Range(new.after) = Range(log.after) \cup {entry}
      /\ ~new.half => /\ new.after = log.after /\ new.before = Insert(log.before, entry)
                      /\ Range(new.before) = Range(log.before) \cup {entry}
  BY AddParts
<1> HIDE DEF new
<1>5. Apart(new.before, new.after)
  <2>1. CASE new.half
    BY <1>2, <1>4, <2>1 DEF InOrder, Apart
  <2>2. CASE ~new.half
    <3>1. ~log.half
      BY <2>2, AddParts DEF new
    <3>2. Range(new.after) = {}
      BY <1>4, <2>2, <3>1, RangeEmpty
    <3> QED BY <3>2 DEF Apart
  <2> QED BY <2>1, <2>2
<1>6. Ordered(new.before) /\ Ordered(new.after)
  BY <1>3, <1>4 DEF InOrder
<1> QED BY <1>5, <1>6 DEF InOrder, new

LEMMA EmptyInOrder == InOrder(NoUpdates) /\ SplitAtHalf(NoUpdates)
<1>1. /\ NoUpdates.before = <<>> /\ NoUpdates.after = <<>>
      /\ NoUpdates.half = FALSE /\ NoUpdates.done = FALSE
  BY DEF NoUpdates
<1>2. Ordered(<<>>)
  BY DEF Ordered, Sorted
<1> QED BY <1>1, <1>2, RangeEmpty DEF InOrder, Apart, SplitAtHalf, All

LEMMA NewestSplit ==
    ASSUME NEW log \in Log, SplitAtHalf(log), NEW entry \in Entry, \A k \in Stored(log) : k < entry.n
    PROVE  SplitAtHalf(AddUpdate(log, entry))
<1> DEFINE new == AddUpdate(log, entry)
<1>1. \A x \in All(log) : x.n < entry.n
  BY StoredRange DEF All
<1>2. /\ new.half = (log.half \/ HalfTime(entry))
      /\ new.done = (log.done \/ Over(entry))
      /\ new.half => /\ new.before = log.before
                     /\ Range(new.after) = Range(log.after) \cup {entry}
      /\ ~new.half => /\ new.after = log.after
                      /\ Range(new.before) = Range(log.before) \cup {entry}
      /\ All(new) = All(log) \cup {entry}
  BY AddParts
<1>3. /\ log.half \in BOOLEAN /\ log.done \in BOOLEAN
      /\ \A x \in All(log) \cup {entry} : x.n \in Nat
      /\ Range(log.before) \subseteq All(log) /\ Range(log.after) \subseteq All(log)
  <2>1. log.before \in Seq(Entry) /\ log.after \in Seq(Entry)
    BY DEF Log
  <2>2. All(log) \subseteq Entry
    BY <2>1 DEF All, Range
  <2> QED BY <2>2 DEF Log, Entry, All
<1> HIDE DEF new
<1>4. /\ new.half <=> \E x \in All(new) : HalfTime(x)
      /\ new.done <=> \E x \in All(new) : Over(x)
  BY <1>2, <1>3 DEF SplitAtHalf
<1>5. ASSUME NEW x \in Range(new.before), NEW y \in All(new), HalfTime(y) PROVE x.n < y.n
  <2>1. new.half
    BY <1>4, <1>5
  <2>2. x \in Range(log.before) /\ (y \in All(log) \/ y = entry)
    BY <1>2, <2>1
  <2> QED BY <1>1, <1>3, <1>5, <2>2 DEF SplitAtHalf
<1>6. ASSUME NEW x \in Range(new.after) PROVE \E y \in All(new) : HalfTime(y) /\ y.n <= x.n
  <2>1. CASE x \in Range(log.after)
    BY <1>2, <2>1 DEF SplitAtHalf
  <2>2. CASE x \notin Range(log.after)
    <3>1. new.half /\ x = entry
      BY <1>2, <2>2
    <3>2. PICK y \in All(new) : HalfTime(y)
      BY <1>4, <3>1
    <3>3. y.n <= entry.n
      BY <1>1, <1>2, <1>3
    <3> QED BY <3>1, <3>2, <3>3
  <2> QED BY <2>1, <2>2
<1> QED BY <1>4, <1>5, <1>6 DEF SplitAtHalf, new

-----------------------------------------------------------------------------
(* How a log changes in a step of u's: not at all, or it is emptied, or an *)
(* entry is added that is newer than all and was on its way before.        *)
Newer(u, g, w, entry) ==
    /\ entry \in Entry /\ \A k \in Stored(Games[u][g][w]) : k < entry.n
    /\ Carried([by |-> w, game |-> g, n |-> entry.n, event |-> entry.event])

LEMMA StoreNewer ==
    ASSUME OInv, NEW u \in User, Store(u), NEW h \in Game, NEW w \in User,
           Games'[u][h][w] # Games[u][h][w]
    PROVE  \E entry : Newer(u, h, w, entry) /\ Games'[u][h][w] = AddUpdate(Games[u][h][w], entry)
<1>1. PICK g \in Game :
        /\ game[u] = {g} /\ The(game[u]) = g
        /\ AddTo(u, g, u, reported[u][g], Head(left[u]))
        /\ reported[u][g] \in Nat \ {0} /\ Head(left[u]) \in Original
  BY StoreStores DEF Stores, OInv
<1> DEFINE r == reported[u][g]
           entry == [n |-> r, event |-> Head(left[u])]
<1>2. \A v \in User, i \in Game, x \in User :
         Games'[v][i][x] = IF v = u /\ i = g /\ x = u THEN AddUpdate(Games[u][g][u], entry)
                           ELSE Games[v][i][x]
  BY <1>1, AddTypes DEF OInv
<1>3. h = g /\ w = u /\ Games'[u][h][w] = AddUpdate(Games[u][h][w], entry)
  BY <1>2
<1>4. entry \in Entry /\ entry.n = r /\ entry.event = Head(left[u])
  BY <1>1 DEF Entry
<1>5. OwnComplete(Stored(Games[u][g][u]), r, from[u][g][u], TRUE)
  BY <1>1 DEF OInv, OwnOK, Store, KeyboardAt
<1>6. \A k \in Stored(Games[u][g][u]) : k < r
  BY <1>1, <1>5 DEF OwnComplete
<1>7. Carried([by |-> u, game |-> g, n |-> r, event |-> Head(left[u])])
  BY <1>1 DEF Carried, Store, KeyboardAt
<1> HIDE DEF entry, r
<1>8. Newer(u, h, w, entry)
  BY <1>3, <1>4, <1>6, <1>7 DEF Newer
<1> QED BY <1>3, <1>8

LEMMA AddNewer ==
    ASSUME OInv, NEW u \in User, Add(u), NEW h \in Game, NEW w \in User,
           Games'[u][h][w] # Games[u][h][w]
    PROVE  \E entry : Newer(u, h, w, entry) /\ Games'[u][h][w] = AddUpdate(Games[u][h][w], entry)
<1>1. PICK m \in hand[u] : AddTo(u, m.game, m.by, m.n, m.event)
  BY DEF Add
<1>2. m \in ParsedMessage /\ hand[u] = {m} /\ m.by # u /\ TypesOK
  BY <1>1 DEF OInv, TypesOK, PlaceOK, Placed
<1>3. /\ m.game \in Game /\ m.by \in User /\ m.n \in Nat \ {0} /\ m.event \in Copied
      /\ m = [by |-> m.by, game |-> m.game, n |-> m.n, event |-> m.event]
  BY <1>2 DEF ParsedMessage
<1> DEFINE entry == [n |-> m.n, event |-> m.event]
<1>4. \A v \in User, i \in Game, x \in User :
         Games'[v][i][x] = IF v = u /\ i = m.game /\ x = m.by
                           THEN AddUpdate(Games[u][m.game][m.by], entry) ELSE Games[v][i][x]
  BY <1>1, <1>2, <1>3, AddTypes
<1>5. h = m.game /\ w = m.by /\ Games'[u][h][w] = AddUpdate(Games[u][h][w], entry)
  BY <1>4
<1>6. entry \in Entry /\ entry.n = m.n /\ entry.event = m.event
  BY <1>3 DEF Entry
<1>7. m.n \in Coming(u, m.game, m.by)
  BY <1>1 DEF Coming
<1>8. \A k \in Stored(Games[u][m.game][m.by]) : k < m.n
  BY <1>2, <1>3, <1>7 DEF OInv, ArriveOK, Arrives, Complete
<1>9. Carried(m)
  BY <1>1 DEF Carried
<1> HIDE DEF entry
<1>10. Newer(u, h, w, entry)
  BY <1>3, <1>5, <1>6, <1>8, <1>9 DEF Newer
<1> QED BY <1>5, <1>10

LEMMA LogSteps ==
    ASSUME OInv, NEW u \in User, Steps(u), NEW v \in User, NEW h \in Game, NEW w \in User
    PROVE  \/ Games'[v][h][w] = Games[v][h][w]
           \/ v = u /\ kpc[u] \in {"reset", "erase"} /\ Games'[v][h][w] = NoUpdates
           \/ /\ v = u
              /\ \E entry : Newer(u, h, w, entry) /\ Games'[v][h][w] = AddUpdate(Games[v][h][w], entry)
<1>1. CASE Store(u)
  <2>1. v # u => Games'[v] = Games[v]
    BY OthersStay DEF Stays, OInv
  <2> QED BY <1>1, <2>1, StoreNewer
<1>2. CASE Add(u)
  <2>1. v # u => Games'[v] = Games[v]
    BY OthersStay DEF Stays, OInv
  <2> QED BY <1>2, <2>1, AddNewer
<1>3. CASE Reset(u) \/ Erase(u)
  <2>1. PICK g \in Game : The(game[u]) = g
    BY <1>3, AtPlace DEF Reset, Erase, KeyboardAt, OInv
  <2>2. Games'[v][h][w] = IF v = u /\ h = g THEN NoUpdates ELSE Games[v][h][w]
    BY <1>3, <2>1, ForgetTypes DEF Reset, Erase, OInv
  <2> QED BY <1>3, <2>2 DEF Reset, Erase, KeyboardAt
<1>4. CASE UNCHANGED Games
  BY <1>4
<1>5. \/ Store(u) \/ Add(u) \/ Reset(u) \/ Erase(u) \/ UNCHANGED Games
  BY KindsOfSteps DEF OInv, Aside, Send, Receive, Notice, Crash, ServeSubscribe, ServeUnsubscribe,
     ServeSend, Close, Take, client
<1> QED BY <1>1, <1>2, <1>3, <1>4, <1>5

LEMMA StepLogs ==
    ASSUME OInv, IInv, LogsInOrder, LogsSplit, [Next]_vars
    PROVE  LogsInOrder' /\ LogsSplit'
<1>1. CASE UNCHANGED vars
  BY <1>1 DEF LogsInOrder, LogsSplit, vars, client
<1>2. ASSUME NEW u \in User, Steps(u), NEW v \in User, NEW h \in Game, NEW w \in User
      PROVE  InOrder(Games'[v][h][w]) /\ SplitAtHalf(Games'[v][h][w])
  <2> DEFINE log == Games[v][h][w]
  <2>1. InOrder(log) /\ SplitAtHalf(log) /\ log \in Log /\ (~log.half => log.after = <<>>)
    BY DEF LogsInOrder, LogsSplit, OInv, TypesOK, IInv, TableOK, LogOK
  <2>2. ASSUME v = u, NEW entry, Newer(u, h, w, entry) 
        PROVE  InOrder(AddUpdate(log, entry)) /\ SplitAtHalf(AddUpdate(log, entry))
    <3>1. entry \in Entry /\ \A k \in Stored(log) : k < entry.n
      BY <2>2 DEF Newer
    <3> HIDE DEF log
    <3> QED BY <2>1, <3>1, NewestInOrder, NewestSplit
  <2>3. \/ Games'[v][h][w] = log \/ Games'[v][h][w] = NoUpdates
        \/ v = u /\ \E entry : Newer(u, h, w, entry) /\ Games'[v][h][w] = AddUpdate(log, entry)
    BY <1>2, LogSteps
  <2> HIDE DEF log
  <2> QED BY <2>1, <2>2, <2>3, EmptyInOrder
<1> QED BY <1>1, <1>2 DEF Next, Steps, LogsInOrder, LogsSplit

-----------------------------------------------------------------------------
(* The copies of a summary.  A step of u's reads a part of the log, or     *)
(* leaves the summary as it is, or is not one of a summary that has begun. *)
LEMMA ReadCopies ==
    ASSUME OInv, IInv, NEW u \in User, NEW here, NEW next, NEW part, Read(u, here, next, part),
           NEW g \in Game, NEW w \in User, game[u] = {g}, copy[u].user = {w}
    PROVE  /\ kpc[u] = here /\ kpc'[u] = next /\ game'[u] = {g} /\ copy'[u].user = {w}
           /\ copy'[u].log = [copy[u].log EXCEPT ![part] = Games[u][g][w][part]]
           /\ UNCHANGED Games
<1>1. The(game[u]) = g /\ The(copy[u].user) = w
  BY DEF The
<1>2. /\ kpc[u] = here /\ kpc' = [kpc EXCEPT ![u] = next]
      /\ copy' = [copy EXCEPT ![u].log[part] = Games[u][g][w][part]]
      /\ UNCHANGED <<game, Games>>
  BY <1>1 DEF Read, KeyboardAt, client
<1>3. DOMAIN copy = User /\ DOMAIN kpc = User
  BY DEF IInv, ShapeOK
<1>4. copy'[u] = [copy[u] EXCEPT !.log[part] = Games[u][g][w][part]]
  BY <1>2, <1>3, UpdateLog
<1>5. DOMAIN copy[u] = {"user", "log"}
  BY DEF IInv, ShapeOK
<1> QED BY <1>2, <1>3, <1>4, <1>5

Reads(u) ==
    GetUpdatesBefore(u) \/ GetUpdatesAfter(u) \/ GetIsDone(u) \/ GetIsBeforeHalftime(u)

LEMMA SummarySteps ==
    ASSUME OInv, IInv, NEW u \in User, Steps(u)
    PROVE  /\ \/ Reads(u)
              \/ UNCHANGED <<kpc, game, copy>>
              \/ kpc'[u] \notin Summarising \ {"getBefore"}
           /\ \A v \in User \ {u} : copy'[v] = copy[v]
<1>1. DOMAIN kpc = User /\ DOMAIN copy = User
  BY DEF IInv, ShapeOK
<1>2. ASSUME NEW here, NEW next \in {"prompt", "reset", "erase", "send", "store", "crashed", "getBefore"},
             kpc' = [kpc EXCEPT ![u] = next]
      PROVE  kpc'[u] \notin Summarising \ {"getBefore"}
  BY <1>1, <1>2 DEF Summarising
<1>3. ASSUME Type(u) \/ Send(u) \/ Reset(u) \/ Erase(u) \/ Store(u) \/ WriteSummary(u) \/ Crash(u)
      PROVE  \/ UNCHANGED <<kpc, game, copy>>
             \/ \E next \in {"prompt", "reset", "erase", "send", "store", "crashed", "getBefore"} :
                   kpc' = [kpc EXCEPT ![u] = next]
  <2>1. ASSUME Type(u)
        PROVE  \/ UNCHANGED <<kpc, game, copy>>
               \/ \E next \in {"prompt", "reset", "erase", "send", "getBefore"} : kpc' = [kpc EXCEPT ![u] = next]
    BY <2>1 DEF Type, Join, Exit, Summarise, Report, Login, KeyboardAt
  <2>2. ASSUME Send(u) \/ Reset(u) \/ Erase(u) \/ Store(u) \/ WriteSummary(u) \/ Crash(u)
        PROVE  \E next \in {"prompt", "send", "store", "crashed"} : kpc' = [kpc EXCEPT ![u] = next]
    BY <2>2 DEF Send, Reset, Erase, Store, WriteSummary, Crash, KeyboardAt
  <2> QED BY <1>3, <2>1, <2>2
<1>4. ASSUME Listener(u) \/ Server(u) PROVE UNCHANGED <<kpc, game, copy>>
  BY <1>4 DEF Listener, Receive, Add, Notice, Server, ServeSubscribe, ServeUnsubscribe, ServeSend,
     ServeError, HangUp, Close, Take, keyboard
<1>5. Keyboard(u) => Reads(u) \/ Send(u) \/ Reset(u) \/ Erase(u) \/ Store(u) \/ WriteSummary(u)
  BY DEF Keyboard, Reads
<1>6. \A v \in User \ {u} : copy'[v] = copy[v]
  <2>1. ASSUME NEW g \in Game, NEW w \in User, Summarise(u, g, w)
        PROVE  \A v \in User \ {u} : copy'[v] = copy[v]
    BY <1>1, <2>1 DEF Summarise
  <2>2. ASSUME NEW part, NEW x, copy' = [copy EXCEPT ![u].log[part] = x]
        PROVE  \A v \in User \ {u} : copy'[v] = copy[v]
    BY <1>1, <2>2
  <2>3. Reads(u) => \E part, x : copy' = [copy EXCEPT ![u].log[part] = x]
    BY DEF Reads, GetUpdatesBefore, GetUpdatesAfter, GetIsDone, GetIsBeforeHalftime, Read
  <2>4. WriteSummary(u) => \A v \in User \ {u} : copy'[v] = copy[v]
    BY <1>1 DEF WriteSummary
  <2>5. UNCHANGED copy \/ Reads(u) \/ WriteSummary(u) \/ \E g \in Game, w \in User : Summarise(u, g, w)
    <3>1. Type(u) => UNCHANGED copy \/ \E g \in Game, w \in User : Summarise(u, g, w)
      BY DEF Type, Join, Exit, Report, Login
    <3>2. Send(u) \/ Reset(u) \/ Erase(u) \/ Store(u) \/ Crash(u) => UNCHANGED copy
      BY DEF Send, Reset, Erase, Store, Crash
    <3> QED BY <1>4, <1>5, <3>1, <3>2 DEF Steps
  <2> QED BY <2>1, <2>2, <2>3, <2>4, <2>5
<1>7. \/ Reads(u)
      \/ UNCHANGED <<kpc, game, copy>>
      \/ kpc'[u] \notin Summarising \ {"getBefore"}
  BY <1>2, <1>3, <1>4, <1>5 DEF Steps
<1> QED BY <1>6, <1>7

(* The copies stay in order while the log grows ...                        *)
LEMMA CopyStays ==
    ASSUME NEW copied, NEW here, NEW log, NEW new, CopyInOrder(copied, here, log),
           here = "getAfter" => Range(log.before) \subseteq Range(new.before)
    PROVE  CopyInOrder(copied, here, new)
<1>1. here = "getAfter" => Range(copied.before) \subseteq Range(new.before)
  BY DEF CopyInOrder
<1> QED BY <1>1 DEF CopyInOrder

LEMMA BeforeGrows ==
    ASSUME NEW log \in Log, NEW entry \in Entry
    PROVE  Range(log.before) \subseteq Range(AddUpdate(log, entry).before)
<1> DEFINE new == AddUpdate(log, entry)
<1>1. new.half => new.before = log.before
  BY AddParts
<1>2. ~new.half => Range(new.before) = Range(log.before) \cup {entry}
  BY AddParts
<1> HIDE DEF new
<1> QED BY <1>1, <1>2 DEF new

(* ... and when the next part is read from it.                             *)
LEMMA CopyNext ==
    ASSUME NEW copied, NEW log \in Log, InOrder(log),
           DOMAIN copied = {"before", "after", "half", "done"}
    PROVE  /\ CopyInOrder([copied EXCEPT !["before"] = log["before"]], "getAfter", log)
           /\ CopyInOrder(copied, "getAfter", log)
                => CopyInOrder([copied EXCEPT !["after"] = log["after"]], "getDone", log)
           /\ CopyInOrder(copied, "getDone", log)
                => CopyInOrder([copied EXCEPT !["done"] = log["done"]], "getHalf", log)
           /\ CopyInOrder(copied, "getHalf", log)
                => CopyInOrder([copied EXCEPT !["half"] = log["half"]], "print", log)
<1>1. log.before \in Seq(Entry) /\ log.after \in Seq(Entry)
  BY DEF Log
<1>2. CopyInOrder([copied EXCEPT !["before"] = log["before"]], "getAfter", log)
  BY <1>1 DEF CopyInOrder, InOrder
<1>3. ASSUME CopyInOrder(copied, "getAfter", log)
      PROVE  CopyInOrder([copied EXCEPT !["after"] = log["after"]], "getDone", log)
  <2>1. Apart(copied.before, log.after)
    BY <1>3 DEF CopyInOrder, InOrder, Apart
  <2> QED BY <1>1, <1>3, <2>1 DEF CopyInOrder, InOrder
<1>4. CopyInOrder(copied, "getDone", log)
        => CopyInOrder([copied EXCEPT !["done"] = log["done"]], "getHalf", log)
  BY DEF CopyInOrder
<1>5. CopyInOrder(copied, "getHalf", log)
        => CopyInOrder([copied EXCEPT !["half"] = log["half"]], "print", log)
  BY DEF CopyInOrder
<1> QED BY <1>2, <1>3, <1>4, <1>5

LEMMA StepCopies ==
    ASSUME OInv, IInv, LogsInOrder, CopiesInOrder, [Next]_vars
    PROVE  CopiesInOrder'
<1>1. CASE UNCHANGED vars
  BY <1>1 DEF CopiesInOrder, vars, keyboard, client
<1>2. ASSUME NEW u \in User, Steps(u), NEW v \in User, NEW g \in Game, NEW w \in User,
             kpc'[v] \in Summarising, game'[v] = {g}, copy'[v].user = {w}
      PROVE  CopyInOrder(copy'[v].log, kpc'[v], Games'[v][g][w])
  <2> DEFINE log == Games[v][g][w]
  <2>1. log \in Log /\ InOrder(log)
    BY DEF OInv, TypesOK, LogsInOrder
  <2>2. ASSUME kpc'[v] = kpc[v], game'[v] = game[v], copy'[v] = copy[v]
        PROVE  CopyInOrder(copy'[v].log, kpc'[v], Games'[v][g][w])
    <3>1. CopyInOrder(copy[v].log, kpc[v], log)
      BY <1>2, <2>2 DEF CopiesInOrder
    <3>2. Range(log.before) \subseteq Range(Games'[v][g][w].before)
      <4>1. \/ Games'[v][g][w] = log
            \/ v = u /\ kpc[u] \in {"reset", "erase"}
            \/ \E entry : Newer(u, g, w, entry) /\ Games'[v][g][w] = AddUpdate(log, entry)
        BY <1>2, LogSteps
      <4>3. \A entry : Newer(u, g, w, entry) => entry \in Entry
        BY DEF Newer
      <4>2. ~(v = u /\ kpc[u] \in {"reset", "erase"})
        BY <1>2, <2>2 DEF Summarising
      <4> HIDE DEF log
      <4> QED BY <2>1, <4>1, <4>2, <4>3, BeforeGrows
    <3> HIDE DEF log
    <3> QED BY <2>2, <3>1, <3>2, CopyStays
  <2>3. CASE v # u
    <3>1. Stays(v) /\ copy'[v] = copy[v]
      BY <1>2, <2>3, OthersStay, SummarySteps DEF OInv
    <3> QED BY <2>2, <3>1 DEF Stays
  <2>4. CASE v = u /\ Reads(u)
    <3>1. PICK h \in Game, x \in User : game[u] = {h} /\ copy[u].user = {x}
      <4>1. kpc[u] \in Summarising
        BY <2>4 DEF Reads, GetUpdatesBefore, GetUpdatesAfter, GetIsDone, GetIsBeforeHalftime, Read,
           KeyboardAt, Summarising
      <4> QED BY <4>1 DEF IInv, AimOK, Aim
    <3>2. ASSUME NEW here, NEW next, NEW part, Read(u, here, next, part)
          PROVE  /\ kpc[u] = here /\ kpc'[u] = next /\ h = g /\ x = w /\ UNCHANGED Games
                 /\ copy'[u].log = [copy[u].log EXCEPT ![part] = log[part]]
      <4>1. /\ kpc[u] = here /\ kpc'[u] = next /\ game'[u] = {h} /\ copy'[u].user = {x}
            /\ copy'[u].log = [copy[u].log EXCEPT ![part] = Games[u][h][x][part]]
            /\ UNCHANGED Games
        BY <3>1, <3>2, ReadCopies, Zenon
      <4>2. h = g /\ x = w
        BY <1>2, <2>4, <4>1
      <4> QED BY <2>4, <4>1, <4>2
    <3>3. game[u] = {g} /\ copy[u].user = {w}
      BY <2>4, <3>1, <3>2 DEF Reads, GetUpdatesBefore, GetUpdatesAfter, GetIsDone, GetIsBeforeHalftime
    <3>4. kpc[u] \in Summarising => CopyInOrder(copy[u].log, kpc[u], log)
      BY <2>4, <3>3 DEF CopiesInOrder
    <3>5. DOMAIN copy[u].log = {"before", "after", "half", "done"}
      BY DEF IInv, ShapeOK
    <3> DEFINE copied == copy[u].log
    <3>6. UNCHANGED Games => Games'[v][g][w] = log
      OBVIOUS
    <3> HIDE DEF log, copied
    <3>7. /\ CopyInOrder([copied EXCEPT !["before"] = log["before"]], "getAfter", log)
          /\ CopyInOrder(copied, "getAfter", log)
               => CopyInOrder([copied EXCEPT !["after"] = log["after"]], "getDone", log)
          /\ CopyInOrder(copied, "getDone", log)
               => CopyInOrder([copied EXCEPT !["done"] = log["done"]], "getHalf", log)
          /\ CopyInOrder(copied, "getHalf", log)
               => CopyInOrder([copied EXCEPT !["half"] = log["half"]], "print", log)
      BY <2>1, <3>5, CopyNext DEF copied
    <3>8. CASE GetUpdatesBefore(u)
      BY <2>4, <3>2, <3>6, <3>7, <3>8 DEF GetUpdatesBefore, copied
    <3>9. CASE GetUpdatesAfter(u)
      <4>1. /\ kpc[u] = "getAfter" /\ kpc'[u] = "getDone" /\ UNCHANGED Games
            /\ copy'[u].log = [copied EXCEPT !["after"] = log["after"]]
        BY <3>2, <3>9 DEF GetUpdatesAfter, copied
      <4>2. CopyInOrder(copied, "getAfter", log)
        BY <3>4, <4>1 DEF copied, Summarising
      <4> QED BY <2>4, <3>6, <3>7, <4>1, <4>2
    <3>10. CASE GetIsDone(u)
      <4>1. /\ kpc[u] = "getDone" /\ kpc'[u] = "getHalf" /\ UNCHANGED Games
            /\ copy'[u].log = [copied EXCEPT !["done"] = log["done"]]
        BY <3>2, <3>10 DEF GetIsDone, copied
      <4>2. CopyInOrder(copied, "getDone", log)
        BY <3>4, <4>1 DEF copied, Summarising
      <4> QED BY <2>4, <3>6, <3>7, <4>1, <4>2
    <3>11. CASE GetIsBeforeHalftime(u)
      <4>1. /\ kpc[u] = "getHalf" /\ kpc'[u] = "print" /\ UNCHANGED Games
            /\ copy'[u].log = [copied EXCEPT !["half"] = log["half"]]
        BY <3>2, <3>11 DEF GetIsBeforeHalftime, copied
      <4>2. CopyInOrder(copied, "getHalf", log)
        BY <3>4, <4>1 DEF copied, Summarising
      <4> QED BY <2>4, <3>6, <3>7, <4>1, <4>2
    <3> QED BY <2>4, <3>8, <3>9, <3>10, <3>11 DEF Reads
  <2>5. CASE v = u /\ kpc'[u] \notin Summarising \ {"getBefore"}
    BY <1>2, <2>5 DEF CopyInOrder
  <2>6. CASE UNCHANGED <<kpc, game, copy>>
    BY <2>2, <2>6
  <2> QED BY <1>2, <2>3, <2>4, <2>5, <2>6, SummarySteps
<1> QED BY <1>1, <1>2 DEF Next, Steps, CopiesInOrder

LEMMA InitCopies == Init => LogsInOrder /\ LogsSplit /\ CopiesInOrder
<1> SUFFICES ASSUME Init PROVE LogsInOrder /\ LogsSplit /\ CopiesInOrder
  OBVIOUS
<1>1. \A u, w \in User, g \in Game : Games[u][g][w] = NoUpdates
  BY DEF Init, NoLogs
<1>2. \A u \in User : kpc[u] \notin Summarising
  BY DEF Init, Summarising
<1> QED BY <1>1, <1>2, EmptyInOrder DEF LogsInOrder, LogsSplit, CopiesInOrder

(* In what a summary lists, no report comes before one that it is later    *)
(* than.                                                                   *)
LEMMA ListedInOrder ==
    ASSUME NEW a \in Seq(Entry), NEW b \in Seq(Entry), Sorted(a), Sorted(b), Apart(a, b)
    PROVE  /\ a \o b \in Seq(Entry)
           /\ \A j, i \in DOMAIN (a \o b) :
                 j <= i => ~ (/\ (a \o b)[j].n > (a \o b)[i].n
                              /\ (a \o b)[j].event.time >= (a \o b)[i].event.time)
<1> DEFINE c == a \o b
<1>1. /\ c \in Seq(Entry) /\ Len(a) \in Nat /\ Len(b) \in Nat
      /\ DOMAIN a = 1..Len(a) /\ DOMAIN b = 1..Len(b) /\ DOMAIN c = 1..Len(a) + Len(b)
  OBVIOUS
<1>2. ASSUME NEW i \in DOMAIN c
      PROVE  \/ i \in DOMAIN a /\ c[i] = a[i]
             \/ i > Len(a) /\ i - Len(a) \in DOMAIN b /\ c[i] = b[i - Len(a)]
  <2>1. CASE i <= Len(a)
    BY <1>1, <2>1
  <2>2. CASE i > Len(a)
    BY <1>1, <2>2
  <2> QED BY <1>1, <2>1, <2>2
<1>3. \A x \in Entry : x.n \in Nat /\ x.event.time \in Int
  BY EventTimes DEF Entry
<1>4. /\ \A i \in DOMAIN a : a[i].n \in Nat /\ a[i].event.time \in Int
      /\ \A i \in DOMAIN b : b[i].n \in Nat /\ b[i].event.time \in Int
  BY <1>3
<1> HIDE DEF c
<1> SUFFICES ASSUME NEW j \in DOMAIN c, NEW i \in DOMAIN c, j <= i
             PROVE  ~ (c[j].n > c[i].n /\ c[j].event.time >= c[i].event.time)
  BY <1>1 DEF c
<1>5. CASE i = j
  <2>1. c[i].n \in Nat
    BY <1>1, <1>3
  <2> QED BY <1>5, <2>1
<1>6. CASE j # i /\ i \in DOMAIN a
  <2>1. j \in DOMAIN a /\ j < i /\ c[j] = a[j] /\ c[i] = a[i]
    BY <1>1, <1>2, <1>6
  <2>2. /\ a[j].event.time <= a[i].event.time
        /\ a[j].event.time = a[i].event.time => a[j].n < a[i].n
    BY <1>6, <2>1 DEF Sorted
  <2>3. /\ a[i].n \in Nat /\ a[i].event.time \in Int
        /\ a[j].n \in Nat /\ a[j].event.time \in Int
    BY <1>4, <1>6, <2>1
  <2> QED BY <2>1, <2>2, <2>3
<1>7. CASE j # i /\ i \notin DOMAIN a /\ j \in DOMAIN a
  <2>1. c[j] = a[j] /\ i - Len(a) \in DOMAIN b /\ c[i] = b[i - Len(a)]
    BY <1>1, <1>2, <1>7
  <2> DEFINE k == i - Len(a)
  <2>2. a[j] \in Range(a) /\ b[k] \in Range(b)
    BY <1>7, <2>1 DEF Range
  <2>3. a[j].n < b[k].n
    BY <2>2 DEF Apart
  <2>4. a[j].n \in Nat /\ b[k].n \in Nat
    BY <1>4, <1>7, <2>1
  <2> QED BY <2>1, <2>3, <2>4
<1>8. CASE j # i /\ i \notin DOMAIN a /\ j \notin DOMAIN a
  <2>1. /\ j - Len(a) \in DOMAIN b /\ c[j] = b[j - Len(a)]
        /\ i - Len(a) \in DOMAIN b /\ c[i] = b[i - Len(a)]
        /\ j - Len(a) < i - Len(a)
    BY <1>1, <1>2, <1>8
  <2> QED BY <1>4, <2>1, SMTT(30) DEF Sorted
<1> QED BY <1>5, <1>6, <1>7, <1>8

LEMMA LastIsGreatest ==
    ASSUME NEW R, NEW L \in Nat, DOMAIN R = 1..L, NEW key,
           NEW i0 \in DOMAIN R, key \in DOMAIN R[i0]
    PROVE  \E i \in DOMAIN R : /\ key \in DOMAIN R[i] /\ LastValue(R, key) = R[i][key]
                               /\ \A j \in DOMAIN R : key \in DOMAIN R[j] => j <= i
<1> DEFINE having == {i \in DOMAIN R : key \in DOMAIN R[i]}
           last == CHOOSE i \in having : \A j \in having : j <= i
<1>1. having \in SUBSET Nat /\ having # {} /\ \A k \in having : k <= L
  OBVIOUS
<1>2. LastValue(R, key) = R[last][key]
  BY <1>1 DEF LastValue
<1>3. \E i \in having : \A j \in having : j <= i
  <2> HIDE DEF having
  <2> QED BY <1>1, Greatest
<1>4. last \in having /\ \A j \in having : j <= last
  <2> HIDE DEF having
  <2> QED BY <1>3
<1> HIDE DEF last
<1> QED BY <1>2, <1>4

(* So the last value of a list is a latest one.                            *)
LEMMA LastIsLatest ==
    ASSUME NEW R \in Seq(Entry), NEW U, NEW s, DOMAIN U = DOMAIN R,
           \A j, i \in DOMAIN R :
              j <= i => ~ (R[j].n > R[i].n /\ R[j].event.time >= R[i].event.time)
    PROVE  LET giving == {i \in DOMAIN R : s \in DOMAIN U[i]}
           IN  giving # {} =>
                 \E i \in giving :
                    /\ LastValue(U, s) = U[i][s]
                    /\ \A j \in giving : ~ (R[j].n > R[i].n /\ R[j].event.time >= R[i].event.time)
<1> SUFFICES ASSUME NEW i0 \in DOMAIN R, s \in DOMAIN U[i0]
             PROVE  \E i \in {k \in DOMAIN R : s \in DOMAIN U[k]} :
                        /\ LastValue(U, s) = U[i][s]
                        /\ \A j \in {k \in DOMAIN R : s \in DOMAIN U[k]} :
                              ~ (R[j].n > R[i].n /\ R[j].event.time >= R[i].event.time)
  OBVIOUS
<1>1. DOMAIN U = 1..Len(R) /\ Len(R) \in Nat
  OBVIOUS
<1>2. PICK i \in DOMAIN U : /\ s \in DOMAIN U[i] /\ LastValue(U, s) = U[i][s]
                            /\ \A j \in DOMAIN U : s \in DOMAIN U[j] => j <= i
  BY <1>1, LastIsGreatest
<1> QED BY <1>2

(* In every summary of lists of up to 16 reports each value, of either     *)
(* team, is one that a listed report gives, and no report that gives       *)
(* another is later, for any number of clients and games, whatever comes   *)
(* in between the reads of the table.                                      *)
THEOREM ReportsScoreIsLatest == Spec => []ScoreIsLatest
<1> DEFINE Inv == OInv /\ IInv /\ LogsInOrder /\ LogsSplit /\ CopiesInOrder
<1>1. ASSUME Inv PROVE ScoreIsLatest
  <2> DEFINE R(u) == copy[u].log.before \o copy[u].log.after
             A(u) == [i \in DOMAIN R(u) |-> TeamA(R(u)[i].event)]
             B(u) == [i \in DOMAIN R(u) |-> TeamB(R(u)[i].event)]
  <2>1. ASSUME NEW u \in User, kpc[u] = "print", Short(copy[u].log)
        PROVE  /\ ShowsLatest(TeamA, R(u), [s \in Statistic |-> LastValue(A(u), s)])
               /\ ShowsLatest(TeamB, R(u), [s \in Statistic |-> LastValue(B(u), s)])
    <3>1. PICK g \in Game, w \in User : game[u] = {g} /\ copy[u].user = {w}
      BY <1>1, <2>1 DEF IInv, AimOK, Aim, Summarising
    <3> DEFINE a == copy[u].log.before
               b == copy[u].log.after
    <3>2. a \in Seq(Entry) /\ b \in Seq(Entry) /\ Ordered(a) /\ Ordered(b) /\ Apart(a, b)
      BY <1>1, <2>1, <3>1 DEF CopiesInOrder, CopyInOrder, Summarising
    <3>3. Sorted(a) /\ Sorted(b)
      BY <2>1, <3>2 DEF Short, Ordered
    <3> HIDE DEF a, b
    <3> DEFINE all == a \o b
    <3>4. /\ all \in Seq(Entry)
          /\ \A j, i \in DOMAIN all :
                j <= i => ~ (all[j].n > all[i].n /\ all[j].event.time >= all[i].event.time)
      BY <3>2, <3>3, ListedInOrder
    <3>5. R(u) = all
      BY DEF a, b
    <3> HIDE DEF all
    <3> DEFINE UA == [i \in DOMAIN all |-> TeamA(all[i].event)]
               UB == [i \in DOMAIN all |-> TeamB(all[i].event)]
    <3>6. /\ DOMAIN UA = DOMAIN all /\ \A i \in DOMAIN all : UA[i] = TeamA(all[i].event)
          /\ DOMAIN UB = DOMAIN all /\ \A i \in DOMAIN all : UB[i] = TeamB(all[i].event)
      OBVIOUS
    <3>7. A(u) = UA /\ B(u) = UB
      BY <3>5
    <3> HIDE DEF UA, UB, A, B, R
    <3>8. ShowsLatest(TeamA, all, [s \in Statistic |-> LastValue(UA, s)])
      BY <3>4, <3>6, LastIsLatest DEF ShowsLatest
    <3>9. ShowsLatest(TeamB, all, [s \in Statistic |-> LastValue(UB, s)])
      BY <3>4, <3>6, LastIsLatest DEF ShowsLatest
    <3> QED BY <3>5, <3>7, <3>8, <3>9
  <2>2. ASSUME NEW u \in User
        PROVE  /\ Summary(copy[u].log).reports = R(u)
               /\ Summary(copy[u].log).teamA = [s \in Statistic |-> LastValue(A(u), s)]
               /\ Summary(copy[u].log).teamB = [s \in Statistic |-> LastValue(B(u), s)]
    BY DEF Summary
  <2> HIDE DEF R, A, B
  <2> QED BY <2>1, <2>2 DEF ScoreIsLatest
<1>2. Init => LogsInOrder /\ LogsSplit /\ CopiesInOrder
  BY InitCopies
<1>3. OInv /\ IInv /\ LogsInOrder /\ LogsSplit /\ CopiesInOrder /\ [Next]_vars
        => (LogsInOrder /\ LogsSplit /\ CopiesInOrder)'
  BY StepLogs, StepCopies
<1>4. Spec => []OInv /\ []IInv
  BY ReportsOrderInvariant, ReportsInvariant
<1> QED BY <1>1, <1>2, <1>3, <1>4, PTL DEF Spec

-----------------------------------------------------------------------------
LEMMA CutOne ==
    ASSUME NEW x PROVE Cut(<<x>>) = <<x>>
<1> DEFINE q == <<x>>
           c == SubSeq(q, 1, 1)
<1>1. q \in Seq({x}) /\ Len(q) = 1
  OBVIOUS
<1> HIDE DEF q
<1>2. c \in Seq({x}) /\ Len(c) = 1 /\ c[1] = q[1]
  <2>1. \A i \in 1..1 : q[i] \in {x}
    BY <1>1
  <2> QED BY <1>1, <2>1, SubSeqProperties
<1> HIDE DEF c
<1>3. c = [i \in 1..1 |-> c[i]] /\ q = [i \in 1..1 |-> q[i]]
  BY <1>1, <1>2
<1>4. \A i \in 1..1 : c[i] = q[i]
  BY <1>2
<1>5. c = q
  BY <1>3, <1>4
<1> QED BY <1>5 DEF Cut, c, q

(* One number, one event.  What a client reads from a message is the event *)
(* that was sent, as far as order and flags go.                            *)
LEMMA SameCopy ==
    ASSUME PlainFlags, NEW e \in Original
    PROVE  Same(ParseToEvent(e), e)
<1>1. PICK f \in File : e \in Range(ParseEventsFile(f))
  BY DEF Original
<1>2. PICK i \in DOMAIN f.events : e = ParseEvent(f.events[i])
  BY <1>1 DEF ParseEventsFile, Range
<1> DEFINE d == f.events[i]
           copied == ParseToEvent(e)
<1>3. d \in Range(f.events)
  BY DEF Range
<1>4. /\ e.game_updates = [k \in DOMAIN d.game_updates |-> JsonText(d.game_updates[k])]
      /\ copied.game_updates = CutAll(e.game_updates)
      /\ copied.time = e.time
  BY <1>2, EventTimes DEF ParseEvent, ParseToEvent, Event, JsonTexts
<1>5. ASSUME NEW flag \in {BeforeHalftime, Active}, NEW key \in DOMAIN d.game_updates, Cut(key) = flag
      PROVE  /\ key = flag
             /\ Cut(JsonText(d.game_updates[key])) = <<"false">>
                   => JsonText(d.game_updates[key]) = <<"false">>
  BY <1>3, <1>5 DEF PlainFlags
<1> HIDE DEF d, copied
<1>6. ASSUME NEW flag \in {BeforeHalftime, Active}
      PROVE  Says(copied, flag) <=> Says(e, flag)
  <2> DEFINE keys == DOMAIN e.game_updates
             text(key) == e.game_updates[key]
             read == CHOOSE key \in keys : Cut(key) = flag
  <2>1. Cut(flag) = flag /\ Len(flag) = 1
    BY CutOne DEF BeforeHalftime, Active
  <2>2. /\ keys = DOMAIN d.game_updates
        /\ \A key \in keys : text(key) = JsonText(d.game_updates[key])
    BY <1>4
  <2>3. /\ DOMAIN copied.game_updates = {Cut(key) : key \in keys}
        /\ flag \in {Cut(key) : key \in keys} =>
              copied.game_updates[flag] = ReadValue(read, text(read))
    BY <1>4 DEF CutAll
  <2>4. \A key \in keys : Cut(key) = flag => key = flag /\ (Cut(text(key)) = <<"false">> => text(key) = <<"false">>)
    BY <1>5, <2>2
  <2>5. Cut(<<"false">>) = <<"false">>
    BY CutOne
  <2>6. (\E key \in keys : Cut(key) = flag) => read \in keys /\ Cut(read) = flag
    OBVIOUS
  <2> HIDE DEF read, keys, text
  <2>7. flag \in {Cut(key) : key \in keys} <=> flag \in keys
    BY <2>1, <2>4
  <2>8. flag \in keys => read = flag
    BY <2>1, <2>4, <2>6
  <2>9. flag \in keys => ReadValue(flag, text(flag)) = Cut(text(flag))
    BY <2>1 DEF ReadValue
  <2>10. Says(copied, flag) <=> flag \in keys /\ Cut(text(flag)) = <<"false">>
    BY <2>3, <2>7, <2>8, <2>9 DEF Says
  <2>11. Says(e, flag) <=> flag \in keys /\ text(flag) = <<"false">>
    BY DEF Says, keys, text
  <2> QED BY <2>1, <2>4, <2>5, <2>10, <2>11
<1> QED BY <1>4, <1>6 DEF Same, copied

(* All that is carried was sent.                                           *)
LEMMA CarriedSent ==
    ASSUME OInv, NEW x, Carried(x)
    PROVE  /\ x.by \in User /\ x.game \in Game /\ x.n \in Nat
           /\ x.n <= reported[x.by][x.game]
<1>1. /\ \A w \in User, g \in Game : published[w][g] \subseteq 1..reported[w][g]
      /\ \A w \in User, g \in Game : reported[w][g] \in Nat
  BY DEF OInv, SendOK, Sends, TypesOK
<1>2. PICK v \in User :
        \/ \E r \in Range(toServer[v]) : IsSend(r) /\ x = r[2]
        \/ x \in Range(toClient[v]) \cup hand[v]
        \/ \E w \in User, g \in Game : \E y \in All(Games[v][g][w]) :
              x = [by |-> w, game |-> g, n |-> y.n, event |-> y.event]
        \/ kpc[v] = "store" /\ \E g \in game[v] :
              x = [by |-> v, game |-> g, n |-> reported[v][g], event |-> Head(left[v])]
  BY DEF Carried
<1>3. CASE \E r \in Range(toServer[v]) : IsSend(r) /\ x = r[2]
  <2>1. PICK r \in Range(toServer[v]) : IsSend(r) /\ x = r[2]
    BY <1>3
  <2>2. r \in Request
    BY DEF OInv, TypesOK, Range
  <2>3. x \in SentMessage
    BY <2>1, <2>2, RequestForm DEF IsSend
  <2>4. x.by = v /\ x.n <= reported[v][x.game]
    BY <2>1 DEF OInv, SendOK, Sends, Fresh
  <2> QED BY <2>3, <2>4 DEF SentMessage
<1>4. CASE x \in Range(toClient[v]) \cup hand[v]
  <2>1. x \in SentMessage \/ x \in ParsedMessage
    BY <1>4 DEF OInv, TypesOK, Range
  <2>2. x.by \in User /\ x.game \in Game /\ x.n \in Nat
    BY <2>1 DEF SentMessage, ParsedMessage
  <2>3. x.n \in published[x.by][x.game]
    BY <1>4 DEF OInv, QueueOK, Queued
  <2> QED BY <1>1, <2>2, <2>3
<1>5. CASE \E w \in User, g \in Game : \E y \in All(Games[v][g][w]) :
              x = [by |-> w, game |-> g, n |-> y.n, event |-> y.event]
  <2>1. PICK w \in User, g \in Game : \E y \in All(Games[v][g][w]) :
              x = [by |-> w, game |-> g, n |-> y.n, event |-> y.event]
    BY <1>5
  <2>2. x.by = w /\ x.game = g /\ x.n \in Stored(Games[v][g][w])
    BY <2>1, StoredRange DEF All
  <2>3. x.n \in 1..reported[w][g]
    <3>1. CASE v = w
      BY <2>2, <3>1 DEF OInv, OwnOK, OwnComplete
    <3>2. CASE v # w
      <4>1. Stored(Games[v][g][w]) \subseteq published[w][g]
        BY <3>2 DEF OInv, ArriveOK, Arrives, Complete
      <4> QED BY <1>1, <2>2, <4>1
    <3> QED BY <3>1, <3>2
  <2> QED BY <1>1, <2>2, <2>3
<1>6. CASE kpc[v] = "store" /\ \E g \in game[v] :
              x = [by |-> v, game |-> g, n |-> reported[v][g], event |-> Head(left[v])]
  <2>1. game[v] \subseteq Game
    BY DEF OInv, TypesOK
  <2>2. PICK g \in Game : x = [by |-> v, game |-> g, n |-> reported[v][g], event |-> Head(left[v])]
    BY <1>6, <2>1
  <2>3. x.by = v /\ x.game = g /\ x.n = reported[v][g]
    BY <2>2
  <2> QED BY <1>1, <2>3
<1> QED BY <1>2, <1>3, <1>4, <1>5, <1>6

(* Where a report can be after a step of u's that was not there before.    *)
NewReport(u) ==
    [by |-> u, game |-> The(game[u]), n |-> reported[u][The(game[u])] + 1, event |-> Head(left[u])]

Sent(u, x) ==
    /\ kpc[u] = "send" /\ x = NewReport(u)
    /\ reported' = [reported EXCEPT ![u][The(game[u])] = @ + 1]

LEMMA FramesCarried ==
    ASSUME OInv, NEW u \in User, Steps(u), NEW v \in User,
           NEW r \in Range(toServer'[v]), IsSend(r), r \notin Range(toServer[v])
    PROVE  Sent(u, r[2])
<1>1. v = u
  BY OthersStay DEF OInv, Stays
<1>2. toServer[u] \in Seq(Request) /\ toServer \in [User -> Seq(Request)]
  BY DEF OInv, TypesOK
<1>3. ASSUME NEW frame \in Request, Transmit(u, frame) PROVE r = frame
  <2>1. toServer'[u] \in {toServer[u], Append(toServer[u], frame)}
    BY <1>2, <1>3 DEF Transmit
  <2>2. Range(Append(toServer[u], frame)) = Range(toServer[u]) \cup {frame}
    BY <1>2, RangeAppend
  <2> QED BY <1>1, <2>1, <2>2
<1>4. toServer'[u] # toServer[u]
  BY <1>1
<1>5. CASE \E g \in Game : Join(u, g) \/ Exit(u, g)
  <2>1. PICK g \in Game : Join(u, g) \/ Exit(u, g)
    BY <1>5
  <2>2. Transmit(u, <<"SUBSCRIBE", g>>) \/ Transmit(u, <<"UNSUBSCRIBE">>)
    BY <1>4, <2>1 DEF Join, Exit, SendFails, network
  <2>3. r = <<"SUBSCRIBE", g>> \/ r = <<"UNSUBSCRIBE">>
    BY <1>3, <2>2, RequestForm
  <2>4. ~IsSend(r)
    BY <2>3 DEF IsSend
  <2> QED BY <2>4
<1>6. CASE Send(u)
  <2>1. PICK g \in Game : game[u] = {g} /\ The(game[u]) = g
    BY <1>6, AtPlace DEF Send, KeyboardAt, OInv
  <2>2. left[u] \in Seq(Original) /\ left[u] # <<>> /\ reported[u][g] \in Nat
    BY <1>6 DEF Send, OInv, PlaceOK, Placed, TypesOK
  <2> DEFINE m == ConstructEventFrame(u, Head(left[u]))
  <2>3. m = NewReport(u) /\ m \in SentMessage
    BY <2>1, <2>2 DEF ConstructEventFrame, NewReport, SentMessage
  <2>4. /\ Transmit(u, <<"SEND", m>>)
        /\ reported' = [reported EXCEPT ![u][The(game[u])] = @ + 1]
        /\ kpc[u] = "send"
    BY <1>4, <1>6 DEF Send, SendFails, network
  <2> HIDE DEF m
  <2>5. r = <<"SEND", m>>
    BY <1>3, <2>3, <2>4, RequestForm
  <2> QED BY <2>3, <2>4, <2>5 DEF Sent
<1>7. CASE \E command : Take(u, command)
  <2>1. toServer'[u] = Tail(toServer[u]) /\ toServer[u] # <<>>
    BY <1>2, <1>7, TakeTakes DEF OInv
  <2>2. Range(Tail(toServer[u])) \subseteq Range(toServer[u])
    BY <1>2, <2>1, RangeTail
  <2> QED BY <1>1, <2>1, <2>2
<1>8. CASE Close(u)
  BY <1>1, <1>2, <1>8, RangeEmpty DEF Close
<1>9. \/ UNCHANGED toServer \/ Send(u) \/ Close(u)
      \/ \E command : Take(u, command)
      \/ \E g \in Game : Join(u, g) \/ Exit(u, g)
  <2>1. Type(u) => UNCHANGED toServer \/ \E g \in Game : Join(u, g) \/ Exit(u, g)
    BY DEF Type, Summarise, Report, Login, network
  <2>2. Keyboard(u) => UNCHANGED toServer \/ Send(u)
    BY DEF Keyboard, Reset, Erase, Store, GetUpdatesBefore, GetUpdatesAfter, GetIsDone,
       GetIsBeforeHalftime, Read, WriteSummary, network
  <2>3. Listener(u) \/ Crash(u) => UNCHANGED toServer
    BY DEF Listener, Receive, Add, Notice, Crash, network
  <2>4. Server(u) => Close(u) \/ \E command : Take(u, command)
    BY DEF Server, ServeSubscribe, ServeUnsubscribe, ServeSend, ServeError, HangUp
  <2> QED BY <2>1, <2>2, <2>3, <2>4 DEF Steps
<1> QED BY <1>4, <1>5, <1>6, <1>7, <1>8, <1>9

LEMMA MessagesCarried ==
    ASSUME OInv, NEW u \in User, Steps(u), NEW v \in User, NEW x \in Range(toClient'[v])
    PROVE  Carried(x)
<1>1. \A w \in User : toClient[w] \in Seq(SentMessage)
  BY DEF OInv, TypesOK
<1>2. CASE UNCHANGED toClient
  BY <1>2 DEF Carried
<1>3. CASE ServeSend(u)
  <2>1. PICK m \in SentMessage :
          /\ m = Head(toServer[u])[2]
          /\ \A w \in User :
                toClient'[w] = IF Subscribed(w, m.game) THEN Append(toClient[w], m) ELSE toClient[w]
    BY <1>3, SendTypes DEF OInv
  <2>2. Range(Append(toClient[v], m)) = Range(toClient[v]) \cup {m}
    BY <1>1, RangeAppend
  <2>3. Head(toServer[u]) \in Range(toServer[u]) /\ IsSend(Head(toServer[u]))
    <3>1. toServer[u] \in Seq(Request) /\ toServer[u] # <<>> /\ Head(toServer[u])[1] = "SEND"
      BY <1>3, TakeTakes DEF ServeSend, OInv
    <3> QED BY <3>1, RangeTail DEF IsSend
  <2>4. Carried(m)
    BY <2>1, <2>3 DEF Carried
  <2>5. x \in Range(toClient[v]) \/ x = m
    BY <2>1, <2>2
  <2>6. x \in Range(toClient[v]) => Carried(x)
    BY DEF Carried
  <2> QED BY <2>4, <2>5, <2>6
<1>4. CASE Receive(u) \/ Notice(u)
  <2>1. toClient'[v] \in {toClient[v], Tail(toClient[v]), <<>>}
        /\ (toClient'[v] = Tail(toClient[v]) => toClient[v] # <<>> \/ toClient'[v] = toClient[v])
    BY <1>4 DEF Receive, Notice, OInv, TypesOK
  <2>2. toClient[v] # <<>> => Range(Tail(toClient[v])) \subseteq Range(toClient[v])
    BY <1>1, RangeTail
  <2>3. x \in Range(toClient[v])
    BY <2>1, <2>2, RangeEmpty
  <2> QED BY <2>3 DEF Carried
<1>5. UNCHANGED toClient \/ ServeSend(u) \/ Receive(u) \/ Notice(u)
  BY KindsOfSteps DEF OInv, Aside, Send, Transmit, SendFails, Reset, Erase, Store, Add, Crash,
     ServeSubscribe, ServeUnsubscribe, Close, network
<1> QED BY <1>2, <1>3, <1>4, <1>5

(* A report that is somewhere after a step was somewhere before it, or has *)
(* just been sent.                                                         *)
Was(x) == \E y : Carried(y) /\ Alike(x, y) /\ x.n = y.n /\ Same(x.event, y.event)

LEMMA CarriedWas == \A x : Carried(x) => Was(x)
BY DEF Was, Alike, Same

LEMMA HandsCarried ==
    ASSUME OInv, PlainFlags, NEW u \in User, Steps(u), NEW v \in User, NEW x \in hand'[v]
    PROVE  Was(x)
<1>1. CASE x \in hand[v]
  BY <1>1, CarriedWas DEF Carried
<1>2. CASE x \notin hand[v]
  <2>1. v = u
    BY <1>2, OthersStay DEF OInv, Stays
  <2>2. Receive(u)
    <3>1. hand'[u] = {} \/ UNCHANGED hand \/ Receive(u)
      BY KindsOfSteps DEF OInv, Aside, Send, Reset, Erase, ForgetGame, Store, Add, Notice, Crash,
         ServeSubscribe, ServeUnsubscribe, ServeSend, Close, Take, client, TypesOK
    <3> QED BY <1>2, <2>1, <3>1
  <2> DEFINE m == Head(toClient[u])
  <2>3. hand'[u] = IF m.by = u THEN {} ELSE {[m EXCEPT !.event = ParseToEvent(@)]}
    BY <2>2 DEF Receive, OInv, TypesOK
  <2>4. toClient[u] \in Seq(SentMessage) /\ toClient[u] # <<>>
    BY <2>2 DEF Receive, OInv, TypesOK
  <2>5. m \in SentMessage /\ m \in Range(toClient[u])
    BY <2>4, RangeTail
  <2> HIDE DEF m
  <2>6. x.by = m.by /\ x.game = m.game /\ x.n = m.n /\ x.event = ParseToEvent(m.event)
    BY <2>1, <2>3, <2>5 DEF SentMessage
  <2>7. Same(x.event, m.event)
    BY <2>5, <2>6, SameCopy DEF SentMessage
  <2>8. Carried(m)
    BY <2>5 DEF Carried
  <2> QED BY <2>6, <2>7, <2>8 DEF Was, Alike
<1> QED BY <1>1, <1>2

LEMMA LogsCarried ==
    ASSUME OInv, NEW u \in User, Steps(u), NEW v \in User, NEW w \in User, NEW g \in Game,
           NEW y \in All(Games'[v][g][w])
    PROVE  Carried([by |-> w, game |-> g, n |-> y.n, event |-> y.event])
<1> DEFINE log == Games[v][g][w]
<1>1. \/ Games'[v][g][w] = log \/ Games'[v][g][w] = NoUpdates
      \/ \E entry : Newer(u, g, w, entry) /\ Games'[v][g][w] = AddUpdate(log, entry)
  BY LogSteps
<1>2. log \in Log
  BY DEF OInv, TypesOK
<1>3. \A z \in All(log) : Carried([by |-> w, game |-> g, n |-> z.n, event |-> z.event])
  BY DEF Carried
<1> HIDE DEF log
<1>4. All(NoUpdates) = {}
  BY RangeEmpty DEF All, NoUpdates
<1>5. ASSUME NEW entry, Newer(u, g, w, entry), Games'[v][g][w] = AddUpdate(log, entry)
      PROVE  Carried([by |-> w, game |-> g, n |-> y.n, event |-> y.event])
  <2>1. entry \in Entry /\ Carried([by |-> w, game |-> g, n |-> entry.n, event |-> entry.event])
    BY <1>5 DEF Newer
  <2>2. All(AddUpdate(log, entry)) = All(log) \cup {entry}
    BY <1>2, <2>1, AddParts
  <2> QED BY <1>3, <1>5, <2>1, <2>2
<1> QED BY <1>1, <1>3, <1>4, <1>5

LEMMA StoresCarried ==
    ASSUME OInv, NEW u \in User, Steps(u), NEW v \in User, NEW g \in game'[v], NEW x,
           kpc'[v] = "store",
           x = [by |-> v, game |-> g, n |-> reported'[v][g], event |-> Head(left'[v])]
    PROVE  Was(x) \/ Sent(u, x)
<1>1. CASE kpc[v] = "store" /\ g \in game[v] /\ reported'[v][g] = reported[v][g] /\ left'[v] = left[v]
  <2>1. x = [by |-> v, game |-> g, n |-> reported[v][g], event |-> Head(left[v])]
    BY <1>1
  <2>2. Carried(x)
    BY <1>1, <2>1 DEF Carried
  <2> QED BY <2>2, CarriedWas
<1>2. CASE v # u
  BY <1>1, <1>2, OthersStay DEF OInv, Stays
<1>3. CASE v = u /\ Send(u)
  <2>1. PICK h \in Game : game[u] = {h} /\ The(game[u]) = h
    BY <1>3, AtPlace DEF Send, KeyboardAt, OInv
  <2>2. kpc[u] = "send" /\ UNCHANGED <<game, left>> /\ reported' = [reported EXCEPT ![u][The(game[u])] = @ + 1]
    BY <1>3 DEF Send, KeyboardAt, OInv, TypesOK
  <2>3. g = h /\ reported'[u][h] = reported[u][h] + 1
    BY <1>3, <2>1, <2>2 DEF OInv, TypesOK
  <2>4. x = NewReport(u)
    BY <1>3, <2>1, <2>2, <2>3 DEF NewReport
  <2> QED BY <2>2, <2>4 DEF Sent
<1>4. CASE v = u /\ ~Send(u)
  <2>1. kpc'[u] = "store"
    BY <1>4
  <2>2. ASSUME NEW here, NEW next, KeyboardAt(u, here, next) PROVE kpc'[u] = next
    BY <2>2 DEF KeyboardAt, OInv, TypesOK
  <2>3. UNCHANGED <<kpc, game, left, reported>>
    <3>1. ~Type(u) \/ UNCHANGED <<kpc, game, left, reported>>
      BY <2>1, <2>2 DEF Type, Join, Exit, Summarise, Report, Login, history
    <3>2. ~Keyboard(u)
      BY <1>4, <2>1, <2>2 DEF Keyboard, Reset, Erase, Store, GetUpdatesBefore, GetUpdatesAfter, GetIsDone,
         GetIsBeforeHalftime, Read, WriteSummary
    <3>3. ~Crash(u)
      BY <2>1 DEF Crash, OInv, TypesOK
    <3>4. Listener(u) \/ Server(u) => UNCHANGED <<kpc, game, left, reported>>
      BY DEF Listener, Receive, Add, Notice, Server, ServeSubscribe, ServeUnsubscribe, ServeSend,
         ServeError, HangUp, Close, Take, keyboard, history
    <3> QED BY <3>1, <3>2, <3>3, <3>4 DEF Steps
  <2> QED BY <1>1, <1>4, <2>1, <2>3
<1> QED BY <1>2, <1>3, <1>4

LEMMA StepCarried ==
    ASSUME OInv, PlainFlags, NEW u \in User, Steps(u), NEW x, Carried(x)'
    PROVE  Was(x) \/ Sent(u, x)
<1>1. PICK v \in User :
        \/ \E r \in Range(toServer'[v]) : IsSend(r) /\ x = r[2]
        \/ x \in Range(toClient'[v]) \cup hand'[v]
        \/ \E w \in User, g \in Game : \E y \in All(Games'[v][g][w]) :
              x = [by |-> w, game |-> g, n |-> y.n, event |-> y.event]
        \/ kpc'[v] = "store" /\ \E g \in game'[v] :
              x = [by |-> v, game |-> g, n |-> reported'[v][g], event |-> Head(left'[v])]
  BY DEF Carried
<1>2. CASE \E r \in Range(toServer'[v]) : IsSend(r) /\ x = r[2]
  <2>1. PICK r \in Range(toServer'[v]) : IsSend(r) /\ x = r[2]
    BY <1>2
  <2>2. CASE r \in Range(toServer[v])
    BY <2>1, <2>2, CarriedWas DEF Carried
  <2>3. CASE r \notin Range(toServer[v])
    BY <2>1, <2>3, FramesCarried
  <2> QED BY <2>2, <2>3
<1>3. CASE x \in Range(toClient'[v]) \cup hand'[v]
  BY <1>3, MessagesCarried, HandsCarried, CarriedWas
<1>4. CASE \E w \in User, g \in Game : \E y \in All(Games'[v][g][w]) :
              x = [by |-> w, game |-> g, n |-> y.n, event |-> y.event]
  BY <1>4, LogsCarried, CarriedWas
<1>5. CASE kpc'[v] = "store" /\ \E g \in game'[v] :
              x = [by |-> v, game |-> g, n |-> reported'[v][g], event |-> Head(left'[v])]
  BY <1>5, StoresCarried
<1> QED BY <1>1, <1>2, <1>3, <1>4, <1>5

LEMMA StepOneEvent ==
    ASSUME OInv, PlainFlags, OneEvent, [Next]_vars
    PROVE  OneEvent'
<1>1. CASE UNCHANGED vars
  <2>1. \A x : Carried(x)' => Carried(x)
    BY <1>1 DEF Carried, vars, keyboard, client, server, network, history
  <2> QED BY <2>1 DEF OneEvent
<1>2. ASSUME NEW u \in User, Steps(u), NEW x, NEW y, Carried(x)', Carried(y)', Alike(x, y), x.n = y.n
      PROVE  Same(x.event, y.event)
  <2>1. (Was(x) \/ Sent(u, x)) /\ (Was(y) \/ Sent(u, y))
    BY <1>2, StepCarried
  <2>2. ASSUME NEW a, NEW b, Was(a), Sent(u, b), Alike(a, b), a.n = b.n PROVE FALSE
    <3>1. PICK g \in Game : game[u] = {g} /\ The(game[u]) = g
      BY <2>2, AtPlace DEF Sent, OInv
    <3>2. b.by = u /\ b.game = g /\ b.n = reported[u][g] + 1
      BY <2>2, <3>1 DEF Sent, NewReport
    <3>3. PICK c : Carried(c) /\ c.by = u /\ c.game = g /\ c.n = reported[u][g] + 1
      BY <2>2, <3>2 DEF Was, Alike
    <3>4. c.n <= reported[u][g] /\ reported[u][g] \in Nat
      BY <3>3, CarriedSent DEF OInv, TypesOK
    <3> QED BY <3>3, <3>4
  <2>3. CASE Was(x) /\ Was(y)
    <3>1. PICK a : Carried(a) /\ Alike(x, a) /\ x.n = a.n /\ Same(x.event, a.event)
      BY <2>3 DEF Was
    <3>2. PICK b : Carried(b) /\ Alike(y, b) /\ y.n = b.n /\ Same(y.event, b.event)
      BY <2>3 DEF Was
    <3>3. Alike(a, b) /\ a.n = b.n
      BY <1>2, <3>1, <3>2 DEF Alike
    <3>4. Same(a.event, b.event)
      BY <3>1, <3>2, <3>3 DEF OneEvent
    <3> QED BY <3>1, <3>2, <3>4 DEF Same
  <2>4. CASE Sent(u, x) /\ Sent(u, y)
    BY <2>4 DEF Sent, Same
  <2>5. Alike(y, x)
    BY <1>2 DEF Alike
  <2> QED BY <1>2, <2>1, <2>2, <2>3, <2>4, <2>5
<1> QED BY <1>1, <1>2 DEF Next, Steps, OneEvent

LEMMA InitOneEvent == Init => OneEvent
<1> SUFFICES ASSUME Init, NEW x, Carried(x) PROVE FALSE
  BY DEF OneEvent
<1>1. \A v \in User : toServer[v] = <<>> /\ toClient[v] = <<>> /\ hand[v] = {} /\ kpc[v] = "prompt"
  BY DEF Init
<1>2. \A v, w \in User, g \in Game : Games[v][g][w] = NoUpdates
  BY DEF Init, NoLogs
<1>3. All(NoUpdates) = {}
  BY RangeEmpty DEF All, NoUpdates
<1> QED BY <1>1, <1>2, <1>3, RangeEmpty DEF Carried

-----------------------------------------------------------------------------
(* Two ordered lists of the same reports are the same list.                *)
SameReports(a, b) ==
    /\ a \in Seq(Entry) /\ b \in Seq(Entry) /\ Sorted(a) /\ Sorted(b)
    /\ \A x \in Range(a) : \E y \in Range(b) : x.n = y.n
    /\ \A y \in Range(b) : \E x \in Range(a) : x.n = y.n
    /\ \A x \in Range(a), y \in Range(b) : x.n = y.n => x.event.time = y.event.time

LEMMA SameSoFar ==
    ASSUME NEW a, NEW b, SameReports(a, b), NEW k \in DOMAIN a,
           \A i \in DOMAIN a : i < k => i \in DOMAIN b /\ a[i].n = b[i].n
    PROVE  k \in DOMAIN b /\ a[k].n = b[k].n
<1> SUFFICES ASSUME ~(k \in DOMAIN b /\ a[k].n = b[k].n) PROVE FALSE
  OBVIOUS
<1>1. /\ DOMAIN a = 1..Len(a) /\ Len(a) \in Nat /\ DOMAIN b = 1..Len(b) /\ Len(b) \in Nat
  BY DEF SameReports
<1>2. /\ \A i \in DOMAIN a : a[i].n \in Nat /\ a[i].event.time \in Int /\ a[i] \in Range(a)
      /\ \A i \in DOMAIN b : b[i].n \in Nat /\ b[i].event.time \in Int /\ b[i] \in Range(b)
  <2>1. \A x \in Entry : x.n \in Nat /\ x.event.time \in Int
    BY EventTimes DEF Entry
  <2>2. \A i \in DOMAIN a : a[i] \in Entry
    BY DEF SameReports
  <2>3. \A i \in DOMAIN b : b[i] \in Entry
    BY DEF SameReports
  <2> QED BY <2>1, <2>2, <2>3 DEF Range
<1> DEFINE Before(x, y) == /\ x.event.time <= y.event.time
                           /\ x.event.time = y.event.time => x.n < y.n
<1>3. /\ \A i, j \in DOMAIN a : i < j => Before(a[i], a[j])
      /\ \A i, j \in DOMAIN b : i < j => Before(b[i], b[j])
  BY DEF SameReports, Sorted
<1>4. /\ \A i, j \in DOMAIN a : i < j => a[i].n # a[j].n
      /\ \A i, j \in DOMAIN b : i < j => b[i].n # b[j].n
  <2>1. ASSUME NEW x, NEW y, x.n \in Nat, y.n \in Nat, Before(x, y),
               x.n = y.n => x.event.time = y.event.time
        PROVE  x.n # y.n
    BY <2>1
  <2>2. /\ \A i, j \in DOMAIN a : a[i].n = a[j].n => a[i].event.time = a[j].event.time
        /\ \A i, j \in DOMAIN b : b[i].n = b[j].n => b[i].event.time = b[j].event.time
    <3>1. \A i \in DOMAIN a : \E y \in Range(b) : y.n = a[i].n /\ a[i].event.time = y.event.time
      BY <1>2 DEF SameReports
    <3>2. \A i \in DOMAIN b : \E x \in Range(a) : x.n = b[i].n /\ b[i].event.time = x.event.time
      BY <1>2 DEF SameReports
    <3> QED BY <1>2, <3>1, <3>2 DEF SameReports
  <2> HIDE DEF Before
  <2> QED BY <1>2, <1>3, <2>1, <2>2
<1>5. PICK j \in DOMAIN b : b[j].n = a[k].n /\ b[j].event.time = a[k].event.time
  <2>1. PICK y \in Range(b) : y.n = a[k].n
    BY <1>2 DEF SameReports
  <2>2. a[k].event.time = y.event.time
    BY <1>2, <2>1 DEF SameReports
  <2> QED BY <2>1, <2>2 DEF Range
<1>6. j > k /\ k \in DOMAIN b
  <2>1. j # k
    BY <1>5
  <2>2. ~ (j < k)
    <3> SUFFICES ASSUME j < k PROVE FALSE
      OBVIOUS
    <3>1. j \in DOMAIN a
      BY <1>1
    <3>2. a[j].n = b[j].n
      BY <3>1
    <3> QED BY <1>4, <1>5, <3>1, <3>2
  <2> QED BY <1>1, <2>1, <2>2
<1>7. PICK i \in DOMAIN a : a[i].n = b[k].n /\ a[i].event.time = b[k].event.time
  <2>1. PICK x \in Range(a) : x.n = b[k].n
    BY <1>2, <1>6 DEF SameReports
  <2>2. x.event.time = b[k].event.time
    BY <1>2, <1>6, <2>1 DEF SameReports
  <2> QED BY <2>1, <2>2 DEF Range
<1>8. i > k
  <2>1. i # k
    BY <1>6, <1>7
  <2>2. ~ (i < k)
    <3> SUFFICES ASSUME i < k PROVE FALSE
      OBVIOUS
    <3>1. i \in DOMAIN b /\ a[i].n = b[i].n
      OBVIOUS
    <3>2. b[i].n # b[k].n
      BY <1>4, <1>6, <3>1
    <3> QED BY <1>7, <3>1, <3>2
  <2> QED BY <1>1, <2>1, <2>2
<1>9. Before(a[k], a[i]) /\ Before(b[k], b[j])
  BY <1>3, <1>6, <1>8
<1>10. Before(a[k], b[k]) /\ Before(b[k], a[k])
  BY <1>5, <1>7, <1>9
<1>11. /\ a[k].n \in Nat /\ a[k].event.time \in Int
       /\ b[k].n \in Nat /\ b[k].event.time \in Int
  BY <1>2, <1>6
<1> QED BY <1>10, <1>11

LEMMA SameToTheEnd ==
    ASSUME NEW a, NEW b, SameReports(a, b)
    PROVE  \A k \in DOMAIN a : k \in DOMAIN b /\ a[k].n = b[k].n
<1> DEFINE other == {k \in DOMAIN a : ~(k \in DOMAIN b /\ a[k].n = b[k].n)}
<1> SUFFICES ASSUME other # {} PROVE FALSE
  OBVIOUS
<1>1. DOMAIN a = 1..Len(a) /\ Len(a) \in Nat
  BY DEF SameReports
<1>2. other \in SUBSET Nat
  BY <1>1
<1>3. PICK k \in other : \A l \in other : k <= l
  <2> HIDE DEF other
  <2> QED BY <1>2, Least
<1>4. \A i \in DOMAIN a : i < k => i \in DOMAIN b /\ a[i].n = b[i].n
  BY <1>1, <1>3
<1>5. k \in DOMAIN b /\ a[k].n = b[k].n
  BY <1>3, <1>4, SameSoFar
<1> QED BY <1>3, <1>5

LEMMA SortedSame ==
    ASSUME NEW a, NEW b, SameReports(a, b)
    PROVE  Numbers(a) = Numbers(b)
<1>1. SameReports(b, a)
  BY DEF SameReports
<1>2. \A k \in DOMAIN a : k \in DOMAIN b /\ a[k].n = b[k].n
  BY SameToTheEnd
<1>3. \A k \in DOMAIN b : k \in DOMAIN a
  BY <1>1, SameToTheEnd
<1>4. DOMAIN a = DOMAIN b
  BY <1>2, <1>3
<1> QED BY <1>2, <1>4 DEF Numbers

(* Logs with the same reports are split at the same report.                *)
LEMMA SameLogs ==
    ASSUME NEW a \in Log, NEW b \in Log, InOrder(a), InOrder(b), SplitAtHalf(a), SplitAtHalf(b),
           Stored(a) = Stored(b),
           \A x \in All(a), y \in All(b) : x.n = y.n => Same(x.event, y.event)
    PROVE  /\ Short(a) /\ Short(b) => /\ Numbers(a.before) = Numbers(b.before)
                                     /\ Numbers(a.after) = Numbers(b.after)
           /\ Range(Numbers(a.before)) = Range(Numbers(b.before))
           /\ Range(Numbers(a.after)) = Range(Numbers(b.after))
           /\ a.half = b.half /\ a.done = b.done
<1>1. /\ \A x \in All(a) : \E y \in All(b) : x.n = y.n
      /\ \A y \in All(b) : \E x \in All(a) : x.n = y.n
  <2>1. /\ \A n : n \in Stored(a) <=> \E x \in All(a) : x.n = n
        /\ \A n : n \in Stored(b) <=> \E x \in All(b) : x.n = n
    BY StoredRange DEF All
  <2>2. /\ \A x \in All(a) : x.n \in Stored(b)
        /\ \A y \in All(b) : y.n \in Stored(a)
    BY <2>1
  <2> QED BY <2>1, <2>2
<1>2. \A x \in All(a), y \in All(b) :
         x.n = y.n => /\ x.event.time = y.event.time
                      /\ HalfTime(x) <=> HalfTime(y)
                      /\ Over(x) <=> Over(y)
  BY DEF Same, HalfTime, Over
<1>3. /\ a.before \in Seq(Entry) /\ a.after \in Seq(Entry) /\ a.half \in BOOLEAN /\ a.done \in BOOLEAN
      /\ b.before \in Seq(Entry) /\ b.after \in Seq(Entry) /\ b.half \in BOOLEAN /\ b.done \in BOOLEAN
  BY DEF Log
<1>4. a.half = b.half /\ a.done = b.done
  BY <1>1, <1>2, <1>3 DEF SplitAtHalf
<1>5. \A x \in All(a) \cup All(b) : x.n \in Nat
  <2>1. All(a) \subseteq Entry /\ All(b) \subseteq Entry
    BY <1>3 DEF All, Range
  <2> QED BY <2>1 DEF Entry
<1>6. ASSUME NEW c, NEW d, SplitAtHalf(c), SplitAtHalf(d),
             \A x \in All(c) \cup All(d) : x.n \in Nat,
             \A x \in All(c) : \E y \in All(d) : x.n = y.n,
             \A y \in All(d) : \E x \in All(c) : x.n = y.n,
             \A x \in All(c), y \in All(d) : x.n = y.n => (HalfTime(x) <=> HalfTime(y))
      PROVE  /\ \A x \in Range(c.before) : \E y \in Range(d.before) : x.n = y.n
             /\ \A x \in Range(c.after) : \E y \in Range(d.after) : x.n = y.n
  <2>1. ASSUME NEW x \in Range(c.before) PROVE \E y \in Range(d.before) : x.n = y.n
    <3>1. PICK y \in All(d) : x.n = y.n
      BY <1>6 DEF All
    <3>2. CASE y \in Range(d.after)
      <4>1. PICK h \in All(d) : HalfTime(h) /\ h.n <= y.n
        BY <1>6, <3>2 DEF SplitAtHalf
      <4>2. PICK i \in All(c) : i.n = h.n /\ HalfTime(i)
        BY <1>6, <4>1
      <4>3. x.n < i.n
        BY <1>6, <4>2 DEF SplitAtHalf
      <4>4. x \in All(c)
        BY DEF All
      <4> QED BY <1>6, <3>1, <4>1, <4>2, <4>3, <4>4
    <3> QED BY <3>1, <3>2 DEF All
  <2>2. ASSUME NEW x \in Range(c.after) PROVE \E y \in Range(d.after) : x.n = y.n
    <3>1. PICK y \in All(d) : x.n = y.n
      BY <1>6 DEF All
    <3>2. CASE y \in Range(d.before)
      <4>1. PICK h \in All(c) : HalfTime(h) /\ h.n <= x.n
        BY <1>6 DEF SplitAtHalf
      <4>2. PICK i \in All(d) : i.n = h.n /\ HalfTime(i)
        BY <1>6, <4>1
      <4>3. y.n < i.n
        BY <1>6, <3>2, <4>2 DEF SplitAtHalf
      <4>4. x \in All(c)
        BY DEF All
      <4> QED BY <1>6, <3>1, <4>1, <4>2, <4>3, <4>4
    <3> QED BY <3>1, <3>2 DEF All
  <2> QED BY <2>1, <2>2
<1>7. /\ \A x \in Range(a.before) : \E y \in Range(b.before) : x.n = y.n
      /\ \A x \in Range(a.after) : \E y \in Range(b.after) : x.n = y.n
      /\ \A y \in Range(b.before) : \E x \in Range(a.before) : x.n = y.n
      /\ \A y \in Range(b.after) : \E x \in Range(a.after) : x.n = y.n
  <2>1. /\ \A x \in Range(a.before) : \E y \in Range(b.before) : x.n = y.n
        /\ \A x \in Range(a.after) : \E y \in Range(b.after) : x.n = y.n
    BY <1>1, <1>2, <1>5, <1>6, SMTT(30)
  <2>2. /\ \A x \in Range(b.before) : \E y \in Range(a.before) : x.n = y.n
        /\ \A x \in Range(b.after) : \E y \in Range(a.after) : x.n = y.n
    BY <1>1, <1>2, <1>5, <1>6
  <2>3. \A x, y : x.n = y.n <=> y.n = x.n
    OBVIOUS
  <2> QED BY <2>1, <2>2, <2>3
<1>8. ASSUME Short(a), Short(b)
      PROVE  SameReports(a.before, b.before) /\ SameReports(a.after, b.after)
  <2>1. Sorted(a.before) /\ Sorted(b.before) /\ Sorted(a.after) /\ Sorted(b.after)
    BY <1>8 DEF Short, InOrder, Ordered
  <2> QED BY <1>2, <1>3, <1>7, <2>1 DEF SameReports, All
<1>9. /\ Range(Numbers(a.before)) = Range(Numbers(b.before))
      /\ Range(Numbers(a.after)) = Range(Numbers(b.after))
  <2>1. ASSUME NEW list, NEW n PROVE n \in Range(Numbers(list)) <=> \E x \in Range(list) : x.n = n
    BY DEF Numbers, Range
  <2>2. /\ \A n : n \in Range(Numbers(a.before)) <=> n \in Range(Numbers(b.before))
        /\ \A n : n \in Range(Numbers(a.after)) <=> n \in Range(Numbers(b.after))
    BY <1>7, <2>1
  <2> QED BY <2>2
<1> QED BY <1>4, <1>8, <1>9, SortedSame

(* Clients that have the same reports split them at the same report, agree *)
(* whether half-time and the end were reported, and list them in the same  *)
(* order as long as a list has up to 16: for any number of clients, games  *)
(* and files in which half-time and the end read as they do in a message.  *)
THEOREM ReportsAgreement ==
    ASSUME PlainFlags
    PROVE  Spec => []Agreement
<1>1. ASSUME OInv, LogsInOrder, LogsSplit, OneEvent PROVE Agreement
  <2> SUFFICES ASSUME NEW u \in User, NEW v \in User, NEW w \in User, NEW g \in Game,
                      Stored(Games[u][g][w]) = Stored(Games[v][g][w])
               PROVE  LET a == Games[u][g][w]
                          b == Games[v][g][w]
                      IN  /\ Short(a) /\ Short(b) => /\ Numbers(a.before) = Numbers(b.before)
                                                    /\ Numbers(a.after) = Numbers(b.after)
                          /\ Range(Numbers(a.before)) = Range(Numbers(b.before))
                          /\ Range(Numbers(a.after)) = Range(Numbers(b.after))
                          /\ a.half = b.half /\ a.done = b.done
    BY DEF Agreement
  <2>1. ASSUME NEW x \in All(Games[u][g][w]), NEW y \in All(Games[v][g][w]), x.n = y.n
        PROVE  Same(x.event, y.event)
    <3> DEFINE a == [by |-> w, game |-> g, n |-> x.n, event |-> x.event]
               b == [by |-> w, game |-> g, n |-> y.n, event |-> y.event]
    <3>1. Carried(a) /\ Carried(b)
      BY DEF Carried
    <3>2. Alike(a, b) /\ a.n = b.n /\ a.event = x.event /\ b.event = y.event
      BY <2>1 DEF Alike
    <3> HIDE DEF a, b
    <3> QED BY <1>1, <3>1, <3>2 DEF OneEvent
  <2>2. Games[u][g][w] \in Log /\ Games[v][g][w] \in Log
    BY <1>1 DEF OInv, TypesOK
  <2>3. /\ InOrder(Games[u][g][w]) /\ InOrder(Games[v][g][w])
        /\ SplitAtHalf(Games[u][g][w]) /\ SplitAtHalf(Games[v][g][w])
    BY <1>1 DEF LogsInOrder, LogsSplit
  <2> QED BY <2>1, <2>2, <2>3, SameLogs
<1>2. Init => LogsInOrder /\ LogsSplit /\ OneEvent
  BY InitCopies, InitOneEvent
<1>3. OInv /\ IInv /\ LogsInOrder /\ LogsSplit /\ OneEvent /\ [Next]_vars
        => (LogsInOrder /\ LogsSplit /\ OneEvent)'
  BY StepLogs, StepOneEvent
<1>4. Spec => []OInv /\ []IInv
  BY ReportsOrderInvariant, ReportsInvariant
<1> QED BY <1>1, <1>2, <1>3, <1>4, PTL DEF Spec
=============================================================================
