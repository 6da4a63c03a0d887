--------------------------- MODULE ReportsProofs ---------------------------
(***************************************************************************)
(* That a summary does not contradict itself, although its four reads of   *)
(* the table run between the steps of the listener that adds to it.        *)
(*                                                                         *)
(* The lists are read before the flags, and a flag, once set, stays set    *)
(* until the keyboard thread itself, which is busy with the summary,       *)
(* empties the game: what a copied list says is known to the flags by the  *)
(* time these are read.                                                    *)
(***************************************************************************)
EXTENDS Reports, FiniteSetTheorems, TLAPS

IsSequence(list) == list \in Seq(Range(list))

(* What an entry's event says is known to the flags half and done.         *)
Known(entry, half, done) ==
    /\ Says(entry.event, BeforeHalftime) => half
    /\ Says(entry.event, Active) => done

AllKnown(list, half, done) ==
    IsSequence(list) /\ \A i \in DOMAIN list : Known(list[i], half, done)

(* What the table holds of one game and one reporter.                      *)
LogOK(log) ==
    /\ log.half \in BOOLEAN /\ log.done \in BOOLEAN
    /\ AllKnown(log.before, log.half, log.done)
    /\ AllKnown(log.after, log.half, log.done)
    /\ ~log.half => log.after = <<>>

(* What a summary that is at a statement has copied of a log: it is known  *)
(* to the flags of the log, or to their copies once these are made.        *)
CopyOK(copied, here, log) ==
    LET half == IF here = "print" THEN copied.half ELSE log.half
        done == IF here \in {"getHalf", "print"} THEN copied.done ELSE log.done
    IN  /\ here \in {"getAfter", "getDone", "getHalf", "print"} =>
              AllKnown(copied.before, half, done)
        /\ here \in {"getDone", "getHalf", "print"} =>
              /\ AllKnown(copied.after, half, done)
              /\ ~half => copied.after = <<>>

Summarising == {"getBefore", "getAfter", "getDone", "getHalf", "print"}

TableOK ==
    /\ Games = [u \in User |-> Games[u]]
    /\ \A u \in User : /\ Games[u] = [g \in Game |-> Games[u][g]]
                       /\ \A g \in Game : Games[u][g] = [w \in User |-> Games[u][g][w]]
    /\ \A u, w \in User, g \in Game : LogOK(Games[u][g][w])

(* Whose log a summary reads.                                              *)
Aim(u) ==
    kpc[u] \in Summarising =>
        \E g \in Game, w \in User :
            /\ game[u] = {g} /\ copy[u].user = {w}
            /\ CopyOK(copy[u].log, kpc[u], Games[u][g][w])

AimOK == \A u \in User : Aim(u)

ShapeOK ==
    /\ kpc = [u \in User |-> kpc[u]]
    /\ game = [u \in User |-> game[u]]
    /\ copy = [u \in User |-> copy[u]]
    /\ \A u \in User : /\ DOMAIN copy[u] = {"user", "log"}
                       /\ DOMAIN copy[u].log = {"before", "after", "half", "done"}

IInv == TableOK /\ AimOK /\ ShapeOK

-----------------------------------------------------------------------------
(* An update of a part of a function, one or two levels down.              *)
LEMMA Update2 ==
    ASSUME NEW f, NEW a \in DOMAIN f, NEW b, NEW x, NEW new, new = [f EXCEPT ![a][b] = x]
    PROVE  /\ new[a] = [f[a] EXCEPT ![b] = x]
           /\ DOMAIN new = DOMAIN f
           /\ \A c \in DOMAIN f \ {a} : new[c] = f[c]
           /\ new = [c \in DOMAIN f |-> new[c]]
OBVIOUS

LEMMA Update3 ==
    ASSUME NEW f, NEW a \in DOMAIN f, NEW b, NEW c, NEW x, NEW new,
           new = [f EXCEPT ![a][b][c] = x]
    PROVE  /\ new[a] = [f[a] EXCEPT ![b][c] = x]
           /\ DOMAIN new = DOMAIN f
           /\ \A d \in DOMAIN f \ {a} : new[d] = f[d]
           /\ new = [d \in DOMAIN f |-> new[d]]
OBVIOUS

LEMMA UpdateLog ==
    ASSUME NEW f, NEW a \in DOMAIN f, NEW part, NEW x, NEW new,
           new = [f EXCEPT ![a].log[part] = x]
    PROVE  /\ new[a] = [f[a] EXCEPT !.log[part] = x]
           /\ \A d \in DOMAIN f \ {a} : new[d] = f[d]
           /\ new = [d \in DOMAIN f |-> new[d]]
OBVIOUS

LEMMA EmptyKnown == \A half, done : AllKnown(<<>>, half, done)
<1>1. Range(<<>>) = {}
  BY DEF Range
<1>2. <<>> \in Seq({})
  OBVIOUS
<1> QED BY <1>1, <1>2 DEF AllKnown, IsSequence

(* A list stays known to flags that are only switched on.                  *)
LEMMA KnownGrows ==
    ASSUME NEW list, NEW half, NEW done, NEW half1, NEW done1,
           AllKnown(list, half, done), half => half1, done => done1
    PROVE  AllKnown(list, half1, done1)
BY DEF AllKnown, Known

(* Where an entry is placed: behind all that are not later in the game.    *)
LEMMA PlaceEntry ==
    ASSUME NEW S, NEW list \in Seq(S), NEW entry \in S
    PROVE  \E k \in 0..Len(list) :
              /\ Place(list, entry) \in Seq(S)
              /\ Len(Place(list, entry)) = Len(list) + 1
              /\ \A i \in 1..k : Place(list, entry)[i] = list[i]
              /\ Place(list, entry)[k + 1] = entry
              /\ \A i \in k + 1..Len(list) : Place(list, entry)[i + 1] = list[i]
              /\ k = Cardinality({i \in 1..Len(list) : list[i].event.time <= entry.event.time})
<1> DEFINE D == {i \in DOMAIN list : list[i].event.time <= entry.event.time}
           p == Cardinality(D)
<1>1. Len(list) \in Nat /\ DOMAIN list = 1..Len(list)
  OBVIOUS
<1>2. p \in 0..Len(list)
  <2>1. IsFiniteSet(1..Len(list)) /\ Cardinality(1..Len(list)) = Len(list)
    BY <1>1, FS_Interval
  <2>2. D \subseteq 1..Len(list)
    BY <1>1
  <2> HIDE DEF D
  <2>3. IsFiniteSet(D) /\ Cardinality(D) <= Len(list) /\ Cardinality(D) \in Nat
    BY <2>1, <2>2, FS_Subset, FS_CardinalityType
  <2> QED BY <1>1, <2>3
<1>3. Place(list, entry) = SubSeq(list, 1, p) \o <<entry>> \o SubSeq(list, p + 1, Len(list))
  BY DEF Place
<1>4. p = Cardinality({i \in 1..Len(list) : list[i].event.time <= entry.event.time})
  BY <1>1
<1> HIDE DEF D, p
<1> DEFINE a == SubSeq(list, 1, p)
           b == SubSeq(list, p + 1, Len(list))
<1>5. a \in Seq(S) /\ Len(a) = p /\ \A i \in 1..p : a[i] = list[i]
  BY <1>2
<1>6. b \in Seq(S) /\ Len(b) = Len(list) - p /\ \A i \in 1..Len(list) - p : b[i] = list[p + i]
  BY <1>2
<1>7. Place(list, entry) = (a \o <<entry>>) \o b
  BY <1>3
<1> HIDE DEF a, b
<1> DEFINE c == a \o <<entry>>
<1>8. c \in Seq(S) /\ Len(c) = p + 1 /\ c[p + 1] = entry /\ \A i \in 1..p : c[i] = a[i]
  BY <1>2, <1>5
<1>9. Place(list, entry) = c \o b
  BY <1>7
<1> HIDE DEF c
<1>10. /\ c \o b \in Seq(S) /\ Len(c \o b) = Len(c) + Len(b)
       /\ \A i \in 1..Len(c) : (c \o b)[i] = c[i]
       /\ \A i \in 1..Len(b) : (c \o b)[Len(c) + i] = b[i]
  BY <1>6, <1>8, SMTT(30)
<1>11. ASSUME NEW i \in p + 1..Len(list) PROVE (c \o b)[i + 1] = list[i]
  <2>a. ASSUME NEW L \in Nat, NEW q \in 0..L, NEW j \in q + 1..L
        PROVE  j - q \in 1..L - q /\ (q + 1) + (j - q) = j + 1 /\ q + (j - q) = j
    OBVIOUS
  <2>1. i - p \in 1..Len(b) /\ (p + 1) + (i - p) = i + 1 /\ p + (i - p) = i
    BY <1>1, <1>2, <1>6, <2>a
  <2>2. (c \o b)[(p + 1) + (i - p)] = b[i - p]
    BY <1>8, <1>10, <2>1
  <2>3. b[i - p] = list[p + (i - p)]
    BY <1>6, <2>1
  <2> QED BY <2>1, <2>2, <2>3
<1>12. Len(c \o b) = Len(list) + 1
  BY <1>1, <1>2, <1>6, <1>8, <1>10
<1>13. p + 1 \in 1..Len(c) /\ \A i \in 1..p : i \in 1..Len(c)
  BY <1>2, <1>8
<1>14. (c \o b)[p + 1] = entry /\ \A i \in 1..p : (c \o b)[i] = list[i]
  BY <1>5, <1>8, <1>10, <1>13
<1> DEFINE new == c \o b
<1>15. /\ new \in Seq(S) /\ Len(new) = Len(list) + 1 /\ new[p + 1] = entry
       /\ \A i \in 1..p : new[i] = list[i]
       /\ \A i \in p + 1..Len(list) : new[i + 1] = list[i]
  BY <1>10, <1>11, <1>12, <1>14
<1>16. Place(list, entry) = new
  BY <1>9
<1> HIDE DEF new
<1>17. /\ Place(list, entry) \in Seq(S)
       /\ Len(Place(list, entry)) = Len(list) + 1
       /\ \A i \in 1..p : Place(list, entry)[i] = list[i]
       /\ Place(list, entry)[p + 1] = entry
       /\ \A i \in p + 1..Len(list) : Place(list, entry)[i + 1] = list[i]
  BY <1>15, <1>16
<1> QED BY <1>2, <1>4, <1>17

LEMMA RangeAppend ==
    ASSUME NEW S, NEW q \in Seq(S), NEW x \in S
    PROVE  Append(q, x) \in Seq(S) /\ Range(Append(q, x)) = Range(q) \cup {x}
<1>1. /\ Append(q, x) \in Seq(S) /\ DOMAIN q = 1..Len(q) /\ Len(q) \in Nat
      /\ DOMAIN Append(q, x) = 1..Len(q) + 1
      /\ Append(q, x)[Len(q) + 1] = x /\ \A i \in 1..Len(q) : Append(q, x)[i] = q[i]
  OBVIOUS
<1>2. Range(Append(q, x)) \subseteq Range(q) \cup {x}
  BY <1>1 DEF Range
<1>3. x \in Range(Append(q, x))
  <2>1. Len(q) + 1 \in 1..Len(q) + 1
    BY <1>1
  <2> QED BY <1>1, <2>1 DEF Range
<1>4. ASSUME NEW i \in 1..Len(q) PROVE q[i] \in Range(Append(q, x))
  <2>1. i \in 1..Len(q) + 1
    BY <1>1
  <2> QED BY <1>1, <2>1 DEF Range
<1> QED BY <1>1, <1>2, <1>3, <1>4 DEF Range

(* A placed entry joins those of the list.                                 *)
LEMMA PlaceJoins ==
    ASSUME NEW S, NEW list \in Seq(S), NEW entry \in S
    PROVE  Range(Place(list, entry)) = Range(list) \cup {entry}
<1>0. \E k \in 0..Len(list) :
              /\ Place(list, entry) \in Seq(S)
              /\ Len(Place(list, entry)) = Len(list) + 1
              /\ \A i \in 1..k : Place(list, entry)[i] = list[i]
              /\ Place(list, entry)[k + 1] = entry
              /\ \A i \in k + 1..Len(list) : Place(list, entry)[i + 1] = list[i]
              /\ k = Cardinality({i \in 1..Len(list) : list[i].event.time <= entry.event.time})
  BY PlaceEntry, Zenon
<1> DEFINE new == Place(list, entry)
<1>1. PICK p \in 0..Len(list) :
        /\ new \in Seq(S) /\ Len(new) = Len(list) + 1
        /\ \A i \in 1..p : new[i] = list[i]
        /\ new[p + 1] = entry
        /\ \A i \in p + 1..Len(list) : new[i + 1] = list[i]
  BY <1>0
<1> HIDE DEF new
<1>2. Len(list) \in Nat /\ DOMAIN list = 1..Len(list) /\ DOMAIN new = 1..Len(list) + 1
  BY <1>1
<1>3. ASSUME NEW i \in DOMAIN new PROVE new[i] \in Range(list) \cup {entry}
  <2>1. CASE i \in 1..p
    BY <1>1, <1>2, <2>1 DEF Range
  <2>2. CASE i = p + 1
    BY <1>1, <2>2
  <2>3. CASE i > p + 1
    <3>1. i - 1 \in p + 1..Len(list) /\ (i - 1) + 1 = i
      BY <1>1, <1>2, <2>3
    <3>2. new[i] = list[i - 1] /\ i - 1 \in DOMAIN list
      BY <1>1, <1>2, <3>1
    <3> QED BY <3>2 DEF Range
  <2> QED BY <1>1, <1>2, <2>1, <2>2, <2>3
<1>4. ASSUME NEW i \in DOMAIN list PROVE list[i] \in Range(new)
  <2>1. CASE i <= p
    <3>1. i \in 1..p /\ i \in DOMAIN new
      BY <1>1, <1>2, <2>1
    <3> QED BY <1>1, <3>1 DEF Range
  <2>2. CASE i > p
    <3>1. i \in p + 1..Len(list) /\ i + 1 \in DOMAIN new
      BY <1>1, <1>2, <2>2
    <3> QED BY <1>1, <3>1 DEF Range
  <2> QED BY <1>1, <1>2, <2>1, <2>2
<1>5. entry \in Range(new)
  <2>1. p + 1 \in DOMAIN new
    BY <1>1, <1>2
  <2> QED BY <1>1, <2>1 DEF Range
<1>6. Range(new) = Range(list) \cup {entry}
  BY <1>3, <1>4, <1>5 DEF Range
<1> QED BY <1>6 DEF new

(* There is an order with the times of the placed list: its own.  So what  *)
(* std::sort does to a longer list is an exchange of elements.             *)
LEMMA SortOrderIs ==
    ASSUME NEW S, NEW list \in Seq(S), NEW entry \in S
    PROVE  LET D == 1..Len(list) + 1
               p == SortOrder(Append(list, entry), Place(list, entry))
           IN  p \in [D -> D] /\ \A j \in D : \E i \in D : p[i] = j
<1>0. \E k \in 0..Len(list) :
              /\ Place(list, entry) \in Seq(S)
              /\ Len(Place(list, entry)) = Len(list) + 1
              /\ \A i \in 1..k : Place(list, entry)[i] = list[i]
              /\ Place(list, entry)[k + 1] = entry
              /\ \A i \in k + 1..Len(list) : Place(list, entry)[i + 1] = list[i]
              /\ k = Cardinality({i \in 1..Len(list) : list[i].event.time <= entry.event.time})
  BY PlaceEntry, Zenon
<1> DEFINE all == Append(list, entry)
           new == Place(list, entry)
           n == Len(list) + 1
           D == 1..n
<1>1. PICK k \in 0..Len(list) :
        /\ \A i \in 1..k : new[i] = list[i]
        /\ new[k + 1] = entry
        /\ \A i \in k + 1..Len(list) : new[i + 1] = list[i]
  BY <1>0
<1>2. /\ Len(list) \in Nat /\ n \in Nat /\ DOMAIN all = D /\ all[n] = entry
      /\ \A i \in 1..Len(list) : all[i] = list[i]
  OBVIOUS
<1> DEFINE q == [i \in D |-> IF i <= k THEN i ELSE IF i = k + 1 THEN n ELSE i - 1]
<1> HIDE DEF all, new
<1>3. q \in [D -> D]
  BY <1>1, <1>2
<1>4. ASSUME NEW i \in D PROVE all[q[i]] = new[i]
  <2>1. CASE i <= k
    <3>1. i \in 1..k /\ i \in 1..Len(list) /\ q[i] = i
      BY <1>1, <1>2, <2>1
    <3> QED BY <1>1, <1>2, <3>1
  <2>2. CASE i = k + 1
    <3>1. q[i] = n
      BY <1>1, <1>2, <2>2
    <3> QED BY <1>1, <1>2, <2>2, <3>1
  <2>3. CASE i > k + 1
    <3>1. i - 1 \in k + 1..Len(list) /\ (i - 1) + 1 = i /\ q[i] = i - 1 /\ i - 1 \in 1..Len(list)
      BY <1>1, <1>2, <2>3
    <3>2. new[(i - 1) + 1] = list[i - 1]
      BY <1>1, <3>1
    <3> QED BY <1>2, <3>1, <3>2
  <2> QED BY <1>1, <1>2, <2>1, <2>2, <2>3
<1>5. ASSUME NEW j \in D PROVE \E i \in D : q[i] = j
  <2>1. CASE j <= k
    <3>1. q[j] = j
      BY <1>1, <1>2, <2>1
    <3> QED BY <3>1
  <2>2. CASE j = n
    <3>1. k + 1 \in D /\ q[k + 1] = n
      BY <1>1, <1>2
    <3> QED BY <2>2, <3>1
  <2>3. CASE j > k /\ j # n
    <3>1. j + 1 \in D /\ q[j + 1] = j
      BY <1>1, <1>2, <2>3
    <3> QED BY <3>1
  <2> QED BY <1>1, <1>2, <2>1, <2>2, <2>3
<1>6. ASSUME NEW i \in D, NEW j \in D, q[i] = q[j] PROVE i = j
  BY <1>1, <1>2, <1>6
<1> HIDE DEF q
<1>7. q \in Bijection(D, D)
  BY <1>3, <1>5, <1>6 DEF Bijection, Injection, IsInjective, Surjection
<1> DEFINE good(p) == \A i \in D : all[p[i]].event.time = new[i].event.time
<1>8. good(q)
  BY <1>4
<1> DEFINE p == SortOrder(all, new)
<1>9. p = CHOOSE x \in Bijection(D, D) : good(x)
  BY <1>2 DEF SortOrder
<1>10. p \in Bijection(D, D)
  <2> HIDE DEF good, p
  <2> QED BY <1>7, <1>8, <1>9
<1> HIDE DEF p
<1>11. p \in [D -> D] /\ \A j \in D : \E i \in D : p[i] = j
  BY <1>10 DEF Bijection, Injection, Surjection
<1> QED BY <1>11 DEF p, all, new

(* Inserting adds the entry to those of the list and nothing else, and as  *)
(* long as the list is short in its place.                                 *)
LEMMA InsertArranges ==
    ASSUME NEW S, NEW list \in Seq(S), NEW entry \in S
    PROVE  /\ Insert(list, entry) \in Seq(S)
           /\ Len(Insert(list, entry)) = Len(list) + 1
           /\ Range(Insert(list, entry)) = Range(list) \cup {entry}
           /\ Len(list) + 1 <= InsertionSorted => Insert(list, entry) = Place(list, entry)
<1> DEFINE all == Append(list, entry)
           p == SortOrder(all, Place(list, entry))
           n == Len(list) + 1
           new == [i \in 1..n |-> all[p[i]]]
<1>1. n \in Nat /\ Len(all) = n /\ DOMAIN all = 1..n /\ all \in Seq(S)
  OBVIOUS
<1>2. Insert(list, entry) = IF n <= InsertionSorted THEN Place(list, entry) ELSE new
  BY <1>1 DEF Insert
<1>3. /\ Place(list, entry) \in Seq(S) /\ Len(Place(list, entry)) = n
      /\ Range(Place(list, entry)) = Range(list) \cup {entry}
  <2>1. \E k \in 0..Len(list) :
              /\ Place(list, entry) \in Seq(S)
              /\ Len(Place(list, entry)) = Len(list) + 1
              /\ \A i \in 1..k : Place(list, entry)[i] = list[i]
              /\ Place(list, entry)[k + 1] = entry
              /\ \A i \in k + 1..Len(list) : Place(list, entry)[i + 1] = list[i]
              /\ k = Cardinality({i \in 1..Len(list) : list[i].event.time <= entry.event.time})
    BY PlaceEntry, Zenon
  <2>2. Range(Place(list, entry)) = Range(list) \cup {entry}
    BY PlaceJoins
  <2> QED BY <2>1, <2>2
<1>4. p \in [1..n -> 1..n] /\ \A j \in 1..n : \E i \in 1..n : p[i] = j
  BY SortOrderIs
<1>5. Range(all) = Range(list) \cup {entry}
  BY RangeAppend
<1> HIDE DEF all, p, n
<1>6. /\ \A i \in 1..n : all[i] \in S
      /\ new \in [1..n -> S]
  <2>1. \A i \in 1..n : all[i] \in S
    BY <1>1
  <2> QED BY <1>4, <2>1
<1>7. new \in Seq(S) /\ Len(new) = n /\ DOMAIN new = 1..n
  <2>1. DOMAIN new = 1..n
    OBVIOUS
  <2>2. new \in Seq(S)
    BY <1>1, <1>6
  <2> HIDE DEF new
  <2> QED BY <1>1, <2>1, <2>2
<1>8. Range(new) = Range(all)
  <2>1. \A i \in 1..n : new[i] = all[p[i]]
    OBVIOUS
  <2> HIDE DEF new
  <2>2. \A i \in 1..n : new[i] \in Range(all)
    BY <1>1, <1>4, <2>1 DEF Range
  <2>3. ASSUME NEW j \in 1..n PROVE all[j] \in Range(new)
    <3>1. PICK i \in 1..n : p[i] = j
      BY <1>4
    <3> QED BY <1>7, <2>1, <3>1 DEF Range
  <2> QED BY <1>1, <1>7, <2>2, <2>3 DEF Range
<1> HIDE DEF new
<1>9. CASE n <= InsertionSorted
  BY <1>2, <1>3, <1>9 DEF n
<1>10. CASE ~(n <= InsertionSorted)
  BY <1>2, <1>5, <1>7, <1>8, <1>10 DEF n
<1> QED BY <1>9, <1>10

LEMMA InsertKeeps ==
    ASSUME NEW list, IsSequence(list), NEW entry
    PROVE  /\ IsSequence(Insert(list, entry))
           /\ \A i \in DOMAIN Insert(list, entry) :
                 Insert(list, entry)[i] \in Range(list) \cup {entry}
<1> DEFINE S == Range(list) \cup {entry}
           new == Insert(list, entry)
<1>1. list \in Seq(S)
  <2>1. list \in Seq(Range(list)) /\ Len(list) \in Nat /\ DOMAIN list = 1..Len(list)
    BY DEF IsSequence
  <2>2. \A i \in 1..Len(list) : list[i] \in S
    BY <2>1 DEF Range
  <2> HIDE DEF S
  <2> QED BY <2>1, <2>2
<1>2. new \in Seq(S) /\ Range(new) = S
  <2>1. entry \in S
    OBVIOUS
  <2> QED BY <1>1, <2>1, InsertArranges
<1> HIDE DEF new, S
<1>3. \A i \in DOMAIN new : new[i] \in S
  BY <1>2
<1> QED BY <1>2, <1>3 DEF IsSequence, S, new

LEMMA InsertKnown ==
    ASSUME NEW list, NEW entry, NEW half, NEW done,
           AllKnown(list, half, done), Known(entry, half, done)
    PROVE  AllKnown(Insert(list, entry), half, done)
<1>1. IsSequence(list) /\ \A x \in Range(list) : Known(x, half, done)
  BY DEF AllKnown, Range
<1>2. /\ IsSequence(Insert(list, entry))
      /\ \A i \in DOMAIN Insert(list, entry) :
            Insert(list, entry)[i] \in Range(list) \cup {entry}
  BY <1>1, InsertKeeps
<1> QED BY <1>1, <1>2 DEF AllKnown

LEMMA AddUpdateKeeps ==
    ASSUME NEW log, LogOK(log), NEW entry
    PROVE  /\ LogOK(AddUpdate(log, entry))
           /\ log.half => AddUpdate(log, entry).half
           /\ log.done => AddUpdate(log, entry).done
<1> DEFINE half == log.half \/ Says(entry.event, BeforeHalftime)
           done == log.done \/ Says(entry.event, Active)
<1>1. AddUpdate(log, entry) =
         [before |-> IF half THEN log.before ELSE Insert(log.before, entry),
          after  |-> IF half THEN Insert(log.after, entry) ELSE log.after,
          half   |-> half, done |-> done]
  BY DEF AddUpdate
<1>2. Known(entry, half, done)
  BY DEF Known
<1>3. AllKnown(log.before, half, done) /\ AllKnown(log.after, half, done)
  BY KnownGrows DEF LogOK
<1>4. half \in BOOLEAN /\ done \in BOOLEAN /\ (log.half => half) /\ (log.done => done)
      /\ (~half => log.after = <<>>)
  BY DEF LogOK
<1> HIDE DEF half, done
<1>5. AllKnown(Insert(log.before, entry), half, done) /\ AllKnown(Insert(log.after, entry), half, done)
  BY <1>2, <1>3, InsertKnown
<1> QED BY <1>1, <1>3, <1>4, <1>5 DEF LogOK

LEMMA EmptyLog == LogOK(NoUpdates)
BY EmptyKnown DEF LogOK, NoUpdates

(* What was copied stays right while flags of the log are switched on.     *)
LEMMA CopyKeeps ==
    ASSUME NEW copied, NEW here, NEW log, NEW new, CopyOK(copied, here, log),
           log.half => new.half, log.done => new.done
    PROVE  CopyOK(copied, here, new)
<1> DEFINE half(l) == IF here = "print" THEN copied.half ELSE l.half
           done(l) == IF here \in {"getHalf", "print"} THEN copied.done ELSE l.done
<1>1. (half(log) => half(new)) /\ (done(log) => done(new))
  OBVIOUS
<1>2. \A list : AllKnown(list, half(log), done(log)) => AllKnown(list, half(new), done(new))
  BY <1>1, KnownGrows
<1>3. CopyOK(copied, here, log) <=>
        /\ here \in {"getAfter", "getDone", "getHalf", "print"} =>
              AllKnown(copied.before, half(log), done(log))
        /\ here \in {"getDone", "getHalf", "print"} =>
              /\ AllKnown(copied.after, half(log), done(log))
              /\ ~half(log) => copied.after = <<>>
  BY DEF CopyOK
<1>4. CopyOK(copied, here, new) <=>
        /\ here \in {"getAfter", "getDone", "getHalf", "print"} =>
              AllKnown(copied.before, half(new), done(new))
        /\ here \in {"getDone", "getHalf", "print"} =>
              /\ AllKnown(copied.after, half(new), done(new))
              /\ ~half(new) => copied.after = <<>>
  BY DEF CopyOK
<1> HIDE DEF half, done
<1> QED BY <1>1, <1>2, <1>3, <1>4

-----------------------------------------------------------------------------
LEMMA InitIInv == Init => IInv
<1> SUFFICES ASSUME Init PROVE IInv
  OBVIOUS
<1>1. TableOK
  BY EmptyLog DEF Init, TableOK, NoLogs
<1>2. AimOK
  BY DEF Init, AimOK, Aim, Summarising
<1>3. ShapeOK
  BY DEF Init, ShapeOK, NoCopy, NoUpdates
<1> QED BY <1>1, <1>2, <1>3 DEF IInv

(* The flags that user v's client has are not switched off.                *)
Grows(v) ==
    \A g \in Game, w \in User :
        /\ Games[v][g][w].half => Games'[v][g][w].half
        /\ Games[v][g][w].done => Games'[v][g][w].done

Undisturbed(v) ==
    /\ kpc'[v] = kpc[v] /\ game'[v] = game[v] /\ copy'[v] = copy[v]
    /\ Grows(v)

LEMMA AimStays ==
    ASSUME NEW v \in User, Aim(v), Undisturbed(v)
    PROVE  Aim(v)'
<1> SUFFICES ASSUME kpc[v] \in Summarising PROVE Aim(v)'
  BY DEF Undisturbed, Aim
<1>1. PICK g \in Game, w \in User :
        /\ game[v] = {g} /\ copy[v].user = {w}
        /\ CopyOK(copy[v].log, kpc[v], Games[v][g][w])
  BY DEF Aim
<1>2. CopyOK(copy[v].log, kpc[v], Games'[v][g][w])
  BY <1>1, CopyKeeps DEF Undisturbed, Grows
<1> QED BY <1>1, <1>2 DEF Aim, Undisturbed

(* The two ways in which the table changes.                                *)
LEMMA AddToKeeps ==
    ASSUME TableOK, NEW u \in User, NEW g, NEW w, NEW n, NEW e, AddTo(u, g, w, n, e)
    PROVE  TableOK' /\ \A v \in User : Grows(v)
<1> DEFINE entry == [n |-> n, event |-> e]
<1>1. Games' = [Games EXCEPT ![u][g][w] = AddUpdate(Games[u][g][w], entry)]
  BY DEF AddTo
<1> HIDE DEF entry
<1>a. /\ DOMAIN Games = User
      /\ \A v \in User : DOMAIN Games[v] = Game
      /\ \A v \in User, h \in Game : DOMAIN Games[v][h] = User
  BY DEF TableOK
<1>b. /\ Games'[u] = [Games[u] EXCEPT ![g][w] = AddUpdate(Games[u][g][w], entry)]
      /\ \A v \in User \ {u} : Games'[v] = Games[v]
      /\ Games' = [v \in User |-> Games'[v]]
  BY <1>1, <1>a, Update3
<1>c. /\ DOMAIN Games'[u] = Game
      /\ Games'[u] = [h \in Game |-> Games'[u][h]]
      /\ \A h \in Game \ {g} : Games'[u][h] = Games[u][h]
  BY <1>a, <1>b
<1>d. g \in Game => Games'[u][g] = [Games[u][g] EXCEPT ![w] = AddUpdate(Games[u][g][w], entry)]
  BY <1>a, <1>b, Update2
<1>2. ASSUME NEW v \in User, NEW h \in Game, NEW x \in User
      PROVE  Games'[v][h][x] \in {Games[v][h][x], AddUpdate(Games[v][h][x], entry)}
  <2>1. CASE v # u \/ h # g
    BY <1>b, <1>c, <2>1
  <2>2. CASE v = u /\ h = g
    BY <1>a, <1>d, <2>2
  <2> QED BY <2>1, <2>2
<1>3. ASSUME NEW v \in User, NEW h \in Game, NEW x \in User
      PROVE  /\ LogOK(Games'[v][h][x])
             /\ Games[v][h][x].half => Games'[v][h][x].half
             /\ Games[v][h][x].done => Games'[v][h][x].done
  <2>1. LogOK(Games[v][h][x])
    BY DEF TableOK
  <2> QED BY <1>2, <2>1, AddUpdateKeeps
<1>4. Games' = [v \in User |-> Games'[v]]
  BY <1>b
<1>5. \A v \in User : Games'[v] = [h \in Game |-> Games'[v][h]]
  BY <1>b, <1>c DEF TableOK
<1>6. ASSUME NEW v \in User, NEW h \in Game
      PROVE  Games'[v][h] = [x \in User |-> Games'[v][h][x]]
  <2>1. Games[v][h] = [x \in User |-> Games[v][h][x]]
    BY DEF TableOK
  <2>2. CASE v # u \/ h # g
    BY <1>b, <1>c, <2>1, <2>2
  <2>3. CASE v = u /\ h = g
    BY <1>d, <2>1, <2>3
  <2> QED BY <2>2, <2>3
<1> QED BY <1>3, <1>4, <1>5, <1>6 DEF TableOK, Grows

LEMMA ForgetKeeps ==
    ASSUME TableOK, NEW u \in User, ForgetGame(u)
    PROVE  TableOK' /\ \A v \in User \ {u} : Grows(v)
<1> DEFINE empty == [w \in User |-> NoUpdates]
<1>1. Games' = [Games EXCEPT ![u][The(game[u])] = empty]
  BY DEF ForgetGame
<1>2. ASSUME NEW v \in User, NEW h \in Game
      PROVE  Games'[v][h] = IF v = u /\ h = The(game[u]) THEN empty ELSE Games[v][h]
  BY <1>1 DEF TableOK
<1>3. ASSUME NEW v \in User, NEW h \in Game, NEW x \in User
      PROVE  LogOK(Games'[v][h][x])
  BY <1>2, EmptyLog DEF TableOK
<1>4. Games' = [v \in User |-> Games'[v]] /\ \A v \in User : Games'[v] = [h \in Game |-> Games'[v][h]]
  BY <1>1 DEF TableOK
<1>5. ASSUME NEW v \in User, NEW h \in Game
      PROVE  Games'[v][h] = [x \in User |-> Games'[v][h][x]]
  <2>1. Games[v][h] = [y \in User |-> Games[v][h][y]]
    BY DEF TableOK
  <2> QED BY <1>2, <2>1
<1>6. \A v \in User \ {u}, h \in Game : Games'[v][h] = Games[v][h]
  BY <1>2
<1> QED BY <1>3, <1>4, <1>5, <1>6 DEF TableOK, Grows

(* A step of u's client that is not one of a summary.                      *)
LEMMA StepKeeps ==
    ASSUME IInv, NEW u \in User, NEW next,
           kpc' = [kpc EXCEPT ![u] = next], next \notin Summarising,
           UNCHANGED copy, game' = [v \in User |-> game'[v]],
           \A v \in User \ {u} : game'[v] = game[v],
           TableOK', \A v \in User \ {u} : Grows(v)
    PROVE  IInv'
<1>1. ShapeOK'
  BY DEF IInv, ShapeOK
<1>2. ASSUME NEW v \in User \ {u} PROVE Aim(v)'
  <2>1. Undisturbed(v)
    BY DEF Undisturbed, IInv, ShapeOK
  <2> QED BY <2>1, AimStays DEF IInv, AimOK
<1>3. Aim(u)'
  BY DEF Aim, IInv, ShapeOK
<1> QED BY <1>1, <1>2, <1>3 DEF IInv, AimOK

LEMMA TableStays ==
    ASSUME TableOK, UNCHANGED Games
    PROVE  TableOK' /\ \A v \in User : Grows(v)
BY DEF TableOK, Grows

(* A step that leaves the keyboard threads where they are.                 *)
LEMMA OthersKeep ==
    ASSUME IInv, UNCHANGED <<kpc, game, copy>>, TableOK', \A v \in User : Grows(v)
    PROVE  IInv'
<1>1. ASSUME NEW v \in User PROVE Aim(v)'
  <2>1. Undisturbed(v)
    BY DEF Undisturbed
  <2> QED BY <2>1, AimStays DEF IInv, AimOK
<1> QED BY <1>1 DEF IInv, AimOK, ShapeOK

(* A step of a summary.                                                    *)
LEMMA ReadKeeps ==
    ASSUME IInv, NEW u \in User, UNCHANGED Games,
           \A v \in User \ {u} : kpc'[v] = kpc[v] /\ game'[v] = game[v] /\ copy'[v] = copy[v],
           Aim(u)', ShapeOK'
    PROVE  IInv'
<1>1. TableOK' /\ \A v \in User : Grows(v)
  BY TableStays DEF IInv
<1>2. ASSUME NEW v \in User \ {u} PROVE Aim(v)'
  <2>1. Undisturbed(v)
    BY <1>1 DEF Undisturbed
  <2> QED BY <2>1, AimStays DEF IInv, AimOK
<1> QED BY <1>1, <1>2 DEF IInv, AimOK

LEMMA ReadsKeep ==
    ASSUME IInv, NEW u \in User,
           \/ GetUpdatesBefore(u) \/ GetUpdatesAfter(u) \/ GetIsDone(u) \/ GetIsBeforeHalftime(u)
    PROVE  IInv'
<1> DEFINE part == CASE kpc[u] = "getBefore" -> "before" [] kpc[u] = "getAfter" -> "after"
                     [] kpc[u] = "getDone" -> "done" [] kpc[u] = "getHalf" -> "half"
           next == CASE kpc[u] = "getBefore" -> "getAfter" [] kpc[u] = "getAfter" -> "getDone"
                     [] kpc[u] = "getDone" -> "getHalf" [] kpc[u] = "getHalf" -> "print"
<1>1. Read(u, kpc[u], next, part) /\ kpc[u] \in {"getBefore", "getAfter", "getDone", "getHalf"}
  BY DEF GetUpdatesBefore, GetUpdatesAfter, GetIsDone, GetIsBeforeHalftime, Read, KeyboardAt
<1>2. PICK g \in Game, w \in User :
        /\ game[u] = {g} /\ copy[u].user = {w}
        /\ CopyOK(copy[u].log, kpc[u], Games[u][g][w])
  BY <1>1 DEF IInv, AimOK, Aim, Summarising
<1>3. The(game[u]) = g /\ The(copy[u].user) = w
  BY <1>2 DEF The
<1>4. /\ kpc' = [kpc EXCEPT ![u] = next]
      /\ copy' = [copy EXCEPT ![u].log[part] = Games[u][g][w][part]]
      /\ UNCHANGED <<game, Games>>
  BY <1>1, <1>3 DEF Read, KeyboardAt, client
<1>5. /\ kpc'[u] = next /\ copy'[u].user = copy[u].user
      /\ copy'[u].log = [copy[u].log EXCEPT ![part] = Games[u][g][w][part]]
  BY <1>4 DEF IInv, ShapeOK
<1>6. ShapeOK'
  <2>1. DOMAIN copy = User
    BY DEF IInv, ShapeOK
  <2> HIDE DEF part, next
  <2>2. /\ copy'[u] = [copy[u] EXCEPT !.log[part] = Games[u][g][w][part]]
        /\ \A v \in User \ {u} : copy'[v] = copy[v]
        /\ copy' = [v \in User |-> copy'[v]]
    BY <1>4, <2>1, UpdateLog
  <2>3. DOMAIN copy'[u] = DOMAIN copy[u] /\ DOMAIN copy'[u].log = DOMAIN copy[u].log
    BY <1>5, <2>2
  <2>4. kpc' = [v \in User |-> kpc'[v]]
    BY <1>4 DEF IInv, ShapeOK
  <2>5. game' = [v \in User |-> game'[v]]
    BY <1>4 DEF IInv, ShapeOK
  <2> QED BY <2>2, <2>3, <2>4, <2>5 DEF IInv, ShapeOK
<1>7. DOMAIN copy[u].log = {"before", "after", "half", "done"}
  BY DEF IInv, ShapeOK
<1>8. LogOK(Games[u][g][w])
  BY DEF IInv, TableOK
<1>9. CopyOK(copy'[u].log, next, Games[u][g][w])
  <2>1. CASE kpc[u] = "getBefore"
    BY <1>2, <1>5, <1>7, <1>8, <2>1 DEF CopyOK, LogOK
  <2>2. CASE kpc[u] = "getAfter"
    BY <1>2, <1>5, <1>7, <1>8, <2>2 DEF CopyOK, LogOK
  <2>3. CASE kpc[u] = "getDone"
    BY <1>2, <1>5, <1>7, <1>8, <2>3 DEF CopyOK, LogOK
  <2>4. CASE kpc[u] = "getHalf"
    BY <1>2, <1>5, <1>7, <1>8, <2>4 DEF CopyOK, LogOK
  <2> QED BY <1>1, <2>1, <2>2, <2>3, <2>4
<1>10. Aim(u)'
  BY <1>2, <1>4, <1>5, <1>9 DEF Aim
<1>11. \A v \in User \ {u} : kpc'[v] = kpc[v] /\ game'[v] = game[v] /\ copy'[v] = copy[v]
  BY <1>4 DEF IInv, ShapeOK
<1> QED BY <1>4, <1>6, <1>10, <1>11, ReadKeeps

LEMMA SummaryKeeps ==
    ASSUME IInv, NEW u \in User, NEW g \in Game, NEW w \in User,
           Summarise(u, g, w)
    PROVE  IInv'
<1>1. /\ kpc' = [kpc EXCEPT ![u] = "getBefore"]
      /\ game' = [game EXCEPT ![u] = {g}]
      /\ copy' = [copy EXCEPT ![u].user = {w}]
      /\ UNCHANGED Games
  BY DEF Summarise, KeyboardAt, client
<1>2. kpc'[u] = "getBefore" /\ game'[u] = {g} /\ copy'[u].user = {w}
  BY <1>1 DEF IInv, ShapeOK
<1>3. Aim(u)'
  BY <1>2 DEF Aim, CopyOK
<1>4. ShapeOK'
  BY <1>1 DEF IInv, ShapeOK
<1>5. \A v \in User \ {u} : kpc'[v] = kpc[v] /\ game'[v] = game[v] /\ copy'[v] = copy[v]
  BY <1>1 DEF IInv, ShapeOK
<1> QED BY <1>1, <1>3, <1>4, <1>5, ReadKeeps

LEMMA WriteKeeps ==
    ASSUME IInv, NEW u \in User, WriteSummary(u)
    PROVE  IInv'
<1>1. /\ kpc' = [kpc EXCEPT ![u] = "prompt"]
      /\ game' = [game EXCEPT ![u] = {}]
      /\ copy' = [copy EXCEPT ![u] = NoCopy]
      /\ UNCHANGED Games
  BY DEF WriteSummary, KeyboardAt, client
<1>2. Aim(u)'
  BY <1>1 DEF Aim, IInv, ShapeOK, Summarising
<1>3. ShapeOK'
  BY <1>1 DEF IInv, ShapeOK, NoCopy, NoUpdates
<1>4. \A v \in User \ {u} : kpc'[v] = kpc[v] /\ game'[v] = game[v] /\ copy'[v] = copy[v]
  BY <1>1 DEF IInv, ShapeOK
<1> QED BY <1>1, <1>2, <1>3, <1>4, ReadKeeps

(* The other steps of the keyboard thread.                                 *)
LEMMA CommandKeeps ==
    ASSUME IInv, NEW u \in User,
           \/ \E g \in Game : Join(u, g) \/ Exit(u, g)
           \/ \E f \in File : Report(u, f)
           \/ Send(u)
    PROVE  IInv'
<1>1. UNCHANGED <<Games, copy>>
  BY DEF Join, Exit, Report, Send, client
<1>2. TableOK' /\ \A v \in User : Grows(v)
  BY <1>1, TableStays DEF IInv
<1>3. PICK next : next \notin Summarising /\ kpc' = [kpc EXCEPT ![u] = next]
  <2>1. \E next \in {"prompt", "reset", "erase", "send", "store"} : kpc' = [kpc EXCEPT ![u] = next]
    BY DEF Join, Exit, Report, Send, KeyboardAt
  <2> QED BY <2>1 DEF Summarising
<1>4. game' = [v \in User |-> game'[v]] /\ \A v \in User \ {u} : game'[v] = game[v]
  <2>1. \/ UNCHANGED game
        \/ \E h : game' = [game EXCEPT ![u] = h]
    BY DEF Join, Exit, Report, Send
  <2> QED BY <2>1 DEF IInv, ShapeOK
<1> QED BY <1>1, <1>2, <1>3, <1>4, StepKeeps

LEMMA EmptyingKeeps ==
    ASSUME IInv, NEW u \in User, Reset(u) \/ Erase(u)
    PROVE  IInv'
<1>1. /\ kpc' = [kpc EXCEPT ![u] = "prompt"]
      /\ game' = [game EXCEPT ![u] = {}]
      /\ UNCHANGED copy /\ ForgetGame(u)
  BY DEF Reset, Erase, KeyboardAt
<1>2. TableOK' /\ \A v \in User \ {u} : Grows(v)
  BY <1>1, ForgetKeeps DEF IInv
<1>3. game' = [v \in User |-> game'[v]] /\ \A v \in User \ {u} : game'[v] = game[v]
  BY <1>1 DEF IInv, ShapeOK
<1>4. "prompt" \notin Summarising
  BY DEF Summarising
<1> QED BY <1>1, <1>2, <1>3, <1>4, StepKeeps

LEMMA StoreKeeps ==
    ASSUME IInv, NEW u \in User, Store(u)
    PROVE  IInv'
<1> DEFINE next == IF Len(left[u]) = 1 THEN "prompt" ELSE "send"
           g == The(game[u])
<1>1. /\ kpc' = [kpc EXCEPT ![u] = next]
      /\ game' = [game EXCEPT ![u] = IF Len(left[u]) = 1 THEN {} ELSE @]
      /\ UNCHANGED copy
      /\ AddTo(u, g, u, reported[u][g], Head(left[u]))
  BY DEF Store, KeyboardAt
<1>2. next \notin Summarising
  BY DEF Summarising
<1> HIDE DEF next
<1>3. TableOK' /\ \A v \in User : Grows(v)
  BY <1>1, AddToKeeps DEF IInv
<1>4. game' = [v \in User |-> game'[v]] /\ \A v \in User \ {u} : game'[v] = game[v]
  BY <1>1 DEF IInv, ShapeOK
<1> QED BY <1>1, <1>2, <1>3, <1>4, StepKeeps

LEMMA CrashKeeps ==
    ASSUME IInv, NEW u \in User, Crash(u)
    PROVE  IInv'
<1>1. kpc' = [kpc EXCEPT ![u] = "crashed"] /\ UNCHANGED <<game, copy, Games>>
  BY DEF Crash
<1>2. TableOK' /\ \A v \in User : Grows(v)
  BY <1>1, TableStays DEF IInv
<1>3. "crashed" \notin Summarising
  BY DEF Summarising
<1>4. game' = [v \in User |-> game'[v]] /\ \A v \in User \ {u} : game'[v] = game[v]
  BY <1>1 DEF IInv, ShapeOK
<1> QED BY <1>1, <1>2, <1>3, <1>4, StepKeeps

(* The listener adds an event.                                             *)
LEMMA AddKeeps ==
    ASSUME IInv, NEW u \in User, Add(u)
    PROVE  IInv'
<1>1. PICK m \in hand[u] : AddTo(u, m.game, m.by, m.n, m.event)
  BY DEF Add
<1>2. TableOK' /\ \A v \in User : Grows(v)
  BY <1>1, AddToKeeps DEF IInv
<1>3. UNCHANGED <<kpc, game, copy>>
  BY DEF Add, keyboard
<1> QED BY <1>2, <1>3, OthersKeep

LEMMA QuietKeeps ==
    ASSUME IInv, UNCHANGED <<kpc, game, copy, Games>>
    PROVE  IInv'
<1>1. TableOK' /\ \A v \in User : Grows(v)
  BY TableStays DEF IInv
<1> QED BY <1>1, OthersKeep

LEMMA NextKeepsIInv == IInv /\ [Next]_vars => IInv'
<1> SUFFICES ASSUME IInv, [Next]_vars PROVE IInv'
  OBVIOUS
<1>1. ASSUME NEW u \in User, Login(u) \/ Receive(u) \/ Notice(u) \/ Server(u) PROVE IInv'
  <2>1. UNCHANGED <<kpc, game, copy, Games>>
    BY <1>1 DEF Login, Receive, Notice, Server, ServeSubscribe, ServeUnsubscribe, ServeSend,
       ServeError, HangUp, Close, Take, keyboard, client
  <2> QED BY <2>1, QuietKeeps
<1>2. ASSUME NEW u \in User, Type(u) PROVE IInv'
  BY <1>1, <1>2, CommandKeeps, SummaryKeeps DEF Type
<1>3. ASSUME NEW u \in User, Keyboard(u) PROVE IInv'
  BY <1>3, CommandKeeps, EmptyingKeeps, StoreKeeps, ReadsKeep, WriteKeeps DEF Keyboard
<1>4. ASSUME NEW u \in User, Listener(u) \/ Crash(u) \/ Server(u) PROVE IInv'
  BY <1>1, <1>4, AddKeeps, CrashKeeps DEF Listener
<1>5. CASE UNCHANGED vars
  BY <1>5, QuietKeeps DEF vars, keyboard, client
<1> QED BY <1>2, <1>3, <1>4, <1>5 DEF Next

-----------------------------------------------------------------------------
(* What the table and the copies of summaries say is known to the flags.   *)
THEOREM ReportsInvariant == Spec => []IInv
BY InitIInv, NextKeepsIInv, PTL DEF Spec

(* No summary contradicts itself about half-time and the end of the game,  *)
(* for any number of clients, games and reports, in any order.             *)
THEOREM ReportsSummaryFlags == Spec => []SummaryFlags
<1>1. ASSUME IInv PROVE SummaryFlags
  <2> SUFFICES ASSUME NEW u \in User, kpc[u] = "print"
               PROVE  LET shown == Summary(copy[u].log)
                      IN  /\ shown.beforeHalftime => copy[u].log.after = <<>>
                          /\ \A i \in DOMAIN shown.reports :
                                LET e == shown.reports[i].event
                                IN  /\ Says(e, Active) => ~shown.active
                                    /\ Says(e, BeforeHalftime) => ~shown.beforeHalftime
    BY DEF SummaryFlags
  <2> DEFINE log == copy[u].log
  <2>1. PICK x : CopyOK(log, "print", x)
    BY <1>1 DEF IInv, AimOK, Aim, Summarising
  <2>2. /\ AllKnown(log.before, log.half, log.done)
        /\ AllKnown(log.after, log.half, log.done)
        /\ ~log.half => log.after = <<>>
    BY <2>1 DEF CopyOK
  <2>3. /\ Summary(log).active = ~log.done
        /\ Summary(log).beforeHalftime = ~log.half
        /\ Summary(log).reports = log.before \o log.after
    BY DEF Summary
  <2> HIDE DEF log
  <2>4. ASSUME NEW i \in DOMAIN (log.before \o log.after)
        PROVE  Known((log.before \o log.after)[i], log.half, log.done)
    <3>1. log.before \in Seq(Range(log.before)) /\ log.after \in Seq(Range(log.after))
      BY <2>2 DEF AllKnown, IsSequence
    <3> DEFINE a == log.before
               b == log.after
    <3>2. PICK S : a \in Seq(S) /\ b \in Seq(S)
      <4>1. Seq(Range(a)) \subseteq Seq(Range(a) \cup Range(b))
            /\ Seq(Range(b)) \subseteq Seq(Range(a) \cup Range(b))
        OBVIOUS
      <4> QED BY <3>1, <4>1
    <3> HIDE DEF a, b
    <3>3. i \in DOMAIN (a \o b)
      BY DEF a, b
    <3>4. Len(a) \in Nat /\ Len(b) \in Nat /\ i \in 1 .. Len(a) + Len(b)
      BY <3>2, <3>3
    <3>5. CASE i <= Len(a)
      <4>1. i \in DOMAIN a /\ (a \o b)[i] = a[i]
        BY <3>2, <3>4, <3>5
      <4> QED BY <2>2, <4>1 DEF AllKnown, a, b
    <3>6. CASE i > Len(a)
      <4>1. i - Len(a) \in DOMAIN b /\ (a \o b)[i] = b[i - Len(a)]
        BY <3>2, <3>4, <3>6
      <4> QED BY <2>2, <4>1 DEF AllKnown, a, b
    <3> QED BY <3>4, <3>5, <3>6
  <2>5. \A i \in DOMAIN Summary(log).reports :
           Known(Summary(log).reports[i], log.half, log.done)
    BY <2>3, <2>4
  <2> QED BY <2>2, <2>3, <2>5 DEF Known, log
<1> QED BY ReportsInvariant, <1>1, PTL
=============================================================================
