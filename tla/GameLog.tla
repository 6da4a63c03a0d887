------------------------------- MODULE GameLog -------------------------------
(***************************************************************************)
(* What a client stores about one game and one reporter (class Game), the  *)
(* events it is filled with, and the summary that is made of it.           *)
(*                                                                         *)
(*  - An event is a record [name, time, description, game_updates,         *)
(*    team_a_updates, team_b_updates]; the updates are functions from keys *)
(*    to texts.  A text, a key as well, is the sequence of its pieces      *)
(*    between colons, a description its words and the number of its lines. *)
(*    Only descriptions have several lines: a line break in any other text *)
(*    of a file would end a line of the frame, which parseToEvent cannot   *)
(*    read (it goes by lines), and is left out.                            *)
(*  - An entry is a stored event with the number n of the report it came   *)
(*    in, which only the properties look at.                               *)
(*  - std::sort promises nothing about the order of equal times.  GNU's    *)
(*    keeps them in the order of arrival as long as it sorts by insertion, *)
(*    which it does up to InsertionSorted elements.                        *)
(***************************************************************************)
EXTENDS Integers, Sequences, FiniteSets, Functions

-----------------------------------------------------------------------------
Event(name, time, game_updates, team_a_updates, team_b_updates, description) ==
    [name |-> name, time |-> time, game_updates |-> game_updates,
     team_a_updates |-> team_a_updates, team_b_updates |-> team_b_updates,
     description |-> description]

(* parseEventsFile: an update that is a JSON string is taken as it is, any *)
(* other value as JSON writes it (a boolean or a number: its literal).     *)
JsonText(value) == IF value.type = "string" THEN value.text ELSE <<value.literal>>

JsonTexts(updates) == [k \in DOMAIN updates |-> JsonText(updates[k])]

ParseEvent(json) ==
    Event(json.name, json.time, JsonTexts(json.game_updates),
          JsonTexts(json.team_a_updates), JsonTexts(json.team_b_updates), json.description)

ParseEventsFile(file) == [i \in DOMAIN file.events |-> ParseEvent(file.events[i])]

-----------------------------------------------------------------------------
(* parseToEvent reads of every line what is before its first colon and     *)
(* what is between the first and the second (line[0] and line[1]), without *)
(* the space that follows the first.  So a value ends at its first colon;  *)
(* and of a key with a colon the first piece is taken for the key, and the *)
(* second, without the character it begins with, for the value.            *)
Cut(text) == SubSeq(text, 1, 1)

ReadValue(key, value) == IF Len(key) = 1 THEN Cut(value) ELSE <<Tail(key[2])>>

(* Of keys that are cut to the same, one gives the value (in the code that *)
(* is the last in the order of the map).                                   *)
CutAll(updates) ==
    [k \in {Cut(key) : key \in DOMAIN updates} |->
        LET read == CHOOSE key \in DOMAIN updates : Cut(key) = k
        IN  ReadValue(read, updates[read])]

MutantParseToEvent(e) == [e EXCEPT !.time = 0, !.game_updates = CutAll(@)]

(* The lines of the description are joined.                                *)
ParseToEvent(e) ==
    Event(Cut(e.name), e.time, CutAll(e.game_updates), CutAll(e.team_a_updates),
          CutAll(e.team_b_updates), [e.description EXCEPT !.lines = 1])

-----------------------------------------------------------------------------
BeforeHalftime == <<"before halftime">>
Active         == <<"active">>

Says(e, key) == key \in DOMAIN e.game_updates /\ e.game_updates[key] = <<"false">>

NoUpdates == [before |-> <<>>, after |-> <<>>, half |-> FALSE, done |-> FALSE]

InsertionSorted == 16

MutantPlace(list, entry) ==
    LET k == Cardinality({i \in DOMAIN list : list[i].event.time < entry.event.time})
    IN  SubSeq(list, 1, k) \o <<entry>> \o SubSeq(list, k + 1, Len(list))

(* Time order, a later arrival after an earlier one of the same time.      *)
Place(list, entry) ==
    LET k == Cardinality({i \in DOMAIN list : list[i].event.time <= entry.event.time})
    IN  SubSeq(list, 1, k) \o <<entry>> \o SubSeq(list, k + 1, Len(list))

(* Where each element of all goes when std::sort is free to exchange those *)
(* of equal times: an order with the times of sorted, whichever it is.     *)
SortOrder(all, sorted) ==
    CHOOSE p \in Bijection(DOMAIN all, DOMAIN all) :
        \A i \in DOMAIN all : all[p[i]].event.time = sorted[i].event.time

(* push_back and std::sort.                                                *)
Insert(list, entry) ==
    LET all == Append(list, entry)
        p == SortOrder(all, Place(list, entry))
    IN  IF Len(all) <= InsertionSorted THEN Place(list, entry)
        ELSE [i \in DOMAIN all |-> all[p[i]]]

(* The flags first; the half then decides where the event goes.            *)
AddUpdate(log, entry) ==
    LET half == log.half \/ Says(entry.event, BeforeHalftime)
    IN  [before |-> IF half THEN log.before ELSE Insert(log.before, entry),
         after  |-> IF half THEN Insert(log.after, entry) ELSE log.after,
         half   |-> half,
         done   |-> log.done \/ Says(entry.event, Active)]

(* The numbers of the stored reports, in the order of the lists.           *)
Numbers(list) == [i \in DOMAIN list |-> list[i].n]

Stored(log) ==
    {log.before[i].n : i \in DOMAIN log.before} \cup {log.after[i].n : i \in DOMAIN log.after}

-----------------------------------------------------------------------------
(* handleSummary: of each statistic the last value in the lists.           *)
Statistic == {<<"goals">>, <<"possession">>}

LastValue(updates, key) ==
    LET having == {i \in DOMAIN updates : key \in DOMAIN updates[i]}
    IN  IF having = {} THEN <<>>
        ELSE updates[CHOOSE i \in having : \A j \in having : j <= i][key]

TeamA(e) == e.team_a_updates
TeamB(e) == e.team_b_updates

Summary(log) ==
    LET reports == log.before \o log.after
        A == [i \in DOMAIN reports |-> TeamA(reports[i].event)]
        B == [i \in DOMAIN reports |-> TeamB(reports[i].event)]
    IN  [active         |-> ~log.done,
         beforeHalftime |-> ~log.half,
         teamA          |-> [s \in Statistic |-> LastValue(A, s)],
         teamB          |-> [s \in Statistic |-> LastValue(B, s)],
         reports        |-> reports]
=============================================================================
