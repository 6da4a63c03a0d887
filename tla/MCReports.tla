------------------------------ MODULE MCReports ------------------------------
(* Two report files for Reports: a goal, and the half-time at the same     *)
(* time, followed by the end with an earlier time.                         *)
EXTENDS Reports, TLC

CONSTANTS final, u1, u2, Commands1, Commands2

Json(type, literal) == [type |-> type, text |-> <<literal>>, literal |-> literal]

No == [k \in {} |-> <<>>]

Goals(literal) == [k \in {<<"goals">>} |-> Json("number", literal)]

Half(home) == [k \in {<<"possession">>, <<"added time", "minutes">>} |-> Json("string", home)]

Happens(name, time, general, a, b) ==
    [name |-> <<name>>, time |-> time, description |-> [words |-> <<name>>, lines |-> 2],
     game_updates |-> general, team_a_updates |-> a, team_b_updates |-> b]

Flag(key) == [k \in {key} |-> Json("boolean", "false")]

MCFile ==
    {[game |-> final, events |-> <<Happens("goal", 50, No, Goals("1"), No)>>],
     [game |-> final,
      events |-> <<Happens("half-time", 50, Flag(BeforeHalftime), Goals("2"), Half("40%")),
                   Happens("end", 20, Flag(Active), Goals("3"), Half("60%"))>>]}

(* The flags of these files read the same at every client: the hypothesis  *)
(* of ReportsAgreement.                                                    *)
ASSUME MCPlainFlags == PlainFlags

MCTypes == u1 :> {"exit", "report"} @@ u2 :> {"join", "exit", "summary"}

MCMaxCommands == u1 :> Commands1 @@ u2 :> Commands2
=============================================================================
