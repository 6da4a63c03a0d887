----------------------------- MODULE MCSessions -----------------------------
(* An instance of the sessions for TLC: any two connections may ask for the *)
(* same user, with the same passcode or another, and some for another user. *)
EXTENDS Sessions

CONSTANTS c1, c2, c3, u1, u2, p1, p2

MCCredential ==
    [c \in Conn |-> CASE c = c1 -> {<<u1, p1>>, <<u2, p1>>}
                      [] c = c2 -> {<<u1, p1>>, <<u1, p2>>}
                      [] c = c3 -> {<<u1, p1>>, <<u2, p1>>}]
=============================================================================
