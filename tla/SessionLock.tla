----------------------------- MODULE SessionLock -----------------------------
(***************************************************************************)
(* What the login database promises the protocol: a user is logged in on   *)
(* at most one connection, nobody but that connection ends the session,    *)
(* and a connection that has begun to disconnect gives its user back.      *)
(***************************************************************************)
CONSTANTS Conn,   \* connections
          User,   \* user names
          Nobody  \* no connection

VARIABLES holder,  \* holder[u]: the connection u is logged in on
          leaving  \* connections that have begun to disconnect

vars == <<holder, leaving>>

Init ==
    /\ holder  = [u \in User |-> Nobody]
    /\ leaving = {}

Acquire(c, u) ==
    /\ c \notin leaving
    /\ holder[u] = Nobody
    /\ \A v \in User : holder[v] # c
    /\ holder' = [holder EXCEPT ![u] = c]
    /\ UNCHANGED leaving

Leave(c) ==
    /\ leaving' = leaving \cup {c}
    /\ UNCHANGED holder

(* A connection whose login fails half way gives back and leaves at once.  *)
Release(c, u) ==
    /\ holder[u] = c
    /\ holder'  = [holder EXCEPT ![u] = Nobody]
    /\ leaving' \in {leaving, leaving \cup {c}}

Next == \E c \in Conn : Leave(c) \/ \E u \in User : Acquire(c, u) \/ Release(c, u)

Safety == Init /\ [][Next]_vars

(* Who leaves gives back: again and again no user is on such a connection. *)
Progress == []<>(\A u \in User : holder[u] \notin leaving)

Spec == Safety /\ Progress
=============================================================================
