------------------------------ MODULE MCBroker ------------------------------
(* Instances of the broker for TLC.  Connections are interchangeable, and so *)
(* are channels.                                                             *)
EXTENDS Broker, TLC

Sym == Permutations(Conn) \cup Permutations(Channel)
=============================================================================
