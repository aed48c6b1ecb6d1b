------------------------------ MODULE MCModem ------------------------------
(* One tick for every timeout and pause, so that answers come before, at and   *)
(* after the timeout of their command; time enough for the PIN, two attempts   *)
(* of some commands and a few polls.                                           *)
EXTENDS Modem

MCTimeout == [c \in Command |-> 1]
=============================================================================
