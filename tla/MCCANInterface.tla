--------------------------- MODULE MCCANInterface ---------------------------
(* Two communicators of different buses and the recorders of the               *)
(* configuration.                                                              *)
EXTENDS CANInterface, TLC

MCBusOf == [c \in Clients |-> IF c = "c1" THEN 1 ELSE 2]
MCIdOf == [c \in Clients |-> "a"]
=============================================================================
