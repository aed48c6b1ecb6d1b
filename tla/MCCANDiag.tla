----------------------------- MODULE MCCANDiag -----------------------------
(* A 6A sensor whose commands have no answer, an answer of one frame and one   *)
(* of three frames, with a second calculator; a 6A sensor without any command  *)
(* but one, whose answer it cannot acknowledge; a 68 sensor.                   *)
EXTENDS CANDiag

Cmd(type, ans) == [type |-> type, ans |-> ans]

MCSensors ==
  {[proto |-> "6A", calculators |->
      << <<Cmd("CMD_DIAG_START", 0), Cmd("CMD_KEEP_ALIVE", 1), Cmd("CMD_ACK", 0),
           Cmd("CMD_NORM", 16), Cmd("CMD_NORM", 3)>>,
         <<Cmd("CMD_NORM", 2)>> >>],
   [proto |-> "6A", calculators |-> << <<Cmd("CMD_NORM", 9)>> >>],
   [proto |-> "68", calculators |->
      << <<Cmd("CMD_DIAG_START", 2), Cmd("CMD_NORM", 7), Cmd("CMD_NORM", 0)>> >>]}
=============================================================================
