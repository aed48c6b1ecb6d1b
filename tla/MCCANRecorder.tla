--------------------------- MODULE MCCANRecorder ---------------------------
(* No chunk (a calculator that Parse refused); three chunks of one frame, one  *)
(* of them empty; the whole frame four times, which fits, and six times, which *)
(* does not; chunks longer than a frame, which Validate refuses and the        *)
(* recorder uses, of which only the first may miss the room during a Capture;  *)
(* and a header longer than dataResult.                                        *)
EXTENDS CANRecorder

MCPoints == {<<>>, <<2, 0, 3>>, <<8, 8, 8, 8>>, <<8, 8, 8, 8, 8, 8>>, <<25, 5>>,
             [k \in 1 .. 30 |-> 1]}
=============================================================================
