------------------------------ MODULE MCUplink ------------------------------
(* Two sensors, as APP_CANONAIR starts them.  Records are of 5 or 7 bytes and  *)
(* cost 9 or 11 of the ring, so two of them fill it past the transfer level    *)
(* and a third one may be refused.                                             *)
EXTENDS Uplink

MCSensors == <<"IMU", "GPS">>
MCMaxSamples == [IMU |-> 3, GPS |-> 2]
MCTwoSamples == [IMU |-> 2, GPS |-> 2]
=============================================================================
