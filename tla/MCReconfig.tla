----------------------------- MODULE MCReconfig -----------------------------
(* Configurations of every kind of item; two sensors, so that a second reply   *)
(* of two items meets a full list; one of four units, which RXBuff cannot take *)
(* whole, and one of five, which calcStorage cannot hold.                      *)
EXTENDS Reconfig

MCConfigs == {<<>>,
              <<"diag", "cmd">>,
              <<"rec", "diag", "cmd">>,
              <<"diag", "cmd", "rec">>,
              <<"diagCode", "cmd", "rec">>,
              <<"rec", "diagBus", "cmd">>,
              <<"diagBad">>,
              <<"recBad">>,
              <<"rec", "rec", "diag", "cmd">>,
              <<"rec", "rec", "rec", "rec", "rec">>}
=============================================================================
