------------------------------ MODULE Reconfig ------------------------------
(***************************************************************************)
(* Reconfiguration of the dynamic sensors (main.cpp): the communication    *)
(* thread stores a reply of the server in calcStorage and raises           *)
(* newCalcPending (MainClass::event); the main loop finds the flag, copies *)
(* the storage without a lock, and replaces the dynamic sensors by the     *)
(* ones the copy describes (StopDynSensors, NewDynSensors).                *)
(*                                                                         *)
(* A configuration is a sequence of units.  A diagnosis is a header and a  *)
(* body ("cmd"), the header being                                          *)
(*   diag      a known diagnosis code on a bus the board has,              *)
(*   diagCode  an unknown diagnosis code,                                  *)
(*   diagBus   pins that are no bus,                                       *)
(*   diagBad   a command length of zero or beyond the command storage;     *)
(* a recorder is one unit, rec or, with no chunk or too many, recBad.      *)
(* Both copies of the data run unit by unit, each in its own thread.       *)
(*                                                                         *)
(* dynSensorAccess is only ever taken by the main thread, so its lock is   *)
(* always granted and it is not part of the state.  delivered, the last    *)
(* configuration stored, is a history variable; replies counts.            *)
(*                                                                         *)
(* No length is checked: the size of a reply is what its Content-Length    *)
(* says (HTTPText::getRcvdLen), whatever RXBuff could take of it and       *)
(* calcStorage can hold.  A copy that runs over the end of its array sets  *)
(* overrun; what the board does after that is not modelled.                *)
(***************************************************************************)
EXTENDS Integers, Sequences

CONSTANTS Configs,      \* what the server may send
          RXRoom,       \* units of a configuration RXBuff can take: 512 bytes, less the
                        \* identifier's 40 and one for the end of the text
          StoreSize,    \* bSz of calcStorage (512)
          ResultSize,   \* size of dataResult (1024)
          MaxSensors,   \* max of dynamicSensors
          MaxReplies    \* bound: replies of the server

Diagnosis == {"diag", "diagCode", "diagBus"}
Unit == Diagnosis \cup {"diagBad", "rec", "recBad", "cmd"}
Unwritten == "zero"
MaxCalculators == 2

ASSUME ReconfigAssumption ==
  /\ RXRoom \in Nat /\ StoreSize \in Nat /\ ResultSize \in Nat /\ RXRoom <= StoreSize
  /\ MaxSensors \in Nat \ {0} /\ MaxReplies \in Nat
  /\ Configs \subseteq Seq(Unit) /\ <<>> \in Configs

VARIABLES sz, b,            \* ramStorage
          overrun,          \* something was written behind an array
          newCalcPending,
          idCfg,            \* ComHandler: the configuration the frames report
          epc, reply, w,    \* event: where, its data, units written
          mpc, dataSz, dataResult, offset,   \* the main loop
          sensors,          \* dynamicSensors
          delivered, replies

storeVars == <<sz, b, overrun>>
eventVars == <<epc, reply, w, idCfg, delivered, replies>>
mainVars == <<mpc, dataSz, dataResult, offset>>
vars == <<storeVars, newCalcPending, eventVars, mainVars, sensors>>

(* After a start; calcStorage and everything else is in RAM. *)
NothingStored == [k \in 1 .. StoreSize |-> Unwritten]

Init ==
  /\ sz \in 0 .. StoreSize             \* never initialised
  /\ b = NothingStored /\ overrun = FALSE
  /\ newCalcPending = FALSE
  /\ idCfg = <<>> /\ epc = "idle" /\ reply = <<>> /\ w = 0
  /\ mpc = "loop" /\ dataSz = 0 /\ dataResult = <<>> /\ offset = 0
  /\ sensors = <<>>
  /\ delivered = <<>> /\ replies = 0

-----------------------------------------------------------------------------
(* A copy has no end, or one behind that of its array. *)
Overrun ==
  /\ overrun' = TRUE
  /\ UNCHANGED <<sz, b, newCalcPending, eventVars, mainVars, sensors>>

(* event, in the communication thread.  A reply without data only sets the     *)
(* identifier; a configuration stands for its own identifier.                  *)
EventId(c) ==
  /\ epc = "idle" /\ replies < MaxReplies
  /\ replies' = replies + 1
  /\ idCfg' = c
  /\ reply' = c /\ w' = 0
  /\ epc' = IF c = <<>> THEN "idle" ELSE "size"
  /\ UNCHANGED <<storeVars, newCalcPending, delivered, mainVars, sensors>>

(* calcStorage->Write(&dataSz, 0, sizeof(int)) *)
EventSize ==
  /\ epc = "size"
  /\ sz' = Len(reply)
  /\ epc' = "data"
  /\ UNCHANGED <<b, overrun, newCalcPending, idCfg, reply, w, delivered, replies, mainVars, sensors>>

(* What a memory cell may hold. *)
Anything == Unit \cup {Unwritten}

(* calcStorage->Write(pData, 1, dataSz), one unit.  What RXBuff could not take *)
(* of the reply is read from the memory behind it.                             *)
EventData ==
  /\ epc = "data" /\ w < Len(reply) /\ w < StoreSize
  /\ \E u \in IF w < RXRoom THEN {reply[w + 1]} ELSE Anything : b' = [b EXCEPT ![w + 1] = u]
  /\ w' = w + 1
  /\ UNCHANGED <<sz, overrun, newCalcPending, epc, reply, idCfg, delivered, replies, mainVars,
                 sensors>>

(* The same behind the end of calcStorage. *)
EventOverrun == epc = "data" /\ w < Len(reply) /\ w >= StoreSize /\ Overrun

(* A reply without even an identifier: dataSz is negative, which memcpy takes  *)
(* for a length larger than any memory.                                        *)
EventShort == epc = "idle" /\ replies < MaxReplies /\ Overrun

(* Mutant: the copy ends one unit early. *)
EventFlagShort ==
  /\ epc = "data" /\ w + 1 >= Len(reply)
  /\ newCalcPending' = TRUE
  /\ delivered' = reply
  /\ epc' = "idle"
  /\ UNCHANGED <<storeVars, reply, w, idCfg, replies, mainVars, sensors>>

(* Mutant: the flag is not raised. *)
EventFlagForgotten ==
  /\ epc = "data" /\ w = Len(reply)
  /\ delivered' = reply
  /\ epc' = "idle"
  /\ UNCHANGED <<newCalcPending, storeVars, reply, w, idCfg, replies, mainVars, sensors>>

(* newCalcPending = true *)
EventFlag ==
  /\ epc = "data" /\ w = Len(reply)
  /\ newCalcPending' = TRUE
  /\ delivered' = reply
  /\ epc' = "idle"
  /\ UNCHANGED <<storeVars, reply, w, idCfg, replies, mainVars, sensors>>

Event == \/ \E c \in Configs : EventId(c)
         \/ EventSize \/ EventData \/ EventFlag \/ EventOverrun \/ EventShort

-----------------------------------------------------------------------------
(* The main loop.  Nothing is pending: it waits and captures again. *)
LoopIdle == mpc = "loop" /\ ~newCalcPending /\ UNCHANGED vars

(* The flag is cleared before anything is read. *)
ClearFlag ==
  /\ mpc = "loop" /\ newCalcPending
  /\ newCalcPending' = FALSE
  /\ mpc' = "size"
  /\ UNCHANGED <<storeVars, eventVars, dataSz, dataResult, offset, sensors>>

ReadSize ==
  /\ mpc = "size"
  /\ dataSz' = sz
  /\ dataResult' = <<>>
  /\ mpc' = "data"
  /\ UNCHANGED <<storeVars, newCalcPending, eventVars, offset, sensors>>

(* One unit; what the copy does not reach is left of the captured results.     *)
(* Behind calcStorage lies anything.                                           *)
ReadData ==
  /\ mpc = "data" /\ Len(dataResult) < dataSz /\ Len(dataResult) < ResultSize
  /\ \E u \in IF Len(dataResult) < StoreSize THEN {b[Len(dataResult) + 1]} ELSE Anything :
        dataResult' = Append(dataResult, u)
  /\ UNCHANGED <<storeVars, newCalcPending, eventVars, mpc, dataSz, offset, sensors>>

(* The same behind the end of dataResult. *)
ReadOverrun ==
  /\ mpc = "data" /\ Len(dataResult) < dataSz /\ Len(dataResult) >= ResultSize
  /\ Overrun

(* Mutant: the flag is cleared (again) once everything is read. *)
StopThenClearFlag ==
  /\ mpc = "data" /\ Len(dataResult) = dataSz
  /\ newCalcPending' = FALSE
  /\ sensors' = <<>>
  /\ offset' = 0
  /\ mpc' = "new"
  /\ UNCHANGED <<storeVars, eventVars, dataSz, dataResult>>

(* StopDynSensors: the test after PopLastSensor is of the lock's status, 0, so *)
(* the loop is left after one pop, with the sensor neither stopped nor freed.  *)
StopDynSensors ==
  /\ mpc = "data" /\ Len(dataResult) = dataSz
  /\ sensors' = IF sensors = <<>> THEN <<>> ELSE SubSeq(sensors, 1, Len(sensors) - 1)
  /\ offset' = 0
  /\ mpc' = "new"
  /\ UNCHANGED <<storeVars, newCalcPending, eventVars, dataSz, dataResult>>

-----------------------------------------------------------------------------
(* NewDynSensors, one turn of its loop.  Header is the unit at offset; the     *)
(* body of a diagnosis may lie behind the end of the data.                     *)
Header == dataResult[offset + 1]
BodyFound == offset + 2 <= Len(dataResult) /\ dataResult[offset + 2] = "cmd"

(* Mutant: AddSensor without its test. *)
AddSensorUnchecked(s) == Append(sensors, s)

AddSensor(s) == IF Len(sensors) < MaxSensors THEN Append(sensors, s) ELSE sensors

DiagSensor == [kind |-> "diag", calculators |-> 1]
Recorder == [kind |-> "rec", calculators |-> 0]

(* "Check for ending" *)
CheckEnding == mpc' = IF offset' >= dataSz THEN "loop" ELSE "new"

(* The list is full: the first sensor that reports less than two calculators   *)
(* gets it.  A recorder is read as a diagnosis sensor and may report anything; *)
(* what is written to it then is no calculator.                                *)
HasRoom(k) == sensors[k].kind = "diag" /\ sensors[k].calculators < MaxCalculators
MayHaveRoom(k) == HasRoom(k) \/ sensors[k].kind = "rec"
ShareWith(k) ==
  /\ MayHaveRoom(k)
  /\ \A l \in 1 .. k - 1 : ~HasRoom(l)
  /\ sensors' = IF sensors[k].kind = "rec" THEN sensors
                ELSE [sensors EXCEPT ![k].calculators = @ + 1]
ShareWithNone ==
  /\ \A l \in DOMAIN sensors : ~HasRoom(l)
  /\ UNCHANGED sensors

(* Mutant: the length of the commands is not added to the offset. *)
NewDiagnosisHeaderOnly ==
  /\ mpc = "new" /\ Header = "diag"
  /\ offset' = offset + 1
  /\ sensors' = AddSensor(DiagSensor)
  /\ CheckEnding
  /\ UNCHANGED <<storeVars, newCalcPending, eventVars, dataSz, dataResult>>

(* A diagnosis that is ready, of a known code and on a bus.  A body that is no *)
(* commands may pass or fail Validate.                                         *)
NewDiagnosis ==
  /\ mpc = "new" /\ Header = "diag"
  /\ offset' = offset + 2
  /\ IF Len(sensors) < MaxSensors
     THEN sensors' = AddSensor(DiagSensor)
     ELSE \/ \E k \in DOMAIN sensors : ShareWith(k)
          \/ ShareWithNone
  /\ CheckEnding
  /\ UNCHANGED <<storeVars, newCalcPending, eventVars, dataSz, dataResult>>

(* An unknown code: the calculator is freed and the loop goes on. *)
UnknownCode ==
  /\ mpc = "new" /\ Header = "diagCode"
  /\ offset' = offset + 2
  /\ CheckEnding
  /\ UNCHANGED <<storeVars, newCalcPending, eventVars, dataSz, dataResult, sensors>>

(* Not ready, or no bus: what follows is dropped. *)
Abort ==
  /\ mpc = "new"
  /\ \/ Header \in Diagnosis /\ ~BodyFound
     \/ Header = "diagBus"
     \/ Header = "diagBad"
  /\ mpc' = "loop"
  /\ UNCHANGED <<storeVars, newCalcPending, eventVars, dataSz, dataResult, offset, sensors>>

NewRecorder ==
  /\ mpc = "new" /\ Header = "rec"
  /\ offset' = offset + 1
  /\ sensors' = AddSensor(Recorder)
  /\ CheckEnding
  /\ UNCHANGED <<storeVars, newCalcPending, eventVars, dataSz, dataResult>>

(* SetData returns -1, which is not 0: a recorder is made and the offset goes  *)
(* back by a byte.  Read from there the data may be anything: the loop may get *)
(* past the item, or it never does.                                            *)
BadRecorder ==
  /\ mpc = "new" /\ Header = "recBad"
  /\ sensors' = AddSensor(Recorder)
  /\ \/ mpc' = "spin" /\ UNCHANGED offset
     \/ offset' \in offset + 1 .. dataSz /\ CheckEnding
  /\ UNCHANGED <<storeVars, newCalcPending, eventVars, dataSz, dataResult>>

(* No known header: the offset stays, and so does the loop. *)
NoHeader ==
  /\ mpc = "new" /\ Header \in {"cmd", Unwritten}
  /\ mpc' = "spin"
  /\ UNCHANGED <<storeVars, newCalcPending, eventVars, dataSz, dataResult, offset, sensors>>

(* MyWatchdog: the main loop has not called Feed for a minute. *)
WatchdogReset ==
  /\ mpc = "spin"
  /\ sz' \in 0 .. StoreSize
  /\ b' = NothingStored /\ UNCHANGED overrun
  /\ newCalcPending' = FALSE
  /\ idCfg' = <<>> /\ epc' = "idle" /\ reply' = <<>> /\ w' = 0
  /\ mpc' = "loop" /\ dataSz' = 0 /\ dataResult' = <<>> /\ offset' = 0
  /\ sensors' = <<>>
  /\ delivered' = <<>>
  /\ UNCHANGED replies

Main == \/ LoopIdle \/ ClearFlag \/ ReadSize \/ ReadData \/ ReadOverrun \/ StopDynSensors
        \/ NewDiagnosis \/ UnknownCode \/ Abort \/ NewRecorder \/ BadRecorder \/ NoHeader

Next == \/ ~overrun /\ (Event \/ Main \/ WatchdogReset)
        \/ overrun /\ UNCHANGED vars

Spec == Init /\ [][Next]_vars

(* Both threads are scheduled, event runs to its end once it is called, and    *)
(* the watchdog is hardware.  The server need not reply.                       *)
FairSpec == /\ Spec
            /\ WF_vars(~overrun /\ (EventSize \/ EventData \/ EventFlag \/ EventOverrun))
            /\ WF_vars(~overrun /\ Main)
            /\ WF_vars(~overrun /\ WatchdogReset)
-----------------------------------------------------------------------------
Sensor == {Recorder} \cup {[kind |-> "diag", calculators |-> n] : n \in 1 .. MaxCalculators}

(* Types of the state: the list of dynamic sensors and the calculators of each *)
(* sensor stay within their arrays.                                            *)
TypeOK ==
  /\ sz \in Nat /\ b \in [1 .. StoreSize -> Anything]
  /\ newCalcPending \in BOOLEAN /\ overrun \in BOOLEAN
  /\ idCfg \in Configs /\ reply \in Configs /\ delivered \in Configs
  /\ epc \in {"idle", "size", "data"} /\ w \in 0 .. Len(reply)
  /\ mpc \in {"loop", "size", "data", "new", "spin"}
  /\ dataSz \in Nat
  /\ dataResult \in Seq(Anything) /\ Len(dataResult) <= dataSz
  /\ sensors \in Seq(Sensor) /\ Len(sensors) <= MaxSensors
  /\ replies \in 0 .. MaxReplies

(* n units d are configuration c, as far as RXBuff could take it. *)
Holds(d, n, c) == n = Len(c) /\ \A k \in 1 .. n : k <= RXRoom => d[k] = c[k]

(* While event is not at work the storage holds the last configuration that    *)
(* came, as far as it fitted RXBuff, and nothing of an earlier, longer one     *)
(* behind it; and a frame reports no other identifier.                         *)
StoredIsWhole ==
  epc = "idle" => /\ delivered # <<>> => Holds(b, sz, delivered)
                  /\ idCfg \in {delivered, <<>>}

(* No configuration is lost although both threads use the storage and the flag *)
(* without a lock: at rest, the one last read is the one last stored.          *)
NoLostConfig ==
  epc = "idle" /\ ~newCalcPending /\ mpc \notin {"size", "data"} =>
    Holds(dataResult, Len(dataResult), delivered)

(* The items of a configuration, one behind the other, are well formed. *)
WellFormed(c) ==
  \A k \in DOMAIN c : /\ c[k] # "recBad" /\ (k = 1 => c[k] # "cmd")
                      /\ c[k] \in Diagnosis <=> (k < Len(c) /\ c[k + 1] = "cmd")

(* NewDynSensors loops for ever only on a copy that is no configuration the    *)
(* server sent, or on one that is not well formed.                             *)
SpinMeansTornOrBad ==
  mpc = "spin" => ~(dataResult \in Configs /\ WellFormed(dataResult))

(* What StopDynSensors says when it leaves its loop: "Dynamic list is now      *)
(* empty".                                                                     *)
StopEmptiesList == mpc = "new" /\ offset = 0 => sensors = <<>>

(* Every configuration that is stored is applied, unless another one replaces  *)
(* it, the board restarts or a reply that is too short or too long comes.      *)
ConfigApplied ==
  \A c \in Configs \ {<<>>} :
    (delivered = c) ~> \/ delivered # c \/ overrun
                       \/ mpc \in {"new", "loop"} /\ Holds(dataResult, Len(dataResult), c)
=============================================================================
