--------------------------- MODULE ReconfigProofs ---------------------------
(***************************************************************************)
(* The flag and the storage that event and the main loop share without a   *)
(* lock, for every set of configurations, however long, every size of the  *)
(* arrays they go through and every number of sensors.                     *)
(*                                                                         *)
(* None of the checked invariants is inductive: that no configuration is   *)
(* lost needs to know what a copy under way holds (CopyInv), that a copy   *)
(* is right needs what the storage holds during a write (StoreInv), and    *)
(* that parsing ends on a well-formed copy needs that the offset never     *)
(* stands on a body (ParseInv).                                            *)
(***************************************************************************)
EXTENDS Reconfig, SequenceTheorems, TLAPS

(* What the storage holds, before, during and after a write of event. *)
StoreInv ==
  /\ epc \in {"idle", "size"} /\ delivered # <<>> => Holds(b, sz, delivered)
  /\ epc = "idle" => idCfg \in {delivered, <<>>}
  /\ epc # "idle" => reply # <<>> /\ idCfg = reply
  /\ epc = "size" => w = 0
  /\ epc = "data" => sz = Len(reply) /\ \A k \in 1 .. w : k <= RXRoom => b[k] = reply[k]

(* Nothing is read before something was stored; a copy under way, with no     *)
(* event since the flag was cleared, is of the configuration stored last.      *)
CopyInv ==
  /\ newCalcPending \/ mpc \in {"size", "data"} => delivered # <<>>
  /\ mpc = "data" => dataSz > 0
  /\ epc = "idle" /\ ~newCalcPending /\ mpc = "data" =>
       /\ dataSz = Len(delivered)
       /\ \A k \in 1 .. Len(dataResult) : k <= RXRoom => dataResult[k] = delivered[k]

(* While NewDynSensors parses, the offset is inside the copy, and on the first *)
(* unit of an item if the copy is well formed.                                 *)
ParseInv ==
  mpc = "new" =>
    /\ Len(dataResult) = dataSz /\ offset \in 0 .. dataSz - 1
    /\ dataResult \in Configs /\ WellFormed(dataResult) => dataResult[offset + 1] # "cmd"

ReconfigInv == /\ TypeOK /\ StoreInv /\ CopyInv /\ ParseInv
               /\ NoLostConfig /\ SpinMeansTornOrBad

-----------------------------------------------------------------------------
LEMMA ConfigTyped ==
  ASSUME NEW c \in Configs
  PROVE  c \in Seq(Unit) /\ Len(c) \in Nat /\ (c # <<>> => Len(c) > 0)
BY ReconfigAssumption

LEMMA EmptyTyped ==
  /\ NothingStored \in [1 .. StoreSize -> Anything]
  /\ <<>> \in Configs /\ <<>> \in Seq(Anything) /\ <<>> \in Seq(Sensor)
  /\ Len(<<>>) = 0
BY ReconfigAssumption DEF NothingStored, Anything

LEMMA InitGood == Init => ReconfigInv
<1> SUFFICES ASSUME Init PROVE ReconfigInv
  OBVIOUS
<1>1. TypeOK
  <2>1. w \in 0 .. Len(reply) /\ dataSz \in Nat /\ sz \in Nat /\ Len(dataResult) <= dataSz
    BY EmptyTyped, ReconfigAssumption DEF Init
  <2>2. Len(sensors) <= MaxSensors /\ replies \in 0 .. MaxReplies
    BY EmptyTyped, ReconfigAssumption DEF Init
  <2> QED
    BY <2>1, <2>2, EmptyTyped DEF Init, TypeOK
<1>2. StoreInv
  BY DEF Init, StoreInv
<1>3. CopyInv /\ ParseInv
  BY DEF Init, CopyInv, ParseInv
<1>4. NoLostConfig /\ SpinMeansTornOrBad
  BY EmptyTyped DEF Init, NoLostConfig, SpinMeansTornOrBad, Holds
<1> QED
  BY <1>1, <1>2, <1>3, <1>4 DEF ReconfigInv

-----------------------------------------------------------------------------
(* An overrun changes none of the variables that the invariant is about.       *)
LEMMA OverrunGood ==
  ASSUME ReconfigInv, Overrun
  PROVE  ReconfigInv'
<1> USE DEF ReconfigInv
<1>1. TypeOK'
  BY DEF Overrun, TypeOK, eventVars, mainVars
<1>2. StoreInv' /\ CopyInv' /\ NoLostConfig'
  BY DEF Overrun, StoreInv, CopyInv, NoLostConfig, Holds, eventVars, mainVars
<1>3. ParseInv' /\ SpinMeansTornOrBad'
  BY DEF Overrun, ParseInv, SpinMeansTornOrBad, eventVars, mainVars
<1> QED
  BY <1>1, <1>2, <1>3

(* event: types, storage, and what it may change of a copy.                    *)
LEMMA EventGood ==
  ASSUME ReconfigInv, Event
  PROVE  ReconfigInv'
<1> USE DEF ReconfigInv
<1>0. /\ reply \in Seq(Unit) /\ Len(reply) \in Nat
      /\ delivered \in Seq(Unit) /\ Len(delivered) \in Nat
      /\ StoreSize \in Nat /\ RXRoom \in Nat /\ RXRoom <= StoreSize
  BY ConfigTyped, ReconfigAssumption DEF TypeOK
<1>1. ASSUME NEW c \in Configs, EventId(c) PROVE ReconfigInv'
  <2>0. Len(c) \in Nat /\ MaxReplies \in Nat
    BY ConfigTyped, ReconfigAssumption
  <2>1. TypeOK'
    <3>1. w' \in 0 .. Len(reply') /\ epc' \in {"idle", "size", "data"}
      BY <1>1, <2>0 DEF EventId
    <3>2. replies' \in 0 .. MaxReplies
      BY <1>1, <2>0 DEF TypeOK, EventId
    <3> QED
      BY <1>1, <3>1, <3>2 DEF TypeOK, EventId, storeVars, mainVars
  <2>2. StoreInv' /\ CopyInv' /\ NoLostConfig'
    BY <1>1 DEF StoreInv, CopyInv, NoLostConfig, Holds, EventId, storeVars, mainVars
  <2>3. ParseInv' /\ SpinMeansTornOrBad'
    BY <1>1 DEF ParseInv, SpinMeansTornOrBad, EventId, mainVars
  <2> QED
    BY <2>1, <2>2, <2>3
<1>2. CASE EventSize
  <2>1. TypeOK'
    BY <1>2, <1>0 DEF TypeOK, EventSize, mainVars
  <2>2. StoreInv' /\ CopyInv' /\ NoLostConfig'
    BY <1>2 DEF StoreInv, CopyInv, NoLostConfig, Holds, EventSize, mainVars
  <2>3. ParseInv' /\ SpinMeansTornOrBad'
    BY <1>2 DEF ParseInv, SpinMeansTornOrBad, EventSize, mainVars
  <2> QED
    BY <2>1, <2>2, <2>3
<1>3. CASE EventData
  <2>1. w + 1 \in 1 .. Len(reply) /\ w + 1 \in 1 .. StoreSize /\ reply[w + 1] \in Unit
    BY <1>3, <1>0 DEF TypeOK, EventData
  <2>2. PICK u \in Anything : /\ b' = [b EXCEPT ![w + 1] = u]
                              /\ w + 1 <= RXRoom => u = reply[w + 1]
    <3>1. PICK u \in IF w < RXRoom THEN {reply[w + 1]} ELSE Anything : b' = [b EXCEPT ![w + 1] = u]
      BY <1>3 DEF EventData
    <3>2. CASE w < RXRoom
      BY <2>1, <3>1, <3>2 DEF Anything
    <3>3. CASE ~(w < RXRoom)
      <4>1. u \in Anything /\ ~(w + 1 <= RXRoom)
        BY <1>0, <3>1, <3>3 DEF TypeOK
      <4> QED
        BY <3>1, <4>1
    <3> QED
      BY <3>2, <3>3
  <2>b. b \in [1 .. StoreSize -> Anything] /\ w \in Nat
    BY <1>0 DEF TypeOK
  <2>c. /\ w' = w + 1 /\ w' \in 0 .. Len(reply)
        /\ UNCHANGED <<sz, overrun, newCalcPending, epc, reply, idCfg, delivered, replies, mainVars,
                       sensors>>
    BY <1>3, <2>1, <2>b DEF EventData
  <2>3. TypeOK'
    <3>1. b' \in [1 .. StoreSize -> Anything]
      BY <2>1, <2>2, <2>b
    <3> QED
      BY <2>c, <3>1 DEF TypeOK, mainVars
  <2>4. \A k \in 1 .. w + 1 : k <= RXRoom => b'[k] = reply[k]
    <3>1. ASSUME NEW k \in 1 .. w + 1, k <= RXRoom PROVE b'[k] = reply[k]
      <4>1. k \in 1 .. StoreSize
        BY <3>1, <1>0, <2>1
      <4>2. CASE k = w + 1
        BY <3>1, <2>1, <2>2, <2>b, <4>2
      <4>3. CASE k # w + 1
        <5>1. k \in 1 .. w
          BY <2>b, <4>3
        <5>2. b[k] = reply[k]
          BY <1>3, <3>1, <5>1 DEF StoreInv, EventData
        <5> QED
          BY <2>1, <2>2, <2>b, <4>1, <4>3, <5>2
      <4> QED
        BY <4>2, <4>3
    <3> QED
      BY <3>1
  <2>5. StoreInv' /\ CopyInv' /\ NoLostConfig'
    BY <1>3, <2>4 DEF StoreInv, CopyInv, NoLostConfig, EventData, mainVars
  <2>6. ParseInv' /\ SpinMeansTornOrBad'
    BY <1>3 DEF ParseInv, SpinMeansTornOrBad, EventData, mainVars
  <2> QED
    BY <2>3, <2>5, <2>6
<1>4. CASE EventFlag
  <2>1. TypeOK'
    BY <1>4 DEF TypeOK, EventFlag, storeVars, mainVars
  <2>2. StoreInv' /\ CopyInv' /\ NoLostConfig'
    BY <1>4 DEF StoreInv, CopyInv, NoLostConfig, Holds, EventFlag, storeVars, mainVars
  <2>3. ParseInv' /\ SpinMeansTornOrBad'
    BY <1>4 DEF ParseInv, SpinMeansTornOrBad, EventFlag, mainVars
  <2> QED
    BY <2>1, <2>2, <2>3
<1>5. CASE EventOverrun \/ EventShort
  BY <1>5, OverrunGood DEF EventOverrun, EventShort
<1> QED
  BY <1>1, <1>2, <1>3, <1>4, <1>5 DEF Event

-----------------------------------------------------------------------------
(* The main loop leaves the storage, and what event keeps, alone.              *)
LEMMA MainKeepsStore ==
  ASSUME ReconfigInv, UNCHANGED <<storeVars, eventVars>>
  PROVE  StoreInv'
BY DEF ReconfigInv, StoreInv, Holds, storeVars, eventVars

(* Reading: from the cleared flag to the whole copy.                           *)
LEMMA ReadingGood ==
  ASSUME ReconfigInv, LoopIdle \/ ClearFlag \/ ReadSize \/ ReadData \/ ReadOverrun
  PROVE  ReconfigInv'
<1> USE DEF ReconfigInv
<1>0. /\ delivered \in Seq(Unit) /\ Len(delivered) \in Nat
      /\ delivered # <<>> => Len(delivered) > 0
      /\ reply \in Seq(Unit) /\ Len(reply) \in Nat
      /\ reply # <<>> => Len(reply) > 0
      /\ StoreSize \in Nat /\ RXRoom \in Nat /\ RXRoom <= StoreSize
  BY ConfigTyped, ReconfigAssumption DEF TypeOK
<1>1. CASE LoopIdle
  BY <1>1 DEF LoopIdle, vars, storeVars, eventVars, mainVars, TypeOK, StoreInv, CopyInv, ParseInv,
     NoLostConfig, SpinMeansTornOrBad, Holds
<1>2. CASE ClearFlag
  <2>1. StoreInv'
    BY <1>2, MainKeepsStore DEF ClearFlag
  <2>2. TypeOK'
    BY <1>2 DEF ClearFlag, TypeOK, storeVars, eventVars
  <2>3. CopyInv' /\ ParseInv' /\ NoLostConfig' /\ SpinMeansTornOrBad'
    BY <1>2 DEF ClearFlag, CopyInv, ParseInv, NoLostConfig, SpinMeansTornOrBad, eventVars
  <2> QED
    BY <2>1, <2>2, <2>3
<1>3. CASE ReadSize
  <2>1. StoreInv'
    BY <1>3, MainKeepsStore DEF ReadSize
  <2>2. TypeOK'
    BY <1>3 DEF ReadSize, TypeOK, storeVars, eventVars
  <2>3. sz > 0
    BY <1>3, <1>0 DEF ReadSize, CopyInv, StoreInv, Holds, TypeOK
  <2>4. CopyInv'
    BY <1>3, <2>3 DEF ReadSize, CopyInv, StoreInv, Holds, storeVars, eventVars
  <2>5. ParseInv' /\ NoLostConfig' /\ SpinMeansTornOrBad'
    BY <1>3 DEF ReadSize, ParseInv, NoLostConfig, SpinMeansTornOrBad
  <2> QED
    BY <2>1, <2>2, <2>4, <2>5
<1>4. CASE ReadData
  <2> DEFINE n == Len(dataResult) + 1
  <2>0. n \in 1 .. dataSz /\ (n <= RXRoom => n \in 1 .. StoreSize)
    BY <1>4, <1>0 DEF ReadData, TypeOK
  <2>00. PICK u \in Anything : /\ dataResult' = Append(dataResult, u)
                               /\ n <= RXRoom => u = b[n]
    BY <1>4, <1>0, <2>0 DEF ReadData, TypeOK
  <2>1. StoreInv'
    BY <1>4, MainKeepsStore DEF ReadData
  <2>2. /\ dataResult' \in Seq(Anything) /\ Len(dataResult') = n
        /\ n <= RXRoom => dataResult'[n] = b[n]
        /\ \A k \in 1 .. n - 1 : dataResult'[k] = dataResult[k]
    <3>1. dataResult \in Seq(Anything) /\ Len(dataResult) \in Nat
      BY DEF TypeOK
    <3>2. /\ Append(dataResult, u) \in Seq(Anything) /\ Len(Append(dataResult, u)) = n
          /\ Append(dataResult, u)[n] = u
          /\ \A k \in 1 .. Len(dataResult) : Append(dataResult, u)[k] = dataResult[k]
      BY <3>1, AppendProperties
    <3>3. n - 1 = Len(dataResult)
      BY <3>1
    <3> QED
      BY <2>00, <3>2, <3>3
  <2>3. TypeOK'
    BY <1>4, <2>2, <2>0 DEF ReadData, TypeOK, storeVars, eventVars
  <2>4. CopyInv'
    <3>1. ASSUME epc = "idle", ~newCalcPending
          PROVE  \A k \in 1 .. n : k <= RXRoom => dataResult'[k] = delivered[k]
      <4>1. n <= RXRoom => b[n] = delivered[n]
        BY <1>4, <3>1, <2>0 DEF ReadData, CopyInv, StoreInv, Holds
      <4>2. \A k \in 1 .. n - 1 : k <= RXRoom => dataResult'[k] = delivered[k]
        BY <1>4, <3>1, <2>2 DEF ReadData, CopyInv, TypeOK
      <4>3. \A k \in 1 .. n : k \in 1 .. n - 1 \/ k = n
        BY <2>0
      <4> QED
        BY <4>1, <4>2, <4>3, <2>2
    <3> QED
      BY <1>4, <3>1, <2>2 DEF ReadData, CopyInv, storeVars, eventVars
  <2>5. ParseInv' /\ NoLostConfig' /\ SpinMeansTornOrBad'
    BY <1>4 DEF ReadData, ParseInv, NoLostConfig, SpinMeansTornOrBad
  <2> QED
    BY <2>1, <2>3, <2>4, <2>5
<1>5. CASE ReadOverrun
  BY <1>5, OverrunGood DEF ReadOverrun
<1> QED
  BY <1>1, <1>2, <1>3, <1>4, <1>5

(* The end of a copy: with no event since the flag was cleared it is exactly  *)
(* the configuration stored last.                                              *)
LEMMA StopGood ==
  ASSUME ReconfigInv, StopDynSensors
  PROVE  ReconfigInv'
<1> USE DEF ReconfigInv
<1>0. /\ delivered \in Seq(Unit) /\ Len(delivered) \in Nat
      /\ StoreSize \in Nat /\ MaxSensors \in Nat \ {0}
  BY ConfigTyped, ReconfigAssumption DEF TypeOK
<1>1. StoreInv'
  BY MainKeepsStore DEF StopDynSensors
<1>2. sensors' \in Seq(Sensor) /\ Len(sensors') <= MaxSensors
  <2>1. CASE sensors = <<>>
    BY <2>1, <1>0 DEF StopDynSensors, TypeOK
  <2>2. CASE sensors # <<>>
    <3>1. Len(sensors) \in Nat /\ Len(sensors) > 0
      BY <2>2 DEF TypeOK
    <3>2. \A k \in 1 .. Len(sensors) - 1 : sensors[k] \in Sensor
      BY <3>1 DEF TypeOK
    <3> QED
      BY <2>2, <3>1, <3>2, <1>0 DEF StopDynSensors, TypeOK
  <2> QED
    BY <2>1, <2>2
<1>3. TypeOK'
  BY <1>2 DEF StopDynSensors, TypeOK, storeVars, eventVars
<1>4. CopyInv' /\ SpinMeansTornOrBad'
  BY DEF StopDynSensors, CopyInv, SpinMeansTornOrBad, eventVars
<1>5. ParseInv'
  <2>1. Len(dataResult) = dataSz /\ 0 \in 0 .. dataSz - 1 /\ 1 \in DOMAIN dataResult
    BY <1>0 DEF StopDynSensors, TypeOK, CopyInv
  <2>2. WellFormed(dataResult) => dataResult[1] # "cmd"
    BY <2>1 DEF WellFormed
  <2> QED
    BY <2>1, <2>2 DEF StopDynSensors, ParseInv, WellFormed
<1>6. NoLostConfig'
  <2>1. ASSUME epc = "idle", ~newCalcPending
        PROVE  Holds(dataResult, Len(dataResult), delivered)
    BY <2>1 DEF StopDynSensors, CopyInv, Holds
  <2> QED
    BY <2>1 DEF StopDynSensors, NoLostConfig, Holds, eventVars
<1> QED
  BY <1>1, <1>3, <1>4, <1>5, <1>6

-----------------------------------------------------------------------------
(* NewDynSensors.  A sensor that is added or shared is one of the array.       *)
LEMMA AddSensorTyped ==
  ASSUME TypeOK, NEW s \in Sensor
  PROVE  AddSensor(s) \in Seq(Sensor) /\ Len(AddSensor(s)) <= MaxSensors
<1>1. MaxSensors \in Nat /\ Len(sensors) \in Nat
  BY ReconfigAssumption DEF TypeOK
<1>2. CASE Len(sensors) < MaxSensors
  <2>1. Append(sensors, s) \in Seq(Sensor) /\ Len(Append(sensors, s)) = Len(sensors) + 1
    BY AppendProperties DEF TypeOK
  <2> QED
    BY <1>1, <1>2, <2>1 DEF AddSensor
<1>3. CASE ~(Len(sensors) < MaxSensors)
  BY <1>3 DEF AddSensor, TypeOK
<1> QED
  BY <1>2, <1>3

LEMMA ShareTyped ==
  ASSUME TypeOK, NEW k \in DOMAIN sensors, ShareWith(k)
  PROVE  sensors' \in Seq(Sensor) /\ Len(sensors') <= MaxSensors
<1>1. CASE sensors[k].kind = "rec"
  BY <1>1 DEF ShareWith, TypeOK
<1>2. CASE sensors[k].kind # "rec"
  <2>1. sensors[k] \in Sensor
    BY DEF TypeOK
  <2>2. HasRoom(k)
    BY <1>2 DEF ShareWith, MayHaveRoom
  <2>3. PICK n \in 1 .. MaxCalculators : sensors[k] = [kind |-> "diag", calculators |-> n]
    BY <2>1, <1>2 DEF Sensor, Recorder
  <2>4. n + 1 \in 1 .. MaxCalculators
    BY <2>2, <2>3 DEF HasRoom, MaxCalculators
  <2>5. sensors' = [sensors EXCEPT ![k] = [kind |-> "diag", calculators |-> n + 1]]
    <3>1. [sensors[k] EXCEPT !.calculators = @ + 1] = [kind |-> "diag", calculators |-> n + 1]
      BY <2>3
    <3>2. sensors' = [sensors EXCEPT ![k] = [sensors[k] EXCEPT !.calculators = @ + 1]]
      BY <1>2 DEF ShareWith
    <3> QED
      BY <3>1, <3>2
  <2>6. [kind |-> "diag", calculators |-> n + 1] \in Sensor
    BY <2>4 DEF Sensor
  <2> QED
    BY <2>5, <2>6 DEF TypeOK
<1> QED
  BY <1>1, <1>2

(* What follows the first unit of an item of a well-formed copy: the first     *)
(* unit of the next one, after the body if it has one.                         *)
LEMMA NextItem ==
  ASSUME TypeOK, ParseInv, mpc = "new", dataResult \in Configs, WellFormed(dataResult)
  PROVE  /\ Header \in Diagnosis => /\ offset + 2 <= dataSz /\ dataResult[offset + 2] = "cmd"
                                    /\ offset + 2 < dataSz => dataResult[offset + 3] # "cmd"
         /\ Header \notin Diagnosis /\ offset + 1 < dataSz => dataResult[offset + 2] # "cmd"
         /\ Header \notin {"recBad", "cmd", Unwritten}
<1>1. /\ dataResult \in Seq(Unit) /\ Len(dataResult) = dataSz /\ dataSz \in Nat
      /\ offset \in Nat /\ offset < dataSz /\ Header # "cmd"
  BY ConfigTyped, ReconfigAssumption DEF TypeOK, ParseInv, Header
<1>2. offset + 1 \in DOMAIN dataResult /\ Header \in Unit
  BY <1>1 DEF Header
<1>3. /\ Header # "recBad"
      /\ Header \in Diagnosis <=> (offset + 1 < dataSz /\ dataResult[(offset + 1) + 1] = "cmd")
  BY <1>1, <1>2 DEF Header, WellFormed
<1>4. (offset + 1) + 1 = offset + 2 /\ (offset + 2) + 1 = offset + 3
  BY <1>1
<1>5. Header # Unwritten
  BY <1>2 DEF Unit, Diagnosis, Unwritten
<1>6. ASSUME Header \in Diagnosis, offset + 2 < dataSz
      PROVE  dataResult[offset + 3] # "cmd"
  <2>1. offset + 2 \in DOMAIN dataResult /\ offset + 2 < Len(dataResult)
    BY <1>1, <1>6
  <2>2. dataResult[offset + 2] \notin Diagnosis
    BY <1>3, <1>4, <1>6 DEF Diagnosis
  <2> QED
    BY <2>1, <2>2, <1>4 DEF WellFormed
<1> QED
  BY <1>1, <1>3, <1>4, <1>5, <1>6

(* A turn of the loop that moves on to an item, or ends.                       *)
LEMMA TurnGood ==
  ASSUME ReconfigInv, mpc = "new", CheckEnding, offset' \in Nat,
         UNCHANGED <<storeVars, newCalcPending, eventVars, dataSz, dataResult>>,
         sensors' \in Seq(Sensor), Len(sensors') <= MaxSensors,
         offset' < dataSz /\ dataResult \in Configs /\ WellFormed(dataResult)
           => dataResult[offset' + 1] # "cmd"
  PROVE  ReconfigInv'
<1> USE DEF ReconfigInv
<1>0. dataSz \in Nat
  BY ReconfigAssumption DEF TypeOK
<1>1. StoreInv'
  BY MainKeepsStore
<1>2. TypeOK'
  BY DEF CheckEnding, TypeOK, storeVars, eventVars
<1>3. CopyInv' /\ SpinMeansTornOrBad'
  BY DEF CheckEnding, CopyInv, SpinMeansTornOrBad, eventVars
<1>4. ParseInv'
  <2>1. CASE offset' >= dataSz
    BY <2>1 DEF CheckEnding, ParseInv
  <2>2. CASE ~(offset' >= dataSz)
    <3>1. offset' < dataSz /\ offset' \in 0 .. dataSz - 1
      BY <1>0, <2>2
    <3> QED
      BY <3>1 DEF ParseInv
  <2> QED
    BY <2>1, <2>2
<1>5. NoLostConfig'
  BY DEF CheckEnding, NoLostConfig, Holds, eventVars
<1> QED
  BY <1>1, <1>2, <1>3, <1>4, <1>5

(* A turn that leaves the loop, or stays in it for ever.                       *)
LEMMA LeaveGood ==
  ASSUME ReconfigInv, mpc = "new", mpc' \in {"loop", "spin"},
         UNCHANGED <<storeVars, newCalcPending, eventVars, dataSz, dataResult, offset>>,
         sensors' \in Seq(Sensor), Len(sensors') <= MaxSensors,
         mpc' = "spin" => ~(dataResult \in Configs /\ WellFormed(dataResult))
  PROVE  ReconfigInv'
<1> USE DEF ReconfigInv
<1>1. StoreInv'
  BY MainKeepsStore
<1>2. TypeOK'
  BY DEF TypeOK, storeVars, eventVars
<1>3. CopyInv' /\ ParseInv' /\ NoLostConfig'
  BY DEF CopyInv, ParseInv, NoLostConfig, Holds, eventVars
<1>4. SpinMeansTornOrBad'
  BY DEF SpinMeansTornOrBad, WellFormed
<1> QED
  BY <1>1, <1>2, <1>3, <1>4

LEMMA ParseGood ==
  ASSUME ReconfigInv,
         NewDiagnosis \/ UnknownCode \/ Abort \/ NewRecorder \/ BadRecorder \/ NoHeader
  PROVE  ReconfigInv'
<1> DEFINE Good == dataResult \in Configs /\ WellFormed(dataResult)
<1>0. /\ TypeOK /\ ParseInv /\ mpc = "new"
      /\ sensors \in Seq(Sensor) /\ Len(sensors) <= MaxSensors
  BY DEF ReconfigInv, TypeOK, NewDiagnosis, UnknownCode, Abort, NewRecorder, BadRecorder, NoHeader
<1>1. offset \in Nat /\ dataSz \in Nat /\ offset < dataSz
  BY <1>0, ReconfigAssumption DEF ParseInv, TypeOK
<1>2. DiagSensor \in Sensor /\ Recorder \in Sensor
  BY DEF DiagSensor, Sensor, MaxCalculators
<1>3. /\ (offset + 2) + 1 = offset + 3 /\ (offset + 1) + 1 = offset + 2
      /\ offset + 1 \in Nat /\ offset + 2 \in Nat
  BY <1>1
<1>4. CASE NewDiagnosis
  <2>1. Good /\ offset + 2 < dataSz => dataResult[offset + 3] # "cmd"
    BY <1>0, <1>4, NextItem DEF NewDiagnosis, Diagnosis
  <2>2. sensors' \in Seq(Sensor) /\ Len(sensors') <= MaxSensors
    <3>1. CASE Len(sensors) < MaxSensors
      BY <3>1, <1>0, <1>2, <1>4, AddSensorTyped DEF NewDiagnosis
    <3>2. CASE \E k \in DOMAIN sensors : ShareWith(k)
      BY <3>2, <1>0, ShareTyped
    <3>3. CASE ShareWithNone
      BY <3>3, <1>0 DEF ShareWithNone
    <3> QED
      BY <3>1, <3>2, <3>3, <1>4 DEF NewDiagnosis
  <2> QED
    BY <1>0, <1>3, <1>4, <2>1, <2>2, TurnGood DEF NewDiagnosis
<1>5. CASE UnknownCode
  <2>1. Good /\ offset + 2 < dataSz => dataResult[offset + 3] # "cmd"
    BY <1>0, <1>5, NextItem DEF UnknownCode, Diagnosis
  <2> QED
    BY <1>0, <1>3, <1>5, <2>1, TurnGood DEF UnknownCode
<1>6. CASE Abort
  BY <1>0, <1>6, LeaveGood DEF Abort
<1>7. CASE NewRecorder
  <2>1. Good /\ offset + 1 < dataSz => dataResult[offset + 2] # "cmd"
    BY <1>0, <1>7, NextItem DEF NewRecorder, Diagnosis
  <2>2. sensors' \in Seq(Sensor) /\ Len(sensors') <= MaxSensors
    BY <1>0, <1>2, <1>7, AddSensorTyped DEF NewRecorder
  <2> QED
    BY <1>0, <1>3, <1>7, <2>1, <2>2, TurnGood DEF NewRecorder
<1>8. CASE BadRecorder
  <2>1. ~Good
    BY <1>0, <1>8, NextItem DEF BadRecorder
  <2>2. sensors' \in Seq(Sensor) /\ Len(sensors') <= MaxSensors
    BY <1>0, <1>2, <1>8, AddSensorTyped DEF BadRecorder
  <2>3. CASE mpc' = "spin" /\ UNCHANGED offset
    BY <1>0, <1>8, <2>1, <2>2, <2>3, LeaveGood DEF BadRecorder
  <2>4. CASE offset' \in offset + 1 .. dataSz /\ CheckEnding
    <3>1. offset' \in Nat
      BY <1>1, <2>4
    <3> QED
      BY <1>0, <1>8, <2>1, <2>2, <2>4, <3>1, TurnGood DEF BadRecorder
  <2> QED
    BY <1>8, <2>3, <2>4 DEF BadRecorder
<1>9. CASE NoHeader
  <2>1. ~Good
    BY <1>0, <1>9, NextItem DEF NoHeader
  <2> QED
    BY <1>0, <1>9, <2>1, LeaveGood DEF NoHeader
<1> QED
  BY <1>4, <1>5, <1>6, <1>7, <1>8, <1>9

LEMMA ResetGood ==
  ASSUME ReconfigInv, WatchdogReset
  PROVE  ReconfigInv'
<1>1. TypeOK'
  <2>1. w' \in 0 .. Len(reply') /\ dataSz' \in Nat /\ sz' \in Nat /\ Len(dataResult') <= dataSz'
    BY EmptyTyped, ReconfigAssumption DEF WatchdogReset
  <2>2. sensors' \in Seq(Sensor) /\ Len(sensors') <= MaxSensors
    BY EmptyTyped, ReconfigAssumption DEF WatchdogReset
  <2> QED
    BY <2>1, <2>2, EmptyTyped DEF WatchdogReset, TypeOK, ReconfigInv
<1>2. StoreInv' /\ CopyInv'
  BY DEF WatchdogReset, StoreInv, CopyInv
<1>3. ParseInv' /\ NoLostConfig' /\ SpinMeansTornOrBad'
  BY EmptyTyped DEF WatchdogReset, ParseInv, NoLostConfig, SpinMeansTornOrBad, Holds
<1> QED
  BY <1>1, <1>2, <1>3 DEF ReconfigInv

LEMMA NextGood == ReconfigInv /\ [Next]_vars => ReconfigInv'
<1> SUFFICES ASSUME ReconfigInv, [Next]_vars PROVE ReconfigInv'
  OBVIOUS
<1>1. CASE UNCHANGED vars
  BY <1>1 DEF ReconfigInv, vars, storeVars, eventVars, mainVars, TypeOK, StoreInv, CopyInv,
     ParseInv, NoLostConfig, SpinMeansTornOrBad, Holds
<1> QED
  BY <1>1, EventGood, ReadingGood, StopGood, ParseGood, ResetGood DEF Next, Main

-----------------------------------------------------------------------------
(* The inductive invariant of the reconfiguration. *)
THEOREM ReconfigInvariant == Spec => []ReconfigInv
BY InitGood, NextGood, PTL DEF Spec

(* The list of dynamic sensors and the calculators of each sensor stay within  *)
(* their arrays (NewDynSensors), whatever a reply or a torn copy of it holds.  *)
THEOREM TypeCorrect == Spec => []TypeOK
<1>1. ReconfigInv => TypeOK
  BY DEF ReconfigInv
<1> QED
  BY <1>1, ReconfigInvariant, PTL

(* Between two replies calcStorage holds the last configuration, unit for      *)
(* unit as far as RXBuff could take it, and no longer than it                  *)
(* (MainClass::event); this of replies of every length, until one is stored    *)
(* behind the end of calcStorage.                                              *)
THEOREM StorageWhole == Spec => []StoredIsWhole
<1>1. ReconfigInv => StoredIsWhole
  BY DEF ReconfigInv, StoreInv, StoredIsWhole
<1> QED
  BY <1>1, ReconfigInvariant, PTL

(* A configuration stored while the main loop copies the one before is not     *)
(* lost: the flag is cleared before anything is read.                          *)
THEOREM NothingLost == Spec => []NoLostConfig
<1>1. ReconfigInv => NoLostConfig
  BY DEF ReconfigInv
<1> QED
  BY <1>1, ReconfigInvariant, PTL

(* NewDynSensors gets to the end of every well-formed configuration that was   *)
(* copied whole.                                                               *)
THEOREM WholeCopyIsParsed == Spec => []SpinMeansTornOrBad
<1>1. ReconfigInv => SpinMeansTornOrBad
  BY DEF ReconfigInv
<1> QED
  BY <1>1, ReconfigInvariant, PTL
=============================================================================
