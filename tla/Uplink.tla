------------------------------- MODULE Uplink -------------------------------
(***************************************************************************)
(* The path of a measurement from a sensor thread to the server:           *)
(*                                                                         *)
(*   sensor thread --results--> main thread --ring--> ComHandler --> HTTP  *)
(*                                                                         *)
(* Sensor threads (MySensor::Main, StoreLastImpact of GPSSensor and        *)
(* IMUSensor) append samples to their results store under resultsMutex;    *)
(* the main loop (MainClass::run) captures every store in turn and hands   *)
(* it to ComHandler::AddResults, which builds the record in TXBuff and     *)
(* puts it into the ring under BuffMtx; the ComHandler thread drains the   *)
(* ring into a frame in the same TXBuff and posts it.                      *)
(*                                                                         *)
(* The ring is used through the queue of records it implements             *)
(* (RecordFifo, see RamCircBuff): records in order, IntSize bytes of       *)
(* header each.  A sample is <<sensor, n>>; SampleSize is its bytes.       *)
(* Every lock, try-lock and unlock is a step of its own, so a thread can   *)
(* be preempted while it holds a mutex.  The HTTP post (external) either   *)
(* succeeds or fails.                                                      *)
(***************************************************************************)
EXTENDS Integers, Sequences

CONSTANTS Sensors,      \* the sensor list, a sequence of sensor types
          MaxSamples,   \* bound: samples each sensor type takes
          MaxRecords,   \* bound: no stale capture is reported beyond this many records
          ResultsMax,   \* samples a results store can hold
          SampleSize,   \* bytes of a sample
          Capacity,     \* bytes of the ring (1024)
          FrameMax,     \* COM_HANDLER_BUFF_SIZE (2096): bytes of TXBuff
          tt            \* transfer type

IntSize == 4                    \* sizeof(int): the ring's header
HdrSize == 60                   \* sizeof(frameHdr)

ASSUME UplinkAssumption ==
  /\ Len(Sensors) \in Nat \ {0} /\ DOMAIN Sensors = 1 .. Len(Sensors)
  /\ MaxSamples \in [{Sensors[i] : i \in DOMAIN Sensors} -> Nat]
  /\ MaxRecords \in Nat \ {0} /\ ResultsMax \in Nat \ {0} /\ SampleSize \in Nat \ {0}
  /\ Capacity \in Nat \ {0}
  /\ FrameMax \in Nat /\ FrameMax >= HdrSize
  /\ tt \in {"TT_ASAP", "TT_HALF", "TT_ALMOST_FULL"}

VARIABLES
  produced,     \* per sensor: samples taken so far
  spc,          \* per sensor thread: "loop", "checked" or "locked"
  results,      \* per sensor: the samples in its store
  resMtx,       \* per sensor: who holds resultsMutex
  mpc, idx,     \* main thread: where it is, and at which sensor of the list
  dataResult,   \* main thread: the capture buffer
  len,          \* main thread: how much of it is announced valid
  BuffMtx,      \* who holds it
  TXBuff,       \* the records lying in the transmit buffer
  q, used,      \* the ring: records held and bytes used
  cpc,          \* ComHandler thread
  first, currLen, send,
  accepted,     \* history: records AddResults accepted, in order
  sent,         \* history: records handed to http.post, in order
  posted        \* history: bytes of TXBuff the last post was given

sensorVars == <<produced, spc, results, resMtx>>
mainVars == <<mpc, idx, dataResult, len>>
ringVars == <<q, used>>
comVars == <<cpc, first, currLen, send>>
history == <<accepted, sent, posted>>
vars == <<sensorVars, mainVars, BuffMtx, TXBuff, ringVars, comVars, history>>

Sensor == {Sensors[i] : i \in DOMAIN Sensors}

(* type, length and data of a record, as AddResults lays them out *)
RecordSize(r) == 3 + Len(r.data) * SampleSize
RingCost(r) == IntSize + RecordSize(r)
-----------------------------------------------------------------------------
Init ==
  /\ produced = [s \in Sensor |-> 0]
  /\ spc = [s \in Sensor |-> "loop"]
  /\ results = [s \in Sensor |-> <<>>]
  /\ resMtx = [s \in Sensor |-> "free"]
  /\ mpc = "capture" /\ idx = 1 /\ dataResult = <<>> /\ len = 0
  /\ BuffMtx = "free" /\ TXBuff = <<>>
  /\ q = <<>> /\ used = 0
  /\ cpc = "wait" /\ first = TRUE /\ currLen = 0 /\ send = FALSE
  /\ accepted = <<>> /\ sent = <<>> /\ posted = 0

-----------------------------------------------------------------------------
(* Mutant: StoreLastImpact without its check for space. *)
SensorLoopUnchecked(s) ==
  /\ spc[s] = "loop"
  /\ produced[s] < MaxSamples[s]
  /\ produced' = [produced EXCEPT ![s] = @ + 1]
  /\ spc' = [spc EXCEPT ![s] = "checked"]
  /\ UNCHANGED <<results, resMtx, mainVars, BuffMtx, TXBuff, ringVars, comVars, history>>

(* Sensor thread: Loop takes a sample, then StoreLastImpact checks for space   *)
(* before it takes the mutex; with no space the sample is dropped.             *)
SensorLoop(s) ==
  /\ spc[s] = "loop"
  /\ produced[s] < MaxSamples[s]
  /\ produced' = [produced EXCEPT ![s] = @ + 1]
  /\ spc' = [spc EXCEPT ![s] = IF ResultsMax - Len(results[s]) >= 1 THEN "checked" ELSE "loop"]
  /\ UNCHANGED <<results, resMtx, mainVars, BuffMtx, TXBuff, ringVars, comVars, history>>

(* resultsMutex.trylock(): on failure the sample is dropped. *)
SensorTryLock(s) ==
  /\ spc[s] = "checked"
  /\ \/ /\ resMtx[s] = "free"
        /\ resMtx' = [resMtx EXCEPT ![s] = "sensor"]
        /\ spc' = [spc EXCEPT ![s] = "locked"]
     \/ /\ resMtx[s] # "free"
        /\ spc' = [spc EXCEPT ![s] = "loop"]
        /\ UNCHANGED resMtx
  /\ UNCHANGED <<produced, results, mainVars, BuffMtx, TXBuff, ringVars, comVars, history>>

(* The sample is copied into the store and the mutex released. *)
SensorStore(s) ==
  /\ spc[s] = "locked"
  /\ results' = [results EXCEPT ![s] = Append(@, <<s, produced[s]>>)]
  /\ resMtx' = [resMtx EXCEPT ![s] = "free"]
  /\ spc' = [spc EXCEPT ![s] = "loop"]
  /\ UNCHANGED <<produced, mainVars, BuffMtx, TXBuff, ringVars, comVars, history>>

-----------------------------------------------------------------------------
(* Mutant: i <= GetNSensors() in the main loop. *)
NextIndexOffByOne == IF idx > Len(Sensors) THEN 1 ELSE idx + 1

(* The next sensor of the list; after the last one the loop starts again. *)
NextIndex == IF idx = Len(Sensors) THEN 1 ELSE idx + 1

(* MySensor::Capture takes the mutex, if it can. *)
CaptureLock ==
  LET s == Sensors[idx]
  IN /\ mpc = "capture"
     /\ resMtx[s] = "free"
     /\ resMtx' = [resMtx EXCEPT ![s] = "main"]
     /\ mpc' = "copy"
     /\ UNCHANGED <<produced, spc, results, idx, dataResult, len, BuffMtx, TXBuff,
                    ringVars, comVars, history>>

(* It cannot: the code sets its parameter len, a pointer, to 0.  The caller's  *)
(* length and buffer stay as the previous capture left them.                   *)
CaptureBusy ==
  /\ mpc = "capture"
  /\ resMtx[Sensors[idx]] # "free"
  /\ len = 0 \/ Len(accepted) < MaxRecords
  /\ mpc' = "check"
  /\ UNCHANGED <<sensorVars, idx, dataResult, len, BuffMtx, TXBuff, ringVars, comVars, history>>

(* The store is copied and emptied, and the mutex released. *)
CaptureCopy ==
  LET s == Sensors[idx]
  IN /\ mpc = "copy"
     /\ dataResult' = results[s]
     /\ len' = Len(results[s])
     /\ results' = [results EXCEPT ![s] = <<>>]
     /\ resMtx' = [resMtx EXCEPT ![s] = "free"]
     /\ mpc' = "check"
     /\ UNCHANGED <<produced, spc, idx, BuffMtx, TXBuff, ringVars, comVars, history>>

(* if(len) in the main loop. *)
CheckLen ==
  /\ mpc = "check"
  /\ \/ /\ len = 0
        /\ mpc' = "capture"
        /\ idx' = NextIndex
     \/ /\ len # 0
        /\ mpc' = "add"
        /\ UNCHANGED idx
  /\ UNCHANGED <<sensorVars, dataResult, len, BuffMtx, TXBuff, ringVars, comVars, history>>

(* Mutant: AddResults builds its record without BuffMtx. *)
AddResultsNoLock ==
  /\ mpc = "add"
  /\ TXBuff' = <<[type |-> Sensors[idx], data |-> dataResult]>>
  /\ mpc' = "put"
  /\ UNCHANGED <<sensorVars, idx, dataResult, len, BuffMtx, ringVars, comVars, history>>

(* AddResults: lock BuffMtx and build the record at the start of TXBuff. *)
AddResultsLock ==
  /\ mpc = "add"
  /\ BuffMtx = "free"
  /\ BuffMtx' = "main"
  /\ TXBuff' = <<[type |-> Sensors[idx], data |-> dataResult]>>
  /\ mpc' = "put"
  /\ UNCHANGED <<sensorVars, idx, dataResult, len, ringVars, comVars, history>>

(* Mutant: the early return of a refused Put forgets the unlock. *)
AddResultsPutNoUnlock ==
  LET r == TXBuff[1]
      fits == used + RingCost(r) <= Capacity
  IN /\ mpc = "put"
     /\ q' = IF fits THEN Append(q, r) ELSE q
     /\ used' = IF fits THEN used + RingCost(r) ELSE used
     /\ accepted' = IF fits THEN Append(accepted, r) ELSE accepted
     /\ BuffMtx' = IF fits THEN "free" ELSE BuffMtx
     /\ mpc' = "capture"
     /\ idx' = NextIndex
     /\ UNCHANGED <<sensorVars, dataResult, len, TXBuff, comVars, sent, posted>>

(* AddResults: put the record into the ring, or drop it, and unlock. *)
AddResultsPut ==
  LET r == TXBuff[1]
      fits == used + RingCost(r) <= Capacity
  IN /\ mpc = "put"
     /\ q' = IF fits THEN Append(q, r) ELSE q
     /\ used' = IF fits THEN used + RingCost(r) ELSE used
     /\ accepted' = IF fits THEN Append(accepted, r) ELSE accepted
     /\ BuffMtx' = "free"
     /\ mpc' = "capture"
     /\ idx' = NextIndex
     /\ UNCHANGED <<sensorVars, dataResult, len, TXBuff, comVars, sent, posted>>

-----------------------------------------------------------------------------
(* NeedTransfer, read without BuffMtx. *)
NeedTransfer ==
  \/ tt = "TT_ASAP"
  \/ tt = "TT_HALF" /\ 2 * used >= Capacity
  \/ tt = "TT_ALMOST_FULL" /\ 5 * used >= 4 * Capacity
  \/ first

(* The ComHandler thread wakes up and decides to transfer. *)
ComWake ==
  /\ cpc = "wait"
  /\ NeedTransfer
  /\ cpc' = "lock"
  /\ UNCHANGED <<sensorVars, mainVars, BuffMtx, TXBuff, ringVars, first, currLen,
                 send, history>>

(* Mutant: currLen is not reset for the next frame. *)
FillHeaderNoReset ==
  /\ TXBuff' = <<>>
  /\ first' = FALSE
  /\ currLen' = currLen + HdrSize
  /\ cpc' = "drain"

(* FillHeader: the header goes to the start of TXBuff; the session mark is     *)
(* consumed whatever becomes of the frame.                                     *)
FillHeader ==
  /\ TXBuff' = <<>>
  /\ first' = FALSE
  /\ currLen' = HdrSize
  /\ cpc' = "drain"

(* DoServerRequest: lock and start a frame. *)
ComLock ==
  /\ cpc = "lock"
  /\ BuffMtx = "free"
  /\ BuffMtx' = "com"
  /\ send' = TRUE
  /\ FillHeader
  /\ UNCHANGED <<sensorVars, mainVars, ringVars, history>>

(* One turn of the inner loop: Probe, and Get behind what TXBuff holds. *)
ComDrain ==
  /\ cpc = "drain"
  /\ q # <<>>
  /\ RecordSize(Head(q)) + currLen <= FrameMax
  /\ TXBuff' = Append(TXBuff, Head(q))
  /\ currLen' = currLen + RecordSize(Head(q))
  /\ q' = Tail(q)
  /\ used' = used - RingCost(Head(q))
  /\ UNCHANGED <<sensorVars, mainVars, BuffMtx, cpc, first, send, history>>

(* Mutant: send is not cleared when the ring is empty. *)
ComFrameDoneKeepSend ==
  /\ cpc = "drain"
  /\ \/ q = <<>>
     \/ q # <<>> /\ RecordSize(Head(q)) + currLen > FrameMax
  /\ cpc' = "post"
  /\ UNCHANGED <<sensorVars, mainVars, BuffMtx, TXBuff, ringVars, first, currLen,
                 send, history>>

(* The inner loop ends: the ring is empty, or the next record does not fit. *)
ComFrameDone ==
  /\ cpc = "drain"
  /\ \/ q = <<>> /\ send' = FALSE
     \/ /\ q # <<>>
        /\ RecordSize(Head(q)) + currLen > FrameMax
        /\ UNCHANGED send
  /\ cpc' = "post"
  /\ UNCHANGED <<sensorVars, mainVars, BuffMtx, TXBuff, ringVars, first, currLen,
                 history>>

(* http.post of TXBuff, one byte more than the frame ("WORKAROUND +1"), and    *)
(* the outcome for the outer loop: another frame, or unlock and wait.  A       *)
(* failed post is logged and its records are gone.  The answer's configuration *)
(* goes to MainClass::event (module Reconfig).                                 *)
ComPost ==
  /\ cpc = "post"
  /\ sent' = sent \o TXBuff
  /\ posted' = currLen + 1
  /\ \/ send /\ FillHeader /\ UNCHANGED <<BuffMtx, send>>
     \/ /\ ~send
        /\ BuffMtx' = "free"
        /\ cpc' = "wait"
        /\ UNCHANGED <<TXBuff, first, currLen, send>>
  /\ UNCHANGED <<sensorVars, mainVars, ringVars, accepted>>

-----------------------------------------------------------------------------
Next == \/ \E s \in Sensor : SensorLoop(s)
        \/ \E s \in Sensor : SensorTryLock(s)
        \/ \E s \in Sensor : SensorStore(s)
        \/ CaptureLock \/ CaptureBusy \/ CaptureCopy \/ CheckLen
        \/ AddResultsLock \/ AddResultsPut
        \/ ComWake \/ ComLock \/ ComDrain \/ ComFrameDone \/ ComPost

(* Every thread is scheduled; a thread waiting for BuffMtx gets it, since RTX  *)
(* hands a released mutex to the first waiter; the post ends (it has a         *)
(* timeout).  Taking samples is not required.                                  *)
Fairness ==
  /\ \A s \in Sensor : WF_vars(SensorTryLock(s) \/ SensorStore(s))
  /\ WF_vars(CaptureLock \/ CaptureBusy \/ CaptureCopy \/ CheckLen \/ AddResultsPut)
  /\ SF_vars(AddResultsLock)
  /\ SF_vars(ComLock)
  /\ WF_vars(ComWake \/ ComDrain \/ ComFrameDone \/ ComPost)

Spec == Init /\ [][Next]_vars
FairSpec == Spec /\ Fairness
-----------------------------------------------------------------------------
Sample == Sensor \X Nat
Record == [type : Sensor, data : Seq(Sample)]

(* Types of the state. *)
TypeOK ==
  /\ produced \in [Sensor -> Nat] /\ \A s \in Sensor : produced[s] <= MaxSamples[s]
  /\ spc \in [Sensor -> {"loop", "checked", "locked"}]
  /\ results \in [Sensor -> Seq(Sample)]
  /\ resMtx \in [Sensor -> {"free", "sensor", "main"}]
  /\ mpc \in {"capture", "copy", "check", "add", "put"}
  /\ idx \in 1 .. Len(Sensors)
  /\ dataResult \in Seq(Sample) /\ len \in Nat
  /\ BuffMtx \in {"free", "main", "com"}
  /\ TXBuff \in Seq(Record) /\ q \in Seq(Record) /\ used \in Nat
  /\ cpc \in {"wait", "lock", "drain", "post"}
  /\ first \in BOOLEAN /\ currLen \in Nat /\ send \in BOOLEAN
  /\ accepted \in Seq(Record) /\ sent \in Seq(Record) /\ posted \in Nat

(* The check for space in StoreLastImpact is made before the mutex is taken,   *)
(* and a capture may empty the store between the two; the store still never    *)
(* holds more than it has room for.                                            *)
StoreNeverOverflows == \A s \in Sensor : Len(results[s]) <= ResultsMax

(* What is on its way: posted, in the frame being built, or in the ring.       *)
InFlight == IF BuffMtx = "com" THEN TXBuff ELSE <<>>

(* Between AddResults and http.post no record is lost, duplicated or           *)
(* reordered, although both use the same TXBuff: what was accepted is what     *)
(* was posted, then the frame being built, then the ring.                      *)
RecordsConserved == accepted = sent \o InFlight \o q

SumTo(c) == LET sum[k \in 0 .. Len(c)] == IF k = 0 THEN 0 ELSE sum[k - 1] + c[k] IN sum
(* Bytes of a sequence of records in the ring, and in a frame behind its header. *)
RingBytes(s) == SumTo([k \in 1 .. Len(s) |-> RingCost(s[k])])[Len(s)]
FrameBytes(s) == HdrSize + SumTo([k \in 1 .. Len(s) |-> RecordSize(s[k])])[Len(s)]

(* Through all the frames of one transfer currLen is the length of the header  *)
(* and the records in TXBuff and the frame lies inside TXBuff.  A post takes   *)
(* one byte more: at most one behind TXBuff, and never more than header and    *)
(* ring can fill, so it stays inside a TXBuff larger than both (2096 > 60 +    *)
(* 1024).                                                                      *)
FrameFits ==
  /\ cpc \in {"drain", "post"} => currLen = FrameBytes(TXBuff) /\ currLen <= FrameMax
  /\ posted <= FrameMax + 1
  /\ HdrSize + Capacity < FrameMax => posted <= FrameMax

(* A record is built from samples of the sensor whose type it carries.         *)
(* Doc/M2M_Norm.txt gives every data block its sensorType; the captured data   *)
(* of one sensor must not be posted under the type of another.                 *)
RecordsKeepTheirSensor ==
  \A i \in DOMAIN accepted : \A j \in DOMAIN accepted[i].data :
     accepted[i].data[j][1] = accepted[i].type

(* A ring that reached the transfer level is emptied: the ComHandler thread    *)
(* always gets BuffMtx and DoServerRequest comes around until Probe finds      *)
(* nothing.                                                                    *)
FullRingDrains == NeedTransfer ~> (q = <<>>)

(* AddResults never waits for ever for a transfer. *)
AddResultsReturns == (mpc = "add") ~> (mpc # "add")
=============================================================================
