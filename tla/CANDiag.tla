------------------------------ MODULE CANDiag ------------------------------
(***************************************************************************)
(* A diagnosis sensor asking the car: CANDiagSensorBase with its variants  *)
(* 6A and 68, the communicator's ExecuteCommand and message queue, the     *)
(* keep-alive timer, and the calculator that answers, as                   *)
(* CANCommunicatorSim6A plays it.                                          *)
(*                                                                         *)
(* Two threads execute commands through the one communicator: the sensor's *)
(* own thread (DiagStart, DiagSequence) and RTX's timer thread, which runs *)
(* the keep-alive.  Every exchange is made under DiagTxCMD: the queue is   *)
(* flushed for a second, the identifier registered, the command sent, and  *)
(* the answer collected until it is complete or 100 ms bring no frame.     *)
(* Between the bus and the queue stands the CAN thread, which looks up the *)
(* callback and calls it in two steps (module CANInterface).               *)
(*                                                                         *)
(* A frame of the calculator is [kind, len, tag, part]: short (kind 0x0n), *)
(* first of a segmented answer (0x10) or next segment (0x2n); len is the   *)
(* announced length; tag and part are history: the exchange it answers     *)
(* (counted modulo Tags) and its number in the answer.                     *)
(***************************************************************************)
EXTENDS Integers, Sequences, FiniteSets

CONSTANTS Sensors,     \* what the sensor may be: [proto, calculators], a calculator being
                       \* the sequence of its commands [type, ans], ans the answer's length
          QueueSize,   \* of Queue<CANMessage,10>
          TimerQueue,  \* OS_TIMERCBQS: expirations waiting for the timer thread
          StoreMax     \* CAN_DIAG_STORE_SIZE

Tags == 2              \* exchanges told apart: this one and an earlier one
CommandType == {"CMD_DIAG_START", "CMD_KEEP_ALIVE", "CMD_ACK", "CMD_NORM"}

Command == [type : CommandType, ans : 0 .. 64]          \* response[64] of DiagSequence

(* About the car: no answer is longer than the array its caller has for it,    *)
(* response[64] in DiagSequence and response[32] in DiagStart.  ExecuteCommand *)
(* checks no announced length; what a longer answer writes behind the array is *)
(* not modelled.  What the calculator answers to a keep-alive (response[32]),  *)
(* and what a 68 is asked for, fits into one frame.                            *)
ASSUME DiagAssumption ==
  /\ \A s \in Sensors :
       /\ s.proto \in {"6A", "68"}
       /\ s.calculators \in Seq(Seq(Command)) /\ s.calculators # <<>>
       /\ \A c \in DOMAIN s.calculators : \A k \in DOMAIN s.calculators[c] :
            /\ s.proto = "68" => s.calculators[c][k].ans < 8
            /\ s.calculators[c][k].type = "CMD_DIAG_START" => s.calculators[c][k].ans <= 32
            /\ s.calculators[c][k].type = "CMD_KEEP_ALIVE" => s.calculators[c][k].ans <= 6
  /\ QueueSize \in Nat \ {0} /\ TimerQueue \in Nat \ {0} /\ StoreMax \in Nat \ {0}

VARIABLES
  sensor,                   \* the sensor, one of Sensors
  nCalculators,
  pc, calc, cmd,            \* per thread: where, at which calculator and command
  respLen, currLen, response, outcome,    \* per thread: ExecuteCommand's locals
  DiagTxCMD,                \* who holds it
  state,                    \* the communicator's state
  queue, registered,        \* the communicator's queue; its identifier is in the table
  arriving,                 \* the frame the CAN thread is delivering
  toCar, fromCar,           \* frames on the bus and in the receive ring
  carState, carAnswer,      \* the calculator
  tag,                      \* history: the exchange under way
  num, resultsMutex,        \* the results store
  timer, due, CalcIndex     \* KeepAliveTimer, its pending expirations

Threads == {"sensor", "timer"}
busVars == <<toCar, fromCar, arriving>>
carVars == <<carState, carAnswer>>
comVars == <<state, queue, registered, tag>>
execVars == <<respLen, currLen, response, outcome>>
storeVars == <<num, resultsMutex>>
timerVars == <<timer, due, CalcIndex>>
proto == sensor.proto
vars == <<sensor, nCalculators, pc, calc, cmd, execVars, DiagTxCMD, comVars, busVars, carVars,
          storeVars, timerVars>>

NoFrame == [kind |-> "none", len |-> 0, tag |-> 0, part |-> 0]
NoAnswer == [len |-> 0, tag |-> 0]

Init ==
  /\ sensor \in Sensors
  /\ nCalculators = 1
  /\ pc = [t \in Threads |-> IF t = "sensor" THEN "loop" ELSE "idle"]
  /\ calc = [t \in Threads |-> 1] /\ cmd = [t \in Threads |-> 0]
  /\ respLen = [t \in Threads |-> 0] /\ currLen = [t \in Threads |-> 0]
  /\ response = [t \in Threads |-> <<>>] /\ outcome = [t \in Threads |-> "none"]
  /\ DiagTxCMD = "free"
  /\ state = "IDLE" /\ queue = <<>> /\ registered = FALSE /\ tag = 0
  /\ arriving = NoFrame /\ toCar = <<>> /\ fromCar = <<>>
  /\ carState = "IDLE" /\ carAnswer = NoAnswer
  /\ num = 0 /\ resultsMutex = "free"
  /\ timer = FALSE /\ due = 0 /\ CalcIndex = 1

-----------------------------------------------------------------------------
(* CANDiagCalculator: the first command of a type behind the k-th; 0 is NULL.  *)
Program(c) == sensor.calculators[c]
NextCommand(c, k, type) ==
  LET found == {l \in DOMAIN Program(c) : l > k /\ Program(c)[l].type = type}
  IN IF found = {} THEN 0 ELSE CHOOSE l \in found : \A m \in found : l <= m
FirstCommand(c, type) == NextCommand(c, 0, type)

Go(t, to) == pc' = [pc EXCEPT ![t] = to]
GoWith(t, to, c, k) ==
  /\ Go(t, to)
  /\ calc' = [calc EXCEPT ![t] = c]
  /\ cmd' = [cmd EXCEPT ![t] = k]

-----------------------------------------------------------------------------
(* ExecuteCommand, between DiagTxCMD.lock and unlock, by thread t.             *)

(* DiagTxCMD is taken, state and respLen are reset. *)
Lock(t) ==
  /\ pc[t] = "lock"
  /\ DiagTxCMD = "free"
  /\ DiagTxCMD' = t
  /\ Go(t, "flush")
  /\ respLen' = [respLen EXCEPT ![t] = 0]
  /\ state' = "IDLE"
  /\ UNCHANGED <<sensor, nCalculators, calc, cmd, currLen, response, outcome, queue, registered,
                 tag, busVars, carVars, storeVars, timerVars>>

(* FlushQueue: a frame is thrown away. *)
FlushGet(t) ==
  /\ pc[t] = "flush"
  /\ queue # <<>>
  /\ queue' = Tail(queue)
  /\ UNCHANGED <<sensor, nCalculators, pc, calc, cmd, execVars, DiagTxCMD, state, registered, tag,
                 busVars, carVars, storeVars, timerVars>>

(* A second without a frame: the calculator (external) has long answered what  *)
(* it was going to answer.                                                     *)
Quiet == toCar = <<>> /\ fromCar = <<>> /\ arriving = NoFrame

(* Mutant: the command is sent without flushing. *)
FlushSkipped(t) ==
  /\ pc[t] = "flush"
  /\ registered' = TRUE
  /\ Go(t, "send")
  /\ UNCHANGED <<sensor, nCalculators, calc, cmd, execVars, DiagTxCMD, state, queue, tag, busVars,
                 carVars, storeVars, timerVars>>

(* FlushQueue ends; AddCallBackForId. *)
FlushEnd(t) ==
  /\ pc[t] = "flush"
  /\ queue = <<>> /\ Quiet
  /\ registered' = TRUE
  /\ Go(t, "send")
  /\ UNCHANGED <<sensor, nCalculators, calc, cmd, execVars, DiagTxCMD, state, queue, tag, busVars,
                 carVars, storeVars, timerVars>>

(* The command is sent: to the address of the communicator's calculator,       *)
(* whichever calculator of the sensor it belongs to.                           *)
Send(t) ==
  LET c == Program(calc[t])[cmd[t]]
  IN /\ pc[t] = "send"
     /\ tag' = (tag + 1) % Tags
     /\ toCar' = Append(toCar, [type |-> c.type, ans |-> c.ans, tag |-> tag'])
     /\ Go(t, "answer")
     /\ UNCHANGED <<sensor, nCalculators, calc, cmd, execVars, DiagTxCMD, state, queue, registered,
                    fromCar, arriving, carVars, storeVars, timerVars>>

Chunk(f) == [tag |-> f.tag, part |-> f.part]

(* Taking the next frame of the queue while waiting for the answer.            *)
Take(t) ==
  /\ pc[t] = "answer"
  /\ queue # <<>>
  /\ queue' = Tail(queue)
  /\ UNCHANGED <<sensor, nCalculators, calc, cmd, DiagTxCMD, registered, tag, fromCar, arriving,
                 carVars, storeVars, timerVars>>

(* A short answer (6A), or any frame at all (68), is the whole response. *)
AnswerShort(t) ==
  LET f == Head(queue)
  IN /\ Take(t)
     /\ proto = "68" \/ (state = "IDLE" /\ f.kind = "short")
     /\ respLen' = [respLen EXCEPT ![t] = f.len]
     /\ response' = [response EXCEPT ![t] = <<Chunk(f)>>]
     /\ outcome' = [outcome EXCEPT ![t] = "complete"]
     /\ Go(t, "end")
     /\ UNCHANGED <<currLen, state, toCar>>

(* The first frame: six bytes are kept, and the rest asked for with the        *)
(* calculator's CMD_ACK, if it has one.                                        *)
AnswerFirst(t) ==
  LET f == Head(queue)
  IN /\ Take(t)
     /\ proto = "6A" /\ state = "IDLE" /\ f.kind = "first"
     /\ respLen' = [respLen EXCEPT ![t] = f.len]
     /\ currLen' = [currLen EXCEPT ![t] = 6]
     /\ response' = [response EXCEPT ![t] = <<Chunk(f)>>]
     /\ IF FirstCommand(1, "CMD_ACK") # 0
        THEN /\ toCar' = Append(toCar, [type |-> "CMD_ACK", ans |-> 0, tag |-> tag])
             /\ state' = "EXT_CMD"
        ELSE UNCHANGED <<toCar, state>>
     /\ UNCHANGED <<pc, outcome>>

Smaller(a, b) == IF a < b THEN a ELSE b

(* Mutant: seven bytes are copied from every segment. *)
PayloadUnclipped(t) == 7
Payload(t) == Smaller(respLen[t] - currLen[t], 7)

(* A segment is appended; the answer is complete when it has the length L.     *)
Segment(t, f, L) ==
  LET have == currLen[t] + Payload(t)
      complete == have >= L
  IN /\ currLen' = [currLen EXCEPT ![t] = have]
     /\ response' = [response EXCEPT ![t] = Append(@, Chunk(f))]
     /\ outcome' = [outcome EXCEPT ![t] = IF complete THEN "complete" ELSE @]
     /\ state' = IF complete THEN "IDLE" ELSE state
     /\ Go(t, IF complete THEN "end" ELSE "answer")

(* A further segment, whatever its number; a frame that is none while one is   *)
(* expected, or the other way round, is ignored.                               *)
AnswerNext(t) ==
  LET f == Head(queue)
  IN /\ Take(t)
     /\ proto = "6A" /\ (state = "EXT_CMD" \/ f.kind = "next")
     /\ IF state = "EXT_CMD" /\ f.kind = "next"
        THEN Segment(t, f, respLen[t])
        ELSE UNCHANGED <<currLen, response, outcome, state, pc>>
     /\ UNCHANGED <<respLen, toCar>>

(* No frame for 100 ms: the exchange ends with what it has; respLen keeps the  *)
(* announced length.                                                           *)
Timeout(t) ==
  /\ pc[t] = "answer"
  /\ queue = <<>>
  /\ outcome' = [outcome EXCEPT ![t] = "timeout"]
  /\ state' = "IDLE"
  /\ Go(t, "end")
  /\ UNCHANGED <<sensor, nCalculators, calc, cmd, respLen, currLen, response, DiagTxCMD, queue,
                 registered, tag, busVars, carVars, storeVars, timerVars>>

(* The locals of a call that returns; the sensor goes on to use respLen. *)
Forget(t) ==
  /\ respLen' = [respLen EXCEPT ![t] = IF t = "timer" THEN 0 ELSE @]
  /\ currLen' = [currLen EXCEPT ![t] = 0]
  /\ response' = [response EXCEPT ![t] = <<>>]
  /\ outcome' = [outcome EXCEPT ![t] = "none"]

(* Mutant: the timer thread returns without unlocking. *)
EndCommandKeepsLock(t) ==
  /\ pc[t] = "end"
  /\ registered' = FALSE
  /\ DiagTxCMD' = IF t = "timer" THEN DiagTxCMD ELSE "free"
  /\ Go(t, IF t = "timer" THEN "idle"
           ELSE IF Program(calc[t])[cmd[t]].type = "CMD_DIAG_START" THEN "keep" ELSE "check")
  /\ Forget(t)
  /\ UNCHANGED <<sensor, nCalculators, calc, cmd, state, queue, tag, busVars, carVars, storeVars,
                 timerVars>>

(* DelCallBackForId, and DiagTxCMD.unlock in the caller. *)
EndCommand(t) ==
  /\ pc[t] = "end"
  /\ registered' = FALSE
  /\ DiagTxCMD' = "free"
  /\ Go(t, IF t = "timer" THEN "idle"
           ELSE IF Program(calc[t])[cmd[t]].type = "CMD_DIAG_START" THEN "keep" ELSE "check")
  /\ Forget(t)
  /\ UNCHANGED <<sensor, nCalculators, calc, cmd, state, queue, tag, busVars, carVars, storeVars,
                 timerVars>>

-----------------------------------------------------------------------------
(* The CAN thread finds the communicator's entry, or nobody wants the frame. *)
Dispatch ==
  /\ fromCar # <<>> /\ arriving = NoFrame
  /\ arriving' = IF registered THEN Head(fromCar) ELSE NoFrame
  /\ fromCar' = Tail(fromCar)
  /\ UNCHANGED <<sensor, nCalculators, pc, calc, cmd, execVars, DiagTxCMD, comVars, toCar, carVars,
                 storeVars, timerVars>>

(* CANCommunicatorMaster::event: a copy is queued; a full queue refuses it.    *)
Event ==
  /\ arriving # NoFrame
  /\ queue' = IF Len(queue) < QueueSize THEN Append(queue, arriving) ELSE queue
  /\ arriving' = NoFrame
  /\ UNCHANGED <<sensor, nCalculators, pc, calc, cmd, execVars, DiagTxCMD, state, registered, tag,
                 toCar, fromCar, carVars, storeVars, timerVars>>

(* A frame meets a full receive ring (CANInterface) and is lost. *)
RxLost ==
  /\ fromCar # <<>>
  /\ fromCar' = Tail(fromCar)
  /\ UNCHANGED <<sensor, nCalculators, pc, calc, cmd, execVars, DiagTxCMD, comVars, toCar, arriving,
                 carVars, storeVars, timerVars>>

-----------------------------------------------------------------------------
(* CANCommunicatorSim6A::event, the calculator.                                *)
Frame(kind, len, g, part) == [kind |-> kind, len |-> len, tag |-> g, part |-> part]
Segments(len) == len \div 7                   \* frames behind the first one, which holds 6

(* The keep-alive is answered in every state. *)
CarKeepAlive ==
  /\ toCar # <<>> /\ Head(toCar).type = "CMD_KEEP_ALIVE"
  /\ fromCar' = Append(fromCar, Frame("short", 1, Head(toCar).tag, 0))
  /\ toCar' = Tail(toCar)
  /\ UNCHANGED <<sensor, nCalculators, pc, calc, cmd, execVars, DiagTxCMD, comVars, arriving,
                 carVars, storeVars, timerVars>>

(* A command (RequestDB, FormatResponse): no answer, one frame, or the first   *)
(* frame of several; an ACK that nobody waits for has no answer.               *)
CarCommand ==
  LET c == Head(toCar)
  IN /\ toCar # <<>> /\ c.type # "CMD_KEEP_ALIVE" /\ carState = "IDLE"
     /\ toCar' = Tail(toCar)
     /\ fromCar' = IF c.ans = 0 THEN fromCar
                   ELSE Append(fromCar, Frame(IF c.ans > 6 /\ proto = "6A" THEN "first" ELSE "short",
                                              c.ans, c.tag, 0))
     /\ carState' = IF c.ans > 6 /\ proto = "6A" THEN "EXT_CMD" ELSE "IDLE"
     /\ carAnswer' = IF carState' = "IDLE" THEN NoAnswer ELSE [len |-> c.ans, tag |-> c.tag]
     /\ UNCHANGED <<sensor, nCalculators, pc, calc, cmd, execVars, DiagTxCMD, comVars, arriving,
                    storeVars, timerVars>>

(* Behind a first frame: the ACK brings all segments, anything else is         *)
(* swallowed and ends the answer.                                              *)
CarExtended ==
  LET c == Head(toCar)
      n == Segments(carAnswer.len)
  IN /\ toCar # <<>> /\ c.type # "CMD_KEEP_ALIVE" /\ carState = "EXT_CMD"
     /\ toCar' = Tail(toCar)
     /\ fromCar' = IF c.type = "CMD_ACK"
                   THEN fromCar \o [p \in 1 .. n |-> Frame("next", 0, carAnswer.tag, p)]
                   ELSE fromCar
     /\ carState' = "IDLE" /\ carAnswer' = NoAnswer
     /\ UNCHANGED <<sensor, nCalculators, pc, calc, cmd, execVars, DiagTxCMD, comVars, arriving,
                    storeVars, timerVars>>

-----------------------------------------------------------------------------
(* Loop: DiagStart of the next calculator, or the end of the loop. *)
DiagStart ==
  /\ pc["sensor"] = "loop"
  /\ calc["sensor"] <= nCalculators
  /\ LET k == FirstCommand(calc["sensor"], "CMD_DIAG_START")
     IN GoWith("sensor", IF k = 0 THEN "keep" ELSE "lock", calc["sensor"], k)
  /\ UNCHANGED <<sensor, nCalculators, execVars, DiagTxCMD, comVars, busVars, carVars, storeVars,
                 timerVars>>

LoopEnd ==
  /\ pc["sensor"] = "loop"
  /\ calc["sensor"] > nCalculators
  /\ GoWith("sensor", "loop", 1, 0)
  /\ UNCHANGED <<sensor, nCalculators, execVars, DiagTxCMD, comVars, busVars, carVars, storeVars,
                 timerVars>>

(* KeepAliveStart (of a 6A; a 68 has none), then DiagSequence looks for its    *)
(* first command.  The timer starts unless its holding frequency is 0; without *)
(* a CMD_KEEP_ALIVE the frequency is read through a null pointer.              *)
KeepAliveStart ==
  LET c == calc["sensor"]
      k == FirstCommand(c, "CMD_NORM")
  IN /\ pc["sensor"] = "keep"
     /\ GoWith("sensor", IF k = 0 THEN "stop" ELSE "lock", c, k)
     /\ IF proto = "6A"
        THEN timer' \in {timer, TRUE} /\ CalcIndex' = c
        ELSE UNCHANGED <<timer, CalcIndex>>
     /\ UNCHANGED <<sensor, nCalculators, execVars, DiagTxCMD, comVars, busVars, carVars, storeVars,
                    due>>

(* The next command of DiagSequence, or KeepAliveStop. *)
GoNext ==
  LET k == NextCommand(calc["sensor"], cmd["sensor"], "CMD_NORM")
  IN GoWith("sensor", IF k = 0 THEN "stop" ELSE "lock", calc["sensor"], k)

(* Mutant: the length of the answer is forgotten too. *)
RoomForHeader == num + 4 + 2 < StoreMax

(* The check for room, which forgets the time stamp of 4 bytes. *)
Room == num + 4 + 2 + respLen["sensor"] < StoreMax

(* if(len), and the check for room, before the mutex is taken. *)
CheckResult ==
  /\ pc["sensor"] = "check"
  /\ IF respLen["sensor"] # 0 /\ Room
     THEN Go("sensor", "trylock") /\ UNCHANGED <<calc, cmd>>
     ELSE GoNext
  /\ UNCHANGED <<sensor, nCalculators, execVars, DiagTxCMD, comVars, busVars, carVars, storeVars,
                 timerVars>>

(* resultsMutex.trylock: on failure the answer is dropped. *)
TryLock ==
  /\ pc["sensor"] = "trylock"
  /\ \/ /\ resultsMutex = "free"
        /\ resultsMutex' = "sensor"
        /\ Go("sensor", "store")
        /\ UNCHANGED <<calc, cmd>>
     \/ /\ resultsMutex # "free"
        /\ GoNext
        /\ UNCHANGED resultsMutex
  /\ UNCHANGED <<sensor, nCalculators, execVars, DiagTxCMD, comVars, busVars, carVars, num,
                 timerVars>>

(* Index, time, length and answer are stored, and the mutex is released. *)
Store ==
  /\ pc["sensor"] = "store"
  /\ num' = num + 4 + 4 + 2 + respLen["sensor"]
  /\ resultsMutex' = "free"
  /\ GoNext
  /\ UNCHANGED <<sensor, nCalculators, execVars, DiagTxCMD, comVars, busVars, carVars, timerVars>>

(* KeepAliveStop and the step to the next calculator.  An expiration that      *)
(* waits for the timer thread stays.                                           *)
KeepAliveStop ==
  /\ pc["sensor"] = "stop"
  /\ timer' = FALSE
  /\ GoWith("sensor", "loop", calc["sensor"] + 1, 0)
  /\ UNCHANGED <<sensor, nCalculators, execVars, DiagTxCMD, comVars, busVars, carVars, storeVars, due,
                 CalcIndex>>

-----------------------------------------------------------------------------
(* RTX (external): the timer expires; a full queue loses the expiration. *)
TimerTick ==
  /\ timer
  /\ due < TimerQueue
  /\ due' = due + 1
  /\ UNCHANGED <<sensor, nCalculators, pc, calc, cmd, execVars, DiagTxCMD, comVars, busVars, carVars,
                 storeVars, timer, CalcIndex>>

(* The timer thread calls KeepAliveTimerTrampoline, which keeps the calculator *)
(* CalcIndex names now alive, if it has a CMD_KEEP_ALIVE.                      *)
KeepAliveSequence ==
  LET k == FirstCommand(CalcIndex, "CMD_KEEP_ALIVE")
  IN /\ pc["timer"] = "idle"
     /\ due > 0
     /\ due' = due - 1
     /\ GoWith("timer", IF k = 0 THEN "idle" ELSE "lock", CalcIndex, k)
     /\ UNCHANGED <<sensor, nCalculators, execVars, DiagTxCMD, comVars, busVars, carVars, storeVars,
                    timer, CalcIndex>>

-----------------------------------------------------------------------------
(* The main thread: NewDynSensors gives the running sensor a second            *)
(* calculator; Capture takes the mutex, copies and empties the store.          *)
AddCalculator ==
  /\ nCalculators < Len(sensor.calculators)
  /\ nCalculators' = nCalculators + 1
  /\ UNCHANGED <<sensor, pc, calc, cmd, execVars, DiagTxCMD, comVars, busVars, carVars, storeVars,
                 timerVars>>

CaptureLock ==
  /\ resultsMutex = "free"
  /\ resultsMutex' = "main"
  /\ UNCHANGED <<sensor, nCalculators, pc, calc, cmd, execVars, DiagTxCMD, comVars, busVars, carVars,
                 num, timerVars>>

CaptureCopy ==
  /\ resultsMutex = "main"
  /\ resultsMutex' = "free"
  /\ num' = 0
  /\ UNCHANGED <<sensor, nCalculators, pc, calc, cmd, execVars, DiagTxCMD, comVars, busVars, carVars,
                 timerVars>>

-----------------------------------------------------------------------------
Execute(t) == \/ FlushGet(t) \/ FlushEnd(t) \/ Send(t)
              \/ AnswerShort(t) \/ AnswerFirst(t) \/ AnswerNext(t) \/ Timeout(t)
              \/ EndCommand(t)
Sensor == \/ DiagStart \/ LoopEnd \/ KeepAliveStart
          \/ CheckResult \/ TryLock \/ Store \/ KeepAliveStop
Can == Dispatch \/ Event
Car == CarKeepAlive \/ CarCommand \/ CarExtended

Next == \/ \E t \in Threads : Lock(t) \/ Execute(t)
        \/ Sensor \/ Can \/ Car \/ RxLost
        \/ TimerTick \/ KeepAliveSequence
        \/ AddCalculator \/ CaptureLock \/ CaptureCopy

(* Threads are scheduled; a thread that waits for DiagTxCMD gets it, since RTX *)
(* hands a released mutex to its first waiter; frames move and the calculator  *)
(* works.  Expirations, captures and losses are never required.                *)
Spec == Init /\ [][Next]_vars
FairSpec == /\ Spec
            /\ \A t \in Threads : SF_vars(Lock(t)) /\ WF_vars(Execute(t))
            /\ WF_vars(Sensor) /\ WF_vars(Can) /\ WF_vars(Car)
            /\ WF_vars(KeepAliveSequence) /\ WF_vars(CaptureCopy)

-----------------------------------------------------------------------------
(* Types of the state. *)
FrameType == [kind : {"none", "short", "first", "next"}, len : 0 .. 255, tag : 0 .. Tags - 1,
              part : 0 .. 36]
RequestType == [type : CommandType, ans : 0 .. 64, tag : 0 .. Tags - 1]
TypeOK ==
  /\ sensor \in Sensors /\ nCalculators \in 1 .. Len(sensor.calculators)
  /\ pc \in [Threads -> {"idle", "loop", "lock", "flush", "send", "answer", "end", "keep", "check",
                         "trylock", "store", "stop"}]
  /\ calc \in [Threads -> Nat \ {0}] /\ cmd \in [Threads -> Nat]
  /\ \A t \in Threads : cmd[t] # 0 => calc[t] <= nCalculators /\ cmd[t] \in DOMAIN Program(calc[t])
  /\ respLen \in [Threads -> 0 .. 255] /\ currLen \in [Threads -> 0 .. 255]
  /\ \A t \in Threads : currLen[t] <= respLen[t]
  /\ response \in [Threads -> Seq([tag : 0 .. Tags - 1, part : 0 .. 36])]
  /\ outcome \in [Threads -> {"none", "complete", "timeout"}]
  /\ DiagTxCMD \in Threads \cup {"free"}
  /\ state \in {"IDLE", "EXT_CMD"} /\ registered \in BOOLEAN /\ tag \in 0 .. Tags - 1
  /\ queue \in Seq(FrameType) /\ Len(queue) <= QueueSize
  /\ toCar \in Seq(RequestType) /\ fromCar \in Seq(FrameType) /\ arriving \in FrameType
  /\ carState \in {"IDLE", "EXT_CMD"} /\ carAnswer \in [len : 0 .. 64, tag : 0 .. Tags - 1]
  /\ num \in Nat /\ resultsMutex \in {"free", "sensor", "main"}
  /\ timer \in BOOLEAN /\ due \in 0 .. TimerQueue /\ CalcIndex \in 1 .. nCalculators

(* What an exchange collects are frames of the answer to its own command, in   *)
(* their order, the first one first; an exchange that is complete has all of   *)
(* them.  Late answers, lost segments, the keep-alive of the timer thread and  *)
(* a calculator still waiting for the ACK of an earlier command never mix the  *)
(* answers of two commands.                                                    *)
AnswerBelongs ==
  \A t \in Threads : pc[t] \in {"answer", "end"} /\ response[t] # <<>> =>
    LET r == response[t]
        n == Program(calc[t])[cmd[t]].ans
        all == IF proto = "6A" /\ n > 6 THEN 1 + Segments(n) ELSE 1
    IN /\ \A k \in DOMAIN r : r[k].tag = tag
       /\ r[1].part = 0
       /\ \A k, l \in DOMAIN r : k < l => r[k].part < r[l].part
       /\ outcome[t] = "complete" => Len(r) = all

(* The check for room is made before the mutex and forgets 4 of the bytes that *)
(* are stored: the store runs over by at most 3 bytes, however captures fall   *)
(* between check and store.                                                    *)
StoreOverrunBounded == num <= StoreMax + 3

(* Every command that waits for DiagTxCMD is executed to its end: the sensor   *)
(* and the keep-alive do not shut each other out, a flush ends, an answer that *)
(* never comes is given up.                                                    *)
EveryExchangeEnds == \A t \in Threads : (pc[t] = "lock") ~> (pc[t] = "end")
=============================================================================
