--------------------------- MODULE CANDiagProofs ---------------------------
(***************************************************************************)
(* The exchanges of a diagnosis sensor, for every sensor, every program    *)
(* of commands and every size of the queues and the store.                 *)
(*                                                                         *)
(* The frames on their way (Pipe) are those between the calculator and the *)
(* thread that waits: in the receive ring, in the CAN thread's hands and   *)
(* in the communicator's queue.  Each of the three may lose frames, none   *)
(* reorders them.  Exchange lists what an exchange can be in the middle    *)
(* of; that nothing of an earlier one is left when the command is sent is  *)
(* what FlushQueue and DiagTxCMD are for.                                  *)
(***************************************************************************)
EXTENDS CANDiag, SequenceTheorems, WellFoundedInduction, TLAPS

-----------------------------------------------------------------------------
(***************************************************************************)
(* The inductive invariant.                                                *)
(***************************************************************************)
Holding == {"flush", "send", "answer", "end"}
LockInv == \A t \in Threads : DiagTxCMD = t <=> pc[t] \in Holding

(* A thread has something to execute, and never a CMD_ACK; the sensor's own    *)
(* thread is at a calculator it has.                                           *)
ProgramInv ==
  /\ \A t \in Threads : pc[t] \in Holding \cup {"lock"} =>
       cmd[t] # 0 /\ Program(calc[t])[cmd[t]].type # "CMD_ACK"
  /\ pc["sensor"] # "loop" => calc["sensor"] <= nCalculators

(* The locals outside of an exchange, and before its first frame. *)
Idle(t) ==
  /\ pc[t] \notin {"answer", "end"} => response[t] = <<>> /\ currLen[t] = 0
  /\ pc[t] # "end" => outcome[t] = "none"
  /\ pc[t] \in {"flush", "send"} => state = "IDLE" /\ respLen[t] = 0
  /\ pc[t] = "send" => queue = <<>> /\ Quiet
IdleInv == \A t \in Threads : Idle(t)

CarInv == carState = "EXT_CMD" => proto = "6A"

Arr == IF arriving = NoFrame THEN <<>> ELSE <<arriving>>
Pipe == queue \o (Arr \o fromCar)
Increasing(s) == \A k, l \in 1 .. Len(s) : k < l => s[k].part < s[l].part
Flight(s, S) == s \in Seq(S) /\ Increasing(s)

Ans(t) == Program(calc[t])[cmd[t]].ans
Long(t) == proto = "6A" /\ Ans(t) > 6
Asking(t) == carState = "EXT_CMD" /\ carAnswer = [len |-> Ans(t), tag |-> tag]

(* The frames an answer may begin with, and those that may follow part p. *)
Opening(t) == {f \in FrameType : f.tag = tag /\ f.part = 0 /\
                 \/ f.kind = "short" /\ ~Long(t)
                 \/ f.kind = "first" /\ f.len = Ans(t) /\ Long(t) /\ Asking(t)}
Behind(t, p) == {f \in FrameType : f.tag = tag /\ f.kind = "next" /\ p < f.part /\
                                   f.part <= Segments(Ans(t))}

FirstChunk == [tag |-> tag, part |-> 0]
Nothing(t) == response[t] = <<>> /\ state = "IDLE" /\ currLen[t] = 0 /\ respLen[t] = 0
OnlyFirst(t) == response[t] = <<FirstChunk>> /\ Long(t) /\ currLen[t] = 6 /\ respLen[t] = Ans(t)

LastPart(t) == response[t][Len(response[t])].part

(* What an exchange has collected: the first frame and segments behind it. *)
Collected(t, r) ==
  /\ Len(r) >= 1 /\ r[1] = FirstChunk
  /\ \A k \in 1 .. Len(r) : r[k].tag = tag /\ k - 1 <= r[k].part /\ r[k].part <= Segments(Ans(t))
  /\ Increasing(r)

(* The command is under way; the beginning of the answer is, or there is none; *)
(* the first frame has come and cannot be acknowledged; the ACK is under way;  *)
(* segments are.                                                               *)
Asked(t) == /\ \E c \in RequestType : /\ toCar = <<c>> /\ c.tag = tag /\ c.ans = Ans(t)
                                      /\ c.type = Program(calc[t])[cmd[t]].type
            /\ Pipe = <<>> /\ Nothing(t)
Opened(t) == toCar = <<>> /\ Flight(Pipe, Opening(t)) /\ Nothing(t)
Stuck(t) == toCar = <<>> /\ Pipe = <<>> /\ state = "IDLE" /\ OnlyFirst(t)
Acked(t) == /\ \E c \in RequestType : toCar = <<c>> /\ c.type = "CMD_ACK"
            /\ Pipe = <<>> /\ state = "EXT_CMD" /\ Asking(t) /\ OnlyFirst(t)
Following(t) == LET r == response[t]
                IN /\ toCar = <<>> /\ state = "EXT_CMD" /\ Long(t) /\ Collected(t, r)
                   /\ respLen[t] = Ans(t) /\ currLen[t] = 6 + 7 * (Len(r) - 1) /\ currLen[t] < Ans(t)
                   /\ Flight(Pipe, Behind(t, LastPart(t)))
Exchange(t) == Asked(t) \/ Opened(t) \/ Stuck(t) \/ Acked(t) \/ Following(t)
ExchangeInv == \A t \in Threads : pc[t] = "answer" => Exchange(t)

(* An exchange that has ended. *)
All(t) == IF Long(t) THEN 1 + Segments(Ans(t)) ELSE 1
Belongs(t) ==
  LET r == response[t]
  IN r # <<>> => /\ \A k \in 1 .. Len(r) : r[k].tag = tag
                 /\ r[1].part = 0 /\ Increasing(r)
                 /\ outcome[t] = "complete" => Len(r) = All(t)
EndedInv == \A t \in Threads : pc[t] = "end" => Belongs(t)

(* From the check for room to the store, captures only make more of it. *)
RoomInv ==
  /\ pc["sensor"] \in {"trylock", "store"} => Room
  /\ num <= StoreMax + 3

DiagInv == /\ TypeOK /\ LockInv /\ ProgramInv /\ IdleInv /\ CarInv
           /\ ExchangeInv /\ EndedInv /\ RoomInv

-----------------------------------------------------------------------------
(***************************************************************************)
(* Constants, programs and the command looked for.                         *)
(***************************************************************************)
LEMMA ConstantFacts ==
  /\ QueueSize \in Nat \ {0} /\ TimerQueue \in Nat \ {0} /\ StoreMax \in Nat \ {0}
  /\ Tags = 2
BY DiagAssumption DEF Tags

LEMMA SensorFacts ==
  ASSUME TypeOK
  PROVE  /\ proto \in {"6A", "68"}
         /\ sensor.calculators \in Seq(Seq(Command))
         /\ Len(sensor.calculators) \in Nat
         /\ nCalculators \in Nat \ {0}
<1>1. sensor \in Sensors /\ nCalculators \in 1 .. Len(sensor.calculators)
  BY DEF TypeOK
<1>2. /\ sensor.proto \in {"6A", "68"}
      /\ sensor.calculators \in Seq(Seq(Command))
  BY <1>1, DiagAssumption
<1>3. Len(sensor.calculators) \in Nat
  BY <1>2, LenProperties
<1> QED
  BY <1>1, <1>2, <1>3 DEF proto

LEMMA ProgramFacts ==
  ASSUME TypeOK, NEW c \in 1 .. nCalculators
  PROVE  /\ Program(c) \in Seq(Command)
         /\ DOMAIN Program(c) \in SUBSET (Nat \ {0})
         /\ \A k \in DOMAIN Program(c) :
              /\ Program(c)[k] \in Command
              /\ proto = "68" => Program(c)[k].ans < 8
              /\ Program(c)[k].type = "CMD_KEEP_ALIVE" => Program(c)[k].ans <= 6
<1>1. sensor \in Sensors /\ c \in 1 .. Len(sensor.calculators)
  BY SensorFacts DEF TypeOK
<1>2. sensor.calculators \in Seq(Seq(Command))
  BY SensorFacts
<1>3. c \in DOMAIN sensor.calculators
  BY <1>1, <1>2, LenProperties
<1>4. Program(c) \in Seq(Command)
  BY <1>1, <1>2, ElementOfSeq DEF Program
<1>5. DOMAIN Program(c) = 1 .. Len(Program(c)) /\ Len(Program(c)) \in Nat
  BY <1>4, LenProperties
<1>6. \A k \in DOMAIN Program(c) : Program(c)[k] \in Command
  BY <1>4, <1>5, ElementOfSeq
<1>7. \A k \in DOMAIN Program(c) :
         /\ proto = "68" => Program(c)[k].ans < 8
         /\ Program(c)[k].type = "CMD_KEEP_ALIVE" => Program(c)[k].ans <= 6
  BY <1>1, <1>3, DiagAssumption DEF proto, Program
<1> QED
  BY <1>4, <1>5, <1>6, <1>7

LEMMA FirstOf ==
  ASSUME NEW S \in SUBSET Nat, S # {}
  PROVE  (CHOOSE l \in S : \A m \in S : l <= m) \in S
<1>1. \E x \in S : \A y \in S : ~(<<y, x>> \in OpToRel(<, Nat))
  BY NatLessThanWellFounded, WFMin
<1>2. PICK x \in S : \A y \in S : ~(<<y, x>> \in OpToRel(<, Nat))
  BY <1>1
<1>3. ASSUME NEW y \in S PROVE x <= y
  <2>1. y < x => <<y, x>> \in OpToRel(<, Nat)
    BY DEF OpToRel
  <2>2. ~(y < x)
    BY <1>2, <2>1, Zenon
  <2> QED
    BY <2>2
<1> QED
  BY <1>3

LEMMA NextCommandFacts ==
  ASSUME TypeOK, NEW c \in 1 .. nCalculators, NEW k, NEW type
  PROVE  /\ NextCommand(c, k, type) \in Nat
         /\ NextCommand(c, k, type) # 0 =>
              /\ NextCommand(c, k, type) \in DOMAIN Program(c)
              /\ Program(c)[NextCommand(c, k, type)].type = type
<1> DEFINE found == {l \in DOMAIN Program(c) : l > k /\ Program(c)[l].type = type}
<1>1. DOMAIN Program(c) \in SUBSET (Nat \ {0})
  BY ProgramFacts
<1>2. found \in SUBSET Nat
  BY <1>1
<1>3. CASE found = {}
  BY <1>3 DEF NextCommand
<1>4. CASE found # {}
  <2>1. NextCommand(c, k, type) = CHOOSE l \in found : \A m \in found : l <= m
    BY <1>4 DEF NextCommand
  <2>2. NextCommand(c, k, type) \in found
    <3> HIDE DEF found
    <3> QED
      BY <1>2, <1>4, <2>1, FirstOf
  <2> QED
    BY <1>1, <2>2
<1> QED
  BY <1>3, <1>4

(* The command a thread executes. *)
LEMMA AnsFacts ==
  ASSUME TypeOK, ProgramInv, NEW t \in Threads, pc[t] \in Holding \cup {"lock"}
  PROVE  /\ cmd[t] \in DOMAIN Program(calc[t])
         /\ Program(calc[t])[cmd[t]] \in Command
         /\ Program(calc[t])[cmd[t]].type \in CommandType \ {"CMD_ACK"}
         /\ Ans(t) \in 0 .. 64
         /\ proto = "68" => Ans(t) < 8
         /\ Program(calc[t])[cmd[t]].type = "CMD_KEEP_ALIVE" => Ans(t) <= 6
<1>1. cmd[t] # 0 /\ Program(calc[t])[cmd[t]].type # "CMD_ACK"
  BY DEF ProgramInv
<1>2. calc[t] \in Nat \ {0} /\ calc[t] <= nCalculators /\ cmd[t] \in DOMAIN Program(calc[t])
  BY <1>1 DEF TypeOK
<1>3. calc[t] \in 1 .. nCalculators
  BY <1>2, SensorFacts
<1> QED
  BY <1>1, <1>2, <1>3, ProgramFacts DEF Command, Ans

-----------------------------------------------------------------------------
(***************************************************************************)
(* The frames on their way.                                                *)
(***************************************************************************)
LEMMA FrameFacts ==
  /\ NoFrame \in FrameType
  /\ \A f \in FrameType : Chunk(f) \in [tag : 0 .. Tags - 1, part : 0 .. 36]
  /\ \A f \in FrameType : Chunk(f).tag = f.tag /\ Chunk(f).part = f.part
BY ConstantFacts DEF NoFrame, FrameType, Chunk

LEMMA ArrSeq ==
  ASSUME TypeOK
  PROVE  Arr \in Seq(FrameType)
BY DEF TypeOK, Arr

LEMMA PipeEmpty ==
  ASSUME TypeOK
  PROVE  Pipe = <<>> <=> queue = <<>> /\ arriving = NoFrame /\ fromCar = <<>>
<1>1. queue \in Seq(FrameType) /\ fromCar \in Seq(FrameType) /\ Arr \in Seq(FrameType)
  BY ArrSeq DEF TypeOK
<1>2. Arr = <<>> <=> arriving = NoFrame
  BY DEF Arr
<1>3. Arr \o fromCar \in Seq(FrameType)
  BY <1>1, ConcatProperties
<1>4. Arr \o fromCar = <<>> <=> Arr = <<>> /\ fromCar = <<>>
  BY <1>1, ConcatEmptySeq
<1>5. Pipe = <<>> <=> queue = <<>> /\ Arr \o fromCar = <<>>
  BY <1>1, <1>3, ConcatEmptySeq DEF Pipe
<1> QED
  BY <1>2, <1>4, <1>5

(* Losing a frame, or taking the first one, keeps the others in order. *)
LEMMA FlightDrop ==
  ASSUME NEW S, NEW A, NEW B, NEW x, Flight(A \o (<<x>> \o B), S),
         NEW T, A \in Seq(T), B \in Seq(T), x \in T
  PROVE  Flight(A \o B, S)
<1> DEFINE s == A \o (<<x>> \o B)
           r == A \o B
           at(k) == IF k <= Len(A) THEN k ELSE k + 1
<1>1. <<x>> \o B \in Seq(T) /\ Len(<<x>> \o B) = Len(B) + 1
      /\ \A i \in 1 .. Len(B) + 1 : (<<x>> \o B)[i] = IF i = 1 THEN x ELSE B[i - 1]
  BY ConcatProperties
<1>2. Len(A) \in Nat /\ Len(B) \in Nat
  BY LenProperties
<1>3. s \in Seq(T) /\ Len(s) = Len(A) + Len(B) + 1
  BY <1>1, <1>2, ConcatProperties
<1>4. r \in Seq(T) /\ Len(r) = Len(A) + Len(B)
  BY <1>2, ConcatProperties
<1>5. ASSUME NEW k \in 1 .. Len(r) PROVE r[k] = s[at(k)] /\ at(k) \in 1 .. Len(s)
  <2>1. r[k] = IF k <= Len(A) THEN A[k] ELSE B[k - Len(A)]
    BY <1>2, <1>4, <1>5, ConcatProperties
  <2>2. at(k) \in 1 .. Len(A) + Len(<<x>> \o B)
    BY <1>1, <1>2, <1>4
  <2>3. s[at(k)] = IF at(k) <= Len(A) THEN A[at(k)] ELSE (<<x>> \o B)[at(k) - Len(A)]
    <3> HIDE DEF at
    <3> QED
      BY <1>1, <2>2, ConcatProperties
  <2> QED
    BY <1>1, <1>2, <1>3, <1>4, <2>1, <2>2, <2>3
<1>6. s \in Seq(S) /\ Increasing(s)
  BY DEF Flight
<1>7. \A k \in 1 .. Len(s) : s[k] \in S
  BY <1>6, ElementOfSeq
<1>8. r \in Seq(S)
  <2>1. \A k \in 1 .. Len(r) : r[k] \in S
    BY <1>5, <1>7
  <2>2. DOMAIN r = 1 .. Len(r) /\ Len(r) \in Nat /\ r = [k \in 1 .. Len(r) |-> r[k]]
    BY <1>4, LenProperties
  <2> HIDE DEF r, s, at
  <2>3. r \in [1 .. Len(r) -> S]
    BY <2>1, <2>2
  <2> QED
    BY <2>2, <2>3, SeqDef
<1>9. Increasing(r)
  <2>1. ASSUME NEW k \in 1 .. Len(r), NEW l \in 1 .. Len(r), k < l PROVE r[k].part < r[l].part
    <3>1. at(k) < at(l)
      BY <1>2, <1>4, <2>1
    <3>2. r[k] = s[at(k)] /\ at(k) \in 1 .. Len(s) /\ r[l] = s[at(l)] /\ at(l) \in 1 .. Len(s)
      BY <1>5
    <3> HIDE DEF r, s, at
    <3> QED
      BY <3>1, <3>2, <1>6 DEF Increasing
  <2> QED
    BY <2>1 DEF Increasing
<1> QED
  BY <1>8, <1>9 DEF Flight

LEMMA FlightHead ==
  ASSUME NEW S, NEW x, NEW R, Flight(<<x>> \o R, S), NEW T, R \in Seq(T), x \in T
  PROVE  x \in S /\ Flight(R, {f \in S : x.part < f.part})
<1> DEFINE s == <<x>> \o R
           U == {f \in S : x.part < f.part}
<1>1. Len(R) \in Nat
  BY LenProperties
<1>2. /\ s \in Seq(T) /\ Len(s) = Len(R) + 1 /\ s[1] = x
      /\ \A k \in 1 .. Len(R) : s[k + 1] = R[k]
  BY <1>1, ConcatProperties
<1>3. s \in Seq(S) /\ Increasing(s)
  BY DEF Flight
<1>4. \A k \in 1 .. Len(s) : s[k] \in S
  BY <1>3, ElementOfSeq
<1> HIDE DEF s
<1>5. x \in S
  BY <1>1, <1>2, <1>4
<1>6. ASSUME NEW k \in 1 .. Len(R) PROVE R[k] \in U
  <2>1. k + 1 \in 1 .. Len(s) /\ 1 \in 1 .. Len(s) /\ 1 < k + 1
    BY <1>1, <1>2
  <2>2. s[k + 1] \in S /\ s[1].part < s[k + 1].part
    BY <1>3, <1>4, <2>1 DEF Increasing
  <2> QED
    BY <1>2, <2>2
<1>7. R \in Seq(U)
  <2>1. DOMAIN R = 1 .. Len(R) /\ R = [k \in 1 .. Len(R) |-> R[k]]
    BY LenProperties
  <2> HIDE DEF U
  <2>2. R \in [1 .. Len(R) -> U]
    BY <1>6, <2>1
  <2> QED
    BY <1>1, <2>2, SeqDef
<1>8. Increasing(R)
  <2>1. ASSUME NEW k \in 1 .. Len(R), NEW l \in 1 .. Len(R), k < l PROVE R[k].part < R[l].part
    <3>1. k + 1 \in 1 .. Len(s) /\ l + 1 \in 1 .. Len(s) /\ k + 1 < l + 1
      BY <1>1, <1>2, <2>1
    <3>2. s[k + 1].part < s[l + 1].part
      BY <1>3, <3>1 DEF Increasing
    <3> QED
      BY <1>2, <3>2
  <2> QED
    BY <2>1 DEF Increasing
<1> QED
  BY <1>5, <1>7, <1>8 DEF Flight

(* What the holder takes, and what remains. *)
Rest == Tail(queue) \o (Arr \o fromCar)

LEMMA PipeHead ==
  ASSUME TypeOK, queue # <<>>
  PROVE  /\ Head(queue) \in FrameType /\ Tail(queue) \in Seq(FrameType)
         /\ Rest \in Seq(FrameType)
         /\ Pipe = <<Head(queue)>> \o Rest
<1>1. queue \in Seq(FrameType) /\ fromCar \in Seq(FrameType) /\ Arr \in Seq(FrameType)
  BY ArrSeq DEF TypeOK
<1>2. Head(queue) \in FrameType /\ Tail(queue) \in Seq(FrameType)
      /\ queue = <<Head(queue)>> \o Tail(queue)
  BY <1>1, HeadTailProperties, ConcatSimplifications
<1>3. Arr \o fromCar \in Seq(FrameType)
  BY <1>1, ConcatProperties
<1>4. Rest \in Seq(FrameType)
  BY <1>2, <1>3, ConcatProperties DEF Rest
<1>5. <<Head(queue)>> \in Seq(FrameType)
  BY <1>2
<1>6. (<<Head(queue)>> \o Tail(queue)) \o (Arr \o fromCar)
         = <<Head(queue)>> \o (Tail(queue) \o (Arr \o fromCar))
  BY <1>2, <1>3, <1>5, ConcatAssociative
<1> QED
  BY <1>2, <1>4, <1>6 DEF Rest, Pipe

(* The frame an exchange takes begins its answer, or continues it. *)
LEMMA TakenFacts ==
  ASSUME DiagInv, NEW t \in Threads, pc[t] = "answer", queue # <<>>
  PROVE  \/ Opened(t) /\ Head(queue) \in Opening(t) /\ Rest = <<>>
         \/ /\ Following(t) /\ Head(queue) \in Behind(t, LastPart(t))
            /\ Flight(Rest, Behind(t, Head(queue).part))
<1> DEFINE f == Head(queue)
<1>1. TypeOK /\ Exchange(t)
  BY DEF DiagInv, ExchangeInv
<1>2. f \in FrameType /\ Rest \in Seq(FrameType) /\ Pipe = <<f>> \o Rest
  BY <1>1, PipeHead
<1>3. Pipe # <<>>
  BY <1>1, PipeEmpty
<1>4. Opened(t) \/ Following(t)
  BY <1>1, <1>3 DEF Exchange, Asked, Stuck, Acked
<1> HIDE DEF f
<1>5. CASE Opened(t)
  <2>1. Flight(<<f>> \o Rest, Opening(t))
    BY <1>2, <1>5 DEF Opened
  <2>2. f \in Opening(t) /\ Flight(Rest, {g \in Opening(t) : f.part < g.part})
    BY <1>2, <2>1, FlightHead
  <2>3. {g \in Opening(t) : f.part < g.part} = {}
    BY <2>2 DEF Opening, FrameType
  <2>4. Rest \in Seq({})
    BY <2>2, <2>3 DEF Flight
  <2>5. Rest = <<>>
    BY <2>4
  <2> QED
    BY <1>5, <2>2, <2>5 DEF f
<1>6. CASE Following(t)
  <2> DEFINE S == Behind(t, LastPart(t))
  <2>1. Flight(<<f>> \o Rest, S)
    BY <1>2, <1>6 DEF Following
  <2>2. f \in S /\ Flight(Rest, {g \in S : f.part < g.part})
    <3> HIDE DEF S
    <3> QED
      BY <1>2, <2>1, FlightHead
  <2>3. {g \in S : f.part < g.part} \subseteq Behind(t, f.part)
    BY DEF Behind
  <2>4. Flight(Rest, Behind(t, f.part))
    BY <2>2, <2>3, \A A, B : A \subseteq B => Seq(A) \subseteq Seq(B) DEF Flight
  <2> QED
    BY <1>6, <2>2, <2>4 DEF f
<1> QED
  BY <1>4, <1>5, <1>6

(* On the way a frame moves on or is lost. *)
LEMMA PipeMoves ==
  ASSUME TypeOK, TypeOK', Dispatch \/ Event \/ RxLost
  PROVE  \/ Pipe' = Pipe
         \/ \E A \in Seq(FrameType), B \in Seq(FrameType), x \in FrameType :
              Pipe = A \o (<<x>> \o B) /\ Pipe' = A \o B
<1> DEFINE Q == queue
           h == Head(fromCar)
           R == Tail(fromCar)
<1>1. Q \in Seq(FrameType) /\ fromCar \in Seq(FrameType) /\ Arr \in Seq(FrameType)
      /\ arriving \in FrameType
  BY ArrSeq DEF TypeOK
<1>2. fromCar # <<>> => h \in FrameType /\ R \in Seq(FrameType) /\ fromCar = <<h>> \o R
  BY <1>1, HeadTailProperties, ConcatSimplifications
<1>3. CASE Dispatch
  <2>1. fromCar # <<>> /\ Arr = <<>> /\ queue' = queue /\ fromCar' = R
        /\ arriving' \in {h, NoFrame}
    BY <1>3 DEF Dispatch, Arr, comVars
  <2>2. Pipe = Q \o (<<h>> \o R)
    <3>1. <<>> \o fromCar = fromCar
      BY <1>1, ConcatSimplifications
    <3> QED
      BY <1>2, <2>1, <3>1 DEF Pipe
  <2>3. Arr' = <<>> \/ Arr' = <<h>>
    BY <2>1 DEF Arr
  <2>4. Pipe' = Q \o (Arr' \o R)
    BY <2>1 DEF Pipe
  <2>5. <<>> \o R = R
    BY <1>2, <2>1, ConcatSimplifications
  <2> HIDE DEF Q, h, R
  <2> QED
    BY <1>1, <1>2, <2>1, <2>2, <2>3, <2>4, <2>5
<1>4. CASE Event
  <2> DEFINE a == arriving
             F == fromCar
  <2>1. Arr = <<a>> /\ Arr' = <<>> /\ fromCar' = F
        /\ queue' \in {queue, Append(queue, a)}
    BY <1>4 DEF Event, Arr
  <2>2. Append(queue, a) = queue \o <<a>> /\ <<>> \o F = F
    BY <1>1, AppendIsConcat, ConcatSimplifications
  <2>3. (queue \o <<a>>) \o F = queue \o (<<a>> \o F)
    <3>1. <<a>> \in Seq(FrameType)
      BY <1>1
    <3> QED
      BY <1>1, <3>1, ConcatAssociative
  <2>4. Pipe = Q \o (<<a>> \o F) /\ Pipe' = queue' \o F
    BY <2>1, <2>2 DEF Pipe
  <2>5. Pipe' = Pipe \/ Pipe' = Q \o F
    BY <2>1, <2>2, <2>3, <2>4
  <2> HIDE DEF Q, a
  <2> QED
    BY <1>1, <2>4, <2>5 DEF a
<1>5. CASE RxLost
  <2>1. fromCar # <<>> /\ fromCar' = R /\ queue' = queue /\ arriving' = arriving
    BY <1>5 DEF RxLost, comVars
  <2>2. Arr' = Arr
    BY <2>1 DEF Arr
  <2>3. <<h>> \o R \in Seq(FrameType)
    BY <1>1, <1>2, <2>1
  <2>4. Q \o (Arr \o (<<h>> \o R)) = (Q \o Arr) \o (<<h>> \o R)
        /\ Q \o (Arr \o R) = (Q \o Arr) \o R /\ Q \o Arr \in Seq(FrameType)
    <3>1. R \in Seq(FrameType)
      BY <1>2, <2>1
    <3> DEFINE H == <<h>> \o R
    <3> HIDE DEF Q, h, R, H
    <3>2. H \in Seq(FrameType)
      BY <2>3 DEF H
    <3>3. Q \o (Arr \o H) = (Q \o Arr) \o H
      BY SMTT(40), <1>1, <3>2, ConcatAssociative
    <3>4. Q \o (Arr \o R) = (Q \o Arr) \o R
      BY SMTT(40), <1>1, <3>1, ConcatAssociative
    <3>5. Q \o Arr \in Seq(FrameType)
      BY <1>1, ConcatProperties
    <3> QED
      BY <3>3, <3>4, <3>5 DEF H
  <2>5. Pipe = (Q \o Arr) \o (<<h>> \o R) /\ Pipe' = (Q \o Arr) \o R
    BY <1>2, <2>1, <2>2, <2>4 DEF Pipe
  <2> HIDE DEF Q, h, R
  <2> QED
    BY <1>2, <2>1, <2>4, <2>5
<1> QED
  BY <1>3, <1>4, <1>5

-----------------------------------------------------------------------------
(***************************************************************************)
(* What an exchange depends on.                                            *)
(***************************************************************************)
SameCommand(t) == /\ sensor' = sensor /\ tag' = tag
                  /\ calc'[t] = calc[t] /\ cmd'[t] = cmd[t]
SameLocals(t) == /\ respLen'[t] = respLen[t] /\ currLen'[t] = currLen[t]
                 /\ response'[t] = response[t] /\ state' = state

LEMMA CommandSame ==
  ASSUME NEW t \in Threads, SameCommand(t)
  PROVE  /\ Ans(t)' = Ans(t) /\ Long(t)' = Long(t) /\ FirstChunk' = FirstChunk
         /\ All(t)' = All(t) /\ proto' = proto
         /\ Program(calc[t])'[cmd'[t]] = Program(calc[t])[cmd[t]]
         /\ \A p : Behind(t, p)' = Behind(t, p)
<1>1. /\ proto' = proto
      /\ Program(calc[t])'[cmd'[t]] = Program(calc[t])[cmd[t]]
  BY DEF SameCommand, proto, Program
<1>2. Ans(t)' = Ans(t) /\ FirstChunk' = FirstChunk
  BY <1>1 DEF SameCommand, Ans, FirstChunk
<1>3. Long(t)' = Long(t)
  BY <1>1, <1>2 DEF Long
<1>4. All(t)' = All(t)
  BY <1>2, <1>3 DEF All, Segments
<1>5. \A p : Behind(t, p)' = Behind(t, p)
  BY <1>2 DEF SameCommand, Behind, Segments, FrameType
<1> QED
  BY <1>1, <1>2, <1>3, <1>4, <1>5

LEMMA OpeningSame ==
  ASSUME NEW t \in Threads, SameCommand(t), UNCHANGED carVars
  PROVE  Opening(t)' = Opening(t) /\ Asking(t)' = Asking(t)
<1>1. Asking(t)' = Asking(t)
  BY CommandSame DEF Asking, carVars, SameCommand
<1> QED
  BY <1>1, CommandSame DEF Opening, SameCommand, FrameType

LEMMA LocalsSame ==
  ASSUME NEW t \in Threads, SameCommand(t), SameLocals(t)
  PROVE  /\ Nothing(t)' = Nothing(t) /\ OnlyFirst(t)' = OnlyFirst(t)
         /\ LastPart(t)' = LastPart(t)
         /\ Belongs(t) /\ outcome'[t] = outcome[t] => Belongs(t)'
<1>1. Nothing(t)' = Nothing(t) /\ LastPart(t)' = LastPart(t)
  BY DEF SameLocals, Nothing, LastPart
<1>2. OnlyFirst(t)' = OnlyFirst(t)
  BY CommandSame DEF SameLocals, OnlyFirst
<1>3. Belongs(t) /\ outcome'[t] = outcome[t] => Belongs(t)'
  BY CommandSame DEF SameLocals, SameCommand, Belongs, Increasing
<1> QED
  BY <1>1, <1>2, <1>3

(* Nothing happens to an exchange, or its frames move on or are lost. *)
LEMMA ExchangeKept ==
  ASSUME NEW t \in Threads, SameCommand(t), SameLocals(t), UNCHANGED carVars, toCar' = toCar,
         Exchange(t),
         \/ Pipe' = Pipe
         \/ \E A \in Seq(FrameType), B \in Seq(FrameType), x \in FrameType :
              Pipe = A \o (<<x>> \o B) /\ Pipe' = A \o B
  PROVE  Exchange(t)'
<1>1. /\ Ans(t)' = Ans(t) /\ Long(t)' = Long(t)
      /\ Program(calc[t])'[cmd'[t]] = Program(calc[t])[cmd[t]]
      /\ Nothing(t)' = Nothing(t) /\ OnlyFirst(t)' = OnlyFirst(t)
      /\ LastPart(t)' = LastPart(t) /\ Opening(t)' = Opening(t) /\ Asking(t)' = Asking(t)
  <2>1. /\ Ans(t)' = Ans(t) /\ Long(t)' = Long(t)
        /\ Program(calc[t])'[cmd'[t]] = Program(calc[t])[cmd[t]]
    BY CommandSame
  <2>2. /\ Nothing(t)' = Nothing(t) /\ OnlyFirst(t)' = OnlyFirst(t)
        /\ LastPart(t)' = LastPart(t)
    BY LocalsSame
  <2>3. Opening(t)' = Opening(t) /\ Asking(t)' = Asking(t)
    BY OpeningSame
  <2> QED
    BY <2>1, <2>2, <2>3
<1>2. Behind(t, LastPart(t))' = Behind(t, LastPart(t))
  <2>1. \A p : Behind(t, p)' = Behind(t, p)
    BY CommandSame
  <2> QED
    BY <1>1, <2>1 DEF Behind, SameCommand, Segments, FrameType
<1>3. ASSUME NEW S, Flight(Pipe, S) PROVE Flight(Pipe', S)
  <2>1. CASE Pipe' = Pipe
    BY <1>3, <2>1
  <2>2. ASSUME NEW A \in Seq(FrameType), NEW B \in Seq(FrameType), NEW x \in FrameType,
               Pipe = A \o (<<x>> \o B), Pipe' = A \o B
        PROVE  Flight(Pipe', S)
    BY <1>3, <2>2, FlightDrop
  <2> QED
    BY <2>1, <2>2
<1>4. Pipe = <<>> => Pipe' = <<>>
  <2>1. ASSUME NEW A \in Seq(FrameType), NEW B \in Seq(FrameType), NEW x \in FrameType,
               Pipe = A \o (<<x>> \o B)
        PROVE  Pipe # <<>>
    <3>1. Len(<<x>> \o B) = Len(B) + 1 /\ <<x>> \o B \in Seq(FrameType)
      BY ConcatProperties
    <3>2. Len(Pipe) = Len(A) + (Len(B) + 1) /\ Len(A) \in Nat /\ Len(B) \in Nat
      BY <2>1, <3>1, ConcatProperties, LenProperties
    <3> QED
      BY <3>2
  <2> QED
    BY <2>1
<1>5. CASE Asked(t)
  BY <1>1, <1>4, <1>5 DEF Exchange, Asked, SameCommand
<1>6. CASE Opened(t)
  <2>1. Flight(Pipe', Opening(t))
    BY <1>3, <1>6 DEF Opened
  <2>2. Flight(Pipe, Opening(t))'
    BY <1>1, <2>1 DEF Flight, Increasing
  <2> QED
    BY <1>1, <1>6, <2>2 DEF Exchange, Opened
<1>7. CASE Stuck(t)
  BY <1>1, <1>4, <1>7 DEF Exchange, Stuck, SameLocals
<1>8. CASE Acked(t)
  BY <1>1, <1>4, <1>8 DEF Exchange, Acked, SameLocals
<1>9. CASE Following(t)
  <2>1. Flight(Pipe', Behind(t, LastPart(t)))
    BY <1>3, <1>9 DEF Following
  <2>2. Flight(Pipe, Behind(t, LastPart(t)))'
    BY <1>2, <2>1 DEF Flight, Increasing
  <2>3. Collected(t, response[t])'
    BY <1>9, CommandSame DEF Following, Collected, SameLocals, SameCommand, Segments, Increasing
  <2> QED
    BY <1>1, <1>9, <2>2, <2>3 DEF Exchange, Following, SameLocals
<1> QED
  BY <1>5, <1>6, <1>7, <1>8, <1>9 DEF Exchange

(* Only one thread at a time is in an exchange. *)
LEMMA Alone ==
  ASSUME LockInv, NEW t \in Threads, NEW u \in Threads, t # u, pc[t] \in Holding
  PROVE  pc[u] \notin Holding
BY DEF LockInv, Threads

(* A segment appended to what an exchange has. *)
LEMMA CollectedAppend ==
  ASSUME NEW t \in Threads, Ans(t) \in 0 .. 64, NEW S, NEW r \in Seq(S), Collected(t, r),
         NEW x \in S, x.tag = tag, x.part \in Nat, r[Len(r)].part < x.part,
         \A y \in S : y.part \in Nat,
         x.part <= Segments(Ans(t))
  PROVE  /\ Append(r, x) \in Seq(S) /\ Len(Append(r, x)) = Len(r) + 1
         /\ Append(r, x)[Len(r) + 1] = x
         /\ Collected(t, Append(r, x))
         /\ Len(r) <= x.part
<1>1. Len(r) \in Nat /\ Len(r) >= 1 /\ r[1] = FirstChunk
  BY LenProperties DEF Collected
<1>2. /\ Append(r, x) \in Seq(S) /\ Len(Append(r, x)) = Len(r) + 1
      /\ \A k \in 1 .. Len(r) : Append(r, x)[k] = r[k]
      /\ Append(r, x)[Len(r) + 1] = x
  BY AppendProperties
<1>3. \A k \in 1 .. Len(r) : r[k].part \in Nat
  BY ElementOfSeq
<1>4. Segments(Ans(t)) \in Nat
  <2>1. \A n \in 0 .. 64 : n \div 7 \in Nat
    OBVIOUS
  <2> QED
    BY <2>1 DEF Segments
<1>5. \A k \in 1 .. Len(r) : r[k].tag = tag /\ k - 1 <= r[k].part /\ r[k].part <= Segments(Ans(t))
  BY DEF Collected
<1>6. Len(r) <= x.part
  <2>1. Len(r) \in 1 .. Len(r)
    BY <1>1
  <2>2. Len(r) - 1 <= r[Len(r)].part /\ r[Len(r)].part \in Nat
    BY <1>3, <1>5, <2>1
  <2> QED
    BY <1>1, <2>2
<1>7. \A k \in 1 .. Len(r) : r[k].part <= r[Len(r)].part
  BY <1>1, <1>3 DEF Collected, Increasing
<1> DEFINE a == Append(r, x)
<1> HIDE DEF a
<1>8. ASSUME NEW k \in 1 .. Len(a)
      PROVE  a[k].tag = tag /\ k - 1 <= a[k].part /\ a[k].part <= Segments(Ans(t))
  <2>1. CASE k = Len(r) + 1
    BY <1>1, <1>2, <1>6, <2>1 DEF a
  <2>2. CASE k # Len(r) + 1
    <3>1. k \in 1 .. Len(r) /\ a[k] = r[k]
      BY <1>1, <1>2, <2>2 DEF a
    <3> QED
      BY <1>5, <3>1
  <2> QED
    BY <2>1, <2>2
<1>9. ASSUME NEW k \in 1 .. Len(a), NEW l \in 1 .. Len(a), k < l
      PROVE  a[k].part < a[l].part
  <2>1. k \in 1 .. Len(r) /\ a[k] = r[k]
    BY <1>1, <1>2, <1>9 DEF a
  <2>2. CASE l = Len(r) + 1
    <3>1. a[l] = x /\ r[k].part <= r[Len(r)].part /\ r[k].part \in Nat /\ r[Len(r)].part \in Nat
      BY <1>1, <1>2, <1>3, <1>7, <2>1, <2>2 DEF a
    <3> QED
      BY <2>1, <3>1
  <2>3. CASE l # Len(r) + 1
    <3>1. l \in 1 .. Len(r) /\ a[l] = r[l]
      BY <1>1, <1>2, <2>3 DEF a
    <3>2. r[k].part < r[l].part
      BY <1>9, <2>1, <3>1 DEF Collected, Increasing
    <3> QED
      BY <2>1, <3>1, <3>2
  <2> QED
    BY <2>2, <2>3
<1>10. Len(a) >= 1 /\ a[1] = FirstChunk
  BY <1>1, <1>2 DEF a
<1>11. Collected(t, a)
  BY <1>8, <1>9, <1>10 DEF Collected, Increasing
<1> QED
  BY <1>2, <1>6, <1>11 DEF a

-----------------------------------------------------------------------------
(***************************************************************************)
(* Where the threads are.                                                  *)
(***************************************************************************)
Where == {"idle", "loop", "lock", "flush", "send", "answer", "end", "keep", "check", "trylock",
          "store", "stop"}
WhereTyped ==
  /\ pc \in [Threads -> Where] /\ calc \in [Threads -> Nat \ {0}] /\ cmd \in [Threads -> Nat]
  /\ \A t \in Threads : cmd[t] # 0 => calc[t] <= nCalculators /\ cmd[t] \in DOMAIN Program(calc[t])
AtCommand ==
  \A t \in Threads : pc[t] \in Holding \cup {"lock"} =>
    cmd[t] # 0 /\ Program(calc[t])[cmd[t]].type # "CMD_ACK"

(* A thread goes to the command it has found, or elsewhere. *)
LEMMA Found ==
  ASSUME TypeOK, AtCommand, NEW t \in Threads, NEW c \in 1 .. nCalculators, NEW j,
         NEW type \in CommandType \ {"CMD_ACK"}, NEW to \in Where \ (Holding \cup {"lock"}),
         GoWith(t, IF NextCommand(c, j, type) = 0 THEN to ELSE "lock", c, NextCommand(c, j, type)),
         sensor' = sensor, nCalculators' = nCalculators
  PROVE  /\ WhereTyped' /\ AtCommand'
         /\ pc'[t] \in {to, "lock"} /\ calc'[t] = c
         /\ \A u \in Threads \ {t} : pc'[u] = pc[u] /\ calc'[u] = calc[u] /\ cmd'[u] = cmd[u]
<1> DEFINE k == NextCommand(c, j, type)
<1>1. k \in Nat /\ (k # 0 => k \in DOMAIN Program(c) /\ Program(c)[k].type = type)
  BY NextCommandFacts
<1>2. c \in Nat \ {0} /\ c <= nCalculators
  BY SensorFacts
<1>3. /\ pc' = [pc EXCEPT ![t] = IF k = 0 THEN to ELSE "lock"]
      /\ calc' = [calc EXCEPT ![t] = c] /\ cmd' = [cmd EXCEPT ![t] = k]
  BY DEF GoWith, Go
<1> HIDE DEF k
<1>4. /\ pc'[t] = (IF k = 0 THEN to ELSE "lock") /\ calc'[t] = c /\ cmd'[t] = k
      /\ \A u \in Threads \ {t} : pc'[u] = pc[u] /\ calc'[u] = calc[u] /\ cmd'[u] = cmd[u]
  BY <1>3 DEF TypeOK
<1>5. pc' \in [Threads -> Where] /\ calc' \in [Threads -> Nat \ {0}] /\ cmd' \in [Threads -> Nat]
  BY <1>1, <1>2, <1>3 DEF TypeOK, Where
<1>6. \A x : Program(x)' = Program(x)
  BY DEF Program
<1>7. ASSUME NEW u \in Threads, cmd'[u] # 0
      PROVE  calc'[u] <= nCalculators' /\ cmd'[u] \in DOMAIN Program(calc'[u])
  <2>1. CASE u = t
    BY <1>1, <1>2, <1>4, <1>7, <2>1
  <2>2. CASE u # t
    BY <1>4, <1>7, <2>2 DEF TypeOK
  <2> QED
    BY <2>1, <2>2
<1>8. ASSUME NEW u \in Threads, pc'[u] \in Holding \cup {"lock"}
      PROVE  cmd'[u] # 0 /\ Program(calc'[u])[cmd'[u]].type # "CMD_ACK"
  <2>1. CASE u = t
    <3>1. k # 0
      BY <1>4, <1>8, <2>1
    <3> QED
      BY <1>1, <1>4, <2>1, <3>1
  <2>2. CASE u # t
    BY <1>4, <1>8, <2>2 DEF AtCommand
  <2> QED
    BY <2>1, <2>2
<1>9. WhereTyped'
  BY <1>5, <1>6, <1>7 DEF WhereTyped, Program
<1>10. AtCommand'
  BY <1>6, <1>8 DEF AtCommand, Program
<1> QED
  BY <1>4, <1>9, <1>10

(* A thread moves on with its command. *)
LEMMA Moved ==
  ASSUME TypeOK, ProgramInv, NEW t \in Threads, NEW to \in Where,
         pc' = [pc EXCEPT ![t] = to], UNCHANGED <<calc, cmd, sensor, nCalculators>>,
         to \in Holding \cup {"lock"} => pc[t] \in Holding \cup {"lock"},
         pc[t] # "loop"
  PROVE  WhereTyped' /\ ProgramInv'
<1>1. pc'[t] = to /\ \A u \in Threads \ {t} : pc'[u] = pc[u]
  BY DEF TypeOK
<1>2. pc' \in [Threads -> Where]
  BY DEF TypeOK, Where
<1>3. WhereTyped'
  BY <1>2 DEF TypeOK, WhereTyped, Program
<1>4. AtCommand'
  BY <1>1 DEF ProgramInv, AtCommand, Program
<1>5. pc'["sensor"] # "loop" => calc'["sensor"] <= nCalculators'
  BY <1>1 DEF ProgramInv, Threads
<1> QED
  BY <1>3, <1>4, <1>5 DEF ProgramInv, AtCommand

(* All threads stay where they are. *)
LEMMA Stayed ==
  ASSUME TypeOK, ProgramInv, UNCHANGED <<pc, calc, cmd, sensor, nCalculators>>
  PROVE  WhereTyped' /\ ProgramInv'
<1>1. \A x : Program(x)' = Program(x)
  BY DEF Program
<1>2. WhereTyped
  BY DEF TypeOK, WhereTyped, Where
<1>3. WhereTyped'
  BY <1>1, <1>2 DEF WhereTyped, Program
<1>4. ProgramInv'
  BY <1>1 DEF ProgramInv, Program
<1> QED
  BY <1>3, <1>4

LEMMA WhereStep ==
  ASSUME DiagInv, [Next]_vars
  PROVE  WhereTyped' /\ ProgramInv'
<1> USE DEF busVars, carVars, comVars, execVars, storeVars, timerVars
<1>1. ASSUME NEW t \in Threads, Lock(t) PROVE WhereTyped' /\ ProgramInv'
  <2>1. pc' = [pc EXCEPT ![t] = "flush"] /\ UNCHANGED <<calc, cmd, sensor, nCalculators>>
        /\ pc[t] = "lock"
    BY <1>1 DEF Lock, Go
  <2>2. "flush" \in Where /\ "lock" \in Holding \cup {"lock"} /\ "lock" # "loop"
    BY DEF Where, Holding
  <2> QED
    BY <2>1, <2>2, Moved DEF DiagInv
<1>2. ASSUME NEW t \in Threads, FlushGet(t) PROVE WhereTyped' /\ ProgramInv'
  <2>1. UNCHANGED <<pc, calc, cmd, sensor, nCalculators>>
    BY <1>2 DEF FlushGet
  <2> QED
    BY <2>1, Stayed DEF DiagInv
<1>3. ASSUME NEW t \in Threads, FlushEnd(t) PROVE WhereTyped' /\ ProgramInv'
  <2>1. pc' = [pc EXCEPT ![t] = "send"] /\ UNCHANGED <<calc, cmd, sensor, nCalculators>>
        /\ pc[t] = "flush"
    BY <1>3 DEF FlushEnd, Go
  <2>2. "send" \in Where /\ "flush" \in Holding \cup {"lock"} /\ "flush" # "loop"
    BY DEF Where, Holding
  <2> QED
    BY <2>1, <2>2, Moved DEF DiagInv
<1>4. ASSUME NEW t \in Threads, Send(t) PROVE WhereTyped' /\ ProgramInv'
  <2>1. pc' = [pc EXCEPT ![t] = "answer"] /\ UNCHANGED <<calc, cmd, sensor, nCalculators>>
        /\ pc[t] = "send"
    BY <1>4 DEF Send, Go
  <2>2. "answer" \in Where /\ "send" \in Holding \cup {"lock"} /\ "send" # "loop"
    BY DEF Where, Holding
  <2> QED
    BY <2>1, <2>2, Moved DEF DiagInv
<1>5. ASSUME NEW t \in Threads, AnswerShort(t) PROVE WhereTyped' /\ ProgramInv'
  <2>1. pc' = [pc EXCEPT ![t] = "end"] /\ UNCHANGED <<calc, cmd, sensor, nCalculators>>
        /\ pc[t] = "answer"
    BY <1>5 DEF AnswerShort, Take, Go
  <2>2. "end" \in Where /\ "answer" \in Holding \cup {"lock"} /\ "answer" # "loop"
    BY DEF Where, Holding
  <2> QED
    BY <2>1, <2>2, Moved DEF DiagInv
<1>6. ASSUME NEW t \in Threads, AnswerFirst(t) PROVE WhereTyped' /\ ProgramInv'
  <2>1. UNCHANGED <<pc, calc, cmd, sensor, nCalculators>>
    BY <1>6 DEF AnswerFirst, Take
  <2> QED
    BY <2>1, Stayed DEF DiagInv
<1>7. ASSUME NEW t \in Threads, AnswerNext(t) PROVE WhereTyped' /\ ProgramInv'
  <2>1. UNCHANGED <<calc, cmd, sensor, nCalculators>> /\ pc[t] = "answer"
        /\ (pc' = pc \/ \E to \in {"end", "answer"} : pc' = [pc EXCEPT ![t] = to])
    BY <1>7 DEF AnswerNext, Take, Segment, Go
  <2>2. CASE pc' = pc
    BY <2>1, <2>2 DEF DiagInv, ProgramInv, TypeOK, WhereTyped, Where, Program
  <2>3. ASSUME NEW to \in {"end", "answer"}, pc' = [pc EXCEPT ![t] = to]
        PROVE  WhereTyped' /\ ProgramInv'
    <3>1. to \in Where /\ pc[t] \in Holding
      BY <2>1 DEF Where, Holding
    <3> QED
      BY <2>1, <2>3, <3>1, Moved DEF DiagInv
  <2> QED
    BY <2>1, <2>2, <2>3
<1>8. ASSUME NEW t \in Threads, Timeout(t) PROVE WhereTyped' /\ ProgramInv'
  <2>1. pc' = [pc EXCEPT ![t] = "end"] /\ UNCHANGED <<calc, cmd, sensor, nCalculators>>
        /\ pc[t] = "answer"
    BY <1>8 DEF Timeout, Go
  <2>2. "end" \in Where /\ "answer" \in Holding \cup {"lock"} /\ "answer" # "loop"
    BY DEF Where, Holding
  <2> QED
    BY <2>1, <2>2, Moved DEF DiagInv
<1>9. ASSUME NEW t \in Threads, EndCommand(t) PROVE WhereTyped' /\ ProgramInv'
  <2>1. PICK to \in {"idle", "keep", "check"} : pc' = [pc EXCEPT ![t] = to]
    BY <1>9 DEF EndCommand, Go
  <2>2. UNCHANGED <<calc, cmd, sensor, nCalculators>> /\ pc[t] = "end"
    BY <1>9 DEF EndCommand
  <2>3. to \in Where /\ to \notin Holding \cup {"lock"} /\ "end" # "loop"
    BY <2>1 DEF Where, Holding
  <2> QED
    BY <2>1, <2>2, <2>3, Moved DEF DiagInv
<1>10. CASE DiagStart
  <2>1. calc["sensor"] \in 1 .. nCalculators
    BY SMTT(40), <1>10, SensorFacts DEF DiagInv, TypeOK, ProgramInv, DiagStart, Threads, Holding
  <2>2. TypeOK /\ AtCommand
    BY DEF DiagInv, ProgramInv, AtCommand
  <2>3. GoWith("sensor", IF NextCommand(calc["sensor"], 0, "CMD_DIAG_START") = 0 THEN "keep" ELSE "lock", calc["sensor"],
               NextCommand(calc["sensor"], 0, "CMD_DIAG_START"))
        /\ sensor' = sensor /\ nCalculators' = nCalculators
    BY <1>10 DEF DiagStart, Threads, FirstCommand, GoNext
  <2>4. "CMD_DIAG_START" \in CommandType \ {"CMD_ACK"} /\ "keep" \in Where \ (Holding \cup {"lock"})
        /\ "sensor" \in Threads
    BY DEF CommandType, Where, Holding, Threads
  <2>5. /\ WhereTyped' /\ AtCommand' /\ pc'["sensor"] \in {"keep", "lock"}
        /\ calc'["sensor"] = calc["sensor"]
    BY <2>1, <2>2, <2>3, <2>4, Found
  <2>6. pc'["sensor"] # "loop" => calc'["sensor"] <= nCalculators'
    BY SMTT(40), <2>1, <2>3, <2>5, SensorFacts DEF DiagInv
  <2> QED
    BY <2>5, <2>6 DEF ProgramInv, AtCommand
<1>11. CASE LoopEnd
  <2>1. /\ pc' = [pc EXCEPT !["sensor"] = "loop"] /\ calc' = [calc EXCEPT !["sensor"] = 1]
        /\ cmd' = [cmd EXCEPT !["sensor"] = 0] /\ sensor' = sensor /\ nCalculators' = nCalculators
    BY <1>11 DEF LoopEnd, GoWith, Go
  <2>2. /\ pc'["sensor"] = "loop" /\ cmd'["sensor"] = 0
        /\ pc'["timer"] = pc["timer"] /\ calc'["timer"] = calc["timer"] /\ cmd'["timer"] = cmd["timer"]
    BY <2>1 DEF DiagInv, TypeOK, Threads
  <2>3. /\ pc' \in [Threads -> Where] /\ calc' \in [Threads -> Nat \ {0}]
        /\ cmd' \in [Threads -> Nat]
    <3>1. pc' \in [Threads -> Where]
      BY <2>1 DEF DiagInv, TypeOK, Where
    <3>2. calc' \in [Threads -> Nat \ {0}]
      <4>1. calc \in [Threads -> Nat \ {0}] /\ 1 \in Nat \ {0}
        BY DEF DiagInv, TypeOK
      <4> QED
        BY <2>1, <4>1
    <3>3. cmd' \in [Threads -> Nat]
      BY <2>1 DEF DiagInv, TypeOK
    <3> QED
      BY <3>1, <3>2, <3>3
  <2>4. WhereTyped'
    BY <2>1, <2>2, <2>3 DEF DiagInv, TypeOK, WhereTyped, Program, Threads
  <2>5. ProgramInv'
    BY <2>1, <2>2 DEF DiagInv, ProgramInv, Program, Threads, Holding
  <2> QED
    BY <2>4, <2>5
<1>12. CASE KeepAliveStart
  <2>1. calc["sensor"] \in 1 .. nCalculators
    BY SMTT(40), <1>12, SensorFacts DEF DiagInv, TypeOK, ProgramInv, KeepAliveStart, Threads, Holding
  <2>2. TypeOK /\ AtCommand
    BY DEF DiagInv, ProgramInv, AtCommand
  <2>3. GoWith("sensor", IF NextCommand(calc["sensor"], 0, "CMD_NORM") = 0 THEN "stop" ELSE "lock", calc["sensor"],
               NextCommand(calc["sensor"], 0, "CMD_NORM"))
        /\ sensor' = sensor /\ nCalculators' = nCalculators
    BY <1>12 DEF KeepAliveStart, Threads, FirstCommand, GoNext
  <2>4. "CMD_NORM" \in CommandType \ {"CMD_ACK"} /\ "stop" \in Where \ (Holding \cup {"lock"})
        /\ "sensor" \in Threads
    BY DEF CommandType, Where, Holding, Threads
  <2>5. /\ WhereTyped' /\ AtCommand' /\ pc'["sensor"] \in {"stop", "lock"}
        /\ calc'["sensor"] = calc["sensor"]
    BY <2>1, <2>2, <2>3, <2>4, Found
  <2>6. pc'["sensor"] # "loop" => calc'["sensor"] <= nCalculators'
    BY SMTT(40), <2>1, <2>3, <2>5, SensorFacts DEF DiagInv
  <2> QED
    BY <2>5, <2>6 DEF ProgramInv, AtCommand
<1>13. CASE CheckResult
  <2>1. CASE respLen["sensor"] # 0 /\ Room
    <3>1. pc' = [pc EXCEPT !["sensor"] = "trylock"] /\ UNCHANGED <<calc, cmd, sensor, nCalculators>>
          /\ pc["sensor"] = "check"
      BY <1>13, <2>1 DEF CheckResult, Go
    <3>2. "sensor" \in Threads /\ "trylock" \in Where \ (Holding \cup {"lock"})
      BY DEF Threads, Where, Holding
    <3> QED
      BY <3>1, <3>2, Moved DEF DiagInv
  <2>2. CASE ~(respLen["sensor"] # 0 /\ Room)
    <3>1. calc["sensor"] \in 1 .. nCalculators
      BY SMTT(40), <1>13, <2>2, SensorFacts DEF DiagInv, TypeOK, ProgramInv, CheckResult, TryLock,
         Threads, Holding
    <3>2. TypeOK /\ AtCommand
      BY DEF DiagInv, ProgramInv, AtCommand
    <3>3. GoWith("sensor", IF NextCommand(calc["sensor"], cmd["sensor"], "CMD_NORM") = 0 THEN "stop" ELSE "lock", calc["sensor"],
                 NextCommand(calc["sensor"], cmd["sensor"], "CMD_NORM"))
          /\ sensor' = sensor /\ nCalculators' = nCalculators
      BY <1>13, <2>2 DEF CheckResult, TryLock, Threads, FirstCommand, GoNext
    <3>4. "CMD_NORM" \in CommandType \ {"CMD_ACK"} /\ "stop" \in Where \ (Holding \cup {"lock"})
          /\ "sensor" \in Threads
      BY DEF CommandType, Where, Holding, Threads
    <3>5. /\ WhereTyped' /\ AtCommand' /\ pc'["sensor"] \in {"stop", "lock"}
          /\ calc'["sensor"] = calc["sensor"]
      BY <3>1, <3>2, <3>3, <3>4, Found
    <3>6. pc'["sensor"] # "loop" => calc'["sensor"] <= nCalculators'
      BY SMTT(40), <3>1, <3>3, <3>5, SensorFacts DEF DiagInv
    <3> QED
      BY <3>5, <3>6 DEF ProgramInv, AtCommand
  <2> QED
    BY <2>1, <2>2
<1>14. CASE TryLock
  <2>1. CASE resultsMutex = "free"
    <3>1. pc' = [pc EXCEPT !["sensor"] = "store"] /\ UNCHANGED <<calc, cmd, sensor, nCalculators>>
          /\ pc["sensor"] = "trylock"
      BY <1>14, <2>1 DEF TryLock, Go
    <3>2. "sensor" \in Threads /\ "store" \in Where \ (Holding \cup {"lock"})
      BY DEF Threads, Where, Holding
    <3> QED
      BY <3>1, <3>2, Moved DEF DiagInv
  <2>2. CASE resultsMutex # "free"
    <3>1. calc["sensor"] \in 1 .. nCalculators
      BY SMTT(40), <1>14, <2>2, SensorFacts DEF DiagInv, TypeOK, ProgramInv, CheckResult, TryLock,
         Threads, Holding
    <3>2. TypeOK /\ AtCommand
      BY DEF DiagInv, ProgramInv, AtCommand
    <3>3. GoWith("sensor", IF NextCommand(calc["sensor"], cmd["sensor"], "CMD_NORM") = 0 THEN "stop" ELSE "lock", calc["sensor"],
                 NextCommand(calc["sensor"], cmd["sensor"], "CMD_NORM"))
          /\ sensor' = sensor /\ nCalculators' = nCalculators
      BY <1>14, <2>2 DEF CheckResult, TryLock, Threads, FirstCommand, GoNext
    <3>4. "CMD_NORM" \in CommandType \ {"CMD_ACK"} /\ "stop" \in Where \ (Holding \cup {"lock"})
          /\ "sensor" \in Threads
      BY DEF CommandType, Where, Holding, Threads
    <3>5. /\ WhereTyped' /\ AtCommand' /\ pc'["sensor"] \in {"stop", "lock"}
          /\ calc'["sensor"] = calc["sensor"]
      BY <3>1, <3>2, <3>3, <3>4, Found
    <3>6. pc'["sensor"] # "loop" => calc'["sensor"] <= nCalculators'
      BY SMTT(40), <3>1, <3>3, <3>5, SensorFacts DEF DiagInv
    <3> QED
      BY <3>5, <3>6 DEF ProgramInv, AtCommand
  <2> QED
    BY <2>1, <2>2
<1>15. CASE Store
  <2>1. calc["sensor"] \in 1 .. nCalculators
    BY SMTT(40), <1>15, SensorFacts DEF DiagInv, TypeOK, ProgramInv, Store, Threads, Holding
  <2>2. TypeOK /\ AtCommand
    BY DEF DiagInv, ProgramInv, AtCommand
  <2>3. GoWith("sensor", IF NextCommand(calc["sensor"], cmd["sensor"], "CMD_NORM") = 0 THEN "stop" ELSE "lock", calc["sensor"],
               NextCommand(calc["sensor"], cmd["sensor"], "CMD_NORM"))
        /\ sensor' = sensor /\ nCalculators' = nCalculators
    BY <1>15 DEF Store, Threads, FirstCommand, GoNext
  <2>4. "CMD_NORM" \in CommandType \ {"CMD_ACK"} /\ "stop" \in Where \ (Holding \cup {"lock"})
        /\ "sensor" \in Threads
    BY DEF CommandType, Where, Holding, Threads
  <2>5. /\ WhereTyped' /\ AtCommand' /\ pc'["sensor"] \in {"stop", "lock"}
        /\ calc'["sensor"] = calc["sensor"]
    BY <2>1, <2>2, <2>3, <2>4, Found
  <2>6. pc'["sensor"] # "loop" => calc'["sensor"] <= nCalculators'
    BY SMTT(40), <2>1, <2>3, <2>5, SensorFacts DEF DiagInv
  <2> QED
    BY <2>5, <2>6 DEF ProgramInv, AtCommand
<1>16. CASE KeepAliveStop
  <2> DEFINE c == calc["sensor"] + 1
  <2>1. WhereTyped /\ AtCommand /\ "sensor" \in Threads
    BY DEF DiagInv, TypeOK, ProgramInv, WhereTyped, AtCommand, Where, Threads
  <2>2. calc["sensor"] \in Nat
    BY <2>1 DEF WhereTyped
  <2>3. c \in Nat \ {0}
    BY <2>2
  <2>4. /\ pc' = [pc EXCEPT !["sensor"] = "loop"] /\ calc' = [calc EXCEPT !["sensor"] = c]
        /\ cmd' = [cmd EXCEPT !["sensor"] = 0]
        /\ UNCHANGED <<sensor, nCalculators>>
    BY <1>16 DEF KeepAliveStop, GoWith, Go
  <2> HIDE DEF c
  <2>5. /\ pc'["sensor"] = "loop" /\ cmd'["sensor"] = 0
        /\ \A u \in Threads \ {"sensor"} : pc'[u] = pc[u] /\ calc'[u] = calc[u] /\ cmd'[u] = cmd[u]
    BY <2>1, <2>4 DEF WhereTyped
  <2>6. pc' \in [Threads -> Where] /\ calc' \in [Threads -> Nat \ {0}] /\ cmd' \in [Threads -> Nat]
    BY <2>1, <2>3, <2>4 DEF WhereTyped, Where
  <2>7. \A x : Program(x)' = Program(x)
    BY <2>4 DEF Program
  <2>8. WhereTyped'
    BY <2>1, <2>4, <2>5, <2>6, <2>7 DEF WhereTyped, Program
  <2>9. "loop" \notin Holding \cup {"lock"}
    BY DEF Holding
  <2>10. AtCommand'
    BY <2>1, <2>5, <2>7, <2>9 DEF AtCommand, Program
  <2> QED
    BY <2>5, <2>8, <2>10 DEF ProgramInv, AtCommand
<1>17. CASE Dispatch
  <2>1. UNCHANGED <<pc, calc, cmd, sensor, nCalculators>>
    BY <1>17 DEF Dispatch
  <2> QED
    BY <2>1, Stayed DEF DiagInv
<1>18. CASE Event
  <2>1. UNCHANGED <<pc, calc, cmd, sensor, nCalculators>>
    BY <1>18 DEF Event
  <2> QED
    BY <2>1, Stayed DEF DiagInv
<1>19. CASE RxLost
  <2>1. UNCHANGED <<pc, calc, cmd, sensor, nCalculators>>
    BY <1>19 DEF RxLost
  <2> QED
    BY <2>1, Stayed DEF DiagInv
<1>20. CASE CarKeepAlive
  <2>1. UNCHANGED <<pc, calc, cmd, sensor, nCalculators>>
    BY <1>20 DEF CarKeepAlive
  <2> QED
    BY <2>1, Stayed DEF DiagInv
<1>21. CASE CarCommand
  <2>1. UNCHANGED <<pc, calc, cmd, sensor, nCalculators>>
    BY <1>21 DEF CarCommand
  <2> QED
    BY <2>1, Stayed DEF DiagInv
<1>22. CASE CarExtended
  <2>1. UNCHANGED <<pc, calc, cmd, sensor, nCalculators>>
    BY <1>22 DEF CarExtended
  <2> QED
    BY <2>1, Stayed DEF DiagInv
<1>23. CASE TimerTick
  <2>1. UNCHANGED <<pc, calc, cmd, sensor, nCalculators>>
    BY <1>23 DEF TimerTick
  <2> QED
    BY <2>1, Stayed DEF DiagInv
<1>24. CASE KeepAliveSequence
  <2>1. CalcIndex \in 1 .. nCalculators
    BY SMTT(40), <1>24, SensorFacts DEF DiagInv, TypeOK, ProgramInv, KeepAliveSequence, Holding
  <2>2. TypeOK /\ AtCommand
    BY DEF DiagInv, ProgramInv, AtCommand
  <2>3. GoWith("timer", IF NextCommand(CalcIndex, 0, "CMD_KEEP_ALIVE") = 0 THEN "idle" ELSE "lock", CalcIndex,
               NextCommand(CalcIndex, 0, "CMD_KEEP_ALIVE"))
        /\ sensor' = sensor /\ nCalculators' = nCalculators
    BY <1>24 DEF KeepAliveSequence, FirstCommand, GoNext
  <2>4. "CMD_KEEP_ALIVE" \in CommandType \ {"CMD_ACK"} /\ "idle" \in Where \ (Holding \cup {"lock"})
        /\ "timer" \in Threads
    BY DEF CommandType, Where, Holding, Threads
  <2>5. /\ WhereTyped' /\ AtCommand' /\ pc'["timer"] \in {"idle", "lock"}
        /\ calc'["timer"] = CalcIndex
    BY <2>1, <2>2, <2>3, <2>4, Found
  <2>6. pc'["sensor"] = pc["sensor"] /\ calc'["sensor"] = calc["sensor"]
    BY <2>3 DEF GoWith, Go, DiagInv, TypeOK, Threads
  <2> QED
    BY <2>3, <2>5, <2>6 DEF DiagInv, ProgramInv, AtCommand
<1>25. CASE AddCalculator
  <2>1. UNCHANGED <<pc, calc, cmd, sensor>> /\ nCalculators' = nCalculators + 1
    BY <1>25 DEF AddCalculator
  <2>2. /\ \A t \in Threads : calc[t] \in Nat /\ (calc[t] <= nCalculators => calc[t] <= nCalculators')
        /\ pc \in [Threads -> Where]
    BY SMTT(40), <2>1, SensorFacts DEF DiagInv, TypeOK, Where
  <2>3. WhereTyped'
    BY <2>1, <2>2 DEF DiagInv, TypeOK, WhereTyped, Program
  <2>4. ProgramInv'
    BY <2>1, <2>2 DEF DiagInv, ProgramInv, Program, Threads
  <2> QED
    BY <2>3, <2>4
<1>26. CASE CaptureLock
  <2>1. UNCHANGED <<pc, calc, cmd, sensor, nCalculators>>
    BY <1>26 DEF CaptureLock
  <2> QED
    BY <2>1, Stayed DEF DiagInv
<1>27. CASE CaptureCopy
  <2>1. UNCHANGED <<pc, calc, cmd, sensor, nCalculators>>
    BY <1>27 DEF CaptureCopy
  <2> QED
    BY <2>1, Stayed DEF DiagInv
<1>28. CASE UNCHANGED vars
  <2>1. UNCHANGED <<pc, calc, cmd, sensor, nCalculators>>
    BY <1>28 DEF vars
  <2> QED
    BY <2>1, Stayed DEF DiagInv
<1> QED
  BY <1>1, <1>2, <1>3, <1>4, <1>5, <1>6, <1>7, <1>8, <1>9, <1>10, <1>11, <1>12, <1>13, <1>14,
     <1>15, <1>16, <1>17, <1>18, <1>19, <1>20, <1>21, <1>22, <1>23, <1>24, <1>25, <1>26, <1>27,
     <1>28 DEF Next, Execute, Sensor, Can, Car

-----------------------------------------------------------------------------
(***************************************************************************)
(* Types.                                                                  *)
(***************************************************************************)
ChunkType == [tag : 0 .. Tags - 1, part : 0 .. 36]
ExecTyped ==
  /\ respLen \in [Threads -> 0 .. 255] /\ currLen \in [Threads -> 0 .. 255]
  /\ \A t \in Threads : currLen[t] <= respLen[t]
  /\ response \in [Threads -> Seq(ChunkType)]
  /\ outcome \in [Threads -> {"none", "complete", "timeout"}]
BusTyped ==
  /\ queue \in Seq(FrameType) /\ Len(queue) <= QueueSize
  /\ toCar \in Seq(RequestType) /\ fromCar \in Seq(FrameType) /\ arriving \in FrameType
  /\ carState \in {"IDLE", "EXT_CMD"} /\ carAnswer \in [len : 0 .. 64, tag : 0 .. Tags - 1]
  /\ tag \in 0 .. Tags - 1
ComTyped ==
  /\ DiagTxCMD \in Threads \cup {"free"}
  /\ state \in {"IDLE", "EXT_CMD"} /\ registered \in BOOLEAN
RestTyped ==
  /\ sensor \in Sensors /\ nCalculators \in 1 .. Len(sensor.calculators)
  /\ num \in Nat /\ resultsMutex \in {"free", "sensor", "main"}
  /\ timer \in BOOLEAN /\ due \in 0 .. TimerQueue /\ CalcIndex \in 1 .. nCalculators

LEMMA TypeParts == TypeOK <=> WhereTyped /\ ExecTyped /\ BusTyped /\ ComTyped /\ RestTyped
BY DEF TypeOK, WhereTyped, Where, ExecTyped, BusTyped, ComTyped, RestTyped, ChunkType

LEMMA TypePartsPrime ==
  WhereTyped' /\ ExecTyped' /\ BusTyped' /\ ComTyped' /\ RestTyped' => TypeOK'
BY TypeParts, PTL

LEMMA TypeNow ==
  ASSUME DiagInv
  PROVE  WhereTyped /\ ExecTyped /\ BusTyped /\ ComTyped /\ RestTyped
BY TypeParts DEF DiagInv

LEMMA ExecUpdate ==
  ASSUME ExecTyped, NEW t \in Threads, NEW a \in 0 .. 255, NEW b \in 0 .. 255, b <= a,
         NEW r \in Seq(ChunkType), NEW o \in {"none", "complete", "timeout"},
         respLen' = [respLen EXCEPT ![t] = a], currLen' = [currLen EXCEPT ![t] = b],
         response' = [response EXCEPT ![t] = r], outcome' = [outcome EXCEPT ![t] = o]
  PROVE  ExecTyped'
<1>1. respLen' \in [Threads -> 0 .. 255] /\ currLen' \in [Threads -> 0 .. 255]
  BY DEF ExecTyped
<1>2. response' \in [Threads -> Seq(ChunkType)]
  BY DEF ExecTyped
<1>3. outcome' \in [Threads -> {"none", "complete", "timeout"}]
  BY DEF ExecTyped
<1>4. ASSUME NEW u \in Threads PROVE currLen'[u] <= respLen'[u]
  <2>1. CASE u = t
    BY <2>1 DEF ExecTyped
  <2>2. CASE u # t
    BY <2>2 DEF ExecTyped
  <2> QED
    BY <2>1, <2>2
<1> QED
  BY <1>1, <1>2, <1>3, <1>4 DEF ExecTyped, ChunkType

LEMMA ExecKept ==
  ASSUME ExecTyped, NEW t \in Threads
  PROVE  /\ [respLen EXCEPT ![t] = respLen[t]] = respLen
         /\ [currLen EXCEPT ![t] = currLen[t]] = currLen
         /\ [response EXCEPT ![t] = response[t]] = response
         /\ [outcome EXCEPT ![t] = outcome[t]] = outcome
         /\ respLen[t] \in 0 .. 255 /\ currLen[t] \in 0 .. 255 /\ currLen[t] <= respLen[t]
         /\ response[t] \in Seq(ChunkType) /\ outcome[t] \in {"none", "complete", "timeout"}
BY DEF ExecTyped

(* What the holder takes is no longer than it may be. *)
LEMMA TakenLength ==
  ASSUME DiagInv, NEW t \in Threads, Take(t)
  PROVE  /\ Head(queue) \in FrameType
         /\ Opened(t) => currLen[t] = 0
         /\ Opened(t) /\ Head(queue).kind = "first" => 6 < Head(queue).len
         /\ Opened(t) \/ Following(t)
         /\ Following(t) => proto = "6A" /\ state = "EXT_CMD" /\ Head(queue).kind = "next"
         /\ Opened(t) => state = "IDLE" /\ Head(queue).kind # "next"
<1>1. TypeOK /\ queue # <<>> /\ pc[t] = "answer"
  BY DEF Take, DiagInv
<1>2. Head(queue) \in FrameType
  BY <1>1, PipeHead
<1>3. \/ Opened(t) /\ Head(queue) \in Opening(t)
      \/ Following(t) /\ Head(queue) \in Behind(t, LastPart(t))
  BY <1>1, TakenFacts
<1>4. Opened(t) => currLen[t] = 0 /\ state = "IDLE" /\ ~Following(t)
  BY DEF Opened, Nothing, Following
<1>5. Opened(t) => Head(queue) \in Opening(t)
  BY <1>3, <1>4
<1>6. Opened(t) => Head(queue).kind # "next" /\ (Head(queue).kind = "first" => 6 < Head(queue).len)
  <2>1. ASSUME Head(queue) \in Opening(t), Head(queue).kind = "first"
        PROVE  Head(queue).len = Ans(t) /\ Ans(t) > 6
    BY <2>1 DEF Opening, Long
  <2>2. ASSUME Head(queue) \in Opening(t) PROVE Head(queue).kind # "next"
    BY <2>2 DEF Opening
  <2> QED
    BY <1>5, <2>1, <2>2, AnsFacts, <1>1 DEF DiagInv, Holding
<1>7. Following(t) => proto = "6A" /\ state = "EXT_CMD" /\ Head(queue).kind = "next"
  <2>1. Following(t) => proto = "6A" /\ state = "EXT_CMD"
    BY DEF Following, Long
  <2>2. Following(t) => Head(queue) \in Behind(t, LastPart(t))
    BY <1>3, <1>4
  <2> QED
    BY <2>1, <2>2 DEF Behind
<1> QED
  BY <1>2, <1>3, <1>4, <1>6, <1>7

LEMMA ExecStep ==
  ASSUME DiagInv, [Next]_vars
  PROVE  ExecTyped'
<1> USE DEF busVars, carVars, comVars, execVars, storeVars, timerVars
<1>1. ASSUME NEW t \in Threads, Lock(t) PROVE ExecTyped'
  <2>1. currLen[t] = 0
    BY <1>1 DEF Lock, DiagInv, IdleInv, Idle
  <2>2. respLen' = [respLen EXCEPT ![t] = 0] /\ UNCHANGED <<currLen, response, outcome>>
    BY <1>1 DEF Lock
  <2> QED
    <3>1. ExecTyped
      BY TypeNow
    <3>2. /\ currLen' = [currLen EXCEPT ![t] = 0]
          /\ response' = [response EXCEPT ![t] = response[t]]
          /\ outcome' = [outcome EXCEPT ![t] = outcome[t]]
          /\ response[t] \in Seq(ChunkType) /\ outcome[t] \in {"none", "complete", "timeout"}
      BY <2>1, <2>2, <3>1, ExecKept
    <3>3. 0 \in 0 .. 255 /\ 0 <= 0
      OBVIOUS
    <3> DEFINE o == outcome[t]
               r == response[t]
    <3>4. o \in {"none", "complete", "timeout"} /\ r \in Seq(ChunkType)
          /\ outcome' = [outcome EXCEPT ![t] = o] /\ response' = [response EXCEPT ![t] = r]
          /\ currLen' = [currLen EXCEPT ![t] = 0] /\ respLen' = [respLen EXCEPT ![t] = 0]
      BY <2>2, <3>2
    <3> HIDE DEF o, r
    <3> QED
      BY <3>1, <3>3, <3>4, ExecUpdate
<1>2. ASSUME NEW t \in Threads, FlushGet(t) PROVE ExecTyped'
  BY <1>2 DEF FlushGet, DiagInv, TypeOK, ExecTyped, ChunkType
<1>3. ASSUME NEW t \in Threads, FlushEnd(t) PROVE ExecTyped'
  BY <1>3 DEF FlushEnd, Go, DiagInv, TypeOK, ExecTyped, ChunkType
<1>4. ASSUME NEW t \in Threads, Send(t) PROVE ExecTyped'
  BY <1>4 DEF Send, Go, DiagInv, TypeOK, ExecTyped, ChunkType
<1>5. ASSUME NEW t \in Threads, AnswerShort(t) PROVE ExecTyped'
  <2> DEFINE f == Head(queue)
  <2>1. Take(t) /\ (proto = "68" \/ (state = "IDLE" /\ f.kind = "short"))
    BY <1>5 DEF AnswerShort
  <2>2. f \in FrameType /\ currLen[t] = 0
    BY <2>1, TakenLength
  <2>3. /\ respLen' = [respLen EXCEPT ![t] = f.len] /\ currLen' = currLen
        /\ response' = [response EXCEPT ![t] = <<Chunk(f)>>]
        /\ outcome' = [outcome EXCEPT ![t] = "complete"]
    BY <1>5 DEF AnswerShort
  <2>4. f.len \in 0 .. 255 /\ <<Chunk(f)>> \in Seq(ChunkType)
    BY <2>2, FrameFacts DEF FrameType, ChunkType
  <2> HIDE DEF f
  <2> QED
    <3>1. ExecTyped
      BY TypeNow
    <3>2. currLen' = [currLen EXCEPT ![t] = 0]
      BY <2>2, <2>3, <3>1, ExecKept
    <3>3. 0 \in 0 .. 255 /\ 0 <= f.len /\ "complete" \in {"none", "complete", "timeout"}
      BY <2>4
    <3> QED
      BY <2>3, <2>4, <3>1, <3>2, <3>3, ExecUpdate
<1>6. ASSUME NEW t \in Threads, AnswerFirst(t) PROVE ExecTyped'
  <2> DEFINE f == Head(queue)
  <2>1. Take(t) /\ f.kind = "first" /\ state = "IDLE"
    BY <1>6 DEF AnswerFirst
  <2>2. f \in FrameType /\ 6 < f.len
    BY <2>1, TakenLength
  <2>3. /\ respLen' = [respLen EXCEPT ![t] = f.len] /\ currLen' = [currLen EXCEPT ![t] = 6]
        /\ response' = [response EXCEPT ![t] = <<Chunk(f)>>] /\ outcome' = outcome
    BY <1>6 DEF AnswerFirst
  <2>4. f.len \in 0 .. 255 /\ <<Chunk(f)>> \in Seq(ChunkType)
    BY <2>2, FrameFacts DEF FrameType, ChunkType
  <2> HIDE DEF f
  <2> QED
    <3>1. ExecTyped
      BY TypeNow
    <3>2. outcome' = [outcome EXCEPT ![t] = outcome[t]]
          /\ outcome[t] \in {"none", "complete", "timeout"}
      BY <2>3, <3>1, ExecKept
    <3>3. 6 \in 0 .. 255 /\ 6 <= f.len
      BY <2>2, <2>4
    <3> DEFINE o == outcome[t]
    <3>4. o \in {"none", "complete", "timeout"} /\ outcome' = [outcome EXCEPT ![t] = o]
      BY <3>2
    <3> HIDE DEF o
    <3> QED
      BY ZenonT(60), <2>3, <2>4, <3>1, <3>3, <3>4, ExecUpdate
<1>7. ASSUME NEW t \in Threads, AnswerNext(t) PROVE ExecTyped'
  <2> DEFINE f == Head(queue)
             have == currLen[t] + Payload(t)
  <2>1. Take(t) /\ respLen' = respLen
    BY <1>7 DEF AnswerNext
  <2>2. f \in FrameType
    BY <2>1, TakenLength
  <2>3. Chunk(f) \in ChunkType
    BY <2>2, FrameFacts DEF ChunkType
  <2>4. /\ respLen[t] \in 0 .. 255 /\ currLen[t] \in 0 .. 255 /\ currLen[t] <= respLen[t]
        /\ response[t] \in Seq(ChunkType)
    BY ExecKept, TypeNow
  <2>5. have \in 0 .. 255 /\ have <= respLen[t]
    <3> DEFINE a == respLen[t]
               b == currLen[t]
    <3>1. a \in 0 .. 255 /\ b \in 0 .. 255 /\ b <= a
          /\ have = b + (IF a - b < 7 THEN a - b ELSE 7)
      BY <2>4 DEF Payload, Smaller
    <3> HIDE DEF a, b, have
    <3>2. have \in 0 .. 255 /\ have <= a
      BY <3>1
    <3> QED
      BY <3>2 DEF a
  <2>6. Append(response[t], Chunk(f)) \in Seq(ChunkType)
    BY <2>3, <2>4, AppendProperties
  <2>7. \/ UNCHANGED <<currLen, response, outcome>>
        \/ /\ currLen' = [currLen EXCEPT ![t] = have]
           /\ response' = [response EXCEPT ![t] = Append(response[t], Chunk(f))]
           /\ (outcome' = [outcome EXCEPT ![t] = "complete"] \/ outcome' = outcome)
    <3>1. CASE state = "EXT_CMD" /\ f.kind = "next"
      <4>1. Segment(t, f, respLen[t])
        BY <1>7, <3>1 DEF AnswerNext
      <4>2. outcome' \in {[outcome EXCEPT ![t] = "complete"], [outcome EXCEPT ![t] = outcome[t]]}
        BY <4>1 DEF Segment
      <4>3. [outcome EXCEPT ![t] = outcome[t]] = outcome
        BY ExecKept, TypeNow
      <4>4. /\ currLen' = [currLen EXCEPT ![t] = have]
            /\ response' = [response EXCEPT ![t] = Append(response[t], Chunk(f))]
        BY <4>1 DEF Segment
      <4> QED
        BY <4>2, <4>3, <4>4
    <3>2. CASE ~(state = "EXT_CMD" /\ f.kind = "next")
      BY <1>7, <3>2 DEF AnswerNext
    <3> QED
      BY <3>1, <3>2
  <2> HIDE DEF f, have
  <2>8. CASE UNCHANGED <<currLen, response, outcome>>
    BY <2>1, <2>8, TypeNow DEF ExecTyped
  <2>9. CASE ~UNCHANGED <<currLen, response, outcome>>
    <3>1. PICK o \in {"complete", outcome[t]} : outcome' = [outcome EXCEPT ![t] = o]
      BY <2>7, <2>9, ExecKept, TypeNow
    <3>2. o \in {"none", "complete", "timeout"}
      BY ExecKept, TypeNow
    <3>3. respLen' = [respLen EXCEPT ![t] = respLen[t]] /\ ExecTyped
      BY <2>1, ExecKept, TypeNow
    <3> QED
      BY ZenonT(60), <2>4, <2>5, <2>6, <2>7, <2>9, <3>1, <3>2, <3>3, ExecUpdate
  <2> QED
    BY <2>8, <2>9
<1>8. ASSUME NEW t \in Threads, Timeout(t) PROVE ExecTyped'
  BY <1>8 DEF Timeout, Go, DiagInv, TypeOK, ExecTyped, ChunkType
<1>9. ASSUME NEW t \in Threads, EndCommand(t) PROVE ExecTyped'
  <2>1. /\ respLen' = [respLen EXCEPT ![t] = IF t = "timer" THEN 0 ELSE respLen[t]]
        /\ currLen' = [currLen EXCEPT ![t] = 0]
        /\ response' = [response EXCEPT ![t] = <<>>]
        /\ outcome' = [outcome EXCEPT ![t] = "none"]
    BY <1>9 DEF EndCommand, Forget
  <2>2. <<>> \in Seq(ChunkType)
    OBVIOUS
  <2>3. ExecTyped /\ 0 \in 0 .. 255 /\ 0 <= respLen[t]
        /\ (IF t = "timer" THEN 0 ELSE respLen[t]) \in 0 .. 255
        /\ 0 <= (IF t = "timer" THEN 0 ELSE respLen[t])
    <3>1. ExecTyped
      BY TypeNow
    <3>2. respLen[t] \in 0 .. 255
      BY <3>1 DEF ExecTyped
    <3> QED
      BY <3>1, <3>2
  <2> QED
    BY <2>1, <2>2, <2>3, ExecUpdate
<1>10. CASE DiagStart
  BY <1>10 DEF DiagStart, GoWith, Go, DiagInv, TypeOK, ExecTyped, ChunkType
<1>11. CASE LoopEnd
  BY <1>11 DEF LoopEnd, GoWith, Go, DiagInv, TypeOK, ExecTyped, ChunkType
<1>12. CASE KeepAliveStart
  BY <1>12 DEF KeepAliveStart, GoWith, Go, DiagInv, TypeOK, ExecTyped, ChunkType
<1>13. CASE CheckResult
  BY <1>13 DEF CheckResult, GoNext, GoWith, Go, DiagInv, TypeOK, ExecTyped, ChunkType
<1>14. CASE TryLock
  BY <1>14 DEF TryLock, GoNext, GoWith, Go, DiagInv, TypeOK, ExecTyped, ChunkType
<1>15. CASE Store
  BY <1>15 DEF Store, GoNext, GoWith, Go, DiagInv, TypeOK, ExecTyped, ChunkType
<1>16. CASE KeepAliveStop
  BY <1>16 DEF KeepAliveStop, GoWith, Go, DiagInv, TypeOK, ExecTyped, ChunkType
<1>17. CASE Dispatch
  BY <1>17 DEF Dispatch, DiagInv, TypeOK, ExecTyped, ChunkType
<1>18. CASE Event
  BY <1>18 DEF Event, DiagInv, TypeOK, ExecTyped, ChunkType
<1>19. CASE RxLost
  BY <1>19 DEF RxLost, DiagInv, TypeOK, ExecTyped, ChunkType
<1>20. CASE CarKeepAlive
  BY <1>20 DEF CarKeepAlive, DiagInv, TypeOK, ExecTyped, ChunkType
<1>21. CASE CarCommand
  BY <1>21 DEF CarCommand, DiagInv, TypeOK, ExecTyped, ChunkType
<1>22. CASE CarExtended
  BY <1>22 DEF CarExtended, DiagInv, TypeOK, ExecTyped, ChunkType
<1>23. CASE TimerTick
  BY <1>23 DEF TimerTick, DiagInv, TypeOK, ExecTyped, ChunkType
<1>24. CASE KeepAliveSequence
  BY <1>24 DEF KeepAliveSequence, GoWith, Go, DiagInv, TypeOK, ExecTyped, ChunkType
<1>25. CASE AddCalculator
  BY <1>25 DEF AddCalculator, DiagInv, TypeOK, ExecTyped, ChunkType
<1>26. CASE CaptureLock
  BY <1>26 DEF CaptureLock, DiagInv, TypeOK, ExecTyped, ChunkType
<1>27. CASE CaptureCopy
  BY <1>27 DEF CaptureCopy, DiagInv, TypeOK, ExecTyped, ChunkType
<1>28. CASE UNCHANGED vars
  BY <1>28 DEF vars, DiagInv, TypeOK, ExecTyped, ChunkType
<1> QED
  BY <1>1, <1>2, <1>3, <1>4, <1>5, <1>6, <1>7, <1>8, <1>9, <1>10, <1>11, <1>12, <1>13, <1>14,
     <1>15, <1>16, <1>17, <1>18, <1>19, <1>20, <1>21, <1>22, <1>23, <1>24, <1>25, <1>26, <1>27,
     <1>28 DEF Next, Execute, Sensor, Can, Car

LEMMA BusStep ==
  ASSUME DiagInv, [Next]_vars
  PROVE  BusTyped'
<1> USE DEF busVars, carVars, comVars, execVars, storeVars, timerVars
<1>1. ASSUME NEW t \in Threads, Lock(t) PROVE BusTyped'
  BY <1>1 DEF Lock, Go, DiagInv, TypeOK, BusTyped
<1>2. ASSUME NEW t \in Threads, FlushGet(t) PROVE BusTyped'
  <2>1. queue # <<>> /\ queue' = Tail(queue) /\ UNCHANGED <<fromCar, arriving, carVars, tag>>
    BY <1>2 DEF FlushGet, busVars
  <2>2. Tail(queue) \in Seq(FrameType) /\ Len(Tail(queue)) = Len(queue) - 1 /\ Len(queue) \in Nat
    BY <2>1, HeadTailProperties, LenProperties DEF DiagInv, TypeOK
  <2>3. toCar' = toCar
    BY <1>2 DEF FlushGet, busVars
  <2> QED
    BY <2>1, <2>2, <2>3, ConstantFacts DEF carVars, DiagInv, TypeOK, BusTyped
<1>3. ASSUME NEW t \in Threads, FlushEnd(t) PROVE BusTyped'
  BY <1>3 DEF FlushEnd, Go, DiagInv, TypeOK, BusTyped
<1>4. ASSUME NEW t \in Threads, Send(t) PROVE BusTyped'
  <2> DEFINE c == Program(calc[t])[cmd[t]]
  <2>1. c \in Command
    BY <1>4, AnsFacts DEF Send, DiagInv, Holding
  <2>2. tag' = (tag + 1) % Tags /\ tag' \in 0 .. Tags - 1
    BY <1>4, ConstantFacts DEF Send, DiagInv, TypeOK
  <2>3. [type |-> c.type, ans |-> c.ans, tag |-> tag'] \in RequestType
    BY <2>1, <2>2 DEF RequestType, Command
  <2>4. /\ toCar' = Append(toCar, [type |-> c.type, ans |-> c.ans, tag |-> tag'])
        /\ UNCHANGED <<queue, fromCar, arriving, carVars>>
    BY <1>4 DEF Send
  <2> HIDE DEF c
  <2>5. toCar' \in Seq(RequestType)
    BY <2>3, <2>4, AppendProperties DEF DiagInv, TypeOK
  <2> QED
    BY <2>2, <2>4, <2>5 DEF carVars, DiagInv, TypeOK, BusTyped
<1>5. ASSUME NEW t \in Threads, AnswerShort(t) PROVE BusTyped'
  <2>1. queue # <<>> /\ queue' = Tail(queue) /\ UNCHANGED <<fromCar, arriving, carVars, tag>>
    BY <1>5 DEF AnswerShort, Take
  <2>2. Tail(queue) \in Seq(FrameType) /\ Len(Tail(queue)) = Len(queue) - 1 /\ Len(queue) \in Nat
    BY <2>1, HeadTailProperties, LenProperties DEF DiagInv, TypeOK
  <2>3. toCar' = toCar
    BY <1>5 DEF AnswerShort, Take
  <2> QED
    BY <2>1, <2>2, <2>3, ConstantFacts DEF carVars, DiagInv, TypeOK, BusTyped
<1>6. ASSUME NEW t \in Threads, AnswerFirst(t) PROVE BusTyped'
  <2>1. queue # <<>> /\ queue' = Tail(queue) /\ UNCHANGED <<fromCar, arriving, carVars, tag>>
    BY <1>6 DEF AnswerFirst, Take
  <2>2. Tail(queue) \in Seq(FrameType) /\ Len(Tail(queue)) = Len(queue) - 1 /\ Len(queue) \in Nat
    BY <2>1, HeadTailProperties, LenProperties DEF DiagInv, TypeOK
  <2>3. [type |-> "CMD_ACK", ans |-> 0, tag |-> tag] \in RequestType
    BY ConstantFacts DEF DiagInv, TypeOK, RequestType, CommandType
  <2>4. toCar' \in Seq(RequestType)
    <3>1. toCar' \in {toCar, Append(toCar, [type |-> "CMD_ACK", ans |-> 0, tag |-> tag])}
      BY <1>6 DEF AnswerFirst
    <3>2. toCar \in Seq(RequestType)
      BY DEF DiagInv, TypeOK
    <3> QED
      BY <2>3, <3>1, <3>2, AppendProperties
  <2> QED
    BY <2>1, <2>2, <2>4, ConstantFacts DEF carVars, DiagInv, TypeOK, BusTyped
<1>7. ASSUME NEW t \in Threads, AnswerNext(t) PROVE BusTyped'
  <2>1. queue # <<>> /\ queue' = Tail(queue) /\ UNCHANGED <<fromCar, arriving, carVars, tag>>
    BY <1>7 DEF AnswerNext, Take
  <2>2. Tail(queue) \in Seq(FrameType) /\ Len(Tail(queue)) = Len(queue) - 1 /\ Len(queue) \in Nat
    BY <2>1, HeadTailProperties, LenProperties DEF DiagInv, TypeOK
  <2>3. toCar' = toCar
    BY <1>7 DEF AnswerNext, Take
  <2> QED
    BY <2>1, <2>2, <2>3, ConstantFacts DEF carVars, DiagInv, TypeOK, BusTyped
<1>8. ASSUME NEW t \in Threads, Timeout(t) PROVE BusTyped'
  BY <1>8 DEF Timeout, Go, DiagInv, TypeOK, BusTyped
<1>9. ASSUME NEW t \in Threads, EndCommand(t) PROVE BusTyped'
  BY <1>9 DEF EndCommand, Forget, Go, DiagInv, TypeOK, BusTyped
<1>10. CASE DiagStart
  BY <1>10 DEF DiagStart, GoWith, Go, DiagInv, TypeOK, BusTyped
<1>11. CASE LoopEnd
  BY <1>11 DEF LoopEnd, GoWith, Go, DiagInv, TypeOK, BusTyped
<1>12. CASE KeepAliveStart
  BY <1>12 DEF KeepAliveStart, GoWith, Go, DiagInv, TypeOK, BusTyped
<1>13. CASE CheckResult
  BY <1>13 DEF CheckResult, GoNext, GoWith, Go, DiagInv, TypeOK, BusTyped
<1>14. CASE TryLock
  BY <1>14 DEF TryLock, GoNext, GoWith, Go, DiagInv, TypeOK, BusTyped
<1>15. CASE Store
  BY <1>15 DEF Store, GoNext, GoWith, Go, DiagInv, TypeOK, BusTyped
<1>16. CASE KeepAliveStop
  BY <1>16 DEF KeepAliveStop, GoWith, Go, DiagInv, TypeOK, BusTyped
<1>17. CASE Dispatch
  <2>1. fromCar # <<>> /\ arriving' \in {Head(fromCar), NoFrame} /\ fromCar' = Tail(fromCar)
        /\ UNCHANGED <<queue, toCar, carVars, tag>>
    BY <1>17 DEF Dispatch, comVars
  <2>2. Head(fromCar) \in FrameType /\ Tail(fromCar) \in Seq(FrameType)
    BY <2>1, HeadTailProperties DEF DiagInv, TypeOK
  <2> QED
    BY <2>1, <2>2, FrameFacts DEF carVars, DiagInv, TypeOK, BusTyped
<1>18. CASE Event
  <2>1. /\ queue' = IF Len(queue) < QueueSize THEN Append(queue, arriving) ELSE queue
        /\ arriving' = NoFrame /\ UNCHANGED <<toCar, fromCar, carVars, tag>>
    BY <1>18 DEF Event
  <2>2. /\ Append(queue, arriving) \in Seq(FrameType) /\ Len(queue) \in Nat
        /\ Len(Append(queue, arriving)) = Len(queue) + 1
    BY AppendProperties, LenProperties DEF DiagInv, TypeOK
  <2>3. queue' \in Seq(FrameType) /\ Len(queue') <= QueueSize
    BY <2>1, <2>2, ConstantFacts DEF DiagInv, TypeOK
  <2> QED
    BY <2>1, <2>3, FrameFacts DEF carVars, DiagInv, TypeOK, BusTyped
<1>19. CASE RxLost
  <2>1. fromCar # <<>> /\ fromCar' = Tail(fromCar)
        /\ UNCHANGED <<queue, toCar, arriving, carVars, tag>>
    BY <1>19 DEF RxLost, comVars
  <2>2. Tail(fromCar) \in Seq(FrameType)
    BY <2>1, HeadTailProperties DEF DiagInv, TypeOK
  <2> QED
    BY <2>1, <2>2, FrameFacts DEF carVars, DiagInv, TypeOK, BusTyped
<1>20. CASE CarKeepAlive
  <2>1. toCar # <<>> /\ toCar' = Tail(toCar) /\ UNCHANGED <<queue, arriving, tag, carVars>>
    BY <1>20 DEF CarKeepAlive, comVars
  <2>2. Head(toCar) \in RequestType /\ Tail(toCar) \in Seq(RequestType)
    BY <2>1, HeadTailProperties DEF DiagInv, TypeOK
  <2>3. Frame("short", 1, Head(toCar).tag, 0) \in FrameType
    BY <2>2 DEF Frame, FrameType, RequestType
  <2>4. fromCar' \in Seq(FrameType)
    BY <1>20, <2>3, AppendProperties DEF CarKeepAlive, DiagInv, TypeOK
  <2> QED
    BY <2>1, <2>2, <2>4 DEF carVars, DiagInv, TypeOK, BusTyped
<1>21. CASE CarCommand
  <2>1. toCar # <<>> /\ toCar' = Tail(toCar) /\ UNCHANGED <<queue, arriving, tag>>
    BY <1>21 DEF CarCommand, comVars
  <2>2. Head(toCar) \in RequestType /\ Tail(toCar) \in Seq(RequestType)
    BY <2>1, HeadTailProperties DEF DiagInv, TypeOK
  <2> DEFINE c == Head(toCar)
             kind == IF c.ans > 6 /\ proto = "6A" THEN "first" ELSE "short"
  <2>7. c.ans \in 0 .. 64 /\ c.tag \in 0 .. Tags - 1 /\ kind \in {"first", "short"}
    BY <2>2 DEF RequestType
  <2>3. Frame(kind, c.ans, c.tag, 0) \in FrameType
    <3> HIDE DEF c, kind
    <3> QED
      BY <2>7 DEF Frame, FrameType
  <2>4. fromCar' \in Seq(FrameType)
    BY <1>21, <2>3, AppendProperties DEF CarCommand, DiagInv, TypeOK
  <2>5. NoAnswer \in [len : 0 .. 64, tag : 0 .. Tags - 1]
        /\ [len |-> c.ans, tag |-> c.tag] \in [len : 0 .. 64, tag : 0 .. Tags - 1]
    <3> HIDE DEF c
    <3> QED
      BY <2>7, ConstantFacts DEF NoAnswer
  <2>6. carState' \in {"IDLE", "EXT_CMD"} /\ carAnswer' \in {NoAnswer, [len |-> c.ans, tag |-> c.tag]}
    BY <1>21 DEF CarCommand
  <2> HIDE DEF c
  <2> QED
    BY <2>1, <2>2, <2>4, <2>5, <2>6 DEF DiagInv, TypeOK, BusTyped
<1>22. CASE CarExtended
  <2>1. toCar # <<>> /\ toCar' = Tail(toCar) /\ UNCHANGED <<queue, arriving, tag>>
    BY <1>22 DEF CarExtended, comVars
  <2>2. Head(toCar) \in RequestType /\ Tail(toCar) \in Seq(RequestType)
    BY <2>1, HeadTailProperties DEF DiagInv, TypeOK
  <2> DEFINE n == Segments(carAnswer.len)
             more == [p \in 1 .. n |-> Frame("next", 0, carAnswer.tag, p)]
  <2>3. n \in 0 .. 9
    <3>1. \A m \in 0 .. 64 : m \div 7 \in 0 .. 9
      OBVIOUS
    <3>2. carAnswer.len \in 0 .. 64
      BY DEF DiagInv, TypeOK
    <3> QED
      BY <3>1, <3>2 DEF Segments
  <2>4. more \in Seq(FrameType)
    <3> HIDE DEF n
    <3>1. \A p \in 1 .. n : Frame("next", 0, carAnswer.tag, p) \in FrameType
      BY <2>3 DEF Frame, FrameType, DiagInv, TypeOK
    <3>2. more \in [1 .. n -> FrameType]
      BY <3>1
    <3> QED
      BY <2>3, <3>2, SeqDef
  <2>5. NoAnswer \in [len : 0 .. 64, tag : 0 .. Tags - 1]
    BY ConstantFacts DEF NoAnswer
  <2>6. /\ carState' = "IDLE" /\ carAnswer' = NoAnswer
        /\ fromCar' \in {fromCar, fromCar \o more}
    BY <1>22 DEF CarExtended
  <2> HIDE DEF more
  <2>7. fromCar' \in Seq(FrameType)
    <3>1. fromCar \in Seq(FrameType)
      BY DEF DiagInv, TypeOK
    <3> QED
      BY <2>4, <2>6, <3>1, ConcatProperties
  <2> QED
    BY <2>1, <2>2, <2>5, <2>6, <2>7 DEF DiagInv, TypeOK, BusTyped
<1>23. CASE TimerTick
  BY <1>23 DEF TimerTick, DiagInv, TypeOK, BusTyped
<1>24. CASE KeepAliveSequence
  BY <1>24 DEF KeepAliveSequence, GoWith, Go, DiagInv, TypeOK, BusTyped
<1>25. CASE AddCalculator
  BY <1>25 DEF AddCalculator, DiagInv, TypeOK, BusTyped
<1>26. CASE CaptureLock
  BY <1>26 DEF CaptureLock, DiagInv, TypeOK, BusTyped
<1>27. CASE CaptureCopy
  BY <1>27 DEF CaptureCopy, DiagInv, TypeOK, BusTyped
<1>28. CASE UNCHANGED vars
  BY <1>28 DEF vars, DiagInv, TypeOK, BusTyped
<1> QED
  BY <1>1, <1>2, <1>3, <1>4, <1>5, <1>6, <1>7, <1>8, <1>9, <1>10, <1>11, <1>12, <1>13, <1>14,
     <1>15, <1>16, <1>17, <1>18, <1>19, <1>20, <1>21, <1>22, <1>23, <1>24, <1>25, <1>26, <1>27,
     <1>28 DEF Next, Execute, Sensor, Can, Car

LEMMA ComStep ==
  ASSUME DiagInv, [Next]_vars
  PROVE  ComTyped'
<1> USE DEF busVars, carVars, comVars, execVars, storeVars, timerVars
<1>1. ASSUME NEW t \in Threads, Lock(t) PROVE ComTyped'
  BY <1>1 DEF Lock, Go, DiagInv, TypeOK, ComTyped
<1>2. ASSUME NEW t \in Threads, FlushGet(t) PROVE ComTyped'
  BY <1>2 DEF FlushGet, DiagInv, TypeOK, ComTyped
<1>3. ASSUME NEW t \in Threads, FlushEnd(t) PROVE ComTyped'
  BY <1>3 DEF FlushEnd, Go, DiagInv, TypeOK, ComTyped
<1>4. ASSUME NEW t \in Threads, Send(t) PROVE ComTyped'
  BY <1>4 DEF Send, Go, DiagInv, TypeOK, ComTyped
<1>5. ASSUME NEW t \in Threads, AnswerShort(t) PROVE ComTyped'
  BY <1>5 DEF AnswerShort, Take, Go, DiagInv, TypeOK, ComTyped
<1>6. ASSUME NEW t \in Threads, AnswerFirst(t) PROVE ComTyped'
  BY <1>6 DEF AnswerFirst, Take, DiagInv, TypeOK, ComTyped
<1>7. ASSUME NEW t \in Threads, AnswerNext(t) PROVE ComTyped'
  BY <1>7 DEF AnswerNext, Take, Segment, Go, DiagInv, TypeOK, ComTyped
<1>8. ASSUME NEW t \in Threads, Timeout(t) PROVE ComTyped'
  BY <1>8 DEF Timeout, Go, DiagInv, TypeOK, ComTyped
<1>9. ASSUME NEW t \in Threads, EndCommand(t) PROVE ComTyped'
  BY <1>9 DEF EndCommand, Forget, Go, DiagInv, TypeOK, ComTyped
<1>10. CASE DiagStart
  BY <1>10 DEF DiagStart, GoWith, Go, DiagInv, TypeOK, ComTyped
<1>11. CASE LoopEnd
  BY <1>11 DEF LoopEnd, GoWith, Go, DiagInv, TypeOK, ComTyped
<1>12. CASE KeepAliveStart
  BY <1>12 DEF KeepAliveStart, GoWith, Go, DiagInv, TypeOK, ComTyped
<1>13. CASE CheckResult
  BY <1>13 DEF CheckResult, GoNext, GoWith, Go, DiagInv, TypeOK, ComTyped
<1>14. CASE TryLock
  BY <1>14 DEF TryLock, GoNext, GoWith, Go, DiagInv, TypeOK, ComTyped
<1>15. CASE Store
  BY <1>15 DEF Store, GoNext, GoWith, Go, DiagInv, TypeOK, ComTyped
<1>16. CASE KeepAliveStop
  BY <1>16 DEF KeepAliveStop, GoWith, Go, DiagInv, TypeOK, ComTyped
<1>17. CASE Dispatch
  BY <1>17 DEF Dispatch, DiagInv, TypeOK, ComTyped
<1>18. CASE Event
  BY <1>18 DEF Event, DiagInv, TypeOK, ComTyped
<1>19. CASE RxLost
  BY <1>19 DEF RxLost, DiagInv, TypeOK, ComTyped
<1>20. CASE CarKeepAlive
  BY <1>20 DEF CarKeepAlive, DiagInv, TypeOK, ComTyped
<1>21. CASE CarCommand
  BY <1>21 DEF CarCommand, DiagInv, TypeOK, ComTyped
<1>22. CASE CarExtended
  BY <1>22 DEF CarExtended, DiagInv, TypeOK, ComTyped
<1>23. CASE TimerTick
  BY <1>23 DEF TimerTick, DiagInv, TypeOK, ComTyped
<1>24. CASE KeepAliveSequence
  BY <1>24 DEF KeepAliveSequence, GoWith, Go, DiagInv, TypeOK, ComTyped
<1>25. CASE AddCalculator
  BY <1>25 DEF AddCalculator, DiagInv, TypeOK, ComTyped
<1>26. CASE CaptureLock
  BY <1>26 DEF CaptureLock, DiagInv, TypeOK, ComTyped
<1>27. CASE CaptureCopy
  BY <1>27 DEF CaptureCopy, DiagInv, TypeOK, ComTyped
<1>28. CASE UNCHANGED vars
  BY <1>28 DEF vars, DiagInv, TypeOK, ComTyped
<1> QED
  BY <1>1, <1>2, <1>3, <1>4, <1>5, <1>6, <1>7, <1>8, <1>9, <1>10, <1>11, <1>12, <1>13, <1>14,
     <1>15, <1>16, <1>17, <1>18, <1>19, <1>20, <1>21, <1>22, <1>23, <1>24, <1>25, <1>26, <1>27,
     <1>28 DEF Next, Execute, Sensor, Can, Car

LEMMA RestStep ==
  ASSUME DiagInv, [Next]_vars
  PROVE  RestTyped'
<1> USE DEF busVars, carVars, comVars, execVars, storeVars, timerVars
<1>1. ASSUME NEW t \in Threads, Lock(t) PROVE RestTyped'
  BY <1>1, ConstantFacts, SensorFacts DEF Lock, Go, DiagInv, TypeOK, RestTyped
<1>2. ASSUME NEW t \in Threads, FlushGet(t) PROVE RestTyped'
  BY <1>2, ConstantFacts, SensorFacts DEF FlushGet, DiagInv, TypeOK, RestTyped
<1>3. ASSUME NEW t \in Threads, FlushEnd(t) PROVE RestTyped'
  BY <1>3, ConstantFacts, SensorFacts DEF FlushEnd, Go, DiagInv, TypeOK, RestTyped
<1>4. ASSUME NEW t \in Threads, Send(t) PROVE RestTyped'
  BY <1>4, ConstantFacts, SensorFacts DEF Send, Go, DiagInv, TypeOK, RestTyped
<1>5. ASSUME NEW t \in Threads, AnswerShort(t) PROVE RestTyped'
  BY <1>5, ConstantFacts, SensorFacts DEF AnswerShort, Take, Go, DiagInv, TypeOK, RestTyped
<1>6. ASSUME NEW t \in Threads, AnswerFirst(t) PROVE RestTyped'
  BY <1>6, ConstantFacts, SensorFacts DEF AnswerFirst, Take, DiagInv, TypeOK, RestTyped
<1>7. ASSUME NEW t \in Threads, AnswerNext(t) PROVE RestTyped'
  BY <1>7, ConstantFacts, SensorFacts DEF AnswerNext, Take, Segment, Go, DiagInv, TypeOK,
     RestTyped
<1>8. ASSUME NEW t \in Threads, Timeout(t) PROVE RestTyped'
  BY <1>8, ConstantFacts, SensorFacts DEF Timeout, Go, DiagInv, TypeOK, RestTyped
<1>9. ASSUME NEW t \in Threads, EndCommand(t) PROVE RestTyped'
  BY <1>9, ConstantFacts, SensorFacts DEF EndCommand, Forget, Go, DiagInv, TypeOK, RestTyped
<1>10. CASE DiagStart
  BY <1>10, ConstantFacts, SensorFacts DEF DiagStart, GoWith, Go, DiagInv, TypeOK, RestTyped
<1>11. CASE LoopEnd
  BY <1>11, ConstantFacts, SensorFacts DEF LoopEnd, GoWith, Go, DiagInv, TypeOK, RestTyped
<1>12. CASE KeepAliveStart
  <2>1. pc["sensor"] = "keep" /\ UNCHANGED <<sensor, nCalculators, due, num, resultsMutex>>
    BY <1>12 DEF KeepAliveStart, storeVars
  <2>2. timer' \in BOOLEAN
    BY <1>12 DEF KeepAliveStart, DiagInv, TypeOK
  <2>3. calc["sensor"] \in 1 .. nCalculators
    BY <2>1, SensorFacts DEF DiagInv, TypeOK, ProgramInv, Threads
  <2>4. CalcIndex' \in {CalcIndex, calc["sensor"]}
    BY <1>12 DEF KeepAliveStart
  <2>5. CalcIndex' \in 1 .. nCalculators'
    BY <2>1, <2>3, <2>4 DEF DiagInv, TypeOK
  <2> QED
    BY <2>1, <2>2, <2>5 DEF DiagInv, TypeOK, RestTyped
<1>13. CASE CheckResult
  BY <1>13, ConstantFacts, SensorFacts DEF CheckResult, GoNext, GoWith, Go, DiagInv, TypeOK,
     RestTyped
<1>14. CASE TryLock
  BY <1>14, ConstantFacts, SensorFacts DEF TryLock, GoNext, GoWith, Go, DiagInv, TypeOK,
     RestTyped
<1>15. CASE Store
  <2>1. respLen["sensor"] \in Nat /\ num \in Nat
    <3>1. "sensor" \in Threads /\ ExecTyped /\ RestTyped
      BY TypeNow DEF Threads
    <3>2. respLen["sensor"] \in 0 .. 255
      BY <3>1 DEF ExecTyped
    <3>3. num \in Nat
      BY DEF DiagInv, TypeOK
    <3> QED
      BY <3>2, <3>3
  <2>2. num' = num + 4 + 4 + 2 + respLen["sensor"] /\ resultsMutex' = "free"
        /\ UNCHANGED <<sensor, nCalculators, timer, due, CalcIndex>>
    BY <1>15 DEF Store, timerVars
  <2>3. num' \in Nat
    BY <2>1, <2>2
  <2> QED
    BY <2>2, <2>3 DEF DiagInv, TypeOK, RestTyped
<1>16. CASE KeepAliveStop
  BY <1>16, ConstantFacts, SensorFacts DEF KeepAliveStop, GoWith, Go, DiagInv, TypeOK, RestTyped
<1>17. CASE Dispatch
  BY <1>17, ConstantFacts, SensorFacts DEF Dispatch, DiagInv, TypeOK, RestTyped
<1>18. CASE Event
  BY <1>18, ConstantFacts, SensorFacts DEF Event, DiagInv, TypeOK, RestTyped
<1>19. CASE RxLost
  BY <1>19, ConstantFacts, SensorFacts DEF RxLost, DiagInv, TypeOK, RestTyped
<1>20. CASE CarKeepAlive
  BY <1>20, ConstantFacts, SensorFacts DEF CarKeepAlive, DiagInv, TypeOK, RestTyped
<1>21. CASE CarCommand
  BY <1>21, ConstantFacts, SensorFacts DEF CarCommand, DiagInv, TypeOK, RestTyped
<1>22. CASE CarExtended
  BY <1>22, ConstantFacts, SensorFacts DEF CarExtended, DiagInv, TypeOK, RestTyped
<1>23. CASE TimerTick
  BY <1>23, ConstantFacts, SensorFacts DEF TimerTick, DiagInv, TypeOK, RestTyped
<1>24. CASE KeepAliveSequence
  BY <1>24, ConstantFacts, SensorFacts DEF KeepAliveSequence, GoWith, Go, DiagInv, TypeOK,
     RestTyped
<1>25. CASE AddCalculator
  BY <1>25, ConstantFacts, SensorFacts DEF AddCalculator, DiagInv, TypeOK, RestTyped
<1>26. CASE CaptureLock
  BY <1>26, ConstantFacts, SensorFacts DEF CaptureLock, DiagInv, TypeOK, RestTyped
<1>27. CASE CaptureCopy
  BY <1>27, ConstantFacts, SensorFacts DEF CaptureCopy, DiagInv, TypeOK, RestTyped
<1>28. CASE UNCHANGED vars
  BY <1>28, ConstantFacts, SensorFacts DEF vars, DiagInv, TypeOK, RestTyped
<1> QED
  BY <1>1, <1>2, <1>3, <1>4, <1>5, <1>6, <1>7, <1>8, <1>9, <1>10, <1>11, <1>12, <1>13, <1>14,
     <1>15, <1>16, <1>17, <1>18, <1>19, <1>20, <1>21, <1>22, <1>23, <1>24, <1>25, <1>26, <1>27,
     <1>28 DEF Next, Execute, Sensor, Can, Car

LEMMA TypeStep ==
  ASSUME DiagInv, [Next]_vars
  PROVE  TypeOK'
BY WhereStep, ExecStep, BusStep, ComStep, RestStep, TypePartsPrime

-----------------------------------------------------------------------------
(***************************************************************************)
(* The lock, the calculator and the room in the store.                     *)
(***************************************************************************)
LEMMA PcType ==
  ASSUME DiagInv
  PROVE  pc \in [Threads -> Where]
BY TypeNow DEF WhereTyped

LEMMA LockMoved ==
  ASSUME DiagInv, NEW t \in Threads, NEW to, pc' = [pc EXCEPT ![t] = to],
         DiagTxCMD' = DiagTxCMD, to \in Holding <=> pc[t] \in Holding
  PROVE  LockInv'
<1>1. pc'[t] = to /\ \A u \in Threads \ {t} : pc'[u] = pc[u]
  BY PcType
<1> QED
  BY <1>1 DEF DiagInv, LockInv

LEMMA LockStep ==
  ASSUME DiagInv, [Next]_vars
  PROVE  LockInv'
<1> USE DEF busVars, carVars, comVars, execVars, storeVars, timerVars
<1>1. ASSUME NEW t \in Threads, Lock(t) PROVE LockInv'
  <2>1. /\ pc[t] = "lock" /\ DiagTxCMD = "free" /\ DiagTxCMD' = t /\ pc \in [Threads -> Where]
        /\ pc' = [pc EXCEPT ![t] = "flush"]
    BY <1>1, PcType DEF Lock, Go
  <2>2. pc'[t] \in Holding /\ \A u \in Threads \ {t} : pc'[u] = pc[u]
    BY <2>1 DEF Holding
  <2>3. \A u \in Threads : DiagTxCMD # u
    BY <2>1 DEF Threads
  <2>4. \A u \in Threads : pc[u] \notin Holding
    BY <2>3 DEF DiagInv, LockInv
  <2> QED
    BY <2>1, <2>2, <2>4 DEF LockInv
<1>2. ASSUME NEW t \in Threads, FlushGet(t) PROVE LockInv'
  BY <1>2, PcType DEF FlushGet, DiagInv, LockInv
<1>3. ASSUME NEW t \in Threads, FlushEnd(t) PROVE LockInv'
  <2>1. pc[t] = "flush" /\ DiagTxCMD' = DiagTxCMD /\ t \in Threads
        /\ \E to \in {"send"} : pc' = [pc EXCEPT ![t] = to]
    BY <1>3 DEF FlushEnd, GoNext, GoWith, Go, Threads
  <2>2. "flush" \in Holding <=> \A to \in {"send"} : to \in Holding
    BY DEF Holding
  <2>3. \A to \in {"send"} : to \in Holding <=> pc[t] \in Holding
    BY <2>1, <2>2 DEF Holding
  <2> QED
    BY <2>1, <2>3, LockMoved
<1>4. ASSUME NEW t \in Threads, Send(t) PROVE LockInv'
  <2>1. pc[t] = "send" /\ DiagTxCMD' = DiagTxCMD /\ t \in Threads
        /\ \E to \in {"answer"} : pc' = [pc EXCEPT ![t] = to]
    BY <1>4 DEF Send, GoNext, GoWith, Go, Threads
  <2>2. "send" \in Holding <=> \A to \in {"answer"} : to \in Holding
    BY DEF Holding
  <2>3. \A to \in {"answer"} : to \in Holding <=> pc[t] \in Holding
    BY <2>1, <2>2 DEF Holding
  <2> QED
    BY <2>1, <2>3, LockMoved
<1>5. ASSUME NEW t \in Threads, AnswerShort(t) PROVE LockInv'
  <2>1. pc[t] = "answer" /\ DiagTxCMD' = DiagTxCMD /\ t \in Threads
        /\ \E to \in {"end"} : pc' = [pc EXCEPT ![t] = to]
    BY <1>5 DEF AnswerShort, Take, GoNext, GoWith, Go, Threads
  <2>2. "answer" \in Holding <=> \A to \in {"end"} : to \in Holding
    BY DEF Holding
  <2>3. \A to \in {"end"} : to \in Holding <=> pc[t] \in Holding
    BY <2>1, <2>2 DEF Holding
  <2> QED
    BY <2>1, <2>3, LockMoved
<1>6. ASSUME NEW t \in Threads, AnswerFirst(t) PROVE LockInv'
  BY <1>6, PcType DEF AnswerFirst, Take, DiagInv, LockInv
<1>7. ASSUME NEW t \in Threads, AnswerNext(t) PROVE LockInv'
  <2>1. DiagTxCMD' = DiagTxCMD /\ pc[t] = "answer"
        /\ (pc' = pc \/ \E to \in {"end", "answer"} : pc' = [pc EXCEPT ![t] = to])
    BY <1>7 DEF AnswerNext, Take, Segment, Go
  <2>2. pc[t] \in Holding /\ \A to \in {"end", "answer"} : to \in Holding
    BY <2>1 DEF Holding
  <2>3. CASE pc' = pc
    BY <2>1, <2>3 DEF DiagInv, LockInv
  <2> QED
    BY <2>1, <2>2, <2>3, LockMoved
<1>8. ASSUME NEW t \in Threads, Timeout(t) PROVE LockInv'
  <2>1. pc[t] = "answer" /\ DiagTxCMD' = DiagTxCMD /\ t \in Threads
        /\ \E to \in {"end"} : pc' = [pc EXCEPT ![t] = to]
    BY <1>8 DEF Timeout, GoNext, GoWith, Go, Threads
  <2>2. "answer" \in Holding <=> \A to \in {"end"} : to \in Holding
    BY DEF Holding
  <2>3. \A to \in {"end"} : to \in Holding <=> pc[t] \in Holding
    BY <2>1, <2>2 DEF Holding
  <2> QED
    BY <2>1, <2>3, LockMoved
<1>9. ASSUME NEW t \in Threads, EndCommand(t) PROVE LockInv'
  <2>1. /\ pc[t] = "end" /\ DiagTxCMD' = "free" /\ pc \in [Threads -> Where]
        /\ \E to \in {"idle", "keep", "check"} : pc' = [pc EXCEPT ![t] = to]
    BY <1>9, PcType DEF EndCommand, Go
  <2>2. pc'[t] \notin Holding /\ \A u \in Threads \ {t} : pc'[u] = pc[u]
    BY <2>1 DEF Holding
  <2>3. \A u \in Threads \ {t} : pc[u] \notin Holding
    BY <2>1, Alone DEF DiagInv, Holding
  <2>4. \A u \in Threads : DiagTxCMD' # u
    BY <2>1 DEF Threads
  <2> QED
    BY <2>2, <2>3, <2>4 DEF LockInv
<1>10. CASE DiagStart
  <2>1. pc["sensor"] = "loop" /\ DiagTxCMD' = DiagTxCMD /\ "sensor" \in Threads
        /\ \E to \in {"keep", "lock"} : pc' = [pc EXCEPT !["sensor"] = to]
    BY <1>10 DEF DiagStart, GoNext, GoWith, Go, Threads
  <2>2. "loop" \in Holding <=> \A to \in {"keep", "lock"} : to \in Holding
    BY DEF Holding
  <2>3. \A to \in {"keep", "lock"} : to \in Holding <=> pc["sensor"] \in Holding
    BY <2>1, <2>2 DEF Holding
  <2> QED
    BY <2>1, <2>3, LockMoved
<1>11. CASE LoopEnd
  <2>1. pc["sensor"] = "loop" /\ DiagTxCMD' = DiagTxCMD /\ "sensor" \in Threads
        /\ \E to \in {"loop"} : pc' = [pc EXCEPT !["sensor"] = to]
    BY <1>11 DEF LoopEnd, GoNext, GoWith, Go, Threads
  <2>2. "loop" \in Holding <=> \A to \in {"loop"} : to \in Holding
    BY DEF Holding
  <2>3. \A to \in {"loop"} : to \in Holding <=> pc["sensor"] \in Holding
    BY <2>1, <2>2 DEF Holding
  <2> QED
    BY <2>1, <2>3, LockMoved
<1>12. CASE KeepAliveStart
  <2>1. pc["sensor"] = "keep" /\ DiagTxCMD' = DiagTxCMD /\ "sensor" \in Threads
        /\ \E to \in {"stop", "lock"} : pc' = [pc EXCEPT !["sensor"] = to]
    BY <1>12 DEF KeepAliveStart, GoNext, GoWith, Go, Threads
  <2>2. "keep" \in Holding <=> \A to \in {"stop", "lock"} : to \in Holding
    BY DEF Holding
  <2>3. \A to \in {"stop", "lock"} : to \in Holding <=> pc["sensor"] \in Holding
    BY <2>1, <2>2 DEF Holding
  <2> QED
    BY <2>1, <2>3, LockMoved
<1>13. CASE CheckResult
  <2>1. pc["sensor"] = "check" /\ DiagTxCMD' = DiagTxCMD /\ "sensor" \in Threads
        /\ \E to \in {"stop", "lock", "trylock"} : pc' = [pc EXCEPT !["sensor"] = to]
    BY <1>13 DEF CheckResult, GoNext, GoWith, Go, Threads
  <2>2. "check" \in Holding <=> \A to \in {"stop", "lock", "trylock"} : to \in Holding
    BY DEF Holding
  <2>3. \A to \in {"stop", "lock", "trylock"} : to \in Holding <=> pc["sensor"] \in Holding
    BY <2>1, <2>2 DEF Holding
  <2> QED
    BY <2>1, <2>3, LockMoved
<1>14. CASE TryLock
  <2>1. pc["sensor"] = "trylock" /\ DiagTxCMD' = DiagTxCMD /\ "sensor" \in Threads
        /\ \E to \in {"stop", "lock", "store"} : pc' = [pc EXCEPT !["sensor"] = to]
    BY <1>14 DEF TryLock, GoNext, GoWith, Go, Threads
  <2>2. "trylock" \in Holding <=> \A to \in {"stop", "lock", "store"} : to \in Holding
    BY DEF Holding
  <2>3. \A to \in {"stop", "lock", "store"} : to \in Holding <=> pc["sensor"] \in Holding
    BY <2>1, <2>2 DEF Holding
  <2> QED
    BY <2>1, <2>3, LockMoved
<1>15. CASE Store
  <2>1. pc["sensor"] = "store" /\ DiagTxCMD' = DiagTxCMD /\ "sensor" \in Threads
        /\ \E to \in {"stop", "lock"} : pc' = [pc EXCEPT !["sensor"] = to]
    BY <1>15 DEF Store, GoNext, GoWith, Go, Threads
  <2>2. "store" \in Holding <=> \A to \in {"stop", "lock"} : to \in Holding
    BY DEF Holding
  <2>3. \A to \in {"stop", "lock"} : to \in Holding <=> pc["sensor"] \in Holding
    BY <2>1, <2>2 DEF Holding
  <2> QED
    BY <2>1, <2>3, LockMoved
<1>16. CASE KeepAliveStop
  <2>1. pc["sensor"] = "stop" /\ DiagTxCMD' = DiagTxCMD /\ "sensor" \in Threads
        /\ \E to \in {"loop"} : pc' = [pc EXCEPT !["sensor"] = to]
    BY <1>16 DEF KeepAliveStop, GoNext, GoWith, Go, Threads
  <2>2. "stop" \in Holding <=> \A to \in {"loop"} : to \in Holding
    BY DEF Holding
  <2>3. \A to \in {"loop"} : to \in Holding <=> pc["sensor"] \in Holding
    BY <2>1, <2>2 DEF Holding
  <2> QED
    BY <2>1, <2>3, LockMoved
<1>17. CASE Dispatch
  BY <1>17, PcType DEF Dispatch, DiagInv, LockInv
<1>18. CASE Event
  BY <1>18, PcType DEF Event, DiagInv, LockInv
<1>19. CASE RxLost
  BY <1>19, PcType DEF RxLost, DiagInv, LockInv
<1>20. CASE CarKeepAlive
  BY <1>20, PcType DEF CarKeepAlive, DiagInv, LockInv
<1>21. CASE CarCommand
  BY <1>21, PcType DEF CarCommand, DiagInv, LockInv
<1>22. CASE CarExtended
  BY <1>22, PcType DEF CarExtended, DiagInv, LockInv
<1>23. CASE TimerTick
  BY <1>23, PcType DEF TimerTick, DiagInv, LockInv
<1>24. CASE KeepAliveSequence
  <2>1. pc["timer"] = "idle" /\ DiagTxCMD' = DiagTxCMD /\ "timer" \in Threads
        /\ \E to \in {"idle", "lock"} : pc' = [pc EXCEPT !["timer"] = to]
    BY <1>24 DEF KeepAliveSequence, GoNext, GoWith, Go, Threads
  <2>2. "idle" \in Holding <=> \A to \in {"idle", "lock"} : to \in Holding
    BY DEF Holding
  <2>3. \A to \in {"idle", "lock"} : to \in Holding <=> pc["timer"] \in Holding
    BY <2>1, <2>2 DEF Holding
  <2> QED
    BY <2>1, <2>3, LockMoved
<1>25. CASE AddCalculator
  BY <1>25, PcType DEF AddCalculator, DiagInv, LockInv
<1>26. CASE CaptureLock
  BY <1>26, PcType DEF CaptureLock, DiagInv, LockInv
<1>27. CASE CaptureCopy
  BY <1>27, PcType DEF CaptureCopy, DiagInv, LockInv
<1>28. CASE UNCHANGED vars
  BY <1>28, PcType DEF vars, DiagInv, LockInv
<1> QED
  BY <1>1, <1>2, <1>3, <1>4, <1>5, <1>6, <1>7, <1>8, <1>9, <1>10, <1>11, <1>12, <1>13, <1>14,
     <1>15, <1>16, <1>17, <1>18, <1>19, <1>20, <1>21, <1>22, <1>23, <1>24, <1>25, <1>26, <1>27,
     <1>28 DEF Next, Execute, Sensor, Can, Car

LEMMA CarStep ==
  ASSUME DiagInv, [Next]_vars
  PROVE  CarInv'
<1> USE DEF busVars, carVars, comVars, execVars, storeVars, timerVars
<1>1. ASSUME NEW t \in Threads, Lock(t) PROVE CarInv'
  BY <1>1 DEF Lock, Go, DiagInv, CarInv, proto
<1>2. ASSUME NEW t \in Threads, FlushGet(t) PROVE CarInv'
  BY <1>2 DEF FlushGet, DiagInv, CarInv, proto
<1>3. ASSUME NEW t \in Threads, FlushEnd(t) PROVE CarInv'
  BY <1>3 DEF FlushEnd, Go, DiagInv, CarInv, proto
<1>4. ASSUME NEW t \in Threads, Send(t) PROVE CarInv'
  BY <1>4 DEF Send, Go, DiagInv, CarInv, proto
<1>5. ASSUME NEW t \in Threads, AnswerShort(t) PROVE CarInv'
  BY <1>5 DEF AnswerShort, Take, Go, DiagInv, CarInv, proto
<1>6. ASSUME NEW t \in Threads, AnswerFirst(t) PROVE CarInv'
  BY <1>6 DEF AnswerFirst, Take, DiagInv, CarInv, proto
<1>7. ASSUME NEW t \in Threads, AnswerNext(t) PROVE CarInv'
  BY <1>7 DEF AnswerNext, Take, Segment, Go, DiagInv, CarInv, proto
<1>8. ASSUME NEW t \in Threads, Timeout(t) PROVE CarInv'
  BY <1>8 DEF Timeout, Go, DiagInv, CarInv, proto
<1>9. ASSUME NEW t \in Threads, EndCommand(t) PROVE CarInv'
  BY <1>9 DEF EndCommand, Forget, Go, DiagInv, CarInv, proto
<1>10. CASE DiagStart
  BY <1>10 DEF DiagStart, GoWith, Go, DiagInv, CarInv, proto
<1>11. CASE LoopEnd
  BY <1>11 DEF LoopEnd, GoWith, Go, DiagInv, CarInv, proto
<1>12. CASE KeepAliveStart
  BY <1>12 DEF KeepAliveStart, GoWith, Go, DiagInv, CarInv, proto
<1>13. CASE CheckResult
  BY <1>13 DEF CheckResult, GoNext, GoWith, Go, DiagInv, CarInv, proto
<1>14. CASE TryLock
  BY <1>14 DEF TryLock, GoNext, GoWith, Go, DiagInv, CarInv, proto
<1>15. CASE Store
  BY <1>15 DEF Store, GoNext, GoWith, Go, DiagInv, CarInv, proto
<1>16. CASE KeepAliveStop
  BY <1>16 DEF KeepAliveStop, GoWith, Go, DiagInv, CarInv, proto
<1>17. CASE Dispatch
  BY <1>17 DEF Dispatch, DiagInv, CarInv, proto
<1>18. CASE Event
  BY <1>18 DEF Event, DiagInv, CarInv, proto
<1>19. CASE RxLost
  BY <1>19 DEF RxLost, DiagInv, CarInv, proto
<1>20. CASE CarKeepAlive
  BY <1>20 DEF CarKeepAlive, DiagInv, CarInv, proto
<1>21. CASE CarCommand
  BY <1>21 DEF CarCommand, DiagInv, CarInv, proto
<1>22. CASE CarExtended
  BY <1>22 DEF CarExtended, DiagInv, CarInv, proto
<1>23. CASE TimerTick
  BY <1>23 DEF TimerTick, DiagInv, CarInv, proto
<1>24. CASE KeepAliveSequence
  BY <1>24 DEF KeepAliveSequence, GoWith, Go, DiagInv, CarInv, proto
<1>25. CASE AddCalculator
  BY <1>25 DEF AddCalculator, DiagInv, CarInv, proto
<1>26. CASE CaptureLock
  BY <1>26 DEF CaptureLock, DiagInv, CarInv, proto
<1>27. CASE CaptureCopy
  BY <1>27 DEF CaptureCopy, DiagInv, CarInv, proto
<1>28. CASE UNCHANGED vars
  BY <1>28 DEF vars, DiagInv, CarInv, proto
<1> QED
  BY <1>1, <1>2, <1>3, <1>4, <1>5, <1>6, <1>7, <1>8, <1>9, <1>10, <1>11, <1>12, <1>13, <1>14,
     <1>15, <1>16, <1>17, <1>18, <1>19, <1>20, <1>21, <1>22, <1>23, <1>24, <1>25, <1>26, <1>27,
     <1>28 DEF Next, Execute, Sensor, Can, Car


LEMMA RoomStep ==
  ASSUME DiagInv, [Next]_vars
  PROVE  RoomInv'
<1> USE DEF busVars, carVars, comVars, execVars, storeVars, timerVars
<1>1. ASSUME NEW t \in Threads, Lock(t) PROVE RoomInv'
  <2>1. /\ UNCHANGED num /\ (t = "sensor" => pc'["sensor"] \notin {"trylock", "store"})
        /\ (t # "sensor" => pc'["sensor"] = pc["sensor"] /\ respLen'["sensor"] = respLen["sensor"])
    BY <1>1, PcType, TypeNow DEF Lock, Go, storeVars, execVars, Threads, ExecTyped
  <2> QED
    BY <2>1 DEF DiagInv, RoomInv, Room
<1>2. ASSUME NEW t \in Threads, FlushGet(t) PROVE RoomInv'
  <2>1. UNCHANGED <<num, pc, respLen>>
    BY <1>2 DEF FlushGet, storeVars, execVars
  <2> QED
    BY <2>1 DEF DiagInv, RoomInv, Room
<1>3. ASSUME NEW t \in Threads, FlushEnd(t) PROVE RoomInv'
  <2>1. /\ UNCHANGED num /\ (t = "sensor" => pc'["sensor"] \notin {"trylock", "store"})
        /\ (t # "sensor" => pc'["sensor"] = pc["sensor"] /\ respLen'["sensor"] = respLen["sensor"])
    BY <1>3, PcType, TypeNow DEF FlushEnd, Go, storeVars, execVars, Threads, ExecTyped
  <2> QED
    BY <2>1 DEF DiagInv, RoomInv, Room
<1>4. ASSUME NEW t \in Threads, Send(t) PROVE RoomInv'
  <2>1. /\ UNCHANGED num /\ (t = "sensor" => pc'["sensor"] \notin {"trylock", "store"})
        /\ (t # "sensor" => pc'["sensor"] = pc["sensor"] /\ respLen'["sensor"] = respLen["sensor"])
    BY <1>4, PcType, TypeNow DEF Send, Go, storeVars, execVars, Threads, ExecTyped
  <2> QED
    BY <2>1 DEF DiagInv, RoomInv, Room
<1>5. ASSUME NEW t \in Threads, AnswerShort(t) PROVE RoomInv'
  <2>1. /\ UNCHANGED num /\ (t = "sensor" => pc'["sensor"] \notin {"trylock", "store"})
        /\ (t # "sensor" => pc'["sensor"] = pc["sensor"] /\ respLen'["sensor"] = respLen["sensor"])
    BY <1>5, PcType, TypeNow DEF AnswerShort, Take, Go, storeVars, execVars, Threads, ExecTyped
  <2> QED
    BY <2>1 DEF DiagInv, RoomInv, Room
<1>6. ASSUME NEW t \in Threads, AnswerFirst(t) PROVE RoomInv'
  <2>1. UNCHANGED <<num, pc>> /\ pc[t] = "answer" /\ respLen' = [respLen EXCEPT ![t] = Head(queue).len]
    BY <1>6 DEF AnswerFirst, Take, storeVars
  <2>2. respLen \in [Threads -> 0 .. 255]
    BY TypeNow DEF ExecTyped
  <2>3. t # "sensor" => respLen'["sensor"] = respLen["sensor"]
    BY <2>1, <2>2 DEF Threads
  <2>4. t = "sensor" => pc'["sensor"] \notin {"trylock", "store"}
    BY <2>1
  <2> QED
    BY <2>1, <2>3, <2>4 DEF DiagInv, RoomInv, Room
<1>7. ASSUME NEW t \in Threads, AnswerNext(t) PROVE RoomInv'
  <2>1. /\ UNCHANGED num /\ (t = "sensor" => pc'["sensor"] \notin {"trylock", "store"})
        /\ (t # "sensor" => pc'["sensor"] = pc["sensor"] /\ respLen'["sensor"] = respLen["sensor"])
    BY <1>7, PcType, TypeNow DEF AnswerNext, Take, Segment, Go, storeVars, execVars, Threads,
       ExecTyped
  <2> QED
    BY <2>1 DEF DiagInv, RoomInv, Room
<1>8. ASSUME NEW t \in Threads, Timeout(t) PROVE RoomInv'
  <2>1. /\ UNCHANGED num /\ (t = "sensor" => pc'["sensor"] \notin {"trylock", "store"})
        /\ (t # "sensor" => pc'["sensor"] = pc["sensor"] /\ respLen'["sensor"] = respLen["sensor"])
    BY <1>8, PcType, TypeNow DEF Timeout, Go, storeVars, execVars, Threads, ExecTyped
  <2> QED
    BY <2>1 DEF DiagInv, RoomInv, Room
<1>9. ASSUME NEW t \in Threads, EndCommand(t) PROVE RoomInv'
  <2>1. /\ UNCHANGED num /\ (t = "sensor" => pc'["sensor"] \notin {"trylock", "store"})
        /\ (t # "sensor" => pc'["sensor"] = pc["sensor"] /\ respLen'["sensor"] = respLen["sensor"])
    BY <1>9, PcType, TypeNow DEF EndCommand, Forget, Go, storeVars, execVars, Threads, ExecTyped
  <2> QED
    BY <2>1 DEF DiagInv, RoomInv, Room
<1>10. CASE DiagStart
  <2>1. UNCHANGED <<num, respLen>> /\ pc'["sensor"] \notin {"trylock", "store"}
    BY <1>10, PcType DEF DiagStart, GoNext, GoWith, Go, storeVars, execVars, Threads
  <2> QED
    BY <2>1 DEF DiagInv, RoomInv
<1>11. CASE LoopEnd
  <2>1. UNCHANGED <<num, respLen>> /\ pc'["sensor"] \notin {"trylock", "store"}
    BY <1>11, PcType DEF LoopEnd, GoNext, GoWith, Go, storeVars, execVars, Threads
  <2> QED
    BY <2>1 DEF DiagInv, RoomInv
<1>12. CASE KeepAliveStart
  <2>1. UNCHANGED <<num, respLen>> /\ pc'["sensor"] \notin {"trylock", "store"}
    BY <1>12, PcType DEF KeepAliveStart, GoNext, GoWith, Go, storeVars, execVars, Threads
  <2> QED
    BY <2>1 DEF DiagInv, RoomInv
<1>13. CASE CheckResult
  <2>1. UNCHANGED <<num, respLen>>
    BY <1>13 DEF CheckResult, storeVars, execVars
  <2>2. pc'["sensor"] \in {"trylock", "store"} => Room
    BY <1>13, PcType DEF CheckResult, GoNext, GoWith, Go, Threads
  <2> QED
    BY <2>1, <2>2 DEF DiagInv, RoomInv, Room
<1>14. CASE TryLock
  <2>1. UNCHANGED <<num, respLen>> /\ pc["sensor"] = "trylock"
    BY <1>14 DEF TryLock, storeVars, execVars
  <2> QED
    BY <2>1 DEF DiagInv, RoomInv, Room
<1>15. CASE Store
  <2>1. Room /\ num' = num + 4 + 4 + 2 + respLen["sensor"] /\ respLen' = respLen
    BY <1>15 DEF Store, execVars, DiagInv, RoomInv
  <2>2. respLen["sensor"] \in 0 .. 255 /\ num \in Nat
    <3>1. "sensor" \in Threads /\ ExecTyped
      BY TypeNow DEF Threads
    <3>2. respLen["sensor"] \in 0 .. 255
      BY <3>1 DEF ExecTyped
    <3> QED
      BY <3>2 DEF DiagInv, TypeOK
  <2>3. num + 4 + 2 + respLen["sensor"] < StoreMax
    BY <2>1 DEF Room
  <2>4. num' <= StoreMax + 3
    BY <2>1, <2>2, <2>3, ConstantFacts
  <2>5. pc'["sensor"] \notin {"trylock", "store"}
    BY <1>15, PcType DEF Store, GoNext, GoWith, Go, Threads
  <2> QED
    BY <2>4, <2>5 DEF RoomInv
<1>16. CASE KeepAliveStop
  <2>1. UNCHANGED <<num, respLen>> /\ pc'["sensor"] \notin {"trylock", "store"}
    BY <1>16, PcType DEF KeepAliveStop, GoNext, GoWith, Go, storeVars, execVars, Threads
  <2> QED
    BY <2>1 DEF DiagInv, RoomInv
<1>17. CASE Dispatch
  BY <1>17 DEF Dispatch, DiagInv, RoomInv, Room
<1>18. CASE Event
  BY <1>18 DEF Event, DiagInv, RoomInv, Room
<1>19. CASE RxLost
  BY <1>19 DEF RxLost, DiagInv, RoomInv, Room
<1>20. CASE CarKeepAlive
  BY <1>20 DEF CarKeepAlive, DiagInv, RoomInv, Room
<1>21. CASE CarCommand
  BY <1>21 DEF CarCommand, DiagInv, RoomInv, Room
<1>22. CASE CarExtended
  BY <1>22 DEF CarExtended, DiagInv, RoomInv, Room
<1>23. CASE TimerTick
  BY <1>23 DEF TimerTick, DiagInv, RoomInv, Room
<1>24. CASE KeepAliveSequence
  <2>1. UNCHANGED <<num, respLen>> /\ pc'["sensor"] = pc["sensor"]
    BY <1>24, PcType DEF KeepAliveSequence, GoWith, Go, storeVars, execVars, Threads
  <2> QED
    BY <2>1 DEF DiagInv, RoomInv, Room
<1>25. CASE AddCalculator
  BY <1>25 DEF AddCalculator, DiagInv, RoomInv, Room
<1>26. CASE CaptureLock
  BY <1>26 DEF CaptureLock, DiagInv, RoomInv, Room
<1>27. CASE CaptureCopy
  <2>1. UNCHANGED <<pc, respLen>> /\ num' = 0
    BY <1>27 DEF CaptureCopy, execVars
  <2>2. num \in Nat /\ respLen["sensor"] \in 0 .. 255
    <3>1. "sensor" \in Threads /\ ExecTyped
      BY TypeNow DEF Threads
    <3>2. respLen["sensor"] \in 0 .. 255
      BY <3>1 DEF ExecTyped
    <3> QED
      BY <3>2 DEF DiagInv, TypeOK
  <2>3. Room => Room'
    BY <2>1, <2>2, ConstantFacts DEF Room
  <2>4. num' <= StoreMax + 3
    BY <2>1, ConstantFacts
  <2> QED
    BY <2>1, <2>3, <2>4 DEF DiagInv, RoomInv
<1>28. CASE UNCHANGED vars
  BY <1>28 DEF vars, DiagInv, RoomInv, Room
<1> QED
  BY <1>1, <1>2, <1>3, <1>4, <1>5, <1>6, <1>7, <1>8, <1>9, <1>10, <1>11, <1>12, <1>13, <1>14,
     <1>15, <1>16, <1>17, <1>18, <1>19, <1>20, <1>21, <1>22, <1>23, <1>24, <1>25, <1>26, <1>27,
     <1>28 DEF Next, Execute, Sensor, Can, Car


-----------------------------------------------------------------------------
(***************************************************************************)
(* The exchanges.                                                          *)
(***************************************************************************)
ThreadInv(u) == /\ Idle(u)
                /\ pc[u] = "answer" => Exchange(u)
                /\ pc[u] = "end" => Belongs(u)

LEMMA ThreadNow ==
  ASSUME DiagInv, NEW u \in Threads
  PROVE  ThreadInv(u)
BY DEF DiagInv, IdleInv, ExchangeInv, EndedInv, ThreadInv

(* A thread outside of an exchange that stays outside. *)
LEMMA ThreadOutside ==
  ASSUME DiagInv, NEW u \in Threads, pc[u] \notin Holding, pc'[u] \notin Holding,
         currLen'[u] = currLen[u], response'[u] = response[u], outcome'[u] = outcome[u]
  PROVE  ThreadInv(u)'
<1>1. Idle(u)
  BY ThreadNow DEF ThreadInv
<1>2. Idle(u)'
  BY <1>1 DEF Idle, Holding
<1> QED
  BY <1>2 DEF ThreadInv, Holding

(* A thread that nothing happens to. *)
LEMMA ThreadUntouched ==
  ASSUME DiagInv, NEW u \in Threads, pc'[u] = pc[u], calc'[u] = calc[u], cmd'[u] = cmd[u],
         UNCHANGED <<sensor, execVars, comVars, busVars, carVars>>
  PROVE  ThreadInv(u)'
<1>1. SameCommand(u) /\ SameLocals(u) /\ outcome'[u] = outcome[u] /\ toCar' = toCar
      /\ UNCHANGED carVars
  BY DEF SameCommand, SameLocals, execVars, comVars, busVars
<1>2. Idle(u)'
  BY ThreadNow DEF ThreadInv, Idle, Quiet, execVars, comVars, busVars
<1>3. Pipe' = Pipe
  BY DEF Pipe, Arr, comVars, busVars
<1>4. pc[u] = "answer" => Exchange(u)'
  BY <1>1, <1>3, ThreadNow, ExchangeKept DEF ThreadInv
<1>5. pc[u] = "end" => Belongs(u)'
  BY <1>1, ThreadNow, LocalsSame DEF ThreadInv
<1> QED
  BY <1>2, <1>4, <1>5 DEF ThreadInv

(* The other thread, while one is in an exchange. *)
LEMMA OtherOutside ==
  ASSUME DiagInv, NEW t \in Threads, pc[t] \in Holding \/ DiagTxCMD = "free",
         NEW u \in Threads \ {t}, pc'[u] = pc[u],
         currLen'[u] = currLen[u], response'[u] = response[u], outcome'[u] = outcome[u]
  PROVE  ThreadInv(u)'
<1>1. LockInv
  BY DEF DiagInv
<1>2. pc[u] \notin Holding
  <2>1. CASE pc[t] \in Holding
    BY <1>1, <2>1, Alone
  <2>2. CASE DiagTxCMD = "free"
    BY <1>1, <2>2 DEF LockInv, Threads
  <2> QED
    BY <2>1, <2>2
<1> QED
  BY <1>2, ThreadOutside

(* Frames that move between the bus and the queue. *)
LEMMA MovesKeep ==
  ASSUME DiagInv, TypeOK', Dispatch \/ Event \/ RxLost, NEW u \in Threads
  PROVE  ThreadInv(u)'
<1>1. /\ UNCHANGED <<sensor, pc, calc, cmd, execVars, carVars, state, tag, toCar>>
      /\ fromCar # <<>> \/ arriving # NoFrame
  BY DEF Dispatch, Event, RxLost, comVars
<1>2. SameCommand(u) /\ SameLocals(u) /\ outcome'[u] = outcome[u] /\ pc'[u] = pc[u]
  BY <1>1 DEF SameCommand, SameLocals, execVars
<1>3. pc[u] # "send"
  BY <1>1, ThreadNow DEF ThreadInv, Idle, Quiet
<1>4. Idle(u)'
  BY <1>2, <1>3, ThreadNow DEF ThreadInv, Idle, SameLocals
<1>5. \/ Pipe' = Pipe
      \/ \E A \in Seq(FrameType), B \in Seq(FrameType), x \in FrameType :
           Pipe = A \o (<<x>> \o B) /\ Pipe' = A \o B
  <2>1. TypeOK
    BY DEF DiagInv
  <2> QED
    BY <2>1, PipeMoves
<1>6. pc[u] = "answer" => Exchange(u)'
  BY <1>1, <1>2, <1>5, ThreadNow, ExchangeKept DEF ThreadInv
<1>7. pc[u] = "end" => Belongs(u)'
  BY <1>2, ThreadNow, LocalsSame DEF ThreadInv
<1> QED
  BY <1>2, <1>4, <1>6, <1>7 DEF ThreadInv

(* The calculator: threads that do not wait for an answer. *)
LEMMA CarIdle ==
  ASSUME DiagInv, CarKeepAlive \/ CarCommand \/ CarExtended, NEW u \in Threads,
         pc[u] = "answer" => Exchange(u)'
  PROVE  ThreadInv(u)'
<1>1. /\ UNCHANGED <<sensor, pc, calc, cmd, execVars, state, tag>>
      /\ toCar # <<>>
  BY DEF CarKeepAlive, CarCommand, CarExtended, comVars
<1>2. SameCommand(u) /\ SameLocals(u) /\ outcome'[u] = outcome[u] /\ pc'[u] = pc[u]
  BY <1>1 DEF SameCommand, SameLocals, execVars
<1>3. pc[u] # "send"
  BY <1>1, ThreadNow DEF ThreadInv, Idle, Quiet
<1>4. Idle(u)'
  BY <1>2, <1>3, ThreadNow DEF ThreadInv, Idle, SameLocals
<1>5. pc[u] = "end" => Belongs(u)'
  BY <1>2, ThreadNow, LocalsSame DEF ThreadInv
<1> QED
  BY <1>2, <1>4, <1>5 DEF ThreadInv

(* What the calculator takes is the command or its ACK, and nothing else is    *)
(* under way.                                                                  *)
LEMMA CarTakes ==
  ASSUME DiagInv, NEW u \in Threads, pc[u] = "answer", toCar # <<>>
  PROVE  /\ Asked(u) \/ Acked(u)
         /\ Tail(toCar) = <<>> /\ Pipe = <<>>
         /\ queue = <<>> /\ arriving = NoFrame /\ fromCar = <<>>
         /\ Head(toCar) \in RequestType
         /\ Asked(u) => /\ Head(toCar).tag = tag /\ Head(toCar).ans = Ans(u)
                        /\ Head(toCar).type = Program(calc[u])[cmd[u]].type
                        /\ Nothing(u)
         /\ Acked(u) => Head(toCar).type = "CMD_ACK"
<1>1. Exchange(u) /\ TypeOK
  BY ThreadNow DEF ThreadInv, DiagInv
<1>2. Asked(u) \/ Acked(u)
  BY <1>1 DEF Exchange, Opened, Stuck, Following
<1>3. Pipe = <<>>
  BY <1>2 DEF Asked, Acked
<1>4. queue = <<>> /\ arriving = NoFrame /\ fromCar = <<>>
  BY <1>1, <1>3, PipeEmpty
<1>5. \E c \in RequestType : toCar = <<c>>
  BY <1>2 DEF Asked, Acked
<1>6. Tail(toCar) = <<>> /\ Head(toCar) \in RequestType
  BY <1>5
<1>7. Asked(u) => /\ Head(toCar).tag = tag /\ Head(toCar).ans = Ans(u)
                  /\ Head(toCar).type = Program(calc[u])[cmd[u]].type
                  /\ Nothing(u)
  <2>1. ASSUME Asked(u)
        PROVE  /\ Head(toCar).tag = tag /\ Head(toCar).ans = Ans(u)
               /\ Head(toCar).type = Program(calc[u])[cmd[u]].type
    <3>1. PICK c \in RequestType : /\ toCar = <<c>> /\ c.tag = tag /\ c.ans = Ans(u)
                                   /\ c.type = Program(calc[u])[cmd[u]].type
      BY <2>1 DEF Asked
    <3>2. Head(toCar) = c
      BY <3>1
    <3> QED
      BY <3>1, <3>2
  <2> QED
    BY <2>1 DEF Asked
<1>8. Acked(u) => Head(toCar).type = "CMD_ACK"
  <2>1. ASSUME Acked(u) PROVE Head(toCar).type = "CMD_ACK"
    <3>1. PICK c \in RequestType : toCar = <<c>> /\ c.type = "CMD_ACK"
      BY <2>1 DEF Acked
    <3>2. Head(toCar) = c
      BY <3>1
    <3> QED
      BY <3>1, <3>2
  <2> QED
    BY <2>1
<1> QED
  BY <1>2, <1>3, <1>4, <1>6, <1>7, <1>8

(* The command has been taken: nothing, or one frame, is on its way. *)
LEMMA OpenedNow ==
  ASSUME NEW u \in Threads, SameCommand(u), SameLocals(u), Nothing(u),
         toCar' = <<>>, queue' = <<>>, arriving' = NoFrame,
         fromCar' = <<>> \/ \E f \in Opening(u)' : fromCar' = <<f>>
  PROVE  Exchange(u)'
<1>1. Nothing(u)'
  BY LocalsSame
<1>2. Pipe' = <<>> \o (<<>> \o fromCar')
  BY DEF Pipe, Arr
<1>3. fromCar' \in Seq(Opening(u)') /\ Increasing(fromCar')
  <2>1. CASE fromCar' = <<>>
    BY <2>1 DEF Increasing
  <2>2. CASE fromCar' # <<>>
    <3>1. PICK f \in Opening(u)' : fromCar' = <<f>>
      BY <2>2
    <3> QED
      BY <3>1 DEF Increasing
  <2> QED
    BY <2>1, <2>2
<1>4. Pipe' = fromCar'
  BY <1>2, <1>3, ConcatSimplifications
<1>5. Flight(Pipe, Opening(u))'
  BY <1>3, <1>4 DEF Flight, Increasing
<1> QED
  BY <1>1, <1>5 DEF Exchange, Opened

LEMMA KeepAliveAnswered ==
  ASSUME DiagInv, CarKeepAlive, NEW u \in Threads, pc[u] = "answer"
  PROVE  Exchange(u)'
<1> DEFINE c == Head(toCar)
           f == Frame("short", 1, c.tag, 0)
<1>1. /\ toCar # <<>> /\ c.type = "CMD_KEEP_ALIVE" /\ toCar' = Tail(toCar)
      /\ fromCar' = Append(fromCar, f) /\ UNCHANGED <<queue, arriving>>
      /\ SameCommand(u) /\ SameLocals(u)
  BY DEF CarKeepAlive, SameCommand, SameLocals, comVars, execVars
<1>2. Asked(u) /\ Tail(toCar) = <<>> /\ queue = <<>> /\ arriving = NoFrame /\ fromCar = <<>>
      /\ c \in RequestType /\ c.tag = tag /\ c.type = Program(calc[u])[cmd[u]].type /\ Nothing(u)
  BY <1>1, CarTakes
<1>3. ~Long(u)
  <2>1. Ans(u) \in 0 .. 64 /\ Ans(u) <= 6
    BY <1>1, <1>2, AnsFacts DEF DiagInv, Holding
  <2> QED
    BY <2>1 DEF Long
<1>4. f \in Opening(u)'
  <2>1. f \in FrameType
    BY <1>2 DEF Frame, FrameType, RequestType
  <2>2. f.tag = tag' /\ f.part = 0 /\ f.kind = "short"
    BY <1>1, <1>2 DEF Frame, SameCommand
  <2>3. ~Long(u)'
    BY <1>1, <1>3, CommandSame
  <2> HIDE DEF f
  <2> QED
    BY <2>1, <2>2, <2>3 DEF Opening, FrameType
<1>5. fromCar' = <<f>>
  BY <1>1, <1>2
<1> HIDE DEF f, c
<1> QED
  BY <1>1, <1>2, <1>4, <1>5, OpenedNow

LEMMA CommandAnswered ==
  ASSUME DiagInv, CarCommand, NEW u \in Threads, pc[u] = "answer"
  PROVE  Exchange(u)'
<1> DEFINE c == Head(toCar)
           long == c.ans > 6 /\ proto = "6A"
           f == Frame(IF long THEN "first" ELSE "short", c.ans, c.tag, 0)
<1>1. /\ toCar # <<>> /\ toCar' = Tail(toCar) /\ carState = "IDLE"
      /\ fromCar' = (IF c.ans = 0 THEN fromCar ELSE Append(fromCar, f))
      /\ carState' = (IF long THEN "EXT_CMD" ELSE "IDLE")
      /\ carAnswer' = (IF carState' = "IDLE" THEN NoAnswer ELSE [len |-> c.ans, tag |-> c.tag])
      /\ UNCHANGED <<queue, arriving>> /\ SameCommand(u) /\ SameLocals(u)
  BY DEF CarCommand, SameCommand, SameLocals, comVars, execVars
<1>2. Asked(u)
  BY <1>1, CarTakes DEF Acked, Asking
<1>3. Tail(toCar) = <<>> /\ queue = <<>> /\ arriving = NoFrame /\ fromCar = <<>>
      /\ c \in RequestType /\ c.tag = tag /\ c.ans = Ans(u) /\ Nothing(u)
  BY <1>1, <1>2, CarTakes
<1>4. long <=> Long(u)
  BY <1>3 DEF Long
<1>5. Long(u)' = Long(u) /\ Ans(u)' = Ans(u)
  BY <1>1, CommandSame
<1>6. Long(u) => Asking(u)'
  BY <1>1, <1>3, <1>4, <1>5 DEF Asking, SameCommand
<1>7. f \in Opening(u)'
  <2>1. f \in FrameType
    <3>1. c.ans \in 0 .. 255 /\ c.tag \in 0 .. Tags - 1
      <4>1. c \in RequestType
        BY <1>3
      <4> HIDE DEF c
      <4>2. c.ans \in 0 .. 64 /\ c.tag \in 0 .. Tags - 1
        BY <4>1 DEF RequestType
      <4> QED
        BY <4>2
    <3> QED
      BY <3>1 DEF Frame, FrameType
  <2>2. /\ f.tag = tag' /\ f.part = 0 /\ f.kind = (IF long THEN "first" ELSE "short")
        /\ f.len = Ans(u)'
    BY <1>1, <1>3, <1>5 DEF Frame, SameCommand
  <2> HIDE DEF f, long
  <2> QED
    BY <1>4, <1>5, <1>6, <2>1, <2>2 DEF Opening, FrameType
<1>8. fromCar' = <<>> \/ fromCar' = <<f>>
  BY <1>1, <1>3
<1> HIDE DEF f, c, long
<1> QED
  BY <1>1, <1>3, <1>7, <1>8, OpenedNow

LEMMA AckAnswered ==
  ASSUME DiagInv, CarExtended, NEW u \in Threads, pc[u] = "answer"
  PROVE  Exchange(u)'
<1> DEFINE c == Head(toCar)
           n == Segments(carAnswer.len)
           more == [p \in 1 .. n |-> Frame("next", 0, carAnswer.tag, p)]
<1>1. /\ toCar # <<>> /\ toCar' = Tail(toCar) /\ carState = "EXT_CMD"
      /\ fromCar' = (IF c.type = "CMD_ACK" THEN fromCar \o more ELSE fromCar)
      /\ UNCHANGED <<queue, arriving>> /\ SameCommand(u) /\ SameLocals(u)
  BY DEF CarExtended, SameCommand, SameLocals, comVars, execVars
<1>2. Tail(toCar) = <<>> /\ queue = <<>> /\ arriving = NoFrame /\ fromCar = <<>>
      /\ (Asked(u) \/ Acked(u))
  BY <1>1, CarTakes
<1>3. CASE Asked(u)
  <2>1. c.type = Program(calc[u])[cmd[u]].type /\ Nothing(u)
    BY <1>1, <1>3, CarTakes
  <2>2. Program(calc[u])[cmd[u]].type # "CMD_ACK"
    BY AnsFacts DEF DiagInv, Holding
  <2>3. fromCar' = <<>>
    BY <1>1, <1>2, <2>1, <2>2
  <2> HIDE DEF c, n, more
  <2> QED
    BY <1>1, <1>2, <2>1, <2>3, OpenedNow
<1>4. CASE Acked(u)
  <2>1. /\ c.type = "CMD_ACK" /\ state = "EXT_CMD" /\ carAnswer = [len |-> Ans(u), tag |-> tag]
        /\ response[u] = <<FirstChunk>> /\ Long(u) /\ currLen[u] = 6 /\ respLen[u] = Ans(u)
    BY <1>1, <1>4, CarTakes DEF Acked, Asking, OnlyFirst
  <2>2. Ans(u) \in 0 .. 64 /\ Ans(u) > 6 /\ tag \in 0 .. Tags - 1
    BY <2>1, AnsFacts DEF DiagInv, Holding, Long, TypeOK
  <2>3. n = Segments(Ans(u)) /\ n \in 0 .. 9
    <3>1. \A m \in 0 .. 64 : m \div 7 \in 0 .. 9
      OBVIOUS
    <3> QED
      BY <2>1, <2>2, <3>1 DEF Segments
  <2> DEFINE S == Behind(u, 0)
  <2>4. more = [p \in 1 .. n |-> Frame("next", 0, tag, p)]
    BY <2>1
  <2>5. \A p \in 1 .. n : more[p] = Frame("next", 0, tag, p) /\ more[p] \in S /\ more[p].part = p
    <3> HIDE DEF n, more
    <3>1. ASSUME NEW p \in 1 .. n
          PROVE  /\ Frame("next", 0, tag, p) \in Behind(u, 0)
                 /\ Frame("next", 0, tag, p).part = p
      BY <2>2, <2>3 DEF Behind, Frame, FrameType
    <3> QED
      BY <2>4, <3>1
  <2> HIDE DEF n, S
  <2>6. more \in [1 .. n -> S]
    BY <2>4, <2>5
  <2>7. more \in Seq(S) /\ Len(more) = n
    <3>1. n \in Nat
      BY <2>3
    <3>2. more \in Seq(S)
      BY <2>6, <3>1, SeqDef
    <3>3. DOMAIN more = 1 .. n
      BY <2>4
    <3> HIDE DEF more
    <3>4. DOMAIN more = 1 .. Len(more) /\ Len(more) \in Nat
      BY <3>2, LenProperties
    <3> QED
      BY <3>1, <3>2, <3>3, <3>4
  <2> HIDE DEF more
  <2>8. Increasing(more)
    BY <2>3, <2>5, <2>7 DEF Increasing
  <2>9. Pipe' = more
    <3>1. fromCar' = more
      BY <1>1, <1>2, <2>1, <2>7, ConcatSimplifications
    <3>2. Pipe' = <<>> \o (<<>> \o more)
      BY <1>1, <1>2, <3>1 DEF Pipe, Arr
    <3> QED
      BY <2>7, <3>2, ConcatSimplifications
  <2>10. /\ response'[u] = <<FirstChunk>> /\ FirstChunk' = FirstChunk /\ tag' = tag
         /\ currLen'[u] = 6 /\ respLen'[u] = Ans(u) /\ state' = "EXT_CMD"
         /\ Ans(u)' = Ans(u) /\ Long(u)'
    <3>1. Ans(u)' = Ans(u) /\ Long(u)' = Long(u) /\ FirstChunk' = FirstChunk
      BY <1>1, CommandSame
    <3> QED
      BY <1>1, <2>1, <3>1 DEF SameLocals, SameCommand
  <2>11. LastPart(u)' = 0
    BY <2>10 DEF LastPart, FirstChunk
  <2>12. Behind(u, LastPart(u))' = S
    BY <2>10, <2>11 DEF Behind, S, Segments, FrameType
  <2>13. Flight(Pipe, Behind(u, LastPart(u)))'
    BY <2>7, <2>8, <2>9, <2>12 DEF Flight, Increasing
  <2>14. Collected(u, response[u])'
    <3>1. Segments(Ans(u)') >= 0
      BY <2>3, <2>10
    <3>2. FirstChunk'.tag = tag' /\ FirstChunk'.part = 0
      BY DEF FirstChunk
    <3> QED
      BY <2>10, <3>1, <3>2 DEF Collected, Increasing, Segments
  <2> QED
    BY <1>1, <1>2, <2>2, <2>10, <2>13, <2>14 DEF Exchange, Following
<1> QED
  BY <1>2, <1>3, <1>4

(* The steps of the thread that holds DiagTxCMD. *)
LEMMA LockThread ==
  ASSUME DiagInv, NEW t \in Threads, Lock(t)
  PROVE  ThreadInv(t)'
<1>1. /\ pc[t] = "lock" /\ pc' = [pc EXCEPT ![t] = "flush"] /\ state' = "IDLE"
      /\ respLen' = [respLen EXCEPT ![t] = 0] /\ UNCHANGED <<currLen, response, outcome>>
  BY DEF Lock, Go
<1>2. pc'[t] = "flush" /\ respLen'[t] = 0
  BY <1>1, PcType, TypeNow DEF ExecTyped
<1>3. Idle(t)
  BY ThreadNow DEF ThreadInv
<1>4. response'[t] = <<>> /\ currLen'[t] = 0 /\ outcome'[t] = "none"
  BY <1>1, <1>3 DEF Idle
<1> QED
  BY <1>1, <1>2, <1>4 DEF ThreadInv, Idle

LEMMA FlushThread ==
  ASSUME DiagInv, NEW t \in Threads, FlushGet(t) \/ FlushEnd(t)
  PROVE  ThreadInv(t)'
<1>1. /\ pc[t] = "flush" /\ UNCHANGED <<respLen, currLen, response, outcome, state>>
      /\ \/ pc' = pc
         \/ /\ pc' = [pc EXCEPT ![t] = "send"]
            /\ queue = <<>> /\ Quiet /\ UNCHANGED <<queue, toCar, fromCar, arriving>>
  BY DEF FlushGet, FlushEnd, Go, execVars, busVars
<1>2. \/ pc'[t] = "flush"
      \/ pc'[t] = "send" /\ queue' = <<>> /\ Quiet'
  BY <1>1, PcType DEF Quiet
<1>3. Idle(t)
  BY ThreadNow DEF ThreadInv
<1>4. response'[t] = <<>> /\ currLen'[t] = 0 /\ outcome'[t] = "none" /\ state' = "IDLE"
      /\ respLen'[t] = 0
  BY <1>1, <1>3 DEF Idle
<1> QED
  BY <1>2, <1>4 DEF ThreadInv, Idle

LEMMA SendThread ==
  ASSUME DiagInv, NEW t \in Threads, Send(t)
  PROVE  ThreadInv(t)'
<1> DEFINE c == Program(calc[t])[cmd[t]]
           m == [type |-> c.type, ans |-> c.ans, tag |-> tag']
<1>1. /\ pc[t] = "send" /\ pc' = [pc EXCEPT ![t] = "answer"]
      /\ tag' = (tag + 1) % Tags /\ toCar' = Append(toCar, m)
      /\ UNCHANGED <<sensor, calc, cmd, execVars, state, queue, fromCar, arriving>>
  BY DEF Send, Go
<1>2. Idle(t)
  BY ThreadNow DEF ThreadInv
<1>3. /\ response[t] = <<>> /\ currLen[t] = 0 /\ outcome[t] = "none" /\ state = "IDLE"
      /\ respLen[t] = 0 /\ queue = <<>> /\ toCar = <<>> /\ fromCar = <<>> /\ arriving = NoFrame
  BY <1>1, <1>2 DEF Idle, Quiet
<1>4. pc'[t] = "answer"
  BY <1>1, PcType
<1>5. m \in RequestType
  <2>1. c \in Command
    BY <1>1, AnsFacts DEF DiagInv, Holding
  <2>2. tag' \in 0 .. Tags - 1
    BY <1>1, ConstantFacts DEF DiagInv, TypeOK
  <2> HIDE DEF c
  <2> QED
    BY <2>1, <2>2 DEF RequestType, Command
<1>6. toCar' = <<m>>
  BY <1>1, <1>3
<1>7. Pipe' = <<>>
  BY <1>1, <1>3 DEF Pipe, Arr
<1>8. Nothing(t)'
  BY <1>1, <1>3 DEF Nothing, execVars
<1>9. Program(calc[t])'[cmd'[t]] = c /\ Ans(t)' = c.ans
  BY <1>1 DEF Program, Ans
<1>10. m.tag = tag' /\ m.ans = c.ans /\ m.type = c.type
  OBVIOUS
<1> HIDE DEF m, c
<1>11. Asked(t)'
  BY <1>5, <1>6, <1>7, <1>8, <1>9, <1>10 DEF Asked, RequestType
<1>12. Idle(t)'
  BY <1>1, <1>3, <1>4 DEF Idle, execVars
<1> QED
  BY <1>4, <1>11, <1>12 DEF ThreadInv, Exchange

LEMMA TakeFacts ==
  ASSUME DiagInv, NEW t \in Threads, Take(t)
  PROVE  /\ SameCommand(t) /\ pc[t] = "answer" /\ Pipe' = Rest
         /\ Head(queue) \in FrameType /\ outcome[t] = "none"
         /\ Ans(t) \in 0 .. 64 /\ UNCHANGED carVars
BY AnsFacts, TakenLength, ThreadNow DEF DiagInv, Holding, Take, SameCommand, Pipe, Rest, Arr,
   ThreadInv, Idle

LEMMA ShortThread ==
  ASSUME DiagInv, NEW t \in Threads, AnswerShort(t)
  PROVE  ThreadInv(t)'
<1> DEFINE f == Head(queue)
<1>1. /\ Take(t) /\ (proto = "68" \/ (state = "IDLE" /\ f.kind = "short"))
      /\ response' = [response EXCEPT ![t] = <<Chunk(f)>>]
      /\ pc' = [pc EXCEPT ![t] = "end"]
  BY DEF AnswerShort, Go
<1>2. SameCommand(t) /\ pc[t] = "answer" /\ queue # <<>>
  BY <1>1, TakeFacts DEF Take
<1>3. ~Following(t)
  BY <1>1, TakenLength
<1>4. f \in Opening(t)
  BY <1>2, <1>3, TakenFacts
<1>5. f.tag = tag /\ f.part = 0 /\ ~Long(t)
  BY <1>1, <1>4 DEF Opening, Long
<1>6. pc'[t] = "end" /\ response'[t] = <<Chunk(f)>>
  BY <1>1, PcType, TypeNow DEF ExecTyped
<1>7. Chunk(f).tag = tag' /\ Chunk(f).part = 0
  BY <1>2, <1>5 DEF Chunk, SameCommand
<1>8. All(t)' = 1
  BY <1>2, <1>5, CommandSame DEF All
<1> HIDE DEF f
<1>9. Belongs(t)'
  BY <1>6, <1>7, <1>8 DEF Belongs, Increasing
<1> QED
  BY <1>6, <1>9 DEF ThreadInv, Idle

LEMMA FirstThread ==
  ASSUME DiagInv, NEW t \in Threads, AnswerFirst(t)
  PROVE  ThreadInv(t)'
<1> DEFINE f == Head(queue)
           m == [type |-> "CMD_ACK", ans |-> 0, tag |-> tag]
<1>1. /\ Take(t) /\ state = "IDLE" /\ f.kind = "first" /\ UNCHANGED <<pc, outcome>>
      /\ respLen' = [respLen EXCEPT ![t] = f.len] /\ currLen' = [currLen EXCEPT ![t] = 6]
      /\ response' = [response EXCEPT ![t] = <<Chunk(f)>>]
      /\ \/ toCar' = Append(toCar, m) /\ state' = "EXT_CMD"
         \/ UNCHANGED <<toCar, state>>
  BY DEF AnswerFirst
<1>2. SameCommand(t) /\ pc[t] = "answer" /\ queue # <<>> /\ outcome[t] = "none" /\ Pipe' = Rest
      /\ UNCHANGED carVars
  BY <1>1, TakeFacts DEF Take
<1>3. ~Following(t)
  BY <1>1 DEF Following
<1>4. Opened(t) /\ f \in Opening(t) /\ Rest = <<>>
  BY <1>2, <1>3, TakenFacts
<1>5. f.tag = tag /\ f.part = 0 /\ f.len = Ans(t) /\ Long(t) /\ Asking(t)
  BY <1>1, <1>4 DEF Opening
<1>6. /\ respLen'[t] = Ans(t) /\ currLen'[t] = 6 /\ response'[t] = <<Chunk(f)>>
  BY <1>1, <1>5, TypeNow DEF ExecTyped
<1>7. Chunk(f) = FirstChunk
  BY <1>5 DEF Chunk, FirstChunk
<1>8. FirstChunk' = FirstChunk /\ Long(t)' = Long(t) /\ Ans(t)' = Ans(t)
  BY <1>2, CommandSame
<1>9. Asking(t)'
  BY <1>2, <1>5, OpeningSame
<1>10. OnlyFirst(t)'
  BY <1>5, <1>6, <1>7, <1>8 DEF OnlyFirst
<1>11. Pipe' = <<>> /\ toCar = <<>>
  BY <1>2, <1>4 DEF Opened
<1>12. Exchange(t)'
  <2>1. CASE toCar' = Append(toCar, m) /\ state' = "EXT_CMD"
    <3>1. m \in RequestType /\ m.type = "CMD_ACK"
      BY ConstantFacts DEF DiagInv, TypeOK, RequestType, CommandType
    <3>2. toCar' = <<m>>
      BY <1>11, <2>1
    <3> HIDE DEF m
    <3>3. Acked(t)'
      BY <1>9, <1>10, <1>11, <2>1, <3>1, <3>2 DEF Acked, RequestType
    <3> QED
      BY <3>3 DEF Exchange
  <2>2. CASE UNCHANGED <<toCar, state>>
    BY <1>1, <1>10, <1>11, <2>2 DEF Exchange, Stuck
  <2> QED
    BY <1>1, <2>1, <2>2
<1>13. Idle(t)'
  BY <1>1, <1>2 DEF Idle
<1> QED
  BY <1>1, <1>2, <1>12, <1>13 DEF ThreadInv

(* What a segment adds to 6 bytes and L - 1 segments, of n bytes announced. *)
LEMMA Collecting ==
  ASSUME NEW n \in Nat, NEW L \in Nat, NEW h,
         h = (6 + 7 * (L - 1)) + (IF n - (6 + 7 * (L - 1)) < 7 THEN n - (6 + 7 * (L - 1)) ELSE 7)
  PROVE  h = (IF n - (6 + 7 * (L - 1)) < 7 THEN n ELSE 6 + 7 * L)
OBVIOUS

LEMMA NextThread ==
  ASSUME DiagInv, NEW t \in Threads, AnswerNext(t)
  PROVE  ThreadInv(t)'
<1> DEFINE f == Head(queue)
           x == Chunk(f)
           r == response[t]
           L == Len(r)
           n == Ans(t)
           have == currLen[t] + Payload(t)
<1>1. Take(t) /\ respLen' = respLen /\ toCar' = toCar
  BY DEF AnswerNext
<1>2. SameCommand(t) /\ pc[t] = "answer" /\ queue # <<>> /\ outcome[t] = "none" /\ Pipe' = Rest
      /\ n \in 0 .. 64 /\ f \in FrameType
  BY <1>1, TakeFacts DEF Take
<1>3. Following(t)
  <2>1. state = "EXT_CMD" \/ f.kind = "next"
    BY DEF AnswerNext
  <2> QED
    BY <1>1, <2>1, TakenLength
<1>4. f \in Behind(t, LastPart(t)) /\ Flight(Rest, Behind(t, f.part))
  <2>1. ~Opened(t)
    BY <1>3 DEF Opened, Nothing, Following
  <2> QED
    BY <1>2, <2>1, TakenFacts
<1>5. state = "EXT_CMD" /\ f.kind = "next"
  BY <1>1, <1>3, TakenLength
<1>6. Segment(t, f, respLen[t])
  BY <1>5 DEF AnswerNext
<1>7. /\ toCar = <<>> /\ Long(t) /\ Collected(t, r) /\ respLen[t] = n
      /\ currLen[t] = 6 + 7 * (L - 1) /\ currLen[t] < n
  BY <1>3 DEF Following
<1>8. r \in Seq(ChunkType) /\ L \in Nat /\ L >= 1
  BY <1>7, TypeNow, LenProperties DEF ExecTyped, Collected
<1>9. /\ x \in ChunkType /\ x.tag = tag /\ x.part = f.part /\ x.part \in 0 .. 36
      /\ LastPart(t) < x.part /\ x.part <= Segments(n)
  <2>1. x \in ChunkType /\ x.tag = f.tag /\ x.part = f.part
    BY <1>2, FrameFacts DEF ChunkType
  <2>2. f.part \in 0 .. 36 /\ f.tag = tag /\ LastPart(t) < f.part /\ f.part <= Segments(n)
    <3> HIDE DEF f
    <3> QED
      BY <1>2, <1>4 DEF Behind, FrameType
  <2> QED
    BY <2>1, <2>2
<1> DEFINE a == Append(r, x)
<1>10. /\ a \in Seq(ChunkType) /\ Len(a) = L + 1 /\ a[L + 1] = x
       /\ Collected(t, a) /\ L <= x.part
  <2>1. \A y \in ChunkType : y.part \in Nat
    BY DEF ChunkType
  <2>2. r[Len(r)].part < x.part /\ x.part \in Nat
    <3>1. LastPart(t) = r[Len(r)].part
      BY DEF LastPart
    <3>2. LastPart(t) < x.part /\ x.part \in 0 .. 36
      BY <1>9
    <3>3. \A p \in 0 .. 36 : p \in Nat
      OBVIOUS
    <3> HIDE DEF x, r
    <3> QED
      BY <3>1, <3>2, <3>3
  <2> HIDE DEF x, r
  <2> QED
    BY <1>2, <1>7, <1>8, <1>9, <2>1, <2>2, CollectedAppend
<1>11. /\ response' = [response EXCEPT ![t] = a] /\ currLen' = [currLen EXCEPT ![t] = have]
       /\ outcome' = [outcome EXCEPT ![t] = IF have >= n THEN "complete" ELSE outcome[t]]
       /\ state' = (IF have >= n THEN "IDLE" ELSE state)
       /\ pc' = [pc EXCEPT ![t] = IF have >= n THEN "end" ELSE "answer"]
  BY <1>6, <1>7 DEF Segment, Go
<1>12. /\ response'[t] = a /\ currLen'[t] = have
       /\ outcome'[t] = (IF have >= n THEN "complete" ELSE outcome[t])
       /\ pc'[t] = (IF have >= n THEN "end" ELSE "answer")
  <2> HIDE DEF a, have, n
  <2> QED
    BY <1>11, PcType, TypeNow DEF ExecTyped
<1>13. have = (IF n - (6 + 7 * (L - 1)) < 7 THEN n ELSE 6 + 7 * L)
  <2>1. have = (6 + 7 * (L - 1)) + (IF n - (6 + 7 * (L - 1)) < 7 THEN n - (6 + 7 * (L - 1)) ELSE 7)
    BY <1>7 DEF Payload, Smaller
  <2> HIDE DEF have, n, L, f, x, r, a
  <2>2. n \in Nat /\ L \in Nat
    BY <1>2, <1>8
  <2> QED
    BY <2>1, <2>2, Collecting
<1>14. Collected(t, response[t])'
  <2>1. FirstChunk' = FirstChunk /\ tag' = tag /\ Segments(Ans(t)') = Segments(Ans(t))
    BY <1>2, CommandSame DEF SameCommand
  <2>2. response'[t] = a /\ Collected(t, a)
    BY <1>10, <1>12
  <2> HIDE DEF a
  <2> QED
    BY <2>1, <2>2 DEF Collected, Increasing, Segments
<1>15. Ans(t)' = n /\ Long(t)' = Long(t) /\ All(t)' = All(t) /\ tag' = tag
  BY <1>2, CommandSame DEF SameCommand
<1>16. CASE have >= n
  <2>1. n <= 6 + 7 * L
    <3> HIDE DEF have, n, L
    <3> QED
      BY <1>2, <1>8, <1>13, <1>16
  <2>2. L <= Segments(n)
    <3>1. Segments(n) \in Nat
      <4>1. \A k \in 0 .. 64 : k \div 7 \in Nat
        OBVIOUS
      <4> HIDE DEF n
      <4> QED
        BY <1>2, <4>1 DEF Segments
    <3> DEFINE p == x.part
    <3>2. L <= p /\ p \in 0 .. 36 /\ p <= Segments(n)
      BY <1>9, <1>10
    <3> HIDE DEF L, n, p
    <3> QED
      BY <1>8, <3>1, <3>2
  <2>3. L = Segments(n)
    <3> HIDE DEF L, n
    <3>1. L \in Nat /\ n \in 0 .. 64 /\ L <= n \div 7 /\ n <= 6 + 7 * L
      BY <1>2, <1>8, <2>1, <2>2 DEF Segments
    <3>2. n \div 7 <= L
      BY <3>1
    <3>3. n \div 7 \in Nat
      BY <3>1
    <3> QED
      BY <3>1, <3>2, <3>3 DEF Segments
  <2>4. Len(response'[t]) = All(t)'
    <3> HIDE DEF a, L, n
    <3>1. All(t) = 1 + L
      BY <1>7, <2>3 DEF All, n
    <3> QED
      BY <1>8, <1>10, <1>12, <1>15, <3>1
  <2>5. Belongs(t)'
    <3>1. FirstChunk'.part = 0
      BY DEF FirstChunk
    <3> QED
      BY <1>14, <2>4, <3>1 DEF Belongs, Collected
  <2>6. pc'[t] = "end"
    BY <1>12, <1>16
  <2> QED
    BY <2>5, <2>6 DEF ThreadInv, Idle
<1>17. CASE ~(have >= n)
  <2>1. have = 6 + 7 * L /\ have < n
    <3> HIDE DEF have, n, L
    <3> QED
      BY <1>2, <1>8, <1>13, <1>17
  <2>2. pc'[t] = "answer" /\ outcome'[t] = "none" /\ state' = "EXT_CMD"
    BY <1>2, <1>5, <1>11, <1>12, <1>17
  <2>3. LastPart(t)' = f.part
    <3> HIDE DEF a, x, L, f
    <3> QED
      BY <1>9, <1>10, <1>12 DEF LastPart
  <2>4. Behind(t, LastPart(t))' = Behind(t, f.part)
    <3> HIDE DEF f, n
    <3> QED
      BY <1>15, <2>3 DEF Behind, Segments, FrameType, n
  <2>5. Flight(Pipe, Behind(t, LastPart(t)))'
    <3> HIDE DEF f
    <3> QED
      BY <1>2, <1>4, <2>4 DEF Flight, Increasing
  <2>6. currLen'[t] = 6 + 7 * (Len(response'[t]) - 1) /\ currLen'[t] < Ans(t)'
        /\ respLen'[t] = Ans(t)'
    <3>1. Len(response'[t]) = L + 1
      BY <1>10, <1>12
    <3>2. currLen'[t] = have /\ respLen'[t] = n /\ Ans(t)' = n
      BY <1>1, <1>7, <1>12, <1>15
    <3> HIDE DEF have, L, n
    <3> QED
      BY <1>8, <2>1, <3>1, <3>2
  <2>7. Following(t)'
    BY <1>1, <1>7, <1>14, <1>15, <2>2, <2>5, <2>6 DEF Following
  <2> QED
    BY <2>2, <2>7 DEF ThreadInv, Idle, Exchange
<1> QED
  BY <1>16, <1>17

LEMMA TimeoutThread ==
  ASSUME DiagInv, NEW t \in Threads, Timeout(t)
  PROVE  ThreadInv(t)'
<1>1. /\ pc[t] = "answer" /\ pc' = [pc EXCEPT ![t] = "end"] /\ response' = response
      /\ outcome' = [outcome EXCEPT ![t] = "timeout"] /\ SameCommand(t)
  BY DEF Timeout, Go, SameCommand
<1>2. pc'[t] = "end" /\ outcome'[t] = "timeout"
  BY <1>1, PcType, TypeNow DEF ExecTyped
<1>3. Exchange(t)
  BY <1>1, ThreadNow DEF ThreadInv
<1>4. response[t] = <<>> \/ response[t] = <<FirstChunk>> \/ Collected(t, response[t])
  BY <1>3 DEF Exchange, Asked, Opened, Stuck, Acked, Following, Nothing, OnlyFirst
<1>5. FirstChunk.tag = tag /\ FirstChunk.part = 0 /\ tag' = tag
  BY <1>1 DEF FirstChunk, SameCommand
<1>6. Belongs(t)'
  <2>1. CASE response[t] = <<>>
    BY <1>1, <2>1 DEF Belongs
  <2>2. CASE response[t] = <<FirstChunk>>
    <3>1. response'[t] = <<FirstChunk>>
      BY <1>1, <2>2
    <3> QED
      BY <1>2, <1>5, <3>1 DEF Belongs, Increasing
  <2>3. CASE Collected(t, response[t])
    BY <1>1, <1>2, <1>5, <2>3 DEF Belongs, Collected, Increasing
  <2> QED
    BY <1>4, <2>1, <2>2, <2>3
<1> QED
  BY <1>2, <1>6 DEF ThreadInv, Idle

LEMMA EndThread ==
  ASSUME DiagInv, NEW t \in Threads, EndCommand(t)
  PROVE  ThreadInv(t)'
<1>1. /\ \E to \in {"idle", "keep", "check"} : pc' = [pc EXCEPT ![t] = to]
      /\ currLen' = [currLen EXCEPT ![t] = 0] /\ response' = [response EXCEPT ![t] = <<>>]
      /\ outcome' = [outcome EXCEPT ![t] = "none"]
  BY DEF EndCommand, Forget, Go
<1>2. pc'[t] \in {"idle", "keep", "check"}
  BY <1>1, PcType
<1>3. currLen'[t] = 0 /\ response'[t] = <<>> /\ outcome'[t] = "none"
  BY <1>1, TypeNow DEF ExecTyped
<1> QED
  BY <1>2, <1>3 DEF ThreadInv, Idle

ThreadsInv == \A u \in Threads : ThreadInv(u)

LEMMA ThreadsParts == ThreadsInv <=> IdleInv /\ ExchangeInv /\ EndedInv
BY DEF ThreadsInv, ThreadInv, IdleInv, ExchangeInv, EndedInv

LEMMA ThreadsStep ==
  ASSUME DiagInv, [Next]_vars
  PROVE  ThreadsInv'
<1> USE DEF busVars, carVars, comVars, execVars, storeVars, timerVars
<1>1. ASSUME NEW t \in Threads, Lock(t) PROVE ThreadsInv'
  <2>1. DiagTxCMD = "free"
    BY <1>1 DEF Lock, Holding
  <2>2. ASSUME NEW u \in Threads \ {t}
        PROVE  pc'[u] = pc[u] /\ currLen'[u] = currLen[u] /\ response'[u] = response[u]
               /\ outcome'[u] = outcome[u]
    BY <1>1, PcType, TypeNow DEF Lock, Go, execVars, Holding, ExecTyped
  <2>3. \A u \in Threads \ {t} : ThreadInv(u)'
    BY <2>1, <2>2, OtherOutside
  <2>4. ThreadInv(t)'
    BY <1>1, LockThread
  <2> QED
    BY <2>3, <2>4 DEF ThreadsInv
<1>2. ASSUME NEW t \in Threads, FlushGet(t) PROVE ThreadsInv'
  <2>1. pc[t] \in Holding
    BY <1>2 DEF FlushGet, Holding
  <2>2. ASSUME NEW u \in Threads \ {t}
        PROVE  pc'[u] = pc[u] /\ currLen'[u] = currLen[u] /\ response'[u] = response[u]
               /\ outcome'[u] = outcome[u]
    BY <1>2, PcType, TypeNow DEF FlushGet, Go, execVars, Holding, ExecTyped
  <2>3. \A u \in Threads \ {t} : ThreadInv(u)'
    BY <2>1, <2>2, OtherOutside
  <2>4. ThreadInv(t)'
    BY <1>2, FlushThread
  <2> QED
    BY <2>3, <2>4 DEF ThreadsInv
<1>3. ASSUME NEW t \in Threads, FlushEnd(t) PROVE ThreadsInv'
  <2>1. pc[t] \in Holding
    BY <1>3 DEF FlushEnd, Holding
  <2>2. ASSUME NEW u \in Threads \ {t}
        PROVE  pc'[u] = pc[u] /\ currLen'[u] = currLen[u] /\ response'[u] = response[u]
               /\ outcome'[u] = outcome[u]
    BY <1>3, PcType, TypeNow DEF FlushEnd, Go, execVars, Holding, ExecTyped
  <2>3. \A u \in Threads \ {t} : ThreadInv(u)'
    BY <2>1, <2>2, OtherOutside
  <2>4. ThreadInv(t)'
    BY <1>3, FlushThread
  <2> QED
    BY <2>3, <2>4 DEF ThreadsInv
<1>4. ASSUME NEW t \in Threads, Send(t) PROVE ThreadsInv'
  <2>1. pc[t] \in Holding
    BY <1>4 DEF Send, Holding
  <2>2. ASSUME NEW u \in Threads \ {t}
        PROVE  pc'[u] = pc[u] /\ currLen'[u] = currLen[u] /\ response'[u] = response[u]
               /\ outcome'[u] = outcome[u]
    BY <1>4, PcType, TypeNow DEF Send, Go, execVars, Holding, ExecTyped
  <2>3. \A u \in Threads \ {t} : ThreadInv(u)'
    BY <2>1, <2>2, OtherOutside
  <2>4. ThreadInv(t)'
    BY <1>4, SendThread
  <2> QED
    BY <2>3, <2>4 DEF ThreadsInv
<1>5. ASSUME NEW t \in Threads, AnswerShort(t) PROVE ThreadsInv'
  <2>1. pc[t] \in Holding
    BY <1>5 DEF AnswerShort, Take, Holding
  <2>2. ASSUME NEW u \in Threads \ {t}
        PROVE  pc'[u] = pc[u] /\ currLen'[u] = currLen[u] /\ response'[u] = response[u]
               /\ outcome'[u] = outcome[u]
    BY <1>5, PcType, TypeNow DEF AnswerShort, Take, Go, execVars, Holding, ExecTyped
  <2>3. \A u \in Threads \ {t} : ThreadInv(u)'
    BY <2>1, <2>2, OtherOutside
  <2>4. ThreadInv(t)'
    BY <1>5, ShortThread
  <2> QED
    BY <2>3, <2>4 DEF ThreadsInv
<1>6. ASSUME NEW t \in Threads, AnswerFirst(t) PROVE ThreadsInv'
  <2>1. pc[t] \in Holding
    BY <1>6 DEF AnswerFirst, Take, Holding
  <2>2. ASSUME NEW u \in Threads \ {t}
        PROVE  pc'[u] = pc[u] /\ currLen'[u] = currLen[u] /\ response'[u] = response[u]
               /\ outcome'[u] = outcome[u]
    BY <1>6, PcType, TypeNow DEF AnswerFirst, Take, Go, execVars, Holding, ExecTyped
  <2>3. \A u \in Threads \ {t} : ThreadInv(u)'
    BY <2>1, <2>2, OtherOutside
  <2>4. ThreadInv(t)'
    BY <1>6, FirstThread
  <2> QED
    BY <2>3, <2>4 DEF ThreadsInv
<1>7. ASSUME NEW t \in Threads, AnswerNext(t) PROVE ThreadsInv'
  <2>1. pc[t] \in Holding
    BY <1>7 DEF AnswerNext, Take, Holding
  <2>2. ASSUME NEW u \in Threads \ {t}
        PROVE  pc'[u] = pc[u] /\ currLen'[u] = currLen[u] /\ response'[u] = response[u]
               /\ outcome'[u] = outcome[u]
    BY <1>7, PcType, TypeNow DEF AnswerNext, Take, Segment, Go, execVars, Holding, ExecTyped
  <2>3. \A u \in Threads \ {t} : ThreadInv(u)'
    BY <2>1, <2>2, OtherOutside
  <2>4. ThreadInv(t)'
    BY <1>7, NextThread
  <2> QED
    BY <2>3, <2>4 DEF ThreadsInv
<1>8. ASSUME NEW t \in Threads, Timeout(t) PROVE ThreadsInv'
  <2>1. pc[t] \in Holding
    BY <1>8 DEF Timeout, Holding
  <2>2. ASSUME NEW u \in Threads \ {t}
        PROVE  pc'[u] = pc[u] /\ currLen'[u] = currLen[u] /\ response'[u] = response[u]
               /\ outcome'[u] = outcome[u]
    BY <1>8, PcType, TypeNow DEF Timeout, Go, execVars, Holding, ExecTyped
  <2>3. \A u \in Threads \ {t} : ThreadInv(u)'
    BY <2>1, <2>2, OtherOutside
  <2>4. ThreadInv(t)'
    BY <1>8, TimeoutThread
  <2> QED
    BY <2>3, <2>4 DEF ThreadsInv
<1>9. ASSUME NEW t \in Threads, EndCommand(t) PROVE ThreadsInv'
  <2>1. pc[t] \in Holding
    BY <1>9 DEF EndCommand, Holding
  <2>2. ASSUME NEW u \in Threads \ {t}
        PROVE  pc'[u] = pc[u] /\ currLen'[u] = currLen[u] /\ response'[u] = response[u]
               /\ outcome'[u] = outcome[u]
    BY <1>9, PcType, TypeNow DEF EndCommand, Forget, Go, execVars, Holding, ExecTyped
  <2>3. \A u \in Threads \ {t} : ThreadInv(u)'
    BY <2>1, <2>2, OtherOutside
  <2>4. ThreadInv(t)'
    BY <1>9, EndThread
  <2> QED
    BY <2>3, <2>4 DEF ThreadsInv
<1>10. CASE DiagStart
  <2>1. /\ pc["sensor"] = "loop" /\ pc'["sensor"] \in {"keep", "lock"} /\ pc'["timer"] = pc["timer"]
        /\ calc'["timer"] = calc["timer"] /\ cmd'["timer"] = cmd["timer"]
        /\ UNCHANGED <<sensor, execVars, comVars, busVars, carVars>>
    BY <1>10, PcType, TypeNow DEF DiagStart, GoNext, GoWith, Go, Threads, WhereTyped
  <2> QED
    <3>1. "sensor" \in Threads /\ "timer" \in Threads /\ Threads = {"sensor", "timer"}
      BY DEF Threads
    <3>2. ThreadInv("sensor")'
      <4>1. pc["sensor"] \notin Holding /\ pc'["sensor"] \notin Holding
        BY <2>1 DEF Holding
      <4>2. currLen'["sensor"] = currLen["sensor"] /\ response'["sensor"] = response["sensor"]
            /\ outcome'["sensor"] = outcome["sensor"]
        BY <2>1 DEF execVars
      <4> QED
        BY <3>1, <4>1, <4>2, ThreadOutside
    <3>3. ThreadInv("timer")'
      BY <2>1, <3>1, ThreadUntouched
    <3> QED
      BY <3>1, <3>2, <3>3 DEF ThreadsInv
<1>11. CASE LoopEnd
  <2>1. /\ pc["sensor"] = "loop" /\ pc'["sensor"] \in {"loop"} /\ pc'["timer"] = pc["timer"]
        /\ calc'["timer"] = calc["timer"] /\ cmd'["timer"] = cmd["timer"]
        /\ UNCHANGED <<sensor, execVars, comVars, busVars, carVars>>
    BY <1>11, PcType, TypeNow DEF LoopEnd, GoNext, GoWith, Go, Threads, WhereTyped
  <2> QED
    <3>1. "sensor" \in Threads /\ "timer" \in Threads /\ Threads = {"sensor", "timer"}
      BY DEF Threads
    <3>2. ThreadInv("sensor")'
      <4>1. pc["sensor"] \notin Holding /\ pc'["sensor"] \notin Holding
        BY <2>1 DEF Holding
      <4>2. currLen'["sensor"] = currLen["sensor"] /\ response'["sensor"] = response["sensor"]
            /\ outcome'["sensor"] = outcome["sensor"]
        BY <2>1 DEF execVars
      <4> QED
        BY <3>1, <4>1, <4>2, ThreadOutside
    <3>3. ThreadInv("timer")'
      BY <2>1, <3>1, ThreadUntouched
    <3> QED
      BY <3>1, <3>2, <3>3 DEF ThreadsInv
<1>12. CASE KeepAliveStart
  <2>1. /\ pc["sensor"] = "keep" /\ pc'["sensor"] \in {"stop", "lock"} /\ pc'["timer"] = pc["timer"]
        /\ calc'["timer"] = calc["timer"] /\ cmd'["timer"] = cmd["timer"]
        /\ UNCHANGED <<sensor, execVars, comVars, busVars, carVars>>
    BY <1>12, PcType, TypeNow DEF KeepAliveStart, GoNext, GoWith, Go, Threads, WhereTyped
  <2> QED
    <3>1. "sensor" \in Threads /\ "timer" \in Threads /\ Threads = {"sensor", "timer"}
      BY DEF Threads
    <3>2. ThreadInv("sensor")'
      <4>1. pc["sensor"] \notin Holding /\ pc'["sensor"] \notin Holding
        BY <2>1 DEF Holding
      <4>2. currLen'["sensor"] = currLen["sensor"] /\ response'["sensor"] = response["sensor"]
            /\ outcome'["sensor"] = outcome["sensor"]
        BY <2>1 DEF execVars
      <4> QED
        BY <3>1, <4>1, <4>2, ThreadOutside
    <3>3. ThreadInv("timer")'
      BY <2>1, <3>1, ThreadUntouched
    <3> QED
      BY <3>1, <3>2, <3>3 DEF ThreadsInv
<1>13. CASE CheckResult
  <2>1. /\ pc["sensor"] = "check" /\ pc'["sensor"] \in {"stop", "lock", "trylock"} /\ pc'["timer"] = pc["timer"]
        /\ calc'["timer"] = calc["timer"] /\ cmd'["timer"] = cmd["timer"]
        /\ UNCHANGED <<sensor, execVars, comVars, busVars, carVars>>
    BY <1>13, PcType, TypeNow DEF CheckResult, GoNext, GoWith, Go, Threads, WhereTyped
  <2> QED
    <3>1. "sensor" \in Threads /\ "timer" \in Threads /\ Threads = {"sensor", "timer"}
      BY DEF Threads
    <3>2. ThreadInv("sensor")'
      <4>1. pc["sensor"] \notin Holding /\ pc'["sensor"] \notin Holding
        BY <2>1 DEF Holding
      <4>2. currLen'["sensor"] = currLen["sensor"] /\ response'["sensor"] = response["sensor"]
            /\ outcome'["sensor"] = outcome["sensor"]
        BY <2>1 DEF execVars
      <4> QED
        BY <3>1, <4>1, <4>2, ThreadOutside
    <3>3. ThreadInv("timer")'
      BY <2>1, <3>1, ThreadUntouched
    <3> QED
      BY <3>1, <3>2, <3>3 DEF ThreadsInv
<1>14. CASE TryLock
  <2>1. /\ pc["sensor"] = "trylock" /\ pc'["sensor"] \in {"stop", "lock", "store"} /\ pc'["timer"] = pc["timer"]
        /\ calc'["timer"] = calc["timer"] /\ cmd'["timer"] = cmd["timer"]
        /\ UNCHANGED <<sensor, execVars, comVars, busVars, carVars>>
    BY <1>14, PcType, TypeNow DEF TryLock, GoNext, GoWith, Go, Threads, WhereTyped
  <2> QED
    <3>1. "sensor" \in Threads /\ "timer" \in Threads /\ Threads = {"sensor", "timer"}
      BY DEF Threads
    <3>2. ThreadInv("sensor")'
      <4>1. pc["sensor"] \notin Holding /\ pc'["sensor"] \notin Holding
        BY <2>1 DEF Holding
      <4>2. currLen'["sensor"] = currLen["sensor"] /\ response'["sensor"] = response["sensor"]
            /\ outcome'["sensor"] = outcome["sensor"]
        BY <2>1 DEF execVars
      <4> QED
        BY <3>1, <4>1, <4>2, ThreadOutside
    <3>3. ThreadInv("timer")'
      BY <2>1, <3>1, ThreadUntouched
    <3> QED
      BY <3>1, <3>2, <3>3 DEF ThreadsInv
<1>15. CASE Store
  <2>1. /\ pc["sensor"] = "store" /\ pc'["sensor"] \in {"stop", "lock"} /\ pc'["timer"] = pc["timer"]
        /\ calc'["timer"] = calc["timer"] /\ cmd'["timer"] = cmd["timer"]
        /\ UNCHANGED <<sensor, execVars, comVars, busVars, carVars>>
    BY <1>15, PcType, TypeNow DEF Store, GoNext, GoWith, Go, Threads, WhereTyped
  <2> QED
    <3>1. "sensor" \in Threads /\ "timer" \in Threads /\ Threads = {"sensor", "timer"}
      BY DEF Threads
    <3>2. ThreadInv("sensor")'
      <4>1. pc["sensor"] \notin Holding /\ pc'["sensor"] \notin Holding
        BY <2>1 DEF Holding
      <4>2. currLen'["sensor"] = currLen["sensor"] /\ response'["sensor"] = response["sensor"]
            /\ outcome'["sensor"] = outcome["sensor"]
        BY <2>1 DEF execVars
      <4> QED
        BY <3>1, <4>1, <4>2, ThreadOutside
    <3>3. ThreadInv("timer")'
      BY <2>1, <3>1, ThreadUntouched
    <3> QED
      BY <3>1, <3>2, <3>3 DEF ThreadsInv
<1>16. CASE KeepAliveStop
  <2>1. /\ pc["sensor"] = "stop" /\ pc'["sensor"] \in {"loop"} /\ pc'["timer"] = pc["timer"]
        /\ calc'["timer"] = calc["timer"] /\ cmd'["timer"] = cmd["timer"]
        /\ UNCHANGED <<sensor, execVars, comVars, busVars, carVars>>
    BY <1>16, PcType, TypeNow DEF KeepAliveStop, GoNext, GoWith, Go, Threads, WhereTyped
  <2> QED
    <3>1. "sensor" \in Threads /\ "timer" \in Threads /\ Threads = {"sensor", "timer"}
      BY DEF Threads
    <3>2. ThreadInv("sensor")'
      <4>1. pc["sensor"] \notin Holding /\ pc'["sensor"] \notin Holding
        BY <2>1 DEF Holding
      <4>2. currLen'["sensor"] = currLen["sensor"] /\ response'["sensor"] = response["sensor"]
            /\ outcome'["sensor"] = outcome["sensor"]
        BY <2>1 DEF execVars
      <4> QED
        BY <3>1, <4>1, <4>2, ThreadOutside
    <3>3. ThreadInv("timer")'
      BY <2>1, <3>1, ThreadUntouched
    <3> QED
      BY <3>1, <3>2, <3>3 DEF ThreadsInv
<1>17. CASE Dispatch
  BY <1>17, TypeStep, MovesKeep DEF ThreadsInv
<1>18. CASE Event
  BY <1>18, TypeStep, MovesKeep DEF ThreadsInv
<1>19. CASE RxLost
  BY <1>19, TypeStep, MovesKeep DEF ThreadsInv
<1>20. CASE CarKeepAlive
  BY <1>20, KeepAliveAnswered, CarIdle DEF ThreadsInv
<1>21. CASE CarCommand
  BY <1>21, CommandAnswered, CarIdle DEF ThreadsInv
<1>22. CASE CarExtended
  BY <1>22, AckAnswered, CarIdle DEF ThreadsInv
<1>23. CASE TimerTick
  <2>1. UNCHANGED <<pc, calc, cmd>> /\ UNCHANGED <<sensor, execVars, comVars, busVars, carVars>>
    BY <1>23 DEF TimerTick
  <2> QED
    BY <2>1, ThreadUntouched DEF ThreadsInv
<1>24. CASE KeepAliveSequence
  <2>1. /\ pc["timer"] = "idle" /\ pc'["timer"] \in {"idle", "lock"} /\ pc'["sensor"] = pc["sensor"]
        /\ calc'["sensor"] = calc["sensor"] /\ cmd'["sensor"] = cmd["sensor"]
        /\ UNCHANGED <<sensor, execVars, comVars, busVars, carVars>>
    BY <1>24, PcType, TypeNow DEF KeepAliveSequence, GoNext, GoWith, Go, Threads, WhereTyped
  <2> QED
    <3>1. "timer" \in Threads /\ "sensor" \in Threads /\ Threads = {"timer", "sensor"}
      BY DEF Threads
    <3>2. ThreadInv("timer")'
      <4>1. pc["timer"] \notin Holding /\ pc'["timer"] \notin Holding
        BY <2>1 DEF Holding
      <4>2. currLen'["timer"] = currLen["timer"] /\ response'["timer"] = response["timer"]
            /\ outcome'["timer"] = outcome["timer"]
        BY <2>1 DEF execVars
      <4> QED
        BY <3>1, <4>1, <4>2, ThreadOutside
    <3>3. ThreadInv("sensor")'
      BY <2>1, <3>1, ThreadUntouched
    <3> QED
      BY <3>1, <3>2, <3>3 DEF ThreadsInv
<1>25. CASE AddCalculator
  <2>1. UNCHANGED <<pc, calc, cmd>> /\ UNCHANGED <<sensor, execVars, comVars, busVars, carVars>>
    BY <1>25 DEF AddCalculator
  <2> QED
    BY <2>1, ThreadUntouched DEF ThreadsInv
<1>26. CASE CaptureLock
  <2>1. UNCHANGED <<pc, calc, cmd>> /\ UNCHANGED <<sensor, execVars, comVars, busVars, carVars>>
    BY <1>26 DEF CaptureLock
  <2> QED
    BY <2>1, ThreadUntouched DEF ThreadsInv
<1>27. CASE CaptureCopy
  <2>1. UNCHANGED <<pc, calc, cmd>> /\ UNCHANGED <<sensor, execVars, comVars, busVars, carVars>>
    BY <1>27 DEF CaptureCopy
  <2> QED
    BY <2>1, ThreadUntouched DEF ThreadsInv
<1>28. CASE UNCHANGED vars
  <2>1. UNCHANGED <<pc, calc, cmd>> /\ UNCHANGED <<sensor, execVars, comVars, busVars, carVars>>
    BY <1>28 DEF vars
  <2> QED
    BY <2>1, ThreadUntouched DEF ThreadsInv
<1> QED
  BY <1>1, <1>2, <1>3, <1>4, <1>5, <1>6, <1>7, <1>8, <1>9, <1>10, <1>11, <1>12, <1>13, <1>14,
     <1>15, <1>16, <1>17, <1>18, <1>19, <1>20, <1>21, <1>22, <1>23, <1>24, <1>25, <1>26, <1>27,
     <1>28 DEF Next, Execute, Sensor, Can, Car


LEMMA ThreadsPartsPrime == ThreadsInv' => IdleInv' /\ ExchangeInv' /\ EndedInv'
BY ThreadsParts, PTL

LEMMA DiagStep == DiagInv /\ [Next]_vars => DiagInv'
<1> SUFFICES ASSUME DiagInv, [Next]_vars PROVE DiagInv'
  OBVIOUS
<1>1. TypeOK'
  BY TypeStep
<1>2. LockInv' /\ CarInv' /\ RoomInv'
  BY LockStep, CarStep, RoomStep
<1>3. ProgramInv'
  BY WhereStep
<1>4. IdleInv' /\ ExchangeInv' /\ EndedInv'
  BY ThreadsStep, ThreadsPartsPrime
<1> QED
  BY <1>1, <1>2, <1>3, <1>4 DEF DiagInv

LEMMA InitDiag == Init => DiagInv
<1> SUFFICES ASSUME Init PROVE DiagInv
  OBVIOUS
<1>1. sensor \in Sensors /\ nCalculators = 1 /\ CalcIndex = 1
  BY DEF Init
<1>2. nCalculators \in 1 .. Len(sensor.calculators)
  <2>1. sensor.calculators \in Seq(Seq(Command)) /\ sensor.calculators # <<>>
    BY <1>1, DiagAssumption
  <2>2. Len(sensor.calculators) \in Nat /\ Len(sensor.calculators) # 0
    BY <2>1, LenProperties, EmptySeq
  <2> QED
    BY <1>1, <2>2
<1>3. /\ pc = [t \in Threads |-> IF t = "sensor" THEN "loop" ELSE "idle"]
      /\ calc = [t \in Threads |-> 1] /\ cmd = [t \in Threads |-> 0]
  BY DEF Init
<1>4. WhereTyped
  BY <1>3 DEF WhereTyped, Where
<1>5. ExecTyped
  <2>1. <<>> \in Seq(ChunkType)
    OBVIOUS
  <2> QED
    BY <2>1 DEF Init, ExecTyped
<1>6. BusTyped
  BY FrameFacts, ConstantFacts DEF Init, BusTyped, NoAnswer
<1>7. ComTyped
  BY DEF Init, ComTyped
<1>8. RestTyped
  <2>1. num = 0 /\ due = 0 /\ resultsMutex = "free" /\ timer = FALSE
    BY DEF Init
  <2>2. num \in Nat /\ due \in 0 .. TimerQueue /\ CalcIndex \in 1 .. nCalculators
    BY <1>1, <2>1, ConstantFacts
  <2>3. timer \in BOOLEAN
    BY <2>1
  <2> QED
    BY <1>1, <1>2, <2>1, <2>2, <2>3 DEF RestTyped
<1>9. LockInv /\ CarInv
  BY DEF Init, LockInv, CarInv, Threads, Holding
<1>10. ProgramInv
  BY <1>3 DEF ProgramInv, Threads, Holding
<1>11. IdleInv /\ ExchangeInv /\ EndedInv
  BY DEF Init, IdleInv, Idle, ExchangeInv, EndedInv, Threads
<1>12. RoomInv
  BY <1>3, ConstantFacts DEF Init, RoomInv, Threads
<1> QED
  BY <1>4, <1>5, <1>6, <1>7, <1>8, <1>9, <1>10, <1>11, <1>12, TypeParts DEF DiagInv

-----------------------------------------------------------------------------
(***************************************************************************)
(* The theorems.                                                           *)
(***************************************************************************)

(* The invariant of CANDiagSensorBase, the communicators and the calculator    *)
(* that answers them.                                                          *)
THEOREM DiagInvariant == Spec => []DiagInv
BY InitDiag, DiagStep, PTL DEF Spec

(* The state stays within its types: the answer collected never exceeds the    *)
(* length announced, the queue its size, and every thread executes a command   *)
(* of a calculator the sensor has.                                             *)
THEOREM TypeCorrect == Spec => []TypeOK
<1>1. DiagInv => TypeOK
  BY DEF DiagInv
<1> QED
  BY <1>1, DiagInvariant, PTL

(* What ExecuteCommand collects is the answer to its own command, in order,    *)
(* and all of it when the exchange is complete: for any commands, answers and  *)
(* sizes of the queues, whatever frames are lost and however the keep-alive of *)
(* the timer thread falls between the sensor's commands.                       *)
THEOREM AnswersBelong == Spec => []AnswerBelongs
<1>1. ASSUME DiagInv PROVE AnswerBelongs
  <2>1. ASSUME NEW t \in Threads, pc[t] = "end" PROVE Belongs(t)
    BY <1>1, <2>1 DEF DiagInv, EndedInv
  <2>2. ASSUME NEW t \in Threads, pc[t] = "answer" PROVE Belongs(t)
    <3>1. Exchange(t) /\ outcome[t] = "none"
      BY <1>1, <2>2 DEF DiagInv, ExchangeInv, IdleInv, Idle
    <3>2. response[t] = <<>> \/ response[t] = <<FirstChunk>> \/ Collected(t, response[t])
      BY <3>1 DEF Exchange, Asked, Opened, Stuck, Acked, Following, Nothing, OnlyFirst
    <3>3. FirstChunk.tag = tag /\ FirstChunk.part = 0
      BY DEF FirstChunk
    <3>4. CASE response[t] = <<FirstChunk>>
      BY <3>1, <3>3, <3>4 DEF Belongs, Increasing
    <3>5. CASE Collected(t, response[t])
      BY <3>1, <3>3, <3>5 DEF Belongs, Collected
    <3> QED
      BY <3>2, <3>4, <3>5 DEF Belongs
  <2>3. ASSUME NEW t \in Threads, pc[t] \in {"answer", "end"}, response[t] # <<>>
        PROVE  LET r == response[t]
                   n == Program(calc[t])[cmd[t]].ans
                   all == IF proto = "6A" /\ n > 6 THEN 1 + Segments(n) ELSE 1
               IN /\ \A k \in DOMAIN r : r[k].tag = tag
                  /\ r[1].part = 0
                  /\ \A k, l \in DOMAIN r : k < l => r[k].part < r[l].part
                  /\ outcome[t] = "complete" => Len(r) = all
    <3>1. Belongs(t)
      BY <2>1, <2>2, <2>3
    <3>2. response[t] \in Seq(ChunkType)
      BY <1>1, TypeNow DEF ExecTyped
    <3>3. DOMAIN response[t] = 1 .. Len(response[t])
      BY <3>2, LenProperties
    <3> QED
      BY <2>3, <3>1, <3>3 DEF Belongs, Increasing, All, Long, Ans
  <2> QED
    BY <2>3 DEF AnswerBelongs
<1> QED
  BY <1>1, DiagInvariant, PTL

(* The check for room is made before trylock and forgets the time stamp; the   *)
(* results store runs over by at most 3 bytes, for every size of it and every  *)
(* length of the answers.                                                      *)
THEOREM OverrunBounded == Spec => []StoreOverrunBounded
<1>1. DiagInv => StoreOverrunBounded
  BY DEF DiagInv, RoomInv, StoreOverrunBounded
<1> QED
  BY <1>1, DiagInvariant, PTL
=============================================================================
