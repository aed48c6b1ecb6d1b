------------------------- MODULE CANInterfaceProofs -------------------------
(***************************************************************************)
(* The rings and the dispatch, for every size of the rings and of the      *)
(* table, any identifiers, communicators and recorders.                    *)
(***************************************************************************)
EXTENDS CANInterface, SequenceTheorems, WellFoundedInduction, TLAPS

(* The sum of two slots, modulo the size of the ring. *)
LEMMA Wrap ==
  ASSUME NEW x \in Nat, x < 2 * FIFO_SIZE
  PROVE  x % FIFO_SIZE = IF x < FIFO_SIZE THEN x ELSE x - FIFO_SIZE
<1>1. FIFO_SIZE \in Nat /\ FIFO_SIZE > 1
  BY InterfaceAssumption
<1>2. CASE x < FIFO_SIZE
  BY <1>1, <1>2
<1>3. CASE ~(x < FIFO_SIZE)
  BY <1>1, <1>3
<1> QED
  BY <1>2, <1>3

(* The slots of the ring, without the modulo. *)
Turn(x) == IF x < FIFO_SIZE THEN x ELSE x - FIFO_SIZE

LEMMA SlotArithmetic ==
  ASSUME NEW h \in Slot, NEW t \in Slot
  PROVE  /\ (h + 1) % FIFO_SIZE = Turn(h + 1) /\ Turn(h + 1) \in Slot
         /\ (FIFO_SIZE + h - t) % FIFO_SIZE = IF h >= t THEN h - t ELSE FIFO_SIZE + h - t
         /\ \A k \in 1 .. FIFO_SIZE : /\ (t + k - 1) % FIFO_SIZE = Turn(t + k - 1)
                                      /\ Turn(t + k - 1) \in Slot
<1>1. FIFO_SIZE \in Nat /\ FIFO_SIZE > 1 /\ h \in Nat /\ t \in Nat /\ h < FIFO_SIZE /\ t < FIFO_SIZE
  BY InterfaceAssumption DEF Slot
<1>2. (h + 1) % FIFO_SIZE = Turn(h + 1) /\ Turn(h + 1) \in Slot
  BY <1>1, Wrap DEF Turn, Slot
<1>3. (FIFO_SIZE + h - t) % FIFO_SIZE = IF h >= t THEN h - t ELSE FIFO_SIZE + h - t
  <2>1. FIFO_SIZE + h - t \in Nat /\ FIFO_SIZE + h - t < 2 * FIFO_SIZE
    BY <1>1
  <2> QED
    BY <1>1, <2>1, Wrap
<1>4. ASSUME NEW k \in 1 .. FIFO_SIZE
      PROVE  (t + k - 1) % FIFO_SIZE = Turn(t + k - 1) /\ Turn(t + k - 1) \in Slot
  <2>1. t + k - 1 \in Nat /\ t + k - 1 < 2 * FIFO_SIZE
    BY <1>1
  <2> QED
    BY <1>1, <2>1, Wrap DEF Turn, Slot
<1> QED
  BY <1>2, <1>3, <1>4

LEMMA SlotDistance ==
  ASSUME NEW h \in Slot, NEW t \in Slot, NEW n \in Nat
  PROVE  (IF h >= t THEN h - t ELSE FIFO_SIZE + h - t) = n <=> n < FIFO_SIZE /\ h = Turn(t + n)
<1>1. FIFO_SIZE \in Nat /\ FIFO_SIZE > 1 /\ h \in Nat /\ t \in Nat /\ h < FIFO_SIZE /\ t < FIFO_SIZE
  BY InterfaceAssumption DEF Slot
<1> QED
  BY <1>1 DEF Turn

(* What a ring holds: n frames from tail on. *)
RingHolds(buf, h, t, q) ==
  /\ Len(q) < FIFO_SIZE /\ h = Turn(t + Len(q))
  /\ \A k \in 1 .. Len(q) : buf[Turn(t + k - 1)] = q[k]

LEMMA RingIsExact ==
  ASSUME NEW b \in Bus, head[b] \in Slot, tail[b] \in Slot, queue[b] \in Seq(Frame)
  PROVE  (/\ available(b) = Len(queue[b])
          /\ \A k \in 1 .. Len(queue[b]) : buffer[b][(tail[b] + k - 1) % FIFO_SIZE] = queue[b][k])
         <=> RingHolds(buffer[b], head[b], tail[b], queue[b])
<1> DEFINE h == head[b]  t == tail[b]  n == Len(queue[b])
<1>1. /\ FIFO_SIZE \in Nat /\ FIFO_SIZE > 1 /\ h \in Nat /\ t \in Nat /\ h < FIFO_SIZE /\ t < FIFO_SIZE
      /\ n \in Nat
  BY InterfaceAssumption DEF Slot
<1>2. available(b) = IF h >= t THEN h - t ELSE FIFO_SIZE + h - t
  BY SlotArithmetic DEF available
<1>3. available(b) = n <=> n < FIFO_SIZE /\ h = Turn(t + n)
  BY <1>1, <1>2, SlotDistance
<1>4. ASSUME n < FIFO_SIZE, NEW k \in 1 .. n
      PROVE  (t + k - 1) % FIFO_SIZE = Turn(t + k - 1)
  <2>1. k \in 1 .. FIFO_SIZE
    BY <1>1, <1>4
  <2> QED
    BY <2>1, SlotArithmetic
<1>5. n < FIFO_SIZE => \A k \in 1 .. n :
        (buffer[b][(t + k - 1) % FIFO_SIZE] = queue[b][k] <=> buffer[b][Turn(t + k - 1)] = queue[b][k])
  BY <1>4
<1> QED
  BY <1>3, <1>5 DEF RingHolds

(* A frame more at head; a frame less at tail. *)
LEMMA RingPut ==
  ASSUME NEW buf \in [Slot -> Frame \cup {NoFrame}], NEW h \in Slot, NEW t \in Slot,
         NEW q \in Seq(Frame), NEW m \in Frame, RingHolds(buf, h, t, q), After(h) # t
  PROVE  RingHolds([buf EXCEPT ![h] = m], After(h), t, Append(q, m))
<1> DEFINE n == Len(q)  new == [buf EXCEPT ![h] = m]  q2 == Append(q, m)
<1>1. /\ FIFO_SIZE \in Nat /\ FIFO_SIZE > 1 /\ h \in Nat /\ t \in Nat /\ h < FIFO_SIZE /\ t < FIFO_SIZE
      /\ n \in Nat /\ n < FIFO_SIZE /\ h = Turn(t + n)
  BY InterfaceAssumption DEF Slot, RingHolds
<1>2. After(h) = Turn(h + 1)
  BY SlotArithmetic DEF After
<1>3. n + 1 < FIFO_SIZE /\ After(h) = Turn(t + (n + 1))
  BY <1>1, <1>2 DEF Turn
<1>4. Len(q2) = n + 1 /\ q2[n + 1] = m /\ \A k \in 1 .. n : q2[k] = q[k]
  OBVIOUS
<1>5. ASSUME NEW k \in 1 .. n + 1 PROVE new[Turn(t + k - 1)] = q2[k]
  <2>1. CASE k = n + 1
    <3>1. Turn(t + k - 1) = h
      BY <2>1, <1>1
    <3> QED
      BY <2>1, <3>1, <1>4
  <2>2. CASE k \in 1 .. n
    <3>1. Turn(t + k - 1) # h /\ Turn(t + k - 1) \in Slot
      BY <2>2, <1>1 DEF Turn, Slot
    <3> QED
      BY <2>2, <3>1, <1>4 DEF RingHolds
  <2> QED
    BY <2>1, <2>2, <1>1
<1> QED
  BY <1>3, <1>4, <1>5 DEF RingHolds

LEMMA RingGet ==
  ASSUME NEW buf \in [Slot -> Frame \cup {NoFrame}], NEW h \in Slot, NEW t \in Slot,
         NEW q \in Seq(Frame), RingHolds(buf, h, t, q), h # t
  PROVE  q # <<>> /\ buf[t] = q[1] /\ RingHolds(buf, h, After(t), Tail(q))
<1> DEFINE n == Len(q)
<1>1. /\ FIFO_SIZE \in Nat /\ FIFO_SIZE > 1 /\ h \in Nat /\ t \in Nat /\ h < FIFO_SIZE /\ t < FIFO_SIZE
      /\ n \in Nat /\ n < FIFO_SIZE /\ h = Turn(t + n)
  BY InterfaceAssumption DEF Slot, RingHolds
<1>2. n > 0 /\ q # <<>>
  BY <1>1 DEF Turn
<1>3. After(t) = Turn(t + 1)
  BY SlotArithmetic DEF After
<1>4. Len(Tail(q)) = n - 1 /\ \A k \in 1 .. n - 1 : Tail(q)[k] = q[k + 1]
  BY <1>2, HeadTailProperties
<1>5. Turn(t + 1 - 1) = t /\ buf[t] = q[1]
  <2>1. Turn(t + 1 - 1) = t
    BY <1>1 DEF Turn
  <2> QED
    BY <2>1, <1>1, <1>2 DEF RingHolds
<1>6. h = Turn(After(t) + (n - 1))
  BY <1>1, <1>2, <1>3 DEF Turn
<1>7. ASSUME NEW k \in 1 .. n - 1 PROVE buf[Turn(After(t) + k - 1)] = Tail(q)[k]
  <2>1. k + 1 \in 1 .. n /\ Turn(After(t) + k - 1) = Turn(t + (k + 1) - 1)
    BY <1>1, <1>3 DEF Turn
  <2> QED
    BY <2>1, <1>4 DEF RingHolds
<1> QED
  BY <1>1, <1>2, <1>4, <1>5, <1>6, <1>7 DEF RingHolds

-----------------------------------------------------------------------------
(***************************************************************************)
(* The inductive invariant.                                                *)
(***************************************************************************)
Row == 0 .. CAN_SIMULTANEOUS_CBS - 1
TableEntry == [bus : {-1, 0, 1, 2}, id : Ids \cup {"none", "mixed", CAN_ID_PROMISCUOUS_MODE},
               cb : Callbacks \cup {"none", "mixed"}]

(* The recorders that came first are in front, and stay. *)
TableInv ==
  /\ idCbTable \in [Row -> TableEntry]
  /\ Len(front) <= nCurrentCbs
  /\ \A k \in 1 .. Len(front) : idCbTable[k - 1] = EntryOf(front[k])

(* A recorder has one row and keeps it promiscuous, whatever DelCallBackForId  *)
(* copies; only a table of more than eight rows makes others promiscuous.      *)
IsRecorder(e) == e.cb \in Recorders
OwnerInv ==
  /\ \A k \in Row : IsRecorder(idCbTable[k]) =>
        idCbTable[k].id = CAN_ID_PROMISCUOUS_MODE /\ idCbTable[k].cb \in registered
  /\ \A k, l \in Row : IsRecorder(idCbTable[k]) /\ idCbTable[k].cb = idCbTable[l].cb => k = l
  /\ CAN_SIMULTANEOUS_CBS <= 8 => \A k \in Row :
        idCbTable[k].id = CAN_ID_PROMISCUOUS_MODE => IsRecorder(idCbTable[k])

FifoInv == \A b \in Bus : RingHolds(buffer[b], head[b], tail[b], queue[b])

(* m arrived before all of q. *)
Precedes(m, q) == \A l \in 1 .. Len(q) : m.n < q[l].n

(* What waits is of its bus and in the order of arrival. *)
Ascending(q, b, a) ==
  /\ \A k \in 1 .. Len(q) : q[k].bus = b /\ q[k].n < a
  /\ \A k, l \in 1 .. Len(q) : k < l => q[k].n < q[l].n
QueueInv == \A b \in Bus : Ascending(queue[b], b, arrived)

(* What a callback has seen arrived before what still waits. *)
OldFrame(m, a, q) == m.n < a /\ Precedes(m, q[m.bus])
SeenInv == \A c \in Callbacks : \A k \in 1 .. Len(seen[c]) : OldFrame(seen[c][k], arrived, queue)

(* The frame in dispatch. *)
Dispatching == pc \in {"dispatch", "done"}
MsgInv == Dispatching => msg \in Frame /\ msg.bus = bus /\ OldFrame(msg, arrived, queue)

(* Who has not had the frame in dispatch has only older ones of its bus; a     *)
(* communicator of a large table may have had this one, too.                   *)
Fresh(c) == \/ c \in Clients /\ CAN_SIMULTANEOUS_CBS <= 8
            \/ c \in Recorders /\ c \notin registered
            \/ c \in Recorders /\ \E k \in Row : idCbTable[k].cb = c /\ k >= i
Older(s) == \A k \in 1 .. Len(s) : s[k].bus = bus => s[k].n < msg.n
NotNewer(s) == \A k \in 1 .. Len(s) : s[k].bus = bus => s[k].n <= msg.n
FreshInv == pc = "dispatch" => \A c \in Callbacks : /\ Fresh(c) => Older(seen[c])
                                                    /\ NotNewer(seen[c])

(* The rows and recorders the loop has passed have it. *)
Served(k) == Wants(idCbTable[k]) /\ idCbTable[k].cb \in Callbacks => Received(idCbTable[k].cb)
ReachInv ==
  /\ pc = "dispatch" => \A k \in due : k < i => Served(k)
  /\ pc = "dispatch" => \A k \in 1 .. early : k <= i => Received(front[k])
  /\ DispatchReaches /\ FrontRecordersHear

InterfaceInv == /\ TypeOK /\ TableInv /\ OwnerInv /\ FifoInv /\ QueueInv /\ SeenInv
                /\ MsgInv /\ FreshInv /\ ReachInv /\ InOrderOnce

-----------------------------------------------------------------------------
(***************************************************************************)
(* The initial states, and one lemma per part of the invariant.            *)
(***************************************************************************)
LEMMA ConstantFacts ==
  /\ FIFO_SIZE \in Nat /\ FIFO_SIZE > 1
  /\ CAN_SIMULTANEOUS_CBS \in Nat
  /\ \A c \in Clients : c \notin Recorders /\ c \notin {"none", "mixed"}
  /\ \A c \in Recorders : c \notin {"none", "mixed"}
  /\ CAN_ID_PROMISCUOUS_MODE \notin Ids
  /\ BusOf \in [Clients -> Bus] /\ IdOf \in [Clients -> Ids]
  /\ MaxFrames \in Nat
BY InterfaceAssumption

LEMMA InitInterface == Init => InterfaceInv
<1> SUFFICES ASSUME Init PROVE InterfaceInv
  OBVIOUS
<1>1. TypeOK
  BY ConstantFacts DEF Init, TypeOK, Bus, Slot
<1>2. TableInv
  <2>1. NoEntry \in TableEntry
    BY DEF NoEntry, Entry, TableEntry
  <2> QED
    BY <2>1, ConstantFacts DEF Init, TableInv, Row
<1>6. OwnerInv
  <2>1. \A k \in Row : idCbTable[k] = NoEntry
    BY DEF Init, Row
  <2>2. NoEntry.cb = "none" /\ NoEntry.id # CAN_ID_PROMISCUOUS_MODE
    BY DEF NoEntry, Entry, CAN_ID_PROMISCUOUS_MODE
  <2> QED
    BY <2>1, <2>2, ConstantFacts DEF OwnerInv, IsRecorder
<1>3. FifoInv
  BY ConstantFacts DEF Init, FifoInv, RingHolds, Turn
<1>4. QueueInv /\ SeenInv /\ InOrderOnce
  BY DEF Init, QueueInv, Ascending, SeenInv, InOrderOnce
<1>5. MsgInv /\ FreshInv /\ ReachInv
  BY DEF Init, MsgInv, FreshInv, ReachInv, Dispatching, DispatchReaches, FrontRecordersHear
<1> QED
  BY <1>1, <1>2, <1>3, <1>4, <1>5, <1>6 DEF InterfaceInv

LEMMA AfterIsSlot ==
  ASSUME NEW k \in Slot
  PROVE  After(k) \in Slot /\ After(k) = Turn(k + 1)
BY SlotArithmetic DEF After

(* The facts of an arrival, of taking a frame and of a delivery. *)
LEMMA StoredFacts ==
  ASSUME InterfaceInv, NEW b \in Bus, NEW id \in Ids, RxStored(b, id)
  PROVE  \E m \in Frame :
            /\ m.bus = b /\ m.n = arrived /\ arrived \in Nat /\ arrived' = arrived + 1
            /\ queue[b] \in Seq(Frame) /\ Append(queue[b], m) \in Seq(Frame)
            /\ queue' = [queue EXCEPT ![b] = Append(queue[b], m)]
            /\ buffer' = [buffer EXCEPT ![b][head[b]] = m] /\ After(head[b]) \in Slot
            /\ RingHolds(buffer'[b], head'[b], tail'[b], queue'[b])
<1> DEFINE m == [bus |-> b, id |-> id, n |-> arrived]
<1>1. m \in Frame /\ arrived \in Nat /\ m.bus = b /\ m.n = arrived
  BY ConstantFacts DEF RxStored, InterfaceInv, TypeOK, Frame
<1>2. /\ buffer[b] \in [Slot -> Frame \cup {NoFrame}] /\ head[b] \in Slot /\ tail[b] \in Slot
      /\ queue[b] \in Seq(Frame) /\ RingHolds(buffer[b], head[b], tail[b], queue[b])
  BY DEF InterfaceInv, TypeOK, FifoInv
<1>3. After(head[b]) # tail[b]
  BY DEF RxStored, Full
<1>6. /\ arrived' = arrived + 1 /\ queue' = [queue EXCEPT ![b] = Append(queue[b], m)]
      /\ buffer' = [buffer EXCEPT ![b][head[b]] = m]
      /\ head' = [head EXCEPT ![b] = After(head[b])] /\ tail' = tail
  BY DEF RxStored
<1> HIDE DEF m
<1>4. RingHolds([buffer[b] EXCEPT ![head[b]] = m], After(head[b]), tail[b], Append(queue[b], m))
  BY <1>1, <1>2, <1>3, RingPut
<1>5. /\ buffer'[b] = [buffer[b] EXCEPT ![head[b]] = m] /\ head'[b] = After(head[b])
      /\ tail'[b] = tail[b] /\ queue'[b] = Append(queue[b], m)
  BY <1>6 DEF InterfaceInv, TypeOK
<1>7. After(head[b]) \in Slot /\ Append(queue[b], m) \in Seq(Frame)
  BY <1>1, <1>2, AfterIsSlot
<1>8. RingHolds(buffer'[b], head'[b], tail'[b], queue'[b])
  BY <1>4, <1>5
<1> QED
  BY <1>1, <1>2, <1>6, <1>7, <1>8

LEMMA TakenFacts ==
  ASSUME InterfaceInv, GetMsg
  PROVE  /\ bus \in Bus /\ queue[bus] \in Seq(Frame) /\ queue[bus] # <<>>
         /\ msg' = queue[bus][1] /\ msg' \in Frame
         /\ queue' = [queue EXCEPT ![bus] = Tail(queue[bus])] /\ After(tail[bus]) \in Slot
         /\ RingHolds(buffer'[bus], head'[bus], tail'[bus], queue'[bus])
<1>1. /\ bus \in Bus
      /\ buffer[bus] \in [Slot -> Frame \cup {NoFrame}] /\ head[bus] \in Slot /\ tail[bus] \in Slot
      /\ queue[bus] \in Seq(Frame) /\ RingHolds(buffer[bus], head[bus], tail[bus], queue[bus])
  BY DEF InterfaceInv, TypeOK, FifoInv
<1>2. /\ queue[bus] # <<>> /\ buffer[bus][tail[bus]] = queue[bus][1]
      /\ RingHolds(buffer[bus], head[bus], After(tail[bus]), Tail(queue[bus]))
  BY <1>1, RingGet DEF GetMsg
<1>3. queue[bus][1] \in Frame
  BY <1>1, <1>2
<1>4. /\ buffer' = buffer /\ head' = head /\ tail'[bus] = After(tail[bus])
      /\ queue'[bus] = Tail(queue[bus]) /\ msg' = buffer[bus][tail[bus]]
      /\ queue' = [queue EXCEPT ![bus] = Tail(queue[bus])]
  BY <1>1 DEF GetMsg, InterfaceInv, TypeOK
<1> QED
  BY <1>1, <1>2, <1>3, <1>4, AfterIsSlot

(* Delivering to the callback of an entry: a recorder's or a communicator's,   *)
(* or one that is none of them, which changes nothing.                         *)
LEMMA DeliveredFacts ==
  ASSUME InterfaceInv, pc = "dispatch", NEW cb, Deliver(cb)
  PROVE  /\ msg \in Frame /\ msg.bus = bus /\ OldFrame(msg, arrived, queue)
         /\ seen' \in [Callbacks -> Seq(Frame)]
         /\ \A c \in Callbacks : seen[c] \in Seq(Frame)
         /\ \A c \in Callbacks : c # cb => seen'[c] = seen[c]
         /\ cb \in Callbacks => seen'[cb] = Append(seen[cb], msg)
<1>1. msg \in Frame /\ msg.bus = bus /\ OldFrame(msg, arrived, queue)
  BY DEF InterfaceInv, MsgInv, Dispatching
<1>2. seen \in [Callbacks -> Seq(Frame)]
  BY DEF InterfaceInv, TypeOK
<1>3. \A c \in Callbacks : seen[c] \in Seq(Frame) /\ Append(seen[c], msg) \in Seq(Frame)
  BY <1>1, <1>2
<1> QED
  BY <1>1, <1>2, <1>3 DEF Deliver

(* DelCallBackForId finds rows behind the recorders' only. *)
LEMMA FirstOf ==
  ASSUME NEW S \in SUBSET Nat, S # {}
  PROVE  (CHOOSE k \in S : \A l \in S : k <= l) \in S
<1>1. \E x \in S : \A y \in S : ~(<<y, x>> \in OpToRel(<, Nat))
  BY NatLessThanWellFounded, WFMin
<1>2. PICK x \in S : \A y \in S : ~(<<y, x>> \in OpToRel(<, Nat))
  BY <1>1
<1>3. ASSUME NEW y \in S PROVE x <= y
  <2>1. y < x => <<y, x>> \in OpToRel(<, Nat)
    BY DEF OpToRel
  <2>2. ~(y < x)
    BY <1>2, <2>1, Zenon
  <2> QED
    BY <2>2
<1> QED
  BY <1>3

(* What DelCallBackForId does to the table when it finds an entry: row k is    *)
(* none of the front, nor a recorder's, and the recorder behind it is only     *)
(* copied whole in a large table.                                              *)
Deleted(c, k) ==
  /\ k \in Row /\ Len(front) <= k /\ k < nCurrentCbs /\ idCbTable[k].id \in Ids
  /\ nCurrentCbs' = nCurrentCbs - 1
  /\ due' = {d \in due : d # k /\ d < nCurrentCbs - 1}
  /\ \A d \in Row : d # k => idCbTable'[d] = idCbTable[d]
  /\ idCbTable' \in [Row -> TableEntry]
  /\ idCbTable'[k].cb \in {idCbTable[k].cb, "mixed"}
  /\ CAN_SIMULTANEOUS_CBS <= 8 => idCbTable'[k].id # CAN_ID_PROMISCUOUS_MODE

LEMMA CopyFacts ==
  ASSUME NEW own \in TableEntry, NEW nxt \in TableEntry, NEW bytes \in Nat,
         NEW x \in Ids \cup {"mixed"}, own.id \in Ids
  PROVE  /\ CopiedOver(own, nxt, bytes, x) \in TableEntry
         /\ CopiedOver(own, nxt, bytes, x).cb \in {own.cb, "mixed"}
         /\ bytes < 8 => CopiedOver(own, nxt, bytes, x).id # CAN_ID_PROMISCUOUS_MODE
<1>1. CopiedOver(own, nxt, bytes, x) \in TableEntry
  BY DEF CopiedOver, Entry, TableEntry
<1>2. CopiedOver(own, nxt, bytes, x).cb \in {own.cb, "mixed"}
  BY DEF CopiedOver, Entry
<1>3. x # CAN_ID_PROMISCUOUS_MODE /\ own.id # CAN_ID_PROMISCUOUS_MODE
  BY ConstantFacts DEF CAN_ID_PROMISCUOUS_MODE
<1>4. bytes < 8 => CopiedOver(own, nxt, bytes, x).id \in {x, own.id}
  BY DEF CopiedOver, Entry
<1> QED
  BY <1>1, <1>2, <1>3, <1>4

LEMMA DeletedFacts ==
  ASSUME InterfaceInv, NEW c \in Clients, DelCallBackForId(c), EntriesOf(c) # {}
  PROVE  \E k \in Row : Deleted(c, k)
<1> DEFINE k == First(EntriesOf(c))
           bytes == nCurrentCbs - (k + 1)
<1>1. nCurrentCbs \in Nat /\ nCurrentCbs <= CAN_SIMULTANEOUS_CBS /\ Len(front) \in Nat
      /\ CAN_SIMULTANEOUS_CBS \in Nat /\ idCbTable \in [Row -> TableEntry]
  BY ConstantFacts DEF InterfaceInv, TypeOK, TableInv
<1>2. k \in EntriesOf(c)
  <2>1. EntriesOf(c) \in SUBSET Nat
    BY <1>1 DEF EntriesOf
  <2> QED
    BY <2>1, FirstOf DEF First
<1>3. /\ nCurrentCbs' = nCurrentCbs - 1
      /\ due' = {d \in due : d # k /\ d < nCurrentCbs - 1}
      /\ \/ bytes = 0 /\ idCbTable' = idCbTable
         \/ bytes # 0 /\ \E x \in Ids \cup {"mixed"} :
              idCbTable' = [idCbTable EXCEPT ![k] = CopiedOver(idCbTable[k], idCbTable[k + 1], bytes, x)]
  BY DEF DelCallBackForId
<1> HIDE DEF k
<1>4. k \in Nat /\ k \in Row /\ k < nCurrentCbs /\ idCbTable[k].id \in Ids
  <2>1. k \in 0 .. nCurrentCbs - 1 /\ idCbTable[k].id = IdOf[c]
    BY <1>2 DEF EntriesOf
  <2> QED
    BY <1>1, <2>1, ConstantFacts DEF Row
<1>5. Len(front) <= k
  <2>1. SUFFICES ASSUME k < Len(front) PROVE FALSE
    BY <1>1, <1>4
  <2>2. k + 1 \in 1 .. Len(front) /\ (k + 1) - 1 = k
    BY <1>1, <1>4, <2>1
  <2>3. idCbTable[k] = EntryOf(front[k + 1]) /\ front[k + 1] \in Recorders
    BY <2>2 DEF InterfaceInv, TableInv, TypeOK
  <2>4. idCbTable[k].id = CAN_ID_PROMISCUOUS_MODE
    BY <2>3 DEF EntryOf, Entry
  <2> QED
    BY <1>4, <2>4, ConstantFacts
<1>6. CASE bytes = 0
  <2>1. idCbTable' = idCbTable
    BY <1>3, <1>6
  <2>2. idCbTable[k].id # CAN_ID_PROMISCUOUS_MODE
    BY <1>4, ConstantFacts
  <2> QED
    BY <1>1, <1>3, <1>4, <1>5, <2>1, <2>2 DEF Deleted
<1>7. CASE bytes # 0
  <2>1. k + 1 \in Row /\ bytes \in Nat /\ bytes < CAN_SIMULTANEOUS_CBS
    BY <1>1, <1>4, <1>7 DEF Row
  <2>2. idCbTable[k] \in TableEntry /\ idCbTable[k + 1] \in TableEntry
    BY <1>1, <1>4, <2>1
  <2>3. PICK x \in Ids \cup {"mixed"} :
          idCbTable' = [idCbTable EXCEPT ![k] = CopiedOver(idCbTable[k], idCbTable[k + 1], bytes, x)]
    BY <1>3, <1>7
  <2> DEFINE e == CopiedOver(idCbTable[k], idCbTable[k + 1], bytes, x)
  <2> HIDE DEF bytes
  <2>4. e \in TableEntry /\ e.cb \in {idCbTable[k].cb, "mixed"} /\ (bytes < 8 => e.id # CAN_ID_PROMISCUOUS_MODE)
    BY <1>4, <2>1, <2>2, CopyFacts
  <2> HIDE DEF e
  <2>5. idCbTable' = [idCbTable EXCEPT ![k] = e]
    BY <2>3 DEF e
  <2>6. idCbTable'[k] = e /\ idCbTable' \in [Row -> TableEntry] /\ \A d \in Row : d # k => idCbTable'[d] = idCbTable[d]
    BY <1>1, <1>4, <2>4, <2>5
  <2>7. CAN_SIMULTANEOUS_CBS <= 8 => bytes < 8
    BY <1>1, <2>1
  <2> QED
    BY <1>3, <1>4, <1>5, <2>4, <2>6, <2>7 DEF Deleted
<1> QED
  BY <1>4, <1>6, <1>7

(* What AddCallBackForId does when there is room. *)
Added(c) ==
  /\ nCurrentCbs \in Row /\ nCurrentCbs' = nCurrentCbs + 1
  /\ idCbTable' = [idCbTable EXCEPT ![nCurrentCbs] = EntryOf(c)]
  /\ EntryOf(c) \in TableEntry /\ EntryOf(c).cb = c
  /\ c \in Recorders => EntryOf(c).id = CAN_ID_PROMISCUOUS_MODE
  /\ c \notin Recorders => EntryOf(c).id # CAN_ID_PROMISCUOUS_MODE
  /\ front' = front \/ (c \in Recorders /\ nCurrentCbs = Len(front) /\ front' = Append(front, c))

LEMMA AddedFacts ==
  ASSUME InterfaceInv, NEW c \in Callbacks, AddCallBackForId(c)
  PROVE  \/ UNCHANGED <<idCbTable, nCurrentCbs, front>>
         \/ Added(c)
<1>1. CASE nCurrentCbs = CAN_SIMULTANEOUS_CBS
  BY <1>1 DEF AddCallBackForId
<1>2. CASE nCurrentCbs # CAN_SIMULTANEOUS_CBS
  <2>1. nCurrentCbs \in Row
    BY <1>2, ConstantFacts DEF InterfaceInv, TypeOK, Row
  <2>4. /\ nCurrentCbs' = nCurrentCbs + 1 /\ idCbTable' = [idCbTable EXCEPT ![nCurrentCbs] = EntryOf(c)]
        /\ front' = front \/ (c \in Recorders /\ nCurrentCbs = Len(front) /\ front' = Append(front, c))
    <3>1. /\ nCurrentCbs' = nCurrentCbs + 1 /\ idCbTable' = [idCbTable EXCEPT ![nCurrentCbs] = EntryOf(c)]
          /\ front' = IF c \in Recorders /\ nCurrentCbs = Len(front) THEN Append(front, c) ELSE front
      BY <1>2 DEF AddCallBackForId
    <3>2. CASE c \in Recorders /\ nCurrentCbs = Len(front)
      BY <3>1, <3>2
    <3>3. CASE ~(c \in Recorders /\ nCurrentCbs = Len(front))
      <4>1. front' = front
        BY <3>1, <3>3, Zenon
      <4> QED
        BY <3>1, <4>1, Zenon
    <3> QED
      BY <3>2, <3>3
  <2>2. CASE c \in Recorders
    <3>1. EntryOf(c) = Entry(-1, CAN_ID_PROMISCUOUS_MODE, c)
      BY <2>2 DEF EntryOf, CAN_BUS_DONT_CARE
    <3>2. EntryOf(c) \in TableEntry /\ EntryOf(c).cb = c /\ EntryOf(c).id = CAN_ID_PROMISCUOUS_MODE
      BY <2>2, <3>1 DEF Entry, TableEntry
    <3> QED
      BY <2>1, <2>2, <2>4, <3>2, Zenon DEF Added
  <2>3. CASE c \notin Recorders
    <3>1. c \in Clients /\ EntryOf(c) = Entry(BusOf[c], IdOf[c], c)
      BY <2>3 DEF EntryOf, Callbacks
    <3>2. BusOf[c] \in {1, 2} /\ IdOf[c] \in Ids /\ IdOf[c] # CAN_ID_PROMISCUOUS_MODE
      BY <3>1, ConstantFacts DEF Bus
    <3>3. EntryOf(c) \in TableEntry /\ EntryOf(c).cb = c /\ EntryOf(c).id = IdOf[c]
      BY <3>1, <3>2 DEF Entry, TableEntry
    <3> QED
      BY <2>1, <2>3, <2>4, <3>2, <3>3, Zenon DEF Added
  <2> QED
    BY <2>2, <2>3
<1> QED
  BY <1>1, <1>2

LEMMA TypeStep ==
  ASSUME InterfaceInv, [Next]_vars
  PROVE  TypeOK'
<1>1. CASE \E b \in Bus, id \in Ids : RxStored(b, id)
  <2>1. PICK b \in Bus, id \in Ids : RxStored(b, id)
    BY <1>1
  <2>2. PICK m \in Frame : /\ Append(queue[b], m) \in Seq(Frame)
                           /\ buffer' = [buffer EXCEPT ![b][head[b]] = m]
                           /\ queue' = [queue EXCEPT ![b] = Append(@, m)]
    BY <2>1, StoredFacts
  <2>3. After(head[b]) \in Slot /\ arrived' = arrived + 1
    BY <2>1, StoredFacts
  <2>6. arrived' \in 0 .. MaxFrames
    BY <2>1, <2>3, ConstantFacts DEF RxStored, InterfaceInv, TypeOK
  <2>4. buffer' \in [Bus -> [Slot -> Frame \cup {NoFrame}]]
    BY <2>2 DEF InterfaceInv, TypeOK
  <2>5. queue' \in [Bus -> Seq(Frame)] /\ head' \in [Bus -> Slot]
    BY <2>1, <2>2, <2>3 DEF InterfaceInv, TypeOK, RxStored
  <2> QED
    BY <2>1, <2>4, <2>5, <2>6 DEF RxStored, InterfaceInv, TypeOK, tableVars, threadVars
<1>2. CASE \E b \in Bus : RxLost(b)
  BY <1>2, ConstantFacts DEF RxLost, InterfaceInv, TypeOK, vars, fifoVars, tableVars, threadVars
<1>3. CASE \E c \in Callbacks : AddCallBackForId(c)
  <2>1. PICK c \in Callbacks : AddCallBackForId(c)
    BY <1>3
  <2>2. registered' \subseteq Callbacks
    BY <2>1 DEF AddCallBackForId, InterfaceInv, TypeOK
  <2>3. CASE UNCHANGED <<idCbTable, nCurrentCbs, front>>
    BY <2>1, <2>2, <2>3 DEF AddCallBackForId, InterfaceInv, TypeOK, fifoVars, threadVars
  <2>4. CASE Added(c)
    <3>1. nCurrentCbs' \in 0 .. CAN_SIMULTANEOUS_CBS /\ nCurrentCbs \in Nat /\ nCurrentCbs' = nCurrentCbs + 1
      BY <2>4, ConstantFacts DEF Added, Row
    <3>2. due' = due /\ due \subseteq 0 .. nCurrentCbs - 1
      BY <2>1 DEF AddCallBackForId, InterfaceInv, TypeOK
    <3>3. due' \subseteq 0 .. nCurrentCbs' - 1
      BY <3>1, <3>2
    <3>4. front \in Seq(Recorders) /\ early \in 0 .. Len(front) /\ early' = early
      BY <2>1 DEF AddCallBackForId, InterfaceInv, TypeOK
    <3>5. front' \in Seq(Recorders) /\ Len(front') \in {Len(front), Len(front) + 1}
      <4>1. CASE front' = front
        BY <3>4, <4>1
      <4>2. CASE c \in Recorders /\ front' = Append(front, c)
        BY <3>4, <4>2
      <4> QED
        BY <2>4, <4>1, <4>2 DEF Added
    <3>6. early' \in 0 .. Len(front')
      BY <3>4, <3>5
    <3> QED
      BY <2>1, <2>2, <3>1, <3>3, <3>5, <3>6 DEF AddCallBackForId, InterfaceInv, TypeOK, fifoVars, threadVars
  <2> QED
    BY <2>1, <2>3, <2>4, AddedFacts
<1>4. CASE \E c \in Clients : DelCallBackForId(c)
  <2>1. PICK c \in Clients : DelCallBackForId(c)
    BY <1>4
  <2>2. registered' \subseteq Callbacks
    BY <2>1 DEF DelCallBackForId, InterfaceInv, TypeOK
  <2>3. nCurrentCbs' \in 0 .. CAN_SIMULTANEOUS_CBS /\ due' \subseteq 0 .. nCurrentCbs' - 1
    <3>1. CASE EntriesOf(c) = {}
      BY <2>1, <3>1 DEF DelCallBackForId, InterfaceInv, TypeOK
    <3>2. CASE EntriesOf(c) # {}
      <4>1. PICK k \in Row : Deleted(c, k)
        BY <2>1, <3>2, DeletedFacts
      <4>2. k \in Nat /\ k < nCurrentCbs /\ nCurrentCbs \in 0 .. CAN_SIMULTANEOUS_CBS
            /\ due \subseteq 0 .. nCurrentCbs - 1
        BY <4>1, ConstantFacts DEF Deleted, Row, InterfaceInv, TypeOK
      <4>3. nCurrentCbs' = nCurrentCbs - 1 /\ due' = {d \in due : d # k /\ d < nCurrentCbs - 1}
        BY <4>1 DEF Deleted
      <4>4. ASSUME NEW d \in due' PROVE d \in 0 .. nCurrentCbs' - 1
        <5>1. d \in due /\ d < nCurrentCbs - 1
          BY <4>3
        <5> QED
          BY <4>2, <4>3, <5>1
      <4>5. nCurrentCbs' \in 0 .. CAN_SIMULTANEOUS_CBS
        BY <4>2, <4>3, ConstantFacts
      <4> QED
        BY <4>4, <4>5
    <3> QED
      BY <3>1, <3>2
  <2> QED
    BY <2>1, <2>2, <2>3 DEF DelCallBackForId, InterfaceInv, TypeOK, fifoVars, threadVars
<1>5. CASE ClearOvf
  BY <1>5, ConstantFacts DEF ClearOvf, InterfaceInv, TypeOK, vars, fifoVars, tableVars, threadVars
<1>6. CASE GetMsg
  <2>1. Tail(queue[bus]) \in Seq(Frame)
    BY <1>6, TakenFacts
  <2> QED
    BY <1>6, <2>1, TakenFacts, ConstantFacts DEF GetMsg, InterfaceInv, TypeOK, tableVars
<1>7. CASE GetNone
  BY <1>7 DEF GetNone, NextBus, InterfaceInv, TypeOK, Bus, fifoVars, tableVars
<1>8. CASE DispatchPromiscuous
  <2>1. seen' \in [Callbacks -> Seq(Frame)]
    BY <1>8, DeliveredFacts DEF DispatchPromiscuous
  <2> QED
    BY <1>8, <2>1, ConstantFacts DEF DispatchPromiscuous, InterfaceInv, TypeOK, fifoVars, tableVars
<1>9. CASE DispatchMatch
  <2>1. seen' \in [Callbacks -> Seq(Frame)]
    BY <1>9, DeliveredFacts DEF DispatchMatch
  <2> QED
    BY <1>9, <2>1 DEF DispatchMatch, InterfaceInv, TypeOK, fifoVars, tableVars
<1>10. CASE DispatchSkip
  BY <1>10, ConstantFacts DEF DispatchSkip, InterfaceInv, TypeOK, vars, fifoVars, tableVars, threadVars
<1>11. CASE DispatchEnd
  BY <1>11, ConstantFacts DEF DispatchEnd, InterfaceInv, TypeOK, vars, fifoVars, tableVars, threadVars
<1>12. CASE Return
  BY <1>12, ConstantFacts DEF Return, NextBus, InterfaceInv, TypeOK, Bus, fifoVars, tableVars
<1>13. CASE UNCHANGED vars
  BY <1>13, ConstantFacts DEF InterfaceInv, TypeOK, vars, fifoVars, tableVars, threadVars
<1> QED
  BY <1>1, <1>2, <1>3, <1>4, <1>5, <1>6, <1>7, <1>8, <1>9, <1>10, <1>11, <1>12, <1>13 DEF Next, Thread

LEMMA TableStep ==
  ASSUME InterfaceInv, [Next]_vars
  PROVE  TableInv'
<1>0. ASSUME UNCHANGED <<idCbTable, nCurrentCbs, front>> PROVE TableInv'
  BY <1>0 DEF InterfaceInv, TableInv
<1>1. CASE \E b \in Bus, id \in Ids : RxStored(b, id)
  BY <1>1, <1>0 DEF RxStored, tableVars, vars
<1>2. CASE \E b \in Bus : RxLost(b)
  BY <1>2, <1>0 DEF RxLost, tableVars, vars
<1>3. CASE \E c \in Callbacks : AddCallBackForId(c)
  <2>1. PICK c \in Callbacks : AddCallBackForId(c)
    BY <1>3
  <2>2. CASE UNCHANGED <<idCbTable, nCurrentCbs, front>>
    BY <2>2, <1>0
  <2>3. CASE Added(c)
    <3>1. /\ nCurrentCbs \in Row /\ nCurrentCbs \in Nat /\ nCurrentCbs' = nCurrentCbs + 1
          /\ idCbTable' = [idCbTable EXCEPT ![nCurrentCbs] = EntryOf(c)] /\ EntryOf(c) \in TableEntry
      BY <2>3, ConstantFacts DEF Added, Row
    <3>2. /\ idCbTable \in [Row -> TableEntry] /\ Len(front) <= nCurrentCbs /\ front \in Seq(Recorders)
          /\ \A k \in 1 .. Len(front) : idCbTable[k - 1] = EntryOf(front[k])
      BY DEF InterfaceInv, TableInv, TypeOK
    <3>3. idCbTable' \in [Row -> TableEntry] /\ idCbTable'[nCurrentCbs] = EntryOf(c)
      BY <3>1, <3>2
    <3>4. ASSUME NEW k \in 1 .. Len(front) PROVE idCbTable'[k - 1] = EntryOf(front[k])
      <4>1. k - 1 \in Row /\ k - 1 # nCurrentCbs
        BY <3>1, <3>2, ConstantFacts DEF Row
      <4> QED
        BY <3>1, <3>2, <4>1
    <3>5. CASE front' = front
      BY <3>1, <3>2, <3>3, <3>4, <3>5 DEF TableInv
    <3>6. CASE nCurrentCbs = Len(front) /\ front' = Append(front, c) /\ c \in Recorders
      <4>1. /\ Len(front') = Len(front) + 1 /\ front'[Len(front) + 1] = c
            /\ \A k \in 1 .. Len(front) : front'[k] = front[k]
        BY <3>2, <3>6
      <4>2. ASSUME NEW k \in 1 .. Len(front) + 1 PROVE idCbTable'[k - 1] = EntryOf(front'[k])
        <5>1. CASE k \in 1 .. Len(front)
          BY <5>1, <4>1, <3>4
        <5>2. CASE k = Len(front) + 1
          <6>1. k - 1 = nCurrentCbs
            BY <5>2, <3>1, <3>6
          <6> QED
            BY <6>1, <5>2, <4>1, <3>3
        <5> QED
          BY <5>1, <5>2, <3>1, <3>6
      <4> QED
        BY <3>1, <3>3, <3>6, <4>1, <4>2 DEF TableInv
    <3> QED
      BY <2>3, <3>5, <3>6 DEF Added
  <2> QED
    BY <2>1, <2>2, <2>3, AddedFacts
<1>4. CASE \E c \in Clients : DelCallBackForId(c)
  <2>1. PICK c \in Clients : DelCallBackForId(c)
    BY <1>4
  <2>2. CASE EntriesOf(c) = {}
    BY <2>1, <2>2, <1>0 DEF DelCallBackForId
  <2>3. CASE EntriesOf(c) # {}
    <3>1. PICK k \in Row : Deleted(c, k)
      BY <2>1, <2>3, DeletedFacts
    <3>2. /\ Len(front) <= k /\ k < nCurrentCbs /\ nCurrentCbs' = nCurrentCbs - 1
          /\ \A d \in Row : d # k => idCbTable'[d] = idCbTable[d]
          /\ idCbTable' \in [Row -> TableEntry]
      BY <3>1 DEF Deleted
    <3>3. front' = front /\ front \in Seq(Recorders) /\ nCurrentCbs \in Nat /\ k \in Nat
      BY <2>1, ConstantFacts DEF DelCallBackForId, InterfaceInv, TypeOK, Row
    <3>4. ASSUME NEW d \in 1 .. Len(front) PROVE idCbTable'[d - 1] = EntryOf(front[d])
      <4>1. d - 1 \in Row /\ d - 1 # k
        BY <3>2, <3>3, ConstantFacts DEF Row
      <4> QED
        BY <3>2, <4>1 DEF InterfaceInv, TableInv
    <3>5. Len(front) <= nCurrentCbs'
      BY <3>2, <3>3
    <3> QED
      BY <3>2, <3>3, <3>4, <3>5 DEF TableInv
  <2> QED
    BY <2>2, <2>3
<1>5. CASE ClearOvf
  BY <1>5, <1>0 DEF ClearOvf, tableVars, vars
<1>6. CASE GetMsg
  BY <1>6, <1>0 DEF GetMsg, tableVars, vars
<1>7. CASE GetNone
  BY <1>7, <1>0 DEF GetNone, tableVars, vars
<1>8. CASE DispatchPromiscuous
  BY <1>8, <1>0 DEF DispatchPromiscuous, tableVars, vars
<1>9. CASE DispatchMatch
  BY <1>9, <1>0 DEF DispatchMatch, tableVars, vars
<1>10. CASE DispatchSkip
  BY <1>10, <1>0 DEF DispatchSkip, tableVars, vars
<1>11. CASE DispatchEnd
  BY <1>11, <1>0 DEF DispatchEnd, tableVars, vars
<1>12. CASE Return
  BY <1>12, <1>0 DEF Return, tableVars, vars
<1>13. CASE UNCHANGED vars
  BY <1>13, <1>0 DEF tableVars, vars
<1> QED
  BY <1>1, <1>2, <1>3, <1>4, <1>5, <1>6, <1>7, <1>8, <1>9, <1>10, <1>11, <1>12, <1>13 DEF Next, Thread

LEMMA OwnerStep ==
  ASSUME InterfaceInv, [Next]_vars
  PROVE  OwnerInv'
<1>0. ASSUME UNCHANGED <<idCbTable, registered>> PROVE OwnerInv'
  BY <1>0 DEF InterfaceInv, OwnerInv, IsRecorder
<1>a. idCbTable \in [Row -> TableEntry]
  BY DEF InterfaceInv, TableInv
<1>1. CASE \E b \in Bus, id \in Ids : RxStored(b, id)
  BY <1>1, <1>0 DEF RxStored, tableVars, vars
<1>2. CASE \E b \in Bus : RxLost(b)
  BY <1>2, <1>0 DEF RxLost, tableVars, vars
<1>3. CASE \E c \in Callbacks : AddCallBackForId(c)
  <2>1. PICK c \in Callbacks : AddCallBackForId(c)
    BY <1>3
  <2>2. registered' = registered \cup {c} /\ c \notin registered
    BY <2>1 DEF AddCallBackForId
  <2>3. CASE UNCHANGED <<idCbTable, nCurrentCbs, front>>
    BY <2>2, <2>3 DEF InterfaceInv, OwnerInv, IsRecorder
  <2>4. CASE Added(c)
    <3> DEFINE n == nCurrentCbs  e == EntryOf(c)
    <3>1. /\ n \in Row /\ idCbTable' = [idCbTable EXCEPT ![n] = e] /\ e.cb = c
          /\ c \in Recorders => e.id = CAN_ID_PROMISCUOUS_MODE
          /\ c \notin Recorders => e.id # CAN_ID_PROMISCUOUS_MODE
      BY <2>4 DEF Added
    <3> HIDE DEF n, e
    <3>2. idCbTable'[n] = e /\ \A k \in Row : k # n => idCbTable'[k] = idCbTable[k]
      BY <3>1, <1>a
    <3>3. \A k \in Row : IsRecorder(idCbTable[k]) => idCbTable[k].cb # c
      BY <2>2 DEF InterfaceInv, OwnerInv
    <3>4. \A k \in Row : IsRecorder(idCbTable'[k]) =>
            idCbTable'[k].id = CAN_ID_PROMISCUOUS_MODE /\ idCbTable'[k].cb \in registered'
      BY <2>2, <3>1, <3>2 DEF InterfaceInv, OwnerInv, IsRecorder
    <3>5. \A k, l \in Row : IsRecorder(idCbTable'[k]) /\ idCbTable'[k].cb = idCbTable'[l].cb => k = l
      BY <3>1, <3>2, <3>3 DEF InterfaceInv, OwnerInv, IsRecorder
    <3>6. CAN_SIMULTANEOUS_CBS <= 8 => \A k \in Row :
            idCbTable'[k].id = CAN_ID_PROMISCUOUS_MODE => IsRecorder(idCbTable'[k])
      BY <3>1, <3>2 DEF InterfaceInv, OwnerInv, IsRecorder
    <3> QED
      BY <3>4, <3>5, <3>6 DEF OwnerInv, IsRecorder
  <2> QED
    BY <2>1, <2>3, <2>4, AddedFacts
<1>4. CASE \E c \in Clients : DelCallBackForId(c)
  <2>1. PICK c \in Clients : DelCallBackForId(c)
    BY <1>4
  <2>2. registered' = registered \ {c} /\ c \notin Recorders
    BY <2>1, ConstantFacts DEF DelCallBackForId
  <2>3. CASE EntriesOf(c) = {}
    <3>1. idCbTable' = idCbTable
      BY <2>1, <2>3 DEF DelCallBackForId
    <3> QED
      BY <2>2, <3>1 DEF InterfaceInv, OwnerInv, IsRecorder
  <2>4. CASE EntriesOf(c) # {}
    <3>1. PICK k \in Row : Deleted(c, k)
      BY <2>1, <2>4, DeletedFacts
    <3>2. /\ idCbTable[k].id \in Ids /\ \A d \in Row : d # k => idCbTable'[d] = idCbTable[d]
          /\ idCbTable'[k].cb \in {idCbTable[k].cb, "mixed"}
          /\ CAN_SIMULTANEOUS_CBS <= 8 => idCbTable'[k].id # CAN_ID_PROMISCUOUS_MODE
      BY <3>1 DEF Deleted
    <3>3. ~IsRecorder(idCbTable[k])
      BY <3>2, ConstantFacts DEF InterfaceInv, OwnerInv
    <3>4. ~IsRecorder(idCbTable'[k])
      BY <3>2, <3>3, ConstantFacts DEF IsRecorder
    <3>5. \A d \in Row : IsRecorder(idCbTable'[d]) => d # k /\ idCbTable'[d] = idCbTable[d]
      BY <3>2, <3>4
    <3>6. \A d \in Row : IsRecorder(idCbTable'[d]) =>
            idCbTable'[d].id = CAN_ID_PROMISCUOUS_MODE /\ idCbTable'[d].cb \in registered'
      BY <2>2, <3>5 DEF InterfaceInv, OwnerInv, IsRecorder
    <3>7. ASSUME NEW d \in Row, NEW l \in Row, IsRecorder(idCbTable'[d]), idCbTable'[d].cb = idCbTable'[l].cb
          PROVE  d = l
      <4>1. IsRecorder(idCbTable'[l])
        BY <3>7 DEF IsRecorder
      <4> QED
        BY <3>5, <3>7, <4>1 DEF InterfaceInv, OwnerInv
    <3>8. CAN_SIMULTANEOUS_CBS <= 8 => \A d \in Row :
            idCbTable'[d].id = CAN_ID_PROMISCUOUS_MODE => IsRecorder(idCbTable'[d])
      BY <3>2 DEF InterfaceInv, OwnerInv, IsRecorder
    <3> QED
      BY <3>6, <3>7, <3>8 DEF OwnerInv, IsRecorder
  <2> QED
    BY <2>3, <2>4
<1>5. CASE ClearOvf
  BY <1>5, <1>0 DEF ClearOvf, tableVars, vars
<1>6. CASE GetMsg
  BY <1>6, <1>0 DEF GetMsg, tableVars, vars
<1>7. CASE GetNone
  BY <1>7, <1>0 DEF GetNone, tableVars, vars
<1>8. CASE DispatchPromiscuous
  BY <1>8, <1>0 DEF DispatchPromiscuous, tableVars, vars
<1>9. CASE DispatchMatch
  BY <1>9, <1>0 DEF DispatchMatch, tableVars, vars
<1>10. CASE DispatchSkip
  BY <1>10, <1>0 DEF DispatchSkip, tableVars, vars
<1>11. CASE DispatchEnd
  BY <1>11, <1>0 DEF DispatchEnd, tableVars, vars
<1>12. CASE Return
  BY <1>12, <1>0 DEF Return, tableVars, vars
<1>13. CASE UNCHANGED vars
  BY <1>13, <1>0 DEF tableVars, vars
<1> QED
  BY <1>1, <1>2, <1>3, <1>4, <1>5, <1>6, <1>7, <1>8, <1>9, <1>10, <1>11, <1>12, <1>13 DEF Next, Thread

LEMMA FifoStep ==
  ASSUME InterfaceInv, [Next]_vars
  PROVE  FifoInv'
<1>0. ASSUME UNCHANGED <<buffer, head, tail, queue>> PROVE FifoInv'
  BY <1>0 DEF FifoInv, InterfaceInv
<1>1. CASE \E b \in Bus, id \in Ids : RxStored(b, id)
  <2>1. PICK b \in Bus, id \in Ids : RxStored(b, id)
    BY <1>1
  <2>2. RingHolds(buffer'[b], head'[b], tail'[b], queue'[b])
    BY <2>1, StoredFacts
  <2>3. ASSUME NEW d \in Bus, d # b
        PROVE  buffer'[d] = buffer[d] /\ head'[d] = head[d] /\ tail'[d] = tail[d] /\ queue'[d] = queue[d]
    BY <2>1, <2>3 DEF RxStored, InterfaceInv, TypeOK
  <2> QED
    BY <2>2, <2>3 DEF InterfaceInv, FifoInv
<1>2. CASE \E b \in Bus : RxLost(b)
  BY <1>2, <1>0 DEF RxLost, fifoVars, vars
<1>3. CASE \E c \in Callbacks : AddCallBackForId(c)
  BY <1>3, <1>0 DEF AddCallBackForId, fifoVars, vars
<1>4. CASE \E c \in Clients : DelCallBackForId(c)
  BY <1>4, <1>0 DEF DelCallBackForId, fifoVars, vars
<1>5. CASE ClearOvf
  BY <1>5, <1>0 DEF ClearOvf, fifoVars, vars
<1>6. CASE GetMsg
  <2>2. RingHolds(buffer'[bus], head'[bus], tail'[bus], queue'[bus])
    BY <1>6, TakenFacts
  <2>3. ASSUME NEW d \in Bus, d # bus
        PROVE  buffer'[d] = buffer[d] /\ head'[d] = head[d] /\ tail'[d] = tail[d] /\ queue'[d] = queue[d]
    BY <1>6, <2>3 DEF GetMsg, InterfaceInv, TypeOK
  <2> QED
    BY <2>2, <2>3 DEF InterfaceInv, FifoInv
<1>7. CASE GetNone
  BY <1>7, <1>0 DEF GetNone, fifoVars, vars
<1>8. CASE DispatchPromiscuous
  BY <1>8, <1>0 DEF DispatchPromiscuous, fifoVars, vars
<1>9. CASE DispatchMatch
  BY <1>9, <1>0 DEF DispatchMatch, fifoVars, vars
<1>10. CASE DispatchSkip
  BY <1>10, <1>0 DEF DispatchSkip, fifoVars, vars
<1>11. CASE DispatchEnd
  BY <1>11, <1>0 DEF DispatchEnd, fifoVars, vars
<1>12. CASE Return
  BY <1>12, <1>0 DEF Return, fifoVars, vars
<1>13. CASE UNCHANGED vars
  BY <1>13, <1>0 DEF fifoVars, vars
<1> QED
  BY <1>1, <1>2, <1>3, <1>4, <1>5, <1>6, <1>7, <1>8, <1>9, <1>10, <1>11, <1>12, <1>13 DEF Next, Thread

LEMMA AscendingAppend ==
  ASSUME NEW q \in Seq(Frame), NEW b, NEW a \in Nat, Ascending(q, b, a),
         NEW m \in Frame, m.bus = b, m.n = a
  PROVE  Ascending(Append(q, m), b, a + 1)
<1> DEFINE n == Len(q)  q2 == Append(q, m)
<1>1. n \in Nat /\ Len(q2) = n + 1 /\ q2[n + 1] = m /\ \A k \in 1 .. n : q2[k] = q[k] /\ q[k] \in Frame
  OBVIOUS
<1>2. \A f \in Frame : f.n \in Nat
  BY ConstantFacts DEF Frame
<1>3. ASSUME NEW k \in 1 .. n + 1 PROVE q2[k].bus = b /\ q2[k].n < a + 1
  BY <1>1, <1>2 DEF Ascending
<1>4. ASSUME NEW k \in 1 .. n + 1, NEW l \in 1 .. n + 1, k < l PROVE q2[k].n < q2[l].n
  <2>1. k \in 1 .. n
    BY <1>1, <1>4
  <2>2. CASE l = n + 1
    BY <1>1, <2>1, <2>2 DEF Ascending
  <2>3. CASE l \in 1 .. n
    BY <1>1, <2>1, <2>3, <1>4 DEF Ascending
  <2> QED
    BY <1>1, <2>2, <2>3
<1> QED
  BY <1>1, <1>3, <1>4 DEF Ascending

LEMMA AscendingTail ==
  ASSUME NEW q \in Seq(Frame), NEW b, NEW a, Ascending(q, b, a), q # <<>>
  PROVE  /\ Ascending(Tail(q), b, a) /\ Precedes(q[1], Tail(q))
         /\ q[1].bus = b /\ q[1].n < a
<1> DEFINE n == Len(q)  q2 == Tail(q)
<1>1. n \in Nat /\ n > 0 /\ Len(q2) = n - 1 /\ \A k \in 1 .. n - 1 : q2[k] = q[k + 1]
  BY HeadTailProperties
<1>2. \A k \in 1 .. n - 1 : k + 1 \in 1 .. n
  BY <1>1
<1>3. 1 \in 1 .. n
  BY <1>1
<1>4. ASSUME NEW k \in 1 .. n - 1, NEW l \in 1 .. n - 1, k < l PROVE q2[k].n < q2[l].n
  <2>1. k + 1 < l + 1
    BY <1>4, <1>1
  <2> QED
    BY <2>1, <1>1, <1>2 DEF Ascending
<1>5. ASSUME NEW l \in 1 .. n - 1 PROVE q[1].n < q2[l].n
  <2>1. 1 < l + 1
    BY <1>1
  <2> QED
    BY <2>1, <1>1, <1>2, <1>3 DEF Ascending
<1>6. \A k \in 1 .. n - 1 : q2[k].bus = b /\ q2[k].n < a
  BY <1>1, <1>2 DEF Ascending
<1> QED
  BY <1>1, <1>3, <1>4, <1>5, <1>6 DEF Ascending, Precedes

LEMMA QueueStep ==
  ASSUME InterfaceInv, [Next]_vars
  PROVE  QueueInv'
<1>0. ASSUME UNCHANGED queue, arrived' \in {arrived, arrived + 1} PROVE QueueInv'
  <2>1. ASSUME NEW b \in Bus PROVE Ascending(queue[b], b, arrived')
    <3>1. queue[b] \in Seq(Frame) /\ \A k \in 1 .. Len(queue[b]) : queue[b][k] \in Frame
      BY DEF InterfaceInv, TypeOK
    <3>2. \A f \in Frame : f.n \in Nat
      BY ConstantFacts DEF Frame
    <3>3. arrived \in Nat /\ Ascending(queue[b], b, arrived)
      BY DEF InterfaceInv, TypeOK, QueueInv
    <3> QED
      BY <1>0, <3>1, <3>2, <3>3 DEF Ascending
  <2> QED
    BY <1>0, <2>1 DEF QueueInv
<1>1. CASE \E b \in Bus, id \in Ids : RxStored(b, id)
  <2>1. PICK b \in Bus, id \in Ids : RxStored(b, id)
    BY <1>1
  <2>2. PICK m \in Frame :
            /\ m.bus = b /\ m.n = arrived /\ arrived \in Nat /\ arrived' = arrived + 1
            /\ queue[b] \in Seq(Frame) /\ queue' = [queue EXCEPT ![b] = Append(queue[b], m)]
    BY <2>1, StoredFacts
  <2>3. Ascending(Append(queue[b], m), b, arrived + 1)
    BY <2>2, AscendingAppend DEF InterfaceInv, QueueInv
  <2>4. ASSUME NEW d \in Bus, d # b PROVE Ascending(queue[d], d, arrived + 1)
    <3>1. queue[d] \in Seq(Frame) /\ \A k \in 1 .. Len(queue[d]) : queue[d][k] \in Frame
      BY DEF InterfaceInv, TypeOK
    <3>2. \A f \in Frame : f.n \in Nat
      BY ConstantFacts DEF Frame
    <3>3. arrived \in Nat /\ Ascending(queue[d], d, arrived)
      BY DEF InterfaceInv, TypeOK, QueueInv
    <3> QED
      BY <3>1, <3>2, <3>3 DEF Ascending
  <2>5. queue'[b] = Append(queue[b], m) /\ \A d \in Bus : d # b => queue'[d] = queue[d]
    BY <2>2 DEF InterfaceInv, TypeOK
  <2> QED
    BY <2>2, <2>3, <2>4, <2>5 DEF QueueInv
<1>2. CASE \E b \in Bus : RxLost(b)
  BY <1>2, <1>0 DEF RxLost
<1>3. CASE \E c \in Callbacks : AddCallBackForId(c)
  BY <1>3, <1>0 DEF AddCallBackForId, vars
<1>4. CASE \E c \in Clients : DelCallBackForId(c)
  BY <1>4, <1>0 DEF DelCallBackForId, vars
<1>5. CASE ClearOvf
  BY <1>5, <1>0 DEF ClearOvf, vars
<1>6. CASE GetMsg
  <2>1. /\ bus \in Bus /\ queue[bus] \in Seq(Frame) /\ queue[bus] # <<>>
        /\ queue' = [queue EXCEPT ![bus] = Tail(queue[bus])]
    BY <1>6, TakenFacts
  <2>2. Ascending(Tail(queue[bus]), bus, arrived)
    BY <2>1, AscendingTail DEF InterfaceInv, QueueInv
  <2>3. queue'[bus] = Tail(queue[bus]) /\ \A d \in Bus : d # bus => queue'[d] = queue[d]
    BY <2>1 DEF InterfaceInv, TypeOK
  <2>4. arrived' = arrived
    BY <1>6 DEF GetMsg
  <2> QED
    BY <2>2, <2>3, <2>4 DEF InterfaceInv, QueueInv
<1>7. CASE GetNone
  BY <1>7, <1>0 DEF GetNone, vars
<1>8. CASE DispatchPromiscuous
  BY <1>8, <1>0 DEF DispatchPromiscuous, vars
<1>9. CASE DispatchMatch
  BY <1>9, <1>0 DEF DispatchMatch, vars
<1>10. CASE DispatchSkip
  BY <1>10, <1>0 DEF DispatchSkip, vars
<1>11. CASE DispatchEnd
  BY <1>11, <1>0 DEF DispatchEnd, vars
<1>12. CASE Return
  BY <1>12, <1>0 DEF Return, vars
<1>13. CASE UNCHANGED vars
  BY <1>13, <1>0 DEF vars
<1> QED
  BY <1>1, <1>2, <1>3, <1>4, <1>5, <1>6, <1>7, <1>8, <1>9, <1>10, <1>11, <1>12, <1>13 DEF Next, Thread

(* A frame that is old stays old. *)
LEMMA OldStays ==
  ASSUME InterfaceInv, [Next]_vars, NEW m \in Frame, OldFrame(m, arrived, queue)
  PROVE  OldFrame(m, arrived', queue')
<1>a. m.bus \in Bus /\ m.n \in Nat /\ arrived \in Nat /\ queue[m.bus] \in Seq(Frame)
  <2>1. m.bus \in Bus /\ m.n \in Nat
    BY ConstantFacts DEF Frame
  <2> QED
    BY <2>1 DEF InterfaceInv, TypeOK
<1>b. m.n < arrived /\ Precedes(m, queue[m.bus])
  BY DEF OldFrame
<1>0. ASSUME UNCHANGED queue, arrived' \in {arrived, arrived + 1} PROVE OldFrame(m, arrived', queue')
  BY <1>0, <1>a, <1>b DEF OldFrame
<1>1. CASE \E b \in Bus, id \in Ids : RxStored(b, id)
  <2>1. PICK b \in Bus, id \in Ids : RxStored(b, id)
    BY <1>1
  <2>2. PICK f \in Frame :
            /\ f.bus = b /\ f.n = arrived /\ arrived \in Nat /\ arrived' = arrived + 1
            /\ queue[b] \in Seq(Frame) /\ queue' = [queue EXCEPT ![b] = Append(queue[b], f)]
    BY <2>1, StoredFacts
  <2>3. queue'[b] = Append(queue[b], f) /\ \A d \in Bus : d # b => queue'[d] = queue[d]
    BY <2>2 DEF InterfaceInv, TypeOK
  <2>4. CASE m.bus = b
    <3> DEFINE q == queue[b]  q2 == Append(q, f)
    <3>1. Len(q) \in Nat /\ Len(q2) = Len(q) + 1 /\ q2[Len(q) + 1] = f /\ \A k \in 1 .. Len(q) : q2[k] = q[k]
      BY <2>2
    <3>2. \A k \in 1 .. Len(q) : m.n < q[k].n
      BY <1>b, <2>4 DEF Precedes
    <3> HIDE DEF q, q2
    <3>3. \A k \in 1 .. Len(q) + 1 : m.n < q2[k].n
      BY <1>b, <2>2, <3>1, <3>2
    <3>4. Precedes(m, q2)
      BY <3>1, <3>3 DEF Precedes
    <3> QED
      BY <1>a, <1>b, <2>2, <2>3, <2>4, <3>4 DEF OldFrame, q2, q
  <2>5. CASE m.bus # b
    BY <1>a, <1>b, <2>2, <2>3, <2>5 DEF OldFrame
  <2> QED
    BY <2>4, <2>5
<1>2. CASE \E b \in Bus : RxLost(b)
  BY <1>2, <1>0 DEF RxLost
<1>3. CASE \E c \in Callbacks : AddCallBackForId(c)
  BY <1>3, <1>0 DEF AddCallBackForId, vars
<1>4. CASE \E c \in Clients : DelCallBackForId(c)
  BY <1>4, <1>0 DEF DelCallBackForId, vars
<1>5. CASE ClearOvf
  BY <1>5, <1>0 DEF ClearOvf, vars
<1>6. CASE GetMsg
  <2>1. /\ bus \in Bus /\ queue[bus] \in Seq(Frame) /\ queue[bus] # <<>>
        /\ queue' = [queue EXCEPT ![bus] = Tail(queue[bus])]
    BY <1>6, TakenFacts
  <2>2. queue'[bus] = Tail(queue[bus]) /\ \A d \in Bus : d # bus => queue'[d] = queue[d]
    BY <2>1 DEF InterfaceInv, TypeOK
  <2>3. arrived' = arrived
    BY <1>6 DEF GetMsg
  <2>4. CASE m.bus = bus
    <3> DEFINE q == queue[bus]  q2 == Tail(q)
    <3>1. Len(q) \in Nat /\ Len(q2) = Len(q) - 1 /\ \A k \in 1 .. Len(q) - 1 : q2[k] = q[k + 1]
      BY <2>1, HeadTailProperties
    <3>2. \A k \in 1 .. Len(q) : m.n < q[k].n
      BY <1>b, <2>4 DEF Precedes
    <3> HIDE DEF q, q2
    <3>3. \A k \in 1 .. Len(q) - 1 : m.n < q2[k].n
      BY <3>1, <3>2
    <3>4. Precedes(m, q2)
      BY <3>1, <3>3 DEF Precedes
    <3> QED
      BY <1>a, <1>b, <2>2, <2>3, <2>4, <3>4 DEF OldFrame, q2, q
  <2>5. CASE m.bus # bus
    BY <1>a, <1>b, <2>2, <2>3, <2>5 DEF OldFrame
  <2> QED
    BY <2>4, <2>5
<1>7. CASE GetNone
  BY <1>7, <1>0 DEF GetNone, vars
<1>8. CASE DispatchPromiscuous
  BY <1>8, <1>0 DEF DispatchPromiscuous, vars
<1>9. CASE DispatchMatch
  BY <1>9, <1>0 DEF DispatchMatch, vars
<1>10. CASE DispatchSkip
  BY <1>10, <1>0 DEF DispatchSkip, vars
<1>11. CASE DispatchEnd
  BY <1>11, <1>0 DEF DispatchEnd, vars
<1>12. CASE Return
  BY <1>12, <1>0 DEF Return, vars
<1>13. CASE UNCHANGED vars
  BY <1>13, <1>0 DEF vars
<1> QED
  BY <1>1, <1>2, <1>3, <1>4, <1>5, <1>6, <1>7, <1>8, <1>9, <1>10, <1>11, <1>12, <1>13 DEF Next, Thread

LEMMA SeenStep ==
  ASSUME InterfaceInv, [Next]_vars
  PROVE  SeenInv'
<1>a. \A c \in Callbacks : seen[c] \in Seq(Frame) /\ \A k \in 1 .. Len(seen[c]) : seen[c][k] \in Frame
  BY DEF InterfaceInv, TypeOK
<1>b. \A c \in Callbacks : \A k \in 1 .. Len(seen[c]) : OldFrame(seen[c][k], arrived', queue')
  BY <1>a, OldStays DEF InterfaceInv, SeenInv
<1>0. ASSUME UNCHANGED seen PROVE SeenInv'
  BY <1>0, <1>b DEF SeenInv
<1>c. ASSUME pc = "dispatch", NEW cb, Deliver(cb) PROVE SeenInv'
  <2>1. OldFrame(msg, arrived', queue')
    BY <1>c, DeliveredFacts, OldStays
  <2>2. ASSUME NEW c \in Callbacks, NEW k \in 1 .. Len(seen'[c])
        PROVE  OldFrame(seen'[c][k], arrived', queue')
    <3>1. CASE c # cb
      BY <1>c, <3>1, <1>b, DeliveredFacts
    <3>2. CASE c = cb
      <4>1. seen'[c] = Append(seen[c], msg)
        BY <1>c, <3>2, DeliveredFacts
      <4>2. seen'[c][k] = msg \/ (k \in 1 .. Len(seen[c]) /\ seen'[c][k] = seen[c][k])
        BY <4>1, <1>a
      <4> QED
        BY <4>2, <2>1, <1>b
    <3> QED
      BY <3>1, <3>2
  <2> QED
    BY <2>2 DEF SeenInv
<1>1. CASE \E b \in Bus, id \in Ids : RxStored(b, id)
  BY <1>1, <1>0 DEF RxStored, vars
<1>2. CASE \E b \in Bus : RxLost(b)
  BY <1>2, <1>0 DEF RxLost, vars
<1>3. CASE \E c \in Callbacks : AddCallBackForId(c)
  BY <1>3, <1>0 DEF AddCallBackForId, vars
<1>4. CASE \E c \in Clients : DelCallBackForId(c)
  BY <1>4, <1>0 DEF DelCallBackForId, vars
<1>5. CASE ClearOvf
  BY <1>5, <1>0 DEF ClearOvf, vars
<1>6. CASE GetMsg
  BY <1>6, <1>0 DEF GetMsg, vars
<1>7. CASE GetNone
  BY <1>7, <1>0 DEF GetNone, vars
<1>8. CASE DispatchPromiscuous
  BY <1>8, <1>c DEF DispatchPromiscuous
<1>9. CASE DispatchMatch
  BY <1>9, <1>c DEF DispatchMatch
<1>10. CASE DispatchSkip
  BY <1>10, <1>0 DEF DispatchSkip, vars
<1>11. CASE DispatchEnd
  BY <1>11, <1>0 DEF DispatchEnd, vars
<1>12. CASE Return
  BY <1>12, <1>0 DEF Return, vars
<1>13. CASE UNCHANGED vars
  BY <1>13, <1>0 DEF vars
<1> QED
  BY <1>1, <1>2, <1>3, <1>4, <1>5, <1>6, <1>7, <1>8, <1>9, <1>10, <1>11, <1>12, <1>13 DEF Next, Thread

LEMMA MsgStep ==
  ASSUME InterfaceInv, [Next]_vars
  PROVE  MsgInv'
<1>0. ASSUME UNCHANGED <<msg, bus>>, Dispatching' => Dispatching PROVE MsgInv'
  <2>1. SUFFICES ASSUME Dispatching PROVE msg \in Frame /\ msg.bus = bus /\ OldFrame(msg, arrived', queue')
    BY <1>0 DEF MsgInv
  <2>2. msg \in Frame /\ msg.bus = bus /\ OldFrame(msg, arrived, queue)
    BY <2>1 DEF InterfaceInv, MsgInv
  <2> QED
    BY <2>2, OldStays
<1>1. CASE \E b \in Bus, id \in Ids : RxStored(b, id)
  BY <1>1, <1>0 DEF RxStored, Dispatching, threadVars, vars
<1>2. CASE \E b \in Bus : RxLost(b)
  BY <1>2, <1>0 DEF RxLost, Dispatching, threadVars, vars
<1>3. CASE \E c \in Callbacks : AddCallBackForId(c)
  BY <1>3, <1>0 DEF AddCallBackForId, Dispatching, threadVars, vars
<1>4. CASE \E c \in Clients : DelCallBackForId(c)
  BY <1>4, <1>0 DEF DelCallBackForId, Dispatching, threadVars, vars
<1>5. CASE ClearOvf
  BY <1>5, <1>0 DEF ClearOvf, Dispatching, threadVars, vars
<1>6. CASE GetMsg
  <2>1. /\ bus \in Bus /\ queue[bus] \in Seq(Frame) /\ queue[bus] # <<>>
        /\ queue' = [queue EXCEPT ![bus] = Tail(queue[bus])] /\ msg' = queue[bus][1] /\ msg' \in Frame
    BY <1>6, TakenFacts
  <2>2. queue'[bus] = Tail(queue[bus])
    BY <2>1 DEF InterfaceInv, TypeOK
  <2>3. arrived' = arrived /\ bus' = bus
    BY <1>6 DEF GetMsg
  <2>4. Ascending(queue[bus], bus, arrived)
    BY <2>1 DEF InterfaceInv, QueueInv
  <2>5. /\ Precedes(queue[bus][1], Tail(queue[bus]))
        /\ queue[bus][1].bus = bus /\ queue[bus][1].n < arrived
    BY <2>1, <2>4, AscendingTail
  <2> QED
    BY <2>1, <2>2, <2>3, <2>5 DEF MsgInv, OldFrame
<1>7. CASE GetNone
  BY <1>7 DEF GetNone, NextBus, MsgInv, Dispatching
<1>8. CASE DispatchPromiscuous
  BY <1>8, <1>0 DEF DispatchPromiscuous, Dispatching, threadVars, vars
<1>9. CASE DispatchMatch
  BY <1>9, <1>0 DEF DispatchMatch, Dispatching, threadVars, vars
<1>10. CASE DispatchSkip
  BY <1>10, <1>0 DEF DispatchSkip, Dispatching, threadVars, vars
<1>11. CASE DispatchEnd
  BY <1>11, <1>0 DEF DispatchEnd, Dispatching, threadVars, vars
<1>12. CASE Return
  BY <1>12 DEF Return, NextBus, MsgInv, Dispatching
<1>13. CASE UNCHANGED vars
  BY <1>13, <1>0 DEF Dispatching, threadVars, vars
<1> QED
  BY <1>1, <1>2, <1>3, <1>4, <1>5, <1>6, <1>7, <1>8, <1>9, <1>10, <1>11, <1>12, <1>13 DEF Next, Thread

(* The row the dispatch is at. *)
LEMMA CurrentFacts ==
  ASSUME InterfaceInv, pc = "dispatch", i < nCurrentCbs
  PROVE  /\ i \in Nat /\ i \in Row /\ Current = idCbTable[i]
         /\ Current.id = CAN_ID_PROMISCUOUS_MODE => ~Matches(Current)
         /\ i < Len(front) => /\ Current.id = CAN_ID_PROMISCUOUS_MODE /\ i + 1 \in 1 .. Len(front)
                              /\ Current.cb = front[i + 1]
<1>1. i \in Nat /\ i \in Row /\ nCurrentCbs \in Nat /\ Len(front) \in Nat
  BY ConstantFacts DEF InterfaceInv, TypeOK, Row
<1>2. msg.id \in Ids
  BY DEF InterfaceInv, MsgInv, Dispatching, Frame
<1>3. Current.id = CAN_ID_PROMISCUOUS_MODE => ~Matches(Current)
  BY <1>2, ConstantFacts DEF Matches
<1>4. ASSUME i < Len(front)
      PROVE  /\ Current.id = CAN_ID_PROMISCUOUS_MODE /\ i + 1 \in 1 .. Len(front)
             /\ Current.cb = front[i + 1]
  <2>1. i + 1 \in 1 .. Len(front) /\ (i + 1) - 1 = i
    BY <1>1, <1>4
  <2>2. Current = EntryOf(front[i + 1]) /\ front[i + 1] \in Recorders
    BY <2>1 DEF InterfaceInv, TypeOK, TableInv, Current
  <2> QED
    BY <2>1, <2>2 DEF EntryOf, Entry
<1> QED
  BY <1>1, <1>3, <1>4 DEF Current

(* Who gets the frame as a recorder, or in a table of at most eight rows, has  *)
(* not had it.                                                                 *)
LEMMA GetterIsFresh ==
  ASSUME InterfaceInv, pc = "dispatch", i < nCurrentCbs, Current.cb \in Callbacks
  PROVE  Fresh(Current.cb) \/ (Current.cb \in Clients /\ CAN_SIMULTANEOUS_CBS > 8)
<1>1. CASE Current.cb \in Recorders
  <2>1. i \in Row /\ idCbTable[i].cb = Current.cb /\ i >= i
    BY CurrentFacts
  <2> QED
    BY <1>1, <2>1 DEF Fresh
<1>2. CASE Current.cb \in Clients
  BY <1>2, ConstantFacts DEF Fresh
<1> QED
  BY <1>1, <1>2 DEF Callbacks

LEMMA FreshStep ==
  ASSUME InterfaceInv, [Next]_vars
  PROVE  FreshInv'
<1>0. ASSUME UNCHANGED <<seen, msg, bus, i, idCbTable, registered>>, pc' = "dispatch" => pc = "dispatch" PROVE FreshInv'
  BY <1>0 DEF InterfaceInv, FreshInv, Fresh, Older, NotNewer
<1>a. ASSUME UNCHANGED <<seen, msg, bus>>, pc' = "dispatch" => pc = "dispatch", \A c \in Callbacks : Fresh(c)' => Fresh(c)
      PROVE  FreshInv'
  BY <1>a DEF InterfaceInv, FreshInv, Older, NotNewer
<1>1. CASE \E b \in Bus, id \in Ids : RxStored(b, id)
  BY <1>1, <1>0 DEF RxStored, threadVars, tableVars, vars
<1>2. CASE \E b \in Bus : RxLost(b)
  BY <1>2, <1>0 DEF RxLost, threadVars, tableVars, vars
<1>3. CASE \E c \in Callbacks : AddCallBackForId(c)
  <2>1. PICK c \in Callbacks : AddCallBackForId(c)
    BY <1>3
  <2>2. registered' = registered \cup {c} /\ UNCHANGED <<seen, msg, bus, pc, i>> /\ c \notin registered
    BY <2>1 DEF AddCallBackForId, threadVars
  <2>3. ASSUME NEW d \in Callbacks, Fresh(d)' PROVE Fresh(d)
    <3>1. CASE UNCHANGED <<idCbTable, nCurrentCbs, front>>
      BY <2>2, <2>3, <3>1 DEF Fresh
    <3>2. CASE Added(c)
      <4>1. CASE d = c
        BY <2>2, <2>3, <4>1 DEF Fresh
      <4>2. CASE d # c
        <5>1. \A k \in Row : idCbTable'[k].cb = d => idCbTable[k].cb = d
          BY <3>2, <4>2 DEF Added, InterfaceInv, TableInv
        <5> QED
          BY <2>2, <2>3, <5>1 DEF Fresh
      <4> QED
        BY <4>1, <4>2
    <3> QED
      BY <2>1, <3>1, <3>2, AddedFacts
  <2> QED
    BY <2>2, <2>3, <1>a
<1>4. CASE \E c \in Clients : DelCallBackForId(c)
  <2>1. PICK c \in Clients : DelCallBackForId(c)
    BY <1>4
  <2>2. registered' = registered \ {c} /\ UNCHANGED <<seen, msg, bus, pc, i>> /\ c \notin Recorders
    BY <2>1, ConstantFacts DEF DelCallBackForId, threadVars
  <2>3. ASSUME NEW d \in Callbacks, Fresh(d)' PROVE Fresh(d)
    <3>1. CASE EntriesOf(c) = {}
      <4>1. idCbTable' = idCbTable
        BY <2>1, <3>1 DEF DelCallBackForId
      <4> QED
        BY <2>2, <2>3, <4>1 DEF Fresh
    <3>2. CASE EntriesOf(c) # {}
      <4>1. PICK k \in Row : Deleted(c, k)
        BY <2>1, <3>2, DeletedFacts
      <4>2. d # "mixed"
        BY ConstantFacts DEF Callbacks
      <4>3. \A l \in Row : idCbTable'[l].cb = d => idCbTable[l].cb = d
        BY <4>1, <4>2 DEF Deleted
      <4> QED
        BY <2>2, <2>3, <4>3 DEF Fresh
    <3> QED
      BY <3>1, <3>2
  <2> QED
    BY <2>2, <2>3, <1>a
<1>5. CASE ClearOvf
  BY <1>5, <1>0 DEF ClearOvf, threadVars, tableVars, vars
<1>6. CASE GetMsg
  <2>1. /\ bus \in Bus /\ queue[bus] \in Seq(Frame) /\ queue[bus] # <<>> /\ msg' = queue[bus][1] /\ msg' \in Frame
    BY <1>6, TakenFacts
  <2>2. seen' = seen /\ bus' = bus
    BY <1>6 DEF GetMsg
  <2>3. 1 \in 1 .. Len(queue[bus])
    BY <2>1
  <2>4. ASSUME NEW c \in Callbacks, NEW k \in 1 .. Len(seen[c]), seen[c][k].bus = bus
        PROVE  seen[c][k].n < queue[bus][1].n /\ seen[c][k].n \in Nat /\ queue[bus][1].n \in Nat
    <3>1. seen[c][k] \in Frame /\ queue[bus][1] \in Frame
      BY <2>1 DEF InterfaceInv, TypeOK
    <3>2. \A f \in Frame : f.n \in Nat
      BY ConstantFacts DEF Frame
    <3> QED
      BY <2>3, <2>4, <3>1, <3>2 DEF InterfaceInv, SeenInv, OldFrame, Precedes
  <2> QED
    BY <2>1, <2>2, <2>4 DEF FreshInv, Older, NotNewer
<1>7. CASE GetNone
  BY <1>7 DEF GetNone, NextBus, FreshInv
<1>8. CASE DispatchPromiscuous
  <2>1. /\ pc = "dispatch" /\ i < nCurrentCbs /\ Deliver(Current.cb) /\ i' = i + 1
        /\ Current.id = CAN_ID_PROMISCUOUS_MODE /\ UNCHANGED <<msg, bus, pc, idCbTable, registered>>
    BY <1>8 DEF DispatchPromiscuous, tableVars
  <2>2. i \in Nat /\ i \in Row /\ Current = idCbTable[i]
    BY <2>1, CurrentFacts
  <2>3. ASSUME NEW c \in Callbacks, Fresh(c)' PROVE Fresh(c) /\ c # Current.cb
    <3>1. Fresh(c)
      <4>1. \A k \in Row : k >= i + 1 => k >= i
        BY <2>2, ConstantFacts DEF Row
      <4> QED
        BY <2>1, <2>3, <4>1 DEF Fresh
    <3>2. CASE c \in Clients
      <4>1. c \notin Recorders /\ CAN_SIMULTANEOUS_CBS <= 8
        BY <2>3, <3>2, ConstantFacts DEF Fresh
      <4>2. IsRecorder(Current)
        BY <2>1, <2>2, <4>1 DEF InterfaceInv, OwnerInv
      <4> QED
        BY <3>1, <4>1, <4>2 DEF IsRecorder
    <3>3. CASE c \in Recorders
      <4>1. SUFFICES ASSUME c = Current.cb PROVE FALSE
        BY <3>1
      <4>2. IsRecorder(idCbTable[i]) /\ c \in registered
        BY <2>2, <3>3, <4>1 DEF IsRecorder, InterfaceInv, OwnerInv
      <4>3. PICK k \in Row : idCbTable[k].cb = c /\ k >= i + 1
        BY <2>1, <2>3, <3>3, <4>2, ConstantFacts DEF Fresh
      <4>4. k = i
        BY <2>2, <4>1, <4>2, <4>3 DEF InterfaceInv, OwnerInv
      <4> QED
        BY <2>2, <4>3, <4>4
    <3> QED
      BY <3>2, <3>3 DEF Callbacks
  <2>4. \A c \in Callbacks : c # Current.cb => seen'[c] = seen[c]
    BY <2>1, DeliveredFacts
  <2>5. ASSUME NEW c \in Callbacks PROVE NotNewer(seen[c])
    BY <2>1 DEF InterfaceInv, FreshInv
  <2>6. ASSUME NEW c \in Callbacks, c = Current.cb, NEW k \in 1 .. Len(seen'[c]), seen'[c][k].bus = bus
        PROVE  seen'[c][k].n <= msg.n
    <3>1. seen'[c] = Append(seen[c], msg) /\ seen[c] \in Seq(Frame) /\ msg \in Frame
      BY <2>1, <2>6, DeliveredFacts
    <3>2. msg.n \in Nat
      BY <3>1, ConstantFacts DEF Frame
    <3>3. seen'[c][k] = msg \/ (k \in 1 .. Len(seen[c]) /\ seen'[c][k] = seen[c][k])
      BY <3>1
    <3> QED
      BY <2>5, <2>6, <3>2, <3>3 DEF NotNewer
  <2>7. ASSUME NEW c \in Callbacks PROVE NotNewer(seen[c])'
    BY <2>1, <2>4, <2>5, <2>6 DEF NotNewer
  <2>8. ASSUME NEW c \in Callbacks, Fresh(c)' PROVE Older(seen[c])'
    BY <2>1, <2>3, <2>4, <2>8 DEF InterfaceInv, FreshInv, Older
  <2> QED
    BY <2>7, <2>8 DEF FreshInv
<1>9. CASE DispatchMatch
  BY <1>9 DEF DispatchMatch, FreshInv
<1>10. CASE DispatchSkip
  <2>1. i' = i + 1 /\ i \in Nat /\ UNCHANGED <<seen, msg, bus, pc, idCbTable, registered>>
    BY <1>10 DEF DispatchSkip, InterfaceInv, TypeOK, tableVars
  <2>2. \A k \in Row : k >= i + 1 => k >= i
    BY <2>1, ConstantFacts DEF Row
  <2>3. ASSUME NEW c \in Callbacks, Fresh(c)' PROVE Fresh(c)
    BY <2>1, <2>2, <2>3 DEF Fresh
  <2> QED
    BY <2>1, <2>3, <1>a
<1>11. CASE DispatchEnd
  BY <1>11, <1>0 DEF DispatchEnd, threadVars, tableVars, vars
<1>12. CASE Return
  BY <1>12 DEF Return, NextBus, FreshInv
<1>13. CASE UNCHANGED vars
  BY <1>13, <1>0 DEF threadVars, tableVars, vars
<1> QED
  BY <1>1, <1>2, <1>3, <1>4, <1>5, <1>6, <1>7, <1>8, <1>9, <1>10, <1>11, <1>12, <1>13 DEF Next, Thread

LEMMA OrderStep ==
  ASSUME InterfaceInv, [Next]_vars
  PROVE  InOrderOnce'
<1>0. ASSUME UNCHANGED seen PROVE InOrderOnce'
  BY <1>0 DEF InterfaceInv, InOrderOnce
<1>c. ASSUME pc = "dispatch", i < nCurrentCbs, Deliver(Current.cb)
      PROVE  InOrderOnce'
  <2> DEFINE cb == Current.cb
             Twice(c) == CAN_SIMULTANEOUS_CBS > 8 /\ c \in Clients
  <2>1. ASSUME NEW c \in Callbacks, NEW k \in DOMAIN seen'[c], NEW l \in DOMAIN seen'[c],
               k < l, seen'[c][k].bus = seen'[c][l].bus
        PROVE  seen'[c][k].n < seen'[c][l].n \/ (seen'[c][k].n = seen'[c][l].n /\ Twice(c))
    <3>1. CASE c # cb
      <4>1. seen'[c] = seen[c]
        BY <1>c, <3>1, DeliveredFacts
      <4> QED
        BY <2>1, <4>1 DEF InterfaceInv, InOrderOnce
    <3>2. CASE c = cb
      <4>1. seen'[c] = Append(seen[c], msg) /\ msg.bus = bus /\ seen[c] \in Seq(Frame) /\ msg \in Frame
        BY <1>c, <3>2, DeliveredFacts
      <4>2. NotNewer(seen[c]) /\ (Older(seen[c]) \/ Twice(c))
        BY <1>c, <2>1, <3>2, GetterIsFresh DEF InterfaceInv, FreshInv
      <4>3. k \in 1 .. Len(seen[c]) /\ seen'[c][k] = seen[c][k] /\ DOMAIN seen[c] = 1 .. Len(seen[c])
        BY <2>1, <4>1
      <4>4. CASE l = Len(seen[c]) + 1
        <5>1. seen'[c][l] = msg /\ seen[c][k].bus = bus
          BY <2>1, <4>1, <4>3, <4>4
        <5>2. seen[c][k] \in Frame /\ \A f \in Frame : f.n \in Nat
          <6>1. seen[c][k] \in Frame
            BY <4>1, <4>3
          <6>2. \A f \in Frame : f.n \in Nat
            BY ConstantFacts DEF Frame
          <6> QED
            BY <6>1, <6>2
        <5>3. seen[c][k].n \in Nat /\ msg.n \in Nat
          BY <4>1, <5>2
        <5>4. seen[c][k].n <= msg.n /\ (seen[c][k].n < msg.n \/ Twice(c))
          BY <4>2, <4>3, <5>1 DEF NotNewer, Older
        <5> HIDE DEF Twice
        <5> QED
          BY <4>3, <5>1, <5>3, <5>4
      <4>5. CASE l \in 1 .. Len(seen[c])
        <5>1. seen'[c][l] = seen[c][l]
          BY <4>1, <4>5
        <5> QED
          BY <2>1, <4>3, <4>5, <5>1 DEF InterfaceInv, InOrderOnce
      <4>6. l \in 1 .. Len(seen[c]) + 1
        BY <2>1, <4>1
      <4> QED
        BY <4>1, <4>4, <4>5, <4>6
    <3> QED
      BY <3>1, <3>2
  <2> QED
    BY <2>1 DEF InOrderOnce
<1>1. CASE \E b \in Bus, id \in Ids : RxStored(b, id)
  BY <1>1, <1>0 DEF RxStored, vars
<1>2. CASE \E b \in Bus : RxLost(b)
  BY <1>2, <1>0 DEF RxLost, vars
<1>3. CASE \E c \in Callbacks : AddCallBackForId(c)
  BY <1>3, <1>0 DEF AddCallBackForId, vars
<1>4. CASE \E c \in Clients : DelCallBackForId(c)
  BY <1>4, <1>0 DEF DelCallBackForId, vars
<1>5. CASE ClearOvf
  BY <1>5, <1>0 DEF ClearOvf, vars
<1>6. CASE GetMsg
  BY <1>6, <1>0 DEF GetMsg, vars
<1>7. CASE GetNone
  BY <1>7, <1>0 DEF GetNone, vars
<1>8. CASE DispatchPromiscuous
  BY <1>8, <1>c DEF DispatchPromiscuous
<1>9. CASE DispatchMatch
  BY <1>9, <1>c DEF DispatchMatch
<1>10. CASE DispatchSkip
  BY <1>10, <1>0 DEF DispatchSkip, vars
<1>11. CASE DispatchEnd
  BY <1>11, <1>0 DEF DispatchEnd, vars
<1>12. CASE Return
  BY <1>12, <1>0 DEF Return, vars
<1>13. CASE UNCHANGED vars
  BY <1>13, <1>0 DEF vars
<1> QED
  BY <1>1, <1>2, <1>3, <1>4, <1>5, <1>6, <1>7, <1>8, <1>9, <1>10, <1>11, <1>12, <1>13 DEF Next, Thread

LEMMA StillReceived ==
  ASSUME InterfaceInv, pc = "dispatch", NEW cb, Deliver(cb), UNCHANGED msg, NEW c \in Callbacks,
         Received(c) \/ c = cb
  PROVE  Received(c)'
<1>1. seen[c] \in Seq(Frame)
  BY DEF InterfaceInv, TypeOK
<1>2. CASE c # cb
  <2>1. seen'[c] = seen[c]
    BY <1>2, DeliveredFacts
  <2> QED
    BY <1>2, <2>1 DEF Received
<1>3. CASE c = cb
  <2>1. seen'[c] = Append(seen[c], msg)
    BY <1>3, DeliveredFacts
  <2>2. Len(seen[c]) + 1 \in DOMAIN seen'[c] /\ seen'[c][Len(seen[c]) + 1] = msg
    BY <2>1, <1>1
  <2> QED
    BY <2>2 DEF Received
<1> QED
  BY <1>2, <1>3

LEMMA ReachStep ==
  ASSUME InterfaceInv, [Next]_vars
  PROVE  ReachInv'
<1>0. ASSUME UNCHANGED <<seen, msg, bus, i, pc, idCbTable, front, early, due>> PROVE ReachInv'
  BY <1>0 DEF InterfaceInv, ReachInv, Served, Received, Wants, Matches, DispatchReaches, FrontRecordersHear
<1>a. /\ i \in Nat /\ nCurrentCbs \in Nat /\ due \subseteq 0 .. nCurrentCbs - 1 /\ front \in Seq(Recorders)
      /\ early \in 0 .. Len(front) /\ Len(front) \in Nat /\ Len(front) <= nCurrentCbs
  BY ConstantFacts DEF InterfaceInv, TypeOK, TableInv
<1>b. \A k \in 1 .. early : k \in Nat /\ k \in 1 .. Len(front) /\ front[k] \in Callbacks
  BY <1>a DEF Callbacks
<1>c. ASSUME UNCHANGED <<seen, msg, bus, i, pc, early>>, \A k \in 1 .. early : front'[k] = front[k],
             due' \subseteq due, \A k \in due' : idCbTable'[k] = idCbTable[k]
      PROVE  ReachInv'
  <2>1. ASSUME NEW k \in due', Served(k) PROVE Served(k)'
    BY <1>c, <2>1 DEF Served, Wants, Matches, Received
  <2>2. ASSUME NEW k \in 1 .. early, Received(front[k]) PROVE Received(front[k])'
    BY <1>c, <2>2 DEF Received
  <2>3. pc' = "dispatch" => \A k \in due' : k < i' => Served(k)'
    BY <1>c, <2>1 DEF InterfaceInv, ReachInv
  <2>4. pc' = "dispatch" => \A k \in 1 .. early' : k <= i' => Received(front[k])'
    BY <1>c, <2>2 DEF InterfaceInv, ReachInv
  <2>5. DispatchReaches'
    BY <1>c, <2>1 DEF InterfaceInv, ReachInv, DispatchReaches, Served
  <2>6. FrontRecordersHear'
    BY <1>c, <2>2 DEF InterfaceInv, ReachInv, FrontRecordersHear
  <2> QED
    BY <2>3, <2>4, <2>5, <2>6 DEF ReachInv
<1>d. ASSUME pc' \notin {"dispatch", "done"} PROVE ReachInv'
  BY <1>d DEF ReachInv, DispatchReaches, FrontRecordersHear
<1>1. CASE \E b \in Bus, id \in Ids : RxStored(b, id)
  BY <1>1, <1>0 DEF RxStored, threadVars, tableVars, vars
<1>2. CASE \E b \in Bus : RxLost(b)
  BY <1>2, <1>0 DEF RxLost, threadVars, tableVars, vars
<1>3. CASE \E c \in Callbacks : AddCallBackForId(c)
  <2>1. PICK c \in Callbacks : AddCallBackForId(c)
    BY <1>3
  <2>2. UNCHANGED <<seen, msg, bus, i, pc, early, due>>
    BY <2>1 DEF AddCallBackForId, threadVars
  <2>3. \A k \in 1 .. early : front'[k] = front[k]
    <3>1. CASE front' = front
      BY <3>1
    <3>2. CASE front' = Append(front, c) /\ c \in Recorders
      BY <1>a, <1>b, <3>2
    <3> QED
      BY <2>1, <3>1, <3>2, AddedFacts DEF Added
  <2>4. \A k \in due' : idCbTable'[k] = idCbTable[k]
    <3>1. CASE idCbTable' = idCbTable
      BY <3>1
    <3>2. CASE Added(c)
      <4>1. \A k \in due : k \in Row /\ k # nCurrentCbs
        BY <1>a, ConstantFacts DEF Row, InterfaceInv, TypeOK
      <4> QED
        BY <2>2, <3>2, <4>1 DEF Added, InterfaceInv, TableInv
    <3> QED
      BY <2>1, <3>1, <3>2, AddedFacts
  <2> QED
    BY <2>2, <2>3, <2>4, <1>c
<1>4. CASE \E c \in Clients : DelCallBackForId(c)
  <2>1. PICK c \in Clients : DelCallBackForId(c)
    BY <1>4
  <2>2. UNCHANGED <<seen, msg, bus, i, pc, early, front>>
    BY <2>1 DEF DelCallBackForId, threadVars
  <2>3. due' \subseteq due /\ \A k \in due' : idCbTable'[k] = idCbTable[k]
    <3>1. CASE EntriesOf(c) = {}
      BY <2>1, <3>1 DEF DelCallBackForId
    <3>2. CASE EntriesOf(c) # {}
      <4>1. PICK k \in Row : Deleted(c, k)
        BY <2>1, <3>2, DeletedFacts
      <4>2. \A d \in due : d \in Row
        BY <1>a, ConstantFacts DEF Row, InterfaceInv, TypeOK
      <4> QED
        BY <4>1, <4>2 DEF Deleted
    <3> QED
      BY <3>1, <3>2
  <2> QED
    BY <2>2, <2>3, <1>c
<1>5. CASE ClearOvf
  BY <1>5, <1>d DEF ClearOvf
<1>6. CASE GetMsg
  <2>1. i' = 0 /\ pc' = "dispatch" /\ due' \subseteq 0 .. nCurrentCbs - 1 /\ early' = Len(front)
    BY <1>6 DEF GetMsg
  <2>2. \A k \in due' : ~(k < i')
    BY <1>a, <2>1
  <2>3. \A k \in 1 .. early' : ~(k <= i')
    BY <1>a, <2>1
  <2> QED
    BY <2>1, <2>2, <2>3 DEF ReachInv, DispatchReaches, FrontRecordersHear
<1>7. CASE GetNone
  BY <1>7, <1>d DEF GetNone, NextBus
<1>8. CASE DispatchPromiscuous
  <2>1. /\ pc = "dispatch" /\ i < nCurrentCbs /\ Deliver(Current.cb) /\ i' = i + 1
        /\ UNCHANGED <<msg, bus, pc, idCbTable, front, early, due>>
    BY <1>8 DEF DispatchPromiscuous, tableVars
  <2>2. Current = idCbTable[i] /\ (i < Len(front) => Current.cb = front[i + 1])
    BY <2>1, CurrentFacts
  <2>3. ASSUME NEW k \in due, k < i + 1 PROVE Served(k)'
    <3>1. SUFFICES ASSUME Wants(idCbTable[k]), idCbTable[k].cb \in Callbacks PROVE Received(idCbTable[k].cb)'
      BY <2>1 DEF Served, Wants, Matches, Received
    <3>2. k < i \/ k = i
      BY <1>a, <2>3
    <3>3. Received(idCbTable[k].cb) \/ idCbTable[k].cb = Current.cb
      BY <2>1, <2>2, <3>1, <3>2 DEF InterfaceInv, ReachInv, Served
    <3>4. \A c \in Callbacks : Received(c) \/ c = Current.cb => Received(c)'
      BY <2>1, StillReceived
    <3>5. ASSUME NEW c \in Callbacks, c = idCbTable[k].cb PROVE Received(c)'
      BY <3>3, <3>4, <3>5
    <3> QED
      BY <2>1, <3>1, <3>5 DEF Received
  <2>4. ASSUME NEW k \in 1 .. early, k <= i + 1 PROVE Received(front[k])'
    <3>1. k <= i \/ (k = i + 1 /\ i < Len(front))
      BY <1>a, <1>b, <2>4
    <3>2. Received(front[k]) \/ front[k] = Current.cb
      BY <2>1, <2>2, <3>1 DEF InterfaceInv, ReachInv
    <3>3. ASSUME NEW c \in Callbacks, c = front[k] PROVE Received(c)'
      BY <2>1, <3>2, <3>3, StillReceived
    <3> QED
      BY <1>b, <2>1, <3>3 DEF Received
  <2> QED
    BY <2>1, <2>3, <2>4 DEF ReachInv, DispatchReaches, FrontRecordersHear
<1>9. CASE DispatchMatch
  <2>1. /\ pc = "dispatch" /\ i < nCurrentCbs /\ Deliver(Current.cb) /\ Matches(Current) /\ pc' = "done"
        /\ due' = {d \in due : d <= i} /\ UNCHANGED <<msg, bus, i, idCbTable, front, early>>
    BY <1>9 DEF DispatchMatch, tableVars
  <2>2. Current = idCbTable[i] /\ ~(i < Len(front))
    BY <2>1, CurrentFacts
  <2>3. ASSUME NEW k \in due, k <= i PROVE Served(k)'
    <3>1. SUFFICES ASSUME Wants(idCbTable[k]), idCbTable[k].cb \in Callbacks PROVE Received(idCbTable[k].cb)'
      BY <2>1 DEF Served, Wants, Matches, Received
    <3>2. k < i \/ k = i
      BY <1>a, <2>3
    <3>3. Received(idCbTable[k].cb) \/ idCbTable[k].cb = Current.cb
      BY <2>1, <2>2, <3>1, <3>2 DEF InterfaceInv, ReachInv, Served
    <3>5. ASSUME NEW c \in Callbacks, c = idCbTable[k].cb PROVE Received(c)'
      BY <2>1, <3>3, <3>5, StillReceived
    <3> QED
      BY <2>1, <3>1, <3>5 DEF Received
  <2>4. ASSUME NEW k \in 1 .. early PROVE Received(front[k])'
    <3>1. k <= i
      BY <1>a, <1>b, <2>2
    <3>2. Received(front[k])
      BY <2>1, <3>1 DEF InterfaceInv, ReachInv
    <3>3. ASSUME NEW c \in Callbacks, c = front[k] PROVE Received(c)'
      BY <2>1, <3>2, <3>3, StillReceived
    <3> QED
      BY <1>b, <2>1, <3>3 DEF Received
  <2>5. DispatchReaches'
    BY <2>1, <2>3 DEF DispatchReaches, Served
  <2>6. FrontRecordersHear'
    BY <2>1, <2>4 DEF FrontRecordersHear
  <2> QED
    BY <2>1, <2>5, <2>6 DEF ReachInv
<1>10. CASE DispatchSkip
  <2>1. /\ pc = "dispatch" /\ i < nCurrentCbs /\ i' = i + 1
        /\ Current.id # CAN_ID_PROMISCUOUS_MODE /\ ~Matches(Current)
        /\ UNCHANGED <<msg, bus, pc, seen, idCbTable, front, early, due>>
    BY <1>10 DEF DispatchSkip, tableVars
  <2>2. Current = idCbTable[i] /\ ~(i < Len(front))
    BY <2>1, CurrentFacts
  <2>3. ASSUME NEW k \in due, k < i + 1 PROVE Served(k)'
    <3>1. k < i \/ k = i
      BY <1>a, <2>3
    <3>2. Served(k)
      BY <2>1, <2>2, <3>1 DEF InterfaceInv, ReachInv, Served, Wants
    <3> QED
      BY <2>1, <3>2 DEF Served, Wants, Matches, Received
  <2>4. ASSUME NEW k \in 1 .. early PROVE Received(front[k])'
    <3>1. k <= i
      BY <1>a, <1>b, <2>2
    <3>2. Received(front[k])
      BY <2>1, <3>1 DEF InterfaceInv, ReachInv
    <3> QED
      BY <2>1, <3>2 DEF Received
  <2> QED
    BY <2>1, <2>3, <2>4 DEF ReachInv, DispatchReaches, FrontRecordersHear
<1>11. CASE DispatchEnd
  <2>1. /\ pc = "dispatch" /\ i >= nCurrentCbs /\ pc' = "done"
        /\ UNCHANGED <<msg, bus, i, seen, idCbTable, front, early, due>>
    BY <1>11 DEF DispatchEnd, tableVars
  <2>2. \A k \in due : k < i
    BY <1>a, <2>1
  <2>3. \A k \in 1 .. early : k <= i
    BY <1>a, <1>b, <2>1
  <2>4. (\A k \in due : Served(k)) /\ \A k \in 1 .. early : Received(front[k])
    BY <2>1, <2>2, <2>3 DEF InterfaceInv, ReachInv
  <2>5. DispatchReaches'
    BY <2>1, <2>4 DEF DispatchReaches, Served, Wants, Matches, Received
  <2>6. FrontRecordersHear'
    BY <2>1, <2>4 DEF FrontRecordersHear, Received
  <2> QED
    BY <2>1, <2>5, <2>6 DEF ReachInv
<1>12. CASE Return
  BY <1>12, <1>d DEF Return, NextBus
<1>13. CASE UNCHANGED vars
  BY <1>13, <1>0 DEF threadVars, tableVars, vars
<1> QED
  BY <1>1, <1>2, <1>3, <1>4, <1>5, <1>6, <1>7, <1>8, <1>9, <1>10, <1>11, <1>12, <1>13 DEF Next, Thread

-----------------------------------------------------------------------------
(***************************************************************************)
(* The theorems.                                                           *)
(***************************************************************************)
LEMMA InterfaceStep == InterfaceInv /\ [Next]_vars => InterfaceInv'
BY TypeStep, TableStep, OwnerStep, FifoStep, QueueStep, SeenStep, MsgStep, FreshStep, ReachStep, OrderStep
   DEF InterfaceInv

(* The invariant holds of every behaviour of the interrupts, the interface     *)
(* thread, the recorders and the communicators.                                *)
THEOREM InterfaceInvariant == Spec => []InterfaceInv
<1> QED
  BY InitInterface, InterfaceStep, PTL DEF Spec

(* Every variable of CANInterface and CANFifoMessage keeps its type. *)
THEOREM TypeCorrect == Spec => []TypeOK
<1>1. InterfaceInv => TypeOK
  BY DEF InterfaceInv
<1> QED
  BY <1>1, InterfaceInvariant, PTL

(* CANFifoMessage: the ring of each bus holds exactly the frames stored and    *)
(* not yet taken, in order, for every size of the ring and over every wrap.    *)
THEOREM RingsExact == Spec => []FifoExact
<1>1. InterfaceInv => FifoExact
  BY RingIsExact DEF InterfaceInv, TypeOK, FifoInv, FifoExact
<1> QED
  BY <1>1, InterfaceInvariant, PTL

(* DispatchCANMessage: a callback gets the frames of a bus in the order of     *)
(* their arrival and none of them twice, whatever AddCallBackForId and         *)
(* DelCallBackForId do to the table meanwhile; only a communicator of a table  *)
(* of more than eight rows may get one twice.                                  *)
THEOREM DeliveredInOrder == Spec => []InOrderOnce
<1>1. InterfaceInv => InOrderOnce
  BY DEF InterfaceInv
<1> QED
  BY <1>1, InterfaceInvariant, PTL

(* DispatchCANMessage: what AddCallBackForId and DelCallBackForId do to the    *)
(* table under the unlocked loop makes it skip no row that stays, for every    *)
(* size of the table and any callbacks.                                        *)
THEOREM NoRowSkipped == Spec => []DispatchReaches
<1>1. InterfaceInv => DispatchReaches
  BY DEF InterfaceInv, ReachInv
<1> QED
  BY <1>1, InterfaceInvariant, PTL

(* DispatchCANMessage and DelCallBackForId: a recorder added while the table   *)
(* held nothing but recorders gets every frame from then on, even though the   *)
(* copy of DelCallBackForId damages the entries behind it.                     *)
THEOREM FrontRecordersGetAll == Spec => []FrontRecordersHear
<1>1. InterfaceInv => FrontRecordersHear
  BY DEF InterfaceInv, ReachInv
<1> QED
  BY <1>1, InterfaceInvariant, PTL
=============================================================================
