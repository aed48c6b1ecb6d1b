---------------------------- MODULE CANInterface ----------------------------
(***************************************************************************)
(* CANInterface and CANFifoMessage: received frames on their way from the  *)
(* two receive interrupts to the callbacks.                                *)
(*                                                                         *)
(* An interrupt stores the frame in its bus's ring, or drops it when the   *)
(* ring is full.  The interface thread takes one frame of each bus per     *)
(* turn (with the interrupt masked) and runs through idCbTable, without    *)
(* idCbTableMutex.  Communicators, each in the thread of its sensor, add   *)
(* their identifier before a command and delete it after; a recorder adds  *)
(* itself for all frames when NewDynSensors creates it, at any time and    *)
(* behind whatever the table holds then, and is never deleted.  Each call  *)
(* has the mutex and is one step.                                          *)
(*                                                                         *)
(* A frame is [bus, id, n], n counting arrivals.  History variables: seen, *)
(* what every callback received; queue, the frames stored and not taken;   *)
(* front, the recorders added while the table held nothing but recorders;  *)
(* early, how many of them the dispatch found; due, the rows it found that *)
(* were neither deleted nor changed since and are not behind a row that    *)
(* took the frame.                                                         *)
(***************************************************************************)
EXTENDS Integers, Sequences

CONSTANTS FIFO_SIZE,
          CAN_SIMULTANEOUS_CBS,
          Ids,          \* identifiers on the buses
          Clients,      \* the communicators
          BusOf, IdOf,  \* ... and what each listens to
          Recorders,    \* the promiscuous callbacks
          MaxFrames     \* bound: frames that arrive

Bus == {1, 2}
CAN_BUS_DONT_CARE == -1
CAN_ID_PROMISCUOUS_MODE == "promiscuous"

ASSUME InterfaceAssumption ==
  /\ FIFO_SIZE \in Nat /\ FIFO_SIZE > 1
  /\ CAN_SIMULTANEOUS_CBS \in Nat
  /\ Clients \cap Recorders = {} /\ {"none", "mixed"} \cap (Clients \cup Recorders) = {}
  /\ {CAN_ID_PROMISCUOUS_MODE, "none", "mixed"} \cap Ids = {}
  /\ BusOf \in [Clients -> Bus] /\ IdOf \in [Clients -> Ids]
  /\ MaxFrames \in Nat

VARIABLES buffer, head, tail,           \* per bus: CANFifoMessage
          rxOvf,
          idCbTable, nCurrentCbs,
          registered,                   \* callbacks added and not deleted
          pc, bus, msg, i,              \* the interface thread
          arrived,                      \* frames received so far
          queue, seen, front, early, due    \* history

fifoVars == <<buffer, head, tail>>
tableVars == <<idCbTable, nCurrentCbs, registered, front>>
threadVars == <<pc, bus, msg, i>>
vars == <<fifoVars, rxOvf, tableVars, threadVars, arrived, queue, seen, early, due>>

Callbacks == Clients \cup Recorders
Slot == 0 .. FIFO_SIZE - 1
Frame == [bus : Bus, id : Ids, n : 0 .. MaxFrames - 1]
NoFrame == [bus |-> 0, id |-> "none", n |-> -1]
Entry(b, id, cb) == [bus |-> b, id |-> id, cb |-> cb]
NoEntry == Entry(0, "none", "none")

(* What a callback passes to AddCallBackForId. *)
EntryOf(c) == IF c \in Recorders THEN Entry(CAN_BUS_DONT_CARE, CAN_ID_PROMISCUOUS_MODE, c)
                                 ELSE Entry(BusOf[c], IdOf[c], c)

Init ==
  /\ buffer = [b \in Bus |-> [k \in Slot |-> NoFrame]]
  /\ head = [b \in Bus |-> 0] /\ tail = [b \in Bus |-> 0]
  /\ rxOvf \in BOOLEAN                  \* never initialised
  /\ idCbTable = [k \in 0 .. CAN_SIMULTANEOUS_CBS - 1 |-> NoEntry]
  /\ nCurrentCbs = 0
  /\ registered = {} /\ front = <<>>
  /\ pc = "ovf" /\ bus = 1 /\ msg = NoFrame /\ i = 0
  /\ arrived = 0
  /\ queue = [b \in Bus |-> <<>>]
  /\ seen = [c \in Callbacks |-> <<>>]
  /\ early = 0 /\ due = {}

-----------------------------------------------------------------------------
(* CANFifoMessage: one slot always stays empty. *)
AfterNoWrap(k) == k + 1                                         \* mutant
After(k) == (k + 1) % FIFO_SIZE
available(b) == (FIFO_SIZE + head[b] - tail[b]) % FIFO_SIZE
FullOneLate(b) == available(b) = FIFO_SIZE                      \* mutant
Full(b) == After(head[b]) = tail[b]

(* The interrupt of bus b: the frame is stored. *)
RxStored(b, id) ==
  LET m == [bus |-> b, id |-> id, n |-> arrived]
  IN /\ arrived < MaxFrames
     /\ ~Full(b)
     /\ buffer' = [buffer EXCEPT ![b][head[b]] = m]
     /\ head' = [head EXCEPT ![b] = After(@)]
     /\ rxOvf' = FALSE
     /\ queue' = [queue EXCEPT ![b] = Append(@, m)]
     /\ arrived' = arrived + 1
     /\ UNCHANGED <<tail, tableVars, threadVars, seen, early, due>>

(* The interrupt of bus b: the ring is full, the frame is lost. *)
RxLost(b) ==
  /\ arrived < MaxFrames
  /\ Full(b)
  /\ rxOvf' = TRUE
  /\ arrived' = arrived + 1
  /\ UNCHANGED <<fifoVars, tableVars, threadVars, queue, seen, early, due>>

-----------------------------------------------------------------------------
(* AddCallBackForId, the table having room or not. *)
AddCallBackForId(c) ==
  /\ c \notin registered
  /\ registered' = registered \cup {c}
  /\ IF nCurrentCbs = CAN_SIMULTANEOUS_CBS
     THEN UNCHANGED <<idCbTable, nCurrentCbs, front>>
     ELSE /\ idCbTable' = [idCbTable EXCEPT ![nCurrentCbs] = EntryOf(c)]
          /\ nCurrentCbs' = nCurrentCbs + 1
          /\ front' = IF c \in Recorders /\ nCurrentCbs = Len(front) THEN Append(front, c) ELSE front
  /\ UNCHANGED <<fifoVars, rxOvf, threadVars, arrived, queue, seen, early, due>>

(* memcpy(idCbTable+i, idCbTable+(i+1), bytes): an entry is its bus in byte 0, *)
(* its id in bytes 4 to 7 and its cb in bytes 8 to 11.  An id copied in part   *)
(* is a mixture x, another identifier or none of the bus; a cb copied in part  *)
(* points nowhere.  No other entry moves.                                      *)
CopiedOver(own, nxt, bytes, x) ==
  Entry(IF bytes > 0 THEN nxt.bus ELSE own.bus,
        IF bytes >= 8 THEN nxt.id ELSE IF bytes > 4 THEN x ELSE own.id,
        IF bytes > 8 THEN "mixed" ELSE own.cb)

(* The entries DelCallBackForId finds. *)
EntriesOf(c) == {k \in 0 .. nCurrentCbs - 1 :
                   idCbTable[k].bus = BusOf[c] /\ idCbTable[k].id = IdOf[c]}

First(S) == CHOOSE k \in S : \A l \in S : k <= l

(* Mutant: the count goes down whether or not an entry was found. *)
DelCountsAnyway(c) ==
  LET k == First(EntriesOf(c))
      bytes == nCurrentCbs - (k + 1)
  IN /\ c \in registered /\ nCurrentCbs > 0
     /\ registered' = registered \ {c}
     /\ nCurrentCbs' = nCurrentCbs - 1
     /\ idCbTable' = IF EntriesOf(c) = {} \/ bytes = 0 THEN idCbTable
                     ELSE [idCbTable EXCEPT ![k] = CopiedOver(@, idCbTable[k + 1], bytes, "mixed")]
     /\ due' = {d \in due : (EntriesOf(c) # {} => d # k) /\ d < nCurrentCbs - 1}
     /\ UNCHANGED <<front, fifoVars, rxOvf, threadVars, arrived, queue, seen, early>>

(* DelCallBackForId removes the first of them, if there is one; the count of   *)
(* entries behind it is taken for a count of bytes.                            *)
DelCallBackForId(c) ==
  LET k == First(EntriesOf(c))
      bytes == nCurrentCbs - (k + 1)
  IN /\ c \in registered
     /\ registered' = registered \ {c}
     /\ IF EntriesOf(c) = {}
        THEN UNCHANGED <<idCbTable, nCurrentCbs, due>>
        ELSE /\ nCurrentCbs' = nCurrentCbs - 1
             /\ IF bytes = 0 THEN idCbTable' = idCbTable
                ELSE \E x \in Ids \cup {"mixed"} :
                       idCbTable' = [idCbTable EXCEPT ![k] = CopiedOver(@, idCbTable[k + 1], bytes, x)]
             /\ due' = {d \in due : d # k /\ d < nCurrentCbs - 1}
     /\ UNCHANGED <<front, fifoVars, rxOvf, threadVars, arrived, queue, seen, early>>

-----------------------------------------------------------------------------
(* Main: rxOvf is looked at and cleared. *)
ClearOvf ==
  /\ pc = "ovf"
  /\ rxOvf' = FALSE
  /\ pc' = "get"
  /\ UNCHANGED <<fifoVars, tableVars, bus, msg, i, arrived, queue, seen, early, due>>

(* Mutant: the second call of ProcessMsgFromRxFifo is missing. *)
NextBusNeverTwo == bus' = 1 /\ pc' = "ovf"

(* Main goes on to the other bus, or waits and starts again. *)
NextBus == IF bus = 1 THEN bus' = 2 /\ pc' = "get" ELSE bus' = 1 /\ pc' = "ovf"

(* Mutant: get does not move tail. *)
GetMsgKeepsTail ==
  /\ pc = "get"
  /\ head[bus] # tail[bus]
  /\ msg' = buffer[bus][tail[bus]]
  /\ i' = 0
  /\ pc' = "dispatch"
  /\ early' = Len(front) /\ due' = 0 .. nCurrentCbs - 1
  /\ UNCHANGED <<fifoVars, rxOvf, tableVars, bus, arrived, queue, seen>>

(* ProcessMsgFromRxFifo: the oldest frame of the bus is taken. *)
GetMsg ==
  /\ pc = "get"
  /\ head[bus] # tail[bus]
  /\ msg' = buffer[bus][tail[bus]]
  /\ tail' = [tail EXCEPT ![bus] = After(@)]
  /\ i' = 0
  /\ pc' = "dispatch"
  /\ queue' = [queue EXCEPT ![bus] = Tail(@)]
  /\ early' = Len(front) /\ due' = 0 .. nCurrentCbs - 1
  /\ UNCHANGED <<buffer, head, rxOvf, tableVars, bus, arrived, seen>>

(* ProcessMsgFromRxFifo: nothing to take. *)
GetNone ==
  /\ pc = "get"
  /\ head[bus] = tail[bus]
  /\ NextBus
  /\ UNCHANGED <<fifoVars, rxOvf, tableVars, msg, i, arrived, queue, seen, early, due>>

(* The entry DispatchCANMessage is at. *)
Current == idCbTable[i]
Matches(e) == e.bus \in {bus, CAN_BUS_DONT_CARE} /\ e.id = msg.id

Deliver(cb) == seen' = [seen EXCEPT ![cb] = Append(@, msg)]

(* Mutant: the loop also ends behind a promiscuous entry. *)
DispatchPromiscuousBreaks ==
  /\ pc = "dispatch" /\ i < nCurrentCbs
  /\ Current.id = CAN_ID_PROMISCUOUS_MODE
  /\ Deliver(Current.cb)
  /\ pc' = "done"
  /\ UNCHANGED <<fifoVars, rxOvf, tableVars, i, bus, msg, arrived, queue, early, due>>

(* A promiscuous entry gets the frame, and the loop goes on. *)
DispatchPromiscuous ==
  /\ pc = "dispatch" /\ i < nCurrentCbs
  /\ Current.id = CAN_ID_PROMISCUOUS_MODE
  /\ Deliver(Current.cb)
  /\ i' = i + 1
  /\ UNCHANGED <<fifoVars, rxOvf, tableVars, pc, bus, msg, arrived, queue, early, due>>

(* The first entry for bus and id gets the frame, and the loop ends. *)
DispatchMatch ==
  /\ pc = "dispatch" /\ i < nCurrentCbs
  /\ Matches(Current)
  /\ Deliver(Current.cb)
  /\ pc' = "done"
  /\ due' = {d \in due : d <= i}
  /\ UNCHANGED <<fifoVars, rxOvf, tableVars, bus, msg, i, arrived, queue, early>>

(* Any other entry is passed over. *)
DispatchSkip ==
  /\ pc = "dispatch" /\ i < nCurrentCbs
  /\ Current.id # CAN_ID_PROMISCUOUS_MODE /\ ~Matches(Current)
  /\ i' = i + 1
  /\ UNCHANGED <<fifoVars, rxOvf, tableVars, pc, bus, msg, arrived, queue, seen, early, due>>

(* The end of the table. *)
DispatchEnd ==
  /\ pc = "dispatch" /\ i >= nCurrentCbs
  /\ pc' = "done"
  /\ UNCHANGED <<fifoVars, rxOvf, tableVars, bus, msg, i, arrived, queue, seen, early, due>>

(* ProcessMsgFromRxFifo returns. *)
Return ==
  /\ pc = "done"
  /\ NextBus
  /\ msg' = NoFrame /\ i' = 0
  /\ early' = 0 /\ due' = {}
  /\ UNCHANGED <<fifoVars, rxOvf, tableVars, arrived, queue, seen>>

Thread == \/ ClearOvf \/ GetMsg \/ GetNone
          \/ DispatchPromiscuous \/ DispatchMatch \/ DispatchSkip \/ DispatchEnd
          \/ Return

Next == \/ \E b \in Bus, id \in Ids : RxStored(b, id)
        \/ \E b \in Bus : RxLost(b)
        \/ \E c \in Callbacks : AddCallBackForId(c)
        \/ \E c \in Clients : DelCallBackForId(c)
        \/ Thread

Spec == Init /\ [][Next]_vars

(* The interface thread is scheduled: its loop has no exit and waits a         *)
(* millisecond per turn.  Interrupts and communicators may do nothing.         *)
FairSpec == Spec /\ WF_vars(Thread)
-----------------------------------------------------------------------------
(* Types of the state. *)
TypeOK ==
  /\ buffer \in [Bus -> [Slot -> Frame \cup {NoFrame}]]
  /\ head \in [Bus -> Slot] /\ tail \in [Bus -> Slot]
  /\ rxOvf \in BOOLEAN
  /\ nCurrentCbs \in 0 .. CAN_SIMULTANEOUS_CBS
  /\ registered \subseteq Callbacks
  /\ front \in Seq(Recorders) /\ early \in 0 .. Len(front) /\ due \subseteq 0 .. nCurrentCbs - 1
  /\ pc \in {"ovf", "get", "dispatch", "done"} /\ bus \in Bus
  /\ msg \in Frame \cup {NoFrame} /\ i \in 0 .. CAN_SIMULTANEOUS_CBS
  /\ arrived \in 0 .. MaxFrames
  /\ queue \in [Bus -> Seq(Frame)] /\ seen \in [Callbacks -> Seq(Frame)]

(* The ring holds exactly the frames stored and not yet taken, in order, over  *)
(* every wrap of head and tail: a full ring is never taken for an empty one.   *)
FifoExact ==
  \A b \in Bus :
    /\ available(b) = Len(queue[b])
    /\ \A k \in 1 .. Len(queue[b]) : buffer[b][(tail[b] + k - 1) % FIFO_SIZE] = queue[b][k]

(* Every callback gets the frames of a bus in the order of their arrival and   *)
(* none of them twice, whatever is added and deleted during the dispatch: an   *)
(* entry that survives its deletion in a changed form makes nobody hear a      *)
(* frame again.  With more than eight rows the copy may reach the whole id of  *)
(* a recorder, and a communicator then hears its frame as promiscuous, too.    *)
InOrderOnce ==
  \A c \in Callbacks : \A k, l \in DOMAIN seen[c] :
     k < l /\ seen[c][k].bus = seen[c][l].bus =>
       \/ seen[c][k].n < seen[c][l].n
       \/ seen[c][k].n = seen[c][l].n /\ CAN_SIMULTANEOUS_CBS > 8 /\ c \in Clients

(* A dispatch that ends has given the frame to every row that wanted it, that  *)
(* was in the table from its beginning to its end unchanged, and that is not   *)
(* behind the row which took the frame: what other threads add and delete      *)
(* under the unlocked loop makes it skip none of them.                         *)
Received(c) == \E k \in DOMAIN seen[c] : seen[c][k] = msg
Wants(e) == e.id = CAN_ID_PROMISCUOUS_MODE \/ Matches(e)
DispatchReaches ==
  pc = "done" => \A k \in due : Wants(idCbTable[k]) /\ idCbTable[k].cb \in Callbacks
                                  => Received(idCbTable[k].cb)

(* A recorder that came before every communicator, even one that came when     *)
(* all of those had been deleted again, gets every frame from then on: no      *)
(* communicator is in front of it to take the frame, and no deletion changes   *)
(* its entry or stops counting it.  (One behind a communicator has no such     *)
(* promise, see RegisteredIsListed.)                                           *)
FrontRecordersHear == pc = "done" => \A k \in 1 .. early : Received(front[k])

(* A callback that was added and not deleted is in the table: deleting one     *)
(* entry ("Removing Entry") leaves the others.                                 *)
RegisteredIsListed ==
  \A c \in registered : \E k \in 0 .. nCurrentCbs - 1 : idCbTable[k] = EntryOf(c)

(* Every stored frame is dispatched: neither ring is left full, although the   *)
(* thread takes one frame of each per turn.                                    *)
EveryFrameTaken == \A b \in Bus : (queue[b] # <<>>) ~> (queue[b] = <<>>)
=============================================================================
