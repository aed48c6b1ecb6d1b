----------------------------- MODULE RecordFifo -----------------------------
(***************************************************************************)
(* What a circBuff promises its user (storageBase.h): a bounded first-in   *)
(* first-out queue of byte records.  A record costs its length plus a      *)
(* fixed header; Put refuses a record only when it does not fit and then   *)
(* changes nothing; Get hands records back whole, unchanged and in order;  *)
(* Probe tells the length of the next one without consuming it.  The       *)
(* result of the last call is part of the visible state, so a buffer that  *)
(* implements this specification returns to every caller exactly what the  *)
(* ideal queue returns.                                                    *)
(***************************************************************************)
EXTENDS Integers, Sequences

CONSTANTS Capacity,     \* bytes the buffer can hold, headers included
          HeaderSize,   \* bytes of header per record
          Payloads      \* the records callers put

VARIABLES q,            \* the records held, oldest first
          used,         \* bytes they occupy, headers included
          res           \* what the last call returned

fifoVars == <<q, used, res>>

Cost(r) == HeaderSize + Len(r)

Result(op, ret, data) == [op |-> op, ret |-> ret, data |-> data]

FifoInit == /\ q = <<>>
            /\ used = 0
            /\ res = Result("New", 0, <<>>)

FifoPut(r) == /\ used + Cost(r) <= Capacity
              /\ q' = Append(q, r)
              /\ used' = used + Cost(r)
              /\ res' = Result("Put", Len(r), <<>>)

FifoRefuse(r) == /\ used + Cost(r) > Capacity
                 /\ res' = Result("Put", -1, <<>>)
                 /\ UNCHANGED <<q, used>>

FifoGet == /\ q # <<>>
           /\ q' = Tail(q)
           /\ used' = used - Cost(Head(q))
           /\ res' = Result("Get", Len(Head(q)), Head(q))

FifoGetEmpty == /\ q = <<>>
                /\ res' = Result("Get", 0, <<>>)
                /\ UNCHANGED <<q, used>>

FifoProbe == /\ res' = Result("Probe", IF q = <<>> THEN 0 ELSE Len(Head(q)), <<>>)
             /\ UNCHANGED <<q, used>>

FifoNext == \/ \E r \in Payloads : FifoPut(r) \/ FifoRefuse(r)
            \/ FifoGet
            \/ FifoGetEmpty
            \/ FifoProbe

FifoSpec == FifoInit /\ [][FifoNext]_fifoVars
=============================================================================
