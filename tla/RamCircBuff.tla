---------------------------- MODULE RamCircBuff ----------------------------
(***************************************************************************)
(* ramCircBuff (storageBase.cpp): the ring of bytes between the captures   *)
(* of the main thread and the transfers of ComHandler.  Every record is    *)
(* stored as a 4-byte little-endian int (its length) followed by its       *)
(* bytes; header and data may each be cut by the end of the array, and     *)
(* Put, Get and Probe treat the cuts with separate pointer arithmetic.     *)
(*                                                                         *)
(* The memory is modelled byte by byte.  A write beyond the array extends  *)
(* the domain of b, so TypeOK also says that no memcpy leaves the array.   *)
(* recs is a history variable: the records put and not yet taken, with     *)
(* their distance from pRead.  No action reads it.                         *)
(*                                                                         *)
(* Both callers hold BuffMtx around every call (ComHandler.cpp), so one    *)
(* call is one step here.                                                  *)
(***************************************************************************)
EXTENDS Integers, Sequences

CONSTANTS bSz,          \* size of the array
          Payloads,     \* the buffers callers pass to Put
          GetLength     \* the room callers of Get announce (2096 in ComHandler)

Byte == 0 .. 255
IntSize == 4
IntMax == 255 + 256 * (255 + 256 * (255 + 256 * 127))     \* 2^31 - 1

ASSUME SizeAssumption == bSz \in Nat /\ bSz >= IntSize /\ bSz <= IntMax
ASSUME PayloadAssumption == Payloads \subseteq Seq(Byte)
ASSUME GetAssumption == GetLength \in Nat /\ GetLength >= bSz

VARIABLES b,            \* the array
          pWrite, pRead, currSz,
          res,          \* what the last call returned
          recs          \* history: the records held, with their place

vars == <<b, pWrite, pRead, currSz, res, recs>>

Cell == 0 .. bSz - 1

-----------------------------------------------------------------------------
(* memcpy(m + dst, src + from, n) *)
memcpy(m, dst, src, from, n) ==
  [i \in DOMAIN m \cup (dst .. dst + n - 1) |->
     IF dst <= i /\ i < dst + n THEN src[from + (i - dst) + 1] ELSE m[i]]

(* The bytes of an int in memory, least significant first. *)
HeaderBytes(n) == << n % 256,
                     (n \div 256) % 256,
                     ((n \div 256) \div 256) % 256,
                     (((n \div 256) \div 256) \div 256) % 256 >>

(* The int at four given cells (a length below 2^31 is never negative). *)
IntAt(c0, c1, c2, c3) == c0 + 256 * (c1 + 256 * (c2 + 256 * c3))

Result(op, ret, data) == [op |-> op, ret |-> ret, data |-> data]

(* The cell k bytes after cell p, going around the end of the array. *)
Around(p, k) == IF p + k < bSz THEN p + k ELSE p + k - bSz

-----------------------------------------------------------------------------
Init == /\ b = [i \in Cell |-> 0]
        /\ pWrite = 0
        /\ pRead = 0
        /\ currSz = 0
        /\ res = Result("New", 0, <<>>)
        /\ recs = <<>>

(* Put: the buffer cannot receive all data. *)
PutRefused(buffer) ==
  /\ currSz + IntSize + Len(buffer) > bSz
  /\ res' = Result("Put", -1, <<>>)
  /\ UNCHANGED <<b, pWrite, pRead, currSz, recs>>

(* Mutant: the room for the header is not asked for. *)
PutAccountingNoHeader(buffer) ==
  /\ currSz + Len(buffer) <= bSz
  /\ currSz' = currSz + IntSize + Len(buffer)
  /\ res' = Result("Put", Len(buffer), <<>>)
  /\ recs' = Append(recs, [off |-> currSz, data |-> buffer])
  /\ UNCHANGED pRead

(* What every successful Put does besides moving bytes. *)
PutAccounting(buffer) ==
  /\ currSz + IntSize + Len(buffer) <= bSz
  /\ currSz' = currSz + IntSize + Len(buffer)
  /\ res' = Result("Put", Len(buffer), <<>>)
  /\ recs' = Append(recs, [off |-> currSz, data |-> buffer])
  /\ UNCHANGED pRead

(* Mutant: the write pointer is not taken back when a record ends at the end. *)
PutWholeNoWrap(buffer) ==
  LET length == Len(buffer)
      end    == pWrite + IntSize + length
  IN /\ PutAccounting(buffer)
     /\ end <= bSz
     /\ b' = memcpy(memcpy(b, pWrite, HeaderBytes(length), 0, IntSize),
                    pWrite + IntSize, buffer, 0, length)
     /\ pWrite' = end

(* Put: header and data fit before the end of the array. *)
PutWhole(buffer) ==
  LET length == Len(buffer)
      end    == pWrite + IntSize + length
  IN /\ PutAccounting(buffer)
     /\ end <= bSz
     /\ b' = memcpy(memcpy(b, pWrite, HeaderBytes(length), 0, IntSize),
                    pWrite + IntSize, buffer, 0, length)
     /\ pWrite' = IF end >= bSz THEN 0 ELSE end

(* The header half of a split Put: the array and the write pointer after it.  *)
(* The pointer is left at bSz when the header ends exactly at the end.        *)
PutHeader(length) ==
  LET sh == bSz - pWrite
      h  == HeaderBytes(length)
  IN IF pWrite + IntSize <= bSz
     THEN [mem |-> memcpy(b, pWrite, h, 0, IntSize), at |-> pWrite + IntSize]
     ELSE [mem |-> memcpy(memcpy(b, pWrite, h, 0, sh), 0, h, sh, IntSize - sh),
           at  |-> IntSize - sh]

(* Its data half, from the array and the write pointer the header left. *)
PutData(mem, at, buffer) ==
  LET length == Len(buffer)
      s      == bSz - at
  IN IF at + length < bSz
     THEN [mem |-> memcpy(mem, at, buffer, 0, length), at |-> at + length]
     ELSE [mem |-> memcpy(memcpy(mem, at, buffer, 0, s), 0, buffer, s, length - s),
           at  |-> length - s]

(* Put: the end of the array cuts the header or the data. *)
PutSplit(buffer) ==
  LET hdr == PutHeader(Len(buffer))
      dat == PutData(hdr.mem, hdr.at, buffer)
  IN /\ PutAccounting(buffer)
     /\ pWrite + IntSize + Len(buffer) > bSz
     /\ b' = dat.mem
     /\ pWrite' = dat.at

-----------------------------------------------------------------------------
(* The length in the header at pRead, whole or cut. *)
ReadHeader ==
  LET l == bSz - pRead
      c(k) == IF pRead + IntSize <= bSz \/ k < l THEN b[pRead + k] ELSE b[k - l]
  IN IntAt(c(0), c(1), c(2), c(3))

(* Mutant: after a cut header the pointer skips the wrong half. *)
AfterHeaderWrongHalf ==
  LET end == pRead + IntSize
  IN IF end <= bSz THEN (IF end >= bSz THEN 0 ELSE end) ELSE bSz - pRead

(* The read pointer once the header is read. *)
AfterHeader ==
  LET end == pRead + IntSize
  IN IF end <= bSz THEN (IF end >= bSz THEN 0 ELSE end) ELSE IntSize - (bSz - pRead)

(* Mutant: the second half of cut data is read one cell late. *)
ReadDataLate(p, s) ==
  LET l == bSz - p
  IN [k \in 1 .. s |-> IF p + s <= bSz \/ k <= l THEN b[p + k - 1] ELSE b[k - l]]

(* The s bytes at p, whole or cut: the caller's buffer is written with s       *)
(* bytes whatever length it announced.                                         *)
ReadData(p, s) ==
  LET l == bSz - p
  IN [k \in 1 .. s |-> IF p + s <= bSz \/ k <= l THEN b[p + k - 1] ELSE b[k - l - 1]]

(* The distance of every record left from the new read pointer. *)
Shifted(rs, n) == [i \in 1 .. Len(rs) |-> [off |-> rs[i].off - n, data |-> rs[i].data]]

(* Mutant: the header's bytes are not given back. *)
GetKeepsHeader ==
  LET s == ReadHeader
      p == AfterHeader
      assertedLength == IF s <= GetLength THEN s ELSE GetLength
  IN /\ currSz # 0
     /\ currSz' = currSz - assertedLength
     /\ pRead' = IF p + s <= bSz
                 THEN (IF p + assertedLength >= bSz THEN 0 ELSE p + assertedLength)
                 ELSE s - (bSz - p)
     /\ res' = Result("Get", assertedLength, ReadData(p, s))
     /\ recs' = Shifted(Tail(recs), IntSize + assertedLength)
     /\ UNCHANGED <<b, pWrite>>

(* Get: the oldest record; its bytes and those of its header are free again. *)
Get ==
  LET s == ReadHeader
      p == AfterHeader
      assertedLength == IF s <= GetLength THEN s ELSE GetLength
  IN /\ currSz # 0
     /\ currSz' = currSz - IntSize - assertedLength
     /\ pRead' = IF p + s <= bSz
                 THEN (IF p + assertedLength >= bSz THEN 0 ELSE p + assertedLength)
                 ELSE s - (bSz - p)
     /\ res' = Result("Get", assertedLength, ReadData(p, s))
     /\ recs' = Shifted(Tail(recs), IntSize + assertedLength)
     /\ UNCHANGED <<b, pWrite>>

GetEmpty ==
  /\ currSz = 0
  /\ res' = Result("Get", 0, <<>>)
  /\ UNCHANGED <<b, pWrite, pRead, currSz, recs>>

Probe ==
  /\ res' = Result("Probe", IF currSz # 0 THEN ReadHeader ELSE 0, <<>>)
  /\ UNCHANGED <<b, pWrite, pRead, currSz, recs>>

Next == \/ \E buffer \in Payloads : PutRefused(buffer)
        \/ \E buffer \in Payloads : PutWhole(buffer)
        \/ \E buffer \in Payloads : PutSplit(buffer)
        \/ Get
        \/ GetEmpty
        \/ Probe

Spec == Init /\ [][Next]_vars
-----------------------------------------------------------------------------
(* Types and ranges.  In particular neither pointer is ever left at bSz        *)
(* between two calls although Put lets pWrite stand there in its middle, and   *)
(* no memcpy writes outside the array.                                         *)
TypeOK == /\ b \in [Cell -> Byte]
          /\ pWrite \in Cell
          /\ pRead \in Cell
          /\ currSz \in 0 .. bSz
          /\ res \in [op : {"New", "Put", "Get", "Probe"}, ret : Int, data : Seq(Byte)]
          /\ recs \in Seq([off : Cell, data : Seq(Byte)])

(* The write pointer is always currSz bytes after the read pointer: the three  *)
(* counters, each updated by its own arithmetic in the split and the unsplit   *)
(* branches of Put and Get, never drift apart.                                 *)
PointersAgree == pWrite = Around(pRead, currSz)

(* The bytes record r takes. *)
Room(r) == IntSize + Len(r.data)

(* The records are laid end to end from pRead and fill exactly currSz bytes. *)
Layout ==
  /\ recs = <<>> <=> currSz = 0
  /\ recs # <<>> => recs[1].off = 0
  /\ \A i \in 1 .. Len(recs) :
       recs[i].off + Room(recs[i]) = IF i = Len(recs) THEN currSz ELSE recs[i + 1].off
  /\ \A i, j \in 1 .. Len(recs) : i < j => recs[i].off + Room(recs[i]) <= recs[j].off

(* The byte at distance k from the start of record r. *)
RecordByte(r, k) == IF k < IntSize THEN HeaderBytes(Len(r.data))[k + 1]
                                   ELSE r.data[k - IntSize + 1]

(* Every record not yet taken is intact in the array, header and data, across  *)
(* every cut: a later Put never overwrites a byte of it.                       *)
Contents ==
  \A i \in 1 .. Len(recs) : \A k \in 0 .. Room(recs[i]) - 1 :
     b[Around(pRead, recs[i].off + k)] = RecordByte(recs[i], k)

(* The inductive invariant. *)
RingInv == TypeOK /\ PointersAgree /\ Layout /\ Contents

-----------------------------------------------------------------------------
(* The ring implements the ideal queue of records. *)
Fifo == INSTANCE RecordFifo WITH Capacity <- bSz, HeaderSize <- IntSize,
          q <- [i \in 1 .. Len(recs) |-> recs[i].data], used <- currSz

(* Seen from its callers the ring is a bounded FIFO of whole records: every    *)
(* Put, Get and Probe returns what the ideal queue returns, for every way a    *)
(* header or its data can be cut by the end of the array.                      *)
ImplementsFifo == Fifo!FifoSpec
=============================================================================
