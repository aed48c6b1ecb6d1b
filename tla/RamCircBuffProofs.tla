------------------------- MODULE RamCircBuffProofs -------------------------
(***************************************************************************)
(* For every array size, every set of records and every history of calls:  *)
(* RingInv is an invariant of the ring, and the ring implements the FIFO   *)
(* of records of RecordFifo.                                               *)
(*                                                                         *)
(* The argument.  All four branches of Put write the same thing, the       *)
(* header and the data from pWrite on, around the end (RingWrite); both    *)
(* branches of Get read the same thing.  With the write pointer currSz     *)
(* bytes after the read pointer and the records laid end to end between    *)
(* them, the bytes a Put writes are disjoint from those of every record    *)
(* held, so the records stay intact and Get returns the oldest one.        *)
(***************************************************************************)
EXTENDS RamCircBuff, SequenceTheorems, TLAPS

Rec(buffer) == [off |-> currSz, data |-> buffer]

(* How far cell i is after cell p, going around. *)
Distance(p, i) == IF i >= p THEN i - p ELSE i + bSz - p

(* The array after header and data of buffer are written from pWrite on. *)
RingWrite(buffer) ==
  [i \in Cell |-> IF Distance(pWrite, i) < IntSize + Len(buffer)
                  THEN RecordByte(Rec(buffer), Distance(pWrite, i))
                  ELSE b[i]]

-----------------------------------------------------------------------------
(* A length survives being stored as four bytes and read back. *)
LEMMA HeaderRoundTrip ==
  ASSUME NEW n \in Nat, n <= IntMax
  PROVE  /\ HeaderBytes(n) \in Seq(Byte)
         /\ Len(HeaderBytes(n)) = 4
         /\ IntAt(HeaderBytes(n)[1], HeaderBytes(n)[2],
                  HeaderBytes(n)[3], HeaderBytes(n)[4]) = n
<1> DEFINE d1 == n \div 256
           d2 == d1 \div 256
           d3 == d2 \div 256
<1>1. n \in Nat /\ n <= 255 + 256 * (255 + 256 * (255 + 256 * 127))
  BY SMT DEF IntMax
<1>2. /\ d1 \in Nat /\ n % 256 \in Byte /\ n = (n % 256) + 256 * d1
      /\ d1 <= 255 + 256 * (255 + 256 * 127)
  BY <1>1, SMT DEF Byte
<1> HIDE DEF d1
<1>3. /\ d2 \in Nat /\ d1 % 256 \in Byte /\ d1 = (d1 % 256) + 256 * d2
      /\ d2 <= 255 + 256 * 127
  BY <1>2, SMT DEF Byte
<1> HIDE DEF d2
<1>4. /\ d3 \in Nat /\ d2 % 256 \in Byte /\ d2 = (d2 % 256) + 256 * d3
      /\ d3 <= 127
  BY <1>3, SMT DEF Byte
<1> HIDE DEF d3
<1>5. d3 % 256 = d3 /\ d3 % 256 \in Byte
  BY <1>4, SMT DEF Byte
<1>6. HeaderBytes(n) = <<n % 256, d1 % 256, d2 % 256, d3 % 256>>
  BY DEF HeaderBytes, d1, d2, d3
<1>7. QED
  BY <1>2, <1>3, <1>4, <1>5, <1>6, SMT DEF IntAt

(* A copy that stays inside the array. *)
Copied(m, dst, src, from, n) ==
  [i \in Cell |-> IF dst <= i /\ i < dst + n THEN src[from + (i - dst) + 1] ELSE m[i]]

LEMMA MemcpyInside ==
  ASSUME NEW m, DOMAIN m = Cell, NEW dst \in Nat, NEW n \in Nat, dst + n <= bSz,
         NEW src, NEW from
  PROVE  /\ memcpy(m, dst, src, from, n) = Copied(m, dst, src, from, n)
         /\ DOMAIN memcpy(m, dst, src, from, n) = Cell
<1>1. DOMAIN m \cup (dst .. dst + n - 1) = Cell
  BY SizeAssumption DEF Cell
<1>2. QED
  BY <1>1, Zenon DEF memcpy, Copied

(* The bytes of a record about to be put, by distance from its start. *)
LEMMA RecByte ==
  ASSUME NEW buffer, NEW k
  PROVE  RecordByte(Rec(buffer), k) = IF k < 4 THEN HeaderBytes(Len(buffer))[k + 1]
                                               ELSE buffer[k - 4 + 1]
  BY DEF RecordByte, Rec, IntSize

(* A Put that fits before the end writes the record from pWrite on. *)
LEMMA PutWholeWrites ==
  ASSUME TypeOK, NEW buffer \in Seq(Byte), PutWhole(buffer)
  PROVE  /\ b' = RingWrite(buffer)
         /\ pWrite' = Around(pWrite, IntSize + Len(buffer))
<1> DEFINE length == Len(buffer)
           h == HeaderBytes(length)
           at == pWrite + IntSize
           m1 == memcpy(b, pWrite, h, 0, IntSize)
           m2 == memcpy(m1, at, buffer, 0, length)
<1>1. /\ length \in Nat
      /\ at + length <= bSz /\ pWrite + IntSize <= bSz
      /\ pWrite \in Cell /\ pWrite \in Nat /\ at \in Nat /\ bSz \in Nat /\ DOMAIN b = Cell
      /\ pWrite' = IF at + length >= bSz THEN 0 ELSE at + length
  BY SizeAssumption DEF PutWhole, TypeOK, PutAccounting, Cell, IntSize
<1>2. b' = m2
  BY DEF PutWhole
<1>3. m1 = Copied(b, pWrite, h, 0, IntSize) /\ DOMAIN m1 = Cell
  BY <1>1, MemcpyInside DEF IntSize
<1>4. m2 = Copied(m1, at, buffer, 0, length)
  <2> HIDE DEF m1, at, length
  <2>1. QED
    BY <1>1, <1>3, MemcpyInside
<1> HIDE DEF m1, m2, h, length
<1>5. ASSUME NEW i \in Cell
      PROVE  m2[i] = RingWrite(buffer)[i]
  <2>1. m2[i] = IF at <= i /\ i < at + length THEN buffer[i - at + 1] ELSE m1[i]
    BY <1>1, <1>4 DEF Copied, Cell
  <2>2. m1[i] = IF pWrite <= i /\ i < at THEN h[i - pWrite + 1] ELSE b[i]
    BY <1>1, <1>3 DEF Copied, Cell, IntSize
  <2>3. RingWrite(buffer)[i] = IF Distance(pWrite, i) < 4 + length
                               THEN RecordByte(Rec(buffer), Distance(pWrite, i)) ELSE b[i]
    BY DEF RingWrite, IntSize, length
  <2>4. QED
    BY <1>1, <2>1, <2>2, <2>3, RecByte DEF Distance, Cell, IntSize, h, length
<1>6. b' = RingWrite(buffer)
  BY <1>2, <1>4, <1>5 DEF RingWrite, Copied
<1>7. pWrite' = Around(pWrite, IntSize + Len(buffer))
  BY <1>1 DEF Around, Cell, IntSize, length
<1>8. QED
  BY <1>6, <1>7

(* A Put cut by the end of the array writes the same bytes around it.  Only    *)
(* one of its two parts can be cut: a cut header leaves room for all the data. *)
LEMMA PutSplitWrites ==
  ASSUME TypeOK, NEW buffer \in Seq(Byte), PutSplit(buffer)
  PROVE  /\ b' = RingWrite(buffer)
         /\ pWrite' = Around(pWrite, IntSize + Len(buffer))
<1> DEFINE length == Len(buffer)
           h == HeaderBytes(length)
           sh == bSz - pWrite
<1>1. /\ length \in Nat
      /\ pWrite + IntSize + length > bSz
      /\ IntSize + length <= bSz
      /\ pWrite \in Cell /\ pWrite \in Nat /\ bSz \in Nat /\ DOMAIN b = Cell
      /\ bSz >= IntSize /\ sh \in Nat /\ pWrite + sh = bSz
  BY SizeAssumption DEF PutSplit, TypeOK, PutAccounting, IntSize, Cell
<1>2. /\ b' = PutData(PutHeader(length).mem, PutHeader(length).at, buffer).mem
      /\ pWrite' = PutData(PutHeader(length).mem, PutHeader(length).at, buffer).at
  BY DEF PutSplit
<1>3. CASE pWrite + IntSize <= bSz
  <2> DEFINE m1 == memcpy(b, pWrite, h, 0, IntSize)
             at == pWrite + IntSize
             s == bSz - at
             rest == length - s
             m2 == memcpy(m1, at, buffer, 0, s)
             m3 == memcpy(m2, 0, buffer, s, rest)
  <2>1. PutHeader(length).mem = m1 /\ PutHeader(length).at = at
    BY <1>3 DEF PutHeader
  <2>2. b' = m3 /\ pWrite' = rest
    <3>1. ~(at + length < bSz)
      BY <1>1 DEF Cell, IntSize
    <3>2. QED
      BY <1>2, <2>1, <3>1 DEF PutData
  <2>3. m1 = Copied(b, pWrite, h, 0, IntSize) /\ DOMAIN m1 = Cell
    BY <1>1, <1>3, MemcpyInside DEF IntSize
  <2>4. /\ at \in Nat /\ s \in Nat /\ at + s <= bSz /\ 0 \in Nat
        /\ rest \in Nat /\ 0 + rest <= bSz
    BY <1>1, <1>3 DEF IntSize
  <2>5. m2 = Copied(m1, at, buffer, 0, s) /\ DOMAIN m2 = Cell
    <3> HIDE DEF m1, at, s
    <3>1. QED
      BY <2>3, <2>4, MemcpyInside
  <2>6. m3 = Copied(m2, 0, buffer, s, rest)
    <3> HIDE DEF m2, at, s, rest
    <3>1. QED
      BY <2>4, <2>5, MemcpyInside
  <2> HIDE DEF m1, m2, m3, h, length
  <2>7. ASSUME NEW i \in Cell
        PROVE  m3[i] = RingWrite(buffer)[i]
    <3>1. m3[i] = IF i < rest THEN buffer[s + i + 1] ELSE m2[i]
      <4> HIDE DEF s, rest
      <4>1. QED
        BY <1>1, <2>4, <2>6 DEF Copied, Cell
    <3>2. m2[i] = IF at <= i THEN buffer[i - at + 1] ELSE m1[i]
      BY <1>1, <2>4, <2>5, SMTT(30) DEF Copied, Cell
    <3>3. m1[i] = IF pWrite <= i /\ i < at THEN h[i - pWrite + 1] ELSE b[i]
      BY <1>1, <2>3, SMTT(30) DEF Copied, Cell, IntSize
    <3>4. RingWrite(buffer)[i] = IF Distance(pWrite, i) < 4 + length
                                 THEN RecordByte(Rec(buffer), Distance(pWrite, i)) ELSE b[i]
      BY DEF RingWrite, IntSize, length
    <3>5. QED
      BY <1>1, <1>3, <3>1, <3>2, <3>3, <3>4, RecByte, SMTT(30) DEF Distance, Cell, IntSize, h, length
  <2>8. b' = RingWrite(buffer)
    BY <2>2, <2>6, <2>7 DEF RingWrite, Copied
  <2>9. QED
    BY <1>1, <1>3, <2>2, <2>8 DEF Around, Cell, IntSize, length
<1>4. CASE ~(pWrite + IntSize <= bSz)
  <2> DEFINE at == IntSize - sh
             m1 == memcpy(b, pWrite, h, 0, sh)
             m2 == memcpy(m1, 0, h, sh, at)
             m3 == memcpy(m2, at, buffer, 0, length)
  <2>1. PutHeader(length).mem = m2 /\ PutHeader(length).at = at
    BY <1>4 DEF PutHeader
  <2>2. at + length < bSz /\ at \in Nat /\ 0 \in Nat /\ 0 + at <= bSz
    BY <1>1, <1>4 DEF Cell, IntSize
  <2>3. b' = m3 /\ pWrite' = at + length
    BY <1>2, <2>1, <2>2 DEF PutData
  <2>4. m1 = Copied(b, pWrite, h, 0, sh) /\ DOMAIN m1 = Cell
    BY <1>1, MemcpyInside
  <2>5. m2 = Copied(m1, 0, h, sh, at) /\ DOMAIN m2 = Cell
    <3> HIDE DEF m1, at, h
    <3>1. QED
      BY <2>2, <2>4, MemcpyInside
  <2>6. m3 = Copied(m2, at, buffer, 0, length)
    <3> HIDE DEF m2, at, length
    <3>1. at + length <= bSz
      BY <2>2, <1>1
    <3>2. QED
      BY <1>1, <2>2, <2>5, <3>1, MemcpyInside
  <2> HIDE DEF m1, m2, m3, h, length
  <2>7. ASSUME NEW i \in Cell
        PROVE  m3[i] = RingWrite(buffer)[i]
    <3>1. m3[i] = IF at <= i /\ i < at + length THEN buffer[i - at + 1] ELSE m2[i]
      BY <1>1, <2>2, <2>6 DEF Copied, Cell
    <3>2. m2[i] = IF i < at THEN h[sh + i + 1] ELSE m1[i]
      BY <1>1, <2>2, <2>5 DEF Copied, Cell
    <3>3. m1[i] = IF pWrite <= i THEN h[i - pWrite + 1] ELSE b[i]
      BY <1>1, <2>4 DEF Copied, Cell
    <3>4. RingWrite(buffer)[i] = IF Distance(pWrite, i) < 4 + length
                                 THEN RecordByte(Rec(buffer), Distance(pWrite, i)) ELSE b[i]
      BY DEF RingWrite, IntSize, length
    <3>5. QED
      BY <1>1, <1>4, <3>1, <3>2, <3>3, <3>4, RecByte, SMTT(30) DEF Distance, Cell, IntSize, h, length
  <2>8. b' = RingWrite(buffer)
    BY <2>3, <2>6, <2>7 DEF RingWrite, Copied
  <2>9. QED
    BY <1>1, <1>4, <2>3, <2>8 DEF Around, Cell, IntSize, length
<1>5. QED
  BY <1>3, <1>4
-----------------------------------------------------------------------------
(* Initially the ring is empty. *)
LEMMA InitInv == Init => RingInv
<1> SUFFICES ASSUME Init PROVE RingInv
  OBVIOUS
<1>1. TypeOK
  BY SizeAssumption DEF Init, TypeOK, Cell, Byte, Result, IntSize
<1>2. PointersAgree /\ Layout /\ Contents
  BY SizeAssumption DEF Init, PointersAgree, Layout, Contents, Around, IntSize
<1>3. QED
  BY <1>1, <1>2 DEF RingInv

(* The parts of a record held. *)
LEMMA RecordTypes ==
  ASSUME TypeOK, NEW i \in 1 .. Len(recs)
  PROVE  /\ recs[i] \in [off : Cell, data : Seq(Byte)]
         /\ recs[i].off \in Nat
         /\ recs[i].data \in Seq(Byte)
         /\ Len(recs[i].data) \in Nat
         /\ Room(recs[i]) \in Nat /\ Room(recs[i]) = 4 + Len(recs[i].data)
<1> DEFINE R == [off : Cell, data : Seq(Byte)]
<1>1. recs[i] \in R
  <2>1. recs \in Seq(R)
    BY DEF TypeOK
  <2> HIDE DEF R
  <2>2. QED
    BY <2>1
<1>2. recs[i].off \in Cell /\ recs[i].data \in Seq(Byte)
  BY <1>1
<1>3. recs[i].off \in Nat
  BY <1>2 DEF Cell
<1>4. Len(recs[i].data) \in Nat
  BY <1>2
<1>5. QED
  BY <1>1, <1>2, <1>3, <1>4 DEF Room, IntSize

(* Every record held ends within the currSz bytes in use. *)
LEMMA InsideCurrSz ==
  ASSUME RingInv, NEW i \in 1 .. Len(recs)
  PROVE  recs[i].off + Room(recs[i]) <= currSz
<1> DEFINE n == Len(recs)
<1>1. n \in Nat /\ n \in 1 .. Len(recs)
  BY DEF RingInv, TypeOK
<1>2. recs[n].off + Room(recs[n]) = currSz
  BY <1>1 DEF RingInv, Layout
<1>3. i = n \/ recs[i].off + Room(recs[i]) <= recs[n].off
  BY <1>1 DEF RingInv, Layout
<1>4. /\ recs[n].off \in Nat /\ Room(recs[n]) \in Nat
      /\ recs[i].off \in Nat /\ Room(recs[i]) \in Nat
  BY <1>1, RecordTypes DEF RingInv
<1>5. QED
  BY <1>2, <1>3, <1>4

(* Going k cells on is going m cells on and then the rest. *)
LEMMA AroundTwice ==
  ASSUME bSz \in Nat, NEW p \in Nat, p < bSz,
         NEW k \in Nat, k <= bSz, NEW m \in Nat, m <= k
  PROVE  Around(Around(p, m), k - m) = Around(p, k)
  BY DEF Around

(* What both kinds of successful Put do, in terms of the ring. *)
LEMMA PutPreserves ==
  ASSUME RingInv, NEW buffer \in Seq(Byte), PutAccounting(buffer),
         b' = RingWrite(buffer), pWrite' = Around(pWrite, IntSize + Len(buffer))
  PROVE  RingInv'
<1> DEFINE length == Len(buffer)
           n == Len(recs)
           new == [off |-> currSz, data |-> buffer]
<1>1. /\ length \in Nat /\ n \in Nat /\ bSz \in Nat
      /\ currSz \in Nat /\ pRead \in Cell /\ pWrite \in Cell
      /\ currSz + 4 + length <= bSz
      /\ currSz' = currSz + 4 + length
      /\ pRead' = pRead
      /\ recs' = Append(recs, new)
      /\ b' = RingWrite(buffer)
      /\ length <= IntMax
  BY SizeAssumption DEF RingInv, TypeOK, PutAccounting, IntSize, IntMax, Cell
<1>2. /\ Len(recs') = n + 1
      /\ recs'[n + 1] = new
      /\ \A i \in 1 .. n : recs'[i] = recs[i]
      /\ recs \in Seq([off : Cell, data : Seq(Byte)])
  BY <1>1 DEF RingInv, TypeOK
<1>3. TypeOK'
  <2>1. ASSUME NEW k \in 0 .. 3 + length PROVE RecordByte(Rec(buffer), k) \in Byte
    <3>1. CASE k < 4
      BY <1>1, <3>1, RecByte, HeaderRoundTrip, SMTT(30)
    <3>2. CASE k >= 4
      BY <1>1, <3>2, RecByte
    <3>3. QED
      BY <3>1, <3>2
  <2>2. ASSUME NEW i \in Cell PROVE RingWrite(buffer)[i] \in Byte
    <3>1. b[i] \in Byte
      BY DEF RingInv, TypeOK
    <3>2. Distance(pWrite, i) \in Nat
      BY <1>1 DEF Distance, Cell
    <3>3. CASE Distance(pWrite, i) < IntSize + Len(buffer)
      <4>1. Distance(pWrite, i) \in 0 .. 3 + length
        BY <1>1, <3>2, <3>3 DEF IntSize
      <4>2. QED
        BY <2>1, <3>3, <4>1 DEF RingWrite
    <3>4. QED
      BY <3>1, <3>3 DEF RingWrite
  <2>3. b' \in [Cell -> Byte]
    BY <1>1, <2>2 DEF RingWrite
  <2>4. pWrite' \in Cell
    BY <1>1 DEF Around, Cell, IntSize
  <2>5. currSz' \in 0 .. bSz /\ pRead' \in Cell
    BY <1>1
  <2>6. res' \in [op : {"New", "Put", "Get", "Probe"}, ret : Int, data : Seq(Byte)]
    BY <1>1 DEF PutAccounting, Result
  <2>7. recs' \in Seq([off : Cell, data : Seq(Byte)])
    <3>1. new \in [off : Cell, data : Seq(Byte)]
      BY <1>1 DEF Cell
    <3>2. QED
      BY <1>1, <1>2, <3>1
  <2>8. QED
    BY <2>3, <2>4, <2>5, <2>6, <2>7 DEF TypeOK, Cell
<1>4. PointersAgree'
  <2>1. /\ pWrite = Around(pRead, currSz)
        /\ pWrite' = Around(pWrite, 4 + length)
    BY DEF RingInv, PointersAgree, IntSize
  <2>2. /\ pRead \in Nat /\ pRead < bSz
        /\ currSz + 4 + length \in Nat /\ currSz <= currSz + 4 + length
        /\ (currSz + 4 + length) - currSz = 4 + length
    BY <1>1 DEF Cell
  <2>3. Around(Around(pRead, currSz), (currSz + 4 + length) - currSz)
          = Around(pRead, currSz + 4 + length)
    BY <1>1, <2>2, AroundTwice
  <2>4. QED
    BY <1>1, <2>1, <2>2, <2>3 DEF PointersAgree
<1>5. Layout'
  <2>0. n \in Nat /\ length \in Nat /\ currSz \in Nat /\ currSz' = currSz + 4 + length
    BY <1>1
  <2>1. recs' # <<>> /\ currSz' # 0
    <3> HIDE DEF n, length
    <3>1. currSz' # 0
      BY <2>0
    <3>2. Len(recs') # 0
      BY <1>2, <2>0
    <3>3. QED
      BY <3>1, <3>2
  <2>2. recs'[1].off = 0
    <3>1. CASE n = 0
      BY <1>1, <1>2, <3>1 DEF RingInv, Layout
    <3>2. CASE n # 0
      BY <1>1, <1>2, <3>2 DEF RingInv, Layout
    <3>3. QED
      BY <3>1, <3>2
  <2>3. ASSUME NEW i \in 1 .. n + 1
        PROVE  recs'[i].off + Room(recs'[i]) =
                 IF i = n + 1 THEN currSz' ELSE recs'[i + 1].off
    <3>1. CASE i = n + 1
      BY <1>1, <1>2, <3>1 DEF Room, IntSize
    <3>2. CASE i = n
      BY <1>1, <1>2, <3>2, SMTT(30) DEF Room, RingInv, Layout
    <3>3. CASE i < n
      BY <1>1, <1>2, <3>3, SMTT(30) DEF Room, RingInv, Layout
    <3>4. QED
      BY <1>1, <3>1, <3>2, <3>3
  <2>4. ASSUME NEW i \in 1 .. n + 1, NEW j \in 1 .. n + 1, i < j
        PROVE  recs'[i].off + Room(recs'[i]) <= recs'[j].off
    <3>1. CASE j = n + 1
      <4>1. i \in 1 .. n
        BY <1>1, <2>4, <3>1, SMTT(30)
      <4>2. recs[i].off + Room(recs[i]) <= currSz
        BY <4>1, InsideCurrSz
      <4>3. QED
        BY <1>2, <3>1, <4>1, <4>2
    <3>2. CASE j # n + 1
      <4>1. i \in 1 .. n /\ j \in 1 .. n
        BY <1>1, <2>4, <3>2, SMTT(30)
      <4>2. QED
        BY <1>2, <2>4, <4>1 DEF RingInv, Layout
    <3>3. QED
      BY <3>1, <3>2
  <2>5. QED
    BY <1>2, <2>1, <2>2, <2>3, <2>4 DEF Layout
<1>6. Contents'
  <2>1. ASSUME NEW i \in 1 .. n, NEW k \in 0 .. Room(recs[i]) - 1
        PROVE  b'[Around(pRead, recs[i].off + k)] = RecordByte(recs[i], k)
    <3> DEFINE d == recs[i].off + k
    <3>1. /\ recs[i].off \in Nat /\ recs[i].data \in Seq(Byte)
          /\ Len(recs[i].data) \in Nat
      BY RecordTypes DEF RingInv
    <3>2. recs[i].off + Room(recs[i]) <= currSz
      BY <1>1, InsideCurrSz
    <3>3. d \in Nat /\ d < currSz
      <4>1. k \in Nat /\ k < Room(recs[i]) /\ Room(recs[i]) \in Nat
        BY <3>1 DEF Room, IntSize
      <4>2. currSz \in Nat /\ recs[i].off \in Nat
        BY <1>1, <3>1
      <4>3. QED
        BY <3>2, <4>1, <4>2
    <3>4. b[Around(pRead, d)] = RecordByte(recs[i], k)
      BY DEF RingInv, Contents
    <3>5. ~(Distance(pWrite, Around(pRead, d)) < IntSize + Len(buffer)) /\ Around(pRead, d) \in Cell
      <4> HIDE DEF d
      <4>1. pWrite = Around(pRead, currSz)
        BY DEF RingInv, PointersAgree
      <4>2. QED
        BY <1>1, <3>3, <4>1 DEF Distance, Around, Cell, IntSize
    <3>6. QED
      BY <1>1, <3>4, <3>5 DEF RingWrite
  <2>2. ASSUME NEW k \in 0 .. Room(new) - 1
        PROVE  b'[Around(pRead, currSz + k)] = RecordByte(new, k)
    <3>1. k \in Nat /\ k < 4 + length
      BY <1>1 DEF Room, IntSize
    <3>2. /\ Distance(pWrite, Around(pRead, currSz + k)) = k
          /\ Around(pRead, currSz + k) \in Cell
      <4>1. pWrite = Around(pRead, currSz)
        BY DEF RingInv, PointersAgree
      <4>2. QED
        BY <1>1, <3>1, <4>1 DEF Distance, Around, Cell
    <3>3. QED
      BY <1>1, <3>1, <3>2 DEF RingWrite, Rec, IntSize
  <2>3. ASSUME NEW i \in 1 .. n + 1, NEW k \in 0 .. Room(recs'[i]) - 1
        PROVE  b'[Around(pRead, recs'[i].off + k)] = RecordByte(recs'[i], k)
    <3>1. CASE i = n + 1
      BY <1>1, <1>2, <2>2, <3>1
    <3>2. CASE i \in 1 .. n
      BY <1>2, <2>1, <3>2
    <3>3. QED
      BY <1>1, <3>1, <3>2
  <2>4. QED
    BY <1>1, <1>2, <2>3 DEF Contents, Around
<1>7. QED
  BY <1>3, <1>4, <1>5, <1>6 DEF RingInv
-----------------------------------------------------------------------------
(* What Get and Probe read when the ring holds something: the length of the    *)
(* oldest record, and its data from the cell after its header.                 *)
LEMMA ReadsOldest ==
  ASSUME RingInv, currSz # 0
  PROVE  /\ recs # <<>> /\ 1 \in 1 .. Len(recs)
         /\ recs[1].off = 0 /\ Room(recs[1]) <= currSz
         /\ ReadHeader = Len(recs[1].data)
         /\ AfterHeader = Around(pRead, 4)
         /\ ReadData(AfterHeader, ReadHeader) = recs[1].data
<1> DEFINE r == recs[1]
           s == Len(r.data)
<1>1. /\ recs # <<>> /\ 1 \in 1 .. Len(recs) /\ r.off = 0
  BY DEF RingInv, TypeOK, Layout
<1>2. /\ s \in Nat /\ Room(r) = 4 + s /\ r.data \in Seq(Byte)
      /\ 4 + s <= currSz
  BY <1>1, RecordTypes, InsideCurrSz DEF RingInv
<1>3. /\ bSz \in Nat /\ currSz \in Nat /\ currSz <= bSz /\ pRead \in Cell
      /\ 4 + s <= bSz /\ s <= IntMax
  <2>1. /\ bSz \in Nat /\ currSz \in Nat /\ currSz <= bSz /\ pRead \in Cell
    BY SizeAssumption DEF RingInv, TypeOK
  <2> HIDE DEF s
  <2>2. QED
    BY <1>2, <2>1, SizeAssumption DEF IntMax
<1>4. ASSUME NEW k \in 0 .. 3 + s
      PROVE  b[Around(pRead, k)] = RecordByte(r, k)
  <2>1. r.off + k = k /\ k \in 0 .. Room(r) - 1
    BY <1>1, <1>2
  <2> HIDE DEF r
  <2>2. QED
    BY <1>1, <2>1 DEF RingInv, Contents, r
<1> HIDE DEF s
<1>5. ReadHeader = s
  <2> DEFINE l == bSz - pRead
             c(k) == IF pRead + IntSize <= bSz \/ k < l THEN b[pRead + k] ELSE b[k - l]
  <2>1. ASSUME NEW k \in 0 .. 3 PROVE c(k) = HeaderBytes(s)[k + 1]
    <3>1. k \in 0 .. 3 + s
      BY <1>2
    <3>2. c(k) = b[Around(pRead, k)]
      BY <1>3 DEF Around, Cell, IntSize
    <3>3. RecordByte(r, k) = HeaderBytes(s)[k + 1]
      BY DEF RecordByte, IntSize, s
    <3>4. QED
      BY <1>4, <3>1, <3>2, <3>3
  <2>2. ReadHeader = IntAt(c(0), c(1), c(2), c(3))
    BY DEF ReadHeader
  <2> HIDE DEF c
  <2>3. /\ c(0) = HeaderBytes(s)[1] /\ c(1) = HeaderBytes(s)[2]
        /\ c(2) = HeaderBytes(s)[3] /\ c(3) = HeaderBytes(s)[4]
    <3>1. /\ c(0) = HeaderBytes(s)[0 + 1] /\ c(1) = HeaderBytes(s)[1 + 1]
          /\ c(2) = HeaderBytes(s)[2 + 1] /\ c(3) = HeaderBytes(s)[3 + 1]
      BY <2>1
    <3>2. 0 + 1 = 1 /\ 1 + 1 = 2 /\ 2 + 1 = 3 /\ 3 + 1 = 4
      OBVIOUS
    <3>3. QED
      BY <3>1, <3>2
  <2>4. QED
    BY <1>2, <1>3, <2>2, <2>3, HeaderRoundTrip
<1>6. AfterHeader = Around(pRead, 4)
  BY <1>3 DEF AfterHeader, Around, Cell, IntSize
<1>7. ReadData(Around(pRead, 4), s) = r.data
  <2> DEFINE p == Around(pRead, 4)
             l == bSz - p
             d(k) == IF p + s <= bSz \/ k <= l THEN b[p + k - 1] ELSE b[k - l - 1]
  <2>1. p \in Cell
    BY <1>2, <1>3 DEF Around, Cell
  <2>2. ASSUME NEW k \in 1 .. s PROVE d(k) = r.data[k]
    <3>1. k + 3 \in 0 .. 3 + s /\ k \in Nat /\ k >= 1 /\ k <= s
      BY <1>2
    <3>2. d(k) = b[Around(pRead, k + 3)]
      BY <1>2, <1>3, <3>1 DEF Around, Cell
    <3>3. RecordByte(r, k + 3) = r.data[k]
      <4>1. ~(k + 3 < 4) /\ (k + 3) - 4 + 1 = k
        BY <3>1
      <4>2. QED
        BY <4>1 DEF RecordByte, IntSize
    <3>4. QED
      BY <1>4, <3>1, <3>2, <3>3
  <2>3. ReadData(p, s) = [k \in 1 .. s |-> d(k)]
    BY DEF ReadData
  <2> HIDE DEF d, p
  <2>4. r.data = [k \in 1 .. s |-> r.data[k]]
    BY <1>2 DEF s
  <2>5. QED
    BY <2>2, <2>3, <2>4 DEF p
<1>8. QED
  BY <1>1, <1>2, <1>5, <1>6, <1>7 DEF s

(* The read pointer, the count and the records after a Get. *)
LEMMA GetEffect ==
  ASSUME RingInv, Get
  PROVE  /\ currSz # 0
         /\ currSz' = currSz - Room(recs[1])
         /\ pRead' = Around(pRead, Room(recs[1]))
         /\ recs' = Shifted(Tail(recs), Room(recs[1]))
         /\ res' = Result("Get", Len(recs[1].data), recs[1].data)
         /\ UNCHANGED <<b, pWrite>>
<1> DEFINE s == Len(recs[1].data)
           p == Around(pRead, 4)
<1>1. currSz # 0
  BY DEF Get
<1>2. /\ recs # <<>> /\ 1 \in 1 .. Len(recs)
      /\ Room(recs[1]) <= currSz
      /\ ReadHeader = s /\ AfterHeader = p
      /\ ReadData(AfterHeader, ReadHeader) = recs[1].data
  BY <1>1, ReadsOldest
<1>3. s \in Nat /\ Room(recs[1]) = 4 + s
  BY <1>2, RecordTypes DEF RingInv
<1>4. /\ bSz \in Nat /\ currSz \in Nat /\ currSz <= bSz /\ pRead \in Cell
      /\ GetLength \in Nat /\ s <= GetLength
  BY <1>2, <1>3, SizeAssumption, GetAssumption DEF RingInv, TypeOK
<1> DEFINE a == IF s <= GetLength THEN s ELSE GetLength
<1>5. a = s
  BY <1>4
<1> HIDE DEF s, p
<1>6. /\ currSz' = currSz - IntSize - a
      /\ pRead' = IF p + s <= bSz
                  THEN (IF p + a >= bSz THEN 0 ELSE p + a)
                  ELSE s - (bSz - p)
      /\ res' = Result("Get", a, recs[1].data)
      /\ recs' = Shifted(Tail(recs), IntSize + a)
      /\ UNCHANGED <<b, pWrite>>
  BY <1>2 DEF Get
<1>7. currSz' = currSz - Room(recs[1])
  BY <1>3, <1>4, <1>5, <1>6 DEF IntSize
<1>8. pRead' = Around(pRead, Room(recs[1]))
  BY <1>2, <1>3, <1>4, <1>5, <1>6 DEF Around, Cell, p
<1>9. recs' = Shifted(Tail(recs), Room(recs[1])) /\ res' = Result("Get", s, recs[1].data)
  BY <1>3, <1>5, <1>6 DEF IntSize
<1>10. QED
  BY <1>1, <1>6, <1>7, <1>8, <1>9 DEF s

(* The fields of a record. *)
LEMMA RecordFields ==
  ASSUME NEW r, NEW o, NEW d, r = [off |-> o, data |-> d]
  PROVE  /\ r.off = o /\ r.data = d
         /\ o \in Cell /\ d \in Seq(Byte) => r \in [off : Cell, data : Seq(Byte)]
  OBVIOUS

(* Get keeps the ring well formed: the records left only come closer. *)
LEMMA GetPreserves ==
  ASSUME RingInv, Get
  PROVE  RingInv'
<1> DEFINE m == Room(recs[1])
           n == Len(recs)
           R == [off : Cell, data : Seq(Byte)]
<1>1. /\ currSz # 0
      /\ currSz' = currSz - m
      /\ pRead' = Around(pRead, m)
      /\ recs' = Shifted(Tail(recs), m)
      /\ res' = Result("Get", Len(recs[1].data), recs[1].data)
      /\ b' = b /\ pWrite' = pWrite
  BY GetEffect
<1>2. /\ recs # <<>> /\ 1 \in 1 .. n /\ recs[1].off = 0 /\ m <= currSz
  BY <1>1, ReadsOldest
<1>3. /\ m \in Nat /\ Len(recs[1].data) \in Nat /\ recs[1].data \in Seq(Byte)
      /\ m = 4 + Len(recs[1].data)
  BY <1>2, RecordTypes DEF RingInv
<1>4. /\ bSz \in Nat /\ currSz \in Nat /\ currSz <= bSz
      /\ pRead \in Cell /\ pWrite \in Cell /\ recs \in Seq(R) /\ n \in Nat
  BY SizeAssumption DEF RingInv, TypeOK
<1> HIDE DEF m, R
<1>5. /\ Len(Tail(recs)) = n - 1 /\ n - 1 \in Nat
      /\ \A i \in 1 .. n - 1 : Tail(recs)[i] = recs[i + 1]
  BY <1>2, <1>4
<1>6. /\ Len(recs') = n - 1
      /\ \A i \in 1 .. n - 1 : recs'[i] = [off |-> recs[i + 1].off - m, data |-> recs[i + 1].data]
  <2>1. recs' = [i \in 1 .. n - 1 |-> [off |-> Tail(recs)[i].off - m, data |-> Tail(recs)[i].data]]
    BY <1>1, <1>5 DEF Shifted
  <2>2. Len(recs') = n - 1
    BY <2>1, <1>5
  <2>3. QED
    BY <1>5, <2>1, <2>2
<1>7. ASSUME NEW i \in 1 .. n - 1
      PROVE  /\ i + 1 \in 1 .. n
             /\ recs[i + 1].off \in Nat /\ recs[i + 1].off < bSz
             /\ m <= recs[i + 1].off
             /\ recs[i + 1].data \in Seq(Byte)
             /\ recs'[i].off = recs[i + 1].off - m
             /\ recs'[i].data = recs[i + 1].data
             /\ Room(recs'[i]) = Room(recs[i + 1])
             /\ Room(recs[i + 1]) \in Nat
  <2>1. i + 1 \in 1 .. n /\ 1 < i + 1
    BY <1>4
  <2>2. /\ recs[i + 1] \in [off : Cell, data : Seq(Byte)] /\ recs[i + 1].off \in Nat
        /\ recs[i + 1].data \in Seq(Byte) /\ Room(recs[i + 1]) \in Nat
    BY <2>1, RecordTypes DEF RingInv
  <2>3. recs[i + 1].off < bSz
    BY <1>4, <2>2 DEF Cell
  <2>4. recs[1].off + Room(recs[1]) <= recs[i + 1].off
    BY <1>2, <2>1 DEF RingInv, Layout
  <2>5. m <= recs[i + 1].off
    BY <1>2, <1>3, <2>4 DEF m
  <2>6. recs'[i].off = recs[i + 1].off - m /\ recs'[i].data = recs[i + 1].data
    <3>1. recs'[i] = [off |-> recs[i + 1].off - m, data |-> recs[i + 1].data]
      BY <1>6
    <3>2. QED
      BY <3>1, RecordFields
  <2>7. QED
    BY <2>1, <2>2, <2>3, <2>5, <2>6 DEF Room
<1>8. TypeOK'
  <2>1. ASSUME NEW i \in 1 .. n - 1 PROVE recs'[i] \in R
    <3>1. /\ recs[i + 1].off \in Nat /\ recs[i + 1].off < bSz /\ m <= recs[i + 1].off
          /\ recs[i + 1].data \in Seq(Byte)
      BY <1>7
    <3>2. recs[i + 1].off - m \in Cell
      <4>1. m \in Nat /\ bSz \in Nat
        BY <1>3, <1>4
      <4>2. QED
        BY <3>1, <4>1 DEF Cell
    <3>3. recs'[i] = [off |-> recs[i + 1].off - m, data |-> recs[i + 1].data]
      BY <1>6
    <3>4. recs'[i] \in [off : Cell, data : Seq(Byte)]
      BY <3>1, <3>2, <3>3, RecordFields
    <3>5. QED
      BY <3>4 DEF R
  <2>2. recs' \in Seq(R)
    <3>1. recs' = [i \in 1 .. n - 1 |-> recs'[i]]
      BY <1>1, <1>5 DEF Shifted
    <3>2. QED
      BY <1>5, <2>1, <3>1
  <2>3. res' \in [op : {"New", "Put", "Get", "Probe"}, ret : Int, data : Seq(Byte)]
    BY <1>1, <1>3 DEF Result
  <2>4. pRead' \in Cell /\ currSz' \in 0 .. bSz
    BY <1>1, <1>2, <1>3, <1>4 DEF Around, Cell
  <2>5. b' \in [Cell -> Byte] /\ pWrite' \in Cell
    BY <1>1 DEF RingInv, TypeOK
  <2>6. QED
    BY <2>2, <2>3, <2>4, <2>5 DEF TypeOK, R, Cell
<1>9. PointersAgree'
  <2>1. pWrite = Around(pRead, currSz)
    BY DEF RingInv, PointersAgree
  <2>2. pWrite = Around(Around(pRead, m), currSz - m)
    <3>1. m \in Nat /\ m <= currSz /\ currSz \in Nat /\ currSz <= bSz /\ bSz \in Nat
          /\ pRead \in Nat /\ pRead < bSz
      BY <1>2, <1>3, <1>4 DEF Cell
    <3>2. Around(Around(pRead, m), currSz - m) = Around(pRead, currSz)
      BY <3>1, AroundTwice
    <3>3. QED
      BY <2>1, <3>2
  <2>3. QED
    BY <1>1, <2>2 DEF PointersAgree, Around
<1>10. Layout'
  <2>1. /\ n = 1 => currSz = m
        /\ n > 1 => recs[2].off = m
    BY <1>2, <1>3, <1>4 DEF RingInv, Layout, m
  <2>2. n > 1 => /\ recs'[1].off = 0 /\ currSz' # 0 /\ recs' # <<>>
    <3> SUFFICES ASSUME n > 1 PROVE recs'[1].off = 0 /\ currSz' # 0 /\ recs' # <<>>
      OBVIOUS
    <3>1. 1 \in 1 .. n - 1 /\ 2 \in 1 .. n /\ 1 + 1 = 2
      BY <1>4
    <3>2. recs'[1].off = 0
      BY <1>3, <1>7, <2>1, <3>1
    <3>3. recs[2].off + Room(recs[2]) <= currSz /\ Room(recs[2]) \in Nat /\ Room(recs[2]) >= 4
      BY <3>1, InsideCurrSz, RecordTypes DEF RingInv
    <3>4. currSz' # 0
      BY <1>1, <1>3, <1>4, <2>1, <3>3
    <3>5. QED
      BY <1>6, <3>2, <3>4, <1>4
  <2>3. n = 1 => recs' = <<>> /\ currSz' = 0
    BY <1>1, <1>3, <1>4, <1>6, <2>1, <1>8 DEF TypeOK
  <2>4. ASSUME NEW i \in 1 .. n - 1
        PROVE  recs'[i].off + Room(recs'[i]) =
                 IF i = n - 1 THEN currSz' ELSE recs'[i + 1].off
    <3>1. recs[i + 1].off + Room(recs[i + 1]) =
            IF i + 1 = n THEN currSz ELSE recs[i + 2].off
      <4>1. recs[i + 1].off + Room(recs[i + 1]) =
              IF i + 1 = n THEN currSz ELSE recs[(i + 1) + 1].off
        BY <1>7 DEF RingInv, Layout
      <4>2. (i + 1) + 1 = i + 2
        BY <1>4
      <4>3. QED
        BY <4>1, <4>2
    <3>0. /\ recs[i + 1].off \in Nat /\ Room(recs[i + 1]) \in Nat /\ m \in Nat
          /\ recs'[i].off = recs[i + 1].off - m /\ Room(recs'[i]) = Room(recs[i + 1])
          /\ currSz' = currSz - m /\ currSz \in Nat /\ i \in Nat
      BY <1>1, <1>3, <1>4, <1>7
    <3>2. CASE i = n - 1
      <4>1. i + 1 = n
        BY <1>4, <3>2
      <4>2. QED
        BY <3>0, <3>1, <3>2, <4>1, SMTT(30)
    <3>3. CASE i # n - 1
      <4>1. i + 1 \in 1 .. n - 1 /\ (i + 1) + 1 = i + 2 /\ i + 1 # n
        BY <1>4, <3>3
      <4>2. recs'[i + 1].off = recs[i + 2].off - m
        BY <1>7, <4>1
      <4>3. QED
        BY <3>0, <3>1, <3>3, <4>1, <4>2
    <3>4. QED
      BY <3>2, <3>3
  <2>5. ASSUME NEW i \in 1 .. n - 1, NEW j \in 1 .. n - 1, i < j
        PROVE  recs'[i].off + Room(recs'[i]) <= recs'[j].off
    <3>1. i + 1 < j + 1 /\ i + 1 \in 1 .. n /\ j + 1 \in 1 .. n
      BY <1>4, <2>5
    <3>2. recs[i + 1].off + Room(recs[i + 1]) <= recs[j + 1].off
      BY <3>1 DEF RingInv, Layout
    <3>3. /\ recs[i + 1].off \in Nat /\ Room(recs[i + 1]) \in Nat /\ recs[j + 1].off \in Nat
          /\ recs'[i].off = recs[i + 1].off - m /\ Room(recs'[i]) = Room(recs[i + 1])
          /\ recs'[j].off = recs[j + 1].off - m /\ m \in Nat
      BY <1>3, <1>7
    <3>4. QED
      BY <3>2, <3>3
  <2>6. n = 1 \/ n > 1
    <3>1. n - 1 \in Nat /\ n \in Nat
      BY <1>4, <1>5
    <3> HIDE DEF n
    <3>2. QED
      BY <3>1
  <2>7. QED
    BY <1>6, <2>2, <2>3, <2>4, <2>5, <2>6 DEF Layout
<1>11. Contents'
  <2>1. ASSUME NEW i \in 1 .. n - 1, NEW k \in 0 .. Room(recs'[i]) - 1
        PROVE  b[Around(Around(pRead, m), recs'[i].off + k)] = RecordByte(recs'[i], k)
    <3>1. k \in 0 .. Room(recs[i + 1]) - 1 /\ i + 1 \in 1 .. n
      BY <1>7
    <3>2. b[Around(pRead, recs[i + 1].off + k)] = RecordByte(recs[i + 1], k)
      BY <3>1 DEF RingInv, Contents
    <3>3. RecordByte(recs'[i], k) = RecordByte(recs[i + 1], k)
      BY <1>7 DEF RecordByte
    <3>4. recs[i + 1].off + Room(recs[i + 1]) <= currSz
      BY <3>1, InsideCurrSz
    <3>5. /\ k \in Nat /\ recs[i + 1].off \in Nat /\ m <= recs[i + 1].off
          /\ recs[i + 1].off + k < bSz
          /\ recs'[i].off = recs[i + 1].off - m
      BY <1>4, <1>7, <3>1, <3>4
    <3>6. Around(Around(pRead, m), recs'[i].off + k) = Around(pRead, recs[i + 1].off + k)
      <4>1. /\ m \in Nat /\ bSz \in Nat /\ pRead \in Nat /\ pRead < bSz
            /\ recs[i + 1].off + k \in Nat /\ m <= recs[i + 1].off + k
            /\ recs[i + 1].off + k <= bSz
            /\ recs'[i].off + k = (recs[i + 1].off + k) - m
        <5>1. m \in Nat /\ bSz \in Nat /\ pRead \in Nat /\ pRead < bSz
          BY <1>3, <1>4 DEF Cell
        <5>2. QED
          BY <3>5, <5>1
      <4>2. QED
        BY <4>1, AroundTwice
    <3>7. QED
      BY <3>2, <3>3, <3>6
  <2>2. QED
    BY <1>1, <1>6, <2>1 DEF Contents, Around
<1>12. QED
  BY <1>8, <1>9, <1>10, <1>11 DEF RingInv

(* The calls that only return something. *)
LEMMA ReturnPreserves ==
  ASSUME RingInv, UNCHANGED <<b, pWrite, pRead, currSz, recs>>,
         \/ res' = res
         \/ \E op \in {"Put", "Get", "Probe"}, ret \in Int : res' = Result(op, ret, <<>>)
  PROVE  RingInv'
<1>1. res' \in [op : {"New", "Put", "Get", "Probe"}, ret : Int, data : Seq(Byte)]
  <2>1. CASE res' = res
    BY <2>1 DEF RingInv, TypeOK
  <2>2. ASSUME NEW op \in {"Put", "Get", "Probe"}, NEW ret \in Int, res' = Result(op, ret, <<>>)
        PROVE  res' \in [op : {"New", "Put", "Get", "Probe"}, ret : Int, data : Seq(Byte)]
    BY <2>2 DEF Result
  <2>3. QED
    BY <2>1, <2>2
<1>2. TypeOK'
  BY <1>1 DEF RingInv, TypeOK, Cell
<1>3. QED
  BY <1>2 DEF RingInv, PointersAgree, Layout, Contents, Around
-----------------------------------------------------------------------------
(* Every call keeps the ring well formed. *)
LEMMA StepInv == RingInv /\ [Next]_vars => RingInv'
<1> SUFFICES ASSUME RingInv, [Next]_vars PROVE RingInv'
  OBVIOUS
<1>1. ASSUME NEW buffer \in Payloads, PutRefused(buffer) PROVE RingInv'
  BY <1>1, ReturnPreserves DEF PutRefused
<1>2. ASSUME NEW buffer \in Payloads, PutWhole(buffer) PROVE RingInv'
  <2>1. buffer \in Seq(Byte) /\ TypeOK /\ PutAccounting(buffer)
    BY <1>2, PayloadAssumption DEF PutWhole, RingInv
  <2>2. QED
    BY <1>2, <2>1, PutWholeWrites, PutPreserves
<1>3. ASSUME NEW buffer \in Payloads, PutSplit(buffer) PROVE RingInv'
  <2>1. buffer \in Seq(Byte) /\ TypeOK /\ PutAccounting(buffer)
    BY <1>3, PayloadAssumption DEF PutSplit, RingInv
  <2>2. QED
    BY <1>3, <2>1, PutSplitWrites, PutPreserves
<1>4. CASE Get
  BY <1>4, GetPreserves
<1>5. CASE GetEmpty
  BY <1>5, ReturnPreserves DEF GetEmpty
<1>6. CASE Probe
  <2>1. (IF currSz # 0 THEN ReadHeader ELSE 0) \in Int
    <3>1. CASE currSz = 0
      BY <3>1
    <3>2. CASE currSz # 0
      <4>1. ReadHeader = Len(recs[1].data) /\ 1 \in 1 .. Len(recs)
        BY <3>2, ReadsOldest
      <4>2. Len(recs[1].data) \in Nat
        BY <4>1, RecordTypes DEF RingInv
      <4>3. QED
        BY <3>2, <4>1, <4>2
    <3>3. QED
      BY <3>1, <3>2
  <2>2. QED
    BY <1>6, <2>1, ReturnPreserves DEF Probe
<1>7. CASE UNCHANGED vars
  BY <1>7, ReturnPreserves DEF vars
<1>8. QED
  BY <1>1, <1>2, <1>3, <1>4, <1>5, <1>6, <1>7 DEF Next

(* Whatever the callers of ramCircBuff put and get, in whatever order, the     *)
(* three counters of the ring agree, the records held lie end to end between   *)
(* the pointers and every byte of them is as it was put; no copy leaves the    *)
(* array.                                                                      *)
THEOREM RingCorrect == Spec => []RingInv
  BY InitInv, StepInv, PTL DEF Spec

(* Every record held is intact, for every size of the ring. *)
THEOREM RecordsIntact == Spec => []Contents
<1>1. RingInv => Contents
  BY DEF RingInv
<1>2. QED
  BY <1>1, RingCorrect, PTL

(* Both pointers are cells of the array between two calls, and no memcpy of    *)
(* Put writes outside it.                                                      *)
THEOREM RingTyped == Spec => []TypeOK
<1>1. RingInv => TypeOK
  BY DEF RingInv
<1>2. QED
  BY <1>1, RingCorrect, PTL

(* The records held lie end to end from the read pointer, without gap or       *)
(* overlap, and fill exactly the bytes the ring counts.                        *)
THEOREM RecordsEndToEnd == Spec => []Layout
<1>1. RingInv => Layout
  BY DEF RingInv
<1>2. QED
  BY <1>1, RingCorrect, PTL

(* The pointers and the byte count of the ring never drift apart. *)
THEOREM PointersNeverDrift == Spec => []PointersAgree
<1>1. RingInv => PointersAgree
  BY DEF RingInv
<1>2. QED
  BY <1>1, RingCorrect, PTL
-----------------------------------------------------------------------------
(* The queue of records the ring stands for. *)
Queue == [i \in 1 .. Len(recs) |-> recs[i].data]

(* Append and Tail as functions. *)
LEMMA AppendFunction ==
  ASSUME NEW S, NEW u \in Seq(S), NEW e \in S
  PROVE  Append(u, e) = [i \in 1 .. Len(u) + 1 |-> IF i = Len(u) + 1 THEN e ELSE u[i]]
<1>1. /\ Append(u, e) \in Seq(S) /\ Len(Append(u, e)) = Len(u) + 1 /\ Len(u) \in Nat
      /\ \A i \in 1 .. Len(u) : Append(u, e)[i] = u[i]
      /\ Append(u, e)[Len(u) + 1] = e
  BY AppendProperties, LenProperties
<1>2. Append(u, e) \in [1 .. Len(u) + 1 -> S]
  BY <1>1, LenProperties
<1>3. ASSUME NEW i \in 1 .. Len(u) + 1
      PROVE  Append(u, e)[i] = IF i = Len(u) + 1 THEN e ELSE u[i]
  <2>1. i = Len(u) + 1 \/ i \in 1 .. Len(u)
    BY <1>1
  <2>2. QED
    BY <1>1, <2>1
<1>4. QED
  BY <1>2, <1>3

LEMMA TailFunction ==
  ASSUME NEW S, NEW u \in Seq(S), u # <<>>
  PROVE  Tail(u) = [i \in 1 .. Len(u) - 1 |-> u[i + 1]]
<1>1. /\ Tail(u) \in Seq(S) /\ Len(Tail(u)) = Len(u) - 1
      /\ \A i \in 1 .. Len(Tail(u)) : Tail(u)[i] = u[i + 1]
  BY HeadTailProperties
<1>2. Tail(u) \in [1 .. Len(u) - 1 -> S]
  BY <1>1, LenProperties
<1>3. QED
  BY <1>1, <1>2

(* A Put appends to the queue. *)
LEMMA QueuePut ==
  ASSUME RingInv, NEW buffer \in Seq(Byte), PutAccounting(buffer)
  PROVE  Queue' = Append(Queue, buffer)
<1> DEFINE n == Len(recs)
           new == [off |-> currSz, data |-> buffer]
<1>1. recs' = Append(recs, new) /\ n \in Nat /\ recs \in Seq([off : Cell, data : Seq(Byte)])
  BY DEF PutAccounting, RingInv, TypeOK
<1>2. /\ Len(recs') = n + 1 /\ recs'[n + 1] = new
      /\ \A i \in 1 .. n : recs'[i] = recs[i]
  BY <1>1
<1>3. Queue \in Seq(Seq(Byte)) /\ Len(Queue) = n
  BY <1>1, RecordTypes DEF Queue, RingInv
<1>4. Append(Queue, buffer) = [i \in 1 .. n + 1 |-> IF i = n + 1 THEN buffer ELSE Queue[i]]
  BY <1>3, AppendFunction
<1>5. ASSUME NEW i \in 1 .. n + 1
      PROVE  recs'[i].data = IF i = n + 1 THEN buffer ELSE Queue[i]
  <2>1. CASE i = n + 1
    BY <1>2, <2>1
  <2>2. CASE i # n + 1
    <3>1. i \in 1 .. n
      BY <1>1, <2>2
    <3>2. QED
      BY <1>2, <2>2, <3>1 DEF Queue
  <2>3. QED
    BY <2>1, <2>2
<1>6. Queue' = [i \in 1 .. n + 1 |-> recs'[i].data]
  BY <1>2 DEF Queue
<1>7. QED
  BY <1>4, <1>5, <1>6

(* A Get takes its head. *)
LEMMA QueueGet ==
  ASSUME RingInv, Get
  PROVE  Queue # <<>> /\ Queue' = Tail(Queue) /\ Head(Queue) = recs[1].data
<1> DEFINE n == Len(recs)
           m == Room(recs[1])
<1>1. recs' = Shifted(Tail(recs), m) /\ currSz # 0
  BY GetEffect
<1>2. 1 \in 1 .. n /\ n \in Nat /\ recs # <<>> /\ recs \in Seq([off : Cell, data : Seq(Byte)])
  BY <1>1, ReadsOldest DEF RingInv, TypeOK
<1>3. Queue \in Seq(Seq(Byte)) /\ Len(Queue) = n /\ Queue[1] = recs[1].data
  BY <1>2, RecordTypes DEF Queue, RingInv
<1>4. Tail(Queue) = [i \in 1 .. n - 1 |-> Queue[i + 1]] /\ Head(Queue) = recs[1].data /\ Queue # <<>>
  <2>1. Queue # <<>> /\ Head(Queue) = recs[1].data
    BY <1>2, <1>3
  <2>2. QED
    BY <1>3, <2>1, TailFunction
<1> HIDE DEF m
<1>5. /\ Len(recs') = n - 1
      /\ \A i \in 1 .. n - 1 : recs'[i] = [off |-> recs[i + 1].off - m, data |-> recs[i + 1].data]
  <2>1. Len(Tail(recs)) = n - 1 /\ \A i \in 1 .. n - 1 : Tail(recs)[i] = recs[i + 1]
    BY <1>2
  <2>2. recs' = [i \in 1 .. n - 1 |-> [off |-> Tail(recs)[i].off - m, data |-> Tail(recs)[i].data]]
    BY <1>1, <2>1 DEF Shifted
  <2>3. Len(recs') = n - 1
    BY <1>2, <2>2
  <2>4. QED
    BY <2>1, <2>2, <2>3
<1>6. ASSUME NEW i \in 1 .. n - 1 PROVE recs'[i].data = Queue[i + 1]
  <2>1. recs'[i].data = recs[i + 1].data
    <3>1. recs'[i] = [off |-> recs[i + 1].off - m, data |-> recs[i + 1].data]
      BY <1>5
    <3>2. QED
      BY <3>1, RecordFields
  <2>2. i + 1 \in 1 .. n
    BY <1>2
  <2>3. QED
    BY <2>1, <2>2 DEF Queue
<1>7. Queue' = [i \in 1 .. n - 1 |-> recs'[i].data]
  BY <1>5 DEF Queue
<1>8. QED
  BY <1>4, <1>6, <1>7

(* The queue is empty exactly when the byte count is zero. *)
LEMMA QueueEmpty ==
  ASSUME RingInv
  PROVE  /\ Queue = <<>> <=> currSz = 0
         /\ currSz # 0 => Head(Queue) = recs[1].data
<1>1. recs = <<>> <=> currSz = 0
  BY DEF RingInv, Layout
<1>2. Queue \in Seq(Seq(Byte)) /\ Len(Queue) = Len(recs)
  BY RecordTypes DEF Queue, RingInv, TypeOK
<1>3. Queue = <<>> <=> recs = <<>>
  BY <1>2 DEF RingInv, TypeOK
<1>4. ASSUME currSz # 0 PROVE Head(Queue) = recs[1].data
  <2>1. 1 \in 1 .. Len(recs)
    BY <1>4, ReadsOldest
  <2>2. QED
    BY <1>2, <2>1 DEF Queue
<1>5. QED
  BY <1>1, <1>3, <1>4

(* A step of the ring is a step of the queue of records. *)
LEMMA StepRefines == RingInv /\ [Next]_vars => [Fifo!FifoNext]_(Fifo!fifoVars)
<1> SUFFICES ASSUME RingInv, [Next]_vars PROVE [Fifo!FifoNext]_(Fifo!fifoVars)
  OBVIOUS
<1> USE DEF Fifo!FifoNext, Fifo!fifoVars, Fifo!Result, Result
<1>1. ASSUME NEW buffer \in Payloads, PutRefused(buffer) PROVE Fifo!FifoRefuse(buffer)
  <2>1. Queue' = Queue
    BY <1>1 DEF PutRefused, Queue
  <2>2. IntSize + Len(buffer) = Fifo!Cost(buffer)
    BY DEF Fifo!Cost
  <2>3. currSz + (IntSize + Len(buffer)) > bSz
    <3>1. Len(buffer) \in Nat /\ currSz \in Nat
      BY PayloadAssumption DEF RingInv, TypeOK
    <3>2. QED
      BY <1>1, <3>1 DEF PutRefused, IntSize
  <2>4. QED
    BY <1>1, <2>1, <2>2, <2>3 DEF PutRefused, Fifo!FifoRefuse, Queue
<1>2. ASSUME NEW buffer \in Payloads, PutAccounting(buffer) PROVE Fifo!FifoPut(buffer)
  <2>1. buffer \in Seq(Byte)
    BY PayloadAssumption
  <2>2. Queue' = Append(Queue, buffer)
    BY <1>2, <2>1, QueuePut
  <2>3. Fifo!Cost(buffer) = IntSize + Len(buffer)
    BY DEF Fifo!Cost
  <2>4. /\ currSz + (IntSize + Len(buffer)) <= bSz
        /\ currSz' = currSz + (IntSize + Len(buffer))
    <3>1. Len(buffer) \in Nat /\ currSz \in Nat
      BY <2>1 DEF RingInv, TypeOK
    <3>2. QED
      BY <1>2, <3>1 DEF PutAccounting, IntSize
  <2>5. QED
    BY <1>2, <2>2, <2>3, <2>4 DEF PutAccounting, Fifo!FifoPut, Queue
<1>3. ASSUME Get PROVE Fifo!FifoGet
  <2>1. Queue # <<>> /\ Queue' = Tail(Queue) /\ Head(Queue) = recs[1].data
    BY <1>3, QueueGet
  <2>2. /\ currSz' = currSz - (IntSize + Len(recs[1].data))
        /\ res' = Result("Get", Len(recs[1].data), recs[1].data)
    BY <1>3, GetEffect DEF Room
  <2>3. QED
    BY <2>1, <2>2 DEF Fifo!FifoGet, Fifo!Cost, Queue
<1>4. ASSUME GetEmpty PROVE Fifo!FifoGetEmpty
  <2>1. Queue = <<>> /\ Queue' = Queue
    BY <1>4, QueueEmpty DEF GetEmpty, Queue
  <2>2. QED
    BY <1>4, <2>1 DEF GetEmpty, Fifo!FifoGetEmpty, Queue
<1>5. ASSUME Probe PROVE Fifo!FifoProbe
  <2>1. Queue' = Queue
    BY <1>5 DEF Probe, Queue
  <2>2. (IF currSz # 0 THEN ReadHeader ELSE 0) = (IF Queue = <<>> THEN 0 ELSE Len(Head(Queue)))
    BY ReadsOldest, QueueEmpty
  <2>3. QED
    BY <1>5, <2>1, <2>2 DEF Probe, Fifo!FifoProbe, Queue
<1>6. CASE UNCHANGED vars
  <2>1. Queue' = Queue
    BY <1>6 DEF vars, Queue
  <2>2. QED
    BY <1>6, <2>1 DEF vars, Queue
<1>7. QED
  BY <1>1, <1>2, <1>3, <1>4, <1>5, <1>6 DEF Next, PutWhole, PutSplit

(* Whatever the size of the ring and the records put into it, ramCircBuff      *)
(* implements the bounded FIFO of whole records: every Put, Get and Probe      *)
(* returns what the ideal queue returns.                                       *)
THEOREM RingImplementsFifo == Spec => ImplementsFifo
<1>1. Init => Fifo!FifoInit
  <2> SUFFICES ASSUME Init PROVE Fifo!FifoInit
    OBVIOUS
  <2>1. RingInv /\ currSz = 0
    BY InitInv DEF Init
  <2>2. Queue = <<>>
    BY <2>1, QueueEmpty
  <2>3. QED
    BY <2>2 DEF Init, Fifo!FifoInit, Fifo!Result, Result, Queue
<1>2. QED
  BY <1>1, StepRefines, RingCorrect, PTL DEF Spec, ImplementsFifo, Fifo!FifoSpec
=============================================================================
