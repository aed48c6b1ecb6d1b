---------------------------- MODULE UplinkProofs ----------------------------
(***************************************************************************)
(* The uplink, for every list of sensors, every size of the stores, the    *)
(* ring and the frame, and every transfer type.                            *)
(*                                                                         *)
(* The locks are held where the code holds them (LockInv); with that the   *)
(* records are conserved although AddResults and DoServerRequest share     *)
(* TXBuff, and a frame and what is posted of TXBuff stay within it.        *)
(***************************************************************************)
EXTENDS Uplink, SequenceTheorems, WellFoundedInduction, TLAPS

-----------------------------------------------------------------------------
(***************************************************************************)
(* Sums: what holds of no smallest k holds of none.                        *)
(***************************************************************************)
LEMMA Smallest ==
  ASSUME NEW S \in SUBSET Nat, S # {}
  PROVE  \E x \in S : \A y \in S : x <= y
<1>1. PICK x \in S : \A y \in S : ~(<<y, x>> \in OpToRel(<, Nat))
  BY NatLessThanWellFounded, WFMin
<1>2. ASSUME NEW y \in S PROVE x <= y
  <2>1. y < x => <<y, x>> \in OpToRel(<, Nat)
    BY DEF OpToRel
  <2>2. ~(y < x)
    BY <1>1, <2>1, Zenon
  <2> QED
    BY <2>2
<1> QED
  BY <1>2

(* f holds the sums of the first k numbers of c, for every k up to n. *)
Sums(f, c, n) == /\ f \in [0 .. n -> Nat] /\ f[0] = 0
                 /\ \A k \in 1 .. n : f[k] = f[k - 1] + c[k]

LEMMA SumsExist ==
  ASSUME NEW c \in Seq(Nat), NEW n \in 0 .. Len(c)
  PROVE  \E f : Sums(f, c, n)
<1> DEFINE Bad == {m \in 0 .. Len(c) : ~ \E f : Sums(f, c, m)}
<1>0. Len(c) \in Nat /\ \A k \in 1 .. Len(c) : c[k] \in Nat
  OBVIOUS
<1>1. SUFFICES ASSUME Bad # {} PROVE FALSE
  BY <1>1
<1>2. Bad \in SUBSET Nat
  BY <1>0
<1> HIDE DEF Bad
<1>3. PICK m \in Bad : \A y \in Bad : m <= y
  BY <1>1, <1>2, Smallest
<1>4. m \in 0 .. Len(c) /\ ~ \E f : Sums(f, c, m)
  BY DEF Bad
<1>5. CASE m = 0
  <2>1. Sums([k \in 0 .. 0 |-> 0], c, 0)
    BY DEF Sums
  <2> QED
    BY <1>4, <1>5, <2>1
<1>6. CASE m # 0
  <2>1. m - 1 \in 0 .. Len(c) /\ ~(m <= m - 1) /\ m \in 1 .. Len(c)
    BY <1>4, <1>6, <1>0
  <2>2. m - 1 \notin Bad
    BY <1>3, <2>1
  <2>3. PICK f : Sums(f, c, m - 1)
    BY <2>1, <2>2 DEF Bad
  <2> DEFINE g == [k \in 0 .. m |-> IF k = m THEN f[m - 1] + c[m] ELSE f[k]]
  <2>4. f \in [0 .. m - 1 -> Nat] /\ f[0] = 0 /\ \A k \in 1 .. m - 1 : f[k] = f[k - 1] + c[k]
    BY <2>3 DEF Sums
  <2>5. f[m - 1] \in Nat /\ c[m] \in Nat
    BY <2>1, <2>4, <1>0
  <2>6. \A k \in 0 .. m : k # m => f[k] \in Nat
    BY <2>1, <2>4
  <2>7. g \in [0 .. m -> Nat]
    BY SMTT(40), <2>5, <2>6
  <2>8. g[0] = 0
    BY <2>1, <2>4
  <2>9. ASSUME NEW k \in 1 .. m PROVE g[k] = g[k - 1] + c[k]
    <3>1. k \in 0 .. m /\ k - 1 \in 0 .. m /\ k - 1 # m
      BY <2>1
    <3>2. g[k - 1] = f[k - 1]
      BY <3>1
    <3>3. CASE k = m
      BY <3>1, <3>2, <3>3
    <3>4. CASE k # m
      <4>1. k \in 1 .. m - 1
        BY <2>1, <3>4
      <4> QED
        BY <2>4, <3>1, <3>2, <3>4, <4>1
    <3> QED
      BY <3>3, <3>4
  <2>10. Sums(g, c, m)
    BY <2>7, <2>8, <2>9 DEF Sums
  <2> QED
    BY <1>4, <2>10
<1> QED
  BY <1>5, <1>6

LEMMA SumToIsSum ==
  ASSUME NEW c \in Seq(Nat)
  PROVE  Sums(SumTo(c), c, Len(c))
<1> DEFINE n == Len(c)
           Rec(s) == s = [k \in 0 .. n |-> IF k = 0 THEN 0 ELSE s[k - 1] + c[k]]
<1>0. n \in Nat
  OBVIOUS
<1>1. PICK f : Sums(f, c, n)
  BY <1>0, SumsExist
<1>2. Rec(f)
  <2>1. f = [k \in 0 .. n |-> f[k]] /\ f[0] = 0
    BY <1>1 DEF Sums
  <2>2. \A k \in 0 .. n : f[k] = IF k = 0 THEN 0 ELSE f[k - 1] + c[k]
    BY <1>0, <1>1 DEF Sums
  <2> QED
    BY <2>1, <2>2
<1>3. SumTo(c) = CHOOSE s : Rec(s)
  BY DEF SumTo
<1>4. Rec(SumTo(c))
  BY <1>2, <1>3
<1> DEFINE s == SumTo(c)  Bad == {k \in 0 .. n : s[k] \notin Nat}
<1>5. /\ s = [k \in 0 .. n |-> s[k]]
      /\ s[0] = 0
      /\ \A k \in 1 .. n : s[k] = s[k - 1] + c[k]
  BY <1>0, <1>4
<1>6. \A k \in 1 .. n : c[k] \in Nat
  OBVIOUS
<1> HIDE DEF s, n
<1>7. Bad = {}
  <2>1. SUFFICES ASSUME Bad # {} PROVE FALSE
    BY <2>1
  <2>2. Bad \in SUBSET Nat
    BY <1>0
  <2>3. PICK k \in Bad : \A y \in Bad : k <= y
    BY <2>1, <2>2, Smallest
  <2>4. k \in 1 .. n /\ k - 1 \in 0 .. n /\ ~(k <= k - 1)
    BY <1>0, <1>5
  <2>5. s[k - 1] \in Nat
    BY <2>3, <2>4
  <2>6. s[k] = s[k - 1] + c[k] /\ c[k] \in Nat
    BY <1>5, <1>6, <2>4
  <2>7. s[k] \in Nat
    BY <2>5, <2>6
  <2> QED
    BY <2>7
<1>8. s \in [0 .. n -> Nat]
  BY <1>5, <1>7
<1> QED
  BY <1>5, <1>8 DEF Sums, s, n


(* Two sums with the same steps differ by a constant. *)
Steps(f, g, n, d) == /\ \A k \in 0 .. n : f[k] \in Nat /\ g[k] \in Nat
                     /\ f[0] = g[0] + d
                     /\ \A k \in 1 .. n : f[k] - f[k - 1] = g[k] - g[k - 1]

LEMMA SameSteps ==
  ASSUME NEW n \in Nat, NEW f, NEW g, NEW d \in Nat, Steps(f, g, n, d)
  PROVE  f[n] = g[n] + d
<1> USE DEF Steps
<1> DEFINE Bad == {k \in 0 .. n : f[k] # g[k] + d}
<1>1. Bad = {}
  <2>1. SUFFICES ASSUME Bad # {} PROVE FALSE
    BY <2>1
  <2>2. Bad \in SUBSET Nat
    OBVIOUS
  <2>3. PICK k \in Bad : \A y \in Bad : k <= y
    BY <2>1, <2>2, Smallest
  <2>4. k \in 1 .. n /\ k - 1 \in 0 .. n /\ ~(k <= k - 1) /\ k \in 0 .. n
    OBVIOUS
  <2>5. f[k - 1] = g[k - 1] + d
    BY <2>3, <2>4
  <2>6. f[k] - f[k - 1] = g[k] - g[k - 1] /\ f[k] \in Nat /\ g[k] \in Nat
        /\ f[k - 1] \in Nat /\ g[k - 1] \in Nat
    BY <2>4
  <2>7. f[k] = g[k] + d
    BY <2>5, <2>6
  <2> QED
    BY <2>7
<1>2. n \in 0 .. n
  OBVIOUS
<1> QED
  BY <1>1, <1>2

LEMMA SumAppend ==
  ASSUME NEW c \in Seq(Nat), NEW x \in Nat
  PROVE  /\ SumTo(c)[Len(c)] \in Nat
         /\ SumTo(Append(c, x))[Len(c) + 1] = SumTo(c)[Len(c)] + x
<1> DEFINE n == Len(c)  c2 == Append(c, x)  f == SumTo(c2)  g == SumTo(c)
<1>1. /\ n \in Nat /\ c2 \in Seq(Nat) /\ Len(c2) = n + 1 /\ c2[n + 1] = x
      /\ \A k \in 1 .. n : c2[k] = c[k] /\ c[k] \in Nat
  OBVIOUS
<1>2. Sums(f, c2, n + 1) /\ Sums(g, c, n)
  BY <1>1, SumToIsSum
<1> HIDE DEF n, c2, f, g
<1>3. /\ f \in [0 .. n + 1 -> Nat] /\ g \in [0 .. n -> Nat] /\ f[0] = 0 /\ g[0] = 0
      /\ \A k \in 1 .. n + 1 : f[k] = f[k - 1] + c2[k]
      /\ \A k \in 1 .. n : g[k] = g[k - 1] + c[k]
  BY <1>2 DEF Sums
<1>4. \A k \in 0 .. n : f[k] \in Nat /\ g[k] \in Nat
  BY SMTT(40), <1>1, <1>3
<1>5. ASSUME NEW k \in 1 .. n PROVE f[k] - f[k - 1] = g[k] - g[k - 1]
  <2>1. k \in 1 .. n + 1 /\ k - 1 \in 0 .. n /\ k \in 0 .. n
    BY <1>1
  <2>2. f[k] = f[k - 1] + c[k] /\ g[k] = g[k - 1] + c[k] /\ c[k] \in Nat
    BY <1>1, <1>3, <2>1
  <2> QED
    BY <1>4, <2>1, <2>2
<1>6. f[n] = g[n] + 0
  <2>1. f[0] = g[0] + 0 /\ 0 \in Nat /\ n \in Nat
    BY <1>1, <1>3
  <2>2. \A k \in 1 .. n : f[k] - f[k - 1] = g[k] - g[k - 1]
    BY <1>5
  <2>3. Steps(f, g, n, 0)
    BY <1>4, <2>1, <2>2 DEF Steps
  <2> QED
    BY <2>1, <2>3, SameSteps
<1>7. f[n + 1] = f[n] + x
  <2>1. n + 1 \in 1 .. n + 1 /\ (n + 1) - 1 = n
    BY <1>1
  <2> QED
    BY <1>1, <1>3, <2>1
<1>8. g[n] \in Nat
  BY <1>1, <1>3
<1>9. f[n + 1] = g[n] + x
  BY <1>6, <1>7, <1>8
<1> QED
  BY <1>8, <1>9 DEF n, c2, f, g

LEMMA SumTail ==
  ASSUME NEW c \in Seq(Nat), c # <<>>
  PROVE  /\ SumTo(Tail(c))[Len(c) - 1] \in Nat
         /\ SumTo(c)[Len(c)] = SumTo(Tail(c))[Len(c) - 1] + c[1]
<1> DEFINE m == Len(c) - 1  c2 == Tail(c)  h == SumTo(c)  g == SumTo(c2)
           f == [k \in 0 .. m |-> h[k + 1]]
<1>1. /\ m \in Nat /\ c2 \in Seq(Nat) /\ Len(c2) = m /\ Len(c) = m + 1 /\ c[1] \in Nat
      /\ \A k \in 1 .. m : c2[k] = c[k + 1] /\ c[k + 1] \in Nat
  <2>1. Len(c) \in Nat /\ Len(c) > 0 /\ c2 \in Seq(Nat) /\ Len(c2) = m
        /\ \A k \in 1 .. m : c2[k] = c[k + 1]
    BY HeadTailProperties
  <2>2. \A k \in 1 .. Len(c) : c[k] \in Nat
    OBVIOUS
  <2> HIDE DEF c2
  <2> QED
    BY <2>1, <2>2
<1>2. Sums(h, c, m + 1) /\ Sums(g, c2, m)
  BY <1>1, SumToIsSum
<1> HIDE DEF m, c2, h, g
<1>3. /\ h \in [0 .. m + 1 -> Nat] /\ g \in [0 .. m -> Nat] /\ h[0] = 0 /\ g[0] = 0
      /\ \A k \in 1 .. m + 1 : h[k] = h[k - 1] + c[k]
      /\ \A k \in 1 .. m : g[k] = g[k - 1] + c2[k]
  BY <1>2 DEF Sums
<1>4. \A k \in 0 .. m : f[k] \in Nat /\ g[k] \in Nat
  <2>1. \A k \in 0 .. m : k + 1 \in 0 .. m + 1
    BY <1>1
  <2> QED
    BY <1>3, <2>1
<1>5. ASSUME NEW k \in 1 .. m PROVE f[k] - f[k - 1] = g[k] - g[k - 1]
  <2>1. k + 1 \in 1 .. m + 1 /\ k - 1 \in 0 .. m /\ k \in 0 .. m /\ (k + 1) - 1 = k /\ (k - 1) + 1 = k
    BY <1>1
  <2>2. f[k] = h[k + 1] /\ f[k - 1] = h[k]
    BY <2>1
  <2>3. h[k + 1] = h[k] + c[k + 1] /\ g[k] = g[k - 1] + c[k + 1] /\ c[k + 1] \in Nat
    BY <1>1, <1>3, <2>1
  <2>4. f[k - 1] \in Nat /\ g[k - 1] \in Nat
    BY <1>4, <2>1
  <2> HIDE DEF f
  <2> QED
    BY <2>2, <2>3, <2>4
<1>6. f[0] = g[0] + c[1]
  <2>1. 1 \in 1 .. m + 1 /\ 0 \in 0 .. m
    BY <1>1
  <2>2. f[0] = h[1] /\ h[1] = h[0] + c[1]
    BY <1>3, <2>1
  <2> QED
    BY <1>1, <1>3, <2>2
<1>7. f[m] = h[m + 1]
  BY <1>1
<1> HIDE DEF f
<1>8. f[m] = g[m] + c[1]
  <2>1. m \in Nat /\ c[1] \in Nat
    BY <1>1
  <2>2. \A k \in 1 .. m : f[k] - f[k - 1] = g[k] - g[k - 1]
    BY <1>5
  <2>3. Steps(f, g, m, c[1])
    BY <1>4, <1>6, <2>2 DEF Steps
  <2> QED
    BY <2>1, <2>3, SameSteps
<1>9. g[m] \in Nat
  BY <1>1, <1>3
<1>10. h[m + 1] = g[m] + c[1] /\ Len(c) = m + 1
  BY <1>1, <1>7, <1>8
<1> QED
  BY <1>9, <1>10 DEF m, c2, h, g

LEMMA SeqIsFcn ==
  ASSUME NEW t \in Seq(Nat), NEW n, Len(t) = n
  PROVE  t = [k \in 1 .. n |-> t[k]]
OBVIOUS

-----------------------------------------------------------------------------
(***************************************************************************)
(* Bytes of records, in the ring and in a frame.                           *)
(***************************************************************************)
LEMMA ConstantFacts ==
  /\ Len(Sensors) \in Nat /\ Len(Sensors) > 0 /\ DOMAIN Sensors = 1 .. Len(Sensors)
  /\ \A k \in 1 .. Len(Sensors) : Sensors[k] \in Sensor
  /\ MaxSamples \in [Sensor -> Nat]
  /\ ResultsMax \in Nat /\ ResultsMax > 0 /\ SampleSize \in Nat /\ Capacity \in Nat
  /\ FrameMax \in Nat /\ FrameMax >= HdrSize
BY UplinkAssumption DEF Sensor

LEMMA SizesNat ==
  ASSUME NEW r \in Record
  PROVE  RecordSize(r) \in Nat /\ RingCost(r) \in Nat
<1>1. Len(r.data) \in Nat /\ SampleSize \in Nat
  BY ConstantFacts DEF Record
<1>2. \A a, b \in Nat : 3 + a * b \in Nat
  OBVIOUS
<1>3. RecordSize(r) \in Nat
  BY <1>1, <1>2 DEF RecordSize
<1> QED
  BY <1>3 DEF RingCost, IntSize

LEMMA RingBytesAppend ==
  ASSUME NEW s \in Seq(Record), NEW r \in Record
  PROVE  RingBytes(Append(s, r)) = RingBytes(s) + RingCost(r) /\ RingBytes(s) \in Nat
<1> DEFINE s2 == Append(s, r)  n == Len(s)
           c == [k \in 1 .. n |-> RingCost(s[k])]  c2 == [k \in 1 .. Len(s2) |-> RingCost(s2[k])]
<1>1. /\ n \in Nat /\ Len(s2) = n + 1 /\ s2[n + 1] = r
      /\ \A k \in 1 .. n : s2[k] = s[k] /\ s[k] \in Record
  OBVIOUS
<1>2. RingCost(r) \in Nat /\ \A k \in 1 .. n : RingCost(s[k]) \in Nat
  BY <1>1, SizesNat
<1>3. c \in Seq(Nat) /\ Len(c) = n
  BY <1>1, <1>2
<1>4. c2 = Append(c, RingCost(r))
  <2> DEFINE t == Append(c, RingCost(r))
  <2>1. t = [k \in 1 .. n + 1 |-> t[k]]
    <3> HIDE DEF c
    <3>1. t \in Seq(Nat) /\ Len(t) = n + 1
      BY <1>2, <1>3
    <3> HIDE DEF t
    <3> QED
      BY <3>1, SeqIsFcn
  <2>2. Append(c, RingCost(r))[n + 1] = RingCost(r) /\ \A k \in 1 .. n : Append(c, RingCost(r))[k] = c[k]
    BY <1>2, <1>3
  <2>3. \A k \in 1 .. n + 1 : c2[k] = t[k]
    BY <1>1, <2>2
  <2>4. c2 = [k \in 1 .. n + 1 |-> c2[k]]
    BY <1>1
  <2> HIDE DEF c, c2, t
  <2>5. c2 = t
    BY <2>1, <2>3, <2>4
  <2> QED
    BY <2>5 DEF t
<1>5. SumTo(c)[n] \in Nat /\ SumTo(Append(c, RingCost(r)))[n + 1] = SumTo(c)[n] + RingCost(r)
  BY <1>2, <1>3, SumAppend
<1>6. SumTo(c2)[Len(s2)] = SumTo(c)[n] + RingCost(r)
  BY <1>1, <1>4, <1>5
<1>7. RingBytes(s) = SumTo(c)[n] /\ RingBytes(s2) = SumTo(c2)[Len(s2)]
  BY DEF RingBytes
<1> HIDE DEF c, c2, s2
<1> QED
  BY <1>2, <1>5, <1>6, <1>7 DEF s2, HdrSize

LEMMA FrameBytesAppend ==
  ASSUME NEW s \in Seq(Record), NEW r \in Record
  PROVE  FrameBytes(Append(s, r)) = FrameBytes(s) + RecordSize(r) /\ FrameBytes(s) \in Nat
<1> DEFINE s2 == Append(s, r)  n == Len(s)
           c == [k \in 1 .. n |-> RecordSize(s[k])]  c2 == [k \in 1 .. Len(s2) |-> RecordSize(s2[k])]
<1>1. /\ n \in Nat /\ Len(s2) = n + 1 /\ s2[n + 1] = r
      /\ \A k \in 1 .. n : s2[k] = s[k] /\ s[k] \in Record
  OBVIOUS
<1>2. RecordSize(r) \in Nat /\ \A k \in 1 .. n : RecordSize(s[k]) \in Nat
  BY <1>1, SizesNat
<1>3. c \in Seq(Nat) /\ Len(c) = n
  BY <1>1, <1>2
<1>4. c2 = Append(c, RecordSize(r))
  <2> DEFINE t == Append(c, RecordSize(r))
  <2>1. t = [k \in 1 .. n + 1 |-> t[k]]
    <3> HIDE DEF c
    <3>1. t \in Seq(Nat) /\ Len(t) = n + 1
      BY <1>2, <1>3
    <3> HIDE DEF t
    <3> QED
      BY <3>1, SeqIsFcn
  <2>2. Append(c, RecordSize(r))[n + 1] = RecordSize(r) /\ \A k \in 1 .. n : Append(c, RecordSize(r))[k] = c[k]
    BY <1>2, <1>3
  <2>3. \A k \in 1 .. n + 1 : c2[k] = t[k]
    BY <1>1, <2>2
  <2>4. c2 = [k \in 1 .. n + 1 |-> c2[k]]
    BY <1>1
  <2> HIDE DEF c, c2, t
  <2>5. c2 = t
    BY <2>1, <2>3, <2>4
  <2> QED
    BY <2>5 DEF t
<1>5. SumTo(c)[n] \in Nat /\ SumTo(Append(c, RecordSize(r)))[n + 1] = SumTo(c)[n] + RecordSize(r)
  BY <1>2, <1>3, SumAppend
<1>6. SumTo(c2)[Len(s2)] = SumTo(c)[n] + RecordSize(r)
  BY <1>1, <1>4, <1>5
<1>7. FrameBytes(s) = HdrSize + SumTo(c)[n] /\ FrameBytes(s2) = HdrSize + SumTo(c2)[Len(s2)]
  BY DEF FrameBytes
<1> HIDE DEF c, c2, s2
<1> QED
  BY SMTT(40), <1>2, <1>5, <1>6, <1>7 DEF s2, HdrSize

LEMMA RingBytesTail ==
  ASSUME NEW s \in Seq(Record), s # <<>>
  PROVE  /\ RingBytes(Tail(s)) \in Nat /\ Head(s) \in Record /\ RingCost(Head(s)) \in Nat
         /\ RingBytes(s) = RingBytes(Tail(s)) + RingCost(Head(s))
<1> DEFINE s2 == Tail(s)  m == Len(s) - 1
           c == [k \in 1 .. Len(s) |-> RingCost(s[k])]  c2 == [k \in 1 .. Len(s2) |-> RingCost(s2[k])]
<1>1. /\ m \in Nat /\ Len(s2) = m /\ Len(s) = m + 1 /\ \A k \in 1 .. m : s2[k] = s[k + 1]
  <2>1. Len(s) \in Nat /\ Len(s) > 0 /\ Len(s2) = m /\ \A k \in 1 .. m : s2[k] = s[k + 1]
    BY HeadTailProperties
  <2> HIDE DEF s2
  <2> QED
    BY <2>1
<1>2. Head(s) = s[1] /\ Head(s) \in Record /\ \A k \in 1 .. m + 1 : s[k] \in Record
  BY <1>1
<1>3. RingCost(Head(s)) \in Nat /\ \A k \in 1 .. m + 1 : RingCost(s[k]) \in Nat
  BY <1>2, SizesNat
<1> HIDE DEF s2, m
<1>4. c \in Seq(Nat) /\ Len(c) = m + 1 /\ c # <<>> /\ c[1] = RingCost(Head(s))
  BY <1>1, <1>2, <1>3
<1>5. c2 = Tail(c)
  <2>1. Tail(c) \in Seq(Nat) /\ Len(Tail(c)) = m /\ \A k \in 1 .. m : Tail(c)[k] = c[k + 1]
    <3> HIDE DEF c
    <3>1. Tail(c) \in Seq(Nat) /\ Len(Tail(c)) = Len(c) - 1
          /\ \A k \in 1 .. Len(Tail(c)) : Tail(c)[k] = c[k + 1]
      BY <1>4, HeadTailProperties
    <3> QED
      BY <1>1, <1>4, <3>1
  <2>2. \A k \in 1 .. m : k + 1 \in 1 .. m + 1
    BY <1>1
  <2>3. \A k \in 1 .. m : c2[k] = c[k + 1]
    BY <1>1, <2>2
  <2>4. c2 = [k \in 1 .. m |-> c2[k]]
    BY <1>1
  <2> DEFINE t == Tail(c)
  <2>5. t = [k \in 1 .. m |-> t[k]]
    <3> HIDE DEF c
    <3>1. t \in Seq(Nat) /\ Len(t) = m
      BY <2>1
    <3> HIDE DEF t
    <3> QED
      BY <3>1, SeqIsFcn
  <2> HIDE DEF c, c2, t
  <2>6. \A k \in 1 .. m : t[k] = c2[k]
    BY <2>1, <2>3 DEF t
  <2>7. t = c2
    BY <2>4, <2>5, <2>6
  <2> QED
    BY <2>7 DEF t
<1>6. SumTo(Tail(c))[Len(c) - 1] \in Nat /\ SumTo(c)[Len(c)] = SumTo(Tail(c))[Len(c) - 1] + c[1]
  BY <1>4, SumTail
<1>7. Len(c) - 1 = m
  BY <1>1, <1>4
<1>8. SumTo(c2)[m] \in Nat /\ SumTo(c)[m + 1] = SumTo(c2)[m] + RingCost(Head(s))
  BY <1>4, <1>5, <1>6, <1>7
<1>9. RingBytes(s) = SumTo(c)[Len(s)] /\ RingBytes(s2) = SumTo(c2)[Len(s2)]
  BY DEF RingBytes
<1> HIDE DEF c, c2
<1> QED
  BY <1>1, <1>2, <1>3, <1>8, <1>9 DEF s2

LEMMA JoinAppend ==
  ASSUME NEW a \in Seq(Record), NEW b \in Seq(Record), NEW r \in Record
  PROVE  Append(a \o <<>> \o b, r) = a \o <<>> \o Append(b, r)
OBVIOUS

LEMMA MoveHead ==
  ASSUME NEW a \in Seq(Record), NEW b \in Seq(Record), NEW c \in Seq(Record), c # <<>>
  PROVE  a \o b \o c = a \o Append(b, Head(c)) \o Tail(c)
<1>1. Append(b, Head(c)) \in Seq(Record) /\ Tail(c) \in Seq(Record)
  OBVIOUS
<1>2. b \o c = Append(b, Head(c)) \o Tail(c)
  OBVIOUS
<1> QED
  BY SMTT(40), <1>1, <1>2, ConcatAssociative

LEMMA NoBytes == RingBytes(<<>>) = 0 /\ FrameBytes(<<>>) = HdrSize
<1>1. /\ [k \in 1 .. Len(<<>>) |-> RingCost(<<>>[k])] = <<>>
      /\ [k \in 1 .. Len(<<>>) |-> RecordSize(<<>>[k])] = <<>>
  OBVIOUS
<1>2. SumTo(<<>>)[0] = 0
  <2>1. <<>> \in Seq(Nat) /\ Len(<<>>) = 0
    OBVIOUS
  <2>2. Sums(SumTo(<<>>), <<>>, 0)
    BY <2>1, SumToIsSum
  <2> QED
    BY <2>2 DEF Sums
<1> QED
  BY <1>1, <1>2 DEF RingBytes, FrameBytes, HdrSize

-----------------------------------------------------------------------------
(***************************************************************************)
(* The inductive invariant.                                                *)
(***************************************************************************)
(* Who holds which mutex, and the record AddResults has built. *)
LockInv ==
  /\ BuffMtx = "main" <=> mpc = "put"
  /\ BuffMtx = "com" <=> cpc \in {"drain", "post"}
  /\ mpc = "put" => TXBuff # <<>>
  /\ \A s \in Sensor : resMtx[s] = "sensor" <=> spc[s] = "locked"
  /\ mpc = "copy" => resMtx[Sensors[idx]] = "main"

(* A sensor that has found room still has it: only it appends to its store. *)
StoreInv == \A s \in Sensor : /\ Len(results[s]) <= ResultsMax
                              /\ spc[s] # "loop" => Len(results[s]) < ResultsMax

(* What NeedTransfer and Probe count is what the records take. *)
UsedIsExact == used = RingBytes(q) /\ used <= Capacity

(* A frame is filled from a ring that nobody adds to meanwhile: frame and ring *)
(* together never hold more than the ring could.                               *)
RoomInv == cpc \in {"drain", "post"} => (currLen - HdrSize) + used <= Capacity

UplinkInv == /\ TypeOK /\ LockInv /\ StoreInv
             /\ UsedIsExact /\ RoomInv /\ FrameFits /\ RecordsConserved

LEMMA InitUplink == Init => UplinkInv
<1> SUFFICES ASSUME Init PROVE UplinkInv
  OBVIOUS
<1>1. TypeOK
  <2>1. /\ produced \in [Sensor -> Nat] /\ \A s \in Sensor : produced[s] <= MaxSamples[s]
        /\ spc \in [Sensor -> {"loop", "checked", "locked"}]
        /\ results \in [Sensor -> Seq(Sample)]
        /\ resMtx \in [Sensor -> {"free", "sensor", "main"}]
    BY ConstantFacts DEF Init
  <2>2. /\ mpc \in {"capture", "copy", "check", "add", "put"} /\ idx \in 1 .. Len(Sensors)
        /\ dataResult \in Seq(Sample) /\ len \in Nat /\ BuffMtx \in {"free", "main", "com"}
    BY ConstantFacts DEF Init
  <2>3. /\ TXBuff \in Seq(Record) /\ q \in Seq(Record) /\ used \in Nat
        /\ cpc \in {"wait", "lock", "drain", "post"} /\ currLen \in Nat
        /\ accepted \in Seq(Record) /\ sent \in Seq(Record) /\ posted \in Nat
    BY DEF Init
  <2>4. first \in BOOLEAN /\ send \in BOOLEAN
    BY DEF Init
  <2> QED
    BY <2>1, <2>2, <2>3, <2>4 DEF TypeOK
<1>2. LockInv
  BY DEF Init, LockInv
<1>3. StoreInv
  BY ConstantFacts DEF Init, StoreInv
<1>4. UsedIsExact /\ RoomInv /\ FrameFits
  BY NoBytes, ConstantFacts DEF Init, UsedIsExact, RoomInv, FrameFits
<1>5. RecordsConserved
  BY DEF Init, RecordsConserved, InFlight
<1> QED
  BY <1>1, <1>2, <1>3, <1>4, <1>5 DEF UplinkInv

LEMMA NextIndexInList ==
  ASSUME TypeOK
  PROVE  NextIndex \in 1 .. Len(Sensors)
<1>1. Len(Sensors) \in Nat /\ Len(Sensors) > 0 /\ idx \in 1 .. Len(Sensors)
  BY ConstantFacts DEF TypeOK
<1> QED
  BY <1>1 DEF NextIndex

LEMMA CurrentSensor ==
  ASSUME TypeOK
  PROVE  Sensors[idx] \in Sensor /\ [type |-> Sensors[idx], data |-> dataResult] \in Record
BY ConstantFacts DEF TypeOK, Record

(* The record at the head of the ring, and what remains behind it. *)
LEMMA HeadFacts ==
  ASSUME UplinkInv, q # <<>>
  PROVE  /\ q \in Seq(Record) /\ Head(q) \in Record /\ Tail(q) \in Seq(Record)
         /\ RecordSize(Head(q)) \in Nat /\ RingCost(Head(q)) \in Nat
         /\ used - RingCost(Head(q)) = RingBytes(Tail(q)) /\ RingBytes(Tail(q)) \in Nat
         /\ used - RingCost(Head(q)) <= used
<1>1. q \in Seq(Record) /\ used = RingBytes(q)
  BY DEF UplinkInv, TypeOK, UsedIsExact
<1>2. /\ RingBytes(Tail(q)) \in Nat /\ Head(q) \in Record /\ RingCost(Head(q)) \in Nat
      /\ RingBytes(q) = RingBytes(Tail(q)) + RingCost(Head(q))
  BY <1>1, RingBytesTail
<1>3. Tail(q) \in Seq(Record)
  BY <1>1
<1>4. RecordSize(Head(q)) \in Nat
  BY <1>2, SizesNat
<1> QED
  BY <1>1, <1>2, <1>3, <1>4

(* The record AddResults hands to Put. *)
LEMMA BuiltFacts ==
  ASSUME UplinkInv, mpc = "put"
  PROVE  /\ TXBuff[1] \in Record /\ RingCost(TXBuff[1]) \in Nat /\ q \in Seq(Record)
         /\ Append(q, TXBuff[1]) \in Seq(Record) /\ Append(accepted, TXBuff[1]) \in Seq(Record)
         /\ RingBytes(Append(q, TXBuff[1])) = RingBytes(q) + RingCost(TXBuff[1])
<1>1. TXBuff \in Seq(Record) /\ TXBuff # <<>> /\ q \in Seq(Record) /\ accepted \in Seq(Record)
  BY DEF UplinkInv, TypeOK, LockInv
<1>2. TXBuff[1] \in Record
  BY <1>1
<1> QED
  BY SMTT(40), <1>1, <1>2, SizesNat, RingBytesAppend

LEMMA TypeStep ==
  ASSUME UplinkInv, [Next]_vars
  PROVE  TypeOK'
<1>a. TypeOK
  BY DEF UplinkInv
<1>1. CASE \E s \in Sensor : SensorLoop(s)
  <2>1. PICK s \in Sensor : SensorLoop(s)
    BY <1>1
  <2>2. /\ produced' = [produced EXCEPT ![s] = produced[s] + 1] /\ produced[s] < MaxSamples[s]
        /\ produced \in [Sensor -> Nat] /\ \A t \in Sensor : produced[t] <= MaxSamples[t]
        /\ MaxSamples \in [Sensor -> Nat]
    BY <1>a, <2>1, ConstantFacts DEF SensorLoop, TypeOK
  <2>3. produced' \in [Sensor -> Nat] /\ \A t \in Sensor : produced'[t] <= MaxSamples[t]
    BY <2>2
  <2>4. spc' \in [Sensor -> {"loop", "checked", "locked"}]
    BY <1>a, <2>1 DEF SensorLoop, TypeOK
  <2> QED
    BY <1>a, <2>1, <2>3, <2>4 DEF SensorLoop, TypeOK, mainVars, ringVars, comVars, history
<1>2. CASE \E s \in Sensor : SensorTryLock(s)
  BY ZenonT(60), <1>2, <1>a, ConstantFacts DEF SensorTryLock, TypeOK, vars, sensorVars, mainVars, ringVars, comVars, history
<1>3. CASE \E s \in Sensor : SensorStore(s)
  <2>1. PICK s \in Sensor : SensorStore(s)
    BY <1>3
  <2>2. Append(results[s], <<s, produced[s]>>) \in Seq(Sample)
    BY <1>a DEF TypeOK, Sample
  <2> QED
    BY <1>a, <2>1, <2>2 DEF SensorStore, TypeOK, mainVars, ringVars, comVars, history
<1>4. CASE CaptureLock
  BY <1>4, <1>a, CurrentSensor DEF CaptureLock, TypeOK, ringVars, comVars, history
<1>5. CASE CaptureBusy
  BY <1>5, <1>a, ConstantFacts DEF CaptureBusy, TypeOK, vars, sensorVars, mainVars, ringVars, comVars, history
<1>6. CASE CaptureCopy
  BY SMTT(40), <1>6, <1>a, CurrentSensor DEF CaptureCopy, TypeOK, ringVars, comVars, history
<1>7. CASE CheckLen
  BY <1>7, <1>a, NextIndexInList DEF CheckLen, TypeOK, sensorVars, ringVars, comVars, history
<1>8. CASE AddResultsLock
  <2>1. <<[type |-> Sensors[idx], data |-> dataResult]>> \in Seq(Record)
    BY <1>a, CurrentSensor
  <2> QED
    BY <1>8, <1>a, <2>1 DEF AddResultsLock, TypeOK, sensorVars, ringVars, comVars, history
<1>9. CASE AddResultsPut
  <2>1. /\ q' \in Seq(Record) /\ accepted' \in Seq(Record) /\ used' \in Nat
    BY <1>9, <1>a, BuiltFacts DEF AddResultsPut, TypeOK
  <2> QED
    BY <1>9, <1>a, <2>1, NextIndexInList DEF AddResultsPut, TypeOK, sensorVars, comVars
<1>10. CASE ComWake
  BY <1>10, <1>a, ConstantFacts DEF ComWake, TypeOK, vars, sensorVars, mainVars, ringVars, comVars, history
<1>11. CASE ComLock
  <2>1. first' \in BOOLEAN /\ send' \in BOOLEAN
    BY <1>11 DEF ComLock, FillHeader
  <2>2. currLen' \in Nat /\ TXBuff' \in Seq(Record) /\ BuffMtx' \in {"free", "main", "com"}
        /\ cpc' \in {"wait", "lock", "drain", "post"}
    BY <1>11 DEF ComLock, FillHeader, HdrSize
  <2>3. UNCHANGED <<sensorVars, mainVars, ringVars, history>>
    BY <1>11 DEF ComLock
  <2> QED
    BY <1>a, <2>1, <2>2, <2>3 DEF TypeOK, sensorVars, mainVars, ringVars, history
<1>12. CASE ComDrain
  <2>1. /\ Append(TXBuff, Head(q)) \in Seq(Record) /\ currLen + RecordSize(Head(q)) \in Nat
        /\ Tail(q) \in Seq(Record) /\ used - RingCost(Head(q)) \in Nat
    <3>1. q # <<>> /\ TXBuff \in Seq(Record) /\ currLen \in Nat
      BY <1>12, <1>a DEF ComDrain, TypeOK
    <3>2. /\ Head(q) \in Record /\ Tail(q) \in Seq(Record) /\ RecordSize(Head(q)) \in Nat
          /\ used - RingCost(Head(q)) \in Nat
      BY <3>1, HeadFacts
    <3> QED
      BY <3>1, <3>2
  <2> QED
    BY <1>12, <1>a, <2>1 DEF ComDrain, TypeOK, sensorVars, mainVars, history
<1>13. CASE ComFrameDone
  BY <1>13, <1>a, ConstantFacts DEF ComFrameDone, TypeOK, vars, sensorVars, mainVars, ringVars, comVars, history
<1>14. CASE ComPost
  <2>1. sent' \in Seq(Record) /\ posted' \in Nat
    BY <1>14, <1>a DEF ComPost, TypeOK
  <2>2. first' \in BOOLEAN /\ send' = send
    BY <1>14, <1>a DEF ComPost, FillHeader, TypeOK
  <2>3. currLen' \in Nat /\ TXBuff' \in Seq(Record) /\ BuffMtx' \in {"free", "main", "com"}
        /\ cpc' \in {"wait", "lock", "drain", "post"}
    <3>1. TXBuff \in Seq(Record) /\ currLen \in Nat /\ BuffMtx \in {"free", "main", "com"}
      BY <1>a DEF TypeOK
    <3>2. CASE FillHeader /\ UNCHANGED BuffMtx
      BY <3>1, <3>2 DEF FillHeader, HdrSize
    <3>3. CASE BuffMtx' = "free" /\ cpc' = "wait" /\ UNCHANGED <<TXBuff, currLen>>
      BY <3>1, <3>3
    <3> QED
      BY <1>14, <3>2, <3>3 DEF ComPost
  <2>4. UNCHANGED <<sensorVars, mainVars, ringVars, accepted>>
    BY <1>14 DEF ComPost
  <2> QED
    BY <1>a, <2>1, <2>2, <2>3, <2>4 DEF TypeOK, sensorVars, mainVars, ringVars
<1>15. CASE UNCHANGED vars
  BY <1>15, <1>a, ConstantFacts DEF TypeOK, vars, sensorVars, mainVars, ringVars, comVars, history
<1> QED
  BY <1>1, <1>2, <1>3, <1>4, <1>5, <1>6, <1>7, <1>8, <1>9, <1>10, <1>11, <1>12, <1>13, <1>14, <1>15 DEF Next

LEMMA LockStep ==
  ASSUME UplinkInv, [Next]_vars
  PROVE  LockInv'
<1>a. TypeOK /\ LockInv
  BY DEF UplinkInv
<1>1. CASE \E s \in Sensor : SensorLoop(s)
  BY <1>1, <1>a DEF SensorLoop, TypeOK, LockInv, vars, sensorVars, mainVars, ringVars, comVars, history
<1>2. CASE \E s \in Sensor : SensorTryLock(s)
  <2>1. PICK s \in Sensor : SensorTryLock(s)
    BY <1>2
  <2>2. UNCHANGED <<mainVars, BuffMtx, TXBuff, comVars>>
    BY <2>1 DEF SensorTryLock
  <2>3. CASE resMtx[s] = "free"
    <3>1. /\ resMtx' = [resMtx EXCEPT ![s] = "sensor"] /\ spc' = [spc EXCEPT ![s] = "locked"]
      BY <2>1, <2>3 DEF SensorTryLock
    <3>2. \A t \in Sensor : resMtx'[t] = "sensor" <=> spc'[t] = "locked"
      BY <1>a, <3>1 DEF TypeOK, LockInv
    <3>3. mpc = "copy" => resMtx'[Sensors[idx]] = "main"
      BY <1>a, <2>3, <3>1, CurrentSensor DEF TypeOK, LockInv
    <3> QED
      BY <1>a, <2>2, <3>2, <3>3 DEF LockInv, mainVars, comVars
  <2>4. CASE resMtx[s] # "free"
    BY <1>a, <2>1, <2>2, <2>4 DEF SensorTryLock, TypeOK, LockInv, mainVars, comVars
  <2> QED
    BY <2>3, <2>4
<1>3. CASE \E s \in Sensor : SensorStore(s)
  BY <1>3, <1>a DEF SensorStore, TypeOK, LockInv, vars, sensorVars, mainVars, ringVars, comVars, history
<1>4. CASE CaptureLock
  BY <1>4, <1>a, CurrentSensor DEF CaptureLock, TypeOK, LockInv, comVars
<1>5. CASE CaptureBusy
  BY <1>5, <1>a DEF CaptureBusy, TypeOK, LockInv, vars, sensorVars, mainVars, ringVars, comVars, history
<1>6. CASE CaptureCopy
  BY <1>6, <1>a, CurrentSensor DEF CaptureCopy, TypeOK, LockInv, comVars
<1>7. CASE CheckLen
  BY <1>7, <1>a DEF CheckLen, TypeOK, LockInv, vars, sensorVars, mainVars, ringVars, comVars, history
<1>8. CASE AddResultsLock
  BY <1>8, <1>a DEF AddResultsLock, TypeOK, LockInv, vars, sensorVars, mainVars, ringVars, comVars, history
<1>9. CASE AddResultsPut
  BY <1>9, <1>a DEF AddResultsPut, TypeOK, LockInv, vars, sensorVars, mainVars, ringVars, comVars, history
<1>10. CASE ComWake
  BY <1>10, <1>a DEF ComWake, TypeOK, LockInv, vars, sensorVars, mainVars, ringVars, comVars, history
<1>11. CASE ComLock
  BY <1>11, <1>a DEF ComLock, FillHeader, LockInv, sensorVars, mainVars
<1>12. CASE ComDrain
  BY <1>12, <1>a DEF ComDrain, LockInv, sensorVars, mainVars
<1>13. CASE ComFrameDone
  BY <1>13, <1>a DEF ComFrameDone, TypeOK, LockInv, vars, sensorVars, mainVars, ringVars, comVars, history
<1>14. CASE ComPost
  BY <1>14, <1>a DEF ComPost, FillHeader, LockInv, sensorVars, mainVars
<1>15. CASE UNCHANGED vars
  BY <1>15, <1>a DEF TypeOK, LockInv, vars, sensorVars, mainVars, ringVars, comVars, history
<1> QED
  BY <1>1, <1>2, <1>3, <1>4, <1>5, <1>6, <1>7, <1>8, <1>9, <1>10, <1>11, <1>12, <1>13, <1>14, <1>15 DEF Next

LEMMA StoreStep ==
  ASSUME UplinkInv, [Next]_vars
  PROVE  StoreInv'
<1>a. TypeOK /\ StoreInv /\ ResultsMax \in Nat /\ ResultsMax > 0
  BY ConstantFacts DEF UplinkInv
<1>b. \A s \in Sensor : Len(results[s]) \in Nat
  BY <1>a DEF TypeOK
<1>0. ASSUME UNCHANGED <<results, spc>> PROVE StoreInv'
  BY <1>0, <1>a DEF StoreInv
<1>1. CASE \E s \in Sensor : SensorLoop(s)
  <2>1. PICK s \in Sensor : SensorLoop(s)
    BY <1>1
  <2>2. ASSUME NEW t \in Sensor
        PROVE  results' = results /\ (spc'[t] # "loop" => spc[t] # "loop" \/ ResultsMax - Len(results[t]) >= 1)
    BY <1>a, <2>1 DEF SensorLoop, TypeOK
  <2> QED
    BY <1>a, <1>b, <2>2 DEF StoreInv
<1>2. CASE \E s \in Sensor : SensorTryLock(s)
  BY <1>2, <1>a DEF SensorTryLock, StoreInv, TypeOK
<1>3. CASE \E s \in Sensor : SensorStore(s)
  <2>1. PICK s \in Sensor : SensorStore(s)
    BY <1>3
  <2>2. /\ spc[s] # "loop" /\ spc'[s] = "loop" /\ Len(results'[s]) = Len(results[s]) + 1
        /\ \A t \in Sensor : t # s => results'[t] = results[t] /\ spc'[t] = spc[t]
    <3>1. results'[s] = Append(results[s], <<s, produced[s]>>)
      BY <1>a, <2>1 DEF SensorStore, TypeOK
    <3>2. results[s] \in Seq(Sample)
      BY <1>a DEF TypeOK
    <3>3. Len(results'[s]) = Len(results[s]) + 1
      BY <3>1, <3>2
    <3> QED
      BY <1>a, <2>1, <3>3 DEF SensorStore, TypeOK
  <2>3. Len(results'[s]) <= ResultsMax
    BY <1>a, <1>b, <2>2 DEF StoreInv
  <2> QED
    BY <1>a, <2>2, <2>3 DEF StoreInv
<1>4. CASE CaptureLock
  BY <1>4, <1>0 DEF CaptureLock, vars, sensorVars, mainVars, ringVars, comVars, history
<1>5. CASE CaptureBusy
  BY <1>5, <1>0 DEF CaptureBusy, vars, sensorVars, mainVars, ringVars, comVars, history
<1>6. CASE CaptureCopy
  <2>1. /\ spc' = spc /\ Sensors[idx] \in Sensor
        /\ results' = [results EXCEPT ![Sensors[idx]] = <<>>]
    BY <1>6, <1>a, CurrentSensor DEF CaptureCopy
  <2>2. \A t \in Sensor : results'[t] = results[t] \/ results'[t] = <<>>
    BY <1>a, <2>1 DEF TypeOK
  <2>3. Len(<<>>) = 0
    OBVIOUS
  <2> QED
    BY <1>a, <2>1, <2>2, <2>3 DEF StoreInv
<1>7. CASE CheckLen
  BY <1>7, <1>0 DEF CheckLen, vars, sensorVars, mainVars, ringVars, comVars, history
<1>8. CASE AddResultsLock
  BY <1>8, <1>0 DEF AddResultsLock, vars, sensorVars, mainVars, ringVars, comVars, history
<1>9. CASE AddResultsPut
  BY <1>9, <1>0 DEF AddResultsPut, vars, sensorVars, mainVars, ringVars, comVars, history
<1>10. CASE ComWake
  BY <1>10, <1>0 DEF ComWake, vars, sensorVars, mainVars, ringVars, comVars, history
<1>11. CASE ComLock
  BY <1>11, <1>0 DEF ComLock, vars, sensorVars, mainVars, ringVars, comVars, history
<1>12. CASE ComDrain
  BY <1>12, <1>0 DEF ComDrain, vars, sensorVars, mainVars, ringVars, comVars, history
<1>13. CASE ComFrameDone
  BY <1>13, <1>0 DEF ComFrameDone, vars, sensorVars, mainVars, ringVars, comVars, history
<1>14. CASE ComPost
  BY <1>14, <1>0 DEF ComPost, vars, sensorVars, mainVars, ringVars, comVars, history
<1>15. CASE UNCHANGED vars
  BY <1>15, <1>0 DEF vars, sensorVars, mainVars, ringVars, comVars, history
<1> QED
  BY <1>1, <1>2, <1>3, <1>4, <1>5, <1>6, <1>7, <1>8, <1>9, <1>10, <1>11, <1>12, <1>13, <1>14, <1>15 DEF Next

LEMMA UsedStep ==
  ASSUME UplinkInv, [Next]_vars
  PROVE  UsedIsExact'
<1>a. UsedIsExact /\ used \in Nat /\ Capacity \in Nat
  BY ConstantFacts DEF UplinkInv, TypeOK
<1>0. ASSUME UNCHANGED <<q, used>> PROVE UsedIsExact'
  BY <1>0, <1>a DEF UsedIsExact
<1>1. CASE \E s \in Sensor : SensorLoop(s)
  BY <1>1, <1>0 DEF SensorLoop, vars, sensorVars, mainVars, ringVars, comVars, history
<1>2. CASE \E s \in Sensor : SensorTryLock(s)
  BY <1>2, <1>0 DEF SensorTryLock, vars, sensorVars, mainVars, ringVars, comVars, history
<1>3. CASE \E s \in Sensor : SensorStore(s)
  BY <1>3, <1>0 DEF SensorStore, vars, sensorVars, mainVars, ringVars, comVars, history
<1>4. CASE CaptureLock
  BY <1>4, <1>0 DEF CaptureLock, vars, sensorVars, mainVars, ringVars, comVars, history
<1>5. CASE CaptureBusy
  BY <1>5, <1>0 DEF CaptureBusy, vars, sensorVars, mainVars, ringVars, comVars, history
<1>6. CASE CaptureCopy
  BY <1>6, <1>0 DEF CaptureCopy, vars, sensorVars, mainVars, ringVars, comVars, history
<1>7. CASE CheckLen
  BY <1>7, <1>0 DEF CheckLen, vars, sensorVars, mainVars, ringVars, comVars, history
<1>8. CASE AddResultsLock
  BY <1>8, <1>0 DEF AddResultsLock, vars, sensorVars, mainVars, ringVars, comVars, history
<1>9. CASE AddResultsPut
  BY <1>9, <1>a, BuiltFacts DEF AddResultsPut, UsedIsExact
<1>10. CASE ComWake
  BY <1>10, <1>0 DEF ComWake, vars, sensorVars, mainVars, ringVars, comVars, history
<1>11. CASE ComLock
  BY <1>11, <1>0 DEF ComLock, vars, sensorVars, mainVars, ringVars, comVars, history
<1>12. CASE ComDrain
  <2>1. q' = Tail(q) /\ used' = used - RingCost(Head(q)) /\ q # <<>>
    BY <1>12 DEF ComDrain
  <2>2. used - RingCost(Head(q)) = RingBytes(Tail(q)) /\ RingCost(Head(q)) \in Nat
    BY <2>1, HeadFacts
  <2>3. used' <= Capacity
    BY <1>a, <2>1, <2>2 DEF UsedIsExact
  <2> QED
    BY <2>1, <2>2, <2>3 DEF UsedIsExact
<1>13. CASE ComFrameDone
  BY <1>13, <1>0 DEF ComFrameDone, vars, sensorVars, mainVars, ringVars, comVars, history
<1>14. CASE ComPost
  BY <1>14, <1>0 DEF ComPost, vars, sensorVars, mainVars, ringVars, comVars, history
<1>15. CASE UNCHANGED vars
  BY <1>15, <1>0 DEF vars, sensorVars, mainVars, ringVars, comVars, history
<1> QED
  BY <1>1, <1>2, <1>3, <1>4, <1>5, <1>6, <1>7, <1>8, <1>9, <1>10, <1>11, <1>12, <1>13, <1>14, <1>15 DEF Next

LEMMA RoomStep ==
  ASSUME UplinkInv, [Next]_vars
  PROVE  RoomInv'
<1>a. /\ RoomInv /\ LockInv /\ used <= Capacity
      /\ currLen \in Nat /\ used \in Nat /\ HdrSize \in Nat /\ Capacity \in Nat
  BY ConstantFacts DEF UplinkInv, TypeOK, UsedIsExact, HdrSize
<1>0. ASSUME UNCHANGED <<used, currLen>>, cpc' \in {"drain", "post"} => cpc \in {"drain", "post"}
      PROVE  RoomInv'
  BY <1>0, <1>a DEF RoomInv
<1>b. ASSUME FillHeader, UNCHANGED used PROVE RoomInv'
  BY <1>b, <1>a DEF FillHeader, RoomInv
<1>1. CASE \E s \in Sensor : SensorLoop(s)
  BY <1>1, <1>0 DEF SensorLoop, vars, sensorVars, mainVars, ringVars, comVars, history
<1>2. CASE \E s \in Sensor : SensorTryLock(s)
  BY <1>2, <1>0 DEF SensorTryLock, vars, sensorVars, mainVars, ringVars, comVars, history
<1>3. CASE \E s \in Sensor : SensorStore(s)
  BY <1>3, <1>0 DEF SensorStore, vars, sensorVars, mainVars, ringVars, comVars, history
<1>4. CASE CaptureLock
  BY <1>4, <1>0 DEF CaptureLock, vars, sensorVars, mainVars, ringVars, comVars, history
<1>5. CASE CaptureBusy
  BY <1>5, <1>0 DEF CaptureBusy, vars, sensorVars, mainVars, ringVars, comVars, history
<1>6. CASE CaptureCopy
  BY <1>6, <1>0 DEF CaptureCopy, vars, sensorVars, mainVars, ringVars, comVars, history
<1>7. CASE CheckLen
  BY <1>7, <1>0 DEF CheckLen, vars, sensorVars, mainVars, ringVars, comVars, history
<1>8. CASE AddResultsLock
  BY <1>8, <1>0 DEF AddResultsLock, vars, sensorVars, mainVars, ringVars, comVars, history
<1>9. CASE AddResultsPut
  BY <1>9, <1>a DEF AddResultsPut, comVars, LockInv, RoomInv
<1>10. CASE ComWake
  BY <1>10 DEF ComWake, RoomInv
<1>11. CASE ComLock
  BY <1>11, <1>b DEF ComLock, ringVars
<1>12. CASE ComDrain
  <2>1. /\ q # <<>> /\ currLen' = currLen + RecordSize(Head(q)) /\ cpc = "drain"
        /\ used' = used - RingCost(Head(q))
    BY <1>12 DEF ComDrain
  <2>2. RecordSize(Head(q)) \in Nat /\ RingCost(Head(q)) = 4 + RecordSize(Head(q))
    BY <2>1, HeadFacts DEF RingCost, IntSize
  <2>3. (currLen - HdrSize) + used <= Capacity
    BY <1>a, <2>1 DEF RoomInv
  <2>4. (currLen' - HdrSize) + used' <= Capacity
    <3> DEFINE x == RecordSize(Head(q))  y == RingCost(Head(q))
    <3>1. x \in Nat /\ y = 4 + x /\ currLen' = currLen + x /\ used' = used - y
      BY <2>1, <2>2
    <3> HIDE DEF x, y
    <3> QED
      BY <1>a, <2>3, <3>1
  <2> QED
    BY <2>4 DEF RoomInv
<1>13. CASE ComFrameDone
  BY <1>13, <1>0 DEF ComFrameDone, vars, sensorVars, mainVars, ringVars, comVars, history
<1>14. CASE ComPost
  <2>1. CASE send
    BY <1>14, <2>1, <1>b DEF ComPost, ringVars
  <2>2. CASE ~send
    BY <1>14, <2>2 DEF ComPost, RoomInv
  <2> QED
    BY <2>1, <2>2
<1>15. CASE UNCHANGED vars
  BY <1>15, <1>0 DEF vars, sensorVars, mainVars, ringVars, comVars, history
<1> QED
  BY <1>1, <1>2, <1>3, <1>4, <1>5, <1>6, <1>7, <1>8, <1>9, <1>10, <1>11, <1>12, <1>13, <1>14, <1>15 DEF Next

LEMMA FrameStep ==
  ASSUME UplinkInv, [Next]_vars
  PROVE  FrameFits'
<1>a. FrameFits /\ LockInv /\ HdrSize <= FrameMax
  BY ConstantFacts DEF UplinkInv, HdrSize
<1> DEFINE PostFits == /\ posted <= FrameMax + 1
                       /\ HdrSize + Capacity < FrameMax => posted <= FrameMax
<1>0. ASSUME UNCHANGED <<TXBuff, currLen, posted>>, cpc' \in {"drain", "post"} => cpc \in {"drain", "post"}
      PROVE  FrameFits'
  BY <1>0, <1>a DEF FrameFits
<1>b. ASSUME FillHeader, PostFits' PROVE FrameFits'
  BY <1>b, <1>a, NoBytes DEF FillHeader, FrameFits
<1>c. PostFits
  BY <1>a DEF FrameFits
<1>1. CASE \E s \in Sensor : SensorLoop(s)
  BY <1>1, <1>0 DEF SensorLoop, vars, sensorVars, mainVars, ringVars, comVars, history
<1>2. CASE \E s \in Sensor : SensorTryLock(s)
  BY <1>2, <1>0 DEF SensorTryLock, vars, sensorVars, mainVars, ringVars, comVars, history
<1>3. CASE \E s \in Sensor : SensorStore(s)
  BY <1>3, <1>0 DEF SensorStore, vars, sensorVars, mainVars, ringVars, comVars, history
<1>4. CASE CaptureLock
  BY <1>4, <1>0 DEF CaptureLock, vars, sensorVars, mainVars, ringVars, comVars, history
<1>5. CASE CaptureBusy
  BY <1>5, <1>0 DEF CaptureBusy, vars, sensorVars, mainVars, ringVars, comVars, history
<1>6. CASE CaptureCopy
  BY <1>6, <1>0 DEF CaptureCopy, vars, sensorVars, mainVars, ringVars, comVars, history
<1>7. CASE CheckLen
  BY <1>7, <1>0 DEF CheckLen, vars, sensorVars, mainVars, ringVars, comVars, history
<1>8. CASE AddResultsLock
  BY <1>8, <1>a DEF AddResultsLock, comVars, history, LockInv, FrameFits
<1>9. CASE AddResultsPut
  BY <1>9, <1>0 DEF AddResultsPut, vars, sensorVars, mainVars, ringVars, comVars, history
<1>10. CASE ComWake
  BY <1>10, <1>a DEF ComWake, FrameFits, history
<1>11. CASE ComLock
  BY <1>11, <1>b, <1>c DEF ComLock, history
<1>12. CASE ComDrain
  <2>1. /\ q # <<>> /\ TXBuff' = Append(TXBuff, Head(q)) /\ currLen' = currLen + RecordSize(Head(q))
        /\ RecordSize(Head(q)) + currLen <= FrameMax /\ cpc = "drain" /\ posted' = posted
    BY <1>12 DEF ComDrain, history
  <2>2. /\ TXBuff \in Seq(Record) /\ Head(q) \in Record /\ RecordSize(Head(q)) \in Nat
        /\ currLen = FrameBytes(TXBuff) /\ currLen \in Nat
    BY <1>a, <2>1, HeadFacts DEF UplinkInv, TypeOK, FrameFits
  <2>3. FrameBytes(Append(TXBuff, Head(q))) = FrameBytes(TXBuff) + RecordSize(Head(q))
    BY <2>2, FrameBytesAppend
  <2>4. currLen' <= FrameMax
    BY <2>1, <2>2, ConstantFacts
  <2> QED
    BY <1>c, <2>1, <2>2, <2>3, <2>4 DEF FrameFits
<1>13. CASE ComFrameDone
  BY <1>13, <1>0 DEF ComFrameDone, vars, sensorVars, mainVars, ringVars, comVars, history
<1>14. CASE ComPost
  <2>1. cpc = "post" /\ posted' = currLen + 1
    BY <1>14 DEF ComPost
  <2>2. currLen <= FrameMax /\ (currLen - HdrSize) + used <= Capacity
    BY <1>a, <2>1 DEF UplinkInv, FrameFits, RoomInv
  <2>3. /\ currLen \in Nat /\ used \in Nat /\ HdrSize \in Nat /\ Capacity \in Nat /\ FrameMax \in Nat
    BY ConstantFacts DEF UplinkInv, TypeOK, HdrSize
  <2>4. PostFits'
    BY <2>1, <2>2, <2>3
  <2>5. CASE send
    BY <1>14, <2>4, <2>5, <1>b DEF ComPost
  <2>6. CASE ~send
    BY <1>14, <2>4, <2>6 DEF ComPost, FrameFits
  <2> QED
    BY <2>5, <2>6
<1>15. CASE UNCHANGED vars
  BY <1>15, <1>0 DEF vars, sensorVars, mainVars, ringVars, comVars, history
<1> QED
  BY <1>1, <1>2, <1>3, <1>4, <1>5, <1>6, <1>7, <1>8, <1>9, <1>10, <1>11, <1>12, <1>13, <1>14, <1>15 DEF Next

LEMMA ConservedStep ==
  ASSUME UplinkInv, [Next]_vars
  PROVE  RecordsConserved'
<1>a. TypeOK /\ LockInv /\ accepted = sent \o InFlight \o q
  BY DEF UplinkInv, RecordsConserved
<1>b. sent \in Seq(Record) /\ TXBuff \in Seq(Record) /\ q \in Seq(Record)
  BY <1>a DEF TypeOK
<1>0. ASSUME UNCHANGED <<accepted, sent, q>>, InFlight' = InFlight PROVE RecordsConserved'
  BY <1>0, <1>a DEF RecordsConserved
<1>1. CASE \E s \in Sensor : SensorLoop(s)
  BY <1>1, <1>0 DEF SensorLoop, InFlight, vars, sensorVars, mainVars, ringVars, comVars, history
<1>2. CASE \E s \in Sensor : SensorTryLock(s)
  BY <1>2, <1>0 DEF SensorTryLock, InFlight, vars, sensorVars, mainVars, ringVars, comVars, history
<1>3. CASE \E s \in Sensor : SensorStore(s)
  BY <1>3, <1>0 DEF SensorStore, InFlight, vars, sensorVars, mainVars, ringVars, comVars, history
<1>4. CASE CaptureLock
  BY <1>4, <1>0 DEF CaptureLock, InFlight, vars, sensorVars, mainVars, ringVars, comVars, history
<1>5. CASE CaptureBusy
  BY <1>5, <1>0 DEF CaptureBusy, InFlight, vars, sensorVars, mainVars, ringVars, comVars, history
<1>6. CASE CaptureCopy
  BY <1>6, <1>0 DEF CaptureCopy, InFlight, vars, sensorVars, mainVars, ringVars, comVars, history
<1>7. CASE CheckLen
  BY <1>7, <1>0 DEF CheckLen, InFlight, vars, sensorVars, mainVars, ringVars, comVars, history
<1>8. CASE AddResultsLock
  <2>1. BuffMtx = "free" /\ BuffMtx' = "main" /\ UNCHANGED <<accepted, sent, q>>
    BY <1>8 DEF AddResultsLock, ringVars, history
  <2> QED
    BY <2>1, <1>0 DEF InFlight
<1>9. CASE AddResultsPut
  <2>1. BuffMtx = "main" /\ BuffMtx' = "free" /\ sent' = sent /\ mpc = "put"
    BY <1>9, <1>a DEF AddResultsPut, LockInv
  <2>2. InFlight = <<>> /\ InFlight' = <<>>
    BY <2>1 DEF InFlight
  <2>3. TXBuff[1] \in Record
    BY <2>1, BuiltFacts
  <2>4. CASE q' = q /\ accepted' = accepted
    BY <2>1, <2>2, <2>4, <1>0
  <2>5. CASE q' = Append(q, TXBuff[1]) /\ accepted' = Append(accepted, TXBuff[1])
    <3>1. accepted = sent \o <<>> \o q
      BY <1>a, <2>2
    <3>2. Append(sent \o <<>> \o q, TXBuff[1]) = sent \o <<>> \o Append(q, TXBuff[1])
      BY <1>b, <2>3, JoinAppend
    <3> QED
      BY <2>1, <2>2, <2>5, <3>1, <3>2 DEF RecordsConserved
  <2> QED
    BY <1>9, <2>4, <2>5 DEF AddResultsPut
<1>10. CASE ComWake
  BY <1>10, <1>0 DEF ComWake, InFlight, vars, sensorVars, mainVars, ringVars, comVars, history
<1>11. CASE ComLock
  <2>1. BuffMtx = "free" /\ BuffMtx' = "com" /\ TXBuff' = <<>> /\ UNCHANGED <<accepted, sent, q>>
    BY <1>11 DEF ComLock, FillHeader, ringVars, history
  <2> QED
    BY <2>1, <1>0 DEF InFlight
<1>12. CASE ComDrain
  <2>1. /\ BuffMtx = "com" /\ BuffMtx' = "com" /\ q # <<>> /\ q' = Tail(q)
        /\ TXBuff' = Append(TXBuff, Head(q)) /\ UNCHANGED <<accepted, sent>>
    BY <1>12, <1>a DEF ComDrain, LockInv, history
  <2>2. InFlight = TXBuff /\ InFlight' = Append(TXBuff, Head(q))
    BY <2>1 DEF InFlight
  <2>3. sent \o TXBuff \o q = sent \o Append(TXBuff, Head(q)) \o Tail(q)
    BY <1>b, <2>1, MoveHead
  <2> QED
    BY <1>a, <2>1, <2>2, <2>3 DEF RecordsConserved
<1>13. CASE ComFrameDone
  BY <1>13, <1>0 DEF ComFrameDone, InFlight, vars, sensorVars, mainVars, ringVars, comVars, history
<1>14. CASE ComPost
  <2>1. /\ BuffMtx = "com" /\ sent' = sent \o TXBuff /\ UNCHANGED <<accepted, q>>
        /\ (BuffMtx' = "free" \/ TXBuff' = <<>>)
    BY <1>14, <1>a DEF ComPost, FillHeader, LockInv, ringVars
  <2>2. InFlight = TXBuff /\ InFlight' = <<>>
    BY <2>1 DEF InFlight
  <2>3. sent \o TXBuff \o q = (sent \o TXBuff) \o <<>> \o q
    BY <1>b
  <2> QED
    BY <1>a, <2>1, <2>2, <2>3 DEF RecordsConserved
<1>15. CASE UNCHANGED vars
  BY <1>15, <1>0 DEF InFlight, vars, sensorVars, mainVars, ringVars, comVars, history
<1> QED
  BY <1>1, <1>2, <1>3, <1>4, <1>5, <1>6, <1>7, <1>8, <1>9, <1>10, <1>11, <1>12, <1>13, <1>14, <1>15 DEF Next

LEMMA UplinkStep == UplinkInv /\ [Next]_vars => UplinkInv'
BY TypeStep, LockStep, StoreStep, UsedStep, RoomStep, FrameStep, ConservedStep DEF UplinkInv

-----------------------------------------------------------------------------
(* The invariant holds of every interleaving of the sensor threads, the main   *)
(* loop and the ComHandler thread.                                             *)
THEOREM UplinkInvariant == Spec => []UplinkInv
<1> QED
  BY InitUplink, UplinkStep, PTL DEF Spec

(* The variables of the sensors, MainClass::run and ComHandler keep their      *)
(* types; in particular the main loop never runs behind the sensor list.       *)
THEOREM TypeCorrect == Spec => []TypeOK
<1>1. UplinkInv => TypeOK
  BY DEF UplinkInv
<1> QED
  BY <1>1, UplinkInvariant, PTL

(* StoreLastImpact checks for space before it takes resultsMutex, and the      *)
(* store of no sensor ever overflows.                                          *)
THEOREM StoresBounded == Spec => []StoreNeverOverflows
<1>1. UplinkInv => StoreNeverOverflows
  BY DEF UplinkInv, StoreInv, StoreNeverOverflows
<1> QED
  BY <1>1, UplinkInvariant, PTL

(* From AddResults to http.post no record is lost, duplicated or reordered,    *)
(* although AddResults and DoServerRequest share TXBuff.                       *)
THEOREM NothingLostOnTheWay == Spec => []RecordsConserved
<1>1. UplinkInv => RecordsConserved
  BY DEF UplinkInv
<1> QED
  BY <1>1, UplinkInvariant, PTL

(* DoServerRequest: through all the frames of a transfer currLen is the        *)
(* length of what lies in TXBuff, and no frame is longer than TXBuff.  The     *)
(* byte that http.post takes more is at most one behind TXBuff, and inside it  *)
(* whenever TXBuff is larger than header and ring, as it is in this firmware.  *)
THEOREM FramesFit == Spec => []FrameFits
<1>1. UplinkInv => FrameFits
  BY DEF UplinkInv
<1> QED
  BY <1>1, UplinkInvariant, PTL

=============================================================================
