------------------------- MODULE CANRecorderProofs -------------------------
(***************************************************************************)
(* A captured point is of one frame, and whole when dataResult has room:   *)
(* for every list of chunks, whatever Validate says of it, every size of   *)
(* dataResult and every *len.                                              *)
(*                                                                         *)
(* nPoints alone keeps event and Capture apart.  RaceInv says what that    *)
(* leaves possible: event starts a point while Capture still holds the     *)
(* last one (mpc = "reset"), and then only checks chunks, against the old  *)
(* offset; it writes none before offset is set back.                       *)
(***************************************************************************)
EXTENDS CANRecorder, SequenceTheorems, WellFoundedInduction, TLAPS

-----------------------------------------------------------------------------
(***************************************************************************)
(* The sum of the chunks.  What holds of no smallest k holds of none: the  *)
(* recursion is unfolded by looking at a smallest counterexample.          *)
(***************************************************************************)
LEMMA Smallest ==
  ASSUME NEW S \in SUBSET Nat, S # {}
  PROVE  \E x \in S : \A y \in S : x <= y
<1>1. PICK x \in S : \A y \in S : ~(<<y, x>> \in OpToRel(<, Nat))
  BY NatLessThanWellFounded, WFMin
<1>2. ASSUME NEW y \in S PROVE x <= y
  <2>1. y < x => <<y, x>> \in OpToRel(<, Nat)
    BY DEF OpToRel
  <2>2. ~(y < x)
    BY <1>1, <2>1, Zenon
  <2> QED
    BY <2>2
<1> QED
  BY <1>2

(* f holds the bytes of the first k chunks, for every k up to n. *)
Sums(f, c, n) == /\ f \in [0 .. n -> Nat] /\ f[0] = 0
                 /\ \A k \in 1 .. n : f[k] = f[k - 1] + c[k]

LEMMA SumsExist ==
  ASSUME NEW c \in Seq(Nat), NEW n \in 0 .. Len(c)
  PROVE  \E f : Sums(f, c, n)
<1> DEFINE Bad == {m \in 0 .. Len(c) : ~ \E f : Sums(f, c, m)}
<1>0. Len(c) \in Nat /\ \A k \in 1 .. Len(c) : c[k] \in Nat
  OBVIOUS
<1>1. SUFFICES ASSUME Bad # {} PROVE FALSE
  BY <1>1
<1>2. Bad \in SUBSET Nat
  BY <1>0
<1> HIDE DEF Bad
<1>3. PICK m \in Bad : \A y \in Bad : m <= y
  BY <1>1, <1>2, Smallest
<1>4. m \in 0 .. Len(c) /\ ~ \E f : Sums(f, c, m)
  BY DEF Bad
<1>5. CASE m = 0
  <2>1. Sums([k \in 0 .. 0 |-> 0], c, 0)
    BY DEF Sums
  <2> QED
    BY <1>4, <1>5, <2>1
<1>6. CASE m # 0
  <2>1. m - 1 \in 0 .. Len(c) /\ ~(m <= m - 1) /\ m \in 1 .. Len(c)
    BY <1>4, <1>6, <1>0
  <2>2. m - 1 \notin Bad
    BY <1>3, <2>1
  <2>3. PICK f : Sums(f, c, m - 1)
    BY <2>1, <2>2 DEF Bad
  <2> DEFINE g == [k \in 0 .. m |-> IF k = m THEN f[m - 1] + c[m] ELSE f[k]]
  <2>4. f \in [0 .. m - 1 -> Nat] /\ f[0] = 0 /\ \A k \in 1 .. m - 1 : f[k] = f[k - 1] + c[k]
    BY <2>3 DEF Sums
  <2>5. f[m - 1] \in Nat /\ c[m] \in Nat
    BY <2>1, <2>4, <1>0
  <2>6. \A k \in 0 .. m : k # m => f[k] \in Nat
    BY <2>1, <2>4
  <2>7. g \in [0 .. m -> Nat]
    BY SMTT(40), <2>5, <2>6
  <2>8. g[0] = 0
    BY <2>1, <2>4
  <2>9. ASSUME NEW k \in 1 .. m PROVE g[k] = g[k - 1] + c[k]
    <3>1. k \in 0 .. m /\ k - 1 \in 0 .. m /\ k - 1 # m
      BY <2>1
    <3>2. g[k - 1] = f[k - 1]
      BY <3>1
    <3>3. CASE k = m
      BY <3>1, <3>2, <3>3
    <3>4. CASE k # m
      <4>1. k \in 1 .. m - 1
        BY <2>1, <3>4
      <4> QED
        BY <2>4, <3>1, <3>2, <3>4, <4>1
    <3> QED
      BY <3>3, <3>4
  <2>10. Sums(g, c, m)
    BY <2>7, <2>8, <2>9 DEF Sums
  <2> QED
    BY <1>4, <2>10
<1> QED
  BY <1>5, <1>6

LEMMA BytesToIsSum ==
  ASSUME NEW c \in Seq(Nat)
  PROVE  Sums(BytesTo(c), c, Len(c))
<1> DEFINE n == Len(c)
           Rec(s) == s = [k \in 0 .. n |-> IF k = 0 THEN 0 ELSE s[k - 1] + c[k]]
<1>0. n \in Nat
  OBVIOUS
<1>1. PICK f : Sums(f, c, n)
  BY <1>0, SumsExist
<1>2. Rec(f)
  <2>1. f = [k \in 0 .. n |-> f[k]] /\ f[0] = 0
    BY <1>1 DEF Sums
  <2>2. \A k \in 0 .. n : f[k] = IF k = 0 THEN 0 ELSE f[k - 1] + c[k]
    BY <1>0, <1>1 DEF Sums
  <2> QED
    BY <2>1, <2>2
<1>3. BytesTo(c) = CHOOSE s : Rec(s)
  BY DEF BytesTo
<1>4. Rec(BytesTo(c))
  BY <1>2, <1>3
<1> DEFINE s == BytesTo(c)  Bad == {k \in 0 .. n : s[k] \notin Nat}
<1>5. /\ s = [k \in 0 .. n |-> s[k]]
      /\ s[0] = 0
      /\ \A k \in 1 .. n : s[k] = s[k - 1] + c[k]
  BY <1>0, <1>4
<1>6. \A k \in 1 .. n : c[k] \in Nat
  OBVIOUS
<1> HIDE DEF s, n
<1>7. Bad = {}
  <2>1. SUFFICES ASSUME Bad # {} PROVE FALSE
    BY <2>1
  <2>2. Bad \in SUBSET Nat
    BY <1>0
  <2>3. PICK k \in Bad : \A y \in Bad : k <= y
    BY <2>1, <2>2, Smallest
  <2>4. k \in 1 .. n /\ k - 1 \in 0 .. n /\ ~(k <= k - 1)
    BY <1>0, <1>5
  <2>5. s[k - 1] \in Nat
    BY <2>3, <2>4
  <2>6. s[k] = s[k - 1] + c[k] /\ c[k] \in Nat
    BY <1>5, <1>6, <2>4
  <2>7. s[k] \in Nat
    BY <2>5, <2>6
  <2> QED
    BY <2>7
<1>8. s \in [0 .. n -> Nat]
  BY <1>5, <1>7
<1> QED
  BY <1>5, <1>8 DEF Sums, s, n

LEMMA BytesToGrows ==
  ASSUME NEW c \in Seq(Nat), NEW k \in 0 .. Len(c)
  PROVE  BytesTo(c)[k] \in Nat /\ BytesTo(c)[k] <= Total(c) /\ Total(c) \in Nat
<1> DEFINE n == Len(c)  s == BytesTo(c)
           Bad == {d \in 0 .. n : ~(s[n - d] <= s[n])}
<1>0. n \in Nat /\ \A j \in 1 .. n : c[j] \in Nat
  OBVIOUS
<1>1. s \in [0 .. n -> Nat] /\ \A j \in 1 .. n : s[j] = s[j - 1] + c[j]
  BY BytesToIsSum DEF Sums
<1>2. Total(c) = s[n]
  BY DEF Total
<1> HIDE DEF n, s
<1>3. Bad = {}
  <2>1. SUFFICES ASSUME Bad # {} PROVE FALSE
    BY <2>1
  <2>2. Bad \in SUBSET Nat
    BY <1>0
  <2>3. PICK d \in Bad : \A y \in Bad : d <= y
    BY <2>1, <2>2, Smallest
  <2>4. d \in 1 .. n
    <3>1. n - 0 = n /\ s[n] \in Nat
      BY <1>0, <1>1
    <3>2. d # 0
      BY <3>1
    <3> QED
      BY <1>0, <3>2
  <2>5. d - 1 \in 0 .. n /\ ~(d <= d - 1) /\ n - (d - 1) \in 1 .. n /\ n - (d - 1) - 1 = n - d
        /\ n - d \in 0 .. n
    BY <1>0, <2>4
  <2>6. s[n - (d - 1)] <= s[n]
    BY <2>3, <2>5
  <2>7. s[n - (d - 1)] = s[n - d] + c[n - (d - 1)]
    BY <1>1, <2>5
  <2>8. s[n - d] <= s[n]
    <3>1. s[n] \in Nat /\ s[n - d] \in Nat /\ c[n - (d - 1)] \in Nat
      BY <1>0, <1>1, <2>5
    <3> QED
      BY <2>6, <2>7, <3>1
  <2> QED
    BY <2>8
<1>4. n - k \in 0 .. n /\ n - (n - k) = k
  BY <1>0 DEF n
<1>5. s[k] <= s[n]
  BY <1>3, <1>4
<1> QED
  BY SMTT(40), <1>0, <1>1, <1>2, <1>5 DEF s, n

-----------------------------------------------------------------------------
(***************************************************************************)
(* The inductive invariant.                                                *)
(***************************************************************************)
Writing == cpc \in {"chunk", "write"}
Roomy == \A k \in DOMAIN chunks : Header(chunks) + Total(chunks) + chunks[k] < NET_FRAME_ALLOCSZ

(* A point is written only while none is counted, and held by Capture only     *)
(* from the moment it is counted to the moment it is taken.                    *)
RaceInv ==
  /\ Writing => nPoints = 0
  /\ mpc = "lock" => nPoints # 0
  /\ BuffMtx = "main" <=> mpc = "reset"
  /\ cpc = "write" => i <= Len(chunks) /\ offset + chunks[i] < NET_FRAME_ALLOCSZ

(* What a sequence of pieces may be. *)
Piece == [frame : 0 .. Frames - 1, chunk : Nat]
InOrder(p) ==
  /\ \A k \in DOMAIN p : p[k].frame = p[1].frame
  /\ \A k, l \in DOMAIN p : k < l => p[k].chunk < p[l].chunk

(* The pieces are of one frame: of the frame being written, unless Capture     *)
(* still has to clear them.                                                    *)
PieceInv ==
  /\ pieces \in Seq(Piece)
  /\ InOrder(pieces)
  /\ mpc # "reset" /\ Writing =>
       \A k \in DOMAIN pieces : pieces[k].frame = frame /\ pieces[k].chunk < i
  /\ mpc # "reset" /\ ~Writing /\ nPoints = 0 => pieces = <<>> /\ offset = Header(chunks)

(* With room for any chunk behind a whole point, no chunk is ever left out.    *)
RoomInv ==
  Roomy =>
    /\ offset <= Header(chunks) + Total(chunks)
    /\ mpc # "reset" /\ Writing =>
         Len(pieces) = i - 1 /\ offset = Header(chunks) + BytesTo(chunks)[i - 1]
    /\ mpc # "reset" /\ nPoints # 0 => Len(pieces) = Len(chunks)
    /\ mpc = "reset" /\ Writing => i = 1
    /\ mpc = "reset" /\ nPoints # 0 => Len(chunks) = 0

RecorderInv == TypeOK /\ RaceInv /\ PieceInv /\ RoomInv /\ PointWhole

-----------------------------------------------------------------------------
(***************************************************************************)
(* The initial states, and one lemma per part of the invariant.            *)
(***************************************************************************)
LEMMA PointFacts ==
  ASSUME NEW c \in Points
  PROVE  /\ c \in Seq(Nat) /\ Len(c) \in Nat /\ DOMAIN c = 1 .. Len(c)
         /\ \A k \in 1 .. Len(c) : c[k] \in Nat
         /\ Header(c) \in Nat /\ NET_FRAME_ALLOCSZ \in Nat
         /\ BytesTo(c)[0] = 0 /\ Total(c) \in Nat
         /\ \A k \in 0 .. Len(c) : BytesTo(c)[k] \in Nat /\ BytesTo(c)[k] <= Total(c)
         /\ \A k \in 1 .. Len(c) : BytesTo(c)[k] = BytesTo(c)[k - 1] + c[k]
<1>1. c \in Seq(Nat) /\ NET_FRAME_ALLOCSZ \in Nat
  BY RecorderAssumption
<1>2. Len(c) \in Nat /\ DOMAIN c = 1 .. Len(c) /\ \A k \in 1 .. Len(c) : c[k] \in Nat
  BY <1>1
<1>4. Header(c) \in Nat
  BY <1>2 DEF Header
<1>5. Sums(BytesTo(c), c, Len(c))
  BY <1>1, BytesToIsSum
<1>6. \A k \in 0 .. Len(c) : BytesTo(c)[k] \in Nat /\ BytesTo(c)[k] <= Total(c)
  BY <1>1, BytesToGrows
<1>7. Total(c) \in Nat
  <2>1. 0 \in 0 .. Len(c)
    BY <1>2
  <2> QED
    BY <1>1, <2>1, BytesToGrows
<1> QED
  BY <1>1, <1>2, <1>4, <1>5, <1>6, <1>7 DEF Sums

LEMMA CounterFacts ==
  /\ Frames \in Nat /\ Frames > 0 /\ CAN_FRAMES_TO_WAIT \in Nat
  /\ \A k \in Nat : k % Frames \in 0 .. Frames - 1
<1>1. Frames \in Nat /\ Frames > 0 /\ CAN_FRAMES_TO_WAIT \in Nat
  BY RecorderAssumption
<1> QED
  BY <1>1

LEMMA InitRecorder == Init => RecorderInv
<1> SUFFICES ASSUME Init PROVE RecorderInv
  OBVIOUS
<1>1. chunks \in Points
  BY DEF Init
<1>2. TypeOK
  BY <1>1, PointFacts, CounterFacts DEF Init, TypeOK, Offsets, nPointsMax
<1>3. RaceInv /\ PieceInv /\ PointWhole
  BY DEF Init, RaceInv, PieceInv, InOrder, PointWhole, Writing
<1>4. RoomInv
  BY <1>1, PointFacts DEF Init, RoomInv, Writing
<1> QED
  BY <1>2, <1>3, <1>4 DEF RecorderInv

LEMMA TypeStep ==
  ASSUME RecorderInv, [Next]_vars
  PROVE  TypeOK'
<1>a. /\ chunks \in Points /\ Len(chunks) \in Nat /\ Header(chunks) \in Nat
      /\ NET_FRAME_ALLOCSZ \in Nat
      /\ \A k \in 1 .. Len(chunks) : chunks[k] \in Nat
  BY PointFacts DEF RecorderInv, TypeOK
<1>1. CASE EventTick
  BY <1>1, <1>a, CounterFacts DEF EventTick, RecorderInv, TypeOK, Offsets, RaceInv, Writing, nPointsMax, vars, learnVars, canVars, mainVars
<1>2. CASE EventLearned
  BY <1>2, <1>a, CounterFacts DEF EventLearned, RecorderInv, TypeOK, Offsets, RaceInv, Writing, nPointsMax, vars, learnVars, canVars, mainVars
<1>3. CASE EventPoint
  BY <1>3, <1>a, CounterFacts DEF EventPoint, RecorderInv, TypeOK, Offsets, RaceInv, Writing, nPointsMax, vars, learnVars, canVars, mainVars
<1>4. CASE CheckChunk
  BY <1>4, <1>a, CounterFacts DEF CheckChunk, RecorderInv, TypeOK, Offsets, RaceInv, Writing, nPointsMax, vars, learnVars, canVars, mainVars
<1>5. CASE WriteChunk
  BY <1>5, <1>a, CounterFacts DEF WriteChunk, RecorderInv, TypeOK, Offsets, RaceInv, Writing, nPointsMax, vars, learnVars, canVars, mainVars
<1>6. CASE CountPoint
  BY <1>6, <1>a, CounterFacts DEF CountPoint, RecorderInv, TypeOK, Offsets, RaceInv, Writing, nPointsMax, vars, learnVars, canVars, mainVars
<1>7. CASE CaptureNothing
  BY <1>7, <1>a, CounterFacts DEF CaptureNothing, RecorderInv, TypeOK, Offsets, RaceInv, Writing, nPointsMax, vars, learnVars, canVars, mainVars
<1>8. CASE \E l \in Lens : CaptureFound(l)
  BY <1>8, <1>a, CounterFacts DEF CaptureFound, RecorderInv, TypeOK, Offsets, RaceInv, Writing, nPointsMax, vars, learnVars, canVars, mainVars
<1>9. CASE CaptureCopy
  BY <1>9, <1>a, CounterFacts DEF CaptureCopy, RecorderInv, TypeOK, Offsets, RaceInv, Writing, nPointsMax, vars, learnVars, canVars, mainVars
<1>10. CASE CaptureReset
  BY <1>10, <1>a, CounterFacts DEF CaptureReset, RecorderInv, TypeOK, Offsets, RaceInv, Writing, nPointsMax, vars, learnVars, canVars, mainVars
<1>11. CASE UNCHANGED vars
  BY <1>11, <1>a, CounterFacts DEF RecorderInv, TypeOK, Offsets, RaceInv, Writing, nPointsMax, vars, learnVars, canVars, mainVars
<1> QED
  BY <1>1, <1>2, <1>3, <1>4, <1>5, <1>6, <1>7, <1>8, <1>9, <1>10, <1>11 DEF Next

LEMMA RaceStep ==
  ASSUME RecorderInv, [Next]_vars
  PROVE  RaceInv'
<1>a. /\ chunks \in Points /\ Len(chunks) \in Nat /\ Header(chunks) \in Nat
      /\ NET_FRAME_ALLOCSZ \in Nat
      /\ \A k \in 1 .. Len(chunks) : chunks[k] \in Nat
  BY PointFacts DEF RecorderInv, TypeOK
<1>b. i \in 1 .. Len(chunks) + 1 /\ offset \in Nat /\ offset >= Header(chunks) /\ nPoints \in {0, 1}
  BY <1>a DEF RecorderInv, TypeOK, Offsets, nPointsMax
<1>1. CASE EventTick
  BY <1>1, <1>a, <1>b DEF EventTick, RecorderInv, RaceInv, Writing, nPointsMax, Fits, vars, learnVars, canVars, mainVars
<1>2. CASE EventLearned
  BY <1>2, <1>a, <1>b DEF EventLearned, RecorderInv, RaceInv, Writing, nPointsMax, Fits, vars, learnVars, canVars, mainVars
<1>3. CASE EventPoint
  BY <1>3, <1>a, <1>b DEF EventPoint, RecorderInv, RaceInv, Writing, nPointsMax, Fits, vars, learnVars, canVars, mainVars
<1>4. CASE CheckChunk
  BY <1>4, <1>a, <1>b DEF CheckChunk, RecorderInv, RaceInv, Writing, nPointsMax, Fits, vars, learnVars, canVars, mainVars
<1>5. CASE WriteChunk
  BY <1>5, <1>a, <1>b DEF WriteChunk, RecorderInv, RaceInv, Writing, nPointsMax, Fits, vars, learnVars, canVars, mainVars
<1>6. CASE CountPoint
  BY <1>6, <1>a, <1>b DEF CountPoint, RecorderInv, RaceInv, Writing, nPointsMax, Fits, vars, learnVars, canVars, mainVars
<1>7. CASE CaptureNothing
  BY <1>7, <1>a, <1>b DEF CaptureNothing, RecorderInv, RaceInv, Writing, nPointsMax, Fits, vars, learnVars, canVars, mainVars
<1>8. CASE \E l \in Lens : CaptureFound(l)
  BY <1>8, <1>a, <1>b DEF CaptureFound, RecorderInv, RaceInv, Writing, nPointsMax, Fits, vars, learnVars, canVars, mainVars
<1>9. CASE CaptureCopy
  BY <1>9, <1>a, <1>b DEF CaptureCopy, RecorderInv, RaceInv, Writing, nPointsMax, Fits, vars, learnVars, canVars, mainVars
<1>10. CASE CaptureReset
  BY <1>10, <1>a, <1>b DEF CaptureReset, RecorderInv, RaceInv, Writing, nPointsMax, Fits, vars, learnVars, canVars, mainVars
<1>11. CASE UNCHANGED vars
  BY <1>11, <1>a, <1>b DEF RecorderInv, RaceInv, Writing, nPointsMax, Fits, vars, learnVars, canVars, mainVars
<1> QED
  BY <1>1, <1>2, <1>3, <1>4, <1>5, <1>6, <1>7, <1>8, <1>9, <1>10, <1>11 DEF Next

LEMMA PieceTyped ==
  ASSUME NEW p \in Seq(Piece), NEW k \in DOMAIN p
  PROVE  p[k].chunk \in Nat
<1>1. p[k] \in Piece
  OBVIOUS
<1> QED
  BY <1>1 DEF Piece

LEMMA PieceStep ==
  ASSUME RecorderInv, [Next]_vars
  PROVE  PieceInv'
<1>a. /\ chunks \in Seq(Nat) /\ Len(chunks) \in Nat /\ i \in 1 .. Len(chunks) + 1 /\ i \in Nat
      /\ frame \in 0 .. Frames - 1 /\ nPoints \in {0, 1}
  BY PointFacts DEF RecorderInv, TypeOK, nPointsMax
<1>b. RaceInv /\ PieceInv
  BY DEF RecorderInv
<1>1. CASE EventTick
  BY <1>1, <1>a, <1>b DEF EventTick, RaceInv, PieceInv, Writing, nPointsMax, InOrder, vars, learnVars, canVars, mainVars
<1>2. CASE EventLearned
  BY <1>2, <1>a, <1>b DEF EventLearned, RaceInv, PieceInv, Writing, nPointsMax, InOrder, vars, learnVars, canVars, mainVars
<1>3. CASE EventPoint
  BY <1>3, <1>a, <1>b DEF EventPoint, RaceInv, PieceInv, Writing, nPointsMax, InOrder, vars, learnVars, canVars, mainVars
<1>4. CASE CheckChunk
  <2>1. /\ UNCHANGED <<pieces, mpc, nPoints, frame>> /\ Writing /\ Writing' /\ i' \in {i, i + 1}
    BY <1>4 DEF CheckChunk, Writing, mainVars
  <2>2. \A k \in DOMAIN pieces : pieces[k].chunk \in Nat
    BY <1>b, PieceTyped DEF PieceInv
  <2> QED
    BY <1>a, <1>b, <2>1, <2>2 DEF PieceInv
<1>5. CASE WriteChunk
  <2> DEFINE new == [frame |-> frame, chunk |-> i]  q == Append(pieces, new)
  <2>1. /\ mpc # "reset" /\ Writing /\ pieces' = q /\ i' = i + 1
        /\ UNCHANGED <<frame, mpc, nPoints>> /\ Writing'
    BY <1>5, <1>b DEF WriteChunk, RaceInv, Writing, mainVars
  <2>2. /\ pieces \in Seq(Piece) /\ InOrder(pieces)
        /\ \A k \in DOMAIN pieces : pieces[k].frame = frame /\ pieces[k].chunk < i
    BY <1>b, <2>1 DEF PieceInv
  <2>3. new \in Piece /\ new.frame = frame /\ new.chunk = i
    BY <1>a DEF Piece
  <2> HIDE DEF new
  <2>4. /\ q \in Seq(Piece) /\ DOMAIN q = 1 .. Len(pieces) + 1
        /\ Len(pieces) \in Nat /\ DOMAIN pieces = 1 .. Len(pieces)
        /\ q[Len(pieces) + 1] = new /\ \A k \in 1 .. Len(pieces) : q[k] = pieces[k]
    BY <2>2, <2>3
  <2> HIDE DEF q
  <2>5. ASSUME NEW k \in DOMAIN q PROVE q[k].frame = frame /\ q[k].chunk < i + 1
    <3>1. CASE k = Len(pieces) + 1
      BY <1>a, <2>3, <2>4, <3>1
    <3>2. CASE k \in 1 .. Len(pieces)
      <4>1. pieces[k].chunk \in Nat
        BY <2>2, <2>4, <3>2, PieceTyped
      <4>2. q[k] = pieces[k] /\ pieces[k].frame = frame /\ pieces[k].chunk < i
        BY <2>2, <2>4, <3>2
      <4> QED
        BY <1>a, <4>1, <4>2
    <3> QED
      BY <2>4, <3>1, <3>2
  <2>6. ASSUME NEW k \in DOMAIN q, NEW l \in DOMAIN q, k < l PROVE q[k].chunk < q[l].chunk
    <3>1. k \in 1 .. Len(pieces)
      BY <2>4, <2>6
    <3>2. CASE l = Len(pieces) + 1
      BY <2>2, <2>3, <2>4, <3>1, <3>2
    <3>3. CASE l \in 1 .. Len(pieces)
      BY <2>2, <2>4, <2>6, <3>1, <3>3 DEF InOrder
    <3> QED
      BY <2>4, <3>2, <3>3
  <2>7. 1 \in DOMAIN q
    BY <2>4
  <2> QED
    BY <2>1, <2>4, <2>5, <2>6, <2>7 DEF PieceInv, InOrder
<1>6. CASE CountPoint
  BY <1>6, <1>a, <1>b DEF CountPoint, RaceInv, PieceInv, Writing, nPointsMax, InOrder, vars, learnVars, canVars, mainVars
<1>7. CASE CaptureNothing
  BY <1>7, <1>a, <1>b DEF CaptureNothing, RaceInv, PieceInv, Writing, nPointsMax, InOrder, vars, learnVars, canVars, mainVars
<1>8. CASE \E l \in Lens : CaptureFound(l)
  BY <1>8, <1>a, <1>b DEF CaptureFound, RaceInv, PieceInv, Writing, nPointsMax, InOrder, vars, learnVars, canVars, mainVars
<1>9. CASE CaptureCopy
  BY <1>9, <1>a, <1>b DEF CaptureCopy, RaceInv, PieceInv, Writing, nPointsMax, InOrder, vars, learnVars, canVars, mainVars
<1>10. CASE CaptureReset
  BY <1>10, <1>a, <1>b DEF CaptureReset, RaceInv, PieceInv, Writing, nPointsMax, InOrder, vars, learnVars, canVars, mainVars
<1>11. CASE UNCHANGED vars
  BY <1>11, <1>a, <1>b DEF RaceInv, PieceInv, Writing, nPointsMax, InOrder, vars, learnVars, canVars, mainVars
<1> QED
  BY <1>1, <1>2, <1>3, <1>4, <1>5, <1>6, <1>7, <1>8, <1>9, <1>10, <1>11 DEF Next

LEMMA RoomStep ==
  ASSUME RecorderInv, [Next]_vars
  PROVE  RoomInv'
<1>a. /\ chunks \in Points /\ Len(chunks) \in Nat /\ i \in 1 .. Len(chunks) + 1 /\ i \in Nat
      /\ \A k \in 1 .. Len(chunks) : chunks[k] \in Nat
      /\ DOMAIN chunks = 1 .. Len(chunks)
      /\ offset \in Nat /\ nPoints \in {0, 1}
      /\ Header(chunks) \in Nat /\ NET_FRAME_ALLOCSZ \in Nat
      /\ BytesTo(chunks)[0] = 0 /\ Total(chunks) \in Nat
  BY PointFacts DEF RecorderInv, TypeOK, Offsets, nPointsMax
<1>b. RaceInv /\ PieceInv /\ RoomInv
  BY DEF RecorderInv
<1>c. UNCHANGED chunks
  BY DEF Next, vars, EventTick, EventLearned, EventPoint, CheckChunk, WriteChunk, CountPoint,
     CaptureNothing, CaptureFound, CaptureCopy, CaptureReset
<1> SUFFICES ASSUME Roomy
    PROVE /\ offset' <= Header(chunks) + Total(chunks)
          /\ mpc' # "reset" /\ Writing' =>
               Len(pieces') = i' - 1 /\ offset' = Header(chunks) + BytesTo(chunks)[i' - 1]
          /\ mpc' # "reset" /\ nPoints' # 0 => Len(pieces') = Len(chunks)
          /\ mpc' = "reset" /\ Writing' => i' = 1
          /\ mpc' = "reset" /\ nPoints' # 0 => Len(chunks) = 0
  BY <1>c DEF RoomInv, Roomy
<1>d. /\ offset <= Header(chunks) + Total(chunks)
      /\ mpc # "reset" /\ Writing =>
               Len(pieces) = i - 1 /\ offset = Header(chunks) + BytesTo(chunks)[i - 1]
      /\ mpc # "reset" /\ nPoints # 0 => Len(pieces) = Len(chunks)
      /\ mpc = "reset" /\ Writing => i = 1
      /\ mpc = "reset" /\ nPoints # 0 => Len(chunks) = 0
  BY <1>b DEF RoomInv
<1>1. CASE EventTick
  BY <1>1, <1>a, <1>b, <1>d DEF EventTick, RaceInv, Writing, nPointsMax, vars, learnVars, canVars, mainVars
<1>2. CASE EventLearned
  BY <1>2, <1>a, <1>b, <1>d DEF EventLearned, RaceInv, Writing, nPointsMax, vars, learnVars, canVars, mainVars
<1>3. CASE EventPoint
  <2>1. UNCHANGED <<offset, nPoints, pieces, mpc>> /\ i' = 1 /\ ~Writing
    BY <1>3 DEF EventPoint, Writing, mainVars
  <2>2. Writing' => nPoints = 0
    BY <1>3, <1>a DEF EventPoint, Writing, nPointsMax
  <2>3. mpc # "reset" /\ Writing' => pieces = <<>> /\ offset = Header(chunks)
    BY <1>b, <2>1, <2>2 DEF PieceInv
  <2>4. Len(<<>>) = 1 - 1 /\ BytesTo(chunks)[1 - 1] = 0
    BY <1>a
  <2> QED
    BY <1>a, <1>d, <2>1, <2>3, <2>4
<1>4. CASE CheckChunk
  <2>1. i \in 1 .. Len(chunks) /\ cpc = "chunk"
    BY <1>4, <1>a DEF CheckChunk
  <2>2. Fits(i)
    <3> DEFINE h == Header(chunks)  t == Total(chunks)  z == chunks[i]
    <3>1. h \in Nat /\ t \in Nat /\ z \in Nat /\ offset <= h + t /\ h + t + z < NET_FRAME_ALLOCSZ
      BY <1>a, <1>d, <2>1 DEF Roomy
    <3> HIDE DEF h, t, z
    <3>2. offset + z < NET_FRAME_ALLOCSZ
      BY <1>a, <3>1
    <3> QED
      BY <3>2 DEF Fits, z
  <2>3. UNCHANGED <<offset, nPoints, pieces, mpc, i>> /\ Writing
    BY <1>4, <2>2 DEF CheckChunk, mainVars, Writing
  <2> QED
    BY <1>d, <2>3
<1>5. CASE WriteChunk
  <2>1. /\ mpc # "reset" /\ Writing /\ i' = i + 1 /\ offset' = offset + chunks[i]
        /\ pieces' = Append(pieces, [frame |-> frame, chunk |-> i])
        /\ UNCHANGED <<mpc, nPoints>> /\ nPoints = 0
    BY <1>5, <1>b DEF WriteChunk, RaceInv, Writing, mainVars
  <2>2. i \in 1 .. Len(chunks)
    BY <1>5, <1>a, <1>b DEF WriteChunk, RaceInv
  <2>3. Len(pieces') = Len(pieces) + 1 /\ Len(pieces) \in Nat
    BY <1>b, <2>1 DEF PieceInv
  <2>4. /\ BytesTo(chunks)[i] = BytesTo(chunks)[i - 1] + chunks[i]
        /\ BytesTo(chunks)[i] \in Nat /\ BytesTo(chunks)[i] <= Total(chunks)
        /\ BytesTo(chunks)[i - 1] \in Nat
    <3>1. i \in 0 .. Len(chunks) /\ i - 1 \in 0 .. Len(chunks)
      BY <1>a, <2>2
    <3> QED
      BY <1>a, <2>2, <3>1, PointFacts
  <2>5. Len(pieces) = i - 1 /\ offset = Header(chunks) + BytesTo(chunks)[i - 1]
    BY <1>d, <2>1
  <2>6. offset' = Header(chunks) + BytesTo(chunks)[i]
    <3>1. chunks[i] \in Nat
      BY <1>a, <2>2
    <3> DEFINE h == Header(chunks)  x == BytesTo(chunks)[i - 1]  y == BytesTo(chunks)[i]  z == chunks[i]
    <3>2. h \in Nat /\ x \in Nat /\ z \in Nat /\ y = x + z
      BY <1>a, <2>4, <3>1
    <3>3. offset' = offset + z /\ offset = h + x
      BY <2>1, <2>5
    <3> HIDE DEF h, x, y, z
    <3>4. offset' = h + y
      BY <3>2, <3>3
    <3> QED
      BY <3>4 DEF h, y
  <2>7. i' - 1 = i /\ Len(pieces') = i' - 1
    BY <1>a, <2>1, <2>3, <2>5
  <2>8. offset' <= Header(chunks) + Total(chunks)
    BY <1>a, <2>4, <2>6
  <2> QED
    BY <2>1, <2>6, <2>7, <2>8
<1>6. CASE CountPoint
  <2>1. /\ UNCHANGED <<offset, pieces, mpc>> /\ Writing /\ ~Writing' /\ i = Len(chunks) + 1
    BY <1>6, <1>a DEF CountPoint, mainVars, Writing
  <2> QED
    BY <1>a, <1>d, <2>1
<1>7. CASE CaptureNothing
  BY <1>7, <1>a, <1>b, <1>d DEF CaptureNothing, RaceInv, Writing, nPointsMax, vars, learnVars, canVars, mainVars
<1>8. CASE \E l \in Lens : CaptureFound(l)
  BY <1>8, <1>a, <1>b, <1>d DEF CaptureFound, RaceInv, Writing, nPointsMax, vars, learnVars, canVars, mainVars
<1>9. CASE CaptureCopy
  BY <1>9, <1>a, <1>b, <1>d DEF CaptureCopy, RaceInv, Writing, nPointsMax, vars, learnVars, canVars, mainVars
<1>10. CASE CaptureReset
  <2>1. /\ mpc = "reset" /\ mpc' = "idle" /\ offset' = Header(chunks) /\ pieces' = <<>>
        /\ UNCHANGED <<nPoints, cpc, i>>
    BY <1>10 DEF CaptureReset, canVars
  <2>2. Len(pieces') = 0
    BY <2>1
  <2> QED
    BY <1>a, <1>d, <2>1, <2>2 DEF Writing
<1>11. CASE UNCHANGED vars
  BY <1>11, <1>a, <1>b, <1>d DEF RaceInv, Writing, nPointsMax, vars, learnVars, canVars, mainVars
<1> QED
  BY <1>1, <1>2, <1>3, <1>4, <1>5, <1>6, <1>7, <1>8, <1>9, <1>10, <1>11 DEF Next

LEMMA WholeStep ==
  ASSUME RecorderInv, [Next]_vars
  PROVE  PointWhole'
<1>0. ASSUME UNCHANGED <<captured, chunks>> \/ (captured' = <<>> /\ UNCHANGED chunks) PROVE PointWhole'
  BY <1>0 DEF RecorderInv, PointWhole
<1>1. CASE EventTick
  BY <1>1, <1>0 DEF EventTick, vars
<1>2. CASE EventLearned
  BY <1>2, <1>0 DEF EventLearned, vars
<1>3. CASE EventPoint
  BY <1>3, <1>0 DEF EventPoint, vars
<1>4. CASE CheckChunk
  BY <1>4, <1>0 DEF CheckChunk, vars
<1>5. CASE WriteChunk
  BY <1>5, <1>0 DEF WriteChunk, vars
<1>6. CASE CountPoint
  BY <1>6, <1>0 DEF CountPoint, vars
<1>7. CASE CaptureNothing
  BY <1>7, <1>0 DEF CaptureNothing, vars
<1>8. CASE \E l \in Lens : CaptureFound(l)
  BY <1>8, <1>0 DEF CaptureFound, vars
<1>9. CASE CaptureCopy
  <2>1. mpc = "lock" /\ UNCHANGED chunks /\ captured' \in {pieces, <<>>}
    BY <1>9 DEF CaptureCopy
  <2>2. InOrder(pieces) /\ (Roomy => Len(pieces) = Len(chunks))
    BY <2>1 DEF RecorderInv, PieceInv, RoomInv, RaceInv
  <2>3. CASE captured' = <<>>
    BY <1>0, <2>1, <2>3
  <2>4. CASE captured' = pieces
    BY <2>1, <2>2, <2>4 DEF PointWhole, InOrder, Roomy
  <2> QED
    BY <2>1, <2>3, <2>4
<1>10. CASE CaptureReset
  BY <1>10, <1>0 DEF CaptureReset, vars
<1>11. CASE UNCHANGED vars
  BY <1>11, <1>0 DEF vars
<1> QED
  BY <1>1, <1>2, <1>3, <1>4, <1>5, <1>6, <1>7, <1>8, <1>9, <1>10, <1>11 DEF Next

LEMMA RecorderStep == RecorderInv /\ [Next]_vars => RecorderInv'
BY TypeStep, RaceStep, PieceStep, RoomStep, WholeStep DEF RecorderInv

-----------------------------------------------------------------------------
(* The invariant holds of every interleaving of event and Capture. *)
THEOREM RecorderInvariant == Spec => []RecorderInv
<1> QED
  BY InitRecorder, RecorderStep, PTL DEF Spec

(* CANRecorder keeps its types: event never writes behind the end of           *)
(* dataResult, although it looks at offset without BuffMtx.                    *)
THEOREM TypeCorrect == Spec => []TypeOK
<1>1. RecorderInv => TypeOK
  BY DEF RecorderInv
<1> QED
  BY <1>1, RecorderInvariant, PTL

(* CANRecorder::Capture: a captured point has the chunks of one frame, in      *)
(* order, and all of them if dataResult has room for any of them behind them.  *)
THEOREM CapturedWhole == Spec => []PointWhole
<1>1. RecorderInv => PointWhole
  BY DEF RecorderInv
<1> QED
  BY <1>1, RecorderInvariant, PTL

=============================================================================
