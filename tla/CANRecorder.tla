---------------------------- MODULE CANRecorder ----------------------------
(***************************************************************************)
(* CANRecorder: parts (chunks) of the frames with one identifier are       *)
(* collected into a point, which the main loop captures.                   *)
(*                                                                         *)
(* event runs in the CAN thread, once per frame (module CANInterface), and *)
(* Capture in the main thread.  BuffMtx is held for one chunk at a time by *)
(* the one and for the whole copy by the other, but nPoints and offset are *)
(* also read without it: only nPoints keeps the two apart.                 *)
(*                                                                         *)
(* A chunk is written at offset; pieces (history) tells which chunks of    *)
(* which frame lie between the header and offset.  Frames are counted      *)
(* modulo Frames.  activated is never cleared: DeActivate is only called   *)
(* by the part of StopDynSensors that is not reached (module Reconfig).    *)
(***************************************************************************)
EXTENDS Integers, Sequences

CONSTANTS Points,               \* the points to record: sequences of chunk lengths
          CAN_FRAMES_TO_WAIT,   \* frames to learn the period from
          NET_FRAME_ALLOCSZ,    \* bytes of dataResult
          Lens,                 \* what *len may be when the main loop calls Capture
          Frames                \* frames told apart

nPointsMax == 1

VARIABLES chunks,                           \* of the calculator
          isLearning, nTicks, oldTick,      \* lStruct; oldTick is 0 or not 0
          offset, nPoints, BuffMtx,
          cpc, i, frame,                    \* the CAN thread, in event
          mpc, len,                         \* the main thread, in Capture
          pieces, captured                  \* history: what lies in dataResult, and in data

learnVars == <<isLearning, nTicks, oldTick>>
canVars == <<cpc, i, frame>>
mainVars == <<mpc, len>>
vars == <<chunks, learnVars, offset, nPoints, BuffMtx, canVars, mainVars, pieces, captured>>

(* id, dt, size and number of chunks, and start and length of each. *)
Header(c) == 8 + 1 + 2 * Len(c)

(* The bytes of the first k chunks, and of all. *)
BytesTo(c) == LET sum[k \in 0 .. Len(c)] == IF k = 0 THEN 0 ELSE sum[k - 1] + c[k] IN sum
Total(c) == BytesTo(c)[Len(c)]

(* A recorder is built for whatever lengths the configuration gives: SetData   *)
(* ignores what Validate says and NewDynSensors never asks Ready(), nor does   *)
(* it look for the -1 of a refused Parse.  Such a recorder has no chunks, or   *)
(* more than Parse stores and then any lengths (its entries are uninitialised  *)
(* memory).  The header of a parsed point has at most 9 + 2 * 7 of the 64      *)
(* bytes; that a longer one fits is checked by nobody.                         *)
ASSUME RecorderAssumption ==
  /\ Points \subseteq Seq(Nat)
  /\ CAN_FRAMES_TO_WAIT \in Nat \ {0} /\ NET_FRAME_ALLOCSZ \in Nat \ {0} /\ Frames \in Nat \ {0}
  /\ Lens \subseteq Nat

Init ==
  /\ chunks \in Points
  /\ isLearning = TRUE /\ nTicks = CAN_FRAMES_TO_WAIT /\ oldTick = 0
  /\ offset = Header(chunks) /\ nPoints = 0 /\ BuffMtx = "free"
  /\ cpc = "idle" /\ i = 1 /\ frame = 0
  /\ mpc = "idle" /\ len = 0
  /\ pieces = <<>> /\ captured = <<>>

-----------------------------------------------------------------------------
(* event: while it learns, the recorder notes the time between frames; a time  *)
(* whose lower 16 bits are 0 counts as none.                                   *)
EventTick ==
  /\ cpc = "idle" /\ isLearning /\ nTicks > 0
  /\ oldTick' \in {0, 1}
  /\ nTicks' = IF oldTick = 0 THEN nTicks ELSE nTicks - 1
  /\ UNCHANGED <<chunks, isLearning, offset, nPoints, BuffMtx, canVars, mainVars, pieces, captured>>

(* event: the period is computed and written into the header. *)
EventLearned ==
  /\ cpc = "idle" /\ isLearning /\ nTicks = 0
  /\ isLearning' = FALSE
  /\ UNCHANGED <<chunks, nTicks, oldTick, offset, nPoints, BuffMtx, canVars, mainVars, pieces,
                 captured>>

(* Mutant: the point is counted before its chunks are there. *)
EventPointCounted ==
  /\ cpc = "idle" /\ ~isLearning
  /\ frame' = (frame + 1) % Frames
  /\ nPoints < nPointsMax
  /\ cpc' = "chunk"
  /\ nPoints' = nPoints + 1
  /\ i' = 1
  /\ UNCHANGED <<chunks, learnVars, offset, BuffMtx, mainVars, pieces, captured>>

(* event: a frame becomes the next point, unless there is one already. *)
EventPoint ==
  /\ cpc = "idle" /\ ~isLearning
  /\ frame' = (frame + 1) % Frames
  /\ cpc' = IF nPoints < nPointsMax THEN "chunk" ELSE "idle"
  /\ i' = 1
  /\ UNCHANGED <<chunks, learnVars, offset, nPoints, BuffMtx, mainVars, pieces, captured>>

(* Mutant: a chunk may be as long as it likes. *)
FitsAlways(k) == TRUE

(* The check for room. *)
Fits(k) == offset + chunks[k] < NET_FRAME_ALLOCSZ

(* The check is made without BuffMtx; a chunk that does not fit is left out.   *)
CheckChunk ==
  /\ cpc = "chunk" /\ i <= Len(chunks)
  /\ IF Fits(i) THEN cpc' = "write" /\ UNCHANGED i ELSE i' = i + 1 /\ UNCHANGED cpc
  /\ UNCHANGED <<chunks, learnVars, offset, nPoints, BuffMtx, frame, mainVars, pieces, captured>>

(* lock, memcpy to offset, unlock. *)
WriteChunk ==
  /\ cpc = "write"
  /\ BuffMtx = "free"
  /\ pieces' = Append(pieces, [frame |-> frame, chunk |-> i])
  /\ offset' = offset + chunks[i]
  /\ cpc' = "chunk" /\ i' = i + 1
  /\ UNCHANGED <<chunks, learnVars, nPoints, BuffMtx, frame, mainVars, captured>>

(* The point is complete. *)
CountPoint ==
  /\ cpc = "chunk" /\ i > Len(chunks)
  /\ nPoints' = nPoints + 1
  /\ cpc' = "idle" /\ i' = 1
  /\ UNCHANGED <<chunks, learnVars, offset, BuffMtx, frame, mainVars, pieces, captured>>

-----------------------------------------------------------------------------
(* Capture, called with the *len of the capture before: nothing to capture. *)
CaptureNothing ==
  /\ mpc = "idle"
  /\ isLearning \/ nPoints = 0
  /\ captured' = <<>>
  /\ UNCHANGED <<chunks, learnVars, offset, nPoints, BuffMtx, canVars, mainVars, pieces>>

(* Capture finds a point, *)
CaptureFound(l) ==
  /\ mpc = "idle"
  /\ ~isLearning /\ nPoints # 0
  /\ mpc' = "lock" /\ len' = l
  /\ UNCHANGED <<chunks, learnVars, offset, nPoints, BuffMtx, canVars, pieces, captured>>

(* takes BuffMtx, copies it if *len is larger, and takes it back, *)
CaptureCopy ==
  /\ mpc = "lock"
  /\ BuffMtx = "free"
  /\ BuffMtx' = "main"
  /\ captured' = IF len > offset THEN pieces ELSE <<>>
  /\ nPoints' = 0
  /\ mpc' = "reset" /\ len' = 0
  /\ UNCHANGED <<chunks, learnVars, offset, canVars, pieces>>

(* and only then sets offset back to the header and releases BuffMtx. *)
CaptureReset ==
  /\ mpc = "reset"
  /\ offset' = Header(chunks) /\ pieces' = <<>>
  /\ BuffMtx' = "free"
  /\ mpc' = "idle"
  /\ UNCHANGED <<chunks, learnVars, nPoints, canVars, len, captured>>

-----------------------------------------------------------------------------
Next == \/ EventTick \/ EventLearned \/ EventPoint \/ CheckChunk \/ WriteChunk \/ CountPoint
        \/ CaptureNothing \/ (\E l \in Lens : CaptureFound(l)) \/ CaptureCopy \/ CaptureReset

Spec == Init /\ [][Next]_vars

-----------------------------------------------------------------------------
(* Where the next chunk may be written. *)
Offsets == IF Header(chunks) < NET_FRAME_ALLOCSZ
           THEN Header(chunks) .. NET_FRAME_ALLOCSZ - 1 ELSE {Header(chunks)}

(* Types of the state; event never writes dataResult behind its end, and       *)
(* nothing behind a header that already goes beyond it.                        *)
TypeOK ==
  /\ chunks \in Points
  /\ isLearning \in BOOLEAN /\ nTicks \in 0 .. CAN_FRAMES_TO_WAIT /\ oldTick \in {0, 1}
  /\ offset \in Offsets /\ nPoints \in 0 .. nPointsMax
  /\ BuffMtx \in {"free", "main"}
  /\ cpc \in {"idle", "chunk", "write"} /\ i \in 1 .. Len(chunks) + 1 /\ frame \in 0 .. Frames - 1
  /\ mpc \in {"idle", "lock", "reset"} /\ len \in Lens \cup {0}

(* A captured point consists of chunks of one frame, in their order, and of    *)
(* all of them if there is room for any one even behind a point not yet taken: *)
(* a frame that arrives during Capture, when nPoints is 0 again and offset     *)
(* still that of the last point, is then not torn.                             *)
PointWhole ==
  captured # <<>> =>
    /\ \A k \in DOMAIN captured : captured[k].frame = captured[1].frame
    /\ \A k, l \in DOMAIN captured : k < l => captured[k].chunk < captured[l].chunk
    /\ (\A k \in DOMAIN chunks : Header(chunks) + Total(chunks) + chunks[k] < NET_FRAME_ALLOCSZ)
         => Len(captured) = Len(chunks)
=============================================================================
