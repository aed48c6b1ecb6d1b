------------------------- MODULE MyMemoryAllocator -------------------------
(***************************************************************************)
(* MyMemoryAllocator: the heap of AHB RAM from which sensors, calculators  *)
(* and CAN messages are allocated (MyMemoryObject's new and delete) by     *)
(* every thread.  The memory is tiled by blocks, each a MemBlock header of *)
(* HDR bytes and sz bytes of data, in a list doubly linked in the order of *)
(* their addresses.  malloc splits the first FREE block that is large      *)
(* enough; free joins the block with its FREE neighbours.                  *)
(*                                                                         *)
(* Both work under memAccess, but both also run PrintResume, which walks   *)
(* the list, adds up the sizes and resets the board when the sum exceeds   *)
(* the memory: free calls it with the mutex held, between its two joins,   *)
(* malloc after it has released the mutex.  The critical sections are one  *)
(* step each (free's is cut by its walk); the walk reads a size and a link *)
(* in separate steps.                                                      *)
(*                                                                         *)
(* A block is named by the offset of its header; blk holds the headers of  *)
(* the list, the block at 0 being head.  (data is always the address after *)
(* the header.)  An address that is not in the list any more holds bytes   *)
(* of some block's data.                                                   *)
(***************************************************************************)
EXTENDS Integers

CONSTANTS memorySize,   \* ALLOC_MEM_SIZE
          HDR,          \* sizeof(MemBlock)
          Requests,     \* the sizes threads ask for
          Threads,
          Nobody        \* no thread: the mutex is free

UINT16 == 256 * 256

ASSUME MemoryAssumption ==
  /\ Nobody \notin Threads
  /\ HDR \in Nat \ {0}
  /\ memorySize \in Nat /\ HDR < memorySize /\ memorySize + 1 < UINT16
  /\ Requests \subseteq Nat
  /\ \A r \in Requests : r + (r % 4) < UINT16

NULL == -1
Addr == 0 .. memorySize - 1
Link == Addr \cup {NULL}

VARIABLES blk,          \* the headers in the list
          memAccess,    \* the thread holding the mutex
          pc,           \* per thread: "idle", "walk", "step", "join" or "fault"
          at, sum,      \* per thread: pBlock and sum of PrintResume
          got,          \* per thread: the block malloc returns, or free releases
          asked         \* history: the size asked for each block in use

vars == <<blk, memAccess, pc, at, sum, got, asked>>

Blocks == DOMAIN blk

(* What the constructor makes of the memory. *)
Whole == [a \in {0} |-> [prev |-> NULL, sz |-> memorySize - HDR, status |-> "FREE", next |-> NULL]]

Init == /\ blk = Whole
        /\ memAccess = Nobody
        /\ pc = [t \in Threads |-> "idle"]
        /\ at = [t \in Threads |-> NULL]
        /\ sum = [t \in Threads |-> 0]
        /\ got = [t \in Threads |-> NULL]
        /\ asked = [a \in {} |-> 0]

-----------------------------------------------------------------------------
(* Mutant: the size is aligned downwards. *)
AlignDown(sz) == (sz - (sz % 4)) % UINT16

(* The size really taken ("Align"): at most 3 bytes more than asked for, in    *)
(* 16 bits.                                                                    *)
Align(sz) == (sz + (sz % 4)) % UINT16

(* Mutant: the room for the new header is not asked for. *)
CanHoldNoHeader(a, sz) == blk[a].status = "FREE" /\ blk[a].sz > sz

(* malloc looks for a FREE block strictly larger than data and a new header. *)
CanHold(a, sz) == blk[a].status = "FREE" /\ blk[a].sz > sz + HDR

(* ... and takes the first of the list. *)
FirstFit(a, sz) ==
  /\ a \in Blocks
  /\ CanHold(a, sz)
  /\ \A x \in Blocks : x < a => ~CanHold(x, sz)

(* Block a cut after sz bytes of data: the rest becomes a FREE block. *)
Fragment(a, sz) ==
  LET n == a + HDR + sz
  IN [x \in Blocks \cup {n} |->
        CASE x = n -> [prev |-> a, sz |-> blk[a].sz - (HDR + sz), status |-> "FREE",
                       next |-> blk[a].next]
          [] x = a -> [prev |-> blk[a].prev, sz |-> sz, status |-> "INUSE", next |-> n]
          [] x = blk[a].next /\ x # n -> [prev |-> n, sz |-> blk[x].sz,
                                status |-> blk[x].status, next |-> blk[x].next]
          [] OTHER -> blk[x]]

(* Mutant: the block after the joined one still points back to it. *)
JoinNextStalePrev(m, p) ==
  LET n == m[p].next
  IN IF n = NULL THEN m
     ELSE [x \in DOMAIN m \ {n} |->
             IF x = p THEN [prev |-> m[p].prev, sz |-> m[p].sz + m[n].sz + HDR,
                            status |-> m[p].status, next |-> m[n].next]
                      ELSE m[x]]

(* JoinNextBlock(p) on the list m: the block after p becomes data of p. *)
JoinNextBlock(m, p) ==
  LET n == m[p].next
  IN IF n = NULL THEN m
     ELSE [x \in DOMAIN m \ {n} |->
             CASE x = p -> [prev |-> m[p].prev, sz |-> m[p].sz + m[n].sz + HDR,
                            status |-> m[p].status, next |-> m[n].next]
               [] x = m[n].next /\ x # p -> [prev |-> p, sz |-> m[x].sz,
                                     status |-> m[x].status, next |-> m[x].next]
               [] OTHER -> m[x]]

(* Block a marked FREE. *)
Released(a) == [x \in Blocks |->
                  IF x = a THEN [prev |-> blk[a].prev, sz |-> blk[a].sz,
                                 status |-> "FREE", next |-> blk[a].next]
                           ELSE blk[x]]

(* Mutant: the next block is never joined. *)
FreeNoJoinNext(a) == Released(a)

(* free up to its PrintResume: mark the block FREE, and join the next one. *)
FreeJoinNext(a) ==
  LET n == blk[a].next
  IN IF n # NULL /\ blk[n].status = "FREE" THEN JoinNextBlock(Released(a), a) ELSE Released(a)

(* Thread t enters PrintResume on behalf of block a. *)
StartWalk(t, a) ==
  /\ pc' = [pc EXCEPT ![t] = "walk"]
  /\ at' = [at EXCEPT ![t] = 0]
  /\ sum' = [sum EXCEPT ![t] = 0]
  /\ got' = [got EXCEPT ![t] = a]

(* Thread t returns to its caller. *)
Returns(t) ==
  /\ pc' = [pc EXCEPT ![t] = "idle"]
  /\ at' = [at EXCEPT ![t] = NULL]
  /\ sum' = [sum EXCEPT ![t] = 0]
  /\ got' = [got EXCEPT ![t] = NULL]

-----------------------------------------------------------------------------
(* Mutant: malloc takes its block without the mutex. *)
MallocUnlocked(t, r, a) ==
  /\ pc[t] = "idle"
  /\ FirstFit(a, Align(r))
  /\ blk' = Fragment(a, Align(r))
  /\ asked' = [x \in DOMAIN asked \cup {a} |-> IF x = a THEN r ELSE asked[x]]
  /\ StartWalk(t, a)
  /\ UNCHANGED memAccess

(* malloc: lock, find, fragment, unlock; then PrintResume without the lock. *)
Malloc(t, r, a) ==
  /\ pc[t] = "idle"
  /\ memAccess = Nobody
  /\ FirstFit(a, Align(r))
  /\ blk' = Fragment(a, Align(r))
  /\ asked' = [x \in DOMAIN asked \cup {a} |-> IF x = a THEN r ELSE asked[x]]
  /\ StartWalk(t, a)
  /\ UNCHANGED memAccess

(* malloc finds no block: it returns NULL, after the same walk. *)
MallocFails(t, r) ==
  /\ pc[t] = "idle"
  /\ memAccess = Nobody
  /\ \A a \in Blocks : ~CanHold(a, Align(r))
  /\ StartWalk(t, NULL)
  /\ UNCHANGED <<blk, memAccess, asked>>

(* The blocks whose address malloc has returned to some thread. *)
Handles == {a \in DOMAIN asked : \A u \in Threads : ~(pc[u] # "idle" /\ got[u] = a)}

(* free: lock, find the block, mark it FREE and join the next block.  (A       *)
(* pointer that is no block's changes nothing.)                                *)
Free(t, a) ==
  /\ pc[t] = "idle"
  /\ memAccess = Nobody
  /\ a \in Handles
  /\ memAccess' = t
  /\ blk' = FreeJoinNext(a)
  /\ asked' = [x \in DOMAIN asked \ {a} |-> asked[x]]
  /\ StartWalk(t, a)

(* Mutant: the block before is never joined. *)
FreeNoJoinPrev(t) ==
  /\ pc[t] = "join"
  /\ memAccess' = Nobody
  /\ Returns(t)
  /\ UNCHANGED <<blk, asked>>

(* free, after PrintResume: join the block to a FREE block before it; unlock. *)
FreeJoinPrev(t) ==
  LET p == blk[got[t]].prev
  IN /\ pc[t] = "join"
     /\ blk' = IF p # NULL /\ blk[p].status = "FREE" THEN JoinNextBlock(blk, p) ELSE blk
     /\ memAccess' = Nobody
     /\ Returns(t)
     /\ UNCHANGED asked

-----------------------------------------------------------------------------
(* PrintResume: sum += pBlock->sz + sizeof(MemBlock). *)
WalkSize(t) ==
  /\ pc[t] = "walk"
  /\ at[t] \in Blocks
  /\ sum' = [sum EXCEPT ![t] = (@ + blk[at[t]].sz + HDR) % UINT16]
  /\ pc' = [pc EXCEPT ![t] = "step"]
  /\ UNCHANGED <<blk, memAccess, at, got, asked>>

(* PrintResume: pBlock = pBlock->next. *)
WalkNext(t) ==
  /\ pc[t] = "step"
  /\ at[t] \in Blocks
  /\ at' = [at EXCEPT ![t] = blk[@].next]
  /\ pc' = [pc EXCEPT ![t] = "walk"]
  /\ UNCHANGED <<blk, memAccess, sum, got, asked>>

(* The block under a walk without the lock was joined away: what is read there *)
(* is data, and the walk ends with a sum that is anything.                     *)
WalkLost(t) ==
  /\ pc[t] \in {"walk", "step"}
  /\ at[t] # NULL /\ at[t] \notin Blocks
  /\ \E s \in {0, memorySize + 1} : sum' = [sum EXCEPT ![t] = s]
  /\ at' = [at EXCEPT ![t] = NULL]
  /\ pc' = [pc EXCEPT ![t] = "walk"]
  /\ UNCHANGED <<blk, memAccess, got, asked>>

(* The end of the list, and the sum is a fault. *)
WalkFault(t) ==
  /\ pc[t] = "walk" /\ at[t] = NULL
  /\ sum[t] > memorySize
  /\ pc' = [pc EXCEPT ![t] = "fault"]
  /\ UNCHANGED <<blk, memAccess, at, sum, got, asked>>

(* The end of the list, and malloc returns. *)
MallocReturns(t) ==
  /\ pc[t] = "walk" /\ at[t] = NULL
  /\ sum[t] <= memorySize
  /\ memAccess # t
  /\ Returns(t)
  /\ UNCHANGED <<blk, memAccess, asked>>

(* The end of the list, and free goes on. *)
FreeGoesOn(t) ==
  /\ pc[t] = "walk" /\ at[t] = NULL
  /\ sum[t] <= memorySize
  /\ memAccess = t
  /\ pc' = [pc EXCEPT ![t] = "join"]
  /\ UNCHANGED <<blk, memAccess, at, sum, got, asked>>

(* NVIC_SystemReset, after a wait: the program starts again. *)
SystemReset(t) ==
  /\ pc[t] = "fault"
  /\ blk' = Whole
  /\ memAccess' = Nobody
  /\ pc' = [u \in Threads |-> "idle"]
  /\ at' = [u \in Threads |-> NULL]
  /\ sum' = [u \in Threads |-> 0]
  /\ got' = [u \in Threads |-> NULL]
  /\ asked' = [a \in {} |-> 0]

Next == \E t \in Threads :
          \/ \E r \in Requests : \E a \in Addr : Malloc(t, r, a)
          \/ \E r \in Requests : MallocFails(t, r)
          \/ \E a \in Addr : Free(t, a)
          \/ FreeJoinPrev(t)
          \/ WalkSize(t)
          \/ WalkNext(t)
          \/ WalkLost(t)
          \/ WalkFault(t)
          \/ MallocReturns(t)
          \/ FreeGoesOn(t)
          \/ SystemReset(t)

Spec == Init /\ [][Next]_vars
-----------------------------------------------------------------------------
Header == [prev : Link, sz : 0 .. memorySize, status : {"FREE", "INUSE"}, next : Link]

(* A list of headers, head included. *)
IsList(m) == /\ DOMAIN m \subseteq Addr /\ 0 \in DOMAIN m
             /\ m \in [DOMAIN m -> Header]

(* Types of the state. *)
TypeOK == /\ IsList(blk)
          /\ memAccess \in Threads \cup {Nobody}
          /\ pc \in [Threads -> {"idle", "walk", "step", "join", "fault"}]
          /\ at \in [Threads -> Link]
          /\ sum \in [Threads -> 0 .. UINT16 - 1]
          /\ got \in [Threads -> Link]
          /\ DOMAIN asked \subseteq Addr
          /\ \A a \in DOMAIN asked : asked[a] \in Requests

(* Where block a of the list m ends. *)
EndOf(m, a) == a + HDR + m[a].sz

(* The list m tiles the memory. *)
Tiles(m) ==
  /\ m[0].prev = NULL
  /\ \A a \in DOMAIN m :
       IF m[a].next = NULL
       THEN EndOf(m, a) = memorySize
       ELSE m[a].next \in DOMAIN m /\ EndOf(m, a) = m[a].next /\ m[m[a].next].prev = a
  /\ \A a \in DOMAIN m \ {0} : m[a].prev \in DOMAIN m /\ m[m[a].prev].next = a
  /\ \A a, b \in DOMAIN m : a < b => EndOf(m, a) <= b

(* The list tiles the memory: every block ends where the next one starts, the  *)
(* last one at the end of the memory; the backward links mirror the forward    *)
(* ones; no two blocks overlap.  A split or a join that forgets one of the     *)
(* five fields it touches breaks this, now or at a later join.                 *)
Tiling == Tiles(blk)

(* The blocks in use are exactly those that callers own, and each is as large  *)
(* as was asked: no block is lost, handed out twice or cut short by a later    *)
(* split or join.                                                              *)
Ownership ==
  /\ \A a \in Blocks : blk[a].status = "INUSE" <=> a \in DOMAIN asked
  /\ \A a \in DOMAIN asked : a \in Blocks /\ asked[a] <= blk[a].sz

(* Two FREE neighbours exist only between the two joins of a free in progress, *)
(* on the near side of the block it releases.                                  *)
Coalesced ==
  \A a \in Blocks :
     blk[a].status = "FREE" /\ blk[a].next # NULL /\ blk[blk[a].next].status = "FREE"
       => memAccess # Nobody /\ got[memAccess] = blk[a].next

(* Once everything is freed the heap is the single block it was at boot,       *)
(* whatever the order of the frees.                                            *)
AllFreedIsWhole == (DOMAIN asked = {} /\ memAccess = Nobody) => blk = Whole

(* Free's walk, made with the mutex held, adds up exactly the addresses it     *)
(* passes, so it never ends in a fault: nothing else touches the list.         *)
LockedWalkExact ==
  memAccess # Nobody =>
    LET t == memAccess
    IN /\ pc[t] # "fault"
       /\ pc[t] = "walk" => IF at[t] = NULL THEN sum[t] = memorySize
                                           ELSE at[t] \in Blocks /\ sum[t] = at[t]
       /\ pc[t] = "step" => at[t] \in Blocks /\ sum[t] = EndOf(blk, at[t])

(* The check of PrintResume stops the board with "MemoryAllocator fault        *)
(* %d>%d __________STOP__________": it is meant to find a broken list.         *)
FaultMeansBroken == (\E t \in Threads : pc[t] = "fault") => ~Tiling

-----------------------------------------------------------------------------
(* The mutex is held by the thread that is inside free. *)
LockHolder ==
  /\ memAccess # Nobody => /\ pc[memAccess] # "idle"
                           /\ got[memAccess] \in Blocks \ DOMAIN asked
  /\ \A t \in Threads : pc[t] = "join" => memAccess = t

(* The inductive invariant. *)
MemInv == TypeOK /\ Tiling /\ Ownership /\ Coalesced /\ LockedWalkExact /\ LockHolder
=============================================================================
