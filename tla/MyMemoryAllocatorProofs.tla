---------------------- MODULE MyMemoryAllocatorProofs ----------------------
(***************************************************************************)
(* The heap keeps its list consistent for every memory size, header size,  *)
(* set of requests and set of threads.  The inductive invariant is MemInv: *)
(* Coalesced needs to know which thread is between its two joins           *)
(* (LockHolder), and that thread's walk is exact because nobody else may   *)
(* change the list.                                                        *)
(***************************************************************************)
EXTENDS MyMemoryAllocator, TLAPS

(* Blocks lie inside the memory. *)
LEMMA EndInMemory ==
  ASSUME NEW m, IsList(m), Tiles(m), NEW a \in DOMAIN m
  PROVE  /\ EndOf(m, a) \in Nat /\ EndOf(m, a) <= memorySize /\ a < EndOf(m, a)
         /\ a \in Nat /\ m[a].sz \in Nat
<1>1. m[a] \in Header /\ a \in Addr /\ \A x \in DOMAIN m : x \in Addr
  BY DEF IsList
<1> QED
  BY <1>1, MemoryAssumption DEF Tiles, EndOf, Header, Addr

-----------------------------------------------------------------------------
(* What the list F is when block a was cut after sz bytes: n is the rest, d    *)
(* the block that followed a.                                                  *)
FragmentFacts(a, sz, F, n, d) ==
  /\ n \in Addr /\ n \notin Blocks /\ a < n /\ n + HDR < EndOf(blk, a)
  /\ DOMAIN F = Blocks \cup {n} /\ F = [x \in DOMAIN F |-> F[x]]
  /\ F[n] = [prev |-> a, sz |-> blk[a].sz - (HDR + sz), status |-> "FREE", next |-> d]
  /\ F[a] = [prev |-> blk[a].prev, sz |-> sz, status |-> "INUSE", next |-> n]
  /\ d # NULL => F[d] = [prev |-> n, sz |-> blk[d].sz, status |-> blk[d].status,
                         next |-> blk[d].next]
  /\ \A x \in Blocks : x # a /\ x # d => F[x] = blk[x]

(* What Fragment makes of the list, field by field. *)
LEMMA FragmentShape ==
  ASSUME IsList(blk), Tiles(blk), NEW a \in Blocks, NEW sz \in Nat, CanHold(a, sz)
  PROVE  FragmentFacts(a, sz, Fragment(a, sz), a + HDR + sz, blk[a].next)
<1> DEFINE n == a + HDR + sz
<1>1. n \in Addr /\ a < n /\ n + HDR < EndOf(blk, a) /\ n \notin Blocks
  <2>1. a \in Nat /\ blk[a].sz \in Nat /\ EndOf(blk, a) \in Nat /\ EndOf(blk, a) <= memorySize
    BY EndInMemory DEF Blocks
  <2>2. \A x \in Blocks : a < x => EndOf(blk, a) <= x
    BY DEF Tiles, Blocks
  <2> QED
    BY <2>1, <2>2, MemoryAssumption DEF CanHold, EndOf, Addr
<1>2. blk[a].next # NULL => blk[a].next \in Blocks /\ blk[a].next > a
  BY MemoryAssumption, EndInMemory DEF Tiles, EndOf, Blocks, IsList, Addr
<1>3. a # n /\ a # blk[a].next /\ n # blk[a].next
  BY <1>1, <1>2 DEF Addr, NULL, Blocks, IsList
<1> QED
  BY <1>1, <1>2, <1>3 DEF Fragment, FragmentFacts, Blocks

(* A split keeps the list consistent. *)
LEMMA FragmentTiles ==
  ASSUME IsList(blk), Tiles(blk), NEW a \in Blocks, NEW sz \in Nat, CanHold(a, sz)
  PROVE  IsList(Fragment(a, sz)) /\ Tiles(Fragment(a, sz))
<1> DEFINE F == Fragment(a, sz)
           n == a + HDR + sz
           d == blk[a].next
<1>1. /\ n \in Addr /\ n \notin Blocks /\ a < n /\ n + HDR < EndOf(blk, a)
      /\ DOMAIN F = Blocks \cup {n} /\ F = [x \in DOMAIN F |-> F[x]]
      /\ F[n] = [prev |-> a, sz |-> blk[a].sz - (HDR + sz), status |-> "FREE", next |-> d]
      /\ F[a] = [prev |-> blk[a].prev, sz |-> sz, status |-> "INUSE", next |-> n]
      /\ d # NULL => F[d] = [prev |-> n, sz |-> blk[d].sz, status |-> blk[d].status,
                             next |-> blk[d].next]
      /\ \A x \in Blocks : x # a /\ x # d => F[x] = blk[x]
  BY FragmentShape DEF FragmentFacts
<1> HIDE DEF F, n, d
<1>0. /\ \A x \in Blocks : x # NULL /\ x \in Addr /\ blk[x] \in Header
      /\ d \in Link /\ a \in Addr /\ 0 \in Blocks
  BY DEF IsList, Blocks, NULL, Addr, Header, d
<1>a. blk[a].sz - (HDR + sz) \in 0 .. memorySize /\ sz \in 0 .. memorySize
  BY MemoryAssumption, <1>0 DEF CanHold, Header
<1>2. IsList(F)
  <2>1. F[n] \in Header /\ F[a] \in Header
    BY <1>0, <1>1, <1>a DEF Header, Link
  <2>2. d # NULL => F[d] \in Header
    BY <1>0, <1>1, d # NULL => d \in Blocks DEF Header, Link, Tiles, Blocks, d
  <2>3. \A x \in Blocks : F[x] \in Header
    BY <1>0, <1>1, <2>1, <2>2
  <2> QED
    BY <1>0, <1>1, <2>1, <2>3 DEF IsList
<1>3. \A x \in Blocks : x # a => F[x].sz = blk[x].sz /\ F[x].next = blk[x].next
  BY <1>0, <1>1
<1>4. \A x \in Blocks : x # d => F[x].prev = blk[x].prev
  BY <1>1
<1>5. /\ F[n].sz = blk[a].sz - (HDR + sz) /\ F[n].next = d /\ F[n].prev = a
      /\ F[a].sz = sz /\ F[a].next = n
      /\ d # NULL => F[d].prev = n
  BY <1>1
<1>6. DOMAIN F = Blocks \cup {n} /\ n \in Addr /\ n \notin Blocks /\ a < n
      /\ n + HDR < EndOf(blk, a)
  BY <1>1
<1>7. EndOf(F, n) = EndOf(blk, a) /\ EndOf(F, a) = n
  BY <1>0, <1>5, <1>6, MemoryAssumption DEF EndOf, Addr, n, Header
<1>8. \A x \in Blocks : x # a => EndOf(F, x) = EndOf(blk, x)
  BY <1>3 DEF EndOf
<1>9. F[0].prev = NULL
  BY <1>4, <1>6, EndInMemory DEF IsList, Tiles, Blocks, d, EndOf, NULL, Addr
<1>10. ASSUME NEW x \in DOMAIN F
       PROVE  IF F[x].next = NULL
              THEN EndOf(F, x) = memorySize
              ELSE F[x].next \in DOMAIN F /\ EndOf(F, x) = F[x].next /\ F[F[x].next].prev = x
  <2>1. CASE x = n
    BY <2>1, <1>5, <1>6, <1>7 DEF Tiles, d, Blocks
  <2>2. CASE x = a
    BY <2>2, <1>5, <1>6, <1>7 DEF NULL, Addr
  <2>3. CASE x # n /\ x # a
    <3>1. x \in Blocks /\ F[x].next = blk[x].next /\ EndOf(F, x) = EndOf(blk, x)
      BY <2>3, <1>3, <1>6, <1>8
    <3>2. blk[x].next # NULL => blk[x].next \in Blocks /\ EndOf(blk, x) = blk[x].next
                                /\ blk[blk[x].next].prev = x
      BY <3>1 DEF Tiles, Blocks
    <3>3. blk[x].next = NULL => EndOf(blk, x) = memorySize
      BY <3>1 DEF Tiles, Blocks
    <3>4. blk[x].next # NULL => blk[x].next # d
      BY <3>2, <2>3 DEF Tiles, Blocks, d
    <3> QED
      BY <3>1, <3>2, <3>3, <3>4, <1>4, <1>6
  <2> QED
    BY <2>1, <2>2, <2>3
<1>11. ASSUME NEW x \in DOMAIN F \ {0}
       PROVE  F[x].prev \in DOMAIN F /\ F[F[x].prev].next = x
  <2>1. CASE x = n
    BY <2>1, <1>5, <1>6
  <2>2. CASE x # n /\ x = d
    BY <2>2, <1>5, <1>6 DEF NULL, Addr, IsList, Blocks
  <2>3. CASE x # n /\ x # d
    <3>1. x \in Blocks /\ F[x].prev = blk[x].prev
      BY <2>3, <1>4, <1>6
    <3>2. blk[x].prev \in Blocks /\ blk[blk[x].prev].next = x
      BY <3>1 DEF Tiles, Blocks
    <3>3. blk[x].prev # a
      BY <3>2, <2>3 DEF d
    <3> QED
      BY <3>1, <3>2, <3>3, <1>3, <1>6
  <2> QED
    BY <2>1, <2>2, <2>3
<1>12. ASSUME NEW x \in DOMAIN F, NEW y \in DOMAIN F, x < y
       PROVE  EndOf(F, x) <= y
  <2>0. \A u, v \in Blocks : u < v => EndOf(blk, u) <= v
    BY DEF Tiles, Blocks
  <2>1. \A u \in Blocks : u \in Nat /\ EndOf(blk, u) \in Nat /\ u < EndOf(blk, u)
    BY EndInMemory DEF Blocks
  <2>2. CASE x = n
    BY <2>2, <2>0, <2>1, <1>6, <1>7, <1>12, MemoryAssumption DEF Addr
  <2>3. CASE x = a
    BY <2>3, <2>0, <2>1, <1>6, <1>7, <1>12, MemoryAssumption DEF Addr
  <2>4. CASE x # n /\ x # a /\ y = n
    BY <2>4, <2>0, <2>1, <1>6, <1>8, <1>12, MemoryAssumption DEF Addr
  <2>5. CASE x # n /\ x # a /\ y # n
    BY <2>5, <2>0, <2>1, <1>6, <1>8, <1>12
  <2> QED
    BY <2>2, <2>3, <2>4, <2>5
<1> QED
  BY <1>2, <1>9, <1>10, <1>11, <1>12 DEF Tiles, F

-----------------------------------------------------------------------------
(* What the list J is when n, the block before d, was joined to p in m. *)
JoinFacts(m, p, J, n, d) ==
  /\ n \in DOMAIN m /\ p < n /\ n # 0 /\ n # d
  /\ d # NULL => d \in DOMAIN m /\ d > n
  /\ DOMAIN J = DOMAIN m \ {n} /\ J = [x \in DOMAIN J |-> J[x]]
  /\ J[p] = [prev |-> m[p].prev, sz |-> m[p].sz + m[n].sz + HDR,
             status |-> m[p].status, next |-> d]
  /\ d # NULL => J[d] = [prev |-> p, sz |-> m[d].sz, status |-> m[d].status,
                         next |-> m[d].next]
  /\ \A x \in DOMAIN m : x # p /\ x # n /\ x # d => J[x] = m[x]

(* What JoinNextBlock makes of the list, field by field. *)
LEMMA JoinShape ==
  ASSUME NEW m, IsList(m), Tiles(m), NEW p \in DOMAIN m, m[p].next # NULL,
         NEW J, J = JoinNextBlock(m, p), NEW n, n = m[p].next, NEW d, d = m[n].next
  PROVE  JoinFacts(m, p, J, n, d)
<1>1. n \in DOMAIN m /\ p < n /\ n # 0
  BY EndInMemory DEF Tiles
<1>2. d # NULL => d \in DOMAIN m /\ d > n
  BY <1>1, EndInMemory DEF Tiles
<1>3. n # d /\ p # d
  BY <1>1, <1>2, MemoryAssumption DEF IsList, NULL, Addr
<1> QED
  BY <1>1, <1>2, <1>3 DEF JoinNextBlock, JoinFacts

(* A join keeps the list consistent. *)
LEMMA JoinTiles ==
  ASSUME NEW m, IsList(m), Tiles(m), NEW p \in DOMAIN m, m[p].next # NULL,
         NEW J, J = JoinNextBlock(m, p), NEW n, n = m[p].next, NEW d, d = m[n].next
  PROVE  IsList(J) /\ Tiles(J)
<1>1. /\ n \in DOMAIN m /\ p < n /\ n # 0 /\ n # d
      /\ d # NULL => d \in DOMAIN m /\ d > n
      /\ DOMAIN J = DOMAIN m \ {n} /\ J = [x \in DOMAIN J |-> J[x]]
      /\ J[p] = [prev |-> m[p].prev, sz |-> m[p].sz + m[n].sz + HDR,
                 status |-> m[p].status, next |-> d]
      /\ d # NULL => J[d] = [prev |-> p, sz |-> m[d].sz, status |-> m[d].status,
                             next |-> m[d].next]
      /\ \A x \in DOMAIN m : x # p /\ x # n /\ x # d => J[x] = m[x]
  <2>1. JoinFacts(m, p, J, n, d)
    BY JoinShape
  <2> QED
    BY <2>1 DEF JoinFacts
<1>0. \A x \in DOMAIN m : x # NULL /\ x \in Addr /\ m[x] \in Header
  BY DEF IsList, NULL, Addr
<1>p. p # n /\ p \in DOMAIN J /\ d \in Link
  BY <1>0, <1>1 DEF Addr, Header
<1>e. EndOf(m, p) = n /\ (IF d = NULL THEN EndOf(m, n) = memorySize
                                       ELSE EndOf(m, n) = d /\ m[d].prev = n)
  BY <1>1 DEF Tiles
<1>2. /\ \A x \in DOMAIN m : x # p /\ x # n => J[x].sz = m[x].sz /\ J[x].next = m[x].next
      /\ \A x \in DOMAIN m : x # d /\ x # n => J[x].prev = m[x].prev
      /\ J[p].sz = m[p].sz + m[n].sz + HDR /\ J[p].next = d
      /\ d # NULL => J[d].prev = p
  BY <1>0, <1>1
<1>3. EndOf(J, p) = EndOf(m, n)
  BY <1>0, <1>1, <1>2, <1>e, MemoryAssumption DEF EndOf, Header, Addr
<1>4. \A x \in DOMAIN m : x # p /\ x # n => EndOf(J, x) = EndOf(m, x)
  BY <1>2 DEF EndOf
<1>5. IsList(J)
  <2>1. EndOf(m, n) <= memorySize /\ EndOf(m, n) \in Nat
    BY <1>1, EndInMemory
  <2>2. J[p].sz \in 0 .. memorySize
    BY <2>1, <1>0, <1>1, <1>2, <1>3, MemoryAssumption DEF EndOf, Header, Addr
  <2>3. J[p] \in Header
    BY <2>2, <1>0, <1>1, <1>2, <1>p DEF Header
  <2>4. d # NULL => J[d] \in Header
    BY <1>0, <1>1 DEF Header, Link
  <2>5. \A x \in DOMAIN J : J[x] \in Header
    BY <2>3, <2>4, <1>0, <1>1
  <2> QED
    BY <2>5, <1>1 DEF IsList
<1>6. J[0].prev = NULL
  BY <1>0, <1>1, <1>2 DEF IsList, Tiles, Addr, NULL
<1>7. ASSUME NEW x \in DOMAIN J
      PROVE  IF J[x].next = NULL
             THEN EndOf(J, x) = memorySize
             ELSE J[x].next \in DOMAIN J /\ EndOf(J, x) = J[x].next /\ J[J[x].next].prev = x
  <2>1. CASE x = p
    BY <2>1, <1>1, <1>2, <1>3, <1>e
  <2>2. CASE x # p
    <3>1. x \in DOMAIN m /\ x # n /\ J[x].next = m[x].next /\ EndOf(J, x) = EndOf(m, x)
      BY <2>2, <1>1, <1>2, <1>4
    <3>2. m[x].next = NULL => EndOf(m, x) = memorySize
      BY <3>1 DEF Tiles
    <3>3. m[x].next # NULL => m[x].next \in DOMAIN m /\ EndOf(m, x) = m[x].next
                              /\ m[m[x].next].prev = x
      BY <3>1 DEF Tiles
    <3>4. m[x].next # NULL => m[x].next # n /\ m[x].next # d
      <4>1. m[n].prev = p
        BY DEF Tiles
      <4> QED
        BY <4>1, <3>1, <3>3, <2>2, <1>e
    <3> QED
      BY <3>1, <3>2, <3>3, <3>4, <1>1, <1>2
  <2> QED
    BY <2>1, <2>2
<1>8. ASSUME NEW x \in DOMAIN J \ {0}
      PROVE  J[x].prev \in DOMAIN J /\ J[J[x].prev].next = x
  <2>0. x \in DOMAIN m /\ x # n /\ x # NULL
    BY <1>0, <1>1
  <2>1. CASE x = d
    BY <2>0, <2>1, <1>1, <1>2, <1>p
  <2>2. CASE x # d
    <3>1. J[x].prev = m[x].prev /\ m[x].prev \in DOMAIN m /\ m[m[x].prev].next = x
      BY <2>0, <2>2, <1>2 DEF Tiles
    <3>2. m[x].prev # n /\ m[x].prev # p
      BY <3>1, <2>0, <2>2
    <3> QED
      BY <3>1, <3>2, <1>1, <1>2
  <2> QED
    BY <2>1, <2>2
<1>9. ASSUME NEW x \in DOMAIN J, NEW y \in DOMAIN J, x < y
      PROVE  EndOf(J, x) <= y
  <2>0. \A u, v \in DOMAIN m : u < v => EndOf(m, u) <= v
    BY DEF Tiles
  <2>1. \A u \in DOMAIN m : u \in Nat /\ EndOf(m, u) \in Nat /\ u < EndOf(m, u)
    BY EndInMemory
  <2>2. CASE x = p
    <3>1. y \in DOMAIN m /\ y # n
      BY <1>1
    <3>2. n <= y
      BY <3>1, <2>0, <2>2, <1>9, <1>e
    <3>3. n < y
      BY <3>1, <3>2, <2>1, <1>1
    <3> QED
      BY <3>1, <3>3, <2>0, <2>2, <1>1, <1>3
  <2>3. CASE x # p
    BY <2>3, <2>0, <1>1, <1>4, <1>9
  <2> QED
    BY <2>2, <2>3
<1> QED
  BY <1>5, <1>6, <1>7, <1>8, <1>9 DEF Tiles

(* Marking a block FREE changes no link and no size. *)
LEMMA ReleasedTiles ==
  ASSUME IsList(blk), Tiles(blk), NEW a \in Blocks
  PROVE  /\ IsList(Released(a)) /\ Tiles(Released(a))
         /\ DOMAIN Released(a) = Blocks
         /\ Released(a)[a].status = "FREE"
         /\ \A x \in Blocks : /\ Released(a)[x].sz = blk[x].sz
                              /\ Released(a)[x].next = blk[x].next
                              /\ Released(a)[x].prev = blk[x].prev
                              /\ x # a => Released(a)[x].status = blk[x].status
<1> DEFINE R == Released(a)
<1>1. /\ DOMAIN R = Blocks /\ R = [x \in DOMAIN R |-> R[x]]
      /\ R[a] = [prev |-> blk[a].prev, sz |-> blk[a].sz, status |-> "FREE", next |-> blk[a].next]
      /\ \A x \in Blocks : x # a => R[x] = blk[x]
  BY DEF Released
<1> HIDE DEF R
<1>2. \A x \in Blocks : R[x].sz = blk[x].sz /\ R[x].next = blk[x].next /\ R[x].prev = blk[x].prev
  BY <1>1
<1>3. \A x \in Blocks : EndOf(R, x) = EndOf(blk, x)
  BY <1>2 DEF EndOf
<1>4. IsList(R)
  <2>1. R[a] \in Header
    BY <1>1 DEF IsList, Header, Blocks
  <2>2. \A x \in Blocks : R[x] \in Header
    BY <2>1, <1>1 DEF IsList, Blocks
  <2> QED
    BY <2>2, <1>1 DEF IsList, Blocks
<1>5. Tiles(R)
  BY <1>1, <1>2, <1>3 DEF Tiles, Blocks, IsList
<1> QED
  BY <1>1, <1>2, <1>4, <1>5 DEF R
-----------------------------------------------------------------------------
(* The aligned size holds what was asked for. *)
LEMMA AlignHolds == ASSUME NEW r \in Requests PROVE Align(r) \in Nat /\ r <= Align(r)
<1>1. r \in Nat /\ r % 4 \in Nat /\ r + (r % 4) < UINT16
  BY MemoryAssumption
<1> DEFINE s == r + (r % 4)
<1>2. s \in Nat /\ s < UINT16 /\ r <= s
  BY <1>1
<1> HIDE DEF s
<1>3. s % UINT16 = s
  BY <1>2 DEF UINT16
<1> QED
  BY <1>2, <1>3 DEF Align, s

(* A thread enters PrintResume. *)
LEMMA StartWalkTypes ==
  ASSUME TypeOK, NEW t \in Threads, NEW a \in Link, StartWalk(t, a)
  PROVE  /\ pc' \in [Threads -> {"idle", "walk", "step", "join", "fault"}]
         /\ at' \in [Threads -> Link]
         /\ sum' \in [Threads -> 0 .. UINT16 - 1]
         /\ got' \in [Threads -> Link]
         /\ pc'[t] = "walk" /\ at'[t] = 0 /\ sum'[t] = 0 /\ got'[t] = a
         /\ \A u \in Threads : u # t => pc'[u] = pc[u] /\ got'[u] = got[u]
<1>1. 0 \in Link /\ 0 \in 0 .. UINT16 - 1
  BY MemoryAssumption DEF Link, Addr, UINT16
<1> QED
  BY <1>1 DEF TypeOK, StartWalk

(* A thread returns from malloc or free. *)
LEMMA ReturnsTypes ==
  ASSUME TypeOK, NEW t \in Threads, Returns(t)
  PROVE  /\ pc' \in [Threads -> {"idle", "walk", "step", "join", "fault"}]
         /\ at' \in [Threads -> Link]
         /\ sum' \in [Threads -> 0 .. UINT16 - 1]
         /\ got' \in [Threads -> Link]
         /\ pc'[t] = "idle"
         /\ \A u \in Threads : u # t => /\ pc'[u] = pc[u] /\ got'[u] = got[u]
                                        /\ at'[u] = at[u] /\ sum'[u] = sum[u]
<1>1. NULL \in Link /\ 0 \in 0 .. UINT16 - 1
  BY MemoryAssumption DEF Link, UINT16
<1> QED
  BY <1>1 DEF TypeOK, Returns

(* malloc preserves the invariant. *)
LEMMA MallocStep ==
  ASSUME MemInv, NEW t \in Threads, NEW r \in Requests, NEW a \in Addr, Malloc(t, r, a)
  PROVE  MemInv'
<1> DEFINE s == Align(r)
           n == a + HDR + s
           d == blk[a].next
<1>0. /\ TypeOK /\ IsList(blk) /\ Tiles(blk) /\ a \in Blocks /\ CanHold(a, s) /\ s \in Nat /\ r <= s
      /\ memAccess = Nobody /\ memAccess' = Nobody /\ StartWalk(t, a) /\ a \in Link
      /\ blk' = Fragment(a, s)
      /\ asked' = [x \in DOMAIN asked \cup {a} |-> IF x = a THEN r ELSE asked[x]]
  BY AlignHolds DEF MemInv, TypeOK, Tiling, Malloc, FirstFit, Link
<1> HIDE DEF s
<1>1. IsList(blk') /\ Tiles(blk')
  BY <1>0, FragmentTiles
<1>2. /\ n \in Addr /\ n \notin Blocks /\ a < n /\ n + HDR < EndOf(blk, a)
      /\ DOMAIN blk' = Blocks \cup {n}
      /\ blk'[n] = [prev |-> a, sz |-> blk[a].sz - (HDR + s), status |-> "FREE", next |-> d]
      /\ blk'[a] = [prev |-> blk[a].prev, sz |-> s, status |-> "INUSE", next |-> n]
      /\ d # NULL => blk'[d] = [prev |-> n, sz |-> blk[d].sz, status |-> blk[d].status,
                                next |-> blk[d].next]
      /\ \A x \in Blocks : x # a /\ x # d => blk'[x] = blk[x]
  <2>1. FragmentFacts(a, s, blk', n, d)
    BY <1>0, FragmentShape
  <2> QED
    BY <2>1 DEF FragmentFacts
<1>3. /\ blk'[n].status = "FREE" /\ blk'[n].next = d
      /\ blk'[a].status = "INUSE" /\ blk'[a].sz = s /\ blk'[a].next = n
      /\ \A x \in Blocks : x # a => /\ blk'[x].status = blk[x].status
                                    /\ blk'[x].sz = blk[x].sz
                                    /\ blk'[x].next = blk[x].next
  <2>1. \A x \in Blocks : x # NULL
    BY <1>0 DEF IsList, Addr, NULL, Blocks
  <2> QED
    BY <1>2, <2>1
<1>4. /\ pc' \in [Threads -> {"idle", "walk", "step", "join", "fault"}]
      /\ at' \in [Threads -> Link]
      /\ sum' \in [Threads -> 0 .. UINT16 - 1]
      /\ got' \in [Threads -> Link]
      /\ pc'[t] = "walk"
      /\ \A u \in Threads : u # t => pc'[u] = pc[u]
  BY <1>0, StartWalkTypes
<1>5. TypeOK'
  <2>1. DOMAIN asked' \subseteq Addr /\ \A x \in DOMAIN asked' : asked'[x] \in Requests
    BY <1>0 DEF TypeOK
  <2> QED
    BY <1>0, <1>1, <1>4, <2>1 DEF TypeOK
<1>6. Ownership'
  <2>1. \A x \in Blocks : blk[x].status = "INUSE" <=> x \in DOMAIN asked
    BY DEF MemInv, Ownership
  <2>2. \A x \in DOMAIN asked : x \in Blocks /\ asked[x] <= blk[x].sz
    BY DEF MemInv, Ownership
  <2>3. DOMAIN asked' = DOMAIN asked \cup {a} /\ asked'[a] = r
        /\ \A x \in DOMAIN asked : x # a => asked'[x] = asked[x]
    BY <1>0
  <2>4. \A x \in DOMAIN blk' : blk'[x].status = "INUSE" <=> x \in DOMAIN asked'
    BY <2>1, <2>2, <2>3, <1>2, <1>3
  <2>5. \A x \in DOMAIN asked' : x \in DOMAIN blk' /\ asked'[x] <= blk'[x].sz
    BY <2>2, <2>3, <1>0, <1>2, <1>3
  <2> QED
    BY <2>4, <2>5 DEF Ownership, Blocks
<1>7. Coalesced'
  <2>1. \A x \in Blocks : ~(/\ blk[x].status = "FREE" /\ blk[x].next # NULL
                            /\ blk[blk[x].next].status = "FREE")
    BY <1>0 DEF MemInv, Coalesced
  <2>2. \A x \in Blocks : blk[x].next # NULL => blk[x].next \in Blocks
    BY <1>0 DEF Tiles, Blocks
  <2>3. blk[a].status = "FREE" /\ a # n
    BY <1>0, <1>2 DEF CanHold
  <2>4. ASSUME NEW x \in DOMAIN blk', blk'[x].status = "FREE", blk'[x].next # NULL
        PROVE  blk'[blk'[x].next].status # "FREE"
    <3>1. CASE x = n
      BY <3>1, <2>1, <2>2, <2>3, <2>4, <1>0, <1>3
    <3>2. CASE x # n
      <4>1. x \in Blocks /\ x # a /\ blk'[x].next = blk[x].next /\ blk[x].status = "FREE"
        BY <3>2, <2>4, <1>2, <1>3
      <4> QED
        BY <4>1, <2>1, <2>2, <2>4, <1>3
    <3> QED
      BY <3>1, <3>2
  <2> QED
    BY <2>4 DEF Coalesced, Blocks
<1>8. LockedWalkExact'
  BY <1>0 DEF LockedWalkExact
<1>9. LockHolder'
  BY <1>0, <1>4 DEF LockHolder, MemInv
<1> QED
  BY <1>1, <1>5, <1>6, <1>7, <1>8, <1>9 DEF MemInv, Tiling
-----------------------------------------------------------------------------
(* What the first half of free does to the list. *)
LEMMA FreeShape ==
  ASSUME IsList(blk), Tiles(blk), NEW a \in Blocks, NEW F, F = FreeJoinNext(a),
         \A x \in Blocks : ~(/\ blk[x].status = "FREE" /\ blk[x].next # NULL
                             /\ blk[blk[x].next].status = "FREE")
  PROVE  /\ IsList(F) /\ Tiles(F)
         /\ DOMAIN F \subseteq Blocks /\ a \in DOMAIN F
         /\ \A x \in Blocks : x \notin DOMAIN F => blk[x].status = "FREE"
         /\ F[a].status = "FREE"
         /\ \A x \in DOMAIN F : x # a => /\ F[x].status = blk[x].status
                                         /\ F[x].sz = blk[x].sz
                                         /\ F[x].next = blk[x].next
         /\ F[a].next # NULL => F[F[a].next].status # "FREE"
<1> DEFINE R == Released(a)
           n == blk[a].next
           d == R[n].next
<1>1. /\ IsList(R) /\ Tiles(R)
      /\ DOMAIN R = Blocks
      /\ R[a].status = "FREE"
      /\ \A x \in Blocks : /\ R[x].sz = blk[x].sz
                           /\ R[x].next = blk[x].next
                           /\ R[x].prev = blk[x].prev
                           /\ x # a => R[x].status = blk[x].status
  BY ReleasedTiles
<1> HIDE DEF R
<1>r. /\ \A x \in Blocks : R[x].sz = blk[x].sz
      /\ \A x \in Blocks : R[x].next = blk[x].next
      /\ \A x \in Blocks : x # a => R[x].status = blk[x].status
  BY <1>1
<1>2. n # NULL => n \in Blocks /\ n # a
  BY EndInMemory DEF Tiles, Blocks
<1>3. CASE n # NULL /\ blk[n].status = "FREE"
  <2>1. F = JoinNextBlock(R, a)
    BY <1>3 DEF FreeJoinNext, R
  <2>2. a \in DOMAIN R /\ R[a].next # NULL /\ n = R[a].next
    BY <1>1, <1>r, <1>3
  <2> HIDE DEF n, d
  <2>3. JoinFacts(R, a, F, n, d)
    BY <2>1, <2>2, <1>1, JoinShape DEF d
  <2>4. IsList(F) /\ Tiles(F)
    BY <2>1, <2>2, <1>1, JoinTiles
  <2>5. /\ n \in Blocks /\ a < n /\ n # d
        /\ d # NULL => d \in Blocks /\ d > n
        /\ DOMAIN F = Blocks \ {n}
        /\ F[a].status = "FREE" /\ F[a].next = d
        /\ d # NULL => F[d] = [prev |-> a, sz |-> R[d].sz, status |-> R[d].status,
                               next |-> R[d].next]
        /\ \A x \in Blocks : x # a /\ x # n /\ x # d => F[x] = R[x]
    BY <2>3, <1>1 DEF JoinFacts
  <2>6. \A x \in Blocks : x # NULL /\ x \in Nat
    BY DEF IsList, Addr, NULL, Blocks
  <2>7. \A x \in DOMAIN F : x # a => /\ F[x].status = blk[x].status
                                     /\ F[x].sz = blk[x].sz
                                     /\ F[x].next = blk[x].next
    BY <2>5, <2>6, <1>r
  <2>8. d # NULL => blk[d].status # "FREE" /\ d # a /\ d \in DOMAIN F
    <3>1. d = blk[n].next
      BY <2>5, <1>r DEF d
    <3> QED
      BY <3>1, <2>5, <2>6, <1>3
  <2> QED
    BY <2>4, <2>5, <2>6, <2>7, <2>8, <1>2, <1>3
<1>4. CASE ~(n # NULL /\ blk[n].status = "FREE")
  <2>1. F = R
    BY <1>4 DEF FreeJoinNext, R
  <2>2. R[a].next = n
    BY <1>r
  <2>3. n # NULL => R[n].status # "FREE"
    BY <1>r, <1>2, <1>4
  <2> HIDE DEF n, d
  <2> QED
    BY <2>1, <2>2, <2>3, <1>1, <1>r
<1> QED
  BY <1>3, <1>4

(* free up to its PrintResume preserves the invariant. *)
LEMMA FreeStep ==
  ASSUME MemInv, NEW t \in Threads, NEW a \in Addr, Free(t, a)
  PROVE  MemInv'
<1>0. /\ TypeOK /\ IsList(blk) /\ Tiles(blk) /\ a \in DOMAIN asked
      /\ memAccess = Nobody /\ memAccess' = t /\ StartWalk(t, a) /\ a \in Link
      /\ blk' = FreeJoinNext(a)
      /\ asked' = [x \in DOMAIN asked \ {a} |-> asked[x]]
  BY DEF MemInv, TypeOK, Tiling, Free, Handles, Link
<1>1. /\ \A x \in Blocks : blk[x].status = "INUSE" <=> x \in DOMAIN asked
      /\ \A x \in DOMAIN asked : x \in Blocks /\ asked[x] <= blk[x].sz
  BY DEF MemInv, Ownership
<1>2. \A x \in Blocks : ~(/\ blk[x].status = "FREE" /\ blk[x].next # NULL
                          /\ blk[blk[x].next].status = "FREE")
  BY <1>0 DEF MemInv, Coalesced
<1>3. /\ IsList(blk') /\ Tiles(blk')
      /\ DOMAIN blk' \subseteq Blocks /\ a \in DOMAIN blk'
      /\ \A x \in Blocks : x \notin DOMAIN blk' => blk[x].status = "FREE"
      /\ blk'[a].status = "FREE"
      /\ \A x \in DOMAIN blk' : x # a => /\ blk'[x].status = blk[x].status
                                         /\ blk'[x].sz = blk[x].sz
                                         /\ blk'[x].next = blk[x].next
      /\ blk'[a].next # NULL => blk'[blk'[a].next].status # "FREE"
  BY <1>0, <1>1, <1>2, FreeShape
<1>4. /\ pc' \in [Threads -> {"idle", "walk", "step", "join", "fault"}]
      /\ at' \in [Threads -> Link]
      /\ sum' \in [Threads -> 0 .. UINT16 - 1]
      /\ got' \in [Threads -> Link]
      /\ pc'[t] = "walk" /\ at'[t] = 0 /\ sum'[t] = 0 /\ got'[t] = a
      /\ \A u \in Threads : u # t => pc'[u] = pc[u] /\ got'[u] = got[u]
  BY <1>0, StartWalkTypes
<1>5. DOMAIN asked' = DOMAIN asked \ {a} /\ \A x \in DOMAIN asked' : asked'[x] = asked[x]
  BY <1>0
<1>6. TypeOK'
  BY <1>0, <1>3, <1>4, <1>5 DEF TypeOK
<1>7. Ownership'
  <2>1. \A x \in DOMAIN blk' : blk'[x].status = "INUSE" <=> x \in DOMAIN asked'
    BY <1>1, <1>3, <1>5
  <2>2. \A x \in DOMAIN asked' : x \in DOMAIN blk' /\ asked'[x] <= blk'[x].sz
    BY <1>1, <1>3, <1>5
  <2> QED
    BY <2>1, <2>2 DEF Ownership, Blocks
<1>8. Coalesced'
  <2>1. \A x \in DOMAIN blk' : blk'[x].next # NULL => blk'[x].next \in DOMAIN blk'
    BY <1>3 DEF Tiles
  <2>2. ASSUME NEW x \in DOMAIN blk', blk'[x].status = "FREE", blk'[x].next # NULL,
               blk'[blk'[x].next].status = "FREE"
        PROVE  blk'[x].next = a
    BY <2>1, <2>2, <1>2, <1>3
  <2>3. memAccess' # Nobody /\ got'[memAccess'] = a
    BY <1>0, <1>4, MemoryAssumption
  <2> QED
    BY <2>2, <2>3 DEF Coalesced, Blocks
<1>9. LockedWalkExact'
  <2>1. 0 \in DOMAIN blk' /\ 0 # NULL
    BY <1>3 DEF IsList, NULL
  <2> QED
    BY <2>1, <1>0, <1>4 DEF LockedWalkExact, Blocks
<1>10. LockHolder'
  BY <1>0, <1>3, <1>4, <1>5, MemoryAssumption DEF LockHolder, MemInv, Blocks
<1> QED
  BY <1>3, <1>6, <1>7, <1>8, <1>9, <1>10 DEF MemInv, Tiling
-----------------------------------------------------------------------------
(* What the second half of free does to the list: g is the block it releases. *)
LEMMA JoinPrevShape ==
  ASSUME IsList(blk), Tiles(blk), NEW g \in Blocks, blk[g].status = "FREE",
         \A x \in Blocks : /\ blk[x].status = "FREE" /\ blk[x].next # NULL
                           /\ blk[blk[x].next].status = "FREE"
                           => blk[x].next = g,
         NEW p, p = blk[g].prev, NEW F,
         F = IF p # NULL /\ blk[p].status = "FREE" THEN JoinNextBlock(blk, p) ELSE blk
  PROVE  /\ IsList(F) /\ Tiles(F)
         /\ DOMAIN F \subseteq Blocks
         /\ \A x \in Blocks : x \notin DOMAIN F => blk[x].status = "FREE"
         /\ \A x \in DOMAIN F : F[x].status = blk[x].status
         /\ \A x \in DOMAIN F : blk[x].status = "INUSE" => F[x].sz = blk[x].sz
         /\ \A x \in DOMAIN F : F[x].status = "FREE" /\ F[x].next # NULL
                                 => F[F[x].next].status # "FREE"
<1>0. \A x \in Blocks : x # NULL /\ x \in Nat
  BY DEF IsList, Addr, NULL, Blocks
<1>1. g # 0 => p \in Blocks /\ blk[p].next = g
  BY DEF Tiles, Blocks
<1>2. g = 0 => p = NULL
  BY DEF Tiles
<1>3. \A x \in Blocks : blk[x].next # NULL => blk[x].next \in Blocks /\ blk[x].next > x
                                              /\ blk[blk[x].next].prev = x
  BY EndInMemory DEF Tiles, Blocks
<1>4. CASE p # NULL /\ blk[p].status = "FREE"
  <2>1. p \in Blocks /\ blk[p].next = g /\ blk[p].next # NULL
    BY <1>0, <1>1, <1>2, <1>4
  <2>2. F = JoinNextBlock(blk, p)
    BY <1>4
  <2> DEFINE d == blk[g].next
  <2>3. JoinFacts(blk, p, F, g, d)
    BY <2>1, <2>2, JoinShape DEF Blocks
  <2>4. IsList(F) /\ Tiles(F)
    BY <2>1, <2>2, JoinTiles DEF Blocks
  <2> HIDE DEF d
  <2>5. /\ p < g /\ g # d
        /\ d # NULL => d \in Blocks /\ d > g
        /\ DOMAIN F = Blocks \ {g}
        /\ F[p].status = "FREE" /\ F[p].next = d
        /\ d # NULL => F[d].status = blk[d].status /\ F[d].sz = blk[d].sz
                       /\ F[d].next = blk[d].next
        /\ \A x \in Blocks : x # p /\ x # g /\ x # d => F[x] = blk[x]
    BY <2>3, <1>4 DEF JoinFacts, Blocks
  <2>6. \A x \in DOMAIN F : F[x].status = blk[x].status
    BY <2>5, <1>0, <1>4
  <2>7. \A x \in DOMAIN F : x # p => F[x].sz = blk[x].sz /\ F[x].next = blk[x].next
    BY <2>5, <1>0
  <2>8. d # NULL => blk[d].status # "FREE"
    BY <2>5 DEF d
  <2>9. ASSUME NEW x \in DOMAIN F, F[x].status = "FREE", F[x].next # NULL
        PROVE  F[F[x].next].status # "FREE"
    <3>1. CASE x = p
      BY <3>1, <2>5, <2>8, <2>9, <1>0
    <3>2. CASE x # p
      <4>1. x \in Blocks /\ blk[x].status = "FREE" /\ F[x].next = blk[x].next /\ x # g
        BY <3>2, <2>5, <2>6, <2>7, <2>9
      <4>2. blk[x].next # g /\ blk[x].next \in Blocks
        BY <4>1, <3>2, <2>9, <1>3
      <4>3. blk[blk[x].next].status # "FREE"
        BY <4>1, <4>2, <2>9
      <4> QED
        BY <4>1, <4>2, <4>3, <2>5, <2>6
    <3> QED
      BY <3>1, <3>2
  <2>10. \A x \in DOMAIN F : blk[x].status = "INUSE" => F[x].sz = blk[x].sz
    BY <2>7, <1>4
  <2> QED
    BY <2>4, <2>5, <2>6, <2>9, <2>10
<1>5. CASE ~(p # NULL /\ blk[p].status = "FREE")
  <2>1. F = blk
    BY <1>5
  <2>2. ASSUME NEW x \in Blocks, blk[x].status = "FREE", blk[x].next # NULL
        PROVE  blk[blk[x].next].status # "FREE"
    BY <2>2, <1>0, <1>3, <1>5
  <2> QED
    BY <2>1, <2>2 DEF Blocks
<1> QED
  BY <1>4, <1>5

(* free after its PrintResume preserves the invariant. *)
LEMMA JoinPrevStep ==
  ASSUME MemInv, NEW t \in Threads, FreeJoinPrev(t)
  PROVE  MemInv'
<1> DEFINE g == got[t]
           p == blk[g].prev
<1>0. /\ TypeOK /\ IsList(blk) /\ Tiles(blk) /\ memAccess = t /\ memAccess' = Nobody
      /\ memAccess # Nobody /\ Returns(t) /\ asked' = asked
      /\ blk' = IF p # NULL /\ blk[p].status = "FREE" THEN JoinNextBlock(blk, p) ELSE blk
  BY MemoryAssumption DEF MemInv, TypeOK, Tiling, LockHolder, FreeJoinPrev
<1>1. /\ \A x \in Blocks : blk[x].status = "INUSE" <=> x \in DOMAIN asked
      /\ \A x \in DOMAIN asked : x \in Blocks /\ asked[x] <= blk[x].sz
  BY DEF MemInv, Ownership
<1>2. g \in Blocks /\ blk[g].status = "FREE"
  <2>1. g \in Blocks \ DOMAIN asked
    BY <1>0 DEF MemInv, LockHolder
  <2>2. blk[g].status \in {"FREE", "INUSE"}
    BY <2>1, <1>0 DEF IsList, Header, Blocks
  <2> QED
    BY <2>1, <2>2, <1>1
<1>3. \A x \in Blocks : /\ blk[x].status = "FREE" /\ blk[x].next # NULL
                        /\ blk[blk[x].next].status = "FREE"
                        => blk[x].next = g
  BY <1>0 DEF MemInv, Coalesced
<1> HIDE DEF g
<1>4. /\ IsList(blk') /\ Tiles(blk')
      /\ DOMAIN blk' \subseteq Blocks
      /\ \A x \in Blocks : x \notin DOMAIN blk' => blk[x].status = "FREE"
      /\ \A x \in DOMAIN blk' : blk'[x].status = blk[x].status
      /\ \A x \in DOMAIN blk' : blk[x].status = "INUSE" => blk'[x].sz = blk[x].sz
      /\ \A x \in DOMAIN blk' : blk'[x].status = "FREE" /\ blk'[x].next # NULL
                                 => blk'[blk'[x].next].status # "FREE"
  BY <1>0, <1>2, <1>3, JoinPrevShape, SMTT(30)
<1>5. /\ pc' \in [Threads -> {"idle", "walk", "step", "join", "fault"}]
      /\ at' \in [Threads -> Link]
      /\ sum' \in [Threads -> 0 .. UINT16 - 1]
      /\ got' \in [Threads -> Link]
      /\ pc'[t] = "idle"
      /\ \A u \in Threads : u # t => pc'[u] = pc[u]
  BY <1>0, ReturnsTypes
<1>6. TypeOK'
  BY <1>0, <1>4, <1>5 DEF TypeOK
<1>7. Ownership'
  <2>1. \A x \in DOMAIN blk' : blk'[x].status = "INUSE" <=> x \in DOMAIN asked
    BY <1>1, <1>4
  <2>2. \A x \in DOMAIN asked : x \in DOMAIN blk' /\ asked[x] <= blk'[x].sz
    BY <1>1, <1>4
  <2> QED
    BY <2>1, <2>2, <1>0 DEF Ownership, Blocks
<1>8. Coalesced'
  BY <1>4 DEF Coalesced, Blocks
<1>9. LockedWalkExact' /\ LockHolder'
  BY <1>0, <1>5 DEF LockedWalkExact, LockHolder, MemInv
<1> QED
  BY <1>4, <1>6, <1>7, <1>8, <1>9 DEF MemInv, Tiling
-----------------------------------------------------------------------------
(* A step that leaves the list and the mutex alone only has to keep the types, *)
(* the exactness of a locked walk and the lock holder.                         *)
LEMMA QuietStep ==
  ASSUME MemInv, UNCHANGED <<blk, memAccess, asked>>,
         TypeOK', LockedWalkExact', LockHolder',
         memAccess # Nobody => got'[memAccess] = got[memAccess]
  PROVE  MemInv'
BY DEF MemInv, Tiling, Tiles, EndOf, Ownership, Coalesced, Blocks

(* The sum of a locked walk stays within 16 bits. *)
LEMMA SumFits ==
  ASSUME NEW s \in Nat, s <= memorySize PROVE s % UINT16 = s
<1>1. UINT16 \in Nat /\ s < UINT16
  BY MemoryAssumption DEF UINT16
<1> QED
  BY <1>1

(* What uint16_t arithmetic returns. *)
LEMMA ModRange ==
  ASSUME NEW s \in Nat PROVE s % UINT16 \in 0 .. UINT16 - 1
<1>1. UINT16 \in Nat /\ UINT16 > 0
  BY DEF UINT16
<1> QED
  BY <1>1

(* Reading a size. *)
LEMMA WalkSizeStep ==
  ASSUME MemInv, NEW t \in Threads, WalkSize(t)
  PROVE  MemInv'
<1> DEFINE s == sum[t] + blk[at[t]].sz + HDR
<1>0. /\ TypeOK /\ IsList(blk) /\ Tiles(blk) /\ LockedWalkExact /\ LockHolder
      /\ pc[t] = "walk" /\ at[t] \in Blocks
      /\ pc' = [pc EXCEPT ![t] = "step"]
      /\ sum' = [sum EXCEPT ![t] = s % UINT16]
      /\ UNCHANGED <<blk, memAccess, at, got, asked>>
  BY DEF MemInv, TypeOK, Tiling, WalkSize
<1>1. s \in Nat
  <2>1. sum[t] \in Nat
    BY <1>0 DEF TypeOK
  <2>2. blk[at[t]].sz \in Nat
    BY <1>0, EndInMemory DEF Blocks
  <2> QED
    BY <2>1, <2>2, MemoryAssumption
<1>2. memAccess = t => s % UINT16 = EndOf(blk, at[t])
  <2>1. at[t] # NULL
    BY <1>0 DEF IsList, Addr, NULL, Blocks
  <2>2. EndOf(blk, at[t]) \in Nat /\ EndOf(blk, at[t]) <= memorySize
    BY <1>0, EndInMemory DEF Blocks
  <2>3. memAccess = t => s = EndOf(blk, at[t])
    BY <1>0, <1>1, <2>1, EndInMemory, MemoryAssumption DEF LockedWalkExact, EndOf, Blocks
  <2> QED
    BY <2>2, <2>3, SumFits
<1> HIDE DEF s
<1>3. s % UINT16 \in 0 .. UINT16 - 1
  BY <1>1, ModRange
<1>4. TypeOK'
  BY <1>0, <1>3 DEF TypeOK, Blocks, IsList, EndOf
<1>5. LockedWalkExact'
  <2> SUFFICES ASSUME memAccess # Nobody PROVE LockedWalkExact'
    BY <1>0 DEF LockedWalkExact
  <2>0. memAccess \in Threads
    BY <1>0 DEF TypeOK
  <2>1. CASE memAccess = t
    <3>1. pc'[t] = "step" /\ sum'[t] = EndOf(blk, at[t])
      BY <1>0, <1>2, <2>1 DEF TypeOK
    <3> QED
      BY <3>1, <2>1, <1>0 DEF LockedWalkExact, EndOf, Blocks
  <2>2. CASE memAccess # t
    <3>1. pc'[memAccess] = pc[memAccess] /\ sum'[memAccess] = sum[memAccess]
      BY <2>0, <2>2, <1>0 DEF TypeOK
    <3> QED
      BY <3>1, <1>0 DEF LockedWalkExact, EndOf, Blocks
  <2> QED
    BY <2>1, <2>2
<1>6. LockHolder'
  BY <1>0 DEF LockHolder, TypeOK, Blocks
<1> QED
  BY <1>0, <1>4, <1>5, <1>6, QuietStep

(* Following a link. *)
LEMMA WalkNextStep ==
  ASSUME MemInv, NEW t \in Threads, WalkNext(t)
  PROVE  MemInv'
<1> DEFINE n == blk[at[t]].next
<1>0. /\ TypeOK /\ IsList(blk) /\ Tiles(blk) /\ LockedWalkExact /\ LockHolder
      /\ pc[t] = "step" /\ at[t] \in Blocks
      /\ pc' = [pc EXCEPT ![t] = "walk"]
      /\ at' = [at EXCEPT ![t] = n]
      /\ UNCHANGED <<blk, memAccess, sum, got, asked>>
  BY DEF MemInv, TypeOK, Tiling, WalkNext
<1>1. n \in Link
  BY <1>0 DEF IsList, Header, Blocks
<1>2. IF n = NULL THEN EndOf(blk, at[t]) = memorySize
                  ELSE n \in Blocks /\ EndOf(blk, at[t]) = n
  BY <1>0 DEF Tiles, Blocks
<1> HIDE DEF n
<1>4. TypeOK'
  BY <1>0, <1>1 DEF TypeOK, IsList
<1>5. LockedWalkExact'
  <2> SUFFICES ASSUME memAccess # Nobody PROVE LockedWalkExact'
    BY <1>0 DEF LockedWalkExact
  <2>0. memAccess \in Threads
    BY <1>0 DEF TypeOK
  <2>1. CASE memAccess = t
    <3>1. pc'[t] = "walk" /\ at'[t] = n /\ sum'[t] = EndOf(blk, at[t])
      BY <1>0, <2>1, <2>0, MemoryAssumption DEF TypeOK, LockedWalkExact
    <3> QED
      BY <3>1, <2>1, <1>0, <1>2 DEF LockedWalkExact, Blocks
  <2>2. CASE memAccess # t
    <3>1. pc'[memAccess] = pc[memAccess] /\ at'[memAccess] = at[memAccess]
      BY <2>0, <2>2, <1>0 DEF TypeOK
    <3> QED
      BY <3>1, <1>0 DEF LockedWalkExact, EndOf, Blocks
  <2> QED
    BY <2>1, <2>2
<1>6. LockHolder'
  BY <1>0 DEF LockHolder, TypeOK, Blocks
<1> QED
  BY <1>0, <1>4, <1>5, <1>6, QuietStep

(* A walk without the lock may lose its way; the lock holder's does not. *)
LEMMA WalkLostStep ==
  ASSUME MemInv, NEW t \in Threads, WalkLost(t)
  PROVE  MemInv'
<1>0. /\ TypeOK /\ LockedWalkExact /\ LockHolder
      /\ pc[t] \in {"walk", "step"} /\ at[t] # NULL /\ at[t] \notin Blocks
      /\ pc' = [pc EXCEPT ![t] = "walk"]
      /\ at' = [at EXCEPT ![t] = NULL]
      /\ UNCHANGED <<blk, memAccess, got, asked>>
  BY DEF MemInv, WalkLost
<1>s. PICK s \in {0, memorySize + 1} : sum' = [sum EXCEPT ![t] = s]
  BY DEF WalkLost
<1>1. s \in 0 .. UINT16 - 1
  <2>1. UINT16 \in Nat
    BY DEF UINT16
  <2> QED
    BY <1>s, <2>1, MemoryAssumption
<1>2. memAccess # t
  BY <1>0, MemoryAssumption DEF LockedWalkExact
<1>4. TypeOK'
  BY <1>0, <1>s, <1>1 DEF TypeOK, IsList, Link
<1>5. LockedWalkExact'
  <2>1. memAccess # Nobody => /\ pc'[memAccess] = pc[memAccess]
                              /\ at'[memAccess] = at[memAccess]
                              /\ sum'[memAccess] = sum[memAccess]
    BY <1>0, <1>s, <1>2 DEF TypeOK
  <2> QED
    BY <2>1, <1>0 DEF LockedWalkExact, EndOf, Blocks
<1>6. LockHolder'
  BY <1>0 DEF LockHolder, TypeOK, Blocks
<1> QED
  BY <1>0, <1>4, <1>5, <1>6, QuietStep

(* The end of a walk: never a fault for the lock holder. *)
LEMMA WalkEndStep ==
  ASSUME MemInv, NEW t \in Threads, WalkFault(t) \/ MallocReturns(t) \/ FreeGoesOn(t)
  PROVE  MemInv'
<1>0. TypeOK /\ LockedWalkExact /\ LockHolder /\ UNCHANGED <<blk, memAccess, asked>>
  BY DEF MemInv, WalkFault, MallocReturns, FreeGoesOn
<1>1. CASE WalkFault(t)
  <2>1. memAccess # t
    BY <1>0, <1>1, MemoryAssumption DEF LockedWalkExact, WalkFault
  <2>2. TypeOK'
    BY <1>0, <1>1 DEF TypeOK, WalkFault, IsList
  <2>3. LockedWalkExact' /\ LockHolder'
    BY <1>0, <1>1, <2>1 DEF LockedWalkExact, LockHolder, TypeOK, WalkFault, EndOf, Blocks
  <2> QED
    BY <1>0, <1>1, <2>2, <2>3, QuietStep DEF WalkFault
<1>2. CASE MallocReturns(t)
  <2>1. memAccess # t /\ Returns(t)
    BY <1>2 DEF MallocReturns
  <2>2. /\ pc' \in [Threads -> {"idle", "walk", "step", "join", "fault"}]
        /\ at' \in [Threads -> Link]
        /\ sum' \in [Threads -> 0 .. UINT16 - 1]
        /\ got' \in [Threads -> Link]
        /\ pc'[t] = "idle"
        /\ \A u \in Threads : u # t => /\ pc'[u] = pc[u] /\ got'[u] = got[u]
                                       /\ at'[u] = at[u] /\ sum'[u] = sum[u]
    BY <1>0, <2>1, ReturnsTypes
  <2>3. TypeOK'
    BY <1>0, <2>2 DEF TypeOK, IsList
  <2>4. LockedWalkExact' /\ LockHolder'
    BY <1>0, <2>1, <2>2 DEF LockedWalkExact, LockHolder, TypeOK, EndOf, Blocks
  <2> QED
    BY <1>0, <2>1, <2>2, <2>3, <2>4, QuietStep DEF TypeOK
<1>3. CASE FreeGoesOn(t)
  <2>2. TypeOK'
    BY <1>0, <1>3 DEF TypeOK, FreeGoesOn, IsList
  <2>3. LockedWalkExact' /\ LockHolder'
    BY <1>0, <1>3 DEF LockedWalkExact, LockHolder, TypeOK, FreeGoesOn, EndOf, Blocks
  <2> QED
    BY <1>0, <1>3, <2>2, <2>3, QuietStep DEF FreeGoesOn
<1> QED
  BY <1>1, <1>2, <1>3

(* The heap as the constructor makes it. *)
LEMMA WholeIsGood ==
  /\ IsList(Whole) /\ Tiles(Whole)
  /\ DOMAIN Whole = {0} /\ Whole[0].status = "FREE" /\ Whole[0].next = NULL
<1>1. DOMAIN Whole = {0} /\ Whole = [x \in DOMAIN Whole |-> Whole[x]]
      /\ Whole[0] = [prev |-> NULL, sz |-> memorySize - HDR, status |-> "FREE", next |-> NULL]
  BY DEF Whole
<1>2. IsList(Whole)
  <2>1. Whole[0] \in Header /\ 0 \in Addr
    BY <1>1, MemoryAssumption DEF Header, Link, Addr
  <2> QED
    BY <1>1, <2>1 DEF IsList
<1>3. Tiles(Whole)
  BY <1>1, MemoryAssumption DEF Tiles, EndOf
<1> QED
  BY <1>1, <1>2, <1>3

(* The initial state, also after a reset. *)
LEMMA InitGood == Init => MemInv
<1> SUFFICES ASSUME Init PROVE MemInv
  OBVIOUS
<1>1. TypeOK
  BY WholeIsGood DEF Init, TypeOK, Link, UINT16
<1>2. Ownership /\ Coalesced
  BY WholeIsGood DEF Init, Ownership, Coalesced, Blocks
<1>3. LockedWalkExact /\ LockHolder
  BY DEF Init, LockedWalkExact, LockHolder
<1> QED
  BY <1>1, <1>2, <1>3, WholeIsGood DEF Init, MemInv, Tiling

LEMMA InitGoodPrimed == Init' => MemInv'
BY InitGood, PTL

(* Every step of every thread preserves the invariant. *)
LEMMA MemInvStep == MemInv /\ [Next]_vars => MemInv'
<1> SUFFICES ASSUME MemInv, [Next]_vars PROVE MemInv'
  OBVIOUS
<1>1. CASE Next
  <2> PICK t \in Threads :
          \/ \E r \in Requests : \E a \in Addr : Malloc(t, r, a)
          \/ \E r \in Requests : MallocFails(t, r)
          \/ \E a \in Addr : Free(t, a)
          \/ FreeJoinPrev(t)
          \/ WalkSize(t)
          \/ WalkNext(t)
          \/ WalkLost(t)
          \/ WalkFault(t)
          \/ MallocReturns(t)
          \/ FreeGoesOn(t)
          \/ SystemReset(t)
    BY <1>1 DEF Next
  <2>1. CASE \E r \in Requests : \E a \in Addr : Malloc(t, r, a)
    BY <2>1, MallocStep
  <2>2. CASE \E r \in Requests : MallocFails(t, r)
    <3>0. TypeOK /\ LockHolder /\ memAccess = Nobody /\ StartWalk(t, NULL) /\ NULL \in Link
          /\ UNCHANGED <<blk, memAccess, asked>>
      BY <2>2 DEF MemInv, MallocFails, Link
    <3>1. /\ pc' \in [Threads -> {"idle", "walk", "step", "join", "fault"}]
          /\ at' \in [Threads -> Link]
          /\ sum' \in [Threads -> 0 .. UINT16 - 1]
          /\ got' \in [Threads -> Link]
          /\ pc'[t] = "walk"
          /\ \A u \in Threads : u # t => pc'[u] = pc[u]
      BY <3>0, StartWalkTypes
    <3>2. TypeOK'
      BY <3>0, <3>1 DEF TypeOK, IsList
    <3>3. LockedWalkExact' /\ LockHolder'
      BY <3>0, <3>1 DEF LockedWalkExact, LockHolder
    <3> QED
      BY <3>0, <3>2, <3>3, QuietStep
  <2>3. CASE \E a \in Addr : Free(t, a)
    BY <2>3, FreeStep
  <2>4. CASE FreeJoinPrev(t)
    BY <2>4, JoinPrevStep
  <2>5. CASE WalkSize(t)
    BY <2>5, WalkSizeStep
  <2>6. CASE WalkNext(t)
    BY <2>6, WalkNextStep
  <2>7. CASE WalkLost(t)
    BY <2>7, WalkLostStep
  <2>8. CASE WalkFault(t) \/ MallocReturns(t) \/ FreeGoesOn(t)
    BY <2>8, WalkEndStep
  <2>9. CASE SystemReset(t)
    BY <2>9, InitGoodPrimed DEF SystemReset, Init
  <2> QED
    BY <2>1, <2>2, <2>3, <2>4, <2>5, <2>6, <2>7, <2>8, <2>9
<1>2. CASE UNCHANGED vars
  BY <1>2 DEF vars, MemInv, TypeOK, IsList, Tiling, Tiles, EndOf, Ownership, Coalesced,
              LockedWalkExact, LockHolder, Blocks
<1> QED
  BY <1>1, <1>2

(* The inductive invariant of the heap holds in every behaviour. *)
THEOREM HeapCorrect == Spec => []MemInv
BY InitGood, MemInvStep, PTL DEF Spec

(* Every pointer of the list and of a walk is an address of the memory or      *)
(* NULL, and no sum of a walk leaves its 16 bits.                              *)
THEOREM HeapTyped == Spec => []TypeOK
<1>1. MemInv => TypeOK
  BY DEF MemInv
<1> QED
  BY <1>1, HeapCorrect, PTL

(* The two joins of free leave no pair of FREE neighbours behind; the only     *)
(* pair that ever exists is the one the free under way is about to join.       *)
THEOREM FreeNeighboursJoined == Spec => []Coalesced
<1>1. MemInv => Coalesced
  BY DEF MemInv
<1> QED
  BY <1>1, HeapCorrect, PTL

(* malloc and free, split and join, keep the list of blocks a tiling of the    *)
(* memory whatever the threads do and however their calls interleave.          *)
THEOREM HeapTiled == Spec => []Tiling
<1>1. MemInv => Tiling
  BY DEF MemInv
<1> QED
  BY <1>1, HeapCorrect, PTL

(* No two callers share memory, none gets less than it asked for. *)
THEOREM BlocksOwned == Spec => []Ownership
<1>1. MemInv => Ownership
  BY DEF MemInv
<1> QED
  BY <1>1, HeapCorrect, PTL

(* PrintResume inside free never resets the board. *)
THEOREM LockedWalkNeverFaults == Spec => []LockedWalkExact
<1>1. MemInv => LockedWalkExact
  BY DEF MemInv
<1> QED
  BY <1>1, HeapCorrect, PTL

(* The joins leave no fragment behind: a heap whose blocks were all freed is   *)
(* the heap the constructor made.                                              *)
THEOREM NoFragmentLeft == Spec => []AllFreedIsWhole
<1>1. MemInv => AllFreedIsWhole
  <2> SUFFICES ASSUME MemInv, DOMAIN asked = {}, memAccess = Nobody PROVE blk = Whole
    BY DEF AllFreedIsWhole
  <2>0. IsList(blk) /\ Tiles(blk)
    BY DEF MemInv, TypeOK, Tiling
  <2>1. \A a \in Blocks : blk[a].status = "FREE"
    BY <2>0 DEF MemInv, Ownership, IsList, Header, Blocks
  <2>2. \A a \in Blocks : blk[a].next = NULL
    BY <2>0, <2>1 DEF MemInv, Coalesced, Tiles, Blocks
  <2>3. Blocks = {0}
    <3>1. ASSUME NEW a \in Blocks, a # 0 PROVE FALSE
      <4>1. blk[a].prev \in Blocks /\ blk[blk[a].prev].next = a
        BY <3>1, <2>0 DEF Tiles, Blocks
      <4> QED
        BY <4>1, <2>0, <2>2 DEF IsList, Addr, NULL, Blocks
    <3> QED
      BY <3>1, <2>0 DEF IsList, Blocks
  <2>4. blk[0].prev = NULL /\ blk[0].next = NULL /\ blk[0].status = "FREE"
    BY <2>0, <2>1, <2>2, <2>3 DEF Tiles
  <2>5. blk[0].sz = memorySize - HDR
    BY <2>0, <2>3, <2>4, MemoryAssumption, EndInMemory DEF Tiles, EndOf, Blocks
  <2>6. blk[0] = [prev |-> NULL, sz |-> memorySize - HDR, status |-> "FREE", next |-> NULL]
    BY <2>0, <2>3, <2>4, <2>5 DEF IsList, Header, Blocks
  <2> QED
    BY <2>0, <2>3, <2>6 DEF Whole, Blocks, IsList
<1> QED
  BY <1>1, HeapCorrect, PTL
=============================================================================
