----------------------------- MODULE HeapProofs -----------------------------
(***************************************************************************)
(* The blocks of the kernel heap never overlap and have the alignment that *)
(* was asked for, for every set of classes, every layout and every history *)
(* of allocations, refills and frees, and the counters of the heap are     *)
(* exact, while a call is not interrupted by another one (~Preemptible).   *)
(***************************************************************************)
EXTENDS FrameProofs, WellFoundedInduction

-----------------------------------------------------------------------------
(***************************************************************************)
(* The inductive invariant, on top of what FrameProofs keeps.  The blocks  *)
(* of a cache, live or on its list, sit at multiples of their size in      *)
(* frames of their own class.                                              *)
(***************************************************************************)
OfClass(k) == {b \in live : IsClass(SizeOf(b), k)}

Addrs(k) == {b.addr : b \in OfClass(k)} \cup {caches[k][i] : i \in DOMAIN caches[k]}

SitsAt(x, base, j, size) == x = base + j * size /\ j * size + size <= PageSize

\* The block of class k at address x lies in an owned frame, whole.
Sits(x, k) ==
  LET g == addr_to_frame(x)
  IN  /\ g \in Frames /\ owners[g] = 1
      /\ \E j \in 0 .. PageSize : SitsAt(x, frame_to_addr(g), j, Classes[k])

\* No page run and no large block has frame g.
NoRunHas(g) ==
  /\ \A r \in pages : g \notin Span(r.first, r.n)
  /\ \A b \in LargeBlocks : g \notin FramesOf(b)

SlabsSit ==
  \A k \in DOMAIN Classes : \A x \in Addrs(k) : Sits(x, k) /\ NoRunHas(addr_to_frame(x))

SlabsOneClass ==
  \A k, m \in DOMAIN Classes :
    \A x \in Addrs(k), y \in Addrs(m) : addr_to_frame(x) = addr_to_frame(y) => k = m

\* Within a class no address is used twice.
AddrsOnce ==
  \A k \in DOMAIN Classes :
    /\ \A b, d \in OfClass(k) : b.addr = d.addr => b = d
    /\ \A i, j \in DOMAIN caches[k] : caches[k][i] = caches[k][j] => i = j
    /\ \A b \in OfClass(k), i \in DOMAIN caches[k] : caches[k][i] # b.addr

ClassKnown ==
  \A b \in live : IsLarge(SizeOf(b)) \/ \E k \in DOMAIN Classes : IsClass(SizeOf(b), k)

SlabInv == SlabsSit /\ SlabsOneClass /\ AddrsOnce /\ ClassKnown

-----------------------------------------------------------------------------
(***************************************************************************)
(* Arithmetic of blocks and frames                                         *)
(***************************************************************************)
LEMMA ProductStep ==
  ASSUME NEW j \in Nat, NEW m \in Nat, NEW size \in Nat, j < m
  PROVE  j * size + size <= m * size
  OBVIOUS

LEMMA SameFrameApart ==
  ASSUME NEW base \in Nat, NEW j \in Nat, NEW m \in Nat, NEW size \in Nat \ {0},
         NEW x, NEW y, x = base + j * size, y = base + m * size, x # y
  PROVE  (x .. x + size - 1) \cap (y .. y + size - 1) = {}
  <1>1. j * size \in Nat /\ m * size \in Nat /\ x \in Nat /\ y \in Nat
    BY ProductNat
  <1>2. j < m \/ m < j
    OBVIOUS
  <1>3. CASE j < m
    <2>1. j * size + size <= m * size
      BY <1>3, ProductStep
    <2> QED
      BY <1>1, <2>1
  <1>4. CASE m < j
    <2>1. m * size + size <= j * size
      BY <1>4, ProductStep
    <2> QED
      BY <1>1, <2>1
  <1> QED
    BY <1>2, <1>3, <1>4

LEMMA FrameOfByte ==
  ASSUME mem_base \in Nat, NEW g \in Nat, NEW o \in 0 .. PageSize - 1
  PROVE  addr_to_frame(frame_to_addr(g) + o) = g
  <1>1. PageSize \in Nat \ {0} /\ g * PageSize \in Nat
    BY FrameAssumption, ProductNat
  <1>2. (g * PageSize + o) \div PageSize = g
    BY <1>1, QuotientUnique
  <1>3. PICK x : x = frame_to_addr(g) + o
    OBVIOUS
  <1>4. addr_to_frame(x) = (x - mem_base) \div PageSize
    BY DEF addr_to_frame
  <1>5. x - mem_base = g * PageSize + o
    BY <1>1, <1>3 DEF frame_to_addr
  <1> QED
    BY <1>2, <1>3, <1>4, <1>5

\* The bytes of a block that sits in frame g are in frame g.
LEMMA BytesInFrame ==
  ASSUME mem_base \in Nat, NEW g \in Nat, NEW j \in Nat, NEW size \in Nat \ {0}, NEW x,
         SitsAt(x, frame_to_addr(g), j, size), NEW byte \in x .. x + size - 1
  PROVE  addr_to_frame(byte) = g
  <1>1. PageSize \in Nat \ {0} /\ frame_to_addr(g) \in Nat /\ j * size \in Nat
    BY FrameAssumption, ProductNat, FrameOfAddr
  <1>2. PICK o : o = byte - frame_to_addr(g)
    OBVIOUS
  <1>3. o \in 0 .. PageSize - 1 /\ byte = frame_to_addr(g) + o
    BY <1>1, <1>2 DEF SitsAt
  <1> QED
    BY <1>3, FrameOfByte

\* The bytes of a run of n frames from g are in those frames.
LEMMA BytesInRun ==
  ASSUME mem_base \in Nat, NEW g \in Nat, NEW n \in Nat,
         NEW byte \in frame_to_addr(g) .. frame_to_addr(g) + n * PageSize - 1
  PROVE  addr_to_frame(byte) \in Span(g, n)
  <1>1. PageSize \in Nat \ {0} /\ g * PageSize \in Nat /\ n * PageSize \in Nat
    BY FrameAssumption, ProductNat
  <1> DEFINE d == byte - mem_base
             q == d \div PageSize
  <1>2. d \in Nat /\ g * PageSize <= d /\ d < g * PageSize + n * PageSize
    BY <1>1 DEF frame_to_addr
  <1> HIDE DEF d
  <1>3. q \in Nat /\ q * PageSize <= d /\ d < q * PageSize + PageSize
    BY <1>1, <1>2, DivisionBounds
  <1>4. addr_to_frame(byte) = q
    BY DEF addr_to_frame, d
  <1> HIDE DEF q
  <1>5. q * PageSize \in Nat /\ (q + 1) * PageSize = q * PageSize + PageSize
        /\ (g + n) * PageSize = g * PageSize + n * PageSize
    BY <1>1, <1>3
  <1>6. g < q + 1
    <2>1. g * PageSize < (q + 1) * PageSize
      BY <1>1, <1>2, <1>3, <1>5
    <2> QED
      BY <1>1, <1>3, <2>1, ProductOrder
  <1>7. q < g + n
    <2>1. q * PageSize < (g + n) * PageSize
      BY <1>1, <1>2, <1>3, <1>5
    <2> QED
      BY <1>1, <1>3, <2>1, ProductOrder
  <1> QED
    BY <1>3, <1>4, <1>6, <1>7 DEF Span

LEMMA ClassUnique ==
  ASSUME NEW size \in Nat, NEW k, NEW m, IsClass(size, k), IsClass(size, m)
  PROVE  k = m
  <1>1. k \in DOMAIN Classes /\ m \in DOMAIN Classes /\ k \in Nat \ {0} /\ m \in Nat \ {0}
    BY HeapAssumption DEF IsClass
  <1>2. Classes[k] \in Nat /\ Classes[m] \in Nat
    BY <1>1, ClassTyped, FrameAssumption
  <1>3. ~(k < m) /\ ~(m < k)
    BY <1>1, <1>2 DEF IsClass
  <1> QED
    BY <1>1, <1>3

-----------------------------------------------------------------------------
(***************************************************************************)
(* What the invariant says of the blocks                                   *)
(***************************************************************************)
LEMMA PieceOf ==
  ASSUME FrameInv, SlabInv, NEW k \in DOMAIN Classes, NEW x \in Addrs(k)
  PROVE  \E g \in Nat, j \in Nat :
           /\ g = addr_to_frame(x) /\ g \in Frames /\ owners[g] = 1 /\ NoRunHas(g)
           /\ SitsAt(x, frame_to_addr(g), j, Classes[k])
           /\ \A byte \in x .. x + Classes[k] - 1 : addr_to_frame(byte) = g
  <1>1. PICK g : g = addr_to_frame(x)
    OBVIOUS
  <1>2. g \in Frames /\ owners[g] = 1 /\ NoRunHas(g) /\ g \in Nat /\ mem_base \in Nat
    BY <1>1 DEF SlabInv, SlabsSit, Sits, Frames, FrameInv, FrameTypeOK
  <1>3. PICK j \in 0 .. PageSize : SitsAt(x, frame_to_addr(g), j, Classes[k])
    BY <1>1 DEF SlabInv, SlabsSit, Sits
  <1>4. j \in Nat /\ Classes[k] \in Nat \ {0}
    BY ClassTyped, FrameAssumption
  <1>5. \A byte \in x .. x + Classes[k] - 1 : addr_to_frame(byte) = g
    BY <1>2, <1>3, <1>4, BytesInFrame
  <1> QED
    BY <1>1, <1>2, <1>3, <1>4, <1>5

\* Two blocks of the caches at two addresses do not overlap.
LEMMA PiecesApart ==
  ASSUME FrameInv, SlabInv, NEW k \in DOMAIN Classes, NEW m \in DOMAIN Classes,
         NEW x \in Addrs(k), NEW y \in Addrs(m), x # y
  PROVE  (x .. x + Classes[k] - 1) \cap (y .. y + Classes[m] - 1) = {}
  <1>1. PICK g \in Nat, j \in Nat :
           /\ g = addr_to_frame(x) /\ SitsAt(x, frame_to_addr(g), j, Classes[k])
           /\ \A byte \in x .. x + Classes[k] - 1 : addr_to_frame(byte) = g
    BY PieceOf
  <1>2. PICK h \in Nat, i \in Nat :
           /\ h = addr_to_frame(y) /\ SitsAt(y, frame_to_addr(h), i, Classes[m])
           /\ \A byte \in y .. y + Classes[m] - 1 : addr_to_frame(byte) = h
    BY PieceOf
  <1>3. CASE g # h
    BY <1>1, <1>2, <1>3
  <1>4. CASE g = h
    <2>1. k = m
      BY <1>1, <1>2, <1>4 DEF SlabInv, SlabsOneClass
    <2>2. PICK base, size : base = frame_to_addr(g) /\ size = Classes[k]
      OBVIOUS
    <2>3. base \in Nat /\ size \in Nat \ {0}
      <3>1. Classes[k] \in 1 .. PageSize /\ mem_base \in Nat
        BY ClassTyped DEF FrameInv, FrameTypeOK
      <3>2. frame_to_addr(g) \in Nat
        BY <3>1, FrameOfAddr
      <3> QED
        BY <2>2, <3>1, <3>2, FrameAssumption
    <2>4. x = base + j * size /\ y = base + i * size
      BY <1>1, <1>2, <1>4, <2>1, <2>2 DEF SitsAt
    <2>5. (x .. x + size - 1) \cap (y .. y + size - 1) = {}
      BY <2>3, <2>4, SameFrameApart
    <2> QED
      BY <2>1, <2>2, <2>5
  <1> QED
    BY <1>3, <1>4

\* A live block is a block of one cache, or a run of frames that it holds.
LEMMA SmallExtent ==
  ASSUME HoldInv, SlabInv, NEW b \in live, ~IsLarge(SizeOf(b))
  PROVE  \E k \in DOMAIN Classes :
           /\ b \in OfClass(k) /\ b.addr \in Addrs(k)
           /\ Extent(b) = b.addr .. b.addr + Classes[k] - 1
  <1>1. PICK k \in DOMAIN Classes : IsClass(SizeOf(b), k)
    BY DEF SlabInv, ClassKnown
  <1>2. SizeOf(b) \in Nat
    BY SizesPositive DEF HoldInv, RunsHeld, Blocks
  <1>3. (CHOOSE m \in DOMAIN Classes : IsClass(SizeOf(b), m)) = k
    BY <1>1, <1>2, ClassUnique
  <1>4. Extent(b) = b.addr .. b.addr + Classes[k] - 1
    BY <1>3 DEF Extent
  <1> QED
    BY <1>1, <1>4 DEF OfClass, Addrs

LEMMA LargeExtent ==
  ASSUME FrameInv, HoldInv, NEW b \in live, IsLarge(SizeOf(b))
  PROVE  /\ b \in LargeBlocks
         /\ \A byte \in Extent(b) : addr_to_frame(byte) \in FramesOf(b)
         /\ \A f \in FramesOf(b) : owners[f] = 1
  <1>1. PICK g, n : g = FirstFrame(b) /\ n = PagesFor(SizeOf(b))
    OBVIOUS
  <1>2. b \in LargeBlocks /\ Held(g, n) /\ b.addr = frame_to_addr(g) /\ FramesOf(b) = Span(g, n)
    BY <1>1 DEF LargeBlocks, HoldInv, RunsHeld, FramesOf
  <1>3. Extent(b) = frame_to_addr(g) .. frame_to_addr(g) + n * PageSize - 1
    BY <1>1, <1>2 DEF Extent
  <1>4. mem_base \in Nat /\ g \in Nat /\ n \in Nat
    BY <1>2, FrameAssumption DEF Held, FrameInv, FrameTypeOK
  <1>5. \A byte \in Extent(b) : addr_to_frame(byte) \in Span(g, n)
    BY <1>3, <1>4, BytesInRun
  <1> QED
    BY <1>2, <1>5 DEF Held

LEMMA ListedPiece ==
  ASSUME NEW x \in Listed
  PROVE  /\ x.k \in DOMAIN Classes /\ x.i \in Nat \ {0} /\ x.i <= Len(caches[x.k])
         /\ x = [k |-> x.k, i |-> x.i]
  BY DEF Listed, FreeBlocks, OnList

LEMMA ListedAddr ==
  ASSUME FrameInv, HoldInv, SlabInv, NEW x \in Listed
  PROVE  /\ caches[x.k][x.i] \in Addrs(x.k) /\ x.i \in DOMAIN caches[x.k]
         /\ \A byte \in ListExtent(x) : owners[addr_to_frame(byte)] = 1 /\ NoRunHas(addr_to_frame(byte))
  <1>1. /\ x.k \in DOMAIN Classes /\ x.i \in Nat \ {0} /\ x.i <= Len(caches[x.k])
    BY ListedPiece
  <1>2. caches[x.k] \in Seq(Nat)
    BY <1>1 DEF HoldInv, CachesTyped
  <1>3. x.i \in DOMAIN caches[x.k]
    BY <1>1, <1>2
  <1>4. caches[x.k][x.i] \in Addrs(x.k)
    BY <1>3 DEF Addrs
  <1>5. PICK k, y : k = x.k /\ y = caches[x.k][x.i]
    OBVIOUS
  <1>6. \A byte \in y .. y + Classes[k] - 1 :
          owners[addr_to_frame(byte)] = 1 /\ NoRunHas(addr_to_frame(byte))
    <2>1. PICK g \in Nat, j \in Nat :
             /\ owners[g] = 1 /\ NoRunHas(g)
             /\ \A byte \in y .. y + Classes[k] - 1 : addr_to_frame(byte) = g
      BY <1>1, <1>4, <1>5, PieceOf
    <2> QED
      BY <2>1
  <1> QED
    BY <1>3, <1>4, <1>5, <1>6 DEF ListExtent

LEMMA SmallBytes ==
  ASSUME FrameInv, HoldInv, SlabInv, NEW b \in live, ~IsLarge(SizeOf(b))
  PROVE  \A byte \in Extent(b) : owners[addr_to_frame(byte)] = 1 /\ NoRunHas(addr_to_frame(byte))
  <1>1. PICK k \in DOMAIN Classes :
           b.addr \in Addrs(k) /\ Extent(b) = b.addr .. b.addr + Classes[k] - 1
    BY SmallExtent
  <1>2. PICK x : x = b.addr
    OBVIOUS
  <1>3. PICK g \in Nat, j \in Nat :
           /\ owners[g] = 1 /\ NoRunHas(g)
           /\ \A byte \in x .. x + Classes[k] - 1 : addr_to_frame(byte) = g
    BY <1>1, <1>2, PieceOf
  <1> QED
    BY <1>1, <1>2, <1>3

LEMMA LiveApart ==
  ASSUME FrameInv, HoldInv, SlabInv, NEW b \in live, NEW d \in live, b # d
  PROVE  Extent(b) \cap Extent(d) = {}
  <1>1. CASE IsLarge(SizeOf(b)) /\ IsLarge(SizeOf(d))
    <2>1. FramesOf(b) \cap FramesOf(d) = {}
      BY <1>1, LargeExtent DEF HoldInv, RunsApart
    <2> QED
      BY <1>1, <2>1, LargeExtent
  <1>2. CASE IsLarge(SizeOf(b)) /\ ~IsLarge(SizeOf(d))
    BY <1>2, LargeExtent, SmallBytes DEF NoRunHas
  <1>3. CASE ~IsLarge(SizeOf(b)) /\ IsLarge(SizeOf(d))
    BY <1>3, LargeExtent, SmallBytes DEF NoRunHas
  <1>4. CASE ~IsLarge(SizeOf(b)) /\ ~IsLarge(SizeOf(d))
    <2>1. PICK k \in DOMAIN Classes :
             /\ b \in OfClass(k) /\ b.addr \in Addrs(k)
             /\ Extent(b) = b.addr .. b.addr + Classes[k] - 1
      BY <1>4, SmallExtent
    <2>2. PICK m \in DOMAIN Classes :
             /\ d \in OfClass(m) /\ d.addr \in Addrs(m)
             /\ Extent(d) = d.addr .. d.addr + Classes[m] - 1
      BY <1>4, SmallExtent
    <2>3. b.addr # d.addr
      <3>1. SUFFICES ASSUME b.addr = d.addr PROVE FALSE
        OBVIOUS
      <3>2. k = m
        BY <2>1, <2>2, <3>1 DEF SlabInv, SlabsOneClass
      <3> QED
        BY <2>1, <2>2, <3>1, <3>2 DEF SlabInv, AddrsOnce
    <2>4. PICK x, y : x = b.addr /\ y = d.addr
      OBVIOUS
    <2>5. (x .. x + Classes[k] - 1) \cap (y .. y + Classes[m] - 1) = {}
      BY <2>1, <2>2, <2>3, <2>4, PiecesApart
    <2> QED
      BY <2>1, <2>2, <2>4, <2>5
  <1> QED
    BY <1>1, <1>2, <1>3, <1>4

LEMMA LiveAndListedApart ==
  ASSUME FrameInv, HoldInv, SlabInv, NEW b \in live, NEW x \in Listed
  PROVE  Extent(b) \cap ListExtent(x) = {}
  <1>1. CASE IsLarge(SizeOf(b))
    BY <1>1, LargeExtent, ListedAddr DEF NoRunHas
  <1>2. CASE ~IsLarge(SizeOf(b))
    <2>1. PICK k \in DOMAIN Classes :
             /\ b \in OfClass(k) /\ b.addr \in Addrs(k)
             /\ Extent(b) = b.addr .. b.addr + Classes[k] - 1
      BY <1>2, SmallExtent
    <2>2. PICK m, y, z : m = x.k /\ y = caches[x.k][x.i] /\ z = b.addr
      OBVIOUS
    <2>3. m \in DOMAIN Classes /\ y \in Addrs(m) /\ x.i \in DOMAIN caches[m]
      BY <2>2, ListedPiece, ListedAddr
    <2>4. y # z
      <3>1. SUFFICES ASSUME y = z PROVE FALSE
        OBVIOUS
      <3>2. k = m
        BY <2>1, <2>2, <2>3, <3>1 DEF SlabInv, SlabsOneClass
      <3> QED
        BY <2>1, <2>2, <2>3, <3>1, <3>2 DEF SlabInv, AddrsOnce
    <2>5. (z .. z + Classes[k] - 1) \cap (y .. y + Classes[m] - 1) = {}
      BY <2>1, <2>2, <2>3, <2>4, PiecesApart
    <2> QED
      BY <2>1, <2>2, <2>5 DEF ListExtent
  <1> QED
    BY <1>1, <1>2

LEMMA ListedApart ==
  ASSUME FrameInv, HoldInv, SlabInv, NEW x \in Listed, NEW y \in Listed, x # y
  PROVE  ListExtent(x) \cap ListExtent(y) = {}
  <1>1. PICK k, m, i, j, u, v : /\ k = x.k /\ m = y.k /\ i = x.i /\ j = y.i
                                /\ u = caches[x.k][x.i] /\ v = caches[y.k][y.i]
    OBVIOUS
  <1>2. /\ k \in DOMAIN Classes /\ u \in Addrs(k) /\ i \in DOMAIN caches[k]
        /\ m \in DOMAIN Classes /\ v \in Addrs(m) /\ j \in DOMAIN caches[m]
    BY <1>1, ListedPiece, ListedAddr
  <1>3. k # m \/ i # j
    BY <1>1, ListedPiece
  <1>4. u # v
    <2>1. SUFFICES ASSUME u = v PROVE FALSE
      OBVIOUS
    <2>2. k = m
      BY <1>2, <2>1 DEF SlabInv, SlabsOneClass
    <2> QED
      BY <1>1, <1>2, <1>3, <2>1, <2>2 DEF SlabInv, AddrsOnce
  <1>5. (u .. u + Classes[k] - 1) \cap (v .. v + Classes[m] - 1) = {}
    BY <1>2, <1>4, PiecesApart
  <1> QED
    BY <1>1, <1>5 DEF ListExtent

LEMMA InvariantDisjoint == FrameInv /\ HoldInv /\ SlabInv => BlocksDisjoint
  <1> SUFFICES ASSUME FrameInv, HoldInv, SlabInv PROVE BlocksDisjoint
    OBVIOUS
  <1>1. \A b \in live : \A byte \in Extent(b) : owners[addr_to_frame(byte)] = 1
    BY LargeExtent, SmallBytes
  <1>2. \A x \in Listed : \A byte \in ListExtent(x) : owners[addr_to_frame(byte)] = 1
    BY ListedAddr
  <1> QED
    BY <1>1, <1>2, LiveApart, LiveAndListedApart, ListedApart DEF BlocksDisjoint

-----------------------------------------------------------------------------
(***************************************************************************)
(* The steps                                                               *)
(***************************************************************************)
\* The frames of F change hands, no slab has one of them before, and class c
\* gains the addresses N, all of them in F.
LEMMA SlabsKept ==
  ASSUME SlabsSit, SlabsOneClass, NEW F, NEW c, NEW N, UNCHANGED <<mem_base, total_frames>>,
         \A f \in Frames \ F : owners'[f] = owners[f],
         \A k \in DOMAIN Classes : \A x \in Addrs(k)' : x \in Addrs(k) \/ (k = c /\ x \in N),
         \A k \in DOMAIN Classes : \A x \in Addrs(k) : addr_to_frame(x) \notin F,
         \A g \in Frames \ F : NoRunHas(g) => NoRunHas(g)',
         \A x \in N : Sits(x, c)' /\ NoRunHas(addr_to_frame(x))' /\ addr_to_frame(x) \in F
  PROVE  SlabsSit' /\ SlabsOneClass'
  <1>1. \A x : addr_to_frame(x)' = addr_to_frame(x)
    BY DEF addr_to_frame
  <1>2. ASSUME NEW k \in DOMAIN Classes, NEW x \in Addrs(k)'
        PROVE  Sits(x, k)' /\ NoRunHas(addr_to_frame(x))'
    <2>1. CASE x \in Addrs(k)
      <3>1. PICK g : g = addr_to_frame(x)
        OBVIOUS
      <3>2. Sits(x, k) /\ NoRunHas(g) /\ g \notin F /\ g \in Frames
        BY <2>1, <3>1 DEF SlabsSit, Sits
      <3>3. NoRunHas(g)'
        BY <3>2
      <3>4. Sits(x, k)'
        BY <3>1, <3>2 DEF Sits, addr_to_frame, frame_to_addr, Frames
      <3> QED
        BY <1>1, <3>1, <3>3, <3>4 DEF NoRunHas
    <2>2. CASE k = c /\ x \in N
      BY <2>2
    <2> QED
      BY <2>1, <2>2
  <1>3. SlabsSit'
    BY <1>2 DEF SlabsSit
  <1>4. SlabsOneClass'
    <2> SUFFICES ASSUME NEW k \in DOMAIN Classes, NEW m \in DOMAIN Classes,
                        NEW x \in Addrs(k)', NEW y \in Addrs(m)',
                        addr_to_frame(x) = addr_to_frame(y)
                 PROVE  k = m
      BY <1>1 DEF SlabsOneClass
    <2>1. x \in Addrs(k) \/ (k = c /\ x \in N)
      OBVIOUS
    <2>2. y \in Addrs(m) \/ (m = c /\ y \in N)
      OBVIOUS
    <2> QED
      BY <2>1, <2>2 DEF SlabsOneClass
  <1> QED
    BY <1>3, <1>4

\* The caches stay as they are, and only a large block may come.
LEMMA AddrsShrink ==
  ASSUME AddrsOnce, ClassKnown, UNCHANGED caches,
         \A b \in live' : b \in live \/ (IsLarge(SizeOf(b)) /\ SizeOf(b) \in Nat)
  PROVE  /\ AddrsOnce' /\ ClassKnown'
         /\ \A k \in DOMAIN Classes : Addrs(k)' \subseteq Addrs(k)
  <1>1. \A k : OfClass(k)' \subseteq OfClass(k)
    BY ClassNotLarge DEF OfClass
  <1>2. AddrsOnce'
    BY <1>1 DEF AddrsOnce
  <1>3. ClassKnown'
    BY DEF ClassKnown
  <1>4. \A k \in DOMAIN Classes : Addrs(k)' \subseteq Addrs(k)
    BY <1>1 DEF Addrs
  <1> QED
    BY <1>2, <1>3, <1>4

\* A step of the heap that leaves the caches alone, and the frames but F.
LEMMA SlabInvKept ==
  ASSUME SlabInv, NEW F, UNCHANGED <<mem_base, total_frames, caches>>,
         \A b \in live' : b \in live \/ (IsLarge(SizeOf(b)) /\ SizeOf(b) \in Nat),
         \A f \in Frames \ F : owners'[f] = owners[f],
         \A k \in DOMAIN Classes : \A x \in Addrs(k) : addr_to_frame(x) \notin F,
         \A g \in Frames \ F : NoRunHas(g) => NoRunHas(g)'
  PROVE  SlabInv'
  <1>1. /\ AddrsOnce' /\ ClassKnown'
        /\ \A k \in DOMAIN Classes : \A x \in Addrs(k)' : x \in Addrs(k)
    BY AddrsShrink DEF SlabInv
  <1>2. PICK N : N = {}
    OBVIOUS
  <1>3. /\ \A k \in DOMAIN Classes : \A x \in Addrs(k)' : x \in Addrs(k) \/ (k = 0 /\ x \in N)
        /\ \A x \in N : Sits(x, 0)' /\ NoRunHas(addr_to_frame(x))' /\ addr_to_frame(x) \in F
    BY <1>1, <1>2
  <1>4. SlabsSit' /\ SlabsOneClass'
    BY <1>3, SlabsKept DEF SlabInv
  <1> QED
    BY <1>1, <1>4 DEF SlabInv

\* Nothing changes hands, no block is allocated or freed.
LEMMA SlabSame ==
  ASSUME SlabInv, UNCHANGED <<mem_base, total_frames, owners, caches, live, pages>>
  PROVE  SlabInv'
  <1>1. PICK F : F = {}
    OBVIOUS
  <1>2. \A g : NoRunHas(g) => NoRunHas(g)'
    BY DEF NoRunHas, LargeBlocks, FramesOf, FirstFrame, addr_to_frame
  <1> QED
    BY <1>1, <1>2, SlabInvKept

LEMMA HeadAndTail ==
  ASSUME NEW s \in Seq(Nat), s # <<>>
  PROVE  /\ 1 \in DOMAIN s /\ Head(s) = s[1]
         /\ \A i \in DOMAIN Tail(s) : i + 1 \in DOMAIN s /\ Tail(s)[i] = s[i + 1] /\ i \in Nat \ {0}
  OBVIOUS

LEMMA Joined ==
  ASSUME NEW s \in Seq(Nat), NEW t \in Seq(Nat), NEW i \in DOMAIN (s \o t)
  PROVE  \/ i \in DOMAIN s /\ (s \o t)[i] = s[i]
         \/ i - Len(s) \in DOMAIN t /\ (s \o t)[i] = t[i - Len(s)]
  OBVIOUS

\* A block moves between a cache and its user: the addresses stay.
LEMMA SlabMoved ==
  ASSUME SlabInv, UNCHANGED <<mem_base, total_frames, owners, pages>>,
         LargeBlocks' \subseteq LargeBlocks,
         \A k \in DOMAIN Classes : \A x \in Addrs(k)' : x \in Addrs(k)
  PROVE  SlabsSit' /\ SlabsOneClass'
  <1>1. PICK F, N : F = {} /\ N = {}
    OBVIOUS
  <1>2. \A g : NoRunHas(g) => NoRunHas(g)'
    BY DEF NoRunHas, FramesOf, FirstFrame, addr_to_frame
  <1>3. /\ \A k \in DOMAIN Classes : \A x \in Addrs(k)' : x \in Addrs(k) \/ (k = 0 /\ x \in N)
        /\ \A x \in N : Sits(x, 0)' /\ NoRunHas(addr_to_frame(x))' /\ addr_to_frame(x) \in F
        /\ \A f \in Frames \ F : owners'[f] = owners[f]
        /\ \A k \in DOMAIN Classes : \A x \in Addrs(k) : addr_to_frame(x) \notin F
        /\ \A g \in Frames \ F : NoRunHas(g) => NoRunHas(g)'
    BY <1>1, <1>2
  <1> QED
    BY <1>3, SlabsKept DEF SlabInv

\* The block (addr, l) of class k becomes live.
LEMMA BlockComes ==
  ASSUME NEW addr, NEW l, l.size \in Nat, l.align \in Nat \ {0}, NEW k \in DOMAIN Classes,
         IsClass(SizeOf(l), k), live' = live \cup {Block(addr, l)}, ClassKnown
  PROVE  /\ ClassKnown'
         /\ OfClass(k)' = OfClass(k) \cup {Block(addr, l)}
         /\ \A m \in DOMAIN Classes \ {k} : OfClass(m)' = OfClass(m)
  <1>1. PICK b : b = Block(addr, l)
    OBVIOUS
  <1>2. SizeOf(b) \in Nat /\ IsClass(SizeOf(b), k)
    BY <1>1, BlockSize, SizesPositive
  <1>3. \A m \in DOMAIN Classes : IsClass(SizeOf(b), m) => m = k
    BY <1>2, ClassUnique
  <1>4. ClassKnown'
    BY <1>1, <1>2 DEF ClassKnown
  <1> QED
    BY <1>1, <1>2, <1>3, <1>4 DEF OfClass

LEMMA SlabAllocSlabs ==
  ASSUME HoldInv, SlabInv, NEW c \in Callers, NEW l \in Layouts, slab_alloc(c, l)
  PROVE  SlabInv'
  <1>1. UNCHANGED <<mem_base, total_frames, owners, pages>>
    BY DEF slab_alloc, frameVars
  <1>2. PICK k \in DOMAIN Classes :
           /\ IsClass(SizeOf(l), k) /\ caches[k] # <<>>
           /\ caches' = [caches EXCEPT ![k] = Tail(@)]
           /\ Allocated(l, Head(caches[k]))
    BY DEF slab_alloc
  <1>3. PICK s, b, addr : s = caches[k] /\ b = Block(Head(caches[k]), l) /\ addr = Head(caches[k])
    OBVIOUS
  <1>4. /\ s \in Seq(Nat) /\ s # <<>> /\ caches'[k] = Tail(s)
        /\ \A m \in DOMAIN Classes \ {k} : caches'[m] = caches[m]
    BY <1>2, <1>3 DEF HoldInv, CachesTyped
  <1>5. /\ 1 \in DOMAIN s /\ addr = s[1]
        /\ \A i \in DOMAIN Tail(s) : i + 1 \in DOMAIN s /\ Tail(s)[i] = s[i + 1] /\ i \in Nat \ {0}
    BY <1>3, <1>4, HeadAndTail
  <1>6. live' = live \cup {b} /\ b.addr = addr /\ b = Block(addr, l)
    BY <1>2, <1>3, BlockSize DEF Allocated
  <1>7. /\ ClassKnown' /\ OfClass(k)' = OfClass(k) \cup {b}
        /\ \A m \in DOMAIN Classes \ {k} : OfClass(m)' = OfClass(m)
    BY <1>2, <1>6, LayoutTyped, BlockComes DEF SlabInv
  <1>8. addr \in Nat
    BY <1>3, <1>4
  <1>9. LargeBlocks' = LargeBlocks
    BY <1>2, <1>6, <1>8, LayoutTyped, SmallBlockAdded DEF HoldInv
  <1>10. \A m \in DOMAIN Classes : \A x \in Addrs(m)' : x \in Addrs(m)
    <2> SUFFICES ASSUME NEW m \in DOMAIN Classes, NEW x \in Addrs(m)'
                 PROVE  x \in Addrs(m)
      OBVIOUS
    <2>1. CASE m = k
      <3>1. CASE \E d \in OfClass(k)' : x = d.addr
        <4>1. PICK d \in OfClass(k) \cup {b} : x = d.addr
          BY <1>7, <3>1
        <4> QED
          BY <1>3, <1>5, <1>6, <2>1, <4>1 DEF Addrs
      <3>2. CASE \E i \in DOMAIN caches'[k] : x = caches'[k][i]
        BY <1>3, <1>4, <1>5, <2>1, <3>2 DEF Addrs
      <3> QED
        BY <2>1, <3>1, <3>2 DEF Addrs
    <2>2. CASE m # k
      BY <1>4, <1>7, <2>2 DEF Addrs
    <2> QED
      BY <2>1, <2>2
  <1>11. AddrsOnce'
    <2> SUFFICES ASSUME NEW m \in DOMAIN Classes
                 PROVE  /\ \A d, e \in OfClass(m)' : d.addr = e.addr => d = e
                        /\ \A i, j \in DOMAIN caches'[m] : caches'[m][i] = caches'[m][j] => i = j
                        /\ \A d \in OfClass(m)', i \in DOMAIN caches'[m] : caches'[m][i] # d.addr
      BY DEF AddrsOnce
    <2>1. CASE m = k
      <3>1. /\ \A d, e \in OfClass(k) : d.addr = e.addr => d = e
            /\ \A i, j \in DOMAIN s : s[i] = s[j] => i = j
            /\ \A d \in OfClass(k), i \in DOMAIN s : s[i] # d.addr
        BY <1>3 DEF SlabInv, AddrsOnce
      <3>2. \A d, e \in OfClass(k) \cup {b} : d.addr = e.addr => d = e
        BY <1>5, <1>6, <3>1
      <3>3. \A i, j \in DOMAIN Tail(s) : Tail(s)[i] = Tail(s)[j] => i = j
        BY <1>5, <3>1
      <3>4. \A i \in DOMAIN Tail(s) : Tail(s)[i] # addr
        <4> SUFFICES ASSUME NEW i \in DOMAIN Tail(s), Tail(s)[i] = addr PROVE FALSE
          OBVIOUS
        <4>1. i + 1 \in DOMAIN s /\ s[i + 1] = s[1] /\ i \in Nat \ {0}
          BY <1>5
        <4>2. i + 1 = 1
          BY <1>5, <3>1, <4>1
        <4> QED
          BY <4>1, <4>2
      <3>5. \A d \in OfClass(k) \cup {b}, i \in DOMAIN Tail(s) : Tail(s)[i] # d.addr
        BY <1>5, <1>6, <3>1, <3>4
      <3> QED
        BY <1>4, <1>7, <2>1, <3>2, <3>3, <3>5
    <2>2. CASE m # k
      BY <1>4, <1>7, <2>2 DEF SlabInv, AddrsOnce
    <2> QED
      BY <2>1, <2>2
  <1>12. SlabsSit' /\ SlabsOneClass'
    BY <1>1, <1>9, <1>10, SlabMoved
  <1> QED
    BY <1>7, <1>11, <1>12 DEF SlabInv

LEMMA Pushed ==
  ASSUME NEW s \in Seq(Nat), NEW x \in Nat, NEW i \in DOMAIN (<<x>> \o s)
  PROVE  /\ i \in Nat
         /\ \/ i = 1 /\ (<<x>> \o s)[i] = x
            \/ i - 1 \in DOMAIN s /\ (<<x>> \o s)[i] = s[i - 1]
  OBVIOUS

LEMMA SmallDeallocSlabs ==
  ASSUME HoldInv, SlabInv, NEW b \in live, NEW k \in DOMAIN Classes, IsClass(SizeOf(b), k),
         live' = live \ {b}, caches' = [caches EXCEPT ![k] = <<b.addr>> \o @],
         UNCHANGED <<mem_base, total_frames, owners, pages>>
  PROVE  SlabInv'
  <1>1. PICK s, t, x : s = caches[k] /\ x = b.addr /\ t = <<b.addr>> \o caches[k]
    OBVIOUS
  <1>2. /\ s \in Seq(Nat) /\ caches'[k] = t /\ x \in Nat /\ t = <<x>> \o s
        /\ \A m \in DOMAIN Classes \ {k} : caches'[m] = caches[m]
    BY <1>1 DEF HoldInv, CachesTyped, RunsHeld, Blocks
  <1>3. \A i \in DOMAIN t : /\ i \in Nat
                            /\ \/ i = 1 /\ t[i] = x
                               \/ i - 1 \in DOMAIN s /\ t[i] = s[i - 1]
    BY <1>2, Pushed
  <1>4. b \in OfClass(k) /\ OfClass(k)' = OfClass(k) \ {b} /\ ClassKnown'
        /\ \A m \in DOMAIN Classes : OfClass(m)' \subseteq OfClass(m)
    BY DEF OfClass, SlabInv, ClassKnown
  <1>5. LargeBlocks' \subseteq LargeBlocks
    BY DEF LargeBlocks
  <1>6. \A m \in DOMAIN Classes : \A y \in Addrs(m)' : y \in Addrs(m)
    <2> SUFFICES ASSUME NEW m \in DOMAIN Classes, NEW y \in Addrs(m)'
                 PROVE  y \in Addrs(m)
      OBVIOUS
    <2>1. CASE \E d \in OfClass(m)' : y = d.addr
      BY <1>4, <2>1 DEF Addrs
    <2>2. CASE \E i \in DOMAIN caches'[m] : y = caches'[m][i]
      <3>1. CASE m = k
        <4>1. PICK i \in DOMAIN t : y = t[i]
          BY <1>2, <2>2, <3>1
        <4> QED
          BY <1>1, <1>3, <1>4, <3>1, <4>1 DEF Addrs
      <3>2. CASE m # k
        BY <1>2, <2>2, <3>2 DEF Addrs
      <3> QED
        BY <3>1, <3>2
    <2> QED
      BY <2>1, <2>2 DEF Addrs
  <1>7. AddrsOnce'
    <2> SUFFICES ASSUME NEW m \in DOMAIN Classes
                 PROVE  /\ \A d, e \in OfClass(m)' : d.addr = e.addr => d = e
                        /\ \A i, j \in DOMAIN caches'[m] : caches'[m][i] = caches'[m][j] => i = j
                        /\ \A d \in OfClass(m)', i \in DOMAIN caches'[m] : caches'[m][i] # d.addr
      BY DEF AddrsOnce
    <2>1. CASE m = k
      <3>1. /\ \A d, e \in OfClass(k) : d.addr = e.addr => d = e
            /\ \A i, j \in DOMAIN s : s[i] = s[j] => i = j
            /\ \A d \in OfClass(k), i \in DOMAIN s : s[i] # d.addr
        BY <1>1 DEF SlabInv, AddrsOnce
      <3>2. \A i, j \in DOMAIN t : t[i] = t[j] => i = j
        <4> SUFFICES ASSUME NEW i \in DOMAIN t, NEW j \in DOMAIN t, t[i] = t[j]
                     PROVE  i = j
          OBVIOUS
        <4>1. i \in Nat /\ j \in Nat /\ \A n \in DOMAIN s : s[n] # x
          BY <1>1, <1>3, <1>4, <3>1
        <4>2. CASE i = 1 /\ t[i] = x
          BY <1>3, <4>1, <4>2
        <4>3. CASE i - 1 \in DOMAIN s /\ t[i] = s[i - 1]
          <5>1. j - 1 \in DOMAIN s /\ t[j] = s[j - 1]
            BY <1>3, <4>1, <4>3
          <5>2. i - 1 = j - 1
            BY <3>1, <4>3, <5>1
          <5> QED
            BY <4>1, <5>2
        <4> QED
          BY <1>3, <4>2, <4>3
      <3>3. \A d \in OfClass(k) \ {b}, i \in DOMAIN t : t[i] # d.addr
        BY <1>1, <1>3, <1>4, <3>1
      <3> QED
        BY <1>2, <1>4, <2>1, <3>1, <3>2, <3>3, ZenonT(40)
    <2>2. CASE m # k
      BY <1>2, <1>4, <2>2 DEF SlabInv, AddrsOnce
    <2> QED
      BY <2>1, <2>2
  <1>8. SlabsSit' /\ SlabsOneClass'
    BY <1>5, <1>6, SlabMoved
  <1> QED
    BY <1>4, <1>7, <1>8 DEF SlabInv

LEMMA ProductGrows ==
  ASSUME NEW i \in Nat, NEW size \in Nat \ {0}
  PROVE  i <= i * size
  OBVIOUS

LEMMA ProductEqual ==
  ASSUME NEW i \in Nat, NEW j \in Nat, NEW size \in Nat \ {0}, i * size = j * size
  PROVE  i = j
  OBVIOUS

LEMMA SitsOnce ==
  ASSUME NEW x \in Nat, NEW size \in Nat \ {0}, NEW i \in Nat, NEW j \in Nat, NEW y, NEW z,
         SitsAt(y, x, i, size), SitsAt(z, x, j, size), y = z
  PROVE  i = j
  <1>1. i * size \in Nat /\ j * size \in Nat
    BY ProductNat
  <1>2. i * size = j * size
    BY <1>1 DEF SitsAt
  <1> QED
    BY <1>2, ProductEqual

LEMMA SitsOff ==
  ASSUME NEW x \in Nat, NEW size \in Nat \ {0}, NEW i \in Nat \ {0}, NEW y, SitsAt(y, x, i, size)
  PROVE  y # x
  <1>1. i * size \in Nat /\ i <= i * size
    BY ProductNat, ProductGrows
  <1> QED
    BY <1>1 DEF SitsAt

LEMMA TailAt ==
  ASSUME NEW s \in Seq(Nat), NEW m \in Nat \ {0}, Len(s) = m
  PROVE  /\ Tail(s) \in Seq(Nat) /\ DOMAIN Tail(s) = 1 .. m - 1
         /\ \A i \in 1 .. m - 1 : Tail(s)[i] = s[i + 1]
  OBVIOUS

\* What grow puts on the list: all blocks of the slab but the first.
LEMMA CarvedBlocks ==
  ASSUME NEW addr \in Nat, NEW size \in 1 .. PageSize, NEW s, s = Tail(Carved(addr, size))
  PROVE  /\ s \in Seq(Nat)
         /\ \A i \in DOMAIN s : i \in 1 .. PageSize /\ SitsAt(s[i], addr, i, size)
  <1>1. size \in Nat \ {0} /\ PageSize \in Nat \ {0}
    BY FrameAssumption
  <1> DEFINE m == PageSize \div size
             t == Carved(addr, size)
  <1>2. m \in Nat /\ m * size <= PageSize /\ PageSize < m * size + size
    BY <1>1, DivisionBounds
  <1>3. t = [i \in 1 .. m |-> addr + (i - 1) * size]
    BY DEF Carved
  <1> HIDE DEF m, t
  <1>4. m \in Nat \ {0}
    BY <1>1, <1>2
  <1>5. ASSUME NEW i \in 1 .. m - 1
        PROVE  t[i + 1] = addr + i * size /\ i \in 1 .. PageSize /\ i * size + size <= PageSize
    <2>1. i \in Nat \ {0} /\ i < m /\ i + 1 \in 1 .. m /\ (i + 1) - 1 = i
      BY <1>4
    <2>2. t[i + 1] = addr + i * size
      BY <1>3, <2>1
    <2>3. i * size + size <= m * size /\ i <= i * size /\ i * size \in Nat /\ m * size \in Nat
      BY <1>1, <1>4, <2>1, ProductStep, ProductGrows, ProductNat
    <2> QED
      BY <1>1, <1>2, <2>1, <2>2, <2>3
  <1>6. \A i \in 1 .. m : addr + (i - 1) * size \in Nat
    <2> SUFFICES ASSUME NEW i \in 1 .. m
                 PROVE  addr + (i - 1) * size \in Nat
      OBVIOUS
    <2>1. PICK j : j = i - 1
      OBVIOUS
    <2>2. j \in Nat
      BY <1>4, <2>1
    <2>3. j * size \in Nat
      BY <1>1, <2>2, ProductNat
    <2> QED
      BY <2>1, <2>3
  <1>7. t \in Seq(Nat) /\ Len(t) = m
    BY <1>3, <1>4, <1>6
  <1>8. /\ s = Tail(t) /\ s \in Seq(Nat) /\ DOMAIN s = 1 .. m - 1
        /\ \A i \in 1 .. m - 1 : s[i] = t[i + 1]
    BY <1>4, <1>7, TailAt DEF t
  <1> QED
    BY <1>5, <1>8 DEF SitsAt

LEMMA GrowSlabs ==
  ASSUME HoldInv, SlabInv, mem_base \in Nat, total_frames \in Nat, NEW ret \in Frames,
         owners[ret] = 0, owners'[ret] = 1, \A f \in Frames \ {ret} : owners'[f] = owners[f],
         NEW k \in DOMAIN Classes, NEW q, q.size \in Nat, q.align \in Nat \ {0},
         IsClass(SizeOf(q), k), NEW x, x = frame_to_addr(ret),
         caches' = [caches EXCEPT ![k] = Tail(Carved(x, Classes[k])) \o @],
         live' = live \cup {Block(x, q)}, UNCHANGED <<mem_base, total_frames, pages>>
  PROVE  SlabInv'
  <1>1. PICK size, s, u, t, b : /\ size = Classes[k] /\ s = Tail(Carved(x, Classes[k]))
                                /\ u = caches[k] /\ t = Tail(Carved(x, Classes[k])) \o caches[k]
                                /\ b = Block(x, q)
    OBVIOUS
  <1>2. ret \in Nat /\ x \in Nat /\ size \in Nat \ {0} /\ size \in 1 .. PageSize
    <2>1. Classes[k] \in 1 .. PageSize /\ ret \in Nat
      BY ClassTyped DEF Frames
    <2>2. frame_to_addr(ret) \in Nat
      BY <2>1, FrameOfAddr
    <2> QED
      BY <1>1, <2>1, <2>2, FrameAssumption
  <1>3. /\ s \in Seq(Nat)
        /\ \A i \in DOMAIN s : i \in 1 .. PageSize /\ SitsAt(s[i], x, i, size)
    BY <1>1, <1>2, CarvedBlocks
  <1>4. /\ u \in Seq(Nat) /\ caches'[k] = t /\ t = s \o u
        /\ \A m \in DOMAIN Classes \ {k} : caches'[m] = caches[m]
    BY <1>1 DEF HoldInv, CachesTyped
  <1>5. \A i \in DOMAIN t : \/ i \in DOMAIN s /\ t[i] = s[i]
                            \/ i - Len(s) \in DOMAIN u /\ t[i] = u[i - Len(s)]
    BY <1>3, <1>4, Joined
  <1>6. /\ ClassKnown' /\ OfClass(k)' = OfClass(k) \cup {b}
        /\ \A m \in DOMAIN Classes \ {k} : OfClass(m)' = OfClass(m)
    BY <1>1, BlockComes DEF SlabInv
  <1>7. b.addr = x /\ LargeBlocks' = LargeBlocks
    BY <1>1, <1>2, BlockSize, SmallBlockAdded DEF HoldInv
  <1> DEFINE N == {x} \cup {s[i] : i \in DOMAIN s}
             F == {ret}
  <1>8. \A y \in N : \E j \in 0 .. PageSize : SitsAt(y, x, j, size)
    <2>1. SitsAt(x, x, 0, size) /\ 0 \in 0 .. PageSize
      BY <1>2, FrameAssumption DEF SitsAt
    <2>2. \A j \in 1 .. PageSize : j \in 0 .. PageSize
      BY FrameAssumption
    <2> QED
      BY <1>3, <2>1, <2>2
  <1>9. \A y \in N : addr_to_frame(y) = ret
    <2> SUFFICES ASSUME NEW y \in N PROVE addr_to_frame(y) = ret
      OBVIOUS
    <2>1. PICK j \in 0 .. PageSize : SitsAt(y, x, j, size)
      BY <1>8
    <2>2. j \in Nat /\ j * size \in Nat
      BY <1>2, FrameAssumption, ProductNat
    <2>3. y \in y .. y + size - 1
      BY <1>2, <2>1, <2>2 DEF SitsAt
    <2>4. SitsAt(y, frame_to_addr(ret), j, size)
      BY <2>1
    <2> HIDE DEF N
    <2> QED
      BY <1>2, <2>2, <2>3, <2>4, BytesInFrame
  <1> HIDE DEF N
  <1>10. \A m \in DOMAIN Classes : \A y \in Addrs(m) : addr_to_frame(y) # ret
    BY DEF SlabInv, SlabsSit, Sits
  <1>11. \A m \in DOMAIN Classes : \A y \in Addrs(m) : y \notin N
    BY <1>9, <1>10
  <1>12. \A g : NoRunHas(g) => NoRunHas(g)'
    BY <1>7 DEF NoRunHas, FramesOf, FirstFrame, addr_to_frame
  <1>13. NoRunHas(ret)
    <2>1. \A r \in pages : ret \notin Span(r.first, r.n)
      BY DEF HoldInv, RunsHeld, Held
    <2>2. \A d \in LargeBlocks : ret \notin FramesOf(d)
      BY DEF HoldInv, RunsHeld, Held, FramesOf
    <2> QED
      BY <2>1, <2>2 DEF NoRunHas
  <1>14. ASSUME NEW y \in N
         PROVE  Sits(y, k)' /\ NoRunHas(addr_to_frame(y))' /\ addr_to_frame(y) \in F
    <2>1. addr_to_frame(y)' = ret /\ addr_to_frame(y) = ret
      BY <1>9 DEF addr_to_frame
    <2>2. frame_to_addr(ret)' = x
      BY DEF frame_to_addr
    <2>3. ret \in Frames'
      BY DEF Frames
    <2>4. Sits(y, k)'
      BY <1>1, <1>8, <2>1, <2>2, <2>3 DEF Sits, frame_to_addr
    <2> QED
      BY <1>12, <1>13, <2>1, <2>4 DEF NoRunHas
  <1>15. ASSUME NEW m \in DOMAIN Classes, NEW y \in Addrs(m)'
         PROVE  y \in Addrs(m) \/ (m = k /\ y \in N)
    <2>1. CASE m = k
      <3>1. CASE \E d \in OfClass(k)' : y = d.addr
        BY <1>6, <1>7, <2>1, <3>1 DEF Addrs, N
      <3>2. CASE \E i \in DOMAIN caches'[k] : y = caches'[k][i]
        <4>1. PICK i \in DOMAIN t : y = t[i]
          BY <1>4, <3>2
        <4> QED
          BY <1>1, <1>5, <2>1, <4>1 DEF Addrs, N
      <3> QED
        BY <2>1, <3>1, <3>2 DEF Addrs
    <2>2. CASE m # k
      BY <1>4, <1>6, <2>2 DEF Addrs
    <2> QED
      BY <2>1, <2>2
  <1>16. SlabsSit' /\ SlabsOneClass'
    <2>1. /\ \A f \in Frames \ F : owners'[f] = owners[f]
          /\ \A m \in DOMAIN Classes : \A y \in Addrs(m) : addr_to_frame(y) \notin F
      BY <1>10
    <2> HIDE DEF F
    <2> QED
      BY <1>12, <1>14, <1>15, <2>1, SlabsKept DEF SlabInv
  <1>17. AddrsOnce'
    <2> SUFFICES ASSUME NEW m \in DOMAIN Classes
                 PROVE  /\ \A d, e \in OfClass(m)' : d.addr = e.addr => d = e
                        /\ \A i, j \in DOMAIN caches'[m] : caches'[m][i] = caches'[m][j] => i = j
                        /\ \A d \in OfClass(m)', i \in DOMAIN caches'[m] : caches'[m][i] # d.addr
      BY DEF AddrsOnce
    <2>1. CASE m = k
      <3>1. /\ \A d, e \in OfClass(k) : d.addr = e.addr => d = e
            /\ \A i, j \in DOMAIN u : u[i] = u[j] => i = j
            /\ \A d \in OfClass(k), i \in DOMAIN u : u[i] # d.addr
        BY <1>1 DEF SlabInv, AddrsOnce
      <3>2. /\ \A d \in OfClass(k) : d.addr \notin N
            /\ \A i \in DOMAIN u : u[i] \notin N
            /\ x \in N /\ \A i \in DOMAIN s : s[i] \in N
        BY <1>1, <1>11, ZenonT(40) DEF Addrs, N
      <3>3. \A d, e \in OfClass(k) \cup {b} : d.addr = e.addr => d = e
        BY <1>7, <3>1, <3>2
      <3>4. ASSUME NEW i \in DOMAIN s, NEW j \in DOMAIN s, s[i] = s[j] PROVE i = j
        <4>1. i \in Nat /\ j \in Nat /\ SitsAt(s[i], x, i, size) /\ SitsAt(s[j], x, j, size)
          BY <1>3, FrameAssumption
        <4> QED
          BY <1>2, <3>4, <4>1, SitsOnce
      <3>5. ASSUME NEW i \in DOMAIN s PROVE s[i] # x
        <4>1. i \in Nat \ {0} /\ SitsAt(s[i], x, i, size)
          BY <1>3, FrameAssumption
        <4> QED
          BY <1>2, <4>1, SitsOff
      <3>6. \A i, j \in DOMAIN t : t[i] = t[j] => i = j
        <4> SUFFICES ASSUME NEW i \in DOMAIN t, NEW j \in DOMAIN t, t[i] = t[j]
                     PROVE  i = j
          OBVIOUS
        <4>1. i \in Nat /\ j \in Nat /\ Len(s) \in Nat
          BY <1>3, <1>4
        <4>2. CASE i \in DOMAIN s /\ t[i] = s[i]
          <5>1. j \in DOMAIN s /\ t[j] = s[j]
            BY <1>5, <3>2, <4>2
          <5> QED
            BY <3>4, <4>2, <5>1
        <4>3. CASE i - Len(s) \in DOMAIN u /\ t[i] = u[i - Len(s)]
          <5>1. j - Len(s) \in DOMAIN u /\ t[j] = u[j - Len(s)]
            BY <1>5, <3>2, <4>3
          <5>2. i - Len(s) = j - Len(s)
            BY <3>1, <4>3, <5>1
          <5> QED
            BY <4>1, <5>2
        <4> QED
          BY <1>5, <4>2, <4>3
      <3>7. \A d \in OfClass(k) \cup {b}, i \in DOMAIN t : t[i] # d.addr
        BY <1>5, <1>7, <3>1, <3>2, <3>5
      <3>8. OfClass(m)' = OfClass(k) \cup {b} /\ caches'[m] = t
        BY <1>4, <1>6, <2>1
      <3>9. \A d, e \in OfClass(m)' : d.addr = e.addr => d = e
        BY <3>3, <3>8
      <3>10. \A i, j \in DOMAIN caches'[m] : caches'[m][i] = caches'[m][j] => i = j
        BY <3>6, <3>8
      <3>11. \A d \in OfClass(m)', i \in DOMAIN caches'[m] : caches'[m][i] # d.addr
        BY <3>7, <3>8
      <3> QED
        BY <3>9, <3>10, <3>11
    <2>2. CASE m # k
      BY <1>4, <1>6, <2>2 DEF SlabInv, AddrsOnce
    <2> QED
      BY <2>1, <2>2
  <1> QED
    BY <1>6, <1>16, <1>17 DEF SlabInv

\* A run is given up: the frames of a slab are not among its frames.
LEMMA RunFreedSlabs ==
  ASSUME FrameInv, SlabInv, ~Preemptible, NEW c \in Callers, NEW first, NEW n, Held(first, n),
         free_frames_of(c, first, n), UNCHANGED caches, live' \subseteq live, pages' \subseteq pages,
         \A g : NoRunHas(g) => g \notin Span(first, n)
  PROVE  SlabInv'
  <1> DEFINE F == Span(first, n)
  <1>1. /\ \A f \in Frames \ F : owners'[f] = owners[f]
        /\ UNCHANGED <<mem_base, total_frames>>
    BY FreeKeeps
  <1>2. \A g : NoRunHas(g) => NoRunHas(g)'
    BY <1>1 DEF NoRunHas, LargeBlocks, FramesOf, FirstFrame, addr_to_frame
  <1>3. \A k \in DOMAIN Classes : \A x \in Addrs(k) : addr_to_frame(x) \notin F
    BY DEF SlabInv, SlabsSit
  <1> HIDE DEF F
  <1> QED
    BY <1>1, <1>2, <1>3, SlabInvKept

LEMMA ReturnedSlabs ==
  ASSUME FrameInv, HoldInv, SlabInv, ~Preemptible, NEW c \in Callers, Returned(c)
  PROVE  SlabInv'
  <1>1. PICK a, q, ret, n : a = call[c] /\ q = request[c] /\ ret = a.ret /\ n = a.n
    OBVIOUS
  <1>2. /\ n \in 1 .. MaxRun
        /\ ret = None => UNCHANGED owners
        /\ ret # None =>
             /\ ret \in Nat
             /\ \A f \in Span(ret, n) : f \in Frames /\ owners[f] = 0 /\ owners'[f] = 1
             /\ \A f \in Frames \ Span(ret, n) : owners'[f] = owners[f]
        /\ UNCHANGED <<mem_base, total_frames>> /\ mem_base \in Nat /\ total_frames \in Nat
    BY <1>1, ReceiveKeeps DEF Returned, FrameInv, FrameTypeOK
  <1>3. q \in Requests /\ RequestSound(q, a)
    BY <1>1 DEF Returned, Receive, HoldInv, RequestsSound
  <1>4. q.size \in Nat /\ q.align \in Nat \ {0} /\ SizeOf(q) \in Nat
    BY <1>3, SizesPositive DEF Requests
  <1>5. CASE ret = None
    <2>1. UNCHANGED <<caches, live, pages>>
      BY <1>1, <1>5 DEF Returned
    <2> QED
      BY <1>2, <1>5, <2>1, SlabSame
  <1>6. CASE ret # None
    <2>1. PICK F, x : F = Span(ret, n) /\ x = frame_to_addr(ret)
      OBVIOUS
    <2>2. /\ ret \in Nat /\ \A f \in F : f \in Frames /\ owners[f] = 0 /\ owners'[f] = 1
          /\ \A f \in Frames \ F : owners'[f] = owners[f]
      BY <1>2, <1>6, <2>1
    <2>3. \A k \in DOMAIN Classes : \A y \in Addrs(k) : addr_to_frame(y) \notin F
      BY <2>2 DEF SlabInv, SlabsSit, Sits
    <2>4. \A b : FramesOf(b)' = FramesOf(b)
      BY <1>2 DEF FramesOf, FirstFrame, addr_to_frame
    <2>5. \/ /\ q.kind = "pages"
             /\ pages' = pages \cup {[first |-> ret, n |-> n]}
             /\ UNCHANGED <<caches, live>>
          \/ /\ q.kind = "grow"
             /\ \E k \in DOMAIN Classes :
                  /\ IsClass(SizeOf(q), k)
                  /\ caches' = [caches EXCEPT ![k] = Tail(Carved(x, Classes[k])) \o @]
             /\ live' = live \cup {Block(x, q)}
             /\ UNCHANGED pages
          \/ /\ q.kind = "large"
             /\ live' = live \cup {Block(x, q)}
             /\ UNCHANGED <<caches, pages>>
      BY <1>1, <1>6, <2>1 DEF Returned, Allocated
    <2>6. CASE /\ q.kind = "pages"
               /\ pages' = pages \cup {[first |-> ret, n |-> n]}
               /\ UNCHANGED <<caches, live>>
      <3>1. \A g \in Frames \ F : NoRunHas(g) => NoRunHas(g)'
        <4>1. PICK p : p = [first |-> ret, n |-> n]
          OBVIOUS
        <4>2. pages' = pages \cup {p} /\ Span(p.first, p.n) = F /\ LargeBlocks' = LargeBlocks
          BY <2>1, <2>6, <4>1 DEF LargeBlocks
        <4> QED
          BY <2>4, <4>2 DEF NoRunHas
      <3> QED
        BY <1>2, <2>2, <2>3, <2>6, <3>1, SlabInvKept
    <2>7. CASE /\ q.kind = "grow"
               /\ \E k \in DOMAIN Classes :
                    /\ IsClass(SizeOf(q), k)
                    /\ caches' = [caches EXCEPT ![k] = Tail(Carved(x, Classes[k])) \o @]
               /\ live' = live \cup {Block(x, q)}
               /\ UNCHANGED pages
      <3>1. n = 1
        BY <1>1, <1>3, <2>7 DEF RequestSound
      <3>2. F = {ret}
        BY <2>1, <2>2, <3>1 DEF Span
      <3>3. /\ ret \in Frames /\ owners[ret] = 0 /\ owners'[ret] = 1
            /\ \A f \in Frames \ {ret} : owners'[f] = owners[f]
        BY <2>2, <3>2
      <3>4. PICK k \in DOMAIN Classes :
               /\ IsClass(SizeOf(q), k)
               /\ caches' = [caches EXCEPT ![k] = Tail(Carved(x, Classes[k])) \o @]
        BY <2>7
      <3> QED
        BY <1>2, <1>4, <2>1, <2>7, <3>3, <3>4, GrowSlabs
    <2>8. CASE /\ q.kind = "large"
               /\ live' = live \cup {Block(x, q)}
               /\ UNCHANGED <<caches, pages>>
      <3>1. PICK b : b = Block(x, q)
        OBVIOUS
      <3>2. b.addr = x /\ SizeOf(b) = SizeOf(q) /\ live' = live \cup {b}
        BY <2>8, <3>1, BlockSize
      <3>3. IsLarge(SizeOf(b)) /\ PagesFor(SizeOf(b)) = n /\ SizeOf(b) \in Nat
        BY <1>1, <1>3, <1>4, <2>8, <3>2 DEF RequestSound
      <3>4. FramesOf(b) = F /\ LargeBlocks' = LargeBlocks \cup {b}
        <4>1. addr_to_frame(x) = ret
          BY <1>2, <2>1, <2>2, FrameOfAddr
        <4> QED
          BY <2>1, <3>2, <3>3, <4>1 DEF FramesOf, FirstFrame, LargeBlocks
      <3>5. \A g \in Frames \ F : NoRunHas(g) => NoRunHas(g)'
        BY <2>4, <2>8, <3>4 DEF NoRunHas
      <3>6. \A d \in live' : d \in live \/ (IsLarge(SizeOf(d)) /\ SizeOf(d) \in Nat)
        BY <3>2, <3>3
      <3> QED
        BY <1>2, <2>2, <2>3, <2>8, <3>5, <3>6, SlabInvKept
    <2> QED
      BY <2>5, <2>6, <2>7, <2>8
  <1> QED
    BY <1>5, <1>6

LEMMA NextSlabs ==
  ASSUME FrameInv, HoldInv, SlabInv, ~Preemptible, [Next]_vars
  PROVE  SlabInv'
  <1>1. CASE Next
    <2>1. PICK c \in Callers :
             \/ \E n \in 1 .. MaxRun : alloc_pages(c, n)
             \/ \E r \in pages : free_pages(c, r)
             \/ \E l \in Layouts : slab_alloc(c, l) \/ slab_alloc_pages(c, l)
             \/ \E b \in live : dealloc(c, b)
             \/ Returned(c)
             \/ FrameStep(c) /\ UNCHANGED heapVars
      BY <1>1 DEF Next
    <2>2. CASE \E n \in 1 .. MaxRun : alloc_pages(c, n)
      <3>1. UNCHANGED <<mem_base, total_frames, owners, caches, live, pages>>
        BY <2>2 DEF alloc_pages, alloc_frames
      <3> QED
        BY <3>1, SlabSame
    <2>3. ASSUME NEW r \in pages, free_pages(c, r) PROVE SlabInv'
      <3>1. PICK first, n : first = r.first /\ n = r.n
        OBVIOUS
      <3>2. Held(first, n) /\ first \in Nat /\ mem_base \in Nat
        BY <3>1 DEF HoldInv, RunsHeld, FrameInv, FrameTypeOK
      <3>3. /\ free_frames_of(c, first, n) /\ pages' \subseteq pages /\ live' \subseteq live
            /\ UNCHANGED caches
        BY <2>3, <3>1, <3>2, FrameOfAddr DEF free_pages
      <3>4. \A g : NoRunHas(g) => g \notin Span(first, n)
        BY <3>1 DEF NoRunHas
      <3> QED
        BY <3>2, <3>3, <3>4, RunFreedSlabs
    <2>4. CASE \E l \in Layouts : slab_alloc(c, l)
      BY <2>4, SlabAllocSlabs
    <2>5. CASE \E l \in Layouts : slab_alloc_pages(c, l)
      <3>1. UNCHANGED <<mem_base, total_frames, owners, caches, live, pages>>
        BY <2>5 DEF slab_alloc_pages, alloc_frames
      <3> QED
        BY <3>1, SlabSame
    <2>6. ASSUME NEW b \in live, dealloc(c, b) PROVE SlabInv'
      <3>1. live' = live \ {b} /\ UNCHANGED pages
        BY <2>6 DEF dealloc
      <3>2. CASE /\ \E k \in DOMAIN Classes :
                      /\ IsClass(SizeOf(b), k)
                      /\ caches' = [caches EXCEPT ![k] = <<b.addr>> \o @]
                 /\ UNCHANGED frameVars
        BY <3>1, <3>2, SmallDeallocSlabs DEF frameVars
      <3>3. CASE /\ IsLarge(SizeOf(b))
                 /\ free_frames_of(c, addr_to_frame(b.addr), PagesFor(SizeOf(b)))
                 /\ UNCHANGED caches
        <4>1. PICK first, n : first = FirstFrame(b) /\ n = PagesFor(SizeOf(b))
          OBVIOUS
        <4>2. Held(first, n) /\ free_frames_of(c, first, n) /\ b \in LargeBlocks
          BY <3>3, <4>1 DEF HoldInv, RunsHeld, LargeBlocks, FirstFrame
        <4>3. \A g : NoRunHas(g) => g \notin Span(first, n)
          BY <4>1, <4>2 DEF NoRunHas, FramesOf
        <4>4. live' \subseteq live /\ pages' \subseteq pages
          BY <3>1
        <4> QED
          BY <3>3, <4>2, <4>3, <4>4, RunFreedSlabs
      <3> QED
        BY <2>6, <3>2, <3>3 DEF dealloc
    <2>7. CASE Returned(c)
      BY <2>7, ReturnedSlabs
    <2>8. CASE FrameStep(c) /\ UNCHANGED heapVars
      <3>1. UNCHANGED <<mem_base, total_frames, owners, caches, live, pages>>
        BY <2>8 DEF FrameStep, scan, mark, unmark, heapVars
      <3> QED
        BY <3>1, SlabSame
    <2> QED
      BY <2>1, <2>2, <2>3, <2>4, <2>5, <2>6, <2>7, <2>8
  <1>2. CASE UNCHANGED vars
    BY <1>2, SlabSame DEF vars, frameVars, heapVars
  <1> QED
    BY <1>1, <1>2

LEMMA InitSlabs == Init => SlabInv
  <1> SUFFICES ASSUME Init PROVE SlabInv
    OBVIOUS
  <1>1. live = {} /\ \A k \in DOMAIN Classes : caches[k] = <<>>
    BY DEF Init, HeapInit
  <1>2. \A k \in DOMAIN Classes : DOMAIN caches[k] = {} /\ OfClass(k) = {}
    BY <1>1 DEF OfClass
  <1>3. \A k \in DOMAIN Classes : Addrs(k) = {}
    BY <1>2 DEF Addrs
  <1> QED
    BY <1>1, <1>2, <1>3 DEF SlabInv, SlabsSit, SlabsOneClass, AddrsOnce, ClassKnown

-----------------------------------------------------------------------------
(***************************************************************************)
(* The theorems                                                            *)
(***************************************************************************)
\* Blocks that are live and blocks on the free lists of slab.rs never share a
\* byte, and every byte of them lies in a frame that the heap owns: for every
\* set of classes, layouts and callers, whatever was allocated, refilled and
\* freed before, while a call runs with interrupts disabled.
THEOREM BlocksAreDisjoint ==
  ASSUME ~Preemptible PROVE Spec => []BlocksDisjoint
  <1>1. (FrameInv /\ HoldInv /\ SlabInv) /\ [Next]_vars => (FrameInv /\ HoldInv /\ SlabInv)'
    BY NextKeeps, NextSlabs
  <1> QED
    BY InitSound, InitSlabs, <1>1, InvariantDisjoint, PTL DEF Spec

-----------------------------------------------------------------------------
(***************************************************************************)
(* Alignment                                                               *)
(***************************************************************************)
\* The boot loader's usable regions begin at page boundaries.
BasesAligned ==
  /\ MinBase % PageSize = 0
  /\ \A rs \in Maps : \A i \in DOMAIN rs : rs[i].usable => rs[i].base % PageSize = 0

\* An alignment that divides a page and every class that is no smaller, as a
\* power of two up to the page size does.
Fits(x) ==
  /\ PageSize % x.align = 0
  /\ \A k \in DOMAIN Classes : Classes[k] >= x.align => Classes[k] % x.align = 0

AlignInv ==
  /\ mem_base % PageSize = 0
  /\ \A b \in live : Fits(b)
  /\ \A c \in Callers : Fits(request[c])

LEMMA ModZero ==
  ASSUME NEW x \in Nat, NEW a \in Nat \ {0}, x % a = 0
  PROVE  x \div a \in Nat /\ x = (x \div a) * a
  OBVIOUS

LEMMA MultipleMod ==
  ASSUME NEW m \in Nat, NEW a \in Nat \ {0}
  PROVE  (m * a) % a = 0
  OBVIOUS

LEMMA AlignedSum ==
  ASSUME NEW x \in Nat, NEW y \in Nat, NEW a \in Nat \ {0}, x % a = 0, y % a = 0
  PROVE  (x + y) % a = 0
  <1>1. PICK p \in Nat : x = p * a
    BY ModZero
  <1>2. PICK q \in Nat : y = q * a
    BY ModZero
  <1>3. x + y = (p + q) * a
    BY <1>1, <1>2
  <1>4. ((p + q) * a) % a = 0
    <2>1. PICK m \in Nat : m = p + q
      OBVIOUS
    <2> QED
      BY <2>1, MultipleMod
  <1> QED
    BY <1>3, <1>4

LEMMA AlignedProduct ==
  ASSUME NEW g \in Nat, NEW x \in Nat, NEW a \in Nat \ {0}, x % a = 0
  PROVE  (g * x) % a = 0
  <1>1. PICK p \in Nat : x = p * a
    BY ModZero
  <1>2. PICK m \in Nat : m = g * p
    BY ProductNat
  <1>3. g * x = m * a
    BY <1>1, <1>2
  <1> QED
    BY <1>3, MultipleMod

LEMMA ModOne ==
  ASSUME NEW x \in Nat
  PROVE  x % 1 = 0
  OBVIOUS

LEMMA NoRequestFits == Fits(NoRequest) /\ Fits([NoRequest EXCEPT !.kind = "pages"])
  <1>1. PageSize % 1 = 0 /\ \A k \in DOMAIN Classes : Classes[k] % 1 = 0
    <2>1. PageSize \in Nat /\ \A k \in DOMAIN Classes : Classes[k] \in Nat
      BY FrameAssumption, ClassTyped
    <2> QED
      BY <2>1, ModOne
  <1>2. NoRequest.align = 1 /\ [NoRequest EXCEPT !.kind = "pages"].align = 1
    BY DEF NoRequest
  <1> QED
    BY <1>1, <1>2 DEF Fits

LEMMA InvariantAligned == FrameInv /\ HoldInv /\ SlabInv /\ AlignInv => BlocksAligned
  <1> SUFFICES ASSUME FrameInv, HoldInv, SlabInv, AlignInv, NEW b \in live
               PROVE  b.addr % b.align = 0
    BY DEF BlocksAligned
  <1>1. PICK a, x : a = b.align /\ x = b.addr
    OBVIOUS
  <1>2. /\ a \in Nat \ {0} /\ x \in Nat /\ PageSize \in Nat \ {0} /\ mem_base \in Nat
        /\ PageSize % a = 0 /\ mem_base % PageSize = 0 /\ b.size \in Nat
    BY <1>1, FrameAssumption DEF HoldInv, RunsHeld, Blocks, FrameInv, FrameTypeOK, AlignInv, Fits
  <1>3. mem_base % a = 0
    <2>1. PICK p \in Nat : mem_base = p * PageSize
      BY <1>2, ModZero
    <2>2. (p * PageSize) % a = 0
      BY <1>2, AlignedProduct
    <2> QED
      BY <2>1, <2>2
  <1>4. \A g \in Nat : frame_to_addr(g) \in Nat /\ frame_to_addr(g) % a = 0
    <2> SUFFICES ASSUME NEW g \in Nat PROVE frame_to_addr(g) \in Nat /\ frame_to_addr(g) % a = 0
      OBVIOUS
    <2>1. PICK y : y = g * PageSize
      OBVIOUS
    <2>2. y \in Nat /\ y % a = 0
      BY <1>2, <2>1, ProductNat, AlignedProduct
    <2>3. (mem_base + y) % a = 0
      BY <1>2, <1>3, <2>2, AlignedSum
    <2> QED
      BY <1>2, <2>1, <2>2, <2>3 DEF frame_to_addr
  <1>5. CASE IsLarge(SizeOf(b))
    <2>1. PICK g \in Nat : b.addr = frame_to_addr(g)
      BY <1>5 DEF HoldInv, RunsHeld, LargeBlocks, Held
    <2> QED
      BY <1>1, <1>4, <2>1
  <1>6. CASE ~IsLarge(SizeOf(b))
    <2>1. PICK k \in DOMAIN Classes : b \in OfClass(k) /\ b.addr \in Addrs(k)
      BY <1>6, SmallExtent
    <2>2. PICK g \in Nat, j \in Nat : SitsAt(x, frame_to_addr(g), j, Classes[k])
      BY <1>1, <2>1, PieceOf
    <2>3. Classes[k] \in Nat /\ Classes[k] >= SizeOf(b) /\ SizeOf(b) >= a
      <3>1. Classes[k] \in Nat /\ Classes[1] \in Nat
        BY ClassTyped, HeapAssumption, FrameAssumption
      <3>2. SizeOf(b) >= a
        BY <1>1, <1>2, <3>1 DEF SizeOf
      <3> QED
        BY <2>1, <3>1, <3>2 DEF OfClass, IsClass
    <2>4. SizeOf(b) \in Nat
      BY <1>1, <1>2, SizesPositive
    <2>5. Classes[k] % a = 0
      BY <1>1, <1>2, <2>3, <2>4 DEF AlignInv, Fits
    <2>6. PICK base, size, y : base = frame_to_addr(g) /\ size = Classes[k] /\ y = j * Classes[k]
      OBVIOUS
    <2>7. y \in Nat /\ y % a = 0
      BY <1>2, <2>3, <2>5, <2>6, ProductNat, AlignedProduct
    <2>8. (base + y) % a = 0
      BY <1>2, <1>4, <2>6, <2>7, AlignedSum
    <2> QED
      BY <1>1, <2>2, <2>6, <2>8 DEF SitsAt
  <1> QED
    BY <1>5, <1>6

LEMMA InitAligned == BasesAligned /\ Init => AlignInv
  <1> SUFFICES ASSUME BasesAligned, Init PROVE AlignInv
    OBVIOUS
  <1>1. PICK rs \in Maps : InitFromMap(rs)
    BY DEF Init, FrameInit
  <1>2. PICK i \in DOMAIN rs : mem_base = TrimmedBase(rs[i]) /\ rs[i].usable
    BY <1>1 DEF InitFromMap, IsLargestUsable, Candidates
  <1>3. mem_base % PageSize = 0
    BY <1>2 DEF TrimmedBase, BasesAligned
  <1>4. live = {} /\ request = [c \in Callers |-> NoRequest]
    BY DEF Init, HeapInit
  <1> QED
    BY <1>3, <1>4, NoRequestFits DEF AlignInv

\* A request that replaces another fits, or the blocks only become fewer.
LEMMA AlignKept ==
  ASSUME AlignInv, request \in [Callers -> Requests], UNCHANGED mem_base,
         \A b \in live' : b \in live \/ Fits(b),
         \/ UNCHANGED request
         \/ \E c \in Callers : \E q : Fits(q) /\ request' = [request EXCEPT ![c] = q]
  PROVE  AlignInv'
  <1>1. mem_base' % PageSize = 0 /\ \A b \in live' : Fits(b)
    BY DEF AlignInv
  <1>2. \A c \in Callers : Fits(request'[c])
    <2>1. CASE UNCHANGED request
      BY <2>1 DEF AlignInv
    <2>2. ASSUME NEW d \in Callers, NEW q, Fits(q), request' = [request EXCEPT ![d] = q]
          PROVE  \A c \in Callers : Fits(request'[c])
      <3> SUFFICES ASSUME NEW c \in Callers PROVE Fits(request'[c])
        OBVIOUS
      <3>1. request'[c] = q \/ request'[c] = request[c]
        BY <2>2
      <3> QED
        BY <2>2, <3>1 DEF AlignInv
    <2> QED
      BY <2>1, <2>2
  <1> QED
    BY <1>1, <1>2 DEF AlignInv

LEMMA NextAligned ==
  ASSUME HoldInv, AlignInv, \A l \in Layouts : Fits(l), [Next]_vars
  PROVE  AlignInv'
  <1>1. request \in [Callers -> Requests]
    BY DEF HoldInv, RequestsSound
  <1>2. \A addr, x : Fits(x) => Fits(Block(addr, x))
    BY DEF Fits, Block
  <1>3. CASE Next
    <2>1. PICK c \in Callers :
             \/ \E n \in 1 .. MaxRun : alloc_pages(c, n)
             \/ \E r \in pages : free_pages(c, r)
             \/ \E l \in Layouts : slab_alloc(c, l) \/ slab_alloc_pages(c, l)
             \/ \E b \in live : dealloc(c, b)
             \/ Returned(c)
             \/ FrameStep(c) /\ UNCHANGED heapVars
      BY <1>3 DEF Next
    <2>2. CASE \E n \in 1 .. MaxRun : alloc_pages(c, n)
      <3>1. /\ UNCHANGED <<mem_base, live>>
            /\ request' = [request EXCEPT ![c] = [NoRequest EXCEPT !.kind = "pages"]]
        BY <2>2 DEF alloc_pages, alloc_frames
      <3> QED
        BY <1>1, <3>1, NoRequestFits, AlignKept
    <2>3. CASE \E r \in pages : free_pages(c, r)
      <3>1. UNCHANGED <<mem_base, live, request>>
        BY <2>3 DEF free_pages, free_frames_of
      <3> QED
        BY <1>1, <3>1, AlignKept
    <2>4. ASSUME NEW l \in Layouts, slab_alloc(c, l) PROVE AlignInv'
      <3>1. UNCHANGED <<mem_base, request>> /\ \E addr : live' = live \cup {Block(addr, l)}
        BY <2>4 DEF slab_alloc, Allocated, frameVars
      <3>2. \A b \in live' : b \in live \/ Fits(b)
        BY <1>2, <3>1
      <3> QED
        BY <1>1, <3>1, <3>2, AlignKept
    <2>5. ASSUME NEW l \in Layouts, slab_alloc_pages(c, l) PROVE AlignInv'
      <3>1. UNCHANGED <<mem_base, live>>
        BY <2>5 DEF slab_alloc_pages, alloc_frames
      <3>2. PICK q : /\ request' = [request EXCEPT ![c] = q]
                     /\ \/ q = [kind |-> "grow", size |-> l.size, align |-> l.align]
                        \/ q = [kind |-> "large", size |-> l.size, align |-> l.align]
        BY <2>5 DEF slab_alloc_pages
      <3>3. q.align = l.align
        BY <3>2
      <3>4. Fits(q)
        BY <3>3 DEF Fits
      <3> QED
        BY <1>1, <3>1, <3>2, <3>4, AlignKept
    <2>6. ASSUME NEW b \in live, dealloc(c, b) PROVE AlignInv'
      <3>1. UNCHANGED <<mem_base, request>> /\ live' \subseteq live
        BY <2>6 DEF dealloc, free_frames_of, frameVars
      <3> QED
        BY <1>1, <3>1, AlignKept
    <2>7. CASE Returned(c)
      <3>1. UNCHANGED mem_base /\ request' = [request EXCEPT ![c] = NoRequest]
        BY <2>7 DEF Returned, Receive
      <3>2. live' = live \/ \E addr : live' = live \cup {Block(addr, request[c])}
        BY <2>7 DEF Returned, Allocated
      <3>3. \A b \in live' : b \in live \/ Fits(b)
        BY <1>2, <3>2 DEF AlignInv
      <3> QED
        BY <1>1, <3>1, <3>3, NoRequestFits, AlignKept
    <2>8. CASE FrameStep(c) /\ UNCHANGED heapVars
      <3>1. UNCHANGED <<mem_base, live, request>>
        BY <2>8 DEF FrameStep, scan, mark, unmark, heapVars
      <3> QED
        BY <1>1, <3>1, AlignKept
    <2> QED
      BY <2>1, <2>2, <2>3, <2>4, <2>5, <2>6, <2>7, <2>8
  <1>4. CASE UNCHANGED vars
    BY <1>1, <1>4, AlignKept DEF vars, frameVars, heapVars
  <1> QED
    BY <1>3, <1>4

\* Every live block has the alignment of its layout, which KernelHeap and
\* slab.rs meet only by asking for a larger class, when the usable regions begin at
\* page boundaries and the alignments divide the page and the larger classes,
\* as powers of two up to the page size do.
THEOREM BlocksAreAligned ==
  ASSUME ~Preemptible, BasesAligned, \A l \in Layouts : Fits(l)
  PROVE  Spec => []BlocksAligned
  <1>1. /\ FrameInv /\ HoldInv /\ SlabInv /\ AlignInv
        /\ [Next]_vars
        => (FrameInv /\ HoldInv /\ SlabInv /\ AlignInv)'
    BY NextKeeps, NextSlabs, NextAligned
  <1>2. Init => AlignInv
    BY InitAligned
  <1> QED
    BY InitSound, InitSlabs, <1>1, <1>2, InvariantAligned, PTL DEF Spec

-----------------------------------------------------------------------------
(***************************************************************************)
(* The counters.  The bytes of a finite set of blocks do not depend on the *)
(* order in which they are added up.                                       *)
(***************************************************************************)
\* Every non-empty set of natural numbers has a least element.
LEMMA LeastNat ==
  ASSUME NEW S \in SUBSET Nat, S # {}
  PROVE  \E m \in S : \A n \in S : m <= n
  <1>1. PICK m \in S : \A n \in S : ~(<<n, m>> \in OpToRel(<, Nat))
    BY NatLessThanWellFounded, WFMin
  <1>2. \A n \in S : ~(n < m)
    BY <1>1 DEF OpToRel
  <1> QED
    BY <1>2

\* What holds at 0 and is passed on from each number to the next holds for all.
LEMMA CountUp ==
  ASSUME NEW T, 0 \in T, \A k \in Nat : k \in T => k + 1 \in T
  PROVE  \A k \in Nat : k \in T
  <1> DEFINE S == {k \in Nat : k \notin T}
  <1> SUFFICES ASSUME S # {} PROVE FALSE
    OBVIOUS
  <1>1. PICK m \in S : \A k \in S : m <= k
    <2>1. S \in SUBSET Nat
      OBVIOUS
    <2> HIDE DEF S
    <2> QED
      BY <2>1, LeastNat
  <1>2. m \in Nat \ {0} /\ m - 1 \in Nat /\ m - 1 \notin S
    BY <1>1
  <1> QED
    BY <1>1, <1>2

Bytes(S) == MapThenSumSet(CountedSize, S)

Pick(s) == CHOOSE x \in s : TRUE

\* f adds up the blocks of every subset of S, each time beginning with one.
AddsUp(f, S) ==
  /\ f \in [SUBSET S -> Nat] /\ f[{}] = 0
  /\ \A s \in SUBSET S : s # {} => Pick(s) \in s /\ f[s] = CountedSize(Pick(s)) + f[s \ {Pick(s)}]

LEMMA CountedNat ==
  ASSUME NEW b \in Blocks PROVE CountedSize(b) \in Nat
  BY DEF Blocks, CountedSize

LEMMA PickIn == ASSUME NEW s, s # {} PROVE Pick(s) \in s
  BY DEF Pick

LEMMA OneLess ==
  ASSUME NEW s, IsFiniteSet(s), NEW x \in s
  PROVE  /\ IsFiniteSet(s \ {x}) /\ Cardinality(s \ {x}) = Cardinality(s) - 1
         /\ Cardinality(s) \in Nat \ {0} /\ Cardinality(s) - 1 \in Nat
  <1>1. Cardinality(s) \in Nat /\ Cardinality(s) # 0
    BY FS_CardinalityType, FS_EmptySet
  <1> QED
    BY <1>1, FS_RemoveElement

\* The function that MapThenSumSet is defined by.
LEMMA BytesAdded ==
  ASSUME NEW S \in SUBSET Blocks, IsFiniteSet(S)
  PROVE  \E f : AddsUp(f, S) /\ Bytes(S) = f[S]
  <1> DEFINE Val(f, s) == IF s = {} THEN 0 ELSE CountedSize(Pick(s)) + f[s \ {Pick(s)}]
             Eq(f) == f = [s \in SUBSET S |-> Val(f, s)]
             Dom(n) == {s \in SUBSET S : Cardinality(s) <= n}
             Upto(f, n) == f = [s \in Dom(n) |-> Val(f, s)]
             T == {n \in Nat : \E f : Upto(f, n)}
             G == CHOOSE f : Eq(f)
  <1>1. Bytes(S) = G[S]
    BY DEF Bytes, MapThenSumSet, MapThenFoldSet, Pick
  <1>2. \A s \in SUBSET S : IsFiniteSet(s) /\ Cardinality(s) \in Nat /\ Cardinality(s) <= Cardinality(S)
    BY FS_Subset, FS_CardinalityType
  <1>3. ASSUME NEW s \in SUBSET S, s # {}
        PROVE  /\ Pick(s) \in s /\ s \ {Pick(s)} \in SUBSET S /\ CountedSize(Pick(s)) \in Nat
               /\ Cardinality(s \ {Pick(s)}) = Cardinality(s) - 1
    <2>1. Pick(s) \in s
      BY <1>3, PickIn
    <2>2. CountedSize(Pick(s)) \in Nat
      BY <2>1, CountedNat
    <2> QED
      BY <1>2, <2>1, <2>2, OneLess
  <1>4. 0 \in T
    <2>1. \A s \in Dom(0) : s = {}
      BY <1>2, FS_EmptySet
    <2>2. Upto([s \in Dom(0) |-> 0], 0)
      BY <2>1
    <2> HIDE DEF Upto
    <2> QED
      BY <2>2
  <1>5. ASSUME NEW n \in Nat, n \in T PROVE n + 1 \in T
    <2>1. PICK g : Upto(g, n)
      BY <1>5
    <2> DEFINE h == [s \in Dom(n + 1) |-> IF s \in Dom(n) THEN g[s] ELSE CountedSize(Pick(s)) + g[s \ {Pick(s)}]]
    <2>2. ASSUME NEW s \in Dom(n + 1) PROVE h[s] = Val(h, s)
      <3>1. CASE s = {}
        <4>1. s \in Dom(n)
          BY <3>1, FS_EmptySet
        <4> QED
          BY <2>1, <3>1, <4>1
      <3>2. CASE s # {}
        <4>1. PICK x, r : x = Pick(s) /\ r = s \ {Pick(s)}
          OBVIOUS
        <4>2. /\ r \in SUBSET S /\ CountedSize(x) \in Nat /\ Cardinality(r) = Cardinality(s) - 1
              /\ Cardinality(s) \in Nat
          BY <1>2, <1>3, <3>2, <4>1
        <4>3. r \in Dom(n) /\ r \in Dom(n + 1)
          BY <4>2
        <4>4. h[r] = g[r]
          BY <2>1, <4>3
        <4>5. CASE s \in Dom(n)
          <5>1. h[s] = g[s] /\ g[s] = CountedSize(x) + g[r]
            BY <2>1, <3>2, <4>1, <4>5
          <5> HIDE DEF h
          <5> QED
            BY <3>2, <4>1, <4>2, <4>4, <5>1
        <4>6. CASE s \notin Dom(n)
          <5>1. h[s] = CountedSize(x) + g[r]
            BY <4>1, <4>6
          <5> HIDE DEF h
          <5> QED
            BY <3>2, <4>1, <4>2, <4>4, <5>1
        <4> QED
          BY <4>5, <4>6
      <3> QED
        BY <3>1, <3>2
    <2>3. Upto(h, n + 1)
      <3>1. h = [s \in Dom(n + 1) |-> h[s]]
        OBVIOUS
      <3> HIDE DEF h, Val, Dom
      <3> QED
        BY <2>2, <3>1
    <2> HIDE DEF Upto, h
    <2> QED
      BY <2>3
  <1>6. Cardinality(S) \in T
    <2> HIDE DEF T
    <2> QED
      BY <1>2, <1>4, <1>5, CountUp
  <1>7. PICK g : Upto(g, Cardinality(S))
    BY <1>6
  <1>8. Dom(Cardinality(S)) = SUBSET S
    BY <1>2
  <1>9. Eq(g)
    <2>1. g = [s \in SUBSET S |-> g[s]]
      BY <1>7, <1>8
    <2> HIDE DEF Val
    <2> QED
      BY <1>7, <1>8, <2>1
  <1>10. Eq(G)
    <2> HIDE DEF Eq
    <2> QED
      BY <1>9
  <1> HIDE DEF G
  <1> DEFINE U == {n \in Nat : \A s \in SUBSET S : Cardinality(s) <= n => G[s] \in Nat}
  <1>11. G = [s \in SUBSET S |-> G[s]]
    <2> HIDE DEF Val
    <2> QED
      BY <1>10
  <1>12. \A s \in SUBSET S : G[s] = Val(G, s)
    <2> HIDE DEF Val
    <2> QED
      BY <1>10
  <1>13. G[{}] = 0
    <2>1. {} \in SUBSET S /\ Val(G, {}) = 0
      OBVIOUS
    <2> HIDE DEF Val
    <2> QED
      BY <1>12, <2>1
  <1>14. ASSUME NEW s \in SUBSET S, s # {} PROVE G[s] = CountedSize(Pick(s)) + G[s \ {Pick(s)}]
    <2>1. Val(G, s) = CountedSize(Pick(s)) + G[s \ {Pick(s)}]
      BY <1>14
    <2> HIDE DEF Val
    <2> QED
      BY <1>12, <2>1
  <1>15. 0 \in U
    <2>1. \A s \in SUBSET S : Cardinality(s) <= 0 => s = {}
      BY <1>2, FS_EmptySet
    <2> QED
      BY <1>13, <2>1
  <1>16. ASSUME NEW n \in Nat, n \in U PROVE n + 1 \in U
    <2> SUFFICES ASSUME NEW s \in SUBSET S, Cardinality(s) <= n + 1 PROVE G[s] \in Nat
      OBVIOUS
    <2>1. CASE s = {}
      BY <1>13, <2>1
    <2>2. CASE s # {}
      <3>1. PICK x, r : x = Pick(s) /\ r = s \ {Pick(s)}
        OBVIOUS
      <3>2. r \in SUBSET S /\ CountedSize(x) \in Nat /\ Cardinality(r) = Cardinality(s) - 1
        BY <1>3, <2>2, <3>1
      <3>3. Cardinality(r) <= n
        BY <1>2, <3>2
      <3>4. G[r] \in Nat /\ G[s] = CountedSize(x) + G[r]
        BY <1>14, <1>16, <2>2, <3>1, <3>2, <3>3
      <3> QED
        BY <3>2, <3>4
    <2> QED
      BY <2>1, <2>2
  <1>17. Cardinality(S) \in U
    <2> HIDE DEF U
    <2> QED
      BY <1>2, <1>15, <1>16, CountUp
  <1>18. \A s \in SUBSET S : G[s] \in Nat
    BY <1>2, <1>17
  <1>19. AddsUp(G, S)
    <2>1. G \in [SUBSET S -> Nat]
      BY <1>11, <1>18
    <2> QED
      BY <1>3, <1>13, <1>14, <2>1 DEF AddsUp
  <1> QED
    BY <1>1, <1>19

\* Two such functions agree on the sets that both are about.
LEMMA AddsUpSame ==
  ASSUME NEW S, IsFiniteSet(S), NEW R \in SUBSET S, NEW f, NEW g, AddsUp(f, S), AddsUp(g, R)
  PROVE  f[R] = g[R]
  <1> DEFINE T == {n \in Nat : \A s \in SUBSET R : Cardinality(s) <= n => f[s] = g[s]}
  <1>1. \A s \in SUBSET R : s \in SUBSET S /\ IsFiniteSet(s) /\ Cardinality(s) \in Nat
    BY FS_Subset, FS_CardinalityType
  <1>2. 0 \in T
    <2>1. \A s \in SUBSET R : Cardinality(s) <= 0 => s = {}
      BY <1>1, FS_EmptySet
    <2> QED
      BY <2>1 DEF AddsUp
  <1>3. ASSUME NEW n \in Nat, n \in T PROVE n + 1 \in T
    <2> SUFFICES ASSUME NEW s \in SUBSET R, Cardinality(s) <= n + 1 PROVE f[s] = g[s]
      OBVIOUS
    <2>1. CASE s = {}
      BY <2>1 DEF AddsUp
    <2>2. CASE s # {}
      <3>1. PICK x, r : x = Pick(s) /\ r = s \ {Pick(s)}
        OBVIOUS
      <3>2. x \in s /\ r \in SUBSET R /\ Cardinality(r) <= n
        BY <1>1, <2>2, <3>1, PickIn, OneLess
      <3>3. f[r] = g[r]
        BY <1>3, <3>2
      <3>4. f[s] = CountedSize(x) + f[r] /\ g[s] = CountedSize(x) + g[r]
        BY <1>1, <2>2, <3>1 DEF AddsUp
      <3> QED
        BY <3>3, <3>4
    <2> QED
      BY <2>1, <2>2
  <1>4. Cardinality(R) \in T
    <2> HIDE DEF T
    <2> QED
      BY <1>1, <1>2, <1>3, CountUp
  <1> QED
    BY <1>1, <1>4

\* The one to begin with may be any of them.
LEMMA AnyFirst ==
  ASSUME NEW S \in SUBSET Blocks, IsFiniteSet(S), NEW f, AddsUp(f, S)
  PROVE  \A x \in S : f[S] = CountedSize(x) + f[S \ {x}]
  <1> DEFINE Splits(s) == \A x \in s : f[s] = CountedSize(x) + f[s \ {x}]
             T == {n \in Nat : \A s \in SUBSET S : Cardinality(s) <= n => Splits(s)}
  <1>1. \A s \in SUBSET S : IsFiniteSet(s) /\ Cardinality(s) \in Nat
    BY FS_Subset, FS_CardinalityType
  <1>2. 0 \in T
    <2>1. \A s \in SUBSET S : Cardinality(s) <= 0 => s = {}
      BY <1>1, FS_EmptySet
    <2> QED
      BY <2>1
  <1>3. ASSUME NEW n \in Nat, n \in T PROVE n + 1 \in T
    <2> SUFFICES ASSUME NEW s \in SUBSET S, Cardinality(s) <= n + 1, NEW x \in s
                 PROVE  f[s] = CountedSize(x) + f[s \ {x}]
      OBVIOUS
    <2>1. PICK y, r, q, p : y = Pick(s) /\ r = s \ {y} /\ q = s \ {x} /\ p = s \ {x, y}
      OBVIOUS
    <2>2. y \in s /\ f[s] = CountedSize(y) + f[r]
      BY <2>1 DEF AddsUp
    <2>3. CASE x = y
      BY <2>1, <2>2, <2>3
    <2>4. CASE x # y
      <3>1. r \in SUBSET S /\ q \in SUBSET S /\ p \in SUBSET S /\ x \in r /\ y \in q
        BY <2>1, <2>2, <2>4
      <3>2. Cardinality(r) <= n /\ Cardinality(q) <= n
        BY <1>1, <2>1, <2>2, OneLess
      <3>3. r \ {x} = p /\ q \ {y} = p
        BY <2>1
      <3>4. f[r] = CountedSize(x) + f[p] /\ f[q] = CountedSize(y) + f[p]
        BY <1>3, <3>1, <3>2, <3>3
      <3>5. f[p] \in Nat /\ CountedSize(x) \in Nat /\ CountedSize(y) \in Nat
        BY <2>2, <3>1, CountedNat DEF AddsUp
      <3> QED
        BY <2>1, <2>2, <3>4, <3>5
    <2> QED
      BY <2>3, <2>4
  <1>4. Cardinality(S) \in T
    <2> HIDE DEF T
    <2> QED
      BY <1>1, <1>2, <1>3, CountUp
  <1> QED
    BY <1>1, <1>4

LEMMA BytesSplit ==
  ASSUME NEW S \in SUBSET Blocks, IsFiniteSet(S), NEW b \in S
  PROVE  /\ Bytes(S) = CountedSize(b) + Bytes(S \ {b})
         /\ Bytes(S) \in Nat /\ Bytes(S \ {b}) \in Nat /\ CountedSize(b) \in Nat
  <1>1. PICK R : R = S \ {b}
    OBVIOUS
  <1>2. R \in SUBSET S /\ R \in SUBSET Blocks /\ IsFiniteSet(R)
    BY <1>1, FS_Subset
  <1>3. PICK f : AddsUp(f, S) /\ Bytes(S) = f[S]
    BY BytesAdded
  <1>4. PICK g : AddsUp(g, R) /\ Bytes(R) = g[R]
    BY <1>2, BytesAdded
  <1>5. f[R] = g[R] /\ f[S] = CountedSize(b) + f[R]
    BY <1>1, <1>2, <1>3, <1>4, AddsUpSame, AnyFirst
  <1>6. f[S] \in Nat /\ g[R] \in Nat /\ CountedSize(b) \in Nat
    BY <1>3, <1>4, CountedNat DEF AddsUp
  <1> QED
    BY <1>1, <1>3, <1>4, <1>5, <1>6

LEMMA BytesNone == Bytes({}) = 0
  <1>1. {} \in SUBSET Blocks /\ IsFiniteSet({})
    BY FS_EmptySet
  <1>2. PICK f : AddsUp(f, {}) /\ Bytes({}) = f[{}]
    BY <1>1, BytesAdded
  <1> QED
    BY <1>2 DEF AddsUp

\* HEAP_ALLOCS and HEAP_USED are the number of the live blocks and their bytes.
CountInv ==
  /\ IsFiniteSet(live)
  /\ heap_allocs = Cardinality(live) /\ heap_used = Bytes(live)

LEMMA CountsSame ==
  ASSUME CountInv, UNCHANGED <<live, heap_used, heap_allocs>>
  PROVE  CountInv'
  BY DEF CountInv, Bytes

\* The block that alloc hands out is one that it has not handed out yet.
LEMMA BlockCounted ==
  ASSUME CountInv, HoldInv, NEW l, l.size \in Nat, l.align \in Nat \ {0}, NEW addr \in Nat,
         Allocated(l, addr), Block(addr, l) \notin live
  PROVE  CountInv'
  <1>1. PICK b, L : b = Block(addr, l) /\ L = live \cup {b}
    OBVIOUS
  <1>2. b \in Blocks /\ CountedSize(b) = CountedSize(l)
    BY <1>1 DEF Block, Blocks, CountedSize
  <1>3. /\ L \in SUBSET Blocks /\ IsFiniteSet(L) /\ L \ {b} = live /\ b \in L
        /\ Cardinality(L) = Cardinality(live) + 1
    BY <1>1, <1>2, FS_AddElement DEF CountInv, HoldInv, RunsHeld
  <1>4. Bytes(L) = CountedSize(b) + Bytes(live) /\ Bytes(live) \in Nat /\ CountedSize(b) \in Nat
    BY <1>3, BytesSplit
  <1>5. live' = L /\ heap_used' = heap_used + CountedSize(b) /\ heap_allocs' = heap_allocs + 1
    BY <1>1, <1>2 DEF Allocated
  <1>6. heap_used' = Bytes(L)
    BY <1>4, <1>5 DEF CountInv
  <1>7. heap_allocs' = Cardinality(L)
    BY <1>3, <1>5 DEF CountInv
  <1>8. IsFiniteSet(live)' /\ Cardinality(live)' = Cardinality(L) /\ Bytes(live)' = Bytes(L)
    BY <1>3, <1>5 DEF Bytes
  <1> QED
    BY <1>6, <1>7, <1>8 DEF CountInv

\* What dealloc takes off was counted: the subtractions do not stop at zero.
LEMMA BlockDiscounted ==
  ASSUME CountInv, HoldInv, NEW b \in live, live' = live \ {b},
         heap_used' = Less(heap_used, CountedSize(b)), heap_allocs' = Less(heap_allocs, 1)
  PROVE  CountInv'
  <1>1. PICK L : L = live \ {b}
    OBVIOUS
  <1>2. live \in SUBSET Blocks
    BY DEF HoldInv, RunsHeld
  <1>3. /\ IsFiniteSet(L) /\ Cardinality(L) = Cardinality(live) - 1
        /\ Cardinality(live) \in Nat \ {0}
    BY <1>1, OneLess DEF CountInv
  <1>4. /\ Bytes(live) = CountedSize(b) + Bytes(L)
        /\ Bytes(live) \in Nat /\ Bytes(L) \in Nat /\ CountedSize(b) \in Nat
    BY <1>1, <1>2, BytesSplit DEF CountInv
  <1>5. heap_used' = Bytes(L)
    BY <1>4 DEF Less, CountInv
  <1>6. heap_allocs' = Cardinality(L)
    BY <1>3 DEF Less, CountInv
  <1>7. IsFiniteSet(live)' /\ Cardinality(live)' = Cardinality(L) /\ Bytes(live)' = Bytes(L)
    BY <1>1, <1>3 DEF Bytes
  <1> QED
    BY <1>5, <1>6, <1>7 DEF CountInv

LEMMA SlabAllocCounts ==
  ASSUME HoldInv, SlabInv, CountInv, NEW c \in Callers, NEW l \in Layouts, slab_alloc(c, l)
  PROVE  CountInv'
  <1>1. PICK k \in DOMAIN Classes :
           /\ IsClass(SizeOf(l), k) /\ caches[k] # <<>> /\ Allocated(l, Head(caches[k]))
    BY DEF slab_alloc
  <1>2. PICK b, addr : addr = Head(caches[k]) /\ b = Block(addr, l)
    OBVIOUS
  <1>3. caches[k] \in Seq(Nat)
    BY DEF HoldInv, CachesTyped
  <1>4. 1 \in DOMAIN caches[k] /\ addr = caches[k][1] /\ addr \in Nat
    BY <1>1, <1>2, <1>3
  <1>5. l.size \in Nat /\ l.align \in Nat \ {0}
    BY LayoutTyped
  <1>6. b.addr = addr /\ SizeOf(b) = SizeOf(l)
    BY <1>2, <1>5, BlockSize
  <1>7. b \notin live
    <2> SUFFICES ASSUME b \in live PROVE FALSE
      OBVIOUS
    <2>1. b \in OfClass(k)
      BY <1>1, <1>6 DEF OfClass
    <2> QED
      BY <1>4, <1>6, <2>1 DEF SlabInv, AddrsOnce
  <1> QED
    BY <1>1, <1>2, <1>4, <1>5, <1>7, BlockCounted

LEMMA ReturnedCounts ==
  ASSUME FrameInv, HoldInv, SlabInv, CountInv, ~Preemptible, NEW c \in Callers, Returned(c)
  PROVE  CountInv'
  <1>1. PICK a, q, ret, n : a = call[c] /\ q = request[c] /\ ret = a.ret /\ n = a.n
    OBVIOUS
  <1>2. CASE ret = None \/ UNCHANGED <<live, heap_used, heap_allocs>>
    <2>1. UNCHANGED <<live, heap_used, heap_allocs>>
      BY <1>1, <1>2 DEF Returned
    <2> QED
      BY <2>1, CountsSame
  <1>3. CASE ret # None /\ Allocated(q, frame_to_addr(ret))
    <2>1. /\ n \in 1 .. MaxRun /\ ret \in Nat /\ mem_base \in Nat
          /\ \A f \in Span(ret, n) : owners[f] = 0
      BY <1>1, <1>3, ReceiveKeeps DEF Returned, FrameInv, FrameTypeOK
    <2>2. ret \in Span(ret, n)
      BY <2>1 DEF Span
    <2>3. q.size \in Nat /\ q.align \in Nat \ {0}
      BY <1>1 DEF HoldInv, RequestsSound, Requests
    <2>4. PICK x, b : x = frame_to_addr(ret) /\ b = Block(x, q)
      OBVIOUS
    <2>5. addr_to_frame(x) = ret /\ x \in Nat /\ b.addr = x
      BY <2>1, <2>3, <2>4, FrameOfAddr, BlockSize
    <2>6. b \notin live
      <3> SUFFICES ASSUME b \in live PROVE FALSE
        OBVIOUS
      <3>1. CASE IsLarge(SizeOf(b))
        <4>1. Held(ret, PagesFor(SizeOf(b)))
          BY <2>5, <3>1 DEF HoldInv, RunsHeld, LargeBlocks, FirstFrame
        <4>2. ret \in Span(ret, PagesFor(SizeOf(b)))
          BY <4>1 DEF Held, Span
        <4> QED
          BY <2>1, <2>2, <4>1, <4>2 DEF Held
      <3>2. ASSUME NEW k \in DOMAIN Classes, IsClass(SizeOf(b), k) PROVE FALSE
        <4>1. x \in Addrs(k)
          BY <2>5, <3>2 DEF Addrs, OfClass
        <4>2. owners[ret] = 1
          BY <2>5, <4>1 DEF SlabInv, SlabsSit, Sits
        <4> QED
          BY <2>1, <2>2, <4>2
      <3> QED
        BY <3>1, <3>2 DEF SlabInv, ClassKnown
    <2> QED
      BY <1>3, <2>3, <2>4, <2>5, <2>6, BlockCounted
  <1> QED
    BY <1>1, <1>2, <1>3 DEF Returned

LEMMA NextCounts ==
  ASSUME FrameInv, HoldInv, SlabInv, CountInv, ~Preemptible, [Next]_vars
  PROVE  CountInv'
  <1>1. CASE Next
    <2>1. PICK c \in Callers :
             \/ \E n \in 1 .. MaxRun : alloc_pages(c, n)
             \/ \E r \in pages : free_pages(c, r)
             \/ \E l \in Layouts : slab_alloc(c, l) \/ slab_alloc_pages(c, l)
             \/ \E b \in live : dealloc(c, b)
             \/ Returned(c)
             \/ FrameStep(c) /\ UNCHANGED heapVars
      BY <1>1 DEF Next
    <2>2. CASE \/ \E n \in 1 .. MaxRun : alloc_pages(c, n)
               \/ \E r \in pages : free_pages(c, r)
               \/ \E l \in Layouts : slab_alloc_pages(c, l)
               \/ FrameStep(c) /\ UNCHANGED heapVars
      <3>1. UNCHANGED <<live, heap_used, heap_allocs>>
        BY <2>2 DEF alloc_pages, free_pages, slab_alloc_pages, heapVars
      <3> QED
        BY <3>1, CountsSame
    <2>3. CASE \E l \in Layouts : slab_alloc(c, l)
      BY <2>3, SlabAllocCounts
    <2>4. CASE \E b \in live : dealloc(c, b)
      BY <2>4, BlockDiscounted DEF dealloc
    <2>5. CASE Returned(c)
      BY <2>5, ReturnedCounts
    <2> QED
      BY <2>1, <2>2, <2>3, <2>4, <2>5
  <1>2. CASE UNCHANGED vars
    BY <1>2, CountsSame DEF vars, heapVars
  <1> QED
    BY <1>1, <1>2

\* HEAP_ALLOCS and HEAP_USED count the live blocks exactly, whatever was
\* allocated and freed before: alloc never hands out a block that is live, so
\* that the saturating subtractions of dealloc never lose anything.
THEOREM HeapCountersAreExact ==
  ASSUME ~Preemptible PROVE Spec => []HeapCountersExact
  <1>1. Init => CountInv
    BY BytesNone, FS_EmptySet DEF Init, HeapInit, CountInv
  <1>2. /\ FrameInv /\ HoldInv /\ SlabInv /\ CountInv
        /\ [Next]_vars
        => (FrameInv /\ HoldInv /\ SlabInv /\ CountInv)'
    BY NextKeeps, NextSlabs, NextCounts
  <1>3. CountInv => HeapCountersExact
    BY DEF CountInv, HeapCountersExact, Bytes
  <1> QED
    BY InitSound, InitSlabs, <1>1, <1>2, <1>3, PTL DEF Spec
=============================================================================
