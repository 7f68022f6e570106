-------------------------------- MODULE Heap --------------------------------
(***************************************************************************)
(* The kernel heap (kernel/src/memory/heap.rs and slab.rs) on the frame    *)
(* allocator, together with the callers of alloc_pages.                    *)
(*                                                                         *)
(* A heap allocation that finds its cache empty, or that is too large for  *)
(* a cache, calls alloc_pages and goes on when it returns.                 *)
(***************************************************************************)
EXTENDS FrameAlloc, FiniteSetsExt

CONSTANTS
  Classes,  \* block sizes of the caches, in ascending order
  Layouts,  \* the layouts [size, align] that callers allocate
  MaxLive   \* bound: blocks and page runs held at a time

ASSUME HeapAssumption ==
  /\ Classes \in Seq(1 .. PageSize) /\ Classes # <<>>
  /\ Layouts \subseteq [size: Nat, align: Nat \ {0}]
  /\ MaxLive \in Nat

VARIABLES
  caches,       \* the free list of each class, as addresses, head first
  live,         \* the blocks the heap has handed out: address, size and align
  pages,        \* the page runs handed out by alloc_pages: first frame and n
  request,      \* what each caller's running alloc_pages is for
  heap_used,    \* HEAP_USED
  heap_allocs   \* HEAP_ALLOCS

heapVars == <<caches, live, pages, request, heap_used, heap_allocs>>
vars == <<frameVars, heapVars>>

NoRequest == [kind |-> "none", size |-> 0, align |-> 1]

\* A slip: the alignment is left out.
SizeOfPlain(l) == IF l.size < Classes[1] THEN Classes[1] ELSE l.size

\* The size that both layers work with: alignment is met by asking for more,
\* and a block has room for the link of the free list.
SizeOf(l) == LET s == IF l.size > l.align THEN l.size ELSE l.align
             IN  IF s < Classes[1] THEN Classes[1] ELSE s

\* What KernelHeap adds to its counters: without the room for the link.
CountedSize(l) == IF l.size > l.align THEN l.size ELSE l.align

IsClass(size, k) == /\ k \in DOMAIN Classes /\ Classes[k] >= size
                    /\ \A j \in 1 .. k - 1 : Classes[j] < size

IsLarge(size) == \A k \in DOMAIN Classes : Classes[k] < size

PagesFor(size) == (size + PageSize - 1) \div PageSize

ASSUME LayoutAssumption == \A l \in Layouts : PagesFor(SizeOf(l)) <= MaxRun

Block(addr, l) == [addr |-> addr, size |-> l.size, align |-> l.align]

-----------------------------------------------------------------------------
HeapInit ==
  /\ caches = [k \in DOMAIN Classes |-> <<>>]
  /\ live = {} /\ pages = {}
  /\ request = [c \in Callers |-> NoRequest]
  /\ heap_used = 0 /\ heap_allocs = 0

Init == FrameInit /\ HeapInit

\* Room for one more block or run, within the bound of the model.
HasRoom == Cardinality(live) + Cardinality(pages) < MaxLive

\* alloc_pages(n), called by the code that spawns tasks and maps pages.
alloc_pages(c, n) ==
  /\ HasRoom
  /\ alloc_frames(c, n)
  /\ request' = [request EXCEPT ![c] = [NoRequest EXCEPT !.kind = "pages"]]
  /\ UNCHANGED <<caches, live, pages, heap_used, heap_allocs>>

\* free_pages(addr, n) of a run that alloc_pages returned.
free_pages(c, r) ==
  /\ r \in pages
  /\ free_frames_of(c, addr_to_frame(frame_to_addr(r.first)), r.n)
  /\ pages' = pages \ {r}
  /\ UNCHANGED <<caches, live, request, heap_used, heap_allocs>>

\* A slip: the layout's size is counted where dealloc takes off the larger of
\* size and alignment.
AllocatedBySize(l, addr) ==
  /\ live' = live \cup {Block(addr, l)}
  /\ heap_used' = heap_used + l.size
  /\ heap_allocs' = heap_allocs + 1

\* GlobalAlloc::alloc when it succeeds.
Allocated(l, addr) ==
  /\ live' = live \cup {Block(addr, l)}
  /\ heap_used' = heap_used + CountedSize(l)
  /\ heap_allocs' = heap_allocs + 1

\* slab::alloc from a cache that has a block.
slab_alloc(c, l) ==
  /\ HasRoom /\ Runs(c) /\ call[c].pc = "idle"
  /\ \E k \in DOMAIN Classes :
       /\ IsClass(SizeOf(l), k) /\ caches[k] # <<>>
       /\ caches' = [caches EXCEPT ![k] = Tail(@)]
       /\ Allocated(l, Head(caches[k]))
  /\ UNCHANGED <<frameVars, pages, request>>

\* slab::alloc that has to ask for pages first.
slab_alloc_pages(c, l) ==
  /\ HasRoom
  /\ \/ /\ \E k \in DOMAIN Classes : IsClass(SizeOf(l), k) /\ caches[k] = <<>>
        /\ alloc_frames(c, 1)
        /\ request' = [request EXCEPT ![c] = [kind |-> "grow", size |-> l.size, align |-> l.align]]
     \/ /\ IsLarge(SizeOf(l))
        /\ alloc_frames(c, PagesFor(SizeOf(l)))
        /\ request' = [request EXCEPT ![c] = [kind |-> "large", size |-> l.size, align |-> l.align]]
  /\ UNCHANGED <<caches, live, pages, heap_used, heap_allocs>>

\* A slip: the last block of the slab hangs over its end.
CarvedOneMore(slab, size) == [i \in 1 .. PageSize \div size + 1 |-> slab + (i - 1) * size]

\* grow: the blocks of a new slab, in front of what the cache holds.
Carved(slab, size) == [i \in 1 .. PageSize \div size |-> slab + (i - 1) * size]

\* alloc_pages returns to whoever called it; a null result is the caller's
\* error and leaves the heap as it was.
Returned(c) ==
  LET a == call[c]
      q == request[c]
      addr == frame_to_addr(a.ret)
  IN  /\ Receive(c)
      /\ request' = [request EXCEPT ![c] = NoRequest]
      /\ IF a.ret = None THEN UNCHANGED <<caches, live, pages, heap_used, heap_allocs>>
         ELSE \/ /\ q.kind = "pages"
                 /\ pages' = pages \cup {[first |-> a.ret, n |-> a.n]}
                 /\ UNCHANGED <<caches, live, heap_used, heap_allocs>>
              \/ /\ q.kind = "grow"
                 /\ \E k \in DOMAIN Classes :
                      /\ IsClass(SizeOf(q), k)
                      /\ caches' = [caches EXCEPT ![k] = Tail(Carved(addr, Classes[k])) \o @]
                 /\ Allocated(q, addr)
                 /\ UNCHANGED pages
              \/ /\ q.kind = "large"
                 /\ Allocated(q, addr)
                 /\ UNCHANGED <<caches, pages>>

\* Subtraction that stops at zero.
Less(a, b) == IF a < b THEN 0 ELSE a - b

\* GlobalAlloc::dealloc, with the layout the block was allocated with.
dealloc(c, b) ==
  /\ b \in live
  /\ live' = live \ {b}
  /\ heap_used' = Less(heap_used, CountedSize(b))
  /\ heap_allocs' = Less(heap_allocs, 1)
  /\ \/ /\ \E k \in DOMAIN Classes :
             /\ IsClass(SizeOf(b), k)
             /\ caches' = [caches EXCEPT ![k] = <<b.addr>> \o @]
        /\ Runs(c) /\ call[c].pc = "idle"
        /\ UNCHANGED frameVars
     \/ /\ IsLarge(SizeOf(b))
        /\ free_frames_of(c, addr_to_frame(b.addr), PagesFor(SizeOf(b)))
        /\ UNCHANGED caches
  /\ UNCHANGED <<pages, request>>

Next ==
  \E c \in Callers :
    \/ \E n \in 1 .. MaxRun : alloc_pages(c, n)
    \/ \E r \in pages : free_pages(c, r)
    \/ \E l \in Layouts : slab_alloc(c, l) \/ slab_alloc_pages(c, l)
    \/ \E b \in live : dealloc(c, b)
    \/ Returned(c)
    \/ FrameStep(c) /\ UNCHANGED heapVars

Spec == Init /\ [][Next]_vars

-----------------------------------------------------------------------------
(***************************************************************************)
(* Properties                                                              *)
(***************************************************************************)

\* The bytes that the cache or the frame allocator gave for a live block.
Extent(b) ==
  IF IsLarge(SizeOf(b)) THEN b.addr .. b.addr + PagesFor(SizeOf(b)) * PageSize - 1
  ELSE LET k == CHOOSE k \in DOMAIN Classes : IsClass(SizeOf(b), k)
       IN  b.addr .. b.addr + Classes[k] - 1

FreeBlocks == {[k |-> k, i |-> i] : k \in DOMAIN Classes, i \in 1 .. MaxFrames * PageSize}

OnList(x) == x.i <= Len(caches[x.k])

ListExtent(x) == caches[x.k][x.i] .. caches[x.k][x.i] + Classes[x.k] - 1

Listed == {x \in FreeBlocks : OnList(x)}

\* Blocks that are live and blocks on the free lists never overlap, and all
\* lie in frames that the heap owns: no sequence of allocations, frees and
\* refills lets two users write to one byte.
BlocksDisjoint ==
  /\ \A b, d \in live : b # d => Extent(b) \cap Extent(d) = {}
  /\ \A b \in live, x \in Listed : Extent(b) \cap ListExtent(x) = {}
  /\ \A x, y \in Listed : x # y => ListExtent(x) \cap ListExtent(y) = {}
  /\ \A b \in live : \A byte \in Extent(b) : owners[addr_to_frame(byte)] = 1
  /\ \A x \in Listed : \A byte \in ListExtent(x) : owners[addr_to_frame(byte)] = 1

\* Every block has the alignment of its layout, which the heap meets only by
\* asking for a larger size class.
BlocksAligned == \A b \in live : b.addr % b.align = 0

\* HEAP_USED and HEAP_ALLOCS count the live blocks: the saturating
\* subtractions of dealloc never lose anything.
HeapCountersExact ==
  /\ heap_allocs = Cardinality(live)
  /\ heap_used = MapThenSumSet(CountedSize, live)
=============================================================================
