---------------------------- MODULE FrameProofs -----------------------------
(***************************************************************************)
(* The frame allocator under every use of it by the heap and by the        *)
(* callers of alloc_pages, for a memory of every size and every map, when  *)
(* a call is not interrupted by another one (~Preemptible).                *)
(***************************************************************************)
EXTENDS Heap, FiniteSetTheorems, TLAPS

-----------------------------------------------------------------------------
(***************************************************************************)
(* The inductive invariant: what a running call has found out so far.      *)
(***************************************************************************)
Span(first, n) == first .. first + n - 1

\* A frame that may be given out: nobody has it, and it is none of the image's.
Clear(h) == h \in Frames /\ owners[h] = 0 /\ frame_to_addr(h) >= KernelEnd

\* No run of n frames begins below lim, leaving own aside.
Blocked(lim, n, own) == \A g \in 0 .. lim - 1 : \E h \in Span(g, n) : h \in used \ own

\* The search: the run so far ends at f, is free, and is the lowest possible.
Searching(a) ==
  /\ a.n \in 1 .. MaxRun /\ a.i = 0 /\ a.run_len < a.n /\ a.run_len <= a.f
  /\ a.run_len > 0 => a.run_start = a.f - a.run_len
  /\ \A h \in Span(a.f - a.run_len, a.run_len) : h \in Frames \ used
  /\ Blocked(a.f - a.run_len, a.n, {})

\* The marking loop: i frames of the run are marked.
Marking(a) ==
  /\ a.n \in 1 .. MaxRun /\ a.i \in 0 .. a.n
  /\ \A h \in Span(a.run_start, a.n) : Clear(h) /\ (h \in used <=> h < a.run_start + a.i)
  /\ Blocked(a.run_start, a.n, Span(a.run_start, a.n))

Found(a) ==
  /\ a.n \in 1 .. MaxRun
  /\ IF a.ret = None THEN \A g \in Frames : ~RunAt(g, a.n, {})
     ELSE /\ \A h \in Span(a.ret, a.n) : Clear(h) /\ h \in used
          /\ Blocked(a.ret, a.n, Span(a.ret, a.n))

Freeing(a) ==
  /\ a.n \in 1 .. MaxRun /\ a.i \in 0 .. a.n
  /\ \A h \in Span(a.run_start, a.n) : Clear(h)

CallSound(a) ==
  /\ a.pc = "scan" => Searching(a)
  /\ a.pc = "mark" => Marking(a)
  /\ a.pc = "done" => Found(a)
  /\ a.pc = "free" => Freeing(a)

OneActive == \A c, d \in Callers : c # d => call[c].pc = "idle" \/ call[d].pc = "idle"

\* The frames that the kernel image reaches into stay marked.
ImageKept == \A f \in Frames : frame_to_addr(f) < KernelEnd => f \in used /\ owners[f] = 0

FrameInv ==
  /\ FrameTypeOK /\ FreeCountExact /\ FramesHeldOnce /\ ImageKept
  /\ OneActive /\ \A c \in Callers : CallSound(call[c])

(***************************************************************************)
(* What the callers hold: page runs, and the runs of large blocks.  They   *)
(* give up only what is theirs.                                            *)
(***************************************************************************)
Held(first, n) == first \in Nat /\ n \in 1 .. MaxRun /\ \A f \in Span(first, n) : f \in Frames /\ owners[f] = 1

LargeBlocks == {b \in live : IsLarge(SizeOf(b))}
FirstFrame(b) == addr_to_frame(b.addr)
FramesOf(b) == Span(FirstFrame(b), PagesFor(SizeOf(b)))

Requests == [kind : {"none", "pages", "grow", "large"}, size : Nat, align : Nat \ {0}]
Blocks == [addr : Nat, size : Nat, align : Nat \ {0}]

RunsHeld ==
  /\ pages \subseteq [first : Nat, n : 1 .. MaxRun] /\ live \subseteq Blocks
  /\ \A r \in pages : Held(r.first, r.n)
  /\ \A b \in LargeBlocks : /\ b.addr = frame_to_addr(FirstFrame(b))
                            /\ Held(FirstFrame(b), PagesFor(SizeOf(b)))

RunsApart ==
  /\ \A r, q \in pages : r # q => Span(r.first, r.n) \cap Span(q.first, q.n) = {}
  /\ \A b, d \in LargeBlocks : b # d => FramesOf(b) \cap FramesOf(d) = {}
  /\ \A r \in pages, b \in LargeBlocks : Span(r.first, r.n) \cap FramesOf(b) = {}

\* The run that a caller waits for is as long as its request says.
RequestSound(q, a) ==
  /\ q.kind = "large" => IsLarge(SizeOf(q)) /\ a.n = PagesFor(SizeOf(q))
  /\ q.kind = "grow" => a.n = 1 /\ \E k \in DOMAIN Classes : IsClass(SizeOf(q), k)

RequestsSound ==
  /\ request \in [Callers -> Requests]
  /\ \A c \in Callers : call[c].pc \in {"scan", "mark", "done"} => RequestSound(request[c], call[c])

CachesTyped == caches \in [DOMAIN Classes -> Seq(Nat)]

HoldInv == RunsHeld /\ RunsApart /\ RequestsSound /\ CachesTyped

-----------------------------------------------------------------------------
(***************************************************************************)
(* Arithmetic                                                              *)
(***************************************************************************)
LEMMA DivisionBounds ==
  ASSUME NEW a \in Nat, NEW p \in Nat \ {0}
  PROVE  /\ a \div p \in Nat
         /\ (a \div p) * p <= a
         /\ a < (a \div p) * p + p
  OBVIOUS

LEMMA ModuloBounds ==
  ASSUME NEW a \in Nat, NEW p \in Nat \ {0}
  PROVE  a % p \in 0 .. p - 1 /\ a % p <= a
  OBVIOUS

LEMMA ProductOrder ==
  ASSUME NEW a \in Nat, NEW b \in Nat, NEW p \in Nat \ {0}, a * p < b * p
  PROVE  a < b
  OBVIOUS

LEMMA ProductNat ==
  ASSUME NEW a \in Nat, NEW b \in Nat
  PROVE  a * b \in Nat
  OBVIOUS

LEMMA QuotientUnique ==
  ASSUME NEW g \in Nat, NEW p \in Nat \ {0}, NEW o \in 0 .. p - 1
  PROVE  (g * p + o) \div p = g
  OBVIOUS

-----------------------------------------------------------------------------
(***************************************************************************)
(* The calls                                                               *)
(***************************************************************************)
\* A call goes on while every other one is idle.
LEMMA OnlyCaller ==
  ASSUME FrameInv, ~Preemptible, NEW c \in Callers, Runs(c), NEW a \in Activation,
         call' = [call EXCEPT ![c] = a], CallSound(a)'
  PROVE  /\ call' \in [Callers -> Activation] /\ OneActive'
         /\ \A d \in Callers : CallSound(call[d])'
  <1>1. /\ call' \in [Callers -> Activation] /\ call'[c] = a
        /\ \A d \in Callers \ {c} : call'[d] = call[d] /\ call[d].pc = "idle"
    BY DEF FrameInv, FrameTypeOK, Runs
  <1>2. OneActive'
    BY <1>1 DEF OneActive
  <1>3. \A d \in Callers : CallSound(call[d])'
    BY <1>1 DEF CallSound
  <1> QED
    BY <1>1, <1>2, <1>3

\* The activations that the calls begin with, and those that the loops build.
LEMMA Begun ==
  ASSUME NEW x \in Activation, NEW pc \in {"scan", "free"}, NEW n \in 0 .. MaxRun
  PROVE  LET y == [x EXCEPT !.pc = pc, !.n = n]
         IN  /\ y \in Activation /\ y.pc = pc /\ y.n = n
             /\ y.f = x.f /\ y.run_start = x.run_start /\ y.run_len = x.run_len /\ y.i = x.i
  BY DEF Activation

Moved(x, start, len, f) == [x EXCEPT !.run_start = start, !.run_len = len, !.f = f]
Matched(x, start, len) == [x EXCEPT !.run_start = start, !.run_len = len, !.pc = "mark"]

LEMMA IdleSound == Idle \in Activation /\ Idle.pc = "idle" /\ Idle.ret = None
  BY FrameAssumption DEF Idle, Activation, None

LEMMA AllocKeeps ==
  ASSUME FrameInv, ~Preemptible, NEW c \in Callers, NEW n \in 1 .. MaxRun, alloc_frames(c, n)
  PROVE  /\ FrameInv' /\ call'[c].pc = "scan" /\ call'[c].n = n
         /\ UNCHANGED <<mem_base, total_frames, owners>>
         /\ \A d \in Callers \ {c} : call'[d] = call[d]
  <1> DEFINE a == [Idle EXCEPT !.pc = "scan", !.n = n]
  <1>1. /\ Runs(c) /\ call' = [call EXCEPT ![c] = a]
        /\ UNCHANGED <<mem_base, total_frames, used, free_frames, owners>>
    BY DEF alloc_frames, Enter
  <1>2. /\ a \in Activation /\ a.pc = "scan" /\ a.n = n /\ a.f = 0 /\ a.run_len = 0 /\ a.i = 0
    <2>1. n \in 0 .. MaxRun
      BY FrameAssumption
    <2>2. Idle.f = 0 /\ Idle.run_len = 0 /\ Idle.i = 0
      BY DEF Idle
    <2> QED
      BY <2>1, <2>2, IdleSound, Begun
  <1> HIDE DEF a
  <1>3. CallSound(a)'
    BY <1>2 DEF CallSound, Searching, Blocked, Span
  <1>4. /\ call' \in [Callers -> Activation] /\ OneActive'
        /\ \A d \in Callers : CallSound(call[d])'
    BY <1>1, <1>2, <1>3, OnlyCaller
  <1>5. FrameTypeOK' /\ FreeCountExact' /\ FramesHeldOnce' /\ ImageKept'
    BY <1>1, <1>4 DEF FrameInv, FrameTypeOK, FreeCountExact, FramesHeldOnce, ImageKept, Frames,
                      frame_to_addr
  <1> QED
    BY <1>1, <1>2, <1>4, <1>5 DEF FrameInv, FrameTypeOK

LEMMA FreeKeeps ==
  ASSUME FrameInv, ~Preemptible, NEW c \in Callers, NEW first, NEW n, Held(first, n),
         free_frames_of(c, first, n)
  PROVE  /\ FrameInv' /\ call'[c].pc = "free"
         /\ \A f \in Frames \ Span(first, n) : owners'[f] = owners[f]
         /\ UNCHANGED <<mem_base, total_frames>>
         /\ \A d \in Callers \ {c} : call'[d] = call[d]
  <1> DEFINE a == [Idle EXCEPT !.pc = "free", !.n = n, !.run_start = first]
  <1>1. /\ Runs(c) /\ call' = [call EXCEPT ![c] = a]
        /\ owners' = [f \in DOMAIN owners |->
                        IF f \in Span(first, n) THEN owners[f] - 1 ELSE owners[f]]
        /\ UNCHANGED <<mem_base, total_frames, used, free_frames>>
    BY DEF free_frames_of, Enter, Span
  <1>2. first \in Nat /\ n \in 1 .. MaxRun /\ \A f \in Span(first, n) : f \in Frames /\ owners[f] = 1
    BY DEF Held
  <1>3. /\ a \in Activation /\ a.pc = "free" /\ a.n = n /\ a.run_start = first /\ a.i = 0
    <2> DEFINE x == [Idle EXCEPT !.pc = "free", !.n = n]
    <2>1. n \in 0 .. MaxRun
      BY <1>2, FrameAssumption
    <2>2. x \in Activation /\ x.pc = "free" /\ x.n = n /\ x.i = Idle.i
      BY <2>1, IdleSound, Begun
    <2>3. a = [x EXCEPT !.run_start = first] /\ Idle.i = 0
      BY DEF Idle
    <2> HIDE DEF a, x
    <2> QED
      BY <1>2, <2>2, <2>3 DEF Activation
  <1> HIDE DEF a
  <1>4. owners \in [Frames -> Nat]
    BY DEF FrameInv, FrameTypeOK
  <1>5. /\ owners' \in [Frames -> Nat]
        /\ \A f \in Span(first, n) : f \in Frames /\ owners'[f] = 0
        /\ \A f \in Frames \ Span(first, n) : owners'[f] = owners[f]
    BY <1>1, <1>2, <1>4
  <1>6. \A f \in Span(first, n) : f \in Frames /\ frame_to_addr(f) >= KernelEnd
    BY <1>2 DEF FrameInv, FramesHeldOnce
  <1>7. CallSound(a)'
    <2>1. \A h \in Span(first, n) : Clear(h)'
      BY <1>1, <1>5, <1>6 DEF Clear, Frames, frame_to_addr
    <2> QED
      BY <1>2, <1>3, <2>1 DEF CallSound, Freeing
  <1>8. /\ call' \in [Callers -> Activation] /\ OneActive'
        /\ \A d \in Callers : CallSound(call[d])'
    BY <1>1, <1>3, <1>7, OnlyCaller
  <1>9. FrameTypeOK' /\ FreeCountExact'
    BY <1>1, <1>5, <1>8 DEF FrameInv, FrameTypeOK, FreeCountExact, Frames
  <1>10. FramesHeldOnce' /\ ImageKept'
    BY <1>1, <1>4, <1>5 DEF FrameInv, FramesHeldOnce, ImageKept, Frames, frame_to_addr
  <1>11. call'[c].pc = "free" /\ \A d \in Callers \ {c} : call'[d] = call[d]
    BY <1>1, <1>3 DEF FrameInv, FrameTypeOK
  <1> QED
    BY <1>1, <1>5, <1>8, <1>9, <1>10, <1>11 DEF FrameInv

LEMMA ReceiveKeeps ==
  ASSUME FrameInv, ~Preemptible, NEW c \in Callers, Receive(c)
  PROVE  /\ FrameInv' /\ call'[c].pc = "idle"
         /\ call[c].n \in 1 .. MaxRun
         /\ call[c].ret = None => UNCHANGED owners
         /\ call[c].ret # None =>
              /\ call[c].ret \in Nat
              /\ \A f \in Span(call[c].ret, call[c].n) : f \in Frames /\ owners[f] = 0 /\ owners'[f] = 1
              /\ \A f \in Frames \ Span(call[c].ret, call[c].n) : owners'[f] = owners[f]
         /\ UNCHANGED <<mem_base, total_frames>>
         /\ \A d \in Callers \ {c} : call'[d] = call[d]
  <1> DEFINE a == call[c]
  <1>1. /\ Runs(c) /\ a.pc = "done" /\ call' = [call EXCEPT ![c] = Idle]
        /\ owners' = [f \in DOMAIN owners |->
                        IF a.ret # None /\ f \in Span(a.ret, a.n) THEN owners[f] + 1 ELSE owners[f]]
        /\ UNCHANGED <<mem_base, total_frames, used, free_frames>>
    BY DEF Receive, Span
  <1>2. owners \in [Frames -> Nat] /\ a \in Activation /\ Found(a)
    BY <1>1 DEF FrameInv, FrameTypeOK, CallSound
  <1>3. a.n \in 1 .. MaxRun /\ (a.ret # None => a.ret \in Nat)
    BY <1>2 DEF Found, Activation
  <1>4. a.ret # None => \A f \in Span(a.ret, a.n) : Clear(f) /\ f \in used
    BY <1>2 DEF Found
  <1> HIDE DEF a
  <1>5. /\ owners' \in [Frames -> Nat]
        /\ a.ret = None => owners' = owners
        /\ a.ret # None =>
             /\ \A f \in Span(a.ret, a.n) : f \in Frames /\ owners[f] = 0 /\ owners'[f] = 1
             /\ \A f \in Frames \ Span(a.ret, a.n) : owners'[f] = owners[f]
    BY <1>1, <1>2, <1>4 DEF Clear
  <1>6. CallSound(Idle)'
    BY IdleSound DEF CallSound
  <1>7. /\ call' \in [Callers -> Activation] /\ OneActive'
        /\ \A d \in Callers : CallSound(call[d])'
    BY <1>1, <1>6, IdleSound, OnlyCaller
  <1>8. FrameTypeOK' /\ FreeCountExact'
    BY <1>1, <1>5, <1>7 DEF FrameInv, FrameTypeOK, FreeCountExact, Frames
  <1>9. FramesHeldOnce' /\ ImageKept'
    <2>1. CASE a.ret = None
      BY <1>1, <1>5, <2>1 DEF FrameInv, FramesHeldOnce, ImageKept, Frames, frame_to_addr
    <2>2. CASE a.ret # None
      <3>1. \A f \in Span(a.ret, a.n) : f \in used /\ frame_to_addr(f) >= KernelEnd
        BY <1>4, <2>2 DEF Clear
      <3>2. ASSUME NEW f \in Frames
            PROVE  /\ owners'[f] <= 1 /\ (owners'[f] = 1 => f \in used /\ frame_to_addr(f) >= KernelEnd)
                   /\ frame_to_addr(f) < KernelEnd => f \in used /\ owners'[f] = 0
        <4>1. CASE f \in Span(a.ret, a.n)
          <5>1. frame_to_addr(f) \in Nat
            BY <1>2, FrameAssumption, ProductNat DEF FrameInv, FrameTypeOK, Frames, frame_to_addr
          <5> QED
            BY <1>5, <2>2, <3>1, <4>1, <5>1, FrameAssumption
        <4>2. CASE f \notin Span(a.ret, a.n)
          BY <1>5, <2>2, <4>2 DEF FrameInv, FramesHeldOnce, ImageKept
        <4> QED
          BY <4>1, <4>2
      <3> QED
        BY <1>1, <3>2 DEF FramesHeldOnce, ImageKept, Frames, frame_to_addr
    <2> QED
      BY <2>1, <2>2
  <1>10. call'[c].pc = "idle" /\ \A d \in Callers \ {c} : call'[d] = call[d]
    BY <1>1, IdleSound DEF FrameInv, FrameTypeOK
  <1> QED
    BY <1>1, <1>3, <1>5, <1>7, <1>8, <1>9, <1>10 DEF FrameInv, a

(***************************************************************************)
(* One turn of each loop                                                   *)
(***************************************************************************)
LEMMA BlockedFurther ==
  ASSUME used \subseteq Nat, NEW lim \in Nat, NEW to \in Nat, NEW n \in Nat, NEW h \in used,
         lim <= h, h - lim < n, Blocked(lim, n, {}), \A g \in h .. to - 1 : g \in used
  PROVE  Blocked(to, n, {})
  <1> SUFFICES ASSUME NEW g \in 0 .. to - 1
               PROVE  \E k \in Span(g, n) : k \in used
    BY DEF Blocked
  <1>1. CASE g < lim
    BY <1>1 DEF Blocked
  <1>2. CASE lim <= g /\ g < h
    BY <1>2 DEF Span
  <1>3. CASE h <= g
    BY <1>3 DEF Span
  <1> QED
    BY <1>1, <1>2, <1>3

LEMMA ScanKeeps ==
  ASSUME FrameInv, ~Preemptible, NEW c \in Callers, scan(c)
  PROVE  /\ FrameInv' /\ UNCHANGED <<mem_base, total_frames, owners>>
         /\ call[c].pc = "scan" /\ call'[c].n = call[c].n
         /\ \A d \in Callers \ {c} : call'[d] = call[d]
  <1>a. PICK a : a = call[c]
    OBVIOUS
  <1>b. PICK b : b = IF ScanEnds(a) THEN [a EXCEPT !.pc = "done", !.ret = None]
                     ELSE IF FullWord(a.f) THEN ScanFull(a)
                     ELSE IF a.f \notin used THEN ScanFree(a)
                     ELSE ScanUsed(a)
    OBVIOUS
  <1>1. /\ Runs(c) /\ a.pc = "scan" /\ call' = [call EXCEPT ![c] = b]
        /\ UNCHANGED <<mem_base, total_frames, used, free_frames, owners>>
    BY <1>a, <1>b DEF scan
  <1>2. a \in Activation /\ Searching(a) /\ total_frames \in Nat /\ used \subseteq Frames
    BY <1>a, <1>1 DEF FrameInv, FrameTypeOK, CallSound
  <1> DEFINE lim == a.f - a.run_len
  <1>3. /\ a.f \in Nat /\ a.run_len \in Nat /\ a.run_start \in Nat /\ a.n \in 1 .. MaxRun /\ a.i = 0
        /\ a.run_len < a.n /\ lim \in Nat /\ lim <= a.f
        /\ a.run_len > 0 => a.run_start = lim
        /\ \A h \in Span(lim, a.run_len) : h \in Frames \ used
        /\ Blocked(lim, a.n, {})
    BY <1>2 DEF Searching, Activation
  <1>4. used \subseteq Nat /\ MaxRun \in Nat /\ a.n \in Nat
    BY <1>2, <1>3, FrameAssumption DEF Frames
  <1>5. b \in Activation /\ b.n = a.n /\ CallSound(b)
    <2>1. CASE ScanEnds(a)
      <3>1. /\ b = [a EXCEPT !.pc = "done", !.ret = None] /\ a.f >= total_frames
        BY <1>b, <2>1 DEF ScanEnds
      <3>2. b \in Activation /\ b.pc = "done" /\ b.ret = None /\ b.n = a.n
        BY <1>2, <3>1 DEF Activation
      <3>3. ASSUME NEW g \in Frames, RunAt(g, a.n, {}) PROVE FALSE
        <4>1. g \in Nat /\ g + a.n - 1 \in Frames
          BY <1>2, <1>3, <3>3 DEF RunAt, Frames
        <4>2. g < lim
          BY <1>2, <1>3, <3>1, <4>1 DEF Frames
        <4>3. PICK h \in Span(g, a.n) : h \in used
          BY <1>3, <4>1, <4>2 DEF Blocked
        <4> QED
          BY <3>3, <4>3 DEF RunAt, Span
      <3> QED
        BY <1>3, <3>2, <3>3 DEF CallSound, Found
    <2>2. CASE ~ScanEnds(a) /\ FullWord(a.f)
      <3> DEFINE w == WordStart(a.f)
                 next == w + WordBits
      <3>1. b = [a EXCEPT !.run_start = next, !.run_len = 0, !.f = next]
        BY <1>b, <2>2 DEF ScanFull
      <3>2. w \in Nat /\ w <= a.f /\ a.f < next /\ next \in Nat
        <4>1. a.f % WordBits \in 0 .. WordBits - 1 /\ a.f % WordBits <= a.f
          BY <1>3, FrameAssumption, ModuloBounds
        <4>2. WordBits \in Nat \ {0}
          BY FrameAssumption
        <4> DEFINE r == a.f % WordBits
        <4>3. w = a.f - r
          BY DEF WordStart
        <4> HIDE DEF w, r
        <4> QED
          BY <1>3, <4>1, <4>2, <4>3 DEF r
      <3>3. \A h \in w .. next - 1 : h \in used
        <4>1. FullWord(a.f)
          BY <2>2
        <4>2. (WordStart(a.f) .. WordStart(a.f) + WordBits - 1) \subseteq used
          BY <4>1 DEF FullWord
        <4> QED
          BY <3>2, <4>2, FrameAssumption
      <3> HIDE DEF w, next
      <3>4. /\ b \in Activation /\ b.pc = "scan" /\ b.n = a.n /\ b.f = next /\ b.run_len = 0
            /\ b.i = 0
        <4>1. next \in Nat /\ 0 \in Nat /\ b = Moved(a, next, 0, next)
          BY <3>1, <3>2 DEF Moved
        <4>2. /\ b \in Activation /\ b.run_len = 0 /\ b.f = next
              /\ b.pc = a.pc /\ b.n = a.n /\ b.i = a.i
          BY <1>2, <4>1 DEF Moved, Activation
        <4> QED
          BY <1>1, <1>3, <4>2
      <3>5. Blocked(next, a.n, {})
        <4>1. a.f \in used /\ a.f - lim < a.n
          BY <1>3, <3>2, <3>3
        <4>2. \A g \in a.f .. next - 1 : g \in used
          BY <1>3, <3>2, <3>3
        <4> HIDE DEF lim
        <4> QED
          BY <1>3, <1>4, <3>2, <4>1, <4>2, BlockedFurther
      <3>6. Searching(b)
        <4>1. next - 0 = next /\ Span(next, 0) = {}
          BY <3>2 DEF Span
        <4> QED
          BY <1>3, <3>2, <3>4, <3>5, <4>1 DEF Searching
      <3> QED
        BY <3>4, <3>6 DEF CallSound
    <2>3. CASE ~ScanEnds(a) /\ ~FullWord(a.f) /\ a.f \notin used
      <3> DEFINE start == IF a.run_len = 0 THEN a.f ELSE a.run_start
      <3>1. /\ start = lim /\ a.f \in Frames
            /\ b = IF a.run_len + 1 = a.n
                   THEN [a EXCEPT !.run_start = start, !.run_len = @ + 1, !.pc = "mark"]
                   ELSE [a EXCEPT !.run_start = start, !.run_len = @ + 1, !.f = @ + 1]
        BY <1>b, <1>2, <1>3, <2>3 DEF ScanFree, ScanEnds, Frames
      <3> HIDE DEF start
      <3>2. \A h \in Span(lim, a.run_len + 1) : h \in Frames \ used
        BY <1>3, <2>3, <3>1 DEF Span
      <3>3. CASE a.run_len + 1 = a.n
        <4>1. /\ b \in Activation /\ b.pc = "mark" /\ b.n = a.n /\ b.run_start = lim /\ b.i = 0
          <5>1. b = Matched(a, lim, a.run_len + 1)
            BY <3>1, <3>3 DEF Matched
          <5> DEFINE len == a.run_len + 1
          <5>2. lim \in Nat /\ len \in Nat /\ b = Matched(a, lim, len)
            BY <1>3, <5>1
          <5> HIDE DEF lim, len
          <5>3. b \in Activation /\ b.run_start = lim /\ b.pc = "mark" /\ b.n = a.n /\ b.i = a.i
            BY <1>2, <5>2 DEF Matched, Activation
          <5> QED
            BY <1>3, <5>3
        <4>2. \A h \in Span(lim, a.n) : Clear(h) /\ h \notin used
          <5>1. \A h \in Frames : h \notin used => owners[h] = 0 /\ frame_to_addr(h) >= KernelEnd
            <6> SUFFICES ASSUME NEW h \in Frames, h \notin used
                         PROVE  owners[h] = 0 /\ frame_to_addr(h) >= KernelEnd
              OBVIOUS
            <6>1. owners[h] \in Nat /\ owners[h] <= 1 /\ owners[h] # 1 /\ ~(frame_to_addr(h) < KernelEnd)
              BY DEF FrameInv, FrameTypeOK, FramesHeldOnce, ImageKept
            <6>2. frame_to_addr(h) \in Nat
              BY <1>2, FrameAssumption, ProductNat DEF FrameInv, FrameTypeOK, Frames, frame_to_addr
            <6> QED
              BY <6>1, <6>2, FrameAssumption
          <5> QED
            BY <3>2, <3>3, <5>1 DEF Clear
        <4>3. Blocked(lim, a.n, Span(lim, a.n))
          <5> SUFFICES ASSUME NEW g \in 0 .. lim - 1
                       PROVE  \E h \in Span(g, a.n) : h \in used \ Span(lim, a.n)
            BY DEF Blocked
          <5>1. PICK h \in Span(g, a.n) : h \in used
            BY <1>3 DEF Blocked
          <5> QED
            BY <4>2, <5>1
        <4>4. Marking(b)
          BY <1>3, <4>1, <4>2, <4>3 DEF Marking, Span
        <4> QED
          BY <4>1, <4>4 DEF CallSound
      <3>4. CASE a.run_len + 1 # a.n
        <4>1. /\ b \in Activation /\ b.pc = "scan" /\ b.n = a.n /\ b.run_start = lim /\ b.i = 0
              /\ b.f = a.f + 1 /\ b.run_len = a.run_len + 1
          <5>1. b = Moved(a, lim, a.run_len + 1, a.f + 1)
            BY <1>2, <3>1, <3>4 DEF Activation, Moved
          <5> DEFINE len == a.run_len + 1
                     next == a.f + 1
          <5>2. lim \in Nat /\ len \in Nat /\ next \in Nat /\ b = Moved(a, lim, len, next)
            BY <1>3, <5>1
          <5> HIDE DEF lim, len, next
          <5>3. /\ b \in Activation /\ b.run_start = lim /\ b.run_len = len /\ b.f = next
                /\ b.pc = a.pc /\ b.n = a.n /\ b.i = a.i
            BY <1>2, <5>2 DEF Moved, Activation
          <5> QED
            BY <1>1, <1>3, <5>3 DEF len, next
        <4>2. b.f - b.run_len = lim
          BY <1>3, <4>1
        <4> HIDE DEF lim
        <4>3. Searching(b)
          BY <1>3, <3>2, <3>4, <4>1, <4>2 DEF Searching
        <4> QED
          BY <4>1, <4>3 DEF CallSound
      <3> QED
        BY <3>3, <3>4
    <2>4. CASE ~ScanEnds(a) /\ ~FullWord(a.f) /\ a.f \in used
      <3>1. b = [a EXCEPT !.run_len = 0, !.f = @ + 1]
        BY <1>b, <2>4 DEF ScanUsed
      <3>2. /\ b \in Activation /\ b.pc = "scan" /\ b.n = a.n /\ b.f = a.f + 1 /\ b.run_len = 0
            /\ b.i = 0
        <4>1. b = Moved(a, a.run_start, 0, a.f + 1)
          BY <1>2, <3>1 DEF Activation, Moved
        <4> DEFINE next == a.f + 1
                   start == a.run_start
        <4>2. start \in Nat /\ 0 \in Nat /\ next \in Nat /\ b = Moved(a, start, 0, next)
          BY <1>3, <4>1
        <4> HIDE DEF next, start
        <4>3. /\ b \in Activation /\ b.run_start = start /\ b.run_len = 0 /\ b.f = next
              /\ b.pc = a.pc /\ b.n = a.n /\ b.i = a.i
          <5>1. a \in Activation
            BY <1>2
          <5> QED
            BY <5>1, <4>2 DEF Moved, Activation
        <4> QED
          BY <1>1, <1>3, <4>3 DEF next
      <3>3. Blocked(a.f + 1, a.n, {})
        <4>1. a.f - lim < a.n /\ \A g \in a.f .. (a.f + 1) - 1 : g \in used
          BY <1>3, <2>4
        <4> HIDE DEF lim
        <4> QED
          BY <1>3, <1>4, <2>4, <4>1, BlockedFurther
      <3>4. Searching(b)
        <4>1. b.f - b.run_len = a.f + 1 /\ Span(a.f + 1, 0) = {}
          BY <1>3, <3>2 DEF Span
        <4> QED
          BY <1>3, <3>2, <3>3, <4>1 DEF Searching
      <3> QED
        BY <3>2, <3>4 DEF CallSound
    <2> QED
      BY <2>1, <2>2, <2>3, <2>4
  <1>6. CallSound(b)'
    BY <1>1, <1>5 DEF CallSound, Searching, Marking, Found, Freeing, Clear, Blocked, RunAt, Frames,
                      frame_to_addr
  <1>7. /\ call' \in [Callers -> Activation] /\ OneActive'
        /\ \A d \in Callers : CallSound(call[d])'
    BY <1>1, <1>5, <1>6, OnlyCaller
  <1>8. FrameTypeOK' /\ FreeCountExact' /\ FramesHeldOnce' /\ ImageKept'
    BY <1>1, <1>7 DEF FrameInv, FrameTypeOK, FreeCountExact, FramesHeldOnce, ImageKept, Frames,
                      frame_to_addr
  <1>9. call'[c].n = a.n /\ \A d \in Callers \ {c} : call'[d] = call[d]
    BY <1>1, <1>5 DEF FrameInv, FrameTypeOK
  <1> QED
    BY <1>a, <1>1, <1>7, <1>8, <1>9 DEF FrameInv

LEMMA CountMarked ==
  ASSUME NEW T \in Nat, NEW u \in SUBSET (0 .. T - 1), NEW g \in (0 .. T - 1) \ u
  PROVE  /\ Cardinality(u) \in 0 .. T - 1
         /\ Cardinality(u \cup {g}) = Cardinality(u) + 1
  <1>1. IsFiniteSet(0 .. T - 1) /\ Cardinality(0 .. T - 1) = T
    BY FS_Interval
  <1>2. IsFiniteSet(u) /\ IsFiniteSet(u \cup {g})
    BY <1>1, FS_Subset, ZenonT(40)
  <1>3. Cardinality(u \cup {g}) = Cardinality(u) + 1
    BY <1>2, FS_AddElement
  <1>4. Cardinality(u \cup {g}) <= T
    BY <1>1, FS_Subset
  <1> QED
    BY <1>2, <1>3, <1>4, FS_CardinalityType

LEMMA CountCleared ==
  ASSUME NEW T \in Nat, NEW u \in SUBSET (0 .. T - 1), NEW g \in u
  PROVE  /\ Cardinality(u) \in 1 .. T
         /\ Cardinality(u \ {g}) = Cardinality(u) - 1
  <1>1. /\ Cardinality(u \ {g}) \in 0 .. T - 1
        /\ Cardinality((u \ {g}) \cup {g}) = Cardinality(u \ {g}) + 1
    BY CountMarked
  <1>2. (u \ {g}) \cup {g} = u
    OBVIOUS
  <1>3. Cardinality(u) = Cardinality(u \ {g}) + 1
    BY <1>1, <1>2
  <1> QED
    BY <1>1, <1>3

LEMMA MarkKeeps ==
  ASSUME FrameInv, ~Preemptible, NEW c \in Callers, mark(c)
  PROVE  /\ FrameInv' /\ UNCHANGED <<mem_base, total_frames, owners>>
         /\ call[c].pc = "mark" /\ call'[c].n = call[c].n
         /\ \A d \in Callers \ {c} : call'[d] = call[d]
  <1>a. PICK a : a = call[c]
    OBVIOUS
  <1>1. /\ Runs(c) /\ a.pc = "mark" /\ UNCHANGED <<mem_base, total_frames, owners>>
        /\ a \in Activation /\ Marking(a) /\ call \in [Callers -> Activation]
        /\ total_frames \in Nat /\ used \in SUBSET Frames
    BY <1>a DEF mark, FrameInv, FrameTypeOK, CallSound
  <1>2. a.i \in Nat /\ a.run_start \in Nat /\ a.n \in 1 .. MaxRun /\ a.i \in 0 .. a.n /\ a.n \in Nat
    BY <1>1, FrameAssumption DEF Activation, Marking
  <1>3. CASE a.i < a.n
    <2> DEFINE g == a.run_start + a.i
    <2>b. PICK b : b = [a EXCEPT !.i = a.i + 1]
      OBVIOUS
    <2>1. mark_used(g) /\ call' = [call EXCEPT ![c] = b]
      BY <1>a, <1>1, <1>2, <1>3, <2>b DEF mark
    <2>2. /\ b \in Activation /\ b.pc = "mark" /\ b.n = a.n /\ b.run_start = a.run_start
          /\ b.i = a.i + 1
      BY <1>1, <1>2, <2>b DEF Activation
    <2>3. g \in Span(a.run_start, a.n) /\ g \in Nat
      BY <1>2, <1>3 DEF Span
    <2>4. g \in Frames /\ g \notin used
      BY <1>1, <1>2, <2>3 DEF Marking, Clear
    <2> HIDE DEF g
    <2>5. /\ Cardinality(used) \in 0 .. total_frames - 1
          /\ Cardinality(used \cup {g}) = Cardinality(used) + 1
      BY <1>1, <2>4, CountMarked DEF Frames
    <2>6. used' = used \cup {g} /\ free_frames' = free_frames - 1
      BY <1>1, <2>1, <2>4, <2>5 DEF mark_used, FrameInv, FreeCountExact
    <2>7. CallSound(b)'
      <3>1. \A h \in Span(a.run_start, a.n) : Clear(h)' /\ (h \in used' <=> h < a.run_start + b.i)
        <4> SUFFICES ASSUME NEW h \in Span(a.run_start, a.n)
                     PROVE  Clear(h)' /\ (h \in used' <=> h < a.run_start + b.i)
          OBVIOUS
        <4>1. Clear(h) /\ (h \in used <=> h < a.run_start + a.i) /\ h \in Int
          BY <1>1, <1>2 DEF Marking, Span
        <4>2. Clear(h)'
          BY <1>1, <4>1 DEF Clear, Frames, frame_to_addr
        <4>3. h \in used' <=> h < a.run_start + b.i
          BY <1>2, <2>2, <2>6, <4>1 DEF g
        <4> QED
          BY <4>2, <4>3
      <3>2. Blocked(a.run_start, a.n, Span(a.run_start, a.n))'
        BY <1>1, <2>6 DEF Marking, Blocked
      <3> QED
        BY <1>2, <1>3, <2>2, <3>1, <3>2 DEF CallSound, Marking
    <2>8. /\ call' \in [Callers -> Activation] /\ OneActive'
          /\ \A d \in Callers : CallSound(call[d])'
      BY <1>1, <2>1, <2>2, <2>7, OnlyCaller
    <2>9. FrameTypeOK' /\ FreeCountExact'
      <3>1. free_frames = total_frames - Cardinality(used)
        BY DEF FrameInv, FreeCountExact
      <3>2. FreeCountExact' /\ free_frames' \in 0 .. total_frames
        BY <1>1, <2>5, <2>6, <3>1 DEF FreeCountExact
      <3> QED
        BY <1>1, <2>4, <2>6, <2>8, <3>2 DEF FrameInv, FrameTypeOK, Frames
    <2>10. FramesHeldOnce' /\ ImageKept'
      BY <1>1, <2>6 DEF FrameInv, FramesHeldOnce, ImageKept, Frames, frame_to_addr
    <2>11. call'[c].n = a.n /\ \A d \in Callers \ {c} : call'[d] = call[d]
      BY <1>1, <2>1, <2>2
    <2> QED
      BY <1>a, <1>1, <2>8, <2>9, <2>10, <2>11 DEF FrameInv
  <1>4. CASE a.i = a.n
    <2>b. PICK b : b = [a EXCEPT !.pc = "done", !.ret = a.run_start]
      OBVIOUS
    <2>1. call' = [call EXCEPT ![c] = b] /\ UNCHANGED <<used, free_frames>>
      <3>1. ~(a.i < a.n)
        BY <1>2, <1>4
      <3>2. /\ call' = [call EXCEPT ![c].pc = "done", ![c].ret = a.run_start]
            /\ UNCHANGED <<used, free_frames>>
        BY <1>a, <3>1 DEF mark
      <3>3. [call EXCEPT ![c].pc = "done", ![c].ret = a.run_start] = [call EXCEPT ![c] = b]
        BY <1>a, <1>1, <2>b
      <3> QED
        BY <3>2, <3>3
    <2>2. b \in Activation /\ b.pc = "done" /\ b.n = a.n /\ b.ret = a.run_start
      BY <1>1, <1>2, <2>b DEF Activation
    <2>3. CallSound(b)'
      <3>1. \A h \in Span(a.run_start, a.n) : Clear(h)' /\ h \in used'
        <4> SUFFICES ASSUME NEW h \in Span(a.run_start, a.n)
                     PROVE  Clear(h)' /\ h \in used'
          OBVIOUS
        <4>1. Clear(h) /\ (h \in used <=> h < a.run_start + a.i) /\ h < a.run_start + a.n
          BY <1>1, <1>2 DEF Marking, Span
        <4> QED
          BY <1>1, <1>4, <2>1, <4>1 DEF Clear, Frames, frame_to_addr
      <3>2. Blocked(a.run_start, a.n, Span(a.run_start, a.n))'
        BY <1>1, <2>1 DEF Marking, Blocked
      <3>3. a.run_start # None
        BY <1>2 DEF None
      <3> QED
        BY <1>2, <2>2, <3>1, <3>2, <3>3 DEF CallSound, Found
    <2>4. /\ call' \in [Callers -> Activation] /\ OneActive'
          /\ \A d \in Callers : CallSound(call[d])'
      BY <1>1, <2>1, <2>2, <2>3, OnlyCaller
    <2>5. FrameTypeOK' /\ FreeCountExact' /\ FramesHeldOnce' /\ ImageKept'
      BY <1>1, <2>1, <2>4 DEF FrameInv, FrameTypeOK, FreeCountExact, FramesHeldOnce, ImageKept,
                              Frames, frame_to_addr
    <2>6. call'[c].n = a.n /\ \A d \in Callers \ {c} : call'[d] = call[d]
      BY <1>1, <2>1, <2>2
    <2> QED
      BY <1>a, <1>1, <2>4, <2>5, <2>6 DEF FrameInv
  <1> QED
    BY <1>2, <1>3, <1>4

LEMMA UnmarkKeeps ==
  ASSUME FrameInv, ~Preemptible, NEW c \in Callers, unmark(c)
  PROVE  /\ FrameInv' /\ UNCHANGED <<mem_base, total_frames, owners>>
         /\ call[c].pc = "free" /\ call'[c].pc \in {"free", "idle"}
         /\ \A d \in Callers \ {c} : call'[d] = call[d]
  <1>a. PICK a : a = call[c]
    OBVIOUS
  <1>1. /\ Runs(c) /\ a.pc = "free" /\ UNCHANGED <<mem_base, total_frames, owners>>
        /\ a \in Activation /\ Freeing(a) /\ call \in [Callers -> Activation]
        /\ total_frames \in Nat /\ used \in SUBSET Frames
    BY <1>a DEF unmark, FrameInv, FrameTypeOK, CallSound
  <1>2. a.i \in Nat /\ a.run_start \in Nat /\ a.n \in 1 .. MaxRun /\ a.i \in 0 .. a.n /\ a.n \in Nat
    BY <1>1, FrameAssumption DEF Activation, Freeing
  <1>3. CASE a.i < a.n
    <2> DEFINE g == a.run_start + a.i
    <2>b. PICK b : b = [a EXCEPT !.i = a.i + 1]
      OBVIOUS
    <2>1. /\ IF g < total_frames /\ g \in used
             THEN used' = used \ {g} /\ free_frames' = free_frames + 1
             ELSE UNCHANGED <<used, free_frames>>
          /\ call' = [call EXCEPT ![c] = b]
      BY <1>a, <1>1, <1>2, <1>3, <2>b DEF unmark
    <2>2. /\ b \in Activation /\ b.pc = "free" /\ b.n = a.n /\ b.run_start = a.run_start
          /\ b.i = a.i + 1
      BY <1>1, <1>2, <2>b DEF Activation
    <2>3. g \in Span(a.run_start, a.n) /\ g \in Nat
      BY <1>2, <1>3 DEF Span
    <2>4. g \in Frames /\ owners[g] = 0 /\ frame_to_addr(g) >= KernelEnd /\ g < total_frames
      BY <1>1, <1>2, <2>3 DEF Freeing, Clear, Frames
    <2> HIDE DEF g
    <2>5. CallSound(b)'
      <3>1. \A h \in Span(a.run_start, a.n) : Clear(h)'
        BY <1>1 DEF Freeing, Clear, Frames, frame_to_addr
      <3> QED
        BY <1>2, <1>3, <2>2, <3>1 DEF CallSound, Freeing
    <2>6. /\ call' \in [Callers -> Activation] /\ OneActive'
          /\ \A d \in Callers : CallSound(call[d])'
      BY <1>1, <2>1, <2>2, <2>5, OnlyCaller
    <2>7. call'[c].pc = "free" /\ \A d \in Callers \ {c} : call'[d] = call[d]
      BY <1>1, <2>1, <2>2
    <2>8. CASE g \in used
      <3>1. used' = used \ {g} /\ free_frames' = free_frames + 1
        BY <2>1, <2>4, <2>8
      <3>2. Cardinality(used) \in 1 .. total_frames /\ Cardinality(used \ {g}) = Cardinality(used) - 1
        BY <1>1, <2>8, CountCleared DEF Frames
      <3>3. free_frames = total_frames - Cardinality(used)
        BY DEF FrameInv, FreeCountExact
      <3>4. FreeCountExact' /\ free_frames' \in 0 .. total_frames
        BY <1>1, <3>1, <3>2, <3>3 DEF FreeCountExact
      <3>5. FrameTypeOK'
        BY <1>1, <2>6, <3>1, <3>4 DEF FrameInv, FrameTypeOK, Frames
      <3>6. FramesHeldOnce'
        BY <1>1, <2>4, <3>1 DEF FrameInv, FramesHeldOnce, Frames, frame_to_addr
      <3>7. ImageKept'
        <4>1. frame_to_addr(g) \in Nat /\ KernelEnd \in Nat
          BY <1>1, <2>3, FrameAssumption, ProductNat DEF FrameInv, FrameTypeOK, frame_to_addr
        <4>2. ~(frame_to_addr(g) < KernelEnd)
          BY <2>4, <4>1
        <4> QED
          BY <1>1, <3>1, <4>2 DEF FrameInv, ImageKept, Frames, frame_to_addr
      <3> QED
        BY <1>a, <1>1, <2>6, <2>7, <3>4, <3>5, <3>6, <3>7 DEF FrameInv
    <2>9. CASE g \notin used
      <3>1. UNCHANGED <<used, free_frames>>
        BY <2>1, <2>9
      <3>2. FrameTypeOK' /\ FreeCountExact' /\ FramesHeldOnce' /\ ImageKept'
        BY <1>1, <2>6, <3>1 DEF FrameInv, FrameTypeOK, FreeCountExact, FramesHeldOnce, ImageKept,
                                Frames, frame_to_addr
      <3> QED
        BY <1>a, <1>1, <2>6, <2>7, <3>2 DEF FrameInv
    <2> QED
      BY <2>8, <2>9
  <1>4. CASE a.i = a.n
    <2>1. call' = [call EXCEPT ![c] = Idle] /\ UNCHANGED <<used, free_frames>>
      BY <1>a, <1>2, <1>4 DEF unmark
    <2>2. CallSound(Idle)'
      BY IdleSound DEF CallSound
    <2>3. /\ call' \in [Callers -> Activation] /\ OneActive'
          /\ \A d \in Callers : CallSound(call[d])'
      BY <1>1, <2>1, <2>2, IdleSound, OnlyCaller
    <2>4. FrameTypeOK' /\ FreeCountExact' /\ FramesHeldOnce' /\ ImageKept'
      BY <1>1, <2>1, <2>3 DEF FrameInv, FrameTypeOK, FreeCountExact, FramesHeldOnce, ImageKept,
                              Frames, frame_to_addr
    <2>5. call'[c].pc = "idle" /\ \A d \in Callers \ {c} : call'[d] = call[d]
      BY <1>1, <2>1, IdleSound
    <2> QED
      BY <1>a, <1>1, <2>3, <2>4, <2>5 DEF FrameInv
  <1> QED
    BY <1>2, <1>3, <1>4

-----------------------------------------------------------------------------
(***************************************************************************)
(* The boot                                                                *)
(***************************************************************************)
\* Every frame that begins below the image's end is one of its frames.
LEMMA ImageCovered ==
  ASSUME NEW base \in Nat, NEW T \in Nat, NEW f \in 0 .. T - 1, base + f * PageSize < KernelEnd
  PROVE  f \in ImageFrames(base, T)
  <1>1. PageSize \in Nat \ {0} /\ KernelEnd \in Nat /\ f \in Nat
    BY FrameAssumption
  <1>2. f * PageSize \in Nat
    BY <1>1, ProductNat
  <1>3. KernelEnd > base
    BY <1>1, <1>2
  <1> DEFINE d == KernelEnd - base + PageSize - 1
             q == d \div PageSize
  <1>4. d \in Nat
    BY <1>1, <1>3
  <1>5. f * PageSize + PageSize <= d
    BY <1>1, <1>2, <1>3
  <1> HIDE DEF d
  <1>6. q \in Nat /\ q * PageSize <= d /\ d < q * PageSize + PageSize
    BY <1>1, <1>4, DivisionBounds
  <1> HIDE DEF q
  <1>7. q * PageSize \in Nat
    BY <1>1, <1>6, ProductNat
  <1>8. f * PageSize < q * PageSize
    BY <1>1, <1>2, <1>4, <1>5, <1>6, <1>7
  <1>9. f < q
    BY <1>1, <1>6, <1>8, ProductOrder
  <1>10. ImageFrames(base, T) = 0 .. Least(q, T) - 1
    BY <1>3 DEF ImageFrames, q, d
  <1> QED
    BY <1>1, <1>6, <1>9, <1>10 DEF Least

LEMMA ImageInFrames ==
  ASSUME NEW base \in Nat, NEW T \in Nat
  PROVE  ImageFrames(base, T) \subseteq 0 .. T - 1
  <1> DEFINE d == KernelEnd - base + PageSize - 1
             q == d \div PageSize
  <1>1. CASE KernelEnd > base
    <2>1. d \in Nat /\ PageSize \in Nat \ {0}
      BY <1>1, FrameAssumption
    <2>2. ImageFrames(base, T) = 0 .. Least(q, T) - 1
      BY <1>1 DEF ImageFrames
    <2> HIDE DEF d
    <2>3. q \in Nat
      BY <2>1, DivisionBounds
    <2> HIDE DEF q
    <2> QED
      BY <2>2, <2>3 DEF Least
  <1>2. CASE ~(KernelEnd > base)
    BY <1>2 DEF ImageFrames
  <1> QED
    BY <1>1, <1>2

LEMMA InitSound == Init => FrameInv /\ HoldInv
  <1> SUFFICES ASSUME Init PROVE FrameInv /\ HoldInv
    OBVIOUS
  <1>1. PICK rs \in Maps : InitFromMap(rs)
    BY DEF Init, FrameInit
  <1>2. PICK i \in DOMAIN rs :
           /\ IsLargestUsable(rs, i)
           /\ mem_base = TrimmedBase(rs[i])
           /\ total_frames = Least(TrimmedSize(rs[i]) \div PageSize, MaxFrames)
           /\ used = ImageFrames(mem_base, total_frames)
           /\ free_frames = total_frames - Cardinality(used)
    BY <1>1 DEF InitFromMap
  <1>3. call = [c \in Callers |-> Idle] /\ owners = [f \in 0 .. total_frames - 1 |-> 0]
    BY DEF Init, FrameInit
  <1>4. mem_base \in Nat /\ TrimmedSize(rs[i]) \in Nat
    <2>1. rs[i] \in MemoryRegion
      BY FrameAssumption
    <2>2. PICK r : r = rs[i]
      OBVIOUS
    <2>3. r.base \in Nat /\ r.size \in Nat
      BY <2>1, <2>2 DEF MemoryRegion
    <2>4. TrimmedSize(r) > 0 /\ mem_base = TrimmedBase(r)
      BY <1>2, <2>2 DEF IsLargestUsable, Candidates
    <2>5. TrimmedBase(r) \in Nat
      BY <2>3, FrameAssumption DEF TrimmedBase
    <2>6. TrimmedSize(r) \in Nat
      BY <2>3, <2>4, <2>5 DEF TrimmedSize, RegionEnd
    <2> QED
      BY <2>2, <2>4, <2>5, <2>6
  <1>5. total_frames \in 0 .. MaxFrames /\ total_frames \in Nat
    <2> DEFINE d == TrimmedSize(rs[i])
               q == d \div PageSize
    <2>1. total_frames = Least(q, MaxFrames)
      BY <1>2
    <2>2. q \in Nat
      BY <1>4, FrameAssumption, DivisionBounds
    <2> HIDE DEF q
    <2> QED
      BY <2>1, <2>2, FrameAssumption DEF Least
  <1>6. used \subseteq 0 .. total_frames - 1
    BY <1>2, <1>4, <1>5, ImageInFrames
  <1>7. Cardinality(used) \in 0 .. total_frames
    <2>1. IsFiniteSet(0 .. total_frames - 1) /\ Cardinality(0 .. total_frames - 1) = total_frames
      BY <1>5, FS_Interval
    <2>2. IsFiniteSet(used) /\ Cardinality(used) <= Cardinality(0 .. total_frames - 1)
      BY <1>6, <2>1, FS_Subset
    <2> QED
      BY <1>5, <2>1, <2>2, FS_CardinalityType
  <1>8. FrameTypeOK /\ FreeCountExact
    BY <1>2, <1>3, <1>4, <1>5, <1>6, <1>7, IdleSound DEF FrameTypeOK, FreeCountExact, Frames
  <1>9. FramesHeldOnce /\ ImageKept
    BY <1>2, <1>3, <1>4, <1>5, ImageCovered DEF FramesHeldOnce, ImageKept, Frames, frame_to_addr
  <1>10. OneActive /\ \A c \in Callers : CallSound(call[c])
    BY <1>3, IdleSound DEF OneActive, CallSound
  <1>11. HoldInv
    <2>1. live = {} /\ pages = {} /\ request = [c \in Callers |-> NoRequest]
      BY DEF Init, HeapInit
    <2>2. NoRequest \in Requests /\ \A c \in Callers : call[c].pc = "idle"
      BY <1>3, IdleSound DEF NoRequest, Requests
    <2> QED
      BY <2>1, <2>2 DEF HoldInv, RunsHeld, RunsApart, RequestsSound, LargeBlocks, CachesTyped, Init,
                        HeapInit
  <1> QED
    BY <1>8, <1>9, <1>10, <1>11 DEF FrameInv

-----------------------------------------------------------------------------
(***************************************************************************)
(* The callers                                                             *)
(***************************************************************************)
LEMMA SizesPositive ==
  ASSUME NEW l, l.size \in Nat, l.align \in Nat \ {0}
  PROVE  SizeOf(l) \in Nat \ {0} /\ PagesFor(SizeOf(l)) \in Nat \ {0}
  <1>1. Classes[1] \in 1 .. PageSize /\ PageSize \in Nat \ {0}
    BY HeapAssumption, FrameAssumption
  <1>2. SizeOf(l) \in Nat \ {0}
    BY <1>1 DEF SizeOf
  <1> DEFINE s == SizeOf(l)
             d == s + PageSize - 1
             q == d \div PageSize
  <1>3. d \in Nat /\ PageSize <= d
    BY <1>1, <1>2
  <1>4. PagesFor(s) = q
    BY DEF PagesFor
  <1> HIDE DEF d, s
  <1>5. q \in Nat /\ d < q * PageSize + PageSize
    BY <1>1, <1>3, DivisionBounds
  <1> HIDE DEF q
  <1>6. q # 0
    BY <1>1, <1>3, <1>5
  <1> QED
    BY <1>2, <1>4, <1>5, <1>6 DEF s

LEMMA ClassTyped ==
  ASSUME NEW k \in DOMAIN Classes
  PROVE  Classes[k] \in 1 .. PageSize
  <1>1. Classes \in Seq(1 .. PageSize)
    BY HeapAssumption
  <1> QED
    BY <1>1, FrameAssumption

LEMMA ClassNotLarge ==
  ASSUME NEW size \in Nat, NEW k, IsClass(size, k)
  PROVE  ~IsLarge(size)
  <1>1. k \in DOMAIN Classes /\ Classes[k] >= size /\ Classes[k] \in Nat
    BY HeapAssumption, FrameAssumption DEF IsClass
  <1> QED
    BY <1>1 DEF IsLarge

LEMMA BlockSize ==
  ASSUME NEW addr, NEW l
  PROVE  SizeOf(Block(addr, l)) = SizeOf(l) /\ Block(addr, l).addr = addr
  BY DEF SizeOf, Block

\* addr_to_frame undoes frame_to_addr.
LEMMA FrameOfAddr ==
  ASSUME mem_base \in Nat, NEW g \in Nat
  PROVE  frame_to_addr(g) \in Nat /\ addr_to_frame(frame_to_addr(g)) = g
  <1>1. PageSize \in Nat \ {0} /\ g * PageSize \in Nat /\ 0 \in 0 .. PageSize - 1
    BY FrameAssumption, ProductNat
  <1>2. (g * PageSize + 0) \div PageSize = g
    BY <1>1, QuotientUnique
  <1>3. frame_to_addr(g) - mem_base = g * PageSize + 0
    BY <1>1 DEF frame_to_addr
  <1> QED
    BY <1>1, <1>2, <1>3 DEF addr_to_frame, frame_to_addr

\* A run that a step leaves alone stays held.
LEMMA HeldStays ==
  ASSUME NEW F, NEW first, NEW n, Held(first, n), Span(first, n) \cap F = {},
         UNCHANGED total_frames, \A f \in Frames \ F : owners'[f] = owners[f]
  PROVE  Held(first, n)'
  BY DEF Held, Frames

\* Nothing changes hands.
LEMMA HoldSame ==
  ASSUME RunsHeld, RunsApart, UNCHANGED <<mem_base, total_frames, owners, pages>>,
         live' \subseteq Blocks, LargeBlocks' \subseteq LargeBlocks
  PROVE  RunsHeld' /\ RunsApart'
  <1>1. \A b \in LargeBlocks' : b \in LargeBlocks
    OBVIOUS
  <1>2. \A b : FirstFrame(b)' = FirstFrame(b) /\ FramesOf(b)' = FramesOf(b)
    BY DEF FirstFrame, FramesOf, addr_to_frame
  <1>3. \A first, n : Held(first, n) => Held(first, n)'
    BY DEF Held, Frames
  <1>4. RunsHeld'
    BY <1>1, <1>2, <1>3 DEF RunsHeld, frame_to_addr
  <1>5. RunsApart'
    BY <1>1, <1>2 DEF RunsApart
  <1> QED
    BY <1>4, <1>5

\* The frames of F change hands, and F meets no run that is kept.
LEMMA HoldFreed ==
  ASSUME RunsHeld, RunsApart, NEW F, UNCHANGED <<mem_base, total_frames>>,
         \A f \in Frames \ F : owners'[f] = owners[f],
         live' \subseteq live, pages' \subseteq pages,
         \A r \in pages' : Span(r.first, r.n) \cap F = {},
         \A b \in LargeBlocks' : FramesOf(b) \cap F = {}
  PROVE  RunsHeld' /\ RunsApart'
  <1>1. \A b \in LargeBlocks' : b \in LargeBlocks
    BY DEF LargeBlocks
  <1>2. \A b : FirstFrame(b)' = FirstFrame(b) /\ FramesOf(b)' = FramesOf(b)
    BY DEF FirstFrame, FramesOf, addr_to_frame
  <1>3. \A first, n : Held(first, n) /\ Span(first, n) \cap F = {} => Held(first, n)'
    BY HeldStays
  <1>4. \A r \in pages' : Held(r.first, r.n)'
    BY <1>3 DEF RunsHeld
  <1>5. \A b \in LargeBlocks' : /\ b.addr = frame_to_addr(FirstFrame(b))'
                                /\ Held(FirstFrame(b), PagesFor(SizeOf(b)))'
    <2> SUFFICES ASSUME NEW b \in LargeBlocks'
                 PROVE  /\ b.addr = frame_to_addr(FirstFrame(b))'
                        /\ Held(FirstFrame(b), PagesFor(SizeOf(b)))'
      OBVIOUS
    <2>1. b.addr = frame_to_addr(FirstFrame(b)) /\ Held(FirstFrame(b), PagesFor(SizeOf(b)))
      BY <1>1 DEF RunsHeld
    <2>2. Span(FirstFrame(b), PagesFor(SizeOf(b))) \cap F = {}
      BY DEF FramesOf
    <2>3. PICK g : g = FirstFrame(b)
      OBVIOUS
    <2>4. Held(g, PagesFor(SizeOf(b)))'
      BY <1>3, <2>1, <2>2, <2>3
    <2>5. FirstFrame(b)' = g /\ frame_to_addr(g)' = frame_to_addr(g)
      BY <1>2, <2>3 DEF frame_to_addr
    <2> QED
      BY <2>1, <2>3, <2>4, <2>5 DEF frame_to_addr
  <1>6. RunsHeld'
    BY <1>4, <1>5 DEF RunsHeld
  <1>7. RunsApart'
    BY <1>1, <1>2 DEF RunsApart
  <1> QED
    BY <1>6, <1>7

\* The request of one caller and its activation change.
LEMMA RequestsKept ==
  ASSUME RequestsSound, NEW c \in Callers, NEW q \in Requests,
         call' \in [Callers -> Activation], \A d \in Callers \ {c} : call'[d] = call[d],
         request' = [request EXCEPT ![c] = q],
         call'[c].pc \in {"scan", "mark", "done"} => RequestSound(q, call'[c])
  PROVE  RequestsSound'
  <1>1. request' \in [Callers -> Requests] /\ request'[c] = q
        /\ \A d \in Callers \ {c} : request'[d] = request[d]
    BY DEF RequestsSound
  <1>2. ASSUME NEW d \in Callers, call'[d].pc \in {"scan", "mark", "done"}
        PROVE  RequestSound(request'[d], call'[d])
    <2>1. CASE d = c
      BY <1>1, <1>2, <2>1
    <2>2. CASE d # c
      BY <1>1, <1>2, <2>2 DEF RequestsSound
    <2> QED
      BY <2>1, <2>2
  <1> QED
    BY <1>1, <1>2 DEF RequestsSound

LEMMA RequestTyped ==
  ASSUME RequestsSound, NEW c \in Callers
  PROVE  request = [request EXCEPT ![c] = request[c]] /\ request[c] \in Requests
  BY DEF RequestsSound

LEMMA PagesTyped ==
  /\ [NoRequest EXCEPT !.kind = "pages"] \in Requests
  /\ [NoRequest EXCEPT !.kind = "pages"].kind = "pages"
  /\ NoRequest \in Requests
  BY DEF NoRequest, Requests

LEMMA AllocPagesKeeps ==
  ASSUME FrameInv, HoldInv, ~Preemptible, NEW c \in Callers, NEW n \in 1 .. MaxRun,
         alloc_pages(c, n)
  PROVE  FrameInv' /\ HoldInv'
  <1>1. /\ FrameInv' /\ call'[c].pc = "scan" /\ call'[c].n = n
        /\ UNCHANGED <<mem_base, total_frames, owners>>
        /\ \A d \in Callers \ {c} : call'[d] = call[d]
    BY AllocKeeps DEF alloc_pages
  <1>2. UNCHANGED <<caches, live, pages>>
        /\ request' = [request EXCEPT ![c] = [NoRequest EXCEPT !.kind = "pages"]]
    BY DEF alloc_pages
  <1>3. RunsHeld' /\ RunsApart'
    BY <1>1, <1>2, HoldSame DEF HoldInv, RunsHeld, LargeBlocks
  <1> DEFINE q == [NoRequest EXCEPT !.kind = "pages"]
  <1>4. q \in Requests /\ request' = [request EXCEPT ![c] = q] /\ RequestSound(q, call'[c])
    BY <1>2, PagesTyped DEF RequestSound
  <1> HIDE DEF q
  <1>5. RequestsSound'
    BY <1>1, <1>4, RequestsKept DEF HoldInv, FrameInv, FrameTypeOK
  <1> QED
    BY <1>1, <1>2, <1>3, <1>5 DEF HoldInv, CachesTyped

LEMMA FreePagesKeeps ==
  ASSUME FrameInv, HoldInv, ~Preemptible, NEW c \in Callers, NEW r \in pages, free_pages(c, r)
  PROVE  FrameInv' /\ HoldInv'
  <1>1. Held(r.first, r.n) /\ r.first \in Nat /\ mem_base \in Nat
    BY DEF HoldInv, RunsHeld, FrameInv, FrameTypeOK
  <1>2. /\ free_frames_of(c, r.first, r.n) /\ pages' = pages \ {r}
        /\ UNCHANGED <<caches, live, request>>
    BY <1>1, FrameOfAddr DEF free_pages
  <1> DEFINE first == r.first
             n == r.n
             F == Span(first, n)
  <1>3. Held(first, n) /\ free_frames_of(c, first, n)
    BY <1>1, <1>2
  <1>4. F = Span(r.first, r.n)
    OBVIOUS
  <1> HIDE DEF first, n
  <1>5. /\ FrameInv' /\ call'[c].pc = "free"
        /\ \A f \in Frames \ F : owners'[f] = owners[f]
        /\ UNCHANGED <<mem_base, total_frames>>
        /\ \A d \in Callers \ {c} : call'[d] = call[d]
    BY <1>3, FreeKeeps
  <1> HIDE DEF F
  <1>6. RunsHeld' /\ RunsApart'
    <2>1. \A p \in pages' : Span(p.first, p.n) \cap F = {}
      BY <1>2, <1>4 DEF HoldInv, RunsApart
    <2>2. \A b \in LargeBlocks' : FramesOf(b) \cap F = {}
      BY <1>2, <1>4 DEF HoldInv, RunsApart, LargeBlocks
    <2> QED
      BY <1>2, <1>5, <2>1, <2>2, HoldFreed DEF HoldInv
  <1>7. RequestsSound'
    <2>1. PICK p \in Requests : p = request[c] /\ request' = [request EXCEPT ![c] = p]
      BY <1>2, RequestTyped DEF HoldInv
    <2> QED
      BY <1>5, <2>1, RequestsKept DEF HoldInv, FrameInv, FrameTypeOK
  <1> QED
    BY <1>2, <1>5, <1>6, <1>7 DEF HoldInv, CachesTyped

LEMMA LayoutTyped ==
  ASSUME NEW l \in Layouts
  PROVE  /\ l.size \in Nat /\ l.align \in Nat \ {0}
         /\ SizeOf(l) \in Nat \ {0} /\ PagesFor(SizeOf(l)) \in 1 .. MaxRun /\ 1 \in 1 .. MaxRun
  <1>1. l.size \in Nat /\ l.align \in Nat \ {0}
    BY HeapAssumption
  <1>2. SizeOf(l) \in Nat \ {0} /\ PagesFor(SizeOf(l)) \in Nat \ {0}
    BY <1>1, SizesPositive
  <1>3. PagesFor(SizeOf(l)) <= MaxRun
    BY LayoutAssumption
  <1> QED
    BY <1>1, <1>2, <1>3, FrameAssumption

\* A block of a cache is no large block.
LEMMA SmallBlockAdded ==
  ASSUME RunsHeld, NEW addr \in Nat, NEW l, l.size \in Nat, l.align \in Nat \ {0},
         NEW k, IsClass(SizeOf(l), k), live' = live \cup {Block(addr, l)}
  PROVE  live' \subseteq Blocks /\ LargeBlocks' = LargeBlocks
  <1>1. Block(addr, l) \in Blocks
    BY DEF Block, Blocks
  <1>2. SizeOf(l) \in Nat
    BY SizesPositive
  <1>3. ~IsLarge(SizeOf(Block(addr, l)))
    BY <1>2, ClassNotLarge, BlockSize
  <1> QED
    BY <1>1, <1>3 DEF RunsHeld, LargeBlocks

LEMMA SlabAllocKeeps ==
  ASSUME FrameInv, HoldInv, ~Preemptible, NEW c \in Callers, NEW l \in Layouts, slab_alloc(c, l)
  PROVE  FrameInv' /\ HoldInv'
  <1>1. UNCHANGED <<mem_base, total_frames, used, free_frames, call, owners, pages, request>>
    BY DEF slab_alloc, frameVars
  <1>2. PICK k \in DOMAIN Classes :
           /\ IsClass(SizeOf(l), k) /\ caches[k] # <<>>
           /\ caches' = [caches EXCEPT ![k] = Tail(@)]
           /\ Allocated(l, Head(caches[k]))
    BY DEF slab_alloc
  <1>3. caches[k] \in Seq(Nat) /\ caches \in [DOMAIN Classes -> Seq(Nat)]
    BY DEF HoldInv, CachesTyped
  <1>4. PICK addr \in Nat : addr = Head(caches[k])
    BY <1>2, <1>3
  <1>5. live' = live \cup {Block(addr, l)}
    BY <1>2, <1>4 DEF Allocated
  <1>6. live' \subseteq Blocks /\ LargeBlocks' = LargeBlocks
    BY <1>2, <1>5, LayoutTyped, SmallBlockAdded DEF HoldInv
  <1>7. RunsHeld' /\ RunsApart'
    BY <1>1, <1>6, HoldSame DEF HoldInv
  <1>8. CachesTyped'
    BY <1>2, <1>3 DEF CachesTyped
  <1>9. RequestsSound'
    BY <1>1 DEF HoldInv, RequestsSound
  <1>10. FrameInv'
    BY <1>1 DEF FrameInv, FrameTypeOK, FreeCountExact, FramesHeldOnce, ImageKept, OneActive, CallSound,
                Searching, Marking, Found, Freeing, Clear, Blocked, RunAt, Frames, frame_to_addr
  <1> QED
    BY <1>7, <1>8, <1>9, <1>10 DEF HoldInv

LEMMA SlabAllocPagesKeeps ==
  ASSUME FrameInv, HoldInv, ~Preemptible, NEW c \in Callers, NEW l \in Layouts,
         slab_alloc_pages(c, l)
  PROVE  FrameInv' /\ HoldInv'
  <1>1. UNCHANGED <<caches, live, pages>>
    BY DEF slab_alloc_pages
  <1>2. PICK n \in 1 .. MaxRun, q \in Requests :
           /\ alloc_frames(c, n) /\ request' = [request EXCEPT ![c] = q]
           /\ \A a : a.n = n => RequestSound(q, a)
    <2>1. CASE /\ \E k \in DOMAIN Classes : IsClass(SizeOf(l), k) /\ caches[k] = <<>>
               /\ alloc_frames(c, 1)
               /\ request' = [request EXCEPT ![c] =
                                [kind |-> "grow", size |-> l.size, align |-> l.align]]
      <3>1. PICK q : q = [kind |-> "grow", size |-> l.size, align |-> l.align]
        OBVIOUS
      <3>2. q \in Requests /\ q.kind = "grow" /\ SizeOf(q) = SizeOf(l)
        BY <3>1, LayoutTyped DEF Requests, SizeOf
      <3>3. \A a : a.n = 1 => RequestSound(q, a)
        BY <2>1, <3>2 DEF RequestSound
      <3> QED
        BY <2>1, <3>1, <3>2, <3>3, LayoutTyped
    <2>2. CASE /\ IsLarge(SizeOf(l))
               /\ alloc_frames(c, PagesFor(SizeOf(l)))
               /\ request' = [request EXCEPT ![c] =
                                [kind |-> "large", size |-> l.size, align |-> l.align]]
      <3>1. PICK q : q = [kind |-> "large", size |-> l.size, align |-> l.align]
        OBVIOUS
      <3>2. q \in Requests /\ q.kind = "large" /\ SizeOf(q) = SizeOf(l)
        BY <3>1, LayoutTyped DEF Requests, SizeOf
      <3>3. \A a : a.n = PagesFor(SizeOf(l)) => RequestSound(q, a)
        BY <2>2, <3>2 DEF RequestSound
      <3> QED
        BY <2>2, <3>1, <3>2, <3>3, LayoutTyped
    <2> QED
      BY <2>1, <2>2 DEF slab_alloc_pages
  <1>3. /\ FrameInv' /\ call'[c].pc = "scan" /\ call'[c].n = n
        /\ UNCHANGED <<mem_base, total_frames, owners>>
        /\ \A d \in Callers \ {c} : call'[d] = call[d]
    BY <1>2, AllocKeeps
  <1>4. RunsHeld' /\ RunsApart'
    BY <1>1, <1>3, HoldSame DEF HoldInv, RunsHeld, LargeBlocks
  <1>5. RequestsSound'
    BY <1>2, <1>3, RequestsKept DEF HoldInv, FrameInv, FrameTypeOK
  <1> QED
    BY <1>1, <1>3, <1>4, <1>5 DEF HoldInv, CachesTyped

LEMMA DeallocKeeps ==
  ASSUME FrameInv, HoldInv, ~Preemptible, NEW c \in Callers, NEW b \in live, dealloc(c, b)
  PROVE  FrameInv' /\ HoldInv'
  <1>1. live' = live \ {b} /\ UNCHANGED <<pages, request>> /\ b \in Blocks
        /\ caches \in [DOMAIN Classes -> Seq(Nat)]
    BY DEF dealloc, HoldInv, RunsHeld, CachesTyped
  <1>2. CASE /\ \E k \in DOMAIN Classes :
                  /\ IsClass(SizeOf(b), k)
                  /\ caches' = [caches EXCEPT ![k] = <<b.addr>> \o @]
             /\ UNCHANGED frameVars
    <2>1. UNCHANGED <<mem_base, total_frames, used, free_frames, call, owners>>
      BY <1>2 DEF frameVars
    <2>2. live' \subseteq Blocks /\ LargeBlocks' \subseteq LargeBlocks
      BY <1>1 DEF HoldInv, RunsHeld, LargeBlocks
    <2>3. RunsHeld' /\ RunsApart'
      BY <1>1, <2>1, <2>2, HoldSame DEF HoldInv
    <2>4. CachesTyped'
      <3>1. b.addr \in Nat
        BY <1>1 DEF Blocks
      <3>2. <<b.addr>> \in Seq(Nat)
        BY <3>1
      <3> QED
        BY <1>1, <1>2, <3>2 DEF CachesTyped
    <2>5. RequestsSound'
      BY <1>1, <2>1 DEF HoldInv, RequestsSound
    <2>6. FrameInv'
      BY <2>1 DEF FrameInv, FrameTypeOK, FreeCountExact, FramesHeldOnce, ImageKept, OneActive, CallSound,
                  Searching, Marking, Found, Freeing, Clear, Blocked, RunAt, Frames, frame_to_addr
    <2> QED
      BY <2>3, <2>4, <2>5, <2>6 DEF HoldInv
  <1>3. CASE /\ IsLarge(SizeOf(b))
             /\ free_frames_of(c, addr_to_frame(b.addr), PagesFor(SizeOf(b)))
             /\ UNCHANGED caches
    <2>1. PICK first, n : first = FirstFrame(b) /\ n = PagesFor(SizeOf(b))
      OBVIOUS
    <2>2. Held(first, n) /\ free_frames_of(c, first, n) /\ b \in LargeBlocks
      BY <1>3, <2>1 DEF HoldInv, RunsHeld, LargeBlocks, FirstFrame
    <2> DEFINE F == Span(first, n)
    <2>3. /\ FrameInv' /\ call'[c].pc = "free"
          /\ \A f \in Frames \ F : owners'[f] = owners[f]
          /\ UNCHANGED <<mem_base, total_frames>>
          /\ \A d \in Callers \ {c} : call'[d] = call[d]
      BY <2>2, FreeKeeps
    <2>4. F = FramesOf(b)
      BY <2>1 DEF FramesOf
    <2> HIDE DEF F
    <2>5. RunsHeld' /\ RunsApart'
      <3>1. \A p \in pages' : Span(p.first, p.n) \cap F = {}
        BY <1>1, <2>2, <2>4 DEF HoldInv, RunsApart
      <3>2. \A d \in LargeBlocks' : FramesOf(d) \cap F = {}
        BY <1>1, <2>2, <2>4 DEF HoldInv, RunsApart, LargeBlocks
      <3> QED
        BY <1>1, <2>3, <3>1, <3>2, HoldFreed DEF HoldInv
    <2>6. RequestsSound'
      <3>1. PICK p \in Requests : p = request[c] /\ request' = [request EXCEPT ![c] = p]
        BY <1>1, RequestTyped DEF HoldInv
      <3> QED
        BY <2>3, <3>1, RequestsKept DEF HoldInv, FrameInv, FrameTypeOK
    <2> QED
      BY <1>1, <1>3, <2>3, <2>5, <2>6 DEF HoldInv, CachesTyped
  <1> QED
    BY <1>2, <1>3 DEF dealloc

\* The blocks that grow puts on a cache are addresses.
LEMMA CarvedTyped ==
  ASSUME NEW addr \in Nat, NEW size \in 1 .. PageSize
  PROVE  Tail(Carved(addr, size)) \in Seq(Nat)
  <1>1. size \in Nat \ {0} /\ PageSize \in Nat \ {0}
    BY FrameAssumption
  <1> DEFINE m == PageSize \div size
  <1>2. m \in Nat /\ PageSize < m * size + size
    BY <1>1, DivisionBounds
  <1>3. Carved(addr, size) = [i \in 1 .. m |-> addr + (i - 1) * size]
    BY DEF Carved
  <1> HIDE DEF m
  <1>4. m # 0
    BY <1>1, <1>2
  <1>5. \A i \in 1 .. m : addr + (i - 1) * size \in Nat
    <2> SUFFICES ASSUME NEW i \in 1 .. m
                 PROVE  addr + (i - 1) * size \in Nat
      OBVIOUS
    <2> DEFINE j == i - 1
    <2>1. j \in Nat
      BY <1>2
    <2> HIDE DEF j
    <2>2. j * size \in Nat
      BY <1>1, <2>1, ProductNat
    <2> QED
      BY <2>2 DEF j
  <1> DEFINE s == Carved(addr, size)
  <1>6. s \in Seq(Nat) /\ Len(s) = m
    BY <1>2, <1>3, <1>5
  <1> HIDE DEF s
  <1>7. s # <<>>
    BY <1>2, <1>4, <1>6
  <1>8. Tail(s) \in Seq(Nat)
    BY <1>6, <1>7
  <1> QED
    BY <1>8 DEF s

\* alloc_pages hands over a run that nobody held.
LEMMA ReturnedKeeps ==
  ASSUME FrameInv, HoldInv, ~Preemptible, NEW c \in Callers, Returned(c)
  PROVE  FrameInv' /\ HoldInv'
  <1>1. PICK a, q, ret, n : a = call[c] /\ q = request[c] /\ ret = a.ret /\ n = a.n
    OBVIOUS
  <1>2. /\ FrameInv' /\ call'[c].pc = "idle" /\ n \in 1 .. MaxRun
        /\ ret = None => UNCHANGED owners
        /\ ret # None =>
             /\ ret \in Nat
             /\ \A f \in Span(ret, n) : f \in Frames /\ owners[f] = 0 /\ owners'[f] = 1
             /\ \A f \in Frames \ Span(ret, n) : owners'[f] = owners[f]
        /\ UNCHANGED <<mem_base, total_frames>>
        /\ \A d \in Callers \ {c} : call'[d] = call[d]
    BY <1>1, ReceiveKeeps DEF Returned
  <1>3. a.pc = "done" /\ request' = [request EXCEPT ![c] = NoRequest]
    BY <1>1 DEF Returned, Receive
  <1>4. RequestsSound'
    BY <1>2, <1>3, PagesTyped, RequestsKept DEF HoldInv, FrameInv, FrameTypeOK
  <1>5. q \in Requests /\ RequestSound(q, a)
    BY <1>1, <1>3 DEF HoldInv, RequestsSound
  <1>6. q.size \in Nat /\ q.align \in Nat \ {0} /\ SizeOf(q) \in Nat
    BY <1>5, SizesPositive DEF Requests
  <1>7. CASE ret = None
    <2>1. UNCHANGED <<caches, live, pages>>
      BY <1>1, <1>7 DEF Returned
    <2>2. RunsHeld' /\ RunsApart'
      BY <1>2, <1>7, <2>1, HoldSame DEF HoldInv, RunsHeld, LargeBlocks
    <2> QED
      BY <1>2, <1>4, <2>1, <2>2 DEF HoldInv, CachesTyped
  <1>8. CASE ret # None
    <2> DEFINE F == Span(ret, n)
               addr == frame_to_addr(ret)
    <2>1. /\ ret \in Nat /\ \A f \in F : f \in Frames /\ owners[f] = 0 /\ owners'[f] = 1
          /\ \A f \in Frames \ F : owners'[f] = owners[f]
      BY <1>2, <1>8
    <2>2. addr \in Nat /\ addr_to_frame(addr) = ret
      BY <2>1, FrameOfAddr DEF FrameInv, FrameTypeOK
    <2> HIDE DEF F
    <2>3. Held(ret, n)'
      BY <1>2, <2>1 DEF Held, Frames, F
    <2>4. \A first, m : Held(first, m) => Span(first, m) \cap F = {} /\ Held(first, m)'
      <3> SUFFICES ASSUME NEW first, NEW m, Held(first, m)
                   PROVE  Span(first, m) \cap F = {} /\ Held(first, m)'
        OBVIOUS
      <3>1. Span(first, m) \cap F = {}
        BY <2>1 DEF Held
      <3> QED
        BY <1>2, <2>1, <3>1, HeldStays
    <2>5. \A r \in pages : Held(r.first, r.n) /\ Span(r.first, r.n) \cap F = {} /\ Held(r.first, r.n)'
      BY <2>4 DEF HoldInv, RunsHeld
    <2>6. \A b : FirstFrame(b)' = FirstFrame(b) /\ FramesOf(b)' = FramesOf(b)
      BY <1>2 DEF FirstFrame, FramesOf, addr_to_frame
    <2>7. \A b \in LargeBlocks : /\ FramesOf(b) \cap F = {}
                                 /\ b.addr = frame_to_addr(FirstFrame(b))'
                                 /\ Held(FirstFrame(b), PagesFor(SizeOf(b)))'
      <3> SUFFICES ASSUME NEW b \in LargeBlocks
                   PROVE  /\ FramesOf(b) \cap F = {}
                          /\ b.addr = frame_to_addr(FirstFrame(b))'
                          /\ Held(FirstFrame(b), PagesFor(SizeOf(b)))'
        OBVIOUS
      <3>1. PICK g, m : g = FirstFrame(b) /\ m = PagesFor(SizeOf(b))
        OBVIOUS
      <3>2. Held(g, m) /\ b.addr = frame_to_addr(g)
        BY <3>1 DEF HoldInv, RunsHeld
      <3>3. Span(g, m) \cap F = {} /\ Held(g, m)'
        BY <2>4, <3>2
      <3>4. FirstFrame(b)' = g /\ frame_to_addr(g)' = frame_to_addr(g)
        BY <1>2, <2>6, <3>1 DEF frame_to_addr
      <3> QED
        BY <3>1, <3>2, <3>3, <3>4 DEF FramesOf, frame_to_addr
    <2>8. \/ /\ q.kind = "pages"
             /\ pages' = pages \cup {[first |-> ret, n |-> n]}
             /\ UNCHANGED <<caches, live>>
          \/ /\ q.kind = "grow"
             /\ \E k \in DOMAIN Classes :
                  /\ IsClass(SizeOf(q), k)
                  /\ caches' = [caches EXCEPT ![k] = Tail(Carved(addr, Classes[k])) \o @]
             /\ live' = live \cup {Block(addr, q)}
             /\ UNCHANGED pages
          \/ /\ q.kind = "large"
             /\ live' = live \cup {Block(addr, q)}
             /\ UNCHANGED <<caches, pages>>
      BY <1>1, <1>8 DEF Returned, Allocated
    <2>9. PICK x \in Nat : x = addr
      BY <2>2
    <2> HIDE DEF addr
    <2>10. CASE /\ q.kind = "pages"
                /\ pages' = pages \cup {[first |-> ret, n |-> n]}
                /\ UNCHANGED <<caches, live>>
      <3>1. PICK p : p = [first |-> ret, n |-> n]
        OBVIOUS
      <3>2. p.first = ret /\ p.n = n /\ p \in [first : Nat, n : 1 .. MaxRun]
        BY <1>2, <2>1, <3>1
      <3>3. pages' = pages \cup {p} /\ LargeBlocks' = LargeBlocks
        BY <2>10, <3>1 DEF LargeBlocks
      <3>4. RunsHeld'
        BY <2>3, <2>5, <2>7, <2>10, <3>2, <3>3 DEF HoldInv, RunsHeld
      <3>5. RunsApart'
        BY <2>5, <2>6, <2>7, <3>2, <3>3 DEF HoldInv, RunsApart, F
      <3> QED
        BY <1>2, <1>4, <2>10, <3>4, <3>5 DEF HoldInv, CachesTyped
    <2>11. CASE /\ q.kind = "grow"
                /\ \E k \in DOMAIN Classes :
                     /\ IsClass(SizeOf(q), k)
                     /\ caches' = [caches EXCEPT ![k] = Tail(Carved(addr, Classes[k])) \o @]
                /\ live' = live \cup {Block(addr, q)}
                /\ UNCHANGED pages
      <3>1. PICK k \in DOMAIN Classes :
               /\ IsClass(SizeOf(q), k)
               /\ caches' = [caches EXCEPT ![k] = Tail(Carved(x, Classes[k])) \o @]
        BY <2>9, <2>11
      <3>2. live' \subseteq Blocks /\ LargeBlocks' = LargeBlocks
        BY <1>6, <2>9, <2>11, <3>1, SmallBlockAdded DEF HoldInv
      <3>3. RunsHeld'
        BY <2>5, <2>7, <2>11, <3>2 DEF HoldInv, RunsHeld
      <3>4. RunsApart'
        BY <2>6, <2>11, <3>2 DEF HoldInv, RunsApart
      <3>5. CachesTyped'
        <4>1. PICK s : s = Tail(Carved(x, Classes[k]))
          OBVIOUS
        <4>2. s \in Seq(Nat)
          <5>1. Classes[k] \in 1 .. PageSize
            BY ClassTyped
          <5>2. PICK size : size = Classes[k]
            OBVIOUS
          <5>3. Tail(Carved(x, size)) \in Seq(Nat)
            BY <5>1, <5>2, CarvedTyped
          <5> QED
            BY <4>1, <5>2, <5>3
        <4> QED
          BY <3>1, <4>1, <4>2 DEF HoldInv, CachesTyped
      <3> QED
        BY <1>2, <1>4, <3>3, <3>4, <3>5 DEF HoldInv
    <2>12. CASE /\ q.kind = "large"
                /\ live' = live \cup {Block(addr, q)}
                /\ UNCHANGED <<caches, pages>>
      <3>1. PICK b : b = Block(x, q)
        OBVIOUS
      <3>2. /\ b \in Blocks /\ b.addr = addr /\ SizeOf(b) = SizeOf(q)
            /\ IsLarge(SizeOf(b)) /\ PagesFor(SizeOf(b)) = n
        <4>1. b \in Blocks
          BY <1>6, <3>1 DEF Block, Blocks
        <4>2. b.addr = addr /\ SizeOf(b) = SizeOf(q)
          BY <2>9, <3>1, BlockSize
        <4>3. IsLarge(SizeOf(q)) /\ n = PagesFor(SizeOf(q))
          BY <1>1, <1>5, <2>12 DEF RequestSound
        <4> QED
          BY <4>1, <4>2, <4>3
      <3>3. live' = live \cup {b} /\ LargeBlocks' = LargeBlocks \cup {b}
        BY <2>9, <2>12, <3>1, <3>2 DEF LargeBlocks
      <3>4. FirstFrame(b) = ret /\ FramesOf(b) = F /\ b.addr = frame_to_addr(FirstFrame(b))'
        BY <1>2, <2>2, <2>6, <3>2 DEF FirstFrame, FramesOf, F, addr, frame_to_addr
      <3>5. RunsHeld'
        <4>1. Held(FirstFrame(b), PagesFor(SizeOf(b)))'
          BY <2>3, <2>6, <3>2, <3>4
        <4>2. live' \subseteq Blocks /\ pages' \subseteq [first : Nat, n : 1 .. MaxRun]
          BY <2>12, <3>2, <3>3 DEF HoldInv, RunsHeld
        <4>3. \A d \in LargeBlocks' : /\ d.addr = frame_to_addr(FirstFrame(d))'
                                      /\ Held(FirstFrame(d), PagesFor(SizeOf(d)))'
          BY <2>7, <3>3, <3>4, <4>1
        <4>4. \A r \in pages' : Held(r.first, r.n)'
          BY <2>5, <2>12
        <4> QED
          BY <4>2, <4>3, <4>4 DEF RunsHeld
      <3>6. RunsApart'
        BY <2>5, <2>6, <2>7, <2>12, <3>3, <3>4 DEF HoldInv, RunsApart
      <3> QED
        BY <1>2, <1>4, <2>12, <3>5, <3>6 DEF HoldInv, CachesTyped
    <2> QED
      BY <2>8, <2>10, <2>11, <2>12
  <1> QED
    BY <1>7, <1>8

LEMMA FrameStepKeeps ==
  ASSUME FrameInv, HoldInv, ~Preemptible, NEW c \in Callers, FrameStep(c), UNCHANGED heapVars
  PROVE  FrameInv' /\ HoldInv'
  <1>1. UNCHANGED <<caches, live, pages, request>>
    BY DEF heapVars
  <1>2. /\ FrameInv' /\ UNCHANGED <<mem_base, total_frames, owners>>
        /\ \A d \in Callers \ {c} : call'[d] = call[d]
        /\ \/ call[c].pc \in {"scan", "mark"} /\ call'[c].n = call[c].n
           \/ call'[c].pc \in {"free", "idle"}
    BY ScanKeeps, MarkKeeps, UnmarkKeeps DEF FrameStep
  <1>3. RunsHeld' /\ RunsApart'
    BY <1>1, <1>2, HoldSame DEF HoldInv, RunsHeld, LargeBlocks
  <1>4. RequestsSound'
    <2>1. PICK p \in Requests : p = request[c] /\ request' = [request EXCEPT ![c] = p]
      BY <1>1, RequestTyped DEF HoldInv
    <2>2. call'[c].pc \in {"scan", "mark", "done"} => RequestSound(p, call'[c])
      BY <1>2, <2>1 DEF HoldInv, RequestsSound, RequestSound
    <2> QED
      BY <1>2, <2>1, <2>2, RequestsKept DEF HoldInv, FrameInv, FrameTypeOK
  <1> QED
    BY <1>1, <1>2, <1>3, <1>4 DEF HoldInv, CachesTyped

-----------------------------------------------------------------------------
(***************************************************************************)
(* The theorems                                                            *)
(***************************************************************************)
LEMMA NextKeeps ==
  ASSUME FrameInv, HoldInv, ~Preemptible, [Next]_vars
  PROVE  FrameInv' /\ HoldInv'
  <1>1. CASE Next
    <2>1. PICK c \in Callers :
             \/ \E n \in 1 .. MaxRun : alloc_pages(c, n)
             \/ \E r \in pages : free_pages(c, r)
             \/ \E l \in Layouts : slab_alloc(c, l) \/ slab_alloc_pages(c, l)
             \/ \E b \in live : dealloc(c, b)
             \/ Returned(c)
             \/ FrameStep(c) /\ UNCHANGED heapVars
      BY <1>1 DEF Next
    <2>2. CASE \E n \in 1 .. MaxRun : alloc_pages(c, n)
      BY <2>2, AllocPagesKeeps
    <2>3. CASE \E r \in pages : free_pages(c, r)
      BY <2>3, FreePagesKeeps
    <2>4. CASE \E l \in Layouts : slab_alloc(c, l) \/ slab_alloc_pages(c, l)
      BY <2>4, SlabAllocKeeps, SlabAllocPagesKeeps
    <2>5. CASE \E b \in live : dealloc(c, b)
      BY <2>5, DeallocKeeps
    <2>6. CASE Returned(c)
      BY <2>6, ReturnedKeeps
    <2>7. CASE FrameStep(c) /\ UNCHANGED heapVars
      BY <2>7, FrameStepKeeps
    <2> QED
      BY <2>1, <2>2, <2>3, <2>4, <2>5, <2>6, <2>7
  <1>2. CASE UNCHANGED vars
    <2>1. UNCHANGED <<mem_base, total_frames, used, free_frames, call, owners>>
          /\ UNCHANGED <<caches, live, pages, request>>
      BY <1>2 DEF vars, frameVars, heapVars
    <2>2. FrameInv'
      BY <2>1 DEF FrameInv, FrameTypeOK, FreeCountExact, FramesHeldOnce, ImageKept, OneActive, CallSound,
                  Searching, Marking, Found, Freeing, Clear, Blocked, RunAt, Frames, frame_to_addr
    <2>3. RunsHeld' /\ RunsApart'
      BY <2>1, HoldSame DEF HoldInv, RunsHeld, LargeBlocks
    <2> QED
      BY <2>1, <2>2, <2>3 DEF HoldInv, CachesTyped, RequestsSound
  <1> QED
    BY <1>1, <1>2

\* The search's promise follows from what a finished call has found.
LEMMA FoundIsLowest == FrameInv => LowestRunFound
  <1> SUFFICES ASSUME FrameInv, NEW c \in Callers, call[c].pc = "done", NEW g \in Frames,
                      RunAt(g, call[c].n, IF call[c].ret = None THEN {}
                                          ELSE Span(call[c].ret, call[c].n))
               PROVE  call[c].ret # None /\ call[c].ret <= g
    BY DEF LowestRunFound, Span
  <1>1. PICK a : a = call[c]
    OBVIOUS
  <1>2. Found(a) /\ a \in Activation /\ g \in Nat
    BY <1>1 DEF FrameInv, FrameTypeOK, CallSound, Frames
  <1>3. a.ret # None
    BY <1>1, <1>2 DEF Found
  <1>4. a.ret \in Nat /\ Blocked(a.ret, a.n, Span(a.ret, a.n)) /\ RunAt(g, a.n, Span(a.ret, a.n))
    BY <1>1, <1>2, <1>3 DEF Found, Activation
  <1>5. ASSUME g < a.ret PROVE FALSE
    <2>1. PICK h \in Span(g, a.n) : h \in used \ Span(a.ret, a.n)
      BY <1>2, <1>4, <1>5 DEF Blocked
    <2> QED
      BY <1>4, <2>1 DEF RunAt, Span
  <1> QED
    BY <1>1, <1>2, <1>3, <1>4, <1>5

\* The bitmap, its counter, the owners and every activation stay well formed,
\* whatever the map, the page size, the word width and the callers' requests
\* are, while a call runs with interrupts disabled.
THEOREM FramesTyped ==
  ASSUME ~Preemptible PROVE Spec => []FrameTypeOK
  <1>1. FrameInv /\ HoldInv /\ [Next]_vars => (FrameInv /\ HoldInv)'
    BY NextKeeps
  <1>2. FrameInv => FrameTypeOK
    BY DEF FrameInv
  <1> QED
    BY InitSound, <1>1, <1>2, PTL DEF Spec

\* No frame is ever given to two callers, a frame that is held is marked, and
\* none of the kernel image is handed out (alloc_frames, free_frames and every
\* user of them in memory/).
THEOREM FramesAreHeldOnce ==
  ASSUME ~Preemptible PROVE Spec => []FramesHeldOnce
  <1>1. FrameInv /\ HoldInv /\ [Next]_vars => (FrameInv /\ HoldInv)'
    BY NextKeeps
  <1>2. FrameInv => FramesHeldOnce
    BY DEF FrameInv
  <1> QED
    BY InitSound, <1>1, <1>2, PTL DEF Spec

\* FREE_FRAMES is the number of clear bits after every iteration of every
\* loop: mark_used never saturates, free_frames never counts a frame twice.
THEOREM FreeCountIsExact ==
  ASSUME ~Preemptible PROVE Spec => []FreeCountExact
  <1>1. FrameInv /\ HoldInv /\ [Next]_vars => (FrameInv /\ HoldInv)'
    BY NextKeeps
  <1>2. FrameInv => FreeCountExact
    BY DEF FrameInv
  <1> QED
    BY InitSound, <1>1, <1>2, PTL DEF Spec

\* alloc_frames returns the lowest run of free frames, and fails only when
\* there is none, though it skips full words of the bitmap.
THEOREM LowestRunIsFound ==
  ASSUME ~Preemptible PROVE Spec => []LowestRunFound
  <1>1. FrameInv /\ HoldInv /\ [Next]_vars => (FrameInv /\ HoldInv)'
    BY NextKeeps
  <1> QED
    BY InitSound, <1>1, FoundIsLowest, PTL DEF Spec
=============================================================================
