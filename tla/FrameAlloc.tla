----------------------------- MODULE FrameAlloc -----------------------------
(***************************************************************************)
(* The physical memory manager (kernel/src/memory: mmap.rs, bitmap.rs and  *)
(* the page interface of mod.rs).  The loops of alloc_frames, mark_used    *)
(* and free_frames are taken one iteration at a time, so the fast skip     *)
(* over full words, a run that fails half way and a timer interrupt in the *)
(* middle are all behaviours of the model.                                 *)
(*                                                                         *)
(* A call is made by the task that the CPU runs.  SYSCALL and RISC-V traps *)
(* run the kernel with interrupts disabled, and one call ends before the   *)
(* next begins.  INT 0x80 enters through a trap gate that leaves them      *)
(* enabled: with Preemptible the timer may run another caller in between.  *)
(***************************************************************************)
EXTENDS Integers, Sequences, FiniteSets

CONSTANTS
  Callers,      \* the tasks that call the allocator
  Preemptible,  \* whether interrupts are enabled during a call
  Maps,         \* the memory maps the boot loader may hand over
  MinBase,      \* the lowest address the map is searched from
  KernelEnd,    \* the linker symbol _kernel_end
  PageSize,     \* 4096 in the code
  WordBits,     \* 64 in the code
  MaxFrames,    \* frames the bitmap has bits for
  MaxRun,       \* bound: the most frames one call asks for
  MaxRegions    \* regions a MemoryMap holds

MemoryRegion == [base: Nat, size: Nat, usable: BOOLEAN]

ASSUME FrameAssumption ==
  /\ Maps \subseteq Seq(MemoryRegion)
  /\ Preemptible \in BOOLEAN
  /\ MinBase \in Nat /\ KernelEnd \in Nat
  /\ PageSize \in Nat \ {0} /\ WordBits \in Nat \ {0}
  /\ MaxFrames \in Nat /\ MaxRun \in Nat /\ MaxRegions \in Nat

None == -1

-----------------------------------------------------------------------------
(***************************************************************************)
(* The memory map                                                          *)
(***************************************************************************)
RegionEnd(r) == r.base + r.size

\* The regions that the map holds after the boot code has added rs to it in
\* turn: an empty region, and one that finds the table full, is dropped.
Added(rs) ==
  {i \in DOMAIN rs :
     /\ rs[i].size > 0
     /\ Cardinality({j \in DOMAIN rs : j < i /\ rs[j].size > 0}) < MaxRegions}

\* The usable part of region r from MinBase on.
TrimmedBase(r) == IF r.base < MinBase THEN MinBase ELSE r.base
TrimmedSize(r) == RegionEnd(r) - TrimmedBase(r)

Candidates(rs) == {i \in Added(rs) : rs[i].usable /\ TrimmedSize(rs[i]) > 0}

\* The first of the largest candidates.
IsLargestUsable(rs, i) ==
  /\ i \in Candidates(rs)
  /\ \A j \in Candidates(rs) :
       /\ TrimmedSize(rs[j]) <= TrimmedSize(rs[i])
       /\ j < i => TrimmedSize(rs[j]) < TrimmedSize(rs[i])

-----------------------------------------------------------------------------
VARIABLES
  mem_base,      \* MEM_BASE
  total_frames,  \* TOTAL_FRAMES
  used,          \* the frames whose bit in BITMAP is set
  free_frames,   \* FREE_FRAMES
  call,          \* each caller's activation of alloc_frames or free_frames
  owners         \* how many callers hold a frame they were given (no state of the code)

frameVars == <<mem_base, total_frames, used, free_frames, call, owners>>

Frames == 0 .. total_frames - 1

(***************************************************************************)
(* An activation: the loop it is in, its arguments and its locals.  pc is  *)
(* "scan" in the search loop, "mark" in the loop that marks the run found, *)
(* "free" in the loop of free_frames, and "done" when alloc_frames has     *)
(* returned ret to a caller that has not used it yet.                      *)
(***************************************************************************)
Activation ==
  [pc: {"idle", "scan", "mark", "free", "done"}, n: 0 .. MaxRun, f: Nat,
   run_start: Nat, run_len: Nat, i: Nat, ret: Nat \cup {None}]

Idle == [pc |-> "idle", n |-> 0, f |-> 0, run_start |-> 0, run_len |-> 0, i |-> 0, ret |-> None]

Least(a, b) == IF a < b THEN a ELSE b

\* The frames from base that the kernel image reaches into, marked at boot.
ImageFrames(base, frames) ==
  IF KernelEnd > base
  THEN 0 .. Least((KernelEnd - base + PageSize - 1) \div PageSize, frames) - 1
  ELSE {}

\* init_from_mmap on a map with a usable region.
InitFromMap(rs) ==
  \E i \in DOMAIN rs :
    /\ IsLargestUsable(rs, i)
    /\ mem_base = TrimmedBase(rs[i])
    /\ total_frames = Least(TrimmedSize(rs[i]) \div PageSize, MaxFrames)
    /\ used = ImageFrames(mem_base, total_frames)
    /\ free_frames = total_frames - Cardinality(used)

FrameInit ==
  /\ \E rs \in Maps : InitFromMap(rs)
  /\ call = [c \in Callers |-> Idle]
  /\ owners = [f \in 0 .. total_frames - 1 |-> 0]

-----------------------------------------------------------------------------
\* Caller c is on the CPU: it may go on when no interrupt can have left
\* another call half done.
Runs(c) == Preemptible \/ \A d \in Callers \ {c} : call[d].pc = "idle"

Enter(c, a) ==
  /\ Runs(c) /\ call[c].pc = "idle"
  /\ call' = [call EXCEPT ![c] = a]

\* alloc_frames(n) begins; n = 0 returns at once and is not modelled.
alloc_frames(c, n) ==
  /\ Enter(c, [Idle EXCEPT !.pc = "scan", !.n = n])
  /\ UNCHANGED <<mem_base, total_frames, used, free_frames, owners>>

WordStart(f) == f - (f % WordBits)

\* BITMAP[word] == u64::MAX.  Bits from total_frames on are never set.
FullWord(f) == WordStart(f) .. WordStart(f) + WordBits - 1 \subseteq used

\* A slip: the search goes on after a full word with the run it had.
ScanFullKeepsRun(a) == [a EXCEPT !.f = WordStart(a.f) + WordBits]

ScanFull(a) ==
  LET next == WordStart(a.f) + WordBits
  IN  [a EXCEPT !.run_start = next, !.run_len = 0, !.f = next]

ScanUsed(a) == [a EXCEPT !.run_len = 0, !.f = @ + 1]

\* A slip: the run is one frame short.
ScanFreeShort(a) ==
  LET start == IF a.run_len = 0 THEN a.f ELSE a.run_start
  IN  IF a.run_len + 2 >= a.n
      THEN [a EXCEPT !.run_start = start, !.run_len = @ + 1, !.pc = "mark"]
      ELSE [a EXCEPT !.run_start = start, !.run_len = @ + 1, !.f = @ + 1]

ScanFree(a) ==
  LET start == IF a.run_len = 0 THEN a.f ELSE a.run_start
  IN  IF a.run_len + 1 = a.n
      THEN [a EXCEPT !.run_start = start, !.run_len = @ + 1, !.pc = "mark"]
      ELSE [a EXCEPT !.run_start = start, !.run_len = @ + 1, !.f = @ + 1]

\* A slip: the loop gives up where a run would no longer fit, one too early.
ScanEndsEarly(a) == a.f + a.n - a.run_len >= total_frames

ScanEnds(a) == a.f >= total_frames

\* One turn of the search loop, or its end with None.
scan(c) ==
  LET a == call[c]
  IN  /\ Runs(c) /\ a.pc = "scan"
      /\ call' = [call EXCEPT ![c] =
           IF ScanEnds(a) THEN [a EXCEPT !.pc = "done", !.ret = None]
           ELSE IF FullWord(a.f) THEN ScanFull(a)
           ELSE IF a.f \notin used THEN ScanFree(a)
           ELSE ScanUsed(a)]
      /\ UNCHANGED <<mem_base, total_frames, used, free_frames, owners>>

\* A slip: the counter moves whether or not the bit was clear.
mark_used_always(f) == used' = used \cup {f} /\ free_frames' = free_frames

\* free_frames never is 0 when a bit is clear, so the saturation is not seen.
mark_used(f) ==
  /\ used' = used \cup {f}
  /\ free_frames' = IF f \in used \/ free_frames = 0 THEN free_frames ELSE free_frames - 1

\* One turn of the marking loop, or the return after it.
mark(c) ==
  LET a == call[c]
  IN  /\ Runs(c) /\ a.pc = "mark"
      /\ \/ /\ a.i < a.n
            /\ mark_used(a.run_start + a.i)
            /\ call' = [call EXCEPT ![c].i = @ + 1]
         \/ /\ a.i = a.n
            /\ call' = [call EXCEPT ![c].pc = "done", ![c].ret = a.run_start]
            /\ UNCHANGED <<used, free_frames>>
      /\ UNCHANGED <<mem_base, total_frames, owners>>

\* free_frames(first, n) begins; the caller gives the frames up.
free_frames_of(c, first, n) ==
  /\ Enter(c, [Idle EXCEPT !.pc = "free", !.n = n, !.run_start = first])
  /\ owners' = [f \in DOMAIN owners |->
                  IF f \in first .. first + n - 1 THEN owners[f] - 1 ELSE owners[f]]
  /\ UNCHANGED <<mem_base, total_frames, used, free_frames>>

\* One turn of its loop, or its return.
unmark(c) ==
  LET a == call[c]
      f == a.run_start + a.i
  IN  /\ Runs(c) /\ a.pc = "free"
      /\ \/ /\ a.i < a.n
            /\ IF f < total_frames /\ f \in used
               THEN used' = used \ {f} /\ free_frames' = free_frames + 1
               ELSE UNCHANGED <<used, free_frames>>
            /\ call' = [call EXCEPT ![c].i = @ + 1]
         \/ /\ a.i = a.n
            /\ call' = [call EXCEPT ![c] = Idle]
            /\ UNCHANGED <<used, free_frames>>
      /\ UNCHANGED <<mem_base, total_frames, owners>>

\* The caller receives what alloc_frames returned.
Receive(c) ==
  LET a == call[c]
  IN  /\ Runs(c) /\ a.pc = "done"
      /\ call' = [call EXCEPT ![c] = Idle]
      /\ owners' = [f \in DOMAIN owners |->
                      IF a.ret # None /\ f \in a.ret .. a.ret + a.n - 1
                      THEN owners[f] + 1 ELSE owners[f]]
      /\ UNCHANGED <<mem_base, total_frames, used, free_frames>>

FrameStep(c) == scan(c) \/ mark(c) \/ unmark(c)

frame_to_addr(f) == mem_base + f * PageSize
addr_to_frame(addr) == (addr - mem_base) \div PageSize

-----------------------------------------------------------------------------
(***************************************************************************)
(* Properties                                                              *)
(***************************************************************************)

\* Type invariant of the frame allocator.
FrameTypeOK ==
  /\ mem_base \in Nat /\ total_frames \in 0 .. MaxFrames
  /\ used \subseteq Frames
  /\ free_frames \in 0 .. total_frames
  /\ call \in [Callers -> Activation]
  /\ owners \in [Frames -> Nat]

\* A frame has one owner at most, a frame that has one is marked, and no
\* frame of the kernel image is ever given out: whatever was searched, marked
\* and freed before, and however far a running call has got.
FramesHeldOnce ==
  \A f \in Frames :
    /\ owners[f] <= 1
    /\ owners[f] = 1 => f \in used
    /\ owners[f] = 1 => frame_to_addr(f) >= KernelEnd

\* FREE_FRAMES, kept apart from the bitmap by mark_used and free_frames, is
\* the number of clear bits at every step of every loop.
FreeCountExact == free_frames = total_frames - Cardinality(used)

\* The frames from g on hold a run of n that nobody has, leaving own aside.
RunAt(g, n, own) == \A h \in g .. g + n - 1 : h \in Frames /\ (h \notin used \/ h \in own)

\* alloc_frames finds the lowest free run of n frames, and returns None only
\* when there is none, the skip over full words notwithstanding.
LowestRunFound ==
  \A c \in Callers :
    LET a == call[c]
        own == IF a.ret = None THEN {} ELSE a.ret .. a.ret + a.n - 1
    IN  a.pc = "done" => \A g \in Frames : RunAt(g, a.n, own) => a.ret # None /\ a.ret <= g
=============================================================================
