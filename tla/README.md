# Ferrugem in TLA+

TLA+ models of the parts of the Ferrugem kernel that are hard to test: the task
table and its scheduler, blocking and waking, signals, `waitpid`, descriptor
tables, the pipe pool, the input rings that interrupt handlers share with their
readers, the way into and out of the kernel, the frame allocator and the heap,
address spaces, the RAM file system, and the kernel shell on top of it.  TLC checks the
models on small instances; TLAPS proves every safety property of the passing runs, that the ring implements a
queue, and that page tables implement private memories, for instances of every size.

Line numbers below and in `PROJECT.json` refer to `src/kernel/src/` unless a path
is given.

## 1. Inventory

| Component | State | Operations | Talks to |
|---|---|---|---|
| Scheduler (`scheduler/mod.rs`) | `TASKS`, `CURRENT`, `TICK_COUNT`, `TTY_WAITER`, `PIPE_WAITERS` | `tick`, `schedule`, `deliver_all_signals`, `spawn_*`, `exit_current`, `waitpid`, `block_on_*`, `wake_*`, `sleep_ticks`, `raise_signal_to_pid` | called by interrupts and system calls; calls the pipe pool and `arch::context_switch` |
| Process state (`process/mod.rs`) | `Task`: pid, ppid, state, `pending_signals`, `waiting_for_pid`, `fd_table`; `NEXT_PID` | `FdTable::{alloc, alloc_at, get, close, close_all}`, `raise_signal`, `take_signal`, `exit` | pipe pool (reference counts) |
| Pipe pool (`ipc/mod.rs`) | `POOL`: 8 slots with a 4096-byte ring and two reference counts | `alloc_pipe`, `dup_pipe_*`, `close_pipe_*`, `pipe_read`, `pipe_write` | `sys_read`, `sys_write`, `close_all`, `spawn_fork` |
| System calls (`syscall/mod.rs`) | `SYSCALL_USER_*`, per-call loops | `dispatch` and one function per call | everything above, the file system |
| Input (`drivers/ring_buf.rs`, serial and keyboard drivers) | two `RingBuf`s | `push` in interrupts, `pop` in `sys_read` and in the kernel shell | `wake_tty_waiter` |
| Interrupt dispatch (`arch/*/`) | controller in-service state | `common_dispatch`, `trap_handler` | `tick`, drivers, `exit_current` on faults |
| System call entry (`arch/x86_64/`, `arch/riscv64/`) | kernel stacks, `TSS.rsp0` or `sscratch`, page table register, FS.base; user registers in globals: `SYSCALL_USER_*`, `EXEC_CTX` | SYSCALL, INT 0x80, page fault, interrupt, trap; `context_switch`; trampolines of new and forked tasks | `dispatch`, `schedule`, `fork`, `execve` |
| Memory (`memory/`) | `BITMAP`, `FREE_FRAMES`, slab caches, `HEAP_USED`, `HEAP_ALLOCS` | `init_from_mmap`, `alloc_frames`, `free_frames`, `grow`, heap `alloc` and `dealloc` | spawn functions, paging, `brk`, `mmap` |
| File system (`vfs/`, `fs/`) | `ROOT_FS`: a table of inodes with their data | create, remove, rename, read, write, permissions, path resolution | file system calls, kernel shell |
| Address spaces (`arch/*/paging.rs`), ELF loader (`elf/`) | page tables, guard pages, split huge pages, `heap_brk` | map, clone, load, lay out the initial stack | spawn functions, `execve`, `brk`, `mmap`, page faults |
| Kernel shell (`shell/`) | current directory and user, `HISTORY`, the line under edit | commands; line editor | file system, input rings |
| Network headers, boards | | | |

What is hard here:

* **Interleaving.** One CPU, but a context switch may happen in any timer
  interrupt in user mode and in every blocking call.  Between a test (is there a
  zombie, a byte, an open write end?) and the sleep that follows it, the thing
  waited for may happen.
* **Waking.** One waiter is recorded per pipe and one for the terminal, while
  `fork` lets any number of processes read the same object.
* **Three ways to die.** `exit`, a fault, and a signal delivered on a tick; the
  last does less than the others.
* **Slots against pids.** Slots are reused, pids are not; a zombie's slot is
  reused as soon as a spawn function wants one.
* **Reference counts** kept apart from the descriptors they count, moved by
  `fork`, `close`, `exit` and failing calls.
* **Interrupt masking.** The order of `schedule()` and the end-of-interrupt
  decides whether the kernel preempts at all.
* **One set of globals for all tasks.** The system call stubs park user registers in
  globals that the next call of any task overwrites, while calls block and switch.
* **Locals that outlive a switch.** `schedule()` goes on, with its old locals, in a world
  where slots have been reaped and reused.
* **Memory that runs out half way.** `fork`, `execve` and the spawn functions allocate a
  dozen frames one by one.
* **Inodes named by index.** Descriptors and current directories keep the index of an
  inode that may be freed and reused under them.

Properties that make each part correct: the current task is always one that can
run; no exit is missed by a waiter; a pid names one task; a saved context belongs
to the task it is saved under; the dead stay dead; a recorded reader never sleeps
over data, end of file or input; counts equal descriptors; a Ready task gets the
CPU; a lethal signal kills; the input ring is a FIFO queue; a program finds its
registers, stack, page table and memory as it left them; no frame, page or block has two
owners; a name leads to one file, and a file to its own bytes; a user changes only
what the permissions allow; the command line shows what it will run.  `PROJECT.json`
lists the hazards one by one, with the properties that would catch them.

## 2. Modules

```
PipePool <- FdTable <- Scheduler <- Kernel <- MCKernel, (KernelProofs <- PipeProofs)
BoundedQueue <- RingBuf <- RingProofs
CpuEntry <- MCCpuEntry, EntryProofs
FrameAlloc <- Heap <- MCHeap, (FrameProofs <- HeapProofs)
UserMemory <- AddressSpace <- MCAddressSpace, AddressProofs
RamFs <- Files, LineEditor <- Shell <- MCShell, ShellProofs
```

The modules named `...Proofs` are checked by TLAPS, the others by TLC.  `BoundedQueue` and `UserMemory` are
abstract specifications that `RingBuf` and `AddressSpace` are shown to implement.

**PipePool** — `ipc/mod.rs` as operators on the value of `POOL`.  The bytes of a ring
are a count (a pipe moves bytes in order with the same head and tail arithmetic
as `RingBuf`).  The kernel moves references one at a time in loops over
descriptor tables; `DupEnds` and `CloseEnds` give the result of such a loop.

**FdTable** — `process/mod.rs`: descriptor entries with the pipes they read from and
write to, `FdTable::alloc`, `close_all`, and the signal set.  File and directory entries
are in **Files**.

**Scheduler** — `scheduler/mod.rs`.  `state`, `pid`, `ppid`, `pending`, `waiting` and
`fds` are the fields of `TASKS`; an empty slot has state `None`.  (`schedule()` never
stores `Running`: the running task is the `Ready` one that `CURRENT` names.)  `cpu` is
what the CPU executes, `kctx[s]` what is saved on the kernel stack of slot `s`.  A
context is in user mode or at a point where the kernel called `schedule()`; that is
all of the kernel's control state, since system calls and handlers run with
interrupts disabled (`setup_syscall` clears IF, a RISC-V trap clears SIE).  So an
action is a handler up to its next `schedule()` or return, with every wake-up and
close it makes.  `waitpid`'s loop is three actions (`Reap`, `WaitReturns`,
`WaitBlocks`), taken again each time `schedule()` comes back.

`deliver_all_signals` is one action.  Its loop runs over the slots in order and a kill
may wake a task that the loop has yet to visit; the closed form keeps the only
place where the order shows (`waiting_for_pid` of a task killed after it was
woken).

`Pic` selects the interrupt controller: `TRUE` for the 8259 and the GIC, where the timer
interrupt stays in service, and keeps all others out, until the handler that took
it sends the EOI (after `tick()` returns, `arch/x86_64/idt.rs:557`); `FALSE` for
RISC-V, where a trap needs no acknowledgement.

**Kernel** — the system calls of `syscall/mod.rs` on top of the scheduler.  Programs
are arbitrary: in user mode a program may make any call of the constant `Ops` with any
arguments.  A blocking call enters its loop and the loop is an action.  Calls that
fail and change nothing are not actions; failures that change something (EMFILE in
`pipe` and `socketpair`) are.  `Init` is the state after `kernel_main` has spawned the init
program in slot 1 and entered the idle loop.  That is the x86_64 boot with an init
ELF; the kernel shell, a kernel task that the other boots spawn first, is not
modelled.  `Pic = FALSE` therefore stands for the same system calls and scheduler
(both are architecture-independent code) driven by the RISC-V trap handler, as it
drives the user task of that boot.

**RingBuf** — `drivers/ring_buf.rs`, `push` in an interrupt against `pop` in code that has
interrupts enabled: the test, the load and the store of `pop` are separate steps.
The source orders neither the load nor the store of `tail` (both are plain
accesses), so both orders are modelled.  **BoundedQueue** is the abstract FIFO queue of
`N - 1` bytes; RingBuf implements it under the mapping given in the module.

**CpuEntry** — what the entry stubs, the trampolines and `context_switch` do with
registers.  A value is a pair of the task it belongs to and an instance, so a register
that comes back with somebody else's value, an old one or the kernel's (`Garbage`) is told
from one that was kept.  Registers that are saved alike are one name.  Each task has its
kernel stack as a list of frames; an entry from a program writes its frame to the top
of the stack that `k_rsp` names, whoever's that is, as the hardware does.  `live` is the set of
registers that a program counts on: all of them after it has computed, less what a way
out destroys.  `Destroyed` names those: the result, rcx and r11 for SYSCALL, rdi, rsi and rdx
for INT 0x80 (the stub does not save them, and the built-in programs that use it reload
them), and rcx, rdx and r14 for a page fault, which is a defect (section 5).  A forked
RISC-V child starts with ip and sp alone, as that port's `task_init_fork_stack` gives it.
`Halted` is the panic of an `unwrap()` on an empty slot.

**FrameAlloc** — `memory/mmap.rs` and `memory/bitmap.rs`.  `InitFromMap` is the choice of the
region and the marking of the kernel image.  The loops of `alloc_frames`, `mark_used` and
`free_frames` are taken a turn at a time, so an interrupt may come between any two when
`Preemptible` is true.  **Heap** — `slab.rs`, `heap.rs` and `alloc_pages` on top of it: free lists as
sequences of addresses, `grow`, and the counters.

**AddressSpace** — page tables of user processes as the mapping they hold and the frames
their tables take, for the four levels of x86_64 and the three of Sv39; `clone`, `load`, the
initial stack, `brk`, `mmap`, demand paging, guard pages.  Allocation is first fit over
the bitmap and fails where memory runs out; operators pass the intermediate state
(`Work`) along, so every early return leaves behind what the code leaves behind.  `clone`
takes its frames in the order of the code's nested loops: a table, then the pages below it.
There is no TLB in the model: a store goes where the page table leads, though `brk` and `mmap` may replace
an entry without the flush that the fault handler makes (`scheduler/mod.rs:904`).
**UserMemory** is what a process may rely on: a private memory that only its own stores, calls and faults
change, copied whole by fork and replaced whole, or not at all, by exec.  It does not promise that a
page keeps what was stored there: `Fresh` may clear any page of the process that acts, at any time, because
faults on read-only pages, `brk` and `mmap` do (section 5).

**RamFs** — `vfs/ramfs.rs` as operators on the inode table; a path is its list of
components.  Names are opaque but for their length (`NameLen`) and what is left of them when they are
cut (`Prefix`).  `set_name` keeps the first MAX_NAME bytes of a name while `lookup_in` compares all of it, and `inode_path` cuts
a path at the end of the caller's buffer, inside a name too.  A byte is zero, written for the file the inode has now, or left from a
file that is gone.  **Files** — the file system calls of a process, with descriptors and
current directory naming inodes by index.  `getcwd` and the path it returns are operators, since the call
changes nothing.  The records of `getdents64` have the code's lengths, and a record that does not fit is passed
over; next to `pos` a directory descriptor carries what its scan has seen, and whether a record was
written behind a skipped one, for the property's sake.  **Shell** — the commands of the kernel shell,
with its own current directory and user, beside those calls.  **LineEditor** — its key
decoding, line buffer and history, a byte at a time.  Boot's `fs::init` entries are `mkdir`
and `write` calls, so they are actions from the state with the root alone.

Definitions preceded by "A slip" are wrong variants of the definition that follows
them.  They are used in no specification; substituting one for the real definition
makes TLC report a violation, which shows that the property is sensitive to that
line of the code (`PROJECT.json`, `mutants`).

## 3. Runs

Passing runs:

| Run | Shows | Bounds |
|---|---|---|
| `processes` | `TypeOK`, `CurrentRunnable`, `PidsUnique`, `NoMissedExit`, `CurPidStable` with a preempting timer; programs fork, exit, wait (any child, one pid, WNOHANG), kill, sleep, yield | 3 user slots, pids to 3, a schedule on every second tick |
| `pipes` | `RecordedReaderAwake`, `PipeCountsExact`: pipes and socketpairs across fork, close, exit | 2 pipes of capacity 1, 2 user slots, pids to 3, 4 descriptors |
| `terminal` | `RecordedTtyReaderAwake`, `ContextsBelong`, `DeadStayDead`: serial and keyboard interrupts, key releases, dup'd and closed Stdin, forks, kills and waits, with the in-service latch | 3 processes, rings of 2 |
| `fairness` | `EveryReadyTaskRuns`, `LethalSignalKills` under `FairSpec` | 3 processes, pids to 3 |
| `ringbuf` | `TypeOK`, `IsBoundedQueue` (refinement) | `N = 4`, two byte values |
| `memory` | `FramesHeldOnce`, `FreeCountExact`, `LowestRunFound`, `BlocksDisjoint`, `BlocksAligned`, `HeapCountersExact`, `FrameTypeOK` | 7 frames in words of 2 bits, runs to 3, two classes, pages of 4 units, 3 blocks or runs held |
| `files` | `NamesUnique`, `RootStays`, `NoOldBytes`, `DirScanExact`, `PathRoundTrip`, `OthersFilesKept`, `LineShown`, `HistoryRecent`, `DraftKept`, `FilesTypeOK` | 3 inodes of 2 bytes, names of 1 to 6 bytes with `MaxName = 5`, 7 paths, 2 users, 1 process, scan buffers of 24, 32 and 56 bytes, path buffers of 2, 3 and 6, six profiles |
| `addrspace` | `IsUserMemory` (refinement), `FramesHaveOneUse`, `InitialStackSound`, `AddressTypeOK` | 2 processes, 28 frames, 7 pages, two executables, three argument vectors, two loads of memory |
| `entry` | `RegistersKept`, `KernelStackOwn`, `AddressSpaceOwn` | 2 task slots, x86_64 and RISC-V, 5 entries from tasks |

Why these bounds: three user slots hold a parent, a child and a stranger, which is
what wake-ups by pid, by parent and by slot have to tell apart; two slots and
three pids make a slot change hands; `SignalTicks = 1` and `SchedTicks = 2` keep what
matters of 5 and 10, a delivery with and one without a `schedule()` after it; a pipe of
capacity 1 is empty, full and drained.  In `pipes` the table has two free
descriptors per pipe of the pool, so no `pipe()` or `socketpair()` lacks a descriptor:
section 5 says what happens otherwise.  `MaxPid`, `MaxSleep` and `MaxInput` are bounds of the
model; the others are parameters of the code.

In `memory` a run of three spans three words of two bits, so the skip over full words
happens before, inside and after a run; the two maps have regions that are empty,
below `MinBase`, equally large and too many.  In `files` three inodes are a directory, a
file in it and one more to take over their place; a behaviour keeps to one profile
of operations (names and directories, with and without descriptors; descriptors and data; users and
data; directory scans with `dup`; typing).  `Width` bounds the descriptors a profile uses, two where
they are copied and one elsewhere, and `PathsOf` its paths: names of all lengths where names matter, the dots
where there are no descriptors of directories, short names where bytes matter.  `MaxName = 5` stands for 64: there is a name one byte too long, the name that it is cut to, and shorter ones.
The records of the shorter names take 24 bytes and that of five bytes 32; the scan buffers hold one short record,
a long one, or one of each, so a long record is passed over in front of a short one, and a call
returns several.  The path buffers cut a path at a slash, before a name, inside one and at the place of the NUL.
Typed lines are of one letter and up to three long, so they are told apart by length;
the history holds two and wraps.  In `addrspace` one load leaves room for two processes
and a little more, the other for one and a little more, so each allocation of each
operation is the one that fails in some behaviour.  In `entry` each task may be switched out
at every point of every kind of entry, and five entries let a task leave, two others
enter, and the first come back; entries from the idle task, which happen at ticks only,
are not counted.  Its slots are symmetric: `schedule` takes any ready one.

Deadlock is checked in all runs but `entry`, where the kernel may have panicked and the
entries are bounded: in user mode a tick can come, and the kernel's loops always have
a turn.

Fairness (`FairSpec`): kernel code runs on to its next `schedule()` or return, so
`KernelLoop` and `TimerReturn` are weakly fair.  A timer request stays latched in the
controller until it is taken, which happens as soon as the CPU is in user mode with
the controller open: `tick` is strongly fair.  Nothing is assumed of programs, which
may compute for ever, or of input.

## 4. Proofs

The theorems hold for every value of the constants that the named assumptions of
the modules admit (`PoolAssumption`, `FdAssumption`, `SchedulerAssumption`, `KernelAssumption`,
`RingAssumption`, `EntryAssumption`, `FrameAssumption`, `HeapAssumption`, `AddressAssumption`, `LayoutAssumption`,
`FsAssumption`, `NameAssumption`, `FilesAssumption`, `ShellAssumption`, `LineAssumption`); TLC evaluates these in every run.  A theorem that needs more says
so in its ASSUME, and the run of that property is an instance of it.

**KernelProofs** — `TypeCorrect`, `CurrentRunnableCorrect`, `PidsUniqueCorrect`, `NoMissedExitCorrect`,
`CurPidStableCorrect`: the properties of the same names, for every number of slots, pipes, descriptors
and pids, every set of calls and both kinds of controller.  The inductive invariant `IInv` is
`TypeOK` with

* `PidInv`: pids of the table are distinct, below `next_pid` and larger than the parent's,
  and pid 0 is the idle task's.  Without the bound a fork could repeat a pid; without
  the order `waitpid` could reap the slot it runs in.
* `WaitInv`: for each task blocked in `waitpid`'s loop, what it recorded in
  `waiting_for_pid` is still the loop's target and `cur_pid` its own pid, and no zombie
  child matches.  (The idle task is never in the loop.)  `NoMissedExit` alone is not inductive: that an exit wakes the
  waiter depends on `waiting_for_pid` holding the target for as long as the task is
  blocked, and it is cleared by three different paths.
* the current task is Ready or a zombie, and the loop it may be in carries its pid.

Each step of `InvNext` is one action; the facts about `schedule`, `Wake`, `CloseEnds` and
`deliver_all_signals` that several actions need are lemmas of their own.

The theorems about readers and contexts rest on `EveryTask`, which says once what any step does with
any task: it stays what it was (asleep or awake, its context kept, and only the running task goes to
sleep, with the context it had), or it is born in a vacant slot, or reaped.

* `TtyReaderWakes` (`RecordedTtyReaderAwake`, no hypothesis): the rings gain bytes only in handlers that take the record
  away, and a reader goes to sleep only over empty rings.
* `ContextsBelongCorrect`, `DeadStayDeadCorrect` (hypothesis `Pic`, as in the run `terminal`): `PicInv` says that a
  tick is not in service only while the idle task runs.  So ticks, and with them the killing of tasks and
  preemption, come in the idle loop alone: the running task is always Ready, and no program is ever stopped
  in the timer handler.

**PipeProofs** — `PipeReaderWakes` (`RecordedReaderAwake`; hypotheses: no lethal signal is sent and `dup2` is not called, the
two ways to close a write end that wake nobody).  `Announced` is the step-wise fact: a step takes the record
of a pipe's reader away, or brings no data and closes no last write end, or records a reader of
an empty pipe with a writer.  A free slot of the pool has no open ends, so `alloc_pipe` disturbs nobody.

`PipeCountsCorrect` (`PipeCountsExact`; hypotheses: `dup` and `dup2`, which take no reference, are not called; a count
does not saturate, `MaxTasks <= MaxRefs`; no task is killed while it runs, that is `Pic` or no lethal signals; and every
`pipe` and `socketpair` finds two free descriptors, `Roomy`, an action property assumed of the behaviour, since
their EMFILE paths break the counts).  `CountInv`: the counts are the cardinalities of the sets of places that hold
an end; the tables of empty slots and zombies are closed, or a fork into such a slot would lose references;
no table holds an end twice, which bounds each count by the number of tasks.  Section 5 has the
counterexample for each hypothesis.

**RingProofs** — `RingTyped`, and `RingIsBoundedQueue`: `RingBuf` implements `BoundedQueue` for every `N`.
`RingInv` adds `ReaderSafe` to the types: until a `pop` stores `tail`, the slot it reads is the oldest one in
use; after an early store it is the one slot that `push` leaves unused.
Every index is below `2 * N` before its `%`, so the contents before and after a step are
compared without modular arithmetic.

**EntryProofs** — `RegistersAreKept`, `KernelStackIsOwn`, `AddressSpaceIsOwn`: for any number of tasks and
entries, on x86_64 and RISC-V.  `EntryInv` says of each task which frames its kernel stack may
hold and in which order, that the saved registers are the program's own, and of the globals
(`SYSCALL_USER_*`, `EXEC_CTX`, `TSS.rsp0` or `sscratch`) for which task they are valid at each point.  Hypothesis:
`fork` and `execve` are not made by INT 0x80, as neither the C library nor the built-in programs
do; section 5 says what happens otherwise.

**FrameProofs**, **HeapProofs** — `FramesTyped`, `FramesAreHeldOnce`, `FreeCountIsExact`, `LowestRunIsFound`,
`BlocksAreDisjoint`, `BlocksAreAligned`, `HeapCountersAreExact`, for every memory map and word size and every list of slab classes.  `FrameInv`
carries for each loop what it has found out so far: the search, that the run so far is free and
that no run begins below it; the marking and freeing loops, which bits are set; `HoldInv` ties owners to
what callers hold.  `SlabInv`: blocks of a class sit at multiples of their size in frames of their own
class.  Hypothesis `~Preemptible`: a call is not interrupted by another one, which SYSCALL and RISC-V
traps guarantee and INT 0x80 does not.  `BlocksAreAligned` also asks that the base of memory is aligned
(`BasesAligned`) and that no layout asks for more alignment than a page has (`Fits`): the heap gives a
large block the alignment of a page and no more.  `HeapCountersAreExact` needs two facts.  The block that
`alloc` hands out is not live yet: a block of a free list is not, by `SlabInv`, and one in a fresh frame is
not, since no live block lies in a frame that nobody owned.  And the sum of a finite set of blocks does not depend on the order of adding: the fold
exists (`BytesAdded`), and may begin with any block (`AnyFirst`, by induction on the cardinality), so that
a block adds its size when it comes and takes it off when it goes (`BytesSplit`).

**AddressProofs** — `AddressTypeCorrect`, `FramesUsedOnce`, `InitialStacksSound`, and the refinement `MemoryIsPrivate`
(`IsUserMemory`), for memory, page tables, programs and argument vectors of any size, on both
architectures.  `AddressInv` says that memory is sound (`MemorySound`: guards and held frames are
allocated, a split table has one use, and a free frame holds what it held at boot), that each live
task owns frames that are allocated, not under a guard, and each in one part of its page table or its kernel
stack (`TaskSound`, `PtSound`), and that two tasks own nothing in common.  `FramesHaveOneUse` alone
is not inductive: whether the next page is zeroed or stale, and whether a failing call harms what was there, depends on
the content and the use of frames that no task owns.

Each call is a fold over tables, pages, segments or strings.  For each fold a lemma gives its *run*: a function r
with r[0] the start, r[k] one turn after r[k - 1], and r[n] the result (`TablesRun`, `FreshRun`,
`SegmentRun`, `LoadRun`, `StackRun`, `CopyRun`, `PutRun`).  Loop invariants are then shown along the run: `Grows` (a call
takes free frames and writes only to those), `Builds` (its page table gets none but such frames) and
`Shown` (what a page of the new table reads).  From these one lemma per action gives `AddressInv'` and
the change of the memories that processes see, which is an action of `UserMemory` or a stutter.
`MemoryIsPrivate` has one hypothesis, `SegmentsApart`: no two segments of an executable share a page.  The loader does
not check it (section 5); the other three theorems do without.

**ShellProofs** — `FilesAreTyped`, `RootIsKept`, `NamesAreUnique`, `OldBytesAreGone`, `DirScanIsExact`, and the action property
`OthersFilesAreKept`, for any number of inodes, names, users, processes and descriptors.  `FilesInv` is about
the inode table alone (types; the root; bytes behind the end of a used inode are not `old`; names below
MAX_NAME unique) and the types of what refers to it: descriptors and current directories may
name freed inodes, and the proof shows that this does no harm.  `ScanInv` adds what a scan has
returned so far.  The walk of `resolve`, `list_dir_indexed` and the filling of a `getdents64` buffer are
recursive functions; that such a function exists and what it returns is proved from the least
argument at which it would fail.

`NamesAreUnique` is about names shorter than MAX_NAME, where the stored name is the whole of the name that was looked up
before it was stored; names given may have any length.  `DirScanIsExact` has no hypothesis on the
lengths of records or buffers: a call adds to `pos` what it returns, never more than is left of the list, and at
least one while something is left and the buffer holds any record.  That these are the entries from `pos` on follows as
long as nothing is written behind a skipped record; where it is, the property claims no more than the end of
the scan.

`PathsLeadBack` (`PathRoundTrip`): along the walk up, the names collected so far lead from where it stands back to
where it began, unless it got stuck (`LeadsBack`).  A step up prepends a name, and `lookup_in` finds by that name the
entry it came from, since names are unique.  Down again, `inode_path` puts a whole name as long as the buffer is not
full (`PutName`); a path that leaves room for the NUL was therefore never cut, so the hypothesis is only that
`getcwd` returns a path.  The buffer may have any size.

`ShownLineRuns`, `HistoryIsRecent`, `DraftIsKept`, about the command line, hold for lines and a history of any length.  The three
are inductive together with the types: what browsing shows is what the ring holds, and what
it restores is what it saved.

Model-checked only: `EveryReadyTaskRuns` and `LethalSignalKills`, since liveness is outside the prover.  The
hypotheses named above (`~Preemptible`, `Pic`, no `dup`, `SegmentsApart` and so on) are conditions
under which the runs check the same properties; where one fails, section 5 says what the code does.

## 5. What the code does otherwise

Three runs are expected to fail; each is the shortest way the code has to
contradict its own comment (`PROJECT.json`, `findings`):

| Run | Property | Cause |
|---|---|---|
| `killed_writer` | `RecordedReaderAwake` | signal delivery closes descriptors but wakes no pipe reader |
| `syscall_rsp` | `SpKept` | the user stack pointer of a system call waits in a global that other tasks' calls overwrite |
| `thread_pointer` | `FsKept` | after a switch `schedule()` restores FS.base from a stale local, and not at all for a new task |

More properties of the passing runs are violated once the constants leave out less.  Each of these takes TLC
seconds; the constants not named are those of the run.

| Run, with | Property | Cause |
|---|---|---|
| `pipes` with `Ops = {"pipe", "dup"}` | `PipeCountsExact` | `dup` and `dup2` copy a pipe descriptor without taking a reference (`scheduler/mod.rs:781`), against "number of open read ends" (`ipc/mod.rs:57`) |
| `pipes` with `Ops = {"pipe"}`, `MaxFds = 6`, `Handles = {3, 4, 5}` | `PipeCountsExact` | a `pipe()` that gets one descriptor of two leaves it open on a pipe that it gives back (`syscall/mod.rs:676`) |
| `fairness` with `Pic = TRUE` | `EveryReadyTaskRuns` | the end of interrupt comes after `schedule()` (`arch/x86_64/idt.rs:559`), so the next task runs with the timer masked |
| `processes` with `Ops = {"fork", "wait", "kill"}`, and `DeadStayDead` | `DeadStayDead` | a task killed while it is CURRENT runs on as a zombie (`scheduler/mod.rs:117`); in `waitpid` it becomes a sleeping task, which an exit wakes |
| `entry` with `Int80Calls = {"plain", "fork"}` | `RegistersKept` | only SYSCALL stores the callee-saved registers that `fork` hands to the child (`syscall/mod.rs:1083`) |

The models, or the source beside them, show more.

Processes and pipes:

* `PIPE_WAITERS` and `TTY_WAITER` hold one reader; a second one replaces it
  (`scheduler/mod.rs:693`), and nothing wakes the first.
* Spawn functions reuse a zombie's slot before the parent has waited (`scheduler/mod.rs:472`).
* `waitpid` blocks on any living child, not on a matching one (`scheduler/mod.rs:633`).
* The EMFILE path of `socketpair` leaks a write end (`syscall/mod.rs:710`).
* With a preempting timer a zombie that runs on may fork into its own slot, so `ContextsBelong`, like
  `DeadStayDead`, is checked with `Pic = TRUE`.
* A lone task in `nanosleep` spins for ever with interrupts disabled.
* `poll` yields once and reports no event; it reports POLLIN for a key release, and
  POLLOUT for a full pipe.  FUTEX_WAKE wakes nobody; FUTEX_WAIT yields once.

Entry and memory:

* `isr14` overwrites rcx, rdx and r14 before it saves anything (`arch/x86_64/idt.rs:460`).
* INT 0x80 leaves interrupts enabled.  With `Preemptible = TRUE` and two callers two calls of
  `alloc_frames` get the same frames (`FramesHeldOnce` fails in 13 steps).
* Where the stale `next` of `schedule()` names a reaped slot, its `unwrap()` panics.
* A RISC-V child of `fork` gets neither registers nor the result 0 (`arch/mod.rs:76`).
* Two segments of an executable that share a page get a frame each, and the later one hides what the
  earlier put there (`elf/mod.rs:157`).
* A failing `fork`, `execve` or spawn frees nothing of what it took, nor does reaping.
* `handle_user_page_fault` maps a zeroed page over a read-only one that is written to;
  `mmap` with a hint, and after a shrinking `brk`, does so too, and neither `brk` nor `mmap` flushes the TLB.  The initial stack page of a
  `spawn_user` program is not cleared (`Stale` in `RawImage`).
* A kernel access to a demand-paged user buffer is a fault in kernel mode, which halts.
* `init_fallback` (`memory/bitmap.rs:50`) marks no frame of the kernel image.

Files:

* O_TRUNC writes no bytes and cuts nothing (`syscall/mod.rs:1159`, `:370`).
* A `write` of the shell that shortens a file keeps the bytes behind its end, and a later
  extension by `lseek` and `write` shows them.
* `getdents64` passes over a record that does not fit and goes on with shorter ones behind it, but counts
  only those it wrote (`syscall/mod.rs:820`): the next call begins behind the skipped entry, which is lost, and
  before the last one written, which comes twice.  `DirScanExact` has the entries exact only where this
  did not happen.
* `rename` moves a directory below itself; files can be made under files (`touch` does not
  ask for a directory); `mkdir("/")` makes an entry without a name in the current directory.
  `PathRoundTrip` is about the inodes that hang from the root by named entries.
* `rename` looks the new path up and then stores its last component as the name, also when
  that is a dot: `mv b a/.` over a file `a` replaces `a` by a file named `.`, and doing so again
  with a new `a` makes a second one (`vfs/ramfs.rs:367`).  `NamesUnique` is about the other names.
* `inode_path` goes up 16 directories at most (`vfs/ramfs.rs:284`); below that the path lacks its first
  components.  `PathRoundTrip` is about the inodes within the 16.
* A name longer than MAX_NAME is stored cut but looked up whole (`vfs/ramfs.rs:38`), so it can be made
  again and again, and each time gives one more entry of the same stored name.  `NamesUnique` and
  `PathRoundTrip` are about names shorter than MAX_NAME; the longer ones are in the runs.
* `inode_path` cuts a path at the end of the buffer and does not say so (`vfs/ramfs.rs:295`).  `getcwd` answers ERANGE
  to a path that fills the buffer, but `pwd` and the prompt, with 256 bytes (`shell/mod.rs:79`, `:177`), print what
  fits: four names of 64 bytes do not.
* A descriptor of a file that was deleted reads and writes the file that has its inode now.
* `append` to a file that cannot be read, or that is nearly full, replaces what it held.
* `at_cwd` takes a descriptor of a file for a directory.

## 6. Not modelled, and the plan

Not modelled: `spawn_fn` and `kill_task`, the stack canary, `poll` and `futex` other than as a
`yield`, device descriptors, `ioctl`, time, identity and signal-handler calls, the shell's commands
that print and its `spawn`, `run`, `kill` and `halt`, the header checks of the ELF loader, the bump
allocator and `init_fallback`, the TLB, the second look at the input rings that a `read` by INT 0x80 needs (a call is one
step up to its `schedule()`), the AArch64 port (which runs no user program), boards and
consoles, the network headers.  What is left is I/O, formatting, boot-time tables or
stubs without state.

Left to do: finer models of `poll` and `futex`, and the theorems about frames and blocks with
`Preemptible = TRUE` once INT 0x80 disables interrupts.
