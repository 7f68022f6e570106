---------------------------- MODULE AddressSpace ----------------------------
(***************************************************************************)
(* User address spaces: the page tables (kernel/src/arch/x86_64/paging.rs  *)
(* and arch/riscv64/paging.rs), the ELF loader (kernel/src/elf/mod.rs),    *)
(* the task memory of the scheduler (spawn_user, spawn_elf, spawn_fork,    *)
(* execve_current, handle_user_page_fault) and the calls brk and mmap.     *)
(*                                                                         *)
(* Every call allocates frame by frame and may run out at each of them;    *)
(* nothing it took before is given back.  A call runs with interrupts      *)
(* disabled and is one action.  Physical memory is read and written        *)
(* through the frame that a page table names, as the code does.  There is  *)
(* no TLB: a program's store goes where the page table leads, also after   *)
(* brk and mmap, which replace entries without flushing them.              *)
(***************************************************************************)
EXTENDS Integers, Sequences, FiniteSets, SequencesExt

CONSTANTS
  Slots,        \* task slots for user processes, 1 .. MAX_TASKS - 1
  Arch,         \* "x86_64" or "riscv64"
  NumFrames,    \* frames of physical memory
  Loads,        \* what else there is: frames held by the kernel image and the heap,
                \* and the operations that the programs of a behaviour use
  StackFrames,  \* STACK_PAGES, and the guard page before them
  HugeFrames,   \* frames that a huge page of the kernel's map has
  PageSize, NumPages,
  UserPage,     \* the first user page (USER_BASE_VA)
  TablePages,   \* pages that one last-level table maps
  CodePage, RawStackPage,  \* where spawn_user puts code and stack
  UserStackPages, StackTop, \* USER_STACK_PAGES, and USER_ELF_STACK_TOP as a page
  StackRegion,  \* USER_STACK_SIZE, in the units of the strings
  Exes,         \* ELF files: sequences of segments [va, filesz, memsz, write],
                \* without those of no memory, which load skips
  Vectors,      \* argument vectors: sequences of string lengths
  MaxVec, MaxArg, \* MAX_EXEC_VEC, MAX_ARG_LEN
  Word, Align, Auxv, \* 8, 16 and 176 bytes in the code
  Breaks,       \* addresses passed to brk; 0 only asks for the break
  Hints,        \* addresses passed to mmap
  Touched       \* pages that the programs access

ASSUME AddressAssumption ==
  /\ Slots \subseteq Nat /\ Arch \in {"x86_64", "riscv64"}
  /\ \A n \in {NumFrames, StackFrames, HugeFrames, PageSize, NumPages, TablePages,
                UserPage, UserStackPages, Word, Align} : n \in Nat \ {0}
  /\ StackTop \in Nat /\ StackTop - UserStackPages > UserPage

Frames == 0 .. NumFrames - 1
Pages == 0 .. NumPages - 1
None == -1
NoPage == [frame |-> None, write |-> FALSE]

\* The tables of the upper levels; those of the last go by their first page.
Top == -2
Mid == -1

VARIABLES
  used,    \* frames that the frame allocator has marked
  data,    \* what a frame holds: the set of things put into it
  guards,  \* frames that the kernel's own map no longer has
  split,   \* the table that replaced a huge page of the kernel's map, or None
  task,    \* the tasks' memory
  env      \* the load of this behaviour (never changes)

vars == <<used, data, guards, split, task, env>>

Zero == {}
Stale == {<<"stale", 0>>}  \* what a frame holds that nobody has cleared

-----------------------------------------------------------------------------
(***************************************************************************)
(* A call in progress.  got is the frame that the last allocation gave and *)
(* pt the page table being built or changed; ok turns FALSE when an        *)
(* allocation or a mapping fails, and the steps after that do nothing.     *)
(***************************************************************************)
EmptyTable == [root |-> None, tables |-> [t \in {Top, Mid} \cup Pages |-> None],
               map |-> [page \in Pages |-> NoPage]]

Work(pt) == [ok |-> TRUE, got |-> None, pt |-> pt,
             used |-> used, data |-> data, guards |-> guards, split |-> split]

\* The frames, the memory and the kernel's map as the call leaves them.
Commit(w) == used' = w.used /\ data' = w.data /\ guards' = w.guards /\ split' = w.split

Run(f, n) == f .. f + n - 1

alloc_pages(w, n) ==
  LET runs == {f \in Frames : Run(f, n) \subseteq Frames \ w.used}
      f == CHOOSE f \in runs : \A g \in runs : f <= g
  IN  IF ~w.ok THEN w
      ELSE IF runs = {} THEN [w EXCEPT !.ok = FALSE]
      ELSE [w EXCEPT !.used = @ \cup Run(f, n), !.got = f]

\* The frame just allocated is filled.
Fill(w, content) == IF w.ok THEN [w EXCEPT !.data[w.got] = content] ELSE w

\* protect_guard_page takes the frame out of the kernel's map.  The huge page
\* around it is split first; its caller ignores a failure to do so.
protect_guard_page(w, f) ==
  LET huge == f \div HugeFrames
      t == alloc_pages(w, 1)
  IN  IF ~w.ok \/ Arch = "riscv64" THEN w
      ELSE IF w.split[huge] # None THEN [w EXCEPT !.guards = @ \cup {f}]
      ELSE IF ~t.ok THEN w
      ELSE [t EXCEPT !.split[huge] = t.got, !.guards = @ \cup {f}, !.got = f]

\* A guard page and the kernel stack above it; got is the guard page.
KernelStack(w) ==
  LET k == alloc_pages(w, 1 + StackFrames) IN protect_guard_page(k, k.got)

-----------------------------------------------------------------------------
(***************************************************************************)
(* Page tables.  A user page is reached through one table of each level;   *)
(* the whole user range has one table in the upper ones.                   *)
(***************************************************************************)
LastTable(page) == page - (page % TablePages)

X86Tables(page) == <<Top, Mid, LastTable(page)>>  \* PDPT, PD, PT
Sv39Tables(page) == <<Mid, LastTable(page)>>      \* L1, L0

TablesOf(page) == IF Arch = "x86_64" THEN X86Tables(page) ELSE Sv39Tables(page)

create_empty_process_page_table(w) ==
  LET r == alloc_pages(w, 1) IN [r EXCEPT !.pt = [EmptyTable EXCEPT !.root = r.got]]

WithTable(w, t) ==
  LET n == alloc_pages(w, 1)
  IN  IF ~w.ok \/ w.pt.tables[t] # None THEN w
      ELSE IF ~n.ok THEN n
      ELSE [n EXCEPT !.pt.tables[t] = n.got]

\* Tables are added on demand.
WithTables(w, page) == FoldLeft(WithTable, w, TablesOf(page))

\* A slip: a page of the kernel's range is mapped like any other.
map_user_page_low(w, page, frame, write) ==
  LET t == WithTables(w, page)
  IN  IF ~t.ok THEN t
      ELSE [t EXCEPT !.pt.map[page] = [frame |-> frame, write |-> write]]

\* A mapping that was there is replaced.
map_user_page(w, page, frame, write) ==
  LET t == WithTables(w, page)
  IN  IF ~w.ok THEN w
      ELSE IF page < UserPage THEN [w EXCEPT !.ok = FALSE]
      ELSE IF ~t.ok THEN t
      ELSE [t EXCEPT !.pt.map[page] = [frame |-> frame, write |-> write]]

\* A new frame with the content, mapped at the page.
NewPage(w, page, content, write) ==
  LET n == Fill(alloc_pages(w, 1), content) IN map_user_page(n, page, n.got, write)

create_process_page_table(w, code, stack) ==
  LET t == WithTables(create_empty_process_page_table(w), CodePage)
  IN  IF ~t.ok THEN t
      ELSE [t EXCEPT !.pt.map[CodePage] = [frame |-> code, write |-> TRUE],
                     !.pt.map[RawStackPage] = [frame |-> stack, write |-> TRUE]]

\* The numbers lo .. hi - 1 in turn.
Upwards(lo, hi) == [i \in 1 .. hi - lo |-> lo + i - 1]
Mapped(pt) == {page \in Pages : pt.map[page] # NoPage}

\* A slip: the copy maps the frames of the original.
clone_user_page_table_shared(w, src) ==
  LET Share(v, page) == IF page \notin Mapped(src) THEN v
                        ELSE map_user_page(v, page, src.map[page].frame, src.map[page].write)
  IN  FoldLeft(Share, create_empty_process_page_table(w), Upwards(0, NumPages))

\* The tables of the upper levels, then each of the last with its pages.
clone_user_page_table(w, src) ==
  LET Copy(v, x) ==
        LET t == IF src.tables[x] = None THEN v ELSE WithTable(v, x)
        IN  IF x \notin Mapped(src) THEN t
            ELSE NewPage(t, x, t.data[src.map[x].frame], src.map[x].write)
  IN  FoldLeft(Copy, create_empty_process_page_table(w), Upwards(Top, NumPages))

-----------------------------------------------------------------------------
(***************************************************************************)
(* Loading a program                                                       *)
(***************************************************************************)
PageOf(addr) == addr \div PageSize
PagesUpTo(addr) == (addr + PageSize - 1) \div PageSize
SegPages(s) == PageOf(s.va) .. PagesUpTo(s.va + s.memsz) - 1

Segments == [va : Nat, filesz : Nat, memsz : Nat \ {0}, write : BOOLEAN]

\* Everything that programs name lies in the modelled address space, and the
\* one last-level table of create_process_page_table has both of its pages.
ASSUME LayoutAssumption ==
  /\ {CodePage, RawStackPage} \subseteq UserPage .. NumPages - 1 /\ CodePage # RawStackPage
  /\ LastTable(CodePage) = LastTable(RawStackPage)
  /\ StackTop <= NumPages /\ Touched \subseteq Pages /\ Hints \subseteq Nat
  /\ Breaks \subseteq Nat \ {0} /\ \A addr \in Breaks : PagesUpTo(addr) <= NumPages
  /\ Exes \subseteq Seq(Segments)
  /\ \A exe \in Exes : \A i \in DOMAIN exe : PagesUpTo(exe[i].va + exe[i].memsz) <= NumPages
  /\ Vectors \subseteq Seq(Nat) /\ {MaxVec, StackRegion, Auxv} \subseteq Nat
  /\ \A x \in Loads : x.held \subseteq Frames

\* The page holds bytes of the segment's part in the file.
InFile(s, page) == s.va + s.filesz > page * PageSize /\ s.filesz > 0 /\ page \in SegPages(s)

SegContent(s, page) == IF InFile(s, page) THEN {<<"file", s.va>>} ELSE Zero

\* load: the segments in turn, each page in a frame of its own.
LoadSegment(w, s) ==
  LET LoadPage(v, page) == NewPage(v, page, SegContent(s, page), s.write)
  IN  FoldLeft(LoadPage, w, Upwards(PageOf(s.va), PagesUpTo(s.va + s.memsz)))

load(w, exe) == FoldLeft(LoadSegment, w, exe)

heap_start(exe) ==
  Max({0} \cup {PagesUpTo(exe[i].va + exe[i].memsz) * PageSize : i \in DOMAIN exe})

\* The strings that user_cstr_array takes from a vector: it stops at the
\* first that is too long.
user_cstr_array(v) ==
  LET fit == {n \in 0 .. Len(v) : n <= MaxVec /\ \A i \in 1 .. n : v[i] < MaxArg}
  IN  SubSeq(v, 1, CHOOSE n \in fit : \A m \in fit : m <= n)

Down(x, a) == x - (x % a)

\* A slip: the room for the terminating byte is forgotten.
PutStringShort(l, len) ==
  IF ~l.ok \/ l.off < len THEN [l EXCEPT !.ok = FALSE]
  ELSE LET off == Down(l.off - len, Word)
       IN  [l EXCEPT !.off = off, !.strings = Append(@, [lo |-> off, hi |-> off + len])]

PutString(l, len) ==
  IF ~l.ok \/ l.off < len + 1 THEN [l EXCEPT !.ok = FALSE]
  ELSE LET off == Down(l.off - (len + 1), Word)
       IN  [l EXCEPT !.off = off, !.strings = Append(@, [lo |-> off, hi |-> off + len])]

PutStrings(strings, top) ==
  FoldLeft(PutString, [ok |-> TRUE, off |-> top, strings |-> <<>>, table |-> 0], strings)

NoLayout == [ok |-> FALSE, off |-> 0, strings |-> <<>>, table |-> 0]

\* setup_abi_stack: the random bytes at the top, the strings below them, and
\* the table of pointers below the strings.  strings gives the first and the
\* last byte of each, and table the end of the table that begins at off.
setup_abi_stack(argv, envp) ==
  LET strings == (IF argv = <<>> THEN <<1>> ELSE argv) \o envp
      l == PutStrings(strings, StackRegion - 2 * Word)
      size == Word + (Len(strings) + 2) * Word + Auxv
  IN  IF ~l.ok \/ l.off < size THEN NoLayout
      ELSE [l EXCEPT !.off = Down(l.off - size, Align), !.table = Down(l.off - size, Align) + size]

\* The pages of the stack are mapped to consecutive frames.
MapStack(w, frame) ==
  LET first == StackTop - UserStackPages
      MapOne(v, page) == map_user_page(v, page, frame + page - first, TRUE)
  IN  FoldLeft(MapOne, w, Upwards(first, StackTop))

\* map_user_init_stack, and what setup_abi_stack writes to its last page.
map_user_init_stack(w) ==
  LET s == alloc_pages(w, UserStackPages)
      cleared == [s EXCEPT !.data = [f \in Frames |->
                    IF f \notin Run(s.got, UserStackPages) THEN @[f]
                    ELSE IF f = s.got + UserStackPages - 1 THEN {<<"args", 0>>} ELSE Zero]]
  IN  IF ~s.ok THEN s
      ELSE MapStack(cleared, s.got)

\* The address space of a new program image.
NewImage(w, exe) == map_user_init_stack(load(create_empty_process_page_table(w), exe))

-----------------------------------------------------------------------------
(***************************************************************************)
(* Tasks                                                                   *)
(***************************************************************************)
NoTask == [state |-> "none", guard |-> None, pt |-> EmptyTable, brk |-> 0, stack |-> NoLayout]

Live(p) == task[p].state = "live"
VacantSlots == {p \in Slots : ~Live(p)}
IsVacantSlot(p) == p \in VacantSlots /\ \A q \in VacantSlots : p <= q

Init ==
  /\ env \in Loads /\ used = env.held
  /\ data = [f \in Frames |-> Stale]
  /\ guards = {} /\ split = [h \in 0 .. (NumFrames - 1) \div HugeFrames |-> None]
  /\ task = [p \in Slots |-> NoTask]

\* The new task goes to the first vacant slot; without one, or after a
\* failure, what was allocated stays allocated.
Spawned(w, guard, brk, stack) ==
  /\ Commit(w)
  /\ IF ~w.ok \/ VacantSlots = {} THEN UNCHANGED task
     ELSE \E p \in Slots :
            /\ IsVacantSlot(p)
            /\ task' = [task EXCEPT ![p] = [state |-> "live", guard |-> guard, pt |-> w.pt,
                                            brk |-> brk, stack |-> stack]]

\* The code page is filled and cleared to its end, the stack page is not.
spawn_user ==
  LET k == KernelStack(Work(EmptyTable))
      code == alloc_pages(k, 1)
      stack == alloc_pages(code, 1)
      w == create_process_page_table(IF stack.ok THEN [stack EXCEPT !.data[code.got] = {<<"prog", 0>>}]
                                     ELSE stack, code.got, stack.got)
  IN  Spawned(w, k.got, 0, NoLayout)

spawn_elf(exe) ==
  LET k == KernelStack(Work(EmptyTable))
      l == setup_abi_stack(<<>>, <<>>)
      w == NewImage(k, exe)
  IN  Spawned([w EXCEPT !.ok = @ /\ l.ok], k.got, heap_start(exe), l)

spawn_fork(p) ==
  LET k == KernelStack(Work(EmptyTable))
  IN  /\ Live(p)
      /\ Spawned(clone_user_page_table(k, task[p].pt), k.got, task[p].brk, task[p].stack)

\* A slip: the task has its new page table before the image is complete.
execve_current_early(p, exe, argv, envp) ==
  LET w == NewImage(Work(EmptyTable), exe)
  IN  /\ Live(p)
      /\ Commit(w)
      /\ task' = [task EXCEPT ![p].pt = w.pt]

\* The task gets the new image at the end, when nothing can fail any more.
execve_current(p, exe, argv, envp) ==
  LET w == NewImage(Work(EmptyTable), exe)
      l == setup_abi_stack(user_cstr_array(argv), user_cstr_array(envp))
  IN  /\ Live(p)
      /\ Commit(w)
      /\ task' = IF w.ok /\ l.ok
                 THEN [task EXCEPT ![p].pt = w.pt, ![p].brk = heap_start(exe), ![p].stack = l]
                 ELSE task

exit_current(p) == Live(p) /\ task' = [task EXCEPT ![p].state = "zombie"] /\ UNCHANGED <<used, data, guards, split>>

\* Cleared pages lo .. hi - 1, one after the other.
FreshPages(w, lo, hi, write) ==
  LET One(v, page) == NewPage(v, page, Zero, write) IN FoldLeft(One, w, Upwards(lo, hi))

\* Fresh pages lo .. hi - 1 of task p; brk is its break when all are mapped.
MapFresh(p, lo, hi, write, brk) ==
  LET w == FreshPages(Work(task[p].pt), lo, hi, write)
  IN  /\ Commit(w)
      /\ task' = [task EXCEPT ![p].pt = w.pt, ![p].brk = IF w.ok THEN brk ELSE @]

sys_brk(p, addr) ==
  /\ Live(p)
  /\ IF addr <= task[p].brk
     THEN task' = [task EXCEPT ![p].brk = addr] /\ UNCHANGED <<used, data, guards, split>>
     ELSE MapFresh(p, PagesUpTo(task[p].brk), PagesUpTo(addr), TRUE, addr)

\* An address in the user range is taken as it is; else the break is used.
sys_mmap(p, hint, n, write) ==
  LET base == IF hint >= UserPage * PageSize THEN hint ELSE PagesUpTo(task[p].brk) * PageSize
      top == base + n * PageSize
  IN  /\ Live(p) /\ top <= NumPages * PageSize
      /\ MapFresh(p, PageOf(base), PageOf(base) + n, write,
                  IF top > task[p].brk THEN top ELSE task[p].brk)

\* The process writes to a page that it may write to.
Store(p, page) ==
  /\ Live(p) /\ task[p].pt.map[page].write
  /\ data' = [data EXCEPT ![task[p].pt.map[page].frame] = {<<"store", p>>}]
  /\ UNCHANGED <<used, guards, split, task>>

\* An access that the page table does not allow: a page that is not mapped, or
\* a write to one that may only be read.  The handler makes no difference
\* between them.  Without a frame the task exits.
handle_user_page_fault(p, page) ==
  LET w == NewPage(Work(task[p].pt), page, Zero, TRUE)
  IN  /\ Live(p) /\ ~task[p].pt.map[page].write
      /\ Commit(IF page < UserPage THEN Work(EmptyTable) ELSE w)
      /\ task' = IF page >= UserPage /\ w.ok THEN [task EXCEPT ![p].pt = w.pt]
                 ELSE [task EXCEPT ![p].state = "zombie", ![p].pt = IF page < UserPage THEN @ ELSE w.pt]

Next ==
  /\ UNCHANGED env
  /\ \/ spawn_user
     \/ \E exe \in Exes : spawn_elf(exe)
     \/ \E p \in Slots :
          \/ exit_current(p)
          \/ "fork" \in env.ops /\ spawn_fork(p)
          \/ "exec" \in env.ops /\ \E exe \in Exes, argv, envp \in Vectors : execve_current(p, exe, argv, envp)
          \/ "heap" \in env.ops /\ \E addr \in Breaks : sys_brk(p, addr)
          \/ "heap" \in env.ops /\ \E hint \in Hints, write \in BOOLEAN : sys_mmap(p, hint, 1, write)
          \/ "store" \in env.ops /\ \E page \in Touched : Store(p, page)
          \/ "fault" \in env.ops /\ \E page \in Touched : handle_user_page_fault(p, page)

Spec == Init /\ [][Next]_vars

-----------------------------------------------------------------------------
(***************************************************************************)
(* Properties                                                              *)
(***************************************************************************)
TablesIn(pt) == {t \in DOMAIN pt.tables : pt.tables[t] # None}

\* Type invariant: live tasks have a root, tables for all that they map, and
\* mappings to frames, none of them below the user range.
AddressTypeOK ==
  /\ used \subseteq Frames /\ guards \subseteq used
  /\ \A p \in Slots : task[p].state \in {"none", "live", "zombie"}
  /\ \A p \in Slots : Live(p) =>
       /\ task[p].pt.root \in Frames /\ task[p].guard \in Frames
       /\ \A page \in Mapped(task[p].pt) :
            /\ page >= UserPage /\ task[p].pt.map[page].frame \in Frames
            /\ \A i \in DOMAIN TablesOf(page) : TablesOf(page)[i] \in TablesIn(task[p].pt)

\* What a frame is used for by task p.
Uses(p) ==
  {[of |-> p, as |-> <<"root", 0>>, at |-> task[p].pt.root]}
    \cup {[of |-> p, as |-> <<"table", t>>, at |-> task[p].pt.tables[t]] : t \in TablesIn(task[p].pt)}
    \cup {[of |-> p, as |-> <<"page", page>>, at |-> task[p].pt.map[page].frame] : page \in Mapped(task[p].pt)}
    \cup {[of |-> p, as |-> <<"stack", i>>, at |-> task[p].guard + i] : i \in 1 .. StackFrames}

Splits == {[of |-> 0, as |-> <<"split", h>>, at |-> split[h]] : h \in {g \in DOMAIN split : split[g] # None}}

AllUses == Splits \cup UNION {Uses(p) : p \in {q \in Slots : Live(q)}}

\* No frame has two uses: no page is visible in two address spaces or at two
\* addresses, no page of a process is a page table or a kernel stack, and
\* nothing in use lies in a guard page, where the kernel would fault on it.
FramesHaveOneUse ==
  /\ \A u, v \in AllUses : u.at = v.at => u = v
  /\ \A u \in AllUses : u.at \in used \ (guards \cup env.held)

\* The initial stack that setup_abi_stack lays out: strings, table and random
\* bytes are disjoint and inside the region, and the stack pointer is aligned.
InitialStackSound ==
  \A p \in Slots : LET l == task[p].stack IN Live(p) /\ l.ok =>
    /\ l.off >= 0 /\ l.off % Align = 0
    /\ \A i \in DOMAIN l.strings :
         l.strings[i].lo >= l.table /\ l.strings[i].hi < StackRegion - 2 * Word
    /\ \A i, j \in DOMAIN l.strings : i < j => l.strings[j].hi < l.strings[i].lo

(***************************************************************************)
(* The refinement: what process p reads at each page.                      *)
(***************************************************************************)
Absent == {<<"absent", 0>>}

View(p) == [page \in Pages |-> IF task[p].pt.map[page] = NoPage THEN Absent
                               ELSE data[task[p].pt.map[page].frame]]

\* The memory that an ELF file describes, defined from its segments at once:
\* a page has the file bytes of every segment that reaches into it.
ElfImage(exe) == [page \in Pages |->
  IF page \in StackTop - UserStackPages .. StackTop - 1
  THEN IF page = StackTop - 1 THEN {<<"args", 0>>} ELSE Zero
  ELSE IF \A i \in DOMAIN exe : page \notin SegPages(exe[i]) THEN Absent
  ELSE {<<"file", exe[i].va>> : i \in {j \in DOMAIN exe :
          page \in SegPages(exe[j]) /\ exe[j].filesz > 0 /\ page <= PageOf(exe[j].va + exe[j].filesz - 1)}}]

\* The memory of a program from spawn_user; its stack page is as it was found.
RawImage == [page \in Pages |-> IF page = CodePage THEN {<<"prog", 0>>}
                                ELSE IF page = RawStackPage THEN Stale ELSE Absent]

Memory == INSTANCE UserMemory WITH
  Images <- {ElfImage(exe) : exe \in Exes} \cup {RawImage},
  Stores <- {{<<"store", p>>} : p \in Slots},
  view <- [p \in Slots |-> IF Live(p) THEN View(p) ELSE <<>>]

\* Page tables, frames and copies give every process a private memory: what it
\* reads is zero or what it stored, inherited or was started with, whatever the
\* others do and wherever memory runs out; a failed exec or fork leaves it as it
\* was.
\* (Its own faults and calls may clear pages that it has; see Fresh.)
IsUserMemory == Memory!Spec
=============================================================================
