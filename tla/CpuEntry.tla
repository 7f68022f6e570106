------------------------------ MODULE CpuEntry ------------------------------
(***************************************************************************)
(* Entering and leaving the kernel: SYSCALL, INT 0x80, page faults and     *)
(* interrupts on x86_64 (kernel/src/arch/x86_64/idt.rs, context.rs), traps *)
(* on RISC-V (arch/riscv64/trap.rs, context.rs), and the switch of tasks   *)
(* in between (schedule of kernel/src/scheduler/mod.rs).                   *)
(*                                                                         *)
(* A value is a pair that names whose it is: a task's program has one      *)
(* value in all of its registers and takes another with each computation,  *)
(* so a register that comes back with the value of another task, of an     *)
(* earlier time or of the kernel is told from one that was kept.  Register *)
(* names are those of x86_64 and stand for groups that are saved alike.    *)
(***************************************************************************)
EXTENDS Integers, Sequences, FiniteSets

CONSTANTS
  Tasks,         \* slots of user tasks
  Archs,         \* the architectures, of {"x86_64", "riscv64"}
  SyscallCalls,  \* what programs ask for by SYSCALL, or by ecall on RISC-V
  Int80Calls,    \* what they ask for by INT 0x80
  MaxEntries     \* bound on the entries from tasks into the kernel

Calls == {"plain", "yield", "block", "fork", "exec", "set_fs", "reap", "exit"}

Idle == 0   \* slot 0, which halts in the kernel and leaves the CPU at a tick only
None == -1
Halted == -2   \* the kernel has panicked

ASSUME EntryAssumption ==
  /\ {Idle, None, Halted} \cap Tasks = {} /\ MaxEntries \in Nat
  /\ SyscallCalls \subseteq Calls /\ Int80Calls \subseteq Calls

Callee == {"rbx", "r14"}         \* rbx, rbp, r12, r13, r15, and r14
Args == {"rdi", "rdx", "r8"}     \* rdi, rsi; rdx; r8, r9, r10
Regs == Callee \cup Args \cup {"ip", "sp", "rax", "rcx", "r11"}

Garbage == <<-1, 0>>  \* a value of the kernel
NoValue == <<0, 0>>

VARIABLES
  arch,    \* the architecture of this behaviour
  cur,     \* CURRENT
  regs,    \* the registers
  ints,    \* whether interrupts are enabled
  k_rsp,   \* whose kernel stack TSS.rsp0 and SYSCALL_KERNEL_RSP, or sscratch, name
  cr3,     \* the active page table
  fs,      \* the FS.base register
  u_rsp,   \* SYSCALL_USER_RSP
  snapshot, \* SYSCALL_USER_RBX .. SYSCALL_USER_R15
  ctx,     \* SYSCALL_USER_IP, SYSCALL_USER_SP and SYSCALL_USER_REGS
  exec,    \* EXEC_CTX: the new value of ip and sp, and the page table
  task,    \* the tasks
  entries  \* the entries so far

cpu == <<regs, ints, k_rsp, cr3, fs>>
globals == <<u_rsp, snapshot, ctx, exec>>
vars == <<arch, cur, cpu, globals, task, entries>>

(***************************************************************************)
(* A task: stack is its kernel stack, last frame on top.  val, live and tp  *)
(* are not state of the code: the value that its program left in its       *)
(* registers, the registers that the program counts on, and the thread     *)
(* pointer that it asked for.                                              *)
(***************************************************************************)
Frame(kind, call, saved) ==
  [kind |-> kind, call |-> call, saved |-> saved, done |-> FALSE, next |-> Idle, ints |-> ints]

\* Entered by a trampoline, with the registers that it loads.
NewTask(kind, saved, pt, fs_base, val, live, tp) ==
  [state |-> "ready", pt |-> pt, fs_base |-> fs_base, val |-> val, live |-> live, tp |-> tp,
   stack |-> << [kind |-> kind, call |-> "plain", saved |-> saved, done |-> TRUE,
                 next |-> Idle, ints |-> TRUE] >>]

NoTask == [state |-> "none", pt |-> NoValue, fs_base |-> NoValue, val |-> NoValue, live |-> {},
           tp |-> NoValue, stack |-> <<>>]

Only(S, v) == [r \in S |-> v]

\* task_init_userspace_stack: a program starts with its ip and sp.
UserTask(t) ==
  NewTask("start", Only({"ip", "sp"}, <<t, 0>>), <<t, 0>>, NoValue, <<t, 0>>, {"ip", "sp"}, NoValue)

Init ==
  /\ arch \in Archs
  /\ cur = Idle /\ regs = Only(Regs, NoValue) /\ ints = TRUE
  /\ k_rsp = None /\ cr3 = NoValue /\ fs = NoValue
  /\ u_rsp = NoValue /\ snapshot = Only(Callee, NoValue)
  /\ ctx = Only(Args \cup {"ip", "sp"}, NoValue) /\ exec = NoValue
  /\ entries = 0
  /\ \E vacant \in SUBSET Tasks :
       task = [t \in Tasks \cup {Idle} |->
                 IF t = Idle THEN [NoTask EXCEPT !.live = Callee, !.state = "ready"]
                 ELSE IF t \in vacant THEN NoTask ELSE UserTask(t)]

\* The current task runs its own code: no frame of the kernel is in use.
InProgram == cur # Halted /\ task[cur].stack = <<>>
InUser == cur # Idle /\ InProgram

Top(t) == task[t].stack[Len(task[t].stack)]
Popped(s) == SubSeq(s, 1, Len(s) - 1)

Kept(S) == [r \in S |-> regs[r]]

\* Registers with the given ones put back, and the rest as the kernel left it.
Loaded(saved, rest) == [r \in Regs |-> IF r \in DOMAIN saved THEN saved[r] ELSE rest[r]]

-----------------------------------------------------------------------------
(***************************************************************************)
(* A program                                                               *)
(***************************************************************************)
Other(v) == <<cur, 1 - v[2]>>

\* The program computes: it has a new value in every register, but goes on
\* with its thread pointer.
Compute ==
  /\ InUser
  /\ task' = [task EXCEPT ![cur].val = Other(@), ![cur].live = Regs]
  /\ regs' = Only(Regs, Other(task[cur].val))
  /\ UNCHANGED <<arch, entries, cur, ints, k_rsp, cr3, fs, globals>>

-----------------------------------------------------------------------------
(***************************************************************************)
(* Entering the kernel.  From a program the frame goes to the top of the   *)
(* stack that k_rsp names, whatever is there; from the kernel, on top of   *)
(* the stack in use.  A RISC-V trap takes sscratch = 0 for a trap from the *)
(* kernel, and leaves 0 in it.                                             *)
(***************************************************************************)
FromUser == IF arch = "riscv64" THEN k_rsp # None ELSE InUser

Enter(frame) ==
  /\ cur # Idle => entries < MaxEntries
  /\ entries' = IF cur = Idle THEN entries ELSE entries + 1
  /\ FromUser => k_rsp # None
  /\ task' = IF FromUser THEN [task EXCEPT ![k_rsp].stack = <<frame>>]
             ELSE [task EXCEPT ![cur].stack = Append(@, frame)]
  /\ k_rsp' = IF arch = "riscv64" THEN None ELSE k_rsp
  /\ UNCHANGED <<arch, cur, cr3, fs, exec>>

\* What the kernel leaves in the registers that a stub does not keep.
Clobbered == [r \in Regs |-> IF r \in Callee THEN regs[r] ELSE Garbage]

UserContext(sp) == [r \in Args \cup {"ip", "sp"} |-> IF r = "sp" THEN sp ELSE regs[r]]

\* SYSCALL: the stub parks sp in a global, saves the argument registers and
\* leaves the callee-saved ones where they are.  Interrupts are off.
syscall_entry_asm(call) ==
  /\ arch = "x86_64" /\ InUser /\ call \in SyscallCalls
  /\ Enter(Frame("syscall", call, Kept(Args \cup {"ip"})))
  /\ u_rsp' = regs["sp"] /\ snapshot' = Kept(Callee)
  /\ ctx' = UserContext(regs["sp"])
  /\ regs' = Clobbered /\ ints' = FALSE

\* INT 0x80: rdi, rsi and rdx are not saved, and interrupts stay on.
isr128(call) ==
  /\ arch = "x86_64" /\ InUser /\ call \in Int80Calls
  /\ Enter(Frame("int80", call, Kept(Callee \cup {"r8", "rcx", "r11", "ip", "sp"})))
  /\ ctx' = UserContext(regs["sp"])
  /\ regs' = Clobbered
  /\ UNCHANGED <<ints, u_rsp, snapshot>>

\* A page fault of a program: rcx, rdx and r14 are overwritten before anything
\* is saved.
isr14 ==
  /\ arch = "x86_64" /\ InUser
  /\ Enter(Frame("fault", "fault", [r \in Regs \ {"rcx", "rdx"} |-> IF r = "r14" THEN Garbage ELSE regs[r]]))
  /\ regs' = Clobbered /\ ints' = FALSE
  /\ UNCHANGED <<u_rsp, snapshot, ctx>>

\* An interrupt, of a program or of kernel code that has them enabled.
make_isr ==
  /\ arch = "x86_64" /\ ints
  /\ Enter(Frame("irq", "tick", Kept(Regs)))
  /\ regs' = Clobbered /\ ints' = FALSE
  /\ UNCHANGED <<u_rsp, snapshot, ctx>>

\* RISC-V has one entry for all of these, which saves everything.
trap_entry(call) ==
  /\ arch = "riscv64"
  /\ IF call = "tick" THEN ints ELSE InUser /\ call \in SyscallCalls \cup {"fault"}
  /\ Enter(Frame("trap", call, Kept(Regs)))
  /\ ctx' = IF call \in Calls THEN UserContext(regs["sp"]) ELSE ctx
  /\ regs' = Clobbered /\ ints' = FALSE
  /\ UNCHANGED <<u_rsp, snapshot>>

-----------------------------------------------------------------------------
(***************************************************************************)
(* Switching tasks, from the task table ts                                 *)
(***************************************************************************)
ReadyTasks(ts) == {t \in Tasks : ts[t].state = "ready"}

\* The slots that schedule may find: which one comes first is not modelled.
NextSlots(ts) == IF ReadyTasks(ts) = {} THEN {Idle} ELSE ReadyTasks(ts)

\* A slip: the stack of the task that left stays the one for entries.
StackForOld(next) == k_rsp

StackFor(next) == IF next = Idle THEN None ELSE next

\* A slip: context_switch forgets one of the callee-saved registers.
SwitchSavedLess == Kept(Callee \ {"r14"})

SwitchSaved == Kept(Callee)

\* A slip: the page table of the task that left stays active.
TableForOld(t) == cr3

TableFor(t) == t.pt

\* schedule: the task that leaves keeps its callee-saved registers and its
\* locals on its stack, among them the slot it switches to.  A task that comes
\* back writes the FS.base of the slot in its own local, and the kernel panics
\* when that slot is empty by now; a task that runs for the first time goes to
\* its program by a trampoline, which leaves FS.base alone.
schedule(ts) ==
  \E next \in NextSlots(ts) :
    LET switch == [Frame("switch", "plain", SwitchSaved) EXCEPT !.done = TRUE, !.next = next]
        left == [ts EXCEPT ![cur].fs_base = fs,
                           ![cur].stack = IF ts[cur].state = "zombie" THEN <<>> ELSE Append(@, switch)]
        f == left[next].stack[Len(left[next].stack)]
        panics == f.kind = "switch" /\ left[f.next].state = "none"
    IN  IF next = cur THEN task' = ts /\ UNCHANGED <<cur, cpu>>
        ELSE /\ cur' = IF panics THEN Halted ELSE next
             /\ k_rsp' = StackFor(next)
             /\ cr3' = TableFor(left[next])
             /\ task' = [left EXCEPT ![next].stack = Popped(@)]
             /\ regs' = Loaded(f.saved, Only(Regs, Garbage))
             /\ fs' = IF f.kind = "switch" /\ ~panics THEN left[f.next].fs_base ELSE fs
             /\ ints' = (f.ints /\ ~panics)

\* An event that a blocked task waits for, at any time.
Wake(t) ==
  /\ task[t].state = "blocked"
  /\ task' = [task EXCEPT ![t].state = "ready"]
  /\ UNCHANGED <<arch, entries, cur, cpu, globals>>

-----------------------------------------------------------------------------
(***************************************************************************)
(* What the handlers do, for the entry on top of the current stack         *)
(***************************************************************************)
Handles(calls) ==
  /\ cur # Halted /\ ~InProgram
  /\ ~Top(cur).done /\ Top(cur).call \in calls

\* The handler of the current task is through.
Served == [task EXCEPT ![cur].stack[Len(task[cur].stack)].done = TRUE]

\* A call that returns at once, a page fault that is resolved by a new page, a
\* tick that does not end the time slice.
Plain ==
  /\ Handles({"plain", "fault", "tick"})
  /\ task' = Served
  /\ UNCHANGED <<arch, entries, cur, cpu, globals>>

\* sched_yield, and the tick that ends a time slice.
Yield ==
  /\ Handles({"yield", "tick"})
  /\ schedule(Served)
  /\ UNCHANGED <<arch, entries, globals>>

Block ==
  /\ Handles({"block"})
  /\ schedule([Served EXCEPT ![cur].state = "blocked"])
  /\ UNCHANGED <<arch, entries, globals>>

\* sys_fork: the child gets the registers of the last entry by SYSCALL and the
\* last user context, with rax = 0; on RISC-V only ip and sp.  Without a vacant
\* slot the call fails.
ForkRegs ==
  IF arch = "x86_64" THEN [r \in Regs \ {"rcx", "r11"} |->
                             IF r \in Callee THEN snapshot[r] ELSE IF r = "rax" THEN NoValue ELSE ctx[r]]
  ELSE [r \in {"ip", "sp"} |-> ctx[r]]

Vacant == {t \in Tasks : task[t].state \in {"none", "zombie"}}

Fork ==
  /\ Handles({"fork"})
  /\ IF Vacant = {} THEN task' = Served
     ELSE \E t \in Vacant :
            task' = [Served EXCEPT ![t] =
                       NewTask("fork", ForkRegs, <<t, 0>>, fs, task[cur].val,
                               (task[cur].live \cap DOMAIN ForkRegs) \ {"rax"}, task[cur].tp)]
  /\ UNCHANGED <<arch, entries, cur, cpu, globals>>

\* sys_execve: the new image waits in EXEC_CTX for the way out.
Exec ==
  /\ Handles({"exec"})
  /\ LET new == <<cur, 1 - task[cur].pt[2]>>
     IN  /\ exec' = new
         /\ task' = [Served EXCEPT ![cur].pt = new, ![cur].fs_base = NoValue, ![cur].val = new,
                                   ![cur].live = {"ip", "sp"}, ![cur].tp = NoValue]
  /\ fs' = NoValue
  /\ UNCHANGED <<arch, entries, cur, regs, ints, k_rsp, cr3, u_rsp, snapshot, ctx>>

\* sys_arch_prctl(ARCH_SET_FS).  RISC-V has no such register.
SetFs ==
  /\ Handles({"set_fs"}) /\ arch = "x86_64"
  /\ fs' = <<cur, 0>>
  /\ task' = [Served EXCEPT ![cur].fs_base = <<cur, 0>>, ![cur].tp = <<cur, 0>>]
  /\ UNCHANGED <<arch, entries, cur, regs, ints, k_rsp, cr3, globals>>

\* waitpid finds a zombie, of some child, and vacates its slot.
Reap ==
  /\ Handles({"reap"})
  /\ \E t \in {u \in Tasks : task[u].state = "zombie"} : task' = [Served EXCEPT ![t] = NoTask]
  /\ UNCHANGED <<arch, entries, cur, cpu, globals>>

\* exit_current, which a page fault that cannot be resolved ends in as well.
Exit ==
  /\ Handles({"exit", "fault"})
  /\ schedule([task EXCEPT ![cur].state = "zombie"])
  /\ UNCHANGED <<arch, entries, globals>>

-----------------------------------------------------------------------------
(***************************************************************************)
(* The way out                                                             *)
(***************************************************************************)
\* The registers that a program cannot count on afterwards: the result, what
\* SYSCALL itself destroys, the arguments that INT 0x80 does not save, and the
\* registers that the page fault stub overwrites before it saves any.
Destroyed(f) ==
  CASE f.kind = "syscall" -> {"rax", "rcx", "r11"}
    [] f.kind = "int80" -> {"rax", "rdi", "rdx"}
    [] f.kind = "fault" -> {"rcx", "rdx", "r14"}
    [] f.kind = "trap" -> IF f.call \in Calls THEN {"rax"} ELSE {}
    [] OTHER -> {}

\* apply_exec_redirect_syscall, apply_exec_redirect and trap_handler: the call
\* takes what execve left, whoever left it.
Redirects(f) == exec # NoValue /\ f.call \in Calls

\* SYSCALL takes sp from the global where its entry, or execve, has put it.
ReturnRegs(f) ==
  [r \in DOMAIN f.saved \cup {"sp"} |->
     IF r \in {"ip", "sp"} /\ Redirects(f) THEN exec
     ELSE IF r = "sp" /\ f.kind = "syscall" THEN u_rsp ELSE f.saved[r]]

Return ==
  /\ cur # Halted /\ ~InProgram /\ Top(cur).done
  /\ LET f == Top(cur)
         rest == [r \in Regs |-> IF r \in Callee THEN regs[r] ELSE Garbage]
         to_user == Len(task[cur].stack) = 1 /\ cur # Idle
     IN  /\ regs' = Loaded(ReturnRegs(f), rest)
         /\ ints' = (f.ints \/ f.kind = "syscall")
         /\ cr3' = IF Redirects(f) THEN exec ELSE cr3
         /\ u_rsp' = IF Redirects(f) /\ f.kind = "syscall" THEN exec ELSE u_rsp
         /\ exec' = IF Redirects(f) THEN NoValue ELSE exec
         /\ k_rsp' = IF arch = "riscv64" /\ to_user THEN cur ELSE k_rsp
         /\ task' = [task EXCEPT ![cur].stack = Popped(@), ![cur].live = @ \ Destroyed(f)]
  /\ UNCHANGED <<arch, entries, cur, fs, snapshot, ctx>>

-----------------------------------------------------------------------------
Next ==
  \/ Compute
  \/ \E call \in SyscallCalls : syscall_entry_asm(call)
  \/ \E call \in Int80Calls : isr128(call)
  \/ isr14
  \/ make_isr
  \/ \E call \in SyscallCalls \cup {"fault", "tick"} : trap_entry(call)
  \/ \E t \in Tasks : Wake(t)
  \/ Plain \/ Yield \/ Block \/ Fork \/ Exec \/ SetFs \/ Reap \/ Exit
  \/ Return

Spec == Init /\ [][Next]_vars

-----------------------------------------------------------------------------
\* A program that runs finds every register that it counts on as it left it,
\* through system calls, faults, interrupts and switches to other tasks, and a
\* forked child finds those of its parent.  The stack pointer is left out on
\* x86_64: see SpKept.
RegistersKept ==
  InUser => \A r \in task[cur].live \ (IF arch = "x86_64" THEN {"sp"} ELSE {}) :
              regs[r] = task[cur].val

\* The stack pointer too: SYSCALL must preserve every register but rcx, r11 and
\* the result (the comment on syscall_entry_asm).
SpKept == InUser => \A r \in task[cur].live \cap {"sp"} : regs[r] = task[cur].val

\* A program runs with the thread pointer that it asked for, or inherited:
\* schedule restores the FS.base of the task that comes in.
FsKept == InUser => fs = task[cur].tp

\* While a program runs, the next entry will use its own kernel stack, so that
\* no frame of a suspended task is overwritten; the idle task has none, and a
\* RISC-V trap there must find 0 in sscratch (trap_entry).
KernelStackOwn == InProgram => k_rsp = (IF cur = Idle THEN None ELSE cur)

\* A program runs in its own address space, after a switch and after an execve.
AddressSpaceOwn == InUser => cr3 = task[cur].pt
=============================================================================
