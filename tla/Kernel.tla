------------------------------- MODULE Kernel -------------------------------
(***************************************************************************)
(* The kernel as its programs drive it: the system calls that read or      *)
(* change the task table, the descriptor tables or the pipe pool           *)
(* (kernel/src/syscall/mod.rs), composed with the scheduler and its        *)
(* interrupts.  A call that blocks only enters its loop here; the loop is  *)
(* an action of its own, taken again each time schedule() returns to it.   *)
(*                                                                         *)
(* Calls that return an error and change nothing are not actions.          *)
(***************************************************************************)
EXTENDS Scheduler

CONSTANTS
  Ops,       \* the system calls that the programs of this instance make
  KillSigs,  \* the signals they send
  Handles    \* the descriptors they pass to those calls

AllOps == {"fork", "exit", "wait", "kill", "yield", "sleep", "pipe", "socketpair",
           "dup", "dup2", "close", "read", "write", "stdin"}

ASSUME KernelAssumption ==
  /\ Ops \subseteq AllOps
  /\ KillSigs \subseteq Signals \cup {NoSignal}
  /\ Handles \subseteq Fds

-----------------------------------------------------------------------------
(***************************************************************************)
(* kernel_main has spawned init in slot 1 and runs the idle loop.          *)
(***************************************************************************)
Init ==
  /\ state = [s \in Slots |-> IF s <= 1 THEN "Ready" ELSE "None"]
  /\ pid  = [s \in Slots |-> IF s <= 1 THEN s ELSE NoPid]
  /\ ppid = [s \in Slots |-> IF s <= 1 THEN 0 ELSE NoPid]
  /\ pending = [s \in Slots |-> {}]
  /\ waiting = [s \in Slots |-> 0]
  /\ fds  = [s \in Slots |-> IF s <= 1 THEN NewTable ELSE ClosedTable]
  /\ kctx = [s \in Slots |-> IF s <= 1 THEN UserCtx(s) ELSE DeadCtx]
  /\ current = 0
  /\ cpu = UserCtx(0)
  /\ next_pid = 2
  /\ phase = 0
  /\ in_service = FALSE
  /\ pool = [p \in Pipes |-> NewSlot]
  /\ pipe_waiter = [p \in Pipes |-> NoSlot]
  /\ tty_waiter = NoSlot
  /\ serial = 0
  /\ keys = 0

\* A program is in user mode and makes the call op.  The idle loop makes none.
Calls(op) == cpu.pc = "user" /\ current # 0 /\ op \in Ops

Table == fds[current]

\* The call goes to the head of a loop of the kernel.
EnterLoop(pc, arg) ==
  /\ cpu' = [cpu EXCEPT !.pc = pc, !.arg = arg]
  /\ UNCHANGED <<taskVars, kctx, current, next_pid, irqVars, ipcVars, ttyVars>>

-----------------------------------------------------------------------------
(***************************************************************************)
(* Processes                                                               *)
(***************************************************************************)
sys_fork ==
  /\ Calls("fork")
  /\ next_pid <= MaxPid
  /\ spawn_fork
  /\ UNCHANGED <<current, cpu, irqVars, pipe_waiter, ttyVars>>

sys_exit == Calls("exit") /\ exit_current

sys_wait4 ==
  /\ Calls("wait")
  /\ \E target \in WaitTargets, no_hang \in BOOLEAN :
       cpu' = [cpu EXCEPT !.pc = "wait", !.arg = target, !.me = pid[current], !.no_hang = no_hang]
  /\ UNCHANGED <<taskVars, kctx, current, next_pid, irqVars, ipcVars, ttyVars>>

is_fatal(sig) == sig \in {"SIGKILL", "SIGTERM", "SIGABRT", "SIGQUIT", "SIGHUP"}

\* A fatal signal to oneself, or to pid 0, is an exit; every other signal is
\* left for deliver_all_signals.
sys_kill(target, sig) ==
  /\ Calls("kill")
  /\ IF is_fatal(sig) /\ target \in {0, pid[current]}
     THEN exit_current
     ELSE /\ raise_signal_to_pid(target, sig)
          /\ UNCHANGED <<pid, ppid, waiting, fds, cpuVars, next_pid, irqVars, ipcVars, ttyVars>>

\* sched_yield, and the one schedule() of a blocking poll or of FUTEX_WAIT.
sys_yield ==
  /\ Calls("yield")
  /\ schedule(state, kctx, cpu)
  /\ UNCHANGED <<taskVars, next_pid, irqVars, ipcVars, ttyVars>>

sys_nanosleep == Calls("sleep") /\ \E ticks \in 1 .. MaxSleep : EnterLoop("sleep", ticks)

-----------------------------------------------------------------------------
(***************************************************************************)
(* Pipe and socketpair.  Each allocates its pipes, then its descriptors;   *)
(* when a descriptor is missing it closes ends of the pipes, and leaves    *)
(* the descriptor it did get in the table.                                 *)
(***************************************************************************)
sys_pipe ==
  /\ Calls("pipe")
  /\ \E i \in Pipes :
       /\ IsFreePipe(pool, i)
       /\ LET one == FdAlloc(Table, PipeRead(i))
          IN  /\ fds' = [fds EXCEPT ![current] = FdAlloc(one, PipeWrite(i))]
              /\ pool' = IF HasFreeFd(Table) /\ HasFreeFd(one)
                         THEN AllocPipe(pool, i)
                         ELSE CloseEnds(AllocPipe(pool, i), One(i), One(i))
  /\ UNCHANGED <<state, pid, ppid, pending, waiting, cpuVars, next_pid, irqVars, pipe_waiter, ttyVars>>

SocketPipes(a, b) ==
  LET both == AllocPipe(AllocPipe(pool, a), b)
      one  == FdAlloc(Table, SocketPair(a, b))
  IN  /\ fds' = [fds EXCEPT ![current] = FdAlloc(one, SocketPair(b, a))]
      /\ pool' = IF HasFreeFd(Table) /\ HasFreeFd(one)
                 THEN both
                 ELSE CloseEnds(CloseEnds(both, One(a), One(b)), One(b), One(NoPipe))

sys_socketpair ==
  /\ Calls("socketpair")
  /\ \E a \in Pipes :
       /\ IsFreePipe(pool, a)
       /\ \/ \E b \in Pipes : IsFreePipe(AllocPipe(pool, a), b) /\ SocketPipes(a, b)
          \/ /\ \A b \in Pipes : ~IsFreePipe(AllocPipe(pool, a), b)
             /\ pool' = CloseEnds(AllocPipe(pool, a), One(a), One(a))
             /\ UNCHANGED fds
  /\ UNCHANGED <<state, pid, ppid, pending, waiting, cpuVars, next_pid, irqVars, pipe_waiter, ttyVars>>

-----------------------------------------------------------------------------
(***************************************************************************)
(* Descriptors                                                             *)
(***************************************************************************)
sys_dup(f) ==
  /\ Calls("dup")
  /\ IsOpen(Table, f) /\ HasFreeFd(Table)
  /\ fds' = [fds EXCEPT ![current] = FdAlloc(Table, Table[f])]
  /\ UNCHANGED <<state, pid, ppid, pending, waiting, cpuVars, next_pid, irqVars, ipcVars, ttyVars>>

\* alloc_at closes what g holds, wakes nobody, and copies the entry of f.
sys_dup2(f, g) ==
  /\ Calls("dup2")
  /\ f # g /\ IsOpen(Table, f)
  /\ fds' = [fds EXCEPT ![current][g] = Table[f]]
  /\ pool' = CloseEnds(pool, One(Table[g].r), One(Table[g].w))
  /\ UNCHANGED <<state, pid, ppid, pending, waiting, cpuVars, next_pid, irqVars, pipe_waiter, ttyVars>>

sys_close(f) ==
  /\ Calls("close")
  /\ IsOpen(Table, f)
  /\ LET closed == CloseEnds(pool, One(Table[f].r), One(Table[f].w))
     IN  /\ fds' = [fds EXCEPT ![current][f] = Empty]
         /\ pool' = closed
         /\ wake_pipe_waiters(state, {p \in {Table[f].w} \ {NoPipe} : ~pipe_write_open(closed, p)})
  /\ UNCHANGED <<pid, ppid, pending, waiting, cpuVars, next_pid, irqVars, ttyVars>>

\* Reads from Stdin ("stdin") and from a pipe ("read") are two calls of Ops.
sys_read(f) ==
  \/ Calls("stdin") /\ Table[f].kind = "Stdin" /\ EnterLoop("tty", 0)
  \/ Calls("read") /\ Table[f].r # NoPipe /\ EnterLoop("pipe", Table[f].r)

\* The write stops at a full ring, with what fits; it never blocks.
sys_write(f) ==
  /\ Calls("write")
  /\ LET i == Table[f].w
     IN  /\ i # NoPipe /\ pipe_read_open(pool, i)
         /\ \E n \in 1 .. Writable(pool, i) : pool' = [pool EXCEPT ![i].len = @ + n]
         /\ wake_pipe_waiters(state, {i})
  /\ UNCHANGED <<pid, ppid, pending, waiting, fds, cpuVars, next_pid, irqVars, ttyVars>>

-----------------------------------------------------------------------------
(***************************************************************************)
(* The loops of sys_read                                                   *)
(***************************************************************************)
PipeReadTakes ==
  /\ cpu.pc = "pipe"
  /\ \E n \in 1 .. Readable(pool, cpu.arg) : pool' = [pool EXCEPT ![cpu.arg].len = @ - n]
  /\ cpu' = Return(cpu)
  /\ UNCHANGED <<taskVars, kctx, current, next_pid, irqVars, pipe_waiter, ttyVars>>

PipeReadEof ==
  /\ cpu.pc = "pipe"
  /\ Readable(pool, cpu.arg) = 0
  /\ ~pipe_write_open(pool, cpu.arg)
  /\ cpu' = Return(cpu)
  /\ UNCHANGED <<taskVars, kctx, current, next_pid, irqVars, ipcVars, ttyVars>>

PipeReadBlocks ==
  /\ cpu.pc = "pipe"
  /\ Readable(pool, cpu.arg) = 0
  /\ block_on_pipe(cpu.arg)
  /\ UNCHANGED <<pid, ppid, pending, waiting, fds, next_pid, irqVars, pool, ttyVars>>

TtyReadSerial ==
  /\ cpu.pc = "tty"
  /\ serial > 0
  /\ serial' = serial - 1
  /\ cpu' = Return(cpu)
  /\ UNCHANGED <<taskVars, kctx, current, next_pid, irqVars, ipcVars, tty_waiter, keys>>

\* A slip: after a dropped scancode the task blocks without looking again.
TtyReadKeyOnce ==
  /\ cpu.pc = "tty"
  /\ serial = 0 /\ keys > 0
  /\ keys' = keys - 1
  /\ \/ cpu' = Return(cpu) /\ UNCHANGED <<state, kctx, current, tty_waiter>>
     \/ block_on_tty
  /\ UNCHANGED <<pid, ppid, pending, waiting, fds, next_pid, irqVars, ipcVars, serial>>

\* A scancode that stands for a character ends the call; one that does not
\* (a key release) is dropped, and the loop goes on.
TtyReadKey ==
  /\ cpu.pc = "tty"
  /\ serial = 0 /\ keys > 0
  /\ keys' = keys - 1
  /\ \/ cpu' = Return(cpu) /\ UNCHANGED <<state, kctx, current, tty_waiter>>
     \/ keys' > 0 /\ UNCHANGED <<state, cpuVars, tty_waiter>>
     \/ keys' = 0 /\ block_on_tty
  /\ UNCHANGED <<pid, ppid, pending, waiting, fds, next_pid, irqVars, ipcVars, serial>>

TtyReadBlocks ==
  /\ cpu.pc = "tty"
  /\ serial = 0 /\ keys = 0
  /\ block_on_tty
  /\ UNCHANGED <<pid, ppid, pending, waiting, fds, next_pid, irqVars, ipcVars, serial, keys>>

-----------------------------------------------------------------------------
Interrupt == tick \/ TimerReturn \/ SerialIrq \/ KeyboardIrq

Syscall ==
  \/ sys_fork \/ sys_exit \/ sys_wait4 \/ sys_yield \/ sys_nanosleep
  \/ \E target \in 0 .. MaxPid, sig \in KillSigs : sys_kill(target, sig)
  \/ sys_pipe \/ sys_socketpair
  \/ \E f \in Handles : sys_dup(f) \/ sys_close(f) \/ sys_read(f) \/ sys_write(f)
  \/ \E f, g \in Handles : sys_dup2(f, g)

\* A loop of the kernel, interrupts disabled.
KernelLoop ==
  \/ Reap \/ WaitReturns \/ WaitBlocks
  \/ PipeReadTakes \/ PipeReadEof \/ PipeReadBlocks
  \/ TtyReadSerial \/ TtyReadKey \/ TtyReadBlocks
  \/ sleep_ticks

Next == Interrupt \/ Syscall \/ KernelLoop

Spec == Init /\ [][Next]_vars

(***************************************************************************)
(* Kernel code runs to its next schedule() or return, so its loops are     *)
(* weakly fair.  A timer request stays latched until it is taken, and it   *)
(* is taken as soon as a program is back in user mode with the controller  *)
(* open: the tick is strongly fair.  Nothing is assumed of programs or of  *)
(* input.                                                                  *)
(***************************************************************************)
FairSpec ==
  /\ Spec
  /\ WF_vars(KernelLoop)
  /\ WF_vars(TimerReturn)
  /\ SF_vars(tick)

-----------------------------------------------------------------------------
(***************************************************************************)
(* Properties                                                              *)
(***************************************************************************)
CtxOK(c) ==
  /\ c \in Context
  /\ c.pc = "pipe" => c.arg \in Pipes
  /\ c.pc = "wait" => c.arg \in WaitTargets
  /\ c.pc = "sleep" => c.arg \in Nat

\* Type invariant of the task table, the contexts and the pipe pool.
TypeOK ==
  /\ state \in [Slots -> {"None", "Ready", "Blocked", "Zombie"}]
  /\ pid \in [Slots -> PidOrNone]
  /\ ppid \in [Slots -> PidOrNone]
  /\ pending \in [Slots -> SUBSET Signals]
  /\ waiting \in [Slots -> WaitTargets]
  /\ fds \in [Slots -> [Fds -> FdEntry]]
  /\ DOMAIN kctx = Slots /\ \A s \in Slots : CtxOK(kctx[s])
  /\ current \in Slots
  /\ CtxOK(cpu)
  /\ next_pid \in 1 .. MaxPid + 1
  /\ phase \in 0 .. SchedTicks - 1
  /\ in_service \in BOOLEAN
  /\ pool \in [Pipes -> PipeSlot]
  /\ pipe_waiter \in [Pipes -> Slots \cup {NoSlot}]
  /\ tty_waiter \in Slots \cup {NoSlot}
  /\ serial \in 0 .. MaxInput
  /\ keys \in 0 .. MaxInput

\* The task that CURRENT names is in the table and is not blocked: the
\* unwrap() of TASKS[CURRENT] in schedule, waitpid and block_on_* cannot
\* panic, and waitpid never reaps the slot it runs in.
CurrentRunnable == state[current] \in {"Ready", "Zombie"} /\ state[0] = "Ready"

\* No two tasks of the table, zombies included, share a pid: kill, waitpid and
\* signal_parent, which look a task up by its pid, find the one that is meant.
PidsUnique ==
  \A s, t \in Slots :
    s # t /\ state[s] # "None" /\ state[t] # "None" => pid[s] # pid[t]

\* A task asleep in waitpid's loop.
BlockedInWait(s) == state[s] = "Blocked" /\ kctx[s].pc = "wait"

\* waitpid misses no exit: while a task is blocked in it, no child that it
\* waits for is a zombie.  Holds whatever ended the child (exit, a fault, a
\* delivered signal), also when another signal has woken the waiter meanwhile.
NoMissedExit ==
  \A s, z \in UserSlots :
    BlockedInWait(s) =>
      ~(state[z] = "Zombie" /\ ppid[z] = pid[s] /\ Matches(kctx[s].arg, pid[z]))

\* waitpid reads cur_pid once, before its loop; it is still the pid of the
\* task's slot whenever the loop runs or is resumed.
CurPidStable ==
  /\ cpu.pc = "wait" => cpu.me = pid[current]
  /\ \A s \in UserSlots :
       s # current /\ Alive(s) /\ kctx[s].pc = "wait" => kctx[s].me = pid[s]

\* A task asleep in sys_read's loop on pipe p.
BlockedOnPipe(s, p) == state[s] = "Blocked" /\ kctx[s].pc = "pipe" /\ kctx[s].arg = p

\* The reader that PIPE_WAITERS records sleeps only while the pipe is empty
\* and a write end is open: every write and every close of the last write end
\* wakes it.
RecordedReaderAwake ==
  \A p \in Pipes :
    pipe_waiter[p] # NoSlot /\ BlockedOnPipe(pipe_waiter[p], p) =>
      ~pipe_has_data(pool, p) /\ pipe_write_open(pool, p)

\* read_count and write_count are the numbers of open descriptors of the two
\* ends, over all tasks; a pipe with none is free.
PipeCountsExact ==
  \A p \in Pipes :
    /\ pool[p].read_count = ReadRefs(fds, Slots)[p]
    /\ pool[p].write_count = WriteRefs(fds, Slots)[p]
    /\ pool[p].in_use <=> pool[p].read_count + pool[p].write_count > 0

\* A task asleep in sys_read's loop on Stdin.
BlockedOnTty(s) == state[s] = "Blocked" /\ kctx[s].pc = "tty"

\* No lost wake-up between an input interrupt and block_on_tty: the task that
\* TTY_WAITER records sleeps only while both input rings are empty.
RecordedTtyReaderAwake ==
  tty_waiter # NoSlot /\ BlockedOnTty(tty_waiter) => serial = 0 /\ keys = 0

\* Every context is executed or saved under the pid of its own program.
ContextsBelong ==
  /\ state[current] = "Ready" => cpu.prog = pid[current]
  /\ \A s \in Slots : s # current /\ Alive(s) => kctx[s].prog = pid[s]

\* Task::exit is final: a zombie's slot is emptied by a waitpid or given to a
\* task with another pid, and the zombie never runs again.
DeadStayDead ==
  [][\A s \in UserSlots :
       state[s] = "Zombie" => state'[s] \in {"Zombie", "None"} \/ pid'[s] # pid[s]]_vars

\* Round robin: a task that is Ready is run, unless it ends first.
EveryReadyTaskRuns ==
  \A s \in UserSlots : state[s] = "Ready" ~> (current = s \/ state[s] # "Ready")

\* A lethal signal ends the task that it is sent to.
LethalSignalKills ==
  \A s \in UserSlots, p \in 1 .. MaxPid :
    (pid[s] = p /\ Alive(s) /\ pending[s] \cap Lethal # {})
      ~> (state[s] = "Zombie" \/ pid[s] # p)
=============================================================================
