----------------------------- MODULE Scheduler ------------------------------
(***************************************************************************)
(* The task table and the round-robin scheduler of the kernel              *)
(* (kernel/src/scheduler/mod.rs): timer ticks, context switches, signal    *)
(* delivery, task creation by fork, exit, and the blocking and waking of   *)
(* tasks in waitpid, on a pipe, on the terminal and in nanosleep.          *)
(*                                                                         *)
(* One CPU.  What it executes is the variable cpu, a context; the contexts *)
(* of the other tasks are saved in kctx (Task.kernel_sp and the kernel     *)
(* stack it points to).  A context is in user mode, or at one of the       *)
(* points of the kernel at which schedule() was called and will return.    *)
(* Kernel code runs with interrupts disabled (FMASK clears IF on SYSCALL,  *)
(* a RISC-V trap clears SIE), so a handler is one action up to its next    *)
(* call of schedule(), and interrupts are taken in user mode only.         *)
(***************************************************************************)
EXTENDS FdTable

CONSTANTS
  MaxTasks,      \* MAX_TASKS, the number of slots of TASKS
  SignalTicks,   \* deliver_all_signals runs every SignalTicks ticks (5)
  SchedTicks,    \* schedule() runs every SchedTicks ticks (10)
  MaxPid,        \* bound of the model: fork stops at this pid
  MaxSleep,      \* bound of the model: the longest nanosleep, in ticks
  MaxInput,      \* bound of the model: capacity of the two input rings
  Pic            \* TRUE: the timer interrupt stays in service, and masks all
                 \* others, until the handler it interrupted sends the EOI
                 \* (8259 and GIC); FALSE: it does not (RISC-V)

ASSUME SchedulerAssumption ==
  /\ MaxTasks \in Nat /\ MaxTasks >= 2
  /\ SignalTicks \in Nat \ {0}
  /\ SchedTicks \in Nat \ {0}
  /\ SchedTicks % SignalTicks = 0
  /\ MaxPid \in Nat \ {0}
  /\ MaxSleep \in Nat
  /\ MaxInput \in Nat
  /\ Pic \in BOOLEAN

VARIABLES
  state,         \* Task.state of each slot; "None" where the slot is empty
  pid, ppid,     \* Task.pid and Task.ppid
  pending,       \* Task.pending_signals
  waiting,       \* Task.waiting_for_pid
  fds,           \* Task.fd_table
  kctx,          \* the context saved in Task.kernel_sp
  current,       \* CURRENT
  cpu,           \* the context the CPU executes
  next_pid,      \* NEXT_PID
  phase,         \* TICK_COUNT modulo SchedTicks
  in_service,    \* the timer interrupt is in service (Pic only)
  pool,          \* ipc::POOL
  pipe_waiter,   \* PIPE_WAITERS
  tty_waiter,    \* TTY_WAITER
  serial, keys   \* bytes and scancodes in the two input rings

taskVars == <<state, pid, ppid, pending, waiting, fds>>
cpuVars  == <<kctx, current, cpu>>
irqVars  == <<phase, in_service>>
ipcVars  == <<pool, pipe_waiter>>
ttyVars  == <<tty_waiter, serial, keys>>
vars == <<taskVars, cpuVars, next_pid, irqVars, ipcVars, ttyVars>>

Slots == 0 .. MaxTasks - 1
UserSlots == 1 .. MaxTasks - 1      \* slot 0 is the idle task
NoSlot == -1
NoPid == -1
AnyChild == -1                      \* u64::MAX as a waitpid target
WaitTargets == {AnyChild} \cup 0 .. MaxPid

(***************************************************************************)
(* A context: prog is the pid of the program whose code and stack it is    *)
(* (an auxiliary field, read by no action), pc the point it is at:         *)
(*   user   in user mode (for slot 0: in the idle loop)                    *)
(*   irq    in the timer handler, the EOI still to be sent                 *)
(*   wait   at the head of waitpid's loop: arg = target_pid, me = cur_pid  *)
(*   pipe   at the head of sys_read's loop on pipe arg                     *)
(*   tty    at the head of sys_read's loop on Stdin                        *)
(*   sleep  at the head of sleep_ticks' loop, arg = wake_at - TICK_COUNT   *)
(*   dead   after exit_current's schedule(), never to be resumed           *)
(***************************************************************************)
Pcs == {"user", "irq", "wait", "pipe", "tty", "sleep", "dead"}

PidOrNone == 0 .. MaxPid \cup {NoPid}

Context == [prog: PidOrNone, pc: Pcs, arg: Int, me: PidOrNone, no_hang: BOOLEAN]

UserCtx(p) == [prog |-> p, pc |-> "user", arg |-> 0, me |-> 0, no_hang |-> FALSE]
DeadCtx == [prog |-> NoPid, pc |-> "dead", arg |-> 0, me |-> 0, no_hang |-> FALSE]

\* Back to user mode, at the instruction after the system call.
Return(ctx) == UserCtx(ctx.prog)

-----------------------------------------------------------------------------
(***************************************************************************)
(* schedule()                                                              *)
(***************************************************************************)

\* A slip: every search starts at slot 1.
VisitedFromOne(c, i) == i + 1

\* The i-th slot the search looks at, from the slot after the current one.
Visited(c, i) ==
  LET search_start == IF c = 0 THEN 1 ELSE (c % (MaxTasks - 1)) + 1
  IN  ((search_start - 1 + i) % (MaxTasks - 1)) + 1

Turns == 0 .. MaxTasks - 2

\* A slip: with nothing Ready, stay on the current task.
IsNextOrSame(st, c, n) ==
  \/ \E i \in Turns :
        /\ n = Visited(c, i) /\ st[n] = "Ready"
        /\ \A j \in Turns : j < i => st[Visited(c, j)] # "Ready"
  \/ n = c /\ \A i \in Turns : st[Visited(c, i)] # "Ready"

IsNextSlot(st, c, n) ==
  \/ \E i \in Turns :
        /\ n = Visited(c, i) /\ st[n] = "Ready"
        /\ \A j \in Turns : j < i => st[Visited(c, j)] # "Ready"
  \/ n = 0 /\ \A i \in Turns : st[Visited(c, i)] # "Ready"

\* A slip: CURRENT is updated before the old task's context is saved.
schedule_saves_late(st, k, ctx) ==
  \E n \in Slots :
    /\ IsNextSlot(st, current, n)
    /\ current' = n
    /\ cpu' = (IF n = current THEN ctx ELSE k[n])
    /\ kctx' = [k EXCEPT ![n] = ctx]

\* The whole call: st and k are the states and saved contexts at the call,
\* ctx the context that makes it and that the return resumes.
schedule(st, k, ctx) ==
  \E n \in Slots :
    /\ IsNextSlot(st, current, n)
    /\ current' = n
    /\ IF n = current
       THEN cpu' = ctx /\ kctx' = k
       ELSE cpu' = k[n] /\ kctx' = [k EXCEPT ![current] = ctx]

-----------------------------------------------------------------------------
(***************************************************************************)
(* Waking tasks                                                            *)
(***************************************************************************)
Wake(st, S) == [s \in Slots |-> IF s \in S /\ st[s] = "Blocked" THEN "Ready" ELSE st[s]]

\* Two slips: the waiters for any child are forgotten; the state of the
\* waiter is not looked at.
ChildWaitersByPid(st, epid, eppid) == {s \in Slots : st[s] = "Blocked" /\ waiting[s] = epid}
ChildWaitersAnyState(st, epid, eppid) ==
  {s \in Slots : waiting[s] = epid \/ (waiting[s] = AnyChild /\ pid[s] = eppid)}

\* The tasks wake_child_waiters(epid, eppid) wakes.
ChildWaiters(st, epid, eppid) ==
  {s \in Slots : /\ st[s] = "Blocked"
                 /\ \/ waiting[s] = epid
                    \/ waiting[s] = AnyChild /\ pid[s] = eppid}

NotWaiting(S) == [s \in Slots |-> IF s \in S THEN 0 ELSE waiting[s]]

\* wake_tty_waiter: TTY_WAITER is taken whether or not the task is Blocked.
wake_tty_waiter ==
  /\ state' = Wake(state, {tty_waiter})
  /\ tty_waiter' = NoSlot

\* wake_pipe_waiter for every pipe of S, on the states st.
wake_pipe_waiters(st, S) ==
  /\ state' = Wake(st, {pipe_waiter[p] : p \in S})
  /\ pipe_waiter' = [p \in Pipes |-> IF p \in S THEN NoSlot ELSE pipe_waiter[p]]

\* A slip: the readers of a pipe that an exit closes are not woken.
NoClosedPipes(P) == {}

\* The pipes at which wake_closed_pipe_readers finds a waiter to wake.
ClosedPipes(P) == {p \in Pipes : pipe_waiter[p] # NoSlot /\ ~pipe_write_open(P, p)}

-----------------------------------------------------------------------------
(***************************************************************************)
(* deliver_all_signals().  The loop visits the slots in order; a task it   *)
(* kills may wake tasks that it has yet to visit.  Killing raises no       *)
(* signal, so the killed tasks are those with a lethal signal at the start *)
(* and what happens to the others does not depend on the order.            *)
(***************************************************************************)
LethalSignals == <<"SIGKILL", "SIGABRT", "SIGQUIT", "SIGTERM", "SIGINT">>
Lethal == {LethalSignals[i] : i \in 1 .. 5}

\* The || chain of take_signal calls takes only the first that is pending.
TakeLethal(pend) ==
  pend \ {LethalSignals[i] : i \in {j \in 1 .. 5 :
            /\ LethalSignals[j] \in pend
            /\ \A h \in 1 .. 5 : h < j => LethalSignals[h] \notin pend}}

Alive(s) == state[s] \in {"Ready", "Blocked"}
\* A slip: the task that is running is passed over.
KilledButCurrent ==
  {s \in UserSlots \ {current} : Alive(s) /\ pending[s] \cap Lethal # {}}

Killed == {s \in UserSlots : Alive(s) /\ pending[s] \cap Lethal # {}}
WokenByDeath(s, K) == \E k \in K : s \in ChildWaiters(state, pid[k], ppid[k])
WokenByChld(s) ==
  /\ s \in UserSlots \ Killed /\ Alive(s)
  /\ "SIGCHLD" \in pending[s] /\ waiting[s] # 0

deliver_all_signals ==
  /\ state' = [s \in Slots |->
       IF s \in Killed THEN "Zombie"
       ELSE IF WokenByDeath(s, Killed) \/ WokenByChld(s) THEN "Ready"
       ELSE state[s]]
  /\ waiting' = [s \in Slots |->
       IF \/ s \in Killed /\ WokenByDeath(s, {k \in Killed : k < s})
          \/ s \notin Killed /\ (WokenByDeath(s, Killed) \/ WokenByChld(s))
       THEN 0 ELSE waiting[s]]
  /\ pending' = [s \in Slots |->
       IF s \in Killed THEN TakeLethal(pending[s])
       ELSE IF s \in UserSlots /\ Alive(s) THEN pending[s] \ {"SIGCHLD"}
       ELSE pending[s]]
  /\ fds' = [s \in Slots |-> IF s \in Killed THEN ClosedTable ELSE fds[s]]
  /\ pool' = CloseEnds(pool, ReadRefs(fds, Killed), WriteRefs(fds, Killed))

-----------------------------------------------------------------------------
(***************************************************************************)
(* Interrupts.  A request is taken in user mode, when the controller lets  *)
(* it through.                                                             *)
(***************************************************************************)
Interruptible == cpu.pc = "user" /\ ~in_service

\* One tick brings every sleeper's wake_at one tick closer.
Aged(k) ==
  [s \in Slots |-> IF k[s].pc = "sleep" THEN [k[s] EXCEPT !.arg = Less(@, 1)] ELSE k[s]]

tick ==
  /\ Interruptible
  /\ phase' = (phase + 1) % SchedTicks
  /\ in_service' = Pic
  /\ IF phase' % SignalTicks = 0
     THEN deliver_all_signals
     ELSE UNCHANGED <<state, waiting, pending, fds, pool>>
  /\ LET handler == [cpu EXCEPT !.pc = "irq"]
     IN  IF phase' = 0
         THEN schedule(state', Aged(kctx), handler)
         ELSE cpu' = handler /\ kctx' = Aged(kctx) /\ UNCHANGED current
  /\ UNCHANGED <<pid, ppid, next_pid, pipe_waiter, ttyVars>>

\* The rest of the timer handler, when schedule() has returned to it: the
\* EOI (x86_64, aarch64) or the next deadline (RISC-V), then back to user
\* mode.
TimerReturn ==
  /\ cpu.pc = "irq"
  /\ cpu' = Return(cpu)
  /\ in_service' = FALSE
  /\ UNCHANGED <<taskVars, kctx, current, next_pid, phase, ipcVars, ttyVars>>

\* RingBuf::push drops the byte when the ring is full; the waiter is woken
\* all the same.
SerialIrq ==
  /\ Interruptible
  /\ serial' = AtMost(serial + 1, MaxInput)
  /\ wake_tty_waiter
  /\ UNCHANGED <<pid, ppid, pending, waiting, fds, cpuVars, next_pid, irqVars, ipcVars, keys>>

KeyboardIrq ==
  /\ Interruptible
  /\ keys' = AtMost(keys + 1, MaxInput)
  /\ wake_tty_waiter
  /\ UNCHANGED <<pid, ppid, pending, waiting, fds, cpuVars, next_pid, irqVars, ipcVars, serial>>

-----------------------------------------------------------------------------
(***************************************************************************)
(* Task creation and exit                                                  *)
(***************************************************************************)

\* The slot every spawn function takes: the first that is empty or holds a
\* zombie, reaped or not.
Vacant(s) == state[s] \in {"None", "Zombie"}
IsVacantSlot(c) == Vacant(c) /\ \A s \in UserSlots : s < c => ~Vacant(s)

\* A slip: NEXT_PID is not advanced.
spawn_fork_same_pid ==
  \E c \in UserSlots :
    /\ IsVacantSlot(c)
    /\ state'   = [state   EXCEPT ![c] = "Ready"]
    /\ pid'     = [pid     EXCEPT ![c] = next_pid]
    /\ ppid'    = [ppid    EXCEPT ![c] = pid[current]]
    /\ pending' = [pending EXCEPT ![c] = {}]
    /\ waiting' = [waiting EXCEPT ![c] = 0]
    /\ fds'     = [fds     EXCEPT ![c] = fds[current]]
    /\ kctx'    = [kctx    EXCEPT ![c] = UserCtx(next_pid)]
    /\ pool'    = DupEnds(pool, ReadRefs(fds, {current}), WriteRefs(fds, {current}))
    /\ UNCHANGED next_pid

\* The child copies the caller's descriptors, and takes a reference for
\* each of them that is a pipe end.
spawn_fork ==
  \E c \in UserSlots :
    /\ IsVacantSlot(c)
    /\ state'   = [state   EXCEPT ![c] = "Ready"]
    /\ pid'     = [pid     EXCEPT ![c] = next_pid]
    /\ ppid'    = [ppid    EXCEPT ![c] = pid[current]]
    /\ pending' = [pending EXCEPT ![c] = {}]
    /\ waiting' = [waiting EXCEPT ![c] = 0]
    /\ fds'     = [fds     EXCEPT ![c] = fds[current]]
    /\ kctx'    = [kctx    EXCEPT ![c] = UserCtx(next_pid)]
    /\ pool'    = DupEnds(pool, ReadRefs(fds, {current}), WriteRefs(fds, {current}))
    /\ next_pid' = next_pid + 1

\* Task::exit, wake_child_waiters, signal_parent, wake_closed_pipe_readers,
\* schedule, in this order.
exit_current ==
  LET dead   == [state EXCEPT ![current] = "Zombie"]
      closed == CloseEnds(pool, ReadRefs(fds, {current}), WriteRefs(fds, {current}))
      wake   == ChildWaiters(dead, pid[current], ppid[current])
  IN  /\ fds' = [fds EXCEPT ![current] = ClosedTable]
      /\ pool' = closed
      /\ waiting' = NotWaiting(wake)
      /\ pending' = [s \in Slots |->
           IF state[s] # "None" /\ pid[s] = ppid[current]
           THEN raise_signal(pending[s], "SIGCHLD") ELSE pending[s]]
      /\ wake_pipe_waiters(Wake(dead, wake), ClosedPipes(closed))
      /\ schedule(state', kctx, DeadCtx)
      /\ UNCHANGED <<pid, ppid, next_pid, irqVars, ttyVars>>

-----------------------------------------------------------------------------
(***************************************************************************)
(* waitpid(): one action per way through the body of its loop              *)
(***************************************************************************)
Matches(target, p) == target = AnyChild \/ p = target

ZombieChildren(me, target) ==
  {s \in UserSlots : state[s] = "Zombie" /\ ppid[s] = me /\ Matches(target, pid[s])}

LivingChildren(me) == {s \in UserSlots : Alive(s) /\ ppid[s] = me}

\* The zombie in the lowest slot is reaped: TASKS[slot] = None.
Reap ==
  /\ cpu.pc = "wait"
  /\ \E z \in ZombieChildren(cpu.me, cpu.arg) :
       /\ \A s \in ZombieChildren(cpu.me, cpu.arg) : z <= s
       /\ state'   = [state   EXCEPT ![z] = "None"]
       /\ pid'     = [pid     EXCEPT ![z] = NoPid]
       /\ ppid'    = [ppid    EXCEPT ![z] = NoPid]
       /\ pending' = [pending EXCEPT ![z] = {}]
       /\ waiting' = [waiting EXCEPT ![z] = 0]
       /\ fds'     = [fds     EXCEPT ![z] = ClosedTable]
       /\ kctx'    = [kctx    EXCEPT ![z] = DeadCtx]
  /\ cpu' = Return(cpu)
  /\ UNCHANGED <<current, next_pid, irqVars, ipcVars, ttyVars>>

\* ECHILD, or 0 under WNOHANG.
WaitReturns ==
  /\ cpu.pc = "wait"
  /\ ZombieChildren(cpu.me, cpu.arg) = {}
  /\ LivingChildren(cpu.me) = {} \/ cpu.no_hang
  /\ cpu' = Return(cpu)
  /\ UNCHANGED <<taskVars, kctx, current, next_pid, irqVars, ipcVars, ttyVars>>

WaitBlocks ==
  /\ cpu.pc = "wait"
  /\ ZombieChildren(cpu.me, cpu.arg) = {}
  /\ LivingChildren(cpu.me) # {} /\ ~cpu.no_hang
  /\ waiting' = [waiting EXCEPT ![current] = cpu.arg]
  /\ state' = [state EXCEPT ![current] = "Blocked"]
  /\ schedule(state', kctx, cpu)
  /\ UNCHANGED <<pid, ppid, pending, fds, next_pid, irqVars, ipcVars, ttyVars>>

-----------------------------------------------------------------------------
(***************************************************************************)
(* block_on_tty, block_on_pipe and sleep_ticks, called from the loops of   *)
(* module Kernel                                                           *)
(***************************************************************************)
block_on_tty ==
  /\ tty_waiter' = current
  /\ state' = [state EXCEPT ![current] = "Blocked"]
  /\ schedule(state', kctx, cpu)

block_on_pipe(i) ==
  /\ ~pipe_has_data(pool, i) /\ pipe_write_open(pool, i)
  /\ pipe_waiter' = [pipe_waiter EXCEPT ![i] = current]
  /\ state' = [state EXCEPT ![current] = "Blocked"]
  /\ schedule(state', kctx, cpu)

\* One turn of the loop.  The task stays Ready; when no other task is, the
\* turn leaves everything as it was.
sleep_ticks ==
  /\ cpu.pc = "sleep"
  /\ IF cpu.arg = 0
     THEN cpu' = Return(cpu) /\ UNCHANGED <<kctx, current>>
     ELSE schedule(state, kctx, cpu)
  /\ UNCHANGED <<taskVars, next_pid, irqVars, ipcVars, ttyVars>>

\* raise_signal_to_pid: the signal is recorded and a blocked task is made
\* Ready at once, to find out in its loop that nothing has changed.
raise_signal_to_pid(target, sig) ==
  \E s \in Slots :
    /\ Alive(s) /\ pid[s] = target
    /\ pending' = [pending EXCEPT ![s] = raise_signal(@, sig)]
    /\ state' = Wake(state, {s})
=============================================================================
