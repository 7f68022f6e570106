---------------------------- MODULE KernelProofs ----------------------------
(***************************************************************************)
(* Proofs about Kernel, for every number of tasks, pipes, descriptors and  *)
(* pids, every set of system calls, and both interrupt controllers.        *)
(***************************************************************************)
EXTENDS Kernel, FiniteSetTheorems, TLAPS

States == {"None", "Ready", "Blocked", "Zombie"}

Contexts(k) == DOMAIN k = Slots /\ \A s \in Slots : CtxOK(k[s])

-----------------------------------------------------------------------------
(***************************************************************************)
(* Lemmas about the operators                                              *)
(***************************************************************************)

\* Counting references to pipes yields natural numbers.
LEMMA RefsType ==
  ASSUME NEW tables, NEW S \in SUBSET Slots
  PROVE  /\ ReadRefs(tables, S) \in [Pipes -> Nat]
         /\ WriteRefs(tables, S) \in [Pipes -> Nat]
<1>1. IsFiniteSet(Slots) /\ IsFiniteSet(Fds)
  BY FS_Interval, SchedulerAssumption, FdAssumption DEF Slots, Fds
<1>2. IsFiniteSet(S)
  BY <1>1, FS_Subset
<1>3. IsFiniteSet(S \X Fds)
  BY <1>1, <1>2, FS_Product
<1>4. \A p \in Pipes :
        /\ Cardinality({x \in S \X Fds : tables[x[1]][x[2]].r = p}) \in Nat
        /\ Cardinality({x \in S \X Fds : tables[x[1]][x[2]].w = p}) \in Nat
  <2> TAKE p \in Pipes
  <2>1. IsFiniteSet({x \in S \X Fds : tables[x[1]][x[2]].r = p})
    BY <1>3, FS_Subset
  <2>2. IsFiniteSet({x \in S \X Fds : tables[x[1]][x[2]].w = p})
    BY <1>3, FS_Subset
  <2> QED
    BY <2>1, <2>2, FS_CardinalityType
<1> QED
  BY <1>4 DEF ReadRefs, WriteRefs

\* Closing and duplicating ends keeps the pool well formed.
LEMMA PoolType ==
  ASSUME NEW P \in [Pipes -> PipeSlot],
         NEW r \in [Pipes -> Nat], NEW w \in [Pipes -> Nat]
  PROVE  /\ CloseEnds(P, r, w) \in [Pipes -> PipeSlot]
         /\ DupEnds(P, r, w) \in [Pipes -> PipeSlot]
<1>1. \A n, m \in Nat : Less(n, m) \in Nat /\ AtMost(n, m) \in Nat
  BY DEF Less, AtMost
<1>2. MaxRefs \in Nat
  BY PoolAssumption
<1> HIDE DEF Less, AtMost
<1>3. ASSUME NEW p \in Pipes PROVE CloseEnds(P, r, w)[p] \in PipeSlot
  <2> DEFINE rc == Less(P[p].read_count, r[p])
             wc == Less(P[p].write_count, w[p])
  <2>1. rc \in Nat /\ wc \in Nat
    BY <1>1 DEF PipeSlot
  <2> HIDE DEF rc, wc
  <2>2. [P[p] EXCEPT !.read_count = rc, !.write_count = wc, !.in_use = rc > 0 \/ wc > 0] \in PipeSlot
    BY <2>1 DEF PipeSlot
  <2> QED
    BY <2>2 DEF CloseEnds, rc, wc
<1>4. ASSUME NEW p \in Pipes PROVE DupEnds(P, r, w)[p] \in PipeSlot
  <2> DEFINE rc == AtMost(P[p].read_count + r[p], MaxRefs)
             wc == AtMost(P[p].write_count + w[p], MaxRefs)
  <2>1. P[p].read_count + r[p] \in Nat /\ P[p].write_count + w[p] \in Nat
    BY DEF PipeSlot
  <2>2. rc \in Nat /\ wc \in Nat
    BY <2>1, <1>1, <1>2
  <2> HIDE DEF rc, wc
  <2>3. [P[p] EXCEPT !.read_count = rc, !.write_count = wc] \in PipeSlot
    BY <2>2 DEF PipeSlot
  <2> QED
    BY <2>3 DEF DupEnds, rc, wc
<1> QED
  BY <1>3, <1>4 DEF CloseEnds, DupEnds

LEMMA OneType == ASSUME NEW i PROVE One(i) \in [Pipes -> Nat]
  BY DEF One

LEMMA AllocType ==
  ASSUME NEW P \in [Pipes -> PipeSlot], NEW i \in Pipes
  PROVE  AllocPipe(P, i) \in [Pipes -> PipeSlot]
  BY PoolAssumption DEF AllocPipe, FreshPipe, PipeSlot, PipeCap

\* Allocating a descriptor keeps the table well formed.
LEMMA FdAllocType ==
  ASSUME NEW T \in [Fds -> FdEntry], NEW e \in FdEntry
  PROVE  FdAlloc(T, e) \in [Fds -> FdEntry]
  BY DEF FdAlloc

LEMMA EntryType ==
  /\ Empty \in FdEntry
  /\ ClosedTable \in [Fds -> FdEntry]
  /\ NewTable \in [Fds -> FdEntry]
  /\ \A i, j \in Pipes : {PipeRead(i), PipeWrite(i), SocketPair(i, j)} \subseteq FdEntry
<1>1. \A k \in {"Empty", "Stdin", "Stdout", "Stderr"} : Plain(k) \in FdEntry
  BY DEF Plain, FdEntry, PipeRef
<1> QED
  BY <1>1 DEF FdEntry, PipeRef, Empty, ClosedTable, NewTable, PipeRead, PipeWrite, SocketPair

\* What a call of schedule() does to the CPU and to the saved contexts.
LEMMA ScheduleEffect ==
  ASSUME current \in Slots, NEW st \in [Slots -> States],
         NEW k, Contexts(k), NEW ctx, CtxOK(ctx), schedule(st, k, ctx)
  PROVE  /\ current' \in Slots
         /\ current' = 0 \/ st[current'] = "Ready"
         /\ \/ current' = current /\ cpu' = ctx /\ kctx' = k
            \/ current' # current /\ cpu' = k[current'] /\ kctx' = [k EXCEPT ![current] = ctx]
         /\ CtxOK(cpu') /\ Contexts(kctx')
<1>1. PICK n \in Slots :
        /\ IsNextSlot(st, current, n)
        /\ current' = n
        /\ IF n = current
           THEN cpu' = ctx /\ kctx' = k
           ELSE cpu' = k[n] /\ kctx' = [k EXCEPT ![current] = ctx]
  BY DEF schedule
<1>2. n = 0 \/ st[n] = "Ready"
  BY <1>1 DEF IsNextSlot
<1> HIDE DEF CtxOK
<1> QED
  BY <1>1, <1>2 DEF Contexts

LEMMA UserCtxType ==
  /\ \A p \in PidOrNone : CtxOK(UserCtx(p))
  /\ CtxOK(DeadCtx)
  /\ \A c : CtxOK(c) => CtxOK(Return(c))
<1>1. 0 \in PidOrNone /\ NoPid \in PidOrNone
  BY SchedulerAssumption DEF PidOrNone
<1>2. \A p \in PidOrNone : CtxOK(UserCtx(p))
  BY <1>1 DEF CtxOK, UserCtx, Context, Pcs
<1>3. CtxOK(DeadCtx)
  BY <1>1 DEF CtxOK, DeadCtx, Context, Pcs
<1>4. ASSUME NEW c, CtxOK(c) PROVE c.prog \in PidOrNone
  BY <1>4 DEF CtxOK, Context
<1> QED
  BY <1>2, <1>3, <1>4 DEF Return

\* A context stays well formed when its call enters a loop of the kernel.
LEMMA EnterType ==
  ASSUME NEW c, CtxOK(c), NEW pc \in {"tty", "pipe", "sleep"}, NEW arg \in Int,
         pc = "pipe" => arg \in Pipes, pc = "sleep" => arg \in Nat
  PROVE  CtxOK([c EXCEPT !.pc = pc, !.arg = arg])
<1>1. [c EXCEPT !.pc = pc, !.arg = arg] \in Context
  BY DEF CtxOK, Context, Pcs
<1>2. /\ [c EXCEPT !.pc = pc, !.arg = arg].pc = pc
      /\ [c EXCEPT !.pc = pc, !.arg = arg].arg = arg
  BY DEF CtxOK, Context
<1> QED
  BY <1>1, <1>2 DEF CtxOK

\* Waking tasks changes states only to Ready.
LEMMA WakeType ==
  ASSUME NEW st \in [Slots -> States], NEW S
  PROVE  Wake(st, S) \in [Slots -> States]
  BY DEF Wake, States

\* One tick ages the sleepers and leaves the other contexts alone.
LEMMA AgedType ==
  ASSUME NEW k, Contexts(k)
  PROVE  /\ Contexts(Aged(k))
         /\ \A s \in Slots : k[s].pc # "sleep" => Aged(k)[s] = k[s]
         /\ \A s \in Slots : Aged(k)[s].pc = k[s].pc
<1>1. ASSUME NEW s \in Slots, k[s].pc = "sleep"
      PROVE  CtxOK(Aged(k)[s]) /\ Aged(k)[s].pc = "sleep"
  <2>1. CtxOK(k[s])
    BY DEF Contexts
  <2>2. Less(k[s].arg, 1) \in Nat
    BY <1>1, <2>1 DEF CtxOK, Less
  <2> HIDE DEF Less
  <2>3. Aged(k)[s] = [k[s] EXCEPT !.arg = Less(@, 1)]
    BY <1>1 DEF Aged
  <2> QED
    BY <1>1, <2>1, <2>2, <2>3 DEF CtxOK, Context
<1>2. ASSUME NEW s \in Slots, k[s].pc # "sleep"
      PROVE  Aged(k)[s] = k[s]
  BY <1>2 DEF Aged
<1>3. DOMAIN Aged(k) = Slots
  BY DEF Aged
<1> HIDE DEF CtxOK, Aged
<1> QED
  BY <1>1, <1>2, <1>3 DEF Contexts

-----------------------------------------------------------------------------
(***************************************************************************)
(* Type correctness                                                        *)
(***************************************************************************)
LEMMA TypeInit == Init => TypeOK
<1> SUFFICES ASSUME Init PROVE TypeOK
  OBVIOUS
<1>1. /\ 0 \in Slots /\ NoPid \in PidOrNone
      /\ \A s \in Slots : s <= 1 => s \in PidOrNone /\ 0 \in PidOrNone
      /\ 2 \in 1 .. MaxPid + 1 /\ 0 \in 0 .. SchedTicks - 1 /\ 0 \in 0 .. MaxInput
  BY SchedulerAssumption DEF Slots, PidOrNone
<1>2. NewSlot \in PipeSlot
  BY PoolAssumption DEF NewSlot, PipeSlot, PipeCap
<1>3. CtxOK(cpu) /\ DOMAIN kctx = Slots /\ \A s \in Slots : CtxOK(kctx[s])
  BY <1>1, UserCtxType DEF Init
<1>4. /\ state \in [Slots -> {"None", "Ready", "Blocked", "Zombie"}]
      /\ pid \in [Slots -> PidOrNone] /\ ppid \in [Slots -> PidOrNone]
  BY <1>1 DEF Init
<1>5. 0 \in WaitTargets
  BY SchedulerAssumption DEF WaitTargets
<1>6. /\ pending \in [Slots -> SUBSET Signals] /\ waiting \in [Slots -> WaitTargets]
      /\ fds \in [Slots -> [Fds -> FdEntry]]
  BY <1>5, EntryType DEF Init
<1>7. /\ pool \in [Pipes -> PipeSlot] /\ pipe_waiter \in [Pipes -> Slots \cup {NoSlot}]
      /\ tty_waiter \in Slots \cup {NoSlot}
  BY <1>2 DEF Init
<1> QED
  BY <1>1, <1>3, <1>4, <1>6, <1>7 DEF Init, TypeOK

\* The state of the tasks and of the pool after deliver_all_signals.
LEMMA DeliverType ==
  ASSUME TypeOK, deliver_all_signals
  PROVE  /\ state' \in [Slots -> States]
         /\ waiting' \in [Slots -> WaitTargets]
         /\ pending' \in [Slots -> SUBSET Signals]
         /\ fds' \in [Slots -> [Fds -> FdEntry]]
         /\ pool' \in [Pipes -> PipeSlot]
<1>1. Killed \in SUBSET Slots
  BY DEF Killed, UserSlots, Slots
<1>2. pool' \in [Pipes -> PipeSlot]
  BY <1>1, RefsType, PoolType DEF deliver_all_signals, TypeOK
<1>3. \A p \in SUBSET Signals : TakeLethal(p) \in SUBSET Signals
  BY DEF TakeLethal
<1>4. pending' \in [Slots -> SUBSET Signals]
  BY <1>3 DEF deliver_all_signals, TypeOK
<1>5. 0 \in WaitTargets
  BY SchedulerAssumption DEF WaitTargets
<1> QED
  BY <1>2, <1>4, <1>5, EntryType DEF deliver_all_signals, TypeOK, States

LEMMA TypeInterrupt == TypeOK /\ Interrupt => TypeOK'
<1> SUFFICES ASSUME TypeOK, Interrupt PROVE TypeOK'
  OBVIOUS
<1> USE DEF taskVars, cpuVars, irqVars, ipcVars, ttyVars
<1>0. Contexts(kctx) /\ CtxOK(cpu) /\ CtxOK([cpu EXCEPT !.pc = "irq"])
  BY DEF TypeOK, Contexts, CtxOK, Context, Pcs
<1>1. CASE tick
  <2>1. /\ state' \in [Slots -> States] /\ waiting' \in [Slots -> WaitTargets]
        /\ pending' \in [Slots -> SUBSET Signals] /\ fds' \in [Slots -> [Fds -> FdEntry]]
        /\ pool' \in [Pipes -> PipeSlot]
    BY <1>1, DeliverType DEF tick, TypeOK, States
  <2>2. current' \in Slots /\ CtxOK(cpu') /\ Contexts(kctx')
    <3>1. CASE phase' = 0
      BY <1>0, <1>1, <2>1, <3>1, AgedType, ScheduleEffect DEF tick, TypeOK
    <3>2. CASE phase' # 0
      BY <1>0, <1>1, <3>2, AgedType DEF tick, TypeOK
    <3> QED
      BY <3>1, <3>2
  <2>3. phase' \in 0 .. SchedTicks - 1 /\ in_service' \in BOOLEAN
    BY <1>1, SchedulerAssumption DEF tick, TypeOK
  <2> HIDE DEF CtxOK
  <2> QED
    BY <1>1, <2>1, <2>2, <2>3 DEF tick, TypeOK, Contexts, States
<1>2. CASE TimerReturn
  <2>1. CtxOK(cpu')
    BY <1>0, <1>2, UserCtxType DEF TimerReturn
  <2> HIDE DEF CtxOK
  <2> QED
    BY <1>2, <2>1 DEF TimerReturn, TypeOK
<1>3. \A n \in 0 .. MaxInput : AtMost(n + 1, MaxInput) \in 0 .. MaxInput
  BY SchedulerAssumption DEF AtMost
<1>4. wake_tty_waiter => state' \in [Slots -> States] /\ tty_waiter' \in Slots \cup {NoSlot}
  BY WakeType DEF wake_tty_waiter, TypeOK, States
<1> HIDE DEF CtxOK, AtMost
<1>5. CASE SerialIrq
  BY <1>3, <1>4, <1>5 DEF SerialIrq, TypeOK, States
<1>6. CASE KeyboardIrq
  BY <1>3, <1>4, <1>6 DEF KeyboardIrq, TypeOK, States
<1> QED
  BY <1>1, <1>2, <1>5, <1>6 DEF Interrupt

\* exit_current, called from sys_exit and from sys_kill.
LEMMA ExitType ==
  ASSUME TypeOK, exit_current
  PROVE  TypeOK'
<1> USE DEF irqVars, ttyVars
<1> DEFINE closed == CloseEnds(pool, ReadRefs(fds, {current}), WriteRefs(fds, {current}))
           dead   == [state EXCEPT ![current] = "Zombie"]
           wake   == ChildWaiters(dead, pid[current], ppid[current])
<1>1. closed \in [Pipes -> PipeSlot]
  <2>1. {current} \in SUBSET Slots
    BY DEF TypeOK
  <2> QED
    BY <2>1, RefsType, PoolType DEF TypeOK
<1>2. dead \in [Slots -> States]
  BY DEF TypeOK, States
<1>3. /\ state' = Wake(Wake(dead, wake), {pipe_waiter[p] : p \in ClosedPipes(closed)})
      /\ pipe_waiter' = [p \in Pipes |-> IF p \in ClosedPipes(closed) THEN NoSlot ELSE pipe_waiter[p]]
      /\ pool' = closed
      /\ schedule(state', kctx, DeadCtx)
      /\ waiting' = NotWaiting(wake)
  BY DEF exit_current, wake_pipe_waiters
<1> HIDE DEF closed, dead, wake
<1>4. state' \in [Slots -> States] /\ pool' \in [Pipes -> PipeSlot]
  BY <1>1, <1>2, <1>3, WakeType
<1>5. waiting' \in [Slots -> WaitTargets]
  <2>1. 0 \in WaitTargets
    BY SchedulerAssumption DEF WaitTargets
  <2> QED
    BY <2>1, <1>3 DEF NotWaiting, TypeOK
<1>6. pipe_waiter' \in [Pipes -> Slots \cup {NoSlot}]
  BY <1>3 DEF TypeOK
<1>7. pending' \in [Slots -> SUBSET Signals]
  BY DEF exit_current, TypeOK, raise_signal, Signals
<1>8. fds' \in [Slots -> [Fds -> FdEntry]]
  BY EntryType DEF exit_current, TypeOK
<1>9. current' \in Slots /\ CtxOK(cpu') /\ Contexts(kctx')
  BY <1>3, <1>4, UserCtxType, ScheduleEffect DEF TypeOK, Contexts
<1>10. UNCHANGED <<pid, ppid, next_pid, irqVars, ttyVars>>
  BY DEF exit_current
<1> QED
  BY <1>4, <1>5, <1>6, <1>7, <1>8, <1>9, <1>10 DEF TypeOK, States, Contexts

LEMMA TypeSyscall == TypeOK /\ Syscall => TypeOK'
<1> SUFFICES ASSUME TypeOK, Syscall PROVE TypeOK'
  OBVIOUS
<1> USE DEF taskVars, cpuVars, irqVars, ipcVars, ttyVars
<1>0. /\ Contexts(kctx) /\ CtxOK(cpu)
      /\ Table \in [Fds -> FdEntry] /\ Handles \subseteq Fds
  BY KernelAssumption DEF TypeOK, Contexts, Table
<1>1. CASE sys_fork
  <2>1. PICK c \in UserSlots :
          /\ state'   = [state   EXCEPT ![c] = "Ready"]
          /\ pid'     = [pid     EXCEPT ![c] = next_pid]
          /\ ppid'    = [ppid    EXCEPT ![c] = pid[current]]
          /\ pending' = [pending EXCEPT ![c] = {}]
          /\ waiting' = [waiting EXCEPT ![c] = 0]
          /\ fds'     = [fds     EXCEPT ![c] = fds[current]]
          /\ kctx'    = [kctx    EXCEPT ![c] = UserCtx(next_pid)]
          /\ pool'    = DupEnds(pool, ReadRefs(fds, {current}), WriteRefs(fds, {current}))
          /\ next_pid' = next_pid + 1
    BY <1>1 DEF sys_fork, spawn_fork
  <2>2. next_pid \in PidOrNone /\ next_pid + 1 \in 1 .. MaxPid + 1 /\ 0 \in WaitTargets
    BY <1>1, SchedulerAssumption DEF sys_fork, TypeOK, PidOrNone, WaitTargets
  <2>3. pool' \in [Pipes -> PipeSlot]
    <3>1. {current} \in SUBSET Slots
      BY DEF TypeOK
    <3> QED
      BY <2>1, <3>1, RefsType, PoolType DEF TypeOK
  <2>4. DOMAIN kctx' = Slots /\ \A s \in Slots : CtxOK(kctx'[s])
    BY <1>0, <2>1, <2>2, UserCtxType DEF Contexts
  <2>5. /\ state' \in [Slots -> {"None", "Ready", "Blocked", "Zombie"}]
        /\ pid' \in [Slots -> PidOrNone] /\ ppid' \in [Slots -> PidOrNone]
        /\ pending' \in [Slots -> SUBSET Signals] /\ waiting' \in [Slots -> WaitTargets]
        /\ fds' \in [Slots -> [Fds -> FdEntry]]
    BY <2>1, <2>2 DEF TypeOK
  <2> QED
    BY <1>1, <2>1, <2>2, <2>3, <2>4, <2>5 DEF sys_fork, TypeOK
<1>2. CASE sys_exit
  BY <1>2, ExitType DEF sys_exit
<1>3. CASE sys_wait4
  <2>1. PICK target \in WaitTargets, no_hang \in BOOLEAN :
          cpu' = [cpu EXCEPT !.pc = "wait", !.arg = target, !.me = pid[current], !.no_hang = no_hang]
    BY <1>3 DEF sys_wait4
  <2>2. pid[current] \in PidOrNone /\ target \in Int
    BY SchedulerAssumption DEF TypeOK, WaitTargets, AnyChild
  <2>3. CtxOK(cpu')
    BY <1>0, <2>1, <2>2 DEF CtxOK, Context, Pcs
  <2> QED
    BY <1>3, <2>3 DEF sys_wait4, TypeOK
<1>4. CASE sys_yield
  <2>1. current' \in Slots /\ CtxOK(cpu') /\ Contexts(kctx')
    BY <1>0, <1>4, ScheduleEffect DEF sys_yield, TypeOK, States
  <2> QED
    BY <1>4, <2>1 DEF sys_yield, TypeOK, Contexts
<1>5. CASE sys_nanosleep
  <2>1. PICK ticks \in 1 .. MaxSleep : EnterLoop("sleep", ticks)
    BY <1>5 DEF sys_nanosleep
  <2>2. ticks \in Int /\ ticks \in Nat
    BY SchedulerAssumption
  <2>3. CtxOK([cpu EXCEPT !.pc = "sleep", !.arg = ticks])
    BY <1>0, <2>2, EnterType
  <2> QED
    BY <2>1, <2>3 DEF EnterLoop, TypeOK
<1>6. ASSUME NEW target \in 0 .. MaxPid, NEW sig \in KillSigs, sys_kill(target, sig)
      PROVE  TypeOK'
  <2>1. CASE exit_current
    BY <2>1, ExitType
  <2>2. CASE /\ raise_signal_to_pid(target, sig)
             /\ UNCHANGED <<pid, ppid, waiting, fds, cpuVars, next_pid, irqVars, ipcVars, ttyVars>>
    <3>1. PICK s \in Slots : /\ pending' = [pending EXCEPT ![s] = raise_signal(@, sig)]
                             /\ state' = Wake(state, {s})
      BY <2>2 DEF raise_signal_to_pid
    <3>2. state' \in [Slots -> States]
      BY <3>1, WakeType DEF TypeOK, States
    <3>3. raise_signal(pending[s], sig) \in SUBSET Signals
      BY KernelAssumption DEF TypeOK, raise_signal
    <3>4. pending' \in [Slots -> SUBSET Signals]
      BY <3>1, <3>3 DEF TypeOK
    <3> QED
      BY <2>2, <3>2, <3>4 DEF TypeOK, States
  <2> QED
    BY <1>6, <2>1, <2>2 DEF sys_kill
<1>7. CASE sys_pipe
  <2>1. PICK i \in Pipes :
          /\ fds' = [fds EXCEPT ![current] = FdAlloc(FdAlloc(Table, PipeRead(i)), PipeWrite(i))]
          /\ \/ pool' = AllocPipe(pool, i)
             \/ pool' = CloseEnds(AllocPipe(pool, i), One(i), One(i))
    BY <1>7 DEF sys_pipe
  <2>2. AllocPipe(pool, i) \in [Pipes -> PipeSlot]
    BY AllocType DEF TypeOK
  <2>3. pool' \in [Pipes -> PipeSlot]
    BY <2>1, <2>2, OneType, PoolType
  <2>4. FdAlloc(FdAlloc(Table, PipeRead(i)), PipeWrite(i)) \in [Fds -> FdEntry]
    BY <1>0, FdAllocType, EntryType
  <2>5. fds' \in [Slots -> [Fds -> FdEntry]]
    BY <2>1, <2>4 DEF TypeOK
  <2> QED
    BY <1>7, <2>3, <2>5 DEF sys_pipe, TypeOK
<1>8. CASE sys_socketpair
  <2>1. PICK a \in Pipes :
          \/ \E b \in Pipes : SocketPipes(a, b)
          \/ pool' = CloseEnds(AllocPipe(pool, a), One(a), One(a)) /\ UNCHANGED fds
    BY <1>8 DEF sys_socketpair
  <2>2. \A i \in Pipes : AllocPipe(pool, i) \in [Pipes -> PipeSlot]
    BY AllocType DEF TypeOK
  <2>3. CASE \E b \in Pipes : SocketPipes(a, b)
    <3>1. PICK b \in Pipes : SocketPipes(a, b)
      BY <2>3
    <3> DEFINE both == AllocPipe(AllocPipe(pool, a), b)
    <3>2. both \in [Pipes -> PipeSlot]
      BY <2>2, AllocType
    <3>3. /\ fds' = [fds EXCEPT ![current] = FdAlloc(FdAlloc(Table, SocketPair(a, b)), SocketPair(b, a))]
          /\ \/ pool' = both
             \/ pool' = CloseEnds(CloseEnds(both, One(a), One(b)), One(b), One(NoPipe))
      BY <3>1 DEF SocketPipes
    <3> HIDE DEF both
    <3>4. CloseEnds(both, One(a), One(b)) \in [Pipes -> PipeSlot]
      BY <3>2, OneType, PoolType
    <3>5. pool' \in [Pipes -> PipeSlot]
      BY <3>2, <3>3, <3>4, OneType, PoolType
    <3>6. FdAlloc(FdAlloc(Table, SocketPair(a, b)), SocketPair(b, a)) \in [Fds -> FdEntry]
      BY <1>0, FdAllocType, EntryType
    <3>7. fds' \in [Slots -> [Fds -> FdEntry]]
      BY <3>3, <3>6 DEF TypeOK
    <3> QED
      BY <1>8, <3>5, <3>7 DEF sys_socketpair, TypeOK
  <2>4. CASE pool' = CloseEnds(AllocPipe(pool, a), One(a), One(a)) /\ UNCHANGED fds
    <3>1. pool' \in [Pipes -> PipeSlot]
      BY <2>2, <2>4, OneType, PoolType
    <3> QED
      BY <1>8, <2>4, <3>1 DEF sys_socketpair, TypeOK
  <2> QED
    BY <2>1, <2>3, <2>4
<1>9. ASSUME NEW f \in Handles, sys_dup(f) PROVE TypeOK'
  <2>1. FdAlloc(Table, Table[f]) \in [Fds -> FdEntry]
    BY <1>0, FdAllocType
  <2>2. fds' \in [Slots -> [Fds -> FdEntry]]
    BY <1>9, <2>1 DEF sys_dup, TypeOK
  <2> QED
    BY <1>9, <2>2 DEF sys_dup, TypeOK
<1>10. ASSUME NEW f \in Handles, sys_close(f) PROVE TypeOK'
  <2>1. pool' \in [Pipes -> PipeSlot]
    BY <1>10, OneType, PoolType DEF sys_close, TypeOK
  <2>2. fds' \in [Slots -> [Fds -> FdEntry]]
    BY <1>0, <1>10, EntryType DEF sys_close, TypeOK
  <2>3. state' \in [Slots -> States] /\ pipe_waiter' \in [Pipes -> Slots \cup {NoSlot}]
    BY <1>10, WakeType DEF sys_close, wake_pipe_waiters, TypeOK, States
  <2> QED
    BY <1>10, <2>1, <2>2, <2>3 DEF sys_close, TypeOK, States
<1>11. ASSUME NEW f \in Handles, sys_read(f) PROVE TypeOK'
  <2>1. PICK pc, arg : /\ EnterLoop(pc, arg)
                       /\ \/ pc = "tty" /\ arg = 0
                          \/ pc = "pipe" /\ arg = Table[f].r /\ arg # NoPipe
    BY <1>11 DEF sys_read
  <2>2. Table[f].r \in PipeRef
    BY <1>0 DEF FdEntry
  <2>3. CtxOK(cpu')
    <3>1. arg \in Int /\ (pc = "pipe" => arg \in Pipes)
      BY <2>1, <2>2, PoolAssumption DEF PipeRef, Pipes
    <3>2. CtxOK([cpu EXCEPT !.pc = pc, !.arg = arg])
      BY <1>0, <2>1, <3>1, EnterType
    <3> QED
      BY <2>1, <3>2 DEF EnterLoop
  <2> QED
    BY <2>1, <2>3 DEF EnterLoop, TypeOK
<1>12. ASSUME NEW f \in Handles, sys_write(f) PROVE TypeOK'
  <2> DEFINE i == Table[f].w
  <2>1. i \in Pipes
    BY <1>0, <1>12 DEF sys_write, FdEntry, PipeRef
  <2>2. PICK n \in 1 .. Writable(pool, i) : pool' = [pool EXCEPT ![i].len = @ + n]
    BY <1>12 DEF sys_write
  <2>3. state' \in [Slots -> States] /\ pipe_waiter' \in [Pipes -> Slots \cup {NoSlot}]
    BY <1>12, WakeType DEF sys_write, wake_pipe_waiters, TypeOK, States
  <2> HIDE DEF i
  <2>4. pool[i] \in PipeSlot /\ pool[i].len + n \in 0 .. PipeCap
    BY <2>1, <2>2, PoolAssumption DEF TypeOK, PipeSlot, Writable, PipeCap
  <2>5. pool' \in [Pipes -> PipeSlot]
    BY <2>1, <2>2, <2>4 DEF TypeOK, PipeSlot
  <2> QED
    BY <1>12, <2>3, <2>5 DEF sys_write, TypeOK, States
<1>13. ASSUME NEW f \in Handles, NEW g \in Handles, sys_dup2(f, g) PROVE TypeOK'
  <2>1. pool' \in [Pipes -> PipeSlot]
    BY <1>13, OneType, PoolType DEF sys_dup2, TypeOK
  <2>2. Table[f] \in FdEntry
    BY <1>0
  <2>3. fds' \in [Slots -> [Fds -> FdEntry]]
    BY <1>0, <1>13, <2>2 DEF sys_dup2, TypeOK
  <2> QED
    BY <1>13, <2>1, <2>3 DEF sys_dup2, TypeOK
<1> QED
  BY <1>1, <1>2, <1>3, <1>4, <1>5, <1>6, <1>7, <1>8, <1>9, <1>10, <1>11, <1>12, <1>13 DEF Syscall

LEMMA TypeKernelLoop == TypeOK /\ KernelLoop => TypeOK'
<1> SUFFICES ASSUME TypeOK, KernelLoop PROVE TypeOK'
  OBVIOUS
<1> USE DEF taskVars, cpuVars, irqVars, ipcVars, ttyVars
<1>0. /\ Contexts(kctx) /\ CtxOK(cpu) /\ CtxOK(Return(cpu))
      /\ state \in [Slots -> States] /\ current \in Slots
  BY UserCtxType DEF TypeOK, Contexts, States
<1>1. [state EXCEPT ![current] = "Blocked"] \in [Slots -> States]
  BY <1>0 DEF States
<1>2. CASE Reap
  <2>1. PICK z \in UserSlots :
          /\ state'   = [state   EXCEPT ![z] = "None"]
          /\ pid'     = [pid     EXCEPT ![z] = NoPid]
          /\ ppid'    = [ppid    EXCEPT ![z] = NoPid]
          /\ pending' = [pending EXCEPT ![z] = {}]
          /\ waiting' = [waiting EXCEPT ![z] = 0]
          /\ fds'     = [fds     EXCEPT ![z] = ClosedTable]
          /\ kctx'    = [kctx    EXCEPT ![z] = DeadCtx]
    BY <1>2 DEF Reap, ZombieChildren
  <2>2. NoPid \in PidOrNone /\ 0 \in WaitTargets
    BY SchedulerAssumption DEF PidOrNone, WaitTargets
  <2>3. Contexts(kctx')
    BY <1>0, <2>1, UserCtxType DEF Contexts
  <2>4. /\ state' \in [Slots -> States]
        /\ pid' \in [Slots -> PidOrNone] /\ ppid' \in [Slots -> PidOrNone]
        /\ pending' \in [Slots -> SUBSET Signals] /\ waiting' \in [Slots -> WaitTargets]
        /\ fds' \in [Slots -> [Fds -> FdEntry]]
    BY <2>1, <2>2, EntryType DEF TypeOK, States
  <2> QED
    BY <1>0, <1>2, <2>3, <2>4 DEF Reap, TypeOK, States, Contexts
<1>3. CASE WaitReturns
  BY <1>0, <1>3 DEF WaitReturns, TypeOK
<1>4. CASE WaitBlocks
  <2>1. current' \in Slots /\ CtxOK(cpu') /\ Contexts(kctx')
    BY <1>0, <1>1, <1>4, ScheduleEffect DEF WaitBlocks
  <2>2. waiting' \in [Slots -> WaitTargets]
    BY <1>0, <1>4 DEF WaitBlocks, TypeOK, CtxOK
  <2> QED
    BY <1>1, <1>4, <2>1, <2>2 DEF WaitBlocks, TypeOK, States, Contexts
<1>5. CASE PipeReadTakes
  <2>1. PICK n \in 1 .. Readable(pool, cpu.arg) : pool' = [pool EXCEPT ![cpu.arg].len = @ - n]
    BY <1>5 DEF PipeReadTakes
  <2>2. cpu.arg \in Pipes
    BY <1>0, <1>5 DEF PipeReadTakes, CtxOK
  <2>3. pool[cpu.arg] \in PipeSlot /\ pool[cpu.arg].len - n \in 0 .. PipeCap
    BY <2>1, <2>2, PoolAssumption DEF TypeOK, PipeSlot, Readable, PipeCap
  <2>4. pool' \in [Pipes -> PipeSlot]
    BY <2>1, <2>2, <2>3 DEF TypeOK, PipeSlot
  <2> QED
    BY <1>0, <1>5, <2>4 DEF PipeReadTakes, TypeOK
<1>6. CASE PipeReadEof
  BY <1>0, <1>6 DEF PipeReadEof, TypeOK
<1>7. CASE PipeReadBlocks
  <2>1. current' \in Slots /\ CtxOK(cpu') /\ Contexts(kctx')
    BY <1>0, <1>1, <1>7, ScheduleEffect DEF PipeReadBlocks, block_on_pipe
  <2>2. pipe_waiter' \in [Pipes -> Slots \cup {NoSlot}]
    BY <1>0, <1>7 DEF PipeReadBlocks, block_on_pipe, TypeOK
  <2> QED
    BY <1>1, <1>7, <2>1, <2>2 DEF PipeReadBlocks, block_on_pipe, TypeOK, States, Contexts
<1>8. CASE TtyReadSerial
  <2>1. serial' \in 0 .. MaxInput
    BY <1>8, SchedulerAssumption DEF TtyReadSerial, TypeOK
  <2> QED
    BY <1>0, <1>8, <2>1 DEF TtyReadSerial, TypeOK
<1>9. ASSUME block_on_tty
      PROVE  /\ current' \in Slots /\ CtxOK(cpu') /\ Contexts(kctx')
             /\ state' \in [Slots -> States] /\ tty_waiter' \in Slots \cup {NoSlot}
  BY <1>0, <1>1, <1>9, ScheduleEffect DEF block_on_tty
<1>10. CASE TtyReadKey
  <2>1. keys' \in 0 .. MaxInput
    BY <1>10, SchedulerAssumption DEF TtyReadKey, TypeOK
  <2>2. /\ current' \in Slots /\ CtxOK(cpu') /\ Contexts(kctx')
        /\ state' \in [Slots -> States] /\ tty_waiter' \in Slots \cup {NoSlot}
    BY <1>0, <1>9, <1>10 DEF TtyReadKey, TypeOK
  <2> QED
    BY <1>10, <2>1, <2>2 DEF TtyReadKey, TypeOK, States, Contexts
<1>11. CASE TtyReadBlocks
  BY <1>9, <1>11 DEF TtyReadBlocks, TypeOK, States, Contexts
<1>12. CASE sleep_ticks
  <2>1. current' \in Slots /\ CtxOK(cpu') /\ Contexts(kctx')
    BY <1>0, <1>12, ScheduleEffect DEF sleep_ticks
  <2> QED
    BY <1>12, <2>1 DEF sleep_ticks, TypeOK, Contexts
<1> QED
  BY <1>2, <1>3, <1>4, <1>5, <1>6, <1>7, <1>8, <1>10, <1>11, <1>12 DEF KernelLoop

\* Every step preserves the types.
LEMMA TypeNext == TypeOK /\ [Next]_vars => TypeOK'
<1> SUFFICES ASSUME TypeOK, [Next]_vars PROVE TypeOK'
  OBVIOUS
<1>1. CASE Next
  BY <1>1, TypeInterrupt, TypeSyscall, TypeKernelLoop DEF Next
<1>2. CASE UNCHANGED vars
  BY <1>2 DEF TypeOK, vars, taskVars, cpuVars, irqVars, ipcVars, ttyVars
<1> QED
  BY <1>1, <1>2

\* The state of the kernel is well typed in every reachable state: every slot,
\* pipe and descriptor index that the code uses is within its table.
THEOREM TypeCorrect == Spec => []TypeOK
  BY TypeInit, TypeNext, PTL DEF Spec

-----------------------------------------------------------------------------
(***************************************************************************)
(* The safety invariants.  They are not inductive as they stand: that      *)
(* waitpid misses no exit depends on waiting_for_pid recording what the    *)
(* sleeping loop waits for, and on cur_pid being the waiter's pid; that    *)
(* waitpid does not reap the slot it runs in depends on a child's pid      *)
(* being larger than its parent's.                                         *)
(***************************************************************************)

\* The context of every task, the running one included.
Ctxs == [kctx EXCEPT ![current] = cpu]

\* Pids are unique, below NEXT_PID, and larger than the parent's.
PidInv(st, p, pp, np) ==
  /\ st[0] = "Ready" /\ p[0] = 0
  /\ \A s \in Slots : st[s] # "None" => p[s] \in Nat /\ p[s] < np
  /\ \A s \in UserSlots : st[s] # "None" => pp[s] \in Nat /\ pp[s] < p[s]
  /\ \A s, t \in Slots : s # t /\ st[s] # "None" /\ st[t] # "None" => p[s] # p[t]

\* The idle task makes no system call.  A task in waitpid has its own pid in
\* cur_pid; asleep, it has its target in waiting_for_pid, and no zombie that it
\* waits for exists.
WaitInv(st, p, pp, w, k) ==
  /\ k[0].pc \in {"user", "irq"}
  /\ \A s \in Slots : st[s] \in {"Ready", "Blocked"} /\ k[s].pc = "wait" => k[s].me = p[s]
  /\ \A s \in Slots : st[s] = "Blocked" /\ k[s].pc = "wait" => w[s] = k[s].arg
  /\ \A s \in Slots, z \in UserSlots :
       /\ st[s] = "Blocked" /\ k[s].pc = "wait"
       /\ st[z] = "Zombie" /\ pp[z] = p[s]
       => ~Matches(k[s].arg, p[z])

\* The inductive invariant.
IInv ==
  /\ TypeOK
  /\ PidInv(state, pid, ppid, next_pid)
  /\ WaitInv(state, pid, ppid, waiting, Ctxs)
  /\ state[current] \in {"Ready", "Zombie"}
  /\ cpu.pc = "wait" => cpu.me = pid[current]

\* schedule() only moves contexts between the CPU and the saved ones.
LEMMA ScheduleCtxs ==
  ASSUME current \in Slots, NEW st \in [Slots -> States], st[0] = "Ready",
         NEW k, Contexts(k), NEW ctx, CtxOK(ctx), schedule(st, k, ctx)
  PROVE  /\ Ctxs' = [k EXCEPT ![current] = ctx]
         /\ current' \in Slots /\ st[current'] = "Ready"
         /\ cpu' = Ctxs'[current']
<1>1. /\ current' \in Slots
      /\ current' = 0 \/ st[current'] = "Ready"
      /\ \/ current' = current /\ cpu' = ctx /\ kctx' = k
         \/ current' # current /\ cpu' = k[current'] /\ kctx' = [k EXCEPT ![current] = ctx]
  BY ScheduleEffect
<1>2. DOMAIN k = Slots
  BY DEF Contexts
<1>3. CASE current' = current
  BY <1>1, <1>2, <1>3 DEF Ctxs
<1>4. CASE current' # current
  BY <1>1, <1>2, <1>4 DEF Ctxs
<1> QED
  BY <1>1, <1>3, <1>4

\* Waking tasks preserves the invariants.
LEMMA WakeInv ==
  ASSUME NEW st \in [Slots -> States], NEW p, NEW pp, NEW w, NEW k, NEW np, NEW S
  PROVE  /\ WaitInv(st, p, pp, w, k) => WaitInv(Wake(st, S), p, pp, w, k)
         /\ PidInv(st, p, pp, np) => PidInv(Wake(st, S), p, pp, np)
<1>1. \A s \in Slots : \/ Wake(st, S)[s] = st[s]
                       \/ Wake(st, S)[s] = "Ready" /\ st[s] = "Blocked"
  BY DEF Wake
<1>2. 0 \in Slots /\ UserSlots \subseteq Slots
  BY SchedulerAssumption DEF Slots, UserSlots
<1> QED
  BY <1>1, <1>2 DEF WaitInv, PidInv

\* A task that is not blocked may change its context.
LEMMA CtxInv ==
  ASSUME NEW st, NEW p, NEW pp, NEW w, NEW k, DOMAIN k = Slots, WaitInv(st, p, pp, w, k),
         NEW c \in Slots, st[c] # "Blocked",
         NEW ctx, ctx.pc = "wait" => ctx.me = p[c], c # 0 \/ ctx.pc \in {"user", "irq"}
  PROVE  WaitInv(st, p, pp, w, [k EXCEPT ![c] = ctx])
<1>1. 0 \in Slots
  BY SchedulerAssumption DEF Slots
<1> QED
  BY <1>1 DEF WaitInv

\* The invariant holds again after a step that ends in schedule(): the task
\* that is resumed is Ready, so what WaitInv says of it holds of the CPU.
LEMMA ResumedInv ==
  ASSUME TypeOK', PidInv(state', pid', ppid', next_pid'),
         WaitInv(state', pid', ppid', waiting', Ctxs'), state'[current'] = "Ready"
  PROVE  IInv'
<1>1. Ctxs'[current'] = cpu' /\ current' \in Slots
  BY DEF TypeOK, Ctxs
<1> HIDE DEF Ctxs
<1>2. cpu'.pc = "wait" => cpu'.me = pid'[current']
  BY <1>1 DEF WaitInv
<1> QED
  BY <1>2 DEF IInv

\* A step that only moves the running context along.
LEMMA QuietInv ==
  ASSUME IInv, TypeOK', UNCHANGED <<state, pid, ppid, waiting, kctx, current, next_pid>>,
         cpu'.pc = "wait" => cpu'.me = pid[current],
         current # 0 \/ cpu'.pc \in {"user", "irq"}
  PROVE  IInv'
<1>1. Ctxs' = [Ctxs EXCEPT ![current] = cpu'] /\ DOMAIN Ctxs = Slots
  BY DEF Ctxs, IInv, TypeOK
<1>2. current \in Slots /\ state[current] # "Blocked"
  BY DEF IInv, TypeOK
<1> HIDE DEF Ctxs
<1>3. WaitInv(state, pid, ppid, waiting, Ctxs')
  BY <1>1, <1>2, CtxInv DEF IInv
<1> QED
  BY <1>3 DEF IInv

\* A step that only wakes tasks.
LEMMA WokenInv ==
  ASSUME IInv, TypeOK', NEW S, state' = Wake(state, S),
         UNCHANGED <<pid, ppid, waiting, kctx, current, cpu, next_pid>>
  PROVE  IInv'
<1>1. state \in [Slots -> States] /\ current \in Slots
  BY DEF IInv, TypeOK, States
<1>2. Ctxs' = Ctxs
  BY DEF Ctxs
<1>3. state'[current] = state[current]
  BY <1>1 DEF Wake, IInv
<1>4. /\ WaitInv(state', pid, ppid, waiting, Ctxs)
      /\ PidInv(state', pid, ppid, next_pid)
  BY <1>1, WakeInv DEF IInv
<1> QED
  BY <1>2, <1>3, <1>4 DEF IInv

LEMMA InvInit == Init => IInv
<1> SUFFICES ASSUME Init PROVE IInv
  OBVIOUS
<1>1. 0 \in Slots /\ 1 \in Slots /\ \A s \in UserSlots : s \in Slots /\ s >= 1
  BY SchedulerAssumption DEF Slots, UserSlots
<1>2. \A s \in Slots : s \in Nat
  BY SchedulerAssumption DEF Slots
<1>3. PidInv(state, pid, ppid, next_pid)
  BY <1>1, <1>2 DEF Init, PidInv
<1>4. cpu.pc = "user" /\ state[current] = "Ready"
  BY <1>1 DEF Init, UserCtx
<1>5. \A s \in Slots : state[s] # "Blocked"
  BY DEF Init
<1>6. Ctxs[0].pc = "user" /\ \A s \in Slots : Ctxs[s].pc # "wait"
  BY <1>1 DEF Init, Ctxs, UserCtx, DeadCtx
<1>7. WaitInv(state, pid, ppid, waiting, Ctxs)
  BY <1>5, <1>6 DEF WaitInv
<1> QED
  BY <1>3, <1>4, <1>7, TypeInit DEF IInv

\* deliver_all_signals preserves the invariant: whoever waits for a task that
\* it kills is woken.
LEMMA DeliverInv ==
  ASSUME IInv, deliver_all_signals, NEW k, WaitInv(state, pid, ppid, waiting, k)
  PROVE  /\ PidInv(state', pid, ppid, next_pid)
         /\ WaitInv(state', pid, ppid, waiting', k)
         /\ state'[current] \in {"Ready", "Zombie"}
<1>1. /\ 0 \in Slots /\ 0 \notin UserSlots /\ UserSlots \subseteq Slots
      /\ current \in Slots /\ state \in [Slots -> States]
  BY SchedulerAssumption DEF Slots, UserSlots, IInv, TypeOK, States
<1>2. \A s \in Slots :
        /\ s \in Killed => state'[s] = "Zombie" /\ state[s] \in {"Ready", "Blocked"}
        /\ s \notin Killed => \/ state'[s] = state[s]
                              \/ state'[s] = "Ready" /\ state[s] \in {"Ready", "Blocked"}
        /\ state'[s] = "Blocked" =>
             /\ state[s] = "Blocked" /\ waiting'[s] = waiting[s]
             /\ s \notin Killed /\ ~WokenByDeath(s, Killed)
  <2> TAKE s \in Slots
  <2>1. WokenByDeath(s, Killed) \/ WokenByChld(s) => state[s] \in {"Ready", "Blocked"}
    BY DEF WokenByDeath, WokenByChld, ChildWaiters, Alive
  <2>2. s \in Killed => state[s] \in {"Ready", "Blocked"}
    BY DEF Killed, Alive
  <2> HIDE DEF WokenByDeath, WokenByChld, Killed
  <2> QED
    BY <2>1, <2>2 DEF deliver_all_signals
<1>3. 0 \notin Killed /\ Killed \subseteq UserSlots
  BY <1>1 DEF Killed
<1>4. PidInv(state', pid, ppid, next_pid)
  <2>1. state'[0] = "Ready"
    BY <1>1, <1>2, <1>3 DEF IInv, PidInv
  <2>2. \A s \in Slots : state'[s] # "None" => state[s] # "None"
    BY <1>2
  <2> QED
    BY <1>1, <2>1, <2>2 DEF IInv, PidInv
<1>5. ASSUME NEW s \in Slots, NEW z \in UserSlots,
             state'[s] = "Blocked", k[s].pc = "wait",
             state'[z] = "Zombie", ppid[z] = pid[s]
      PROVE  ~Matches(k[s].arg, pid[z])
  <2>1. CASE z \notin Killed
    BY <1>1, <1>2, <1>5, <2>1 DEF WaitInv
  <2>2. CASE z \in Killed
    <3>1. s \notin ChildWaiters(state, pid[z], ppid[z])
      BY <1>2, <1>5, <2>2 DEF WokenByDeath
    <3>2. waiting[s] = k[s].arg
      BY <1>2, <1>5 DEF WaitInv
    <3>3. waiting[s] # pid[z] /\ waiting[s] # AnyChild
      BY <1>2, <1>5, <3>1 DEF ChildWaiters
    <3> QED
      BY <3>2, <3>3 DEF Matches
  <2> QED
    BY <2>1, <2>2
<1>6. WaitInv(state', pid, ppid, waiting', k)
  <2>1. \A s \in Slots : state'[s] \in {"Ready", "Blocked"} => state[s] \in {"Ready", "Blocked"}
    BY <1>2
  <2> QED
    BY <1>2, <1>5, <2>1 DEF WaitInv
<1>7. state'[current] \in {"Ready", "Zombie"}
  BY <1>1, <1>2 DEF IInv
<1> QED
  BY <1>4, <1>6, <1>7

LEMMA TickInv == IInv /\ tick => IInv'
<1> SUFFICES ASSUME IInv, tick PROVE IInv'
  OBVIOUS
<1> DEFINE handler == [cpu EXCEPT !.pc = "irq"]
           all == [Aged(kctx) EXCEPT ![current] = handler]
<1>1. /\ TypeOK /\ current \in Slots /\ CtxOK(cpu)
      /\ Contexts(kctx) /\ Contexts(Aged(kctx))
  <2>1. TypeOK /\ current \in Slots /\ CtxOK(cpu) /\ Contexts(kctx)
    <3> HIDE DEF CtxOK
    <3> QED
      BY DEF IInv, TypeOK, Contexts
  <2> QED
    BY <2>1, AgedType
<1>2. TypeOK'
  BY <1>1, TypeInterrupt DEF Interrupt
<1>3. CtxOK(handler) /\ handler.pc = "irq"
  BY <1>1 DEF CtxOK, Context, Pcs
<1>4. WaitInv(state, pid, ppid, waiting, all)
  <2>1. all[current].pc = "irq"
    BY <1>1, <1>3 DEF Contexts
  <2>2. \A s \in Slots : s # current => all[s] = Aged(kctx)[s] /\ Ctxs[s] = kctx[s]
    BY <1>1 DEF Contexts, Ctxs
  <2>3. \A s \in Slots : /\ Aged(kctx)[s].pc = kctx[s].pc
                         /\ kctx[s].pc = "wait" => Aged(kctx)[s] = kctx[s]
    BY <1>1, AgedType
  <2> HIDE DEF all
  <2>4. \A s \in Slots : all[s].pc = "wait" => all[s] = Ctxs[s]
    BY <2>1, <2>2, <2>3
  <2>5. all[0].pc \in {"user", "irq"}
    <3>1. 0 \in Slots
      BY SchedulerAssumption DEF Slots
    <3> QED
      BY <2>1, <2>2, <2>3, <3>1 DEF IInv, WaitInv
  <2> QED
    BY <2>4, <2>5 DEF IInv, WaitInv
<1>5. /\ PidInv(state', pid, ppid, next_pid)
      /\ WaitInv(state', pid, ppid, waiting', all)
      /\ state'[current] \in {"Ready", "Zombie"}
  BY <1>4, DeliverInv DEF tick, IInv
<1>6. UNCHANGED <<pid, ppid, next_pid>>
  BY DEF tick
<1>7. CASE phase' = 0
  <2>1. schedule(state', Aged(kctx), handler)
    BY <1>7 DEF tick
  <2>2. state' \in [Slots -> States] /\ state'[0] = "Ready"
    BY <1>2, <1>5 DEF TypeOK, States, PidInv
  <2> HIDE DEF handler
  <2>3. Ctxs' = all /\ state'[current'] = "Ready"
    BY <1>1, <1>3, <2>1, <2>2, ScheduleCtxs
  <2> HIDE DEF all, Ctxs
  <2> QED
    BY <1>2, <1>5, <1>6, <2>3, ResumedInv
<1>8. CASE phase' # 0
  <2>1. Ctxs' = all /\ current' = current /\ cpu'.pc = "irq"
    BY <1>3, <1>8 DEF tick, Ctxs
  <2> HIDE DEF all, Ctxs
  <2> QED
    BY <1>2, <1>5, <1>6, <2>1 DEF IInv
<1> QED
  BY <1>7, <1>8

\* An exit preserves the invariant: whoever waits for the task is woken.
LEMMA ExitInv == IInv /\ current # 0 /\ exit_current => IInv'
<1> SUFFICES ASSUME IInv, current # 0, exit_current PROVE IInv'
  OBVIOUS
<1> DEFINE closed == CloseEnds(pool, ReadRefs(fds, {current}), WriteRefs(fds, {current}))
           dead   == [state EXCEPT ![current] = "Zombie"]
           wake   == ChildWaiters(dead, pid[current], ppid[current])
           woken  == Wake(dead, wake)
           all    == [kctx EXCEPT ![current] = DeadCtx]
<1>1. /\ current \in Slots /\ state \in [Slots -> States]
      /\ Contexts(kctx) /\ 0 \in Slots /\ UserSlots \subseteq Slots
  <2>1. current \in Slots /\ state \in [Slots -> States] /\ Contexts(kctx)
    BY DEF IInv, TypeOK, Contexts, States
  <2> QED
    BY <2>1, SchedulerAssumption DEF Slots, UserSlots
<1>2. TypeOK'
  BY ExitType DEF IInv
<1>3. /\ state' = Wake(woken, {pipe_waiter[p] : p \in ClosedPipes(closed)})
      /\ waiting' = NotWaiting(wake)
      /\ schedule(state', kctx, DeadCtx)
      /\ UNCHANGED <<pid, ppid, next_pid>>
  BY DEF exit_current, wake_pipe_waiters
<1>4. dead \in [Slots -> States] /\ woken \in [Slots -> States]
  BY <1>1, WakeType DEF States
<1>5. PidInv(woken, pid, ppid, next_pid)
  <2>1. PidInv(dead, pid, ppid, next_pid)
    BY <1>1 DEF IInv, PidInv
  <2> QED
    BY <1>4, <2>1, WakeInv
<1>6. /\ all[0] = Ctxs[0]
      /\ \A s \in Slots : all[s].pc = "wait" => s # current /\ all[s] = Ctxs[s]
  BY <1>1 DEF Contexts, Ctxs, DeadCtx
<1>7. \A s \in Slots :
        /\ s # current /\ woken[s] \in {"Ready", "Blocked"} => state[s] \in {"Ready", "Blocked"}
        /\ woken[s] = "Blocked" => /\ s # current /\ state[s] = "Blocked"
                                  /\ s \notin wake /\ waiting'[s] = waiting[s]
        /\ woken[s] = "Zombie" => s = current \/ state[s] = "Zombie"
  BY <1>1, <1>3 DEF Wake, NotWaiting
<1>8. ASSUME NEW s \in Slots, woken[s] = "Blocked"
      PROVE  waiting[s] # pid[current] /\ ~(waiting[s] = AnyChild /\ pid[s] = ppid[current])
  BY <1>1, <1>7, <1>8 DEF ChildWaiters
<1> HIDE DEF dead, wake, woken, all, closed, Ctxs
<1>9. WaitInv(woken, pid, ppid, waiting', all)
  <2>1. ASSUME NEW s \in Slots, NEW z \in UserSlots, woken[s] = "Blocked", all[s].pc = "wait",
               woken[z] = "Zombie", ppid[z] = pid[s]
        PROVE  ~Matches(all[s].arg, pid[z])
    <3>1. state[s] = "Blocked" /\ all[s] = Ctxs[s] /\ waiting[s] = Ctxs[s].arg
      BY <1>6, <1>7, <2>1 DEF IInv, WaitInv
    <3>2. CASE z = current
      BY <1>8, <2>1, <3>1, <3>2 DEF Matches
    <3>3. CASE z # current
      BY <1>1, <1>7, <2>1, <3>1, <3>3 DEF IInv, WaitInv
    <3> QED
      BY <3>2, <3>3
  <2> QED
    BY <1>6, <1>7, <2>1 DEF IInv, WaitInv
<1>10. /\ PidInv(state', pid, ppid, next_pid)
       /\ WaitInv(state', pid, ppid, waiting', all)
  BY <1>3, <1>4, <1>5, <1>9, WakeInv
<1>11. state' \in [Slots -> States] /\ state'[0] = "Ready"
  BY <1>2, <1>10 DEF TypeOK, States, PidInv
<1>12. Ctxs' = all /\ state'[current'] = "Ready"
  BY <1>1, <1>3, <1>11, UserCtxType, ScheduleCtxs DEF all
<1> QED
  BY <1>2, <1>3, <1>10, <1>12, ResumedInv

LEMMA InterruptInv == IInv /\ Interrupt => IInv'
<1> SUFFICES ASSUME IInv, Interrupt PROVE IInv'
  OBVIOUS
<1> USE DEF taskVars, cpuVars, irqVars, ipcVars, ttyVars
<1>1. TypeOK'
  BY TypeInterrupt DEF IInv
<1>2. CASE tick
  BY <1>2, TickInv
<1>3. CASE TimerReturn
  <2>1. cpu'.pc = "user"
    BY <1>3 DEF TimerReturn, Return, UserCtx
  <2> QED
    BY <1>1, <1>3, <2>1, QuietInv DEF TimerReturn
<1>4. CASE SerialIrq
  BY <1>1, <1>4, WokenInv DEF SerialIrq, wake_tty_waiter
<1>5. CASE KeyboardIrq
  BY <1>1, <1>5, WokenInv DEF KeyboardIrq, wake_tty_waiter
<1> QED
  BY <1>2, <1>3, <1>4, <1>5 DEF Interrupt

\* A fork preserves the invariant: the child's pid is new, and larger than its
\* parent's.
LEMMA ForkInv == IInv /\ sys_fork => IInv'
<1> SUFFICES ASSUME IInv, sys_fork PROVE IInv'
  OBVIOUS
<1>1. TypeOK'
  BY TypeSyscall DEF IInv, Syscall
<1>2. PICK c \in UserSlots :
        /\ Vacant(c)
        /\ state'   = [state   EXCEPT ![c] = "Ready"]
        /\ pid'     = [pid     EXCEPT ![c] = next_pid]
        /\ ppid'    = [ppid    EXCEPT ![c] = pid[current]]
        /\ waiting' = [waiting EXCEPT ![c] = 0]
        /\ kctx'    = [kctx    EXCEPT ![c] = UserCtx(next_pid)]
        /\ next_pid' = next_pid + 1
  BY DEF sys_fork, spawn_fork, IsVacantSlot
<1>3. cpu.pc = "user" /\ UNCHANGED <<current, cpu>>
  BY DEF sys_fork, Calls
<1>4. /\ current \in Slots /\ c \in Slots /\ c # 0 /\ 0 \in Slots /\ UserSlots \subseteq Slots
      /\ state \in [Slots -> States] /\ DOMAIN pid = Slots /\ DOMAIN ppid = Slots
      /\ DOMAIN kctx = Slots /\ DOMAIN waiting = Slots /\ next_pid \in Nat
  <2>1. /\ current \in Slots /\ state \in [Slots -> States] /\ DOMAIN pid = Slots
        /\ DOMAIN ppid = Slots /\ DOMAIN kctx = Slots /\ DOMAIN waiting = Slots
        /\ next_pid \in 1 .. MaxPid + 1
    BY DEF IInv, TypeOK, States
  <2> QED
    BY <2>1, SchedulerAssumption DEF Slots, UserSlots
<1>5. state[current] # "None" /\ pid[current] \in Nat /\ pid[current] < next_pid
  BY <1>4 DEF IInv, PidInv
<1>6. PidInv(state', pid', ppid', next_pid')
  <2>1. state'[0] = "Ready" /\ pid'[0] = 0
    BY <1>2, <1>4 DEF IInv, PidInv
  <2>2. \A s \in Slots : state'[s] # "None" => pid'[s] \in Nat /\ pid'[s] < next_pid'
    BY <1>2, <1>4 DEF IInv, PidInv
  <2>3. \A s \in UserSlots : state'[s] # "None" => ppid'[s] \in Nat /\ ppid'[s] < pid'[s]
    BY <1>2, <1>4, <1>5 DEF IInv, PidInv
  <2>4. ASSUME NEW s \in Slots, NEW t \in Slots, s # t, state'[s] # "None", state'[t] # "None"
        PROVE  pid'[s] # pid'[t]
    BY <1>2, <1>4, <2>4 DEF IInv, PidInv
  <2> QED
    BY <2>1, <2>2, <2>3, <2>4 DEF PidInv
<1>7. Ctxs'[c].pc = "user" /\ \A s \in Slots : s # c => Ctxs'[s] = Ctxs[s]
  BY <1>2, <1>3, <1>4 DEF Ctxs, UserCtx
<1> HIDE DEF Ctxs
<1>8. \A s \in Slots : s # c =>
        state'[s] = state[s] /\ pid'[s] = pid[s] /\ ppid'[s] = ppid[s] /\ waiting'[s] = waiting[s]
  BY <1>2, <1>4
<1>9. state'[c] = "Ready"
  BY <1>2, <1>4
<1>10. WaitInv(state', pid', ppid', waiting', Ctxs')
  BY <1>4, <1>7, <1>8, <1>9 DEF IInv, WaitInv
<1>11. state'[current'] \in {"Ready", "Zombie"}
  BY <1>2, <1>3, <1>4 DEF IInv
<1> QED
  BY <1>1, <1>3, <1>6, <1>10, <1>11 DEF IInv

\* A call of schedule() by a task that stays Ready preserves the invariant.
LEMMA YieldInv ==
  ASSUME IInv, TypeOK', schedule(state, kctx, cpu),
         UNCHANGED <<state, pid, ppid, waiting, next_pid>>
  PROVE  IInv'
<1>1. /\ current \in Slots /\ state \in [Slots -> States] /\ state[0] = "Ready"
      /\ Contexts(kctx) /\ CtxOK(cpu)
  BY DEF IInv, TypeOK, Contexts, States, PidInv
<1>2. Ctxs' = Ctxs /\ state'[current'] = "Ready"
  BY <1>1, ScheduleCtxs DEF Ctxs
<1> HIDE DEF Ctxs
<1> QED
  BY <1>2, ResumedInv DEF IInv

LEMMA SyscallInv == IInv /\ Syscall => IInv'
<1> SUFFICES ASSUME IInv, Syscall PROVE IInv'
  OBVIOUS
<1> USE DEF taskVars, cpuVars, irqVars, ipcVars, ttyVars
<1>0. TypeOK'
  BY TypeSyscall DEF IInv
<1>1. CASE sys_fork
  BY <1>1, ForkInv
<1>2. CASE sys_exit
  BY <1>2, ExitInv DEF sys_exit, Calls
<1>3. CASE sys_wait4
  <2>1. cpu'.me = pid[current]
    BY <1>3 DEF sys_wait4, IInv, TypeOK, CtxOK, Context
  <2> QED
    BY <1>0, <1>3, <2>1, QuietInv DEF sys_wait4, Calls
<1>4. CASE sys_yield
  BY <1>0, <1>4, YieldInv DEF sys_yield
<1>5. ASSUME NEW pc \in {"tty", "pipe", "sleep"}, NEW arg, EnterLoop(pc, arg), current # 0
      PROVE  IInv'
  <2>1. cpu'.pc # "wait"
    BY <1>5 DEF EnterLoop, IInv, TypeOK, CtxOK, Context
  <2> QED
    BY <1>0, <1>5, <2>1, QuietInv DEF EnterLoop
<1>6. CASE sys_nanosleep
  BY <1>5, <1>6 DEF sys_nanosleep, Calls
<1>7. ASSUME NEW target \in 0 .. MaxPid, NEW sig \in KillSigs, sys_kill(target, sig) PROVE IInv'
  <2>1. CASE exit_current
    BY <1>7, <2>1, ExitInv DEF sys_kill, Calls
  <2>2. CASE /\ raise_signal_to_pid(target, sig)
             /\ UNCHANGED <<pid, ppid, waiting, fds, cpuVars, next_pid, irqVars, ipcVars, ttyVars>>
    BY <1>0, <2>2, WokenInv DEF raise_signal_to_pid
  <2> QED
    BY <1>7, <2>1, <2>2 DEF sys_kill
<1>8. ASSUME cpu.pc = "user", UNCHANGED <<state, pid, ppid, waiting, kctx, current, cpu, next_pid>>
      PROVE  IInv'
  BY <1>0, <1>8, QuietInv
<1>9. CASE sys_pipe
  BY <1>8, <1>9 DEF sys_pipe, Calls
<1>10. CASE sys_socketpair
  BY <1>8, <1>10 DEF sys_socketpair, Calls
<1>11. ASSUME NEW f \in Handles, sys_dup(f) PROVE IInv'
  BY <1>8, <1>11 DEF sys_dup, Calls
<1>12. ASSUME NEW f \in Handles, NEW g \in Handles, sys_dup2(f, g) PROVE IInv'
  BY <1>8, <1>12 DEF sys_dup2, Calls
<1>13. ASSUME NEW f \in Handles, sys_close(f) PROVE IInv'
  BY <1>0, <1>13, WokenInv DEF sys_close, wake_pipe_waiters
<1>14. ASSUME NEW f \in Handles, sys_read(f) PROVE IInv'
  BY <1>5, <1>14 DEF sys_read, Calls
<1>15. ASSUME NEW f \in Handles, sys_write(f) PROVE IInv'
  BY <1>0, <1>15, WokenInv DEF sys_write, wake_pipe_waiters
<1> QED
  BY <1>1, <1>2, <1>3, <1>4, <1>6, <1>7, <1>9, <1>10, <1>11, <1>12, <1>13, <1>14, <1>15 DEF Syscall

\* A step that blocks the running task and calls schedule() preserves the
\* invariant; a task that blocks in waitpid must have recorded its target and
\* found no zombie to reap.
LEMMA BlockInv ==
  ASSUME IInv, TypeOK', UNCHANGED <<pid, ppid, next_pid>>,
         cpu.pc \notin {"user", "irq"},
         state' = [state EXCEPT ![current] = "Blocked"],
         schedule(state', kctx, cpu),
         \A s \in Slots : s # current => waiting'[s] = waiting[s],
         cpu.pc = "wait" => /\ waiting'[current] = cpu.arg
                            /\ ZombieChildren(cpu.me, cpu.arg) = {}
  PROVE  IInv'
<1>1. /\ current \in Slots /\ state \in [Slots -> States]
      /\ Contexts(kctx) /\ CtxOK(cpu) /\ 0 \in Slots /\ UserSlots \subseteq Slots
  <2>1. current \in Slots /\ state \in [Slots -> States] /\ Contexts(kctx) /\ CtxOK(cpu)
    <3> HIDE DEF CtxOK
    <3> QED
      BY DEF IInv, TypeOK, Contexts, States
  <2> QED
    BY <2>1, SchedulerAssumption DEF Slots, UserSlots
<1>2. state' \in [Slots -> States] /\ state'[0] = "Ready"
  <2>1. current # 0
    BY <1>1 DEF Ctxs, IInv, WaitInv, Contexts
  <2> QED
    BY <1>1, <2>1 DEF States, IInv, PidInv
<1>3. PidInv(state', pid', ppid', next_pid')
  <2>1. \A s \in Slots : state'[s] # "None" => state[s] # "None"
    BY <1>1 DEF IInv
  <2> QED
    BY <1>1, <1>2, <2>1 DEF IInv, PidInv
<1>4. Ctxs' = Ctxs /\ state'[current'] = "Ready"
  <2>1. Ctxs' = [kctx EXCEPT ![current] = cpu] /\ state'[current'] = "Ready"
    BY <1>1, <1>2, ScheduleCtxs
  <2> QED
    BY <2>1 DEF Ctxs
<1>5. Ctxs[current] = cpu
  BY <1>1 DEF Ctxs, Contexts
<1> HIDE DEF Ctxs
<1>6. /\ \A s \in Slots : s # current => state'[s] = state[s]
      /\ state'[current] = "Blocked" /\ state[current] # "Blocked"
  BY <1>1 DEF IInv
<1>7. ASSUME NEW s \in Slots, NEW z \in UserSlots, state'[s] = "Blocked", Ctxs[s].pc = "wait",
             state'[z] = "Zombie", ppid[z] = pid[s]
      PROVE  ~Matches(Ctxs[s].arg, pid[z])
  <2>1. state[z] = "Zombie"
    BY <1>1, <1>6, <1>7
  <2>2. CASE s = current
    <3>1. cpu.me = pid[current] /\ ZombieChildren(cpu.me, cpu.arg) = {}
      BY <1>5, <1>7, <2>2 DEF IInv
    <3> QED
      BY <1>5, <1>7, <2>1, <2>2, <3>1 DEF ZombieChildren
  <2>3. CASE s # current
    BY <1>6, <1>7, <2>1, <2>3 DEF IInv, WaitInv
  <2> QED
    BY <2>2, <2>3
<1>8. WaitInv(state', pid, ppid, waiting', Ctxs)
  <2>1. \A s \in Slots : state'[s] \in {"Ready", "Blocked"} /\ Ctxs[s].pc = "wait" => Ctxs[s].me = pid[s]
    BY <1>5, <1>6 DEF IInv, WaitInv
  <2>2. \A s \in Slots : state'[s] = "Blocked" /\ Ctxs[s].pc = "wait" => waiting'[s] = Ctxs[s].arg
    BY <1>5, <1>6 DEF IInv, WaitInv
  <2> QED
    BY <1>7, <2>1, <2>2 DEF IInv, WaitInv
<1> QED
  BY <1>3, <1>4, <1>8, ResumedInv

\* waitpid's reaping preserves the invariant: a child's pid is larger than
\* its parent's, so the slot it empties is not its own.
LEMMA ReapInv == IInv /\ Reap => IInv'
<1> SUFFICES ASSUME IInv, Reap PROVE IInv'
  OBVIOUS
<1>1. TypeOK'
  BY TypeKernelLoop DEF IInv, KernelLoop
<1>2. PICK z \in ZombieChildren(cpu.me, cpu.arg) :
        /\ state'   = [state   EXCEPT ![z] = "None"]
        /\ pid'     = [pid     EXCEPT ![z] = NoPid]
        /\ ppid'    = [ppid    EXCEPT ![z] = NoPid]
        /\ waiting' = [waiting EXCEPT ![z] = 0]
        /\ kctx'    = [kctx    EXCEPT ![z] = DeadCtx]
  BY DEF Reap
<1>3. /\ cpu.pc = "wait" /\ UNCHANGED <<current, next_pid>> /\ cpu'.pc = "user"
  BY DEF Reap, Return, UserCtx
<1>4. z \in UserSlots /\ state[z] = "Zombie" /\ ppid[z] = cpu.me
  BY DEF ZombieChildren
<1>5. /\ current \in Slots /\ z \in Slots /\ z # 0 /\ 0 \in Slots /\ UserSlots \subseteq Slots
      /\ state \in [Slots -> States] /\ DOMAIN pid = Slots /\ DOMAIN ppid = Slots
      /\ DOMAIN kctx = Slots /\ DOMAIN waiting = Slots
  <2>1. /\ current \in Slots /\ state \in [Slots -> States] /\ DOMAIN pid = Slots
        /\ DOMAIN ppid = Slots /\ DOMAIN kctx = Slots /\ DOMAIN waiting = Slots
    BY DEF IInv, TypeOK, States
  <2> QED
    BY <1>4, <2>1, SchedulerAssumption DEF Slots, UserSlots
<1>6. z # current
  <2>1. cpu.me = pid[current]
    BY <1>3 DEF IInv
  <2>2. pid[z] \in Nat /\ ppid[z] \in Nat /\ ppid[z] < pid[z]
    BY <1>4, <1>5 DEF IInv, PidInv
  <2> QED
    BY <1>4, <2>1, <2>2
<1>7. /\ state'[z] = "None"
      /\ \A s \in Slots : s # z => /\ state'[s] = state[s] /\ pid'[s] = pid[s]
                                   /\ ppid'[s] = ppid[s] /\ waiting'[s] = waiting[s]
  BY <1>2, <1>5
<1>8. PidInv(state', pid', ppid', next_pid')
  BY <1>3, <1>5, <1>7 DEF IInv, PidInv
<1>9. /\ Ctxs'[current].pc = "user" 
      /\ \A s \in Slots : s # z /\ s # current => Ctxs'[s] = Ctxs[s]
  BY <1>2, <1>3, <1>5, <1>6 DEF Ctxs
<1> HIDE DEF Ctxs
<1>10. WaitInv(state', pid', ppid', waiting', Ctxs')
  BY <1>5, <1>7, <1>9 DEF IInv, WaitInv
<1>11. state'[current'] \in {"Ready", "Zombie"}
  BY <1>3, <1>5, <1>6, <1>7 DEF IInv
<1> QED
  BY <1>1, <1>3, <1>8, <1>10, <1>11 DEF IInv

LEMMA KernelLoopInv == IInv /\ KernelLoop => IInv'
<1> SUFFICES ASSUME IInv, KernelLoop PROVE IInv'
  OBVIOUS
<1> USE DEF taskVars, cpuVars, irqVars, ipcVars, ttyVars
<1>0. TypeOK'
  BY TypeKernelLoop DEF IInv
<1>1. ASSUME cpu' = Return(cpu), UNCHANGED <<state, pid, ppid, waiting, kctx, current, next_pid>>
      PROVE  IInv'
  <2>1. cpu'.pc = "user"
    BY <1>1 DEF Return, UserCtx
  <2> QED
    BY <1>0, <1>1, <2>1, QuietInv
<1>2. ASSUME cpu.pc \in {"pipe", "tty"}, state' = [state EXCEPT ![current] = "Blocked"],
             schedule(state', kctx, cpu), UNCHANGED <<pid, ppid, waiting, next_pid>>
      PROVE  IInv'
  BY <1>0, <1>2, BlockInv
<1>3. CASE Reap
  BY <1>3, ReapInv
<1>4. CASE WaitReturns
  BY <1>1, <1>4 DEF WaitReturns
<1>5. CASE WaitBlocks
  <2>1. current \in Slots /\ DOMAIN waiting = Slots
    BY DEF IInv, TypeOK
  <2>2. waiting'[current] = cpu.arg /\ \A s \in Slots : s # current => waiting'[s] = waiting[s]
    BY <1>5, <2>1 DEF WaitBlocks
  <2> QED
    BY <1>0, <1>5, <2>2, BlockInv DEF WaitBlocks
<1>6. CASE PipeReadTakes
  BY <1>1, <1>6 DEF PipeReadTakes
<1>7. CASE PipeReadEof
  BY <1>1, <1>7 DEF PipeReadEof
<1>8. CASE PipeReadBlocks
  BY <1>2, <1>8 DEF PipeReadBlocks, block_on_pipe
<1>9. CASE TtyReadSerial
  BY <1>1, <1>9 DEF TtyReadSerial
<1>10. CASE TtyReadKey
  <2>1. CASE cpu' = Return(cpu) /\ UNCHANGED <<state, kctx, current, tty_waiter>>
    BY <1>1, <1>10, <2>1 DEF TtyReadKey
  <2>2. CASE UNCHANGED <<state, cpuVars, tty_waiter>>
    <3>1. current # 0
      BY <1>10 DEF TtyReadKey, IInv, TypeOK, WaitInv, Ctxs
    <3> QED
      BY <1>0, <1>10, <2>2, <3>1, QuietInv DEF TtyReadKey
  <2>3. CASE block_on_tty
    BY <1>2, <1>10, <2>3 DEF TtyReadKey, block_on_tty
  <2> QED
    BY <1>10, <2>1, <2>2, <2>3 DEF TtyReadKey
<1>11. CASE TtyReadBlocks
  BY <1>2, <1>11 DEF TtyReadBlocks, block_on_tty
<1>12. CASE sleep_ticks
  <2>1. CASE cpu.arg = 0
    BY <1>1, <1>12, <2>1 DEF sleep_ticks
  <2>2. CASE cpu.arg # 0
    BY <1>0, <1>12, <2>2, YieldInv DEF sleep_ticks
  <2> QED
    BY <2>1, <2>2
<1> QED
  BY <1>3, <1>4, <1>5, <1>6, <1>7, <1>8, <1>9, <1>10, <1>11, <1>12 DEF KernelLoop

LEMMA InvNext == IInv /\ [Next]_vars => IInv'
<1> SUFFICES ASSUME IInv, [Next]_vars PROVE IInv'
  OBVIOUS
<1>1. CASE Next
  BY <1>1, InterruptInv, SyscallInv, KernelLoopInv DEF Next
<1>2. CASE UNCHANGED vars
  <2>1. TypeOK'
    BY <1>2, TypeNext DEF IInv
  <2>2. UNCHANGED <<state, pid, ppid, waiting, kctx, current, cpu, next_pid>>
    BY <1>2 DEF vars, taskVars, cpuVars
  <2>3. Ctxs' = Ctxs
    BY <2>2 DEF Ctxs
  <2> QED
    BY <2>1, <2>2, <2>3 DEF IInv
<1> QED
  BY <1>1, <1>2

\* What the inductive invariant says of the tasks that are not running.
LEMMA InvImplies ==
  IInv => CurrentRunnable /\ PidsUnique /\ NoMissedExit /\ CurPidStable
<1> SUFFICES ASSUME IInv PROVE CurrentRunnable /\ PidsUnique /\ NoMissedExit /\ CurPidStable
  OBVIOUS
<1>1. UserSlots \subseteq Slots
  BY SchedulerAssumption DEF Slots, UserSlots
<1>2. \A s \in Slots : s # current => Ctxs[s] = kctx[s]
  BY DEF IInv, TypeOK, Ctxs
<1> HIDE DEF Ctxs
<1>3. CurrentRunnable
  BY DEF IInv, PidInv, CurrentRunnable
<1>4. PidsUnique
  BY DEF IInv, PidInv, PidsUnique
<1>5. NoMissedExit
  <2> SUFFICES ASSUME NEW s \in UserSlots, NEW z \in UserSlots, BlockedInWait(s),
                      state[z] = "Zombie", ppid[z] = pid[s]
               PROVE  ~Matches(kctx[s].arg, pid[z])
    BY DEF NoMissedExit
  <2>1. s # current /\ Ctxs[s] = kctx[s]
    BY <1>1, <1>2 DEF BlockedInWait, IInv
  <2> QED
    BY <1>1, <2>1 DEF IInv, WaitInv, BlockedInWait
<1>6. CurPidStable
  BY <1>1, <1>2 DEF IInv, WaitInv, CurPidStable, Alive
<1> QED
  BY <1>3, <1>4, <1>5, <1>6

LEMMA InvCorrect == Spec => []IInv
  BY InvInit, InvNext, PTL DEF Spec

\* In every reachable state CURRENT names a task of the table that is not
\* blocked, and the idle task is Ready: the unwrap()s of TASKS[CURRENT] and
\* schedule()'s fallback to slot 0 are safe.
THEOREM CurrentRunnableCorrect == Spec => []CurrentRunnable
  BY InvCorrect, InvImplies, PTL

\* No two tasks of the table ever share a pid, zombies included, whatever the
\* order of forks, exits and waits.
THEOREM PidsUniqueCorrect == Spec => []PidsUnique
  BY InvCorrect, InvImplies, PTL

\* A task never sleeps in waitpid while a zombie that it waits for is in the
\* table, however the zombie died.
THEOREM NoMissedExitCorrect == Spec => []NoMissedExit
  BY InvCorrect, InvImplies, PTL

\* The cur_pid that waitpid reads before its loop stays the pid of the slot it
\* runs in.
THEOREM CurPidStableCorrect == Spec => []CurPidStable
  BY InvCorrect, InvImplies, PTL

-----------------------------------------------------------------------------
(***************************************************************************)
(* What a step does with one task.  A task that is not running keeps its   *)
(* context, but for the time a sleeper has left; only the running task     *)
(* goes to sleep, in one of three loops; and a slot changes hands only     *)
(* when it is empty or holds a zombie.                                     *)
(***************************************************************************)
Rests(c, d) == d.prog = c.prog /\ d.pc = c.pc /\ (c.pc # "sleep" => d = c)

Stays(s) ==
  /\ pid'[s] = pid[s]
  /\ \/ state'[s] = state[s]
     \/ state[s] \in {"Ready", "Blocked"} /\ state'[s] \in {"Ready", "Zombie"}
     \/ s = current /\ state'[s] = "Blocked" /\ cpu.pc \in {"wait", "pipe", "tty"} /\ Ctxs'[s] = cpu
  /\ s # current => Rests(Ctxs[s], Ctxs'[s])
  /\ state'[s] \in {"Ready", "Blocked"} => Ctxs'[s].prog = Ctxs[s].prog

Born(s) ==
  /\ state[s] \in {"None", "Zombie"} /\ state'[s] = "Ready"
  /\ pid'[s] = next_pid /\ Ctxs'[s].pc = "user"
  /\ s # current => Ctxs'[s].prog = next_pid

Reaped(s) == s # current /\ state[s] = "Zombie" /\ state'[s] = "None" /\ Ctxs'[s].pc = "dead"

\* A step of the CPU other than a tick.
Shape ==
  /\ \A s \in Slots : Stays(s) \/ Born(s) \/ Reaped(s)
  /\ \A s \in Slots : Ctxs'[s].pc = "irq" => Ctxs[s].pc = "irq"
  /\ \/ current' = current /\ (state'[current] = state[current] \/ state'[current] = "Ready")
     \/ state'[current'] = "Ready"

LEMMA CtxsOf ==
  ASSUME TypeOK
  PROVE  /\ Ctxs[current] = cpu /\ current \in Slots
         /\ \A s \in Slots : s # current => Ctxs[s] = kctx[s]
         /\ state \in [Slots -> States] /\ Contexts(kctx) /\ CtxOK(cpu)
         /\ 0 \in Slots /\ UserSlots \subseteq Slots /\ 0 \notin UserSlots
<1>1. /\ DOMAIN kctx = Slots /\ current \in Slots
      /\ state \in [Slots -> States] /\ Contexts(kctx) /\ CtxOK(cpu)
  <2> HIDE DEF CtxOK
  <2> QED
    BY DEF TypeOK, Contexts, States
<1> QED
  BY <1>1, SchedulerAssumption DEF Ctxs, Slots, UserSlots

LEMMA QuietShape ==
  ASSUME IInv, UNCHANGED <<state, pid, kctx, current>>,
         cpu'.prog = cpu.prog, cpu'.pc # "irq" \/ cpu'.pc = cpu.pc
  PROVE  Shape
<1>1. Ctxs' = [Ctxs EXCEPT ![current] = cpu'] /\ DOMAIN Ctxs = Slots /\ Ctxs[current] = cpu
      /\ current \in Slots
  BY DEF Ctxs, IInv, TypeOK
<1> HIDE DEF Ctxs
<1>2. \A s \in Slots : s # current => Ctxs'[s] = Ctxs[s]
  BY <1>1
<1>3. Ctxs'[current] = cpu'
  BY <1>1
<1> QED
  BY <1>1, <1>2, <1>3 DEF Shape, Stays, Rests

LEMMA WokenShape ==
  ASSUME IInv, NEW S, state' = Wake(state, S), UNCHANGED <<pid, kctx, current, cpu>>
  PROVE  Shape
<1>1. state \in [Slots -> States] /\ current \in Slots /\ Ctxs' = Ctxs
  BY CtxsOf DEF IInv, Ctxs
<1>2. \A s \in Slots : state'[s] = state[s] \/ (state[s] = "Blocked" /\ state'[s] = "Ready")
  BY DEF Wake
<1> HIDE DEF Ctxs
<1> QED
  BY <1>1, <1>2 DEF Shape, Stays, Rests

LEMMA YieldShape ==
  ASSUME IInv, schedule(state, kctx, cpu), UNCHANGED <<state, pid>>
  PROVE  Shape
<1>1. /\ current \in Slots /\ state \in [Slots -> States] /\ state[0] = "Ready"
      /\ Contexts(kctx) /\ CtxOK(cpu)
  BY CtxsOf DEF IInv, PidInv
<1>2. Ctxs' = Ctxs /\ state'[current'] = "Ready"
  BY <1>1, ScheduleCtxs DEF Ctxs
<1> HIDE DEF Ctxs
<1> QED
  BY <1>2 DEF Shape, Stays, Rests

LEMMA BlockShape ==
  ASSUME IInv, UNCHANGED pid, cpu.pc \in {"wait", "pipe", "tty"},
         state' = [state EXCEPT ![current] = "Blocked"], schedule(state', kctx, cpu)
  PROVE  Shape /\ Ctxs' = Ctxs
<1>1. /\ Ctxs[current] = cpu /\ current \in Slots /\ state \in [Slots -> States]
      /\ Contexts(kctx) /\ CtxOK(cpu) /\ 0 \in Slots
  BY CtxsOf DEF IInv
<1>2. current # 0
  BY <1>1 DEF IInv, WaitInv
<1>3. state' \in [Slots -> States] /\ state'[0] = "Ready"
  BY <1>1, <1>2 DEF States, IInv, PidInv
<1>4. Ctxs' = Ctxs /\ state'[current'] = "Ready"
  <2>1. Ctxs' = [kctx EXCEPT ![current] = cpu] /\ state'[current'] = "Ready"
    BY <1>1, <1>3, ScheduleCtxs
  <2> QED
    BY <2>1 DEF Ctxs
<1>5. state'[current] = "Blocked" /\ \A s \in Slots : s # current => state'[s] = state[s]
  BY <1>1
<1> HIDE DEF Ctxs
<1> QED
  BY <1>1, <1>4, <1>5 DEF Shape, Stays, Rests

LEMMA ReapShape ==
  ASSUME IInv, Reap PROVE Shape
<1>1. PICK z \in ZombieChildren(cpu.me, cpu.arg) :
        /\ state'   = [state   EXCEPT ![z] = "None"]
        /\ pid'     = [pid     EXCEPT ![z] = NoPid]
        /\ kctx'    = [kctx    EXCEPT ![z] = DeadCtx]
  BY DEF Reap
<1>2. cpu.pc = "wait" /\ current' = current /\ cpu' = UserCtx(cpu.prog)
  BY DEF Reap, Return
<1>3. z \in UserSlots /\ state[z] = "Zombie" /\ ppid[z] = cpu.me
  BY DEF ZombieChildren
<1>4. /\ Ctxs[current] = cpu /\ current \in Slots /\ state \in [Slots -> States]
      /\ z \in Slots /\ DOMAIN kctx = Slots /\ DOMAIN pid = Slots
  BY <1>3, CtxsOf DEF IInv, TypeOK
<1>5. z # current
  <2>1. cpu.me = pid[current]
    BY <1>2 DEF IInv
  <2>2. pid[z] \in Nat /\ ppid[z] \in Nat /\ ppid[z] < pid[z]
    BY <1>3, <1>4 DEF IInv, PidInv
  <2> QED
    BY <1>3, <2>1, <2>2
<1>6. /\ Ctxs'[current] = UserCtx(cpu.prog) /\ Ctxs'[z] = DeadCtx
      /\ \A s \in Slots : s # z /\ s # current => Ctxs'[s] = Ctxs[s]
  BY <1>1, <1>2, <1>4, <1>5 DEF Ctxs
<1> HIDE DEF Ctxs
<1>7. state'[z] = "None" /\ \A s \in Slots : s # z => state'[s] = state[s] /\ pid'[s] = pid[s]
  BY <1>1, <1>4
<1>8. Reaped(z)
  BY <1>3, <1>5, <1>6, <1>7 DEF Reaped, DeadCtx
<1>9. \A s \in Slots : s # z => Stays(s)
  BY <1>4, <1>6, <1>7 DEF Stays, Rests, UserCtx
<1> QED
  BY <1>2, <1>4, <1>5, <1>6, <1>7, <1>8, <1>9 DEF Shape, UserCtx, DeadCtx

LEMMA ForkShape ==
  ASSUME IInv, sys_fork PROVE Shape
<1>1. PICK c \in UserSlots :
        /\ Vacant(c)
        /\ state'   = [state   EXCEPT ![c] = "Ready"]
        /\ pid'     = [pid     EXCEPT ![c] = next_pid]
        /\ kctx'    = [kctx    EXCEPT ![c] = UserCtx(next_pid)]
  BY DEF sys_fork, spawn_fork, IsVacantSlot
<1>2. cpu.pc = "user" /\ UNCHANGED <<current, cpu>>
  BY DEF sys_fork, Calls
<1>3. /\ Ctxs[current] = cpu /\ current \in Slots /\ state \in [Slots -> States]
      /\ c \in Slots /\ DOMAIN kctx = Slots /\ DOMAIN pid = Slots
  BY CtxsOf DEF IInv, TypeOK
<1>4. /\ Ctxs'[current] = cpu /\ (c # current => Ctxs'[c] = UserCtx(next_pid))
      /\ \A s \in Slots : s # c => Ctxs'[s] = Ctxs[s]
  BY <1>1, <1>2, <1>3 DEF Ctxs
<1> HIDE DEF Ctxs
<1>5. state'[c] = "Ready" /\ \A s \in Slots : s # c => state'[s] = state[s] /\ pid'[s] = pid[s]
  BY <1>1, <1>3
<1>6. pid'[c] = next_pid
  BY <1>1, <1>3
<1>7. Born(c)
  BY <1>1, <1>2, <1>4, <1>5, <1>6 DEF Born, Vacant, UserCtx
<1>8. \A s \in Slots : s # c => Stays(s)
  BY <1>4, <1>5 DEF Stays, Rests
<1> QED
  BY <1>2, <1>3, <1>4, <1>5, <1>7, <1>8 DEF Shape, UserCtx, Born

LEMMA ExitShape ==
  ASSUME IInv, current # 0, exit_current PROVE Shape
<1> DEFINE closed == CloseEnds(pool, ReadRefs(fds, {current}), WriteRefs(fds, {current}))
           dead   == [state EXCEPT ![current] = "Zombie"]
           wake   == ChildWaiters(dead, pid[current], ppid[current])
           woken  == Wake(dead, wake)
<1>1. /\ Ctxs[current] = cpu /\ current \in Slots /\ state \in [Slots -> States]
      /\ Contexts(kctx) /\ 0 \in Slots
      /\ \A s \in Slots : s # current => Ctxs[s] = kctx[s]
  BY CtxsOf DEF IInv
<1>2. /\ state' = Wake(woken, {pipe_waiter[p] : p \in ClosedPipes(closed)})
      /\ schedule(state', kctx, DeadCtx)
      /\ pid' = pid
  BY DEF exit_current, wake_pipe_waiters
<1>3. dead \in [Slots -> States] /\ woken \in [Slots -> States] /\ state' \in [Slots -> States]
  BY <1>1, <1>2, WakeType DEF States
<1>4. /\ state'[current] = "Zombie"
      /\ \A s \in Slots : s # current =>
           state'[s] = state[s] \/ (state[s] = "Blocked" /\ state'[s] = "Ready")
  BY <1>1, <1>2 DEF Wake
<1>5. state'[0] = "Ready"
  BY <1>1, <1>4 DEF IInv, PidInv
<1>6. Ctxs' = [kctx EXCEPT ![current] = DeadCtx] /\ state'[current'] = "Ready"
  BY <1>1, <1>2, <1>3, <1>5, UserCtxType, ScheduleCtxs
<1>7. Ctxs'[current] = DeadCtx /\ \A s \in Slots : s # current => Ctxs'[s] = Ctxs[s]
  BY <1>1, <1>6 DEF Contexts
<1> HIDE DEF Ctxs
<1>8. state[current] \in {"Ready", "Zombie"}
  BY DEF IInv
<1>9. pid' = pid
  BY <1>2
<1> HIDE DEF dead, wake, woken, closed
<1>10. Stays(current)
  BY <1>4, <1>8, <1>9 DEF Stays
<1>11. \A s \in Slots : s # current => Stays(s)
  BY <1>4, <1>7, <1>9 DEF Stays, Rests
<1> QED
  BY <1>6, <1>7, <1>10, <1>11 DEF Shape, DeadCtx

\* A tick: the running task is in the timer handler, and the CPU goes to a
\* task that is Ready, or stays.
LEMMA TickShape ==
  ASSUME IInv, tick
  PROVE  /\ \A s \in Slots : Stays(s)
         /\ Ctxs'[current].pc = "irq"
         /\ current' = current \/ state'[current'] = "Ready"
<1> DEFINE handler == [cpu EXCEPT !.pc = "irq"]
           all == [Aged(kctx) EXCEPT ![current] = handler]
<1>1. /\ Ctxs[current] = cpu /\ current \in Slots /\ state \in [Slots -> States]
      /\ Contexts(kctx) /\ CtxOK(cpu)
      /\ \A s \in Slots : s # current => Ctxs[s] = kctx[s]
  BY CtxsOf DEF IInv
<1>2. /\ Contexts(Aged(kctx))
      /\ \A s \in Slots : Rests(kctx[s], Aged(kctx)[s])
  <2>1. /\ Contexts(Aged(kctx))
        /\ \A s \in Slots : kctx[s].pc # "sleep" => Aged(kctx)[s] = kctx[s]
        /\ \A s \in Slots : Aged(kctx)[s].pc = kctx[s].pc
    BY <1>1, AgedType
  <2>2. ASSUME NEW s \in Slots, kctx[s].pc = "sleep" PROVE Aged(kctx)[s].prog = kctx[s].prog
    BY <1>1, <2>2 DEF Aged, Contexts, CtxOK, Context
  <2> QED
    BY <2>1, <2>2 DEF Rests
<1>3. CtxOK(handler) /\ handler.pc = "irq" /\ handler.prog = cpu.prog
  BY <1>1 DEF CtxOK, Context, Pcs
<1>4. /\ all[current] = handler
      /\ \A s \in Slots : s # current => Rests(Ctxs[s], all[s])
  BY <1>1, <1>2 DEF Contexts
<1>5. IInv' /\ state' \in [Slots -> States] /\ state'[0] = "Ready" /\ pid' = pid
  <2>1. IInv'
    BY TickInv
  <2> QED
    BY <2>1 DEF IInv, TypeOK, PidInv, States, tick
<1>6. \A s \in Slots :
        \/ state'[s] = state[s]
        \/ state[s] \in {"Ready", "Blocked"} /\ state'[s] \in {"Ready", "Zombie"}
  <2>1. CASE deliver_all_signals
    <3> TAKE s \in Slots
    <3>1. WokenByDeath(s, Killed) \/ WokenByChld(s) => state[s] \in {"Ready", "Blocked"}
      BY DEF WokenByDeath, WokenByChld, ChildWaiters, Alive
    <3>2. s \in Killed => state[s] \in {"Ready", "Blocked"}
      BY DEF Killed, Alive
    <3> HIDE DEF WokenByDeath, WokenByChld, Killed
    <3> QED
      BY <2>1, <3>1, <3>2 DEF deliver_all_signals
  <2>2. CASE state' = state
    BY <2>2
  <2> QED
    BY <2>1, <2>2 DEF tick
<1>7. Ctxs' = all /\ (current' = current \/ state'[current'] = "Ready")
  <2>1. CASE phase' = 0
    <3>1. schedule(state', Aged(kctx), handler)
      BY <2>1 DEF tick
    <3> HIDE DEF handler
    <3> QED
      BY <1>1, <1>2, <1>3, <1>5, <3>1, ScheduleCtxs
  <2>2. CASE phase' # 0
    BY <2>2 DEF tick, Ctxs
  <2> QED
    BY <2>1, <2>2
<1>8. Ctxs'[current] = handler /\ \A s \in Slots : s # current => Rests(Ctxs[s], Ctxs'[s])
  BY <1>4, <1>7
<1> HIDE DEF handler, all, Ctxs
<1> QED
  BY <1>1, <1>3, <1>5, <1>6, <1>7, <1>8 DEF Stays, Rests

LEMMA SyscallShape ==
  ASSUME IInv, Syscall PROVE Shape /\ current # 0 /\ in_service' = in_service
<1> USE DEF taskVars, cpuVars, irqVars, ipcVars, ttyVars
<1>1. current # 0
  BY DEF Syscall, sys_fork, sys_exit, sys_wait4, sys_yield, sys_nanosleep, sys_kill, sys_pipe,
         sys_socketpair, sys_dup, sys_close, sys_read, sys_write, sys_dup2, Calls
<1>2. in_service' = in_service
  BY DEF Syscall, sys_fork, sys_exit, sys_wait4, sys_yield, sys_nanosleep, sys_kill, sys_pipe,
         sys_socketpair, sys_dup, sys_close, sys_read, sys_write, sys_dup2, EnterLoop, exit_current
<1> SUFFICES Shape
  BY <1>1, <1>2
<1>3. CASE sys_fork
  BY <1>3, ForkShape
<1>4. CASE sys_exit
  BY <1>1, <1>4, ExitShape DEF sys_exit
<1>5. CASE sys_wait4
  <2>1. cpu'.prog = cpu.prog /\ cpu'.pc = "wait"
    BY <1>5 DEF sys_wait4, IInv, TypeOK, CtxOK, Context
  <2> QED
    BY <1>5, <2>1, QuietShape DEF sys_wait4
<1>6. CASE sys_yield
  BY <1>6, YieldShape DEF sys_yield
<1>7. ASSUME NEW pc \in {"tty", "pipe", "sleep"}, NEW arg, EnterLoop(pc, arg) PROVE Shape
  <2>1. cpu'.prog = cpu.prog /\ cpu'.pc # "irq"
    BY <1>7 DEF EnterLoop, IInv, TypeOK, CtxOK, Context
  <2> QED
    BY <1>7, <2>1, QuietShape DEF EnterLoop
<1>8. CASE sys_nanosleep
  BY <1>7, <1>8 DEF sys_nanosleep
<1>9. ASSUME NEW target \in 0 .. MaxPid, NEW sig \in KillSigs, sys_kill(target, sig) PROVE Shape
  <2>1. CASE exit_current
    BY <1>1, <2>1, ExitShape
  <2>2. CASE /\ raise_signal_to_pid(target, sig)
             /\ UNCHANGED <<pid, ppid, waiting, fds, cpuVars, next_pid, irqVars, ipcVars, ttyVars>>
    BY <2>2, WokenShape DEF raise_signal_to_pid
  <2> QED
    BY <1>9, <2>1, <2>2 DEF sys_kill
<1>10. ASSUME UNCHANGED <<state, pid, kctx, current, cpu>> PROVE Shape
  BY <1>10, QuietShape
<1>11. CASE sys_pipe
  BY <1>10, <1>11 DEF sys_pipe
<1>12. CASE sys_socketpair
  BY <1>10, <1>12 DEF sys_socketpair
<1>13. ASSUME NEW f \in Handles, sys_dup(f) PROVE Shape
  BY <1>10, <1>13 DEF sys_dup
<1>14. ASSUME NEW f \in Handles, NEW g \in Handles, sys_dup2(f, g) PROVE Shape
  BY <1>10, <1>14 DEF sys_dup2
<1>15. ASSUME NEW f \in Handles, sys_close(f) PROVE Shape
  BY <1>15, WokenShape DEF sys_close, wake_pipe_waiters
<1>16. ASSUME NEW f \in Handles, sys_read(f) PROVE Shape
  BY <1>7, <1>16 DEF sys_read
<1>17. ASSUME NEW f \in Handles, sys_write(f) PROVE Shape
  BY <1>17, WokenShape DEF sys_write, wake_pipe_waiters
<1> QED
  BY <1>3, <1>4, <1>5, <1>6, <1>8, <1>9, <1>11, <1>12, <1>13, <1>14, <1>15, <1>16, <1>17
     DEF Syscall

LEMMA KernelLoopShape ==
  ASSUME IInv, KernelLoop PROVE Shape /\ current # 0 /\ in_service' = in_service
<1> USE DEF taskVars, cpuVars, irqVars, ipcVars, ttyVars
<1>1. cpu.pc \in {"wait", "pipe", "tty", "sleep"}
  BY DEF KernelLoop, Reap, WaitReturns, WaitBlocks, PipeReadTakes, PipeReadEof, PipeReadBlocks,
         TtyReadSerial, TtyReadKey, TtyReadBlocks, sleep_ticks
<1>2. current # 0
  <2>1. Ctxs[current] = cpu /\ Ctxs[0].pc \in {"user", "irq"}
    BY CtxsOf DEF IInv, WaitInv
  <2> QED
    BY <1>1, <2>1
<1>3. in_service' = in_service
  BY DEF KernelLoop, Reap, WaitReturns, WaitBlocks, PipeReadTakes, PipeReadEof, PipeReadBlocks,
         TtyReadSerial, TtyReadKey, TtyReadBlocks, sleep_ticks
<1> SUFFICES Shape
  BY <1>2, <1>3
<1>4. ASSUME cpu' = Return(cpu), UNCHANGED <<state, pid, kctx, current>> PROVE Shape
  BY <1>4, QuietShape DEF Return, UserCtx
<1>5. ASSUME cpu.pc \in {"pipe", "tty", "wait"}, state' = [state EXCEPT ![current] = "Blocked"],
             schedule(state', kctx, cpu), UNCHANGED pid
      PROVE  Shape
  BY <1>5, BlockShape
<1>6. CASE Reap
  BY <1>6, ReapShape
<1>7. CASE WaitReturns
  BY <1>4, <1>7 DEF WaitReturns
<1>8. CASE WaitBlocks
  BY <1>5, <1>8 DEF WaitBlocks
<1>9. CASE PipeReadTakes
  BY <1>4, <1>9 DEF PipeReadTakes
<1>10. CASE PipeReadEof
  BY <1>4, <1>10 DEF PipeReadEof
<1>11. CASE PipeReadBlocks
  BY <1>5, <1>11 DEF PipeReadBlocks, block_on_pipe
<1>12. CASE TtyReadSerial
  BY <1>4, <1>12 DEF TtyReadSerial
<1>13. CASE TtyReadKey
  <2>1. CASE cpu' = Return(cpu) /\ UNCHANGED <<state, kctx, current, tty_waiter>>
    BY <1>4, <1>13, <2>1 DEF TtyReadKey
  <2>2. CASE UNCHANGED <<state, cpuVars, tty_waiter>>
    BY <1>13, <2>2, QuietShape DEF TtyReadKey
  <2>3. CASE block_on_tty
    BY <1>5, <1>13, <2>3 DEF TtyReadKey, block_on_tty
  <2> QED
    BY <1>13, <2>1, <2>2, <2>3 DEF TtyReadKey
<1>14. CASE TtyReadBlocks
  BY <1>5, <1>14 DEF TtyReadBlocks, block_on_tty
<1>15. CASE sleep_ticks
  <2>1. CASE cpu.arg = 0
    BY <1>4, <1>15, <2>1 DEF sleep_ticks
  <2>2. CASE cpu.arg # 0
    BY <1>15, <2>2, YieldShape DEF sleep_ticks
  <2> QED
    BY <2>1, <2>2
<1> QED
  BY <1>6, <1>7, <1>8, <1>9, <1>10, <1>11, <1>12, <1>13, <1>14, <1>15 DEF KernelLoop

LEMMA InterruptShape ==
  ASSUME IInv, SerialIrq \/ KeyboardIrq \/ TimerReturn PROVE Shape
<1> USE DEF taskVars, cpuVars, irqVars, ipcVars, ttyVars
<1>1. CASE TimerReturn
  BY <1>1, QuietShape DEF TimerReturn, Return, UserCtx
<1>2. CASE SerialIrq
  BY <1>2, WokenShape DEF SerialIrq, wake_tty_waiter
<1>3. CASE KeyboardIrq
  BY <1>3, WokenShape DEF KeyboardIrq, wake_tty_waiter
<1> QED
  BY <1>1, <1>2, <1>3

\* What every step does with every task.
LEMMA EveryTask ==
  ASSUME IInv, [Next]_vars PROVE \A s \in Slots : Stays(s) \/ Born(s) \/ Reaped(s)
<1>1. CASE UNCHANGED vars
  BY <1>1, QuietShape DEF vars, taskVars, cpuVars, Shape
<1>2. CASE tick
  BY <1>2, TickShape
<1>3. CASE Next /\ ~tick
  BY <1>3, SyscallShape, KernelLoopShape, InterruptShape DEF Next, Interrupt, Shape
<1> QED
  BY <1>1, <1>2, <1>3

-----------------------------------------------------------------------------
(***************************************************************************)
(* The reader of the terminal                                              *)
(***************************************************************************)
FallsAsleepOnTty == cpu.pc = "tty" /\ state'[current] = "Blocked"

\* The input rings change in interrupts, which take the record away, and in
\* the reader's loop, which goes to sleep only when it has emptied them.
LEMMA TtyStep ==
  ASSUME IInv, Next
  PROVE  \/ UNCHANGED ttyVars /\ ~FallsAsleepOnTty
         \/ tty_waiter' = NoSlot
         \/ (serial > 0 \/ keys > 0) /\ UNCHANGED tty_waiter /\ ~FallsAsleepOnTty
         \/ serial' = 0 /\ keys' = 0
<1> USE DEF taskVars, cpuVars, irqVars, ipcVars, ttyVars
<1>1. state[current] # "Blocked" /\ serial \in Nat /\ keys \in Nat
  BY SchedulerAssumption DEF IInv, TypeOK
<1>2. CASE Syscall
  <2>1. cpu.pc = "user"
    BY <1>2 DEF Syscall, sys_fork, sys_exit, sys_wait4, sys_yield, sys_nanosleep, sys_kill, sys_pipe,
         sys_socketpair, sys_dup, sys_close, sys_read, sys_write, sys_dup2, Calls
  <2>2. UNCHANGED ttyVars
    BY <1>2 DEF Syscall, sys_fork, sys_exit, sys_wait4, sys_yield, sys_nanosleep, sys_kill, sys_pipe,
         sys_socketpair, sys_dup, sys_close, sys_read, sys_write, sys_dup2, EnterLoop, exit_current
  <2> QED
    BY <2>1, <2>2 DEF FallsAsleepOnTty
<1>3. CASE Interrupt
  BY <1>3 DEF Interrupt, tick, TimerReturn, SerialIrq, KeyboardIrq, wake_tty_waiter, Interruptible,
              FallsAsleepOnTty
<1>4. CASE cpu.pc # "tty" /\ KernelLoop
  BY <1>4 DEF KernelLoop, Reap, WaitReturns, WaitBlocks, PipeReadTakes, PipeReadEof, PipeReadBlocks,
              TtyReadSerial, TtyReadKey, TtyReadBlocks, sleep_ticks, FallsAsleepOnTty
<1>5. CASE TtyReadSerial
  BY <1>1, <1>5 DEF TtyReadSerial, FallsAsleepOnTty
<1>6. CASE TtyReadKey
  BY <1>1, <1>6 DEF TtyReadKey, FallsAsleepOnTty
<1>7. CASE TtyReadBlocks
  BY <1>7 DEF TtyReadBlocks
<1>8. KernelLoop /\ cpu.pc = "tty" => TtyReadSerial \/ TtyReadKey \/ TtyReadBlocks
  BY DEF KernelLoop, Reap, WaitReturns, WaitBlocks, PipeReadTakes, PipeReadEof, PipeReadBlocks,
              sleep_ticks
<1> QED
  BY <1>2, <1>3, <1>4, <1>5, <1>6, <1>7, <1>8 DEF Next

LEMMA TtyNext ==
  ASSUME IInv, IInv', RecordedTtyReaderAwake, [Next]_vars PROVE RecordedTtyReaderAwake'
<1>1. CASE UNCHANGED vars
  BY <1>1 DEF vars, taskVars, cpuVars, ttyVars, RecordedTtyReaderAwake, BlockedOnTty
<1>2. CASE Next
  <2> SUFFICES ASSUME tty_waiter' # NoSlot, state'[tty_waiter'] = "Blocked", kctx'[tty_waiter'].pc = "tty"
               PROVE  serial' = 0 /\ keys' = 0
    BY DEF RecordedTtyReaderAwake, BlockedOnTty
  <2>1. PICK w : w = tty_waiter'
    OBVIOUS
  <2>2. w \in Slots /\ w # current' /\ w # NoSlot /\ state'[w] = "Blocked"
    BY <2>1 DEF IInv, TypeOK
  <2>3. kctx'[w] = Ctxs'[w] /\ Ctxs'[w].pc = "tty"
    BY <2>1, <2>2 DEF Ctxs, IInv, TypeOK
  <2>4. Stays(w) \/ Born(w) \/ Reaped(w)
    BY <2>2, EveryTask
  <2>5. Stays(w)
    BY <2>2, <2>4 DEF Born, Reaped
  <2>6. CASE state[w] = "Blocked"
    <3>1. w # current
      BY <2>6 DEF IInv
    <3>2. Ctxs[w].pc = "tty" /\ Ctxs[w] = kctx[w]
      BY <2>2, <2>3, <2>5, <3>1, CtxsOf DEF Stays, Rests, IInv
    <3>3. tty_waiter = w => serial = 0 /\ keys = 0
      BY <2>2, <2>6, <3>2 DEF RecordedTtyReaderAwake, BlockedOnTty
    <3> HIDE DEF FallsAsleepOnTty
    <3>4. \/ UNCHANGED ttyVars
          \/ (serial > 0 \/ keys > 0) /\ UNCHANGED tty_waiter
          \/ serial' = 0 /\ keys' = 0
      BY <1>2, <2>1, <2>2, TtyStep
    <3> QED
      BY <2>1, <3>3, <3>4 DEF ttyVars
  <2>7. CASE state[w] # "Blocked"
    <3>1. w = current /\ cpu.pc = "tty"
      BY <2>2, <2>3, <2>5, <2>7 DEF Stays
    <3>2. FallsAsleepOnTty
      BY <2>2, <3>1 DEF FallsAsleepOnTty
    <3> QED
      BY <1>2, <2>1, <2>2, <3>2, TtyStep
  <2> QED
    BY <2>6, <2>7
<1> QED
  BY <1>1, <1>2

\* No wake-up is lost between the interrupt that brings input and the reader
\* that goes to sleep in block_on_tty: the reader that is recorded sleeps only
\* over empty rings.  For every set of calls and both controllers.
THEOREM TtyReaderWakes == Spec => []RecordedTtyReaderAwake
<1>1. Init => RecordedTtyReaderAwake
  BY DEF Init, RecordedTtyReaderAwake
<1>2. IInv /\ IInv' /\ RecordedTtyReaderAwake /\ [Next]_vars => RecordedTtyReaderAwake'
  BY TtyNext
<1> QED
  BY <1>1, <1>2, InvCorrect, PTL DEF Spec

-----------------------------------------------------------------------------
(***************************************************************************)
(* Contexts, with a controller that keeps the timer in service.  Only the  *)
(* idle task is then interrupted by a tick: every other task runs with     *)
(* the tick that gave it the CPU still in service.                         *)
(***************************************************************************)
PicInv ==
  /\ \A s \in UserSlots : Ctxs[s].pc # "irq"
  /\ Ctxs[0].pc = IF in_service THEN "irq" ELSE "user"
  /\ ~in_service => current = 0
  /\ state[current] = "Ready"
  /\ \A s \in Slots : Alive(s) => Ctxs[s].prog = pid[s]

LEMMA PicInit == Init => PicInv
<1> SUFFICES ASSUME Init PROVE PicInv
  OBVIOUS
<1>1. /\ Ctxs[0] = UserCtx(0) /\ state[current] = "Ready" /\ current = 0
      /\ \A s \in Slots : Ctxs[s] = IF s <= 1 THEN UserCtx(s) ELSE DeadCtx
      /\ UserSlots \subseteq Slots
  BY SchedulerAssumption DEF Init, Ctxs, Slots, UserSlots
<1>2. ASSUME NEW s \in Slots
      PROVE  Ctxs[s].pc # "irq" /\ (Alive(s) => Ctxs[s].prog = pid[s])
  <2>1. CASE s <= 1
    <3>1. Ctxs[s] = UserCtx(s) /\ pid[s] = s
      BY <1>1, <2>1 DEF Init
    <3> QED
      BY <3>1 DEF UserCtx
  <2>2. CASE ~(s <= 1)
    <3>1. Ctxs[s] = DeadCtx /\ state[s] = "None"
      BY <1>1, <2>2 DEF Init
    <3> QED
      BY <3>1 DEF DeadCtx, Alive
  <2> QED
    BY <2>1, <2>2
<1>3. Ctxs[0].pc = "user" /\ ~in_service
  BY <1>1 DEF Init, UserCtx
<1> QED
  BY <1>1, <1>2, <1>3 DEF PicInv

\* Contexts stay with their programs as long as no zombie runs.
LEMMA ProgNext ==
  ASSUME IInv, PicInv, [Next]_vars
  PROVE  \A s \in Slots : Alive(s)' => Ctxs'[s].prog = pid'[s]
<1> SUFFICES ASSUME NEW s \in Slots, state'[s] \in {"Ready", "Blocked"}
             PROVE  Ctxs'[s].prog = pid'[s]
  BY DEF Alive
<1>1. Stays(s) \/ Born(s)
  BY EveryTask DEF Reaped
<1>2. CASE Stays(s)
  <2>1. state[s] \in {"Ready", "Blocked"}
    BY <1>2 DEF Stays, PicInv
  <2> QED
    BY <1>2, <2>1 DEF Stays, PicInv, Alive
<1>3. CASE Born(s)
  <2>1. s # current
    BY <1>3 DEF Born, PicInv
  <2> QED
    BY <1>3, <2>1 DEF Born
<1> QED
  BY <1>1, <1>2, <1>3

LEMMA PicNext ==
  ASSUME Pic, IInv, IInv', PicInv, [Next]_vars PROVE PicInv'
<1>1. \A s \in Slots : Alive(s)' => Ctxs'[s].prog = pid'[s]
  BY ProgNext
<1>2. /\ Ctxs[current] = cpu /\ current \in Slots
      /\ 0 \in Slots /\ UserSlots \subseteq Slots /\ 0 \notin UserSlots
      /\ \A s \in Slots : s = 0 \/ s \in UserSlots
  BY CtxsOf, SchedulerAssumption DEF IInv, Slots, UserSlots
<1>3. CASE UNCHANGED vars
  BY <1>3 DEF vars, taskVars, cpuVars, irqVars, PicInv, Ctxs, Alive
<1>4. CASE tick
  <2>1. ~in_service /\ in_service' = TRUE /\ current = 0
    BY <1>4 DEF tick, Interruptible, PicInv
  <2>2. /\ \A s \in Slots : Stays(s)
        /\ Ctxs'[0].pc = "irq"
        /\ current' = 0 \/ state'[current'] = "Ready"
    BY <1>4, <2>1, TickShape
  <2>3. \A s \in UserSlots : Ctxs'[s].pc # "irq"
    BY <1>2, <2>1, <2>2 DEF Stays, Rests, PicInv
  <2>4. state'[current'] = "Ready"
    BY <2>2 DEF IInv, PidInv
  <2> HIDE DEF Ctxs
  <2> QED
    BY <1>1, <2>1, <2>2, <2>3, <2>4 DEF PicInv
<1>5. ASSUME Shape PROVE state'[current'] = "Ready" /\ \A s \in UserSlots : Ctxs'[s].pc # "irq"
  BY <1>2, <1>5 DEF Shape, PicInv
<1>6. CASE TimerReturn
  <2>1. cpu.pc = "irq" /\ in_service' = FALSE /\ cpu'.pc = "user" /\ current' = current
    BY <1>6 DEF TimerReturn, Return, UserCtx
  <2>2. current = 0
    BY <1>2, <2>1 DEF PicInv
  <2>3. Ctxs'[0] = cpu'
    BY <1>2, <2>1, <2>2 DEF Ctxs, IInv, TypeOK
  <2>4. Shape
    BY <1>6, InterruptShape
  <2> HIDE DEF Ctxs
  <2> QED
    BY <1>1, <1>5, <2>1, <2>2, <2>3, <2>4 DEF PicInv
<1>7. CASE SerialIrq \/ KeyboardIrq
  <2>1. Shape /\ Ctxs' = Ctxs /\ UNCHANGED <<in_service, current>>
    BY <1>7, InterruptShape DEF SerialIrq, KeyboardIrq, cpuVars, irqVars, Ctxs
  <2> HIDE DEF Ctxs
  <2> QED
    BY <1>1, <1>5, <2>1 DEF PicInv
<1>8. CASE Syscall \/ KernelLoop
  <2>1. Shape /\ current # 0 /\ in_service' = in_service
    BY <1>8, SyscallShape, KernelLoopShape
  <2>2. in_service /\ Ctxs[0].pc = "irq"
    BY <2>1 DEF PicInv
  <2>3. Ctxs'[0].pc = "irq"
    <3>1. state[0] = "Ready"
      BY DEF IInv, PidInv
    <3>2. Stays(0)
      BY <1>2, <2>1, <3>1 DEF Shape, Born, Reaped
    <3> QED
      BY <2>1, <2>2, <3>2 DEF Stays, Rests
  <2> HIDE DEF Ctxs
  <2> QED
    BY <1>1, <1>5, <2>1, <2>2, <2>3 DEF PicInv
<1> QED
  BY <1>3, <1>4, <1>6, <1>7, <1>8 DEF Next, Interrupt

LEMMA PicHolds ==
  ASSUME Pic PROVE Spec => []PicInv
<1>1. IInv /\ IInv' /\ PicInv /\ [Next]_vars => PicInv'
  BY PicNext
<1> QED
  BY <1>1, PicInit, InvCorrect, PTL DEF Spec

\* Where a tick stays in service until its handler returns, every context is
\* executed and saved under the pid of its own program: fork, exit, waitpid
\* and schedule() never hand a task another's stack, whatever the order.
THEOREM ContextsBelongCorrect ==
  ASSUME Pic PROVE Spec => []ContextsBelong
<1>1. IInv /\ PicInv => ContextsBelong
  <2> SUFFICES ASSUME IInv, PicInv PROVE ContextsBelong
    OBVIOUS
  <2>1. Ctxs[current] = cpu /\ current \in Slots /\ \A s \in Slots : s # current => Ctxs[s] = kctx[s]
    BY CtxsOf DEF IInv
  <2> HIDE DEF Ctxs
  <2> QED
    BY <2>1 DEF PicInv, ContextsBelong, Alive
<1> QED
  BY <1>1, InvCorrect, PicHolds, PTL

\* With such a controller a task that has exited or was killed never runs
\* again: it is reaped, or its slot goes to a task with another pid.
THEOREM DeadStayDeadCorrect ==
  ASSUME Pic PROVE Spec => DeadStayDead
<1> DEFINE Gone == \A s \in UserSlots :
             state[s] = "Zombie" => state'[s] \in {"Zombie", "None"} \/ pid'[s] # pid[s]
<1>1. IInv /\ PicInv /\ [Next]_vars => [Gone]_vars
  <2> SUFFICES ASSUME IInv, PicInv, [Next]_vars, NEW s \in UserSlots, state[s] = "Zombie"
               PROVE  state'[s] \in {"Zombie", "None"} \/ pid'[s] # pid[s]
    OBVIOUS
  <2>1. s \in Slots
    BY CtxsOf DEF IInv
  <2>2. Stays(s) \/ Born(s) \/ Reaped(s)
    BY <2>1, EveryTask
  <2>3. pid[s] \in Nat /\ pid[s] < next_pid /\ next_pid \in Nat
    BY <2>1 DEF IInv, PidInv, TypeOK
  <2>4. s # current
    BY DEF PicInv
  <2>5. Born(s) => pid'[s] # pid[s]
    BY <2>3 DEF Born
  <2> QED
    BY <2>2, <2>4, <2>5 DEF Stays, Reaped
<1> QED
  BY <1>1, InvCorrect, PicHolds, PTL DEF Spec, DeadStayDead
=============================================================================
