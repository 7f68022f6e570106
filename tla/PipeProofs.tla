----------------------------- MODULE PipeProofs -----------------------------
(***************************************************************************)
(* Proofs about pipes, for any number of tasks, pipes and descriptors.     *)
(*                                                                         *)
(*  - No wake-up of a reader is lost, for programs that send no lethal     *)
(*    signal and do not call dup2: a killed task's descriptors, and the    *)
(*    descriptor that dup2 replaces, are closed without waking anybody.    *)
(*  - The reference counts are exact, for programs that do not copy        *)
(*    descriptors with dup or dup2, which take no reference.               *)
(***************************************************************************)
EXTENDS KernelProofs, WellFoundedInduction

-----------------------------------------------------------------------------
(***************************************************************************)
(* Nobody is killed by a signal                                            *)
(***************************************************************************)
NoLethal == KillSigs \cap Lethal = {}

Harmless == \A s \in Slots : pending[s] \cap Lethal = {}

LEMMA RaiseHarmless ==
  ASSUME NEW pend, NEW sig, pend \cap Lethal = {}, sig \notin Lethal
  PROVE  raise_signal(pend, sig) \cap Lethal = {}
  BY DEF raise_signal

LEMMA ChldHarmless == "SIGCHLD" \notin Lethal
  BY DEF Lethal, LethalSignals

LEMMA NobodyKilled ==
  ASSUME TypeOK, Harmless, deliver_all_signals
  PROVE  /\ Killed = {} /\ fds' = fds /\ pool' = pool /\ Harmless'
<1>1. Killed = {}
  BY CtxsOf DEF Killed, Harmless
<1>2. fds' = fds
  BY <1>1 DEF deliver_all_signals, TypeOK
<1>3. \A p \in Pipes : ReadRefs(fds, Killed)[p] = 0 /\ WriteRefs(fds, Killed)[p] = 0
  BY <1>1, FS_EmptySet DEF ReadRefs, WriteRefs
<1>4. pool' = pool
  <2>1. pool' = [p \in Pipes |-> pool[p]]
    <3> DEFINE r == ReadRefs(fds, Killed)
               w == WriteRefs(fds, Killed)
    <3>1. pool' = CloseEnds(pool, r, w)
      BY DEF deliver_all_signals
    <3>2. \A p \in Pipes : ~(r[p] + w[p] > 0)
      BY <1>3
    <3> HIDE DEF r, w
    <3> QED
      BY <3>1, <3>2 DEF CloseEnds
  <2> QED
    BY <2>1 DEF TypeOK
<1>5. Harmless'
  BY <1>1 DEF deliver_all_signals, Harmless
<1> QED
  BY <1>1, <1>2, <1>4, <1>5

LEMMA HarmlessNext ==
  ASSUME NoLethal, TypeOK, Harmless, [Next]_vars PROVE Harmless'
<1> USE DEF taskVars, cpuVars, irqVars, ipcVars, ttyVars
<1>0. DOMAIN pending = Slots
  BY DEF TypeOK
<1>1. CASE pending' = pending
  BY <1>1 DEF Harmless
<1>2. CASE tick
  <2>1. deliver_all_signals \/ pending' = pending
    BY <1>2 DEF tick
  <2> QED
    BY <1>1, <2>1, NobodyKilled
<1>3. ASSUME exit_current PROVE Harmless'
  BY <1>3, RaiseHarmless, ChldHarmless DEF exit_current, Harmless
<1>4. ASSUME NEW target \in 0 .. MaxPid, NEW sig \in KillSigs, sys_kill(target, sig) PROVE Harmless'
  <2>1. CASE raise_signal_to_pid(target, sig)
    <3>1. PICK s \in Slots : pending' = [pending EXCEPT ![s] = raise_signal(pending[s], sig)]
      BY <2>1 DEF raise_signal_to_pid
    <3>2. raise_signal(pending[s], sig) \cap Lethal = {}
      BY <1>4, RaiseHarmless DEF NoLethal, Harmless
    <3> QED
      BY <1>0, <3>1, <3>2 DEF Harmless
  <2> QED
    BY <1>3, <1>4, <2>1 DEF sys_kill
<1>5. CASE sys_fork
  BY <1>0, <1>5 DEF sys_fork, spawn_fork, Harmless
<1>6. CASE Reap
  BY <1>0, <1>6 DEF Reap, Harmless
<1>7. CASE Syscall
  <2>1. \/ sys_fork \/ sys_exit \/ pending' = pending
        \/ \E target \in 0 .. MaxPid, sig \in KillSigs : sys_kill(target, sig)
    BY <1>7 DEF Syscall, sys_wait4, sys_yield, sys_nanosleep, sys_pipe,
         sys_socketpair, sys_dup, sys_close, sys_read, sys_write, sys_dup2, EnterLoop
  <2> QED
    BY <1>1, <1>3, <1>4, <1>5, <2>1 DEF sys_exit
<1>8. CASE KernelLoop
  <2>1. Reap \/ pending' = pending
    BY <1>8 DEF KernelLoop, WaitReturns, WaitBlocks, PipeReadTakes, PipeReadEof, PipeReadBlocks,
              TtyReadSerial, TtyReadKey, TtyReadBlocks, sleep_ticks
  <2> QED
    BY <1>1, <1>6, <2>1
<1>9. CASE Interrupt
  <2>1. tick \/ pending' = pending
    BY <1>9 DEF Interrupt, TimerReturn, SerialIrq, KeyboardIrq
  <2> QED
    BY <1>1, <1>2, <2>1
<1>10. CASE UNCHANGED vars
  BY <1>1, <1>10 DEF vars
<1> QED
  BY <1>7, <1>8, <1>9, <1>10 DEF Next

-----------------------------------------------------------------------------
(***************************************************************************)
(* The reader that PIPE_WAITERS records                                    *)
(***************************************************************************)
FallsAsleepOn(p) == cpu.pc = "pipe" /\ cpu.arg = p /\ state'[current] = "Blocked"

\* A free slot of the pool has no open end.
FreeIsClosed == \A p \in Pipes : ~pool[p].in_use => pool[p].read_count = 0 /\ pool[p].write_count = 0

\* A step takes the record of a reader of p away; or leaves it, and brings no
\* data and takes no last write end, unless p was free; or records a reader of
\* an empty pipe with a writer.
Announced(p) ==
  \/ pipe_waiter'[p] = NoSlot
  \/ /\ pipe_waiter'[p] = pipe_waiter[p] /\ ~FallsAsleepOn(p)
     /\ \/ ~pool[p].in_use
        \/ pool'[p].len <= pool[p].len /\ (pool[p].write_count > 0 => pool'[p].write_count > 0)
  \/ pool'[p].len = 0 /\ pool'[p].write_count > 0

LEMMA PoolFields ==
  ASSUME TypeOK, NEW p \in Pipes
  PROVE  /\ pool[p] \in PipeSlot /\ pool[p].in_use \in BOOLEAN
         /\ pool[p].read_count \in Nat /\ pool[p].write_count \in Nat /\ pool[p].len \in Nat
  BY PoolAssumption DEF TypeOK, PipeSlot, PipeCap

\* What closing does to one pipe.
LEMMA CloseOne ==
  ASSUME NEW P \in [Pipes -> PipeSlot], NEW r \in [Pipes -> Nat], NEW w \in [Pipes -> Nat],
         NEW p \in Pipes
  PROVE  /\ CloseEnds(P, r, w)[p].len = P[p].len
         /\ r[p] = 0 /\ w[p] = 0 => CloseEnds(P, r, w)[p] = P[p]
         /\ w[p] = 0 => CloseEnds(P, r, w)[p].write_count = P[p].write_count
         /\ r[p] = 0 => CloseEnds(P, r, w)[p].read_count = P[p].read_count
         /\ P[p].in_use => /\ CloseEnds(P, r, w)[p].read_count = Less(P[p].read_count, r[p])
                           /\ CloseEnds(P, r, w)[p].write_count = Less(P[p].write_count, w[p])
                           /\ r[p] + w[p] > 0 =>
                                (CloseEnds(P, r, w)[p].in_use <=>
                                   Less(P[p].read_count, r[p]) > 0 \/ Less(P[p].write_count, w[p]) > 0)
         /\ ~P[p].in_use => CloseEnds(P, r, w)[p] = P[p]
<1>1. PICK x : x = P[p]
  OBVIOUS
<1>2. /\ x = [in_use |-> x.in_use, read_count |-> x.read_count, write_count |-> x.write_count, len |-> x.len]
      /\ x.read_count \in Nat /\ x.write_count \in Nat /\ r[p] \in Nat /\ w[p] \in Nat
  BY <1>1 DEF PipeSlot
<1>3. PICK a, b : a = Less(x.read_count, r[p]) /\ b = Less(x.write_count, w[p])
  OBVIOUS
<1>4. a \in Nat /\ b \in Nat /\ (r[p] = 0 => a = x.read_count) /\ (w[p] = 0 => b = x.write_count)
  BY <1>2, <1>3 DEF Less
<1>5. CloseEnds(P, r, w)[p] = IF x.in_use /\ r[p] + w[p] > 0
                              THEN [x EXCEPT !.read_count = a, !.write_count = b, !.in_use = a > 0 \/ b > 0]
                              ELSE x
  BY <1>1, <1>3 DEF CloseEnds
<1>6. CASE x.in_use /\ r[p] + w[p] > 0
  <2>1. PICK c \in BOOLEAN : c = (a > 0 \/ b > 0)
    OBVIOUS
  <2>2. PICK y : y = CloseEnds(P, r, w)[p]
    OBVIOUS
  <2>3. y = [x EXCEPT !.read_count = a, !.write_count = b, !.in_use = c]
    BY <1>5, <1>6, <2>1, <2>2, Zenon
  <2>4. y.len = x.len /\ y.read_count = a /\ y.write_count = b /\ y.in_use = c
    BY <1>2, <2>3
  <2>5. y.in_use <=> a > 0 \/ b > 0
    BY <2>1, <2>4, Zenon
  <2>6. ~(r[p] = 0 /\ w[p] = 0)
    BY <1>2, <1>6
  <2> QED
    BY <1>1, <1>3, <1>4, <1>6, <2>2, <2>4, <2>5, <2>6, Zenon
<1>7. CASE ~(x.in_use /\ r[p] + w[p] > 0)
  <2>1. x.in_use => r[p] = 0 /\ w[p] = 0
    BY <1>2, <1>7
  <2> QED
    BY <1>1, <1>2, <1>3, <1>4, <1>5, <1>7, <2>1
<1> QED
  BY <1>6, <1>7

\* What a fork does to one pipe.
LEMMA DupOne ==
  ASSUME NEW P \in [Pipes -> PipeSlot], NEW r \in [Pipes -> Nat], NEW w \in [Pipes -> Nat],
         NEW p \in Pipes
  PROVE  /\ DupEnds(P, r, w)[p].len = P[p].len
         /\ DupEnds(P, r, w)[p].in_use = P[p].in_use
         /\ P[p].in_use => /\ DupEnds(P, r, w)[p].read_count = AtMost(P[p].read_count + r[p], MaxRefs)
                           /\ DupEnds(P, r, w)[p].write_count = AtMost(P[p].write_count + w[p], MaxRefs)
         /\ ~P[p].in_use => DupEnds(P, r, w)[p] = P[p]
<1>1. PICK x : x = P[p]
  OBVIOUS
<1>2. x = [in_use |-> x.in_use, read_count |-> x.read_count, write_count |-> x.write_count, len |-> x.len]
  BY <1>1 DEF PipeSlot
<1>3. PICK a, b : a = AtMost(x.read_count + r[p], MaxRefs) /\ b = AtMost(x.write_count + w[p], MaxRefs)
  OBVIOUS
<1>4. DupEnds(P, r, w)[p] = IF x.in_use THEN [x EXCEPT !.read_count = a, !.write_count = b] ELSE x
  BY <1>1, <1>3 DEF DupEnds
<1>5. CASE x.in_use
  <2>1. PICK y : y = DupEnds(P, r, w)[p]
    OBVIOUS
  <2>2. y = [x EXCEPT !.read_count = a, !.write_count = b]
    BY <1>4, <1>5, <2>1, Zenon
  <2>3. y.len = x.len /\ y.read_count = a /\ y.write_count = b /\ y.in_use = x.in_use
    BY <1>2, <2>2
  <2> QED
    BY <1>1, <1>3, <1>5, <2>1, <2>3, Zenon
<1>6. CASE ~x.in_use
  BY <1>1, <1>4, <1>6
<1> QED
  BY <1>5, <1>6

LEMMA AllocOne ==
  ASSUME NEW P \in [Pipes -> PipeSlot], NEW i \in Pipes, NEW p \in Pipes
  PROVE  /\ p # i => AllocPipe(P, i)[p] = P[p]
         /\ AllocPipe(P, i)[i] = FreshPipe
  BY DEF AllocPipe

LEMMA OneOf ==
  ASSUME NEW i, NEW p \in Pipes
  PROVE  /\ One(i) \in [Pipes -> Nat]
         /\ One(i)[p] = IF p = i THEN 1 ELSE 0
  BY DEF One

ClosedIfFree(x) == ~x.in_use => x.read_count = 0 /\ x.write_count = 0

LEMMA CloseKeepsFree ==
  ASSUME NEW P \in [Pipes -> PipeSlot], NEW r \in [Pipes -> Nat], NEW w \in [Pipes -> Nat],
         NEW p \in Pipes, ClosedIfFree(P[p])
  PROVE  ClosedIfFree(CloseEnds(P, r, w)[p])
<1> DEFINE Q == CloseEnds(P, r, w)
<1>1. Q[p].read_count \in Nat /\ Q[p].write_count \in Nat
  BY PoolType DEF PipeSlot
<1>2. CASE P[p].in_use /\ r[p] + w[p] > 0
  <2>1. Q[p].in_use <=> Q[p].read_count > 0 \/ Q[p].write_count > 0
    BY <1>2, CloseOne
  <2> HIDE DEF Q
  <2>2. /\ ~(Q[p].read_count > 0) => Q[p].read_count = 0
        /\ ~(Q[p].write_count > 0) => Q[p].write_count = 0
    BY <1>1
  <2>3. ClosedIfFree(Q[p])
    BY <2>1, <2>2, Zenon DEF ClosedIfFree
  <2> QED
    BY <2>3 DEF Q
<1>3. CASE ~P[p].in_use
  BY <1>3, CloseOne
<1>4. CASE ~(r[p] + w[p] > 0)
  <2>1. r[p] = 0 /\ w[p] = 0
    BY <1>4
  <2> QED
    BY <2>1, CloseOne
<1> QED
  BY <1>2, <1>3, <1>4

LEMMA ExitPipes ==
  ASSUME TypeOK, FreeIsClosed, exit_current, cpu.pc = "user", NEW p \in Pipes
  PROVE  Announced(p) /\ ClosedIfFree(pool'[p])
<1> DEFINE r == ReadRefs(fds, {current})
           w == WriteRefs(fds, {current})
           closed == CloseEnds(pool, r, w)
<1>1. r \in [Pipes -> Nat] /\ w \in [Pipes -> Nat] /\ pool \in [Pipes -> PipeSlot]
  BY RefsType DEF TypeOK
<1>2. /\ pool' = closed
      /\ pipe_waiter' = [q \in Pipes |-> IF q \in ClosedPipes(closed) THEN NoSlot ELSE pipe_waiter[q]]
  BY DEF exit_current, wake_pipe_waiters
<1> HIDE DEF r, w
<1>3. closed[p].len = pool[p].len
  BY <1>1, CloseOne
<1>4. ClosedIfFree(closed[p])
  BY <1>1, CloseKeepsFree DEF FreeIsClosed, ClosedIfFree
<1> HIDE DEF closed
<1>5. \/ pipe_waiter'[p] = NoSlot
      \/ pipe_waiter'[p] = pipe_waiter[p] /\ closed[p].write_count > 0
  BY <1>2 DEF ClosedPipes, pipe_write_open
<1> QED
  BY <1>2, <1>3, <1>4, <1>5, PoolFields DEF Announced, FallsAsleepOn

LEMMA ClosePipes ==
  ASSUME TypeOK, FreeIsClosed, NEW f \in Handles, sys_close(f), NEW p \in Pipes
  PROVE  Announced(p) /\ ClosedIfFree(pool'[p])
<1> DEFINE closed == CloseEnds(pool, One(Table[f].r), One(Table[f].w))
           S == {q \in {Table[f].w} \ {NoPipe} : ~pipe_write_open(closed, q)}
<1>1. /\ pool' = closed /\ cpu.pc = "user" /\ pool \in [Pipes -> PipeSlot]
      /\ pipe_waiter' = [q \in Pipes |-> IF q \in S THEN NoSlot ELSE pipe_waiter[q]]
  BY DEF sys_close, wake_pipe_waiters, Calls, TypeOK
<1>6. PICK r1, w1 : r1 = One(Table[f].r) /\ w1 = One(Table[f].w)
  OBVIOUS
<1>7. /\ r1 \in [Pipes -> Nat] /\ w1 \in [Pipes -> Nat] /\ closed = CloseEnds(pool, r1, w1)
      /\ p # Table[f].w => w1[p] = 0
  BY <1>6, OneOf
<1>8. ClosedIfFree(pool[p])
  BY DEF FreeIsClosed, ClosedIfFree
<1>2. closed[p].len = pool[p].len /\ ClosedIfFree(closed[p])
  BY <1>1, <1>7, <1>8, CloseOne, CloseKeepsFree
<1>3. p # Table[f].w => closed[p].write_count = pool[p].write_count
  BY <1>1, <1>7, CloseOne
<1>4. p \notin Pipes \/ p # NoPipe
  BY DEF Pipes, NoPipe
<1> HIDE DEF closed
<1>5. \/ pipe_waiter'[p] = NoSlot
      \/ pipe_waiter'[p] = pipe_waiter[p] /\ (closed[p].write_count > 0 \/ p # Table[f].w)
  BY <1>1, <1>4 DEF pipe_write_open
<1>9. /\ closed[p].len <= pool[p].len
      /\ pipe_waiter'[p] = NoSlot \/ (pool[p].write_count > 0 => closed[p].write_count > 0)
  BY <1>2, <1>3, <1>5, PoolFields
<1> QED
  BY <1>1, <1>2, <1>5, <1>9 DEF Announced, FallsAsleepOn

LEMMA ForkPipes ==
  ASSUME TypeOK, FreeIsClosed, sys_fork, NEW p \in Pipes
  PROVE  Announced(p) /\ ClosedIfFree(pool'[p])
<1> DEFINE r == ReadRefs(fds, {current})
           w == WriteRefs(fds, {current})
<1>1. r \in [Pipes -> Nat] /\ w \in [Pipes -> Nat] /\ pool \in [Pipes -> PipeSlot]
  BY RefsType DEF TypeOK
<1>2. /\ pool' = DupEnds(pool, r, w) /\ pipe_waiter' = pipe_waiter /\ cpu.pc = "user"
  BY DEF sys_fork, spawn_fork, Calls
<1> HIDE DEF r, w
<1>3. /\ pool'[p].len = pool[p].len /\ pool'[p].in_use = pool[p].in_use
      /\ pool[p].in_use => pool'[p].write_count = AtMost(pool[p].write_count + w[p], MaxRefs)
      /\ ~pool[p].in_use => pool'[p] = pool[p]
  BY <1>1, <1>2, DupOne
<1>4. pool[p].in_use /\ pool[p].write_count > 0 => pool'[p].write_count > 0
  BY <1>1, <1>3, PoolFields, PoolAssumption DEF AtMost
<1> QED
  BY <1>2, <1>3, <1>4, PoolFields DEF Announced, FallsAsleepOn, FreeIsClosed, ClosedIfFree

LEMMA AllocKeepsFree ==
  ASSUME NEW P \in [Pipes -> PipeSlot], NEW i \in Pipes, NEW p \in Pipes, ClosedIfFree(P[p])
  PROVE  /\ AllocPipe(P, i) \in [Pipes -> PipeSlot]
         /\ ClosedIfFree(AllocPipe(P, i)[p])
<1>1. ClosedIfFree(FreshPipe)
  BY DEF ClosedIfFree, FreshPipe
<1> QED
  BY <1>1, AllocOne, AllocType

\* A step that brings a pipe into use: the others keep their slots.
LEMMA FreshPipes ==
  ASSUME TypeOK, FreeIsClosed, NEW p \in Pipes, pipe_waiter' = pipe_waiter, cpu.pc = "user",
         pool[p].in_use => pool'[p] = pool[p]
  PROVE  Announced(p)
  BY PoolFields DEF Announced, FallsAsleepOn

LEMMA PipePipes ==
  ASSUME TypeOK, FreeIsClosed, sys_pipe, NEW p \in Pipes
  PROVE  Announced(p) /\ ClosedIfFree(pool'[p])
<1>1. PICK i \in Pipes : /\ IsFreePipe(pool, i)
                         /\ \/ pool' = AllocPipe(pool, i)
                            \/ pool' = CloseEnds(AllocPipe(pool, i), One(i), One(i))
  BY DEF sys_pipe
<1>2. /\ pipe_waiter' = pipe_waiter /\ cpu.pc = "user" /\ ~pool[i].in_use
      /\ pool \in [Pipes -> PipeSlot] /\ ClosedIfFree(pool[p])
  BY <1>1 DEF sys_pipe, Calls, IsFreePipe, TypeOK, FreeIsClosed, ClosedIfFree
<1>3. PICK P, o : P = AllocPipe(pool, i) /\ o = One(i)
  OBVIOUS
<1>4. /\ P \in [Pipes -> PipeSlot] /\ ClosedIfFree(P[p]) /\ o \in [Pipes -> Nat]
      /\ p # i => P[p] = pool[p] /\ o[p] = 0
  BY <1>2, <1>3, AllocKeepsFree, AllocOne, OneOf
<1>5. ClosedIfFree(CloseEnds(P, o, o)[p]) /\ (p # i => CloseEnds(P, o, o)[p] = P[p])
  BY <1>4, CloseKeepsFree, CloseOne
<1>6. ClosedIfFree(pool'[p]) /\ (p # i => pool'[p] = pool[p])
  BY <1>1, <1>3, <1>4, <1>5
<1> QED
  BY <1>2, <1>6, FreshPipes

LEMMA SocketPairPipes ==
  ASSUME TypeOK, FreeIsClosed, sys_socketpair, NEW p \in Pipes
  PROVE  Announced(p) /\ ClosedIfFree(pool'[p])
<1>0. /\ pipe_waiter' = pipe_waiter /\ cpu.pc = "user"
      /\ pool \in [Pipes -> PipeSlot] /\ ClosedIfFree(pool[p])
  BY DEF sys_socketpair, Calls, TypeOK, FreeIsClosed, ClosedIfFree
<1>1. PICK a \in Pipes :
        /\ IsFreePipe(pool, a)
        /\ \/ \E b \in Pipes : IsFreePipe(AllocPipe(pool, a), b) /\ SocketPipes(a, b)
           \/ pool' = CloseEnds(AllocPipe(pool, a), One(a), One(a))
  BY DEF sys_socketpair
<1>2. PICK P, o : P = AllocPipe(pool, a) /\ o = One(a)
  OBVIOUS
<1>3. /\ P \in [Pipes -> PipeSlot] /\ ClosedIfFree(P[p]) /\ o \in [Pipes -> Nat]
      /\ p # a => P[p] = pool[p] /\ o[p] = 0
      /\ ~pool[a].in_use
  BY <1>0, <1>1, <1>2, AllocKeepsFree, AllocOne, OneOf DEF IsFreePipe
<1>4. CASE pool' = CloseEnds(AllocPipe(pool, a), One(a), One(a))
  <2>1. ClosedIfFree(CloseEnds(P, o, o)[p]) /\ (p # a => CloseEnds(P, o, o)[p] = P[p])
    BY <1>3, CloseKeepsFree, CloseOne
  <2>2. ClosedIfFree(pool'[p]) /\ (p # a => pool'[p] = pool[p])
    BY <1>2, <1>3, <1>4, <2>1
  <2> QED
    BY <1>0, <1>3, <2>2, FreshPipes
<1>5. ASSUME NEW b \in Pipes, IsFreePipe(P, b), SocketPipes(a, b)
      PROVE  Announced(p) /\ ClosedIfFree(pool'[p])
  <2>1. PICK B, n, m : B = AllocPipe(P, b) /\ n = One(b) /\ m = One(NoPipe)
    OBVIOUS
  <2>2. p # NoPipe
    BY DEF Pipes, NoPipe
  <2>3. /\ B \in [Pipes -> PipeSlot] /\ ClosedIfFree(B[p])
        /\ n \in [Pipes -> Nat] /\ m \in [Pipes -> Nat] /\ m[p] = 0
        /\ p # b => B[p] = P[p] /\ n[p] = 0
    BY <1>3, <2>1, <2>2, AllocKeepsFree, AllocOne, OneOf
  <2>4. ~P[b].in_use /\ P[a] = FreshPipe
    BY <1>0, <1>2, <1>5, AllocOne DEF IsFreePipe
  <2>5. ~pool[b].in_use
    <3>1. FreshPipe.in_use
      BY DEF FreshPipe
    <3>2. b # a
      BY <2>4, <3>1, Zenon
    <3>3. P[b] = pool[b]
      BY <1>0, <1>2, <3>2, AllocOne
    <3> QED
      BY <2>4, <3>3
  <2>6. pool' = B \/ pool' = CloseEnds(CloseEnds(B, o, n), n, m)
    BY <1>2, <1>5, <2>1 DEF SocketPipes
  <2>7. PICK C : C = CloseEnds(B, o, n)
    OBVIOUS
  <2>8. C \in [Pipes -> PipeSlot] /\ ClosedIfFree(C[p]) /\ (p \notin {a, b} => C[p] = pool[p])
    <3>1. C \in [Pipes -> PipeSlot]
      BY <1>3, <2>3, <2>7, PoolType
    <3>2. ClosedIfFree(C[p])
      BY <1>3, <2>3, <2>7, CloseKeepsFree
    <3>3. ASSUME p # a, p # b PROVE C[p] = B[p]
      <4>1. o[p] = 0 /\ n[p] = 0
        BY <1>3, <2>3, <3>3
      <4> QED
        BY <1>3, <2>3, <2>7, <4>1, CloseOne
    <3> QED
      BY <1>3, <2>3, <3>1, <3>2, <3>3
  <2>9. /\ ClosedIfFree(CloseEnds(C, n, m)[p])
        /\ p \notin {a, b} => CloseEnds(C, n, m)[p] = pool[p]
    BY <2>3, <2>8, CloseKeepsFree, CloseOne
  <2>10. ClosedIfFree(pool'[p]) /\ (p \notin {a, b} => pool'[p] = pool[p])
    BY <1>3, <2>3, <2>6, <2>7, <2>9
  <2> QED
    BY <1>0, <1>3, <2>5, <2>10, FreshPipes
<1> QED
  BY <1>1, <1>2, <1>4, <1>5

LEMMA WritePipes ==
  ASSUME TypeOK, FreeIsClosed, NEW f \in Handles, sys_write(f), NEW p \in Pipes
  PROVE  Announced(p) /\ ClosedIfFree(pool'[p])
<1>1. PICK i, n : /\ i = Table[f].w /\ i # NoPipe
                  /\ pool' = [pool EXCEPT ![i].len = @ + n]
                  /\ pipe_waiter' = [q \in Pipes |-> IF q \in {i} THEN NoSlot ELSE pipe_waiter[q]]
  BY DEF sys_write, wake_pipe_waiters
<1>2. cpu.pc = "user" /\ pool \in [Pipes -> PipeSlot]
  BY DEF sys_write, Calls, TypeOK
<1>3. CASE p = i
  <2>1. /\ pool'[p].in_use = pool[p].in_use /\ pool'[p].read_count = pool[p].read_count
        /\ pool'[p].write_count = pool[p].write_count
    BY <1>1, <1>2, <1>3 DEF PipeSlot
  <2> QED
    BY <1>1, <1>3, <2>1 DEF Announced, FreeIsClosed, ClosedIfFree
<1>4. CASE p # i
  <2>1. pool'[p] = pool[p] /\ pipe_waiter'[p] = pipe_waiter[p]
    BY <1>1, <1>2, <1>4
  <2> QED
    BY <1>2, <2>1, PoolFields DEF Announced, FreeIsClosed, ClosedIfFree, FallsAsleepOn
<1> QED
  BY <1>3, <1>4

LEMMA TakePipes ==
  ASSUME IInv, FreeIsClosed, PipeReadTakes, NEW p \in Pipes
  PROVE  Announced(p) /\ ClosedIfFree(pool'[p])
<1> USE DEF taskVars
<1>0. TypeOK /\ state[current] # "Blocked"
  BY DEF IInv
<1>1. PICK i, n : /\ i = cpu.arg /\ i \in Pipes /\ n \in 1 .. Readable(pool, i)
                  /\ pool' = [pool EXCEPT ![i].len = @ - n]
  BY <1>0, CtxsOf DEF PipeReadTakes, CtxOK
<1>2. pipe_waiter' = pipe_waiter /\ ~FallsAsleepOn(p) /\ pool \in [Pipes -> PipeSlot]
  BY <1>0 DEF PipeReadTakes, FallsAsleepOn, TypeOK
<1>3. pool[i].len \in Nat /\ Readable(pool, i) \in Nat
  BY <1>0, <1>1, PoolFields DEF Readable
<1>4. CASE p = i
  <2>1. /\ pool'[p].in_use = pool[p].in_use /\ pool'[p].read_count = pool[p].read_count
        /\ pool'[p].write_count = pool[p].write_count
        /\ pool'[p].len = pool[p].len - n
    BY <1>1, <1>2, <1>4 DEF PipeSlot
  <2>2. pool'[p].len <= pool[p].len
    BY <1>1, <1>3, <1>4, <2>1
  <2> QED
    BY <1>2, <2>1, <2>2 DEF Announced, FreeIsClosed, ClosedIfFree
<1>5. CASE p # i
  <2>1. pool'[p] = pool[p]
    BY <1>1, <1>2, <1>5
  <2> QED
    BY <1>0, <1>2, <2>1, PoolFields DEF Announced, FreeIsClosed, ClosedIfFree
<1> QED
  BY <1>4, <1>5

LEMMA BlockPipes ==
  ASSUME TypeOK, FreeIsClosed, PipeReadBlocks, NEW p \in Pipes
  PROVE  Announced(p) /\ ClosedIfFree(pool'[p])
<1>1. /\ pool' = pool /\ ~pipe_has_data(pool, cpu.arg) /\ pipe_write_open(pool, cpu.arg)
      /\ pipe_waiter' = [pipe_waiter EXCEPT ![cpu.arg] = current]
  BY DEF PipeReadBlocks, block_on_pipe
<1>2. ClosedIfFree(pool'[p])
  BY <1>1 DEF FreeIsClosed, ClosedIfFree
<1>3. CASE p = cpu.arg
  BY <1>1, <1>2, <1>3, PoolFields DEF Announced, pipe_has_data, pipe_write_open
<1>4. CASE p # cpu.arg
  <2>1. pipe_waiter'[p] = pipe_waiter[p]
    BY <1>1, <1>4 DEF TypeOK
  <2> QED
    BY <1>1, <1>2, <1>4, <2>1, PoolFields DEF Announced, FallsAsleepOn
<1> QED
  BY <1>3, <1>4

\* A step that leaves the pool and the records alone, and puts nobody to sleep
\* on a pipe.
LEMMA QuietPipes ==
  ASSUME TypeOK, FreeIsClosed, UNCHANGED ipcVars, NEW p \in Pipes,
         cpu.pc # "pipe" \/ state'[current] # "Blocked"
  PROVE  Announced(p) /\ ClosedIfFree(pool'[p])
<1>1. pool' = pool /\ pipe_waiter' = pipe_waiter
  BY DEF ipcVars
<1> QED
  BY <1>1, PoolFields DEF Announced, FallsAsleepOn, FreeIsClosed, ClosedIfFree

LEMMA PipesNext ==
  ASSUME "dup2" \notin Ops, IInv, Harmless, FreeIsClosed, Next, NEW p \in Pipes
  PROVE  Announced(p) /\ ClosedIfFree(pool'[p])
<1> USE DEF taskVars, cpuVars, irqVars, ttyVars
<1>0. TypeOK /\ state[current] # "Blocked"
  BY DEF IInv
<1>1. CASE Interrupt
  <2>1. cpu.pc # "pipe" /\ (UNCHANGED ipcVars \/ (deliver_all_signals /\ pipe_waiter' = pipe_waiter))
    BY <1>1 DEF Interrupt, tick, TimerReturn, SerialIrq, KeyboardIrq, Interruptible, ipcVars,
                deliver_all_signals
  <2>2. UNCHANGED ipcVars
    BY <1>0, <2>1, NobodyKilled DEF ipcVars
  <2> QED
    BY <1>0, <2>1, <2>2, QuietPipes
<1>2. CASE Syscall
  <2>1. cpu.pc = "user"
    BY <1>2 DEF Syscall, sys_fork, sys_exit, sys_wait4, sys_yield, sys_nanosleep, sys_kill, sys_pipe,
         sys_socketpair, sys_dup, sys_close, sys_read, sys_write, sys_dup2, Calls
  <2>2. \/ sys_fork \/ exit_current \/ sys_pipe \/ sys_socketpair
        \/ \E f \in Handles : sys_close(f) \/ sys_write(f)
        \/ UNCHANGED ipcVars
    BY <1>2 DEF Syscall, sys_exit, sys_wait4, sys_yield, sys_nanosleep, sys_kill, sys_dup, sys_read,
                sys_dup2, Calls, EnterLoop
  <2> HIDE DEF Announced, ClosedIfFree
  <2> QED
    BY <1>0, <2>1, <2>2, ForkPipes, ExitPipes, PipePipes, SocketPairPipes, ClosePipes, WritePipes,
       QuietPipes
<1>3. CASE KernelLoop
  <2>1. \/ PipeReadTakes \/ PipeReadBlocks
        \/ UNCHANGED ipcVars /\ (cpu.pc # "pipe" \/ state'[current] # "Blocked")
    BY <1>0, <1>3 DEF KernelLoop, Reap, WaitReturns, WaitBlocks, PipeReadEof, TtyReadSerial,
                      TtyReadKey, TtyReadBlocks, sleep_ticks
  <2> QED
    BY <1>0, <2>1, TakePipes, BlockPipes, QuietPipes
<1> QED
  BY <1>1, <1>2, <1>3 DEF Next

LEMMA FreeNext ==
  ASSUME "dup2" \notin Ops, IInv, Harmless, FreeIsClosed, [Next]_vars PROVE FreeIsClosed'
<1>1. CASE UNCHANGED vars
  BY <1>1 DEF vars, ipcVars, FreeIsClosed
<1>2. CASE Next
  BY <1>2, PipesNext DEF FreeIsClosed, ClosedIfFree
<1> QED
  BY <1>1, <1>2

LEMMA ReaderNext ==
  ASSUME "dup2" \notin Ops, IInv, IInv', Harmless, FreeIsClosed, RecordedReaderAwake, [Next]_vars
  PROVE  RecordedReaderAwake'
<1>1. CASE UNCHANGED vars
  BY <1>1 DEF vars, taskVars, cpuVars, ipcVars, RecordedReaderAwake, BlockedOnPipe
<1>2. CASE Next
  <2> SUFFICES ASSUME NEW p \in Pipes, pipe_waiter'[p] # NoSlot,
                      state'[pipe_waiter'[p]] = "Blocked",
                      kctx'[pipe_waiter'[p]].pc = "pipe", kctx'[pipe_waiter'[p]].arg = p
               PROVE  ~pipe_has_data(pool', p) /\ pipe_write_open(pool', p)
    BY DEF RecordedReaderAwake, BlockedOnPipe, pipe_has_data, pipe_write_open
  <2>1. PICK w : w = pipe_waiter'[p]
    OBVIOUS
  <2>2. w \in Slots /\ w # current' /\ w # NoSlot /\ state'[w] = "Blocked"
    BY <2>1 DEF IInv, TypeOK
  <2>3. kctx'[w] = Ctxs'[w] /\ Ctxs'[w].pc = "pipe" /\ Ctxs'[w].arg = p
    BY <2>1, <2>2 DEF Ctxs, IInv, TypeOK
  <2>4. Stays(w)
    <3>1. Stays(w) \/ Born(w) \/ Reaped(w)
      BY <2>2, EveryTask
    <3> QED
      BY <2>2, <3>1 DEF Born, Reaped
  <2>5. Announced(p) /\ TypeOK /\ TypeOK'
    BY <1>2, PipesNext DEF IInv
  <2>6. /\ pool[p].write_count \in Nat /\ pool[p].len \in Nat
        /\ pool'[p].write_count \in Nat /\ pool'[p].len \in Nat
    <3>1. pool[p] \in PipeSlot /\ pool'[p] \in PipeSlot
      BY <2>5 DEF TypeOK
    <3> QED
      BY <3>1, PoolAssumption DEF PipeSlot, PipeCap
  <2>7. CASE state[w] = "Blocked"
    <3>1. w # current
      BY <2>7 DEF IInv
    <3>2. Ctxs[w].pc = "pipe" /\ Ctxs[w].arg = p /\ Ctxs[w] = kctx[w]
      BY <2>2, <2>3, <2>4, <2>5, <3>1, CtxsOf DEF Stays, Rests
    <3>3. pipe_waiter[p] = w => ~(pool[p].len > 0) /\ pool[p].write_count > 0
      BY <2>2, <2>7, <3>2 DEF RecordedReaderAwake, BlockedOnPipe, pipe_has_data, pipe_write_open
    <3>4. \/ pool'[p].len = 0 /\ pool'[p].write_count > 0
          \/ /\ pipe_waiter[p] = w
             /\ \/ ~pool[p].in_use
                \/ pool'[p].len <= pool[p].len /\ (pool[p].write_count > 0 => pool'[p].write_count > 0)
      BY <2>1, <2>2, <2>5 DEF Announced
    <3>5. ~pool[p].in_use => pool[p].write_count = 0
      BY DEF FreeIsClosed
    <3> QED
      BY <2>6, <3>3, <3>4, <3>5 DEF pipe_has_data, pipe_write_open
  <2>8. CASE state[w] # "Blocked"
    <3>1. w = current /\ cpu.pc = "pipe" /\ cpu.arg = p
      BY <2>2, <2>3, <2>4, <2>8 DEF Stays
    <3>2. FallsAsleepOn(p)
      BY <2>2, <3>1 DEF FallsAsleepOn
    <3>3. pool'[p].len = 0 /\ pool'[p].write_count > 0
      BY <2>1, <2>2, <2>5, <3>2 DEF Announced
    <3> QED
      BY <3>3 DEF pipe_has_data, pipe_write_open
  <2> QED
    BY <2>7, <2>8
<1> QED
  BY <1>1, <1>2

\* No wake-up of a reader is lost: as long as no task is killed by a signal
\* and none calls dup2 (each of the two closes write ends and wakes nobody),
\* the reader that PIPE_WAITERS records sleeps only while its pipe is empty
\* and a write end is open.
THEOREM PipeReaderWakes ==
  ASSUME NoLethal, "dup2" \notin Ops PROVE Spec => []RecordedReaderAwake
<1>1. Init => RecordedReaderAwake /\ Harmless /\ FreeIsClosed
  BY DEF Init, RecordedReaderAwake, Harmless, FreeIsClosed, NewSlot
<1>2. TypeOK /\ Harmless /\ [Next]_vars => Harmless'
  BY HarmlessNext
<1>3. IInv /\ Harmless /\ FreeIsClosed /\ [Next]_vars => FreeIsClosed'
  BY FreeNext
<1>4. IInv /\ IInv' /\ Harmless /\ FreeIsClosed /\ RecordedReaderAwake /\ [Next]_vars
        => RecordedReaderAwake'
  BY ReaderNext
<1>5. Spec => []Harmless
  BY <1>1, <1>2, TypeCorrect, PTL DEF Spec
<1>6. Spec => []FreeIsClosed
  BY <1>1, <1>3, <1>5, InvCorrect, PTL DEF Spec
<1> QED
  BY <1>1, <1>4, <1>5, <1>6, InvCorrect, PTL DEF Spec

-----------------------------------------------------------------------------
(***************************************************************************)
(* Reference counts: the descriptors that refer to the ends of a pipe      *)
(***************************************************************************)
Places == Slots \X Fds
Reads(T, p)  == {x \in Places : T[x[1]][x[2]].r = p}
Writes(T, p) == {x \in Places : T[x[1]][x[2]].w = p}

\* The slot x of the pool counts the descriptors of pipe p in the tables T.
Counted(x, T, p) ==
  /\ x.read_count = Cardinality(Reads(T, p)) /\ x.write_count = Cardinality(Writes(T, p))
  /\ x.in_use <=> x.read_count + x.write_count > 0

LEMMA PlacesFinite ==
  /\ IsFiniteSet(Places) /\ IsFiniteSet(Slots) /\ Cardinality(Slots) = MaxTasks
  /\ \A R \in SUBSET Places : IsFiniteSet(R) /\ Cardinality(R) \in Nat
  /\ \A T, p : Reads(T, p) \in SUBSET Places /\ Writes(T, p) \in SUBSET Places
<1>1. IsFiniteSet(Slots) /\ IsFiniteSet(Fds) /\ Cardinality(Slots) = MaxTasks
  BY FS_Interval, SchedulerAssumption, FdAssumption DEF Slots, Fds
<1>2. IsFiniteSet(Places)
  BY <1>1, FS_Product DEF Places
<1>3. \A R \in SUBSET Places : IsFiniteSet(R) /\ Cardinality(R) \in Nat
  BY <1>2, FS_Subset, FS_CardinalityType
<1> QED
  BY <1>1, <1>2, <1>3 DEF Reads, Writes

LEMMA CountsCounted ==
  PipeCountsExact <=> \A p \in Pipes : Counted(pool[p], fds, p)
  BY DEF PipeCountsExact, Counted, ReadRefs, WriteRefs, Reads, Writes, Places

\* The references that the tables of some slots hold.
LEMMA RefsOf ==
  ASSUME NEW T, NEW S \in SUBSET Slots, NEW p \in Pipes
  PROVE  /\ ReadRefs(T, S)[p] = Cardinality({x \in Reads(T, p) : x[1] \in S})
         /\ WriteRefs(T, S)[p] = Cardinality({x \in Writes(T, p) : x[1] \in S})
<1>1. {x \in S \X Fds : T[x[1]][x[2]].r = p} = {x \in Reads(T, p) : x[1] \in S}
  BY DEF Reads, Places
<1>2. {x \in S \X Fds : T[x[1]][x[2]].w = p} = {x \in Writes(T, p) : x[1] \in S}
  BY DEF Writes, Places
<1> QED
  BY <1>1, <1>2 DEF ReadRefs, WriteRefs

LEMMA RowsDropped ==
  ASSUME NEW R \in SUBSET Places, NEW S
  PROVE  /\ Cardinality({x \in R : x[1] \in S}) \in Nat
         /\ Cardinality({x \in R : x[1] \in S}) <= Cardinality(R)
         /\ Cardinality({x \in R : x[1] \notin S})
              = Cardinality(R) - Cardinality({x \in R : x[1] \in S})
<1>1. PICK D : D = {x \in R : x[1] \in S}
  OBVIOUS
<1>2. IsFiniteSet(R) /\ R \cap D = D /\ R \ D = {x \in R : x[1] \notin S} /\ D \in SUBSET R
  BY <1>1, PlacesFinite
<1>3. D \in SUBSET Places
  BY <1>2
<1>4. Cardinality(R \ D) = Cardinality(R) - Cardinality(D)
  BY <1>2, FS_Difference
<1>5. Cardinality(D) \in Nat /\ Cardinality(D) <= Cardinality(R)
  BY <1>2, <1>3, FS_Subset, PlacesFinite
<1> QED
  BY <1>1, <1>2, <1>4, <1>5

LEMMA RowCopied ==
  ASSUME NEW R \in SUBSET Places, NEW s \in Slots, NEW c \in Slots, s # c,
         \A x \in R : x[1] # c
  PROVE  Cardinality(R \cup {x \in Places : x[1] = c /\ <<s, x[2]>> \in R})
           = Cardinality(R) + Cardinality({x \in R : x[1] \in {s}})
<1>1. PICK D, E : /\ D = {x \in R : x[1] \in {s}}
                  /\ E = {x \in Places : x[1] = c /\ <<s, x[2]>> \in R}
  OBVIOUS
<1>2. PICK F : F = [x \in D |-> <<c, x[2]>>]
  OBVIOUS
<1>3. /\ D \in SUBSET Places /\ E \in SUBSET Places /\ R \cap E = {}
      /\ \A x \in D : x[1] = s /\ x[2] \in Fds /\ x = <<s, x[2]>>
      /\ \A x \in E : x[1] = c /\ x[2] \in Fds /\ x = <<c, x[2]>>
  BY <1>1 DEF Places
<1>4. F \in [D -> E]
  BY <1>1, <1>2, <1>3 DEF Places
<1>5. \A x, y \in D : F[x] = F[y] => x = y
  <2> SUFFICES ASSUME NEW x \in D, NEW y \in D, F[x] = F[y] PROVE x = y
    OBVIOUS
  <2>1. F[x] = <<c, x[2]>> /\ F[y] = <<c, y[2]>>
    BY <1>2
  <2>2. <<c, x[2]>>[2] = x[2] /\ <<c, y[2]>>[2] = y[2]
    OBVIOUS
  <2>3. x[2] = y[2]
    BY <2>1, <2>2
  <2> QED
    BY <1>3, <2>3
<1>6. \A y \in E : \E x \in D : F[x] = y
  <2> SUFFICES ASSUME NEW y \in E PROVE \E x \in D : F[x] = y
    OBVIOUS
  <2>1. <<s, y[2]>> \in D
    BY <1>1, <1>3
  <2>2. F[<<s, y[2]>>] = <<c, y[2]>>
    BY <1>2, <2>1
  <2> QED
    BY <1>3, <2>1, <2>2
<1>7. F \in Bijection(D, E)
  BY <1>4, <1>5, <1>6 DEF Bijection, Injection, Surjection, IsInjective
<1>8. IsFiniteSet(D) /\ IsFiniteSet(E) /\ IsFiniteSet(R)
      /\ Cardinality(D) \in Nat /\ Cardinality(R) \in Nat
  BY <1>3, PlacesFinite
<1>9. Cardinality(E) = Cardinality(D)
  BY <1>7, <1>8, FS_Bijection DEF ExistsBijection
<1>10. Cardinality(R \cup E) = Cardinality(R) + Cardinality(E) - Cardinality(R \cap E)
  BY <1>8, FS_Union
<1>11. Cardinality(R \cap E) = 0
  BY <1>3, FS_EmptySet
<1> QED
  BY <1>1, <1>8, <1>9, <1>10, <1>11

\* With at most one reference in every table, no count passes MAX_TASKS.
LEMMA OneEach ==
  ASSUME NEW R \in SUBSET Places, \A x, y \in R : x[1] = y[1] => x = y
  PROVE  Cardinality(R) <= MaxTasks
<1>1. PICK F : F = [x \in R |-> x[1]]
  OBVIOUS
<1>2. F \in [R -> Slots]
  BY <1>1 DEF Places
<1>3. F \in Injection(R, Slots)
  BY <1>1, <1>2 DEF Injection, IsInjective
<1> QED
  BY <1>3, PlacesFinite, FS_Injection

\* Counts moved by exact amounts.
LEMMA CloseExact ==
  ASSUME NEW P \in [Pipes -> PipeSlot], NEW r \in [Pipes -> Nat], NEW w \in [Pipes -> Nat],
         NEW p \in Pipes, P[p].in_use <=> P[p].read_count + P[p].write_count > 0,
         r[p] <= P[p].read_count, w[p] <= P[p].write_count
  PROVE  LET y == CloseEnds(P, r, w)[p]
         IN  /\ y.read_count = P[p].read_count - r[p]
             /\ y.write_count = P[p].write_count - w[p]
             /\ y.in_use <=> y.read_count + y.write_count > 0
<1>1. PICK y : y = CloseEnds(P, r, w)[p]
  OBVIOUS
<1>2. PICK m, n, i, j : m = P[p].read_count /\ n = P[p].write_count /\ i = r[p] /\ j = w[p]
  OBVIOUS
<1>3. m \in Nat /\ n \in Nat /\ i \in Nat /\ j \in Nat /\ i <= m /\ j <= n
  BY <1>2 DEF PipeSlot
<1>4. Less(m, i) = m - i /\ Less(n, j) = n - j
  BY <1>3 DEF Less
<1>5. CASE P[p].in_use /\ i + j > 0
  <2>1. y.read_count = m - i /\ y.write_count = n - j /\ (y.in_use <=> m - i > 0 \/ n - j > 0)
    BY <1>1, <1>2, <1>4, <1>5, CloseOne
  <2>2. m - i > 0 \/ n - j > 0 <=> (m - i) + (n - j) > 0
    BY <1>3
  <2> QED
    BY <1>1, <1>2, <2>1, <2>2, Zenon
<1>6. CASE ~(P[p].in_use /\ i + j > 0)
  <2>1. i = 0 /\ j = 0
    <3>1. CASE ~P[p].in_use
      <4>1. ~(m + n > 0)
        BY <1>2, <3>1, Zenon
      <4> QED
        BY <1>3, <4>1
    <3>2. CASE ~(i + j > 0)
      BY <1>3, <3>2
    <3> QED
      BY <1>6, <3>1, <3>2
  <2>2. y = P[p]
    <3>1. r[p] = 0 /\ w[p] = 0
      BY <1>2, <2>1
    <3> QED
      BY <1>1, <3>1, CloseOne
  <2>3. m - i = m /\ n - j = n
    BY <1>3, <2>1
  <2> QED
    BY <1>1, <1>2, <2>2, <2>3, Zenon
<1> QED
  BY <1>5, <1>6

LEMMA DupExact ==
  ASSUME NEW P \in [Pipes -> PipeSlot], NEW r \in [Pipes -> Nat], NEW w \in [Pipes -> Nat],
         NEW p \in Pipes, P[p].in_use <=> P[p].read_count + P[p].write_count > 0,
         r[p] <= P[p].read_count, w[p] <= P[p].write_count,
         P[p].read_count + r[p] <= MaxRefs, P[p].write_count + w[p] <= MaxRefs
  PROVE  LET y == DupEnds(P, r, w)[p]
         IN  /\ y.read_count = P[p].read_count + r[p]
             /\ y.write_count = P[p].write_count + w[p]
             /\ y.in_use <=> y.read_count + y.write_count > 0
<1>1. PICK y : y = DupEnds(P, r, w)[p]
  OBVIOUS
<1>2. PICK m, n, i, j : m = P[p].read_count /\ n = P[p].write_count /\ i = r[p] /\ j = w[p]
  OBVIOUS
<1>3. m \in Nat /\ n \in Nat /\ i \in Nat /\ j \in Nat /\ i <= m /\ j <= n
  BY <1>2 DEF PipeSlot
<1>4. AtMost(m + i, MaxRefs) = m + i /\ AtMost(n + j, MaxRefs) = n + j
  BY <1>2, <1>3 DEF AtMost
<1>5. m + n > 0 <=> (m + i) + (n + j) > 0
  BY <1>3
<1>6. y.in_use = P[p].in_use
  BY <1>1, DupOne
<1>7. CASE P[p].in_use
  <2>1. y.read_count = m + i /\ y.write_count = n + j
    BY <1>1, <1>2, <1>4, <1>7, DupOne
  <2> QED
    BY <1>1, <1>2, <1>5, <1>6, <2>1, Zenon
<1>8. CASE ~P[p].in_use
  <2>1. ~(m + n > 0)
    BY <1>2, <1>8, Zenon
  <2>2. m + i = m /\ n + j = n
    BY <1>3, <2>1
  <2>3. y = P[p]
    BY <1>1, <1>8, DupOne
  <2> QED
    BY <1>1, <1>2, <2>2, <2>3, Zenon
<1> QED
  BY <1>7, <1>8

\* Closing every descriptor of some tasks.
LEMMA TablesClosed ==
  ASSUME NEW P \in [Pipes -> PipeSlot], NEW T, NEW S \in SUBSET Slots, NEW p \in Pipes,
         NEW U, U = [s \in Slots |-> IF s \in S THEN ClosedTable ELSE T[s]],
         Counted(P[p], T, p)
  PROVE  Counted(CloseEnds(P, ReadRefs(T, S), WriteRefs(T, S))[p], U, p)
<1>1. PICK r, w : r = ReadRefs(T, S) /\ w = WriteRefs(T, S)
  OBVIOUS
<1>2. r \in [Pipes -> Nat] /\ w \in [Pipes -> Nat]
  BY <1>1, RefsType
<1>3. \A f \in Fds : ClosedTable[f].r # p /\ ClosedTable[f].w # p
  BY DEF ClosedTable, Empty, Plain, NoPipe, Pipes
<1>4. /\ Reads(U, p) = {x \in Reads(T, p) : x[1] \notin S}
      /\ Writes(U, p) = {x \in Writes(T, p) : x[1] \notin S}
  BY <1>3 DEF Reads, Writes, Places
<1>5. /\ r[p] = Cardinality({x \in Reads(T, p) : x[1] \in S})
      /\ w[p] = Cardinality({x \in Writes(T, p) : x[1] \in S})
  BY <1>1, RefsOf
<1>6. PICK R \in SUBSET Places, W \in SUBSET Places : R = Reads(T, p) /\ W = Writes(T, p)
  BY PlacesFinite
<1>7. r[p] <= P[p].read_count /\ Cardinality(Reads(U, p)) = P[p].read_count - r[p]
  <2>1. /\ Cardinality({x \in R : x[1] \in S}) <= Cardinality(R)
        /\ Cardinality({x \in R : x[1] \notin S})
             = Cardinality(R) - Cardinality({x \in R : x[1] \in S})
    BY RowsDropped
  <2> QED
    BY <1>4, <1>5, <1>6, <2>1 DEF Counted
<1>8. w[p] <= P[p].write_count /\ Cardinality(Writes(U, p)) = P[p].write_count - w[p]
  <2>1. /\ Cardinality({x \in W : x[1] \in S}) <= Cardinality(W)
        /\ Cardinality({x \in W : x[1] \notin S})
             = Cardinality(W) - Cardinality({x \in W : x[1] \in S})
    BY RowsDropped
  <2> QED
    BY <1>4, <1>5, <1>6, <2>1 DEF Counted
<1>9. P[p].in_use <=> P[p].read_count + P[p].write_count > 0
  BY DEF Counted
<1>10. PICK y : y = CloseEnds(P, r, w)[p]
  OBVIOUS
<1>11. /\ y.read_count = P[p].read_count - r[p] /\ y.write_count = P[p].write_count - w[p]
       /\ y.in_use <=> y.read_count + y.write_count > 0
  BY <1>2, <1>7, <1>8, <1>9, <1>10, CloseExact
<1> QED
  BY <1>1, <1>7, <1>8, <1>10, <1>11 DEF Counted

\* No table has two descriptors of one end of a pipe.
Single(T) ==
  \A s \in Slots, f, g \in Fds :
    /\ T[s][f].r = T[s][g].r /\ T[s][f].r # NoPipe => f = g
    /\ T[s][f].w = T[s][g].w /\ T[s][f].w # NoPipe => f = g

LEMMA SingleCounts ==
  ASSUME NEW T, Single(T), NEW p \in Pipes
  PROVE  Cardinality(Reads(T, p)) <= MaxTasks /\ Cardinality(Writes(T, p)) <= MaxTasks
<1>1. p # NoPipe
  BY DEF Pipes, NoPipe
<1>2. \A x, y \in Reads(T, p) : x[1] = y[1] => x = y
  <2> SUFFICES ASSUME NEW x \in Reads(T, p), NEW y \in Reads(T, p), x[1] = y[1] PROVE x = y
    OBVIOUS
  <2>1. /\ x \in Places /\ y \in Places /\ x = <<x[1], x[2]>> /\ y = <<y[1], y[2]>>
        /\ x[1] \in Slots /\ x[2] \in Fds /\ y[2] \in Fds
        /\ T[x[1]][x[2]].r = p /\ T[x[1]][y[2]].r = p
    BY DEF Reads, Places
  <2>2. x[2] = y[2]
    BY <1>1, <2>1 DEF Single
  <2> QED
    BY <2>1, <2>2
<1>3. \A x, y \in Writes(T, p) : x[1] = y[1] => x = y
  <2> SUFFICES ASSUME NEW x \in Writes(T, p), NEW y \in Writes(T, p), x[1] = y[1] PROVE x = y
    OBVIOUS
  <2>1. /\ x \in Places /\ y \in Places /\ x = <<x[1], x[2]>> /\ y = <<y[1], y[2]>>
        /\ x[1] \in Slots /\ x[2] \in Fds /\ y[2] \in Fds
        /\ T[x[1]][x[2]].w = p /\ T[x[1]][y[2]].w = p
    BY DEF Writes, Places
  <2>2. x[2] = y[2]
    BY <1>1, <2>1 DEF Single
  <2> QED
    BY <2>1, <2>2
<1> QED
  BY <1>2, <1>3, OneEach, PlacesFinite

\* A fork: the table of s is copied to a slot whose table is closed.
LEMMA TableCopied ==
  ASSUME MaxTasks <= MaxRefs,
         NEW P \in [Pipes -> PipeSlot], NEW T, DOMAIN T = Slots, NEW p \in Pipes,
         NEW s \in Slots, NEW c \in Slots, s # c, T[c] = ClosedTable,
         NEW U, U = [T EXCEPT ![c] = T[s]], Single(T), Counted(P[p], T, p)
  PROVE  Single(U) /\ Counted(DupEnds(P, ReadRefs(T, {s}), WriteRefs(T, {s}))[p], U, p)
<1>1. PICK r, w : r = ReadRefs(T, {s}) /\ w = WriteRefs(T, {s})
  OBVIOUS
<1>2. r \in [Pipes -> Nat] /\ w \in [Pipes -> Nat]
  BY <1>1, RefsType
<1>3. \A f \in Fds : ClosedTable[f].r # p /\ ClosedTable[f].w # p
  BY DEF ClosedTable, Empty, Plain, NoPipe, Pipes
<1>4. U[c] = T[s] /\ \A t \in Slots : t # c => U[t] = T[t]
  OBVIOUS
<1>5. PICK R \in SUBSET Places, W \in SUBSET Places : R = Reads(T, p) /\ W = Writes(T, p)
  BY PlacesFinite
<1>6. /\ Reads(U, p) = R \cup {x \in Places : x[1] = c /\ <<s, x[2]>> \in R}
      /\ Writes(U, p) = W \cup {x \in Places : x[1] = c /\ <<s, x[2]>> \in W}
  <2>1. /\ \A x \in Places : x[1] \in Slots /\ x[2] \in Fds /\ <<s, x[2]>> \in Places
        /\ \A x \in R : x[1] # c
        /\ \A x \in W : x[1] # c
    BY <1>3, <1>5 DEF Places, Reads, Writes
  <2>2. \A x \in Places : /\ x \in R <=> T[x[1]][x[2]].r = p
                          /\ x \in W <=> T[x[1]][x[2]].w = p
                          /\ <<s, x[2]>> \in R <=> T[s][x[2]].r = p
                          /\ <<s, x[2]>> \in W <=> T[s][x[2]].w = p
    BY <1>5, <2>1 DEF Reads, Writes
  <2>3. \A x \in Places : /\ x \in Reads(U, p) <=> U[x[1]][x[2]].r = p
                          /\ x \in Writes(U, p) <=> U[x[1]][x[2]].w = p
    BY DEF Reads, Writes
  <2>4. Reads(U, p) \in SUBSET Places /\ Writes(U, p) \in SUBSET Places
    BY PlacesFinite
  <2> QED
    BY <1>4, <2>1, <2>2, <2>3, <2>4
<1>7. (\A x \in R : x[1] # c) /\ (\A x \in W : x[1] # c)
  BY <1>3, <1>5 DEF Places, Reads, Writes
<1>8. /\ r[p] = Cardinality({x \in R : x[1] \in {s}})
      /\ w[p] = Cardinality({x \in W : x[1] \in {s}})
  BY <1>1, <1>5, RefsOf
<1>9. /\ r[p] <= P[p].read_count /\ Cardinality(Reads(U, p)) = P[p].read_count + r[p]
      /\ w[p] <= P[p].write_count /\ Cardinality(Writes(U, p)) = P[p].write_count + w[p]
  <2>1. /\ Cardinality({x \in R : x[1] \in {s}}) <= Cardinality(R)
        /\ Cardinality({x \in W : x[1] \in {s}}) <= Cardinality(W)
    BY RowsDropped
  <2>2. /\ Cardinality(Reads(U, p)) = Cardinality(R) + Cardinality({x \in R : x[1] \in {s}})
        /\ Cardinality(Writes(U, p)) = Cardinality(W) + Cardinality({x \in W : x[1] \in {s}})
    <3>1. Cardinality(R \cup {x \in Places : x[1] = c /\ <<s, x[2]>> \in R})
            = Cardinality(R) + Cardinality({x \in R : x[1] \in {s}})
      BY <1>7, RowCopied
    <3>2. Cardinality(W \cup {x \in Places : x[1] = c /\ <<s, x[2]>> \in W})
            = Cardinality(W) + Cardinality({x \in W : x[1] \in {s}})
      BY <1>7, RowCopied
    <3> QED
      BY <1>6, <3>1, <3>2
  <2> QED
    BY <1>5, <1>8, <2>1, <2>2 DEF Counted
<1>10. Single(U)
  BY <1>4 DEF Single
<1>11. P[p].read_count + r[p] <= MaxRefs /\ P[p].write_count + w[p] <= MaxRefs
  <2>1. Cardinality(Reads(U, p)) <= MaxTasks /\ Cardinality(Writes(U, p)) <= MaxTasks
    BY <1>10, SingleCounts
  <2>2. P[p].read_count \in Nat /\ P[p].write_count \in Nat /\ MaxTasks \in Nat /\ MaxRefs \in Nat
    BY SchedulerAssumption, PoolAssumption DEF PipeSlot
  <2> QED
    BY <1>2, <1>9, <2>1, <2>2
<1>12. P[p].in_use <=> P[p].read_count + P[p].write_count > 0
  BY DEF Counted
<1>13. PICK y : y = DupEnds(P, r, w)[p]
  OBVIOUS
<1>14. /\ y.read_count = P[p].read_count + r[p] /\ y.write_count = P[p].write_count + w[p]
       /\ y.in_use <=> y.read_count + y.write_count > 0
  BY <1>2, <1>9, <1>11, <1>12, <1>13, DupExact
<1> QED
  BY <1>1, <1>9, <1>10, <1>13, <1>14 DEF Counted

LEMMA PlaceRemoved ==
  ASSUME NEW R \in SUBSET Places, NEW z, NEW n, n = IF z \in R THEN 1 ELSE 0
  PROVE  n <= Cardinality(R) /\ Cardinality(R \ {z}) = Cardinality(R) - n
<1>1. /\ Cardinality(R) \in Nat /\ IsFiniteSet(R) /\ R \ {z} \in SUBSET Places
  BY PlacesFinite
<1>2. Cardinality(R \ {z}) \in Nat
  BY <1>1, PlacesFinite
<1>3. Cardinality(R \ {z}) = IF z \in R THEN Cardinality(R) - 1 ELSE Cardinality(R)
  BY <1>1, FS_RemoveElement
<1> QED
  BY <1>1, <1>2, <1>3

\* close: one descriptor, and at most one reference to each end.
LEMMA EntryClosed ==
  ASSUME NEW P \in [Pipes -> PipeSlot], NEW T \in [Slots -> [Fds -> FdEntry]], NEW p \in Pipes,
         NEW s \in Slots, NEW f \in Fds,
         NEW U, U = [T EXCEPT ![s][f] = Empty], Single(T), Counted(P[p], T, p)
  PROVE  Single(U) /\ Counted(CloseEnds(P, One(T[s][f].r), One(T[s][f].w))[p], U, p)
<1>1. PICK r, w, e : r = One(e.r) /\ w = One(e.w) /\ e = T[s][f]
  OBVIOUS
<1>2. /\ r \in [Pipes -> Nat] /\ w \in [Pipes -> Nat]
      /\ r[p] = (IF p = e.r THEN 1 ELSE 0) /\ w[p] = (IF p = e.w THEN 1 ELSE 0)
  BY <1>1, OneOf
<1>3. Empty.r = NoPipe /\ Empty.w = NoPipe /\ p # NoPipe
  BY DEF Empty, Plain, NoPipe, Pipes
<1>4. U[s][f] = Empty /\ \A t \in Slots, g \in Fds : ~(t = s /\ g = f) => U[t][g] = T[t][g]
  OBVIOUS
<1>5. PICK R \in SUBSET Places, W \in SUBSET Places : R = Reads(T, p) /\ W = Writes(T, p)
  BY PlacesFinite
<1>6. /\ Reads(U, p) = R \ {<<s, f>>} /\ Writes(U, p) = W \ {<<s, f>>}
      /\ <<s, f>> \in R <=> p = e.r
      /\ <<s, f>> \in W <=> p = e.w
  <2>1. /\ \A x \in Places : x[1] \in Slots /\ x[2] \in Fds /\ x = <<x[1], x[2]>>
        /\ <<s, f>> \in Places /\ <<s, f>>[1] = s /\ <<s, f>>[2] = f
    BY DEF Places
  <2>2. \A x \in Places : /\ x \in R <=> T[x[1]][x[2]].r = p
                          /\ x \in W <=> T[x[1]][x[2]].w = p
                          /\ x \in Reads(U, p) <=> U[x[1]][x[2]].r = p
                          /\ x \in Writes(U, p) <=> U[x[1]][x[2]].w = p
    BY <1>5 DEF Reads, Writes
  <2>3. Reads(U, p) \in SUBSET Places /\ Writes(U, p) \in SUBSET Places
    BY PlacesFinite
  <2>4. \A x \in Places : x # <<s, f>> => U[x[1]][x[2]] = T[x[1]][x[2]]
    BY <1>4, <2>1
  <2>5. <<s, f>> \notin Reads(U, p) /\ <<s, f>> \notin Writes(U, p)
    BY <1>3, <1>4, <2>1, <2>2
  <2>6. PICK z : z = <<s, f>>
    OBVIOUS
  <2>7. (z \in R <=> p = e.r) /\ (z \in W <=> p = e.w)
    BY <1>1, <2>1, <2>2, <2>6
  <2>8. \A x \in Places : /\ x \in Reads(U, p) <=> x \in R \ {z}
                          /\ x \in Writes(U, p) <=> x \in W \ {z}
    BY <2>2, <2>4, <2>5, <2>6
  <2>9. Reads(U, p) = R \ {z} /\ Writes(U, p) = W \ {z}
    BY <2>3, <2>8, Zenon
  <2> QED
    BY <2>6, <2>7, <2>9
<1>7. Single(U)
  <2> SUFFICES ASSUME NEW t \in Slots, NEW g \in Fds, NEW h \in Fds
               PROVE  /\ U[t][g].r = U[t][h].r /\ U[t][g].r # NoPipe => g = h
                      /\ U[t][g].w = U[t][h].w /\ U[t][g].w # NoPipe => g = h
    BY DEF Single
  <2>1. U[t][g] = T[t][g] \/ U[t][g] = Empty
    BY <1>4
  <2>2. U[t][h] = T[t][h] \/ U[t][h] = Empty
    BY <1>4
  <2> QED
    BY <1>3, <2>1, <2>2 DEF Single
<1>8. /\ r[p] <= P[p].read_count /\ Cardinality(Reads(U, p)) = P[p].read_count - r[p]
      /\ w[p] <= P[p].write_count /\ Cardinality(Writes(U, p)) = P[p].write_count - w[p]
  <2>1. PICK z : z = <<s, f>>
    OBVIOUS
  <2>2. /\ r[p] <= Cardinality(R) /\ Cardinality(R \ {z}) = Cardinality(R) - r[p]
        /\ w[p] <= Cardinality(W) /\ Cardinality(W \ {z}) = Cardinality(W) - w[p]
    <3>1. r[p] = (IF z \in R THEN 1 ELSE 0) /\ w[p] = (IF z \in W THEN 1 ELSE 0)
      BY <1>2, <1>6, <2>1
    <3> QED
      BY <3>1, PlaceRemoved
  <2>3. Cardinality(R) = P[p].read_count /\ Cardinality(W) = P[p].write_count
    BY <1>5 DEF Counted
  <2> QED
    BY <1>6, <2>1, <2>2, <2>3
<1>9. P[p].in_use <=> P[p].read_count + P[p].write_count > 0
  BY DEF Counted
<1>10. PICK y : y = CloseEnds(P, r, w)[p]
  OBVIOUS
<1>11. /\ y.read_count = P[p].read_count - r[p] /\ y.write_count = P[p].write_count - w[p]
       /\ y.in_use <=> y.read_count + y.write_count > 0
  BY <1>2, <1>8, <1>9, <1>10, CloseExact
<1> QED
  BY <1>1, <1>7, <1>8, <1>10, <1>11 DEF Counted

\* Two descriptors are put into empty entries of one table.
Adds(T, U, s, g, h, d, e) ==
  /\ T \in [Slots -> [Fds -> FdEntry]] /\ s \in Slots /\ d \in FdEntry /\ e \in FdEntry
  /\ g \in Fds /\ h \in Fds /\ g # h /\ T[s][g] = Empty /\ T[s][h] = Empty
  /\ U = [T EXCEPT ![s] = [[T[s] EXCEPT ![g] = d] EXCEPT ![h] = e]]

LEMMA EntriesAdded ==
  ASSUME NEW T, NEW U, NEW s, NEW g, NEW h, NEW d, NEW e, Adds(T, U, s, g, h, d, e),
         NEW p \in Pipes
  PROVE  /\ p # d.r /\ p # e.r => Reads(U, p) = Reads(T, p)
         /\ p # d.w /\ p # e.w => Writes(U, p) = Writes(T, p)
         /\ Reads(T, p) = {} /\ p = d.r /\ p # e.r => Reads(U, p) = {<<s, g>>}
         /\ Reads(T, p) = {} /\ p # d.r /\ p = e.r => Reads(U, p) = {<<s, h>>}
         /\ Writes(T, p) = {} /\ p = d.w /\ p # e.w => Writes(U, p) = {<<s, g>>}
         /\ Writes(T, p) = {} /\ p # d.w /\ p = e.w => Writes(U, p) = {<<s, h>>}
<1>0. /\ s \in Slots /\ g \in Fds /\ h \in Fds /\ T[s][g] = Empty /\ T[s][h] = Empty
  BY DEF Adds
<1>1. /\ U[s][g] = d /\ U[s][h] = e
      /\ \A t \in Slots, f \in Fds : ~(t = s /\ f \in {g, h}) => U[t][f] = T[t][f]
  BY DEF Adds
<1>2. Empty.r # p /\ Empty.w # p
  BY DEF Empty, Plain, NoPipe, Pipes
<1>3. /\ \A x \in Places : x[1] \in Slots /\ x[2] \in Fds /\ x = <<x[1], x[2]>>
      /\ <<s, g>> \in Places /\ <<s, g>>[1] = s /\ <<s, g>>[2] = g
      /\ <<s, h>> \in Places /\ <<s, h>>[1] = s /\ <<s, h>>[2] = h
  BY <1>0 DEF Places
<1>4. \A x \in Places : /\ x \in Reads(T, p) <=> T[x[1]][x[2]].r = p
                        /\ x \in Writes(T, p) <=> T[x[1]][x[2]].w = p
                        /\ x \in Reads(U, p) <=> U[x[1]][x[2]].r = p
                        /\ x \in Writes(U, p) <=> U[x[1]][x[2]].w = p
  BY DEF Reads, Writes
<1>5. /\ Reads(U, p) \in SUBSET Places /\ Writes(U, p) \in SUBSET Places
      /\ Reads(T, p) \in SUBSET Places /\ Writes(T, p) \in SUBSET Places
  BY PlacesFinite
<1>6. \A x \in Places : x # <<s, g>> /\ x # <<s, h>> => U[x[1]][x[2]] = T[x[1]][x[2]]
  BY <1>1, <1>3
<1>7. /\ <<s, g>> \in Reads(U, p) <=> d.r = p
      /\ <<s, h>> \in Reads(U, p) <=> e.r = p
      /\ <<s, g>> \in Writes(U, p) <=> d.w = p
      /\ <<s, h>> \in Writes(U, p) <=> e.w = p
  BY <1>1, <1>3, <1>4
<1>8. /\ <<s, g>> \notin Reads(T, p) /\ <<s, h>> \notin Reads(T, p)
      /\ <<s, g>> \notin Writes(T, p) /\ <<s, h>> \notin Writes(T, p)
  BY <1>0, <1>2, <1>3, <1>4
<1>9. \A x \in Places : x # <<s, g>> /\ x # <<s, h>> =>
        /\ x \in Reads(U, p) <=> x \in Reads(T, p)
        /\ x \in Writes(U, p) <=> x \in Writes(T, p)
  BY <1>4, <1>6
<1>10. ASSUME p # d.r, p # e.r PROVE Reads(U, p) = Reads(T, p)
  <2>1. \A x \in Places : x \in Reads(U, p) <=> x \in Reads(T, p)
    BY <1>7, <1>8, <1>9, <1>10
  <2> QED
    BY <1>5, <2>1, Zenon
<1>11. ASSUME p # d.w, p # e.w PROVE Writes(U, p) = Writes(T, p)
  <2>1. \A x \in Places : x \in Writes(U, p) <=> x \in Writes(T, p)
    BY <1>7, <1>8, <1>9, <1>11
  <2> QED
    BY <1>5, <2>1, Zenon
<1>12. ASSUME Reads(T, p) = {}
       PROVE  /\ p = d.r /\ p # e.r => Reads(U, p) = {<<s, g>>}
              /\ p # d.r /\ p = e.r => Reads(U, p) = {<<s, h>>}
  BY <1>5, <1>7, <1>9, <1>12
<1>13. ASSUME Writes(T, p) = {}
       PROVE  /\ p = d.w /\ p # e.w => Writes(U, p) = {<<s, g>>}
              /\ p # d.w /\ p = e.w => Writes(U, p) = {<<s, h>>}
  BY <1>5, <1>7, <1>9, <1>13
<1> QED
  BY <1>10, <1>11, <1>12, <1>13

-----------------------------------------------------------------------------
(***************************************************************************)
(* Descriptors for a new pipe                                              *)
(***************************************************************************)

\* Every non-empty set of natural numbers has a least element.
LEMMA LeastNat ==
  ASSUME NEW S \in SUBSET Nat, S # {}
  PROVE  \E m \in S : \A n \in S : m <= n
<1>1. PICK m \in S : \A n \in S : ~(<<n, m>> \in OpToRel(<, Nat))
  BY NatLessThanWellFounded, WFMin
<1>2. \A n \in S : ~(n < m)
  BY <1>1 DEF OpToRel
<1>3. \A n \in S : m <= n
  BY <1>2
<1> QED
  BY <1>3

\* FdTable::alloc takes exactly one entry, and one that was empty.
LEMMA FdAllocEntry ==
  ASSUME NEW V \in [Fds -> FdEntry], NEW f \in Fds, f >= 3, ~IsOpen(V, f), NEW e
  PROVE  /\ HasFreeFd(V)
         /\ \E g \in Fds : /\ g >= 3 /\ ~IsOpen(V, g) /\ g <= f
                           /\ FdAlloc(V, e) = [V EXCEPT ![g] = e]
<1>1. PICK S : S = {g \in Fds : g >= 3 /\ ~IsOpen(V, g)}
  OBVIOUS
<1>2. S \in SUBSET Nat /\ f \in S /\ Fds \subseteq Nat
  BY <1>1, FdAssumption DEF Fds
<1>3. PICK g \in S : \A h \in S : g <= h
  BY <1>2, LeastNat
<1>4. g \in Fds /\ g >= 3 /\ ~IsOpen(V, g) /\ g <= f
  BY <1>1, <1>2, <1>3
<1>5. IsFreeFd(V, g)
  <2> SUFFICES ASSUME NEW h \in Fds, 3 <= h, h < g PROVE IsOpen(V, h)
    BY <1>4 DEF IsFreeFd
  <2>1. h \in Nat /\ g \in Nat
    BY <1>2, <1>4
  <2>2. h \notin S
    BY <1>3, <2>1
  <2> QED
    BY <1>1, <2>1, <2>2
<1>6. ASSUME NEW h \in Fds, IsFreeFd(V, h) PROVE h = g
  <2>1. h \in Nat /\ g \in Nat /\ h \in S
    BY <1>1, <1>2, <1>4, <1>6 DEF IsFreeFd
  <2>2. g <= h
    BY <1>3, <2>1
  <2>3. ~(g < h)
    BY <1>4, <1>6 DEF IsFreeFd
  <2> QED
    BY <2>1, <2>2, <2>3
<1>7. FdAlloc(V, e) = [V EXCEPT ![g] = e]
  BY <1>4, <1>5, <1>6 DEF FdAlloc
<1>8. HasFreeFd(V)
  BY <1>4, <1>5 DEF HasFreeFd
<1> QED
  BY <1>4, <1>7, <1>8

\* Two empty entries from 3 on.
TwoFree(V) == \E f, g \in Fds : 3 <= f /\ f < g /\ ~IsOpen(V, f) /\ ~IsOpen(V, g)

LEMMA TwoAllocs ==
  ASSUME NEW V \in [Fds -> FdEntry], TwoFree(V), NEW d \in FdEntry, d.kind # "Empty", NEW e
  PROVE  /\ HasFreeFd(V) /\ HasFreeFd(FdAlloc(V, d))
         /\ \E g, h \in Fds : /\ g # h /\ ~IsOpen(V, g) /\ ~IsOpen(V, h)
                              /\ FdAlloc(FdAlloc(V, d), e) = [[V EXCEPT ![g] = d] EXCEPT ![h] = e]
<1>1. PICK f \in Fds, f2 \in Fds : 3 <= f /\ f < f2 /\ ~IsOpen(V, f) /\ ~IsOpen(V, f2)
  BY DEF TwoFree
<1>2. f \in Int /\ f2 \in Int
  BY <1>1, FdAssumption DEF Fds
<1>3. PICK g \in Fds : g >= 3 /\ ~IsOpen(V, g) /\ g <= f /\ FdAlloc(V, d) = [V EXCEPT ![g] = d]
  BY <1>1, <1>2, FdAllocEntry
<1>4. g \in Int /\ HasFreeFd(V) /\ f2 # g /\ f2 >= 3
  BY <1>1, <1>2, <1>3, FdAllocEntry, FdAssumption DEF Fds
<1>5. PICK W \in [Fds -> FdEntry] : W = FdAlloc(V, d) /\ W[g] = d /\ \A i \in Fds : i # g => W[i] = V[i]
  BY <1>3
<1>6. ~IsOpen(W, f2) /\ IsOpen(W, g)
  BY <1>1, <1>4, <1>5 DEF IsOpen
<1>7. /\ HasFreeFd(W)
      /\ \E h \in Fds : h >= 3 /\ ~IsOpen(W, h) /\ h <= f2 /\ FdAlloc(W, e) = [W EXCEPT ![h] = e]
  BY <1>4, <1>6, FdAllocEntry
<1>8. PICK h \in Fds : ~IsOpen(W, h) /\ FdAlloc(W, e) = [W EXCEPT ![h] = e]
  BY <1>7
<1>9. h # g /\ ~IsOpen(V, h)
  BY <1>5, <1>6, <1>8 DEF IsOpen
<1>10. FdAlloc(FdAlloc(V, d), e) = [[V EXCEPT ![g] = d] EXCEPT ![h] = e]
  BY <1>3, <1>5, <1>8
<1>11. HasFreeFd(FdAlloc(V, d))
  BY <1>5, <1>7
<1> QED
  BY <1>3, <1>4, <1>9, <1>10, <1>11

\* No descriptor refers to q.
NoRefs(T, q) == \A s \in Slots, f \in Fds : T[s][f].r # q /\ T[s][f].w # q

\* An entry that is not open refers to nothing; one that is, from 3 on, to a pipe.
PipeEntries(T) ==
  \A s \in Slots, f \in Fds :
    /\ ~IsOpen(T[s], f) => T[s][f] = Empty
    /\ IsOpen(T[s], f) /\ f >= 3 => T[s][f].r # NoPipe \/ T[s][f].w # NoPipe

LEMMA FreeHasNone ==
  ASSUME NEW x \in PipeSlot, NEW T, NEW p \in Pipes, Counted(x, T, p), ~x.in_use
  PROVE  Reads(T, p) = {} /\ Writes(T, p) = {} /\ NoRefs(T, p)
<1>1. x.read_count \in Nat /\ x.write_count \in Nat
  BY DEF PipeSlot
<1>2. ~(x.read_count + x.write_count > 0)
  BY Zenon DEF Counted
<1>3. x.read_count = 0 /\ x.write_count = 0
  BY <1>1, <1>2
<1>4. Reads(T, p) = {} /\ Writes(T, p) = {}
  BY <1>3, PlacesFinite, FS_EmptySet DEF Counted
<1>5. ASSUME NEW s \in Slots, NEW f \in Fds PROVE T[s][f].r # p /\ T[s][f].w # p
  <2>1. <<s, f>> \in Places /\ <<s, f>> \notin Reads(T, p) /\ <<s, f>> \notin Writes(T, p)
    BY <1>4 DEF Places
  <2>2. <<s, f>>[1] = s /\ <<s, f>>[2] = f
    OBVIOUS
  <2> QED
    BY <2>1, <2>2 DEF Reads, Writes
<1> QED
  BY <1>4, <1>5 DEF NoRefs

LEMMA SingleAdded ==
  ASSUME NEW T, NEW U, NEW s, NEW g, NEW h, NEW d, NEW e, Adds(T, U, s, g, h, d, e),
         d.kind # "Empty", e.kind # "Empty",
         d.r # NoPipe \/ d.w # NoPipe, e.r # NoPipe \/ e.w # NoPipe,
         \A q \in {d.r, d.w, e.r, e.w} : q = NoPipe \/ NoRefs(T, q),
         d.r = e.r => d.r = NoPipe, d.w = e.w => d.w = NoPipe,
         Single(T), PipeEntries(T)
  PROVE  Single(U) /\ PipeEntries(U)
<1>1. /\ U[s][g] = d /\ U[s][h] = e
      /\ \A t \in Slots, f \in Fds : ~(t = s /\ f \in {g, h}) => U[t][f] = T[t][f]
  BY DEF Adds
<1>2. Single(U)
  <2> SUFFICES ASSUME NEW t \in Slots, NEW a \in Fds, NEW b \in Fds
               PROVE  /\ U[t][a].r = U[t][b].r /\ U[t][a].r # NoPipe => a = b
                      /\ U[t][a].w = U[t][b].w /\ U[t][a].w # NoPipe => a = b
    BY DEF Single
  <2>1. CASE ~(t = s /\ a \in {g, h}) /\ ~(t = s /\ b \in {g, h})
    BY <1>1, <2>1 DEF Single
  <2>2. CASE t = s /\ a \in {g, h} /\ b \in {g, h}
    BY <1>1, <2>2
  <2>3. CASE t = s /\ a \in {g, h} /\ b \notin {g, h}
    BY <1>1, <2>3 DEF NoRefs
  <2>4. CASE t = s /\ a \notin {g, h} /\ b \in {g, h}
    BY <1>1, <2>4 DEF NoRefs
  <2> QED
    BY <2>1, <2>2, <2>3, <2>4
<1>3. PipeEntries(U)
  <2> SUFFICES ASSUME NEW t \in Slots, NEW f \in Fds
               PROVE  /\ ~IsOpen(U[t], f) => U[t][f] = Empty
                      /\ IsOpen(U[t], f) /\ f >= 3 => U[t][f].r # NoPipe \/ U[t][f].w # NoPipe
    BY DEF PipeEntries
  <2> QED
    BY <1>1 DEF PipeEntries, IsOpen
<1> QED
  BY <1>2, <1>3

\* What the system calls that bring a pipe into use do to the counts.
AllCounted(P, T) == \A p \in Pipes : Counted(P[p], T, p)

LEMMA FreshCounted ==
  ASSUME NEW U, NEW p, NEW x, NEW y, Reads(U, p) = {x}, Writes(U, p) = {y}
  PROVE  Counted(FreshPipe, U, p)
<1>1. Cardinality(Reads(U, p)) = 1 /\ Cardinality(Writes(U, p)) = 1
  BY FS_Singleton
<1> QED
  BY <1>1 DEF Counted, FreshPipe

LEMMA PipeCounted ==
  ASSUME TypeOK, AllCounted(pool, fds), Single(fds), PipeEntries(fds), TwoFree(Table), sys_pipe
  PROVE  AllCounted(pool', fds') /\ Single(fds') /\ PipeEntries(fds')
<1>0. current \in Slots /\ fds \in [Slots -> [Fds -> FdEntry]] /\ pool \in [Pipes -> PipeSlot]
  BY DEF TypeOK
<1>1. PICK i \in Pipes :
        /\ IsFreePipe(pool, i)
        /\ fds' = [fds EXCEPT ![current] = FdAlloc(FdAlloc(Table, PipeRead(i)), PipeWrite(i))]
        /\ pool' = IF HasFreeFd(Table) /\ HasFreeFd(FdAlloc(Table, PipeRead(i)))
                   THEN AllocPipe(pool, i)
                   ELSE CloseEnds(AllocPipe(pool, i), One(i), One(i))
  BY DEF sys_pipe
<1>2. PICK d \in FdEntry, e \in FdEntry, V \in [Fds -> FdEntry] :
        d = PipeRead(i) /\ e = PipeWrite(i) /\ V = Table
  BY <1>0, EntryType DEF Table
<1>3. /\ d.kind # "Empty" /\ e.kind # "Empty" /\ d.r = i /\ d.w = NoPipe /\ e.r = NoPipe /\ e.w = i
      /\ i # NoPipe
  BY <1>2 DEF PipeRead, PipeWrite, Pipes, NoPipe
<1>4. /\ HasFreeFd(V) /\ HasFreeFd(FdAlloc(V, d))
      /\ \E g, h \in Fds : /\ g # h /\ ~IsOpen(V, g) /\ ~IsOpen(V, h)
                           /\ FdAlloc(FdAlloc(V, d), e) = [[V EXCEPT ![g] = d] EXCEPT ![h] = e]
  BY <1>2, <1>3, TwoAllocs
<1>5. PICK g \in Fds, h \in Fds :
        /\ g # h /\ ~IsOpen(V, g) /\ ~IsOpen(V, h)
        /\ FdAlloc(FdAlloc(V, d), e) = [[V EXCEPT ![g] = d] EXCEPT ![h] = e]
  BY <1>4
<1>6. PICK T, U, s : T = fds /\ U = fds' /\ s = current
  OBVIOUS
<1>7. U = [T EXCEPT ![s] = [[T[s] EXCEPT ![g] = d] EXCEPT ![h] = e]] /\ V = T[s]
  BY <1>1, <1>2, <1>5, <1>6 DEF Table
<1>8. Adds(T, U, s, g, h, d, e)
  <2>1. T[s][g] = Empty /\ T[s][h] = Empty
    BY <1>0, <1>5, <1>6, <1>7 DEF PipeEntries
  <2> QED
    BY <1>0, <1>5, <1>6, <1>7, <2>1 DEF Adds
<1>9. pool' = AllocPipe(pool, i)
  BY <1>1, <1>2, <1>4
<1>10. Reads(T, i) = {} /\ Writes(T, i) = {} /\ NoRefs(T, i)
  BY <1>0, <1>1, <1>6, FreeHasNone DEF IsFreePipe, AllCounted
<1>11. Single(U) /\ PipeEntries(U)
  <2>1. /\ \A q \in {d.r, d.w, e.r, e.w} : q = NoPipe \/ NoRefs(T, q)
        /\ d.r # NoPipe \/ d.w # NoPipe
        /\ e.r # NoPipe \/ e.w # NoPipe
    BY <1>3, <1>10
  <2>2. Single(T) /\ PipeEntries(T) /\ (d.r = e.r => d.r = NoPipe) /\ (d.w = e.w => d.w = NoPipe)
    BY <1>3, <1>6
  <2> QED
    BY <1>3, <1>8, <2>1, <2>2, SingleAdded
<1>12. ASSUME NEW p \in Pipes PROVE Counted(pool'[p], U, p)
  <2>1. p # NoPipe
    BY DEF Pipes, NoPipe
  <2>2. CASE p = i
    <3>1. Reads(U, p) = {<<s, g>>} /\ Writes(U, p) = {<<s, h>>}
      BY <1>3, <1>8, <1>10, <2>1, <2>2, EntriesAdded
    <3>2. pool'[p] = FreshPipe
      BY <1>0, <1>9, <2>2, AllocOne
    <3> QED
      BY <3>1, <3>2, FreshCounted
  <2>3. CASE p # i
    <3>1. Reads(U, p) = Reads(T, p) /\ Writes(U, p) = Writes(T, p)
      BY <1>3, <1>8, <2>1, <2>3, EntriesAdded
    <3>2. pool'[p] = pool[p] /\ Counted(pool[p], T, p)
      BY <1>0, <1>6, <1>9, <2>3, AllocOne DEF AllCounted
    <3> QED
      BY <3>1, <3>2 DEF Counted
  <2> QED
    BY <2>2, <2>3
<1> QED
  BY <1>6, <1>11, <1>12 DEF AllCounted

LEMMA SocketPairCounted ==
  ASSUME TypeOK, AllCounted(pool, fds), Single(fds), PipeEntries(fds), TwoFree(Table),
         sys_socketpair
  PROVE  AllCounted(pool', fds') /\ Single(fds') /\ PipeEntries(fds')
<1>0. current \in Slots /\ fds \in [Slots -> [Fds -> FdEntry]] /\ pool \in [Pipes -> PipeSlot]
  BY DEF TypeOK
<1>1. PICK a \in Pipes :
        /\ IsFreePipe(pool, a)
        /\ \/ \E b \in Pipes : IsFreePipe(AllocPipe(pool, a), b) /\ SocketPipes(a, b)
           \/ pool' = CloseEnds(AllocPipe(pool, a), One(a), One(a)) /\ fds' = fds
  BY DEF sys_socketpair
<1>2. PICK P \in [Pipes -> PipeSlot] : P = AllocPipe(pool, a)
  BY <1>0, AllocType
<1>3. P[a] = FreshPipe /\ \A p \in Pipes : p # a => P[p] = pool[p]
  BY <1>0, <1>2, AllocOne
<1>4. ~pool[a].in_use /\ FreshPipe.in_use /\ FreshPipe.read_count = 1 /\ FreshPipe.write_count = 1
  BY <1>1 DEF IsFreePipe, FreshPipe
<1>5. CASE pool' = CloseEnds(AllocPipe(pool, a), One(a), One(a)) /\ fds' = fds
  <2>1. ASSUME NEW p \in Pipes PROVE Counted(pool'[p], fds, p)
    <3>1. PICK o \in [Pipes -> Nat] : o = One(a) /\ o[p] = IF p = a THEN 1 ELSE 0
      BY OneOf
    <3>2. PICK y : y = CloseEnds(P, o, o)[p] /\ y = pool'[p]
      BY <1>2, <1>5, <3>1
    <3>3. CASE p # a
      <4>0. o[p] = 0 /\ P[p] = pool[p]
        BY <1>3, <3>1, <3>3
      <4>1. y = pool[p]
        BY <3>2, <4>0, CloseOne
      <4> QED
        BY <3>2, <4>1 DEF AllCounted
    <3>4. CASE p = a
      <4>0. P[p].in_use <=> P[p].read_count + P[p].write_count > 0
        BY <1>3, <1>4, <3>4
      <4>1. P[p].read_count - o[p] = 0 /\ P[p].write_count - o[p] = 0
        BY <1>3, <1>4, <3>1, <3>4
      <4>2. o[p] <= P[p].read_count /\ o[p] <= P[p].write_count
        BY <1>3, <1>4, <3>1, <3>4
      <4>3. /\ y.read_count = P[p].read_count - o[p] /\ y.write_count = P[p].write_count - o[p]
            /\ y.in_use <=> y.read_count + y.write_count > 0
        <5>1. PICK Q : Q = CloseEnds(P, o, o)
          OBVIOUS
        <5>2. /\ Q[p].read_count = P[p].read_count - o[p]
              /\ Q[p].write_count = P[p].write_count - o[p]
              /\ Q[p].in_use <=> Q[p].read_count + Q[p].write_count > 0
          BY <4>0, <4>2, <5>1, CloseExact, Zenon
        <5> QED
          BY <3>2, <5>1, <5>2
      <4>4. Cardinality(Reads(fds, p)) = 0 /\ Cardinality(Writes(fds, p)) = 0
        <5>1. Reads(fds, p) = {} /\ Writes(fds, p) = {}
          BY <1>0, <1>4, <3>4, FreeHasNone DEF AllCounted
        <5> QED
          BY <5>1, FS_EmptySet
      <4> QED
        BY <3>2, <4>1, <4>3, <4>4 DEF Counted
    <3> QED
      BY <3>3, <3>4
  <2> QED
    BY <1>5, <2>1 DEF AllCounted
<1>6. ASSUME NEW b \in Pipes, IsFreePipe(P, b), SocketPipes(a, b)
      PROVE  AllCounted(pool', fds') /\ Single(fds') /\ PipeEntries(fds')
  <2>1. b # a /\ ~pool[b].in_use
    <3>1. ~P[b].in_use
      BY <1>6 DEF IsFreePipe
    <3> QED
      BY <1>3, <1>4, <3>1, Zenon
  <2>2. PICK d \in FdEntry, e \in FdEntry, V \in [Fds -> FdEntry] :
          d = SocketPair(a, b) /\ e = SocketPair(b, a) /\ V = Table
    BY <1>0, EntryType DEF Table
  <2>3. /\ d.kind # "Empty" /\ e.kind # "Empty" /\ d.r = a /\ d.w = b /\ e.r = b /\ e.w = a
    BY <2>2 DEF SocketPair
  <2>4. /\ HasFreeFd(V) /\ HasFreeFd(FdAlloc(V, d))
        /\ \E g, h \in Fds : /\ g # h /\ ~IsOpen(V, g) /\ ~IsOpen(V, h)
                             /\ FdAlloc(FdAlloc(V, d), e) = [[V EXCEPT ![g] = d] EXCEPT ![h] = e]
    BY <2>2, <2>3, TwoAllocs
  <2>5. PICK g \in Fds, h \in Fds :
          /\ g # h /\ ~IsOpen(V, g) /\ ~IsOpen(V, h)
          /\ FdAlloc(FdAlloc(V, d), e) = [[V EXCEPT ![g] = d] EXCEPT ![h] = e]
    BY <2>4
  <2>6. PICK T, U, s : T = fds /\ U = fds' /\ s = current
    OBVIOUS
  <2>7. U = [T EXCEPT ![s] = [[T[s] EXCEPT ![g] = d] EXCEPT ![h] = e]] /\ V = T[s]
    BY <1>6, <2>2, <2>5, <2>6 DEF Table, SocketPipes
  <2>8. Adds(T, U, s, g, h, d, e)
    <3>1. T[s][g] = Empty /\ T[s][h] = Empty
      BY <1>0, <2>5, <2>6, <2>7 DEF PipeEntries
    <3> QED
      BY <1>0, <2>5, <2>6, <2>7, <3>1 DEF Adds
  <2>9. pool' = AllocPipe(P, b)
    BY <1>2, <1>6, <2>2, <2>4 DEF SocketPipes
  <2>10. /\ Reads(T, a) = {} /\ Writes(T, a) = {} /\ NoRefs(T, a)
         /\ Reads(T, b) = {} /\ Writes(T, b) = {} /\ NoRefs(T, b)
    BY <1>0, <1>4, <2>1, <2>6, FreeHasNone DEF AllCounted
  <2>11. Single(U) /\ PipeEntries(U)
    <3>1. /\ \A q \in {d.r, d.w, e.r, e.w} : q = NoPipe \/ NoRefs(T, q)
          /\ d.r # NoPipe \/ d.w # NoPipe
          /\ e.r # NoPipe \/ e.w # NoPipe
      BY <2>3, <2>10 DEF Pipes, NoPipe
    <3>2. Single(T) /\ PipeEntries(T) /\ (d.r = e.r => d.r = NoPipe) /\ (d.w = e.w => d.w = NoPipe)
      BY <2>1, <2>3, <2>6
    <3> QED
      BY <2>3, <2>8, <3>1, <3>2, SingleAdded
  <2>12. ASSUME NEW p \in Pipes PROVE Counted(pool'[p], U, p)
    <3>1. CASE p = a
      <4>1. Reads(U, p) = {<<s, g>>} /\ Writes(U, p) = {<<s, h>>}
        BY <2>1, <2>3, <2>8, <2>10, <3>1, EntriesAdded
      <4>2. pool'[p] = FreshPipe
        BY <1>3, <2>1, <2>9, <3>1, AllocOne
      <4> QED
        BY <4>1, <4>2, FreshCounted
    <3>2. CASE p = b
      <4>1. Reads(U, p) = {<<s, h>>} /\ Writes(U, p) = {<<s, g>>}
        BY <2>1, <2>3, <2>8, <2>10, <3>2, EntriesAdded
      <4>2. pool'[p] = FreshPipe
        BY <2>9, <3>2, AllocOne
      <4> QED
        BY <4>1, <4>2, FreshCounted
    <3>3. CASE p # a /\ p # b
      <4>1. Reads(U, p) = Reads(T, p) /\ Writes(U, p) = Writes(T, p)
        BY <2>3, <2>8, <3>3, EntriesAdded
      <4>2. pool'[p] = pool[p] /\ Counted(pool[p], T, p)
        BY <1>3, <2>6, <2>9, <3>3, AllocOne DEF AllCounted
      <4> QED
        BY <4>1, <4>2 DEF Counted
    <3> QED
      BY <3>1, <3>2, <3>3
  <2> QED
    BY <2>6, <2>11, <2>12 DEF AllCounted
<1> QED
  BY <1>1, <1>2, <1>5, <1>6

LEMMA CloseCounted ==
  ASSUME TypeOK, AllCounted(pool, fds), Single(fds), PipeEntries(fds), NEW f \in Handles, sys_close(f)
  PROVE  AllCounted(pool', fds') /\ Single(fds') /\ PipeEntries(fds')
<1>1. /\ current \in Slots /\ fds \in [Slots -> [Fds -> FdEntry]] /\ pool \in [Pipes -> PipeSlot]
      /\ f \in Fds
  BY KernelAssumption DEF TypeOK
<1>2. PICK T, U, s : T = fds /\ U = fds' /\ s = current
  OBVIOUS
<1>3. /\ pool' = CloseEnds(pool, One(T[s][f].r), One(T[s][f].w))
      /\ U = [T EXCEPT ![s][f] = Empty]
  BY <1>2 DEF sys_close, Table
<1>4. T \in [Slots -> [Fds -> FdEntry]] /\ s \in Slots /\ Single(T) /\ PipeEntries(T)
  BY <1>1, <1>2
<1>5. PipeEntries(U)
  <2>1. \A t \in Slots, g \in Fds : U[t][g] = T[t][g] \/ U[t][g] = Empty
    BY <1>1, <1>3, <1>4
  <2>2. Empty.kind = "Empty"
    BY DEF Empty, Plain
  <2> QED
    BY <1>4, <2>1, <2>2 DEF PipeEntries, IsOpen
<1>6. ASSUME NEW p \in Pipes PROVE Counted(pool'[p], U, p)
  <2>1. Counted(pool[p], T, p)
    BY <1>2 DEF AllCounted
  <2>2. Counted(CloseEnds(pool, One(T[s][f].r), One(T[s][f].w))[p], U, p)
    BY <1>1, <1>3, <1>4, <2>1, EntryClosed
  <2> QED
    BY <1>3, <2>2
<1>7. Single(U)
  <2>1. Empty.r = NoPipe /\ Empty.w = NoPipe
    BY DEF Empty, Plain
  <2>2. \A t \in Slots, g \in Fds : U[t][g] = T[t][g] \/ U[t][g] = Empty
    BY <1>1, <1>3, <1>4
  <2> QED
    BY <1>4, <2>1, <2>2 DEF Single
<1> QED
  BY <1>2, <1>5, <1>6, <1>7 DEF AllCounted

\* exit, and a kill: every descriptor of the tasks of S is closed.
LEMMA DeathCounted ==
  ASSUME TypeOK, AllCounted(pool, fds), Single(fds), PipeEntries(fds), NEW S \in SUBSET Slots,
         fds' = [s \in Slots |-> IF s \in S THEN ClosedTable ELSE fds[s]],
         pool' = CloseEnds(pool, ReadRefs(fds, S), WriteRefs(fds, S))
  PROVE  AllCounted(pool', fds') /\ Single(fds') /\ PipeEntries(fds')
<1>1. pool \in [Pipes -> PipeSlot]
  BY DEF TypeOK
<1>2. PICK T, U : T = fds /\ U = fds'
  OBVIOUS
<1>3. \A f \in Fds : ClosedTable[f] = Empty
  BY DEF ClosedTable
<1>4. Empty.r = NoPipe /\ Empty.w = NoPipe
  BY DEF Empty, Plain
<1>5. U = [s \in Slots |-> IF s \in S THEN ClosedTable ELSE T[s]] /\ Single(T) /\ PipeEntries(T)
  BY <1>2
<1>6. \A s \in Slots : (\A f \in Fds : U[s][f] = Empty) \/ U[s] = T[s]
  BY <1>3, <1>5
<1>7. Single(U)
  BY <1>4, <1>5, <1>6 DEF Single
<1>8. PipeEntries(U)
  <2>1. Empty.kind = "Empty"
    BY DEF Empty, Plain
  <2> QED
    BY <1>5, <1>6, <2>1 DEF PipeEntries, IsOpen
<1>9. ASSUME NEW p \in Pipes PROVE Counted(pool'[p], U, p)
  <2>1. Counted(pool[p], T, p)
    BY <1>2 DEF AllCounted
  <2>2. Counted(CloseEnds(pool, ReadRefs(T, S), WriteRefs(T, S))[p], U, p)
    BY <1>1, <1>5, <2>1, TablesClosed
  <2> QED
    BY <1>2, <2>2
<1> QED
  BY <1>2, <1>7, <1>8, <1>9 DEF AllCounted

LEMMA ForkCounted ==
  ASSUME MaxTasks <= MaxRefs, TypeOK, AllCounted(pool, fds), Single(fds), PipeEntries(fds),
         state[current] = "Ready", \A s \in Slots : Vacant(s) => fds[s] = ClosedTable, sys_fork
  PROVE  AllCounted(pool', fds') /\ Single(fds') /\ PipeEntries(fds')
<1>1. /\ current \in Slots /\ fds \in [Slots -> [Fds -> FdEntry]] /\ pool \in [Pipes -> PipeSlot]
  BY DEF TypeOK
<1>2. PICK c \in UserSlots : /\ Vacant(c)
                             /\ fds' = [fds EXCEPT ![c] = fds[current]]
                             /\ pool' = DupEnds(pool, ReadRefs(fds, {current}), WriteRefs(fds, {current}))
  BY DEF sys_fork, spawn_fork, IsVacantSlot
<1>3. c \in Slots /\ c # current
  BY <1>2, CtxsOf DEF Vacant
<1>4. PICK T, U, s : T = fds /\ U = fds' /\ s = current
  OBVIOUS
<1>5. /\ U = [T EXCEPT ![c] = T[s]] /\ T[c] = ClosedTable /\ s \in Slots /\ s # c
      /\ T \in [Slots -> [Fds -> FdEntry]] /\ Single(T) /\ PipeEntries(T)
  BY <1>1, <1>2, <1>3, <1>4
<1>6. DOMAIN T = Slots
  BY <1>5
<1>7. \A t \in Slots : \E v \in Slots : U[t] = T[v]
  BY <1>3, <1>5
<1>8. Single(U) /\ PipeEntries(U)
  BY <1>5, <1>7 DEF Single, PipeEntries
<1>9. ASSUME NEW p \in Pipes PROVE Counted(pool'[p], U, p)
  <2>1. Counted(pool[p], T, p)
    BY <1>4 DEF AllCounted
  <2>2. Counted(DupEnds(pool, ReadRefs(T, {s}), WriteRefs(T, {s}))[p], U, p)
    BY <1>1, <1>3, <1>5, <1>6, <2>1, TableCopied
  <2> QED
    BY <1>2, <1>4, <2>2
<1> QED
  BY <1>4, <1>8, <1>9 DEF AllCounted

-----------------------------------------------------------------------------
(***************************************************************************)
(* The running task is Ready                                               *)
(***************************************************************************)
LEMMA ReadyNext ==
  ASSUME IInv, Harmless, state[current] = "Ready", [Next]_vars PROVE state'[current'] = "Ready"
<1>1. CASE UNCHANGED vars
  BY <1>1 DEF vars, taskVars, cpuVars
<1>2. CASE tick
  <2>1. \/ deliver_all_signals \/ state' = state
    BY <1>2 DEF tick
  <2>2. state'[current] = "Ready"
    BY <2>1, NobodyKilled, CtxsOf DEF deliver_all_signals, IInv
  <2> QED
    BY <1>2, <2>2, TickShape
<1>3. CASE Next /\ ~tick
  <2>1. Shape
    BY <1>3, SyscallShape, KernelLoopShape, InterruptShape DEF Next, Interrupt
  <2> QED
    BY <2>1 DEF Shape
<1> QED
  BY <1>1, <1>2, <1>3

\* Nobody is killed while it runs: with the latch of the controller a tick
\* comes only in the idle loop, and without lethal signals nobody is killed.
LEMMA CurrentReady ==
  ASSUME Pic \/ NoLethal PROVE Spec => [](state[current] = "Ready")
<1>1. CASE Pic
  <2>1. PicInv => state[current] = "Ready"
    BY DEF PicInv
  <2> QED
    BY <1>1, <2>1, PicHolds, PTL
<1>2. CASE NoLethal
  <2>1. Init => Harmless /\ state[current] = "Ready"
    BY SchedulerAssumption DEF Init, Harmless, Slots
  <2>2. TypeOK /\ Harmless /\ [Next]_vars => Harmless'
    BY <1>2, HarmlessNext
  <2>3. IInv /\ Harmless /\ state[current] = "Ready" /\ [Next]_vars => (state[current] = "Ready")'
    BY ReadyNext
  <2>4. Spec => []Harmless
    BY <2>1, <2>2, TypeCorrect, PTL DEF Spec
  <2> QED
    BY <2>1, <2>3, <2>4, InvCorrect, PTL DEF Spec
<1> QED
  BY <1>1, <1>2

-----------------------------------------------------------------------------
(***************************************************************************)
(* The counts are exact                                                    *)
(***************************************************************************)
CountInv ==
  /\ AllCounted(pool, fds) /\ Single(fds) /\ PipeEntries(fds)
  /\ \A s \in Slots : Vacant(s) => fds[s] = ClosedTable

\* The ends of a pipe are left as they were.
SameEnds(p) ==
  /\ pool'[p].read_count = pool[p].read_count /\ pool'[p].write_count = pool[p].write_count
  /\ pool'[p].in_use = pool[p].in_use

\* Every step but seven leaves the descriptors and the counts alone, and ends
\* no task.
QuietStep ==
  /\ fds' = fds /\ \A p \in Pipes : SameEnds(p)
  /\ \A s \in Slots : state'[s] \in {"None", "Zombie"} => Vacant(s)

LEMMA UnwokenVacant ==
  ASSUME TypeOK, NEW S, state' = Wake(state, S)
  PROVE  \A s \in Slots : state'[s] \in {"None", "Zombie"} => Vacant(s)
  BY DEF Wake, Vacant

LEMMA SamePool ==
  ASSUME pool' = pool PROVE \A p \in Pipes : SameEnds(p)
  BY DEF SameEnds

LEMMA MovedBytes ==
  ASSUME TypeOK, NEW i, NEW n, pool' = [pool EXCEPT ![i].len = n]
  PROVE  \A p \in Pipes : SameEnds(p)
<1> TAKE p \in Pipes
<1>1. pool[p] \in PipeSlot /\ pool \in [Pipes -> PipeSlot]
  BY DEF TypeOK
<1>2. CASE p = i
  BY <1>1, <1>2 DEF SameEnds, PipeSlot
<1>3. CASE p # i
  BY <1>1, <1>3 DEF SameEnds
<1> QED
  BY <1>2, <1>3

LEMMA QuietSyscall ==
  ASSUME IInv, Syscall, {"dup", "dup2"} \cap Ops = {}
  PROVE  \/ sys_fork \/ exit_current \/ sys_pipe \/ sys_socketpair
         \/ \E f \in Handles : sys_close(f)
         \/ QuietStep
<1> USE DEF taskVars, cpuVars, irqVars, ipcVars, ttyVars
<1>0. TypeOK
  BY DEF IInv
<1>1. ASSUME UNCHANGED <<state, fds, pool>> PROVE QuietStep
  BY <1>1, SamePool DEF QuietStep, Vacant
<1>2. ASSUME NEW target, NEW sig, sys_kill(target, sig) PROVE exit_current \/ QuietStep
  <2>1. CASE raise_signal_to_pid(target, sig) /\ UNCHANGED <<fds, pool>>
    <3>1. \A s \in Slots : state'[s] \in {"None", "Zombie"} => Vacant(s)
      BY <1>0, <2>1, UnwokenVacant DEF raise_signal_to_pid
    <3> QED
      BY <2>1, <3>1, SamePool DEF QuietStep
  <2> QED
    BY <1>2, <2>1 DEF sys_kill
<1>3. ASSUME NEW f, sys_write(f) PROVE QuietStep
  <2>1. PICK i, n : pool' = [pool EXCEPT ![i].len = n]
    BY <1>3 DEF sys_write
  <2>2. PICK S : state' = Wake(state, S)
    BY <1>3 DEF sys_write, wake_pipe_waiters
  <2>3. fds' = fds
    BY <1>3 DEF sys_write
  <2> QED
    BY <1>0, <2>1, <2>2, <2>3, MovedBytes, UnwokenVacant DEF QuietStep
<1>4. \/ sys_fork \/ exit_current \/ sys_pipe \/ sys_socketpair
      \/ \E f \in Handles : sys_close(f) \/ sys_write(f)
      \/ \E target \in 0 .. MaxPid, sig \in KillSigs : sys_kill(target, sig)
      \/ UNCHANGED <<state, fds, pool>>
  BY DEF Syscall, sys_exit, sys_wait4, sys_yield, sys_nanosleep, sys_dup, sys_read,
         sys_dup2, Calls, EnterLoop
<1> QED
  BY <1>1, <1>2, <1>3, <1>4

LEMMA QuietLoop ==
  ASSUME IInv, KernelLoop PROVE Reap \/ QuietStep
<1> USE DEF taskVars, cpuVars, irqVars, ipcVars, ttyVars
<1>0. TypeOK
  BY DEF IInv
<1>1. ASSUME UNCHANGED <<fds, pool>>, state' = state \/ state' = [state EXCEPT ![current] = "Blocked"]
      PROVE QuietStep
  <2>1. \A s \in Slots : state'[s] \in {"None", "Zombie"} => Vacant(s)
    BY <1>0, <1>1 DEF Vacant, TypeOK
  <2> QED
    BY <1>1, <2>1, SamePool DEF QuietStep
<1>2. ASSUME PipeReadTakes PROVE QuietStep
  <2>1. PICK i, n : pool' = [pool EXCEPT ![i].len = n]
    BY <1>2 DEF PipeReadTakes
  <2> QED
    BY <1>0, <1>2, <2>1, MovedBytes DEF QuietStep, PipeReadTakes, Vacant
<1>3. \/ Reap \/ PipeReadTakes
      \/ UNCHANGED <<fds, pool>> /\ (state' = state \/ state' = [state EXCEPT ![current] = "Blocked"])
  BY DEF KernelLoop, WaitReturns, WaitBlocks, PipeReadEof, PipeReadBlocks, block_on_pipe,
         TtyReadSerial, TtyReadKey, TtyReadBlocks, block_on_tty, sleep_ticks
<1> QED
  BY <1>1, <1>2, <1>3

LEMMA QuietInterrupt ==
  ASSUME IInv, Interrupt PROVE deliver_all_signals \/ QuietStep
<1> USE DEF taskVars, cpuVars, irqVars, ipcVars, ttyVars
<1>0. TypeOK
  BY DEF IInv
<1>1. ASSUME UNCHANGED <<fds, pool>>, \E S : state' = Wake(state, S) PROVE QuietStep
  BY <1>0, <1>1, SamePool, UnwokenVacant DEF QuietStep
<1>2. ASSUME UNCHANGED <<state, fds, pool>> PROVE QuietStep
  BY <1>2, SamePool DEF QuietStep, Vacant
<1>3. \/ deliver_all_signals
      \/ UNCHANGED <<state, fds, pool>>
      \/ UNCHANGED <<fds, pool>> /\ \E S : state' = Wake(state, S)
  BY DEF Interrupt, tick, TimerReturn, SerialIrq, KeyboardIrq, wake_tty_waiter
<1> QED
  BY <1>1, <1>2, <1>3

\* Every pipe() and every socketpair() finds two free descriptors.
Roomy == sys_pipe \/ sys_socketpair => TwoFree(Table)

LEMMA CountInit == Init => CountInv
<1> SUFFICES ASSUME Init PROVE CountInv
  OBVIOUS
<1>1. /\ pool = [p \in Pipes |-> NewSlot]
      /\ \A s \in Slots : /\ fds[s] = IF s <= 1 THEN NewTable ELSE ClosedTable
                          /\ state[s] = IF s <= 1 THEN "Ready" ELSE "None"
  BY DEF Init
<1>2. \A f \in Fds : /\ ClosedTable[f] = Empty
                     /\ NewTable[f] = Empty \/ (f < 3 /\ NewTable[f].kind # "Empty")
                     /\ NewTable[f].r = NoPipe /\ NewTable[f].w = NoPipe
  <2> TAKE f \in Fds
  <2>1. f \in Int
    BY FdAssumption DEF Fds
  <2>2. /\ f = 0 => NewTable[f] = Plain("Stdin")
        /\ f = 1 => NewTable[f] = Plain("Stdout")
        /\ f = 2 => NewTable[f] = Plain("Stderr")
        /\ f \notin {0, 1, 2} => NewTable[f] = Empty
    BY DEF NewTable
  <2> QED
    BY <2>1, <2>2 DEF ClosedTable, Plain, Empty
<1>3. Empty.r = NoPipe /\ Empty.w = NoPipe /\ Empty.kind = "Empty"
  BY DEF Empty, Plain
<1>4. \A s \in Slots, f \in Fds : /\ fds[s][f].r = NoPipe /\ fds[s][f].w = NoPipe
                                  /\ fds[s][f] = Empty \/ (f < 3 /\ fds[s][f].kind # "Empty")
  BY <1>1, <1>2, <1>3
<1>5. Single(fds)
  BY <1>4 DEF Single
<1>6. PipeEntries(fds)
  <2>1. \A f \in Fds : f \in Int
    BY FdAssumption DEF Fds
  <2> QED
    BY <1>3, <1>4, <2>1 DEF PipeEntries, IsOpen
<1>7. ASSUME NEW p \in Pipes PROVE Counted(pool[p], fds, p)
  <2>1. p # NoPipe
    BY DEF Pipes, NoPipe
  <2>2. Reads(fds, p) = {} /\ Writes(fds, p) = {}
    BY <1>4, <2>1 DEF Reads, Writes, Places
  <2>3. Cardinality(Reads(fds, p)) = 0 /\ Cardinality(Writes(fds, p)) = 0
    BY <2>2, FS_EmptySet
  <2>4. pool[p] = NewSlot
    BY <1>1
  <2> QED
    BY <2>3, <2>4 DEF Counted, NewSlot
<1>8. \A s \in Slots : Vacant(s) => fds[s] = ClosedTable
  BY <1>1 DEF Vacant
<1> QED
  BY <1>5, <1>6, <1>7, <1>8 DEF CountInv, AllCounted

LEMMA CountNext ==
  ASSUME MaxTasks <= MaxRefs, {"dup", "dup2"} \cap Ops = {},
         IInv, state[current] = "Ready", CountInv, [Next]_vars, [Roomy]_vars
  PROVE  CountInv'
<1> USE DEF taskVars, cpuVars, irqVars, ipcVars, ttyVars
<1>0. /\ TypeOK /\ AllCounted(pool, fds) /\ Single(fds) /\ PipeEntries(fds)
      /\ \A s \in Slots : Vacant(s) => fds[s] = ClosedTable
      /\ current \in Slots /\ fds \in [Slots -> [Fds -> FdEntry]] /\ state \in [Slots -> States]
      /\ UserSlots \subseteq Slots
  BY CtxsOf DEF CountInv, IInv, TypeOK
<1>1. ASSUME AllCounted(pool', fds') /\ Single(fds') /\ PipeEntries(fds'),
             \A s \in Slots : state'[s] \in {"None", "Zombie"} => fds'[s] = ClosedTable
      PROVE  CountInv'
  BY <1>1 DEF CountInv, Vacant, AllCounted, Counted, Reads, Writes, Single, PipeEntries, IsOpen
<1>2. CASE UNCHANGED vars
  BY <1>0, <1>1, <1>2 DEF vars, Vacant
<1>3. CASE QuietStep
  <2>1. fds' = fds
    BY <1>3 DEF QuietStep
  <2>2. AllCounted(pool', fds)
    BY <1>0, <1>3 DEF QuietStep, SameEnds, AllCounted, Counted
  <2>3. \A s \in Slots : state'[s] \in {"None", "Zombie"} => fds'[s] = ClosedTable
    BY <1>0, <1>3, <2>1 DEF QuietStep
  <2> QED
    BY <1>0, <1>1, <2>1, <2>2, <2>3
<1>4. CASE deliver_all_signals
  <2>1. /\ Killed \in SUBSET Slots
        /\ fds' = [s \in Slots |-> IF s \in Killed THEN ClosedTable ELSE fds[s]]
        /\ pool' = CloseEnds(pool, ReadRefs(fds, Killed), WriteRefs(fds, Killed))
    BY <1>0, <1>4 DEF deliver_all_signals, Killed
  <2>2. AllCounted(pool', fds') /\ Single(fds') /\ PipeEntries(fds')
    BY <1>0, <2>1, DeathCounted
  <2>3. \A s \in Slots : state'[s] \in {"None", "Zombie"} => fds'[s] = ClosedTable
    <3>1. \A s \in Slots : s \in Killed \/ state'[s] = "Ready" \/ state'[s] = state[s]
      BY <1>4 DEF deliver_all_signals
    <3> QED
      BY <1>0, <2>1, <3>1 DEF Vacant
  <2> QED
    BY <1>1, <2>2, <2>3
<1>5. CASE exit_current
  <2>1. /\ {current} \in SUBSET Slots
        /\ fds' = [s \in Slots |-> IF s \in {current} THEN ClosedTable ELSE fds[s]]
        /\ pool' = CloseEnds(pool, ReadRefs(fds, {current}), WriteRefs(fds, {current}))
    BY <1>0, <1>5 DEF exit_current
  <2>2. AllCounted(pool', fds') /\ Single(fds') /\ PipeEntries(fds')
    BY <1>0, <2>1, DeathCounted
  <2>3. \A s \in Slots : state'[s] \in {"None", "Zombie"} => fds'[s] = ClosedTable
    <3>1. \A s \in Slots : s # current => state'[s] = "Ready" \/ state'[s] = state[s]
      BY <1>0, <1>5 DEF exit_current, wake_pipe_waiters, Wake
    <3> QED
      BY <1>0, <2>1, <3>1 DEF Vacant
  <2> QED
    BY <1>1, <2>2, <2>3
<1>6. CASE sys_fork
  <2>1. AllCounted(pool', fds') /\ Single(fds') /\ PipeEntries(fds')
    BY <1>0, <1>6, ForkCounted
  <2>2. \A s \in Slots : state'[s] \in {"None", "Zombie"} => fds'[s] = ClosedTable
    <3>1. PICK c \in Slots : /\ fds' = [fds EXCEPT ![c] = fds[current]]
                             /\ state' = [state EXCEPT ![c] = "Ready"]
      BY <1>0, <1>6 DEF sys_fork, spawn_fork
    <3> QED
      BY <1>0, <3>1 DEF Vacant
  <2> QED
    BY <1>1, <2>1, <2>2
<1>7. CASE (sys_pipe \/ sys_socketpair) /\ Roomy
  <2>1. AllCounted(pool', fds') /\ Single(fds') /\ PipeEntries(fds')
    BY <1>0, <1>7, PipeCounted, SocketPairCounted DEF Roomy
  <2>2. \A s \in Slots : state'[s] \in {"None", "Zombie"} => fds'[s] = ClosedTable
    <3>1. state' = state /\ \A s \in Slots : s # current => fds'[s] = fds[s]
      BY <1>0, <1>7 DEF sys_pipe, sys_socketpair, SocketPipes
    <3> QED
      BY <1>0, <3>1 DEF Vacant
  <2> QED
    BY <1>1, <2>1, <2>2
<1>8. ASSUME NEW f \in Handles, sys_close(f) PROVE CountInv'
  <2>1. AllCounted(pool', fds') /\ Single(fds') /\ PipeEntries(fds')
    BY <1>0, <1>8, CloseCounted
  <2>2. \A s \in Slots : state'[s] \in {"None", "Zombie"} => fds'[s] = ClosedTable
    <3>1. \A s \in Slots : s # current => fds'[s] = fds[s]
      BY <1>0, <1>8 DEF sys_close
    <3>2. \A s \in Slots : state'[s] \in {"None", "Zombie"} => Vacant(s)
      BY <1>0, <1>8, UnwokenVacant DEF sys_close, wake_pipe_waiters
    <3> QED
      BY <1>0, <3>1, <3>2 DEF Vacant
  <2> QED
    BY <1>1, <2>1, <2>2
<1>9. CASE Reap
  <2>1. PICK z \in Slots : /\ state[z] = "Zombie"
                           /\ state' = [state EXCEPT ![z] = "None"]
                           /\ fds' = [fds EXCEPT ![z] = ClosedTable]
    BY <1>0, <1>9 DEF Reap, ZombieChildren
  <2>2. fds' = fds /\ pool' = pool
    BY <1>0, <1>9, <2>1 DEF Vacant, Reap
  <2>3. \A s \in Slots : state'[s] \in {"None", "Zombie"} => fds'[s] = ClosedTable
    BY <1>0, <2>1, <2>2 DEF Vacant
  <2> QED
    BY <1>0, <1>1, <2>2, <2>3
<1>10. Next => \/ QuietStep \/ deliver_all_signals \/ exit_current \/ sys_fork
               \/ sys_pipe \/ sys_socketpair \/ Reap
               \/ \E f \in Handles : sys_close(f)
  BY QuietSyscall, QuietLoop, QuietInterrupt DEF Next
<1> QED
  BY <1>2, <1>3, <1>4, <1>5, <1>6, <1>7, <1>8, <1>9, <1>10

\* The reference counts of a pipe are the numbers of open descriptors of its
\* ends, through fork, exit, close, pipe, socketpair and death by a signal, in
\* every order: where no task is killed while it runs (the controller keeps a
\* tick in service, or nobody sends a lethal signal), no program copies
\* descriptors with dup or dup2, and every pipe() and socketpair() finds two
\* free descriptors.
THEOREM PipeCountsCorrect ==
  ASSUME Pic \/ NoLethal, {"dup", "dup2"} \cap Ops = {}, MaxTasks <= MaxRefs
  PROVE  Spec /\ [][Roomy]_vars => []PipeCountsExact
<1>1. IInv /\ state[current] = "Ready" /\ CountInv /\ [Next]_vars /\ [Roomy]_vars => CountInv'
  BY CountNext
<1>2. CountInv => PipeCountsExact
  BY CountsCounted DEF CountInv, AllCounted
<1> QED
  BY <1>1, <1>2, CountInit, CurrentReady, InvCorrect, PTL DEF Spec
=============================================================================
