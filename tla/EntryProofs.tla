---------------------------- MODULE EntryProofs -----------------------------
(***************************************************************************)
(* Entering and leaving the kernel keeps the registers, the kernel stack   *)
(* and the address space of every program, for any number of tasks and of  *)
(* entries, on both architectures.                                         *)
(***************************************************************************)
EXTENDS CpuEntry, TLAPS

-----------------------------------------------------------------------------
(***************************************************************************)
(* Types.  A frame saves any part of the registers.                        *)
(***************************************************************************)
Slots == Tasks \cup {Idle}
Values == (Tasks \cup {Idle, -1}) \X Int
Saved == UNION {[S -> Values] : S \in SUBSET Regs}

Kinds == {"syscall", "int80", "fault", "irq", "trap", "start", "fork", "switch"}

Frames ==
  [kind : Kinds, call : Calls \cup {"fault", "tick"}, saved : Saved, done : BOOLEAN,
   next : Slots, ints : BOOLEAN]

TaskRecords ==
  [state : {"none", "ready", "blocked", "zombie"}, pt : Values, fs_base : Values,
   val : Values, live : SUBSET Regs, tp : Values, stack : Seq(Frames)]

EntryTypeOK ==
  /\ cur \in Slots \cup {Halted}
  /\ regs \in [Regs -> Values] /\ ints \in BOOLEAN
  /\ fs \in Values /\ cr3 \in Values /\ u_rsp \in Values /\ exec \in Values
  /\ snapshot \in [Callee -> Values] /\ ctx \in [Args \cup {"ip", "sp"} -> Values]
  /\ task \in [Slots -> TaskRecords]

(***************************************************************************)
(* The stack of a task, as far as its n-th frame, holds entries of the     *)
(* architecture a.  Only INT 0x80 leaves interrupts enabled, so only its   *)
(* frame may have another one on top, and it asks for no fork and exec.    *)
(* Slot t has the stack; the idle task is entered by ticks only.          *)
(***************************************************************************)
Entered(a) ==
  IF a = "x86_64" THEN {"syscall", "int80", "fault", "irq"}
  ELSE IF a = "riscv64" THEN {"trap"} ELSE {}

\* SYSCALL parks sp elsewhere, and leaves the callee-saved registers alone.
SavesContext(f) ==
  /\ "ip" \in DOMAIN f.saved
  /\ IF f.kind = "syscall" THEN DOMAIN f.saved \cap Callee = {} ELSE "sp" \in DOMAIN f.saved

Entries(s, n, a, t) ==
  /\ n <= 2
  /\ \A i \in 1 .. n :
       /\ s[i].kind \in Entered(a)
       /\ s[i].call \in {"fork", "exec"} => s[i].kind \in {"syscall", "trap"}
       /\ SavesContext(s[i])
       /\ t = Idle => s[i].call = "tick" /\ s[i].kind # "int80"
  /\ n = 2 => s[1].kind = "int80" /\ s[2].kind = "irq"

\* The registers that the program of x counts on; sp is lost on x86_64.
Counted(x, a) == x.live \ (IF a = "x86_64" THEN {"sp"} ELSE {})

Owns(saved, v, S) == \A r \in S : r \in DOMAIN saved /\ saved[r] = v

\* SYSCALL leaves the callee-saved registers in the CPU.
InFlight(f) == IF f.kind = "syscall" THEN Callee ELSE {}

\* The frame at the bottom of the stack, by which x returns to its program,
\* has what the program counts on, but for what is in flight.
BaseKeeps(x, a, flight) ==
  LET f == x.stack[1]
  IN  /\ Owns(f.saved, x.val, Counted(x, a) \ (Destroyed(f) \cup InFlight(f)))
      /\ f.kind = "syscall" => Owns(flight, x.val, Counted(x, a) \cap Callee)

\* A task that waits to be switched to: a new one, or one that left by schedule.
Fresh(x) == Len(x.stack) = 1 /\ x.stack[1].kind \in {"start", "fork"}

SwitchedOut(x, a, t) ==
  LET s == x.stack
      n == Len(s)
  IN  /\ n >= 2 /\ Entries(s, n - 1, a, t)
      /\ s[n].kind = "switch" /\ s[n - 1].done
      /\ s[n - 1].kind # "int80" => ~s[n].ints

Suspended(x, a, t) ==
  /\ (Fresh(x) /\ t # Idle) \/ SwitchedOut(x, a, t)
  /\ t # Idle => BaseKeeps(x, a, x.stack[Len(x.stack)].saved)

-----------------------------------------------------------------------------
(***************************************************************************)
(* The inductive invariant.  It says nothing of the other variables after  *)
(* a panic, but that interrupts are off.                                   *)
(***************************************************************************)
Waiting(t) == task[t].state \in {"ready", "blocked"} => Suspended(task[t], arch, t)

OthersWait == task[Idle].state = "ready" /\ \A t \in Slots \ {cur} : Waiting(t)

CurrentStack ==
  LET s == task[cur].stack
  IN  /\ Entries(s, Len(s), arch, cur) /\ task[cur].state = "ready"
      /\ s # <<>> /\ s[Len(s)].kind # "int80" => ~ints

\* Between execve and the way out, the registers are those of the old image.
CurrentKeeps ==
  cur # Idle /\ exec = NoValue =>
    IF task[cur].stack = <<>> THEN Owns(regs, task[cur].val, Counted(task[cur], arch))
    ELSE BaseKeeps(task[cur], arch, regs)

\* What fork copies is of the entry that it serves.
ForkReady ==
  LET s == task[cur].stack
      S == Counted(task[cur], arch)
  IN  s # <<>> /\ s[Len(s)].call = "fork" /\ ~s[Len(s)].done =>
        /\ Owns(ctx, task[cur].val, S \cap (Args \cup {"ip", "sp"}))
        /\ arch = "x86_64" => Owns(snapshot, task[cur].val, S \cap Callee)

\* What execve left is for the current task, which is on its way out.
ExecPending ==
  exec # NoValue =>
    LET x == task[cur]
    IN  /\ cur # Idle /\ Len(x.stack) = 1 /\ x.stack[1].done /\ x.stack[1].call \in Calls
        /\ x.stack[1].kind \in {"syscall", "trap"} /\ SavesContext(x.stack[1])
        /\ x.val = exec /\ x.pt = exec /\ x.live = {"ip", "sp"}

StackRegister ==
  IF cur = Idle THEN k_rsp = None
  ELSE arch = "x86_64" \/ task[cur].stack = <<>> => k_rsp = cur

TableActive == cur # Idle /\ exec = NoValue => cr3 = task[cur].pt

CpuInv ==
  /\ OthersWait /\ CurrentStack /\ CurrentKeeps /\ ForkReady
  /\ ExecPending /\ StackRegister /\ TableActive

EntryInv == EntryTypeOK /\ IF cur = Halted THEN ~ints ELSE CpuInv

-----------------------------------------------------------------------------
(***************************************************************************)
(* Lemmas about types and stacks                                           *)
(***************************************************************************)
LEMMA SlotsDistinct ==
  /\ Idle \notin Tasks /\ None \notin Slots /\ Halted \notin Slots
  BY EntryAssumption DEF Slots, Idle, None, Halted

LEMMA ConstantValues == NoValue \in Values /\ Garbage \in Values
  BY DEF NoValue, Garbage, Values, Idle

LEMMA SavedPart ==
  ASSUME NEW S \in SUBSET Regs, NEW g \in [S -> Values]
  PROVE  g \in Saved
  BY DEF Saved

LEMMA SavedDomain ==
  ASSUME NEW g \in Saved
  PROVE  DOMAIN g \in SUBSET Regs /\ g \in [DOMAIN g -> Values]
  BY DEF Saved

LEMMA KeptSaved ==
  ASSUME regs \in [Regs -> Values], NEW S \in SUBSET Regs
  PROVE  Kept(S) \in Saved
  <1>1. Kept(S) \in [S -> Values]
    BY DEF Kept
  <1> QED
    BY <1>1, SavedPart

LEMMA FrameTyped ==
  ASSUME ints \in BOOLEAN, NEW k \in Kinds, NEW c \in Calls \cup {"fault", "tick"},
         NEW g \in Saved
  PROVE  Frame(k, c, g) \in Frames
  BY DEF Frame, Frames, Slots

LEMMA ClobberedTyped ==
  ASSUME regs \in [Regs -> Values]
  PROVE  Clobbered \in [Regs -> Values]
  BY ConstantValues DEF Clobbered

LEMMA LoadedTyped ==
  ASSUME NEW g \in Saved, NEW rest \in [Regs -> Values]
  PROVE  Loaded(g, rest) \in [Regs -> Values]
  BY SavedDomain DEF Loaded

LEMMA PoppedStack ==
  ASSUME NEW s \in Seq(Frames), s # <<>>
  PROVE  /\ Popped(s) \in Seq(Frames) /\ Len(Popped(s)) = Len(s) - 1
         /\ Len(s) \in Nat \ {0} /\ s[Len(s)] \in Frames
         /\ \A i \in 1 .. Len(s) - 1 : Popped(s)[i] = s[i]
  <1>1. Len(s) \in Nat \ {0} /\ s[Len(s)] \in Frames
    OBVIOUS
  <1>2. Popped(s) = [i \in 1 .. Len(s) - 1 |-> s[i]]
    BY <1>1 DEF Popped
  <1> QED
    BY <1>1, <1>2

LEMMA PushedStack ==
  ASSUME NEW s \in Seq(Frames), NEW f \in Frames
  PROVE  /\ Append(s, f) \in Seq(Frames) /\ Len(Append(s, f)) = Len(s) + 1
         /\ Append(s, f)[Len(s) + 1] = f
         /\ \A i \in 1 .. Len(s) : Append(s, f)[i] = s[i]
  OBVIOUS

LEMMA NewTaskTyped ==
  ASSUME NEW k \in Kinds, NEW g \in Saved, NEW p \in Values, NEW b \in Values, NEW v \in Values,
         NEW l \in SUBSET Regs, NEW tp \in Values
  PROVE  /\ NewTask(k, g, p, b, v, l, tp) \in TaskRecords
         /\ Len(NewTask(k, g, p, b, v, l, tp).stack) = 1
  <1>1. [kind |-> k, call |-> "plain", saved |-> g, done |-> TRUE, next |-> Idle, ints |-> TRUE]
           \in Frames
    BY DEF Frames, Slots, Calls
  <1> QED
    BY <1>1 DEF NewTask, TaskRecords

LEMMA NoTaskTyped == NoTask \in TaskRecords
  BY ConstantValues DEF NoTask, TaskRecords

LEMMA WithStack ==
  ASSUME NEW x \in TaskRecords, NEW s \in Seq(Frames)
  PROVE  LET y == [x EXCEPT !.stack = s]
         IN  /\ y \in TaskRecords /\ y.stack = s
             /\ y.state = x.state /\ y.pt = x.pt /\ y.val = x.val /\ y.live = x.live
  BY DEF TaskRecords

LEMMA EntriesTop ==
  ASSUME NEW s, NEW n \in Nat \ {0}, NEW a, NEW t, Entries(s, n, a, t)
  PROVE  /\ n = 1 \/ (n = 2 /\ s[1].kind = "int80" /\ s[2].kind = "irq")
         /\ s[n].kind # "irq" => n = 1
         /\ s[1].kind \in Entered(a) /\ s[n].kind \in Entered(a)
         /\ s[n].call \in {"fork", "exec"} => s[n].kind \in {"syscall", "trap"}
         /\ SavesContext(s[n])
         /\ t = Idle => n = 1 /\ s[1].call = "tick" /\ s[1].kind # "int80"
  <1>1. n = 1 \/ n = 2
    BY DEF Entries
  <1>2. CASE n = 1
    BY <1>2 DEF Entries
  <1>3. CASE n = 2
    BY <1>3 DEF Entries
  <1> QED
    BY <1>1, <1>2, <1>3

\* Two stacks that differ, up to the n-th frame, in what is through only.
Alike(s, u, n) ==
  \A i \in 1 .. n : /\ u[i].kind = s[i].kind /\ u[i].call = s[i].call
                   /\ u[i].saved = s[i].saved /\ u[i].ints = s[i].ints

LEMMA AlikeEntries ==
  ASSUME NEW s, NEW u, NEW n \in Nat, NEW a, NEW t, Alike(s, u, n), Entries(s, n, a, t)
  PROVE  Entries(u, n, a, t)
  BY DEF Alike, Entries, SavesContext

LEMMA AlikeBase ==
  ASSUME NEW x, NEW y, NEW a, NEW flight, Alike(x.stack, y.stack, 1),
         y.val = x.val, y.live = x.live, BaseKeeps(x, a, flight)
  PROVE  BaseKeeps(y, a, flight)
  BY DEF Alike, BaseKeeps, Counted, Destroyed, InFlight

\* What the handler of the current task changes when it is through.
LEMMA ServedFacts ==
  ASSUME task \in [Slots -> TaskRecords], cur \in Slots, task[cur].stack # <<>>
  PROVE  LET s == task[cur].stack
             u == Served[cur].stack
         IN  /\ Served \in [Slots -> TaskRecords]
             /\ \A t \in Slots \ {cur} : Served[t] = task[t]
             /\ Served[cur] = [task[cur] EXCEPT !.stack = u]
             /\ Len(u) = Len(s) /\ u \in Seq(Frames) /\ u # <<>> /\ u[Len(u)].done
             /\ Alike(s, u, Len(s))
  <1> DEFINE s == task[cur].stack
             n == Len(s)
             f == [s[n] EXCEPT !.done = TRUE]
             u == [s EXCEPT ![n] = f]
  <1>1. s \in Seq(Frames) /\ n \in Nat \ {0} /\ s[n] \in Frames
    BY DEF TaskRecords
  <1>2. f \in Frames /\ f.done /\ f.kind = s[n].kind /\ f.call = s[n].call
        /\ f.saved = s[n].saved /\ f.ints = s[n].ints
    BY <1>1 DEF Frames
  <1>3. /\ u \in Seq(Frames) /\ Len(u) = n /\ u[n] = f
        /\ \A i \in 1 .. n : i # n => u[i] = s[i]
    BY <1>1, <1>2
  <1>4. Served = [task EXCEPT ![cur] = [task[cur] EXCEPT !.stack = u]]
    BY DEF Served
  <1>5. [task[cur] EXCEPT !.stack = u] \in TaskRecords /\ [task[cur] EXCEPT !.stack = u].stack = u
    BY <1>3 DEF TaskRecords
  <1> HIDE DEF f, u
  <1>6. /\ Served \in [Slots -> TaskRecords] /\ Served[cur] = [task[cur] EXCEPT !.stack = u]
        /\ Served[cur].stack = u /\ \A t \in Slots \ {cur} : Served[t] = task[t]
    BY <1>4, <1>5
  <1> QED
    BY <1>1, <1>2, <1>3, <1>6 DEF Alike

-----------------------------------------------------------------------------
(***************************************************************************)
(* Each step keeps the invariant                                           *)
(***************************************************************************)
LEMMA EntryInit == Init => EntryInv
  <1> SUFFICES ASSUME Init PROVE EntryInv
    OBVIOUS
  <1> USE SlotsDistinct, ConstantValues
  <1>1. cur = Idle /\ cur \in Slots /\ cur # Halted
    BY DEF Init, Slots
  <1>2. PICK vacant \in SUBSET Tasks :
          task = [t \in Slots |->
                   IF t = Idle THEN [NoTask EXCEPT !.live = Callee, !.state = "ready"]
                   ELSE IF t \in vacant THEN NoTask ELSE UserTask(t)]
    BY DEF Init, Slots
  <1>3. ASSUME NEW t \in Tasks
        PROVE  /\ UserTask(t) \in TaskRecords
               /\ Suspended(UserTask(t), arch, t)
    <2> DEFINE g == Only({"ip", "sp"}, <<t, 0>>)
    <2>1. <<t, 0>> \in Values /\ {"ip", "sp"} \in SUBSET Regs
      BY DEF Values, Regs
    <2>2. g \in [{"ip", "sp"} -> Values]
      BY <2>1 DEF Only
    <2>3. g \in Saved
      BY <2>1, <2>2, SavedPart
    <2>4. UserTask(t) \in TaskRecords /\ Len(UserTask(t).stack) = 1
      BY <2>1, <2>3, NewTaskTyped DEF UserTask, Kinds
    <2>5. /\ UserTask(t).stack[1].kind = "start" /\ UserTask(t).stack[1].saved = g
          /\ UserTask(t).live = {"ip", "sp"} /\ UserTask(t).val = <<t, 0>>
      BY DEF UserTask, NewTask
    <2>6. \A r \in {"ip", "sp"} : r \in DOMAIN g /\ g[r] = <<t, 0>>
      BY DEF Only
    <2> HIDE DEF g
    <2> QED
      BY <2>4, <2>5, <2>6 DEF Suspended, Fresh, BaseKeeps, Owns, Counted
  <1>4. [NoTask EXCEPT !.live = Callee, !.state = "ready"] \in TaskRecords
    <2>1. Callee \in SUBSET Regs
      BY DEF Regs
    <2> QED
      BY <2>1, NoTaskTyped DEF TaskRecords
  <1>5. task \in [Slots -> TaskRecords]
    BY <1>2, <1>3, <1>4, NoTaskTyped DEF Slots
  <1>6. EntryTypeOK
    BY <1>1, <1>5 DEF EntryTypeOK, Init, Only
  <1>7. /\ task[Idle].state = "ready" /\ task[Idle].stack = <<>>
        /\ \A t \in Tasks : task[t] \in {NoTask, UserTask(t)}
    BY <1>2 DEF NoTask, Slots
  <1>8. OthersWait
    BY <1>1, <1>3, <1>7 DEF OthersWait, Waiting, Slots, NoTask
  <1>9. CurrentStack /\ CurrentKeeps /\ ForkReady /\ ExecPending /\ StackRegister /\ TableActive
    BY <1>1, <1>7 DEF CurrentStack, CurrentKeeps, ForkReady, ExecPending, StackRegister,
                      TableActive, Entries, Init
  <1> QED
    BY <1>1, <1>6, <1>8, <1>9 DEF EntryInv, CpuInv

\* Tasks that a step leaves alone wait as before.
LEMMA OthersStay ==
  ASSUME OthersWait, UNCHANGED <<arch, cur>>, cur \in Slots,
         task'[Idle].state = "ready", \A t \in Slots \ {cur} : task'[t] = task[t]
  PROVE  OthersWait'
  BY DEF OthersWait, Waiting

LEMMA ComputeKeeps ==
  ASSUME EntryInv, Compute
  PROVE  EntryInv'
  <1> USE SlotsDistinct
  <1>1. /\ EntryTypeOK /\ CpuInv /\ cur \in Tasks /\ cur \in Slots /\ task[cur].stack = <<>>
        /\ UNCHANGED <<arch, cur, ints, k_rsp, cr3, fs, u_rsp, snapshot, ctx, exec>>
    BY DEF EntryInv, Compute, InUser, InProgram, EntryTypeOK, Slots, globals
  <1> DEFINE v == Other(task[cur].val)
  <1>2. v \in Values
    BY <1>1 DEF Other, Values, EntryTypeOK, TaskRecords
  <1>3. /\ task' = [task EXCEPT ![cur] = [task[cur] EXCEPT !.val = v, !.live = Regs]]
        /\ regs' = Only(Regs, v)
    BY <1>1 DEF Compute, EntryTypeOK
  <1> HIDE DEF v
  <1>4. [task[cur] EXCEPT !.val = v, !.live = Regs] \in TaskRecords
    BY <1>1, <1>2 DEF EntryTypeOK, TaskRecords
  <1>5. /\ task' \in [Slots -> TaskRecords]
        /\ task'[cur] = [task[cur] EXCEPT !.val = v, !.live = Regs]
        /\ \A t \in Slots \ {cur} : task'[t] = task[t]
    BY <1>1, <1>3, <1>4 DEF EntryTypeOK
  <1>6. /\ task'[cur].stack = <<>> /\ task'[cur].val = v /\ task'[cur].live = Regs
        /\ task'[cur].state = task[cur].state /\ task'[cur].pt = task[cur].pt
    BY <1>1, <1>5 DEF EntryTypeOK, TaskRecords
  <1>7. regs' \in [Regs -> Values] /\ \A r \in Regs : regs'[r] = v
    BY <1>2, <1>3 DEF Only
  <1>8. EntryTypeOK'
    BY <1>1, <1>5, <1>7 DEF EntryTypeOK
  <1>9. OthersWait'
    BY <1>1, <1>5, <1>6, OthersStay DEF CpuInv, OthersWait, Slots
  <1>10. CurrentStack' /\ CurrentKeeps' /\ ForkReady' /\ ExecPending' /\ StackRegister' /\ TableActive'
    BY <1>1, <1>6, <1>7 DEF CpuInv, CurrentStack, CurrentKeeps, ForkReady, ExecPending, StackRegister,
                            TableActive, Entries, Owns, Counted
  <1> QED
    BY <1>1, <1>8, <1>9, <1>10 DEF EntryInv, CpuInv

\* An entry from the program of the current task is its only frame.
LEMMA UserEntry ==
  ASSUME EntryInv, InUser, NEW f, Enter(f)
  PROVE  /\ EntryTypeOK /\ CpuInv /\ cur \in Tasks /\ cur \in Slots /\ exec = NoValue
         /\ Owns(regs, task[cur].val, Counted(task[cur], arch))
         /\ task' = [task EXCEPT ![cur].stack = <<f>>]
         /\ arch = "x86_64" => k_rsp' = cur
         /\ UNCHANGED <<arch, cur, cr3, fs, exec>>
  <1> USE SlotsDistinct
  <1>1. /\ EntryTypeOK /\ CpuInv /\ cur \in Tasks /\ cur \in Slots /\ task[cur].stack = <<>>
    BY DEF EntryInv, InUser, InProgram, EntryTypeOK, Slots
  <1>2. k_rsp = cur /\ exec = NoValue
    BY <1>1 DEF CpuInv, StackRegister, ExecPending
  <1>3. FromUser
    BY <1>1, <1>2 DEF FromUser
  <1> QED
    BY <1>1, <1>2, <1>3 DEF Enter, CpuInv, CurrentKeeps

LEMMA UserEntryKeeps ==
  ASSUME EntryInv, InUser, NEW f \in Frames, Enter(f),
         f.kind \in Entered(arch), ~f.done,
         f.call \in {"fork", "exec"} => f.kind \in {"syscall", "trap"},
         SavesContext(f),
         Owns(f.saved, task[cur].val, Counted(task[cur], arch) \ (Destroyed(f) \cup InFlight(f))),
         f.kind = "syscall" => Owns(regs', task[cur].val, Counted(task[cur], arch) \cap Callee),
         f.kind # "int80" => ~ints',
         f.call = "fork" =>
           /\ Owns(ctx', task[cur].val, Counted(task[cur], arch) \cap (Args \cup {"ip", "sp"}))
           /\ arch = "x86_64" => Owns(snapshot', task[cur].val, Counted(task[cur], arch) \cap Callee),
         regs' \in [Regs -> Values], ints' \in BOOLEAN, u_rsp' \in Values,
         snapshot' \in [Callee -> Values], ctx' \in [Args \cup {"ip", "sp"} -> Values]
  PROVE  EntryInv'
  <1> USE SlotsDistinct
  <1>1. /\ EntryTypeOK /\ CpuInv /\ cur \in Tasks /\ cur \in Slots /\ exec = NoValue
        /\ task' = [task EXCEPT ![cur].stack = <<f>>]
        /\ arch = "x86_64" => k_rsp' = cur
        /\ UNCHANGED <<arch, cur, cr3, fs, exec>>
    BY UserEntry
  <1>2. [task[cur] EXCEPT !.stack = <<f>>] \in TaskRecords
    <2>1. <<f>> \in Seq(Frames)
      OBVIOUS
    <2> QED
      BY <1>1, <2>1, WithStack DEF EntryTypeOK
  <1>3. /\ task' \in [Slots -> TaskRecords]
        /\ task'[cur] = [task[cur] EXCEPT !.stack = <<f>>]
        /\ \A t \in Slots \ {cur} : task'[t] = task[t]
    BY <1>1, <1>2 DEF EntryTypeOK
  <1>4. /\ task'[cur].stack = <<f>> /\ task'[cur].val = task[cur].val
        /\ task'[cur].live = task[cur].live
        /\ task'[cur].state = task[cur].state /\ task'[cur].pt = task[cur].pt
    BY <1>1, <1>3 DEF EntryTypeOK, TaskRecords
  <1>5. EntryTypeOK'
    BY <1>1, <1>3 DEF EntryTypeOK
  <1>6. OthersWait'
    BY <1>1, <1>3, <1>4, OthersStay DEF CpuInv, OthersWait, Slots
  <1>7. CurrentStack'
    BY <1>1, <1>4 DEF CpuInv, CurrentStack, Entries
  <1>8. Counted(task'[cur], arch) = Counted(task[cur], arch)
    BY <1>4 DEF Counted
  <1>9. CurrentKeeps' /\ ForkReady'
    <2>1. /\ task'[cur].stack[1] = f /\ Len(task'[cur].stack) = 1
          /\ task'[cur].stack # <<>>
      BY <1>4
    <2>2. BaseKeeps(task'[cur], arch, regs')
      BY <1>4, <1>8, <2>1 DEF BaseKeeps
    <2>3. CurrentKeeps'
      BY <1>1, <2>1, <2>2 DEF CurrentKeeps
    <2>4. ForkReady'
      <3>1. CASE f.call = "fork"
        BY <1>1, <1>4, <1>8, <3>1 DEF ForkReady
      <3>2. CASE f.call # "fork"
        BY <1>1, <1>4, <2>1, <3>2 DEF ForkReady
      <3> QED
        BY <3>1, <3>2
    <2> QED
      BY <2>3, <2>4
  <1>10. ExecPending' /\ StackRegister' /\ TableActive'
    <2>1. ExecPending'
      BY <1>1 DEF ExecPending
    <2>2. task'[cur].stack # <<>>
      BY <1>4
    <2>3. StackRegister' /\ TableActive'
      BY <1>1, <1>4, <2>2 DEF CpuInv, StackRegister, TableActive
    <2> QED
      BY <2>1, <2>3
  <1> QED
    BY <1>1, <1>5, <1>6, <1>7, <1>9, <1>10 DEF EntryInv, CpuInv

LEMMA UserContextTyped ==
  ASSUME regs \in [Regs -> Values]
  PROVE  /\ UserContext(regs["sp"]) \in [Args \cup {"ip", "sp"} -> Values]
         /\ \A r \in Args \cup {"ip", "sp"} : UserContext(regs["sp"])[r] = regs[r]
  BY DEF UserContext, Regs

LEMMA SyscallEntryKeeps ==
  ASSUME EntryInv, NEW call \in SyscallCalls, syscall_entry_asm(call)
  PROVE  EntryInv'
  <1> DEFINE g == Kept(Args \cup {"ip"})
             f == Frame("syscall", call, g)
             S == Counted(task[cur], arch)
  <1>1. /\ InUser /\ Enter(f) /\ EntryTypeOK
        /\ Owns(regs, task[cur].val, S) /\ S \subseteq Regs \ {"sp"} /\ arch = "x86_64"
        /\ u_rsp' = regs["sp"] /\ snapshot' = Kept(Callee)
        /\ ctx' = UserContext(regs["sp"]) /\ regs' = Clobbered /\ ints' = FALSE
    <2>1. InUser /\ Enter(f) /\ arch = "x86_64"
      BY DEF syscall_entry_asm
    <2>2. EntryTypeOK /\ cur \in Slots /\ Owns(regs, task[cur].val, S)
      BY <2>1, UserEntry
    <2>3. task[cur].live \subseteq Regs
      BY <2>2 DEF EntryTypeOK, TaskRecords
    <2> QED
      BY <2>1, <2>2, <2>3 DEF syscall_entry_asm, Counted
  <1>2. g \in Saved /\ f \in Frames
    BY <1>1, KeptSaved, FrameTyped, EntryAssumption DEF EntryTypeOK, Regs, Kinds
  <1>3. f.kind = "syscall" /\ f.call = call /\ f.saved = g /\ ~f.done /\ SavesContext(f)
    BY DEF Frame, Kept, SavesContext, Callee, Args
  <1>4. Owns(g, task[cur].val, S \ (Destroyed(f) \cup InFlight(f)))
    BY <1>1, <1>3 DEF Owns, Kept, Destroyed, InFlight, Regs
  <1>5. regs' \in [Regs -> Values] /\ Owns(regs', task[cur].val, S \cap Callee)
    BY <1>1, ClobberedTyped DEF Owns, Clobbered, EntryTypeOK, Regs
  <1>6. /\ snapshot' \in [Callee -> Values]
        /\ Owns(snapshot', task[cur].val, S \cap Callee)
    BY <1>1 DEF Owns, Kept, EntryTypeOK, Regs
  <1>7. /\ ctx' \in [Args \cup {"ip", "sp"} -> Values]
        /\ Owns(ctx', task[cur].val, S \cap (Args \cup {"ip", "sp"}))
    BY <1>1, UserContextTyped DEF Owns, EntryTypeOK
  <1>8. u_rsp' \in Values
    BY <1>1 DEF EntryTypeOK, Regs
  <1> HIDE DEF f, g, S
  <1> QED
    BY <1>1, <1>2, <1>3, <1>4, <1>5, <1>6, <1>7, <1>8, UserEntryKeeps DEF S, Entered

LEMMA Int80EntryKeeps ==
  ASSUME EntryInv, NEW call \in Int80Calls, isr128(call), call \notin {"fork", "exec"}
  PROVE  EntryInv'
  <1> DEFINE g == Kept(Callee \cup {"r8", "rcx", "r11", "ip", "sp"})
             f == Frame("int80", call, g)
             S == Counted(task[cur], arch)
  <1>1. /\ InUser /\ Enter(f) /\ EntryTypeOK
        /\ Owns(regs, task[cur].val, S) /\ S \subseteq Regs /\ arch = "x86_64"
        /\ ctx' = UserContext(regs["sp"]) /\ regs' = Clobbered
        /\ UNCHANGED <<ints, u_rsp, snapshot>>
    <2>1. InUser /\ Enter(f) /\ arch = "x86_64"
      BY DEF isr128
    <2>2. EntryTypeOK /\ cur \in Slots /\ Owns(regs, task[cur].val, S)
      BY <2>1, UserEntry
    <2>3. task[cur].live \subseteq Regs
      BY <2>2 DEF EntryTypeOK, TaskRecords
    <2> QED
      BY <2>1, <2>2, <2>3 DEF isr128, Counted
  <1>2. g \in Saved /\ f \in Frames
    BY <1>1, KeptSaved, FrameTyped, EntryAssumption DEF EntryTypeOK, Regs, Kinds, Args
  <1>3. f.kind = "int80" /\ f.call = call /\ f.saved = g /\ ~f.done /\ SavesContext(f)
    BY DEF Frame, Kept, SavesContext
  <1>4. Owns(g, task[cur].val, S \ (Destroyed(f) \cup InFlight(f)))
    BY <1>1, <1>3 DEF Owns, Kept, Destroyed, InFlight, Regs, Args
  <1>5. regs' \in [Regs -> Values] /\ ctx' \in [Args \cup {"ip", "sp"} -> Values]
    BY <1>1, ClobberedTyped, UserContextTyped DEF EntryTypeOK
  <1> HIDE DEF f, g, S
  <1> QED
    BY <1>1, <1>2, <1>3, <1>4, <1>5, UserEntryKeeps DEF S, Entered, EntryTypeOK

LEMMA FaultEntryKeeps ==
  ASSUME EntryInv, isr14
  PROVE  EntryInv'
  <1> DEFINE g == [r \in Regs \ {"rcx", "rdx"} |-> IF r = "r14" THEN Garbage ELSE regs[r]]
             f == Frame("fault", "fault", g)
             S == Counted(task[cur], arch)
  <1>1. /\ InUser /\ Enter(f) /\ EntryTypeOK
        /\ Owns(regs, task[cur].val, S) /\ S \subseteq Regs /\ arch = "x86_64"
        /\ regs' = Clobbered /\ ints' = FALSE
        /\ UNCHANGED <<u_rsp, snapshot, ctx>>
    <2>1. InUser /\ Enter(f) /\ arch = "x86_64"
      BY DEF isr14
    <2>2. EntryTypeOK /\ cur \in Slots /\ Owns(regs, task[cur].val, S)
      BY <2>1, UserEntry
    <2>3. task[cur].live \subseteq Regs
      BY <2>2 DEF EntryTypeOK, TaskRecords
    <2> QED
      BY <2>1, <2>2, <2>3 DEF isr14, Counted
  <1>2. g \in Saved /\ f \in Frames
    <2>1. g \in [Regs \ {"rcx", "rdx"} -> Values]
      BY <1>1, ConstantValues DEF EntryTypeOK
    <2>2. g \in Saved
      BY <2>1, SavedPart
    <2> QED
      BY <1>1, <2>2, FrameTyped DEF EntryTypeOK, Kinds
  <1>3. f.kind = "fault" /\ f.call = "fault" /\ f.saved = g /\ ~f.done /\ SavesContext(f)
    BY DEF Frame, SavesContext, Regs
  <1>4. Owns(g, task[cur].val, S \ (Destroyed(f) \cup InFlight(f)))
    BY <1>1, <1>3 DEF Owns, Destroyed, InFlight
  <1>5. regs' \in [Regs -> Values]
    BY <1>1, ClobberedTyped DEF EntryTypeOK
  <1> HIDE DEF f, g, S
  <1> QED
    BY <1>1, <1>2, <1>3, <1>4, <1>5, UserEntryKeeps DEF S, Entered, EntryTypeOK

\* An interrupt of the kernel finds the idle task, or a handler of INT 0x80.
LEMMA KernelEntryKeeps ==
  ASSUME EntryInv, ~InUser, ints, NEW f \in Frames, Enter(f),
         f.kind \in Entered(arch), f.call = "tick", ~f.done,
         f.kind \in {"irq", "trap"}, SavesContext(f), ~ints', UNCHANGED <<u_rsp, snapshot>>,
         regs' \in [Regs -> Values], ctx' \in [Args \cup {"ip", "sp"} -> Values], ints' \in BOOLEAN
  PROVE  EntryInv'
  <1> USE SlotsDistinct
  <1> DEFINE s == task[cur].stack
             y == [task[cur] EXCEPT !.stack = Append(s, f)]
  <1>1. EntryTypeOK /\ CpuInv /\ cur # Halted /\ cur \in Slots
    BY DEF EntryInv, EntryTypeOK
  <1>2. task[cur] \in TaskRecords /\ s \in Seq(Frames) /\ Len(s) \in Nat
    BY <1>1 DEF EntryTypeOK, TaskRecords
  <1>3. \/ cur = Idle /\ Len(s) = 0
        \/ cur # Idle /\ Len(s) = 1 /\ s[1].kind = "int80" /\ arch = "x86_64"
    <2>1. s = <<>> \/ s[Len(s)].kind = "int80"
      BY <1>1 DEF CpuInv, CurrentStack
    <2>2. CASE s = <<>>
      BY <1>1, <2>2 DEF InUser, InProgram
    <2>3. CASE s # <<>>
      <3>1. Len(s) \in Nat \ {0} /\ s[Len(s)].kind = "int80"
        BY <1>2, <2>1, <2>3
      <3>2. Entries(s, Len(s), arch, cur)
        BY <1>1 DEF CpuInv, CurrentStack
      <3> DEFINE n == Len(s)
      <3> HIDE DEF n
      <3>3. n = 1 /\ s[n].kind \in Entered(arch)
        <4>1. n \in Nat \ {0} /\ s[n].kind = "int80" /\ Entries(s, n, arch, cur)
          BY <3>1, <3>2 DEF n
        <4>2. s[n].kind # "irq"
          BY <4>1
        <4> HIDE DEF s
        <4> QED
          BY <4>1, <4>2, EntriesTop
      <3>4. cur # Idle
        BY <3>1, <3>2, <3>3, EntriesTop
      <3> QED
        BY <3>1, <3>3, <3>4 DEF Entered, n
    <2> QED
      BY <2>2, <2>3
  <1>4. ~FromUser /\ exec = NoValue
    BY <1>1, <1>3 DEF FromUser, CpuInv, StackRegister, ExecPending
  <1>5. /\ task' = [task EXCEPT ![cur] = y]
        /\ k_rsp' = IF arch = "riscv64" THEN None ELSE k_rsp
        /\ UNCHANGED <<arch, cur, cr3, fs, exec>>
    BY <1>4 DEF Enter
  <1>6. /\ y \in TaskRecords /\ y.stack = Append(s, f) /\ y.state = task[cur].state
        /\ y.pt = task[cur].pt /\ y.val = task[cur].val /\ y.live = task[cur].live
    <2>1. Append(s, f) \in Seq(Frames)
      BY <1>2, PushedStack
    <2> QED
      BY <1>2, <2>1, WithStack
  <1>7. /\ y.stack # <<>> /\ Len(y.stack) = Len(s) + 1 /\ y.stack[Len(s) + 1] = f
        /\ \A i \in 1 .. Len(s) : y.stack[i] = s[i]
    BY <1>2, <1>6, PushedStack
  <1> HIDE DEF y
  <1>8. /\ task' \in [Slots -> TaskRecords] /\ task'[cur] = y
        /\ \A t \in Slots \ {cur} : task'[t] = task[t]
    BY <1>1, <1>5, <1>6 DEF EntryTypeOK
  <1>9. EntryTypeOK'
    BY <1>1, <1>5, <1>8 DEF EntryTypeOK
  <1>10. OthersWait'
    BY <1>1, <1>5, <1>6, <1>8, OthersStay DEF CpuInv, OthersWait, Slots
  <1>11. Entries(y.stack, Len(y.stack), arch, cur)
    <2>1. CASE cur = Idle
      BY <1>3, <1>7, <2>1 DEF Entries
    <2>2. CASE cur # Idle
      <3>1. f.kind = "irq"
        BY <1>3, <2>2 DEF Entered
      <3> QED
        BY <1>1, <1>3, <1>7, <2>2, <3>1 DEF Entries, CpuInv, CurrentStack
    <2> QED
      BY <2>1, <2>2
  <1>12. CurrentStack' /\ ForkReady' /\ ExecPending'
    BY <1>1, <1>4, <1>5, <1>6, <1>7, <1>8, <1>11 DEF CurrentStack, ForkReady, ExecPending, CpuInv
  <1>13. StackRegister' /\ TableActive'
    BY <1>1, <1>3, <1>4, <1>5, <1>6, <1>7, <1>8 DEF StackRegister, TableActive, CpuInv
  <1>14. CurrentKeeps'
    <2> SUFFICES ASSUME cur # Idle PROVE BaseKeeps(y, arch, regs')
      BY <1>5, <1>7, <1>8 DEF CurrentKeeps
    <2>1. s # <<>> /\ y.stack[1] = s[1] /\ s[1].kind = "int80"
      BY <1>2, <1>3, <1>7
    <2>2. BaseKeeps(task[cur], arch, regs)
      BY <1>1, <1>4, <2>1 DEF CpuInv, CurrentKeeps
    <2> QED
      BY <1>6, <2>1, <2>2 DEF BaseKeeps, Counted
  <1> QED
    BY <1>1, <1>5, <1>9, <1>10, <1>12, <1>13, <1>14 DEF EntryInv, CpuInv

LEMMA IrqEntryKeeps ==
  ASSUME EntryInv, make_isr
  PROVE  EntryInv'
  <1> DEFINE g == Kept(Regs)
             f == Frame("irq", "tick", g)
             S == Counted(task[cur], arch)
  <1>1. /\ Enter(f) /\ EntryTypeOK /\ arch = "x86_64" /\ ints
        /\ regs' = Clobbered /\ ints' = FALSE
        /\ UNCHANGED <<u_rsp, snapshot, ctx>>
    BY DEF make_isr, EntryInv
  <1>2. g \in Saved /\ f \in Frames
    BY <1>1, KeptSaved, FrameTyped DEF EntryTypeOK, Kinds
  <1>3. f.kind = "irq" /\ f.call = "tick" /\ f.saved = g /\ ~f.done
        /\ f.kind \in Entered(arch) /\ SavesContext(f)
    BY <1>1 DEF Frame, Entered, Kept, Regs, SavesContext
  <1>4. regs' \in [Regs -> Values]
    BY <1>1, ClobberedTyped DEF EntryTypeOK
  <1>5. CASE InUser
    <2>1. Owns(regs, task[cur].val, S) /\ cur \in Slots
      BY <1>1, <1>5, UserEntry
    <2>2. S \subseteq Regs
      BY <1>1, <2>1 DEF EntryTypeOK, TaskRecords, Counted
    <2>3. Owns(g, task[cur].val, S \ (Destroyed(f) \cup InFlight(f)))
      BY <2>1, <2>2 DEF Owns, Kept
    <2> HIDE DEF f, g, S
    <2> QED
      BY <1>1, <1>2, <1>3, <1>4, <1>5, <2>3, UserEntryKeeps DEF S, EntryTypeOK
  <1>6. CASE ~InUser
    <2> HIDE DEF f, g, S
    <2> QED
      BY <1>1, <1>2, <1>3, <1>4, <1>6, KernelEntryKeeps DEF EntryTypeOK
  <1> QED
    BY <1>5, <1>6

LEMMA TrapEntryKeeps ==
  ASSUME EntryInv, NEW call \in SyscallCalls \cup {"fault", "tick"}, trap_entry(call)
  PROVE  EntryInv'
  <1> DEFINE g == Kept(Regs)
             f == Frame("trap", call, g)
             S == Counted(task[cur], arch)
  <1>1. /\ Enter(f) /\ EntryTypeOK /\ arch = "riscv64"
        /\ call # "tick" => InUser
        /\ call = "tick" => ints
        /\ ctx' = IF call \in Calls THEN UserContext(regs["sp"]) ELSE ctx
        /\ regs' = Clobbered /\ ints' = FALSE
        /\ UNCHANGED <<u_rsp, snapshot>>
    BY DEF trap_entry, EntryInv
  <1>2. g \in Saved /\ f \in Frames
    BY <1>1, KeptSaved, FrameTyped, EntryAssumption DEF EntryTypeOK, Kinds
  <1>3. f.kind = "trap" /\ f.call = call /\ f.saved = g /\ ~f.done
        /\ f.kind \in Entered(arch) /\ SavesContext(f)
    BY <1>1 DEF Frame, Entered, Kept, Regs, SavesContext
  <1>4. regs' \in [Regs -> Values] /\ ctx' \in [Args \cup {"ip", "sp"} -> Values]
    BY <1>1, ClobberedTyped, UserContextTyped DEF EntryTypeOK
  <1>5. CASE InUser
    <2>1. Owns(regs, task[cur].val, S) /\ cur \in Slots
      BY <1>1, <1>5, UserEntry
    <2>2. S \subseteq Regs
      BY <1>1, <2>1 DEF EntryTypeOK, TaskRecords, Counted
    <2>3. Owns(g, task[cur].val, S \ (Destroyed(f) \cup InFlight(f)))
      BY <2>1, <2>2 DEF Owns, Kept
    <2>4. call = "fork" => Owns(ctx', task[cur].val, S \cap (Args \cup {"ip", "sp"}))
      BY <1>1, <2>1, UserContextTyped DEF Owns, Calls, EntryTypeOK
    <2> HIDE DEF f, g, S
    <2> QED
      BY <1>1, <1>2, <1>3, <1>4, <1>5, <2>3, <2>4, UserEntryKeeps DEF S, EntryTypeOK
  <1>6. CASE ~InUser
    <2> HIDE DEF f, g, S
    <2> QED
      BY <1>1, <1>2, <1>3, <1>4, <1>6, KernelEntryKeeps DEF EntryTypeOK
  <1> QED
    BY <1>5, <1>6

LEMMA WakeKeeps ==
  ASSUME EntryInv, NEW t \in Tasks, Wake(t)
  PROVE  EntryInv'
  <1> USE SlotsDistinct
  <1>1. /\ EntryTypeOK /\ task[t].state = "blocked" /\ t \in Slots /\ task[t] \in TaskRecords
        /\ task' = [task EXCEPT ![t] = [task[t] EXCEPT !.state = "ready"]]
        /\ UNCHANGED <<arch, cur, regs, ints, k_rsp, cr3, fs, u_rsp, snapshot, ctx, exec>>
    BY DEF EntryInv, Wake, cpu, globals, EntryTypeOK, Slots
  <1> DEFINE y == [task[t] EXCEPT !.state = "ready"]
  <1>2. /\ y \in TaskRecords /\ y.state = "ready" /\ y.stack = task[t].stack
        /\ y.val = task[t].val /\ y.live = task[t].live
    BY <1>1 DEF TaskRecords
  <1> HIDE DEF y
  <1>3. /\ task' \in [Slots -> TaskRecords] /\ task'[t] = y
        /\ \A u \in Slots \ {t} : task'[u] = task[u]
    BY <1>1, <1>2 DEF EntryTypeOK, y
  <1>4. EntryTypeOK'
    BY <1>1, <1>3 DEF EntryTypeOK
  <1>5. CASE cur = Halted
    BY <1>1, <1>4, <1>5 DEF EntryInv
  <1>6. CASE cur # Halted
    <2>1. CpuInv /\ cur # t /\ cur \in Slots
      BY <1>1, <1>6 DEF EntryInv, CpuInv, CurrentStack, EntryTypeOK
    <2>2. Suspended(y, arch, t)
      <3>1. Suspended(task[t], arch, t)
        BY <1>1, <2>1 DEF CpuInv, OthersWait, Waiting
      <3> QED
        BY <1>2, <3>1 DEF Suspended, Fresh, SwitchedOut, BaseKeeps, Counted
    <2>3. OthersWait'
      BY <1>1, <1>3, <2>1, <2>2 DEF CpuInv, OthersWait, Waiting, Slots
    <2>4. /\ CurrentStack' /\ CurrentKeeps' /\ ForkReady' /\ ExecPending' /\ StackRegister' /\ TableActive'
      BY <1>1, <1>3, <2>1 DEF CpuInv, CurrentStack, CurrentKeeps, ForkReady, ExecPending,
                              StackRegister, TableActive
    <2> QED
      BY <1>1, <1>4, <2>1, <2>3, <2>4 DEF EntryInv, CpuInv
  <1> QED
    BY <1>5, <1>6

(***************************************************************************)
(* Handlers that stay with the current task                                *)
(***************************************************************************)
LEMMA HandlerFacts ==
  ASSUME EntryInv, NEW calls, Handles(calls)
  PROVE  LET s == task[cur].stack
             u == Served[cur].stack
         IN  /\ EntryTypeOK /\ CpuInv /\ cur \in Slots /\ exec = NoValue
             /\ s \in Seq(Frames) /\ s # <<>> /\ Len(s) \in Nat \ {0}
             /\ s[Len(s)].call \in calls /\ ~s[Len(s)].done
             /\ Served \in [Slots -> TaskRecords] /\ Served[cur] \in TaskRecords
             /\ \A t \in Slots \ {cur} : Served[t] = task[t]
             /\ Served[cur] = [task[cur] EXCEPT !.stack = u]
             /\ u \in Seq(Frames) /\ u # <<>> /\ Len(u) = Len(s) /\ Alike(s, u, Len(s))
             /\ u[Len(u)].done
             /\ Served[cur].val = task[cur].val /\ Served[cur].live = task[cur].live
             /\ Served[cur].pt = task[cur].pt /\ Served[cur].state = task[cur].state
  <1> DEFINE s == task[cur].stack
             u == Served[cur].stack
  <1>1. EntryTypeOK /\ CpuInv /\ cur \in Slots /\ cur # Halted /\ s # <<>>
    BY DEF EntryInv, EntryTypeOK, Handles, InProgram
  <1>2. /\ task \in [Slots -> TaskRecords] /\ task[cur] \in TaskRecords
        /\ s \in Seq(Frames) /\ Len(s) \in Nat \ {0}
    BY <1>1 DEF EntryTypeOK, TaskRecords
  <1>3. s[Len(s)].call \in calls /\ ~s[Len(s)].done
    BY DEF Handles, Top
  <1>4. exec = NoValue
    BY <1>1, <1>3 DEF CpuInv, ExecPending
  <1>5. /\ Served \in [Slots -> TaskRecords]
        /\ \A t \in Slots \ {cur} : Served[t] = task[t]
        /\ Served[cur] = [task[cur] EXCEPT !.stack = u]
        /\ u \in Seq(Frames) /\ u # <<>> /\ Len(u) = Len(s) /\ Alike(s, u, Len(s))
        /\ u[Len(u)].done
    BY <1>1, <1>2, ServedFacts
  <1>6. /\ Served[cur] \in TaskRecords
        /\ Served[cur].val = task[cur].val /\ Served[cur].live = task[cur].live
        /\ Served[cur].pt = task[cur].pt /\ Served[cur].state = task[cur].state
    <2> HIDE DEF u
    <2> QED
      BY <1>1, <1>2, <1>5, WithStack
  <1> QED
    BY <1>1, <1>2, <1>3, <1>4, <1>5, <1>6

\* A handler that leaves the task as it is but for its being through, and the
\* CPU but for FS.base, keeps what is said of the current task.
LEMMA HandlerStays ==
  ASSUME EntryInv, NEW calls, Handles(calls),
         task' \in [Slots -> TaskRecords],
         task'[cur].stack = Served[cur].stack, task'[cur].val = task[cur].val,
         task'[cur].live = task[cur].live, task'[cur].pt = task[cur].pt,
         task'[cur].state = task[cur].state,
         UNCHANGED <<arch, cur, regs, ints, k_rsp, cr3, u_rsp, snapshot, ctx, exec>>,
         fs' \in Values, OthersWait'
  PROVE  EntryInv'
  <1> DEFINE s == task[cur].stack
             u == Served[cur].stack
  <1>1. /\ EntryTypeOK /\ CpuInv /\ cur \in Slots /\ exec = NoValue
        /\ s # <<>> /\ Len(s) \in Nat \ {0}
        /\ u # <<>> /\ Len(u) = Len(s) /\ Alike(s, u, Len(s)) /\ u[Len(u)].done
    BY HandlerFacts
  <1> HIDE DEF u
  <1>2. task'[cur].stack = u
    BY DEF u
  <1>3. EntryTypeOK'
    BY <1>1 DEF EntryTypeOK
  <1>4. CurrentStack'
    <2>1. Entries(s, Len(s), arch, cur) /\ (s[Len(s)].kind # "int80" => ~ints)
      BY <1>1 DEF CpuInv, CurrentStack
    <2>2. Entries(u, Len(u), arch, cur)
      BY <1>1, <2>1, AlikeEntries
    <2>3. u[Len(u)].kind = s[Len(s)].kind
      BY <1>1 DEF Alike
    <2> QED
      BY <1>1, <1>2, <2>1, <2>2, <2>3 DEF CpuInv, CurrentStack
  <1>5. CurrentKeeps'
    <2> SUFFICES ASSUME cur # Idle PROVE BaseKeeps(task'[cur], arch, regs)
      BY <1>1, <1>2 DEF CurrentKeeps
    <2>1. BaseKeeps(task[cur], arch, regs)
      BY <1>1 DEF CpuInv, CurrentKeeps
    <2>2. Alike(task[cur].stack, task'[cur].stack, 1)
      BY <1>1, <1>2 DEF Alike
    <2> QED
      BY <2>1, <2>2, AlikeBase
  <1>6. ForkReady' /\ ExecPending' /\ StackRegister' /\ TableActive'
    BY <1>1, <1>2 DEF ForkReady, ExecPending, StackRegister, TableActive, CpuInv
  <1>7. cur' # Halted
    BY <1>1, SlotsDistinct
  <1> QED
    BY <1>3, <1>4, <1>5, <1>6, <1>7 DEF EntryInv, CpuInv

LEMMA PlainKeeps ==
  ASSUME EntryInv, Plain
  PROVE  EntryInv'
  <1>1. /\ Handles({"plain", "fault", "tick"}) /\ task' = Served
        /\ UNCHANGED <<arch, cur, regs, ints, k_rsp, cr3, fs, u_rsp, snapshot, ctx, exec>>
    BY DEF Plain, cpu, globals
  <1>2. /\ EntryTypeOK /\ CpuInv /\ cur \in Slots
        /\ Served \in [Slots -> TaskRecords]
        /\ \A t \in Slots \ {cur} : Served[t] = task[t]
        /\ Served[cur].val = task[cur].val /\ Served[cur].live = task[cur].live
        /\ Served[cur].pt = task[cur].pt /\ Served[cur].state = task[cur].state
    BY <1>1, HandlerFacts
  <1>3. OthersWait'
    BY <1>1, <1>2, OthersStay DEF CpuInv, OthersWait, CurrentStack, Slots
  <1>4. fs' \in Values
    BY <1>1, <1>2 DEF EntryTypeOK
  <1> QED
    BY <1>1, <1>2, <1>3, <1>4, HandlerStays

LEMMA SetFsKeeps ==
  ASSUME EntryInv, SetFs
  PROVE  EntryInv'
  <1> DEFINE v == <<cur, 0>>
             x == Served[cur]
             y == [x EXCEPT !.fs_base = v, !.tp = v]
  <1>1. /\ Handles({"set_fs"}) /\ fs' = v
        /\ task' = [Served EXCEPT ![cur].fs_base = v, ![cur].tp = v]
        /\ UNCHANGED <<arch, cur, regs, ints, k_rsp, cr3, u_rsp, snapshot, ctx, exec>>
    BY DEF SetFs, globals
  <1>2. /\ EntryTypeOK /\ CpuInv /\ cur \in Slots
        /\ Served \in [Slots -> TaskRecords] /\ x \in TaskRecords
        /\ \A t \in Slots \ {cur} : Served[t] = task[t]
        /\ x.val = task[cur].val /\ x.live = task[cur].live
        /\ x.pt = task[cur].pt /\ x.state = task[cur].state
    BY <1>1, HandlerFacts
  <1>3. v \in Values
    BY <1>2 DEF Values, Slots
  <1>4. task' = [Served EXCEPT ![cur] = y]
    BY <1>1, <1>2
  <1> HIDE DEF v, x
  <1>5. /\ y \in TaskRecords /\ y.stack = x.stack /\ y.val = x.val /\ y.live = x.live
        /\ y.pt = x.pt /\ y.state = x.state
    BY <1>2, <1>3 DEF TaskRecords
  <1> HIDE DEF y
  <1>6. /\ task' \in [Slots -> TaskRecords] /\ task'[cur] = y
        /\ \A t \in Slots \ {cur} : task'[t] = task[t]
    BY <1>2, <1>4, <1>5
  <1>7. OthersWait'
    BY <1>1, <1>2, <1>5, <1>6, OthersStay DEF CpuInv, OthersWait, CurrentStack, Slots
  <1>8. /\ task'[cur].stack = Served[cur].stack /\ task'[cur].val = task[cur].val
        /\ task'[cur].live = task[cur].live /\ task'[cur].pt = task[cur].pt
        /\ task'[cur].state = task[cur].state /\ fs' \in Values
    BY <1>1, <1>2, <1>3, <1>5, <1>6 DEF x
  <1> QED
    BY <1>1, <1>6, <1>7, <1>8, HandlerStays

\* fork and waitpid put a record in the slot of a task that is no more.
LEMMA SlotReplaced ==
  ASSUME EntryInv, NEW calls, Handles(calls), NEW t \in Tasks, NEW y \in TaskRecords,
         task[t].state \in {"none", "zombie"},
         task' = [Served EXCEPT ![t] = y],
         y.state \in {"ready", "blocked"} => Suspended(y, arch, t),
         UNCHANGED <<arch, cur, regs, ints, k_rsp, cr3, fs, u_rsp, snapshot, ctx, exec>>
  PROVE  EntryInv'
  <1> USE SlotsDistinct
  <1>1. /\ EntryTypeOK /\ CpuInv /\ cur \in Slots
        /\ Served \in [Slots -> TaskRecords]
        /\ \A u \in Slots \ {cur} : Served[u] = task[u]
        /\ Served[cur].val = task[cur].val /\ Served[cur].live = task[cur].live
        /\ Served[cur].pt = task[cur].pt /\ Served[cur].state = task[cur].state
    BY HandlerFacts
  <1>2. t # cur /\ t \in Slots /\ t # Idle
    BY <1>1 DEF CpuInv, CurrentStack, Slots
  <1>3. /\ task' \in [Slots -> TaskRecords] /\ task'[t] = y /\ task'[cur] = Served[cur]
        /\ \A u \in Slots \ {cur, t} : task'[u] = task[u]
    BY <1>1, <1>2
  <1>4. task'[Idle].state = "ready"
    BY <1>1, <1>2, <1>3 DEF CpuInv, OthersWait, Slots
  <1>5. OthersWait'
    BY <1>1, <1>3, <1>4 DEF CpuInv, OthersWait, Waiting
  <1>6. fs' \in Values
    BY <1>1 DEF EntryTypeOK
  <1> QED
    BY <1>1, <1>3, <1>5, <1>6, HandlerStays

LEMMA ReapKeeps ==
  ASSUME EntryInv, Reap
  PROVE  EntryInv'
  <1>1. PICK t \in Tasks : task[t].state = "zombie" /\ task' = [Served EXCEPT ![t] = NoTask]
    BY DEF Reap
  <1>2. /\ Handles({"reap"})
        /\ UNCHANGED <<arch, cur, regs, ints, k_rsp, cr3, fs, u_rsp, snapshot, ctx, exec>>
    BY DEF Reap, cpu, globals
  <1>3. NoTask.state = "none"
    BY DEF NoTask
  <1> QED
    BY <1>1, <1>2, <1>3, NoTaskTyped, SlotReplaced

LEMMA ForkKeeps ==
  ASSUME EntryInv, Fork
  PROVE  EntryInv'
  <1> USE SlotsDistinct
  <1>1. /\ Handles({"fork"})
        /\ UNCHANGED <<arch, cur, regs, ints, k_rsp, cr3, fs, u_rsp, snapshot, ctx, exec>>
    BY DEF Fork, cpu, globals
  <1>2. /\ EntryTypeOK /\ CpuInv /\ cur \in Slots /\ task[cur] \in TaskRecords
        /\ task[cur].stack # <<>> /\ Len(task[cur].stack) \in Nat \ {0}
        /\ task[cur].stack[Len(task[cur].stack)].call = "fork"
        /\ ~task[cur].stack[Len(task[cur].stack)].done
        /\ Served \in [Slots -> TaskRecords]
        /\ \A t \in Slots \ {cur} : Served[t] = task[t]
        /\ Served[cur].val = task[cur].val /\ Served[cur].live = task[cur].live
        /\ Served[cur].pt = task[cur].pt /\ Served[cur].state = task[cur].state
    <2>1. EntryTypeOK /\ cur \in Slots
      BY <1>1, HandlerFacts
    <2>2. task[cur] \in TaskRecords
      BY <2>1 DEF EntryTypeOK
    <2> QED
      BY <1>1, <2>2, HandlerFacts
  <1>3. CASE Vacant = {}
    <2>1. task' = Served
      BY <1>3 DEF Fork
    <2>2. OthersWait'
      BY <1>1, <1>2, <2>1, OthersStay DEF CpuInv, OthersWait, CurrentStack, Slots
    <2>3. fs' \in Values
      BY <1>1, <1>2 DEF EntryTypeOK
    <2> QED
      BY <1>1, <1>2, <2>1, <2>2, <2>3, HandlerStays
  <1>4. CASE Vacant # {}
    <2> DEFINE S == Counted(task[cur], arch)
               l == (task[cur].live \cap DOMAIN ForkRegs) \ {"rax"}
               child(t) == NewTask("fork", ForkRegs, <<t, 0>>, fs, task[cur].val, l, task[cur].tp)
    <2>1. PICK t \in Vacant : task' = [Served EXCEPT ![t] = child(t)]
      BY <1>4 DEF Fork
    <2>2. t \in Tasks /\ task[t].state \in {"none", "zombie"}
      BY <2>1 DEF Vacant
    <2>3. ForkRegs \in Saved
      <3>1. CASE arch = "x86_64"
        <4>1. ForkRegs \in [Regs \ {"rcx", "r11"} -> Values]
          BY <1>2, <3>1, ConstantValues DEF ForkRegs, EntryTypeOK, Regs
        <4> QED
          BY <4>1, SavedPart
      <3>2. CASE arch # "x86_64"
        <4>1. ForkRegs \in [{"ip", "sp"} -> Values]
          BY <1>2, <3>2 DEF ForkRegs, EntryTypeOK
        <4>2. {"ip", "sp"} \in SUBSET Regs
          BY DEF Regs
        <4> QED
          BY <4>1, <4>2, SavedPart
      <3> QED
        BY <3>1, <3>2
    <2>4. /\ Owns(ctx, task[cur].val, S \cap (Args \cup {"ip", "sp"}))
          /\ arch = "x86_64" => Owns(snapshot, task[cur].val, S \cap Callee)
      BY <1>2 DEF CpuInv, ForkReady
    <2>5. Owns(ForkRegs, task[cur].val, l \ (IF arch = "x86_64" THEN {"sp"} ELSE {}))
      <3>1. CASE arch = "x86_64"
        BY <2>4, <3>1 DEF Owns, ForkRegs, Counted, Regs
      <3>2. CASE arch # "x86_64"
        BY <2>4, <3>2 DEF Owns, ForkRegs, Counted
      <3> QED
        BY <3>1, <3>2
    <2>6. l \in SUBSET Regs /\ <<t, 0>> \in Values /\ fs \in Values
      <3>1. task[cur].live \subseteq Regs /\ fs \in Values
        BY <1>2 DEF EntryTypeOK, TaskRecords
      <3>2. <<t, 0>> \in Values
        BY <2>2 DEF Values
      <3> QED
        BY <3>1, <3>2
    <2>7. child(t) \in TaskRecords /\ Len(child(t).stack) = 1
      <3>1. task[cur].val \in Values /\ task[cur].tp \in Values /\ "fork" \in Kinds
        BY <1>2 DEF TaskRecords, Kinds
      <3> HIDE DEF l
      <3> QED
        BY <2>3, <2>6, <3>1, NewTaskTyped
    <2>8. /\ child(t).stack[1].kind = "fork" /\ child(t).stack[1].saved = ForkRegs
          /\ child(t).live = l /\ child(t).val = task[cur].val
      BY DEF NewTask
    <2> HIDE DEF l, child
    <2>9. Suspended(child(t), arch, t)
      BY <2>2, <2>5, <2>7, <2>8 DEF Suspended, Fresh, BaseKeeps, Owns, Counted
    <2> QED
      BY <1>1, <2>1, <2>2, <2>7, <2>9, SlotReplaced
  <1> QED
    BY <1>3, <1>4

LEMMA ExecKeeps ==
  ASSUME EntryInv, Exec
  PROVE  EntryInv'
  <1> USE SlotsDistinct
  <1> DEFINE v == <<cur, 1 - task[cur].pt[2]>>
             s == task[cur].stack
             x == Served[cur]
             y == [x EXCEPT !.pt = v, !.fs_base = NoValue, !.val = v, !.live = {"ip", "sp"},
                            !.tp = NoValue]
  <1>1. /\ Handles({"exec"}) /\ exec' = v /\ fs' = NoValue
        /\ task' = [Served EXCEPT ![cur].pt = v, ![cur].fs_base = NoValue, ![cur].val = v,
                                  ![cur].live = {"ip", "sp"}, ![cur].tp = NoValue]
        /\ UNCHANGED <<arch, cur, regs, ints, k_rsp, cr3, u_rsp, snapshot, ctx>>
    BY DEF Exec
  <1>2. /\ EntryTypeOK /\ CpuInv /\ cur \in Slots
        /\ s # <<>> /\ Len(s) \in Nat \ {0} /\ s[Len(s)].call = "exec"
        /\ Served \in [Slots -> TaskRecords] /\ x \in TaskRecords
        /\ \A t \in Slots \ {cur} : Served[t] = task[t]
        /\ x.stack # <<>> /\ Len(x.stack) = Len(s) /\ Alike(s, x.stack, Len(s))
        /\ x.stack[Len(x.stack)].done /\ x.state = task[cur].state
    BY <1>1, HandlerFacts
  <1>3. Entries(s, Len(s), arch, cur) /\ (s[Len(s)].kind # "int80" => ~ints)
    BY <1>2 DEF CpuInv, CurrentStack
  <1>4. Len(s) = 1 /\ s[1].kind \in {"syscall", "trap"} /\ cur # Idle /\ SavesContext(s[1])
    <2> DEFINE n == Len(s)
    <2>1. n \in Nat \ {0} /\ Entries(s, n, arch, cur) /\ s[n].call = "exec"
      BY <1>2, <1>3
    <2> HIDE DEF s, n
    <2>2. n = 1 /\ s[n].kind \in {"syscall", "trap"} /\ SavesContext(s[n])
      BY <2>1, EntriesTop
    <2>3. cur # Idle
      BY <2>1, <2>2, EntriesTop
    <2> QED
      BY <2>2, <2>3 DEF n
  <1>5. v \in Values /\ v # NoValue
    <2>1. task[cur].pt \in Values /\ cur \in Tasks
      BY <1>2, <1>4 DEF EntryTypeOK, TaskRecords, Slots
    <2> QED
      BY <2>1 DEF Values, NoValue, Idle
  <1>6. task' = [Served EXCEPT ![cur] = y]
    BY <1>1, <1>2
  <1> HIDE DEF v, x, s
  <1>7. /\ y \in TaskRecords /\ y.stack = x.stack /\ y.val = v /\ y.live = {"ip", "sp"}
        /\ y.pt = v /\ y.state = x.state
    <2>1. {"ip", "sp"} \in SUBSET Regs
      BY DEF Regs
    <2> QED
      BY <1>2, <1>5, <2>1, ConstantValues DEF TaskRecords
  <1> HIDE DEF y
  <1>8. /\ task' \in [Slots -> TaskRecords] /\ task'[cur] = y
        /\ \A t \in Slots \ {cur} : task'[t] = task[t]
    BY <1>2, <1>6, <1>7
  <1>9. EntryTypeOK'
    BY <1>1, <1>2, <1>5, <1>8, ConstantValues DEF EntryTypeOK
  <1>10. OthersWait'
    BY <1>1, <1>2, <1>7, <1>8, OthersStay DEF CpuInv, OthersWait, CurrentStack, Slots
  <1>11. /\ Len(x.stack) = 1 /\ x.stack[1].done /\ x.stack[1].kind = s[1].kind
         /\ x.stack[1].call = "exec" /\ x.stack[1].saved = s[1].saved
    BY <1>2, <1>4 DEF Alike
  <1>12. CurrentStack'
    <2>1. Entries(x.stack, Len(x.stack), arch, cur)
      BY <1>2, <1>3, AlikeEntries
    <2>2. ~ints
      BY <1>3, <1>4
    <2> QED
      BY <1>1, <1>2, <1>7, <1>8, <2>1, <2>2 DEF CpuInv, CurrentStack
  <1>13. CurrentKeeps' /\ TableActive'
    BY <1>1, <1>5 DEF CurrentKeeps, TableActive
  <1>14. ExecPending' /\ ForkReady'
    <2>1. SavesContext(x.stack[1])
      BY <1>4, <1>11 DEF SavesContext
    <2> QED
      <3>1. /\ cur' = cur /\ task'[cur].stack = x.stack /\ task'[cur].val = exec' /\ task'[cur].pt = exec'
            /\ task'[cur].live = {"ip", "sp"} /\ x.stack[1].call \in Calls
            /\ x.stack[1].kind \in {"syscall", "trap"}
        BY <1>1, <1>4, <1>7, <1>8, <1>11 DEF Calls
      <3>2. ExecPending'
        BY <1>4, <1>11, <2>1, <3>1 DEF ExecPending
      <3>3. ForkReady'
        BY <1>11, <3>1 DEF ForkReady
      <3> QED
        BY <3>2, <3>3
  <1>15. StackRegister'
    BY <1>1, <1>2, <1>4, <1>7, <1>8 DEF StackRegister, CpuInv
  <1> QED
    BY <1>1, <1>2, <1>9, <1>10, <1>12, <1>13, <1>14, <1>15 DEF EntryInv, CpuInv

(***************************************************************************)
(* Switching.  y is the record of the current task in the table that       *)
(* schedule is given: the task may go on, or has blocked or exited.        *)
(***************************************************************************)
MayLeave(y) ==
  /\ y \in TaskRecords /\ y.stack # <<>>
  /\ Entries(y.stack, Len(y.stack), arch, cur)
  /\ cur # Idle => BaseKeeps(y, arch, regs)
  /\ y.pt = task[cur].pt
  /\ y.stack[Len(y.stack)].kind # "int80" => ~ints
  /\ y.state # "zombie" => y.stack[Len(y.stack)].done
  /\ y.state = "ready" \/ cur # Idle

\* The task that leaves can be switched to again.
LEMMA LeaverWaits ==
  ASSUME EntryTypeOK, cur \in Slots, NEW y, MayLeave(y), y.state # "zombie",
         NEW next \in Slots, NEW z,
         z = [y EXCEPT !.fs_base = fs,
                       !.stack = Append(y.stack, [Frame("switch", "plain", SwitchSaved)
                                                    EXCEPT !.done = TRUE, !.next = next])]
  PROVE  z \in TaskRecords /\ z.state = y.state /\ Suspended(z, arch, cur)
  <1> DEFINE s == y.stack
             n == Len(s)
             f == [Frame("switch", "plain", SwitchSaved) EXCEPT !.done = TRUE, !.next = next]
             u == Append(s, f)
  <1>1. y \in TaskRecords /\ s \in Seq(Frames) /\ n \in Nat \ {0}
    BY DEF MayLeave, TaskRecords
  <1>2. SwitchSaved \in Saved /\ DOMAIN SwitchSaved = Callee
        /\ \A r \in Callee : SwitchSaved[r] = regs[r]
    BY KeptSaved DEF SwitchSaved, Kept, EntryTypeOK, Regs
  <1>3. f \in Frames /\ f.kind = "switch" /\ f.saved = SwitchSaved /\ f.ints = ints
    <2>1. Frame("switch", "plain", SwitchSaved) \in Frames
      BY <1>2, FrameTyped DEF EntryTypeOK, Kinds, Calls
    <2> QED
      BY <2>1 DEF Frames, Frame
  <1> HIDE DEF f
  <1>4. /\ u \in Seq(Frames) /\ Len(u) = n + 1 /\ u[n + 1] = f
        /\ \A i \in 1 .. n : u[i] = s[i]
    BY <1>1, <1>3, PushedStack
  <1> HIDE DEF u
  <1>5. z = [y EXCEPT !.fs_base = fs, !.stack = u]
    BY DEF u, f
  <1>6. /\ z \in TaskRecords /\ z.stack = u /\ z.val = y.val /\ z.live = y.live
        /\ z.state = y.state
    BY <1>1, <1>4, <1>5 DEF TaskRecords, EntryTypeOK
  <1>7. SwitchedOut(z, arch, cur)
    <2>1. Entries(s, n, arch, cur)
      BY DEF MayLeave
    <2>2. Alike(s, u, n)
      BY <1>4 DEF Alike
    <2>3. Entries(u, n, arch, cur)
      BY <1>1, <2>1, <2>2, AlikeEntries
    <2>4. u[n] = s[n] /\ Len(u) - 1 = n /\ Len(u) >= 2
      BY <1>1, <1>4
    <2>5. s[n].done /\ (s[n].kind # "int80" => ~ints)
      BY DEF MayLeave
    <2> HIDE DEF s, n
    <2> QED
      BY <1>3, <1>4, <1>6, <2>3, <2>4, <2>5 DEF SwitchedOut
  <1>8. ASSUME cur # Idle
        PROVE  BaseKeeps(z, arch, z.stack[Len(z.stack)].saved)
    <2>1. BaseKeeps(y, arch, regs)
      BY <1>8 DEF MayLeave
    <2>2. z.stack[1] = y.stack[1] /\ z.stack[Len(z.stack)].saved = SwitchSaved
      <3>1. u[1] = s[1]
        BY <1>1, <1>4
      <3>2. u[Len(u)] = f
        BY <1>1, <1>4
      <3> HIDE DEF s, n
      <3> QED
        BY <1>3, <1>6, <3>1, <3>2 DEF s
    <2>3. Counted(z, arch) = Counted(y, arch)
      BY <1>6 DEF Counted
    <2> QED
      BY <1>2, <1>6, <2>1, <2>2, <2>3 DEF BaseKeeps, Owns
  <1> QED
    BY <1>6, <1>7, <1>8 DEF Suspended

\* The task that comes in finds its registers, its kernel stack and its table.
LEMMA ArriverRuns ==
  ASSUME EntryTypeOK', NEW next \in Slots, NEW x \in TaskRecords, Suspended(x, arch, next),
         x.state = "ready", cur' = next, arch' = arch, exec' = NoValue,
         k_rsp' = StackFor(next), cr3' = x.pt,
         task'[next] = [x EXCEPT !.stack = Popped(x.stack)],
         regs' = Loaded(x.stack[Len(x.stack)].saved, Only(Regs, Garbage)),
         x.stack[Len(x.stack)].kind = "switch" => ints' = x.stack[Len(x.stack)].ints
  PROVE  /\ CurrentStack' /\ CurrentKeeps' /\ ForkReady' /\ ExecPending' /\ StackRegister'
         /\ TableActive'
  <1> USE SlotsDistinct
  <1> DEFINE s == x.stack
             n == Len(s)
             f == s[n]
             u == Popped(s)
             S == Counted(x, arch)
  <1>1. s \in Seq(Frames) /\ s # <<>> /\ S \subseteq Regs
    BY DEF Suspended, Fresh, SwitchedOut, TaskRecords, Counted
  <1>2. /\ n \in Nat \ {0} /\ f \in Frames /\ u \in Seq(Frames) /\ Len(u) = n - 1
        /\ \A i \in 1 .. n - 1 : u[i] = s[i]
    BY <1>1, PoppedStack
  <1> HIDE DEF u
  <1>3. /\ task'[next].stack = u /\ task'[next].val = x.val /\ task'[next].live = x.live
        /\ task'[next].state = "ready" /\ task'[next].pt = x.pt
    BY <1>2, WithStack DEF u
  <1>4. Counted(task'[next], arch) = S
    BY <1>3 DEF Counted
  <1>5. \A r \in Regs : r \in DOMAIN f.saved => regs'[r] = f.saved[r]
    BY DEF Loaded
  <1>6. DOMAIN regs' = Regs
    BY DEF EntryTypeOK
  <1>7. ExecPending' /\ StackRegister' /\ TableActive'
    BY <1>3 DEF ExecPending, StackRegister, TableActive, StackFor
  <1>8. CASE Fresh(x)
    <2>1. n = 1 /\ f = s[1] /\ f.kind \in {"start", "fork"} /\ Len(u) = 0
      BY <1>2, <1>8 DEF Fresh
    <2>2. u = <<>>
      BY <1>2, <2>1
    <2>3. CurrentStack' /\ ForkReady'
      BY <1>3, <2>2 DEF CurrentStack, ForkReady, Entries
    <2>4. next # Idle => Owns(f.saved, x.val, S)
      BY <2>1 DEF Suspended, BaseKeeps, Destroyed, InFlight, Owns
    <2>5. next # Idle => Owns(regs', x.val, S)
      BY <1>1, <1>5, <1>6, <2>4 DEF Owns
    <2>6. CurrentKeeps'
      BY <1>3, <1>4, <2>2, <2>5 DEF CurrentKeeps
    <2> QED
      BY <1>7, <2>3, <2>6
  <1>9. CASE SwitchedOut(x, arch, next)
    <2>1. /\ n >= 2 /\ Entries(s, n - 1, arch, next) /\ f.kind = "switch" /\ s[n - 1].done
          /\ s[n - 1].kind # "int80" => ~f.ints
      BY <1>9 DEF SwitchedOut
    <2>2. /\ n - 1 \in Nat \ {0} /\ u # <<>> /\ u[Len(u)] = s[n - 1] /\ u[1] = s[1]
          /\ Alike(s, u, n - 1)
      BY <1>2, <2>1 DEF Alike
    <2>3. Entries(u, Len(u), arch, next)
      BY <1>2, <2>1, <2>2, AlikeEntries
    <2>4. CurrentStack' /\ ForkReady'
      BY <1>3, <2>1, <2>2, <2>3 DEF CurrentStack, ForkReady
    <2>5. ASSUME next # Idle PROVE BaseKeeps(task'[next], arch, regs')
      <3>1. BaseKeeps(x, arch, f.saved)
        BY <2>5 DEF Suspended
      <3>2. s[1].kind = "syscall" => Owns(regs', x.val, S \cap Callee)
        BY <1>1, <1>5, <1>6, <3>1 DEF BaseKeeps, Owns
      <3> QED
        BY <1>3, <1>4, <2>2, <3>1, <3>2 DEF BaseKeeps
    <2>6. CurrentKeeps'
      BY <1>3, <2>2, <2>5 DEF CurrentKeeps
    <2> QED
      BY <1>7, <2>4, <2>6
  <1> QED
    BY <1>8, <1>9 DEF Suspended

LEMMA ScheduleKeeps ==
  ASSUME EntryTypeOK, CpuInv, cur \in Slots, exec = NoValue, UNCHANGED <<arch, u_rsp, snapshot, ctx, exec>>,
         NEW ts \in [Slots -> TaskRecords], \A t \in Slots \ {cur} : ts[t] = task[t],
         MayLeave(ts[cur]), schedule(ts)
  PROVE  EntryInv'
  <1> USE SlotsDistinct
  <1> DEFINE y == ts[cur]
             switch(next) == [Frame("switch", "plain", SwitchSaved) EXCEPT !.done = TRUE, !.next = next]
             left(next) == [ts EXCEPT ![cur].fs_base = fs,
                                ![cur].stack = IF ts[cur].state = "zombie" THEN <<>>
                                               ELSE Append(@, switch(next))]
             f(next) == left(next)[next].stack[Len(left(next)[next].stack)]
             panics(next) == f(next).kind = "switch" /\ left(next)[f(next).next].state = "none"
  <1>1. PICK next \in NextSlots(ts) :
          IF next = cur THEN task' = ts /\ UNCHANGED <<cur, cpu>>
          ELSE /\ cur' = IF panics(next) THEN Halted ELSE next
               /\ k_rsp' = StackFor(next)
               /\ cr3' = TableFor(left(next)[next])
               /\ task' = [left(next) EXCEPT ![next].stack = Popped(@)]
               /\ regs' = Loaded(f(next).saved, Only(Regs, Garbage))
               /\ fs' = IF f(next).kind = "switch" /\ ~panics(next) THEN left(next)[f(next).next].fs_base
                        ELSE fs
               /\ ints' = (f(next).ints /\ ~panics(next))
    BY DEF schedule
  <1>2. /\ next \in Slots /\ (next = Idle \/ ts[next].state = "ready")
    BY <1>1 DEF NextSlots, ReadyTasks, Slots
  <1>3. /\ y \in TaskRecords /\ y.stack # <<>> /\ y.stack \in Seq(Frames)
        /\ Len(y.stack) \in Nat \ {0}
    BY DEF MayLeave, TaskRecords
  <1>4. CASE next = cur
    <2>1. /\ task' = ts /\ UNCHANGED <<arch, cur, regs, ints, k_rsp, cr3, fs, u_rsp, snapshot, ctx, exec>>
          /\ y.state = "ready"
      BY <1>1, <1>2, <1>4 DEF cpu, MayLeave
    <2>2. EntryTypeOK'
      BY <2>1 DEF EntryTypeOK
    <2>3. OthersWait'
      BY <2>1, OthersStay DEF CpuInv, OthersWait, Slots
    <2>4. CurrentStack' /\ ForkReady' /\ ExecPending'
      BY <2>1 DEF CurrentStack, ForkReady, ExecPending, MayLeave
    <2>5. CurrentKeeps'
      BY <1>3, <2>1 DEF CurrentKeeps, MayLeave
    <2>6. StackRegister' /\ TableActive'
      BY <1>3, <2>1 DEF StackRegister, TableActive, CpuInv, MayLeave
    <2> QED
      BY <2>1, <2>2, <2>3, <2>4, <2>5, <2>6 DEF EntryInv, CpuInv
  <1>5. CASE next # cur
    <2> DEFINE l == left(next)
               x == task[next]
               z == l[cur]
               g == x.stack[Len(x.stack)]
    <2>1. z = [y EXCEPT !.fs_base = fs,
                        !.stack = IF y.state = "zombie" THEN <<>> ELSE Append(@, switch(next))]
          /\ l = [ts EXCEPT ![cur] = z]
      OBVIOUS
    <2>2. z \in TaskRecords /\ z.state = y.state /\ (y.state # "zombie" => Suspended(z, arch, cur))
      <3>1. CASE y.state = "zombie"
        <4>1. z = [y EXCEPT !.fs_base = fs, !.stack = <<>>] /\ <<>> \in Seq(Frames)
          BY <2>1, <3>1
        <4> HIDE DEF z, y
        <4> QED
          BY <1>3, <3>1, <4>1 DEF TaskRecords, EntryTypeOK
      <3>2. CASE y.state # "zombie"
        <4>1. z = [y EXCEPT !.fs_base = fs,
                            !.stack = Append(y.stack, [Frame("switch", "plain", SwitchSaved)
                                                         EXCEPT !.done = TRUE, !.next = next])]
          BY <2>1, <3>2
        <4> HIDE DEF z, y
        <4> QED
          BY <1>2, <3>2, <4>1, LeaverWaits DEF y
      <3> QED
        BY <3>1, <3>2
    <2> HIDE DEF z
    <2>3. /\ l \in [Slots -> TaskRecords] /\ l[next] = x /\ l[cur] = z
          /\ \A t \in Slots \ {cur} : l[t] = task[t]
      BY <1>2, <1>5, <2>1, <2>2
    <2> HIDE DEF l
    <2>4. /\ x \in TaskRecords /\ x.state = "ready" /\ Suspended(x, arch, next)
      <3>1. x \in TaskRecords
        BY <1>2 DEF EntryTypeOK
      <3>2. x.state = "ready"
        BY <1>2, <1>5 DEF CpuInv, OthersWait
      <3> QED
        BY <1>2, <1>5, <3>1, <3>2 DEF CpuInv, OthersWait, Waiting
    <2>5. /\ x.stack \in Seq(Frames) /\ x.stack # <<>>
          /\ Popped(x.stack) \in Seq(Frames) /\ g \in Frames
      <3>1. x.stack \in Seq(Frames) /\ x.stack # <<>>
        BY <2>4 DEF Suspended, Fresh, SwitchedOut, TaskRecords
      <3> QED
        BY <3>1, PoppedStack
    <2> DEFINE w == [x EXCEPT !.stack = Popped(x.stack)]
    <2>6. f(next) = g /\ (panics(next) <=> g.kind = "switch" /\ l[g.next].state = "none")
      BY <2>3 DEF l
    <2>7. /\ cur' = IF panics(next) THEN Halted ELSE next
          /\ k_rsp' = StackFor(next) /\ cr3' = x.pt
          /\ task' = [l EXCEPT ![next] = w]
          /\ regs' = Loaded(g.saved, Only(Regs, Garbage))
          /\ fs' = IF g.kind = "switch" /\ ~panics(next) THEN l[g.next].fs_base ELSE fs
          /\ ints' = (g.ints /\ ~panics(next))
      BY <1>1, <1>5, <2>3, <2>6 DEF TableFor, l
    <2> HIDE DEF panics, f, switch, left
    <2>8. w \in TaskRecords /\ w.state = "ready"
      BY <2>4, <2>5, WithStack
    <2> HIDE DEF w
    <2>9. /\ task' \in [Slots -> TaskRecords] /\ task'[next] = w /\ task'[cur] = z
          /\ \A t \in Slots \ {cur, next} : task'[t] = task[t]
      BY <1>2, <1>5, <2>3, <2>7, <2>8
    <2>10. EntryTypeOK'
      <3>1. regs' \in [Regs -> Values]
        <4>1. Only(Regs, Garbage) \in [Regs -> Values] /\ g.saved \in Saved
          BY <2>5, ConstantValues DEF Only, Frames
        <4> QED
          BY <2>7, <4>1, LoadedTyped
      <3>2. fs' \in Values /\ cr3' \in Values
        <4>1. g.next \in Slots
          BY <2>5 DEF Frames
        <4>2. l[g.next] \in TaskRecords
          BY <2>3, <4>1
        <4> QED
          BY <2>4, <2>7, <4>2 DEF EntryTypeOK, TaskRecords
      <3>3. ints' \in BOOLEAN /\ cur' \in Slots \cup {Halted}
        BY <1>2, <2>5, <2>7 DEF Frames
      <3> QED
        BY <2>9, <3>1, <3>2, <3>3 DEF EntryTypeOK
    <2>11. CASE panics(next)
      BY <2>7, <2>10, <2>11 DEF EntryInv
    <2>12. CASE ~panics(next)
      <3>1. cur' = next /\ ints' = g.ints
        BY <2>5, <2>7, <2>12 DEF Frames
      <3>2. OthersWait'
        <4>1. task'[Idle].state = "ready"
          <5>1. CASE cur = Idle
            BY <2>2, <2>9, <5>1 DEF MayLeave
          <5>2. CASE cur # Idle
            BY <2>8, <2>9, <5>2 DEF CpuInv, OthersWait, Slots
          <5> QED
            BY <5>1, <5>2
        <4>2. ASSUME NEW t \in Slots \ {next} PROVE Waiting(t)'
          <5>1. CASE t = cur
            BY <2>2, <2>9, <5>1 DEF Waiting
          <5>2. CASE t # cur
            <6>1. task'[t] = task[t] /\ Waiting(t)
              BY <2>9, <4>2, <5>2 DEF CpuInv, OthersWait
            <6> QED
              BY <6>1 DEF Waiting
          <5> QED
            BY <5>1, <5>2
        <4> QED
          BY <3>1, <4>1, <4>2 DEF OthersWait
      <3>3. /\ CurrentStack' /\ CurrentKeeps' /\ ForkReady' /\ ExecPending' /\ StackRegister'
            /\ TableActive'
        <4>1. task'[next] = [x EXCEPT !.stack = Popped(x.stack)]
          BY <2>9 DEF w
        <4> HIDE DEF x
        <4> QED
          BY <1>2, <2>4, <2>7, <2>10, <3>1, <4>1, ArriverRuns DEF g
      <3> QED
        BY <1>2, <2>10, <3>1, <3>2, <3>3 DEF EntryInv, CpuInv
    <2> QED
      BY <2>11, <2>12
  <1> QED
    BY <1>4, <1>5

LEMMA YieldKeeps ==
  ASSUME EntryInv, Yield \/ Block
  PROVE  EntryInv'
  <1> USE SlotsDistinct
  <1> DEFINE s == task[cur].stack
             x == Served[cur]
  <1>1. PICK calls \in {{"yield", "tick"}, {"block"}} : Handles(calls)
    BY DEF Yield, Block
  <1>2. UNCHANGED <<arch, u_rsp, snapshot, ctx, exec>>
    BY DEF Yield, Block, globals
  <1>3. /\ EntryTypeOK /\ CpuInv /\ cur \in Slots /\ exec = NoValue
        /\ s # <<>> /\ Len(s) \in Nat \ {0} /\ s[Len(s)].call \in calls
        /\ Served \in [Slots -> TaskRecords] /\ x \in TaskRecords
        /\ \A t \in Slots \ {cur} : Served[t] = task[t]
        /\ x.stack # <<>> /\ Len(x.stack) = Len(s) /\ Alike(s, x.stack, Len(s))
        /\ x.stack[Len(x.stack)].done
        /\ x.val = task[cur].val /\ x.live = task[cur].live
        /\ x.pt = task[cur].pt /\ x.state = task[cur].state
    BY <1>1, HandlerFacts
  <1>4. Entries(s, Len(s), arch, cur) /\ (s[Len(s)].kind # "int80" => ~ints) /\ x.state = "ready"
    BY <1>3 DEF CpuInv, CurrentStack
  <1>5. MayLeave(x)
    <2>1. Entries(x.stack, Len(x.stack), arch, cur)
      BY <1>3, <1>4, AlikeEntries
    <2>2. ASSUME cur # Idle PROVE BaseKeeps(x, arch, regs)
      <3>1. BaseKeeps(task[cur], arch, regs)
        BY <1>3, <2>2 DEF CpuInv, CurrentKeeps
      <3>2. Alike(task[cur].stack, x.stack, 1)
        BY <1>3 DEF Alike
      <3> HIDE DEF x
      <3> QED
        BY <1>3, <3>1, <3>2, AlikeBase
    <2>3. x.stack[Len(x.stack)].kind = s[Len(s)].kind
      BY <1>3 DEF Alike
    <2> QED
      BY <1>3, <1>4, <2>1, <2>2, <2>3 DEF MayLeave
  <1>6. CASE Yield
    BY <1>2, <1>3, <1>5, <1>6, ScheduleKeeps DEF Yield
  <1>7. CASE Block
    <2> DEFINE y == [x EXCEPT !.state = "blocked"]
               ts == [Served EXCEPT ![cur].state = "blocked"]
    <2>1. Handles({"block"}) /\ schedule(ts)
      BY <1>7 DEF Block
    <2>2. cur # Idle
      <3>1. s[Len(s)].call = "block"
        BY <2>1, HandlerFacts
      <3> DEFINE n == Len(s)
      <3>2. n \in Nat \ {0} /\ Entries(s, n, arch, cur) /\ s[n].call # "tick"
        BY <1>3, <1>4, <3>1
      <3> HIDE DEF s, n
      <3> QED
        BY <3>2, EntriesTop
    <2>3. ts = [Served EXCEPT ![cur] = y]
      BY <1>3
    <2> HIDE DEF x, ts
    <2>4. /\ y \in TaskRecords /\ y.stack = x.stack /\ y.val = x.val /\ y.live = x.live
          /\ y.pt = x.pt /\ y.state = "blocked"
      BY <1>3 DEF TaskRecords
    <2> HIDE DEF y
    <2>5. MayLeave(y)
      BY <1>3, <1>5, <2>2, <2>4 DEF MayLeave, BaseKeeps, Counted
    <2>6. /\ ts \in [Slots -> TaskRecords] /\ ts[cur] = y
          /\ \A t \in Slots \ {cur} : ts[t] = task[t]
      BY <1>3, <2>3, <2>4
    <2> QED
      BY <1>2, <1>3, <2>1, <2>5, <2>6, ScheduleKeeps
  <1> QED
    BY <1>6, <1>7

LEMMA ExitKeeps ==
  ASSUME EntryInv, Exit
  PROVE  EntryInv'
  <1> USE SlotsDistinct
  <1> DEFINE x == task[cur]
             s == x.stack
             y == [x EXCEPT !.state = "zombie"]
             ts == [task EXCEPT ![cur].state = "zombie"]
  <1>1. Handles({"exit", "fault"}) /\ schedule(ts) /\ UNCHANGED <<arch, u_rsp, snapshot, ctx, exec>>
    BY DEF Exit, globals
  <1>2. /\ EntryTypeOK /\ CpuInv /\ cur \in Slots /\ exec = NoValue
        /\ s # <<>> /\ Len(s) \in Nat \ {0} /\ s[Len(s)].call \in {"exit", "fault"}
    BY <1>1, HandlerFacts
  <1>3. x \in TaskRecords /\ task \in [Slots -> TaskRecords]
    BY <1>2 DEF EntryTypeOK
  <1>4. Entries(s, Len(s), arch, cur) /\ (s[Len(s)].kind # "int80" => ~ints)
    BY <1>2 DEF CpuInv, CurrentStack
  <1>5. cur # Idle
    <2> DEFINE n == Len(s)
    <2>1. n \in Nat \ {0} /\ Entries(s, n, arch, cur) /\ s[n].call # "tick"
      BY <1>2, <1>4
    <2> HIDE DEF s, n
    <2> QED
      BY <2>1, EntriesTop
  <1>6. BaseKeeps(x, arch, regs)
    BY <1>2, <1>5 DEF CpuInv, CurrentKeeps
  <1>7. ts = [task EXCEPT ![cur] = y]
    BY <1>3
  <1> HIDE DEF ts
  <1>8. /\ y \in TaskRecords /\ y.stack = s /\ y.val = x.val /\ y.live = x.live
        /\ y.pt = x.pt /\ y.state = "zombie"
    BY <1>3 DEF TaskRecords
  <1> HIDE DEF y
  <1>9. MayLeave(y)
    BY <1>2, <1>4, <1>5, <1>6, <1>8 DEF MayLeave, BaseKeeps, Counted
  <1>10. /\ ts \in [Slots -> TaskRecords] /\ ts[cur] = y
         /\ \A t \in Slots \ {cur} : ts[t] = task[t]
    BY <1>2, <1>3, <1>7, <1>8
  <1> QED
    BY <1>1, <1>2, <1>9, <1>10, ScheduleKeeps

(***************************************************************************)
(* The way out                                                             *)
(***************************************************************************)
LEMMA ReturnKeeps ==
  ASSUME EntryInv, Return
  PROVE  EntryInv'
  <1> USE SlotsDistinct
  <1> DEFINE x == task[cur]
             s == x.stack
             n == Len(s)
             f == s[n]
             u == Popped(s)
             rest == [r \in Regs |-> IF r \in Callee THEN regs[r] ELSE Garbage]
             y == [x EXCEPT !.stack = u, !.live = @ \ Destroyed(f)]
  <1>1. /\ EntryTypeOK /\ CpuInv /\ cur \in Slots /\ s # <<>> /\ f.done
    BY DEF EntryInv, EntryTypeOK, Return, InProgram, Top
  <1>2. /\ regs' = Loaded(ReturnRegs(f), rest)
        /\ ints' = (f.ints \/ f.kind = "syscall")
        /\ cr3' = IF Redirects(f) THEN exec ELSE cr3
        /\ u_rsp' = IF Redirects(f) /\ f.kind = "syscall" THEN exec ELSE u_rsp
        /\ exec' = IF Redirects(f) THEN NoValue ELSE exec
        /\ k_rsp' = IF arch = "riscv64" /\ n = 1 /\ cur # Idle THEN cur ELSE k_rsp
        /\ task' = [task EXCEPT ![cur].stack = Popped(@), ![cur].live = @ \ Destroyed(f)]
        /\ UNCHANGED <<arch, cur, fs, snapshot, ctx>>
    BY DEF Return, Top
  <1>3. x \in TaskRecords /\ s \in Seq(Frames) /\ x.live \subseteq Regs
    BY <1>1 DEF EntryTypeOK, TaskRecords
  <1>4. /\ n \in Nat \ {0} /\ f \in Frames /\ u \in Seq(Frames) /\ Len(u) = n - 1
        /\ \A i \in 1 .. n - 1 : u[i] = s[i]
    BY <1>1, <1>3, PoppedStack
  <1>5. Entries(s, n, arch, cur)
    BY <1>1 DEF CpuInv, CurrentStack
  <1>6. /\ n = 1 \/ (n = 2 /\ s[1].kind = "int80" /\ f.kind = "irq" /\ cur # Idle)
        /\ f.kind \in Entered(arch) /\ SavesContext(f)
    <2> HIDE DEF s, n
    <2> QED
      BY <1>4, <1>5, EntriesTop
  <1>7. exec # NoValue => Redirects(f) /\ cur # Idle /\ n = 1 /\ x.val = exec /\ x.pt = exec
                          /\ x.live = {"ip", "sp"} /\ f.kind \in {"syscall", "trap"}
    BY <1>1 DEF CpuInv, ExecPending, Redirects
  <1>8. Redirects(f) <=> exec # NoValue
    BY <1>7 DEF Redirects
  <1>9. task' = [task EXCEPT ![cur] = y]
    BY <1>1, <1>2 DEF EntryTypeOK
  <1> HIDE DEF u
  <1>10. /\ y \in TaskRecords /\ y.stack = u /\ y.live = x.live \ Destroyed(f)
         /\ y.val = x.val /\ y.pt = x.pt /\ y.state = x.state
    BY <1>3, <1>4 DEF TaskRecords
  <1> HIDE DEF y
  <1>11. /\ task' \in [Slots -> TaskRecords] /\ task'[cur] = y
         /\ \A t \in Slots \ {cur} : task'[t] = task[t]
    BY <1>1, <1>9, <1>10 DEF EntryTypeOK
  <1>12. f.saved \in Saved /\ DOMAIN f.saved \subseteq Regs
    BY <1>4, SavedDomain DEF Frames
  <1>13. \A r \in Regs :
            /\ exec # NoValue /\ (r = "sp" \/ (r = "ip" /\ r \in DOMAIN f.saved)) => regs'[r] = exec
            /\ exec = NoValue /\ r \in DOMAIN f.saved /\ r # "sp" => regs'[r] = f.saved[r]
            /\ exec = NoValue /\ r = "sp" /\ f.kind # "syscall" => regs'[r] = f.saved[r]
            /\ r \in Callee /\ r \notin DOMAIN f.saved => regs'[r] = regs[r]
    BY <1>2, <1>8 DEF Loaded, ReturnRegs, Callee
  <1>14. regs' \in [Regs -> Values]
    <2>1. rest \in [Regs -> Values]
      BY <1>1, ConstantValues DEF EntryTypeOK
    <2>2. ReturnRegs(f) \in [DOMAIN f.saved \cup {"sp"} -> Values]
      BY <1>1, <1>6, <1>12, SavedDomain DEF ReturnRegs, EntryTypeOK, SavesContext
    <2>3. ReturnRegs(f) \in Saved
      BY <1>12, <2>2, SavedPart DEF Regs
    <2> QED
      BY <1>2, <2>1, <2>3, LoadedTyped
  <1>15. EntryTypeOK'
    BY <1>1, <1>2, <1>4, <1>11, <1>14, ConstantValues DEF EntryTypeOK, Frames
  <1>16. OthersWait'
    BY <1>1, <1>2, <1>10, <1>11, OthersStay DEF CpuInv, OthersWait, CurrentStack, Slots
  <1>17. exec' = NoValue
    BY <1>2, <1>8
  <1>18. ExecPending'
    BY <1>17 DEF ExecPending
  <1>19. TableActive'
    BY <1>1, <1>2, <1>7, <1>8, <1>10, <1>11 DEF TableActive, CpuInv
  <1>20. CASE n = 1
    <2>1. u = <<>> /\ f = s[1]
      BY <1>4, <1>20
    <2>2. CurrentStack' /\ ForkReady'
      <3>1. cur' = cur /\ task'[cur].stack = <<>> /\ task'[cur].state = "ready"
        BY <1>1, <1>2, <1>10, <1>11, <2>1 DEF CurrentStack, CpuInv
      <3>2. Entries(<<>>, Len(<<>>), arch', cur)
        BY DEF Entries
      <3> QED
        BY <3>1, <3>2 DEF CurrentStack, ForkReady
    <2>3. StackRegister'
      BY <1>1, <1>2, <1>6, <1>20 DEF StackRegister, CpuInv, Entered
    <2>4. ASSUME cur # Idle PROVE Owns(regs', y.val, Counted(y, arch))
      <3>1. CASE exec # NoValue
        BY <1>1, <1>6, <1>7, <1>10, <1>13, <1>14, <3>1 DEF Owns, Counted, SavesContext, Regs
      <3>2. CASE exec = NoValue
        <4>1. BaseKeeps(x, arch, regs)
          BY <1>1, <2>4, <3>2 DEF CpuInv, CurrentKeeps
        <4>2. /\ Owns(f.saved, x.val, Counted(x, arch) \ (Destroyed(f) \cup InFlight(f)))
              /\ f.kind = "syscall" => Owns(regs, x.val, Counted(x, arch) \cap Callee)
          BY <2>1, <4>1 DEF BaseKeeps
        <4>3. Counted(y, arch) = Counted(x, arch) \ Destroyed(f)
          BY <1>10 DEF Counted
        <4>4. Counted(x, arch) \subseteq Regs
          BY <1>3 DEF Counted
        <4>5. f.kind = "syscall" => "sp" \notin Counted(x, arch)
          BY <1>6 DEF Entered, Counted
        <4>6. ASSUME NEW r \in Counted(y, arch) PROVE r \in Regs /\ regs'[r] = x.val
          <5> r \in Counted(x, arch) /\ r \in Regs /\ r \notin Destroyed(f)
            BY <4>3, <4>4, <4>6
          <5>1. CASE r \in InFlight(f)
            <6>1. f.kind = "syscall" /\ r \in Callee /\ r \notin DOMAIN f.saved
              BY <1>6, <5>1 DEF InFlight, SavesContext
            <6> QED
              BY <1>13, <4>2, <6>1 DEF Owns
          <5>2. CASE r \notin InFlight(f)
            <6>1. r \in DOMAIN f.saved /\ f.saved[r] = x.val
              BY <4>2, <5>2 DEF Owns
            <6>2. r = "sp" => f.kind # "syscall"
              BY <4>5
            <6> QED
              BY <1>13, <3>2, <6>1, <6>2
          <5> QED
            BY <5>1, <5>2
        <4> QED
          BY <1>10, <1>14, <4>6 DEF Owns
      <3> QED
        BY <3>1, <3>2
    <2>5. CurrentKeeps'
      BY <1>2, <1>10, <1>11, <2>1, <2>4 DEF CurrentKeeps
    <2> QED
      BY <1>1, <1>2, <1>15, <1>16, <1>18, <1>19, <2>2, <2>3, <2>5 DEF EntryInv, CpuInv
  <1>21. CASE n = 2
    <2>1. /\ s[1].kind = "int80" /\ f.kind = "irq" /\ cur # Idle /\ exec = NoValue
          /\ Len(u) = 1 /\ u # <<>> /\ u[1] = s[1] /\ arch = "x86_64"
      BY <1>4, <1>6, <1>7, <1>21 DEF Entered
    <2>2. Entries(u, Len(u), arch, cur) /\ u[1].call # "fork"
      BY <1>5, <1>21, <2>1 DEF Entries
    <2>3. CurrentStack' /\ ForkReady'
      BY <1>1, <1>2, <1>10, <1>11, <2>1, <2>2, ZenonT(40) DEF CurrentStack, ForkReady, CpuInv
    <2>4. StackRegister'
      BY <1>1, <1>2, <2>1 DEF StackRegister, CpuInv
    <2>5. BaseKeeps(y, arch, regs')
      <3>1. BaseKeeps(x, arch, regs)
        BY <1>1, <2>1 DEF CpuInv, CurrentKeeps
      <3>2. y.live = x.live
        BY <1>10, <2>1 DEF Destroyed
      <3> QED
        BY <1>10, <2>1, <3>1, <3>2 DEF BaseKeeps, Counted
    <2>6. CurrentKeeps'
      BY <1>2, <1>10, <1>11, <2>1, <2>5 DEF CurrentKeeps
    <2> QED
      BY <1>1, <1>2, <1>15, <1>16, <1>18, <1>19, <2>3, <2>4, <2>6 DEF EntryInv, CpuInv
  <1> QED
    BY <1>6, <1>20, <1>21

-----------------------------------------------------------------------------
(***************************************************************************)
(* The theorems.  fork and execve by INT 0x80 are excluded: the child gets *)
(* the callee-saved registers of the last SYSCALL, of whatever task, and a *)
(* tick could hand the new image to another task.  The programs that use   *)
(* INT 0x80 (kernel/src/userspace/mod.rs) write and exit.                  *)
(***************************************************************************)
LEMMA EntryNext ==
  ASSUME Int80Calls \cap {"fork", "exec"} = {}, EntryInv, [Next]_vars
  PROVE  EntryInv'
  <1>1. CASE UNCHANGED vars
    BY <1>1 DEF vars, cpu, globals, EntryInv, EntryTypeOK, CpuInv, OthersWait, Waiting, CurrentStack,
                CurrentKeeps, ForkReady, ExecPending, StackRegister, TableActive
  <1>2. CASE Compute
    BY <1>2, ComputeKeeps
  <1>3. ASSUME NEW call \in SyscallCalls, syscall_entry_asm(call) PROVE EntryInv'
    BY <1>3, SyscallEntryKeeps
  <1>4. ASSUME NEW call \in Int80Calls, isr128(call) PROVE EntryInv'
    BY <1>4, Int80EntryKeeps
  <1>5. CASE isr14
    BY <1>5, FaultEntryKeeps
  <1>6. CASE make_isr
    BY <1>6, IrqEntryKeeps
  <1>7. ASSUME NEW call \in SyscallCalls \cup {"fault", "tick"}, trap_entry(call) PROVE EntryInv'
    BY <1>7, TrapEntryKeeps
  <1>8. ASSUME NEW t \in Tasks, Wake(t) PROVE EntryInv'
    BY <1>8, WakeKeeps
  <1>9. CASE Plain
    BY <1>9, PlainKeeps
  <1>10. CASE Yield \/ Block
    BY <1>10, YieldKeeps
  <1>11. CASE Fork
    BY <1>11, ForkKeeps
  <1>12. CASE Exec
    BY <1>12, ExecKeeps
  <1>13. CASE SetFs
    BY <1>13, SetFsKeeps
  <1>14. CASE Reap
    BY <1>14, ReapKeeps
  <1>15. CASE Exit
    BY <1>15, ExitKeeps
  <1>16. CASE Return
    BY <1>16, ReturnKeeps
  <1> QED
    BY <1>1, <1>2, <1>3, <1>4, <1>5, <1>6, <1>7, <1>8, <1>9, <1>10, <1>11, <1>12, <1>13, <1>14,
       <1>15, <1>16 DEF Next

LEMMA EntryInvariant ==
  ASSUME Int80Calls \cap {"fork", "exec"} = {}
  PROVE  Spec => []EntryInv
  <1>1. EntryInv /\ [Next]_vars => EntryInv'
    BY EntryNext
  <1> QED
    BY <1>1, EntryInit, PTL DEF Spec

\* A program finds every register that it counts on as it left it, through any
\* number of system calls, faults, interrupts and switches, and a child those
\* of its parent, whatever the tasks do in between (idt.rs, context.rs, trap.rs
\* and schedule); sp on x86_64 excepted.
THEOREM RegistersAreKept ==
  ASSUME Int80Calls \cap {"fork", "exec"} = {}
  PROVE  Spec => []RegistersKept
  <1>1. EntryInv => RegistersKept
    <2> SUFFICES ASSUME EntryInv, InUser
                 PROVE  Owns(regs, task[cur].val, Counted(task[cur], arch))
      BY DEF RegistersKept, Owns, Counted
    <2>1. CpuInv /\ cur # Idle /\ task[cur].stack = <<>>
      BY DEF EntryInv, InUser, InProgram
    <2> QED
      BY <2>1 DEF CpuInv, CurrentKeeps, ExecPending
  <1> QED
    BY <1>1, EntryInvariant, PTL

\* While a program runs, TSS.rsp0 and SYSCALL_KERNEL_RSP, or sscratch, name its
\* own kernel stack, and sscratch is 0 while the idle task runs: no entry can
\* overwrite a frame of a suspended task.
THEOREM KernelStackIsOwn ==
  ASSUME Int80Calls \cap {"fork", "exec"} = {}
  PROVE  Spec => []KernelStackOwn
  <1>1. EntryInv => KernelStackOwn
    BY DEF EntryInv, CpuInv, StackRegister, KernelStackOwn, InProgram
  <1> QED
    BY <1>1, EntryInvariant, PTL

\* A program runs in its own address space, after any switch and after execve,
\* whose new page table waits in EXEC_CTX for the way out.
THEOREM AddressSpaceIsOwn ==
  ASSUME Int80Calls \cap {"fork", "exec"} = {}
  PROVE  Spec => []AddressSpaceOwn
  <1>1. EntryInv => AddressSpaceOwn
    BY DEF EntryInv, CpuInv, TableActive, ExecPending, AddressSpaceOwn, InUser, InProgram
  <1> QED
    BY <1>1, EntryInvariant, PTL
=============================================================================
