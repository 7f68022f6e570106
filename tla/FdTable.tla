------------------------------ MODULE FdTable -------------------------------
(***************************************************************************)
(* Descriptor tables and signals (kernel/src/process/mod.rs) as operators. *)
(*                                                                         *)
(* An FdEntry is a record: its kind, and the pipes it reads from and       *)
(* writes to (NoPipe where it has none).  A socketpair end has both.       *)
(***************************************************************************)
EXTENDS PipePool, FiniteSets

CONSTANT MaxFds   \* MAX_FDS, the size of a descriptor table

ASSUME FdAssumption == MaxFds \in Nat /\ MaxFds >= 3

NoPipe == -1
Fds == 0 .. MaxFds - 1

PipeRef == Pipes \cup {NoPipe}

FdEntry ==
  [kind: {"Empty", "Stdin", "Stdout", "Stderr", "PipeRead", "PipeWrite", "SocketPair"},
   r: PipeRef, w: PipeRef]

Plain(k)         == [kind |-> k, r |-> NoPipe, w |-> NoPipe]
Empty            == Plain("Empty")
PipeRead(i)      == [kind |-> "PipeRead",   r |-> i,      w |-> NoPipe]
PipeWrite(i)     == [kind |-> "PipeWrite",  r |-> NoPipe, w |-> i]
SocketPair(i, j) == [kind |-> "SocketPair", r |-> i,      w |-> j]

\* FdTable::new: the three standard descriptors.
NewTable ==
  [f \in Fds |-> CASE f = 0 -> Plain("Stdin")
                   [] f = 1 -> Plain("Stdout")
                   [] f = 2 -> Plain("Stderr")
                   [] OTHER -> Empty]

\* close_all leaves every entry Empty, the standard ones included.
ClosedTable == [f \in Fds |-> Empty]

\* FdTable::get refuses an Empty entry.
IsOpen(T, f) == T[f].kind # "Empty"

\* FdTable::alloc: the first Empty entry from 3 on; the table is unchanged
\* when there is none.
IsFreeFd(T, f) ==
  /\ f >= 3 /\ ~IsOpen(T, f)
  /\ \A g \in Fds : 3 <= g /\ g < f => IsOpen(T, g)

FdAlloc(T, e) == [f \in Fds |-> IF IsFreeFd(T, f) THEN e ELSE T[f]]
HasFreeFd(T)  == \E f \in Fds : IsFreeFd(T, f)

\* How many entries of the tables of the slots in S refer to each pipe.
ReadRefs(tables, S) ==
  [p \in Pipes |-> Cardinality({x \in S \X Fds : tables[x[1]][x[2]].r = p})]
WriteRefs(tables, S) ==
  [p \in Pipes |-> Cardinality({x \in S \X Fds : tables[x[1]][x[2]].w = p})]

-----------------------------------------------------------------------------
(***************************************************************************)
(* Signals.  pending_signals is a set; signal 0 has no bit, so raising it  *)
(* leaves the set alone.                                                   *)
(***************************************************************************)
Signals == {"SIGHUP", "SIGINT", "SIGQUIT", "SIGABRT", "SIGKILL", "SIGTERM", "SIGCHLD"}
NoSignal == "0"

\* A slip: signal 0 gets a bit as well.
raise_any(pend, sig) == pend \cup {sig}

raise_signal(pend, sig) == IF sig = NoSignal THEN pend ELSE pend \cup {sig}
=============================================================================
