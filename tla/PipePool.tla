------------------------------ MODULE PipePool ------------------------------
(***************************************************************************)
(* The pool of anonymous pipes (kernel/src/ipc/mod.rs) as operators on the *)
(* value of POOL: a function from pipe indices to pipe slots.  A slot      *)
(* keeps the reference counts of its two ends and the number of bytes in   *)
(* its ring; the bytes themselves are the subject of module RingBuf.       *)
(*                                                                         *)
(* close_pipe_read, close_pipe_write, dup_pipe_read and dup_pipe_write     *)
(* each move one reference.  The kernel calls them in loops over whole     *)
(* descriptor tables, so CloseEnds and DupEnds take, per pipe, the number  *)
(* of references to move: their closed form is the result of the loop,     *)
(* whatever the order of the descriptors.                                  *)
(***************************************************************************)
EXTENDS Integers

CONSTANTS
  MaxPipes,   \* MAX_PIPES, the number of slots of POOL
  PipeBuf,    \* PIPE_BUF, the size of one ring
  MaxRefs     \* the value at which a u8 reference count stops growing (255)

ASSUME PoolAssumption ==
  /\ MaxPipes \in Nat
  /\ PipeBuf \in Nat \ {0}
  /\ MaxRefs \in Nat \ {0}

Pipes == 0 .. MaxPipes - 1

\* The ring keeps one byte unused: is_full is (head + 1) % PIPE_BUF = tail.
PipeCap == PipeBuf - 1

PipeSlot == [in_use: BOOLEAN, read_count: Nat, write_count: Nat, len: 0 .. PipeCap]

\* PipeSlot::new, the state of every slot at boot.
NewSlot == [in_use |-> FALSE, read_count |-> 0, write_count |-> 0, len |-> 0]

\* What alloc_pipe stores: an empty ring with one open end of each kind.
FreshPipe == [in_use |-> TRUE, read_count |-> 1, write_count |-> 1, len |-> 0]

\* The slot alloc_pipe returns: the first that is not in use.
IsFreePipe(P, i) == ~P[i].in_use /\ \A j \in Pipes : j < i => P[j].in_use

AllocPipe(P, i) == [P EXCEPT ![i] = FreshPipe]

AtMost(n, m) == IF n <= m THEN n ELSE m
Less(n, m) == IF n <= m THEN 0 ELSE n - m

\* A slip: fork duplicates the read ends only.
DupReadsOnly(P, reads, writes) ==
  [p \in Pipes |-> IF P[p].in_use
                   THEN [P[p] EXCEPT !.read_count = AtMost(@ + reads[p], MaxRefs)]
                   ELSE P[p]]

DupEnds(P, reads, writes) ==
  [p \in Pipes |->
     IF P[p].in_use
     THEN [P[p] EXCEPT !.read_count  = AtMost(@ + reads[p], MaxRefs),
                       !.write_count = AtMost(@ + writes[p], MaxRefs)]
     ELSE P[p]]

CloseEnds(P, reads, writes) ==
  [p \in Pipes |->
     IF P[p].in_use /\ reads[p] + writes[p] > 0
     THEN LET r == Less(P[p].read_count, reads[p])
              w == Less(P[p].write_count, writes[p])
          IN  [P[p] EXCEPT !.read_count = r, !.write_count = w,
                           !.in_use = r > 0 \/ w > 0]
     ELSE P[p]]

\* One reference to pipe i (or none, when i is not a pipe): the counts that
\* a single close_pipe_read(i) or close_pipe_write(i) moves.
One(i) == [p \in Pipes |-> IF p = i THEN 1 ELSE 0]

pipe_write_open(P, i) == P[i].write_count > 0
pipe_read_open(P, i)  == P[i].read_count > 0
pipe_has_data(P, i)   == P[i].len > 0

\* The numbers of bytes pipe_write and pipe_read can move, over all buffer
\* lengths: as many as fit, as many as are there, none in a free slot.
Writable(P, i) == IF P[i].in_use THEN PipeCap - P[i].len ELSE 0
Readable(P, i) == IF P[i].in_use THEN P[i].len ELSE 0
=============================================================================
