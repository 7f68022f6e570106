------------------------------ MODULE RingBuf -------------------------------
(***************************************************************************)
(* The ring buffer between an input interrupt and the code that reads the  *)
(* device (kernel/src/drivers/ring_buf.rs).  The interrupt handler pushes; *)
(* it is not itself interrupted, so a push is one action.  The reader may  *)
(* be the kernel shell, which polls the ring with interrupts enabled: a    *)
(* push may come between any two memory accesses of its pop.               *)
(*                                                                         *)
(* The fields are neither volatile nor atomic, so the compiler may load    *)
(* the byte before or after it stores the new tail.  Both orders are       *)
(* modelled.                                                               *)
(***************************************************************************)
EXTENDS Naturals, Sequences

CONSTANTS
  N,         \* the size of buf
  Bytes,     \* the bytes that the device delivers
  NoByte     \* None

ASSUME RingAssumption == N \in Nat \ {0} /\ NoByte \notin Bytes

VARIABLES
  buf, head, tail,   \* the fields of RingBuf
  pc,                \* where the reader is: idle, or in pop with the ring found
                     \* not empty ("some"), the byte loaded ("loaded"), or the
                     \* tail stored and the byte still to be loaded ("late")
  at,                \* pop's copy of tail
  byte,              \* the byte it has loaded
  got                \* what the last pop returned

vars == <<buf, head, tail, pc, at, byte, got>>

Indices == 0 .. N - 1
After(i) == (i + 1) % N

\* RingBuf::new: buf is all zeroes, here any byte.
Init ==
  /\ buf \in {[i \in Indices |-> b] : b \in Bytes}
  /\ head = 0 /\ tail = 0
  /\ pc = "idle" /\ at = 0
  /\ byte = NoByte /\ got = NoByte

\* Two slips: the full ring is not noticed; pop does not wrap.
push_unchecked(b) ==
  /\ buf' = [buf EXCEPT ![head] = b]
  /\ head' = After(head)
  /\ UNCHANGED <<tail, pc, at, byte, got>>

pop_store_no_wrap ==
  /\ pc = "loaded"
  /\ tail' = at + 1
  /\ got' = byte
  /\ pc' = "idle"
  /\ UNCHANGED <<buf, head, at, byte>>

\* One input interrupt: the byte is dropped when the ring is full.
push(b) ==
  /\ IF After(head) = tail
     THEN UNCHANGED <<buf, head>>
     ELSE buf' = [buf EXCEPT ![head] = b] /\ head' = After(head)
  /\ UNCHANGED <<tail, pc, at, byte, got>>

\* The test of pop, which also returns None.
pop_test ==
  /\ pc = "idle"
  /\ IF head = tail
     THEN got' = NoByte /\ UNCHANGED <<pc, at>>
     ELSE pc' = "some" /\ at' = tail /\ UNCHANGED got
  /\ UNCHANGED <<buf, head, tail, byte>>

pop_load ==
  /\ pc = "some"
  /\ byte' = buf[at]
  /\ pc' = "loaded"
  /\ UNCHANGED <<buf, head, tail, at, got>>

pop_store ==
  /\ pc = "loaded"
  /\ tail' = After(at)
  /\ got' = byte
  /\ pc' = "idle"
  /\ UNCHANGED <<buf, head, at, byte>>

pop_store_early ==
  /\ pc = "some"
  /\ tail' = After(at)
  /\ pc' = "late"
  /\ UNCHANGED <<buf, head, at, byte, got>>

pop_load_late ==
  /\ pc = "late"
  /\ byte' = buf[at]
  /\ got' = buf[at]
  /\ pc' = "idle"
  /\ UNCHANGED <<buf, head, tail, at>>

Next ==
  \/ \E b \in Bytes : push(b)
  \/ pop_test \/ pop_load \/ pop_store \/ pop_store_early \/ pop_load_late

Spec == Init /\ [][Next]_vars

-----------------------------------------------------------------------------
\* Type invariant: both indices stay within buf.
TypeOK ==
  /\ buf \in [Indices -> Bytes]
  /\ head \in Indices /\ tail \in Indices /\ at \in Indices
  /\ pc \in {"idle", "some", "loaded", "late"}
  /\ byte \in Bytes \cup {NoByte} /\ got \in Bytes \cup {NoByte}

\* The bytes between tail and head, oldest first.
Used == (head + N - tail) % N
Contents == [i \in 1 .. Used |-> buf[(tail + i - 1) % N]]

Queue == INSTANCE BoundedQueue WITH
  Capacity <- N - 1,
  queue    <- Contents,
  got      <- IF pc = "late" THEN buf[at] ELSE got

\* The ring is a FIFO queue of N - 1 bytes, with interrupts at any point of a
\* pop and for either order of its two accesses: no byte is lost, duplicated
\* or overwritten while it is being read.  The one unused slot is what makes
\* the late load safe.
IsBoundedQueue == Queue!Spec
=============================================================================
