----------------------------- MODULE RingProofs -----------------------------
(***************************************************************************)
(* The input ring is a bounded queue, for a buffer of every size, every    *)
(* set of bytes and both orders of the two accesses of a pop.              *)
(***************************************************************************)
EXTENDS RingBuf, TLAPS

-----------------------------------------------------------------------------
(***************************************************************************)
(* Indices.  All sums stay below 2 * N, so % is one conditional            *)
(* subtraction.                                                            *)
(***************************************************************************)
LEMMA WrapOnce ==
  ASSUME NEW n \in Nat \ {0}, NEW a \in Nat, a < n + n
  PROVE  a % n = IF a < n THEN a ELSE a - n
  OBVIOUS

LEMMA AfterWraps ==
  ASSUME NEW i \in Indices
  PROVE  /\ After(i) = IF i = N - 1 THEN 0 ELSE i + 1
         /\ After(i) \in Indices
  <1>1. N \in Nat \ {0} /\ i \in Nat /\ i < N
    BY RingAssumption DEF Indices
  <1> DEFINE d == i + 1
  <1>2. d \in Nat /\ d < N + N
    BY <1>1
  <1> HIDE DEF d
  <1>3. d % N = IF d < N THEN d ELSE d - N
    BY <1>1, <1>2, WrapOnce
  <1> QED
    BY <1>1, <1>3 DEF After, Indices, d

\* How many bytes a ring with head h and tail t holds, and where the i-th of
\* them is, without %.
Length(h, t) == IF h < t THEN h + N - t ELSE h - t
Slot(t, i) == IF t + i - 1 < N THEN t + i - 1 ELSE t + i - 1 - N

LEMMA UsedLength ==
  ASSUME NEW h \in Indices, NEW t \in Indices
  PROVE  (h + N - t) % N = Length(h, t) /\ Length(h, t) \in 0 .. N - 1
  <1>1. N \in Nat \ {0} /\ h \in Nat /\ t \in Nat /\ h < N /\ t < N
    BY RingAssumption DEF Indices
  <1> DEFINE d == h + N - t
  <1>2. d \in Nat /\ d < N + N
    BY <1>1
  <1> HIDE DEF d
  <1>3. d % N = IF d < N THEN d ELSE d - N
    BY <1>1, <1>2, WrapOnce
  <1> QED
    BY <1>1, <1>3 DEF Length, d

LEMMA ContentsSlots ==
  ASSUME NEW h \in Indices, NEW t \in Indices, NEW f
  PROVE  [i \in 1 .. (h + N - t) % N |-> f[(t + i - 1) % N]]
           = [i \in 1 .. Length(h, t) |-> f[Slot(t, i)]]
  <1>1. /\ N \in Nat \ {0} /\ t \in Nat /\ t < N
        /\ (h + N - t) % N = Length(h, t) /\ Length(h, t) \in 0 .. N - 1
    BY UsedLength, RingAssumption DEF Indices
  <1>2. ASSUME NEW i \in 1 .. Length(h, t)
        PROVE  (t + i - 1) % N = Slot(t, i)
    <2> DEFINE d == t + i - 1
    <2>1. d \in Nat /\ d < N + N
      BY <1>1
    <2> HIDE DEF d
    <2>2. d % N = IF d < N THEN d ELSE d - N
      BY <1>1, <2>1, WrapOnce
    <2> QED
      BY <1>1, <2>2 DEF Slot, d
  <1> QED
    BY <1>1, <1>2

-----------------------------------------------------------------------------
(***************************************************************************)
(* The inductive invariant: what a reader in the middle of a pop knows.    *)
(* Until it stores the tail, the slot that it reads is the oldest one in   *)
(* use; after an early store, it is the slot that push never fills.        *)
(***************************************************************************)
ReaderSafe ==
  /\ pc \in {"some", "loaded"} => at = tail /\ head # tail
  /\ pc = "loaded" => byte = buf[at]
  /\ pc = "late" => tail = After(at)

RingInv == TypeOK /\ ReaderSafe

LEMMA InitRing == Init => RingInv
  BY RingAssumption DEF Init, RingInv, TypeOK, ReaderSafe, Indices

LEMMA NextRing == RingInv /\ [Next]_vars => RingInv'
  <1> SUFFICES ASSUME RingInv, [Next]_vars
               PROVE  TypeOK' /\ ReaderSafe'
    BY DEF RingInv
  <1> USE DEF RingInv, TypeOK, ReaderSafe
  <1>h. After(head) \in Indices /\ After(at) \in Indices
    BY AfterWraps
  <1>1. ASSUME NEW b \in Bytes, push(b)
        PROVE  TypeOK' /\ ReaderSafe'
    <2>1. CASE After(head) = tail
      BY <1>1, <2>1 DEF push
    <2>2. CASE After(head) # tail
      <3>1. head # at \/ pc \notin {"loaded", "late"}
        BY <2>2
      <3> QED
        BY <1>1, <1>h, <2>2, <3>1 DEF push
    <2> QED
      BY <2>1, <2>2
  <1>2. ASSUME pop_test PROVE TypeOK' /\ ReaderSafe'
    BY <1>2 DEF pop_test
  <1>3. ASSUME pop_load PROVE TypeOK' /\ ReaderSafe'
    BY <1>3 DEF pop_load
  <1>4. ASSUME pop_store PROVE TypeOK' /\ ReaderSafe'
    BY <1>4, <1>h DEF pop_store
  <1>5. ASSUME pop_store_early PROVE TypeOK' /\ ReaderSafe'
    BY <1>5, <1>h DEF pop_store_early, After
  <1>6. ASSUME pop_load_late PROVE TypeOK' /\ ReaderSafe'
    BY <1>6 DEF pop_load_late
  <1>7. ASSUME UNCHANGED vars PROVE TypeOK' /\ ReaderSafe'
    BY <1>7 DEF vars, After
  <1> QED
    BY <1>1, <1>2, <1>3, <1>4, <1>5, <1>6, <1>7 DEF Next

LEMMA RingInvariant == Spec => []RingInv
  BY InitRing, NextRing, PTL DEF Spec

\* Whatever the size of the buffer, both indices of the ring stay within it
\* and pop returns a byte of the device or None.
THEOREM RingTyped == Spec => []TypeOK
  <1>1. RingInv => TypeOK
    BY DEF RingInv
  <1> QED
    BY <1>1, RingInvariant, PTL

-----------------------------------------------------------------------------
(***************************************************************************)
(* The refinement.  push appends or drops, the store of the new tail is    *)
(* the pop of the queue, and every other step of the reader leaves the     *)
(* queue alone.                                                            *)
(***************************************************************************)
LEMMA PushAppends ==
  ASSUME RingInv, NEW b \in Bytes, push(b)
  PROVE  Queue!Push(b)
  <1> USE DEF RingInv, TypeOK
  <1>n. N \in Nat \ {0} /\ head \in 0 .. N - 1 /\ tail \in 0 .. N - 1
    BY RingAssumption DEF Indices
  <1>h. /\ After(head) = IF head = N - 1 THEN 0 ELSE head + 1
        /\ After(head) \in Indices
    BY AfterWraps
  <1>c. Contents = [i \in 1 .. Length(head, tail) |-> buf[Slot(tail, i)]]
    BY ContentsSlots DEF Contents, Used
  <1>l. Length(head, tail) \in Nat /\ Len(Contents) = Length(head, tail)
    BY <1>c, <1>n DEF Length
  <1>1. CASE After(head) = tail
    <2>1. Length(head, tail) = N - 1
      BY <1>1, <1>h, <1>n DEF Length
    <2>2. UNCHANGED <<buf, head, tail, pc, at, got>>
      BY <1>1 DEF push
    <2>3. Contents' = Contents
      BY <2>2 DEF Contents, Used
    <2> QED
      BY <2>1, <2>2, <2>3, <1>l, <1>n DEF Queue!Push
  <1>2. CASE After(head) # tail
    <2>1. /\ buf' = [buf EXCEPT ![head] = b] /\ head' = After(head)
          /\ UNCHANGED <<tail, pc, at, byte, got>>
      BY <1>2 DEF push
    <2>2. /\ Length(head, tail) < N - 1
          /\ Length(head', tail) = Length(head, tail) + 1
      BY <1>2, <2>1, <1>h, <1>n DEF Length
    <2>3. head' \in Indices /\ tail' \in Indices
      BY <2>1, <1>h
    <2>4. Contents' = [i \in 1 .. Length(head', tail') |-> buf'[Slot(tail', i)]]
      BY <2>3, ContentsSlots DEF Contents, Used
    <2>5. Slot(tail, Length(head, tail) + 1) = head
      BY <1>n DEF Slot, Length
    <2>6. \A i \in 1 .. Length(head, tail) : Slot(tail, i) \in Indices \ {head}
      BY <1>n DEF Slot, Length, Indices
    <2>7. Contents' = Append(Contents, b)
      BY <2>1, <2>2, <2>4, <2>5, <2>6, <1>c, <1>l, <1>n
    <2>8. pc = "late" => buf'[at] = buf[at]
      BY <1>2, <2>1 DEF ReaderSafe
    <2> QED
      BY <2>1, <2>2, <2>7, <2>8, <1>l DEF Queue!Push
  <1> QED
    BY <1>1, <1>2

LEMMA StorePops ==
  ASSUME RingInv, head # tail, tail' = After(tail), UNCHANGED <<buf, head>>
  PROVE  Contents # <<>> /\ Head(Contents) = buf[tail] /\ Contents' = Tail(Contents)
  <1> USE DEF RingInv, TypeOK
  <1>n. N \in Nat \ {0} /\ head \in 0 .. N - 1 /\ tail \in 0 .. N - 1
    BY RingAssumption DEF Indices
  <1>t. /\ tail' = IF tail = N - 1 THEN 0 ELSE tail + 1
        /\ tail' \in Indices
    BY AfterWraps
  <1>c. Contents = [i \in 1 .. Length(head, tail) |-> buf[Slot(tail, i)]]
    BY ContentsSlots DEF Contents, Used
  <1>d. Contents' = [i \in 1 .. Length(head', tail') |-> buf'[Slot(tail', i)]]
    BY <1>t, ContentsSlots DEF Contents, Used
  <1>1. Length(head, tail) \in Nat \ {0} /\ Length(head, tail') = Length(head, tail) - 1
    BY <1>n, <1>t DEF Length
  <1>2. Slot(tail, 1) = tail
    BY <1>n DEF Slot
  <1>3. \A i \in 1 .. Length(head, tail) - 1 : Slot(tail', i) = Slot(tail, i + 1)
    BY <1>n, <1>t DEF Slot, Length
  <1>4. Contents # <<>> /\ Head(Contents) = buf[tail]
    BY <1>c, <1>1, <1>2
  <1>5. Tail(Contents) = [i \in 1 .. Length(head, tail) - 1 |-> buf[Slot(tail, i + 1)]]
    BY <1>c, <1>1
  <1> QED
    BY <1>d, <1>1, <1>3, <1>4, <1>5

LEMMA RingRefines ==
  ASSUME RingInv, RingInv', [Next]_vars
  PROVE  [Queue!Next]_<<Contents, IF pc = "late" THEN buf[at] ELSE got>>
  <1> DEFINE mapped == IF pc = "late" THEN buf[at] ELSE got
  <1> USE DEF RingInv, ReaderSafe
  <1>1. ASSUME NEW b \in Bytes, push(b) PROVE Queue!Next
    BY <1>1, PushAppends DEF Queue!Next
  <1>2. ASSUME pop_test PROVE Queue!Next \/ UNCHANGED <<Contents, mapped>>
    <2>1. Contents' = Contents
      BY <1>2 DEF pop_test, Contents, Used
    <2>2. CASE head = tail
      <3>1. Contents = <<>>
        <4>1. Length(head, tail) = 0
          BY <2>2, RingAssumption DEF Length, TypeOK, Indices
        <4>2. Used = 0
          BY <4>1, UsedLength DEF TypeOK, Used
        <4> QED
          BY <4>2 DEF Contents
      <3> QED
        BY <1>2, <2>1, <2>2, <3>1 DEF pop_test, Queue!Next, Queue!Pop
    <2>3. CASE head # tail
      BY <1>2, <2>1, <2>3 DEF pop_test
    <2> QED
      BY <2>2, <2>3
  <1>3. ASSUME pop_load PROVE UNCHANGED <<Contents, mapped>>
    BY <1>3 DEF pop_load, Contents, Used
  <1>4. ASSUME pop_store PROVE Queue!Next
    <2>1. Contents # <<>> /\ Head(Contents) = buf[tail] /\ Contents' = Tail(Contents)
      BY <1>4, StorePops DEF pop_store
    <2> QED
      BY <1>4, <2>1 DEF pop_store, Queue!Next, Queue!Pop
  <1>5. ASSUME pop_store_early PROVE Queue!Next
    <2>1. Contents # <<>> /\ Head(Contents) = buf[tail] /\ Contents' = Tail(Contents)
      BY <1>5, StorePops DEF pop_store_early
    <2> QED
      BY <1>5, <2>1 DEF pop_store_early, Queue!Next, Queue!Pop
  <1>6. ASSUME pop_load_late PROVE UNCHANGED <<Contents, mapped>>
    BY <1>6 DEF pop_load_late, Contents, Used
  <1>7. ASSUME UNCHANGED vars PROVE UNCHANGED <<Contents, mapped>>
    BY <1>7 DEF vars, Contents, Used
  <1> QED
    BY <1>1, <1>2, <1>3, <1>4, <1>5, <1>6, <1>7 DEF Next

\* The ring of kernel/src/drivers/ring_buf.rs implements a first-in first-out
\* queue of N - 1 bytes for every N: interrupts that push at any point of a pop
\* neither lose, repeat nor reorder a byte, and do not overwrite the one being
\* read, even when the compiler loads it after it has stored the tail.
THEOREM RingIsBoundedQueue == Spec => IsBoundedQueue
  <1>1. Init => Queue!Init
    <2> SUFFICES ASSUME Init PROVE Contents = <<>> /\ pc # "late" /\ got = NoByte
      BY DEF Queue!Init
    <2>1. head \in Indices /\ tail \in Indices /\ Length(head, tail) = 0
      BY RingAssumption DEF Init, Length, Indices
    <2>2. Used = 0
      BY <2>1, UsedLength DEF Used
    <2> QED
      BY <2>2 DEF Init, Contents
  <1>2. RingInv /\ RingInv' /\ [Next]_vars
          => [Queue!Next]_<<Contents, IF pc = "late" THEN buf[at] ELSE got>>
    BY RingRefines
  <1> QED
    BY <1>1, <1>2, RingInvariant, PTL DEF Spec, IsBoundedQueue, Queue!Spec
=============================================================================
