---------------------------- MODULE BoundedQueue ----------------------------
(***************************************************************************)
(* What the input rings of the serial and keyboard drivers promise: a      *)
(* first-in first-out queue of at most Capacity bytes that drops a byte    *)
(* pushed when it is full.                                                 *)
(***************************************************************************)
EXTENDS Naturals, Sequences

CONSTANTS
  Bytes,      \* the bytes that the device delivers
  NoByte,     \* None, what a pop of the empty queue returns
  Capacity    \* how many bytes the queue holds

VARIABLES
  queue,      \* the bytes pushed and not yet popped
  got         \* what the last pop returned

Init == queue = <<>> /\ got = NoByte

Push(b) ==
  /\ queue' = IF Len(queue) < Capacity THEN Append(queue, b) ELSE queue
  /\ UNCHANGED got

Pop ==
  IF queue = <<>>
  THEN got' = NoByte /\ UNCHANGED queue
  ELSE got' = Head(queue) /\ queue' = Tail(queue)

Next == Pop \/ \E b \in Bytes : Push(b)

Spec == Init /\ [][Next]_<<queue, got>>
=============================================================================
