----------------------------- MODULE UserMemory -----------------------------
(***************************************************************************)
(* What the memory of a user process promises: a process has a private     *)
(* memory that only its own stores, calls and faults change, fork copies   *)
(* it whole, and exec replaces it whole or not at all.  It does not        *)
(* promise that a process keeps what it stored: Fresh may clear any of its *)
(* own pages at any time.                                                  *)
(***************************************************************************)
CONSTANTS
  Slots,   \* places for processes
  Pages,   \* user pages
  Images,  \* what a program's memory holds when it starts
  Stores   \* what a store may leave in a page

VARIABLE view  \* the memory of each process: page to content, or Gone

Gone == <<>>
NoPage == {<<"absent", 0>>}
Zero == {}

Init == view = [p \in Slots |-> Gone]

Start(p) == view[p] = Gone /\ \E image \in Images : view' = [view EXCEPT ![p] = image]

Exit(p) == view[p] # Gone /\ view' = [view EXCEPT ![p] = Gone]

Fork(p, c) == view[p] # Gone /\ view[c] = Gone /\ view' = [view EXCEPT ![c] = view[p]]

Exec(p) == view[p] # Gone /\ \E image \in Images : view' = [view EXCEPT ![p] = image]

Store(p, page) ==
  /\ view[p] # Gone /\ view[p][page] # NoPage
  /\ \E v \in Stores : view' = [view EXCEPT ![p][page] = v]

\* Fresh pages for process p.  Those it had there are lost, as they are to a
\* fault on a read-only page and to brk and mmap over mapped pages.
Fresh(p, S) ==
  /\ view[p] # Gone
  /\ view' = [view EXCEPT ![p] = [page \in Pages |-> IF page \in S THEN Zero ELSE @[page]]]

Next ==
  \E p \in Slots :
    \/ Start(p) \/ Exit(p) \/ Exec(p)
    \/ \E c \in Slots : Fork(p, c)
    \/ \E page \in Pages : Store(p, page)
    \/ \E S \in SUBSET Pages : Fresh(p, S)

Spec == Init /\ [][Next]_view
=============================================================================
