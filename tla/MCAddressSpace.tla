--------------------------- MODULE MCAddressSpace ---------------------------
(***************************************************************************)
(* Programs and argument vectors for AddressSpace.  A page has 2 units.    *)
(***************************************************************************)
EXTENDS AddressSpace

Segment(va, filesz, memsz, write) ==
  [va |-> va, filesz |-> filesz, memsz |-> memsz, write |-> write]

\* Read-only text that fills half a page, then data and, over a page
\* boundary, memory that the file does not have.
Program == <<Segment(2, 1, 1, FALSE), Segment(4, 1, 3, TRUE)>>

\* One segment whose first page is the second of Program.
Small == <<Segment(5, 1, 1, TRUE)>>

TwoExes == {Program, Small}

\* Nothing, what fits, and a string that user_cstr_array stops at.
SomeVectors == {<<>>, <<2, 1>>, <<1, 9>>}

\* Room for two processes and a little more, and room for one and a little
\* more; a frame in the middle is held too.
TwoLoads == {
  [held |-> {0, 2}, ops |-> {"fork", "exec", "store"}],
  [held |-> {0, 2} \cup 14 .. NumFrames - 3, ops |-> {"fork", "store", "heap", "fault"}]}
=============================================================================
