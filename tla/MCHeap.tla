------------------------------- MODULE MCHeap -------------------------------
(***************************************************************************)
(* Memory maps, size classes and layouts for Heap.  A page has 4 units.    *)
(***************************************************************************)
EXTENDS Heap

Region(base, size, usable) == [base |-> base, size |-> size, usable |-> usable]

\* The image ends inside the second frame.  The third region of the first map
\* does not fit; the second map has an empty region, one that begins below
\* MinBase, one as large, and one that does not fit.
TwoMaps == {
  <<Region(0, 4, TRUE), Region(8, 30, TRUE), Region(38, 40, FALSE)>>,
  <<Region(0, 0, TRUE), Region(4, 26, TRUE), Region(40, 22, TRUE), Region(100, 40, TRUE)>> }

PowersOfTwo == <<2, 4>>

SomeLayouts == {[size |-> 1, align |-> 4], [size |-> 1, align |-> 1], [size |-> 5, align |-> 2]}
=============================================================================
