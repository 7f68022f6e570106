--------------------------- MODULE AddressProofs ----------------------------
(***************************************************************************)
(* Proofs about user address spaces, for memory, page tables, programs and *)
(* argument vectors of any size, on both architectures.                    *)
(*                                                                         *)
(* The calls are folds over pages, tables, segments and strings.  What a   *)
(* fold computes is proved once for each of them as the existence of a run *)
(* r of it: r[0] is where it starts, r[k] follows from r[k - 1] by the k-th *)
(* element, and the last r[n] is the result.  Invariants of a loop are     *)
(* then shown along its run.                                               *)
(***************************************************************************)
EXTENDS AddressSpace, WellFoundedInduction, TLAPS

-----------------------------------------------------------------------------
(***************************************************************************)
(* Natural numbers and loops                                               *)
(***************************************************************************)

\* Every non-empty set of natural numbers has a least element.
LEMMA LeastNat ==
  ASSUME NEW S \in SUBSET Nat, S # {}
  PROVE  \E m \in S : \A n \in S : m <= n
<1>1. PICK m \in S : \A n \in S : ~(<<n, m>> \in OpToRel(<, Nat))
  BY NatLessThanWellFounded, WFMin
<1>2. \A n \in S : ~(n < m)
  BY <1>1 DEF OpToRel
<1>3. \A n \in S : m <= n
  BY <1>2
<1> QED
  BY <1>3

\* What holds at 0 and is passed on by each of n steps holds all along.
LEMMA CountUp ==
  ASSUME NEW n \in Nat, NEW T, 0 \in T, \A k \in 1 .. n : k - 1 \in T => k \in T
  PROVE  \A k \in 0 .. n : k \in T
<1> DEFINE S == {k \in 0 .. n : k \notin T}
<1> SUFFICES ASSUME S # {} PROVE FALSE
  OBVIOUS
<1>1. S \in SUBSET Nat
  OBVIOUS
<1>2. PICK m \in S : \A k \in S : m <= k
  BY <1>1, LeastNat
<1>3. m \in 1 .. n
  BY <1>2
<1>4. m - 1 \notin S
  BY <1>1, <1>2, <1>3
<1>5. m - 1 \in T
  BY <1>3, <1>4
<1> QED
  BY <1>2, <1>3, <1>5

LEMMA PrefixSets ==
  ASSUME NEW n \in Nat, NEW k \in 1 .. n
  PROVE  (1 .. k) \ {k} = 1 .. (k - 1) /\ 1 .. k \in SUBSET (1 .. n) /\ 1 .. k # {}
  OBVIOUS

LEMMA MaxOfPrefix ==
  ASSUME NEW n \in Nat \ {0}, NEW s \in SUBSET (1 .. n), n \in s
  PROVE  Max(s) = n
<1>1. \A y \in s : n >= y
  OBVIOUS
<1>2. \A x \in s : (\A y \in s : x >= y) => x = n
  OBVIOUS
<1> QED
  BY <1>1, <1>2 DEF Max

-----------------------------------------------------------------------------
(***************************************************************************)
(* Types.  What a frame holds is named by a word and a number.             *)
(***************************************************************************)
Contents == SUBSET ({"stale", "args", "file", "prog", "store"} \X Nat)
TableIds == {Top, Mid} \cup Pages
Huge == 0 .. (NumFrames - 1) \div HugeFrames
FrameOrNone == Frames \cup {None}
Entries == [frame : FrameOrNone, write : BOOLEAN]

PageTables ==
  [root : FrameOrNone, tables : [TableIds -> FrameOrNone], map : [Pages -> Entries]]

Works ==
  [ok : BOOLEAN, got : FrameOrNone, pt : PageTables, used : SUBSET Frames,
   data : [Frames -> Contents], guards : SUBSET Frames, split : [Huge -> FrameOrNone]]

LEMMA Constants ==
  /\ NumFrames \in Nat \ {0} /\ StackFrames \in Nat \ {0} /\ HugeFrames \in Nat \ {0}
  /\ PageSize \in Nat \ {0} /\ NumPages \in Nat \ {0} /\ TablePages \in Nat \ {0}
  /\ UserStackPages \in Nat \ {0} /\ Word \in Nat \ {0} /\ Align \in Nat \ {0}
  /\ UserPage \in Nat \ {0} /\ StackTop \in Nat /\ StackTop - UserStackPages > UserPage
  /\ Slots \subseteq Nat /\ Arch \in {"x86_64", "riscv64"}
  BY AddressAssumption

LEMMA FramesAreNat ==
  Frames \subseteq Nat /\ None \notin Frames /\ Pages \subseteq Nat /\ None \in FrameOrNone
  BY Constants DEF Frames, None, Pages, FrameOrNone

-----------------------------------------------------------------------------
(***************************************************************************)
(* Allocation                                                              *)
(***************************************************************************)

\* An allocation takes nothing, or a run of frames that were free.
LEMMA AllocPages ==
  ASSUME NEW w \in Works, NEW n \in Nat \ {0}
  PROVE  LET v == alloc_pages(w, n) IN
         /\ v \in Works
         /\ ~w.ok => v = w
         /\ ~v.ok => v = [w EXCEPT !.ok = FALSE]
         /\ v.ok => /\ w.ok /\ v.got \in Frames
                    /\ Run(v.got, n) \subseteq Frames \ w.used /\ v.got \in Run(v.got, n)
                    /\ v = [w EXCEPT !.used = @ \cup Run(v.got, n), !.got = v.got]
<1> DEFINE runs == {f \in Frames : Run(f, n) \subseteq Frames \ w.used}
           Least(f) == \A g \in runs : f <= g
           f == CHOOSE f \in runs : Least(f)
           v == alloc_pages(w, n)
<1>1. CASE ~w.ok
  <2>1. v = w
    BY <1>1 DEF alloc_pages
  <2>2. [w EXCEPT !.ok = FALSE] = w
    BY <1>1 DEF Works
  <2> QED BY <1>1, <2>1, <2>2
<1>2. CASE w.ok /\ runs = {}
  <2>1. v = [w EXCEPT !.ok = FALSE]
    BY <1>2 DEF alloc_pages
  <2>2. v \in Works /\ ~v.ok
    BY <2>1 DEF Works
  <2> QED BY <1>2, <2>1, <2>2
<1>3. CASE w.ok /\ runs # {}
  <2>1. runs \in SUBSET Nat
    BY FramesAreNat
  <2>2. \E g \in runs : Least(g)
    BY <1>3, <2>1, LeastNat
  <2> HIDE DEF Least
  <2>3. f \in runs
    BY <2>2
  <2> USE DEF Least
  <2>4. v = [w EXCEPT !.used = @ \cup Run(f, n), !.got = f]
    BY <1>3 DEF alloc_pages
  <2> HIDE DEF f, v
  <2>5. f \in Frames /\ Run(f, n) \subseteq Frames \ w.used
    BY <2>3
  <2>6. v.got = f /\ v.ok = w.ok /\ v \in Works
    BY <2>4, <2>5 DEF Works, FrameOrNone
  <2>7. f \in Run(f, n)
    BY <2>5, FramesAreNat DEF Run
  <2> QED BY <1>3, <2>4, <2>5, <2>6, <2>7 DEF v
<1> QED BY <1>1, <1>2, <1>3

LEMMA AllocPage ==
  ASSUME NEW w \in Works
  PROVE  LET v == alloc_pages(w, 1) IN
         /\ v \in Works
         /\ ~w.ok => v = w
         /\ ~v.ok => v = [w EXCEPT !.ok = FALSE]
         /\ v.ok => /\ w.ok /\ v.got \in Frames \ w.used
                    /\ v = [w EXCEPT !.used = @ \cup {v.got}, !.got = v.got]
<1>1. \A f \in Frames : Run(f, 1) = {f}
  BY FramesAreNat DEF Run
<1>2. 1 \in Nat \ {0}
  OBVIOUS
<1> QED BY <1>1, <1>2, AllocPages

-----------------------------------------------------------------------------
(***************************************************************************)
(* Page tables                                                             *)
(***************************************************************************)
\* The run of map_user_page over the tables of a page.
IsTablesRun(r, w, page, n) ==
  /\ r[0] = w
  /\ \A k \in 1 .. n : r[k] = WithTable(r[k - 1], TablesOf(page)[k])
  /\ WithTables(w, page) = r[n]

LEMMA TablesRun ==
  ASSUME NEW w, NEW page, NEW n \in Nat, DOMAIN TablesOf(page) = 1 .. n
  PROVE  \E r : IsTablesRun(r, w, page, n)
<1> DEFINE Step(v, x) == WithTable(v, x)
           Val(g, z) == IF z = {} THEN w ELSE Step(g[z \ {Max(z)}], TablesOf(page)[Max(z)])
           Eq(g, m) == g = [z \in SUBSET (1 .. m) |-> Val(g, z)]
           T == {m \in 0 .. n : \E g : Eq(g, m)}
           G == CHOOSE g : Eq(g, n)
<1>0. n \in Nat
  OBVIOUS
<1>1. WithTables(w, page) = G[1 .. n]
  BY <1>0 DEF WithTables, FoldLeft, MapThenFoldSet
<1> HIDE DEF Step
<1>2. 0 \in T
  <2>1. Eq([z \in {{}} |-> w], 0)
    <3>1. 1 .. 0 = {} /\ SUBSET {} = {{}}
      OBVIOUS
    <3> QED BY <3>1
  <2> HIDE DEF Eq
  <2> QED BY <1>0, <2>1
<1>3. ASSUME NEW k \in 1 .. n, k - 1 \in T PROVE k \in T
  <2>1. PICK g : Eq(g, k - 1)
    BY <1>3
  <2> DEFINE h == [z \in SUBSET (1 .. k) |-> IF k \in z THEN Step(g[z \ {k}], TablesOf(page)[k]) ELSE g[z]]
  <2>2. ASSUME NEW z \in SUBSET (1 .. k) PROVE h[z] = Val(h, z)
    <3>1. CASE k \in z
      <4>1. Max(z) = k
        BY <1>0, <3>1, MaxOfPrefix
      <4>2. z \ {k} \in SUBSET (1 .. k) /\ k \notin z \ {k}
        OBVIOUS
      <4>3. h[z \ {k}] = g[z \ {k}] /\ h[z] = Step(g[z \ {k}], TablesOf(page)[k])
        BY <3>1, <4>2
      <4> HIDE DEF h
      <4> QED BY <3>1, <4>1, <4>3
    <3>2. CASE k \notin z
      <4>1. z \in SUBSET (1 .. (k - 1))
        BY <1>0, <3>2
      <4>2. z \ {Max(z)} \in SUBSET (1 .. k) /\ k \notin z \ {Max(z)}
        BY <3>2
      <4>3. h[z] = g[z] /\ h[z \ {Max(z)}] = g[z \ {Max(z)}]
        BY <3>2, <4>2
      <4>4. g[z] = Val(g, z)
        BY <2>1, <4>1
      <4> HIDE DEF h
      <4> QED BY <4>3, <4>4
    <3> QED BY <3>1, <3>2
  <2>3. Eq(h, k)
    <3>1. h = [z \in SUBSET (1 .. k) |-> h[z]]
      OBVIOUS
    <3> HIDE DEF h, Val
    <3> QED BY <3>1, <2>2
  <2> HIDE DEF Eq, h
  <2> QED BY <1>0, <2>3
<1>4. \A k \in 0 .. n : k \in T
  <2> HIDE DEF T
  <2> QED BY <1>0, <1>2, <1>3, CountUp
<1>5. Eq(G, n)
  <2> HIDE DEF Eq
  <2>1. \E g : Eq(g, n)
    BY <1>0, <1>4
  <2> QED BY <2>1
<1> HIDE DEF G
<1>6. G[1 .. 0] = w
  <2>1. 1 .. 0 = {} /\ {} \in SUBSET (1 .. n)
    OBVIOUS
  <2> QED BY <1>5, <2>1
<1>7. ASSUME NEW k \in 1 .. n PROVE G[1 .. k] = Step(G[1 .. (k - 1)], TablesOf(page)[k])
  <2>1. Max(1 .. k) = k
    BY <1>0, MaxOfPrefix
  <2>2. (1 .. k) \ {k} = 1 .. (k - 1) /\ 1 .. k \in SUBSET (1 .. n) /\ 1 .. k # {}
    BY <1>0, PrefixSets
  <2>3. G[1 .. k] = Step(G[(1 .. k) \ {Max(1 .. k)}], TablesOf(page)[Max(1 .. k)])
    BY <1>5, <2>2
  <2> QED BY <2>1, <2>2, <2>3
<1> DEFINE r == [k \in 0 .. n |-> G[1 .. k]]
<1>8. r[0] = w /\ r[n] = G[1 .. n]
  BY <1>0, <1>6
<1>9. ASSUME NEW k \in 1 .. n PROVE r[k] = Step(r[k - 1], TablesOf(page)[k])
  <2>1. r[k] = G[1 .. k] /\ r[k - 1] = G[1 .. (k - 1)]
    BY <1>0
  <2> HIDE DEF r
  <2> QED BY <1>7, <2>1
<1> HIDE DEF r
<1>10. \A k \in 1 .. n : r[k] = WithTable(r[k - 1], TablesOf(page)[k])
  BY <1>9 DEF Step
<1>11. IsTablesRun(r, w, page, n)
  BY <1>1, <1>8, <1>10 DEF IsTablesRun
<1> QED BY <1>11

\* The frames that a page table consists of and maps.
FramesIn(pt) ==
  {pt.root} \cup {pt.tables[t] : t \in TablesIn(pt)}
            \cup {pt.map[page].frame : page \in Mapped(pt)}

\* The tables that lead to a page are there.
Reached(pt, page) ==
  /\ Arch = "x86_64" => pt.tables[Top] # None
  /\ pt.tables[Mid] # None /\ pt.tables[LastTable(page)] # None

\* No frame has two parts in the page table, which maps user pages only.
PtSound(pt) ==
  /\ pt \in PageTables /\ pt.root \in Frames
  /\ \A page \in Mapped(pt) :
       page >= UserPage /\ pt.map[page].frame \in Frames /\ Reached(pt, page)
  /\ \A t \in TablesIn(pt) : pt.tables[t] # pt.root
  /\ \A t, u \in TablesIn(pt) : pt.tables[t] = pt.tables[u] => t = u
  /\ \A page \in Mapped(pt) : pt.map[page].frame # pt.root
  /\ \A page \in Mapped(pt), t \in TablesIn(pt) : pt.map[page].frame # pt.tables[t]
  /\ \A page, q \in Mapped(pt) : pt.map[page].frame = pt.map[q].frame => page = q

\* Nobody has written to a frame that was never allocated.
Untouched(w) == \A f \in Frames \ w.used : w.data[f] = Stale

\* What every step of a call does: it takes free frames, and writes to those
\* only that it takes.
Grows(w, v) ==
  /\ v \in Works /\ w.used \subseteq v.used /\ v.guards = w.guards /\ v.split = w.split
  /\ \A f \in w.used : v.data[f] = w.data[f]
  /\ Untouched(w) => Untouched(v)
  /\ v.ok => w.ok

\* A call whose page table is sound, and has only frames that are allocated.
Building(w) == w \in Works /\ PtSound(w.pt) /\ FramesIn(w.pt) \subseteq w.used

\* The page table gets none but frames that were free.
Builds(w, v) ==
  /\ Grows(w, v) /\ PtSound(v.pt) /\ v.pt.root = w.pt.root
  /\ FramesIn(v.pt) \subseteq FramesIn(w.pt) \cup (v.used \ w.used)

LEMMA GrowsTwice ==
  ASSUME NEW w, NEW v, NEW u, Grows(w, v), Grows(v, u)
  PROVE  Grows(w, u)
  BY DEF Grows

LEMMA BuildsTwice ==
  ASSUME NEW w, NEW v, NEW u, Builds(w, v), Builds(v, u)
  PROVE  Builds(w, u)
<1>1. Grows(w, u)
  BY GrowsTwice DEF Builds
<1> QED BY <1>1 DEF Builds, Grows

LEMMA BuildsOn ==
  ASSUME NEW w, NEW v, Building(w), Builds(w, v)
  PROVE  Building(v)
  BY DEF Building, Builds, Grows

LEMMA BuildsNothing ==
  ASSUME NEW w, Building(w)
  PROVE  Builds(w, w)
  BY DEF Building, Builds, Grows

LEMMA LastTables ==
  ASSUME NEW page \in Pages
  PROVE  LastTable(page) \in Pages /\ LastTable(page) \in TableIds
<1>1. page % TablePages \in 0 .. page /\ page \in Nat
  BY Constants DEF Pages
<1> QED BY <1>1, Constants DEF LastTable, Pages, TableIds

\* WithTable adds the table if it is missing, in a free frame.
LEMMA WithTableBuilds ==
  ASSUME NEW w, Building(w), NEW t \in TableIds
  PROVE  LET v == WithTable(w, t) IN
         /\ Builds(w, v) /\ v.data = w.data /\ v.pt.map = w.pt.map
         /\ \A u \in TablesIn(w.pt) : v.pt.tables[u] = w.pt.tables[u]
         /\ v.ok => v.pt.tables[t] # None
         /\ ~w.ok => v = w
<1> DEFINE v == WithTable(w, t)
           n == alloc_pages(w, 1)
<1>1. w \in Works
  BY DEF Building
<1>2. CASE ~w.ok \/ w.pt.tables[t] # None
  <2>1. v = w
    BY <1>2 DEF WithTable
  <2> QED BY <1>2, <2>1, BuildsNothing
<1>3. CASE w.ok /\ w.pt.tables[t] = None /\ ~n.ok
  <2>1. v = n /\ n = [w EXCEPT !.ok = FALSE] /\ n \in Works
    BY <1>1, <1>3, AllocPage DEF WithTable
  <2> HIDE DEF v, n
  <2>2. v.used = w.used /\ v.pt = w.pt /\ v.data = w.data /\ v.guards = w.guards /\ v.split = w.split /\ ~v.ok
    BY <1>1, <2>1 DEF Works
  <2>3. Builds(w, v)
    BY <2>1, <2>2 DEF Builds, Grows, Building, Untouched
  <2> QED BY <1>3, <2>2, <2>3 DEF v
<1>4. CASE w.ok /\ w.pt.tables[t] = None /\ n.ok
  <2>1. /\ n \in Works /\ n.got \in Frames \ w.used
        /\ n = [w EXCEPT !.used = @ \cup {n.got}, !.got = n.got]
    BY <1>1, <1>4, AllocPage
  <2>2. v = [n EXCEPT !.pt.tables[t] = n.got]
    BY <1>4 DEF WithTable
  <2> DEFINE f == n.got
  <2>3. /\ n.used = w.used \cup {f} /\ n.pt = w.pt /\ n.data = w.data /\ n.guards = w.guards
        /\ n.split = w.split /\ n.ok = w.ok
    BY <1>1, <2>1 DEF Works
  <2> HIDE DEF v, n
  <2>4. /\ v.used = w.used \cup {f} /\ v.data = w.data /\ v.guards = w.guards
        /\ v.split = w.split /\ v.ok = w.ok /\ v.pt = [w.pt EXCEPT !.tables[t] = f]
    BY <2>1, <2>2, <2>3 DEF Works
  <2>5. w.pt \in PageTables
    BY <1>1 DEF Works
  <2>6. /\ v.pt.root = w.pt.root /\ v.pt.map = w.pt.map
        /\ v.pt.tables = [w.pt.tables EXCEPT ![t] = f] /\ v.pt \in PageTables
    BY <2>1, <2>4, <2>5 DEF PageTables, FrameOrNone
  <2>7. v \in Works
    BY <2>1, <2>2, <2>6 DEF Works
  <2>8. f # None /\ f \notin FramesIn(w.pt)
    BY <2>1, FramesAreNat DEF Building
  <2>9. /\ v.pt.tables[t] = f
        /\ \A u \in TableIds \ {t} : v.pt.tables[u] = w.pt.tables[u]
        /\ DOMAIN v.pt.tables = TableIds /\ DOMAIN w.pt.tables = TableIds
    BY <2>5, <2>6 DEF PageTables
  <2>10. TablesIn(v.pt) = TablesIn(w.pt) \cup {t} /\ t \notin TablesIn(w.pt) /\ TablesIn(w.pt) \subseteq TableIds
    BY <1>4, <2>8, <2>9 DEF TablesIn
  <2>11. Mapped(v.pt) = Mapped(w.pt)
    BY <2>6 DEF Mapped
  <2>12. \A u \in TablesIn(w.pt) : v.pt.tables[u] = w.pt.tables[u]
    BY <2>9, <2>10
  <2>13. FramesIn(v.pt) = FramesIn(w.pt) \cup {f}
    <3> HIDE DEF f
    <3> QED BY <2>6, <2>9, <2>10, <2>11, <2>12 DEF FramesIn
  <2>14. PtSound(v.pt)
    <3>1. \A page \in Mapped(w.pt) : Reached(w.pt, page) => Reached(v.pt, page)
      <4>1. \A u \in TableIds : w.pt.tables[u] # None => v.pt.tables[u] # None
        BY <2>8, <2>9
      <4>2. \A page \in Mapped(w.pt) : LastTable(page) \in TableIds
        BY LastTables DEF Mapped
      <4> QED BY <4>1, <4>2 DEF Reached, TableIds
    <3>2. PtSound(w.pt)
      BY DEF Building
    <3> HIDE DEF f
    <3>3. \A page \in Mapped(w.pt) : f # w.pt.map[page].frame
      BY <2>8 DEF FramesIn
    <3>4. \A u \in TablesIn(w.pt) : f # w.pt.tables[u]
      BY <2>8 DEF FramesIn
    <3>5. f # w.pt.root
      BY <2>8 DEF FramesIn
    <3>6. /\ \A u \in TablesIn(v.pt) : v.pt.tables[u] # v.pt.root
          /\ \A x, y \in TablesIn(v.pt) : v.pt.tables[x] = v.pt.tables[y] => x = y
          /\ \A page \in Mapped(v.pt), x \in TablesIn(v.pt) : v.pt.map[page].frame # v.pt.tables[x]
      BY <2>6, <2>9, <2>10, <2>11, <2>12, <3>2, <3>3, <3>4, <3>5 DEF PtSound
    <3> QED BY <2>6, <2>11, <3>1, <3>2, <3>6 DEF PtSound
  <2>15. Grows(w, v)
    BY <2>4, <2>7 DEF Grows, Untouched
  <2>16. Builds(w, v)
    BY <2>1, <2>4, <2>6, <2>13, <2>14, <2>15 DEF Builds
  <2> QED BY <1>4, <2>4, <2>6, <2>8, <2>9, <2>12, <2>16 DEF v
<1> QED BY <1>2, <1>3, <1>4

\* The steps from w to v have added tables, those in S among them.
AddsTables(w, v, S) ==
  /\ Builds(w, v) /\ v.data = w.data /\ v.pt.map = w.pt.map
  /\ \A t \in TablesIn(w.pt) : v.pt.tables[t] = w.pt.tables[t]
  /\ v.ok => \A t \in S : v.pt.tables[t] # None
  /\ ~w.ok => v = w

LEMMA OneMoreTable ==
  ASSUME NEW w, Building(w), NEW v, NEW S \in SUBSET TableIds, AddsTables(w, v, S),
         NEW x \in TableIds
  PROVE  AddsTables(w, WithTable(v, x), S \cup {x})
<1> DEFINE u == WithTable(v, x)
<1>1. Building(v)
  BY BuildsOn DEF AddsTables
<1>2. /\ Builds(v, u) /\ u.data = v.data /\ u.pt.map = v.pt.map
      /\ \A t \in TablesIn(v.pt) : u.pt.tables[t] = v.pt.tables[t]
      /\ u.ok => u.pt.tables[x] # None
      /\ ~v.ok => u = v
  BY <1>1, WithTableBuilds
<1> HIDE DEF u
<1>3. Builds(w, u)
  BY <1>2, BuildsTwice DEF AddsTables
<1>4. v.pt \in PageTables /\ w.pt \in PageTables
  BY <1>1 DEF PtSound, Building
<1>5. \A t \in TableIds : v.pt.tables[t] # None => t \in TablesIn(v.pt)
  BY <1>4 DEF PageTables, TablesIn
<1>6. \A t \in TablesIn(w.pt) : t \in TablesIn(v.pt)
  BY <1>4, <1>5 DEF PageTables, TablesIn, AddsTables
<1>7. u.ok => v.ok
  BY <1>2 DEF Builds, Grows
<1>8. AddsTables(w, u, S \cup {x})
  BY <1>2, <1>3, <1>5, <1>6, <1>7 DEF AddsTables
<1> QED BY <1>8 DEF u

LEMMA TablesOfPage ==
  ASSUME NEW w, Building(w), NEW page \in Pages
  PROVE  LET v == WithTables(w, page) IN
         /\ Builds(w, v) /\ v.data = w.data /\ v.pt.map = w.pt.map
         /\ v.ok => Reached(v.pt, page)
         /\ ~w.ok => v = w
<1>1. Top \in TableIds /\ Mid \in TableIds /\ LastTable(page) \in TableIds
  BY LastTables DEF TableIds
<1>2. AddsTables(w, w, {})
  BY BuildsNothing DEF AddsTables
<1>3. CASE Arch = "x86_64"
  <2>1. TablesOf(page) = <<Top, Mid, LastTable(page)>>
    BY <1>3 DEF TablesOf, X86Tables
  <2>2. DOMAIN TablesOf(page) = 1 .. 3 /\ 3 \in Nat
    BY <2>1
  <2>3. PICK r : IsTablesRun(r, w, page, 3)
    BY <2>2, TablesRun
  <2>4. 1 \in 1 .. 3 /\ 2 \in 1 .. 3 /\ 3 \in 1 .. 3
    OBVIOUS
  <2>5. r[1] = WithTable(r[0], Top) /\ r[2] = WithTable(r[1], Mid) /\ r[3] = WithTable(r[2], LastTable(page))
    BY <2>1, <2>3, <2>4 DEF IsTablesRun
  <2>6. r[0] = w /\ WithTables(w, page) = r[3]
    BY <2>3 DEF IsTablesRun
  <2>7. AddsTables(w, r[1], {} \cup {Top})
    BY <1>1, <1>2, <2>5, <2>6, OneMoreTable
  <2>8. AddsTables(w, r[2], {} \cup {Top} \cup {Mid})
    BY <1>1, <2>5, <2>7, OneMoreTable
  <2>9. AddsTables(w, r[3], {} \cup {Top} \cup {Mid} \cup {LastTable(page)})
    BY <1>1, <2>5, <2>8, OneMoreTable
  <2> QED BY <2>6, <2>9 DEF AddsTables, Reached
<1>4. CASE Arch # "x86_64"
  <2>1. TablesOf(page) = <<Mid, LastTable(page)>>
    BY <1>4 DEF TablesOf, Sv39Tables
  <2>2. DOMAIN TablesOf(page) = 1 .. 2 /\ 2 \in Nat
    BY <2>1
  <2>3. PICK r : IsTablesRun(r, w, page, 2)
    BY <2>2, TablesRun
  <2>4. 1 \in 1 .. 2 /\ 2 \in 1 .. 2
    OBVIOUS
  <2>5. r[1] = WithTable(r[0], Mid) /\ r[2] = WithTable(r[1], LastTable(page))
    BY <2>1, <2>3, <2>4 DEF IsTablesRun
  <2>6. r[0] = w /\ WithTables(w, page) = r[2]
    BY <2>3 DEF IsTablesRun
  <2>7. AddsTables(w, r[1], {} \cup {Mid})
    BY <1>1, <1>2, <2>5, <2>6, OneMoreTable
  <2>8. AddsTables(w, r[2], {} \cup {Mid} \cup {LastTable(page)})
    BY <1>1, <2>5, <2>7, OneMoreTable
  <2> QED BY <1>4, <2>6, <2>8 DEF AddsTables, Reached
<1> QED BY <1>3, <1>4

\* Mapping a frame that is allocated and not in the table yet.
LEMMA MapPage ==
  ASSUME NEW w, Building(w), NEW page \in Pages, NEW write \in BOOLEAN,
         w.ok, Reached(w.pt, page), page >= UserPage,
         NEW frame \in w.used \ FramesIn(w.pt)
  PROVE  LET v == [w EXCEPT !.pt.map[page] = [frame |-> frame, write |-> write]] IN
         /\ v \in Works /\ PtSound(v.pt) /\ v.pt.root = w.pt.root
         /\ FramesIn(v.pt) \subseteq FramesIn(w.pt) \cup {frame}
         /\ v.pt.map = [w.pt.map EXCEPT ![page] = [frame |-> frame, write |-> write]]
         /\ v.data = w.data /\ v.used = w.used /\ v.guards = w.guards /\ v.split = w.split /\ v.ok
         /\ v.pt.tables = w.pt.tables
<1> DEFINE e == [frame |-> frame, write |-> write]
           v == [w EXCEPT !.pt.map[page] = e]
<1>1. w \in Works /\ w.pt \in PageTables /\ PtSound(w.pt) /\ w.used \subseteq Frames
  BY DEF Building, Works
<1>2. frame \in Frames /\ frame # None /\ e \in Entries /\ e # NoPage /\ e.frame = frame
  BY <1>1, FramesAreNat DEF Entries, FrameOrNone, NoPage
<1>3. /\ v.data = w.data /\ v.used = w.used /\ v.guards = w.guards /\ v.split = w.split /\ v.ok
      /\ v.pt = [w.pt EXCEPT !.map[page] = e]
  BY <1>1 DEF Works
<1>0. v = [w EXCEPT !.pt.map[page] = e]
  OBVIOUS
<1> HIDE DEF e, v
<1>4. /\ v.pt.root = w.pt.root /\ v.pt.tables = w.pt.tables /\ v.pt.map = [w.pt.map EXCEPT ![page] = e]
      /\ v.pt \in PageTables
  BY <1>1, <1>2, <1>3 DEF PageTables
<1>5. v \in Works
  BY <1>0, <1>1, <1>3, <1>4 DEF Works
<1>6. /\ v.pt.map[page] = e
      /\ \A q \in Pages \ {page} : v.pt.map[q] = w.pt.map[q]
  BY <1>1, <1>4 DEF PageTables
<1>7. TablesIn(v.pt) = TablesIn(w.pt)
  BY <1>4 DEF TablesIn
<1>8. Mapped(v.pt) = Mapped(w.pt) \cup {page} /\ Mapped(w.pt) \subseteq Pages
  BY <1>2, <1>6 DEF Mapped
<1>9. /\ \A q \in Mapped(v.pt) \ {page} : q \in Mapped(w.pt) /\ v.pt.map[q] = w.pt.map[q]
  BY <1>6, <1>8
<1>10. FramesIn(v.pt) \subseteq FramesIn(w.pt) \cup {frame}
  BY <1>2, <1>4, <1>6, <1>7, <1>9 DEF FramesIn
<1>11. /\ \A q \in Mapped(w.pt) : w.pt.map[q].frame # frame
       /\ \A t \in TablesIn(w.pt) : w.pt.tables[t] # frame
       /\ w.pt.root # frame
  BY DEF FramesIn
<1>12. \A q : Reached(w.pt, q) => Reached(v.pt, q)
  BY <1>4 DEF Reached
<1>13. PtSound(v.pt)
  <2>1. \A q \in Mapped(v.pt) : q >= UserPage /\ v.pt.map[q].frame \in Frames /\ Reached(v.pt, q)
    BY <1>1, <1>2, <1>6, <1>9, <1>12 DEF PtSound
  <2>2. \A q \in Mapped(v.pt) : v.pt.map[q].frame # v.pt.root
    BY <1>1, <1>2, <1>4, <1>6, <1>9, <1>11 DEF PtSound
  <2>3. \A q \in Mapped(v.pt), t \in TablesIn(v.pt) : v.pt.map[q].frame # v.pt.tables[t]
    BY <1>1, <1>2, <1>4, <1>6, <1>7, <1>9, <1>11 DEF PtSound
  <2>4. \A q, s \in Mapped(v.pt) : v.pt.map[q].frame = v.pt.map[s].frame => q = s
    BY <1>1, <1>2, <1>6, <1>9, <1>11 DEF PtSound
  <2>5. /\ \A t \in TablesIn(v.pt) : v.pt.tables[t] # v.pt.root
        /\ \A t, u \in TablesIn(v.pt) : v.pt.tables[t] = v.pt.tables[u] => t = u
        /\ v.pt.root \in Frames
    BY <1>1, <1>4, <1>7 DEF PtSound
  <2> QED BY <1>4, <2>1, <2>2, <2>3, <2>4, <2>5 DEF PtSound
<1> QED BY <1>3, <1>4, <1>5, <1>10, <1>13 DEF e, v

\* map_user_page maps the page and nothing else, or fails with the map as it was.
LEMMA MapUserPage ==
  ASSUME NEW w, Building(w), NEW page \in Pages, NEW write \in BOOLEAN,
         NEW frame, w.ok => frame \in w.used \ FramesIn(w.pt)
  PROVE  LET v == map_user_page(w, page, frame, write) IN
         /\ Grows(w, v) /\ PtSound(v.pt) /\ v.pt.root = w.pt.root /\ v.data = w.data
         /\ FramesIn(v.pt) \subseteq FramesIn(w.pt) \cup {frame} \cup (v.used \ w.used)
         /\ v.ok => /\ v.pt.map = [w.pt.map EXCEPT ![page] = [frame |-> frame, write |-> write]]
                    /\ page >= UserPage
         /\ ~v.ok => v.pt.map = w.pt.map /\ Builds(w, v)
         /\ ~w.ok => v = w
<1> DEFINE v == map_user_page(w, page, frame, write)
           t == WithTables(w, page)
<1>1. CASE ~w.ok
  <2>1. v = w
    BY <1>1 DEF map_user_page
  <2> QED BY <1>1, <2>1, BuildsNothing DEF Builds
<1>2. CASE w.ok /\ page < UserPage
  <2>1. v = [w EXCEPT !.ok = FALSE]
    BY <1>2 DEF map_user_page
  <2>2. w \in Works
    BY DEF Building
  <2> HIDE DEF v
  <2>3. v \in Works /\ v.used = w.used /\ v.pt = w.pt /\ v.data = w.data /\ v.guards = w.guards /\ v.split = w.split /\ ~v.ok
    BY <2>1, <2>2 DEF Works
  <2>4. Builds(w, v)
    BY <2>3 DEF Builds, Grows, Building, Untouched
  <2> QED BY <1>2, <2>3, <2>4 DEF v, Builds
<1>3. CASE w.ok /\ ~(page < UserPage)
  <2>2. Builds(w, t) /\ t.data = w.data /\ t.pt.map = w.pt.map /\ (t.ok => Reached(t.pt, page))
    BY <1>3, TablesOfPage
  <2>3. CASE ~t.ok
    <3>1. v = t
      BY <1>3, <2>3 DEF map_user_page
    <3> QED BY <1>3, <2>2, <2>3, <3>1 DEF Builds
  <2>4. CASE t.ok
    <3>1. v = [t EXCEPT !.pt.map[page] = [frame |-> frame, write |-> write]]
      BY <1>3, <2>4 DEF map_user_page
    <3> HIDE DEF t, v
    <3>2. Building(t) /\ page >= UserPage
      BY <1>3, <2>2, BuildsOn, Constants DEF Pages
    <3>3. frame \in t.used \ FramesIn(t.pt)
      BY <1>3, <2>2 DEF Builds, Grows
    <3>4. /\ v \in Works /\ PtSound(v.pt) /\ v.pt.root = t.pt.root
          /\ FramesIn(v.pt) \subseteq FramesIn(t.pt) \cup {frame}
          /\ v.pt.map = [t.pt.map EXCEPT ![page] = [frame |-> frame, write |-> write]]
          /\ v.data = t.data /\ v.used = t.used /\ v.guards = t.guards /\ v.split = t.split /\ v.ok
      <4>1. Reached(t.pt, page)
        BY <2>2, <2>4
      <4> QED BY <2>4, <3>1, <3>2, <3>3, <4>1, MapPage
    <3>5. Grows(t, v)
      BY <2>4, <3>4 DEF Grows, Untouched
    <3>6. Grows(w, v)
      BY <2>2, <3>5, GrowsTwice DEF Builds
    <3> QED BY <1>3, <2>2, <3>2, <3>4, <3>6 DEF Builds, v
  <2> QED BY <2>3, <2>4
<1> QED
  <2>1. page < UserPage \/ ~(page < UserPage)
    OBVIOUS
  <2> QED BY <1>1, <1>2, <1>3, <2>1

-----------------------------------------------------------------------------
(***************************************************************************)
(* New pages, and what is read at a page                                   *)
(***************************************************************************)

\* What a process with this page table reads at a page.
Shown(w, page) == IF w.pt.map[page] = NoPage THEN Absent ELSE w.data[w.pt.map[page].frame]

LEMMA ContentsPresent ==
  /\ Absent \notin Contents /\ Zero \in Contents /\ Stale \in Contents
  /\ {<<"args", 0>>} \in Contents /\ {<<"prog", 0>>} \in Contents
  /\ \A n \in Nat : {<<"file", n>>} \in Contents /\ {<<"store", n>>} \in Contents
<1>1. <<"absent", 0>> \notin {"stale", "args", "file", "prog", "store"} \X Nat
  OBVIOUS
<1> QED BY <1>1 DEF Contents, Absent, Zero, Stale

\* A call that grows shows the same wherever its map is the same.
LEMMA ShownKept ==
  ASSUME NEW w, Building(w), NEW v, Grows(w, v), NEW q \in Pages, v.pt.map[q] = w.pt.map[q]
  PROVE  Shown(v, q) = Shown(w, q)
<1>1. CASE w.pt.map[q] = NoPage
  BY <1>1 DEF Shown
<1>2. CASE w.pt.map[q] # NoPage
  <2>1. q \in Mapped(w.pt)
    BY <1>2 DEF Mapped
  <2>2. w.pt.map[q].frame \in w.used
    BY <2>1 DEF Building, FramesIn
  <2> QED BY <1>2, <2>2 DEF Shown, Grows
<1> QED BY <1>1, <1>2

\* A new frame with a content, before it is mapped.
LEMMA FilledPage ==
  ASSUME NEW w, Building(w), NEW content \in Contents
  PROVE  LET v == Fill(alloc_pages(w, 1), content) IN
         /\ Builds(w, v) /\ v.pt = w.pt
         /\ v.ok => /\ v.got \in v.used \ w.used /\ v.got \in Frames
                    /\ v.data[v.got] = content /\ v.got \notin FramesIn(v.pt)
         /\ ~w.ok => v = w
<1> DEFINE a == alloc_pages(w, 1)
           v == Fill(a, content)
<1>1. /\ a \in Works /\ (~w.ok => a = w) /\ (~a.ok => a = [w EXCEPT !.ok = FALSE])
      /\ a.ok => /\ w.ok /\ a.got \in Frames \ w.used
                 /\ a = [w EXCEPT !.used = @ \cup {a.got}, !.got = a.got]
  BY AllocPage DEF Building
<1>2. w \in Works
  BY DEF Building
<1>3. CASE ~a.ok
  <2>1. v = a
    BY <1>3 DEF Fill
  <2> HIDE DEF v
  <2>2. v.used = w.used /\ v.pt = w.pt /\ v.data = w.data /\ v.guards = w.guards /\ v.split = w.split /\ ~v.ok
    BY <1>1, <1>2, <1>3, <2>1 DEF Works
  <2>3. Builds(w, v)
    BY <1>1, <2>1, <2>2 DEF Builds, Grows, Building, Untouched
  <2> QED BY <1>1, <2>1, <2>2, <2>3 DEF v
<1>4. CASE a.ok
  <2>1. v = [a EXCEPT !.data[a.got] = content]
    BY <1>4 DEF Fill
  <2> HIDE DEF v, a
  <2>2. /\ a.used = w.used \cup {a.got} /\ a.pt = w.pt /\ a.data = w.data /\ a.guards = w.guards
        /\ a.split = w.split /\ w.ok /\ a.got \in Frames \ w.used
    BY <1>1, <1>2, <1>4 DEF Works
  <2>3. /\ v.used = a.used /\ v.pt = w.pt /\ v.guards = w.guards /\ v.split = w.split
        /\ v.got = a.got /\ v.ok /\ v.data = [w.data EXCEPT ![a.got] = content]
    BY <1>1, <1>4, <2>1, <2>2 DEF Works
  <2>4. v \in Works
    BY <1>1, <2>1, <2>2, <2>3 DEF Works
  <2>5. /\ v.data[v.got] = content
        /\ \A f \in Frames \ {v.got} : v.data[f] = w.data[f]
    BY <1>2, <2>2, <2>3 DEF Works
  <2>6. w.used \subseteq Frames
    BY <1>2 DEF Works
  <2>7. Grows(w, v)
    BY <2>2, <2>3, <2>4, <2>5, <2>6 DEF Grows, Untouched
  <2>8. Builds(w, v) /\ v.got \notin FramesIn(v.pt)
    BY <2>2, <2>3, <2>7 DEF Builds, Building
  <2> QED BY <2>2, <2>3, <2>5, <2>8 DEF v, a
<1> QED BY <1>3, <1>4

\* NewPage puts the content at the page, or fails and leaves all as it was.
LEMMA NewPageShown ==
  ASSUME NEW w, Building(w), NEW page \in Pages, NEW content \in Contents, NEW write \in BOOLEAN
  PROVE  LET v == NewPage(w, page, content, write) IN
         /\ Builds(w, v)
         /\ \A q \in Pages : Shown(v, q) = IF v.ok /\ q = page THEN content ELSE Shown(w, q)
         /\ ~w.ok => v = w
<1> DEFINE n == Fill(alloc_pages(w, 1), content)
           v == map_user_page(n, page, n.got, write)
<1>1. /\ Builds(w, n) /\ n.pt = w.pt
      /\ n.ok => /\ n.got \in n.used \ w.used /\ n.got \in Frames
                 /\ n.data[n.got] = content /\ n.got \notin FramesIn(n.pt)
      /\ ~w.ok => n = w
  BY FilledPage
<1>2. NewPage(w, page, content, write) = v
  BY DEF NewPage
<1> HIDE DEF n
<1>3. Building(n)
  BY <1>1, BuildsOn
<1>4. /\ Grows(n, v) /\ PtSound(v.pt) /\ v.pt.root = n.pt.root /\ v.data = n.data
      /\ FramesIn(v.pt) \subseteq FramesIn(n.pt) \cup {n.got} \cup (v.used \ n.used)
      /\ v.ok => v.pt.map = [n.pt.map EXCEPT ![page] = [frame |-> n.got, write |-> write]]
      /\ ~v.ok => v.pt.map = n.pt.map /\ Builds(n, v)
      /\ ~n.ok => v = n
  BY <1>1, <1>3, MapUserPage
<1> HIDE DEF v
<1>5. Grows(w, v)
  BY <1>1, <1>4, GrowsTwice DEF Builds
<1>6. Builds(w, v)
  <2>1. CASE ~v.ok
    BY <1>1, <1>4, <2>1, BuildsTwice
  <2>2. CASE v.ok
    <3>1. n.ok
      BY <1>4, <2>2
    <3>2. n.got \in v.used \ w.used /\ w.used \subseteq n.used
      BY <1>1, <1>4, <3>1 DEF Grows, Builds
    <3>3. FramesIn(v.pt) \subseteq FramesIn(w.pt) \cup (v.used \ w.used)
      BY <1>1, <1>4, <3>2
    <3> QED BY <1>1, <1>4, <1>5, <3>3 DEF Builds
  <2> QED BY <2>1, <2>2
<1>7. ASSUME NEW q \in Pages PROVE Shown(v, q) = IF v.ok /\ q = page THEN content ELSE Shown(w, q)
  <2>1. n.pt.map \in [Pages -> Entries]
    BY <1>3 DEF Building, PtSound, PageTables
  <2>2. CASE v.ok /\ q = page
    <3>1. v.pt.map[q] = [frame |-> n.got, write |-> write]
      BY <1>4, <2>1, <2>2
    <3>2. v.pt.map[q].frame = n.got /\ n.ok /\ n.got # None
      BY <1>1, <1>4, <2>2, <3>1, FramesAreNat
    <3>3. v.pt.map[q] # NoPage
      BY <3>2 DEF NoPage
    <3> QED BY <1>1, <1>4, <2>2, <3>2, <3>3 DEF Shown
  <2>3. CASE ~(v.ok /\ q = page)
    <3>1. v.pt.map[q] = w.pt.map[q]
      BY <1>1, <1>4, <2>1, <2>3
    <3> QED BY <1>5, <2>3, <3>1, ShownKept
  <2> QED BY <2>2, <2>3
<1>8. ~w.ok => v = w
  BY <1>1, <1>4
<1> QED BY <1>2, <1>6, <1>7, <1>8

-----------------------------------------------------------------------------
(***************************************************************************)
(* Loops over pages                                                        *)
(***************************************************************************)

\* The loop from lo to hi has n rounds.
Rounds(lo, hi, n) ==
  /\ DOMAIN Upwards(lo, hi) = 1 .. n
  /\ \A k \in 1 .. n : Upwards(lo, hi)[k] = lo + k - 1 /\ lo + k - 1 \in lo .. hi - 1
  /\ \A x \in lo .. hi - 1 : x < lo + n
  /\ hi >= lo => n = hi - lo

LEMMA UpwardsSeq ==
  ASSUME NEW lo \in Int, NEW hi \in Int
  PROVE  \E n \in Nat : Rounds(lo, hi, n)
<1> DEFINE n == IF hi >= lo THEN hi - lo ELSE 0
<1>1. n \in Nat
  OBVIOUS
<1>2. 1 .. hi - lo = 1 .. n
  OBVIOUS
<1>3. DOMAIN Upwards(lo, hi) = 1 .. n
  BY <1>2 DEF Upwards
<1>4. \A k \in 1 .. n : Upwards(lo, hi)[k] = lo + k - 1 /\ lo + k - 1 \in lo .. hi - 1
  BY <1>2 DEF Upwards
<1>5. \A x \in lo .. hi - 1 : x < lo + n
  OBVIOUS
<1>6. Rounds(lo, hi, n)
  BY <1>3, <1>4, <1>5 DEF Rounds
<1> QED BY <1>1, <1>6


\* The run of brk and mmap over new pages.
IsFreshRun(r, w, lo, hi, write, n) ==
  /\ r[0] = w
  /\ \A k \in 1 .. n : r[k] = NewPage(r[k - 1], Upwards(lo, hi)[k], Zero, write)
  /\ FreshPages(w, lo, hi, write) = r[n]

LEMMA FreshRun ==
  ASSUME NEW w, NEW lo, NEW hi, NEW write, NEW n \in Nat, DOMAIN Upwards(lo, hi) = 1 .. n
  PROVE  \E r : IsFreshRun(r, w, lo, hi, write, n)
<1> DEFINE Step(v, x) == NewPage(v, x, Zero, write)
           Val(g, z) == IF z = {} THEN w ELSE Step(g[z \ {Max(z)}], Upwards(lo, hi)[Max(z)])
           Eq(g, m) == g = [z \in SUBSET (1 .. m) |-> Val(g, z)]
           T == {m \in 0 .. n : \E g : Eq(g, m)}
           G == CHOOSE g : Eq(g, n)
<1>0. n \in Nat
  OBVIOUS
<1>1. FreshPages(w, lo, hi, write) = G[1 .. n]
  BY <1>0 DEF FreshPages, FoldLeft, MapThenFoldSet
<1> HIDE DEF Step
<1>2. 0 \in T
  <2>1. Eq([z \in {{}} |-> w], 0)
    <3>1. 1 .. 0 = {} /\ SUBSET {} = {{}}
      OBVIOUS
    <3> QED BY <3>1
  <2> HIDE DEF Eq
  <2> QED BY <1>0, <2>1
<1>3. ASSUME NEW k \in 1 .. n, k - 1 \in T PROVE k \in T
  <2>1. PICK g : Eq(g, k - 1)
    BY <1>3
  <2> DEFINE h == [z \in SUBSET (1 .. k) |-> IF k \in z THEN Step(g[z \ {k}], Upwards(lo, hi)[k]) ELSE g[z]]
  <2>2. ASSUME NEW z \in SUBSET (1 .. k) PROVE h[z] = Val(h, z)
    <3>1. CASE k \in z
      <4>1. Max(z) = k
        BY <1>0, <3>1, MaxOfPrefix
      <4>2. z \ {k} \in SUBSET (1 .. k) /\ k \notin z \ {k}
        OBVIOUS
      <4>3. h[z \ {k}] = g[z \ {k}] /\ h[z] = Step(g[z \ {k}], Upwards(lo, hi)[k])
        BY <3>1, <4>2
      <4> HIDE DEF h
      <4> QED BY <3>1, <4>1, <4>3
    <3>2. CASE k \notin z
      <4>1. z \in SUBSET (1 .. (k - 1))
        BY <1>0, <3>2
      <4>2. z \ {Max(z)} \in SUBSET (1 .. k) /\ k \notin z \ {Max(z)}
        BY <3>2
      <4>3. h[z] = g[z] /\ h[z \ {Max(z)}] = g[z \ {Max(z)}]
        BY <3>2, <4>2
      <4>4. g[z] = Val(g, z)
        BY <2>1, <4>1
      <4> HIDE DEF h
      <4> QED BY <4>3, <4>4
    <3> QED BY <3>1, <3>2
  <2>3. Eq(h, k)
    <3>1. h = [z \in SUBSET (1 .. k) |-> h[z]]
      OBVIOUS
    <3> HIDE DEF h, Val
    <3> QED BY <3>1, <2>2
  <2> HIDE DEF Eq, h
  <2> QED BY <1>0, <2>3
<1>4. \A k \in 0 .. n : k \in T
  <2> HIDE DEF T
  <2> QED BY <1>0, <1>2, <1>3, CountUp
<1>5. Eq(G, n)
  <2> HIDE DEF Eq
  <2>1. \E g : Eq(g, n)
    BY <1>0, <1>4
  <2> QED BY <2>1
<1> HIDE DEF G
<1>6. G[1 .. 0] = w
  <2>1. 1 .. 0 = {} /\ {} \in SUBSET (1 .. n)
    OBVIOUS
  <2> QED BY <1>5, <2>1
<1>7. ASSUME NEW k \in 1 .. n PROVE G[1 .. k] = Step(G[1 .. (k - 1)], Upwards(lo, hi)[k])
  <2>1. Max(1 .. k) = k
    BY <1>0, MaxOfPrefix
  <2>2. (1 .. k) \ {k} = 1 .. (k - 1) /\ 1 .. k \in SUBSET (1 .. n) /\ 1 .. k # {}
    BY <1>0, PrefixSets
  <2>3. G[1 .. k] = Step(G[(1 .. k) \ {Max(1 .. k)}], Upwards(lo, hi)[Max(1 .. k)])
    BY <1>5, <2>2
  <2> QED BY <2>1, <2>2, <2>3
<1> DEFINE r == [k \in 0 .. n |-> G[1 .. k]]
<1>8. r[0] = w /\ r[n] = G[1 .. n]
  BY <1>0, <1>6
<1>9. ASSUME NEW k \in 1 .. n PROVE r[k] = Step(r[k - 1], Upwards(lo, hi)[k])
  <2>1. r[k] = G[1 .. k] /\ r[k - 1] = G[1 .. (k - 1)]
    BY <1>0
  <2> HIDE DEF r
  <2> QED BY <1>7, <2>1
<1> HIDE DEF r
<1>10. \A k \in 1 .. n : r[k] = NewPage(r[k - 1], Upwards(lo, hi)[k], Zero, write)
  BY <1>9 DEF Step
<1>11. IsFreshRun(r, w, lo, hi, write, n)
  BY <1>1, <1>8, <1>10 DEF IsFreshRun
<1> QED BY <1>11

\* The run of load over the pages of a segment.
IsSegmentRun(r, w, s, n) ==
  /\ r[0] = w
  /\ \A k \in 1 .. n : r[k] = NewPage(r[k - 1], Upwards(PageOf(s.va), PagesUpTo(s.va + s.memsz))[k], SegContent(s, Upwards(PageOf(s.va), PagesUpTo(s.va + s.memsz))[k]), s.write)
  /\ LoadSegment(w, s) = r[n]

LEMMA SegmentRun ==
  ASSUME NEW w, NEW s, NEW n \in Nat,
         DOMAIN Upwards(PageOf(s.va), PagesUpTo(s.va + s.memsz)) = 1 .. n
  PROVE  \E r : IsSegmentRun(r, w, s, n)
<1> DEFINE Step(v, x) == NewPage(v, x, SegContent(s, x), s.write)
           Val(g, z) == IF z = {} THEN w ELSE Step(g[z \ {Max(z)}], Upwards(PageOf(s.va), PagesUpTo(s.va + s.memsz))[Max(z)])
           Eq(g, m) == g = [z \in SUBSET (1 .. m) |-> Val(g, z)]
           T == {m \in 0 .. n : \E g : Eq(g, m)}
           G == CHOOSE g : Eq(g, n)
<1>0. n \in Nat
  OBVIOUS
<1>1. LoadSegment(w, s) = G[1 .. n]
  BY <1>0 DEF LoadSegment, FoldLeft, MapThenFoldSet
<1> HIDE DEF Step
<1>2. 0 \in T
  <2>1. Eq([z \in {{}} |-> w], 0)
    <3>1. 1 .. 0 = {} /\ SUBSET {} = {{}}
      OBVIOUS
    <3> QED BY <3>1
  <2> HIDE DEF Eq
  <2> QED BY <1>0, <2>1
<1>3. ASSUME NEW k \in 1 .. n, k - 1 \in T PROVE k \in T
  <2>1. PICK g : Eq(g, k - 1)
    BY <1>3
  <2> DEFINE h == [z \in SUBSET (1 .. k) |-> IF k \in z THEN Step(g[z \ {k}], Upwards(PageOf(s.va), PagesUpTo(s.va + s.memsz))[k]) ELSE g[z]]
  <2>2. ASSUME NEW z \in SUBSET (1 .. k) PROVE h[z] = Val(h, z)
    <3>1. CASE k \in z
      <4>1. Max(z) = k
        BY <1>0, <3>1, MaxOfPrefix
      <4>2. z \ {k} \in SUBSET (1 .. k) /\ k \notin z \ {k}
        OBVIOUS
      <4>3. h[z \ {k}] = g[z \ {k}] /\ h[z] = Step(g[z \ {k}], Upwards(PageOf(s.va), PagesUpTo(s.va + s.memsz))[k])
        BY <3>1, <4>2
      <4> HIDE DEF h
      <4> QED BY <3>1, <4>1, <4>3
    <3>2. CASE k \notin z
      <4>1. z \in SUBSET (1 .. (k - 1))
        BY <1>0, <3>2
      <4>2. z \ {Max(z)} \in SUBSET (1 .. k) /\ k \notin z \ {Max(z)}
        BY <3>2
      <4>3. h[z] = g[z] /\ h[z \ {Max(z)}] = g[z \ {Max(z)}]
        BY <3>2, <4>2
      <4>4. g[z] = Val(g, z)
        BY <2>1, <4>1
      <4> HIDE DEF h
      <4> QED BY <4>3, <4>4
    <3> QED BY <3>1, <3>2
  <2>3. Eq(h, k)
    <3>1. h = [z \in SUBSET (1 .. k) |-> h[z]]
      OBVIOUS
    <3> HIDE DEF h, Val
    <3> QED BY <3>1, <2>2
  <2> HIDE DEF Eq, h
  <2> QED BY <1>0, <2>3
<1>4. \A k \in 0 .. n : k \in T
  <2> HIDE DEF T
  <2> QED BY <1>0, <1>2, <1>3, CountUp
<1>5. Eq(G, n)
  <2> HIDE DEF Eq
  <2>1. \E g : Eq(g, n)
    BY <1>0, <1>4
  <2> QED BY <2>1
<1> HIDE DEF G
<1>6. G[1 .. 0] = w
  <2>1. 1 .. 0 = {} /\ {} \in SUBSET (1 .. n)
    OBVIOUS
  <2> QED BY <1>5, <2>1
<1>7. ASSUME NEW k \in 1 .. n PROVE G[1 .. k] = Step(G[1 .. (k - 1)], Upwards(PageOf(s.va), PagesUpTo(s.va + s.memsz))[k])
  <2>1. Max(1 .. k) = k
    BY <1>0, MaxOfPrefix
  <2>2. (1 .. k) \ {k} = 1 .. (k - 1) /\ 1 .. k \in SUBSET (1 .. n) /\ 1 .. k # {}
    BY <1>0, PrefixSets
  <2>3. G[1 .. k] = Step(G[(1 .. k) \ {Max(1 .. k)}], Upwards(PageOf(s.va), PagesUpTo(s.va + s.memsz))[Max(1 .. k)])
    BY <1>5, <2>2
  <2> QED BY <2>1, <2>2, <2>3
<1> DEFINE r == [k \in 0 .. n |-> G[1 .. k]]
<1>8. r[0] = w /\ r[n] = G[1 .. n]
  BY <1>0, <1>6
<1>9. ASSUME NEW k \in 1 .. n PROVE r[k] = Step(r[k - 1], Upwards(PageOf(s.va), PagesUpTo(s.va + s.memsz))[k])
  <2>1. r[k] = G[1 .. k] /\ r[k - 1] = G[1 .. (k - 1)]
    BY <1>0
  <2> HIDE DEF r
  <2> QED BY <1>7, <2>1
<1> HIDE DEF r
<1>10. \A k \in 1 .. n : r[k] = NewPage(r[k - 1], Upwards(PageOf(s.va), PagesUpTo(s.va + s.memsz))[k], SegContent(s, Upwards(PageOf(s.va), PagesUpTo(s.va + s.memsz))[k]), s.write)
  BY <1>9 DEF Step
<1>11. IsSegmentRun(r, w, s, n)
  BY <1>1, <1>8, <1>10 DEF IsSegmentRun
<1> QED BY <1>11

\* The run of load over the segments.
IsLoadRun(r, w, exe, n) ==
  /\ r[0] = w
  /\ \A k \in 1 .. n : r[k] = LoadSegment(r[k - 1], exe[k])
  /\ load(w, exe) = r[n]

LEMMA LoadRun ==
  ASSUME NEW w, NEW exe, NEW n \in Nat, DOMAIN exe = 1 .. n
  PROVE  \E r : IsLoadRun(r, w, exe, n)
<1> DEFINE Step(v, x) == LoadSegment(v, x)
           Val(g, z) == IF z = {} THEN w ELSE Step(g[z \ {Max(z)}], exe[Max(z)])
           Eq(g, m) == g = [z \in SUBSET (1 .. m) |-> Val(g, z)]
           T == {m \in 0 .. n : \E g : Eq(g, m)}
           G == CHOOSE g : Eq(g, n)
<1>0. n \in Nat
  OBVIOUS
<1>1. load(w, exe) = G[1 .. n]
  BY <1>0 DEF load, FoldLeft, MapThenFoldSet
<1> HIDE DEF Step
<1>2. 0 \in T
  <2>1. Eq([z \in {{}} |-> w], 0)
    <3>1. 1 .. 0 = {} /\ SUBSET {} = {{}}
      OBVIOUS
    <3> QED BY <3>1
  <2> HIDE DEF Eq
  <2> QED BY <1>0, <2>1
<1>3. ASSUME NEW k \in 1 .. n, k - 1 \in T PROVE k \in T
  <2>1. PICK g : Eq(g, k - 1)
    BY <1>3
  <2> DEFINE h == [z \in SUBSET (1 .. k) |-> IF k \in z THEN Step(g[z \ {k}], exe[k]) ELSE g[z]]
  <2>2. ASSUME NEW z \in SUBSET (1 .. k) PROVE h[z] = Val(h, z)
    <3>1. CASE k \in z
      <4>1. Max(z) = k
        BY <1>0, <3>1, MaxOfPrefix
      <4>2. z \ {k} \in SUBSET (1 .. k) /\ k \notin z \ {k}
        OBVIOUS
      <4>3. h[z \ {k}] = g[z \ {k}] /\ h[z] = Step(g[z \ {k}], exe[k])
        BY <3>1, <4>2
      <4> HIDE DEF h
      <4> QED BY <3>1, <4>1, <4>3
    <3>2. CASE k \notin z
      <4>1. z \in SUBSET (1 .. (k - 1))
        BY <1>0, <3>2
      <4>2. z \ {Max(z)} \in SUBSET (1 .. k) /\ k \notin z \ {Max(z)}
        BY <3>2
      <4>3. h[z] = g[z] /\ h[z \ {Max(z)}] = g[z \ {Max(z)}]
        BY <3>2, <4>2
      <4>4. g[z] = Val(g, z)
        BY <2>1, <4>1
      <4> HIDE DEF h
      <4> QED BY <4>3, <4>4
    <3> QED BY <3>1, <3>2
  <2>3. Eq(h, k)
    <3>1. h = [z \in SUBSET (1 .. k) |-> h[z]]
      OBVIOUS
    <3> HIDE DEF h, Val
    <3> QED BY <3>1, <2>2
  <2> HIDE DEF Eq, h
  <2> QED BY <1>0, <2>3
<1>4. \A k \in 0 .. n : k \in T
  <2> HIDE DEF T
  <2> QED BY <1>0, <1>2, <1>3, CountUp
<1>5. Eq(G, n)
  <2> HIDE DEF Eq
  <2>1. \E g : Eq(g, n)
    BY <1>0, <1>4
  <2> QED BY <2>1
<1> HIDE DEF G
<1>6. G[1 .. 0] = w
  <2>1. 1 .. 0 = {} /\ {} \in SUBSET (1 .. n)
    OBVIOUS
  <2> QED BY <1>5, <2>1
<1>7. ASSUME NEW k \in 1 .. n PROVE G[1 .. k] = Step(G[1 .. (k - 1)], exe[k])
  <2>1. Max(1 .. k) = k
    BY <1>0, MaxOfPrefix
  <2>2. (1 .. k) \ {k} = 1 .. (k - 1) /\ 1 .. k \in SUBSET (1 .. n) /\ 1 .. k # {}
    BY <1>0, PrefixSets
  <2>3. G[1 .. k] = Step(G[(1 .. k) \ {Max(1 .. k)}], exe[Max(1 .. k)])
    BY <1>5, <2>2
  <2> QED BY <2>1, <2>2, <2>3
<1> DEFINE r == [k \in 0 .. n |-> G[1 .. k]]
<1>8. r[0] = w /\ r[n] = G[1 .. n]
  BY <1>0, <1>6
<1>9. ASSUME NEW k \in 1 .. n PROVE r[k] = Step(r[k - 1], exe[k])
  <2>1. r[k] = G[1 .. k] /\ r[k - 1] = G[1 .. (k - 1)]
    BY <1>0
  <2> HIDE DEF r
  <2> QED BY <1>7, <2>1
<1> HIDE DEF r
<1>10. \A k \in 1 .. n : r[k] = LoadSegment(r[k - 1], exe[k])
  BY <1>9 DEF Step
<1>11. IsLoadRun(r, w, exe, n)
  BY <1>1, <1>8, <1>10 DEF IsLoadRun
<1> QED BY <1>11

\* The run of map_user_init_stack over the pages of the stack.
IsStackRun(r, w, frame, n) ==
  /\ r[0] = w
  /\ \A k \in 1 .. n : r[k] = map_user_page(r[k - 1], Upwards(StackTop - UserStackPages, StackTop)[k], frame + Upwards(StackTop - UserStackPages, StackTop)[k] - (StackTop - UserStackPages), TRUE)
  /\ MapStack(w, frame) = r[n]

LEMMA StackRun ==
  ASSUME NEW w, NEW frame, NEW n \in Nat,
         DOMAIN Upwards(StackTop - UserStackPages, StackTop) = 1 .. n
  PROVE  \E r : IsStackRun(r, w, frame, n)
<1> DEFINE Step(v, x) == map_user_page(v, x, frame + x - (StackTop - UserStackPages), TRUE)
           Val(g, z) == IF z = {} THEN w ELSE Step(g[z \ {Max(z)}], Upwards(StackTop - UserStackPages, StackTop)[Max(z)])
           Eq(g, m) == g = [z \in SUBSET (1 .. m) |-> Val(g, z)]
           T == {m \in 0 .. n : \E g : Eq(g, m)}
           G == CHOOSE g : Eq(g, n)
<1>0. n \in Nat
  OBVIOUS
<1>1. MapStack(w, frame) = G[1 .. n]
  BY <1>0 DEF MapStack, FoldLeft, MapThenFoldSet
<1> HIDE DEF Step
<1>2. 0 \in T
  <2>1. Eq([z \in {{}} |-> w], 0)
    <3>1. 1 .. 0 = {} /\ SUBSET {} = {{}}
      OBVIOUS
    <3> QED BY <3>1
  <2> HIDE DEF Eq
  <2> QED BY <1>0, <2>1
<1>3. ASSUME NEW k \in 1 .. n, k - 1 \in T PROVE k \in T
  <2>1. PICK g : Eq(g, k - 1)
    BY <1>3
  <2> DEFINE h == [z \in SUBSET (1 .. k) |-> IF k \in z THEN Step(g[z \ {k}], Upwards(StackTop - UserStackPages, StackTop)[k]) ELSE g[z]]
  <2>2. ASSUME NEW z \in SUBSET (1 .. k) PROVE h[z] = Val(h, z)
    <3>1. CASE k \in z
      <4>1. Max(z) = k
        BY <1>0, <3>1, MaxOfPrefix
      <4>2. z \ {k} \in SUBSET (1 .. k) /\ k \notin z \ {k}
        OBVIOUS
      <4>3. h[z \ {k}] = g[z \ {k}] /\ h[z] = Step(g[z \ {k}], Upwards(StackTop - UserStackPages, StackTop)[k])
        BY <3>1, <4>2
      <4> HIDE DEF h
      <4> QED BY <3>1, <4>1, <4>3
    <3>2. CASE k \notin z
      <4>1. z \in SUBSET (1 .. (k - 1))
        BY <1>0, <3>2
      <4>2. z \ {Max(z)} \in SUBSET (1 .. k) /\ k \notin z \ {Max(z)}
        BY <3>2
      <4>3. h[z] = g[z] /\ h[z \ {Max(z)}] = g[z \ {Max(z)}]
        BY <3>2, <4>2
      <4>4. g[z] = Val(g, z)
        BY <2>1, <4>1
      <4> HIDE DEF h
      <4> QED BY <4>3, <4>4
    <3> QED BY <3>1, <3>2
  <2>3. Eq(h, k)
    <3>1. h = [z \in SUBSET (1 .. k) |-> h[z]]
      OBVIOUS
    <3> HIDE DEF h, Val
    <3> QED BY <3>1, <2>2
  <2> HIDE DEF Eq, h
  <2> QED BY <1>0, <2>3
<1>4. \A k \in 0 .. n : k \in T
  <2> HIDE DEF T
  <2> QED BY <1>0, <1>2, <1>3, CountUp
<1>5. Eq(G, n)
  <2> HIDE DEF Eq
  <2>1. \E g : Eq(g, n)
    BY <1>0, <1>4
  <2> QED BY <2>1
<1> HIDE DEF G
<1>6. G[1 .. 0] = w
  <2>1. 1 .. 0 = {} /\ {} \in SUBSET (1 .. n)
    OBVIOUS
  <2> QED BY <1>5, <2>1
<1>7. ASSUME NEW k \in 1 .. n PROVE G[1 .. k] = Step(G[1 .. (k - 1)], Upwards(StackTop - UserStackPages, StackTop)[k])
  <2>1. Max(1 .. k) = k
    BY <1>0, MaxOfPrefix
  <2>2. (1 .. k) \ {k} = 1 .. (k - 1) /\ 1 .. k \in SUBSET (1 .. n) /\ 1 .. k # {}
    BY <1>0, PrefixSets
  <2>3. G[1 .. k] = Step(G[(1 .. k) \ {Max(1 .. k)}], Upwards(StackTop - UserStackPages, StackTop)[Max(1 .. k)])
    BY <1>5, <2>2
  <2> QED BY <2>1, <2>2, <2>3
<1> DEFINE r == [k \in 0 .. n |-> G[1 .. k]]
<1>8. r[0] = w /\ r[n] = G[1 .. n]
  BY <1>0, <1>6
<1>9. ASSUME NEW k \in 1 .. n PROVE r[k] = Step(r[k - 1], Upwards(StackTop - UserStackPages, StackTop)[k])
  <2>1. r[k] = G[1 .. k] /\ r[k - 1] = G[1 .. (k - 1)]
    BY <1>0
  <2> HIDE DEF r
  <2> QED BY <1>7, <2>1
<1> HIDE DEF r
<1>10. \A k \in 1 .. n : r[k] = map_user_page(r[k - 1], Upwards(StackTop - UserStackPages, StackTop)[k], frame + Upwards(StackTop - UserStackPages, StackTop)[k] - (StackTop - UserStackPages), TRUE)
  BY <1>9 DEF Step
<1>11. IsStackRun(r, w, frame, n)
  BY <1>1, <1>8, <1>10 DEF IsStackRun
<1> QED BY <1>11

\* One step of clone_user_page_table: a table, or a page with its content.
CopyOne(v, src, x) ==
  LET t == IF src.tables[x] = None THEN v ELSE WithTable(v, x)
  IN  IF x \notin Mapped(src) THEN t
      ELSE NewPage(t, x, t.data[src.map[x].frame], src.map[x].write)

\* The run of clone_user_page_table over tables and pages.
IsCopyRun(r, w, src, n) ==
  /\ r[0] = create_empty_process_page_table(w)
  /\ \A k \in 1 .. n : r[k] = CopyOne(r[k - 1], src, Upwards(Top, NumPages)[k])
  /\ clone_user_page_table(w, src) = r[n]

LEMMA CopyRun ==
  ASSUME NEW w, NEW src, NEW n \in Nat, DOMAIN Upwards(Top, NumPages) = 1 .. n
  PROVE  \E r : IsCopyRun(r, w, src, n)
<1> DEFINE Step(v, x) == CopyOne(v, src, x)
           Val(g, z) == IF z = {} THEN create_empty_process_page_table(w) ELSE Step(g[z \ {Max(z)}], Upwards(Top, NumPages)[Max(z)])
           Eq(g, m) == g = [z \in SUBSET (1 .. m) |-> Val(g, z)]
           T == {m \in 0 .. n : \E g : Eq(g, m)}
           G == CHOOSE g : Eq(g, n)
<1>0. n \in Nat
  OBVIOUS
<1>1. clone_user_page_table(w, src) = G[1 .. n]
  BY <1>0 DEF clone_user_page_table, CopyOne, FoldLeft, MapThenFoldSet
<1> HIDE DEF Step
<1>2. 0 \in T
  <2>1. Eq([z \in {{}} |-> create_empty_process_page_table(w)], 0)
    <3>1. 1 .. 0 = {} /\ SUBSET {} = {{}}
      OBVIOUS
    <3> QED BY <3>1
  <2> HIDE DEF Eq
  <2> QED BY <1>0, <2>1
<1>3. ASSUME NEW k \in 1 .. n, k - 1 \in T PROVE k \in T
  <2>1. PICK g : Eq(g, k - 1)
    BY <1>3
  <2> DEFINE h == [z \in SUBSET (1 .. k) |-> IF k \in z THEN Step(g[z \ {k}], Upwards(Top, NumPages)[k]) ELSE g[z]]
  <2>2. ASSUME NEW z \in SUBSET (1 .. k) PROVE h[z] = Val(h, z)
    <3>1. CASE k \in z
      <4>1. Max(z) = k
        BY <1>0, <3>1, MaxOfPrefix
      <4>2. z \ {k} \in SUBSET (1 .. k) /\ k \notin z \ {k}
        OBVIOUS
      <4>3. h[z \ {k}] = g[z \ {k}] /\ h[z] = Step(g[z \ {k}], Upwards(Top, NumPages)[k])
        BY <3>1, <4>2
      <4> HIDE DEF h
      <4> QED BY <3>1, <4>1, <4>3
    <3>2. CASE k \notin z
      <4>1. z \in SUBSET (1 .. (k - 1))
        BY <1>0, <3>2
      <4>2. z \ {Max(z)} \in SUBSET (1 .. k) /\ k \notin z \ {Max(z)}
        BY <3>2
      <4>3. h[z] = g[z] /\ h[z \ {Max(z)}] = g[z \ {Max(z)}]
        BY <3>2, <4>2
      <4>4. g[z] = Val(g, z)
        BY <2>1, <4>1
      <4> HIDE DEF h
      <4> QED BY <4>3, <4>4
    <3> QED BY <3>1, <3>2
  <2>3. Eq(h, k)
    <3>1. h = [z \in SUBSET (1 .. k) |-> h[z]]
      OBVIOUS
    <3> HIDE DEF h, Val
    <3> QED BY <3>1, <2>2
  <2> HIDE DEF Eq, h
  <2> QED BY <1>0, <2>3
<1>4. \A k \in 0 .. n : k \in T
  <2> HIDE DEF T
  <2> QED BY <1>0, <1>2, <1>3, CountUp
<1>5. Eq(G, n)
  <2> HIDE DEF Eq
  <2>1. \E g : Eq(g, n)
    BY <1>0, <1>4
  <2> QED BY <2>1
<1> HIDE DEF G
<1>6. G[1 .. 0] = create_empty_process_page_table(w)
  <2>1. 1 .. 0 = {} /\ {} \in SUBSET (1 .. n)
    OBVIOUS
  <2> QED BY <1>5, <2>1
<1>7. ASSUME NEW k \in 1 .. n PROVE G[1 .. k] = Step(G[1 .. (k - 1)], Upwards(Top, NumPages)[k])
  <2>1. Max(1 .. k) = k
    BY <1>0, MaxOfPrefix
  <2>2. (1 .. k) \ {k} = 1 .. (k - 1) /\ 1 .. k \in SUBSET (1 .. n) /\ 1 .. k # {}
    BY <1>0, PrefixSets
  <2>3. G[1 .. k] = Step(G[(1 .. k) \ {Max(1 .. k)}], Upwards(Top, NumPages)[Max(1 .. k)])
    BY <1>5, <2>2
  <2> QED BY <2>1, <2>2, <2>3
<1> DEFINE r == [k \in 0 .. n |-> G[1 .. k]]
<1>8. r[0] = create_empty_process_page_table(w) /\ r[n] = G[1 .. n]
  BY <1>0, <1>6
<1>9. ASSUME NEW k \in 1 .. n PROVE r[k] = Step(r[k - 1], Upwards(Top, NumPages)[k])
  <2>1. r[k] = G[1 .. k] /\ r[k - 1] = G[1 .. (k - 1)]
    BY <1>0
  <2> HIDE DEF r
  <2> QED BY <1>7, <2>1
<1> HIDE DEF r
<1>10. \A k \in 1 .. n : r[k] = CopyOne(r[k - 1], src, Upwards(Top, NumPages)[k])
  BY <1>9 DEF Step
<1>11. IsCopyRun(r, w, src, n)
  BY <1>1, <1>8, <1>10 DEF IsCopyRun
<1> QED BY <1>11

\* The run of setup_abi_stack over the strings.
IsPutRun(r, strings, top, n) ==
  /\ r[0] = [ok |-> TRUE, off |-> top, strings |-> <<>>, table |-> 0]
  /\ \A k \in 1 .. n : r[k] = PutString(r[k - 1], strings[k])
  /\ PutStrings(strings, top) = r[n]

LEMMA PutRun ==
  ASSUME NEW strings, NEW top, NEW n \in Nat, DOMAIN strings = 1 .. n
  PROVE  \E r : IsPutRun(r, strings, top, n)
<1> DEFINE Step(v, x) == PutString(v, x)
           Val(g, z) == IF z = {} THEN [ok |-> TRUE, off |-> top, strings |-> <<>>, table |-> 0] ELSE Step(g[z \ {Max(z)}], strings[Max(z)])
           Eq(g, m) == g = [z \in SUBSET (1 .. m) |-> Val(g, z)]
           T == {m \in 0 .. n : \E g : Eq(g, m)}
           G == CHOOSE g : Eq(g, n)
<1>0. n \in Nat
  OBVIOUS
<1>1. PutStrings(strings, top) = G[1 .. n]
  BY <1>0 DEF PutStrings, FoldLeft, MapThenFoldSet
<1> HIDE DEF Step
<1>2. 0 \in T
  <2>1. Eq([z \in {{}} |-> [ok |-> TRUE, off |-> top, strings |-> <<>>, table |-> 0]], 0)
    <3>1. 1 .. 0 = {} /\ SUBSET {} = {{}}
      OBVIOUS
    <3> QED BY <3>1
  <2> HIDE DEF Eq
  <2> QED BY <1>0, <2>1
<1>3. ASSUME NEW k \in 1 .. n, k - 1 \in T PROVE k \in T
  <2>1. PICK g : Eq(g, k - 1)
    BY <1>3
  <2> DEFINE h == [z \in SUBSET (1 .. k) |-> IF k \in z THEN Step(g[z \ {k}], strings[k]) ELSE g[z]]
  <2>2. ASSUME NEW z \in SUBSET (1 .. k) PROVE h[z] = Val(h, z)
    <3>1. CASE k \in z
      <4>1. Max(z) = k
        BY <1>0, <3>1, MaxOfPrefix
      <4>2. z \ {k} \in SUBSET (1 .. k) /\ k \notin z \ {k}
        OBVIOUS
      <4>3. h[z \ {k}] = g[z \ {k}] /\ h[z] = Step(g[z \ {k}], strings[k])
        BY <3>1, <4>2
      <4> HIDE DEF h
      <4> QED BY <3>1, <4>1, <4>3
    <3>2. CASE k \notin z
      <4>1. z \in SUBSET (1 .. (k - 1))
        BY <1>0, <3>2
      <4>2. z \ {Max(z)} \in SUBSET (1 .. k) /\ k \notin z \ {Max(z)}
        BY <3>2
      <4>3. h[z] = g[z] /\ h[z \ {Max(z)}] = g[z \ {Max(z)}]
        BY <3>2, <4>2
      <4>4. g[z] = Val(g, z)
        BY <2>1, <4>1
      <4> HIDE DEF h
      <4> QED BY <4>3, <4>4
    <3> QED BY <3>1, <3>2
  <2>3. Eq(h, k)
    <3>1. h = [z \in SUBSET (1 .. k) |-> h[z]]
      OBVIOUS
    <3> HIDE DEF h, Val
    <3> QED BY <3>1, <2>2
  <2> HIDE DEF Eq, h
  <2> QED BY <1>0, <2>3
<1>4. \A k \in 0 .. n : k \in T
  <2> HIDE DEF T
  <2> QED BY <1>0, <1>2, <1>3, CountUp
<1>5. Eq(G, n)
  <2> HIDE DEF Eq
  <2>1. \E g : Eq(g, n)
    BY <1>0, <1>4
  <2> QED BY <2>1
<1> HIDE DEF G
<1>6. G[1 .. 0] = [ok |-> TRUE, off |-> top, strings |-> <<>>, table |-> 0]
  <2>1. 1 .. 0 = {} /\ {} \in SUBSET (1 .. n)
    OBVIOUS
  <2> QED BY <1>5, <2>1
<1>7. ASSUME NEW k \in 1 .. n PROVE G[1 .. k] = Step(G[1 .. (k - 1)], strings[k])
  <2>1. Max(1 .. k) = k
    BY <1>0, MaxOfPrefix
  <2>2. (1 .. k) \ {k} = 1 .. (k - 1) /\ 1 .. k \in SUBSET (1 .. n) /\ 1 .. k # {}
    BY <1>0, PrefixSets
  <2>3. G[1 .. k] = Step(G[(1 .. k) \ {Max(1 .. k)}], strings[Max(1 .. k)])
    BY <1>5, <2>2
  <2> QED BY <2>1, <2>2, <2>3
<1> DEFINE r == [k \in 0 .. n |-> G[1 .. k]]
<1>8. r[0] = [ok |-> TRUE, off |-> top, strings |-> <<>>, table |-> 0] /\ r[n] = G[1 .. n]
  BY <1>0, <1>6
<1>9. ASSUME NEW k \in 1 .. n PROVE r[k] = Step(r[k - 1], strings[k])
  <2>1. r[k] = G[1 .. k] /\ r[k - 1] = G[1 .. (k - 1)]
    BY <1>0
  <2> HIDE DEF r
  <2> QED BY <1>7, <2>1
<1> HIDE DEF r
<1>10. \A k \in 1 .. n : r[k] = PutString(r[k - 1], strings[k])
  BY <1>9 DEF Step
<1>11. IsPutRun(r, strings, top, n)
  BY <1>1, <1>8, <1>10 DEF IsPutRun
<1> QED BY <1>11

\* After a failure the steps do nothing.
LEMMA FailedStays ==
  ASSUME NEW w, ~w.ok
  PROVE  /\ \A n : alloc_pages(w, n) = w
         /\ \A t : WithTable(w, t) = w
         /\ \A page, frame, write : map_user_page(w, page, frame, write) = w
         /\ \A page, content, write : NewPage(w, page, content, write) = w
<1>1. \A n : alloc_pages(w, n) = w
  BY DEF alloc_pages
<1>2. \A t : WithTable(w, t) = w
  BY DEF WithTable
<1>3. \A page, frame, write : map_user_page(w, page, frame, write) = w
  BY DEF map_user_page
<1>4. \A content : Fill(w, content) = w
  BY DEF Fill
<1>5. \A page, content, write : NewPage(w, page, content, write) = w
  BY <1>1, <1>3, <1>4 DEF NewPage
<1> QED BY <1>1, <1>2, <1>3, <1>5

\* brk and mmap: each page shows what it showed, or is new and clear.
LEMMA FreshPagesShown ==
  ASSUME NEW w, Building(w), NEW lo \in Nat, NEW hi \in Int, hi <= NumPages, NEW write \in BOOLEAN
  PROVE  LET v == FreshPages(w, lo, hi, write) IN
         /\ Builds(w, v)
         /\ \A q \in Pages : Shown(v, q) \in {Shown(w, q), Zero}
<1>0. lo \in Int
  OBVIOUS
<1>1. PICK n \in Nat : Rounds(lo, hi, n)
  BY <1>0, UpwardsSeq
<1>2. PICK r : IsFreshRun(r, w, lo, hi, write, n)
  BY <1>1, FreshRun DEF Rounds
<1> DEFINE Good(v) == Builds(w, v) /\ \A q \in Pages : Shown(v, q) \in {Shown(w, q), Zero}
           T == {k \in 0 .. n : Good(r[k])}
<1>3. 0 \in T
  BY <1>2, BuildsNothing DEF IsFreshRun
<1>4. ASSUME NEW k \in 1 .. n, k - 1 \in T PROVE k \in T
  <2> DEFINE v == r[k - 1]
             page == lo + k - 1
  <2>1. r[k] = NewPage(v, page, Zero, write)
    BY <1>1, <1>2 DEF IsFreshRun, Rounds
  <2>2. page \in Pages
    BY <1>1, Constants DEF Pages, Rounds
  <2>3. Builds(w, v) /\ \A q \in Pages : Shown(v, q) \in {Shown(w, q), Zero}
    BY <1>4
  <2>4. Building(v) /\ Zero \in Contents
    BY <2>3, BuildsOn, ContentsPresent
  <2> HIDE DEF v, page
  <2>5. /\ Builds(v, r[k])
        /\ \A q \in Pages : Shown(r[k], q) = IF r[k].ok /\ q = page THEN Zero ELSE Shown(v, q)
    BY <2>1, <2>2, <2>4, NewPageShown
  <2>6. Good(r[k])
    BY <2>3, <2>5, BuildsTwice
  <2> QED BY <2>6
<1>5. n \in T
  <2> HIDE DEF T
  <2>1. \A k \in 0 .. n : k \in T
    BY <1>3, <1>4, CountUp
  <2> QED BY <2>1
<1> QED BY <1>2, <1>5 DEF IsFreshRun

\* A new page table shows nothing.
LEMMA EmptyTableBuilds ==
  ASSUME NEW w \in Works
  PROVE  LET v == create_empty_process_page_table(w) IN
         /\ Grows(w, v) /\ v.data = w.data
         /\ v.ok => /\ Building(v) /\ FramesIn(v.pt) \subseteq v.used \ w.used
                    /\ \A q \in Pages : Shown(v, q) = Absent
         /\ ~w.ok => ~v.ok
<1> DEFINE a == alloc_pages(w, 1)
           v == create_empty_process_page_table(w)
           pt == [EmptyTable EXCEPT !.root = a.got]
<1>1. v = [a EXCEPT !.pt = pt]
  BY DEF create_empty_process_page_table
<1>2. /\ a \in Works /\ (~w.ok => a = w) /\ (~a.ok => a = [w EXCEPT !.ok = FALSE])
      /\ a.ok => /\ w.ok /\ a.got \in Frames \ w.used
                 /\ a = [w EXCEPT !.used = @ \cup {a.got}, !.got = a.got]
  BY AllocPage
<1> HIDE DEF a, v
<1>3. /\ pt.root = a.got /\ pt.tables = [t \in {Top, Mid} \cup Pages |-> None]
      /\ pt.map = [page \in Pages |-> NoPage] /\ pt = [root |-> pt.root, tables |-> pt.tables, map |-> pt.map]
  BY DEF EmptyTable
<1>4. a.got \in FrameOrNone
  BY <1>2 DEF Works
<1>5. pt \in PageTables
  <2>1. NoPage \in Entries
    BY FramesAreNat DEF NoPage, Entries
  <2>2. pt.tables \in [TableIds -> FrameOrNone]
    BY <1>3, FramesAreNat DEF TableIds
  <2>3. pt.map \in [Pages -> Entries]
    BY <1>3, <2>1
  <2> HIDE DEF pt
  <2> QED BY <1>3, <1>4, <2>2, <2>3 DEF PageTables
<1> HIDE DEF pt
<1>6. /\ v \in Works /\ v.ok = a.ok /\ v.used = a.used /\ v.data = a.data /\ v.guards = a.guards
      /\ v.split = a.split /\ v.pt = pt
  BY <1>1, <1>2, <1>5 DEF Works
<1>7. /\ w.used \subseteq a.used /\ a.data = w.data /\ a.guards = w.guards /\ a.split = w.split
      /\ (a.ok => w.ok /\ a.used = w.used \cup {a.got})
  BY <1>2 DEF Works
<1>8. Grows(w, v)
  BY <1>6, <1>7 DEF Grows, Untouched
<1>9. ASSUME v.ok
      PROVE  /\ Building(v) /\ FramesIn(v.pt) \subseteq v.used \ w.used
             /\ \A q \in Pages : Shown(v, q) = Absent
  <2>1. TablesIn(pt) = {} /\ Mapped(pt) = {}
    BY <1>3 DEF TablesIn, Mapped
  <2>2. FramesIn(pt) = {a.got}
    BY <1>3, <2>1 DEF FramesIn
  <2>3. a.ok /\ a.got \in Frames \ w.used /\ a.used = w.used \cup {a.got}
    BY <1>2, <1>6, <1>7, <1>9
  <2>4. PtSound(pt)
    BY <1>3, <1>5, <2>1, <2>3 DEF PtSound
  <2>5. \A q \in Pages : Shown(v, q) = Absent
    BY <1>3, <1>6 DEF Shown
  <2> QED BY <1>6, <2>2, <2>3, <2>4, <2>5 DEF Building
<1>10. v.ok => w.ok
  BY <1>6, <1>7
<1> QED BY <1>6, <1>7, <1>8, <1>9, <1>10 DEF v

\* One page of the copy has the content of the original.
LEMMA CopyOneShown ==
  ASSUME NEW v, Building(v), NEW src, PtSound(src), FramesIn(src) \subseteq v.used, NEW x \in TableIds
  PROVE  LET u == CopyOne(v, src, x) IN
         /\ Builds(v, u)
         /\ \A q \in Pages : Shown(u, q) = IF u.ok /\ q = x /\ x \in Mapped(src)
                                           THEN v.data[src.map[x].frame] ELSE Shown(v, q)
<1> DEFINE t == IF src.tables[x] = None THEN v ELSE WithTable(v, x)
           u == CopyOne(v, src, x)
<1>1. Builds(v, t) /\ t.data = v.data /\ t.pt.map = v.pt.map
  <2>1. Builds(v, v)
    BY BuildsNothing
  <2>2. LET y == WithTable(v, x) IN Builds(v, y) /\ y.data = v.data /\ y.pt.map = v.pt.map
    BY WithTableBuilds
  <2> QED BY <2>1, <2>2
<1>2. u = IF x \notin Mapped(src) THEN t ELSE NewPage(t, x, t.data[src.map[x].frame], src.map[x].write)
  BY DEF CopyOne
<1> HIDE DEF t, u
<1>3. \A q \in Pages : Shown(t, q) = Shown(v, q)
  BY <1>1, ShownKept DEF Builds
<1>4. CASE x \notin Mapped(src)
  <2>1. u = t
    BY <1>2, <1>4
  <2> QED BY <1>1, <1>3, <1>4, <2>1 DEF u
<1>5. CASE x \in Mapped(src)
  <2> DEFINE content == t.data[src.map[x].frame]
  <2>1. u = NewPage(t, x, content, src.map[x].write)
    BY <1>2, <1>5
  <2>2. Building(t)
    BY <1>1, BuildsOn
  <2>3. x \in Pages /\ src.map[x].frame \in Frames /\ src.map[x].write \in BOOLEAN
    BY <1>5 DEF Mapped, PtSound, PageTables, Entries
  <2>4. content \in Contents
    BY <2>2, <2>3 DEF Building, Works
  <2>5. content = v.data[src.map[x].frame]
    BY <1>1
  <2> HIDE DEF content
  <2>6. /\ Builds(t, u)
        /\ \A q \in Pages : Shown(u, q) = IF u.ok /\ q = x THEN content ELSE Shown(t, q)
    BY <2>1, <2>2, <2>3, <2>4, NewPageShown
  <2>7. Builds(v, u)
    BY <1>1, <2>6, BuildsTwice
  <2> QED BY <1>3, <1>5, <2>5, <2>6, <2>7 DEF u
<1> QED BY <1>4, <1>5

LEMMA CopyOneFailed ==
  ASSUME NEW v, ~v.ok, NEW src, NEW x
  PROVE  CopyOne(v, src, x) = v
  BY FailedStays DEF CopyOne

\* fork: the copy shows what the original shows, in frames of its own.
LEMMA CloneShown ==
  ASSUME NEW w \in Works, NEW src, PtSound(src), FramesIn(src) \subseteq w.used
  PROVE  LET v == clone_user_page_table(w, src) IN
         /\ Grows(w, v)
         /\ v.ok => /\ PtSound(v.pt) /\ FramesIn(v.pt) \subseteq v.used \ w.used
                    /\ \A q \in Pages : Shown(v, q) = IF src.map[q] = NoPage THEN Absent
                                                      ELSE w.data[src.map[q].frame]
         /\ ~w.ok => ~v.ok
<1> DEFINE e == create_empty_process_page_table(w)
           v == clone_user_page_table(w, src)
<1>1. Top \in Int /\ NumPages \in Int /\ NumPages >= Top
  BY Constants DEF Top
<1>2. PICK n \in Nat : Rounds(Top, NumPages, n)
  BY <1>1, UpwardsSeq
<1>3. PICK r : IsCopyRun(r, w, src, n)
  BY <1>2, CopyRun DEF Rounds
<1>4. /\ Grows(w, e) /\ e.data = w.data
      /\ e.ok => /\ Building(e) /\ FramesIn(e.pt) \subseteq e.used \ w.used
                 /\ \A q \in Pages : Shown(e, q) = Absent
      /\ ~w.ok => ~e.ok
  BY EmptyTableBuilds
<1>5. r[0] = e /\ v = r[n] /\ \A k \in 1 .. n : r[k] = CopyOne(r[k - 1], src, Top + k - 1)
  BY <1>2, <1>3 DEF IsCopyRun, Rounds
<1> HIDE DEF e, v
<1>6. CASE ~e.ok
  <2> DEFINE T == {k \in 0 .. n : r[k] = e}
  <2>1. 0 \in T
    BY <1>5
  <2>2. ASSUME NEW k \in 1 .. n, k - 1 \in T PROVE k \in T
    BY <1>5, <1>6, <2>2, CopyOneFailed
  <2>3. n \in T
    <3> HIDE DEF T
    <3>1. \A k \in 0 .. n : k \in T
      BY <2>1, <2>2, CountUp
    <3> QED BY <3>1
  <2>4. v = e
    BY <1>5, <2>3
  <2> QED BY <1>4, <1>6, <2>4 DEF v
<1>7. CASE e.ok
  <2> DEFINE Orig(q) == IF src.map[q] = NoPage THEN Absent ELSE w.data[src.map[q].frame]
             Good(k) == /\ Builds(e, r[k])
                        /\ r[k].ok => \A q \in Pages : Shown(r[k], q) = IF q < Top + k THEN Orig(q) ELSE Absent
             T == {k \in 0 .. n : Good(k)}
  <2>0. Building(e) /\ w.used \subseteq e.used
    BY <1>4, <1>7 DEF Grows
  <2>1. 0 \in T
    <3>1. \A q \in Pages : ~(q < Top + 0)
      BY FramesAreNat DEF Top
    <3> QED BY <1>4, <1>5, <1>7, <2>0, <3>1, BuildsNothing
  <2>2. ASSUME NEW k \in 1 .. n, k - 1 \in T PROVE k \in T
    <3> DEFINE x == Top + k - 1
    <3>1. Good(k - 1)
      BY <2>2
    <3>2. x \in TableIds /\ x \in Int
      BY <1>2, Constants DEF TableIds, Top, Mid, Pages, Rounds
    <3>3. Building(r[k - 1])
      BY <2>0, <3>1, BuildsOn
    <3>4. FramesIn(src) \subseteq r[k - 1].used
      BY <2>0, <3>1 DEF Builds, Grows
    <3>5. r[k] = CopyOne(r[k - 1], src, x)
      BY <1>5
    <3> HIDE DEF x
    <3>6. /\ Builds(r[k - 1], r[k])
          /\ \A q \in Pages : Shown(r[k], q) = IF r[k].ok /\ q = x /\ x \in Mapped(src)
                                               THEN r[k - 1].data[src.map[x].frame] ELSE Shown(r[k - 1], q)
      BY <3>2, <3>3, <3>4, <3>5, CopyOneShown
    <3>7. Builds(e, r[k])
      BY <3>1, <3>6, BuildsTwice
    <3>8. ASSUME r[k].ok, NEW q \in Pages
          PROVE  Shown(r[k], q) = IF q < Top + k THEN Orig(q) ELSE Absent
      <4>1. r[k - 1].ok
        BY <3>6, <3>8 DEF Builds, Grows
      <4>2. CASE q # x
        <5>1. q < Top + k <=> q < Top + (k - 1)
          BY <4>2, FramesAreNat DEF x, Top
        <5> QED BY <3>1, <3>6, <4>1, <4>2, <5>1
      <4>3. CASE q = x
        <5>1. q < Top + k /\ ~(q < Top + (k - 1))
          BY <4>3, FramesAreNat DEF x, Top
        <5>2. CASE x \in Mapped(src)
          <6>1. src.map[x] # NoPage
            BY <5>2 DEF Mapped
          <6>2. src.map[x].frame \in w.used
            BY <5>2 DEF FramesIn
          <6>3. r[k - 1].data[src.map[x].frame] = w.data[src.map[x].frame]
            BY <1>4, <2>0, <3>1, <6>2 DEF Builds, Grows
          <6> QED BY <3>6, <3>8, <4>3, <5>1, <5>2, <6>1, <6>3
        <5>3. CASE x \notin Mapped(src)
          <6>1. src.map[x] = NoPage
            BY <4>3, <5>3 DEF Mapped
          <6> QED BY <3>1, <3>6, <4>1, <4>3, <5>1, <5>3, <6>1
        <5> QED BY <5>2, <5>3
      <4> QED BY <4>2, <4>3
    <3> QED BY <3>7, <3>8
  <2>3. n \in T
    <3> HIDE DEF T
    <3>1. \A k \in 0 .. n : k \in T
      BY <2>1, <2>2, CountUp
    <3> QED BY <3>1
  <2>4. Builds(e, v)
    BY <1>5, <2>3
  <2>5. Grows(w, v)
    BY <1>4, <2>4, GrowsTwice DEF Builds
  <2>6. ASSUME v.ok
        PROVE  /\ PtSound(v.pt) /\ FramesIn(v.pt) \subseteq v.used \ w.used
               /\ \A q \in Pages : Shown(v, q) = Orig(q)
    <3>1. FramesIn(v.pt) \subseteq v.used \ w.used
      BY <1>4, <1>7, <2>0, <2>4 DEF Builds, Grows
    <3>2. \A q \in Pages : q < Top + n
      BY <1>2, Constants DEF Pages, Top, Rounds
    <3> QED BY <1>5, <2>3, <2>4, <2>6, <3>1, <3>2 DEF Builds
  <2>7. w.ok
    BY <1>4, <1>7
  <2> QED BY <2>5, <2>6, <2>7 DEF v
<1> QED BY <1>6, <1>7

-----------------------------------------------------------------------------
(***************************************************************************)
(* Loading a program                                                       *)
(***************************************************************************)
LEMMA WholePages ==
  ASSUME NEW x \in Nat
  PROVE  PageOf(x) \in Nat /\ PagesUpTo(x) \in Nat
<1>1. x + PageSize - 1 \in Nat
  BY Constants
<1>2. \A y \in Nat : y \div PageSize \in Nat
  BY Constants
<1> QED BY <1>1, <1>2 DEF PageOf, PagesUpTo

LEMMA SegmentTyped ==
  ASSUME NEW s \in Segments
  PROVE  /\ PageOf(s.va) \in Nat /\ PagesUpTo(s.va + s.memsz) \in Nat /\ s.write \in BOOLEAN
         /\ \A page : SegContent(s, page) \in Contents
<1>1. s.va \in Nat /\ s.memsz \in Nat /\ s.va + s.memsz \in Nat /\ s.write \in BOOLEAN
  BY DEF Segments
<1> QED BY <1>1, WholePages, ContentsPresent DEF SegContent

\* The segment's pages show its content, and the others what they showed.
LEMMA SegmentShown ==
  ASSUME NEW w, Building(w), NEW s \in Segments, PagesUpTo(s.va + s.memsz) <= NumPages
  PROVE  LET v == LoadSegment(w, s) IN
         /\ Builds(w, v)
         /\ v.ok => \A q \in Pages : Shown(v, q) = IF q \in SegPages(s) THEN SegContent(s, q) ELSE Shown(w, q)
<1> DEFINE lo == PageOf(s.va)
           hi == PagesUpTo(s.va + s.memsz)
           v == LoadSegment(w, s)
<1>1. lo \in Nat /\ hi \in Nat /\ lo \in Int /\ hi \in Int /\ s.write \in BOOLEAN /\ hi <= NumPages
  BY SegmentTyped
<1>2. \A page : SegContent(s, page) \in Contents
  BY SegmentTyped
<1>3. PICK n \in Nat : Rounds(lo, hi, n)
  BY <1>1, UpwardsSeq
<1>4. PICK r : IsSegmentRun(r, w, s, n)
  BY <1>3, SegmentRun DEF Rounds
<1>5. r[0] = w /\ v = r[n] /\ \A k \in 1 .. n : r[k] = NewPage(r[k - 1], lo + k - 1, SegContent(s, lo + k - 1), s.write)
  BY <1>3, <1>4 DEF IsSegmentRun, Rounds
<1>6. SegPages(s) = lo .. hi - 1
  BY DEF SegPages
<1> HIDE DEF v, lo, hi
<1> DEFINE Good(k) == /\ Builds(w, r[k])
                      /\ r[k].ok => \A q \in Pages :
                           Shown(r[k], q) = IF q \in lo .. lo + k - 1 THEN SegContent(s, q) ELSE Shown(w, q)
           T == {k \in 0 .. n : Good(k)}
<1>7. 0 \in T
  <2>1. \A q : q \notin lo .. lo + 0 - 1
    BY <1>1
  <2> QED BY <1>5, <2>1, BuildsNothing
<1>8. ASSUME NEW k \in 1 .. n, k - 1 \in T PROVE k \in T
  <2> DEFINE x == lo + k - 1
  <2>1. Good(k - 1)
    BY <1>8
  <2>2. x \in Pages /\ x \in Int
    BY <1>1, <1>3, Constants DEF Pages, Rounds
  <2>3. Building(r[k - 1])
    BY <2>1, BuildsOn
  <2>4. r[k] = NewPage(r[k - 1], x, SegContent(s, x), s.write)
    BY <1>5
  <2>5. lo + (k - 1) - 1 = x - 1 /\ lo + k - 1 = x /\ lo <= x
    BY <1>1
  <2> HIDE DEF x
  <2>6. /\ Builds(r[k - 1], r[k])
        /\ \A q \in Pages : Shown(r[k], q) = IF r[k].ok /\ q = x THEN SegContent(s, x) ELSE Shown(r[k - 1], q)
    BY <1>1, <1>2, <2>2, <2>3, <2>4, NewPageShown
  <2>7. Builds(w, r[k])
    BY <2>1, <2>6, BuildsTwice
  <2>8. ASSUME r[k].ok, NEW q \in Pages
        PROVE  Shown(r[k], q) = IF q \in lo .. lo + k - 1 THEN SegContent(s, q) ELSE Shown(w, q)
    <3>1. r[k - 1].ok
      BY <2>6, <2>8 DEF Builds, Grows
    <3>2. q \in lo .. x <=> q = x \/ q \in lo .. x - 1
      BY <1>1, <2>2, <2>5, FramesAreNat
    <3> QED BY <2>1, <2>5, <2>6, <2>8, <3>1, <3>2
  <2> QED BY <2>7, <2>8
<1>9. n \in T
  <2> HIDE DEF T
  <2>1. \A k \in 0 .. n : k \in T
    BY <1>7, <1>8, CountUp
  <2> QED BY <2>1
<1>10. \A q \in Pages : q \in lo .. lo + n - 1 <=> q \in lo .. hi - 1
  <2>1. \A q \in lo .. hi - 1 : q < lo + n
    BY <1>3 DEF Rounds
  <2>2. n # 0 => lo + n - 1 \in lo .. hi - 1
    BY <1>3 DEF Rounds
  <2> QED BY <1>1, <2>1, <2>2, FramesAreNat
<1>11. Builds(w, v) /\ (v.ok => \A q \in Pages : Shown(v, q) = IF q \in lo .. lo + n - 1 THEN SegContent(s, q) ELSE Shown(w, q))
  BY <1>5, <1>9
<1> QED BY <1>6, <1>10, <1>11 DEF v

\* A page shows the last segment that has it.
LEMMA LoadShown ==
  ASSUME NEW w, Building(w), NEW exe \in Seq(Segments),
         \A i \in DOMAIN exe : PagesUpTo(exe[i].va + exe[i].memsz) <= NumPages
  PROVE  LET v == load(w, exe) IN
         /\ Builds(w, v)
         /\ v.ok => \A q \in Pages :
              /\ (\A i \in DOMAIN exe : q \notin SegPages(exe[i])) => Shown(v, q) = Shown(w, q)
              /\ \A i \in DOMAIN exe :
                   q \in SegPages(exe[i]) /\ (\A j \in DOMAIN exe : j > i => q \notin SegPages(exe[j]))
                     => Shown(v, q) = SegContent(exe[i], q)
<1> DEFINE n == Len(exe)
           v == load(w, exe)
<1>1. n \in Nat /\ DOMAIN exe = 1 .. n /\ \A i \in 1 .. n : exe[i] \in Segments
  OBVIOUS
<1> HIDE DEF n
<1>2. PICK r : IsLoadRun(r, w, exe, n)
  BY <1>1, LoadRun
<1>3. r[0] = w /\ v = r[n] /\ \A k \in 1 .. n : r[k] = LoadSegment(r[k - 1], exe[k])
  BY <1>2 DEF IsLoadRun
<1> HIDE DEF v
<1> DEFINE In(q, i) == q \in SegPages(exe[i])
           Good(k) == /\ Builds(w, r[k])
                      /\ r[k].ok => \A q \in Pages :
                           /\ (\A i \in 1 .. k : ~In(q, i)) => Shown(r[k], q) = Shown(w, q)
                           /\ \A i \in 1 .. k : In(q, i) /\ (\A j \in 1 .. k : j > i => ~In(q, j))
                                => Shown(r[k], q) = SegContent(exe[i], q)
           T == {k \in 0 .. n : Good(k)}
<1>4. 0 \in T
  BY <1>1, <1>3, BuildsNothing
<1>5. ASSUME NEW k \in 1 .. n, k - 1 \in T PROVE k \in T
  <2>1. Good(k - 1)
    BY <1>5
  <2>2. Building(r[k - 1])
    BY <2>1, BuildsOn
  <2>3. r[k] = LoadSegment(r[k - 1], exe[k]) /\ exe[k] \in Segments /\ PagesUpTo(exe[k].va + exe[k].memsz) <= NumPages
    BY <1>1, <1>3
  <2>4. /\ Builds(r[k - 1], r[k])
        /\ r[k].ok => \A q \in Pages : Shown(r[k], q) = IF In(q, k) THEN SegContent(exe[k], q) ELSE Shown(r[k - 1], q)
    BY <2>2, <2>3, SegmentShown
  <2>5. Builds(w, r[k])
    BY <2>1, <2>4, BuildsTwice
  <2>6. r[k].ok => r[k - 1].ok
    BY <2>4 DEF Builds, Grows
  <2> HIDE DEF In
  <2>7. ASSUME r[k].ok, NEW q \in Pages
        PROVE  /\ (\A i \in 1 .. k : ~In(q, i)) => Shown(r[k], q) = Shown(w, q)
               /\ \A i \in 1 .. k : In(q, i) /\ (\A j \in 1 .. k : j > i => ~In(q, j))
                    => Shown(r[k], q) = SegContent(exe[i], q)
    <3>1. k \in 1 .. k /\ \A i \in 1 .. k - 1 : i \in 1 .. k /\ k > i
      BY <1>1
    <3>2. Shown(r[k], q) = IF In(q, k) THEN SegContent(exe[k], q) ELSE Shown(r[k - 1], q)
      BY <2>4, <2>7
    <3>3. (\A i \in 1 .. k : ~In(q, i)) => Shown(r[k], q) = Shown(w, q)
      BY <2>1, <2>6, <2>7, <3>1, <3>2
    <3>4. ASSUME NEW i \in 1 .. k, In(q, i), \A j \in 1 .. k : j > i => ~In(q, j)
          PROVE  Shown(r[k], q) = SegContent(exe[i], q)
      <4>1. CASE i = k
        BY <3>2, <3>4, <4>1
      <4>2. CASE i # k
        <5>1. i \in 1 .. k - 1
          BY <1>1, <4>2
        <5>2. ~In(q, k)
          BY <3>1, <3>4, <5>1
        <5>3. \A j \in 1 .. k - 1 : j > i => ~In(q, j)
          BY <3>1, <3>4
        <5>4. Shown(r[k - 1], q) = SegContent(exe[i], q)
          BY <2>1, <2>6, <2>7, <3>4, <5>1, <5>3
        <5> QED BY <3>2, <5>2, <5>4
      <4> QED BY <4>1, <4>2
    <3> QED BY <3>3, <3>4
  <2> QED BY <2>5, <2>7
<1>6. n \in T
  <2> HIDE DEF T
  <2>1. \A k \in 0 .. n : k \in T
    BY <1>1, <1>4, <1>5, CountUp
  <2> QED BY <1>1, <2>1
<1> QED BY <1>1, <1>3, <1>6 DEF v

\* A load that has failed stays as it is.
LEMMA LoadFailed ==
  ASSUME NEW w, ~w.ok, NEW exe \in Seq(Segments)
  PROVE  load(w, exe) = w
<1>1. ASSUME NEW s \in Segments PROVE LoadSegment(w, s) = w
  <2> DEFINE lo == PageOf(s.va)
             hi == PagesUpTo(s.va + s.memsz)
  <2>1. lo \in Int /\ hi \in Int
    BY SegmentTyped
  <2>2. PICK n \in Nat : Rounds(lo, hi, n)
    BY <2>1, UpwardsSeq
  <2>3. PICK r : IsSegmentRun(r, w, s, n)
    BY <2>2, SegmentRun DEF Rounds
  <2> DEFINE T == {k \in 0 .. n : r[k] = w}
  <2>4. 0 \in T
    BY <2>3 DEF IsSegmentRun
  <2>5. ASSUME NEW k \in 1 .. n, k - 1 \in T PROVE k \in T
    BY <2>3, <2>5, FailedStays DEF IsSegmentRun
  <2>6. n \in T
    <3> HIDE DEF T
    <3>1. \A k \in 0 .. n : k \in T
      BY <2>4, <2>5, CountUp
    <3> QED BY <3>1
  <2> QED BY <2>3, <2>6 DEF IsSegmentRun
<1> DEFINE n == Len(exe)
<1>2. n \in Nat /\ DOMAIN exe = 1 .. n /\ \A i \in 1 .. n : exe[i] \in Segments
  OBVIOUS
<1> HIDE DEF n
<1>3. PICK r : IsLoadRun(r, w, exe, n)
  BY <1>2, LoadRun
<1> DEFINE T == {k \in 0 .. n : r[k] = w}
<1>4. 0 \in T
  BY <1>2, <1>3 DEF IsLoadRun
<1>5. ASSUME NEW k \in 1 .. n, k - 1 \in T PROVE k \in T
  BY <1>1, <1>2, <1>3, <1>5 DEF IsLoadRun
<1>6. n \in T
  <2> HIDE DEF T
  <2>1. \A k \in 0 .. n : k \in T
    BY <1>2, <1>4, <1>5, CountUp
  <2> QED BY <1>2, <2>1
<1> QED BY <1>3, <1>6 DEF IsLoadRun

\* The pages of the stack are mapped to the frames that were taken for them.
LEMMA StackMapped ==
  ASSUME NEW w, Building(w), NEW frame \in Frames,
         Run(frame, UserStackPages) \subseteq w.used \ FramesIn(w.pt)
  PROVE  LET v == MapStack(w, frame)
             first == StackTop - UserStackPages IN
         /\ Grows(w, v) /\ PtSound(v.pt)
         /\ FramesIn(v.pt) \subseteq FramesIn(w.pt) \cup Run(frame, UserStackPages) \cup (v.used \ w.used)
         /\ v.ok => \A q \in Pages : Shown(v, q) = IF q \in first .. StackTop - 1
                                                   THEN w.data[frame + q - first] ELSE Shown(w, q)
<1> DEFINE first == StackTop - UserStackPages
           v == MapStack(w, frame)
<1>1. first \in Nat /\ first \in Int /\ StackTop \in Int /\ StackTop <= NumPages /\ StackTop >= first /\ frame \in Nat
  BY Constants, LayoutAssumption, FramesAreNat
<1>2. PICK n \in Nat : Rounds(first, StackTop, n)
  BY <1>1, UpwardsSeq
<1>3. n = UserStackPages
  BY <1>1, <1>2, Constants DEF Rounds
<1>4. PICK r : IsStackRun(r, w, frame, n)
  BY <1>2, StackRun DEF Rounds
<1>5. /\ r[0] = w /\ v = r[n]
      /\ \A k \in 1 .. n : r[k] = map_user_page(r[k - 1], first + k - 1, frame + (first + k - 1) - first, TRUE)
  BY <1>2, <1>4 DEF IsStackRun, Rounds
<1>6. \A k \in 1 .. n : r[k] = map_user_page(r[k - 1], first + k - 1, frame + k - 1, TRUE)
  <2>1. \A k \in 1 .. n : frame + (first + k - 1) - first = frame + k - 1
    BY <1>1
  <2> QED BY <1>5, <2>1
<1> HIDE DEF v, first
<1> DEFINE Entry(q) == [frame |-> frame + q - first, write |-> TRUE]
           Good(k) == /\ Grows(w, r[k]) /\ PtSound(r[k].pt) /\ r[k].data = w.data
                      /\ FramesIn(r[k].pt) \subseteq FramesIn(w.pt) \cup Run(frame, k) \cup (r[k].used \ w.used)
                      /\ r[k].ok => \A q \in Pages :
                           r[k].pt.map[q] = IF q \in first .. first + k - 1 THEN Entry(q) ELSE w.pt.map[q]
           T == {k \in 0 .. n : Good(k)}
<1>7. 0 \in T
  <2>1. \A q : q \notin first .. first + 0 - 1
    BY <1>1
  <2>2. Builds(w, w)
    BY BuildsNothing
  <2> QED BY <1>5, <2>1, <2>2 DEF Builds
<1>8. ASSUME NEW k \in 1 .. n, k - 1 \in T PROVE k \in T
  <2> DEFINE x == first + k - 1
             f == frame + k - 1
             u == r[k - 1]
  <2>1. Good(k - 1)
    BY <1>8
  <2>2. x \in Pages /\ x \in Int /\ x >= first /\ first + k - 1 = x /\ first + (k - 1) - 1 = x - 1 /\ f = frame + x - first
    BY <1>1, <1>2, Constants DEF Pages, Rounds
  <2>3. f \in Run(frame, n) /\ f \notin Run(frame, k - 1) /\ Run(frame, k) = Run(frame, k - 1) \cup {f}
    BY <1>1 DEF Run
  <2>4. \A j \in 0 .. n : Run(frame, j) \subseteq Run(frame, n)
    BY <1>1 DEF Run
  <2>5. w.used \subseteq u.used
    BY <2>1 DEF Grows
  <2>6. Building(u)
    <3>1. FramesIn(w.pt) \subseteq w.used
      BY DEF Building
    <3>2. Run(frame, k - 1) \subseteq w.used
      BY <1>3, <2>4
    <3> QED BY <2>1, <2>5, <3>1, <3>2 DEF Building, Grows
  <2>7. f \in u.used \ FramesIn(u.pt)
    BY <1>3, <2>1, <2>3, <2>5
  <2> DEFINE write == TRUE
  <2>8. r[k] = map_user_page(u, x, f, write) /\ write \in BOOLEAN
    BY <1>6
  <2> HIDE DEF x, f, u, write
  <2>9. /\ Grows(u, r[k]) /\ PtSound(r[k].pt) /\ r[k].data = u.data
        /\ FramesIn(r[k].pt) \subseteq FramesIn(u.pt) \cup {f} \cup (r[k].used \ u.used)
        /\ r[k].ok => r[k].pt.map = [u.pt.map EXCEPT ![x] = [frame |-> f, write |-> write]]
    BY <2>2, <2>6, <2>7, <2>8, MapUserPage
  <2>10. /\ Grows(u, r[k]) /\ PtSound(r[k].pt) /\ r[k].data = u.data
         /\ FramesIn(r[k].pt) \subseteq FramesIn(u.pt) \cup {f} \cup (r[k].used \ u.used)
         /\ r[k].ok => r[k].pt.map = [u.pt.map EXCEPT ![x] = [frame |-> f, write |-> TRUE]]
    BY <2>9 DEF write
  <2>11. Grows(w, r[k])
    BY <2>1, <2>10, GrowsTwice DEF u
  <2>12. FramesIn(r[k].pt) \subseteq FramesIn(w.pt) \cup Run(frame, k) \cup (r[k].used \ w.used)
    BY <2>1, <2>3, <2>5, <2>10 DEF u, Grows
  <2>13. ASSUME r[k].ok, NEW q \in Pages
         PROVE  r[k].pt.map[q] = IF q \in first .. first + k - 1 THEN Entry(q) ELSE w.pt.map[q]
    <3>1. u.ok
      BY <2>10, <2>13 DEF Grows
    <3>2. u.pt.map \in [Pages -> Entries]
      BY <2>6 DEF Building, PtSound, PageTables
    <3>3. r[k].pt.map[q] = IF q = x THEN [frame |-> f, write |-> TRUE] ELSE u.pt.map[q]
      BY <2>2, <2>10, <2>13, <3>2
    <3>4. u.pt.map[q] = IF q \in first .. x - 1 THEN Entry(q) ELSE w.pt.map[q]
      BY <2>1, <2>2, <3>1 DEF u
    <3>5. q \in first .. x <=> q = x \/ q \in first .. x - 1
      BY <1>1, <2>2, FramesAreNat
    <3>6. Entry(x) = [frame |-> f, write |-> TRUE]
      BY <2>2
    <3> QED BY <2>2, <3>3, <3>4, <3>5, <3>6
  <2>14. r[k].data = w.data
    BY <2>1, <2>10 DEF u
  <2> QED BY <2>10, <2>11, <2>12, <2>13, <2>14
<1>9. n \in T
  <2> HIDE DEF T
  <2>1. \A k \in 0 .. n : k \in T
    BY <1>7, <1>8, CountUp
  <2> QED BY <2>1
<1>10. /\ Grows(w, v) /\ PtSound(v.pt) /\ v.data = w.data
       /\ FramesIn(v.pt) \subseteq FramesIn(w.pt) \cup Run(frame, UserStackPages) \cup (v.used \ w.used)
       /\ v.ok => \A q \in Pages : v.pt.map[q] = IF q \in first .. first + n - 1 THEN Entry(q) ELSE w.pt.map[q]
  BY <1>3, <1>5, <1>9
<1>11. first + n - 1 = StackTop - 1
  BY <1>1, <1>3, Constants DEF first
<1>12. ASSUME v.ok, NEW q \in Pages
       PROVE  Shown(v, q) = IF q \in first .. StackTop - 1 THEN w.data[frame + q - first] ELSE Shown(w, q)
  <2>1. CASE q \in first .. StackTop - 1
    <3>1. v.pt.map[q] = Entry(q) /\ Entry(q).frame = frame + q - first /\ Entry(q).frame # None
      BY <1>1, <1>10, <1>11, <1>12, <2>1 DEF None
    <3>2. v.pt.map[q] # NoPage
      BY <3>1 DEF NoPage
    <3> HIDE DEF Entry
    <3> QED BY <1>10, <2>1, <3>1, <3>2 DEF Shown
  <2>2. CASE q \notin first .. StackTop - 1
    <3>1. v.pt.map[q] = w.pt.map[q]
      BY <1>10, <1>11, <1>12, <2>2
    <3> QED BY <1>10, <2>2, <3>1, ShownKept
  <2> QED BY <2>1, <2>2
<1> QED BY <1>10, <1>12 DEF v, first

\* The stack of a new program is clear, but for the arguments in its last page.
LEMMA InitStackShown ==
  ASSUME NEW w, Building(w)
  PROVE  LET v == map_user_init_stack(w) IN
         /\ Grows(w, v)
         /\ v.ok => PtSound(v.pt) /\ FramesIn(v.pt) \subseteq FramesIn(w.pt) \cup (v.used \ w.used)
         /\ v.ok => \A q \in Pages :
              Shown(v, q) = IF q \in StackTop - UserStackPages .. StackTop - 1
                            THEN IF q = StackTop - 1 THEN {<<"args", 0>>} ELSE Zero
                            ELSE Shown(w, q)
<1> DEFINE n == UserStackPages
           first == StackTop - n
           s == alloc_pages(w, n)
           Clear(f) == IF f \notin Run(s.got, n) THEN s.data[f]
                       ELSE IF f = s.got + n - 1 THEN {<<"args", 0>>} ELSE Zero
           c == [s EXCEPT !.data = [f \in Frames |-> Clear(f)]]
           v == map_user_init_stack(w)
<1>1. w \in Works /\ n \in Nat \ {0}
  BY Constants DEF Building
<1> HIDE DEF n
<1>2. /\ s \in Works /\ (~s.ok => s = [w EXCEPT !.ok = FALSE])
      /\ s.ok => /\ w.ok /\ s.got \in Frames
                 /\ Run(s.got, n) \subseteq Frames \ w.used /\ s.got \in Run(s.got, n)
                 /\ s = [w EXCEPT !.used = @ \cup Run(s.got, n), !.got = s.got]
  BY <1>1, AllocPages
<1>3. v = IF ~s.ok THEN s ELSE MapStack(c, s.got)
  BY DEF map_user_init_stack, n
<1> HIDE DEF s, v
<1>4. CASE ~s.ok
  <2>1. /\ v \in Works /\ v.used = w.used /\ v.data = w.data /\ v.guards = w.guards
        /\ v.split = w.split /\ ~v.ok
    BY <1>1, <1>2, <1>3, <1>4 DEF Works
  <2>2. Grows(w, v)
    BY <2>1 DEF Grows, Untouched
  <2> QED BY <2>1, <2>2 DEF v
<1>5. CASE s.ok
  <2>1. v = MapStack(c, s.got)
    BY <1>3, <1>5
  <2>2. /\ s.used = w.used \cup Run(s.got, n) /\ s.pt = w.pt /\ s.data = w.data /\ s.guards = w.guards
        /\ s.split = w.split /\ w.ok /\ s.got \in Frames /\ Run(s.got, n) \subseteq Frames \ w.used
    BY <1>1, <1>2, <1>5 DEF Works
  <2>3. \A f \in Frames : Clear(f) \in Contents
    BY <1>2, ContentsPresent DEF Works
  <2> HIDE DEF Clear
  <2>4. /\ c.used = s.used /\ c.pt = w.pt /\ c.guards = w.guards /\ c.split = w.split /\ c.ok
        /\ c.data = [f \in Frames |-> Clear(f)]
    BY <1>2, <1>5, <2>2 DEF Works
  <2>5. c \in Works
    BY <1>2, <2>3 DEF Works
  <2> HIDE DEF c
  <2>6. /\ \A f \in w.used : c.data[f] = w.data[f]
        /\ \A f \in Frames \ c.used : c.data[f] = w.data[f]
    BY <1>1, <2>2, <2>4 DEF Clear, Works
  <2>7. Grows(w, c)
    BY <2>2, <2>4, <2>5, <2>6 DEF Grows, Untouched
  <2>8. Building(c) /\ Run(s.got, n) \subseteq c.used \ FramesIn(c.pt)
    BY <2>2, <2>4, <2>5 DEF Building
  <2>9. /\ Grows(c, v) /\ PtSound(v.pt)
        /\ FramesIn(v.pt) \subseteq FramesIn(c.pt) \cup Run(s.got, n) \cup (v.used \ c.used)
        /\ v.ok => \A q \in Pages : Shown(v, q) = IF q \in first .. StackTop - 1
                                                  THEN c.data[s.got + q - first] ELSE Shown(c, q)
    BY <2>1, <2>2, <2>8, StackMapped DEF n
  <2>10. Grows(w, v)
    BY <2>7, <2>9, GrowsTwice
  <2>11. FramesIn(v.pt) \subseteq FramesIn(w.pt) \cup (v.used \ w.used)
    BY <2>2, <2>4, <2>9 DEF Grows
  <2>12. ASSUME v.ok, NEW q \in Pages
         PROVE  Shown(v, q) = IF q \in first .. StackTop - 1
                              THEN IF q = StackTop - 1 THEN {<<"args", 0>>} ELSE Zero
                              ELSE Shown(w, q)
    <3>1. CASE q \in first .. StackTop - 1
      <4>1. s.got + q - first \in Run(s.got, n) /\ (s.got + q - first = s.got + n - 1 <=> q = StackTop - 1)
        <5>1. s.got \in Nat /\ q \in Nat
          BY <2>2, FramesAreNat
        <5>2. StackTop \in Int /\ n \in Int
          BY <1>1, Constants
        <5> QED BY <3>1, <5>1, <5>2 DEF Run
      <4>2. c.data[s.got + q - first] = Clear(s.got + q - first)
        BY <2>2, <2>4, <4>1
      <4>3. Clear(s.got + q - first) = IF q = StackTop - 1 THEN {<<"args", 0>>} ELSE Zero
        BY <4>1 DEF Clear
      <4> QED BY <2>9, <2>12, <3>1, <4>2, <4>3
    <3>2. CASE q \notin first .. StackTop - 1
      <4>1. Shown(c, q) = Shown(w, q)
        BY <2>4, <2>7, ShownKept
      <4> QED BY <2>9, <2>12, <3>2, <4>1
    <3> QED BY <3>1, <3>2
  <2> HIDE DEF first
  <2> QED BY <2>9, <2>10, <2>11, <2>12 DEF v, first, n
<1> QED BY <1>4, <1>5

\* What a page of the loaded program shows when its stack is there.
ImageShown(v, exe) ==
  \A q \in Pages :
    /\ q \in StackTop - UserStackPages .. StackTop - 1
         => Shown(v, q) = IF q = StackTop - 1 THEN {<<"args", 0>>} ELSE Zero
    /\ q \notin StackTop - UserStackPages .. StackTop - 1 =>
         /\ (\A i \in DOMAIN exe : q \notin SegPages(exe[i])) => Shown(v, q) = Absent
         /\ \A i \in DOMAIN exe :
              q \in SegPages(exe[i]) /\ (\A j \in DOMAIN exe : j > i => q \notin SegPages(exe[j]))
                => Shown(v, q) = SegContent(exe[i], q)

\* A new image consists of frames that were free, and shows the program.
LEMMA NewImageShown ==
  ASSUME NEW w \in Works, NEW exe \in Exes
  PROVE  LET v == NewImage(w, exe) IN
         /\ Grows(w, v)
         /\ v.ok => PtSound(v.pt) /\ FramesIn(v.pt) \subseteq v.used \ w.used /\ ImageShown(v, exe)
<1> DEFINE e == create_empty_process_page_table(w)
           x == load(e, exe)
           v == map_user_init_stack(x)
<1>1. /\ exe \in Seq(Segments)
      /\ \A i \in DOMAIN exe : PagesUpTo(exe[i].va + exe[i].memsz) <= NumPages
  BY LayoutAssumption
<1>2. NewImage(w, exe) = v
  BY DEF NewImage
<1>3. /\ Grows(w, e) /\ e.data = w.data
      /\ e.ok => /\ Building(e) /\ FramesIn(e.pt) \subseteq e.used \ w.used
                 /\ \A q \in Pages : Shown(e, q) = Absent
  BY EmptyTableBuilds
<1> HIDE DEF e
<1>4. CASE ~e.ok
  <2>1. x = e
    BY <1>1, <1>4, LoadFailed
  <2>2. alloc_pages(e, UserStackPages) = e
    BY <1>4, FailedStays
  <2> HIDE DEF x
  <2>3. v = e
    BY <1>4, <2>1, <2>2 DEF map_user_init_stack
  <2> QED BY <1>2, <1>3, <1>4, <2>3
<1>5. CASE e.ok
  <2>1. Building(e)
    BY <1>3, <1>5
  <2>2. /\ Builds(e, x)
        /\ x.ok => \A q \in Pages :
             /\ (\A i \in DOMAIN exe : q \notin SegPages(exe[i])) => Shown(x, q) = Shown(e, q)
             /\ \A i \in DOMAIN exe :
                  q \in SegPages(exe[i]) /\ (\A j \in DOMAIN exe : j > i => q \notin SegPages(exe[j]))
                    => Shown(x, q) = SegContent(exe[i], q)
    BY <1>1, <2>1, LoadShown
  <2> HIDE DEF x
  <2>3. Building(x)
    BY <2>1, <2>2, BuildsOn
  <2>4. /\ Grows(x, v)
        /\ v.ok => PtSound(v.pt) /\ FramesIn(v.pt) \subseteq FramesIn(x.pt) \cup (v.used \ x.used)
        /\ v.ok => \A q \in Pages :
             Shown(v, q) = IF q \in StackTop - UserStackPages .. StackTop - 1
                           THEN IF q = StackTop - 1 THEN {<<"args", 0>>} ELSE Zero
                           ELSE Shown(x, q)
    BY <2>3, InitStackShown
  <2> HIDE DEF v
  <2>5. Grows(e, v) /\ Grows(w, v)
    BY <1>3, <2>2, <2>4, GrowsTwice DEF Builds
  <2>6. ASSUME v.ok
        PROVE  PtSound(v.pt) /\ FramesIn(v.pt) \subseteq v.used \ w.used /\ ImageShown(v, exe)
    <3>1. x.ok /\ w.used \subseteq e.used /\ e.used \subseteq x.used /\ x.used \subseteq v.used
      BY <1>3, <2>2, <2>4, <2>6 DEF Builds, Grows
    <3>2. FramesIn(v.pt) \subseteq v.used \ w.used
      BY <1>3, <1>5, <2>2, <2>4, <2>6, <3>1 DEF Builds
    <3>3. ASSUME NEW q \in Pages, q \notin StackTop - UserStackPages .. StackTop - 1
          PROVE  Shown(v, q) = Shown(x, q)
      BY <2>4, <2>6, <3>3
    <3>4. \A q \in Pages : q \in StackTop - UserStackPages .. StackTop - 1
            => Shown(v, q) = IF q = StackTop - 1 THEN {<<"args", 0>>} ELSE Zero
      BY <2>4, <2>6
    <3>5. \A q \in Pages : Shown(e, q) = Absent
      BY <1>3, <1>5
    <3>6. ImageShown(v, exe)
      BY <2>2, <3>1, <3>3, <3>4, <3>5 DEF ImageShown
    <3> QED BY <2>4, <2>6, <3>2, <3>6
  <2> QED BY <1>2, <2>5, <2>6
<1> QED BY <1>4, <1>5

-----------------------------------------------------------------------------
(***************************************************************************)
(* Memory between calls.  m is the state of memory: now, or as a call has  *)
(* left it; held are the frames of the kernel image and the heap.          *)
(***************************************************************************)
Now == [used |-> used, data |-> data, guards |-> guards, split |-> split]

\* Guard pages and split tables are allocated, a split table has one use, and
\* what is free holds what it always held.
MemorySound(m, held) ==
  /\ m.used \in SUBSET Frames /\ m.data \in [Frames -> Contents] /\ m.split \in [Huge -> FrameOrNone]
  /\ m.guards \subseteq m.used /\ held \subseteq m.used
  /\ \A f \in Frames \ m.used : m.data[f] = Stale
  /\ \A h \in Huge : m.split[h] # None => m.split[h] \in m.used \ (m.guards \cup held)
  /\ \A h, g \in Huge : m.split[h] # None /\ m.split[h] = m.split[g] => h = g

\* What was allocated in m has the same content and the same use in n.
Keeps(m, n) ==
  /\ m.used \subseteq n.used
  /\ \A f \in m.used : n.data[f] = m.data[f] /\ (f \in n.guards => f \in m.guards)
  /\ \A h \in Huge : n.split[h] \in m.used => n.split[h] = m.split[h]

LEMMA GrowsKeeps ==
  ASSUME NEW w \in Works, NEW v, Grows(w, v), NEW held, MemorySound(w, held)
  PROVE  MemorySound(v, held) /\ Keeps(w, v)
<1>1. v \in Works
  BY DEF Grows
<1>2. \A f \in Frames \ v.used : v.data[f] = Stale
  BY DEF Grows, MemorySound, Untouched
<1>3. v.used \in SUBSET Frames /\ v.data \in [Frames -> Contents] /\ v.split \in [Huge -> FrameOrNone]
  BY <1>1 DEF Works
<1>4. MemorySound(v, held)
  BY <1>2, <1>3 DEF Grows, MemorySound
<1>5. Keeps(w, v)
  BY DEF Keeps, Grows
<1> QED BY <1>4, <1>5

LEMMA KeepsTwice ==
  ASSUME NEW m, NEW n, NEW o, Keeps(m, n), Keeps(n, o)
  PROVE  Keeps(m, o)
  BY DEF Keeps

\* The huge page that a frame lies in.
LEMMA HugePage ==
  ASSUME NEW f \in Frames
  PROVE  f \div HugeFrames \in Huge
<1>1. f \in Nat /\ NumFrames - 1 \in Nat /\ f <= NumFrames - 1 /\ HugeFrames \in Nat \ {0}
  BY Constants DEF Frames
<1>2. f \div HugeFrames \in Nat /\ f \div HugeFrames <= (NumFrames - 1) \div HugeFrames
  BY <1>1
<1> QED BY <1>1, <1>2 DEF Huge

\* A kernel stack is taken from free frames and does not reach into its guard
\* page, whether or not the guard page could be protected.
LEMMA KernelStackSound ==
  ASSUME NEW w \in Works, NEW held, MemorySound(w, held)
  PROVE  LET v == KernelStack(w) IN
         /\ v \in Works /\ MemorySound(v, held) /\ Keeps(w, v) /\ (v.ok => w.ok)
         /\ v.ok => /\ v.got \in Frames
                    /\ Run(v.got + 1, StackFrames) \subseteq v.used \ (w.used \cup v.guards)
                    /\ \A h \in Huge : v.split[h] \notin Run(v.got + 1, StackFrames)
<1> DEFINE n == 1 + StackFrames
           k == alloc_pages(w, n)
           v == protect_guard_page(k, k.got)
<1>1. n \in Nat \ {0}
  BY Constants
<1>2. /\ k \in Works /\ (~w.ok => k = w) /\ (~k.ok => k = [w EXCEPT !.ok = FALSE])
      /\ k.ok => /\ w.ok /\ k.got \in Frames
                 /\ Run(k.got, n) \subseteq Frames \ w.used /\ k.got \in Run(k.got, n)
                 /\ k = [w EXCEPT !.used = @ \cup Run(k.got, n), !.got = k.got]
  BY <1>1, AllocPages
<1>3. KernelStack(w) = v
  BY DEF KernelStack
<1> HIDE DEF k
<1>4. /\ k.data = w.data /\ k.guards = w.guards /\ k.split = w.split
      /\ ~k.ok => k.used = w.used
      /\ k.ok => k.used = w.used \cup Run(k.got, n)
  BY <1>2 DEF Works
<1>5. Grows(w, k)
  BY <1>2, <1>4 DEF Grows, Untouched
<1>6. MemorySound(k, held) /\ Keeps(w, k)
  BY <1>5, GrowsKeeps
<1>7. CASE ~k.ok
  <2>1. v = k
    BY <1>7 DEF protect_guard_page
  <2> QED BY <1>2, <1>3, <1>6, <1>7, <2>1
<1>8. CASE k.ok
  <2> DEFINE f == k.got
             huge == f \div HugeFrames
             S == Run(f + 1, StackFrames)
             t == alloc_pages(k, 1)
  <2>1. f \in Frames /\ w.ok /\ Run(f, n) \subseteq k.used \ w.used /\ k.used = w.used \cup Run(f, n)
    BY <1>2, <1>4, <1>8
  <2>2. f \in Run(f, n) /\ S \subseteq Run(f, n) \ {f}
    <3>1. f \in Nat /\ StackFrames \in Nat \ {0}
      BY <2>1, Constants, FramesAreNat
    <3> QED BY <3>1 DEF Run
  <2>3. S \subseteq k.used \ (w.used \cup k.guards)
    BY <1>4, <2>1, <2>2 DEF MemorySound
  <2>4. \A h \in Huge : k.split[h] \notin S /\ k.split[h] # f /\ (k.split[h] # None => k.split[h] \in w.used)
    <3>1. f # None /\ None \notin S
      <4>1. k.used \subseteq Frames
        BY <1>2 DEF Works
      <4> QED BY <2>1, <2>3, <4>1, FramesAreNat
    <3>2. \A h \in Huge : k.split[h] # None => k.split[h] \in w.used
      BY <1>4 DEF MemorySound
    <3> QED BY <2>1, <2>2, <2>3, <3>1, <3>2
  <2>5. huge \in Huge
    BY <2>1, HugePage
  <2>6. /\ t \in Works /\ (~t.ok => t = [k EXCEPT !.ok = FALSE])
        /\ t.ok => /\ t.got \in Frames \ k.used
                   /\ t = [k EXCEPT !.used = @ \cup {t.got}, !.got = t.got]
    BY <1>2, AllocPage
  <2>7. v = IF Arch = "riscv64" THEN k
            ELSE IF k.split[huge] # None THEN [k EXCEPT !.guards = @ \cup {f}]
            ELSE IF ~t.ok THEN k
            ELSE [t EXCEPT !.split[huge] = t.got, !.guards = @ \cup {f}, !.got = f]
    BY <1>8 DEF protect_guard_page
  <2> HIDE DEF f, huge, S, t
  <2>8. CASE v = k
    <3>1. /\ v \in Works /\ MemorySound(v, held) /\ Keeps(w, v) /\ w.ok
          /\ v.got \in Frames /\ S \subseteq v.used \ (w.used \cup v.guards)
          /\ \A h \in Huge : v.split[h] \notin S
      BY <1>2, <1>6, <2>1, <2>3, <2>4, <2>8 DEF f
    <3> QED BY <1>3, <2>8, <3>1 DEF S, f
  <2>9. CASE v = [k EXCEPT !.guards = @ \cup {f}]
    <3>1. /\ v.used = k.used /\ v.data = k.data /\ v.split = k.split /\ v.guards = k.guards \cup {f}
          /\ v.got = f /\ v.ok
      BY <1>2, <1>8, <2>9 DEF Works, f
    <3>2. v \in Works
      BY <1>2, <2>1, <2>9 DEF Works
    <3>3. f \notin held /\ f \in k.used
      BY <2>1, <2>2 DEF MemorySound
    <3>4. MemorySound(v, held)
      BY <1>6, <2>4, <3>1, <3>3 DEF MemorySound
    <3>5. Keeps(w, v)
      BY <1>6, <2>1, <2>2, <3>1 DEF Keeps
    <3>6. S \subseteq v.used \ (w.used \cup v.guards) /\ \A h \in Huge : v.split[h] \notin S
      BY <2>2, <2>3, <2>4, <3>1
    <3> QED BY <1>3, <2>1, <3>1, <3>2, <3>4, <3>5, <3>6 DEF S
  <2>10. CASE t.ok /\ v = [t EXCEPT !.split[huge] = t.got, !.guards = @ \cup {f}, !.got = f]
    <3> DEFINE g == t.got
    <3>1. /\ t.used = k.used \cup {g} /\ t.data = k.data /\ t.split = k.split /\ t.guards = k.guards
          /\ g \in Frames \ k.used
      BY <1>2, <2>6, <2>10 DEF Works
    <3>2. /\ v.used = t.used /\ v.data = t.data /\ v.guards = t.guards \cup {f} /\ v.got = f /\ v.ok
          /\ v.split = [t.split EXCEPT ![huge] = g]
      BY <2>6, <2>10 DEF Works
    <3>3. v \in Works
      <4>1. v = [t EXCEPT !.split = v.split, !.guards = v.guards, !.got = f]
        BY <2>6, <2>10, <3>2 DEF Works
      <4>2. v.split \in [Huge -> FrameOrNone] /\ v.guards \in SUBSET Frames /\ f \in FrameOrNone
        BY <2>1, <2>5, <2>6, <3>1, <3>2 DEF Works, FrameOrNone
      <4> QED BY <2>6, <4>1, <4>2 DEF Works
    <3> HIDE DEF g
    <3>4. /\ v.split[huge] = g
          /\ \A h \in Huge \ {huge} : v.split[h] = k.split[h]
      BY <1>2, <2>5, <3>1, <3>2 DEF Works
    <3>5. f \notin held /\ f \in k.used /\ k.guards \subseteq k.used /\ held \subseteq k.used /\ g # f
      BY <1>6, <2>1, <2>2, <3>1 DEF MemorySound
    <3>6. \A h \in Huge : v.split[h] # None => v.split[h] \in v.used \ (v.guards \cup held)
      BY <1>6, <2>4, <3>1, <3>2, <3>4, <3>5 DEF MemorySound
    <3>7. \A h, j \in Huge : v.split[h] # None /\ v.split[h] = v.split[j] => h = j
      BY <1>6, <2>1, <2>4, <3>1, <3>4 DEF MemorySound
    <3>8. /\ v.used \in SUBSET Frames /\ v.data \in [Frames -> Contents] /\ v.split \in [Huge -> FrameOrNone]
          /\ v.guards \subseteq v.used /\ held \subseteq v.used
          /\ \A x \in Frames \ v.used : v.data[x] = Stale
      <4>1. v.used \in SUBSET Frames /\ v.data \in [Frames -> Contents] /\ v.split \in [Huge -> FrameOrNone]
        BY <3>3 DEF Works
      <4> QED BY <1>6, <3>1, <3>2, <3>5, <4>1 DEF MemorySound
    <3>9. MemorySound(v, held)
      BY <3>6, <3>7, <3>8 DEF MemorySound
    <3>10. Keeps(w, v)
      BY <1>4, <2>1, <2>2, <3>1, <3>2, <3>4 DEF Keeps
    <3>11. S \subseteq v.used \ (w.used \cup v.guards) /\ \A h \in Huge : v.split[h] \notin S
      BY <2>2, <2>3, <2>4, <3>1, <3>2, <3>4
    <3> QED BY <1>3, <2>1, <3>2, <3>3, <3>9, <3>10, <3>11 DEF S
  <2> QED BY <2>7, <2>8, <2>9, <2>10
<1> QED BY <1>7, <1>8

-----------------------------------------------------------------------------
(***************************************************************************)
(* The initial stack                                                       *)
(***************************************************************************)
Extents == [lo : Int, hi : Int]
Layouts == [ok : BOOLEAN, off : Int, strings : Seq(Extents), table : Int]

\* Strings below top and above off, each below the one before.
StringsApart(l, top) ==
  /\ \A i \in DOMAIN l.strings : l.strings[i].lo >= l.off /\ l.strings[i].hi < top
  /\ \A i, j \in DOMAIN l.strings : i < j => l.strings[j].hi < l.strings[i].lo

\* What InitialStackSound says of one task.
StackSound(l) ==
  l.ok => /\ l.off >= 0 /\ l.off % Align = 0
          /\ \A i \in DOMAIN l.strings :
               l.strings[i].lo >= l.table /\ l.strings[i].hi < StackRegion - 2 * Word
          /\ \A i, j \in DOMAIN l.strings : i < j => l.strings[j].hi < l.strings[i].lo

LEMMA DownAligned ==
  ASSUME NEW x \in Nat, NEW a \in Nat \ {0}
  PROVE  Down(x, a) \in Nat /\ Down(x, a) <= x /\ Down(x, a) % a = 0
<1>1. x % a \in 0 .. x
  OBVIOUS
<1>2. \E q \in Nat : x - (x % a) = a * q
  OBVIOUS
<1>3. \A q \in Nat : (a * q) % a = 0
  OBVIOUS
<1>4. (x - (x % a)) % a = 0
  BY <1>2, <1>3
<1>5. x - (x % a) \in Nat /\ x - (x % a) <= x
  BY <1>1
<1> QED BY <1>4, <1>5 DEF Down

\* One string more, with its terminating byte, below those that are there.
LEMMA PutStringApart ==
  ASSUME NEW top \in Int, NEW l \in Layouts, NEW len \in Nat,
         l.ok => l.off <= top /\ StringsApart(l, top)
  PROVE  LET v == PutString(l, len) IN
         /\ v \in Layouts
         /\ v.ok => l.ok /\ v.off >= 0 /\ v.off <= top /\ StringsApart(v, top)
<1> DEFINE v == PutString(l, len)
           off == Down(l.off - (len + 1), Word)
           new == [lo |-> off, hi |-> off + len]
<1>1. CASE ~l.ok \/ l.off < len + 1
  <2>1. v = [l EXCEPT !.ok = FALSE]
    BY <1>1 DEF PutString
  <2> QED BY <2>1 DEF Layouts
<1>2. CASE l.ok /\ ~(l.off < len + 1)
  <2>1. v = [l EXCEPT !.off = off, !.strings = Append(@, new)]
    BY <1>2 DEF PutString
  <2>2. l.off \in Int /\ l.off - (len + 1) \in Nat /\ Word \in Nat \ {0}
    BY <1>2, Constants DEF Layouts
  <2>3. off \in Nat /\ off <= l.off - (len + 1)
    BY <2>2, DownAligned
  <2> HIDE DEF off
  <2>4. new \in Extents /\ new.lo = off /\ new.hi = off + len
    BY <2>3 DEF Extents
  <2>5. new.hi < l.off /\ off <= l.off
    BY <2>2, <2>3, <2>4
  <2> HIDE DEF new
  <2>6. l.strings \in Seq(Extents)
    BY DEF Layouts
  <2>7. /\ v.off = off /\ v.strings = Append(l.strings, new) /\ v.ok
        /\ v = [ok |-> l.ok, off |-> off, strings |-> Append(l.strings, new), table |-> l.table]
    BY <1>2, <2>1 DEF Layouts
  <2> HIDE DEF v
  <2>8. v \in Layouts
    BY <2>3, <2>4, <2>6, <2>7 DEF Layouts
  <2> DEFINE n == Len(l.strings)
  <2>9. /\ n \in Nat /\ DOMAIN l.strings = 1 .. n /\ DOMAIN v.strings = 1 .. n + 1
        /\ v.strings[n + 1] = new /\ \A i \in 1 .. n : v.strings[i] = l.strings[i]
    BY <2>4, <2>6, <2>7
  <2> HIDE DEF n
  <2>10. \A i \in 1 .. n : l.strings[i].lo \in Int /\ l.strings[i].hi \in Int
    <3>1. \A i \in 1 .. n : l.strings[i] \in Extents
      BY <2>6, <2>9
    <3> QED BY <3>1 DEF Extents
  <2>11. l.off <= top /\ StringsApart(l, top)
    BY <1>2
  <2>12. \A i \in 1 .. n + 1 : v.strings[i].lo >= off /\ v.strings[i].hi < top
    <3>1. ASSUME NEW i \in 1 .. n PROVE v.strings[i].lo >= off /\ v.strings[i].hi < top
      <4>1. l.strings[i].lo >= l.off /\ l.strings[i].hi < top
        BY <2>9, <2>11 DEF StringsApart
      <4>2. v.strings[i] = l.strings[i] /\ l.strings[i].lo \in Int
        BY <2>9, <2>10
      <4> QED BY <2>2, <2>3, <2>5, <4>1, <4>2
    <3>2. new.lo >= off /\ new.hi < top
      BY <2>2, <2>3, <2>4, <2>5, <2>11
    <3> QED BY <2>9, <3>1, <3>2
  <2>13. \A i, j \in 1 .. n + 1 : i < j => v.strings[j].hi < v.strings[i].lo
    <3>1. ASSUME NEW i \in 1 .. n + 1, NEW j \in 1 .. n + 1, i < j PROVE v.strings[j].hi < v.strings[i].lo
      <4>1. i \in 1 .. n /\ (j \in 1 .. n \/ j = n + 1)
        BY <2>9, <3>1
      <4>2. CASE j \in 1 .. n
        BY <2>9, <2>11, <3>1, <4>1, <4>2 DEF StringsApart
      <4>3. CASE j = n + 1
        <5>1. l.strings[i].lo >= l.off
          BY <2>9, <2>11, <4>1 DEF StringsApart
        <5>2. v.strings[i] = l.strings[i] /\ l.strings[i].lo \in Int /\ v.strings[j] = new
          BY <2>9, <2>10, <4>1, <4>3
        <5>3. new.hi \in Int
          BY <2>3, <2>4
        <5> QED BY <2>2, <2>5, <5>1, <5>2, <5>3
      <4> QED BY <4>1, <4>2, <4>3
    <3> QED BY <3>1
  <2>14. StringsApart(v, top)
    BY <2>7, <2>9, <2>12, <2>13 DEF StringsApart
  <2> QED BY <1>2, <2>2, <2>3, <2>5, <2>7, <2>8, <2>11, <2>14 DEF v
<1> QED BY <1>1, <1>2

\* The layout of setup_abi_stack is sound for all strings that fit.
LEMMA LayoutSound ==
  ASSUME NEW argv \in Seq(Nat), NEW envp \in Seq(Nat)
  PROVE  setup_abi_stack(argv, envp) \in Layouts /\ StackSound(setup_abi_stack(argv, envp))
<1> DEFINE args == IF argv = <<>> THEN <<1>> ELSE argv
           strings == args \o envp
           n == Len(strings)
           top == StackRegion - 2 * Word
           l == PutStrings(strings, top)
           size == Word + (n + 2) * Word + Auxv
           off == Down(l.off - size, Align)
           v == setup_abi_stack(argv, envp)
<1>1. args \in Seq(Nat) /\ Len(args) \in Nat \ {0}
  OBVIOUS
<1>2. strings \in Seq(Nat) /\ n \in Nat \ {0}
  <2> HIDE DEF args
  <2> QED BY <1>1
<1>3. v = IF ~l.ok \/ l.off < size THEN NoLayout ELSE [l EXCEPT !.off = off, !.table = off + size]
  BY DEF setup_abi_stack
<1> HIDE DEF strings, v, l
<1>4. DOMAIN strings = 1 .. n /\ \A k \in 1 .. n : strings[k] \in Nat
  BY <1>2
<1> HIDE DEF n
<1>5. top \in Int /\ size \in Nat
  <2>1. StackRegion \in Nat /\ Word \in Nat /\ Auxv \in Nat /\ n \in Nat
    BY <1>2, Constants, LayoutAssumption
  <2>2. \A x, y \in Nat : x * y \in Nat
    OBVIOUS
  <2>3. (n + 2) * Word \in Nat
    BY <2>1, <2>2
  <2> QED BY <2>1, <2>3
<1> HIDE DEF top, size
<1>6. PICK r : IsPutRun(r, strings, top, n)
  BY <1>2, <1>4, PutRun
<1> DEFINE Good(k) == /\ r[k] \in Layouts
                      /\ r[k].ok => r[k].off <= top /\ StringsApart(r[k], top) /\ (k # 0 => r[k].off >= 0)
           T == {k \in 0 .. n : Good(k)}
<1>7. 0 \in T
  <2>1. r[0] = [ok |-> TRUE, off |-> top, strings |-> <<>>, table |-> 0]
    BY <1>6 DEF IsPutRun
  <2>2. r[0] \in Layouts
    BY <1>5, <2>1 DEF Layouts
  <2>3. r[0].off <= top /\ r[0].strings = <<>>
    BY <1>5, <2>1
  <2>4. StringsApart(r[0], top)
    BY <2>3 DEF StringsApart
  <2> QED BY <1>2, <2>2, <2>3, <2>4
<1>8. ASSUME NEW k \in 1 .. n, k - 1 \in T PROVE k \in T
  <2>1. r[k - 1] \in Layouts /\ (r[k - 1].ok => r[k - 1].off <= top /\ StringsApart(r[k - 1], top))
    BY <1>8
  <2>2. r[k] = PutString(r[k - 1], strings[k]) /\ strings[k] \in Nat
    BY <1>4, <1>6 DEF IsPutRun
  <2>3. r[k] \in Layouts /\ (r[k].ok => r[k].off >= 0 /\ r[k].off <= top /\ StringsApart(r[k], top))
    BY <1>5, <2>1, <2>2, PutStringApart
  <2> QED BY <2>3
<1>9. n \in T
  <2> HIDE DEF T
  <2>1. \A k \in 0 .. n : k \in T
    BY <1>2, <1>7, <1>8, CountUp
  <2> QED BY <1>2, <2>1
<1>10. l \in Layouts /\ (l.ok => l.off <= top /\ StringsApart(l, top) /\ l.off >= 0)
  BY <1>2, <1>6, <1>9 DEF IsPutRun, l
<1>11. CASE ~l.ok \/ l.off < size
  <2>1. v = NoLayout
    BY <1>3, <1>11
  <2> QED BY <2>1 DEF NoLayout, StackSound, Layouts, v
<1>12. CASE l.ok /\ ~(l.off < size)
  <2>1. v = [l EXCEPT !.off = off, !.table = off + size]
    BY <1>3, <1>12
  <2>2. l.off \in Int /\ l.off - size \in Nat /\ Align \in Nat \ {0}
    BY <1>5, <1>10, <1>12, Constants DEF Layouts
  <2>3. off \in Nat /\ off <= l.off - size /\ off % Align = 0
    BY <2>2, DownAligned
  <2> HIDE DEF off
  <2>4. off + size <= l.off /\ off + size \in Int
    BY <1>5, <2>2, <2>3
  <2>5. v.off = off /\ v.table = off + size /\ v.strings = l.strings
    BY <1>10, <2>1 DEF Layouts
  <2>6. v \in Layouts
    <3>1. v = [ok |-> l.ok, off |-> off, strings |-> l.strings, table |-> off + size]
      BY <1>10, <2>1 DEF Layouts
    <3>2. l.ok \in BOOLEAN /\ l.strings \in Seq(Extents) /\ off \in Int
      BY <1>10, <2>3 DEF Layouts
    <3> QED BY <2>4, <3>1, <3>2 DEF Layouts
  <2>7. \A i \in DOMAIN l.strings : l.strings[i].lo \in Int
    <3>1. l.strings \in Seq(Extents)
      BY <1>10 DEF Layouts
    <3>2. \A i \in DOMAIN l.strings : l.strings[i] \in Extents
      BY <3>1
    <3> QED BY <3>2 DEF Extents
  <2>8. \A i \in DOMAIN l.strings : l.strings[i].lo >= off + size
    BY <1>10, <1>12, <2>2, <2>4, <2>7 DEF StringsApart
  <2>9. StackSound(v)
    BY <1>10, <1>12, <2>3, <2>5, <2>8 DEF StackSound, StringsApart, top
  <2> QED BY <2>6, <2>9 DEF v
<1> QED BY <1>11, <1>12

-----------------------------------------------------------------------------
(***************************************************************************)
(* Arguments, the break and raw programs                                   *)
(***************************************************************************)
LEMMA GreatestNat ==
  ASSUME NEW b \in Nat, NEW S \in SUBSET (0 .. b), S # {}
  PROVE  \E m \in S : \A n \in S : m >= n
<1> DEFINE T == {b - n : n \in S}
<1>0. \A n \in S : n \in 0 .. b /\ b - n \in Nat
  OBVIOUS
<1>1. T \in SUBSET Nat /\ T # {}
  BY <1>0
<1>2. PICK t \in T : \A u \in T : t <= u
  BY <1>1, LeastNat
<1>3. PICK m \in S : t = b - m
  BY <1>2
<1>4. \A n \in S : b - m <= b - n
  BY <1>2, <1>3
<1>5. \A n \in S : m >= n
  BY <1>4
<1> QED BY <1>5

LEMMA VectorTyped ==
  ASSUME NEW v \in Seq(Nat)
  PROVE  user_cstr_array(v) \in Seq(Nat)
<1> DEFINE fit == {n \in 0 .. Len(v) : n <= MaxVec /\ \A i \in 1 .. n : v[i] < MaxArg}
           Most(n) == \A m \in fit : m <= n
           n == CHOOSE n \in fit : Most(n)
<1>1. Len(v) \in Nat /\ MaxVec \in Nat
  BY LayoutAssumption
<1>2. fit \in SUBSET (0 .. Len(v)) /\ 0 \in fit
  BY <1>1
<1>3. user_cstr_array(v) = SubSeq(v, 1, n)
  BY DEF user_cstr_array
<1> HIDE DEF fit
<1>4. PICK m \in fit : \A k \in fit : m >= k
  BY <1>1, <1>2, GreatestNat
<1>5. Most(m)
  BY <1>1, <1>2, <1>4
<1> HIDE DEF Most
<1>6. n \in fit
  BY <1>5
<1> HIDE DEF n
<1>7. n \in 0 .. Len(v)
  BY <1>2, <1>6
<1> QED BY <1>3, <1>7

LEMMA HeapStartTyped ==
  ASSUME NEW exe \in Exes
  PROVE  heap_start(exe) \in Nat
<1> DEFINE End(i) == PagesUpTo(exe[i].va + exe[i].memsz)
           S == {0} \cup {End(i) * PageSize : i \in DOMAIN exe}
           Most(x) == \A y \in S : x >= y
           b == NumPages * PageSize
<1>1. exe \in Seq(Segments) /\ \A i \in DOMAIN exe : End(i) <= NumPages
  BY LayoutAssumption
<1>2. \A i \in DOMAIN exe : End(i) \in Nat
  <2>1. \A i \in DOMAIN exe : exe[i] \in Segments
    BY <1>1
  <2> QED BY <2>1, SegmentTyped
<1>3. NumPages \in Nat /\ PageSize \in Nat
  BY Constants
<1>4. heap_start(exe) = CHOOSE x \in S : Most(x)
  BY DEF heap_start, Max
<1> HIDE DEF End
<1>5. \A x, y, z \in Nat : x <= y => x * z \in Nat /\ x * z <= y * z
  OBVIOUS
<1>6. b \in Nat /\ S \in SUBSET (0 .. b) /\ S # {}
  BY <1>1, <1>2, <1>3, <1>5
<1> HIDE DEF S, b
<1>7. \E x \in S : Most(x)
  BY <1>6, GreatestNat
<1> HIDE DEF Most
<1>8. heap_start(exe) \in S
  BY <1>4, <1>7
<1>9. heap_start(exe) \in 0 .. b
  BY <1>6, <1>8
<1> QED BY <1>6, <1>9

LEMMA TablesFailed ==
  ASSUME NEW w, ~w.ok, NEW page
  PROVE  WithTables(w, page) = w
<1>1. PICK n \in Nat : n \in {2, 3} /\ DOMAIN TablesOf(page) = 1 .. n
  <2>1. DOMAIN X86Tables(page) = 1 .. 3 /\ DOMAIN Sv39Tables(page) = 1 .. 2
    BY DEF X86Tables, Sv39Tables
  <2> QED BY <2>1 DEF TablesOf
<1>2. PICK r : IsTablesRun(r, w, page, n)
  BY <1>1, TablesRun
<1> DEFINE T == {k \in 0 .. n : r[k] = w}
<1>3. 0 \in T
  BY <1>2 DEF IsTablesRun
<1>4. ASSUME NEW k \in 1 .. n, k - 1 \in T PROVE k \in T
  BY <1>2, <1>4, FailedStays DEF IsTablesRun
<1>5. n \in T
  <2> HIDE DEF T
  <2>1. \A k \in 0 .. n : k \in T
    BY <1>3, <1>4, CountUp
  <2> QED BY <2>1
<1> QED BY <1>2, <1>5 DEF IsTablesRun

\* The page table of spawn_user shows the two frames that it is given.
LEMMA RawTableShown ==
  ASSUME NEW w \in Works, NEW code, NEW stack,
         w.ok => code \in w.used /\ stack \in w.used /\ code # stack
  PROVE  LET v == create_process_page_table(w, code, stack) IN
         /\ Grows(w, v)
         /\ v.ok => /\ PtSound(v.pt) /\ FramesIn(v.pt) \subseteq {code, stack} \cup (v.used \ w.used)
                    /\ \A q \in Pages : Shown(v, q) = IF q = CodePage THEN w.data[code]
                                                      ELSE IF q = RawStackPage THEN w.data[stack] ELSE Absent
<1> DEFINE e == create_empty_process_page_table(w)
           t == WithTables(e, CodePage)
           c == [t EXCEPT !.pt.map[CodePage] = [frame |-> code, write |-> TRUE]]
           d == [c EXCEPT !.pt.map[RawStackPage] = [frame |-> stack, write |-> TRUE]]
           v == create_process_page_table(w, code, stack)
<1>1. v = IF ~t.ok THEN t ELSE d
  BY DEF create_process_page_table
<1>2. /\ Grows(w, e) /\ e.data = w.data
      /\ e.ok => /\ Building(e) /\ FramesIn(e.pt) \subseteq e.used \ w.used
                 /\ \A q \in Pages : Shown(e, q) = Absent
  BY EmptyTableBuilds
<1>3. /\ CodePage \in Pages /\ RawStackPage \in Pages /\ CodePage >= UserPage /\ RawStackPage >= UserPage
      /\ CodePage # RawStackPage /\ LastTable(CodePage) = LastTable(RawStackPage)
  BY LayoutAssumption, Constants DEF Pages
<1> HIDE DEF e, v, d, c
<1>4. CASE ~e.ok
  <2>1. t = e
    BY <1>4, TablesFailed
  <2> HIDE DEF t
  <2> QED BY <1>1, <1>2, <1>4, <2>1 DEF v
<1>5. CASE e.ok
  <2>1. Building(e)
    BY <1>2, <1>5
  <2>2. Builds(e, t) /\ t.data = e.data /\ t.pt.map = e.pt.map /\ (t.ok => Reached(t.pt, CodePage))
    BY <1>3, <2>1, TablesOfPage
  <2> HIDE DEF t
  <2>3. Grows(w, t)
    BY <1>2, <2>2, GrowsTwice DEF Builds
  <2>4. CASE ~t.ok
    BY <1>1, <2>3, <2>4 DEF v
  <2>5. CASE t.ok
    <3>1. Building(t)
      BY <2>1, <2>2, BuildsOn
    <3>2. w.ok /\ w.used \subseteq e.used /\ e.used \subseteq t.used /\ FramesIn(t.pt) \subseteq t.used \ w.used
      BY <1>2, <1>5, <2>2, <2>5 DEF Builds, Grows
    <3>3. code \in t.used \ FramesIn(t.pt) /\ stack \in t.used \ FramesIn(t.pt) /\ code # stack
      BY <3>2
    <3> DEFINE write == TRUE
    <3>0. write \in BOOLEAN
      OBVIOUS
    <3>4. c = [t EXCEPT !.pt.map[CodePage] = [frame |-> code, write |-> write]]
      BY DEF c
    <3>5. d = [c EXCEPT !.pt.map[RawStackPage] = [frame |-> stack, write |-> write]]
      BY DEF d
    <3> HIDE DEF write
    <3>6. /\ c \in Works /\ PtSound(c.pt)
          /\ FramesIn(c.pt) \subseteq FramesIn(t.pt) \cup {code}
          /\ c.pt.map = [t.pt.map EXCEPT ![CodePage] = [frame |-> code, write |-> write]]
          /\ c.data = t.data /\ c.used = t.used /\ c.guards = t.guards /\ c.split = t.split /\ c.ok
          /\ c.pt.tables = t.pt.tables
      BY <1>3, <2>2, <2>5, <3>0, <3>1, <3>3, <3>4, MapPage
    <3>7. Building(c) /\ Reached(c.pt, RawStackPage) /\ stack \in c.used \ FramesIn(c.pt)
      BY <1>3, <2>2, <2>5, <3>1, <3>3, <3>6 DEF Building, Reached
    <3>8. /\ d \in Works /\ PtSound(d.pt)
          /\ FramesIn(d.pt) \subseteq FramesIn(c.pt) \cup {stack}
          /\ d.pt.map = [c.pt.map EXCEPT ![RawStackPage] = [frame |-> stack, write |-> write]]
          /\ d.data = c.data /\ d.used = c.used /\ d.guards = c.guards /\ d.split = c.split /\ d.ok
      <4>1. c.ok
        BY <3>6
      <4> QED BY <1>3, <3>0, <3>5, <3>7, <4>1, MapPage
    <3>9. Grows(t, d)
      BY <2>5, <3>6, <3>8 DEF Grows, Untouched
    <3>10. Grows(w, d) /\ FramesIn(d.pt) \subseteq {code, stack} \cup (d.used \ w.used)
      BY <2>3, <3>2, <3>6, <3>8, <3>9, GrowsTwice
    <3>11. ASSUME NEW q \in Pages
           PROVE  Shown(d, q) = IF q = CodePage THEN w.data[code]
                                ELSE IF q = RawStackPage THEN w.data[stack] ELSE Absent
      <4>1. t.pt.map \in [Pages -> Entries] /\ c.pt.map \in [Pages -> Entries]
        BY <3>1, <3>6 DEF Building, PtSound, PageTables
      <4>2. d.pt.map[q] = IF q = CodePage THEN [frame |-> code, write |-> write]
                          ELSE IF q = RawStackPage THEN [frame |-> stack, write |-> write] ELSE e.pt.map[q]
        BY <1>3, <2>2, <3>6, <3>8, <4>1
      <4>3. code # None /\ stack # None
        BY <3>2, <3>3, FramesAreNat DEF Building, Works, Grows
      <4>4. [frame |-> code, write |-> write] # NoPage /\ [frame |-> stack, write |-> write] # NoPage
        BY <4>3 DEF NoPage
      <4>5. d.data = w.data
        BY <1>2, <2>2, <3>6, <3>8
      <4>6. q # CodePage /\ q # RawStackPage => Shown(d, q) = Absent
        <5>1. Shown(e, q) = Absent /\ d.data = e.data
          BY <1>2, <1>5, <4>5
        <5> QED BY <4>2, <5>1 DEF Shown
      <4> QED BY <4>2, <4>4, <4>5, <4>6 DEF Shown
    <3>12. v = d
      BY <1>1, <2>5
    <3> QED BY <3>8, <3>10, <3>11, <3>12 DEF v
  <2> QED BY <2>4, <2>5
<1> QED BY <1>4, <1>5

-----------------------------------------------------------------------------
(***************************************************************************)
(* The inductive invariant                                                 *)
(***************************************************************************)
Tasks == [state : {"none", "live", "zombie"}, guard : FrameOrNone, pt : PageTables,
          brk : Nat, stack : Layouts]

\* The kernel stack above the guard page, and all that a task has.
StackOf(t) == Run(t.guard + 1, StackFrames)
Owned(t) == FramesIn(t.pt) \cup StackOf(t)

\* The frames of a task are allocated and are nobody else's in the kernel.
TaskSound(t, m, held) ==
  /\ t.guard \in Frames /\ PtSound(t.pt) /\ StackSound(t.stack)
  /\ Owned(t) \subseteq m.used \ (m.guards \cup held)
  /\ FramesIn(t.pt) \cap StackOf(t) = {}
  /\ \A h \in Huge : m.split[h] \notin Owned(t)

\* Memory is sound, and so is every live task; no two of them share a frame.
AddressInv ==
  /\ env \in Loads /\ task \in [Slots -> Tasks] /\ MemorySound(Now, env.held)
  /\ \A p \in Slots : Live(p) => TaskSound(task[p], Now, env.held)
  /\ \A p, q \in Slots : Live(p) /\ Live(q) /\ p # q => Owned(task[p]) \cap Owned(task[q]) = {}

LEMMA WorkSound ==
  ASSUME AddressInv, NEW pt \in PageTables
  PROVE  /\ Work(pt) \in Works /\ MemorySound(Work(pt), env.held) /\ Keeps(Now, Work(pt))
         /\ Work(pt).used = used /\ Work(pt).data = data /\ Work(pt).guards = guards
         /\ Work(pt).split = split /\ Work(pt).pt = pt /\ Work(pt).ok
<1>1. /\ Work(pt).used = used /\ Work(pt).data = data /\ Work(pt).guards = guards
      /\ Work(pt).split = split /\ Work(pt).pt = pt /\ Work(pt).ok
      /\ Now.used = used /\ Now.data = data /\ Now.guards = guards /\ Now.split = split
  BY DEF Work, Now
<1>2. MemorySound(Work(pt), env.held) /\ Keeps(Now, Work(pt))
  BY <1>1 DEF AddressInv, MemorySound, Keeps
<1>3. Work(pt) \in Works
  <2>1. used \in SUBSET Frames /\ data \in [Frames -> Contents] /\ split \in [Huge -> FrameOrNone] /\ guards \in SUBSET Frames
    BY <1>1 DEF AddressInv, MemorySound
  <2> QED BY <2>1, FramesAreNat DEF Work, Works
<1> QED BY <1>1, <1>2, <1>3

LEMMA EmptyTableTyped ==
  EmptyTable \in PageTables
<1>1. NoPage \in Entries
  BY FramesAreNat DEF NoPage, Entries
<1>2. [t \in {Top, Mid} \cup Pages |-> None] \in [TableIds -> FrameOrNone]
  BY FramesAreNat DEF TableIds
<1>3. [page \in Pages |-> NoPage] \in [Pages -> Entries]
  BY <1>1
<1> QED BY <1>2, <1>3, FramesAreNat DEF EmptyTable, PageTables

LEMMA Committed ==
  ASSUME NEW w, Commit(w)
  PROVE  /\ Now'.used = w.used /\ Now'.data = w.data /\ Now'.guards = w.guards /\ Now'.split = w.split
         /\ used' = w.used /\ data' = w.data /\ guards' = w.guards /\ split' = w.split
  BY DEF Commit, Now

\* What a call keeps, it keeps for every task.
LEMMA TaskKept ==
  ASSUME NEW t, NEW m, NEW n, NEW held, TaskSound(t, m, held), Keeps(m, n)
  PROVE  /\ TaskSound(t, n, held)
         /\ \A q \in Pages : t.pt.map[q] # NoPage => n.data[t.pt.map[q].frame] = m.data[t.pt.map[q].frame]
<1>1. Owned(t) \subseteq m.used
  BY DEF TaskSound
<1>2. TaskSound(t, n, held)
  BY <1>1 DEF TaskSound, Keeps
<1>3. \A q \in Pages : t.pt.map[q] # NoPage => t.pt.map[q].frame \in m.used
  BY <1>1 DEF Owned, FramesIn, Mapped
<1> QED BY <1>2, <1>3 DEF Keeps

\* What the processes read.
Views == [p \in Slots |-> IF Live(p) THEN View(p) ELSE <<>>]

\* What is read with page table pt when memory holds d.
Reads(pt, d) == [q \in Pages |-> IF pt.map[q] = NoPage THEN Absent ELSE d[pt.map[q].frame]]

\* A call that keeps memory and changes one task at most: the others read what
\* they read before.
LEMMA OthersKept ==
  ASSUME AddressInv, env' = env, NEW w, Commit(w), Keeps(Now, w), NEW q \in Slots, Live(q), task'[q] = task[q]
  PROVE  TaskSound(task'[q], Now', env'.held) /\ Live(q)' /\ View(q)' = View(q)
<1>1. TaskSound(task[q], Now, env.held)
  BY DEF AddressInv
<1>2. /\ TaskSound(task[q], w, env.held)
      /\ \A page \in Pages : task[q].pt.map[page] # NoPage
           => w.data[task[q].pt.map[page].frame] = Now.data[task[q].pt.map[page].frame]
  BY <1>1, TaskKept
<1>3. /\ Now'.used = w.used /\ Now'.data = w.data /\ Now'.guards = w.guards /\ Now'.split = w.split
      /\ data' = w.data /\ Now.data = data
  BY Committed DEF Now
<1>4. TaskSound(task'[q], Now', env'.held)
  BY <1>2, <1>3 DEF TaskSound
<1>5. View(q)' = View(q)
  BY <1>2, <1>3 DEF View
<1> QED BY <1>4, <1>5 DEF Live

LEMMA CommittedSound ==
  ASSUME NEW w, Commit(w), env' = env, MemorySound(w, env.held)
  PROVE  MemorySound(Now', env'.held)
<1>1. Now'.used = w.used /\ Now'.data = w.data /\ Now'.guards = w.guards /\ Now'.split = w.split
  BY Committed
<1> QED BY <1>1 DEF MemorySound

LEMMA NoTaskChange ==
  ASSUME AddressInv, env' = env, NEW w, Commit(w), MemorySound(w, env.held), Keeps(Now, w), task' = task
  PROVE  AddressInv' /\ Views' = Views
<1>1. MemorySound(Now', env'.held)
  BY CommittedSound
<1>2. \A q \in Slots : Live(q)' <=> Live(q)
  BY DEF Live
<1>3. \A q \in Slots : Live(q) => TaskSound(task'[q], Now', env'.held) /\ View(q)' = View(q)
  BY OthersKept
<1>4. AddressInv'
  BY <1>1, <1>2, <1>3 DEF AddressInv
<1>5. Views' = Views
  BY <1>2, <1>3 DEF Views
<1> QED BY <1>4, <1>5

LEMMA OneTask ==
  ASSUME AddressInv, env' = env, NEW w, Commit(w), MemorySound(w, env.held), Keeps(Now, w),
         NEW p \in Slots, NEW t \in Tasks, task' = [task EXCEPT ![p] = t],
         t.state = "live" => /\ TaskSound(t, w, env.held)
                             /\ \A q \in Slots : Live(q) /\ q # p => Owned(t) \cap Owned(task[q]) = {}
  PROVE  AddressInv' /\ Views' = [Views EXCEPT ![p] = IF t.state = "live" THEN Reads(t.pt, w.data) ELSE <<>>]
<1>1. MemorySound(Now', env'.held)
  BY CommittedSound
<1>2. task \in [Slots -> Tasks]
  BY DEF AddressInv
<1>3. task' \in [Slots -> Tasks] /\ task'[p] = t /\ \A q \in Slots : q # p => task'[q] = task[q]
  BY <1>2
<1>4. \A q \in Slots : q # p => (Live(q)' <=> Live(q))
  BY <1>3 DEF Live
<1>5. Live(p)' <=> t.state = "live"
  BY <1>3 DEF Live
<1>6. \A q \in Slots : q # p /\ Live(q) => TaskSound(task'[q], Now', env'.held) /\ View(q)' = View(q)
  BY <1>3, OthersKept
<1>7. /\ Now'.used = w.used /\ Now'.data = w.data /\ Now'.guards = w.guards /\ Now'.split = w.split
      /\ data' = w.data
  BY Committed
<1>8. Live(p)' => TaskSound(task'[p], Now', env'.held)
  BY <1>3, <1>5, <1>7 DEF TaskSound
<1>9. \A q \in Slots : Live(q)' => TaskSound(task'[q], Now', env'.held)
  BY <1>4, <1>6, <1>8
<1>10. ASSUME NEW x \in Slots, NEW q \in Slots, Live(x)', Live(q)', x # q
       PROVE  Owned(task'[x]) \cap Owned(task'[q]) = {}
  <2>1. CASE x # p /\ q # p
    BY <1>3, <1>4, <1>10, <2>1 DEF AddressInv
  <2>2. CASE x = p
    BY <1>3, <1>4, <1>5, <1>10, <2>2
  <2>3. CASE q = p
    BY <1>3, <1>4, <1>5, <1>10, <2>3
  <2> QED BY <2>1, <2>2, <2>3
<1>11. AddressInv'
  <2>1. env' \in Loads
    BY DEF AddressInv
  <2> QED BY <1>1, <1>3, <1>9, <1>10, <2>1 DEF AddressInv
<1>12. View(p)' = Reads(t.pt, w.data)
  BY <1>3, <1>7 DEF View, Reads
<1>13. Views' = [Views EXCEPT ![p] = IF t.state = "live" THEN Reads(t.pt, w.data) ELSE <<>>]
  BY <1>4, <1>5, <1>6, <1>12 DEF Views
<1> QED BY <1>11, <1>13

-----------------------------------------------------------------------------
(***************************************************************************)
(* Steps of the abstract memory                                            *)
(***************************************************************************)

\* What the processes read changes as UserMemory allows.
MemoryStep == Memory!Next \/ Views' = Views

LEMMA LiveView ==
  ASSUME NEW p \in Slots
  PROVE  /\ Live(p) => Views[p] = View(p) /\ Views[p] # <<>>
         /\ ~Live(p) => Views[p] = <<>>
<1>1. DOMAIN View(p) = Pages /\ 0 \in Pages
  BY Constants DEF View, Pages
<1>2. DOMAIN <<>> = {}
  OBVIOUS
<1>3. View(p) # <<>>
  BY <1>1, <1>2
<1> QED BY <1>3 DEF Views

LEMMA StartStep ==
  ASSUME NEW p \in Slots, ~Live(p), NEW image \in {ElfImage(exe) : exe \in Exes} \cup {RawImage},
         Views' = [Views EXCEPT ![p] = image]
  PROVE  MemoryStep
<1>1. Views[p] = <<>>
  BY LiveView
<1>2. Memory!Start(p)
  BY <1>1 DEF Memory!Start, Memory!Gone, Views
<1> QED BY <1>2 DEF MemoryStep, Memory!Next

LEMMA ExecStep ==
  ASSUME NEW p \in Slots, Live(p), NEW image \in {ElfImage(exe) : exe \in Exes} \cup {RawImage},
         Views' = [Views EXCEPT ![p] = image]
  PROVE  MemoryStep
<1>1. Views[p] # <<>>
  BY LiveView
<1>2. Memory!Exec(p)
  BY <1>1 DEF Memory!Exec, Memory!Gone, Views
<1> QED BY <1>2 DEF MemoryStep, Memory!Next

LEMMA ExitStep ==
  ASSUME NEW p \in Slots, Live(p), Views' = [Views EXCEPT ![p] = <<>>]
  PROVE  MemoryStep
<1>1. Views[p] # <<>>
  BY LiveView
<1>2. Memory!Exit(p)
  BY <1>1 DEF Memory!Exit, Memory!Gone, Views
<1> QED BY <1>2 DEF MemoryStep, Memory!Next

LEMMA ForkStep ==
  ASSUME NEW p \in Slots, Live(p), NEW c \in Slots, ~Live(c), Views' = [Views EXCEPT ![c] = View(p)]
  PROVE  MemoryStep
<1>1. Views[p] # <<>> /\ Views[p] = View(p) /\ Views[c] = <<>>
  BY LiveView
<1>2. Memory!Fork(p, c)
  BY <1>1 DEF Memory!Fork, Memory!Gone, Views
<1> QED BY <1>2 DEF MemoryStep, Memory!Next

LEMMA StoreStep ==
  ASSUME NEW p \in Slots, Live(p), NEW page \in Pages, View(p)[page] # Absent,
         Views' = [Views EXCEPT ![p] = [View(p) EXCEPT ![page] = {<<"store", p>>}]]
  PROVE  MemoryStep
<1>1. Views[p] # <<>> /\ Views[p] = View(p)
  BY LiveView
<1>2. Views' = [Views EXCEPT ![p][page] = {<<"store", p>>}]
  BY <1>1 DEF Views
<1>3. {<<"store", p>>} \in {{<<"store", q>>} : q \in Slots}
  OBVIOUS
<1>4. Memory!Store(p, page)
  BY <1>1, <1>2, <1>3 DEF Memory!Store, Memory!Gone, Memory!NoPage, Absent, Views
<1> QED BY <1>4 DEF MemoryStep, Memory!Next

LEMMA FreshStep ==
  ASSUME NEW p \in Slots, Live(p), NEW v, Views' = [Views EXCEPT ![p] = v],
         v = [q \in Pages |-> v[q]], \A q \in Pages : v[q] \in {View(p)[q], Zero}
  PROVE  MemoryStep
<1> DEFINE S == {q \in Pages : v[q] = Zero}
           u == [page \in Pages |-> IF page \in S THEN Zero ELSE View(p)[page]]
<1>1. Views[p] # <<>> /\ Views[p] = View(p)
  BY LiveView
<1>2. v = u
  <2>1. \A q \in Pages : v[q] = u[q]
    OBVIOUS
  <2> QED BY <2>1
<1>3. S \in SUBSET Pages
  OBVIOUS
<1>4. Views' = [Views EXCEPT ![p] = [page \in Pages |-> IF page \in S THEN Zero ELSE @[page]]]
  BY <1>1, <1>2 DEF Views
<1> HIDE DEF S
<1>5. Memory!Fresh(p, S)
  BY <1>1, <1>4 DEF Memory!Fresh, Memory!Gone, Memory!Zero, Zero, Views
<1> QED BY <1>3, <1>5 DEF MemoryStep, Memory!Next

-----------------------------------------------------------------------------
(***************************************************************************)
(* New tasks                                                               *)
(***************************************************************************)

\* The page table of w and the stack above guard were free before the call.
NewTask(w, guard) ==
  /\ guard \in Frames /\ PtSound(w.pt)
  /\ FramesIn(w.pt) \subseteq w.used \ (used \cup w.guards)
  /\ Run(guard + 1, StackFrames) \subseteq w.used \ (used \cup w.guards)
  /\ FramesIn(w.pt) \cap Run(guard + 1, StackFrames) = {}
  /\ \A h \in Huge : w.split[h] \notin FramesIn(w.pt) \cup Run(guard + 1, StackFrames)

LEMMA SpawnedStep ==
  ASSUME AddressInv, env' = env, NEW w \in Works, MemorySound(w, env.held), Keeps(Now, w),
         NEW guard, NEW brk \in Nat, NEW stack \in Layouts, StackSound(stack),
         w.ok => NewTask(w, guard), Spawned(w, guard, brk, stack)
  PROVE  /\ AddressInv'
         /\ \/ Views' = Views
            \/ w.ok /\ \E p \in Slots : ~Live(p) /\ Views' = [Views EXCEPT ![p] = Reads(w.pt, w.data)]
<1>1. Commit(w)
  BY DEF Spawned
<1>2. CASE task' = task
  BY <1>1, <1>2, NoTaskChange
<1>3. CASE ~(task' = task)
  <2> DEFINE t == [state |-> "live", guard |-> guard, pt |-> w.pt, brk |-> brk, stack |-> stack]
  <2>1. w.ok /\ \E p \in Slots : IsVacantSlot(p) /\ task' = [task EXCEPT ![p] = t]
    BY <1>3 DEF Spawned
  <2>2. PICK p \in Slots : ~Live(p) /\ task' = [task EXCEPT ![p] = t]
    BY <2>1 DEF IsVacantSlot, VacantSlots
  <2>3. NewTask(w, guard) /\ guard \in FrameOrNone /\ w.pt \in PageTables
    BY <2>1 DEF NewTask, FrameOrNone, Works
  <2>4. t \in Tasks
    BY <2>3 DEF Tasks
  <2>5. /\ t.state = "live" /\ t.guard = guard /\ t.pt = w.pt /\ t.stack = stack
        /\ StackOf(t) = Run(guard + 1, StackFrames)
        /\ Owned(t) = FramesIn(w.pt) \cup Run(guard + 1, StackFrames)
    BY DEF StackOf, Owned
  <2> HIDE DEF t
  <2>6. env.held \subseteq used
    BY DEF AddressInv, MemorySound, Now
  <2>7. TaskSound(t, w, env.held)
    BY <2>3, <2>5, <2>6 DEF TaskSound, NewTask
  <2>8. \A q \in Slots : Live(q) => Owned(task[q]) \subseteq used
    BY DEF AddressInv, TaskSound, Now
  <2>9. Owned(t) \cap used = {}
    BY <2>3, <2>5 DEF NewTask
  <2>10. \A q \in Slots : Live(q) /\ q # p => Owned(t) \cap Owned(task[q]) = {}
    BY <2>8, <2>9
  <2>11. AddressInv' /\ Views' = [Views EXCEPT ![p] = IF t.state = "live" THEN Reads(t.pt, w.data) ELSE <<>>]
    BY <1>1, <2>2, <2>4, <2>7, <2>10, OneTask
  <2> QED BY <2>1, <2>2, <2>5, <2>11
<1> QED BY <1>2, <1>3

\* What a call that starts with a kernel stack builds on top of it.
LEMMA OnKernelStack ==
  ASSUME AddressInv, NEW w, Grows(KernelStack(Work(EmptyTable)), w),
         w.ok => PtSound(w.pt) /\ FramesIn(w.pt) \subseteq w.used \ KernelStack(Work(EmptyTable)).used
  PROVE  /\ KernelStack(Work(EmptyTable)) \in Works
         /\ w \in Works /\ MemorySound(w, env.held) /\ Keeps(Now, w)
         /\ w.ok => NewTask(w, KernelStack(Work(EmptyTable)).got)
<1> DEFINE s == Work(EmptyTable)
           k == KernelStack(s)
           S == Run(k.got + 1, StackFrames)
<1>1. s \in Works /\ MemorySound(s, env.held) /\ Keeps(Now, s) /\ s.used = used
  BY WorkSound, EmptyTableTyped
<1> HIDE DEF s
<1>2. /\ k \in Works /\ MemorySound(k, env.held) /\ Keeps(s, k)
      /\ k.ok => /\ k.got \in Frames
                 /\ S \subseteq k.used \ (s.used \cup k.guards)
                 /\ \A h \in Huge : k.split[h] \notin S
  BY <1>1, KernelStackSound
<1>3. Grows(k, w)
  BY DEF s
<1>4. w.ok => PtSound(w.pt) /\ FramesIn(w.pt) \subseteq w.used \ k.used
  BY DEF s
<1> HIDE DEF k
<1>5. w \in Works /\ MemorySound(w, env.held) /\ Keeps(k, w)
  BY <1>2, <1>3, GrowsKeeps DEF Grows
<1>6. Keeps(Now, w)
  BY <1>1, <1>2, <1>5, KeepsTwice
<1>7. ASSUME w.ok PROVE NewTask(w, k.got)
  <2>1. /\ k.ok /\ k.used \subseteq w.used /\ w.guards = k.guards /\ w.split = k.split
        /\ k.guards \subseteq k.used /\ used \subseteq k.used
    BY <1>1, <1>2, <1>3, <1>7 DEF Grows, MemorySound, Keeps
  <2>2. PtSound(w.pt) /\ FramesIn(w.pt) \subseteq w.used \ k.used
    BY <1>4, <1>7
  <2>3. \A h \in Huge : w.split[h] \notin FramesIn(w.pt)
    <3>1. \A h \in Huge : k.split[h] # None => k.split[h] \in k.used
      BY <1>2 DEF MemorySound
    <3>2. None \notin FramesIn(w.pt)
      BY <1>5, <2>2, FramesAreNat DEF Works
    <3> QED BY <2>1, <2>2, <3>1, <3>2
  <2>4. k.got \in Frames /\ S \subseteq k.used \ (used \cup k.guards) /\ \A h \in Huge : k.split[h] \notin S
    BY <1>1, <1>2, <2>1
  <2> QED BY <2>1, <2>2, <2>3, <2>4 DEF NewTask
<1> QED BY <1>2, <1>5, <1>6, <1>7 DEF k, s

-----------------------------------------------------------------------------
(***************************************************************************)
(* Programs                                                                *)
(***************************************************************************)

\* No two segments of a file have a page in common.  The loader does not
\* check it, and where it fails the later segment hides the earlier.
SegmentsApart ==
  \A exe \in Exes : \A i, j \in DOMAIN exe : i # j => SegPages(exe[i]) \cap SegPages(exe[j]) = {}

LEMMA FilePages ==
  ASSUME NEW s \in Segments, NEW q \in Nat
  PROVE  InFile(s, q) <=> q \in SegPages(s) /\ s.filesz > 0 /\ q <= PageOf(s.va + s.filesz - 1)
<1> DEFINE x == s.va + s.filesz
<1>1. x \in Nat /\ s.filesz \in Nat /\ s.va \in Nat /\ PageSize \in Nat \ {0}
  BY Constants DEF Segments
<1>2. ASSUME s.filesz > 0 PROVE x > q * PageSize <=> q <= PageOf(x - 1)
  <2>1. x - 1 \in Nat
    BY <1>1, <1>2
  <2>2. \A y \in Nat, a \in Nat \ {0} : q <= y \div a <=> q * a <= y
    OBVIOUS
  <2>3. q <= (x - 1) \div PageSize <=> q * PageSize <= x - 1
    BY <1>1, <2>1, <2>2
  <2>4. q * PageSize \in Int
    BY <1>1
  <2>5. q * PageSize <= x - 1 <=> x > q * PageSize
    BY <1>1, <2>4
  <2> QED BY <2>3, <2>5 DEF PageOf
<1> QED BY <1>1, <1>2 DEF InFile

LEMMA ElfShown ==
  ASSUME SegmentsApart, NEW exe \in Exes, NEW v, ImageShown(v, exe)
  PROVE  [q \in Pages |-> Shown(v, q)] = ElfImage(exe)
<1>1. exe \in Seq(Segments) /\ \A i \in DOMAIN exe : exe[i] \in Segments
  BY LayoutAssumption
<1>2. ASSUME NEW q \in Pages PROVE Shown(v, q) = ElfImage(exe)[q]
  <2> DEFINE Reach == {j \in DOMAIN exe : q \in SegPages(exe[j]) /\ exe[j].filesz > 0
                                          /\ q <= PageOf(exe[j].va + exe[j].filesz - 1)}
  <2>1. ElfImage(exe)[q] =
          IF q \in StackTop - UserStackPages .. StackTop - 1
          THEN IF q = StackTop - 1 THEN {<<"args", 0>>} ELSE Zero
          ELSE IF \A i \in DOMAIN exe : q \notin SegPages(exe[i]) THEN Absent
          ELSE {<<"file", exe[i].va>> : i \in Reach}
    BY DEF ElfImage
  <2> HIDE DEF Reach
  <2>2. CASE q \in StackTop - UserStackPages .. StackTop - 1
    BY <2>1, <2>2 DEF ImageShown
  <2>3. CASE /\ q \notin StackTop - UserStackPages .. StackTop - 1
             /\ \A i \in DOMAIN exe : q \notin SegPages(exe[i])
    BY <2>1, <2>3 DEF ImageShown
  <2>4. CASE /\ q \notin StackTop - UserStackPages .. StackTop - 1
             /\ ~\A i \in DOMAIN exe : q \notin SegPages(exe[i])
    <3>1. PICK i \in DOMAIN exe : q \in SegPages(exe[i])
      BY <2>4
    <3>2. \A j \in DOMAIN exe : q \in SegPages(exe[j]) => j = i
      BY <3>1 DEF SegmentsApart
    <3>3. \A j \in DOMAIN exe : j > i => j # i
      <4>1. DOMAIN exe = 1 .. Len(exe) /\ Len(exe) \in Nat
        BY <1>1
      <4> QED BY <4>1
    <3>4. Shown(v, q) = SegContent(exe[i], q)
      BY <2>4, <3>1, <3>2, <3>3 DEF ImageShown
    <3>5. q \in Nat /\ exe[i] \in Segments
      BY <1>1, FramesAreNat
    <3>6. InFile(exe[i], q) <=> i \in Reach
      BY <3>1, <3>5, FilePages DEF Reach
    <3>7. Reach \subseteq {i}
      BY <3>2 DEF Reach
    <3>8. SegContent(exe[i], q) = {<<"file", exe[j].va>> : j \in Reach}
      <4>1. CASE i \in Reach
        <5>1. Reach = {i}
          BY <3>7, <4>1
        <5> QED BY <3>6, <4>1, <5>1 DEF SegContent
      <4>2. CASE i \notin Reach
        <5>1. Reach = {}
          BY <3>7, <4>2
        <5> QED BY <3>6, <4>2, <5>1 DEF SegContent, Zero
      <4> QED BY <4>1, <4>2
    <3> QED BY <2>1, <2>4, <3>4, <3>8
  <2> QED BY <2>2, <2>3, <2>4
<1>3. ElfImage(exe) = [q \in Pages |-> ElfImage(exe)[q]]
  BY DEF ElfImage
<1> QED BY <1>2, <1>3

LEMMA AllocGrows ==
  ASSUME NEW w \in Works
  PROVE  LET v == alloc_pages(w, 1) IN
         /\ Grows(w, v) /\ v.data = w.data
         /\ v.ok => v.got \in Frames \ w.used /\ v.used = w.used \cup {v.got}
<1> DEFINE v == alloc_pages(w, 1)
<1>1. /\ v \in Works /\ (~w.ok => v = w) /\ (~v.ok => v = [w EXCEPT !.ok = FALSE])
      /\ v.ok => /\ w.ok /\ v.got \in Frames \ w.used
                 /\ v = [w EXCEPT !.used = @ \cup {v.got}, !.got = v.got]
  BY AllocPage
<1> HIDE DEF v
<1>2. /\ v.data = w.data /\ v.guards = w.guards /\ v.split = w.split
      /\ ~v.ok => v.used = w.used
      /\ v.ok => v.used = w.used \cup {v.got}
  BY <1>1 DEF Works
<1>3. Grows(w, v)
  BY <1>1, <1>2 DEF Grows, Untouched
<1> QED BY <1>1, <1>2, <1>3 DEF v

\* The frames and the page table that spawn_user adds to the kernel stack.
RawWork(k) ==
  LET code == alloc_pages(k, 1)
      stack == alloc_pages(code, 1)
  IN  create_process_page_table(IF stack.ok THEN [stack EXCEPT !.data[code.got] = {<<"prog", 0>>}]
                                ELSE stack, code.got, stack.got)

\* spawn_user: the code page holds the program, and the stack page what its
\* frame held when nobody had ever used it.
LEMMA RawProgram ==
  ASSUME NEW k \in Works, NEW held, MemorySound(k, held)
  PROVE  LET w == RawWork(k) IN
         /\ Grows(k, w)
         /\ w.ok => /\ PtSound(w.pt) /\ FramesIn(w.pt) \subseteq w.used \ k.used
                    /\ [q \in Pages |-> Shown(w, q)] = RawImage
<1> DEFINE code == alloc_pages(k, 1)
           stack == alloc_pages(code, 1)
           filled == [stack EXCEPT !.data[code.got] = {<<"prog", 0>>}]
           x == IF stack.ok THEN filled ELSE stack
           c == code.got
           s == stack.got
           w == create_process_page_table(x, c, s)
<1>1. /\ Grows(k, code) /\ code.data = k.data
      /\ code.ok => c \in Frames \ k.used /\ code.used = k.used \cup {c}
  BY AllocGrows
<1>2. code \in Works
  BY <1>1 DEF Grows
<1> HIDE DEF code
<1>3. /\ Grows(code, stack) /\ stack.data = code.data
      /\ stack.ok => s \in Frames \ code.used /\ stack.used = code.used \cup {s}
  BY <1>2, AllocGrows
<1>4. stack \in Works /\ Grows(k, stack)
  BY <1>1, <1>3, GrowsTwice DEF Grows
<1> HIDE DEF stack, c, s
<1>5. ASSUME stack.ok
      PROVE  /\ filled \in Works /\ filled.ok /\ filled.used = k.used \cup {c, s} /\ Grows(k, filled)
             /\ filled.data[c] = {<<"prog", 0>>} /\ filled.data[s] = Stale
             /\ c \in Frames \ k.used /\ s \in Frames \ k.used /\ c # s
  <2>1. code.ok /\ c \in Frames \ k.used /\ s \in Frames \ k.used /\ c # s
    BY <1>1, <1>3, <1>5 DEF Grows
  <2>2. stack.used = k.used \cup {c, s} /\ stack.data = k.data
    BY <1>1, <1>3, <1>5, <2>1
  <2>3. /\ filled.data = [stack.data EXCEPT ![c] = {<<"prog", 0>>}] /\ filled.used = stack.used
        /\ filled.guards = stack.guards /\ filled.split = stack.split /\ filled.ok /\ filled.pt = stack.pt
    BY <1>4, <1>5 DEF Works, c
  <2>4. filled \in Works
    BY <1>4, <2>1, ContentsPresent DEF Works, c
  <2> HIDE DEF filled
  <2>5. filled.data[c] = {<<"prog", 0>>} /\ \A f \in Frames \ {c} : filled.data[f] = k.data[f]
    BY <1>4, <2>1, <2>2, <2>3 DEF Works
  <2>6. k.data[s] = Stale /\ k.used \subseteq Frames
    BY <2>1 DEF MemorySound
  <2>7. Grows(k, filled)
    BY <1>4, <1>5, <2>1, <2>2, <2>3, <2>4, <2>5, <2>6 DEF Grows, Untouched
  <2> QED BY <2>1, <2>2, <2>3, <2>4, <2>5, <2>6, <2>7
<1>6. x \in Works /\ Grows(k, x) /\ (x.ok => c \in x.used /\ s \in x.used /\ c # s)
  BY <1>4, <1>5
<1>7. x.ok => /\ x.used = k.used \cup {c, s} /\ x.data[c] = {<<"prog", 0>>} /\ x.data[s] = Stale
              /\ c \notin k.used /\ s \notin k.used
  BY <1>5
<1>8. w = create_process_page_table(x, c, s)
  OBVIOUS
<1> HIDE DEF x, filled, w
<1>9. /\ Grows(x, w)
      /\ w.ok => /\ PtSound(w.pt) /\ FramesIn(w.pt) \subseteq {c, s} \cup (w.used \ x.used)
                 /\ \A q \in Pages : Shown(w, q) = IF q = CodePage THEN x.data[c]
                                                   ELSE IF q = RawStackPage THEN x.data[s] ELSE Absent
  BY <1>6, <1>8, RawTableShown
<1>10. Grows(k, w)
  BY <1>6, <1>9, GrowsTwice
<1>11. ASSUME w.ok
       PROVE  /\ PtSound(w.pt) /\ FramesIn(w.pt) \subseteq w.used \ k.used
              /\ [q \in Pages |-> Shown(w, q)] = RawImage
  <2>1. x.ok /\ x.used \subseteq w.used
    BY <1>9, <1>11 DEF Grows
  <2>2. FramesIn(w.pt) \subseteq w.used \ k.used
    BY <1>7, <1>9, <1>11, <2>1
  <2>3. [q \in Pages |-> Shown(w, q)] = RawImage
    BY <1>7, <1>9, <1>11, <2>1 DEF RawImage
  <2> QED BY <1>9, <1>11, <2>2, <2>3
<1>12. w = RawWork(k)
  BY DEF w, x, filled, c, s, code, stack, RawWork
<1> QED BY <1>10, <1>11, <1>12

-----------------------------------------------------------------------------
(***************************************************************************)
(* The actions                                                             *)
(***************************************************************************)
LEMMA ReadsShown ==
  ASSUME NEW w
  PROVE  Reads(w.pt, w.data) = [q \in Pages |-> Shown(w, q)]
  BY DEF Reads, Shown

LEMMA NoLayoutSound ==
  NoLayout \in Layouts /\ StackSound(NoLayout)
  BY DEF NoLayout, Layouts, StackSound

LEMMA SpawnUserStep ==
  ASSUME AddressInv, env' = env, spawn_user
  PROVE  AddressInv' /\ MemoryStep
<1> DEFINE k == KernelStack(Work(EmptyTable))
           w == RawWork(k)
<1>1. Spawned(w, k.got, 0, NoLayout)
  BY DEF spawn_user, RawWork
<1>2. Work(EmptyTable) \in Works /\ MemorySound(Work(EmptyTable), env.held)
  BY WorkSound, EmptyTableTyped
<1>3. k \in Works /\ MemorySound(k, env.held)
  BY <1>2, KernelStackSound
<1>4. /\ Grows(k, w)
      /\ w.ok => /\ PtSound(w.pt) /\ FramesIn(w.pt) \subseteq w.used \ k.used
                 /\ [q \in Pages |-> Shown(w, q)] = RawImage
  <2> HIDE DEF k
  <2> QED BY <1>3, RawProgram
<1> HIDE DEF w
<1>5. w \in Works /\ MemorySound(w, env.held) /\ Keeps(Now, w) /\ (w.ok => NewTask(w, k.got))
  BY <1>4, OnKernelStack
<1> HIDE DEF k
<1>6. /\ AddressInv'
      /\ \/ Views' = Views
         \/ w.ok /\ \E p \in Slots : ~Live(p) /\ Views' = [Views EXCEPT ![p] = Reads(w.pt, w.data)]
  <2>1. 0 \in Nat
    OBVIOUS
  <2> QED BY <1>1, <1>5, <2>1, NoLayoutSound, SpawnedStep
<1>7. CASE Views' = Views
  BY <1>6, <1>7 DEF MemoryStep
<1>8. CASE ~(Views' = Views)
  <2>1. PICK p \in Slots : ~Live(p) /\ Views' = [Views EXCEPT ![p] = Reads(w.pt, w.data)]
    BY <1>6, <1>8
  <2>2. Reads(w.pt, w.data) = RawImage
    BY <1>4, <1>6, <1>8, ReadsShown
  <2>3. MemoryStep
    BY <2>1, <2>2, StartStep
  <2> QED BY <1>6, <2>3
<1> QED BY <1>7, <1>8

LEMMA SpawnElfStep ==
  ASSUME AddressInv, env' = env, NEW exe \in Exes, spawn_elf(exe)
  PROVE  AddressInv' /\ (SegmentsApart => MemoryStep)
<1> DEFINE k == KernelStack(Work(EmptyTable))
           l == setup_abi_stack(<<>>, <<>>)
           w == NewImage(k, exe)
           x == [w EXCEPT !.ok = @ /\ l.ok]
<1>1. Spawned(x, k.got, heap_start(exe), l)
  BY DEF spawn_elf
<1>2. Work(EmptyTable) \in Works /\ MemorySound(Work(EmptyTable), env.held)
  BY WorkSound, EmptyTableTyped
<1>3. k \in Works /\ MemorySound(k, env.held)
  BY <1>2, KernelStackSound
<1>4. /\ Grows(k, w)
      /\ w.ok => PtSound(w.pt) /\ FramesIn(w.pt) \subseteq w.used \ k.used /\ ImageShown(w, exe)
  <2> HIDE DEF k
  <2> QED BY <1>3, NewImageShown
<1>5. l \in Layouts /\ StackSound(l)
  <2>1. <<>> \in Seq(Nat)
    OBVIOUS
  <2> QED BY <2>1, LayoutSound
<1> HIDE DEF w, l
<1>6. w \in Works
  BY <1>4 DEF Grows
<1>7. /\ x.used = w.used /\ x.data = w.data /\ x.guards = w.guards /\ x.split = w.split /\ x.pt = w.pt
      /\ x.ok = (w.ok /\ l.ok)
  BY <1>6 DEF Works
<1>8. x \in Works
  BY <1>5, <1>6 DEF Works, Layouts
<1> HIDE DEF x
<1>9. Grows(k, x)
  BY <1>4, <1>7, <1>8 DEF Grows, Untouched
<1>10. x.ok => PtSound(x.pt) /\ FramesIn(x.pt) \subseteq x.used \ k.used
  BY <1>4, <1>7
<1>11. x \in Works /\ MemorySound(x, env.held) /\ Keeps(Now, x) /\ (x.ok => NewTask(x, k.got))
  BY <1>9, <1>10, OnKernelStack
<1> HIDE DEF k
<1>12. /\ AddressInv'
       /\ \/ Views' = Views
          \/ x.ok /\ \E p \in Slots : ~Live(p) /\ Views' = [Views EXCEPT ![p] = Reads(x.pt, x.data)]
  BY <1>1, <1>5, <1>11, HeapStartTyped, SpawnedStep
<1>13. ASSUME SegmentsApart PROVE MemoryStep
  <2>1. CASE Views' = Views
    BY <2>1 DEF MemoryStep
  <2>2. CASE ~(Views' = Views)
    <3>1. PICK p \in Slots : ~Live(p) /\ Views' = [Views EXCEPT ![p] = Reads(x.pt, x.data)]
      BY <1>12, <2>2
    <3>2. w.ok /\ ImageShown(w, exe)
      BY <1>4, <1>7, <1>12, <2>2
    <3>3. Reads(x.pt, x.data) = ElfImage(exe)
      BY <1>7, <1>13, <3>2, ReadsShown, ElfShown
    <3> QED BY <3>1, <3>3, StartStep
  <2> QED BY <2>1, <2>2
<1> QED BY <1>12, <1>13

LEMMA SpawnForkStep ==
  ASSUME AddressInv, env' = env, NEW p \in Slots, spawn_fork(p)
  PROVE  AddressInv' /\ MemoryStep
<1> DEFINE k == KernelStack(Work(EmptyTable))
           src == task[p].pt
           w == clone_user_page_table(k, src)
<1>1. Live(p) /\ Spawned(w, k.got, task[p].brk, task[p].stack)
  BY DEF spawn_fork
<1>2. Work(EmptyTable) \in Works /\ MemorySound(Work(EmptyTable), env.held) /\ Keeps(Now, Work(EmptyTable))
  BY WorkSound, EmptyTableTyped
<1>3. k \in Works /\ MemorySound(k, env.held) /\ Keeps(Work(EmptyTable), k)
  BY <1>2, KernelStackSound
<1>4. Keeps(Now, k)
  BY <1>2, <1>3, KeepsTwice
<1> HIDE DEF k
<1>5. TaskSound(task[p], Now, env.held) /\ task[p] \in Tasks
  BY <1>1 DEF AddressInv
<1>6. /\ TaskSound(task[p], k, env.held)
      /\ \A q \in Pages : src.map[q] # NoPage => k.data[src.map[q].frame] = Now.data[src.map[q].frame]
  BY <1>4, <1>5, TaskKept
<1>7. PtSound(src) /\ FramesIn(src) \subseteq k.used /\ StackSound(task[p].stack)
  BY <1>6 DEF TaskSound, Owned
<1>8. task[p].brk \in Nat /\ task[p].stack \in Layouts
  BY <1>5 DEF Tasks
<1>9. /\ Grows(k, w)
      /\ w.ok => /\ PtSound(w.pt) /\ FramesIn(w.pt) \subseteq w.used \ k.used
                 /\ \A q \in Pages : Shown(w, q) = IF src.map[q] = NoPage THEN Absent
                                                   ELSE k.data[src.map[q].frame]
  BY <1>3, <1>7, CloneShown
<1> HIDE DEF w
<1>10. w \in Works /\ MemorySound(w, env.held) /\ Keeps(Now, w) /\ (w.ok => NewTask(w, k.got))
  BY <1>9, OnKernelStack DEF k
<1>11. /\ AddressInv'
       /\ \/ Views' = Views
          \/ w.ok /\ \E c \in Slots : ~Live(c) /\ Views' = [Views EXCEPT ![c] = Reads(w.pt, w.data)]
  BY <1>1, <1>7, <1>8, <1>10, SpawnedStep
<1>12. CASE Views' = Views
  BY <1>11, <1>12 DEF MemoryStep
<1>13. CASE ~(Views' = Views)
  <2>1. PICK c \in Slots : ~Live(c) /\ Views' = [Views EXCEPT ![c] = Reads(w.pt, w.data)]
    BY <1>11, <1>13
  <2>2. w.ok
    BY <1>11, <1>13
  <2>3. View(p) = [q \in Pages |-> Shown(w, q)]
    BY <1>6, <1>9, <2>2 DEF View, Now
  <2>4. Reads(w.pt, w.data) = View(p)
    BY <2>3, ReadsShown
  <2>5. MemoryStep
    BY <1>1, <2>1, <2>4, ForkStep
  <2> QED BY <1>11, <2>5
<1> QED BY <1>12, <1>13

\* A call gives its own task another page table, of its old frames and of
\* frames that were free.
LEMMA SameTask ==
  ASSUME AddressInv, env' = env, NEW p \in Slots, Live(p), NEW pt \in PageTables,
         NEW w, Grows(Work(pt), w), Commit(w),
         NEW t \in Tasks, task' = [task EXCEPT ![p] = t], t.state = "live",
         t.guard = task[p].guard, StackSound(t.stack), PtSound(t.pt),
         FramesIn(t.pt) \subseteq FramesIn(task[p].pt) \cup (w.used \ used)
  PROVE  AddressInv' /\ Views' = [Views EXCEPT ![p] = Reads(t.pt, w.data)]
<1> DEFINE s == Work(pt)
<1>1. /\ s \in Works /\ MemorySound(s, env.held) /\ Keeps(Now, s) /\ s.used = used
      /\ s.guards = guards /\ s.split = split
  BY WorkSound
<1>2. Grows(s, w)
  OBVIOUS
<1> HIDE DEF s
<1>3. w \in Works /\ MemorySound(w, env.held) /\ Keeps(s, w) /\ Keeps(Now, w)
  BY <1>1, <1>2, GrowsKeeps, KeepsTwice DEF Grows
<1>4. used \subseteq w.used /\ w.guards = guards /\ w.split = split
  BY <1>1, <1>2 DEF Grows
<1>5. /\ TaskSound(task[p], Now, env.held) /\ Now.used = used /\ Now.guards = guards /\ Now.split = split
      /\ guards \subseteq used /\ env.held \subseteq used
  BY DEF AddressInv, Now, MemorySound
<1>6. StackOf(t) = StackOf(task[p]) /\ Owned(t) \subseteq Owned(task[p]) \cup (w.used \ used)
  BY DEF Owned, StackOf
<1>7. Owned(task[p]) \subseteq used \ (guards \cup env.held)
  BY <1>5 DEF TaskSound
<1>8. Owned(t) \subseteq w.used \ (w.guards \cup env.held)
  BY <1>4, <1>5, <1>6, <1>7
<1>9. FramesIn(t.pt) \cap StackOf(t) = {}
  BY <1>5, <1>6, <1>7 DEF TaskSound, Owned
<1>10. \A h \in Huge : w.split[h] \notin Owned(t)
  <2>1. \A h \in Huge : split[h] # None => split[h] \in used
    BY <1>5 DEF AddressInv, MemorySound
  <2>2. None \notin w.used
    BY <1>3, FramesAreNat DEF Works
  <2>3. \A h \in Huge : split[h] \notin Owned(task[p])
    BY <1>5 DEF TaskSound
  <2> QED BY <1>4, <1>6, <2>1, <2>2, <2>3
<1>11. TaskSound(t, w, env.held)
  BY <1>5, <1>8, <1>9, <1>10 DEF TaskSound
<1>12. ASSUME NEW q \in Slots, Live(q), q # p PROVE Owned(t) \cap Owned(task[q]) = {}
  <2>1. Owned(task[q]) \cap Owned(task[p]) = {} /\ Owned(task[q]) \subseteq used
    BY <1>5, <1>12 DEF AddressInv, TaskSound
  <2> QED BY <1>6, <2>1
<1>13. AddressInv' /\ Views' = [Views EXCEPT ![p] = IF t.state = "live" THEN Reads(t.pt, w.data) ELSE <<>>]
  BY <1>3, <1>11, <1>12, OneTask, ZenonT(60)
<1> QED BY <1>13

\* A task ends; memory stays as the call has left it.
LEMMA TaskEnds ==
  ASSUME AddressInv, env' = env, NEW p \in Slots, Live(p), NEW pt \in PageTables,
         NEW w, Grows(Work(pt), w), Commit(w),
         NEW t \in Tasks, task' = [task EXCEPT ![p] = t], t.state = "zombie"
  PROVE  AddressInv' /\ MemoryStep
<1> DEFINE s == Work(pt)
<1>1. s \in Works /\ MemorySound(s, env.held) /\ Keeps(Now, s)
  BY WorkSound
<1>2. Grows(s, w)
  OBVIOUS
<1> HIDE DEF s
<1>3. MemorySound(w, env.held) /\ Keeps(Now, w)
  BY <1>1, <1>2, GrowsKeeps, KeepsTwice
<1>4. AddressInv' /\ Views' = [Views EXCEPT ![p] = IF t.state = "live" THEN Reads(t.pt, w.data) ELSE <<>>]
  BY <1>3, OneTask
<1>5. Views' = [Views EXCEPT ![p] = <<>>]
  BY <1>4
<1> QED BY <1>4, <1>5, ExitStep

LEMMA NoWork ==
  ASSUME AddressInv, NEW pt \in PageTables
  PROVE  /\ Grows(Work(pt), Work(pt))
         /\ UNCHANGED <<used, data, guards, split>> => Commit(Work(pt))
<1>1. /\ Work(pt) \in Works /\ Work(pt).used = used /\ Work(pt).data = data /\ Work(pt).guards = guards
      /\ Work(pt).split = split
  BY WorkSound
<1> QED BY <1>1 DEF Grows, Commit

LEMMA TaskTyped ==
  ASSUME AddressInv, NEW p \in Slots
  PROVE  /\ task \in [Slots -> Tasks] /\ task[p] \in Tasks /\ task[p].pt \in PageTables
         /\ task[p].brk \in Nat
         /\ Live(p) => /\ TaskSound(task[p], Now, env.held) /\ PtSound(task[p].pt)
                       /\ StackSound(task[p].stack) /\ Building(Work(task[p].pt))
<1>1. task \in [Slots -> Tasks] /\ task[p] \in Tasks
  BY DEF AddressInv
<1>2. task[p].pt \in PageTables /\ task[p].brk \in Nat
  BY <1>1 DEF Tasks
<1>3. ASSUME Live(p)
      PROVE  /\ TaskSound(task[p], Now, env.held) /\ PtSound(task[p].pt)
             /\ StackSound(task[p].stack) /\ Building(Work(task[p].pt))
  <2>1. TaskSound(task[p], Now, env.held)
    BY <1>3 DEF AddressInv
  <2>2. PtSound(task[p].pt) /\ StackSound(task[p].stack) /\ FramesIn(task[p].pt) \subseteq used
    BY <2>1 DEF TaskSound, Owned, Now
  <2>3. Work(task[p].pt) \in Works /\ Work(task[p].pt).used = used /\ Work(task[p].pt).pt = task[p].pt
    BY <1>2, WorkSound
  <2>4. Building(Work(task[p].pt))
    BY <2>2, <2>3 DEF Building
  <2> QED BY <2>1, <2>2, <2>4
<1> QED BY <1>1, <1>2, <1>3

LEMMA ExitCurrentStep ==
  ASSUME AddressInv, env' = env, NEW p \in Slots, exit_current(p)
  PROVE  AddressInv' /\ MemoryStep
<1> DEFINE t == [task[p] EXCEPT !.state = "zombie"]
<1>1. /\ Live(p) /\ task' = [task EXCEPT ![p].state = "zombie"]
      /\ used' = used /\ data' = data /\ guards' = guards /\ split' = split
  BY DEF exit_current
<1>2. task \in [Slots -> Tasks] /\ task[p] \in Tasks
  BY TaskTyped
<1>3. task' = [task EXCEPT ![p] = t] /\ t \in Tasks /\ t.state = "zombie"
  BY <1>1, <1>2 DEF Tasks
<1>4. Grows(Work(EmptyTable), Work(EmptyTable)) /\ Commit(Work(EmptyTable))
  BY <1>1, NoWork, EmptyTableTyped
<1> HIDE DEF t
<1> QED BY <1>1, <1>3, <1>4, TaskEnds, EmptyTableTyped

LEMMA ExecveStep ==
  ASSUME AddressInv, env' = env, NEW p \in Slots, NEW exe \in Exes, NEW argv \in Vectors, NEW envp \in Vectors,
         execve_current(p, exe, argv, envp)
  PROVE  AddressInv' /\ (SegmentsApart => MemoryStep)
<1> DEFINE s == Work(EmptyTable)
           w == NewImage(s, exe)
           l == setup_abi_stack(user_cstr_array(argv), user_cstr_array(envp))
           t == [task[p] EXCEPT !.pt = w.pt, !.brk = heap_start(exe), !.stack = l]
<1>1. /\ Live(p) /\ Commit(w)
      /\ task' = IF w.ok /\ l.ok
                 THEN [task EXCEPT ![p].pt = w.pt, ![p].brk = heap_start(exe), ![p].stack = l]
                 ELSE task
  BY DEF execve_current
<1>2. s \in Works /\ MemorySound(s, env.held) /\ Keeps(Now, s) /\ s.used = used
  BY WorkSound, EmptyTableTyped
<1>3. /\ Grows(s, w)
      /\ w.ok => PtSound(w.pt) /\ FramesIn(w.pt) \subseteq w.used \ s.used /\ ImageShown(w, exe)
  <2> HIDE DEF s
  <2> QED BY <1>2, NewImageShown
<1>4. l \in Layouts /\ StackSound(l)
  <2>1. argv \in Seq(Nat) /\ envp \in Seq(Nat)
    BY LayoutAssumption
  <2> QED BY <2>1, VectorTyped, LayoutSound
<1> HIDE DEF w, l
<1>5. MemorySound(w, env.held) /\ Keeps(Now, w) /\ w \in Works
  <2> HIDE DEF s
  <2> QED BY <1>2, <1>3, GrowsKeeps, KeepsTwice DEF Grows
<1>6. CASE ~(w.ok /\ l.ok)
  <2>1. task' = task
    BY <1>1, <1>6
  <2>2. AddressInv' /\ Views' = Views
    BY <1>1, <1>5, <2>1, NoTaskChange
  <2> QED BY <2>2 DEF MemoryStep
<1>7. CASE w.ok /\ l.ok
  <2>1. task \in [Slots -> Tasks] /\ task[p] \in Tasks
    BY TaskTyped
  <2>2. task' = [task EXCEPT ![p] = t]
    BY <1>1, <1>7, <2>1 DEF Tasks
  <2>3. heap_start(exe) \in Nat /\ w.pt \in PageTables
    BY <1>5, HeapStartTyped DEF Works
  <2>4. t \in Tasks /\ t.pt = w.pt /\ t.stack = l /\ t.guard = task[p].guard /\ t.state = task[p].state
    BY <1>4, <2>1, <2>3 DEF Tasks
  <2> HIDE DEF t
  <2>5. t.state = "live"
    BY <1>1, <2>4 DEF Live
  <2>6. PtSound(t.pt) /\ FramesIn(t.pt) \subseteq FramesIn(task[p].pt) \cup (w.used \ used) /\ StackSound(t.stack)
    BY <1>2, <1>3, <1>4, <1>7, <2>4
  <2>7. AddressInv' /\ Views' = [Views EXCEPT ![p] = Reads(t.pt, w.data)]
    BY <1>1, <1>3, <2>2, <2>4, <2>5, <2>6, SameTask, EmptyTableTyped
  <2>8. ASSUME SegmentsApart PROVE MemoryStep
    <3>1. Reads(t.pt, w.data) = ElfImage(exe)
      BY <1>3, <1>7, <2>4, <2>8, ReadsShown, ElfShown
    <3> QED BY <1>1, <2>7, <3>1, ExecStep
  <2> QED BY <2>7, <2>8
<1> QED BY <1>6, <1>7

\* A task gets pages, all of them or some; brk is its break from now on.
LEMMA PagesAdded ==
  ASSUME AddressInv, env' = env, NEW p \in Slots, Live(p), NEW w, Builds(Work(task[p].pt), w), Commit(w),
         \A q \in Pages : Shown(w, q) \in {Shown(Work(task[p].pt), q), Zero},
         NEW brk \in Nat, task' = [task EXCEPT ![p].pt = w.pt, ![p].brk = brk]
  PROVE  AddressInv' /\ MemoryStep
<1> DEFINE t == [task[p] EXCEPT !.pt = w.pt, !.brk = brk]
           s == Work(task[p].pt)
<1>1. /\ task \in [Slots -> Tasks] /\ task[p] \in Tasks /\ task[p].pt \in PageTables
      /\ StackSound(task[p].stack)
  BY TaskTyped
<1>2. task' = [task EXCEPT ![p] = t]
  BY <1>1 DEF Tasks
<1>3. PtSound(w.pt) /\ w.pt \in PageTables
  BY DEF Builds, PtSound
<1>4. /\ t \in Tasks /\ t.pt = w.pt /\ t.stack = task[p].stack /\ t.guard = task[p].guard
      /\ t.state = task[p].state
  BY <1>1, <1>3 DEF Tasks
<1> HIDE DEF t
<1>5. t.state = "live"
  BY <1>4 DEF Live
<1>6. s.used = used /\ s.pt = task[p].pt /\ s.data = data
  BY <1>1, WorkSound
<1>7. Grows(s, w) /\ FramesIn(w.pt) \subseteq FramesIn(s.pt) \cup (w.used \ s.used)
  BY DEF Builds
<1>8. FramesIn(t.pt) \subseteq FramesIn(task[p].pt) \cup (w.used \ used)
  BY <1>4, <1>6, <1>7
<1>9. AddressInv' /\ Views' = [Views EXCEPT ![p] = Reads(t.pt, w.data)]
  <2> DEFINE pt == task[p].pt
  <2>1. pt \in PageTables /\ Grows(Work(pt), w)
    BY <1>1, <1>7
  <2>2. t \in Tasks /\ t.guard = task[p].guard /\ StackSound(t.stack) /\ PtSound(t.pt)
    BY <1>1, <1>3, <1>4
  <2> HIDE DEF pt, s
  <2> QED BY <1>2, <1>5, <1>8, <2>1, <2>2, SameTask
<1> DEFINE v == Reads(w.pt, w.data)
<1>10. v = [q \in Pages |-> v[q]]
  BY DEF Reads
<1>11. \A q \in Pages : v[q] = Shown(w, q)
  BY ReadsShown
<1>12. \A q \in Pages : View(p)[q] = Shown(s, q)
  BY <1>6 DEF View, Shown
<1>13. \A q \in Pages : v[q] \in {View(p)[q], Zero}
  BY <1>11, <1>12
<1>14. Views' = [Views EXCEPT ![p] = v]
  BY <1>4, <1>9
<1> HIDE DEF v
<1>15. MemoryStep
  BY <1>10, <1>13, <1>14, FreshStep
<1> QED BY <1>9, <1>15

LEMMA MapFreshStep ==
  ASSUME AddressInv, env' = env, NEW p \in Slots, Live(p), NEW lo \in Nat, NEW hi \in Int, hi <= NumPages,
         NEW write \in BOOLEAN, NEW brk \in Nat, MapFresh(p, lo, hi, write, brk)
  PROVE  AddressInv' /\ MemoryStep
<1> DEFINE s == Work(task[p].pt)
           w == FreshPages(s, lo, hi, write)
           b == IF w.ok THEN brk ELSE task[p].brk
<1>1. Commit(w) /\ task' = [task EXCEPT ![p].pt = w.pt, ![p].brk = IF w.ok THEN brk ELSE @]
  BY DEF MapFresh
<1>2. task \in [Slots -> Tasks] /\ task[p] \in Tasks /\ Building(s) /\ task[p].brk \in Nat
  BY TaskTyped
<1>3. Builds(s, w) /\ \A q \in Pages : Shown(w, q) \in {Shown(s, q), Zero}
  <2> HIDE DEF s
  <2> QED BY <1>2, FreshPagesShown
<1> HIDE DEF w
<1>4. task' = [task EXCEPT ![p].pt = w.pt, ![p].brk = b]
  BY <1>1, <1>2 DEF Tasks
<1>5. b \in Nat
  BY <1>2
<1> HIDE DEF b
<1> QED BY <1>1, <1>3, <1>4, <1>5, PagesAdded

LEMMA SysBrkStep ==
  ASSUME AddressInv, env' = env, NEW p \in Slots, NEW addr \in Breaks, sys_brk(p, addr)
  PROVE  AddressInv' /\ MemoryStep
<1>1. Live(p)
  BY DEF sys_brk
<1>2. addr \in Nat /\ PagesUpTo(addr) <= NumPages /\ PagesUpTo(addr) \in Nat
  BY LayoutAssumption, WholePages
<1>3. /\ task \in [Slots -> Tasks] /\ task[p] \in Tasks /\ task[p].pt \in PageTables /\ task[p].brk \in Nat
      /\ Building(Work(task[p].pt))
  BY <1>1, TaskTyped
<1>4. CASE addr <= task[p].brk
  <2> DEFINE w == Work(task[p].pt)
  <2>1. /\ task' = [task EXCEPT ![p].brk = addr]
        /\ used' = used /\ data' = data /\ guards' = guards /\ split' = split
    BY <1>4 DEF sys_brk
  <2>2. Commit(w) /\ w.pt = task[p].pt
    BY <1>3, <2>1, NoWork, WorkSound
  <2>3. task' = [task EXCEPT ![p].pt = w.pt, ![p].brk = addr]
    BY <1>3, <2>1, <2>2 DEF Tasks
  <2>4. Builds(w, w) /\ \A q \in Pages : Shown(w, q) \in {Shown(w, q), Zero}
    BY <1>3, BuildsNothing
  <2> QED BY <1>1, <1>2, <2>2, <2>3, <2>4, PagesAdded
<1>5. CASE ~(addr <= task[p].brk)
  <2>1. MapFresh(p, PagesUpTo(task[p].brk), PagesUpTo(addr), TRUE, addr)
    BY <1>5 DEF sys_brk
  <2> DEFINE write == TRUE
             lo == PagesUpTo(task[p].brk)
             hi == PagesUpTo(addr)
  <2>2. lo \in Nat /\ hi \in Int /\ hi <= NumPages /\ write \in BOOLEAN
    BY <1>2, <1>3, WholePages
  <2>3. MapFresh(p, lo, hi, write, addr)
    BY <2>1
  <2> HIDE DEF write, lo, hi
  <2> QED BY <1>1, <1>2, <2>2, <2>3, MapFreshStep
<1> QED BY <1>4, <1>5

LEMMA SysMmapStep ==
  ASSUME AddressInv, env' = env, NEW p \in Slots, NEW hint \in Hints, NEW write \in BOOLEAN,
         sys_mmap(p, hint, 1, write)
  PROVE  AddressInv' /\ MemoryStep
<1> DEFINE base == IF hint >= UserPage * PageSize THEN hint ELSE PagesUpTo(task[p].brk) * PageSize
           top == base + 1 * PageSize
           brk == IF top > task[p].brk THEN top ELSE task[p].brk
           lo == PageOf(base)
           hi == PageOf(base) + 1
<1>1. /\ Live(p) /\ top <= NumPages * PageSize
      /\ MapFresh(p, lo, hi, write, brk)
  BY DEF sys_mmap
<1>2. /\ task[p].brk \in Nat /\ hint \in Nat /\ PageSize \in Nat \ {0} /\ NumPages \in Nat
  BY TaskTyped, LayoutAssumption, Constants
<1>3. \A x, y \in Nat : x * y \in Nat
  OBVIOUS
<1>4. base \in Nat
  BY <1>2, <1>3, WholePages
<1>5. top \in Nat /\ brk \in Nat /\ top > base
  <2> HIDE DEF base
  <2> QED BY <1>2, <1>4
<1> HIDE DEF base
<1>6. lo \in Nat /\ hi \in Int
  BY <1>4, WholePages
<1>7. hi <= NumPages
  <2>1. \A y \in Nat, a \in Nat \ {0}, q \in Nat : q <= y \div a <=> q * a <= y
    OBVIOUS
  <2>2. NumPages <= lo <=> NumPages * PageSize <= base
    BY <1>2, <1>4, <2>1 DEF PageOf
  <2>3. NumPages * PageSize \in Nat
    BY <1>2, <1>3
  <2>4. ~(NumPages * PageSize <= base)
    BY <1>1, <1>4, <1>5, <2>3
  <2> QED BY <1>2, <1>6, <2>2, <2>4
<1> HIDE DEF lo, hi, brk, top
<1> QED BY <1>1, <1>5, <1>6, <1>7, MapFreshStep

LEMMA PageFaultStep ==
  ASSUME AddressInv, env' = env, NEW p \in Slots, NEW page \in Touched, handle_user_page_fault(p, page)
  PROVE  AddressInv' /\ MemoryStep
<1> DEFINE s == Work(task[p].pt)
           write == TRUE
           w == NewPage(s, page, Zero, write)
<1>1. /\ Live(p) /\ Commit(IF page < UserPage THEN Work(EmptyTable) ELSE w)
      /\ task' = IF page >= UserPage /\ w.ok THEN [task EXCEPT ![p].pt = w.pt]
                 ELSE [task EXCEPT ![p].state = "zombie", ![p].pt = IF page < UserPage THEN @ ELSE w.pt]
  BY DEF handle_user_page_fault
<1>2. /\ task \in [Slots -> Tasks] /\ task[p] \in Tasks /\ task[p].pt \in PageTables /\ task[p].brk \in Nat
      /\ Building(s)
  BY <1>1, TaskTyped
<1>3. page \in Pages /\ page \in Nat /\ UserPage \in Nat /\ write \in BOOLEAN
  BY LayoutAssumption, FramesAreNat, Constants
<1>4. /\ Builds(s, w)
      /\ \A q \in Pages : Shown(w, q) = IF w.ok /\ q = page THEN Zero ELSE Shown(s, q)
  <2> HIDE DEF s, write
  <2> QED BY <1>2, <1>3, ContentsPresent, NewPageShown
<1> HIDE DEF w, write
<1>5. w.pt \in PageTables /\ Grows(s, w)
  BY <1>4 DEF Builds, PtSound
<1>6. CASE page >= UserPage /\ w.ok
  <2>1. Commit(w)
    BY <1>1, <1>3, <1>6
  <2> DEFINE brk == task[p].brk
  <2>2. task' = [task EXCEPT ![p].pt = w.pt, ![p].brk = brk] /\ brk \in Nat
    BY <1>1, <1>2, <1>6 DEF Tasks
  <2>3. Builds(Work(task[p].pt), w) /\ \A q \in Pages : Shown(w, q) \in {Shown(Work(task[p].pt), q), Zero}
    BY <1>4
  <2>4. Live(p)
    BY <1>1
  <2> HIDE DEF brk
  <2> QED BY <2>1, <2>2, <2>3, <2>4, PagesAdded
<1>7. CASE ~(page >= UserPage /\ w.ok) /\ page < UserPage
  <2> DEFINE t == [task[p] EXCEPT !.state = "zombie"]
  <2>1. Commit(Work(EmptyTable))
    BY <1>1, <1>7
  <2>2. task' = [task EXCEPT ![p] = t] /\ t \in Tasks /\ t.state = "zombie"
    BY <1>1, <1>2, <1>7 DEF Tasks
  <2>3. Grows(Work(EmptyTable), Work(EmptyTable))
    BY NoWork, EmptyTableTyped
  <2> HIDE DEF t
  <2> QED BY <1>1, <2>1, <2>2, <2>3, TaskEnds, EmptyTableTyped
<1>8. CASE ~(page >= UserPage /\ w.ok) /\ ~(page < UserPage)
  <2> DEFINE t == [task[p] EXCEPT !.state = "zombie", !.pt = w.pt]
  <2>1. Commit(w)
    BY <1>1, <1>8
  <2>2. task' = [task EXCEPT ![p] = t] /\ t \in Tasks /\ t.state = "zombie"
    BY <1>1, <1>2, <1>5, <1>8 DEF Tasks
  <2> HIDE DEF t
  <2> QED BY <1>1, <1>2, <1>5, <2>1, <2>2, TaskEnds
<1> QED BY <1>6, <1>7, <1>8

LEMMA StoreKeeps ==
  ASSUME AddressInv, env' = env, NEW p \in Slots, NEW page \in Touched, Store(p, page)
  PROVE  AddressInv' /\ MemoryStep
<1> DEFINE f == task[p].pt.map[page].frame
           c == {<<"store", p>>}
<1>1. /\ Live(p) /\ task[p].pt.map[page].write /\ data' = [data EXCEPT ![f] = c]
      /\ used' = used /\ guards' = guards /\ split' = split /\ task' = task
  BY DEF Store
<1>2. page \in Pages /\ p \in Nat
  BY LayoutAssumption, Constants
<1>3. TaskSound(task[p], Now, env.held) /\ PtSound(task[p].pt)
  BY <1>1, TaskTyped
<1>4. page \in Mapped(task[p].pt)
  BY <1>1, <1>2 DEF Mapped, NoPage
<1>5. f \in FramesIn(task[p].pt) /\ f \in Frames /\ f \in Owned(task[p])
  BY <1>3, <1>4 DEF FramesIn, PtSound, Owned
<1>6. f \in used
  BY <1>3, <1>5 DEF TaskSound, Now
<1>7. data \in [Frames -> Contents] /\ c \in Contents
  BY <1>2, ContentsPresent DEF AddressInv, MemorySound, Now
<1> HIDE DEF f, c
<1>8. data' \in [Frames -> Contents] /\ data'[f] = c /\ \A g \in Frames \ {f} : data'[g] = data[g]
  BY <1>1, <1>5, <1>7
<1>9. /\ Now'.used = used /\ Now'.guards = guards /\ Now'.split = split /\ Now'.data = data'
      /\ Now.used = used /\ Now.guards = guards /\ Now.split = split /\ Now.data = data
  BY <1>1 DEF Now
<1>10. MemorySound(Now', env'.held)
  BY <1>6, <1>8, <1>9 DEF AddressInv, MemorySound
<1>11. \A q \in Slots : Live(q)' <=> Live(q)
  BY <1>1 DEF Live
<1>12. \A q \in Slots : Live(q)' => TaskSound(task'[q], Now', env'.held)
  BY <1>1, <1>9, <1>11 DEF AddressInv, TaskSound
<1>13. AddressInv'
  BY <1>1, <1>10, <1>11, <1>12 DEF AddressInv
<1>14. ASSUME NEW q \in Slots, Live(q), NEW x \in Pages, task[q].pt.map[x] # NoPage, q # p \/ x # page
       PROVE  task[q].pt.map[x].frame \in Frames \ {f}
  <2>1. x \in Mapped(task[q].pt) /\ PtSound(task[q].pt)
    BY <1>14, TaskTyped DEF Mapped
  <2>2. task[q].pt.map[x].frame \in Owned(task[q]) /\ task[q].pt.map[x].frame \in Frames
    BY <2>1 DEF FramesIn, PtSound, Owned
  <2>3. CASE q # p
    <3>1. Owned(task[q]) \cap Owned(task[p]) = {}
      BY <1>1, <1>14, <2>3 DEF AddressInv
    <3> QED BY <1>5, <2>2, <3>1
  <2>4. CASE q = p
    <3>1. x # page /\ x \in Mapped(task[p].pt)
      BY <1>14, <2>1, <2>4
    <3> QED BY <1>3, <1>4, <2>2, <2>4, <3>1 DEF PtSound, f
  <2> QED BY <2>3, <2>4
<1>15. ASSUME NEW q \in Slots, Live(q), q # p PROVE View(q)' = View(q)
  <2>1. \A x \in Pages : task[q].pt.map[x] # NoPage => data'[task[q].pt.map[x].frame] = data[task[q].pt.map[x].frame]
    BY <1>8, <1>14, <1>15
  <2> QED BY <1>1, <2>1 DEF View
<1>16. View(p)' = [View(p) EXCEPT ![page] = c]
  <2>1. \A x \in Pages : x # page /\ task[p].pt.map[x] # NoPage
          => data'[task[p].pt.map[x].frame] = data[task[p].pt.map[x].frame]
    BY <1>1, <1>8, <1>14
  <2>2. task[p].pt.map[page] # NoPage /\ data'[task[p].pt.map[page].frame] = c
    BY <1>4, <1>8 DEF Mapped, f
  <2> QED BY <1>1, <1>2, <2>1, <2>2 DEF View
<1>17. Views' = [Views EXCEPT ![p] = [View(p) EXCEPT ![page] = c]]
  BY <1>1, <1>11, <1>15, <1>16 DEF Views
<1>18. View(p)[page] # Absent
  <2>1. View(p)[page] = data[f]
    BY <1>2, <1>4 DEF View, Mapped, f
  <2> QED BY <1>5, <1>7, <2>1, ContentsPresent
<1>19. MemoryStep
  BY <1>1, <1>2, <1>17, <1>18, StoreStep DEF c
<1> QED BY <1>13, <1>19

LEMMA InitSound ==
  Init => AddressInv /\ Memory!Init
<1> SUFFICES ASSUME Init PROVE AddressInv /\ Memory!Init
  OBVIOUS
<1>1. /\ env \in Loads /\ used = env.held /\ data = [f \in Frames |-> Stale] /\ guards = {}
      /\ split = [h \in Huge |-> None] /\ task = [p \in Slots |-> NoTask]
  BY DEF Init, Huge
<1>2. used \in SUBSET Frames
  BY <1>1, LayoutAssumption
<1>3. Now.used = used /\ Now.guards = guards /\ Now.split = split /\ Now.data = data
  BY DEF Now
<1>4. MemorySound(Now, env.held)
  BY <1>1, <1>2, <1>3, ContentsPresent, FramesAreNat DEF MemorySound
<1>5. NoTask \in Tasks /\ NoTask.state = "none"
  BY EmptyTableTyped, NoLayoutSound, FramesAreNat DEF NoTask, Tasks
<1>6. \A p \in Slots : ~Live(p)
  BY <1>1, <1>5 DEF Live
<1>7. AddressInv
  BY <1>1, <1>4, <1>5, <1>6 DEF AddressInv
<1>8. Memory!Init
  BY <1>6 DEF Memory!Init, Memory!Gone
<1> QED BY <1>7, <1>8

\* Every step keeps the invariant, and is a step of the abstract memory.
LEMMA NextSound ==
  ASSUME AddressInv, [Next]_vars
  PROVE  AddressInv' /\ (SegmentsApart => MemoryStep)
<1>1. CASE UNCHANGED vars
  <2>1. /\ used' = used /\ data' = data /\ guards' = guards /\ split' = split /\ task' = task /\ env' = env
    BY <1>1 DEF vars
  <2>2. Now' = Now /\ \A p \in Slots : (Live(p)' <=> Live(p)) /\ View(p)' = View(p)
    BY <2>1 DEF Now, Live, View
  <2>3. AddressInv'
    BY <2>1, <2>2 DEF AddressInv
  <2>4. Views' = Views
    BY <2>2 DEF Views
  <2> QED BY <2>3, <2>4 DEF MemoryStep
<1>2. CASE Next
  <2>1. env' = env
    BY <1>2 DEF Next
  <2>2. CASE spawn_user
    BY <2>1, <2>2, SpawnUserStep
  <2>3. ASSUME NEW exe \in Exes, spawn_elf(exe) PROVE AddressInv' /\ (SegmentsApart => MemoryStep)
    BY <2>1, <2>3, SpawnElfStep
  <2>4. ASSUME NEW p \in Slots, exit_current(p) PROVE AddressInv' /\ (SegmentsApart => MemoryStep)
    BY <2>1, <2>4, ExitCurrentStep
  <2>5. ASSUME NEW p \in Slots, spawn_fork(p) PROVE AddressInv' /\ (SegmentsApart => MemoryStep)
    BY <2>1, <2>5, SpawnForkStep
  <2>6. ASSUME NEW p \in Slots, NEW exe \in Exes, NEW argv \in Vectors, NEW envp \in Vectors,
               execve_current(p, exe, argv, envp)
        PROVE  AddressInv' /\ (SegmentsApart => MemoryStep)
    BY <2>1, <2>6, ExecveStep
  <2>7. ASSUME NEW p \in Slots, NEW addr \in Breaks, sys_brk(p, addr)
        PROVE  AddressInv' /\ (SegmentsApart => MemoryStep)
    BY <2>1, <2>7, SysBrkStep
  <2>8. ASSUME NEW p \in Slots, NEW hint \in Hints, NEW write \in BOOLEAN, sys_mmap(p, hint, 1, write)
        PROVE  AddressInv' /\ (SegmentsApart => MemoryStep)
    BY <2>1, <2>8, SysMmapStep
  <2>9. ASSUME NEW p \in Slots, NEW page \in Touched, Store(p, page)
        PROVE  AddressInv' /\ (SegmentsApart => MemoryStep)
    BY <2>1, <2>9, StoreKeeps
  <2>10. ASSUME NEW p \in Slots, NEW page \in Touched, handle_user_page_fault(p, page)
         PROVE  AddressInv' /\ (SegmentsApart => MemoryStep)
    BY <2>1, <2>10, PageFaultStep
  <2> QED BY <1>2, <2>2, <2>3, <2>4, <2>5, <2>6, <2>7, <2>8, <2>9, <2>10 DEF Next
<1> QED BY <1>1, <1>2

\* The invariant of address spaces holds in every state.
THEOREM AddressInvariant ==
  Spec => []AddressInv
<1>1. Init => AddressInv
  BY InitSound
<1>2. AddressInv /\ [Next]_vars => AddressInv'
  BY NextSound
<1> QED BY <1>1, <1>2, PTL DEF Spec

-----------------------------------------------------------------------------
(***************************************************************************)
(* The properties                                                          *)
(***************************************************************************)

\* AddressTypeOK: in every reachable state a live task has a root, tables for
\* all that map_user_page and clone_user_page_table have mapped, and no
\* mapping below the user range.
THEOREM AddressTypeCorrect ==
  Spec => []AddressTypeOK
<1>1. AddressInv => AddressTypeOK
  <2> SUFFICES ASSUME AddressInv PROVE AddressTypeOK
    OBVIOUS
  <2>1. used \subseteq Frames /\ guards \subseteq used
    BY DEF AddressInv, MemorySound, Now
  <2>2. \A p \in Slots : task[p].state \in {"none", "live", "zombie"}
    BY DEF AddressInv, Tasks
  <2>3. ASSUME NEW p \in Slots, Live(p)
        PROVE  /\ task[p].pt.root \in Frames /\ task[p].guard \in Frames
               /\ \A page \in Mapped(task[p].pt) :
                    /\ page >= UserPage /\ task[p].pt.map[page].frame \in Frames
                    /\ \A i \in DOMAIN TablesOf(page) : TablesOf(page)[i] \in TablesIn(task[p].pt)
    <3>1. TaskSound(task[p], Now, env.held) /\ PtSound(task[p].pt)
      BY <2>3, TaskTyped
    <3>2. task[p].pt.root \in Frames /\ task[p].guard \in Frames
      BY <3>1 DEF TaskSound, PtSound
    <3>3. ASSUME NEW page \in Mapped(task[p].pt), NEW i \in DOMAIN TablesOf(page)
          PROVE  TablesOf(page)[i] \in TablesIn(task[p].pt)
      <4>1. Reached(task[p].pt, page) /\ page \in Pages /\ DOMAIN task[p].pt.tables = TableIds
        BY <3>1 DEF PtSound, Mapped, PageTables
      <4>2. {Top, Mid, LastTable(page)} \subseteq TableIds
        BY <4>1, LastTables DEF TableIds
      <4>3. CASE Arch = "x86_64"
        <5>1. TablesOf(page) = <<Top, Mid, LastTable(page)>>
          BY <4>3 DEF TablesOf, X86Tables
        <5>2. i \in 1 .. 3 /\ TablesOf(page)[i] \in {Top, Mid, LastTable(page)}
          BY <5>1
        <5> QED BY <4>1, <4>2, <4>3, <5>2 DEF Reached, TablesIn
      <4>4. CASE Arch # "x86_64"
        <5>1. TablesOf(page) = <<Mid, LastTable(page)>>
          BY <4>4 DEF TablesOf, Sv39Tables
        <5>2. i \in 1 .. 2 /\ TablesOf(page)[i] \in {Mid, LastTable(page)}
          BY <5>1
        <5> QED BY <4>1, <4>2, <5>2 DEF Reached, TablesIn
      <4> QED BY <4>3, <4>4
    <3>4. \A page \in Mapped(task[p].pt) : page >= UserPage /\ task[p].pt.map[page].frame \in Frames
      BY <3>1 DEF PtSound
    <3> QED BY <3>2, <3>3, <3>4
  <2> QED BY <2>1, <2>2, <2>3 DEF AddressTypeOK
<1> QED BY <1>1, AddressInvariant, PTL

\* The uses of a frame by a task, kind by kind.
RootUse(p) == [of |-> p, as |-> <<"root", 0>>, at |-> task[p].pt.root]
TableUse(p, t) == [of |-> p, as |-> <<"table", t>>, at |-> task[p].pt.tables[t]]
PageUse(p, page) == [of |-> p, as |-> <<"page", page>>, at |-> task[p].pt.map[page].frame]
StackUse(p, i) == [of |-> p, as |-> <<"stack", i>>, at |-> task[p].guard + i]
SplitUse(h) == [of |-> 0, as |-> <<"split", h>>, at |-> split[h]]

\* No frame of a task has two uses by it.
LEMMA OneUseInTask ==
  ASSUME AddressInv, NEW p \in Slots, Live(p)
  PROVE  /\ \A u \in Uses(p) : u.at \in Owned(task[p])
         /\ \A u, v \in Uses(p) : u.at = v.at => u = v
<1> DEFINE pt == task[p].pt
           Kind(u) == \/ u = RootUse(p)
                      \/ \E t \in TablesIn(pt) : u = TableUse(p, t)
                      \/ \E page \in Mapped(pt) : u = PageUse(p, page)
                      \/ \E i \in 1 .. StackFrames : u = StackUse(p, i)
<1>1. \A u \in Uses(p) : Kind(u)
  BY DEF Uses, RootUse, TableUse, PageUse, StackUse
<1>2. /\ RootUse(p).at = pt.root
      /\ \A t : TableUse(p, t).at = pt.tables[t]
      /\ \A page : PageUse(p, page).at = pt.map[page].frame
      /\ \A i : StackUse(p, i).at = task[p].guard + i
  BY DEF RootUse, TableUse, PageUse, StackUse
<1>3. TaskSound(task[p], Now, env.held) /\ PtSound(pt)
  BY TaskTyped
<1>4. task[p].guard \in Nat /\ StackFrames \in Nat
  BY <1>3, FramesAreNat, Constants DEF TaskSound
<1>5. \A i \in 1 .. StackFrames : task[p].guard + i \in StackOf(task[p])
  BY <1>4 DEF StackOf, Run
<1>6. /\ pt.root \in FramesIn(pt) /\ \A t \in TablesIn(pt) : pt.tables[t] \in FramesIn(pt)
      /\ \A page \in Mapped(pt) : pt.map[page].frame \in FramesIn(pt)
  BY DEF FramesIn
<1>7. \A i \in 1 .. StackFrames : task[p].guard + i \notin FramesIn(pt)
  BY <1>3, <1>5 DEF TaskSound
<1>8. \A i, j \in 1 .. StackFrames : task[p].guard + i = task[p].guard + j => i = j
  BY <1>4
<1> HIDE DEF Kind, pt
<1>9. ASSUME NEW u \in Uses(p) PROVE u.at \in Owned(task[p])
  BY <1>1, <1>2, <1>5, <1>6 DEF Kind, Owned, pt
<1>10. ASSUME NEW u \in Uses(p), NEW v \in Uses(p), u.at = v.at PROVE u = v
  <2>0. Kind(u) /\ Kind(v)
    BY <1>1
  <2>1. CASE u = RootUse(p)
    BY <1>2, <1>3, <1>6, <1>7, <1>10, <2>0, <2>1 DEF Kind, PtSound
  <2>2. ASSUME NEW t \in TablesIn(pt), u = TableUse(p, t) PROVE u = v
    BY <1>2, <1>3, <1>6, <1>7, <1>10, <2>0, <2>2 DEF Kind, PtSound
  <2>3. ASSUME NEW page \in Mapped(pt), u = PageUse(p, page) PROVE u = v
    BY <1>2, <1>3, <1>6, <1>7, <1>10, <2>0, <2>3 DEF Kind, PtSound
  <2>4. ASSUME NEW i \in 1 .. StackFrames, u = StackUse(p, i) PROVE u = v
    BY <1>2, <1>6, <1>7, <1>8, <1>10, <2>0, <2>4 DEF Kind
  <2> QED BY <2>0, <2>1, <2>2, <2>3, <2>4 DEF Kind
<1> QED BY <1>9, <1>10

\* FramesHaveOneUse: whatever spawn, fork, exec, brk, mmap and page faults have
\* allocated, and wherever they ran out, no frame has two uses and none in use
\* is a guard page or a frame of the kernel's.
THEOREM FramesUsedOnce ==
  Spec => []FramesHaveOneUse
<1>1. AddressInv => FramesHaveOneUse
  <2> SUFFICES ASSUME AddressInv PROVE FramesHaveOneUse
    OBVIOUS
  <2>1. /\ split \in [Huge -> FrameOrNone]
        /\ \A h \in Huge : split[h] # None => split[h] \in used \ (guards \cup env.held)
        /\ \A h, g \in Huge : split[h] # None /\ split[h] = split[g] => h = g
    BY DEF AddressInv, MemorySound, Now
  <2>2. \A u \in Splits : \E h \in Huge : split[h] # None /\ u = SplitUse(h)
    BY <2>1 DEF Splits, SplitUse
  <2>3. \A h : SplitUse(h).at = split[h]
    BY DEF SplitUse
  <2>4. \A u \in AllUses : u \in Splits \/ \E p \in Slots : Live(p) /\ u \in Uses(p)
    BY DEF AllUses
  <2>5. ASSUME NEW p \in Slots, Live(p)
        PROVE  /\ Owned(task[p]) \subseteq used \ (guards \cup env.held)
               /\ \A h \in Huge : split[h] \notin Owned(task[p])
               /\ \A u \in Uses(p) : u.at \in Owned(task[p])
               /\ \A u, v \in Uses(p) : u.at = v.at => u = v
    BY <2>5, TaskTyped, OneUseInTask DEF TaskSound, Now
  <2>6. \A u \in AllUses : u.at \in used \ (guards \cup env.held)
    BY <2>1, <2>2, <2>3, <2>4, <2>5
  <2>7. ASSUME NEW u \in AllUses, NEW v \in AllUses, u.at = v.at PROVE u = v
    <3>1. CASE u \in Splits /\ v \in Splits
      BY <2>1, <2>2, <2>3, <2>7, <3>1
    <3>2. ASSUME u \in Splits, NEW p \in Slots, Live(p), v \in Uses(p) PROVE FALSE
      BY <2>2, <2>3, <2>5, <2>7, <3>2
    <3>3. ASSUME v \in Splits, NEW p \in Slots, Live(p), u \in Uses(p) PROVE FALSE
      BY <2>2, <2>3, <2>5, <2>7, <3>3
    <3>4. ASSUME NEW p \in Slots, Live(p), u \in Uses(p), NEW q \in Slots, Live(q), v \in Uses(q)
          PROVE  u = v
      <4>1. u.at \in Owned(task[p]) /\ v.at \in Owned(task[q])
        BY <2>5, <3>4
      <4>2. p = q
        BY <2>7, <3>4, <4>1 DEF AddressInv
      <4> QED BY <2>5, <2>7, <3>4, <4>2
    <3> QED BY <2>4, <3>1, <3>2, <3>3, <3>4
  <2> QED BY <2>6, <2>7 DEF FramesHaveOneUse
<1> QED BY <1>1, AddressInvariant, PTL

\* InitialStackSound: for all argument vectors, the strings, the table and the
\* random bytes that setup_abi_stack lays out are disjoint and in the region.
THEOREM InitialStacksSound ==
  Spec => []InitialStackSound
<1>1. AddressInv => InitialStackSound
  BY TaskTyped DEF InitialStackSound, StackSound
<1> QED BY <1>1, AddressInvariant, PTL

\* IsUserMemory: tables, frames and copies implement a private memory for each
\* process, which only its own stores and calls change, on either architecture
\* and for programs whose segments share no page.
THEOREM MemoryIsPrivate ==
  ASSUME SegmentsApart
  PROVE  Spec => IsUserMemory
<1>1. Init => AddressInv /\ Memory!Init
  BY InitSound
<1>2. AddressInv /\ [Next]_vars => AddressInv' /\ MemoryStep
  BY NextSound
<1>3. MemoryStep => [Memory!Next]_[p \in Slots |-> IF Live(p) THEN View(p) ELSE <<>>]
  BY DEF MemoryStep, Views
<1> QED BY <1>1, <1>2, <1>3, PTL DEF Spec, IsUserMemory, Memory!Spec
=============================================================================
