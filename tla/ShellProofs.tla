---------------------------- MODULE ShellProofs -----------------------------
(***************************************************************************)
(* Proofs about the file system under the calls of processes and the       *)
(* commands of the shell, for any number of inodes, users, processes and   *)
(* paths, and, in the last part, about the shell's command line.           *)
(*                                                                         *)
(* What resolve returns is the end of a walk along the path.  Its local    *)
(* function is recursive, so that there is such a function, and only one,  *)
(* is itself proved, from the least length at which it would fail.         *)
(***************************************************************************)
EXTENDS Shell, WellFoundedInduction, TLAPS

Found == Inodes \cup {NoInode}
Table == [Inodes -> Inode]

-----------------------------------------------------------------------------
(***************************************************************************)
(* Least elements and walks                                                *)
(***************************************************************************)
LEMMA LeastElement ==
  ASSUME NEW T, T \subseteq Nat, T # {}
  PROVE  \E x \in T : \A y \in T : x <= y
<1>1. PICK x \in T : \A y \in T : ~(<<y, x>> \in OpToRel(<, Nat))
  BY NatLessThanWellFounded, WFMin
<1>2. \A y \in T : ~(y < x)
  BY <1>1 DEF OpToRel
<1>3. \A y \in T : x <= y
  BY <1>2
<1> QED BY <1>3

LEMMA FirstFound ==
  ASSUME NEW S, S \subseteq Inodes
  PROVE  /\ S = {} => First(S) = NoInode
         /\ S # {} => First(S) \in S
         /\ First(S) \in Found
         /\ First(S) = NoInode => S = {}
<1>1. Inodes \subseteq Nat /\ NoInode \notin Inodes
  BY FsAssumption DEF Inodes, NoInode
<1>2. S = {} => First(S) = NoInode
  BY DEF First
<1>3. S # {} => First(S) \in S
  <2> SUFFICES ASSUME S # {} PROVE First(S) \in S
    OBVIOUS
  <2>1. \E i \in S : \A j \in S : i <= j
    BY <1>1, LeastElement
  <2> QED BY <2>1 DEF First
<1> QED BY <1>1, <1>2, <1>3 DEF Found

LEMMA FieldTypes ==
  ASSUME NEW f \in Table, NEW i \in Inodes
  PROVE  /\ f[i] \in Inode
         /\ f[i].parent \in Inodes /\ f[i].used \in BOOLEAN /\ f[i].uid \in Uids
         /\ f[i].data \in [Offsets -> {"zero", "own", "old"}] /\ f[i].size \in 0 .. MaxData
BY DEF Table, Inode

LEMMA LookupFound ==
  ASSUME NEW f \in Table, NEW dir \in Inodes, NEW name
  PROVE  /\ lookup_in(f, dir, name) \in Found
         /\ lookup_in(f, dir, name) = NoInode =>
              /\ name \notin {".", ".."}
              /\ \A i \in Inodes : ~(ChildOf(f, dir, i) /\ f[i].name = name)
         /\ lookup_in(f, dir, name) # NoInode /\ name \notin {".", ".."} =>
              ChildOf(f, dir, lookup_in(f, dir, name)) /\ f[lookup_in(f, dir, name)].name = name
<1>1. f[dir].parent \in Inodes
  BY FieldTypes
<1>2. NoInode \notin Inodes
  BY FsAssumption DEF Inodes, NoInode
<1> DEFINE S == {i \in Inodes : ChildOf(f, dir, i) /\ f[i].name = name}
<1>3. /\ First(S) \in Found /\ (First(S) = NoInode => S = {})
      /\ First(S) # NoInode => First(S) \in S
  BY FirstFound
<1> QED BY <1>1, <1>2, <1>3 DEF lookup_in, Found

LEMMA WalkFound ==
  ASSUME NEW f \in Table, NEW cur \in Found, NEW name
  PROVE  Walk(f, cur, name) \in Found
BY LookupFound DEF Walk, Found

\* w is the list of the inodes on the way along parts, or NoInode from where
\* a part is not found.
Steps(f, start, parts, w, L) ==
  w[0] = start /\ \A n \in 1 .. L : w[n] = Walk(f, w[n - 1], parts[n])

Walks(f, start, parts, w) ==
  w \in [0 .. Len(parts) -> Found] /\ Steps(f, start, parts, w, Len(parts))

LEMMA WalkExists ==
  ASSUME NEW f \in Table, NEW start \in Found, NEW P, NEW parts \in Seq(P)
  PROVE  \E w : Walks(f, start, parts, w)
<1> DEFINE Reached(n) == \E w \in [0 .. n -> Found] :
             w[0] = start /\ \A k \in 1 .. n : w[k] = Walk(f, w[k - 1], parts[k])
           Bad == {n \in 0 .. Len(parts) : ~Reached(n)}
<1>1. Reached(0)
  <2> DEFINE w == [k \in 0 .. 0 |-> start]
  <2>1. w \in [0 .. 0 -> Found] /\ w[0] = start
    OBVIOUS
  <2>2. \A k \in 1 .. 0 : w[k] = Walk(f, w[k - 1], parts[k])
    OBVIOUS
  <2> HIDE DEF w
  <2> QED BY <2>1, <2>2
<1>2. ASSUME NEW n \in Nat, n + 1 <= Len(parts), Reached(n)
      PROVE  Reached(n + 1)
  <2>1. PICK w \in [0 .. n -> Found] :
          w[0] = start /\ \A k \in 1 .. n : w[k] = Walk(f, w[k - 1], parts[k])
    BY <1>2
  <2> DEFINE v == [k \in 0 .. n + 1 |-> IF k = n + 1 THEN Walk(f, w[n], parts[n + 1]) ELSE w[k]]
  <2>2. Walk(f, w[n], parts[n + 1]) \in Found
    BY WalkFound
  <2>3. v \in [0 .. n + 1 -> Found] /\ v[0] = start
    BY <2>1, <2>2
  <2>4. \A k \in 1 .. n + 1 : v[k] = Walk(f, v[k - 1], parts[k])
    BY <2>1
  <2> QED BY <2>3, <2>4
<1> HIDE DEF Reached
<1>3. Bad = {}
  <2> SUFFICES ASSUME Bad # {} PROVE FALSE
    OBVIOUS
  <2>1. Bad \subseteq Nat
    OBVIOUS
  <2>2. PICK n \in Bad : \A m \in Bad : n <= m
    BY <2>1, LeastElement
  <2>3. n # 0
    BY <1>1, <2>2
  <2>4. n - 1 \in 0 .. Len(parts) /\ n - 1 \notin Bad
    BY <2>2, <2>3
  <2>5. Reached(n - 1)
    BY <2>4
  <2>6. n - 1 \in Nat /\ (n - 1) + 1 = n /\ n <= Len(parts)
    BY <2>2, <2>3
  <2>7. Reached(n)
    BY <1>2, <2>5, <2>6
  <2> QED BY <2>2, <2>7
<1>4. Reached(Len(parts))
  BY <1>3
<1> QED BY <1>4 DEF Reached, Walks, Steps

\* A walk along a longer path goes the same way as far as the shorter goes.
LEMMA WalksAgree ==
  ASSUME NEW f, NEW start, NEW P, NEW parts \in Seq(P), NEW v, NEW w,
         NEW L \in 0 .. Len(parts),
         Steps(f, start, parts, v, L), Steps(f, start, parts, w, L)
  PROVE  v[L] = w[L]
<1> USE DEF Steps
<1> DEFINE Bad == {n \in 0 .. L : v[n] # w[n]}
<1> SUFFICES ASSUME Bad # {} PROVE FALSE
  OBVIOUS
<1>1. Bad \subseteq Nat
  OBVIOUS
<1>2. PICK n \in Bad : \A m \in Bad : n <= m
  BY <1>1, LeastElement
<1>3. n \in 1 .. L /\ n - 1 \in 0 .. L /\ n - 1 \notin Bad
  BY <1>2
<1>4. v[n - 1] = w[n - 1]
  BY <1>3
<1> QED BY <1>2, <1>3, <1>4

LEMMA ResolveWalks ==
  ASSUME NEW f \in Table, NEW path \in Path, NEW cwd1 \in Inodes, NEW w,
         Walks(f, IF path.abs THEN Root ELSE cwd1, path.parts, w)
  PROVE  resolve(f, path, cwd1) = w[Len(path.parts)]
<1> DEFINE start == IF path.abs THEN Root ELSE cwd1
           D == 0 .. Len(path.parts)
           Rule(c) == [n \in D |-> IF n = 0 THEN start ELSE Walk(f, c[n - 1], path.parts[n])]
           cur == CHOOSE c : c = Rule(c)
<1>0. path.parts \in Seq(Names \cup {".", ".."})
  BY DEF Path
<1>1. w = Rule(w)
  BY <1>0 DEF Walks, Steps
<1>2. cur = Rule(cur)
  <2> HIDE DEF Rule
  <2> QED BY <1>1
<1>3. resolve(f, path, cwd1) = cur[Len(path.parts)]
  BY DEF resolve
<1> HIDE DEF cur
<1>4. Steps(f, start, path.parts, cur, Len(path.parts))
  BY <1>0, <1>2, SMTT(40) DEF Steps
<1>5. Steps(f, start, path.parts, w, Len(path.parts))
  BY DEF Walks
<1>6. Len(path.parts) \in 0 .. Len(path.parts)
  BY <1>0
<1>7. cur[Len(path.parts)] = w[Len(path.parts)]
  <2> HIDE DEF start
  <2> QED BY <1>0, <1>4, <1>5, <1>6, WalksAgree
<1> QED BY <1>3, <1>7

LEMMA ResolveFound ==
  ASSUME NEW f \in Table, NEW path \in Path, NEW cwd1 \in Inodes
  PROVE  resolve(f, path, cwd1) \in Found
<1> DEFINE start == IF path.abs THEN Root ELSE cwd1
<1>0. path.parts \in Seq(Names \cup {".", ".."})
  BY DEF Path
<1>1. start \in Found
  BY FsAssumption DEF Found, Inodes, Root
<1>2. PICK w : Walks(f, start, path.parts, w)
  <2> HIDE DEF start
  <2> QED BY <1>0, <1>1, WalkExists
<1>3. resolve(f, path, cwd1) = w[Len(path.parts)]
  BY <1>2, ResolveWalks
<1> QED BY <1>0, <1>2, <1>3 DEF Walks

\* The path without its last component.
LEMMA FrontPath ==
  ASSUME NEW path \in Path, path.parts # <<>>
  PROVE  /\ [path EXCEPT !.parts = Front(@)] \in Path
         /\ [path EXCEPT !.parts = Front(@)].abs = path.abs
         /\ [path EXCEPT !.parts = Front(@)].parts = Front(path.parts)
         /\ Len(path.parts) \in Nat \ {0}
         /\ Len(Front(path.parts)) = Len(path.parts) - 1
         /\ \A n \in 1 .. Len(path.parts) - 1 : Front(path.parts)[n] = path.parts[n]
         /\ Last(path.parts) \in Names \cup {".", ".."}
<1>1. path.parts \in Seq(Names \cup {".", ".."}) /\ path.abs \in BOOLEAN
  BY DEF Path
<1>2. Front(path.parts) \in Seq(Names \cup {".", ".."})
  BY <1>1 DEF Front
<1>3. /\ Len(path.parts) \in Nat \ {0}
      /\ Len(Front(path.parts)) = Len(path.parts) - 1
      /\ \A n \in 1 .. Len(path.parts) - 1 : Front(path.parts)[n] = path.parts[n]
  BY <1>1 DEF Front
<1>4. Last(path.parts) \in Names \cup {".", ".."}
  BY <1>1, <1>3 DEF Last
<1>5. [path EXCEPT !.parts = Front(@)] \in Path
  BY <1>1, <1>2 DEF Path
<1>6. /\ [path EXCEPT !.parts = Front(@)].abs = path.abs
      /\ [path EXCEPT !.parts = Front(@)].parts = Front(path.parts)
  BY DEF Path
<1> QED BY <1>3, <1>4, <1>5, <1>6

LEMMA ParentFound ==
  ASSUME NEW f \in Table, NEW path \in Path, NEW cwd1 \in Inodes
  PROVE  ParentOf(f, path, cwd1) \in Found
BY ResolveFound, FrontPath DEF ParentOf, Found

\* A path is resolved by looking up its last component in what split_parent
\* and resolve give for the rest.
LEMMA ResolveLast ==
  ASSUME NEW f \in Table, NEW path \in Path, NEW cwd1 \in Inodes, path.parts # <<>>
  PROVE  resolve(f, path, cwd1) = Walk(f, ParentOf(f, path, cwd1), NameOf(path))
<1> DEFINE start == IF path.abs THEN Root ELSE cwd1
           L == Len(path.parts)
<1>0. path.parts \in Seq(Names \cup {".", ".."})
  BY DEF Path
<1>1. start \in Found
  BY FsAssumption DEF Found, Inodes, Root
<1>2. PICK w : Walks(f, start, path.parts, w)
  <2> HIDE DEF start
  <2> QED BY <1>0, <1>1, WalkExists
<1>3. resolve(f, path, cwd1) = w[L]
  BY <1>2, ResolveWalks
<1>4. PICK up : up = [path EXCEPT !.parts = Front(@)]
  OBVIOUS
<1>5. /\ up \in Path /\ up.abs = path.abs /\ up.parts = Front(path.parts)
      /\ L \in Nat \ {0} /\ Len(up.parts) = L - 1
      /\ \A n \in 1 .. L - 1 : up.parts[n] = path.parts[n]
  BY <1>4, FrontPath
<1> DEFINE v == [n \in 0 .. L - 1 |-> w[n]]
<1>6. Walks(f, start, up.parts, v)
  <2>1. v \in [0 .. L - 1 -> Found] /\ v[0] = start
    BY <1>2, <1>5 DEF Walks, Steps
  <2>2. \A n \in 1 .. L - 1 : v[n] = Walk(f, v[n - 1], up.parts[n])
    BY <1>2, <1>5 DEF Walks, Steps
  <2> HIDE DEF v, start
  <2> QED BY <2>1, <2>2, <1>5 DEF Walks, Steps
<1>7. resolve(f, up, cwd1) = v[L - 1]
  <2> HIDE DEF v
  <2>1. Walks(f, IF up.abs THEN Root ELSE cwd1, up.parts, v)
    BY <1>5, <1>6
  <2> QED BY <2>1, <1>5, ResolveWalks
<1>8. ParentOf(f, path, cwd1) = w[L - 1]
  BY <1>4, <1>5, <1>7 DEF ParentOf
<1>9. w[L] = Walk(f, w[L - 1], path.parts[L])
  BY <1>2, <1>5 DEF Walks, Steps
<1> QED BY <1>3, <1>8, <1>9 DEF NameOf, Last

\* What no path leads to is no entry of the directory above it.
LEMMA NotThere ==
  ASSUME NEW f \in Table, NEW path \in Path, NEW cwd1 \in Inodes,
         resolve(f, path, cwd1) = NoInode, ParentOf(f, path, cwd1) # NoInode
  PROVE  /\ path.parts # <<>>
         /\ ParentOf(f, path, cwd1) \in Inodes
         /\ lookup_in(f, ParentOf(f, path, cwd1), NameOf(path)) = NoInode
<1>1. ParentOf(f, path, cwd1) \in Inodes
  BY ParentFound DEF Found
<1>2. path.parts # <<>>
  <2> SUFFICES ASSUME path.parts = <<>> PROVE FALSE
    OBVIOUS
  <2>1. Len(path.parts) = 0 /\ Root \in Inodes /\ NoInode \notin Inodes
    BY FsAssumption DEF Inodes, Root, NoInode
  <2> DEFINE start == IF path.abs THEN Root ELSE cwd1
  <2>2. start \in Found /\ start # NoInode
    BY <2>1 DEF Found
  <2>3. PICK w : Walks(f, start, path.parts, w)
    <3> HIDE DEF start
    <3> QED BY <2>2, WalkExists DEF Path
  <2>4. resolve(f, path, cwd1) = w[0]
    BY <2>1, <2>3, ResolveWalks
  <2> QED BY <2>2, <2>3, <2>4 DEF Walks, Steps
<1>3. Walk(f, ParentOf(f, path, cwd1), NameOf(path)) = NoInode
  BY <1>2, ResolveLast
<1> QED BY <1>1, <1>2, <1>3 DEF Walk

-----------------------------------------------------------------------------
(***************************************************************************)
(* What is kept by every table of inodes, as a predicate on the table.     *)
(***************************************************************************)
RootIn(f) == f[Root].used /\ f[Root].kind = "Dir" /\ f[Root].parent = Root

\* No inode in use holds a byte of a file that is gone, not even beyond its
\* size: a write beyond the end brings such bytes into the file.
CleanIn(f) == \A i \in Inodes : f[i].used => \A o \in Offsets : f[i].data[o] # "old"

UniqueIn(f) ==
  \A dir \in Inodes, i, j \in Inodes :
    /\ ChildOf(f, dir, i) /\ ChildOf(f, dir, j)
    /\ f[i].name = f[j].name /\ f[i].name \notin {".", ".."}
    /\ NameLen[f[i].name] < MaxName
    => i = j

Sound(f) == f \in Table /\ RootIn(f) /\ CleanIn(f) /\ UniqueIn(f)

\* A change from f to g that the user uid may make.
Allowed(f, g, uid) ==
  uid # 0 =>
    \A i \in Inodes :
      /\ f[i].used /\ g[i].used
      /\ f[i].uid # uid /\ "w" \notin f[i].mode.oth
      => /\ g[i].data = f[i].data /\ g[i].size = f[i].size
         /\ g[i].mode = f[i].mode /\ g[i].uid = f[i].uid

\* No entry of dir other than i has the name, unless it is one of those that
\* may be there twice.
NameFree(f, dir, i, name) ==
  \/ name \in {".", ".."} \/ ~(NameLen[name] < MaxName)
  \/ \A j \in Inodes : ChildOf(f, dir, j) /\ f[j].name = name => j = i

\* f and g differ at i only.
OnlyAt(f, g, i) == g \in Table /\ \A j \in Inodes : j # i => g[j] = f[j]

\* What set_name stores is short enough, and is the name itself when it is
\* shorter than an inode has room for.
LEMMA CutName ==
  ASSUME NEW name \in AllNames
  PROVE  /\ set_name(name) \in StoredNames
         /\ NameLen[set_name(name)] < MaxName => set_name(name) = name
<1>1. PICK cut : cut = Prefix[name][MaxName]
  OBVIOUS
<1>2. MaxName \in 0 .. MaxName /\ MaxName \in Nat /\ NameLen[name] \in Nat
  BY NameAssumption
<1>3. cut \in AllNames /\ NameLen[cut] = Least(MaxName, NameLen[name])
  BY <1>1, <1>2, NameAssumption
<1>4. NameLen[name] <= MaxName => cut = name
  BY <1>1, <1>2, NameAssumption
<1>5. NameLen[cut] <= MaxName /\ (NameLen[cut] < MaxName => NameLen[name] <= MaxName)
  BY <1>2, <1>3 DEF Least
<1> QED BY <1>1, <1>3, <1>4, <1>5 DEF set_name, StoredNames

\* A name that lookup_in does not find is free, cut as it may be.
LEMMA CutNameFree ==
  ASSUME NEW f \in Table, NEW dir \in Inodes, NEW name \in AllNames, NEW i,
         lookup_in(f, dir, name) = NoInode
  PROVE  NameFree(f, dir, i, set_name(name))
BY CutName, LookupFound DEF NameFree

LEMMA RootInodes == Root \in Inodes /\ NoInode \notin Inodes
BY FsAssumption DEF Root, NoInode, Inodes

\* A change at one inode keeps a table sound when it leaves the root alone,
\* the bytes clean and the name free.
LEMMA OneChange ==
  ASSUME NEW f, NEW g, NEW i \in Inodes, Sound(f), OnlyAt(f, g, i),
         i = Root => g[i].used /\ g[i].kind = "Dir" /\ g[i].parent = Root,
         g[i].used => \A o \in Offsets : g[i].data[o] # "old",
         g[i].used /\ g[i].parent # i => NameFree(f, g[i].parent, i, g[i].name)
  PROVE  Sound(g)
<1> USE RootInodes DEF Sound, OnlyAt
<1>1. RootIn(g)
  BY DEF RootIn
<1>2. CleanIn(g)
  BY DEF CleanIn
<1>3. UniqueIn(g)
  <2> SUFFICES ASSUME NEW dir \in Inodes, NEW a \in Inodes, NEW b \in Inodes,
                      ChildOf(g, dir, a), ChildOf(g, dir, b),
                      g[a].name = g[b].name, g[a].name \notin {".", ".."},
                      NameLen[g[a].name] < MaxName
               PROVE  a = b
    BY DEF UniqueIn
  <2>1. CASE a # i /\ b # i
    BY <2>1 DEF UniqueIn, ChildOf
  <2>2. CASE a = i /\ b # i
    BY <2>2 DEF NameFree, ChildOf
  <2>3. CASE a # i /\ b = i
    BY <2>3 DEF NameFree, ChildOf
  <2> QED BY <2>1, <2>2, <2>3
<1> QED BY <1>1, <1>2, <1>3

\* An entry that stays where it is has its name to itself.
LEMMA NameStaysFree ==
  ASSUME NEW f, NEW i \in Inodes, Sound(f), f[i].used, i # f[i].parent
  PROVE  NameFree(f, f[i].parent, i, f[i].name)
<1>1. f[i].parent \in Inodes
  BY FieldTypes DEF Sound
<1> QED BY <1>1 DEF Sound, UniqueIn, NameFree, ChildOf

\* A change of an inode's owner, mode, size or bytes.
LEMMA FieldsChange ==
  ASSUME NEW f, NEW g, NEW i \in Inodes, Sound(f), OnlyAt(f, g, i),
         g[i].used = f[i].used, g[i].kind = f[i].kind,
         g[i].parent = f[i].parent, g[i].name = f[i].name,
         \A o \in Offsets : g[i].data[o] = "old" => f[i].data[o] = "old"
  PROVE  Sound(g)
<1>1. i = Root => g[i].used /\ g[i].kind = "Dir" /\ g[i].parent = Root
  BY DEF Sound, RootIn
<1>2. g[i].used => \A o \in Offsets : g[i].data[o] # "old"
  BY DEF Sound, CleanIn
<1>3. g[i].used /\ g[i].parent # i => NameFree(f, g[i].parent, i, g[i].name)
  BY NameStaysFree
<1> QED BY <1>1, <1>2, <1>3, OneChange

-----------------------------------------------------------------------------
(***************************************************************************)
(* The ways in which the operations change the table                       *)
(***************************************************************************)
LEMMA EmptyInodeTyped ==
  /\ EmptyInode \in Inode
  /\ \A o \in Offsets : EmptyInode.data[o] = "zero"
<1>1. [o \in Offsets |-> "zero"] \in [Offsets -> {"zero", "own", "old"}]
  OBVIOUS
<1>2. Root \in Inodes /\ 0 \in 0 .. MaxData /\ 0 \in Uids /\ Mode644 \in Modes
  BY RootInodes, FsAssumption
<1>3. EmptyName \in StoredNames
  BY NameAssumption DEF StoredNames, AllNames
<1> QED BY <1>1, <1>2, <1>3 DEF EmptyInode, Inode

\* alloc, and what the caller fills in.
LEMMA NewInodeSound ==
  ASSUME NEW f, Sound(f), NEW i \in Inodes \ {Root}, ~f[i].used,
         NEW kind \in {"File", "Dir"}, NEW parent \in Inodes, NEW name \in AllNames,
         NEW uid \in Uids, NEW mode \in Modes,
         NameFree(f, parent, i, set_name(name))
  PROVE  /\ Sound(NewInode(f, i, kind, parent, name, uid, mode))
         /\ NewInode(f, i, kind, parent, name, uid, mode)[i].used
         /\ NewInode(f, i, kind, parent, name, uid, mode)[i].kind = kind
         /\ OnlyAt(f, NewInode(f, i, kind, parent, name, uid, mode), i)
<1> DEFINE made == [EmptyInode EXCEPT !.used = TRUE, !.kind = kind, !.parent = parent,
                                      !.name = set_name(name), !.uid = uid, !.mode = mode]
           g == NewInode(f, i, kind, parent, name, uid, mode)
<1>1. made \in Inode
  BY EmptyInodeTyped, CutName DEF Inode
<1>2. /\ made.used = TRUE /\ made.kind = kind /\ made.parent = parent /\ made.name = set_name(name)
      /\ made.data = EmptyInode.data
  BY EmptyInodeTyped DEF Inode
<1>3. g = [f EXCEPT ![i] = made]
  BY DEF NewInode
<1> HIDE DEF made, g
<1>4. OnlyAt(f, g, i) /\ g[i] = made
  BY <1>1, <1>3 DEF OnlyAt, Sound, Table
<1>5. Sound(g)
  <2>1. \A o \in Offsets : g[i].data[o] # "old"
    BY <1>2, <1>4, EmptyInodeTyped
  <2>2. NameFree(f, g[i].parent, i, g[i].name)
    BY <1>2, <1>4
  <2> QED BY <2>1, <2>2, <1>4, OneChange
<1> QED BY <1>2, <1>4, <1>5 DEF g

\* unlink, rmdir and rename free an inode.
LEMMA FreeSound ==
  ASSUME NEW f, Sound(f), NEW i \in Inodes \ {Root}
  PROVE  /\ Sound(FreeOf(f, i)) /\ OnlyAt(f, FreeOf(f, i), i)
         /\ ~FreeOf(f, i)[i].used
<1> DEFINE g == FreeOf(f, i)
           bytes == [o \in Offsets |-> IF f[i].data[o] = "zero" THEN "zero" ELSE "old"]
           inode == [f[i] EXCEPT !.used = FALSE, !.data = bytes]
<1>1. f[i] \in Inode /\ f \in Table
  BY FieldTypes DEF Sound
<1>2. bytes \in [Offsets -> {"zero", "own", "old"}]
  OBVIOUS
<1>3. g = [f EXCEPT ![i] = inode]
  BY <1>1 DEF FreeOf, Table, Inode
<1> HIDE DEF bytes, g
<1>4. inode \in Inode /\ inode.used = FALSE
  BY <1>1, <1>2 DEF Inode
<1> HIDE DEF inode
<1>5. OnlyAt(f, g, i) /\ g[i] = inode
  BY <1>1, <1>3, <1>4 DEF OnlyAt, Table
<1>6. Sound(g)
  BY <1>4, <1>5, OneChange
<1> QED BY <1>4, <1>5, <1>6 DEF g

\* The bytes from lo to hi are written, and the size is set.
LEMMA FillSound ==
  ASSUME NEW f, Sound(f), NEW i \in Inodes, NEW lo \in Nat, NEW hi \in Nat,
         NEW n \in 0 .. MaxData
  PROVE  /\ Sound([PutBytes(f, i, lo, hi) EXCEPT ![i].size = n])
         /\ OnlyAt(f, [PutBytes(f, i, lo, hi) EXCEPT ![i].size = n], i)
<1> DEFINE g == [PutBytes(f, i, lo, hi) EXCEPT ![i].size = n]
           bytes == [o \in Offsets |-> IF lo <= o /\ o < hi THEN "own" ELSE f[i].data[o]]
           inode == [f[i] EXCEPT !.data = bytes, !.size = n]
<1>1. f[i] \in Inode /\ f \in Table /\ f[i].data \in [Offsets -> {"zero", "own", "old"}]
  BY FieldTypes DEF Sound
<1>2. /\ bytes \in [Offsets -> {"zero", "own", "old"}]
      /\ \A o \in Offsets : bytes[o] = "old" => f[i].data[o] = "old"
  BY <1>1
<1>3. g = [f EXCEPT ![i] = inode]
  BY <1>1 DEF PutBytes, Table, Inode
<1> HIDE DEF bytes, g
<1>4. /\ inode \in Inode /\ inode.data = bytes
      /\ inode.used = f[i].used /\ inode.kind = f[i].kind
      /\ inode.parent = f[i].parent /\ inode.name = f[i].name
  BY <1>1, <1>2 DEF Inode
<1> HIDE DEF inode
<1>5. OnlyAt(f, g, i) /\ g[i] = inode
  BY <1>1, <1>3, <1>4 DEF OnlyAt, Table
<1>6. /\ g[i].used = f[i].used /\ g[i].kind = f[i].kind
      /\ g[i].parent = f[i].parent /\ g[i].name = f[i].name
  BY <1>4, <1>5
<1>7. \A o \in Offsets : g[i].data[o] = "old" => f[i].data[o] = "old"
  BY <1>2, <1>4, <1>5
<1>8. Sound(g)
  BY <1>5, <1>6, <1>7, FieldsChange
<1> QED BY <1>5, <1>8 DEF g

\* rename gives an inode another directory and name.
Renamed(f, s, parent, name) == [f EXCEPT ![s].parent = parent, ![s].name = name]

LEMMA MoveSound ==
  ASSUME NEW f, Sound(f), NEW s \in Inodes \ {Root}, NEW parent \in Inodes,
         NEW name \in StoredNames, NameFree(f, parent, s, name)
  PROVE  LET g == Renamed(f, s, parent, name)
         IN  /\ Sound(g) /\ OnlyAt(f, g, s)
             /\ g[s].data = f[s].data /\ g[s].size = f[s].size
             /\ g[s].mode = f[s].mode /\ g[s].uid = f[s].uid
<1> DEFINE g == Renamed(f, s, parent, name)
           inode == [f[s] EXCEPT !.parent = parent, !.name = name]
<1>1. f[s] \in Inode /\ f \in Table
  BY FieldTypes DEF Sound
<1>2. g = [f EXCEPT ![s] = inode]
  BY <1>1 DEF Renamed, Table, Inode
<1>3. /\ inode \in Inode /\ inode.parent = parent /\ inode.name = name
      /\ inode.data = f[s].data /\ inode.size = f[s].size
      /\ inode.mode = f[s].mode /\ inode.uid = f[s].uid /\ inode.used = f[s].used
  BY <1>1 DEF Inode
<1> HIDE DEF inode, g
<1>4. OnlyAt(f, g, s) /\ g[s] = inode
  BY <1>1, <1>2, <1>3 DEF OnlyAt, Table
<1>5. g[s].used => \A o \in Offsets : g[s].data[o] # "old"
  BY <1>3, <1>4 DEF Sound, CleanIn
<1>6. NameFree(f, g[s].parent, s, g[s].name)
  BY <1>3, <1>4
<1>7. Sound(g)
  BY <1>4, <1>5, <1>6, OneChange
<1> QED BY <1>3, <1>4, <1>7 DEF g

LEMMA ModeSound ==
  ASSUME NEW f, Sound(f), NEW i \in Inodes, NEW mode \in Modes
  PROVE  Sound([f EXCEPT ![i].mode = mode]) /\ OnlyAt(f, [f EXCEPT ![i].mode = mode], i)
<1> DEFINE g == [f EXCEPT ![i].mode = mode]
           inode == [f[i] EXCEPT !.mode = mode]
<1>1. f[i] \in Inode /\ f \in Table
  BY FieldTypes DEF Sound
<1>2. g = [f EXCEPT ![i] = inode]
  BY <1>1 DEF Table, Inode
<1>3. /\ inode \in Inode /\ inode.data = f[i].data
      /\ inode.used = f[i].used /\ inode.kind = f[i].kind
      /\ inode.parent = f[i].parent /\ inode.name = f[i].name
  BY <1>1 DEF Inode
<1> HIDE DEF inode, g
<1>4. OnlyAt(f, g, i) /\ g[i] = inode
  BY <1>1, <1>2, <1>3 DEF OnlyAt, Table
<1>5. Sound(g)
  BY <1>3, <1>4, FieldsChange
<1> QED BY <1>4, <1>5 DEF g

LEMMA OwnerSound ==
  ASSUME NEW f, Sound(f), NEW i \in Inodes, NEW owner \in Uids
  PROVE  Sound([f EXCEPT ![i].uid = owner])
<1> DEFINE g == [f EXCEPT ![i].uid = owner]
           inode == [f[i] EXCEPT !.uid = owner]
<1>1. f[i] \in Inode /\ f \in Table
  BY FieldTypes DEF Sound
<1>2. g = [f EXCEPT ![i] = inode]
  BY <1>1 DEF Table, Inode
<1>3. /\ inode \in Inode /\ inode.data = f[i].data
      /\ inode.used = f[i].used /\ inode.kind = f[i].kind
      /\ inode.parent = f[i].parent /\ inode.name = f[i].name
  BY <1>1 DEF Inode
<1> HIDE DEF inode, g
<1>4. OnlyAt(f, g, i) /\ g[i] = inode
  BY <1>1, <1>2, <1>3 DEF OnlyAt, Table
<1>5. Sound(g)
  BY <1>3, <1>4, FieldsChange
<1> QED BY <1>5 DEF g

\* A change at one inode is allowed when the user owns it or may write it, or
\* when it is not one file that changes.
LEMMA AllowedAt ==
  ASSUME NEW f, NEW g, NEW i \in Inodes, NEW uid, OnlyAt(f, g, i),
         \/ ~f[i].used \/ ~g[i].used
         \/ f[i].uid = uid \/ "w" \in f[i].mode.oth \/ uid = 0
  PROVE  Allowed(f, g, uid)
BY DEF Allowed, OnlyAt

LEMMA AllowedSame ==
  ASSUME NEW f, NEW uid
  PROVE  Allowed(f, f, uid)
BY DEF Allowed

\* perm lets a user other than root write what it owns or all may write.
LEMMA PermWrites ==
  ASSUME NEW f, NEW i, NEW uid, perm(f, i, uid, "w")
  PROVE  f[i].uid = uid \/ "w" \in f[i].mode.oth \/ uid = 0
BY DEF perm

LEMMA FreeInodeFound ==
  ASSUME NEW f \in Table, FreeInode(f) # NoInode
  PROVE  FreeInode(f) \in Inodes \ {Root} /\ ~f[FreeInode(f)].used
<1> DEFINE S == {i \in Inodes \ {Root} : ~f[i].used}
<1>1. S \subseteq Inodes
  OBVIOUS
<1>2. S = {} => First(S) = NoInode
  BY <1>1, FirstFound
<1>3. S # {} => First(S) \in S
  BY <1>1, FirstFound
<1> QED BY <1>2, <1>3 DEF FreeInode

LEMMA NameTyped ==
  ASSUME NEW path \in Path
  PROVE  NameOf(path) \in AllNames
BY FrontPath DEF NameOf, AllNames

-----------------------------------------------------------------------------
(***************************************************************************)
(* The operations keep a table sound, and a user within its permissions.   *)
(***************************************************************************)
\* What an operation of user uid makes of the table f.
Good(f, g, uid) == Sound(g) /\ Allowed(f, g, uid)

LEMMA GoodSame ==
  ASSUME NEW f, Sound(f), NEW uid
  PROVE  Good(f, f, uid)
BY AllowedSame DEF Good

LEMMA FailedGood ==
  ASSUME NEW f, Sound(f), NEW uid
  PROVE  Good(f, Failed(f).fs, uid) /\ Failed(f).ok = FALSE
<1>1. Failed(f).fs = f /\ Failed(f).ok = FALSE
  BY DEF Failed, Result
<1> QED BY <1>1, GoodSame

LEMMA DoneGood ==
  ASSUME NEW f, NEW g, NEW uid, Sound(g), Allowed(f, g, uid)
  PROVE  Good(f, Result(TRUE, g).fs, uid) /\ Result(TRUE, g).fs = g
<1>1. Result(TRUE, g).fs = g
  BY DEF Result
<1> QED BY <1>1 DEF Good

\* What makes or frees inodes changes no file, whoever asks for it: user v
\* need not be the one that acts.
LEMMA CreateGood ==
  ASSUME NEW f, Sound(f), NEW path \in Path, NEW dir \in Inodes, NEW uid \in Uids, NEW v,
         resolve(f, path, dir) = NoInode
  PROVE  LET made == CreateFile(f, path, dir, uid)
         IN  /\ Good(f, made.fs, v)
             /\ made.ok => /\ FreeInode(f) \in Inodes \ {Root} /\ ~f[FreeInode(f)].used
                           /\ OnlyAt(f, made.fs, FreeInode(f))
<1> DEFINE parent == ParentOf(f, path, dir)
           i == FreeInode(f)
           bad == parent = NoInode \/ i = NoInode \/ ~perm(f, parent, uid, "w")
           g == NewInode(f, i, "File", parent, NameOf(path), uid, Mode644)
           made == CreateFile(f, path, dir, uid)
<1>0. f \in Table
  BY DEF Sound
<1>1. CASE bad
  <2>1. made = Failed(f)
    BY <1>1 DEF CreateFile
  <2> QED BY <2>1, FailedGood
<1>2. CASE ~bad
  <2>1. made = Result(TRUE, g)
    BY <1>2 DEF CreateFile
  <2>2. i \in Inodes \ {Root} /\ ~f[i].used
    BY <1>0, <1>2, FreeInodeFound
  <2>3. parent \in Inodes /\ lookup_in(f, parent, NameOf(path)) = NoInode
    BY <1>0, <1>2, NotThere
  <2> HIDE DEF parent, i, made
  <2>4. NameFree(f, parent, i, set_name(NameOf(path)))
    BY <1>0, <2>3, NameTyped, CutNameFree
  <2>5. Sound(g) /\ OnlyAt(f, g, i)
    BY <2>2, <2>3, <2>4, NewInodeSound, NameTyped, FsAssumption
  <2>6. Allowed(f, g, v)
    <3> HIDE DEF g
    <3> QED BY <2>2, <2>5, AllowedAt
  <2> HIDE DEF g
  <2>7. Good(f, made.fs, v) /\ made.fs = g
    BY <2>1, <2>5, <2>6, DoneGood
  <2> QED BY <2>2, <2>5, <2>7 DEF made, i
<1> QED BY <1>1, <1>2

LEMMA TouchGood ==
  ASSUME NEW f, Sound(f), NEW path \in Path, NEW dir \in Inodes, NEW uid \in Uids, NEW v
  PROVE  Good(f, touch(f, path, dir, uid).fs, v)
<1>1. CASE resolve(f, path, dir) # NoInode
  <2>1. touch(f, path, dir, uid) = Result(TRUE, f)
    BY <1>1 DEF touch
  <2> QED BY <2>1, DoneGood, AllowedSame
<1>2. CASE resolve(f, path, dir) = NoInode
  BY <1>2, CreateGood DEF touch
<1> QED BY <1>1, <1>2

LEMMA MkdirGood ==
  ASSUME NEW f, Sound(f), NEW path \in Path, NEW dir \in Inodes,
         NEW uid \in Uids, NEW v, NEW mode \in Modes
  PROVE  Good(f, mkdir(f, path, dir, uid, mode).fs, v)
<1> DEFINE parent == ParentOf(f, path, dir)
           i == FreeInode(f)
           bad == \/ parent = NoInode \/ i = NoInode
                  \/ ~IsDir(f, parent) \/ ~perm(f, parent, uid, "w")
                  \/ lookup_in(f, parent, NameOf(path)) # NoInode
           g == NewInode(f, i, "Dir", parent, NameOf(path), uid, mode)
<1>0. f \in Table
  BY DEF Sound
<1>1. CASE bad
  <2>1. mkdir(f, path, dir, uid, mode) = Failed(f)
    BY <1>1 DEF mkdir
  <2> QED BY <2>1, FailedGood
<1>2. CASE ~bad
  <2>1. mkdir(f, path, dir, uid, mode) = Result(TRUE, g)
    BY <1>2 DEF mkdir
  <2>2. i \in Inodes \ {Root} /\ ~f[i].used
    BY <1>0, <1>2, FreeInodeFound
  <2>3. parent \in Inodes /\ lookup_in(f, parent, NameOf(path)) = NoInode
    BY <1>0, <1>2, ParentFound DEF Found
  <2> HIDE DEF parent, i
  <2>4. NameFree(f, parent, i, set_name(NameOf(path)))
    BY <1>0, <2>3, NameTyped, CutNameFree
  <2>5. Sound(g) /\ OnlyAt(f, g, i)
    BY <2>2, <2>3, <2>4, NewInodeSound, NameTyped
  <2> HIDE DEF g
  <2>6. Allowed(f, g, v)
    BY <2>2, <2>5, AllowedAt
  <2> QED BY <2>1, <2>5, <2>6, DoneGood
<1> QED BY <1>1, <1>2

LEMMA FreeGood ==
  ASSUME NEW f, Sound(f), NEW i \in Inodes \ {Root}, NEW uid
  PROVE  Good(f, FreeOf(f, i), uid)
<1>1. PICK g : g = FreeOf(f, i)
  OBVIOUS
<1>2. Sound(g) /\ OnlyAt(f, g, i) /\ ~g[i].used
  BY <1>1, FreeSound
<1>3. Allowed(f, g, uid)
  BY <1>2, AllowedAt
<1> QED BY <1>1, <1>2, <1>3 DEF Good

LEMMA RmdirGood ==
  ASSUME NEW f, Sound(f), NEW path \in Path, NEW dir \in Inodes, NEW uid \in Uids, NEW v
  PROVE  Good(f, rmdir(f, path, dir, uid).fs, v)
<1> DEFINE i == resolve(f, path, dir)
           r == rmdir(f, path, dir, uid)
<1>1. r = Failed(f) \/ (i \notin {NoInode, Root} /\ r = Result(TRUE, FreeOf(f, i)))
  BY DEF rmdir
<1>2. i \in Found
  BY ResolveFound DEF Sound
<1> HIDE DEF i, r
<1>3. CASE r = Failed(f)
  BY <1>3, FailedGood DEF r
<1>4. CASE i \notin {NoInode, Root} /\ r = Result(TRUE, FreeOf(f, i))
  <2>1. i \in Inodes \ {Root}
    BY <1>2, <1>4 DEF Found
  <2>2. Sound(FreeOf(f, i)) /\ Allowed(f, FreeOf(f, i), v)
    BY <2>1, FreeGood DEF Good
  <2> QED BY <1>4, <2>2, DoneGood DEF r
<1> QED BY <1>1, <1>3, <1>4

LEMMA UnlinkGood ==
  ASSUME NEW f, Sound(f), NEW path \in Path, NEW dir \in Inodes, NEW uid \in Uids, NEW v
  PROVE  Good(f, unlink(f, path, dir, uid).fs, v)
<1> DEFINE i == resolve(f, path, dir)
           r == unlink(f, path, dir, uid)
<1>1. r = Failed(f) \/ (i \notin {NoInode, Root} /\ r = Result(TRUE, FreeOf(f, i)))
  BY DEF unlink
<1>2. i \in Found
  BY ResolveFound DEF Sound
<1> HIDE DEF i, r
<1>3. CASE r = Failed(f)
  BY <1>3, FailedGood DEF r
<1>4. CASE i \notin {NoInode, Root} /\ r = Result(TRUE, FreeOf(f, i))
  <2>1. i \in Inodes \ {Root}
    BY <1>2, <1>4 DEF Found
  <2>2. Sound(FreeOf(f, i)) /\ Allowed(f, FreeOf(f, i), v)
    BY <2>1, FreeGood DEF Good
  <2> QED BY <1>4, <2>2, DoneGood DEF r
<1> QED BY <1>1, <1>3, <1>4

LEMMA ChmodGood ==
  ASSUME NEW f, Sound(f), NEW path \in Path, NEW dir \in Inodes,
         NEW mode \in Modes, NEW uid \in Uids
  PROVE  Good(f, chmod(f, path, dir, mode, uid).fs, uid)
<1> DEFINE i == resolve(f, path, dir)
           r == chmod(f, path, dir, mode, uid)
<1>1. \/ r = Failed(f)
      \/ /\ i # NoInode /\ (uid = 0 \/ f[i].uid = uid)
         /\ r = Result(TRUE, [f EXCEPT ![i].mode = mode])
  BY DEF chmod
<1>2. i \in Found
  BY ResolveFound DEF Sound
<1> HIDE DEF i, r
<1>3. CASE r = Failed(f)
  BY <1>3, FailedGood DEF r
<1>4. CASE /\ i # NoInode /\ (uid = 0 \/ f[i].uid = uid)
           /\ r = Result(TRUE, [f EXCEPT ![i].mode = mode])
  <2>1. PICK g : g = [f EXCEPT ![i].mode = mode]
    OBVIOUS
  <2>2. i \in Inodes
    BY <1>2, <1>4 DEF Found
  <2>3. Sound(g) /\ OnlyAt(f, g, i)
    BY <2>1, <2>2, ModeSound
  <2>4. Allowed(f, g, uid)
    BY <1>4, <2>2, <2>3, AllowedAt
  <2> QED BY <1>4, <2>1, <2>3, <2>4, DoneGood DEF r
<1> QED BY <1>1, <1>3, <1>4

LEMMA ChownGood ==
  ASSUME NEW f, Sound(f), NEW path \in Path, NEW dir \in Inodes,
         NEW owner \in Uids, NEW uid \in Uids
  PROVE  Good(f, chown(f, path, dir, owner, uid).fs, uid)
<1> DEFINE i == resolve(f, path, dir)
           r == chown(f, path, dir, owner, uid)
<1>1. \/ r = Failed(f)
      \/ i # NoInode /\ uid = 0 /\ r = Result(TRUE, [f EXCEPT ![i].uid = owner])
  BY DEF chown
<1>2. i \in Found
  BY ResolveFound DEF Sound
<1> HIDE DEF i, r
<1>3. CASE r = Failed(f)
  BY <1>3, FailedGood DEF r
<1>4. CASE i # NoInode /\ uid = 0 /\ r = Result(TRUE, [f EXCEPT ![i].uid = owner])
  <2>1. PICK g : g = [f EXCEPT ![i].uid = owner]
    OBVIOUS
  <2>2. i \in Inodes
    BY <1>2, <1>4 DEF Found
  <2>3. Sound(g)
    BY <2>1, <2>2, OwnerSound
  <2>4. Allowed(f, g, uid)
    BY <1>4 DEF Allowed
  <2> QED BY <1>4, <2>1, <2>3, <2>4, DoneGood DEF r
<1> QED BY <1>1, <1>3, <1>4

\* write to a file that is there, and to one that it makes.
LEMMA WriteGood ==
  ASSUME NEW f, Sound(f), NEW path \in Path, NEW dir \in Inodes, NEW len \in Nat, NEW uid \in Uids
  PROVE  Good(f, write(f, path, dir, len, uid).fs, uid)
<1> DEFINE i == resolve(f, path, dir)
           n == Least(len, MaxData)
           made == CreateFile(f, path, dir, uid)
           k == FreeInode(f)
           r == write(f, path, dir, len, uid)
<1>0. n \in 0 .. MaxData /\ n \in Nat /\ 0 \in Nat
  BY FsAssumption DEF Least
<1>1. i \in Found
  BY ResolveFound DEF Sound
<1>2. \/ r = Failed(f)
      \/ /\ i # NoInode /\ perm(f, i, uid, "w")
         /\ r = Result(TRUE, [PutBytes(f, i, 0, n) EXCEPT ![i].size = n])
      \/ /\ i = NoInode /\ made.ok
         /\ r = Result(TRUE, [PutBytes(made.fs, k, 0, n) EXCEPT ![k].size = n])
  BY DEF write
<1>3. i = NoInode /\ made.ok => /\ Sound(made.fs) /\ OnlyAt(f, made.fs, k)
                                /\ k \in Inodes \ {Root} /\ ~f[k].used
  BY CreateGood DEF Good
<1> HIDE DEF i, n, made, k, r
<1>4. CASE r = Failed(f)
  BY <1>4, FailedGood DEF r
<1>5. CASE /\ i # NoInode /\ perm(f, i, uid, "w")
           /\ r = Result(TRUE, [PutBytes(f, i, 0, n) EXCEPT ![i].size = n])
  <2>1. i \in Inodes
    BY <1>1, <1>5 DEF Found
  <2>2. PICK g : g = [PutBytes(f, i, 0, n) EXCEPT ![i].size = n]
    OBVIOUS
  <2>3. Sound(g) /\ OnlyAt(f, g, i)
    BY <1>0, <2>1, <2>2, FillSound
  <2>4. f[i].uid = uid \/ "w" \in f[i].mode.oth \/ uid = 0
    BY <1>5, PermWrites
  <2>5. Allowed(f, g, uid)
    BY <2>1, <2>3, <2>4, AllowedAt
  <2> QED BY <1>5, <2>2, <2>3, <2>5, DoneGood DEF r
<1>6. CASE /\ i = NoInode /\ made.ok
           /\ r = Result(TRUE, [PutBytes(made.fs, k, 0, n) EXCEPT ![k].size = n])
  <2>1. PICK m : m = made.fs
    OBVIOUS
  <2>2. Sound(m) /\ OnlyAt(f, m, k) /\ k \in Inodes /\ ~f[k].used
    BY <1>3, <1>6, <2>1
  <2>3. PICK g : g = [PutBytes(m, k, 0, n) EXCEPT ![k].size = n]
    OBVIOUS
  <2>4. Sound(g) /\ OnlyAt(m, g, k)
    BY <1>0, <2>2, <2>3, FillSound
  <2>5. OnlyAt(f, g, k)
    BY <2>2, <2>4 DEF OnlyAt
  <2>6. Allowed(f, g, uid)
    BY <2>2, <2>5, AllowedAt
  <2> QED BY <1>6, <2>1, <2>3, <2>4, <2>6, DoneGood DEF r
<1> QED BY <1>2, <1>4, <1>5, <1>6

\* rename frees a file that has the name, so that the name is free for the
\* inode that takes it.
LEMMA RenameGood ==
  ASSUME NEW f, Sound(f), NEW src \in Path, NEW dst \in Path, NEW dir \in Inodes, NEW uid \in Uids
  PROVE  Good(f, rename(f, src, dst, dir, uid).fs, uid)
<1> DEFINE s == resolve(f, src, dir)
           parent == ParentOf(f, dst, dir)
           name == NameOf(dst)
           d == lookup_in(f, parent, name)
           cleared == IF d = NoInode THEN f ELSE FreeOf(f, d)
           r == rename(f, src, dst, dir, uid)
<1>0. f \in Table
  BY DEF Sound
<1>1. s \in Found /\ parent \in Found /\ name \in AllNames
  BY <1>0, ResolveFound, ParentFound, NameTyped
<1>2. \/ r = Failed(f)
      \/ r = Result(TRUE, f)
      \/ /\ s \notin {NoInode, Root} /\ parent # NoInode /\ d # s
         /\ d = NoInode \/ ~IsDir(f, d)
         /\ r = Result(TRUE, [cleared EXCEPT ![s].parent = parent, ![s].name = set_name(name)])
  BY DEF rename
<1>3. CASE r = Failed(f)
  <2> HIDE DEF r
  <2> QED BY <1>3, FailedGood DEF r
<1>4. CASE r = Result(TRUE, f)
  <2> HIDE DEF r
  <2> QED BY <1>4, DoneGood, AllowedSame DEF r
<1>5. CASE /\ s \notin {NoInode, Root} /\ parent # NoInode /\ d # s
           /\ d = NoInode \/ ~IsDir(f, d)
           /\ r = Result(TRUE, [cleared EXCEPT ![s].parent = parent, ![s].name = set_name(name)])
  <2>1. s \in Inodes \ {Root} /\ parent \in Inodes
    BY <1>1, <1>5 DEF Found
  <2>2. /\ d \in Found
        /\ d = NoInode => /\ name \notin {".", ".."}
                          /\ \A i \in Inodes : ~(ChildOf(f, parent, i) /\ f[i].name = name)
        /\ d # NoInode /\ name \notin {".", ".."} => ChildOf(f, parent, d) /\ f[d].name = name
    <3> HIDE DEF parent, name
    <3> QED BY <1>0, <2>1, LookupFound
  <2>3. PICK c : c = cleared
    OBVIOUS
  <2> HIDE DEF s, parent, name, d, r
  <2>4. d # NoInode => d \in Inodes \ {Root}
    BY <1>5, <2>2 DEF Found, Sound, RootIn, IsDir
  <2>5. /\ Sound(c) /\ c \in Table
        /\ d = NoInode => c = f
        /\ d # NoInode => OnlyAt(f, c, d) /\ ~c[d].used
    BY <2>3, <2>4, FreeSound DEF Sound
  <2>6. PICK stored \in StoredNames : /\ stored = set_name(name)
                                      /\ NameLen[stored] < MaxName => stored = name
    BY <1>1, CutName
  <2>61. NameFree(c, parent, s, stored)
    <3>1. CASE d = NoInode
      BY <2>2, <2>5, <2>6, <3>1 DEF NameFree
    <3>2. CASE d # NoInode
      <4> SUFFICES ASSUME stored = name, NameLen[name] < MaxName,
                          name \notin {".", ".."}, NEW j \in Inodes,
                          ChildOf(c, parent, j), c[j].name = name
                   PROVE  FALSE
        BY <2>6 DEF NameFree
      <4>1. j # d
        BY <2>5, <3>2 DEF ChildOf
      <4>2. ChildOf(f, parent, j) /\ f[j].name = name
        BY <2>5, <3>2, <4>1 DEF OnlyAt, ChildOf
      <4>3. ChildOf(f, parent, d) /\ f[d].name = name
        BY <2>2, <3>2
      <4> QED BY <2>1, <2>4, <3>2, <4>1, <4>2, <4>3 DEF Sound, UniqueIn
    <3> QED BY <3>1, <3>2
  <2>7. PICK g : g = Renamed(c, s, parent, stored)
    OBVIOUS
  <2>8. /\ Sound(g) /\ OnlyAt(c, g, s)
        /\ g[s].data = c[s].data /\ g[s].size = c[s].size
        /\ g[s].mode = c[s].mode /\ g[s].uid = c[s].uid
    BY <2>1, <2>5, <2>61, <2>7, MoveSound
  <2>9. Allowed(f, g, uid)
    <3> SUFFICES ASSUME NEW i \in Inodes, f[i].used, g[i].used
                 PROVE  /\ g[i].data = f[i].data /\ g[i].size = f[i].size
                        /\ g[i].mode = f[i].mode /\ g[i].uid = f[i].uid
      BY DEF Allowed
    <3>1. i # s => g[i] = c[i]
      BY <2>8 DEF OnlyAt
    <3>2. c[i] = f[i]
      BY <1>5, <2>5, <3>1 DEF OnlyAt
    <3> QED BY <2>8, <3>1, <3>2
  <2>10. r = Result(TRUE, g)
    BY <1>5, <2>3, <2>6, <2>7 DEF Renamed
  <2> QED BY <2>8, <2>9, <2>10, DoneGood DEF r
<1> QED BY <1>2, <1>3, <1>4, <1>5

-----------------------------------------------------------------------------
(***************************************************************************)
(* Lists of directories, and what a call returns of them                   *)
(***************************************************************************)
\* l[n] lists the children of dir among the first n inodes.
Lists(f, dir, l, N) ==
  /\ l[0] = <<>>
  /\ \A n \in 1 .. N : l[n] = IF ChildOf(f, dir, n - 1) THEN Append(l[n - 1], n - 1) ELSE l[n - 1]

LEMMA ListExists ==
  ASSUME NEW f, NEW dir
  PROVE  \E l \in [0 .. MaxInodes -> Seq(Inodes)] :
           Lists(f, dir, l, MaxInodes) /\ \A n \in 0 .. MaxInodes : Len(l[n]) <= n
<1> DEFINE Reached(N) == \E l \in [0 .. N -> Seq(Inodes)] :
             Lists(f, dir, l, N) /\ \A n \in 0 .. N : Len(l[n]) <= n
           Bad == {N \in 0 .. MaxInodes : ~Reached(N)}
<1>0. MaxInodes \in Nat
  BY FsAssumption
<1>1. Reached(0)
  <2> DEFINE l == [n \in 0 .. 0 |-> <<>>]
  <2>1. l \in [0 .. 0 -> Seq(Inodes)] /\ l[0] = <<>> /\ \A n \in 0 .. 0 : Len(l[n]) <= n
    OBVIOUS
  <2>2. Lists(f, dir, l, 0)
    BY <2>1 DEF Lists
  <2> HIDE DEF l
  <2> QED BY <2>1, <2>2
<1>2. ASSUME NEW N \in Nat, N + 1 <= MaxInodes, Reached(N)
      PROVE  Reached(N + 1)
  <2>1. PICK l \in [0 .. N -> Seq(Inodes)] :
          Lists(f, dir, l, N) /\ \A n \in 0 .. N : Len(l[n]) <= n
    BY <1>2
  <2> DEFINE last == IF ChildOf(f, dir, N) THEN Append(l[N], N) ELSE l[N]
             k == [n \in 0 .. N + 1 |-> IF n = N + 1 THEN last ELSE l[n]]
  <2>2. l[N] \in Seq(Inodes) /\ N \in Inodes /\ Len(l[N]) <= N
    BY <1>0, <1>2, <2>1 DEF Inodes
  <2>3. last \in Seq(Inodes) /\ Len(last) <= N + 1
    BY <2>2
  <2>4. \A n \in 1 .. N : l[n] = IF ChildOf(f, dir, n - 1) THEN Append(l[n - 1], n - 1) ELSE l[n - 1]
    BY <2>1 DEF Lists
  <2>5. l[0] = <<>>
    BY <2>1 DEF Lists
  <2>6. last = IF ChildOf(f, dir, (N + 1) - 1) THEN Append(l[N], (N + 1) - 1) ELSE l[N]
    OBVIOUS
  <2> HIDE DEF last
  <2>7. k \in [0 .. N + 1 -> Seq(Inodes)] /\ k[N + 1] = last /\ \A n \in 0 .. N : k[n] = l[n]
    BY <2>1, <2>3
  <2> HIDE DEF k
  <2>8. ASSUME NEW n \in 0 .. N + 1
        PROVE  Len(k[n]) <= n
    <3>1. CASE n = N + 1
      BY <2>3, <2>7, <3>1
    <3>2. CASE n \in 0 .. N
      BY <2>1, <2>7, <3>2
    <3> QED BY <3>1, <3>2
  <2>9. ASSUME NEW n \in 1 .. N + 1
        PROVE  k[n] = IF ChildOf(f, dir, n - 1) THEN Append(k[n - 1], n - 1) ELSE k[n - 1]
    <3>1. CASE n = N + 1
      BY <2>6, <2>7, <3>1
    <3>2. CASE n \in 1 .. N
      <4>1. k[n] = l[n] /\ k[n - 1] = l[n - 1]
        BY <2>7, <3>2
      <4> QED BY <2>4, <3>2, <4>1
    <3> QED BY <3>1, <3>2
  <2>10. Lists(f, dir, k, N + 1)
    BY <2>5, <2>7, <2>9 DEF Lists
  <2> QED BY <2>7, <2>8, <2>10
<1> HIDE DEF Reached
<1>3. Bad = {}
  <2> SUFFICES ASSUME Bad # {} PROVE FALSE
    OBVIOUS
  <2>1. Bad \subseteq Nat
    OBVIOUS
  <2>2. PICK n \in Bad : \A m \in Bad : n <= m
    BY <2>1, LeastElement
  <2>3. n # 0
    BY <1>1, <2>2
  <2>4. n - 1 \in 0 .. MaxInodes /\ n - 1 \notin Bad
    BY <1>0, <2>2, <2>3
  <2>5. Reached(n - 1)
    BY <2>4
  <2>6. n - 1 \in Nat /\ (n - 1) + 1 = n /\ n <= MaxInodes
    BY <1>0, <2>2, <2>3
  <2>7. Reached(n)
    BY <1>2, <2>5, <2>6
  <2> QED BY <2>2, <2>7
<1>4. Reached(MaxInodes)
  BY <1>0, <1>3
<1> QED BY <1>4 DEF Reached

LEMMA ListsAgree ==
  ASSUME NEW f, NEW dir, NEW k, NEW l, NEW N \in Nat, Lists(f, dir, k, N), Lists(f, dir, l, N)
  PROVE  k[N] = l[N]
<1> DEFINE Bad == {n \in 0 .. N : k[n] # l[n]}
<1> SUFFICES ASSUME Bad # {} PROVE FALSE
  OBVIOUS
<1>1. Bad \subseteq Nat
  OBVIOUS
<1>2. PICK n \in Bad : \A m \in Bad : n <= m
  BY <1>1, LeastElement
<1>3. n \in 1 .. N /\ n - 1 \in 0 .. N /\ n - 1 \notin Bad
  BY <1>2 DEF Lists
<1>4. k[n - 1] = l[n - 1]
  BY <1>3
<1> QED BY <1>2, <1>3, <1>4 DEF Lists

\* A listing names inodes, no more of them than there are.
LEMMA ListTyped ==
  ASSUME NEW f, NEW dir
  PROVE  /\ list_dir_indexed(f, dir) \in Seq(Inodes)
         /\ Len(list_dir_indexed(f, dir)) <= MaxInodes
<1>0. MaxInodes \in Nat
  BY FsAssumption
<1>1. PICK l \in [0 .. MaxInodes -> Seq(Inodes)] :
        Lists(f, dir, l, MaxInodes) /\ \A n \in 0 .. MaxInodes : Len(l[n]) <= n
  BY ListExists
<1> DEFINE Rule(c) == [n \in 0 .. MaxInodes |->
             IF n = 0 THEN <<>>
             ELSE IF ChildOf(f, dir, n - 1) THEN Append(c[n - 1], n - 1) ELSE c[n - 1]]
           list == CHOOSE c : c = Rule(c)
<1>2. l = Rule(l)
  <2>1. \A n \in 0 .. MaxInodes :
          l[n] = IF n = 0 THEN <<>>
                 ELSE IF ChildOf(f, dir, n - 1) THEN Append(l[n - 1], n - 1) ELSE l[n - 1]
    <3> TAKE n \in 0 .. MaxInodes
    <3>1. n = 0 \/ n \in 1 .. MaxInodes
      BY <1>0
    <3> QED BY <1>1, <3>1 DEF Lists
  <2> QED BY <2>1
<1>3. list = Rule(list)
  <2> HIDE DEF Rule
  <2> QED BY <1>2
<1>4. list_dir_indexed(f, dir) = IF ~f[dir].used \/ ~IsDir(f, dir) THEN <<>> ELSE list[MaxInodes]
  BY DEF list_dir_indexed
<1> HIDE DEF list
<1>5. Lists(f, dir, list, MaxInodes)
  <2>1. \A n \in 0 .. MaxInodes :
          list[n] = IF n = 0 THEN <<>>
                    ELSE IF ChildOf(f, dir, n - 1) THEN Append(list[n - 1], n - 1) ELSE list[n - 1]
    BY <1>3
  <2>2. 0 \in 0 .. MaxInodes /\ \A n \in 1 .. MaxInodes : n \in 0 .. MaxInodes /\ n # 0
    BY <1>0
  <2> QED BY <2>1, <2>2 DEF Lists
<1>6. list[MaxInodes] = l[MaxInodes]
  BY <1>0, <1>1, <1>5, ListsAgree
<1>7. l[MaxInodes] \in Seq(Inodes) /\ Len(l[MaxInodes]) <= MaxInodes
  BY <1>0, <1>1
<1>8. <<>> \in Seq(Inodes) /\ Len(<<>>) <= MaxInodes
  BY <1>0
<1> QED BY <1>4, <1>6, <1>7, <1>8

Acc == [room: Nat, out: Seq(Inodes), skipped: BOOLEAN, passed: BOOLEAN]

\* No record of a name that an inode has room for is longer than the longest.
LEMMA RecordFits ==
  ASSUME NEW name \in StoredNames
  PROVE  RecordLen(NameLen[name]) \in Nat /\ RecordLen(NameLen[name]) <= LongestRecord
<1>1. NameLen[name] \in Nat /\ MaxName \in Nat /\ NameLen[name] <= MaxName
  BY NameAssumption DEF StoredNames
<1> QED BY <1>1 DEF RecordLen, LongestRecord

\* a is what a buffer of room bytes may hold after n entries of rest.
Partial(rest, room, n, a) ==
  /\ a \in Acc /\ Len(a.out) <= n
  /\ n = 0 => a.room = room
  /\ ~a.skipped => Len(a.out) = n
  /\ ~a.passed => \A m \in 1 .. Len(a.out) : a.out[m] = rest[m]
  /\ n >= 1 /\ LongestRecord <= room => Len(a.out) >= 1

LEMMA DirentStep ==
  ASSUME fs \in Table, NEW rest \in Seq(Inodes), NEW room \in Nat, NEW n \in Nat,
         n + 1 <= Len(rest), NEW a, Partial(rest, room, n, a)
  PROVE  Partial(rest, room, n + 1, Dirent(a, rest[n + 1]))
<1>1. PICK i : i = rest[n + 1]
  OBVIOUS
<1>2. i \in Inodes
  BY <1>1
<1>3. PICK len : len = RecordLen(NameLen[fs[i].name])
  OBVIOUS
<1>4. len \in Nat /\ len <= LongestRecord
  <2>1. fs[i].name \in StoredNames
    BY <1>2 DEF Table, Inode
  <2> QED BY <1>3, <2>1, RecordFits
<1>41. LongestRecord \in Nat
  BY NameAssumption DEF LongestRecord, RecordLen
<1>5. /\ a \in Acc /\ a.room \in Nat /\ a.out \in Seq(Inodes) /\ Len(a.out) <= n
      /\ a.skipped \in BOOLEAN /\ a.passed \in BOOLEAN
  BY DEF Partial, Acc
<1>6. CASE len > a.room
  <2>1. PICK b : b = [a EXCEPT !.skipped = TRUE]
    OBVIOUS
  <2>2. Dirent(a, i) = b
    BY <1>3, <1>6, <2>1 DEF Dirent
  <2>3. b \in Acc /\ b.out = a.out /\ b.skipped = TRUE /\ b.passed = a.passed
    BY <1>5, <2>1 DEF Acc
  <2>4. LongestRecord <= room => n >= 1
    BY <1>4, <1>41, <1>5, <1>6 DEF Partial
  <2>5. LongestRecord <= room => Len(a.out) >= 1
    BY <2>4 DEF Partial
  <2>6. ~a.passed => \A m \in 1 .. Len(a.out) : a.out[m] = rest[m]
    BY DEF Partial
  <2> QED BY <1>1, <1>5, <2>2, <2>3, <2>5, <2>6 DEF Partial
<1>7. CASE ~(len > a.room)
  <2>1. PICK b : b = [room |-> a.room - len, out |-> Append(a.out, i),
                      skipped |-> a.skipped, passed |-> a.passed \/ a.skipped]
    OBVIOUS
  <2>2. Dirent(a, i) = b
    BY <1>3, <1>7, <2>1 DEF Dirent
  <2>21. PICK both \in BOOLEAN : both = (a.passed \/ a.skipped)
    BY <1>5
  <2>22. b = [room |-> a.room - len, out |-> Append(a.out, i),
              skipped |-> a.skipped, passed |-> both]
    BY <2>1, <2>21, Zenon
  <2>3. /\ b \in Acc /\ b.out = Append(a.out, i) /\ b.skipped = a.skipped
        /\ b.passed = both /\ Len(b.out) = Len(a.out) + 1
    BY <1>2, <1>4, <1>5, <1>7, <2>22 DEF Acc
  <2>4. ~b.passed => ~a.passed /\ ~a.skipped
    BY <2>21, <2>3, Zenon
  <2>5. ~b.passed => \A m \in 1 .. Len(b.out) : b.out[m] = rest[m]
    <3> SUFFICES ASSUME ~b.passed PROVE \A m \in 1 .. Len(b.out) : b.out[m] = rest[m]
      OBVIOUS
    <3>1. Len(a.out) = n /\ \A m \in 1 .. Len(a.out) : a.out[m] = rest[m]
      BY <2>4 DEF Partial
    <3>2. \A m \in 1 .. n : a.out[m] = rest[m]
      BY <3>1
    <3>3. ASSUME NEW m \in 1 .. n + 1 PROVE b.out[m] = rest[m]
      BY <1>1, <1>2, <1>5, <2>3, <3>1, <3>2
    <3> QED BY <2>3, <3>1, <3>3
  <2>6. ~b.skipped => Len(b.out) = n + 1
    BY <1>5, <2>3 DEF Partial
  <2>7. Len(b.out) <= n + 1 /\ Len(b.out) >= 1
    BY <1>5, <2>3
  <2> QED BY <1>1, <2>2, <2>3, <2>5, <2>6, <2>7 DEF Partial
<1> QED BY <1>6, <1>7

Fills(rest, room, a, N) ==
  /\ a[0] = NoDirents(room)
  /\ \A n \in 1 .. N : a[n] = Dirent(a[n - 1], rest[n])

LEMMA FillExists ==
  ASSUME fs \in Table, NEW rest \in Seq(Inodes), NEW room \in Nat
  PROVE  \E a : /\ a = [n \in 0 .. Len(rest) |-> a[n]]
                /\ Fills(rest, room, a, Len(rest))
                /\ \A n \in 0 .. Len(rest) : Partial(rest, room, n, a[n])
<1> DEFINE Reached(N) == \E a : /\ a = [n \in 0 .. N |-> a[n]]
                                /\ Fills(rest, room, a, N)
                                /\ \A n \in 0 .. N : Partial(rest, room, n, a[n])
           Bad == {N \in 0 .. Len(rest) : ~Reached(N)}
           none == NoDirents(room)
<1>1. Reached(0)
  <2> DEFINE a == [n \in 0 .. 0 |-> none]
  <2>1. none \in Acc /\ Len(none.out) = 0 /\ none.room = room
    BY DEF Acc, NoDirents
  <2>2. Partial(rest, room, 0, none)
    <3>1. 1 .. Len(none.out) = {} /\ ~(0 >= 1)
      BY <2>1
    <3> HIDE DEF none
    <3> QED BY <2>1, <3>1 DEF Partial
  <2>3. a = [n \in 0 .. 0 |-> a[n]] /\ a[0] = none
    OBVIOUS
  <2>4. Fills(rest, room, a, 0)
    BY <2>3 DEF Fills
  <2>5. \A n \in 0 .. 0 : Partial(rest, room, n, a[n])
    <3> HIDE DEF none, a
    <3> QED BY <2>2, <2>3
  <2> HIDE DEF a
  <2> QED BY <2>3, <2>4, <2>5
<1>2. ASSUME NEW N \in Nat, N + 1 <= Len(rest), Reached(N)
      PROVE  Reached(N + 1)
  <2>1. PICK a : /\ a = [n \in 0 .. N |-> a[n]]
                 /\ Fills(rest, room, a, N)
                 /\ \A n \in 0 .. N : Partial(rest, room, n, a[n])
    BY <1>2
  <2> DEFINE last == Dirent(a[N], rest[N + 1])
             b == [n \in 0 .. N + 1 |-> IF n = N + 1 THEN last ELSE a[n]]
  <2>2. PICK c : c = a[N]
    OBVIOUS
  <2>3. Partial(rest, room, N, c)
    BY <2>1, <2>2
  <2>4. Partial(rest, room, N + 1, last)
    BY <1>2, <2>2, <2>3, DirentStep
  <2> HIDE DEF last
  <2>5. b[N + 1] = last /\ (\A n \in 0 .. N : b[n] = a[n]) /\ b = [n \in 0 .. N + 1 |-> b[n]]
    OBVIOUS
  <2> HIDE DEF b
  <2>6. ASSUME NEW n \in 0 .. N + 1
        PROVE  Partial(rest, room, n, b[n])
    <3>1. CASE n = N + 1
      BY <2>4, <2>5, <3>1
    <3>2. CASE n \in 0 .. N
      BY <2>1, <2>5, <3>2
    <3> QED BY <3>1, <3>2
  <2>7. ASSUME NEW n \in 1 .. N + 1
        PROVE  b[n] = Dirent(b[n - 1], rest[n])
    <3>1. CASE n = N + 1
      <4>1. n - 1 = N /\ N \in 0 .. N
        BY <3>1
      <4>2. b[N] = a[N]
        BY <2>5, <4>1
      <4> QED BY <2>5, <3>1, <4>1, <4>2 DEF last
    <3>2. CASE n \in 1 .. N
      <4>1. b[n] = a[n] /\ b[n - 1] = a[n - 1]
        BY <2>5, <3>2, SMTT(40)
      <4> QED BY <2>1, <3>2, <4>1 DEF Fills
    <3> QED BY <3>1, <3>2
  <2>8. b[0] = NoDirents(room)
    <3>1. 0 \in 0 .. N
      OBVIOUS
    <3> HIDE DEF none
    <3> QED BY <2>1, <2>5, <3>1 DEF Fills
  <2>9. Fills(rest, room, b, N + 1)
    BY <2>7, <2>8 DEF Fills
  <2> QED BY <2>5, <2>6, <2>9
<1> HIDE DEF Reached
<1>3. Bad = {}
  <2> SUFFICES ASSUME Bad # {} PROVE FALSE
    OBVIOUS
  <2>1. Bad \subseteq Nat
    OBVIOUS
  <2>2. PICK n \in Bad : \A m \in Bad : n <= m
    BY <2>1, LeastElement
  <2>3. n # 0
    BY <1>1, <2>2
  <2>4. n - 1 \in 0 .. Len(rest) /\ n - 1 \notin Bad
    BY <2>2, <2>3
  <2>5. Reached(n - 1)
    BY <2>4
  <2>6. n - 1 \in Nat /\ (n - 1) + 1 = n /\ n <= Len(rest)
    BY <2>2, <2>3
  <2>7. Reached(n)
    BY <1>2, <2>5, <2>6
  <2> QED BY <2>2, <2>7
<1>4. Reached(Len(rest))
  BY <1>3
<1> QED BY <1>4 DEF Reached

LEMMA FillsAgree ==
  ASSUME NEW rest, NEW room, NEW a, NEW b, NEW N \in Nat,
         Fills(rest, room, a, N), Fills(rest, room, b, N)
  PROVE  a[N] = b[N]
<1> DEFINE Bad == {n \in 0 .. N : a[n] # b[n]}
<1> SUFFICES ASSUME Bad # {} PROVE FALSE
  OBVIOUS
<1>1. Bad \subseteq Nat
  OBVIOUS
<1>2. PICK n \in Bad : \A m \in Bad : n <= m
  BY <1>1, LeastElement
<1>3. n \in 1 .. N /\ n - 1 \in 0 .. N /\ n - 1 \notin Bad
  BY <1>2 DEF Fills
<1>4. a[n - 1] = b[n - 1]
  BY <1>3
<1> QED BY <1>2, <1>3, <1>4 DEF Fills

\* A call returns entries of rest, no more than there are, and one at least
\* when there is one and the buffer holds any record.  They are those in front
\* when none was written behind a skipped one.
LEMMA DirentsTyped ==
  ASSUME fs \in Table, NEW rest \in Seq(Inodes), NEW room \in Nat
  PROVE  Partial(rest, room, Len(rest), Dirents(rest, room))
<1>1. PICK a : /\ a = [n \in 0 .. Len(rest) |-> a[n]]
               /\ Fills(rest, room, a, Len(rest))
               /\ \A n \in 0 .. Len(rest) : Partial(rest, room, n, a[n])
  BY FillExists
<1> DEFINE Rule(c) == [n \in 0 .. Len(rest) |->
             IF n = 0 THEN NoDirents(room) ELSE Dirent(c[n - 1], rest[n])]
           acc == CHOOSE c : c = Rule(c)
<1>2. a = Rule(a)
  <2>1. \A n \in 0 .. Len(rest) :
          a[n] = IF n = 0 THEN NoDirents(room) ELSE Dirent(a[n - 1], rest[n])
    <3> TAKE n \in 0 .. Len(rest)
    <3>1. n = 0 \/ n \in 1 .. Len(rest)
      OBVIOUS
    <3> QED BY <1>1, <3>1 DEF Fills
  <2> QED BY <1>1, <2>1
<1>3. acc = Rule(acc)
  <2> HIDE DEF Rule
  <2> QED BY <1>2
<1>4. Dirents(rest, room) = acc[Len(rest)]
  BY DEF Dirents
<1> HIDE DEF acc
<1>5. Fills(rest, room, acc, Len(rest))
  <2>1. \A n \in 0 .. Len(rest) :
          acc[n] = IF n = 0 THEN NoDirents(room) ELSE Dirent(acc[n - 1], rest[n])
    BY <1>3
  <2>2. 0 \in 0 .. Len(rest) /\ \A n \in 1 .. Len(rest) : n \in 0 .. Len(rest) /\ n # 0
    OBVIOUS
  <2> QED BY <2>1, <2>2 DEF Fills
<1>6. Len(rest) \in Nat /\ Len(rest) \in 0 .. Len(rest)
  OBVIOUS
<1>7. acc[Len(rest)] = a[Len(rest)]
  BY <1>1, <1>5, <1>6, FillsAgree
<1>8. Partial(rest, room, Len(rest), acc[Len(rest)])
  BY <1>1, <1>6, <1>7
<1> QED BY <1>4, <1>8

-----------------------------------------------------------------------------
(***************************************************************************)
(* Descriptors                                                             *)
(***************************************************************************)
FileDesc == [kind: {"VfsFile"}, inode: Inodes, offset: 0 .. MaxData + 1, writable: BOOLEAN]
DirDesc == [kind: {"VfsDir"}, inode: Inodes, pos: 0 .. MaxInodes, list: Seq(Inodes),
            same: BOOLEAN, seen: Seq(Inodes), passed: BOOLEAN, eof: BOOLEAN]
Descriptor == {Empty} \cup FileDesc \cup DirDesc

\* The scan made with a directory descriptor of an unchanged directory has
\* returned pos records, and as many as there are entries at its end; they are
\* the first pos entries when none was written behind a skipped one.
ScanOK(e) ==
  e.same => /\ Len(e.seen) = e.pos /\ e.pos <= Len(e.list)
            /\ e.eof => e.pos = Len(e.list)
            /\ ~e.passed => e.seen = SubSeq(e.list, 1, e.pos)

FilesInv ==
  /\ Sound(fs)
  /\ cwd \in [Procs -> Inodes]
  /\ sh \in [cwd: Inodes, uid: Uids]
  /\ fdt \in [Procs -> [Handles -> Descriptor]]

ScanInv == \A p \in Procs, h \in Handles : fdt[p][h] \in DirDesc => ScanOK(fdt[p][h])

LEMMA Kinds ==
  ASSUME NEW e \in Descriptor
  PROVE  /\ e.kind = "VfsFile" => e \in FileDesc
         /\ e.kind = "VfsDir" => e \in DirDesc
         /\ e \in FileDesc => e.kind = "VfsFile"
         /\ e \in DirDesc => e.kind = "VfsDir"
         /\ e.kind \in {"VfsFile", "VfsDir"} => e.inode \in Inodes
BY DEF Descriptor, FileDesc, DirDesc, Empty

LEMMA VfsFileTyped ==
  ASSUME NEW i \in Inodes, NEW offset \in 0 .. MaxData + 1, NEW writable \in BOOLEAN
  PROVE  VfsFile(i, offset, writable) \in FileDesc
BY DEF VfsFile, FileDesc

LEMMA VfsDirTyped ==
  ASSUME NEW i \in Inodes
  PROVE  VfsDir(i) \in DirDesc /\ ScanOK(VfsDir(i))
<1>1. PICK list : list = list_dir_indexed(fs, i)
  OBVIOUS
<1>2. list \in Seq(Inodes)
  BY <1>1, ListTyped
<1>3. PICK e : e = VfsDir(i)
  OBVIOUS
<1>4. e = [kind |-> "VfsDir", inode |-> i, pos |-> 0, list |-> list, same |-> TRUE,
           seen |-> <<>>, passed |-> FALSE, eof |-> FALSE]
  BY <1>1, <1>3 DEF VfsDir
<1>5. e \in DirDesc
  BY <1>2, <1>4, FsAssumption DEF DirDesc
<1>6. e.pos = 0 /\ e.list = list /\ e.seen = <<>> /\ e.eof = FALSE
  BY <1>4
<1>7. SubSeq(list, 1, 0) = <<>>
  BY <1>2
<1>8. ScanOK(e)
  BY <1>2, <1>6, <1>7 DEF ScanOK
<1> QED BY <1>3, <1>5, <1>8

\* The part of a list from pos on.
LEMMA RestOf ==
  ASSUME NEW list \in Seq(Inodes), NEW pos \in Nat
  PROVE  /\ SubSeq(list, pos + 1, Len(list)) \in Seq(Inodes)
         /\ Len(SubSeq(list, pos + 1, Len(list))) = IF pos <= Len(list) THEN Len(list) - pos ELSE 0
         /\ \A m \in 1 .. Len(list) - pos : SubSeq(list, pos + 1, Len(list))[m] = list[pos + m]
OBVIOUS

LEMMA ScannedTyped ==
  ASSUME NEW e \in DirDesc, NEW list \in Seq(Inodes), Len(list) <= MaxInodes,
         NEW got \in Acc, NEW room \in Nat,
         Len(got.out) <= IF e.pos <= Len(list) THEN Len(list) - e.pos ELSE 0
  PROVE  Scanned(e, list, got, room) \in DirDesc
<1>1. /\ e.pos \in 0 .. MaxInodes /\ e.inode \in Inodes /\ e.seen \in Seq(Inodes)
      /\ e.same \in BOOLEAN /\ e.passed \in BOOLEAN
      /\ got.out \in Seq(Inodes) /\ got.passed \in BOOLEAN
  BY DEF DirDesc, Acc
<1>2. e.pos + Len(got.out) \in 0 .. MaxInodes
  BY <1>1, FsAssumption
<1>3. e.seen \o got.out \in Seq(Inodes) /\ <<>> \in Seq(Inodes)
  BY <1>1
<1>4. PICK same \in BOOLEAN : same = (e.same /\ list = e.list)
  BY <1>1
<1>5. PICK eof \in BOOLEAN : eof = (got.out = <<>> /\ room >= LongestRecord)
  OBVIOUS
<1>6. PICK passed \in BOOLEAN : passed = (same /\ (e.passed \/ got.passed))
  OBVIOUS
<1>7. Scanned(e, list, got, room) =
        [kind |-> "VfsDir", inode |-> e.inode, pos |-> e.pos + Len(got.out),
         list |-> IF same THEN list ELSE <<>>, same |-> same,
         seen |-> IF same THEN e.seen \o got.out ELSE <<>>, passed |-> passed, eof |-> eof]
  BY <1>4, <1>5, <1>6, Zenon DEF Scanned
<1> QED BY <1>1, <1>2, <1>3, <1>7 DEF DirDesc

LEMMA Joined ==
  ASSUME NEW list \in Seq(Inodes), NEW pos \in 0 .. Len(list), NEW out \in Seq(Inodes),
         Len(out) <= Len(list) - pos,
         \A m \in 1 .. Len(out) : out[m] = list[pos + m]
  PROVE  SubSeq(list, 1, pos) \o out = SubSeq(list, 1, pos + Len(out))
<1> DEFINE l == SubSeq(list, 1, pos) \o out
           r == SubSeq(list, 1, pos + Len(out))
<1>1. /\ l \in Seq(Inodes) /\ Len(l) = pos + Len(out)
      /\ \A m \in 1 .. pos : l[m] = list[m]
      /\ \A m \in 1 .. Len(out) : l[pos + m] = out[m]
  OBVIOUS
<1>2. /\ r \in Seq(Inodes) /\ Len(r) = pos + Len(out)
      /\ \A m \in 1 .. pos + Len(out) : r[m] = list[m]
  OBVIOUS
<1> HIDE DEF l, r
<1>3. ASSUME NEW m \in 1 .. pos + Len(out) PROVE l[m] = r[m]
  <2>1. CASE m <= pos
    <3>1. m \in 1 .. pos
      BY <2>1
    <3> QED BY <1>1, <1>2, <3>1
  <2>2. CASE m > pos
    <3>1. m - pos \in 1 .. Len(out) /\ pos + (m - pos) = m
      BY <2>2
    <3> QED BY <1>1, <1>2, <3>1
  <2> QED BY <2>1, <2>2
<1>4. l = r
  BY <1>1, <1>2, <1>3
<1> QED BY <1>4 DEF l, r

\* got is what a call with room bytes may return of list after its first pos
\* entries.
Continues(list, pos, got, room) ==
  /\ Len(got.out) <= Len(list) - pos
  /\ ~got.passed => \A m \in 1 .. Len(got.out) : got.out[m] = list[pos + m]
  /\ pos < Len(list) /\ room >= LongestRecord => Len(got.out) >= 1

LEMMA ScannedOK ==
  ASSUME NEW e \in DirDesc, ScanOK(e), NEW list \in Seq(Inodes), NEW got \in Acc, NEW room \in Nat,
         e.pos <= Len(list) => Continues(list, e.pos, got, room)
  PROVE  ScanOK(Scanned(e, list, got, room))
<1>1. PICK s : s = Scanned(e, list, got, room)
  OBVIOUS
<1>2. /\ s.same => e.same /\ list = e.list
      /\ s.pos = e.pos + Len(got.out)
      /\ s.same => s.list = list /\ s.seen = e.seen \o got.out
      /\ s.same /\ ~s.passed => ~e.passed /\ ~got.passed
      /\ s.eof => got.out = <<>> /\ room >= LongestRecord
  BY <1>1 DEF Scanned
<1> SUFFICES ASSUME s.same PROVE ScanOK(s)
  BY <1>1 DEF ScanOK
<1>3. /\ e.pos \in 0 .. Len(list) /\ Len(e.seen) = e.pos /\ e.seen \in Seq(Inodes)
      /\ ~e.passed => e.seen = SubSeq(list, 1, e.pos)
  BY <1>2, FsAssumption DEF ScanOK, DirDesc
<1>4. PICK pos \in 0 .. Len(list) : pos = e.pos
  BY <1>3
<1>41. PICK out \in Seq(Inodes) : out = got.out
  BY DEF Acc
<1>5. Continues(list, pos, got, room)
  BY <1>4
<1>6. /\ Len(out) <= Len(list) - pos
      /\ ~got.passed => \A m \in 1 .. Len(out) : out[m] = list[pos + m]
  BY <1>41, <1>5 DEF Continues
<1>7. ~got.passed => SubSeq(list, 1, pos) \o out = SubSeq(list, 1, pos + Len(out))
  BY <1>6, Joined
<1>8. s.pos = pos + Len(out) /\ s.list = list /\ s.seen = e.seen \o out
  BY <1>2, <1>4, <1>41
<1>9. Len(s.seen) = s.pos /\ s.pos <= Len(s.list)
  BY <1>3, <1>4, <1>6, <1>8
<1>10. ~s.passed => s.seen = SubSeq(s.list, 1, s.pos)
  BY <1>2, <1>3, <1>4, <1>7, <1>8
<1>11. s.eof => s.pos = Len(s.list)
  <2> SUFFICES ASSUME s.eof PROVE s.pos = Len(s.list)
    OBVIOUS
  <2>1. Len(out) = 0 /\ room >= LongestRecord
    BY <1>2, <1>41
  <2>2. pos = Len(list)
    BY <1>41, <1>5, <2>1 DEF Continues
  <2> QED BY <1>8, <2>1, <2>2
<1> QED BY <1>1, <1>9, <1>10, <1>11 DEF ScanOK

-----------------------------------------------------------------------------
(***************************************************************************)
(* Every step keeps the invariant.                                         *)
(***************************************************************************)
LEMMA Counts ==
  ASSUME NEW f \in Table, NEW i \in Inodes, NEW offset \in 0 .. MaxData + 1, NEW len \in Nat
  PROVE  /\ ReadCount(f, i, offset, len) \in Nat
         /\ offset + ReadCount(f, i, offset, len) \in 0 .. MaxData + 1
         /\ WriteCount(f, i, offset, len) \in Nat
         /\ offset + WriteCount(f, i, offset, len) \in 0 .. MaxData + 1
         /\ WriteCount(f, i, offset, len) # 0 => offset + WriteCount(f, i, offset, len) <= MaxData
<1>1. f[i].size \in 0 .. MaxData /\ MaxData \in Nat
  BY FieldTypes, FsAssumption
<1> QED BY <1>1 DEF ReadCount, WriteCount, Least

LEMMA InodeWriteSound ==
  ASSUME NEW f, Sound(f), NEW i \in Inodes, NEW offset \in 0 .. MaxData + 1, NEW len \in Nat
  PROVE  /\ Sound(inode_write(f, i, offset, len))
         /\ WriteCount(f, i, offset, len) = 0 => inode_write(f, i, offset, len) = f
<1> DEFINE n == WriteCount(f, i, offset, len)
<1>0. f \in Table /\ f[i] \in Inode /\ f[i].size \in 0 .. MaxData /\ MaxData \in Nat
  BY FieldTypes, FsAssumption DEF Sound
<1>1. n \in Nat /\ (n # 0 => offset + n <= MaxData)
  BY <1>0, Counts
<1>2. CASE n = 0
  BY <1>2 DEF inode_write
<1>3. CASE n # 0
  <2>1. PICK m : m = IF offset + n > f[i].size THEN offset + n ELSE f[i].size
    OBVIOUS
  <2> HIDE DEF n
  <2>2. m \in 0 .. MaxData /\ offset \in Nat /\ offset + n \in Nat
    BY <1>0, <1>1, <1>3, <2>1
  <2>3. PutBytes(f, i, offset, offset + n)[i].size = f[i].size
    BY <1>0 DEF PutBytes, Table, Inode
  <2>4. inode_write(f, i, offset, len) = [PutBytes(f, i, offset, offset + n) EXCEPT ![i].size = m]
    BY <1>3, <2>1, <2>3 DEF inode_write, n
  <2>5. Sound([PutBytes(f, i, offset, offset + n) EXCEPT ![i].size = m])
    BY <2>2, FillSound
  <2> QED BY <1>3, <2>4, <2>5 DEF n
<1> QED BY <1>2, <1>3

\* What a step of the system keeps.
StepGood ==
  /\ FilesInv'
  /\ ScanInv => ScanInv'
  /\ UNCHANGED <<cwd, fdt>> => Allowed(fs, fs', sh.uid)

\* Steps that change the table only.
LEMMA TableStep ==
  ASSUME FilesInv, UNCHANGED <<cwd, fdt, sh>>, Good(fs, fs', sh.uid)
  PROVE  StepGood
BY DEF FilesInv, StepGood, Good, ScanInv

\* Steps that change no more than directories.
LEMMA DirStep ==
  ASSUME FilesInv, UNCHANGED <<fs, fdt>>,
         cwd' \in [Procs -> Inodes], sh' \in [cwd: Inodes, uid: Uids]
  PROVE  StepGood
BY AllowedSame DEF FilesInv, StepGood, ScanInv

\* Steps that change descriptors: one of them is e, or all are the same.
LEMMA DescStep ==
  ASSUME FilesInv, Sound(fs'), UNCHANGED <<cwd, sh>>, NEW p \in Procs, NEW h, NEW e \in Descriptor,
         fdt' = fdt \/ fdt' = [fdt EXCEPT ![p][h] = e],
         ScanInv /\ e \in DirDesc => ScanOK(e),
         fdt' = fdt => Allowed(fs, fs', sh.uid)
  PROVE  StepGood
<1>1. fdt \in [Procs -> [Handles -> Descriptor]]
  BY DEF FilesInv
<1>2. fdt' \in [Procs -> [Handles -> Descriptor]]
  BY <1>1
<1>3. \A q \in Procs, g \in Handles : fdt'[q][g] = fdt[q][g] \/ fdt'[q][g] = e
  BY <1>1
<1>4. FilesInv'
  BY <1>2 DEF FilesInv
<1>5. ScanInv => ScanInv'
  BY <1>3 DEF ScanInv
<1> QED BY <1>4, <1>5 DEF StepGood

LEMMA AtCwd ==
  ASSUME FilesInv, NEW p \in Procs,
         NEW dirfd \in {h \in Handles : fdt[p][h] # Empty} \cup {AT_FDCWD}
  PROVE  at_cwd(p, dirfd) \in Inodes
<1>1. cwd[p] \in Inodes
  BY DEF FilesInv
<1>2. CASE dirfd = AT_FDCWD
  BY <1>1, <1>2 DEF at_cwd
<1>3. CASE dirfd \in Handles
  <2>1. PICK e : e = fdt[p][dirfd]
    OBVIOUS
  <2>2. e \in Descriptor
    BY <1>3, <2>1 DEF FilesInv
  <2>3. e.kind \in {"VfsFile", "VfsDir"} => e.inode \in Inodes
    BY <2>2, Kinds
  <2> QED BY <1>1, <2>1, <2>3 DEF at_cwd
<1> QED BY <1>2, <1>3

LEMMA StoredStep ==
  ASSUME NEW p \in Procs, NEW e, Stored(p, e)
  PROVE  \E h : fdt' = fdt \/ fdt' = [fdt EXCEPT ![p][h] = e]
BY DEF Stored

LEMMA OpenFound ==
  ASSUME NEW f \in Table, NEW path \in Path, NEW dir \in Inodes, NEW uid, NEW writable
  PROVE  open_check(f, path, dir, uid, writable) \in Found /\ open_dir(f, path, dir) \in Found
<1>1. resolve(f, path, dir) \in Found /\ NoInode \in Found
  BY ResolveFound DEF Found
<1> QED BY <1>1 DEF open_check, open_dir

LEMMA OpenStep ==
  ASSUME FilesInv, NEW p \in Procs, NEW d \in {h \in Handles : fdt[p][h] # Empty} \cup {AT_FDCWD},
         NEW path \in Paths, NEW flags \in OpenFlags, sys_openat(p, d, path, flags), UNCHANGED sh
  PROVE  StepGood
<1> DEFINE base == at_cwd(p, d)
           writable == "write" \in flags
           made == IF "create" \in flags THEN touch(fs, path, base, 0).fs ELSE fs
           i == open_check(made, path, base, 0, writable)
           cut == IF "trunc" \in flags /\ writable THEN inode_write(made, i, 0, 0) ELSE made
           offset == IF "append" \in flags /\ writable THEN inode_size(cut, i) ELSE 0
           e == open_dir(made, path, base)
<1>0. path \in Path /\ base \in Inodes /\ 0 \in Uids /\ Sound(fs) /\ MaxData \in Nat
  BY AtCwd, FilesAssumption, FsAssumption DEF FilesInv
<1>1. /\ IF i # NoInode
         THEN fs' = cut /\ Stored(p, VfsFile(i, offset, writable))
         ELSE /\ fs' = made
              /\ IF ~writable /\ e # NoInode THEN Stored(p, VfsDir(e)) ELSE UNCHANGED fdt
      /\ UNCHANGED <<cwd, ops>>
  BY DEF sys_openat
<1>2. writable \in BOOLEAN
  OBVIOUS
<1> HIDE DEF base
<1>3. Good(fs, made, sh.uid)
  BY <1>0, TouchGood, GoodSame
<1> HIDE DEF made, writable
<1>4. Sound(made) /\ made \in Table /\ Allowed(fs, made, sh.uid)
  BY <1>3 DEF Good, Sound
<1>5. i \in Found /\ e \in Found
  BY <1>0, <1>4, OpenFound
<1>6. i # NoInode => i \in Inodes /\ cut = made
  <2> SUFFICES ASSUME i # NoInode PROVE i \in Inodes /\ cut = made
    OBVIOUS
  <2>1. i \in Inodes
    BY <1>5 DEF Found
  <2> HIDE DEF i
  <2>2. WriteCount(made, i, 0, 0) = 0
    BY <1>0 DEF WriteCount, Least
  <2>3. inode_write(made, i, 0, 0) = made
    BY <2>2 DEF inode_write
  <2> QED BY <2>1, <2>3
<1>7. i # NoInode => offset \in 0 .. MaxData + 1
  <2> SUFFICES ASSUME i # NoInode PROVE offset \in 0 .. MaxData + 1
    OBVIOUS
  <2>1. made[i].size \in 0 .. MaxData
    BY <1>4, <1>6, FieldTypes
  <2> QED BY <1>0, <1>6, <2>1 DEF inode_size
<1> HIDE DEF i, cut, offset, e
<1>8. CASE i # NoInode
  <2>1. PICK x : x = VfsFile(i, offset, writable)
    OBVIOUS
  <2>2. x \in Descriptor /\ x \notin DirDesc
    <3>1. x \in FileDesc
      BY <1>2, <1>6, <1>7, <1>8, <2>1, VfsFileTyped
    <3> QED BY <3>1, Kinds DEF Descriptor
  <2>3. Stored(p, x)
    BY <1>1, <1>8, <2>1 DEF Stored
  <2>4. PICK h : fdt' = fdt \/ fdt' = [fdt EXCEPT ![p][h] = x]
    BY <2>3, StoredStep
  <2>5. fs' = made /\ UNCHANGED cwd
    BY <1>1, <1>6, <1>8
  <2> QED BY <1>4, <2>2, <2>4, <2>5, DescStep
<1>9. CASE i = NoInode /\ ~writable /\ e # NoInode
  <2>1. PICK x : x = VfsDir(e)
    OBVIOUS
  <2>2. x \in Descriptor /\ ScanOK(x)
    <3>1. e \in Inodes
      BY <1>5, <1>9 DEF Found
    <3> QED BY <2>1, <3>1, VfsDirTyped DEF Descriptor
  <2>3. Stored(p, x)
    BY <1>1, <1>9, <2>1 DEF Stored
  <2>4. PICK h : fdt' = fdt \/ fdt' = [fdt EXCEPT ![p][h] = x]
    BY <2>3, StoredStep
  <2>5. fs' = made /\ UNCHANGED cwd
    BY <1>1, <1>9
  <2> QED BY <1>4, <2>2, <2>4, <2>5, DescStep
<1>10. CASE i = NoInode /\ ~(~writable /\ e # NoInode)
  BY <1>1, <1>3, <1>10, TableStep
<1> QED BY <1>8, <1>9, <1>10

LEMMA CloseStep ==
  ASSUME FilesInv, NEW p \in Procs, NEW h \in Handles, sys_close(p, h), UNCHANGED sh
  PROVE  StepGood
<1>1. Empty \in Descriptor /\ Empty \notin DirDesc
  BY Kinds DEF Descriptor, Empty
<1>2. fdt' = [fdt EXCEPT ![p][h] = Empty] /\ UNCHANGED <<fs, cwd>>
  BY DEF sys_close
<1>3. Sound(fs') /\ Allowed(fs, fs', sh.uid)
  BY <1>2, AllowedSame DEF FilesInv
<1> QED BY <1>1, <1>2, <1>3, DescStep

LEMMA DupStep ==
  ASSUME FilesInv, NEW p \in Procs, NEW h \in Handles, sys_dup(p, h), UNCHANGED sh
  PROVE  StepGood
<1>1. PICK e : e = fdt[p][h]
  OBVIOUS
<1>2. e \in Descriptor /\ (ScanInv /\ e \in DirDesc => ScanOK(e))
  BY <1>1 DEF FilesInv, ScanInv
<1>3. Stored(p, e) /\ UNCHANGED <<fs, cwd>>
  BY <1>1 DEF sys_dup, Stored
<1>4. PICK g : fdt' = fdt \/ fdt' = [fdt EXCEPT ![p][g] = e]
  BY <1>3, StoredStep
<1>5. Sound(fs') /\ Allowed(fs, fs', sh.uid)
  BY <1>3, AllowedSame DEF FilesInv
<1> QED BY <1>2, <1>3, <1>4, <1>5, DescStep

\* The offset of a file descriptor moves.
LEMMA OffsetStep ==
  ASSUME FilesInv, Sound(fs'), NEW p \in Procs, NEW h \in Handles,
         fdt[p][h].kind = "VfsFile", NEW offset \in 0 .. MaxData + 1,
         fdt' = [fdt EXCEPT ![p][h].offset = offset], UNCHANGED <<cwd, sh>>,
         offset = fdt[p][h].offset => Allowed(fs, fs', sh.uid)
  PROVE  StepGood
<1>1. PICK e : e = fdt[p][h]
  OBVIOUS
<1>2. e \in FileDesc
  <2>1. e \in Descriptor
    BY <1>1 DEF FilesInv
  <2> QED BY <1>1, <2>1, Kinds
<1>3. PICK x : x = [e EXCEPT !.offset = offset]
  OBVIOUS
<1>4. x \in FileDesc /\ x.offset = offset
  BY <1>2, <1>3 DEF FileDesc
<1>5. x \in Descriptor /\ x \notin DirDesc
  <2>1. x \in Descriptor
    BY <1>4 DEF Descriptor
  <2> QED BY <1>4, <2>1, Kinds
<1>6. fdt \in [Procs -> [Handles -> Descriptor]]
  BY DEF FilesInv
<1>7. fdt' = [fdt EXCEPT ![p][h] = x]
  BY <1>1, <1>3, <1>6
<1>8. fdt' = fdt => x = e
  BY <1>1, <1>6, <1>7
<1>9. fdt' = fdt => Allowed(fs, fs', sh.uid)
  BY <1>1, <1>4, <1>8
<1> QED BY <1>5, <1>7, <1>9, DescStep

LEMMA ReadStep ==
  ASSUME FilesInv, NEW p \in Procs, NEW h \in Handles, NEW len \in Nat,
         sys_read(p, h, len), UNCHANGED sh
  PROVE  StepGood
<1>1. PICK e : e = fdt[p][h]
  OBVIOUS
<1>2. e.kind = "VfsFile"
  BY <1>1 DEF sys_read
<1>3. e \in FileDesc
  <2>1. e \in Descriptor
    BY <1>1 DEF FilesInv
  <2> QED BY <1>2, <2>1, Kinds
<1>4. PICK n : n = e.offset + ReadCount(fs, e.inode, e.offset, len)
  OBVIOUS
<1>5. n \in 0 .. MaxData + 1
  BY <1>3, <1>4, Counts DEF FileDesc, FilesInv, Sound
<1>6. fdt' = [fdt EXCEPT ![p][h].offset = n] /\ UNCHANGED <<fs, cwd>>
  BY <1>1, <1>4 DEF sys_read
<1>7. Sound(fs') /\ Allowed(fs, fs', sh.uid)
  BY <1>6, AllowedSame DEF FilesInv
<1> QED BY <1>1, <1>2, <1>5, <1>6, <1>7, OffsetStep

LEMMA WriteStep ==
  ASSUME FilesInv, NEW p \in Procs, NEW h \in Handles, NEW len \in Nat,
         sys_write(p, h, len), UNCHANGED sh
  PROVE  StepGood
<1>1. PICK e : e = fdt[p][h]
  OBVIOUS
<1>2. e.kind = "VfsFile"
  BY <1>1 DEF sys_write
<1>3. e \in FileDesc
  <2>1. e \in Descriptor
    BY <1>1 DEF FilesInv
  <2> QED BY <1>2, <2>1, Kinds
<1>4. e.inode \in Inodes /\ e.offset \in 0 .. MaxData + 1 /\ e.offset \in Nat
  BY <1>3, FsAssumption DEF FileDesc
<1>5. PICK k : k = WriteCount(fs, e.inode, e.offset, len)
  OBVIOUS
<1>6. PICK n : n = e.offset + k
  OBVIOUS
<1>7. k \in Nat /\ n \in 0 .. MaxData + 1
  BY <1>4, <1>5, <1>6, Counts DEF FilesInv, Sound
<1>8. /\ fdt' = [fdt EXCEPT ![p][h].offset = n] /\ UNCHANGED cwd
      /\ fs' = inode_write(fs, e.inode, e.offset, len)
  BY <1>1, <1>5, <1>6 DEF sys_write
<1>9. Sound(fs') /\ (k = 0 => fs' = fs)
  BY <1>4, <1>5, <1>8, InodeWriteSound DEF FilesInv
<1>10. n = e.offset => Allowed(fs, fs', sh.uid)
  BY <1>4, <1>6, <1>7, <1>9, AllowedSame
<1> QED BY <1>1, <1>2, <1>7, <1>8, <1>9, <1>10, OffsetStep

LEMMA SeekStep ==
  ASSUME FilesInv, NEW p \in Procs, NEW h \in Handles, NEW offset \in 0 .. MaxData + 1,
         sys_lseek(p, h, offset), UNCHANGED sh
  PROVE  StepGood
<1>1. /\ fdt[p][h].kind = "VfsFile" /\ UNCHANGED <<fs, cwd>>
      /\ fdt' = [fdt EXCEPT ![p][h].offset = offset]
  BY DEF sys_lseek
<1>2. Sound(fs') /\ Allowed(fs, fs', sh.uid)
  BY <1>1, AllowedSame DEF FilesInv
<1> QED BY <1>1, <1>2, OffsetStep

LEMMA ScanStep ==
  ASSUME FilesInv, NEW p \in Procs, NEW h \in Handles, NEW room \in Rooms,
         sys_getdents64(p, h, room), UNCHANGED sh
  PROVE  StepGood
<1>0. fs \in Table /\ room \in Nat
  BY FilesAssumption DEF FilesInv, Sound
<1>1. PICK e : e = fdt[p][h]
  OBVIOUS
<1>2. e \in DirDesc
  <2>1. e \in Descriptor /\ e.kind = "VfsDir"
    BY <1>1 DEF FilesInv, sys_getdents64
  <2> QED BY <2>1, Kinds
<1>3. e.pos \in Nat
  BY <1>2, FsAssumption DEF DirDesc
<1>4. PICK list : list = list_dir_indexed(fs, e.inode)
  OBVIOUS
<1>5. PICK rest : rest = SubSeq(list, e.pos + 1, Len(list))
  OBVIOUS
<1>6. PICK got : got = Dirents(rest, room)
  OBVIOUS
<1>7. list \in Seq(Inodes) /\ Len(list) <= MaxInodes
  BY <1>4, ListTyped
<1>8. /\ rest \in Seq(Inodes)
      /\ Len(rest) = IF e.pos <= Len(list) THEN Len(list) - e.pos ELSE 0
      /\ \A m \in 1 .. Len(list) - e.pos : rest[m] = list[e.pos + m]
  BY <1>3, <1>5, <1>7, RestOf
<1>81. Partial(rest, room, Len(rest), got)
  BY <1>0, <1>6, <1>8, DirentsTyped
<1>9. /\ got \in Acc /\ got.out \in Seq(Inodes) /\ Len(got.out) <= Len(rest)
      /\ ~got.passed => \A m \in 1 .. Len(got.out) : got.out[m] = rest[m]
      /\ LongestRecord <= room /\ Len(rest) >= 1 => Len(got.out) >= 1
  BY <1>81 DEF Partial, Acc
<1>10. PICK x : x = Scanned(e, list, got, room)
  OBVIOUS
<1>11. x \in DirDesc
  BY <1>0, <1>2, <1>7, <1>8, <1>9, <1>10, ScannedTyped
<1>12. e.pos <= Len(list) => Continues(list, e.pos, got, room)
  <2> SUFFICES ASSUME e.pos <= Len(list) PROVE Continues(list, e.pos, got, room)
    OBVIOUS
  <2>1. /\ Len(rest) = Len(list) - e.pos /\ Len(rest) \in Nat
        /\ Len(list) \in Nat /\ Len(got.out) \in Nat
    BY <1>7, <1>8, <1>9
  <2>2. Len(got.out) <= Len(list) - e.pos
    BY <1>9, <2>1
  <2>3. ASSUME ~got.passed, NEW m \in 1 .. Len(got.out) PROVE got.out[m] = list[e.pos + m]
    <3>1. m \in 1 .. Len(list) - e.pos
      BY <1>3, <2>1, <2>2
    <3> QED BY <1>8, <1>9, <2>3, <3>1
  <2>4. e.pos < Len(list) /\ room >= LongestRecord => Len(got.out) >= 1
    <3>1. LongestRecord \in Nat
      BY NameAssumption DEF LongestRecord, RecordLen
    <3> QED BY <1>0, <1>3, <1>9, <2>1, <3>1
  <2> QED BY <2>2, <2>3, <2>4 DEF Continues
<1>13. ScanInv => ScanOK(x)
  <2>1. ScanInv => ScanOK(e)
    BY <1>1, <1>2 DEF ScanInv
  <2> QED BY <1>0, <1>2, <1>7, <1>9, <1>10, <1>12, <2>1, ScannedOK
<1>14. fdt' = [fdt EXCEPT ![p][h] = x] /\ UNCHANGED <<fs, cwd>>
  BY <1>1, <1>4, <1>5, <1>6, <1>10 DEF sys_getdents64
<1>15. Sound(fs') /\ Allowed(fs, fs', sh.uid)
  BY <1>14, AllowedSame DEF FilesInv
<1>16. x \in Descriptor
  BY <1>11 DEF Descriptor
<1> QED BY <1>13, <1>14, <1>15, <1>16, DescStep

LEMMA ChdirStep ==
  ASSUME FilesInv, NEW p \in Procs, NEW path \in Paths, sys_chdir(p, path), UNCHANGED sh
  PROVE  StepGood
<1>1. PICK d : d = open_dir(fs, path, cwd[p])
  OBVIOUS
<1>2. d \in Found /\ d # NoInode
  BY <1>1, OpenFound, FilesAssumption DEF FilesInv, Sound, sys_chdir
<1>3. cwd' = [cwd EXCEPT ![p] = d] /\ UNCHANGED <<fs, fdt>>
  BY <1>1 DEF sys_chdir
<1>4. cwd' \in [Procs -> Inodes] /\ sh' \in [cwd: Inodes, uid: Uids]
  BY <1>2, <1>3 DEF FilesInv, Found
<1> QED BY <1>3, <1>4, DirStep

LEMMA FileCallStep ==
  ASSUME FilesInv, NEW p \in Procs, FileCall(p), UNCHANGED sh
  PROVE  StepGood
<1>0. Paths \subseteq Path /\ MkdirModes \subseteq Modes /\ 0 \in Uids /\ Sound(fs)
  BY FilesAssumption, FsAssumption DEF FilesInv
<1>1. ASSUME NEW d \in {h \in Handles : fdt[p][h] # Empty} \cup {AT_FDCWD}, NEW path \in Paths,
             NEW mode \in MkdirModes, sys_mkdirat(p, d, path, mode)
      PROVE  StepGood
  <2>1. PICK base : base = at_cwd(p, d)
    OBVIOUS
  <2>2. base \in Inodes
    BY <2>1, AtCwd
  <2>3. UNCHANGED <<cwd, fdt>> /\ fs' = mkdir(fs, path, base, 0, mode).fs
    BY <1>1, <2>1 DEF sys_mkdirat, Does
  <2>4. Good(fs, fs', sh.uid)
    BY <1>0, <2>2, <2>3, MkdirGood
  <2> QED BY <2>3, <2>4, TableStep
<1>2. ASSUME NEW d \in {h \in Handles : fdt[p][h] # Empty} \cup {AT_FDCWD}, NEW path \in Paths,
             NEW removedir \in BOOLEAN, sys_unlinkat(p, d, path, removedir)
      PROVE  StepGood
  <2>1. PICK base : base = at_cwd(p, d)
    OBVIOUS
  <2>2. base \in Inodes
    BY <2>1, AtCwd
  <2>3. /\ UNCHANGED <<cwd, fdt>>
        /\ fs' = rmdir(fs, path, base, 0).fs \/ fs' = unlink(fs, path, base, 0).fs
    BY <1>2, <2>1 DEF sys_unlinkat, Does
  <2>4. Good(fs, fs', sh.uid)
    BY <1>0, <2>2, <2>3, RmdirGood, UnlinkGood
  <2> QED BY <2>3, <2>4, TableStep
<1>3. CASE \E d \in {h \in Handles : fdt[p][h] # Empty} \cup {AT_FDCWD}, path \in Paths :
             \/ \E flags \in OpenFlags : sys_openat(p, d, path, flags)
             \/ \E mode \in MkdirModes : sys_mkdirat(p, d, path, mode)
             \/ \E removedir \in BOOLEAN : sys_unlinkat(p, d, path, removedir)
  BY <1>1, <1>2, <1>3, OpenStep
<1>4. CASE \E path \in Paths : sys_chdir(p, path)
  BY <1>4, ChdirStep
<1>5. CASE \E h \in Handles : \/ sys_close(p, h) \/ sys_dup(p, h)
                              \/ \E room \in Rooms : sys_getdents64(p, h, room)
  BY <1>5, CloseStep, DupStep, ScanStep
<1>6. CASE \E h \in Handles : \/ \E len \in 1 .. MaxData : sys_read(p, h, len) \/ sys_write(p, h, len)
                              \/ \E offset \in 0 .. MaxData + 1 : sys_lseek(p, h, offset)
  <2>1. 1 .. MaxData \subseteq Nat
    BY FsAssumption
  <2> QED BY <1>6, <2>1, ReadStep, WriteStep, SeekStep
<1>7. PathsInUse \subseteq Paths
  BY DEF PathsInUse
<1> QED BY <1>3, <1>4, <1>5, <1>6, <1>7 DEF FileCall

\* A command whose operation is good for the user of the shell.
LEMMA RunsStep ==
  ASSUME FilesInv, NEW r, Good(fs, r.fs, sh.uid), Runs(r)
  PROVE  StepGood
<1>1. fs' = r.fs /\ UNCHANGED <<cwd, fdt, sh>>
  BY DEF Runs, Does
<1> QED BY <1>1, TableStep

LEMMA ReadAtTyped ==
  ASSUME NEW f \in Table, NEW path \in Path, NEW dir \in Inodes, NEW uid
  PROVE  read_at(f, path, dir, uid) \in Nat \cup {NoInode}
<1>1. resolve(f, path, dir) \in Found
  BY ResolveFound
<1>2. \A i \in Inodes : f[i].size \in Nat
  BY FieldTypes, FsAssumption
<1> QED BY <1>1, <1>2 DEF read_at, Found

LEMMA AppendGood ==
  ASSUME FilesInv, NEW path \in Path, NEW len \in Nat
  PROVE  Good(fs, do_append(path, len).fs, sh.uid)
<1>0. Sound(fs) /\ fs \in Table /\ sh.cwd \in Inodes /\ sh.uid \in Uids /\ AppendCap \in Nat
  BY ShellAssumption, FsAssumption DEF FilesInv, Sound
<1> DEFINE size == read_at(fs, path, sh.cwd, sh.uid)
           prefix == IF size = NoInode THEN 0 ELSE Least(size, AppendCap)
<1>1. size \in Nat \cup {NoInode}
  BY <1>0, ReadAtTyped
<1>2. PICK n : n = prefix + Least(len, AppendCap - prefix) + 1
  OBVIOUS
<1>3. n \in Nat
  <2> HIDE DEF size
  <2> QED BY <1>0, <1>1, <1>2 DEF Least
<1>4. do_append(path, len) = write(fs, path, sh.cwd, n, sh.uid)
  BY <1>2 DEF do_append
<1> QED BY <1>0, <1>3, <1>4, WriteGood

LEMMA ExecuteStep ==
  ASSUME FilesInv, execute
  PROVE  StepGood
<1>0. /\ Paths \subseteq Path /\ Texts \subseteq Nat /\ Sound(fs) /\ fs \in Table
      /\ sh.cwd \in Inodes /\ sh.uid \in Uids /\ Mode644 \in Modes /\ MaxData \in Nat
  BY FilesAssumption, ShellAssumption, FsAssumption DEF FilesInv, Sound
<1>1. ASSUME NEW path \in Paths, cmd_cd(path) PROVE StepGood
  <2>1. PICK d : d = open_dir(fs, path, sh.cwd)
    OBVIOUS
  <2>2. d \in Found /\ d # NoInode
    BY <1>0, <1>1, <2>1, OpenFound DEF cmd_cd
  <2>3. sh' = [sh EXCEPT !.cwd = d] /\ UNCHANGED <<fs, cwd, fdt>>
    BY <1>1, <2>1 DEF cmd_cd, fileVars
  <2>4. cwd' \in [Procs -> Inodes] /\ sh' \in [cwd: Inodes, uid: Uids]
    BY <2>2, <2>3 DEF FilesInv, Found
  <2> QED BY <2>3, <2>4, DirStep
<1>2. ASSUME NEW path \in Paths, cmd_mkdir(path) \/ cmd_rmdir(path) \/ cmd_rm(path) \/ cmd_touch(path)
      PROVE  StepGood
  <2>1. CASE cmd_mkdir(path)
    BY <1>0, <2>1, MkdirGood, RunsStep DEF cmd_mkdir
  <2>2. CASE cmd_rmdir(path)
    BY <1>0, <2>2, RmdirGood, RunsStep DEF cmd_rmdir
  <2>3. CASE cmd_rm(path)
    BY <1>0, <2>3, UnlinkGood, RunsStep DEF cmd_rm
  <2>4. CASE cmd_touch(path)
    BY <1>0, <2>4, TouchGood, RunsStep DEF cmd_touch
  <2> QED BY <1>2, <2>1, <2>2, <2>3, <2>4
<1>3. ASSUME NEW path \in Paths, NEW len \in Texts,
             \/ cmd_write(path, len) \/ cmd_append(path, len)
             \/ \E append \in BOOLEAN : cmd_echo(path, len, append)
      PROVE  StepGood
  <2>1. PICK n : n = Least(len, MaxData - 1) + 1
    OBVIOUS
  <2>2. n \in Nat /\ len \in Nat
    BY <1>0, <2>1 DEF Least
  <2>3. \/ Runs(write(fs, path, sh.cwd, len, sh.uid))
        \/ Runs(do_append(path, len))
        \/ Runs(write(fs, path, sh.cwd, n, sh.uid))
    BY <1>3, <2>1 DEF cmd_write, cmd_append, cmd_echo
  <2>4. Good(fs, write(fs, path, sh.cwd, len, sh.uid).fs, sh.uid)
    BY <1>0, <2>2, WriteGood
  <2>5. Good(fs, write(fs, path, sh.cwd, n, sh.uid).fs, sh.uid)
    BY <1>0, <2>2, WriteGood
  <2>6. Good(fs, do_append(path, len).fs, sh.uid)
    BY <1>0, <2>2, AppendGood
  <2> QED BY <2>3, <2>4, <2>5, <2>6, RunsStep
<1>4. ASSUME NEW path \in Paths, NEW mode \in Modes, cmd_chmod(mode, path) PROVE StepGood
  BY <1>0, <1>4, ChmodGood, RunsStep DEF cmd_chmod
<1>5. ASSUME NEW path \in Paths, NEW owner \in Uids, cmd_chown(owner, path) PROVE StepGood
  BY <1>0, <1>5, ChownGood, RunsStep DEF cmd_chown
<1>6. ASSUME NEW src \in Paths, NEW dst \in Paths, cmd_cp(src, dst) PROVE StepGood
  <2>1. PICK n : n = read_at(fs, src, sh.cwd, sh.uid)
    OBVIOUS
  <2>2. n \in Nat
    BY <1>0, <1>6, <2>1, ReadAtTyped DEF cmd_cp
  <2>3. Good(fs, write(fs, dst, sh.cwd, n, sh.uid).fs, sh.uid)
    BY <1>0, <2>2, WriteGood
  <2> QED BY <1>6, <2>1, <2>3, RunsStep DEF cmd_cp
<1>7. ASSUME NEW src \in Paths, NEW dst \in Paths, cmd_mv(src, dst) PROVE StepGood
  BY <1>0, <1>7, RenameGood, RunsStep DEF cmd_mv
<1>8. ASSUME NEW user \in Uids, cmd_su(user) PROVE StepGood
  <2>1. sh' = [sh EXCEPT !.uid = user] /\ UNCHANGED <<fs, cwd, fdt>>
    BY <1>8 DEF cmd_su, fileVars
  <2>2. cwd' \in [Procs -> Inodes] /\ sh' \in [cwd: Inodes, uid: Uids]
    BY <2>1 DEF FilesInv
  <2> QED BY <2>1, <2>2, DirStep
<1>9. PathsInUse \subseteq Paths
  BY DEF PathsInUse
<1>10. ASSUME NEW path \in PathsInUse,
              \/ cmd_cd(path) \/ cmd_mkdir(path) \/ cmd_rmdir(path) \/ cmd_rm(path) \/ cmd_touch(path)
              \/ \E len \in Texts :
                   \/ cmd_write(path, len) \/ cmd_append(path, len)
                   \/ \E append \in BOOLEAN : cmd_echo(path, len, append)
              \/ \E mode \in Modes : cmd_chmod(mode, path)
              \/ \E owner \in Uids : cmd_chown(owner, path)
       PROVE  StepGood
  <2>1. path \in Paths
    BY <1>9
  <2> QED BY <1>1, <1>2, <1>3, <1>4, <1>5, <1>10, <2>1
<1>11. ASSUME NEW src \in PathsInUse, NEW dst \in PathsInUse, cmd_cp(src, dst) \/ cmd_mv(src, dst)
       PROVE  StepGood
  BY <1>6, <1>7, <1>9, <1>11
<1> QED BY <1>8, <1>10, <1>11 DEF execute

LEMMA NextStep ==
  ASSUME FilesInv, [Next]_vars
  PROVE  StepGood
<1>1. CASE execute
  BY <1>1, ExecuteStep
<1>2. CASE \E p \in Procs : FileCall(p) /\ UNCHANGED <<lineVars, sh>>
  BY <1>2, FileCallStep
<1>3. CASE UNCHANGED <<fs, cwd, fdt, sh>>
  <2>1. Good(fs, fs', sh.uid)
    BY <1>3, GoodSame DEF FilesInv
  <2> QED BY <1>3, <2>1, TableStep
<1> QED BY <1>1, <1>2, <1>3 DEF Next, vars, fileVars

LEMMA FilesInvInit == Init => FilesInv /\ ScanInv
<1> SUFFICES ASSUME Init PROVE FilesInv /\ ScanInv
  OBVIOUS
<1>1. RootInode \in Inode /\ RootInode.used /\ RootInode.kind = "Dir" /\ RootInode.parent = Root
      /\ RootInode.data = EmptyInode.data
  <2>1. EmptyInode \in Inode /\ EmptyInode.parent = Root
    BY EmptyInodeTyped DEF EmptyInode
  <2>2. "/" \in StoredNames
    BY NameAssumption DEF StoredNames, AllNames
  <2> QED BY <2>1, <2>2 DEF RootInode, Inode
<1>2. EmptyInode \in Inode /\ EmptyInode.used = FALSE
  BY EmptyInodeTyped DEF EmptyInode
<1>3. fs = [i \in Inodes |-> IF i = Root THEN RootInode ELSE EmptyInode]
  BY DEF Init, FilesInit
<1>4. fs \in Table /\ fs[Root] = RootInode /\ \A i \in Inodes : fs[i].used => i = Root
  BY <1>1, <1>2, <1>3, RootInodes DEF Table
<1>5. Sound(fs)
  <2>1. RootIn(fs)
    BY <1>1, <1>4 DEF RootIn
  <2>2. CleanIn(fs)
    BY <1>1, <1>4, EmptyInodeTyped DEF CleanIn
  <2>3. UniqueIn(fs)
    BY <1>4 DEF UniqueIn, ChildOf
  <2> QED BY <1>4, <2>1, <2>2, <2>3 DEF Sound
<1>6. cwd \in [Procs -> Inodes] /\ sh \in [cwd: Inodes, uid: Uids]
  BY RootInodes, FsAssumption DEF Init, FilesInit
<1>7. fdt \in [Procs -> [Handles -> Descriptor]] /\ \A p \in Procs, h \in Handles : fdt[p][h] = Empty
  BY DEF Init, FilesInit, Descriptor
<1>8. ScanInv
  <2>1. Empty \notin DirDesc
    BY DEF Empty, DirDesc
  <2> QED BY <1>7, <2>1 DEF ScanInv
<1> QED BY <1>5, <1>6, <1>7, <1>8 DEF FilesInv

LEMMA FilesInvHolds == Spec => []FilesInv
<1>1. FilesInv /\ [Next]_vars => FilesInv'
  BY NextStep DEF StepGood
<1>2. Init => FilesInv
  BY FilesInvInit
<1> QED BY <1>1, <1>2, PTL DEF Spec

-----------------------------------------------------------------------------
\* The inode table, the descriptors and the current directories keep their
\* types: no offset passes one beyond the largest file, and no position in a
\* directory passes MAX_INODES, in any order of system calls and commands.
THEOREM FilesAreTyped == Spec => []FilesTypeOK
<1>1. FilesInv => FilesTypeOK
  <2> SUFFICES ASSUME FilesInv PROVE FilesTypeOK
    OBVIOUS
  <2>1. fs \in [Inodes -> Inode] /\ cwd \in [Procs -> Inodes] /\ sh \in [cwd: Inodes, uid: Uids]
    BY DEF FilesInv, Sound, Table
  <2>2. ASSUME NEW p \in Procs, NEW h \in Handles
        PROVE  LET e == fdt[p][h]
               IN  \/ e = Empty
                   \/ e.kind = "VfsFile" /\ e.inode \in Inodes /\ e.offset \in 0 .. MaxData + 1
                   \/ e.kind = "VfsDir" /\ e.inode \in Inodes /\ e.pos \in 0 .. MaxInodes
    <3>1. PICK e : e = fdt[p][h]
      OBVIOUS
    <3>2. e \in Descriptor
      BY <3>1 DEF FilesInv
    <3> QED BY <3>1, <3>2 DEF Descriptor, FileDesc, DirDesc
  <2> QED BY <2>1, <2>2 DEF FilesTypeOK
<1> QED BY <1>1, FilesInvHolds, PTL

\* The root directory stays a used directory that is its own parent, whatever
\* rmdir, unlink, rename, open and su are called with.
THEOREM RootIsKept == Spec => []RootStays
<1>1. FilesInv => RootStays
  BY DEF FilesInv, Sound, RootIn, RootStays
<1> QED BY <1>1, FilesInvHolds, PTL

\* A name other than the dots that is shorter than MAX_NAME leads to one inode
\* in every directory, also one that is gone, since touch, write and open
\* create only what resolve does not find, mkdir only what lookup_in does not
\* find, and rename frees the file that has the name.  A stored name shorter
\* than MAX_NAME is the whole of the name given, which is the one looked up.
THEOREM NamesAreUnique == Spec => []NamesUnique
<1>1. FilesInv => NamesUnique
  BY DEF FilesInv, Sound, UniqueIn, NamesUnique
<1> QED BY <1>1, FilesInvHolds, PTL

\* No file shows a byte of a file that was deleted: alloc empties an inode, so
\* that a write beyond the end, which does not fill the gap, uncovers zeros.
THEOREM OldBytesAreGone == Spec => []NoOldBytes
<1>1. FilesInv => NoOldBytes
  <2> SUFFICES ASSUME FilesInv, NEW i \in Inodes, IsFile(fs, i), NEW o \in 0 .. fs[i].size - 1
               PROVE  fs[i].data[o] # "old"
    BY DEF NoOldBytes
  <2>1. fs[i].size \in 0 .. MaxData
    BY FieldTypes DEF FilesInv, Sound
  <2>2. o \in Offsets
    BY <2>1, FsAssumption DEF Offsets
  <2> QED BY <2>2 DEF FilesInv, Sound, CleanIn, IsFile
<1> QED BY <1>1, FilesInvHolds, PTL

\* With names of any lengths and buffers of any sizes, a scan by getdents64 of
\* a directory that does not change ends: it returns no more records than
\* there are entries, and one more as long as there are fewer and the buffer
\* holds any record.  It returns the entries of list_dir_indexed in order,
\* each once, as long as no record is written behind one that was skipped.
THEOREM DirScanIsExact == Spec => []DirScanExact
<1> DEFINE Inv == FilesInv /\ ScanInv
<1>1. Init => Inv
  BY FilesInvInit
<1>2. Inv /\ [Next]_vars => Inv'
  BY NextStep DEF StepGood
<1>3. Inv => DirScanExact
  <2> SUFFICES ASSUME FilesInv, ScanInv, NEW p \in Procs, NEW h \in Handles,
                      fdt[p][h].kind = "VfsDir", fdt[p][h].same
               PROVE  LET e == fdt[p][h]
                      IN  /\ Len(e.seen) = e.pos /\ e.pos <= Len(e.list)
                          /\ e.eof => e.pos = Len(e.list)
                          /\ ~e.passed => e.seen = SubSeq(e.list, 1, e.pos)
    BY DEF DirScanExact
  <2>1. fdt[p][h] \in DirDesc
    BY Kinds DEF FilesInv
  <2> QED BY <2>1 DEF ScanInv, ScanOK
<1> QED BY <1>1, <1>2, <1>3, PTL DEF Spec

-----------------------------------------------------------------------------
(***************************************************************************)
(* The way up and the way down.  The names that inode_path collects lead   *)
(* from where the walk up stands to where it began.                        *)
(***************************************************************************)
Ups == [at: Inodes, names: Seq(AllNames), stop: BOOLEAN]

UpStart(i) == [at |-> i, names |-> <<>>, stop |-> FALSE]

UpStep(f, u) ==
  IF u.stop \/ u.at = Root \/ ~f[u.at].used THEN [u EXCEPT !.stop = TRUE]
  ELSE [at |-> f[u.at].parent, names |-> <<f[u.at].name>> \o u.names,
        stop |-> f[u.at].parent = u.at]

\* u is the walk up from i, one entry for each turn of the loop.
Climbs(f, i, u, n) == u[0] = UpStart(i) /\ \A k \in 1 .. n : u[k] = UpStep(f, u[k - 1])

LEMMA ClimbExists ==
  ASSUME NEW f, NEW i, NEW limit \in Nat
  PROVE  \E u : Climbs(f, i, u, limit) /\ UpFrom(f, limit, i) = u[limit]
<1> DEFINE Step(u) == UpStep(f, u)
           Rule(c, n) == [k \in 0 .. n |-> IF k = 0 THEN UpStart(i) ELSE Step(c[k - 1])]
           Reached(n) == \E c : c = Rule(c, n)
           Bad == {n \in 0 .. limit : ~Reached(n)}
           cur == CHOOSE c : c = Rule(c, limit)
<1>1. UpFrom(f, limit, i) = cur[limit]
  BY DEF UpFrom, UpStart, UpStep
<1> HIDE DEF Step
<1>2. Reached(0)
  <2> DEFINE c == [k \in 0 .. 0 |-> UpStart(i)]
  <2>1. c = Rule(c, 0)
    OBVIOUS
  <2> HIDE DEF c, Rule
  <2> QED BY <2>1
<1>3. ASSUME NEW n \in Nat, Reached(n) PROVE Reached(n + 1)
  <2>1. PICK c : c = Rule(c, n)
    BY <1>3
  <2> DEFINE d == [k \in 0 .. n + 1 |-> IF k = n + 1 THEN Step(c[n]) ELSE c[k]]
  <2>2. ASSUME NEW k \in 0 .. n + 1
        PROVE  d[k] = IF k = 0 THEN UpStart(i) ELSE Step(d[k - 1])
    <3>1. CASE k = n + 1
      <4>1. d[k] = Step(c[n]) /\ d[n] = c[n] /\ k - 1 = n /\ k # 0
        BY <3>1
      <4> HIDE DEF d
      <4> QED BY <4>1
    <3>2. CASE k # n + 1
      <4>1. k \in 0 .. n /\ d[k] = c[k] /\ (k # 0 => d[k - 1] = c[k - 1])
        BY <3>2
      <4>2. c[k] = IF k = 0 THEN UpStart(i) ELSE Step(c[k - 1])
        BY <2>1, <4>1
      <4> HIDE DEF d
      <4> QED BY <4>1, <4>2
    <3> QED BY <3>1, <3>2
  <2>3. d = Rule(d, n + 1)
    <3>1. d = [k \in 0 .. n + 1 |-> d[k]]
      OBVIOUS
    <3> HIDE DEF d
    <3> QED BY <2>2, <3>1
  <2> HIDE DEF d, Rule
  <2> QED BY <2>3
<1>4. Reached(limit)
  <2> HIDE DEF Reached
  <2> SUFFICES ASSUME ~Reached(limit) PROVE FALSE
    OBVIOUS
  <2>1. Bad \subseteq Nat /\ Bad # {}
    OBVIOUS
  <2>2. PICK n \in Bad : \A m \in Bad : n <= m
    BY <2>1, LeastElement
  <2>3. n \in 1 .. limit
    BY <1>2, <2>2
  <2>4. n - 1 \in Nat /\ n - 1 \in 0 .. limit /\ n - 1 \notin Bad /\ (n - 1) + 1 = n
    BY <2>2, <2>3
  <2>5. Reached(n - 1)
    BY <2>4
  <2>6. Reached(n)
    BY <1>3, <2>4, <2>5
  <2> QED BY <2>2, <2>6
<1>5. cur = Rule(cur, limit)
  <2> HIDE DEF Rule
  <2> QED BY <1>4
<1> HIDE DEF cur
<1>6. cur[0] = UpStart(i) /\ \A k \in 1 .. limit : cur[k] = Step(cur[k - 1])
  <2>1. ASSUME NEW k \in 0 .. limit
        PROVE  cur[k] = IF k = 0 THEN UpStart(i) ELSE Step(cur[k - 1])
    BY <1>5
  <2> QED BY <2>1
<1>7. Climbs(f, i, cur, limit)
  BY <1>6 DEF Climbs, Step
<1> QED BY <1>1, <1>7

\* The walk from start along parts ends at i.
Leads(f, start, parts, i) == \E w : Walks(f, start, parts, w) /\ w[Len(parts)] = i

LEMMA LeadsNowhere ==
  ASSUME NEW f, NEW i \in Inodes
  PROVE  Leads(f, i, <<>>, i)
<1> DEFINE w == [n \in 0 .. 0 |-> i]
<1>1. Len(<<>>) = 0 /\ w \in [0 .. 0 -> Found] /\ w[0] = i
  BY DEF Found
<1> HIDE DEF w
<1>2. Walks(f, i, <<>>, w)
  BY <1>1 DEF Walks, Steps
<1> QED BY <1>1, <1>2 DEF Leads

LEMMA LeadsFrom ==
  ASSUME NEW f, NEW start \in Inodes, NEW name, NEW mid, Walk(f, start, name) = mid,
         NEW P, name \in P, NEW parts \in Seq(P), NEW i, Leads(f, mid, parts, i)
  PROVE  Leads(f, start, <<name>> \o parts, i)
<1>1. PICK w : Walks(f, mid, parts, w) /\ w[Len(parts)] = i
  BY DEF Leads
<1>2. PICK L \in Nat : L = Len(parts)
  OBVIOUS
<1>3. /\ Len(<<name>> \o parts) = L + 1 /\ (<<name>> \o parts)[1] = name
      /\ \A n \in 1 .. L : (<<name>> \o parts)[n + 1] = parts[n]
  BY <1>2
<1>4. PICK all : all = <<name>> \o parts
  OBVIOUS
<1> DEFINE v == [n \in 0 .. L + 1 |-> IF n = 0 THEN start ELSE w[n - 1]]
<1>5. /\ w \in [0 .. L -> Found] /\ w[0] = mid
      /\ \A n \in 1 .. L : w[n] = Walk(f, w[n - 1], parts[n])
  BY <1>1, <1>2 DEF Walks, Steps
<1>6. v \in [0 .. L + 1 -> Found] /\ v[0] = start /\ v[L + 1] = w[L]
  BY <1>5 DEF Found
<1>7. ASSUME NEW n \in 1 .. L + 1 PROVE v[n] = Walk(f, v[n - 1], all[n])
  <2>1. CASE n = 1
    <3>1. v[1] = w[0] /\ all[1] = name
      BY <1>3, <1>4
    <3> HIDE DEF v
    <3> QED BY <1>5, <1>6, <2>1, <3>1
  <2>2. CASE n # 1
    <3>1. PICK m : m = n - 1
      OBVIOUS
    <3>2. m \in 1 .. L /\ n = m + 1
      BY <2>2, <3>1
    <3>3. v[n] = w[m] /\ v[m] = w[m - 1] /\ all[n] = parts[m]
      BY <1>3, <1>4, <3>2
    <3>4. w[m] = Walk(f, w[m - 1], parts[m])
      BY <1>5, <3>2
    <3> HIDE DEF v
    <3> QED BY <3>1, <3>3, <3>4
  <2> QED BY <2>1, <2>2
<1> HIDE DEF v
<1>8. Walks(f, start, all, v) /\ v[Len(all)] = i
  BY <1>1, <1>2, <1>3, <1>4, <1>6, <1>7 DEF Walks, Steps
<1> QED BY <1>4, <1>8 DEF Leads

\* An entry is found in its directory by its name.
LEMMA ChildWalked ==
  ASSUME NEW f, Sound(f), NEW j \in Inodes, f[j].used, f[j].parent # j, f[j].name \in Names,
         NameLen[f[j].name] < MaxName
  PROVE  Walk(f, f[j].parent, f[j].name) = j
<1>1. PICK dir, name, k : dir = f[j].parent /\ name = f[j].name /\ k = lookup_in(f, dir, name)
  OBVIOUS
<1>2. f \in Table /\ dir \in Inodes /\ dir # NoInode
  BY <1>1, FieldTypes, RootInodes DEF Sound
<1>3. name \notin {".", ".."}
  BY <1>1, FsAssumption
<1>4. ChildOf(f, dir, j)
  BY <1>1 DEF ChildOf
<1>5. k # NoInode /\ k \in Inodes
  BY <1>1, <1>2, <1>4, LookupFound DEF Found
<1>6. ChildOf(f, dir, k) /\ f[k].name = name
  BY <1>1, <1>2, <1>3, <1>5, LookupFound
<1>7. k = j
  BY <1>1, <1>2, <1>3, <1>4, <1>5, <1>6 DEF Sound, UniqueIn
<1> QED BY <1>1, <1>2, <1>3, <1>7 DEF Walk

AllNamed(s) == \A m \in DOMAIN s : s[m] \in Names /\ NameLen[s[m]] < MaxName

\* Unless the walk up has got stuck, its names lead back to i.
LeadsBack(f, u, i) ==
  /\ u \in Ups
  /\ (u.stop /\ u.at # Root) \/ (AllNamed(u.names) => Leads(f, u.at, u.names, i))

LEMMA UpStepLeadsBack ==
  ASSUME NEW f, Sound(f), NEW u, NEW i, LeadsBack(f, u, i)
  PROVE  LeadsBack(f, UpStep(f, u), i)
<1>1. PICK j, s, v : j = u.at /\ s = u.names /\ v = UpStep(f, u)
  OBVIOUS
<1>2. u \in Ups /\ j \in Inodes /\ s \in Seq(AllNames) /\ u.stop \in BOOLEAN
  BY <1>1 DEF LeadsBack, Ups
<1>3. f[Root].used /\ f \in Table
  BY DEF Sound, RootIn
<1>4. CASE u.stop \/ j = Root \/ ~f[j].used
  <2>1. v = [u EXCEPT !.stop = TRUE]
    BY <1>1, <1>4 DEF UpStep
  <2>2. v \in Ups /\ v.at = j /\ v.names = s /\ v.stop
    BY <1>1, <1>2, <2>1 DEF Ups
  <2>3. CASE j # Root
    BY <1>1, <2>2, <2>3 DEF LeadsBack
  <2>4. CASE j = Root
    BY <1>1, <2>2, <2>4 DEF LeadsBack
  <2> QED BY <2>3, <2>4
<1>5. CASE ~u.stop /\ j # Root /\ f[j].used
  <2>1. PICK up, name : up = f[j].parent /\ name = f[j].name
    OBVIOUS
  <2>2. up \in Inodes /\ name \in AllNames
    BY <1>2, <1>3, <2>1 DEF Table, Inode, StoredNames
  <2>3. v = [at |-> up, names |-> <<name>> \o s, stop |-> up = j]
    BY <1>1, <1>5, <2>1 DEF UpStep
  <2>4. <<name>> \o s \in Seq(AllNames)
    BY <1>2, <2>2
  <2>5. v \in Ups /\ v.at = up /\ v.names = <<name>> \o s /\ v.stop = (up = j)
    BY <2>2, <2>3, <2>4 DEF Ups
  <2>6. CASE up = j
    BY <1>1, <1>5, <2>5, <2>6 DEF LeadsBack
  <2>7. CASE up # j
    <3>1. SUFFICES ASSUME AllNamed(<<name>> \o s) PROVE Leads(f, up, <<name>> \o s, i)
      BY <1>1, <2>5 DEF LeadsBack
    <3>2. /\ 1 \in DOMAIN (<<name>> \o s) /\ (<<name>> \o s)[1] = name
          /\ \A m \in DOMAIN s : m + 1 \in DOMAIN (<<name>> \o s) /\ (<<name>> \o s)[m + 1] = s[m]
      BY <1>2, <2>2
    <3>3. name \in Names /\ NameLen[name] < MaxName /\ AllNamed(s)
      BY <3>1, <3>2 DEF AllNamed
    <3>4. Leads(f, j, s, i)
      BY <1>1, <1>5, <3>3 DEF LeadsBack
    <3>5. Walk(f, up, name) = j
      BY <1>2, <1>5, <2>1, <2>7, <3>3, ChildWalked
    <3> QED BY <1>2, <2>2, <3>4, <3>5, LeadsFrom
  <2> QED BY <2>6, <2>7
<1> QED BY <1>2, <1>4, <1>5

LEMMA UpFromLeadsBack ==
  ASSUME NEW f, Sound(f), NEW i \in Inodes, NEW limit \in Nat
  PROVE  LeadsBack(f, UpFrom(f, limit, i), i)
<1>1. PICK u : Climbs(f, i, u, limit) /\ UpFrom(f, limit, i) = u[limit]
  BY ClimbExists
<1> DEFINE Bad == {n \in 0 .. limit : ~LeadsBack(f, u[n], i)}
<1>2. LeadsBack(f, u[0], i)
  <2>1. UpStart(i) \in Ups /\ UpStart(i).at = i /\ UpStart(i).names = <<>>
    BY DEF UpStart, Ups
  <2> QED BY <1>1, <2>1, LeadsNowhere DEF Climbs, LeadsBack
<1> SUFFICES ASSUME Bad # {} PROVE FALSE
  BY <1>1
<1>3. Bad \subseteq Nat
  OBVIOUS
<1>4. PICK n \in Bad : \A m \in Bad : n <= m
  BY <1>3, LeastElement
<1>5. n \in 1 .. limit /\ n - 1 \in 0 .. limit /\ n - 1 \notin Bad
  BY <1>2, <1>4
<1>6. LeadsBack(f, u[n - 1], i) /\ u[n] = UpStep(f, u[n - 1])
  BY <1>1, <1>5 DEF Climbs
<1>7. LeadsBack(f, u[n], i)
  BY <1>6, UpStepLeadsBack
<1> QED BY <1>4, <1>7

NoParts == [len |-> 0, parts |-> <<>>]

\* put is the path as inode_path writes it, one entry for each of its names.
Puts(room, s, put) ==
  put[0] = NoParts /\ \A n \in 1 .. Len(s) : put[n] = PutName(room, put[n - 1], s[n])

LEMMA PutExists ==
  ASSUME NEW f, NEW i, i # Root, NEW room, NEW s, s = UpFrom(f, MaxDepth, i).names, Len(s) \in Nat
  PROVE  \E put : Puts(room, s, put) /\ inode_path(f, i, room) = put[Len(s)]
<1> DEFINE Step(a, n) == PutName(room, a, s[n])
           Rule(c, n) == [k \in 0 .. n |-> IF k = 0 THEN NoParts ELSE Step(c[k - 1], k)]
           Reached(n) == \E c : c = Rule(c, n)
           Bad == {n \in 0 .. Len(s) : ~Reached(n)}
           cur == CHOOSE c : c = Rule(c, Len(s))
<1>1. inode_path(f, i, room) = cur[Len(s)]
  BY DEF inode_path, NoParts
<1> HIDE DEF Step
<1>2. Reached(0)
  <2> DEFINE c == [k \in 0 .. 0 |-> NoParts]
  <2>1. c = Rule(c, 0)
    OBVIOUS
  <2> HIDE DEF c, Rule
  <2> QED BY <2>1
<1>3. ASSUME NEW n \in Nat, Reached(n) PROVE Reached(n + 1)
  <2>1. PICK c : c = Rule(c, n)
    BY <1>3
  <2> DEFINE d == [k \in 0 .. n + 1 |-> IF k = n + 1 THEN Step(c[n], k) ELSE c[k]]
  <2>2. ASSUME NEW k \in 0 .. n + 1
        PROVE  d[k] = IF k = 0 THEN NoParts ELSE Step(d[k - 1], k)
    <3>1. CASE k = n + 1
      <4>1. d[k] = Step(c[n], k) /\ d[n] = c[n] /\ k - 1 = n /\ k # 0
        BY <3>1
      <4> HIDE DEF d
      <4> QED BY <4>1
    <3>2. CASE k # n + 1
      <4>1. k \in 0 .. n /\ d[k] = c[k] /\ (k # 0 => d[k - 1] = c[k - 1])
        BY <3>2
      <4>2. c[k] = IF k = 0 THEN NoParts ELSE Step(c[k - 1], k)
        BY <2>1, <4>1
      <4> HIDE DEF d
      <4> QED BY <4>1, <4>2
    <3> QED BY <3>1, <3>2
  <2>3. d = Rule(d, n + 1)
    <3>1. d = [k \in 0 .. n + 1 |-> d[k]]
      OBVIOUS
    <3> HIDE DEF d
    <3> QED BY <2>2, <3>1
  <2> HIDE DEF d, Rule
  <2> QED BY <2>3
<1>4. Reached(Len(s))
  <2> HIDE DEF Reached
  <2> SUFFICES ASSUME ~Reached(Len(s)) PROVE FALSE
    OBVIOUS
  <2>1. Bad \subseteq Nat /\ Bad # {}
    OBVIOUS
  <2>2. PICK n \in Bad : \A m \in Bad : n <= m
    BY <2>1, LeastElement
  <2>3. n \in 1 .. Len(s)
    BY <1>2, <2>2
  <2>4. n - 1 \in Nat /\ n - 1 \in 0 .. Len(s) /\ n - 1 \notin Bad /\ (n - 1) + 1 = n
    BY <2>2, <2>3
  <2>5. Reached(n - 1)
    BY <2>4
  <2>6. Reached(n)
    BY <1>3, <2>4, <2>5
  <2> QED BY <2>2, <2>6
<1>5. cur = Rule(cur, Len(s))
  <2> HIDE DEF Rule
  <2> QED BY <1>4
<1> HIDE DEF cur
<1>6. cur[0] = NoParts /\ \A k \in 1 .. Len(s) : cur[k] = Step(cur[k - 1], k)
  <2>1. ASSUME NEW k \in 0 .. Len(s)
        PROVE  cur[k] = IF k = 0 THEN NoParts ELSE Step(cur[k - 1], k)
    BY <1>5
  <2> QED BY <2>1
<1>7. Puts(room, s, cur)
  BY <1>6 DEF Puts, Step
<1> QED BY <1>1, <1>7

\* A path that leaves room in the buffer has been written whole.
Whole(room, s, n, a) == a.len \in Nat /\ (a.len < room => a.parts = SubSeq(s, 1, n))

LEMMA PutWhole ==
  ASSUME NEW room \in Nat, NEW s \in Seq(AllNames), AllNamed(s), NEW n \in 1 .. Len(s),
         NEW a, Whole(room, s, n - 1, a)
  PROVE  Whole(room, s, n, PutName(room, a, s[n]))
<1>1. PICK name : name = s[n]
  OBVIOUS
<1>2. name \in Names /\ name \in AllNames /\ NameLen[name] < MaxName
  <2>1. n \in DOMAIN s
    OBVIOUS
  <2>2. name \in Names /\ NameLen[name] < MaxName
    BY <1>1, <2>1, Zenon DEF AllNamed
  <2> QED BY <2>2 DEF AllNames
<1>3. PICK long \in Nat : long = NameLen[name]
  BY <1>2, NameAssumption
<1>4. long > 0 /\ Prefix[name][long] = name
  <2>0. MaxName \in Nat
    BY NameAssumption, Zenon
  <2>1. long \in 0 .. MaxName /\ NameLen[name] <= long
    BY <1>2, <1>3, <2>0
  <2>2. NameLen[name] > 0
    BY <1>2, NameAssumption, Zenon
  <2>3. Prefix[name][long] = name
    BY <1>2, <2>1, NameAssumption, Zenon
  <2> QED BY <1>3, <2>2, <2>3
<1>5. PICK len \in Nat : len = a.len
  BY DEF Whole
<1>6. PICK slash, k : slash = Least(len + 1, room) /\ k = Least(long, room - slash)
  OBVIOUS
<1>7. slash \in Nat /\ k \in Nat
  BY <1>6 DEF Least
<1>8. PICK b : b = PutName(room, a, name)
  OBVIOUS
<1>9. b = [len |-> slash + k,
           parts |-> IF k = 0 THEN a.parts ELSE Append(a.parts, Prefix[name][k])]
  BY <1>3, <1>5, <1>6, <1>8 DEF PutName
<1>10. b.len = slash + k /\ b.len \in Nat
  BY <1>7, <1>9
<1>11. ASSUME b.len < room PROVE b.parts = SubSeq(s, 1, n)
  <2>1. slash + k < room
    BY <1>10, <1>11
  <2>2. slash = len + 1 /\ len < room
    BY <1>6, <1>7, <2>1 DEF Least
  <2>3. k = long
    BY <1>6, <1>7, <2>1 DEF Least
  <2>4. b.parts = Append(a.parts, name)
    BY <1>4, <1>9, <2>3
  <2>5. a.parts = SubSeq(s, 1, n - 1)
    BY <1>5, <2>2 DEF Whole
  <2>6. Append(SubSeq(s, 1, n - 1), s[n]) = SubSeq(s, 1, n)
    OBVIOUS
  <2> QED BY <1>1, <2>4, <2>5, <2>6
<1> QED BY <1>1, <1>8, <1>10, <1>11 DEF Whole

LEMMA PutsWhole ==
  ASSUME NEW room \in Nat, NEW s \in Seq(AllNames), AllNamed(s), NEW put, Puts(room, s, put)
  PROVE  Whole(room, s, Len(s), put[Len(s)])
<1> DEFINE Bad == {n \in 0 .. Len(s) : ~Whole(room, s, n, put[n])}
<1>1. Whole(room, s, 0, put[0])
  <2>1. SubSeq(s, 1, 0) = <<>>
    OBVIOUS
  <2> QED BY <2>1 DEF Puts, NoParts, Whole
<1> SUFFICES ASSUME Bad # {} PROVE FALSE
  OBVIOUS
<1>2. Bad \subseteq Nat
  OBVIOUS
<1>3. PICK n \in Bad : \A m \in Bad : n <= m
  BY <1>2, LeastElement
<1>4. n \in 1 .. Len(s) /\ n - 1 \in 0 .. Len(s) /\ n - 1 \notin Bad
  BY <1>1, <1>3
<1>5. PICK a : a = put[n - 1]
  OBVIOUS
<1>6. Whole(room, s, n - 1, a) /\ put[n] = PutName(room, a, s[n])
  BY <1>4, <1>5 DEF Puts
<1>7. Whole(room, s, n, put[n])
  BY <1>4, <1>6, PutWhole
<1> QED BY <1>3, <1>7

\* What resolve makes of an absolute path that leads from the root to i.
LEMMA LeadsResolved ==
  ASSUME NEW f \in Table, NEW s \in Seq(AllNames), AllNamed(s), NEW i, Leads(f, Root, s, i)
  PROVE  resolve(f, [abs |-> TRUE, parts |-> s], Root) = i
<1>1. PICK path : path = [abs |-> TRUE, parts |-> s]
  OBVIOUS
<1>2. PICK w : Walks(f, Root, s, w) /\ w[Len(s)] = i
  BY DEF Leads
<1>3. path \in Path /\ path.abs /\ path.parts = s
  <2>1. s \in Seq(Names \cup {".", ".."})
    BY DEF AllNamed
  <2> QED BY <1>1, <2>1 DEF Path
<1>4. resolve(f, path, Root) = w[Len(s)]
  BY <1>2, <1>3, RootInodes, ResolveWalks
<1> QED BY <1>1, <1>2, <1>4

\* A path that getcwd returns leads resolve back to the directory, for every
\* tree and after any renames, in a buffer of any size: inode_path may cut the
\* path at the end of the buffer, but then getcwd says ERANGE.  The inode is
\* no more than 16 directories below the root, and each of them has a proper
\* name that is shorter than MAX_NAME, as NamesAreUnique needs it.
THEOREM PathsLeadBack == Spec => []PathRoundTrip
<1>1. FilesInv => PathRoundTrip
  <2> SUFFICES ASSUME FilesInv, NEW i \in Inodes, NEW size \in PathRooms, Attached(i),
                      sys_getcwd(i, size) # NoPath
               PROVE  resolve(fs, sys_getcwd(i, size), Root) = i
    BY DEF PathRoundTrip
  <2>1. Sound(fs) /\ fs \in Table /\ size \in Nat
    BY FilesAssumption DEF FilesInv, Sound
  <2>2. PICK path : path = inode_path(fs, i, size)
    OBVIOUS
  <2>3. sys_getcwd(i, size) = [abs |-> TRUE, parts |-> path.parts] /\ ~(path.len >= size)
    BY <2>2 DEF sys_getcwd
  <2>4. CASE i = Root
    <3>1. path.parts = <<>> /\ <<>> \in Seq(AllNames) /\ AllNamed(<<>>)
      BY <2>2, <2>4 DEF inode_path, AllNamed
    <3>2. Leads(fs, Root, <<>>, Root)
      BY RootInodes, LeadsNowhere
    <3> QED BY <2>1, <2>3, <2>4, <3>1, <3>2, LeadsResolved
  <2>5. CASE i # Root
    <3>1. PICK u, s : u = UpFrom(fs, MaxDepth, i) /\ s = u.names
      OBVIOUS
    <3>2. MaxDepth \in Nat
      BY DEF MaxDepth
    <3>3. LeadsBack(fs, u, i)
      BY <2>1, <3>1, <3>2, UpFromLeadsBack
    <3>4. s \in Seq(AllNames) /\ Len(s) \in Nat
      BY <3>1, <3>3 DEF LeadsBack, Ups
    <3>5. u.at = Root /\ AllNamed(s)
      BY <3>1, <3>4 DEF Attached, AllNamed
    <3>6. Leads(fs, Root, s, i)
      BY <3>1, <3>3, <3>5 DEF LeadsBack
    <3>7. PICK put : Puts(size, s, put) /\ path = put[Len(s)]
      BY <2>2, <2>5, <3>1, <3>4, PutExists
    <3>8. Whole(size, s, Len(s), path)
      BY <2>1, <3>4, <3>5, <3>7, PutsWhole
    <3>9. path.parts = SubSeq(s, 1, Len(s))
      BY <2>1, <2>3, <3>8 DEF Whole
    <3>10. path.parts = s
      BY <3>4, <3>9
    <3> QED BY <2>1, <2>3, <3>4, <3>5, <3>6, <3>10, LeadsResolved
  <2> QED BY <2>4, <2>5
<1> QED BY <1>1, FilesInvHolds, PTL

-----------------------------------------------------------------------------
\* A user of the shell other than root changes neither bytes, size, mode nor
\* owner of a file that it does not own and that others may not write: write,
\* append, cp, mv, chmod and chown check what they change, and no call of a
\* process that leaves its descriptors alone changes a file that stays.
THEOREM OthersFilesAreKept == Spec => OthersFilesKept
<1>1. FilesInv /\ [Next]_vars => [OthersKept]_vars
  BY NextStep DEF StepGood, Allowed, OthersKept
<1> QED BY <1>1, FilesInvHolds, PTL DEF Spec, OthersFilesKept

-----------------------------------------------------------------------------
(***************************************************************************)
(* The command line: what it shows, keeps and brings back, for lines and a *)
(* history of any length.                                                  *)
(***************************************************************************)
Line == Seq(Printable)
Slots == 0 .. HistDepth - 1

\* The types that the line editor keeps.
LineTyped ==
  /\ buf \in Line /\ saved \in Line
  /\ nav \in {NotBrowsing} \cup Slots
  /\ hist \in [bufs: [Slots -> Line], head: Slots, count: 0 .. HistDepth]
  /\ entered \in Seq(Line)

\* The inductive invariant: each part rests on the others, since what browsing
\* shows is what the history holds, and what it restores is what it saved.
LineInv == LineTyped /\ LineShown /\ HistoryRecent /\ DraftKept

-----------------------------------------------------------------------------
(***************************************************************************)
(* Sequences of characters, and the ring of the history.                   *)
(***************************************************************************)
LEMMA ErasingAll ==
  ASSUME NEW line \in Line
  PROVE  SubSeq(Prompt \o line, 1, Len(Prompt \o line) - Len(line)) = Prompt
<1> DEFINE shown == Prompt \o line
           left  == SubSeq(shown, 1, 1)
<1>1. shown \in Seq(Printable \cup {"$"}) /\ Len(shown) = Len(line) + 1 /\ shown[1] = "$"
  BY DEF Line, Prompt
<1>2. Len(shown) - Len(line) = 1
  BY <1>1 DEF Line
<1> HIDE DEF shown
<1>3. left \in Seq(Printable \cup {"$"}) /\ Len(left) = 1 /\ left[1] = "$"
  BY <1>1 DEF Line
<1> HIDE DEF left
<1>4. left = <<"$">>
  BY <1>3
<1> QED BY <1>2, <1>4 DEF left, shown, Prompt

LEMMA ErasingOne ==
  ASSUME NEW line \in Line, line # <<>>
  PROVE  /\ Front(line) \in Line
         /\ SubSeq(Prompt \o line, 1, Len(Prompt \o line) - 1) = Prompt \o Front(line)
BY DEF Line, Prompt, Front

LEMMA TypingOne ==
  ASSUME NEW line \in Line, NEW c \in Printable
  PROVE  /\ Append(line, c) \in Line
         /\ Append(Prompt \o line, c) = Prompt \o Append(line, c)
BY DEF Line, Prompt

\* The slot of the entry that is offset lines old, when head is written next.
SlotOf(head, offset) == (head + HistDepth - 1 - offset) % HistDepth

LEMMA SlotValue ==
  ASSUME NEW head \in Slots, NEW offset \in Slots
  PROVE  SlotOf(head, offset) = IF offset < head THEN head - 1 - offset
                                ELSE head + HistDepth - 1 - offset
BY LineAssumption DEF SlotOf, Slots

LEMMA NextHead ==
  ASSUME NEW head \in Slots
  PROVE  (head + 1) % HistDepth = IF head = HistDepth - 1 THEN 0 ELSE head + 1
BY LineAssumption DEF Slots

\* After a push the new line is the newest, and every other is one older.
LEMMA PushTurns ==
  ASSUME NEW head \in Slots, NEW offset \in Slots
  PROVE  /\ (head + 1) % HistDepth \in Slots
         /\ SlotOf(head, offset) \in Slots
         /\ offset = 0 => SlotOf((head + 1) % HistDepth, offset) = head
         /\ offset # 0 => /\ SlotOf((head + 1) % HistDepth, offset) = SlotOf(head, offset - 1)
                          /\ SlotOf(head, offset - 1) # head
<1>1. (head + 1) % HistDepth \in Slots
  BY NextHead, LineAssumption DEF Slots
<1>2. PICK next \in Slots : next = (head + 1) % HistDepth
  BY <1>1
<1>3. SlotOf(next, offset) = IF offset < next THEN next - 1 - offset
                             ELSE next + HistDepth - 1 - offset
  BY SlotValue
<1>4. SlotOf(head, offset) = IF offset < head THEN head - 1 - offset
                             ELSE head + HistDepth - 1 - offset
  BY SlotValue
<1>5. offset # 0 => SlotOf(head, offset - 1) = IF offset - 1 < head THEN head - 1 - (offset - 1)
                                     ELSE head + HistDepth - 1 - (offset - 1)
  <2> SUFFICES ASSUME offset # 0 PROVE offset - 1 \in Slots
    BY SlotValue
  <2> QED BY LineAssumption DEF Slots
<1>6. next = IF head = HistDepth - 1 THEN 0 ELSE head + 1
  BY <1>2, NextHead
<1>7. SlotOf(head, offset) \in Slots
  BY <1>4, LineAssumption DEF Slots
<1>8. offset = 0 => SlotOf(next, offset) = head
  BY <1>3, <1>6, LineAssumption DEF Slots
<1>9. offset # 0 => SlotOf(next, offset) = SlotOf(head, offset - 1)
  BY <1>3, <1>5, <1>6, LineAssumption DEF Slots
<1>10. offset # 0 => SlotOf(head, offset - 1) # head
  BY <1>5, LineAssumption DEF Slots
<1> QED BY <1>1, <1>2, <1>7, <1>8, <1>9, <1>10

-----------------------------------------------------------------------------
(***************************************************************************)
(* Every key keeps the invariant.                                          *)
(***************************************************************************)
\* What the history gives is a line that was entered.
LEMMA EntryFound ==
  ASSUME LineTyped, HistoryRecent, NEW offset \in 0 .. hist.count - 1
  PROVE  /\ offset \in Slots
         /\ Entry(offset) \in Line
         /\ Entry(offset) = entered[offset + 1]
<1>1. offset \in Slots /\ hist.head \in Slots
  BY LineAssumption DEF LineTyped, Slots
<1>2. SlotOf(hist.head, offset) \in Slots
  BY <1>1, PushTurns
<1>3. Entry(offset) \in Line
  BY <1>2 DEF Entry, SlotOf, LineTyped
<1> QED BY <1>1, <1>3 DEF HistoryRecent

\* A line that is not empty goes to the history, which forgets the oldest
\* when it is full.
LEMMA PushKeeps ==
  ASSUME LineInv, buf # <<>>, Enter
  PROVE  LineInv'
<1> USE LineAssumption DEF LineInv
<1> PICK h : h = hist
  OBVIOUS
<1> PICK e : e = entered
  OBVIOUS
<1> PICK line : line = buf
  OBVIOUS
<1>t. /\ h \in [bufs: [Slots -> Line], head: Slots, count: 0 .. HistDepth]
      /\ e \in Seq(Line) /\ line \in Line
      /\ h.count = Len(e)
      /\ \A offset \in 0 .. h.count - 1 :
           h.bufs[SlotOf(h.head, offset)] = e[offset + 1]
  BY DEF LineTyped, HistoryRecent, Entry, SlotOf
<1> DEFINE keep == IF Len(e) < HistDepth THEN Len(e) + 1 ELSE HistDepth
           more == <<line>> \o e
           new  == SubSeq(more, 1, keep)
<1>1. more \in Seq(Line) /\ Len(more) = Len(e) + 1 /\ more[1] = line
      /\ \A i \in 1 .. Len(e) : more[i + 1] = e[i]
  BY <1>t
<1>2. keep \in 0 .. Len(more) /\ keep \in 1 .. HistDepth /\ keep <= Len(e) + 1
  BY <1>1, <1>t
<1>3. new \in Seq(Line) /\ Len(new) = keep /\ \A i \in 1 .. keep : new[i] = more[i]
  <2> HIDE DEF more, keep
  <2> QED BY <1>1, <1>2
<1>4. entered' = new
  BY DEF Enter
<1>5. hist' = [bufs  |-> [h.bufs EXCEPT ![h.head] = line],
               head  |-> (h.head + 1) % HistDepth,
               count |-> IF h.count < HistDepth THEN h.count + 1 ELSE h.count]
  BY DEF Enter, Pushed
<1>6. hist'.count = keep /\ hist'.count \in 0 .. HistDepth
  BY <1>5, <1>2, <1>t
<1>7. hist'.head = (h.head + 1) % HistDepth /\ hist'.head \in Slots
  BY <1>5, <1>t, PushTurns DEF Slots
<1>8. hist'.bufs = [h.bufs EXCEPT ![h.head] = line] /\ hist'.bufs \in [Slots -> Line]
  BY <1>5, <1>t
<1> HIDE DEF more, keep, new
<1>9. ASSUME NEW offset \in 0 .. keep - 1
      PROVE  hist'.bufs[SlotOf(hist'.head, offset)] = new[offset + 1]
  <2>1. offset \in Slots /\ offset + 1 \in 1 .. keep
    BY <1>2 DEF Slots
  <2>2. CASE offset = 0
    <3>1. SlotOf(hist'.head, offset) = h.head
      BY <2>1, <2>2, <1>7, <1>t, PushTurns
    <3> QED BY <3>1, <2>2, <1>8, <1>1, <1>3, <1>2, <1>t
  <2>3. CASE offset # 0
    <3>0. /\ SlotOf((h.head + 1) % HistDepth, offset) = SlotOf(h.head, offset - 1)
          /\ SlotOf(h.head, offset - 1) # h.head
      <4>1. PICK head \in Slots : head = h.head
        BY <1>t
      <4>2. /\ SlotOf((head + 1) % HistDepth, offset) = SlotOf(head, offset - 1)
            /\ SlotOf(head, offset - 1) # head
        BY <2>1, <2>3, PushTurns, Zenon
      <4> QED BY <4>1, <4>2
    <3>1. /\ SlotOf(hist'.head, offset) = SlotOf(h.head, offset - 1)
          /\ SlotOf(h.head, offset - 1) # h.head
      BY <3>0, <1>7
    <3>2. offset - 1 \in Slots /\ offset - 1 \in 0 .. h.count - 1
      BY <2>1, <2>3, <1>2, <1>t DEF Slots
    <3>3. SlotOf(h.head, offset - 1) \in Slots
      BY <3>2, <1>t, PushTurns
    <3>4. hist'.bufs[SlotOf(hist'.head, offset)] = h.bufs[SlotOf(h.head, offset - 1)]
      BY <3>1, <3>3, <1>8, <1>t
    <3>5. h.bufs[SlotOf(h.head, offset - 1)] = e[offset]
      BY <3>2, <1>t
    <3>6. new[offset + 1] = more[offset + 1] /\ more[offset + 1] = e[offset]
      BY <2>1, <2>3, <1>1, <1>2, <1>3, <1>t
    <3> QED BY <3>4, <3>5, <3>6
  <2> QED BY <2>2, <2>3
<1>10. HistoryRecent'
  <2>1. hist'.count = Len(entered')
    BY <1>3, <1>4, <1>6
  <2>2. \A offset \in 0 .. hist'.count - 1 : Entry(offset)' = entered'[offset + 1]
    BY <1>9, <1>4, <1>6 DEF Entry, SlotOf
  <2>3. nav' = NotBrowsing
    BY DEF Enter, NextLine
  <2> QED BY <2>1, <2>2, <2>3 DEF HistoryRecent
<1>11. LineTyped'
  <2>1. buf' = <<>> /\ saved' = <<>> /\ nav' = NotBrowsing /\ <<>> \in Line
    BY DEF Enter, NextLine, Line
  <2>2. hist' \in [bufs: [Slots -> Line], head: Slots, count: 0 .. HistDepth]
    BY <1>5, <1>6, <1>7, <1>8
  <2> QED BY <2>1, <2>2, <1>3, <1>4 DEF LineTyped
<1>12. LineShown' /\ DraftKept'
  BY DEF Enter, NextLine, LineShown, DraftKept, Prompt
<1> QED BY <1>10, <1>11, <1>12

\* A line taken away without an entry in the history.
LEMMA NextLineKeeps ==
  ASSUME LineInv, NextLine, UNCHANGED <<hist, entered>>
  PROVE  LineInv'
<1>1. buf' = <<>> /\ saved' = <<>> /\ nav' = NotBrowsing /\ <<>> \in Line
  BY DEF NextLine, Line
<1>2. LineTyped'
  BY <1>1 DEF LineInv, LineTyped
<1>3. HistoryRecent'
  BY <1>1 DEF LineInv, HistoryRecent, Entry
<1>4. LineShown' /\ DraftKept'
  BY DEF NextLine, LineShown, DraftKept, Prompt
<1> QED BY <1>2, <1>3, <1>4 DEF LineInv

LEMMA EnterKeeps ==
  ASSUME LineInv, Enter
  PROVE  LineInv'
<1>1. CASE buf = <<>>
  BY <1>1, NextLineKeeps DEF Enter
<1>2. CASE buf # <<>>
  BY <1>2, PushKeeps
<1> QED BY <1>1, <1>2

\* An edit by hand leaves browsing; the line and the screen change together.
LEMMA EditKeeps ==
  ASSUME LineInv, NEW line, NEW shown, line \in Line, shown = Prompt \o line, Edited(line, shown)
  PROVE  LineInv'
<1>1. LineTyped'
  BY DEF LineInv, LineTyped, Edited
<1>2. HistoryRecent'
  BY DEF LineInv, HistoryRecent, Entry, Edited
<1>3. LineShown' /\ DraftKept'
  BY DEF LineShown, DraftKept, Edited
<1> QED BY <1>1, <1>2, <1>3 DEF LineInv

LEMMA BackspaceKeeps ==
  ASSUME LineInv, Backspace
  PROVE  LineInv'
<1>1. buf \in Line /\ screen = Prompt \o buf
  BY DEF LineInv, LineTyped, LineShown
<1>2. CASE buf = <<>>
  <2>1. Edited(buf, screen)
    BY <1>2 DEF Backspace
  <2>2. PICK line : line = buf
    OBVIOUS
  <2>3. PICK shown : shown = screen
    OBVIOUS
  <2>4. Edited(line, shown)
    BY <2>1, <2>2, <2>3 DEF Edited
  <2> QED BY <1>1, <2>2, <2>3, <2>4, EditKeeps
<1>3. CASE buf # <<>>
  <2>1. Edited(Front(buf), Erased(1))
    BY <1>3 DEF Backspace
  <2>2. PICK line : line = Front(buf)
    OBVIOUS
  <2>3. PICK shown : shown = Erased(1)
    OBVIOUS
  <2>4. line \in Line /\ shown = Prompt \o line
    BY <1>1, <1>3, <2>2, <2>3, ErasingOne DEF Erased
  <2>5. Edited(line, shown)
    BY <2>1, <2>2, <2>3 DEF Edited
  <2> QED BY <2>4, <2>5, EditKeeps
<1> QED BY <1>2, <1>3

LEMMA CharKeeps ==
  ASSUME LineInv, NEW c \in Printable, Char(c)
  PROVE  LineInv'
<1>1. buf \in Line /\ screen = Prompt \o buf
  BY DEF LineInv, LineTyped, LineShown
<1>2. CASE Len(buf) < MaxCmd - 1
  <2>1. Edited(Append(buf, c), Append(screen, c))
    BY <1>2 DEF Char
  <2>2. PICK line : line = Append(buf, c)
    OBVIOUS
  <2>3. PICK shown : shown = Append(screen, c)
    OBVIOUS
  <2>4. line \in Line /\ shown = Prompt \o line
    BY <1>1, <2>2, <2>3, TypingOne
  <2>5. Edited(line, shown)
    BY <2>1, <2>2, <2>3 DEF Edited
  <2> QED BY <2>4, <2>5, EditKeeps
<1>3. CASE ~(Len(buf) < MaxCmd - 1)
  <2>1. Edited(buf, screen)
    BY <1>3 DEF Char
  <2>2. PICK line : line = buf
    OBVIOUS
  <2>3. PICK shown : shown = screen
    OBVIOUS
  <2>4. Edited(line, shown)
    BY <2>1, <2>2, <2>3 DEF Edited
  <2> QED BY <1>1, <2>2, <2>3, <2>4, EditKeeps
<1> QED BY <1>2, <1>3

\* Showing another line replaces what stood after the prompt.
LEMMA ShowShows ==
  ASSUME LineInv, NEW line, line \in Line, Show(line)
  PROVE  /\ LineShown'
         /\ buf' = line /\ UNCHANGED <<hist, entered, draft>>
<1>1. buf \in Line /\ screen = Prompt \o buf
  BY DEF LineInv, LineTyped, LineShown
<1>2. Erased(Len(buf)) = Prompt
  BY <1>1, ErasingAll DEF Erased
<1> QED BY <1>2 DEF Show, LineShown

LEMMA StillKeeps ==
  ASSUME LineInv, UNCHANGED <<buf, saved, nav, hist, screen, entered, draft>>
  PROVE  LineInv'
<1>1. LineTyped'
  BY DEF LineInv, LineTyped
<1>2. HistoryRecent'
  BY DEF LineInv, HistoryRecent, Entry
<1>3. LineShown' /\ DraftKept'
  BY DEF LineInv, LineShown, DraftKept
<1> QED BY <1>1, <1>2, <1>3 DEF LineInv

\* Going to an entry of the history: the line is saved on the first step.
LEMMA BrowseKeeps ==
  ASSUME LineInv, NEW next, next \in 0 .. hist.count - 1,
         Show(Entry(next)), nav' = next,
         saved' = IF nav = NotBrowsing THEN buf ELSE saved
  PROVE  LineInv'
<1>1. PICK line : line = Entry(next)
  OBVIOUS
<1>2. next \in Slots /\ line \in Line /\ line = entered[next + 1]
  BY <1>1, EntryFound DEF LineInv
<1>3. Show(line)
  BY <1>1 DEF Show
<1>4. LineShown' /\ buf' = line /\ UNCHANGED <<hist, entered, draft>>
  BY <1>2, <1>3, ShowShows
<1>5. LineTyped'
  BY <1>2, <1>4 DEF LineInv, LineTyped
<1>6. HistoryRecent'
  BY <1>2, <1>4 DEF LineInv, HistoryRecent, Entry, LineTyped
<1>7. DraftKept'
  BY <1>2, <1>4 DEF LineInv, DraftKept, NotBrowsing, Slots
<1> QED BY <1>4, <1>5, <1>6, <1>7 DEF LineInv

LEMMA UpKeeps ==
  ASSUME LineInv, Up
  PROVE  LineInv'
<1>1. nav \in {NotBrowsing} \cup Slots /\ hist.count \in 0 .. HistDepth
  BY DEF LineInv, LineTyped
<1>2. PICK next : next = IF nav < 0 THEN 0 ELSE nav + 1
  OBVIOUS
<1>3. CASE next < hist.count
  <2>1. Show(Entry(next)) /\ nav' = next /\ saved' = (IF nav < 0 THEN buf ELSE saved)
    BY <1>2, <1>3 DEF Up
  <2>2. next \in 0 .. hist.count - 1 /\ (nav < 0 <=> nav = NotBrowsing)
    BY <1>1, <1>2, <1>3, LineAssumption DEF Slots, NotBrowsing
  <2> QED BY <2>1, <2>2, BrowseKeeps
<1>4. CASE ~(next < hist.count)
  BY <1>2, <1>4, StillKeeps DEF Up
<1> QED BY <1>3, <1>4

LEMMA DownKeeps ==
  ASSUME LineInv, Down
  PROVE  LineInv'
<1>1. nav \in {NotBrowsing} \cup Slots /\ hist.count \in 0 .. HistDepth
  BY DEF LineInv, LineTyped
<1>2. CASE nav > 0
  <2>1. PICK next : next = nav - 1
    OBVIOUS
  <2>2. Show(Entry(next)) /\ nav' = next /\ UNCHANGED saved
    BY <1>2, <2>1 DEF Down
  <2>3. nav # NotBrowsing
    BY <1>2 DEF NotBrowsing
  <2>4. next \in 0 .. hist.count - 1
    BY <1>1, <1>2, <2>1, <2>3 DEF LineInv, HistoryRecent, Slots, NotBrowsing
  <2> QED BY <2>2, <2>3, <2>4, BrowseKeeps
<1>3. CASE nav = 0
  <2>1. Show(saved) /\ saved' = <<>> /\ nav' = NotBrowsing
    BY <1>3 DEF Down
  <2>2. PICK line : line = saved
    OBVIOUS
  <2>3. line \in Line /\ Show(line) /\ <<>> \in Line
    BY <2>1, <2>2 DEF LineInv, LineTyped, Line, Show
  <2>4. LineShown' /\ buf' = line /\ UNCHANGED <<hist, entered, draft>>
    BY <2>3, ShowShows
  <2>5. LineTyped'
    BY <2>1, <2>3, <2>4 DEF LineInv, LineTyped
  <2>6. HistoryRecent'
    BY <2>1, <2>4 DEF LineInv, HistoryRecent, Entry
  <2>7. DraftKept'
    BY <1>3, <2>1, <2>2, <2>4 DEF LineInv, DraftKept, NotBrowsing
  <2> QED BY <2>4, <2>5, <2>6, <2>7 DEF LineInv
<1>4. CASE ~(nav > 0) /\ nav # 0
  BY <1>4, StillKeeps DEF Down
<1> QED BY <1>2, <1>3, <1>4

LEMMA TypeKeyKeeps ==
  ASSUME LineInv, TypeKey
  PROVE  LineInv'
<1>1. ASSUME NEW next, ReadOn(next) PROVE LineInv'
  BY <1>1, StillKeeps DEF ReadOn
<1>2. CASE KeyTimeout
  BY <1>1, <1>2 DEF KeyTimeout
<1>3. ASSUME NEW b \in Typed[key], read_key(b) PROVE LineInv'
  <2>1. CASE key = "first"
    <3>1. \/ ReadOn("esc") \/ Enter \/ Backspace \/ Interrupt
          \/ b \in Printable /\ Char(b)
      BY <1>3, <2>1 DEF read_key
    <3> QED BY <3>1, <1>1, EnterKeeps, BackspaceKeeps, NextLineKeeps, CharKeeps DEF Interrupt
  <2>2. CASE key = "esc"
    <3>1. PICK next : ReadOn(next)
      BY <1>3, <2>2 DEF read_key
    <3> QED BY <3>1, <1>1
  <2>3. CASE key = "csi"
    <3>1. Up \/ Down \/ ReadOn("first")
      BY <1>3, <2>3 DEF read_key
    <3> QED BY <3>1, <1>1, UpKeeps, DownKeeps
  <2> QED BY <1>3, <2>1, <2>2, <2>3 DEF read_key
<1> QED BY <1>2, <1>3 DEF TypeKey

LEMMA LineInvHolds == Spec => []LineInv
<1>1. Init => LineInv
  <2> SUFFICES ASSUME Init PROVE LineInv
    OBVIOUS
  <2>1. <<>> \in Line /\ <<>> \in Seq(Line) /\ 0 \in Slots
    BY LineAssumption DEF Line, Slots
  <2>2. LineTyped
    BY <2>1, LineAssumption DEF Init, LineInit, LineTyped, Slots
  <2>3. LineShown /\ DraftKept
    BY DEF Init, LineInit, LineShown, DraftKept, Prompt
  <2>4. HistoryRecent
    BY DEF Init, LineInit, HistoryRecent
  <2> QED BY <2>2, <2>3, <2>4 DEF LineInv
<1>2. LineInv /\ [Next]_vars => LineInv'
  <2> SUFFICES ASSUME LineInv, [Next]_vars PROVE LineInv'
    OBVIOUS
  <2>1. CASE UNCHANGED lineVars
    BY <2>1, StillKeeps DEF lineVars
  <2>2. CASE TypeKey
    BY <2>2, TypeKeyKeeps
  <2> QED BY <2>1, <2>2 DEF Next, vars
<1> QED BY <1>1, <1>2, PTL DEF Spec

-----------------------------------------------------------------------------
\* Whatever is typed, edited, interrupted or recalled, the screen shows the
\* line that Enter will run: erase_chars and the bytes printed by run keep in
\* step with its line buffer, at a full line and while browsing too.
THEOREM ShownLineRuns == Spec => []LineShown
<1>1. LineInv => LineShown
  BY DEF LineInv
<1> QED BY <1>1, LineInvHolds, PTL

\* For a history of any depth, History::get gives the last HIST_DEPTH lines,
\* newest first, however often History::push has gone round the ring; and the
\* line under the cursor is the entry that browsing stands at.
THEOREM HistoryIsRecent == Spec => []HistoryRecent
<1>1. LineInv => HistoryRecent
  BY DEF LineInv
<1> QED BY <1>1, LineInvHolds, PTL

\* The line that was being typed is never lost to browsing: it is the line
\* itself, or what run has saved of it.
THEOREM DraftIsKept == Spec => []DraftKept
<1>1. LineInv => DraftKept
  BY DEF LineInv
<1> QED BY <1>1, LineInvHolds, PTL
=============================================================================
