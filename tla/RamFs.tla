------------------------------- MODULE RamFs --------------------------------
(***************************************************************************)
(* The RAM file system (kernel/src/vfs/ramfs.rs, reached through           *)
(* kernel/src/fs/mod.rs) as operators on the value of ROOT_FS.inodes.      *)
(*                                                                         *)
(* A path is the list of its non-empty components, with a flag for a       *)
(* leading slash.  Names are opaque but for their lengths and what is left *)
(* of them when they are cut: set_name stores the first MAX_NAME bytes,    *)
(* while lookup_in compares the whole name.  A byte of a file is "zero"    *)
(* (as alloc leaves it), "own" (written while the inode had the file it    *)
(* has now) or "old" (written for a file that is gone).                    *)
(***************************************************************************)
EXTENDS Integers, Sequences, FiniteSets, SequencesExt

CONSTANTS
  MaxInodes,  \* MAX_INODES
  MaxData,    \* MAX_DATA
  Names,      \* the file names of this instance
  MaxName,    \* MAX_NAME
  NameLen,    \* the number of bytes of each name
  Prefix,     \* the first k bytes of each name, all of a shorter one
  Uids,       \* user ids; each user's group has the same number
  Modes       \* modes: what the owner and what everybody else may do

Root == 0
NoInode == -1
EmptyName == ""

Mode(own, oth) == [own |-> own, oth |-> oth]

Mode644 == Mode({"r", "w"}, {"r"})  \* 0o644, and 0o755 of a directory

ASSUME FsAssumption ==
  /\ MaxInodes \in Nat \ {0} /\ MaxData \in Nat
  /\ 0 \in Uids /\ Mode644 \in Modes
  /\ {".", "..", EmptyName, "/"} \cap Names = {}

AllNames == Names \cup {EmptyName, "/", ".", ".."}

Least(a, b) == IF a < b THEN a ELSE b

ASSUME NameAssumption ==
  /\ MaxName \in Nat /\ NameLen \in [AllNames -> Nat]
  /\ NameLen[EmptyName] = 0 /\ NameLen["/"] = 1 /\ NameLen["."] = 1 /\ NameLen[".."] = 2
  /\ MaxName >= 2 /\ \A n \in Names : NameLen[n] > 0
  /\ Prefix \in [AllNames -> [0 .. MaxName -> AllNames]]
  /\ \A n \in AllNames, k \in 0 .. MaxName :
       /\ NameLen[Prefix[n][k]] = Least(k, NameLen[n])
       /\ NameLen[n] <= k => Prefix[n][k] = n
  /\ \A n \in Names : Prefix[n][MaxName] \in Names

\* The names that an inode has room for, and the one it keeps of a name.
StoredNames == {n \in AllNames : NameLen[n] <= MaxName}

set_name(name) == Prefix[name][MaxName]

Inodes == 0 .. MaxInodes - 1
Offsets == 0 .. MaxData - 1

Path == [abs: BOOLEAN, parts: Seq(Names \cup {".", ".."})]

Inode == [used: BOOLEAN, kind: {"File", "Dir"}, name: StoredNames,
          parent: Inodes, uid: Uids, mode: Modes,
          data: [Offsets -> {"zero", "own", "old"}], size: 0 .. MaxData]

EmptyInode ==
  [used |-> FALSE, kind |-> "File", name |-> EmptyName, parent |-> Root, uid |-> 0,
   mode |-> Mode644, data |-> [o \in Offsets |-> "zero"], size |-> 0]

RootInode == [EmptyInode EXCEPT !.used = TRUE, !.kind = "Dir", !.name = "/"]

\* What a fallible operation returns: whether it worked, and the table.
Result(ok, fs) == [ok |-> ok, fs |-> fs]
Failed(fs) == Result(FALSE, fs)

-----------------------------------------------------------------------------
(***************************************************************************)
(* Looking up                                                              *)
(***************************************************************************)
ChildOf(fs, dir, i) == fs[i].used /\ fs[i].parent = dir /\ i # dir

\* The inode of least index in S.
First(S) == IF S = {} THEN NoInode ELSE CHOOSE i \in S : \A j \in S : i <= j

lookup_in(fs, dir, name) ==
  IF name = "." THEN dir
  ELSE IF name = ".." THEN fs[dir].parent
  ELSE First({i \in Inodes : ChildOf(fs, dir, i) /\ fs[i].name = name})

\* One component; a component that is not found ends the walk.
Walk(fs, cur, name) ==
  IF cur = NoInode THEN NoInode ELSE IF name = "." THEN cur ELSE lookup_in(fs, cur, name)

resolve(fs, path, cwd) ==
  LET cur[n \in 0 .. Len(path.parts)] ==
        IF n = 0 THEN IF path.abs THEN Root ELSE cwd
        ELSE Walk(fs, cur[n - 1], path.parts[n])
  IN  cur[Len(path.parts)]

\* split_parent: where the last component goes.  A path without components
\* ("/") leaves an empty name, in the current directory.
ParentOf(fs, path, cwd) ==
  IF path.parts = <<>> THEN cwd
  ELSE resolve(fs, [path EXCEPT !.parts = Front(@)], cwd)

NameOf(path) == IF path.parts = <<>> THEN EmptyName ELSE Last(path.parts)

perm(fs, i, uid, op) ==
  uid = 0 \/ op \in (IF fs[i].uid = uid THEN fs[i].mode.own ELSE fs[i].mode.oth)

IsDir(fs, i) == fs[i].kind = "Dir"

\* alloc takes the first inode that is free, from 1 on.
FreeInode(fs) == First({i \in Inodes \ {Root} : ~fs[i].used})

\* The walk up of inode_path: the names from the root down to i, at most
\* limit of them, cut short at an inode that is not used.
UpFrom(fs, limit, i) ==
  LET up[n \in 0 .. limit] ==
        IF n = 0 THEN [at |-> i, names |-> <<>>, stop |-> FALSE]
        ELSE LET u == up[n - 1]
             IN  IF u.stop \/ u.at = Root \/ ~fs[u.at].used THEN [u EXCEPT !.stop = TRUE]
                 ELSE [at |-> fs[u.at].parent, names |-> <<fs[u.at].name>> \o u.names,
                       stop |-> fs[u.at].parent = u.at]
  IN  up[limit]

MaxDepth == 16

\* A slash and a name are put behind out, as far as a buffer of room bytes
\* goes.  No component comes of a name that is cut before its first byte.
PutName(room, out, name) ==
  LET slash == Least(out.len + 1, room)
      n == Least(NameLen[name], room - slash)
  IN  [len |-> slash + n,
       parts |-> IF n = 0 THEN out.parts ELSE Append(out.parts, Prefix[name][n])]

\* The path of i in a buffer of room bytes: its length and its components.
inode_path(fs, i, room) ==
  LET names == UpFrom(fs, MaxDepth, i).names
      put[n \in 0 .. Len(names)] ==
        IF n = 0 THEN [len |-> 0, parts |-> <<>>] ELSE PutName(room, put[n - 1], names[n])
  IN  IF i = Root THEN [len |-> 1, parts |-> <<>>] ELSE put[Len(names)]

-----------------------------------------------------------------------------
(***************************************************************************)
(* Creating and removing                                                   *)
(***************************************************************************)
\* A slip: an inode is taken as it was left.
NewInodeDirty(fs, i, kind, parent, name, uid, mode) ==
  [fs EXCEPT ![i].used = TRUE, ![i].kind = kind, ![i].parent = parent,
             ![i].name = set_name(name),
             ![i].uid = uid, ![i].mode = mode, ![i].size = 0]

\* alloc empties the inode; the caller then fills it in.
NewInode(fs, i, kind, parent, name, uid, mode) ==
  [fs EXCEPT ![i] = [EmptyInode EXCEPT !.used = TRUE, !.kind = kind, !.parent = parent,
                                       !.name = set_name(name), !.uid = uid, !.mode = mode]]

\* The inode is freed; its bytes are from now on those of a file that is gone.
FreeOf(fs, i) ==
  [fs EXCEPT ![i].used = FALSE,
             ![i].data = [o \in Offsets |-> IF @[o] = "zero" THEN "zero" ELSE "old"]]

\* A file is made under whatever the rest of the path resolves to.
CreateFile(fs, path, cwd, uid) ==
  LET parent == ParentOf(fs, path, cwd)
      i == FreeInode(fs)
  IN  IF parent = NoInode \/ i = NoInode \/ ~perm(fs, parent, uid, "w") THEN Failed(fs)
      ELSE Result(TRUE, NewInode(fs, i, "File", parent, NameOf(path), uid, Mode644))

touch(fs, path, cwd, uid) ==
  IF resolve(fs, path, cwd) # NoInode THEN Result(TRUE, fs) ELSE CreateFile(fs, path, cwd, uid)

\* A slip: an existing name is not looked for.
mkdir_again(fs, path, cwd, uid, mode) ==
  LET parent == ParentOf(fs, path, cwd)
      i == FreeInode(fs)
  IN  IF \/ parent = NoInode \/ i = NoInode
         \/ ~IsDir(fs, parent) \/ ~perm(fs, parent, uid, "w")
      THEN Failed(fs)
      ELSE Result(TRUE, NewInode(fs, i, "Dir", parent, NameOf(path), uid, mode))

mkdir(fs, path, cwd, uid, mode) ==
  LET parent == ParentOf(fs, path, cwd)
      i == FreeInode(fs)
  IN  IF \/ parent = NoInode \/ i = NoInode
         \/ ~IsDir(fs, parent) \/ ~perm(fs, parent, uid, "w")
         \/ lookup_in(fs, parent, NameOf(path)) # NoInode
      THEN Failed(fs)
      ELSE Result(TRUE, NewInode(fs, i, "Dir", parent, NameOf(path), uid, mode))

\* A slip: the root directory is removed like any other.
rmdir_root(fs, path, cwd, uid) ==
  LET i == resolve(fs, path, cwd)
  IN  IF \/ i = NoInode \/ ~IsDir(fs, i)
         \/ \E j \in Inodes : ChildOf(fs, i, j)
         \/ ~perm(fs, fs[i].parent, uid, "w")
      THEN Failed(fs)
      ELSE Result(TRUE, FreeOf(fs, i))

rmdir(fs, path, cwd, uid) ==
  LET i == resolve(fs, path, cwd)
  IN  IF \/ i \in {NoInode, Root} \/ ~IsDir(fs, i)
         \/ \E j \in Inodes : ChildOf(fs, i, j)
         \/ ~perm(fs, fs[i].parent, uid, "w")
      THEN Failed(fs)
      ELSE Result(TRUE, FreeOf(fs, i))

unlink(fs, path, cwd, uid) ==
  LET i == resolve(fs, path, cwd)
  IN  IF \/ i \in {NoInode, Root} \/ IsDir(fs, i)
         \/ fs[i].uid # uid /\ ~perm(fs, fs[i].parent, uid, "w")
      THEN Failed(fs)
      ELSE Result(TRUE, FreeOf(fs, i))

\* rename: what is at the destination is freed, unless it is a directory.
rename(fs, src, dst, cwd, uid) ==
  LET s == resolve(fs, src, cwd)
      parent == ParentOf(fs, dst, cwd)
      d == lookup_in(fs, parent, NameOf(dst))
      cleared == IF d = NoInode THEN fs ELSE FreeOf(fs, d)
  IN  IF \/ s \in {NoInode, Root} \/ ~perm(fs, fs[s].parent, uid, "w")
         \/ parent = NoInode \/ ~perm(fs, parent, uid, "w")
      THEN Failed(fs)
      ELSE IF d = s THEN Result(TRUE, fs)
      ELSE IF d # NoInode /\ IsDir(fs, d) THEN Failed(fs)
      ELSE Result(TRUE, [cleared EXCEPT ![s].parent = parent, ![s].name = set_name(NameOf(dst))])

chmod(fs, path, cwd, mode, uid) ==
  LET i == resolve(fs, path, cwd)
  IN  IF i = NoInode \/ (uid # 0 /\ fs[i].uid # uid) THEN Failed(fs)
      ELSE Result(TRUE, [fs EXCEPT ![i].mode = mode])

chown(fs, path, cwd, owner, uid) ==
  LET i == resolve(fs, path, cwd)
  IN  IF uid # 0 \/ i = NoInode THEN Failed(fs)
      ELSE Result(TRUE, [fs EXCEPT ![i].uid = owner])

-----------------------------------------------------------------------------
(***************************************************************************)
(* Reading and writing                                                     *)
(***************************************************************************)
\* The bytes from lo up to, but not including, hi are written.
PutBytes(fs, i, lo, hi) ==
  [fs EXCEPT ![i].data = [o \in Offsets |-> IF lo <= o /\ o < hi THEN "own" ELSE @[o]]]

\* A slip: a file without the permission to write it is written.
write_unchecked(fs, path, cwd, len, uid) ==
  LET i == resolve(fs, path, cwd)
      n == Least(len, MaxData)
      made == CreateFile(fs, path, cwd, uid)
  IN  IF i # NoInode
      THEN IF IsDir(fs, i) THEN Failed(fs)
           ELSE Result(TRUE, [PutBytes(fs, i, 0, n) EXCEPT ![i].size = n])
      ELSE IF ~made.ok THEN Failed(fs)
      ELSE Result(TRUE, [PutBytes(made.fs, FreeInode(fs), 0, n) EXCEPT ![FreeInode(fs)].size = n])

\* write: the whole content is replaced; bytes beyond the new size stay.
write(fs, path, cwd, len, uid) ==
  LET i == resolve(fs, path, cwd)
      n == Least(len, MaxData)
      made == CreateFile(fs, path, cwd, uid)
  IN  IF i # NoInode
      THEN IF IsDir(fs, i) \/ ~perm(fs, i, uid, "w") THEN Failed(fs)
           ELSE Result(TRUE, [PutBytes(fs, i, 0, n) EXCEPT ![i].size = n])
      ELSE IF ~made.ok THEN Failed(fs)
      ELSE Result(TRUE, [PutBytes(made.fs, FreeInode(fs), 0, n) EXCEPT ![FreeInode(fs)].size = n])

\* read_at gives the size of the content, or NoInode.
read_at(fs, path, cwd, uid) ==
  LET i == resolve(fs, path, cwd)
  IN  IF i = NoInode THEN NoInode
      ELSE IF IsDir(fs, i) \/ ~perm(fs, i, uid, "r") THEN NoInode
      ELSE fs[i].size

open_check(fs, path, cwd, uid, writable) ==
  LET i == resolve(fs, path, cwd)
  IN  IF i = NoInode THEN NoInode
      ELSE IF IsDir(fs, i) \/ ~perm(fs, i, uid, IF writable THEN "w" ELSE "r") THEN NoInode
      ELSE i

open_dir(fs, path, cwd) ==
  LET i == resolve(fs, path, cwd)
  IN  IF i = NoInode THEN NoInode ELSE IF IsDir(fs, i) THEN i ELSE NoInode

IsFile(fs, i) == fs[i].used /\ ~IsDir(fs, i)

\* How many bytes a read, or a write, of len bytes at offset moves.
ReadCount(fs, i, offset, len) ==
  IF ~IsFile(fs, i) THEN 0 ELSE Least(len, fs[i].size - Least(offset, fs[i].size))

\* A slip: a write is not cut where the inode's data ends.
WriteCountUncut(fs, i, offset, len) ==
  IF ~IsFile(fs, i) \/ offset > MaxData THEN 0 ELSE len

WriteCount(fs, i, offset, len) ==
  IF ~IsFile(fs, i) \/ offset > MaxData THEN 0 ELSE Least(offset + len, MaxData) - offset

inode_write(fs, i, offset, len) ==
  LET n == WriteCount(fs, i, offset, len)
  IN  IF n = 0 THEN fs
      ELSE [PutBytes(fs, i, offset, offset + n) EXCEPT
              ![i].size = IF offset + n > @ THEN offset + n ELSE @]

inode_size(fs, i) == IF fs[i].used THEN fs[i].size ELSE 0

\* list_dir_indexed: the children of dir in the order of their indices.
list_dir_indexed(fs, dir) ==
  LET list[n \in 0 .. MaxInodes] ==
        IF n = 0 THEN <<>>
        ELSE IF ChildOf(fs, dir, n - 1) THEN Append(list[n - 1], n - 1) ELSE list[n - 1]
  IN  IF ~fs[dir].used \/ ~IsDir(fs, dir) THEN <<>> ELSE list[MaxInodes]
=============================================================================
