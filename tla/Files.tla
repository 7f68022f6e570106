------------------------------- MODULE Files --------------------------------
(***************************************************************************)
(* The file system calls (kernel/src/syscall/mod.rs) on the RAM file       *)
(* system: per process a table of descriptors and a current directory,     *)
(* both of which name inodes by index.  System calls act as user 0.        *)
(*                                                                         *)
(* A call runs with interrupts disabled and does not block, so it is one   *)
(* action.  Calls that fail and change nothing are not actions.  The      *)
(* device paths, which never reach the file system, are left out.          *)
(***************************************************************************)
EXTENDS RamFs

CONSTANTS
  Procs,     \* the processes
  Handles,   \* descriptors a table has for files
  Width,     \* bound: how many of them the programs of a profile use
  Paths,     \* the paths that programs and the shell use
  PathsOf,   \* bound: which of them those of a profile use
  MkdirModes, \* the modes that programs make directories with
  OpenFlags, \* the sets of flags that programs open with
  Profiles,  \* sets of operations; the programs of a behaviour use those of one
  Rooms,     \* sizes of the buffers passed to getdents64
  PathRooms  \* sizes of the buffers passed to getcwd

ASSUME FilesAssumption ==
  /\ Handles \subseteq Nat /\ Width \in [Profiles -> Nat]
  /\ Paths \subseteq Path /\ MkdirModes \subseteq Modes
  /\ Rooms \subseteq Nat /\ PathRooms \subseteq Nat \ {0}
  /\ OpenFlags \subseteq SUBSET {"write", "create", "trunc", "append"}

VARIABLES
  fs,    \* ROOT_FS.inodes
  cwd,   \* each process's current directory
  fdt,   \* each process's descriptors
  ops    \* the profile that this behaviour's programs keep to (never changes)

fileVars == <<fs, cwd, fdt, ops>>

AT_FDCWD == -100

(***************************************************************************)
(* Descriptors.  A directory descriptor also carries what the model knows  *)
(* of the scan made with it, which is no state of the code: the children   *)
(* as the last call saw them (list), whether all calls saw the same (same),*)
(* what has been returned (seen), whether a call returned an entry behind  *)
(* one that it had skipped (passed), and whether the last call returned    *)
(* nothing although any record fits its buffer (eof).                      *)
(***************************************************************************)
Empty == [kind |-> "Empty"]
VfsFile(i, offset, writable) ==
  [kind |-> "VfsFile", inode |-> i, offset |-> offset, writable |-> writable]
VfsDir(i) ==
  [kind |-> "VfsDir", inode |-> i, pos |-> 0,
   list |-> list_dir_indexed(fs, i), same |-> TRUE, seen |-> <<>>,
   passed |-> FALSE, eof |-> FALSE]

PathsInUse == Paths \cap PathsOf[ops]

FreeHandles(p) ==
  IF Cardinality({h \in Handles : fdt[p][h] # Empty}) >= Width[ops] THEN {}
  ELSE {h \in Handles : fdt[p][h] = Empty}

\* current_fd_alloc; without a free descriptor nothing is stored.
Stored(p, e) ==
  LET free == FreeHandles(p)
  IN  fdt' = IF free = {} THEN fdt
             ELSE [fdt EXCEPT ![p][CHOOSE h \in free : \A g \in free : h <= g] = e]

FilesInit ==
  /\ fs = [i \in Inodes |-> IF i = Root THEN RootInode ELSE EmptyInode]
  /\ cwd = [p \in Procs |-> Root]
  /\ fdt = [p \in Procs |-> [h \in Handles |-> Empty]]
  /\ ops \in Profiles

-----------------------------------------------------------------------------
\* The directory that a relative path starts from.  A descriptor of a file is
\* taken as well.
at_cwd(p, dirfd) ==
  IF dirfd = AT_FDCWD THEN cwd[p]
  ELSE IF fdt[p][dirfd].kind \in {"VfsFile", "VfsDir"} THEN fdt[p][dirfd].inode
  ELSE cwd[p]

\* open and openat.  O_CREAT touches the file first, and O_TRUNC writes no
\* bytes at offset 0.  A directory is opened for reading only.
sys_openat(p, dirfd, path, flags) ==
  LET base == at_cwd(p, dirfd)
      writable == "write" \in flags
      made == IF "create" \in flags THEN touch(fs, path, base, 0).fs ELSE fs
      i == open_check(made, path, base, 0, writable)
      cut == IF "trunc" \in flags /\ writable THEN inode_write(made, i, 0, 0) ELSE made
      offset == IF "append" \in flags /\ writable THEN inode_size(cut, i) ELSE 0
      d == open_dir(made, path, base)
  IN  /\ IF i # NoInode
         THEN fs' = cut /\ Stored(p, VfsFile(i, offset, writable))
         ELSE /\ fs' = made
              /\ IF ~writable /\ d # NoInode THEN Stored(p, VfsDir(d)) ELSE UNCHANGED fdt
      /\ UNCHANGED <<cwd, ops>>

sys_close(p, h) ==
  /\ fdt[p][h] # Empty
  /\ fdt' = [fdt EXCEPT ![p][h] = Empty]
  /\ UNCHANGED <<fs, cwd, ops>>

\* dup copies the offset; the two descriptors move apart from then on.
sys_dup(p, h) ==
  /\ fdt[p][h] # Empty
  /\ Stored(p, fdt[p][h])
  /\ UNCHANGED <<fs, cwd, ops>>

sys_read(p, h, len) ==
  LET e == fdt[p][h]
  IN  /\ e.kind = "VfsFile"
      /\ fdt' = [fdt EXCEPT ![p][h].offset = @ + ReadCount(fs, e.inode, e.offset, len)]
      /\ UNCHANGED <<fs, cwd, ops>>

sys_write(p, h, len) ==
  LET e == fdt[p][h]
  IN  /\ e.kind = "VfsFile" /\ e.writable
      /\ fs' = inode_write(fs, e.inode, e.offset, len)
      /\ fdt' = [fdt EXCEPT ![p][h].offset = @ + WriteCount(fs, e.inode, e.offset, len)]
      /\ UNCHANGED <<cwd, ops>>

\* lseek to an offset that is not negative, beyond the end too.  The model
\* goes no further than one past the largest file.
sys_lseek(p, h, offset) ==
  /\ fdt[p][h].kind = "VfsFile"
  /\ fdt' = [fdt EXCEPT ![p][h].offset = offset]
  /\ UNCHANGED <<fs, cwd, ops>>

\* The length of a record: a header of 19 bytes, the name and a NUL, rounded
\* up to a multiple of 8.
RecordLen(len) == ((19 + len + 1 + 7) \div 8) * 8

LongestRecord == RecordLen(MaxName)

\* write_dirent64 for one entry: it is written when the rest of the buffer
\* holds its record, and skipped when it does not.  The model notes whether an
\* entry has been skipped, and whether one was written behind a skipped one.
Dirent(acc, i) ==
  LET len == RecordLen(NameLen[fs[i].name])
  IN  IF len > acc.room THEN [acc EXCEPT !.skipped = TRUE]
      ELSE [room |-> acc.room - len, out |-> Append(acc.out, i),
            skipped |-> acc.skipped, passed |-> acc.passed \/ acc.skipped]

NoDirents(room) == [room |-> room, out |-> <<>>, skipped |-> FALSE, passed |-> FALSE]

\* What a call returns of the entries in rest, in a buffer of room bytes.
Dirents(rest, room) ==
  LET acc[n \in 0 .. Len(rest)] ==
        IF n = 0 THEN NoDirents(room) ELSE Dirent(acc[n - 1], rest[n])
  IN  acc[Len(rest)]

\* A slip: the position is that of the last entry looked at.
ScannedAll(e, list, got, room) ==
  LET same == e.same /\ list = e.list
  IN  [kind |-> "VfsDir", inode |-> e.inode,
       pos  |-> IF got.out = <<>> THEN e.pos ELSE Len(list),
       list |-> IF same THEN list ELSE <<>>, same |-> same,
       seen |-> IF same THEN e.seen \o got.out ELSE <<>>,
       passed |-> same /\ (e.passed \/ got.passed),
       eof  |-> got.out = <<>> /\ room >= LongestRecord]

\* The descriptor after a call with room bytes that saw list and returned got.
Scanned(e, list, got, room) ==
  LET same == e.same /\ list = e.list
  IN  [kind |-> "VfsDir", inode |-> e.inode,
       pos  |-> e.pos + Len(got.out),
       list |-> IF same THEN list ELSE <<>>, same |-> same,
       seen |-> IF same THEN e.seen \o got.out ELSE <<>>,
       passed |-> same /\ (e.passed \/ got.passed),
       eof  |-> got.out = <<>> /\ room >= LongestRecord]

sys_getdents64(p, h, room) ==
  LET e == fdt[p][h]
      list == list_dir_indexed(fs, e.inode)
      rest == SubSeq(list, e.pos + 1, Len(list))
  IN  /\ e.kind = "VfsDir"
      /\ fdt' = [fdt EXCEPT ![p][h] = Scanned(e, list, Dirents(rest, room), room)]
      /\ UNCHANGED <<fs, cwd, ops>>

NoPath == [abs |-> FALSE, parts |-> <<>>]

\* A slip: a path that fills the buffer, and may have been cut, is returned.
sys_getcwd_full(dir, size) ==
  LET path == inode_path(fs, dir, size)
  IN  IF path.len = 0 \/ path.len > size THEN NoPath
      ELSE [abs |-> TRUE, parts |-> path.parts]

\* What getcwd returns in the directory dir: a path and the NUL behind it, or
\* ERANGE.
sys_getcwd(dir, size) ==
  LET path == inode_path(fs, dir, size)
  IN  IF path.len = 0 \/ path.len >= size THEN NoPath
      ELSE [abs |-> TRUE, parts |-> path.parts]

sys_chdir(p, path) ==
  /\ open_dir(fs, path, cwd[p]) # NoInode
  /\ cwd' = [cwd EXCEPT ![p] = open_dir(fs, path, cwd[p])]
  /\ UNCHANGED <<fs, fdt, ops>>

\* An operation on the file system, when it succeeds.
Does(result) == result.ok /\ fs' = result.fs /\ UNCHANGED <<cwd, fdt, ops>>

\* mkdir and mkdirat; unlink, rmdir and unlinkat.
sys_mkdirat(p, dirfd, path, mode) == Does(mkdir(fs, path, at_cwd(p, dirfd), 0, mode))

sys_unlinkat(p, dirfd, path, removedir) ==
  Does(IF removedir THEN rmdir(fs, path, at_cwd(p, dirfd), 0)
       ELSE unlink(fs, path, at_cwd(p, dirfd), 0))

\* A directory descriptor that is not open counts as AT_FDCWD.
FileCall(p) ==
  \/ \E d \in {h \in Handles : fdt[p][h] # Empty} \cup {AT_FDCWD}, path \in PathsInUse :
       \/ "open" \in ops /\ \E flags \in OpenFlags : sys_openat(p, d, path, flags)
       \/ "tree" \in ops /\ \E mode \in MkdirModes : sys_mkdirat(p, d, path, mode)
       \/ "tree" \in ops /\ \E removedir \in BOOLEAN : sys_unlinkat(p, d, path, removedir)
  \/ "tree" \in ops /\ \E path \in PathsInUse : sys_chdir(p, path)
  \/ \E h \in Handles :
       \/ sys_close(p, h)
       \/ "dup" \in ops /\ sys_dup(p, h)
       \/ "data" \in ops /\ \E len \in 1 .. MaxData : sys_read(p, h, len) \/ sys_write(p, h, len)
       \/ "data" \in ops /\ \E offset \in 0 .. MaxData + 1 : sys_lseek(p, h, offset)
       \/ "scan" \in ops /\ \E room \in Rooms : sys_getdents64(p, h, room)
=============================================================================
