------------------------------- MODULE Shell --------------------------------
(***************************************************************************)
(* The commands of the kernel shell (kernel/src/shell/mod.rs and users.rs) *)
(* that work on files, beside processes that make system calls.  The shell *)
(* acts with the ids of the user that su last named, and enforces          *)
(* permissions; each command is one action.  In behaviours of the profile  *)
(* with "line", keys are typed to its line editor.                         *)
(***************************************************************************)
EXTENDS Files, LineEditor

CONSTANTS
  AppendCap,  \* the most bytes that append keeps: 4090, of MAX_DATA = 4096
  Texts       \* lengths of the texts typed into commands

ASSUME ShellAssumption == AppendCap \in 0 .. MaxData - 1 /\ Texts \subseteq Nat

VARIABLE sh  \* State: the current directory and the user

vars == <<fileVars, lineVars, sh>>

Init == FilesInit /\ LineInit /\ sh = [cwd |-> Root, uid |-> 0]

\* A command that calls the file system, when the call succeeds.
Runs(result) == Does(result) /\ UNCHANGED sh

cmd_cd(path) ==
  /\ open_dir(fs, path, sh.cwd) # NoInode
  /\ sh' = [sh EXCEPT !.cwd = open_dir(fs, path, @)]
  /\ UNCHANGED fileVars

cmd_mkdir(path) == Runs(mkdir(fs, path, sh.cwd, sh.uid, Mode644))
cmd_rmdir(path) == Runs(rmdir(fs, path, sh.cwd, sh.uid))
cmd_rm(path)    == Runs(unlink(fs, path, sh.cwd, sh.uid))
cmd_touch(path) == Runs(touch(fs, path, sh.cwd, sh.uid))
cmd_write(path, len) == Runs(write(fs, path, sh.cwd, len, sh.uid))

\* What the file holds (nothing, when it cannot be read) goes to a buffer of
\* AppendCap bytes, the new text and a newline after it, and the buffer to
\* the file.
do_append(path, len) ==
  LET size == read_at(fs, path, sh.cwd, sh.uid)
      prefix == IF size = NoInode THEN 0 ELSE Least(size, AppendCap)
  IN  write(fs, path, sh.cwd, prefix + Least(len, AppendCap - prefix) + 1, sh.uid)

cmd_append(path, len) == Runs(do_append(path, len))

\* echo with a redirection: the text and a newline.
cmd_echo(path, len, append) ==
  Runs(IF append THEN do_append(path, len)
       ELSE write(fs, path, sh.cwd, Least(len, MaxData - 1) + 1, sh.uid))

cmd_cp(src, dst) ==
  /\ read_at(fs, src, sh.cwd, sh.uid) # NoInode
  /\ Runs(write(fs, dst, sh.cwd, read_at(fs, src, sh.cwd, sh.uid), sh.uid))

cmd_mv(src, dst) == Runs(rename(fs, src, dst, sh.cwd, sh.uid))

cmd_chmod(mode, path) == Runs(chmod(fs, path, sh.cwd, mode, sh.uid))
cmd_chown(owner, path) == Runs(chown(fs, path, sh.cwd, owner, sh.uid))

cmd_su(user) == sh' = [sh EXCEPT !.uid = user] /\ UNCHANGED fileVars

execute ==
  \/ \E path \in PathsInUse :
       \/ "tree" \in ops /\ (cmd_cd(path) \/ cmd_mkdir(path) \/ cmd_rmdir(path))
       \/ cmd_rm(path)
       \/ "names" \in ops /\ cmd_touch(path)
       \/ "data" \in ops /\ \E len \in Texts :
            \/ cmd_write(path, len) \/ cmd_append(path, len)
            \/ \E append \in BOOLEAN : cmd_echo(path, len, append)
       \/ "users" \in ops /\ \E mode \in Modes : cmd_chmod(mode, path)
       \/ "users" \in ops /\ \E owner \in Uids : cmd_chown(owner, path)
  \/ "data" \in ops /\ \E src, dst \in PathsInUse : cmd_cp(src, dst)
  \/ "names" \in ops /\ \E src, dst \in PathsInUse : cmd_mv(src, dst)
  \/ "users" \in ops /\ \E user \in Uids : cmd_su(user)

Next ==
  \/ execute /\ UNCHANGED lineVars
  \/ \E p \in Procs : FileCall(p) /\ UNCHANGED <<lineVars, sh>>
  \/ "line" \in ops /\ TypeKey /\ UNCHANGED <<fileVars, sh>>

Spec == Init /\ [][Next]_vars

-----------------------------------------------------------------------------
(***************************************************************************)
(* Properties                                                              *)
(***************************************************************************)

\* Type invariant of the inode table, the descriptors and the directories.
FilesTypeOK ==
  /\ fs \in [Inodes -> Inode]
  /\ cwd \in [Procs -> Inodes]
  /\ sh \in [cwd: Inodes, uid: Uids]
  /\ \A p \in Procs, h \in Handles :
       LET e == fdt[p][h]
       IN  \/ e = Empty
           \/ e.kind = "VfsFile" /\ e.inode \in Inodes /\ e.offset \in 0 .. MaxData + 1
           \/ e.kind = "VfsDir" /\ e.inode \in Inodes /\ e.pos \in 0 .. MaxInodes

\* A name leads to one inode: no directory has two entries of one name, after
\* any creations, removals and renames, also by descriptors of directories
\* that are gone.  The dots, which mv may store as a name, are not looked up;
\* of names with MAX_NAME bytes there may be two, since a longer name is cut
\* where it is stored and not where it is looked for.
NamesUnique ==
  \A dir \in Inodes, i, j \in Inodes :
    /\ ChildOf(fs, dir, i) /\ ChildOf(fs, dir, j)
    /\ fs[i].name = fs[j].name /\ fs[i].name \notin {".", ".."}
    /\ NameLen[fs[i].name] < MaxName
    => i = j

\* The root directory outlives every rmdir, unlink, mv and su.
RootStays == fs[Root].used /\ fs[Root].kind = "Dir" /\ fs[Root].parent = Root

\* The bytes of a deleted file never show up in a file made later.
NoOldBytes ==
  \A i \in Inodes : IsFile(fs, i) => \A o \in 0 .. fs[i].size - 1 : fs[i].data[o] # "old"

\* A scan of a directory that does not change while it is read returns no
\* more records than there are entries, so it ends, and a call whose buffer
\* holds any record returns nothing only after as many records as entries.
\* These are the entries, each once and in order, unless some call skipped a
\* record too long for the rest of its buffer and wrote a shorter one behind
\* it: then the scan loses the one and repeats the other.
DirScanExact ==
  \A p \in Procs, h \in Handles :
    LET e == fdt[p][h]
    IN  e.kind = "VfsDir" /\ e.same =>
          /\ Len(e.seen) = e.pos /\ e.pos <= Len(e.list)
          /\ e.eof => e.pos = Len(e.list)
          /\ ~e.passed => e.seen = SubSeq(e.list, 1, e.pos)

\* Inode i hangs from the root by directories, no more of them than inode_path
\* has room for, and each name on the way is the only one of its directory.
Attached(i) ==
  LET up == UpFrom(fs, MaxDepth, i)
  IN  /\ up.at = Root
      /\ \A n \in 1 .. Len(up.names) : up.names[n] \in Names /\ NameLen[up.names[n]] < MaxName

\* The path that getcwd returns for an inode leads back to it, in a buffer of
\* any size: inode_path, which cuts the path at the end of the buffer, and
\* resolve are inverse to each other whenever getcwd does not say ERANGE.
\* (pwd and the prompt print what fits into 256 bytes, cut or not.)
PathRoundTrip ==
  \A i \in Inodes, size \in PathRooms :
    fs[i].used /\ Attached(i) /\ sys_getcwd(i, size) # NoPath =>
      resolve(fs, sys_getcwd(i, size), Root) = i

OthersKept ==
  sh.uid # 0 /\ UNCHANGED <<cwd, fdt>> =>
    \A i \in Inodes :
      /\ fs[i].used /\ fs'[i].used
      /\ fs[i].uid # sh.uid /\ "w" \notin fs[i].mode.oth
      => /\ fs'[i].data = fs[i].data /\ fs'[i].size = fs[i].size
         /\ fs'[i].mode = fs[i].mode /\ fs'[i].uid = fs[i].uid

\* The shell of a user other than root changes no file that the user neither
\* owns nor may write.  (A process, which acts as root, moves an offset with
\* every byte it writes.)
OthersFilesKept == [][OthersKept]_vars
=============================================================================
