------------------------------ MODULE MCShell -------------------------------
(***************************************************************************)
(* Paths, modes and flags for Shell.                                       *)
(***************************************************************************)
EXTENDS Shell

Abs(parts) == [abs |-> TRUE, parts |-> parts]
Rel(parts) == [abs |-> FALSE, parts |-> parts]

ShortPaths == {Abs(<<>>), Abs(<<"a">>), Rel(<<"ab">>), Rel(<<"..">>), Abs(<<"a", "ab">>)}

\* "abcdef" has a byte too many for MaxName = 5, and the record of "abcde" is
\* longer than that of a shorter name.
LongPaths == {Abs(<<"abcdef">>), Abs(<<"abcde">>)}

SomePaths == ShortPaths \cup LongPaths

Bytes == [n \in AllNames |-> Len(n)]
FirstBytes == [n \in AllNames |-> [k \in 0 .. MaxName |-> SubSeq(n, 1, Least(k, Len(n)))]]

Private == Mode({"r", "w"}, {})

OneMode == {Mode644}
TwoModes == {Mode644, Private}

SomeFlags == {{}, {"write", "create", "trunc", "append"}}

SomeProfiles == {{"line"}, {"open", "data"}, {"data", "users"},
                 {"tree", "names"}, {"open", "tree", "names"}, {"open", "names", "scan", "dup"}}

\* Short names where bytes matter, names of all lengths at the root for scans,
\* and everything among directories, with fewer paths beside descriptors.
NamesOrData == [set \in Profiles |->
  IF "data" \in set THEN ShortPaths
  ELSE IF "scan" \in set THEN {p \in SomePaths : p.abs /\ Len(p.parts) <= 1}
  ELSE IF "open" \in set THEN SomePaths \ {Rel(<<"..">>), Abs(<<"abcde">>)}
  ELSE SomePaths]

\* Two descriptors where they are copied, and one elsewhere.
TwoWhereCopied == [set \in Profiles |-> IF "dup" \in set THEN 2 ELSE 1]

\* Lines of one letter, told apart by their length, and every key.
FewKeys == [k \in {"first", "esc", "csi"} |->
  CASE k = "first" -> {"A", "bs", "enter", "ctrl-c", "esc"}
    [] k = "esc"   -> {"[", "A", "esc"}
    [] OTHER       -> {"A", "B", "["}]
=============================================================================
