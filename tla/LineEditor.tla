----------------------------- MODULE LineEditor -----------------------------
(***************************************************************************)
(* The kernel shell's command line (kernel/src/shell/mod.rs): decoding of  *)
(* keys, the line buffer, and browsing in the history of earlier commands. *)
(* One action per byte that arrives from the serial line or the keyboard,  *)
(* and one for the timeout inside an escape sequence.  Bytes without a     *)
(* meaning change nothing and are left out.                                *)
(***************************************************************************)
EXTENDS Integers, Sequences, SequencesExt

CONSTANTS
  MaxCmd,     \* MAX_CMD; a line holds one byte less
  HistDepth,  \* HIST_DEPTH
  Typed       \* bound: the bytes typed, by how far read_key is in a sequence

ASSUME LineAssumption == MaxCmd \in Nat \ {0} /\ HistDepth \in Nat \ {0}

VARIABLES
  key,      \* how far read_key is: "first", "esc" after ESC, "csi" after ESC [
  buf,      \* the line
  saved,    \* the line as it was before browsing
  nav,      \* the history offset, or NotBrowsing
  hist,     \* HISTORY
  screen,   \* what is on the screen since the prompt, the prompt as one character
  entered,  \* the last HistDepth lines, newest first (no state of the code)
  draft     \* the line as last edited by hand (no state of the code)

lineVars == <<key, buf, saved, nav, hist, screen, entered, draft>>

NotBrowsing == -1
Prompt == <<"$">>
Printable == {"A", "B", "["}   \* the bytes of cursor keys are printable ones

LineInit ==
  /\ key = "first" /\ buf = <<>> /\ saved = <<>> /\ nav = NotBrowsing
  /\ hist = [bufs |-> [i \in 0 .. HistDepth - 1 |-> <<>>], head |-> 0, count |-> 0]
  /\ screen = Prompt /\ entered = <<>> /\ draft = <<>>

\* History::push of a line that is not empty.
Pushed(line) ==
  [bufs  |-> [hist.bufs EXCEPT ![hist.head] = line],
   head  |-> (hist.head + 1) % HistDepth,
   count |-> IF hist.count < HistDepth THEN hist.count + 1 ELSE hist.count]

\* A slip: one entry too new.
EntryNext(offset) == hist.bufs[(hist.head + HistDepth - offset) % HistDepth]

\* History::get of an offset below count.
Entry(offset) == hist.bufs[(hist.head + HistDepth - 1 - offset) % HistDepth]

\* erase_chars(n), on a terminal that does not stop at the prompt.
Erased(n) == SubSeq(screen, 1, Len(screen) - n)

\* run takes up the next line, after execute has dealt with this one.
NextLine ==
  /\ buf' = <<>> /\ saved' = <<>> /\ nav' = NotBrowsing
  /\ screen' = Prompt /\ draft' = <<>>

Enter ==
  /\ hist' = IF buf = <<>> THEN hist ELSE Pushed(buf)
  /\ entered' = IF buf = <<>> THEN entered
                ELSE SubSeq(<<buf>> \o entered, 1, IF Len(entered) < HistDepth THEN Len(entered) + 1
                                                   ELSE HistDepth)
  /\ NextLine

Interrupt == NextLine /\ UNCHANGED <<hist, entered>>

Edited(line, shown) ==
  /\ buf' = line /\ draft' = line /\ screen' = shown
  /\ nav' = NotBrowsing
  /\ UNCHANGED <<saved, hist, entered>>

Backspace == IF buf = <<>> THEN Edited(buf, screen) ELSE Edited(Front(buf), Erased(1))

\* A slip: a character that the line has no room for is printed.
CharShown(c) ==
  IF Len(buf) < MaxCmd - 1 THEN Edited(Append(buf, c), Append(screen, c))
  ELSE Edited(buf, Append(screen, c))

Char(c) ==
  IF Len(buf) < MaxCmd - 1 THEN Edited(Append(buf, c), Append(screen, c))
  ELSE Edited(buf, screen)

\* The line is replaced, on the screen too.
Show(line) == buf' = line /\ screen' = Erased(Len(buf)) \o line /\ UNCHANGED <<hist, entered, draft>>

\* A slip: the line is saved at every step back.
UpSavesAlways ==
  LET next == IF nav < 0 THEN 0 ELSE nav + 1
  IN  IF next < hist.count
      THEN Show(Entry(next)) /\ saved' = buf /\ nav' = next
      ELSE UNCHANGED <<buf, saved, nav, hist, screen, entered, draft>>

Up ==
  LET next == IF nav < 0 THEN 0 ELSE nav + 1
  IN  IF next < hist.count
      THEN Show(Entry(next)) /\ saved' = (IF nav < 0 THEN buf ELSE saved) /\ nav' = next
      ELSE UNCHANGED <<buf, saved, nav, hist, screen, entered, draft>>

Down ==
  IF nav > 0 THEN Show(Entry(nav - 1)) /\ nav' = nav - 1 /\ UNCHANGED saved
  ELSE IF nav = 0 THEN Show(saved) /\ saved' = <<>> /\ nav' = NotBrowsing
  ELSE UNCHANGED <<buf, saved, nav, hist, screen, entered, draft>>

\* read_key reads on: the key is not complete, or means nothing.
ReadOn(next) == key' = next /\ UNCHANGED <<buf, saved, nav, hist, screen, entered, draft>>

\* A byte arrives.  Inside a sequence a byte that does not belong there is
\* taken away with it.
read_key(b) ==
  \/ /\ key = "first"
     /\ \/ b = "esc" /\ ReadOn("esc")
        \/ key' = key /\ \/ b = "enter" /\ Enter
                         \/ b = "bs" /\ Backspace
                         \/ b = "ctrl-c" /\ Interrupt
                         \/ b \in Printable /\ Char(b)
  \/ key = "esc" /\ ReadOn(IF b = "[" THEN "csi" ELSE "first")
  \/ /\ key = "csi"
     /\ \/ b = "A" /\ Up /\ key' = "first"
        \/ b = "B" /\ Down /\ key' = "first"
        \/ b \notin {"A", "B"} /\ ReadOn("first")

\* read_char_timeout gives up.
KeyTimeout == key # "first" /\ ReadOn("first")

TypeKey == KeyTimeout \/ \E b \in Typed[key] : read_key(b)

-----------------------------------------------------------------------------
\* The line on the screen is the line that Enter will run: erasing, printing
\* and the line buffer stay in step, also at a full line and while browsing.
LineShown == screen = Prompt \o buf

\* Up and Down go through the last HIST_DEPTH commands, newest first, when the
\* ring of the history has wrapped as well.
HistoryRecent ==
  /\ hist.count = Len(entered)
  /\ \A offset \in 0 .. hist.count - 1 : Entry(offset) = entered[offset + 1]
  /\ nav # NotBrowsing => nav < hist.count /\ buf = entered[nav + 1]

\* A line that was being typed comes back after browsing in the history.
DraftKept == draft = IF nav = NotBrowsing THEN buf ELSE saved
=============================================================================
