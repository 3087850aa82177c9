------------------------------ MODULE CdcShell ------------------------------
(***************************************************************************)
(* The line editor of the configuration shell: characters from the host    *)
(* edit a line in memory, and the shell writes to the host's terminal what *)
(* is to make the terminal show that line.  Nothing keeps the two together *)
(* but the escape sequences.                                               *)
(*                                                                         *)
(* The terminal is the line behind the prompt, with the column of its      *)
(* cursor; it is wide enough for any line.  What the shell does once it    *)
(* has written beyond cmd_line_buf depends on what the linker put there:   *)
(* the model goes no further than that (spilled).                          *)
(*                                                                         *)
(* Initial states, steps and types have names of the editor's own, so that *)
(* ShellProofs can extend this module and that of the commands.            *)
(***************************************************************************)
EXTENDS Integers, Sequences, SequencesExt, FiniteSetsExt

CONSTANTS
  Keys,       \* the characters the host sends
  MaxLine,    \* USB_SHELL_MAX_CMD_LINE_SIZE
  MaxArgs,    \* USB_SHELL_MAC_CMD_ARGS
  MaxKeys     \* bound: characters in a behaviour

Digits    == {"1"}
Printable == Digits \cup {"x", " ", "[", "A", "C", "D"}
Control   == {"CR", "LF", "ESC", "BS", "TAB"}

ASSUME KeysAssumption == Keys \subseteq Printable \cup Control
ASSUME SizeAssumption == MaxLine \in Nat \ {0} /\ {MaxArgs, MaxKeys} \subseteq Nat

VARIABLES
  line,       \* the string in cmd_line_buf
  cursor,     \* cmd_line_cursor - cmd_line_buf
  prev,       \* the string in cmd_prev_line_buf
  state,      \* cdc_shell_state
  spilled,    \* was memory behind cmd_line_buf written?
  term,       \* the terminal: [text, col]
  ran,        \* arguments of the command run by the last Enter
  entered,    \* the last line entered that was not empty
  enters,     \* lines entered
  keys        \* characters processed

editor      == <<line, cursor, prev, spilled>>
editor_vars == <<editor, state, term, ran, entered, enters, keys>>

Strings == Seq(Printable)

EditorTypeOK ==
  /\ line \in Strings /\ Len(line) <= MaxLine
  /\ cursor \in 0..Len(line)
  /\ prev \in Strings /\ Len(prev) < MaxLine
  /\ state \in {"idle", "lf", "csi", "csn"}
  /\ spilled \in BOOLEAN
  /\ term \in [text: Strings, col: Int]
  /\ ran \in Seq(Strings) /\ Len(ran) <= MaxArgs
  /\ entered \in Strings
  /\ enters \in Nat /\ keys \in 0..MaxKeys

Before == SubSeq(line, 1, cursor)
After  == SubSeq(line, cursor + 1, Len(line))

-----------------------------------------------------------------------------
(* The terminal.                                                            *)

Write(t, s) ==
  [text |-> SubSeq(t.text, 1, t.col) \o s
              \o SubSeq(t.text, t.col + Len(s) + 1, Len(t.text)),
   col  |-> t.col + Len(s)]
ClearToEnd(t) == [t EXCEPT !.text = SubSeq(@, 1, t.col)]
Forward(t)    == [t EXCEPT !.col = @ + 1]
Backward(t, n) == [t EXCEPT !.col = @ - n]
Prompt == [text |-> << >>, col |-> 0]

\* Faulty variant: no test of the distance: the terminal takes 0 for 1.
MoveBackAlways(t, n) == Backward(t, IF n = 0 THEN 1 ELSE n)

\* cdc_shell_cursor_move_back: no sequence at all for distance 0
MoveBack(t, n) == IF n = 0 THEN t ELSE Backward(t, n)

-----------------------------------------------------------------------------
(* cdc_shell_parse_command_line                                             *)

NoArgs == [argv |-> << >>, open |-> FALSE, refused |-> FALSE]

\* Faulty variant: an argument is closed by the next one only.
ScanOpen(p, c) ==
  IF p.refused THEN p
  ELSE IF c = " " THEN p
  ELSE IF p.open THEN [p EXCEPT !.argv[Len(p.argv)] = Append(@, c)]
  ELSE IF Len(p.argv) < MaxArgs
       THEN [p EXCEPT !.argv = Append(@, <<c>>), !.open = TRUE]
       ELSE [p EXCEPT !.refused = TRUE]

\* One character of the line; a word too many ends the loop.
Scan(p, c) ==
  IF p.refused THEN p
  ELSE IF c = " " THEN [p EXCEPT !.open = FALSE]
  ELSE IF p.open THEN [p EXCEPT !.argv[Len(p.argv)] = Append(@, c)]
  ELSE IF Len(p.argv) < MaxArgs
       THEN [p EXCEPT !.argv = Append(@, <<c>>), !.open = TRUE]
       ELSE [p EXCEPT !.refused = TRUE]

\* The arguments of the command that is run, none if there is nothing to run
Parse(s) == LET p == FoldLeft(Scan, NoArgs, s) IN IF p.refused THEN << >> ELSE p.argv

-----------------------------------------------------------------------------
EditorInit ==
  /\ line = << >> /\ cursor = 0 /\ prev = << >> /\ state = "idle"
  /\ spilled = FALSE
  /\ term = Prompt
  /\ ran = << >> /\ entered = << >> /\ enters = 0 /\ keys = 0

(* cdc_shell_process_input, one character k.                                *)

TakeChar == ~spilled /\ keys < MaxKeys /\ keys' = keys + 1
Entering  == <<ran, entered, enters>>

InSequence(k) == TakeChar /\ state = "csn" /\ state' = "idle"

\* State expects_csn: parameters are ignored ...
Parameter(k) ==
  /\ TakeChar /\ state = "csn" /\ k \in Digits
  /\ UNCHANGED <<editor, state, term, Entering>>

\* Faulty variant: the end of the line does not stop the cursor.
CursorForwardAlways(k) ==
  /\ InSequence(k) /\ k = "C"
  /\ cursor' = cursor + 1
  /\ term' = Forward(term)
  /\ UNCHANGED <<line, prev, spilled, Entering>>

\* ... CUF, CUB and CUU are obeyed ...
CursorForward(k) ==
  /\ InSequence(k) /\ k = "C"
  /\ \/ /\ cursor < Len(line)
        /\ cursor' = cursor + 1
        /\ term' = Forward(term)
     \/ /\ cursor = Len(line)
        /\ UNCHANGED <<cursor, term>>
  /\ UNCHANGED <<line, prev, spilled, Entering>>

CursorBackward(k) ==
  /\ InSequence(k) /\ k = "D"
  /\ \/ /\ cursor > 0
        /\ cursor' = cursor - 1
        /\ term' = Backward(term, 1)
     \/ /\ cursor = 0
        /\ UNCHANGED <<cursor, term>>
  /\ UNCHANGED <<line, prev, spilled, Entering>>

Recall(k) ==
  /\ InSequence(k) /\ k = "A"
  /\ \/ /\ prev # << >>
        /\ line' = prev /\ cursor' = Len(prev)
        /\ term' = Write(ClearToEnd(MoveBack(term, cursor)), prev)
     \/ /\ prev = << >>
        /\ UNCHANGED <<line, cursor, term>>
  /\ UNCHANGED <<prev, spilled, Entering>>

\* ... and any other character, an Enter too, ends the sequence unread.
OtherFinal(k) ==
  /\ InSequence(k) /\ k \notin Digits \cup {"A", "C", "D"}
  /\ UNCHANGED <<editor, term, Entering>>

BeginSequence(k) ==
  /\ TakeChar /\ state = "csi" /\ k = "["
  /\ state' = "csn"
  /\ UNCHANGED <<editor, term, Entering>>

\* The LF of a CR LF, but also one after another LF or after ESC
SkipLf(k) ==
  /\ TakeChar /\ state \in {"csi", "lf"} /\ k = "LF"
  /\ state' = "idle"
  /\ UNCHANGED <<editor, term, Entering>>

\* The character is taken as in state idle.
Plain(k) ==
  /\ TakeChar /\ state # "csn"
  /\ state = "csi" => k \notin {"[", "LF"}
  /\ state = "lf" => k # "LF"

Escape(k) ==
  /\ Plain(k) /\ k = "ESC"
  /\ state' = "csi"
  /\ UNCHANGED <<editor, term, Entering>>

Enter(k) ==
  /\ Plain(k) /\ k \in {"CR", "LF"}
  /\ state' = "lf"
  /\ prev' = IF cursor # 0 THEN line ELSE prev
  /\ ran' = Parse(line)
  /\ line' = << >> /\ cursor' = 0
  /\ term' = Prompt
  /\ entered' = IF line # << >> THEN line ELSE entered
  /\ enters' = enters + 1
  /\ UNCHANGED spilled

\* cdc_shell_handle_backspace
Backspace(k) ==
  /\ Plain(k) /\ k = "BS"
  /\ state' = "idle"
  /\ \/ /\ cursor > 0
        /\ line' = SubSeq(line, 1, cursor - 1) \o After
        /\ cursor' = cursor - 1
        /\ term' = MoveBack(Write(ClearToEnd(MoveBack(term, cursor)), line'),
                            Len(After))
     \/ /\ cursor = 0
        /\ UNCHANGED <<line, cursor, term>>
  /\ UNCHANGED <<prev, spilled, Entering>>

\* cdc_shell_insert_symbol; the line is too long when the cursor says so.
Insert(k) ==
  /\ Plain(k) /\ k \in Printable
  /\ state' = "idle"
  /\ spilled' = (Len(line) >= MaxLine - 1)
  /\ \/ /\ cursor + 1 < MaxLine
        /\ line' = Before \o <<k>> \o After
        /\ cursor' = cursor + 1
        /\ term' = MoveBack(Write(term, <<k>> \o After), Len(After))
     \/ /\ cursor + 1 >= MaxLine
        /\ line' = << >> /\ cursor' = 0
        /\ term' = Prompt
  /\ UNCHANGED <<prev, Entering>>

Ignore(k) ==
  /\ Plain(k) /\ k = "TAB"
  /\ state' = "idle"
  /\ UNCHANGED <<editor, term, Entering>>

process_input(k) ==
  \/ Parameter(k) \/ CursorForward(k) \/ CursorBackward(k) \/ Recall(k)
  \/ OtherFinal(k) \/ BeginSequence(k) \/ SkipLf(k)
  \/ Escape(k) \/ Enter(k) \/ Backspace(k) \/ Insert(k) \/ Ignore(k)

EditorNext == \E k \in Keys : process_input(k)

EditorSpec == EditorInit /\ [][EditorNext]_editor_vars

-----------------------------------------------------------------------------
(* Properties.                                                              *)

\* The terminal shows the line in memory, with its cursor where the next
\* character goes, whatever was typed, moved over, erased and recalled before.
ScreenShowsLine == term = [text |-> line, col |-> cursor]

\* The words of a string: its longest stretches without a space.
Words(s) ==
  LET Word(i, j) == \A m \in i..j : s[m] # " "
      starts == {i \in 1..Len(s) : s[i] # " " /\ (i = 1 \/ s[i - 1] = " ")}
      last(i) == Max({j \in i..Len(s) : Word(i, j)})
      order == SetToSortSeq(starts, <)
  IN  [n \in 1..Len(order) |-> SubSeq(s, order[n], last(order[n]))]

\* Enter runs the command the user sees on the terminal, word by word, unless it
\* has too many words.
RunsWhatIsShown ==
  [][enters' # enters =>
       LET words == Words(term.text)
       IN  ran' = IF Len(words) <= MaxArgs THEN words ELSE << >>]_editor_vars

\* README, "You can also recall the last command by pressing UP".
RecallsLastCommand == prev = entered

\* "Error, command line is too long" (cdc_shell.c:440): a line that does not fit,
\* with its end mark, in cmd_line_buf is refused before it is stored.
LineFits == ~spilled
=============================================================================
