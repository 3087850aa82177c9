----------------------------- MODULE ShellProofs -----------------------------
(***************************************************************************)
(* Theorems about the configuration shell: that its line editor and the    *)
(* terminal never disagree (CdcShell), for every size of the line; and     *)
(* that the commands leave registers and levels as the configuration asks  *)
(* (PortPins), for any number of ports, any signals and any length of a    *)
(* behaviour.                                                              *)
(***************************************************************************)
EXTENDS CdcShell, PortPins, SequenceTheorems, TLAPS

-----------------------------------------------------------------------------
(* The line editor: what the shell writes makes the terminal show the line. *)

Shown(s, n) == [text |-> s, col |-> n]

EditorInv ==
  /\ line \in Strings /\ cursor \in 0..Len(line) /\ prev \in Strings
  /\ ScreenShowsLine

LEMMA EmptyString == << >> \in Strings /\ Len(<< >>) = 0
  BY DEF Strings

LEMMA JoinedStrings ==
  ASSUME NEW s \in Strings, NEW u \in Strings
  PROVE  s \o u \in Strings /\ Len(s \o u) = Len(s) + Len(u)
  BY ConcatProperties DEF Strings

\* What is left of the cursor, and from it on
LEMMA Parts ==
  ASSUME NEW s \in Strings, NEW n \in 0..Len(s)
  PROVE  /\ SubSeq(s, 1, n) \in Strings /\ Len(SubSeq(s, 1, n)) = n
         /\ SubSeq(s, n + 1, Len(s)) \in Strings /\ Len(SubSeq(s, n + 1, Len(s))) = Len(s) - n
<1>1. s \in Seq(Printable) /\ Len(s) \in Nat  BY DEF Strings
<1>2. \A i \in 1..Len(s) : s[i] \in Printable  BY <1>1, ElementOfSeq
<1>3. n \in Int /\ n + 1 \in Int /\ 1 \in Int /\ Len(s) \in Int  BY <1>1, SMT
<1>4. \A i \in 1..n : i \in 1..Len(s)  BY <1>1, SMT
<1>5. \A i \in n + 1..Len(s) : i \in 1..Len(s)  BY <1>1, SMT
<1>6. /\ SubSeq(s, 1, n) \in Seq(Printable)
      /\ Len(SubSeq(s, 1, n)) = IF 1 <= n THEN n - 1 + 1 ELSE 0
  BY <1>2, <1>3, <1>4, SubSeqProperties
<1>7. /\ SubSeq(s, n + 1, Len(s)) \in Seq(Printable)
      /\ Len(SubSeq(s, n + 1, Len(s))) = IF n + 1 <= Len(s) THEN Len(s) - (n + 1) + 1 ELSE 0
  BY <1>2, <1>3, <1>5, SubSeqProperties
<1> QED  BY <1>1, <1>6, <1>7, SMT DEF Strings

\* Writing to the end of what is on the terminal, or beyond it
LEMMA WriteToEnd ==
  ASSUME NEW s \in Strings, NEW n \in 0..Len(s), NEW u \in Strings, Len(s) <= n + Len(u)
  PROVE  Write(Shown(s, n), u) = Shown(SubSeq(s, 1, n) \o u, n + Len(u))
<1>1. Len(s) \in Nat /\ Len(u) \in Nat  BY DEF Strings
<1>2. SubSeq(s, n + Len(u) + 1, Len(s)) = << >>
  <2>1. n + Len(u) + 1 \in Int /\ Len(s) \in Int /\ Len(s) < n + Len(u) + 1  BY <1>1, SMT
  <2> QED  BY <2>1, SubSeqEmpty
<1>3. SubSeq(s, 1, n) \o u \in Seq(Printable)  BY Parts, JoinedStrings DEF Strings
<1>4. SubSeq(s, 1, n) \o u \o << >> = SubSeq(s, 1, n) \o u  BY <1>3, ConcatEmptySeq
<1> QED  BY <1>2, <1>4 DEF Write, Shown

\* Moving back by n leaves the cursor n columns to the left, n = 0 included.
LEMMA MoveBackShown ==
  ASSUME NEW s, NEW c \in Int, NEW n \in Nat
  PROVE  MoveBack(Shown(s, c), n) = Shown(s, c - n)
<1>1. CASE n = 0
  <2>1. c - n = c  BY <1>1, SMT
  <2> QED  BY <1>1, <2>1 DEF MoveBack
<1>2. CASE n # 0  BY <1>2 DEF MoveBack, Backward, Shown
<1> QED  BY <1>1, <1>2

\* Back to the prompt, clear, and write another line
LEMMA Rewritten ==
  ASSUME NEW s \in Strings, NEW n \in 0..Len(s), NEW u \in Strings
  PROVE  Write(ClearToEnd(MoveBack(Shown(s, n), n)), u) = Shown(u, Len(u))
<1>1. Len(s) \in Nat /\ Len(u) \in Nat  BY DEF Strings
<1>2. n \in Nat /\ n \in Int /\ n - n = 0  BY <1>1, SMT
<1>3. MoveBack(Shown(s, n), n) = Shown(s, 0)  BY <1>2, MoveBackShown
<1>4. SubSeq(s, 1, 0) = << >>
  <2>1. 1 \in Int /\ 0 \in Int /\ 0 < 1  BY SMT
  <2> QED  BY <2>1, SubSeqEmpty
<1>5. ClearToEnd(Shown(s, 0)) = Shown(<< >>, 0)  BY <1>4 DEF ClearToEnd, Shown
<1>6. 0 \in 0..Len(<< >>) /\ Len(<< >>) <= 0 + Len(u)  BY <1>1, EmptyString, SMT
<1>7. Write(Shown(<< >>, 0), u) = Shown(SubSeq(<< >>, 1, 0) \o u, 0 + Len(u))
  BY <1>6, EmptyString, WriteToEnd
<1>8. SubSeq(<< >>, 1, 0) = << >>
  <2>1. 1 \in Int /\ 0 \in Int /\ 0 < 1  BY SMT
  <2> QED  BY <2>1, SubSeqEmpty
<1>9. << >> \o u = u  BY ConcatEmptySeq DEF Strings
<1>10. 0 + Len(u) = Len(u)  BY <1>1, SMT
<1> QED  BY <1>3, <1>5, <1>7, <1>8, <1>9, <1>10

LEMMA InsertShown ==
  ASSUME EditorInv, NEW k, Insert(k)
  PROVE  EditorInv'
<1>1. /\ line \in Strings /\ cursor \in 0..Len(line) /\ prev \in Strings
      /\ term = Shown(line, cursor) /\ Len(line) \in Nat
  BY DEF EditorInv, ScreenShowsLine, Shown, Strings
<1>2. k \in Printable /\ prev' = prev  BY DEF Insert, Plain
<1>3. CASE /\ line' = Before \o <<k>> \o After /\ cursor' = cursor + 1
           /\ term' = MoveBack(Write(term, <<k>> \o After), Len(After))
  <2>1. /\ Before \in Strings /\ Len(Before) = cursor
        /\ After \in Strings /\ Len(After) = Len(line) - cursor
    BY <1>1, Parts DEF Before, After
  <2>2. <<k>> \in Strings /\ Len(<<k>>) = 1  BY <1>2 DEF Strings
  <2>3. <<k>> \o After \in Strings /\ Len(<<k>> \o After) = 1 + Len(After)
    BY <2>1, <2>2, JoinedStrings
  <2>4. Before \o <<k>> \o After = Before \o (<<k>> \o After)
    BY <2>1, <2>2, ConcatAssociative DEF Strings
  <2>5. line' \in Strings /\ Len(line') = cursor + (1 + Len(After))
    BY <1>3, <2>1, <2>3, <2>4, JoinedStrings
  <2>6. Len(line) <= cursor + Len(<<k>> \o After)  BY <1>1, <2>1, <2>3, SMT
  <2>7. Write(term, <<k>> \o After)
          = Shown(Before \o (<<k>> \o After), cursor + Len(<<k>> \o After))
    BY <1>1, <2>3, <2>6, WriteToEnd DEF Before
  <2>8. /\ cursor + Len(<<k>> \o After) \in Int /\ Len(After) \in Nat
        /\ (cursor + Len(<<k>> \o After)) - Len(After) = cursor + 1
        /\ cursor + 1 \in 0..(cursor + (1 + Len(After)))
    BY <1>1, <2>1, <2>3, SMT
  <2>9. term' = Shown(Before \o (<<k>> \o After), cursor + 1)
    <3> DEFINE text == Before \o (<<k>> \o After)
               c == cursor + Len(<<k>> \o After)
    <3>1. term' = MoveBack(Shown(text, c), Len(After))  BY <1>3, <2>7
    <3>2. c \in Int /\ Len(After) \in Nat /\ c - Len(After) = cursor + 1  BY <2>8
    <3> HIDE DEF text, c
    <3>3. MoveBack(Shown(text, c), Len(After)) = Shown(text, c - Len(After))
      BY <3>2, MoveBackShown
    <3> QED  BY <3>1, <3>2, <3>3 DEF text
  <2>10. term' = Shown(line', cursor')  BY <1>3, <2>4, <2>9
  <2>11. cursor' \in 0..Len(line')  BY <1>3, <2>5, <2>8
  <2> QED  BY <1>1, <1>2, <2>5, <2>10, <2>11 DEF EditorInv, ScreenShowsLine, Shown
<1>4. CASE line' = << >> /\ cursor' = 0 /\ term' = Prompt
  <2>1. 0 \in 0..Len(<< >>)  BY EmptyString, SMT
  <2> QED  BY <1>1, <1>2, <1>4, <2>1, EmptyString DEF EditorInv, ScreenShowsLine, Prompt
<1> QED  BY <1>3, <1>4 DEF Insert

LEMMA BackspaceShown ==
  ASSUME EditorInv, NEW k, Backspace(k)
  PROVE  EditorInv'
<1>1. /\ line \in Strings /\ cursor \in 0..Len(line) /\ prev \in Strings
      /\ term = Shown(line, cursor) /\ Len(line) \in Nat
  BY DEF EditorInv, ScreenShowsLine, Shown, Strings
<1>2. prev' = prev  BY DEF Backspace
<1>3. CASE /\ cursor > 0 /\ line' = SubSeq(line, 1, cursor - 1) \o After /\ cursor' = cursor - 1
           /\ term' = MoveBack(Write(ClearToEnd(MoveBack(term, cursor)), line'), Len(After))
  <2>1. cursor - 1 \in 0..Len(line)  BY <1>1, <1>3, SMT
  <2>2. SubSeq(line, 1, cursor - 1) \in Strings /\ Len(SubSeq(line, 1, cursor - 1)) = cursor - 1
    BY <1>1, <2>1, Parts
  <2>3. After \in Strings /\ Len(After) = Len(line) - cursor  BY <1>1, Parts DEF After
  <2>4. line' \in Strings /\ Len(line') = cursor - 1 + Len(After)
    BY <1>3, <2>2, <2>3, JoinedStrings
  <2>5. Write(ClearToEnd(MoveBack(term, cursor)), line') = Shown(line', Len(line'))
    BY <1>1, <2>4, Rewritten
  <2>6. /\ Len(line') \in Int /\ Len(After) \in Nat /\ Len(line') - Len(After) = cursor - 1
        /\ cursor - 1 \in 0..Len(line')
    BY <1>1, <1>3, <2>3, <2>4, SMT
  <2>7. term' = Shown(line', cursor - 1)  BY <1>3, <2>5, <2>6, MoveBackShown
  <2> QED  BY <1>1, <1>2, <1>3, <2>4, <2>6, <2>7 DEF EditorInv, ScreenShowsLine, Shown
<1>4. CASE UNCHANGED <<line, cursor, term>>
  BY <1>1, <1>2, <1>4 DEF EditorInv, ScreenShowsLine, Shown
<1> QED  BY <1>3, <1>4 DEF Backspace

LEMMA RecallShown ==
  ASSUME EditorInv, NEW k, Recall(k)
  PROVE  EditorInv'
<1>1. /\ line \in Strings /\ cursor \in 0..Len(line) /\ prev \in Strings
      /\ term = Shown(line, cursor)
  BY DEF EditorInv, ScreenShowsLine, Shown
<1>2. prev' = prev  BY DEF Recall
<1>3. CASE /\ line' = prev /\ cursor' = Len(prev)
           /\ term' = Write(ClearToEnd(MoveBack(term, cursor)), prev)
  <2>1. term' = Shown(prev, Len(prev))  BY <1>1, <1>3, Rewritten
  <2>2. Len(prev) \in 0..Len(prev)
    <3>1. Len(prev) \in Nat  BY <1>1 DEF Strings
    <3> QED  BY <3>1, SMT
  <2> QED  BY <1>1, <1>2, <1>3, <2>1, <2>2 DEF EditorInv, ScreenShowsLine, Shown
<1>4. CASE UNCHANGED <<line, cursor, term>>
  BY <1>1, <1>2, <1>4 DEF EditorInv, ScreenShowsLine, Shown
<1> QED  BY <1>3, <1>4 DEF Recall

LEMMA CursorShown ==
  ASSUME EditorInv, NEW k, CursorForward(k) \/ CursorBackward(k)
  PROVE  EditorInv'
<1>1. /\ line \in Strings /\ cursor \in 0..Len(line) /\ prev \in Strings
      /\ term = Shown(line, cursor) /\ Len(line) \in Nat
  BY DEF EditorInv, ScreenShowsLine, Shown, Strings
<1>2. line' = line /\ prev' = prev  BY DEF CursorForward, CursorBackward
<1>3. CASE cursor < Len(line) /\ cursor' = cursor + 1 /\ term' = Forward(term)
  <2>1. cursor + 1 \in 0..Len(line)  BY <1>1, <1>3, SMT
  <2>2. term' = Shown(line, cursor + 1)  BY <1>1, <1>3 DEF Forward, Shown
  <2> QED  BY <1>1, <1>2, <1>3, <2>1, <2>2 DEF EditorInv, ScreenShowsLine, Shown
<1>4. CASE cursor > 0 /\ cursor' = cursor - 1 /\ term' = Backward(term, 1)
  <2>1. cursor - 1 \in 0..Len(line)  BY <1>1, <1>4, SMT
  <2>2. term' = Shown(line, cursor - 1)  BY <1>1, <1>4 DEF Backward, Shown
  <2> QED  BY <1>1, <1>2, <1>4, <2>1, <2>2 DEF EditorInv, ScreenShowsLine, Shown
<1>5. CASE UNCHANGED <<cursor, term>>
  BY <1>1, <1>2, <1>5 DEF EditorInv, ScreenShowsLine, Shown
<1> QED  BY <1>3, <1>4, <1>5 DEF CursorForward, CursorBackward

LEMMA EnterShown ==
  ASSUME EditorInv, NEW k, Enter(k)
  PROVE  EditorInv'
<1>1. line' = << >> /\ cursor' = 0 /\ term' = Prompt /\ prev' \in Strings
  BY DEF Enter, EditorInv
<1>2. 0 \in 0..Len(<< >>)  BY EmptyString, SMT
<1> QED  BY <1>1, <1>2, EmptyString DEF EditorInv, ScreenShowsLine, Prompt

LEMMA EditorInvariance == EditorSpec => []EditorInv
<1>1. EditorInit => EditorInv
  <2>1. 0 \in 0..Len(<< >>)  BY EmptyString, SMT
  <2> QED  BY <2>1, EmptyString DEF EditorInit, EditorInv, ScreenShowsLine, Prompt
<1>2. EditorInv /\ [EditorNext]_editor_vars => EditorInv'
  <2> SUFFICES ASSUME EditorInv, [EditorNext]_editor_vars PROVE EditorInv'
    OBVIOUS
  <2>1. ASSUME UNCHANGED <<line, cursor, prev, term>> PROVE EditorInv'
    BY <2>1 DEF EditorInv, ScreenShowsLine
  <2>2. ASSUME NEW k \in Keys, process_input(k) PROVE EditorInv'
    <3>1. CASE Parameter(k)  BY <2>1, <3>1 DEF Parameter, editor
    <3>2. CASE CursorForward(k) \/ CursorBackward(k)  BY <3>2, CursorShown
    <3>3. CASE Recall(k)  BY <3>3, RecallShown
    <3>4. CASE OtherFinal(k) \/ BeginSequence(k) \/ SkipLf(k) \/ Escape(k) \/ Ignore(k)
      BY <2>1, <3>4 DEF OtherFinal, BeginSequence, SkipLf, Escape, Ignore, editor
    <3>5. CASE Enter(k)  BY <3>5, EnterShown
    <3>6. CASE Backspace(k)  BY <3>6, BackspaceShown
    <3>7. CASE Insert(k)  BY <3>7, InsertShown
    <3> QED  BY <2>2, <3>1, <3>2, <3>3, <3>4, <3>5, <3>6, <3>7 DEF process_input
  <2>3. CASE UNCHANGED editor_vars  BY <2>1, <2>3 DEF editor_vars, editor
  <2> QED  BY <2>2, <2>3 DEF EditorNext
<1> QED  BY <1>1, <1>2, PTL DEF EditorSpec

\* The terminal shows the line in memory, with its cursor where the next character goes,
\* for every size of the line buffer and whatever is typed, in sequences cut short too.
THEOREM TerminalFollows == EditorSpec => []ScreenShowsLine
<1>1. EditorInv => ScreenShowsLine  BY DEF EditorInv
<1> QED  BY <1>1, EditorInvariance, PTL

\* Enter runs what the parser finds in the line the terminal shows, and nothing else runs
\* a command.
THEOREM ScreenIsRun == EditorSpec => [][enters' # enters => ran' = Parse(term.text)]_editor_vars
<1>1. EditorInv /\ [EditorNext]_editor_vars => (enters' # enters => ran' = Parse(term.text))
  <2> SUFFICES ASSUME EditorInv, [EditorNext]_editor_vars, enters' # enters
               PROVE  ran' = Parse(term.text)
    OBVIOUS
  <2>1. term.text = line  BY DEF EditorInv, ScreenShowsLine
  <2>2. enters' = enters \/ ran' = Parse(line)
    BY DEF EditorNext, process_input, editor_vars, Entering, Parameter, CursorForward,
           CursorBackward, Recall, OtherFinal, BeginSequence, SkipLf, Escape, Enter, Backspace,
           Insert, Ignore
  <2> QED  BY <2>1, <2>2
<1> QED  BY <1>1, EditorInvariance, PTL DEF EditorSpec

-----------------------------------------------------------------------------
(* The commands that change pins.                                           *)

\* Where the main loop is with a config reset
Resetting == pc = "configure" \/ (pc \in {"update", "address"} /\ at.reset)

\* The reset has pins of port p to configure.
Waiting(p) == Resetting /\ \E pin \in Pins : <<p, pin>> \in todo

\* What the pin last configured still needs of its port
LevelDue(p, pin) == pc = "update" /\ at.port = p /\ (at.reset \/ at.pin = pin)
ClearDue(p) == pc \in {"update", "address"} /\ at.port = p /\ (at.reset \/ at.pin = "txa")

\* The loop of usb_cdc_reconfigure has pins left exactly while it runs.
LoopInv ==
  /\ pc = "configure" => todo # {}
  /\ todo # {} => Resetting

\* A register that disagrees with the configuration is one that the reset, or
\* the setting under way, has yet to write.
ModeInv(p, pin)  == gpio[p][pin] = Mode(pin, config[p][pin]) \/ <<p, pin>> \in todo
LevelInv(p, pin) ==
  \/ level[p][pin] = PinLevel(config[p][pin], is_active[p][pin])
  \/ Waiting(p) \/ LevelDue(p, pin)
ClearInv(p) == clear[p] = ClearLevel(p) \/ Waiting(p) \/ ClearDue(p)

PinsInv ==
  ~via_all =>
    /\ \A p \in Ports, pin \in Pins : ModeInv(p, pin)
    /\ \A p \in Ports, pin \in Driven \ {"txa"} : LevelInv(p, pin)
    /\ \A p \in Ports : ClearInv(p)

Inv == TypeOK /\ LoopInv /\ PinsInv

-----------------------------------------------------------------------------
(* Types                                                                    *)

LEMMA PinTypes ==
  /\ "txa" \in Driven /\ Driven \subseteq Outputs /\ Outputs \subseteq Pins
  /\ Inputs \subseteq Pins
BY PinAssumption DEF Driven, Outputs, Inputs

LEMMA ValueTypes ==
  /\ Values.output = {"pp", "od"} /\ Values.active = {"high", "low"}
  /\ Values.pull = {"floating", "up", "down"} /\ DOMAIN Values = {"output", "active", "pull"}
  /\ PinConfig = [output: {"pp", "od"}, active: {"high", "low"},
                  pull: {"floating", "up", "down"}]
BY DEF Values, PinConfig

LEMMA ModeType ==
  ASSUME NEW pin, NEW c \in PinConfig
  PROVE  Mode(pin, c) \in Values.output \cup Values.pull
BY ValueTypes DEF Mode

LEMMA LevelType ==
  ASSUME NEW c \in PinConfig, NEW active \in BOOLEAN
  PROVE  PinLevel(c, active) \in Values.active
BY ValueTypes DEF PinLevel, Opposite

LEMMA DefaultType == Default \in [Ports -> [Pins -> PinConfig]]
<1>1. \A p \in Ports, pin \in Pins : DefaultPin(p, pin) \in PinConfig
  BY ValueTypes DEF DefaultPin
<1> QED  BY <1>1 DEF Default

\* A setting changes one field of one pin.
LEMMA SettingType ==
  ASSUME NEW c \in [Pins -> PinConfig], NEW pin \in Pins,
         NEW field \in DOMAIN Values, NEW value \in Values[field]
  PROVE  [c EXCEPT ![pin][field] = value] \in [Pins -> PinConfig]
<1>1. c[pin] \in PinConfig  OBVIOUS
<1>2. CASE field = "output"
  <2>1. [c[pin] EXCEPT !["output"] = value] \in PinConfig  BY <1>1, <1>2, ValueTypes
  <2> QED  BY <2>1, <1>2
<1>3. CASE field = "active"
  <2>1. [c[pin] EXCEPT !["active"] = value] \in PinConfig  BY <1>1, <1>3, ValueTypes
  <2> QED  BY <2>1, <1>3
<1>4. CASE field = "pull"
  <2>1. [c[pin] EXCEPT !["pull"] = value] \in PinConfig  BY <1>1, <1>4, ValueTypes
  <2> QED  BY <2>1, <1>4
<1> QED  BY <1>2, <1>3, <1>4, ValueTypes

LEMMA InitTypes == Init => TypeOK
<1> SUFFICES ASSUME Init PROVE TypeOK  OBVIOUS
<1>1. config \in [Ports -> [Pins -> PinConfig]]  BY DefaultType DEF Init
<1>2. \A p \in Ports, pin \in Pins : config[p][pin] \in PinConfig  BY <1>1
<1>3. gpio \in [Ports -> [Pins -> Values.output \cup Values.pull]]
  BY <1>2, ModeType DEF Init
<1>4. level \in [Ports -> [Driven -> Values.active]]
  BY <1>2, LevelType, PinTypes DEF Init
<1>5. clear \in [Ports -> Values.active]
  BY <1>2, LevelType, PinTypes DEF Init, ClearLevel
<1>6. target \in Targets  BY TargetAssumption DEF Init
<1>7. at \in [port: Ports, pin: Pins, reset: BOOLEAN]
  <2>1. (CHOOSE p \in Ports : TRUE) \in Ports  BY PortAssumption
  <2> QED  BY <2>1, PinTypes DEF Init
<1>8. is_active \in [Ports -> [Driven -> BOOLEAN]] /\ busy \in [Ports -> BOOLEAN]
  BY DEF Init
<1>9. settings \in 0..MaxSettings  BY BoundAssumption DEF Init
<1>10. via_all \in BOOLEAN /\ todo \subseteq Ports \X Pins /\ pc = "idle"  BY DEF Init
<1> QED  BY <1>1, <1>3, <1>4, <1>5, <1>6, <1>7, <1>8, <1>9, <1>10 DEF TypeOK

LEMMA Types == TypeOK /\ LoopInv /\ [Next]_vars => TypeOK'
<1> SUFFICES ASSUME TypeOK, LoopInv, [Next]_vars PROVE TypeOK'  OBVIOUS
<1>1. \A p \in Ports, pin \in Pins : config[p][pin] \in PinConfig  BY DEF TypeOK
<1>2. \A p \in Ports, pin \in Driven, active \in BOOLEAN :
        PinLevel(config[p][pin], active) \in Values.active
  BY <1>1, LevelType, PinTypes
<1>3. \A p \in Ports : ClearLevel(p) \in Values.active
  BY <1>2, PinTypes DEF ClearLevel
<1>4. ASSUME NEW t \in Targets, BeginCommand(t) PROVE TypeOK'
  BY <1>4 DEF BeginCommand, TypeOK, pins
<1>5. CASE EndCommand  BY <1>5 DEF EndCommand, TypeOK, pins
<1>6. ASSUME NEW pin \in Pins, NEW field \in DOMAIN Values, NEW value \in Values[field],
             Set(pin, field, value)
      PROVE  TypeOK'
  <2>1. config' \in [Ports -> [Pins -> PinConfig]]
    <3>1. \A p \in Ports : config[p] \in [Pins -> PinConfig]  BY DEF TypeOK
    <3>2. \A p \in Ports : [config[p] EXCEPT ![pin][field] = value] \in [Pins -> PinConfig]
      BY <3>1, SettingType
    <3> QED  BY <1>6, <3>1, <3>2 DEF Set
  <2>2. settings' \in 0..MaxSettings
    BY <1>6, BoundAssumption DEF Set, TypeOK
  <2>3. CASE target = All  BY <1>6, <2>1, <2>2, <2>3 DEF Set, TypeOK
  <2>4. CASE target # All
    <3>1. target \in Ports  BY <2>4, TargetAssumption DEF TypeOK
    <3>2. Mode(pin, config'[target][pin]) \in Values.output \cup Values.pull
      BY <2>1, <3>1, ModeType
    <3>3. /\ gpio' = [gpio EXCEPT ![target][pin] = Mode(pin, config'[target][pin])]
          /\ at' = [port |-> target, pin |-> pin, reset |-> FALSE]
      BY <1>6, <2>4, Zenon DEF Set
    <3>4. gpio' \in [Ports -> [Pins -> Values.output \cup Values.pull]]
      BY <3>2, <3>3 DEF TypeOK
    <3>6. at' \in [port: Ports, pin: Pins, reset: BOOLEAN]  BY <3>1, <3>3
    <3>5. pc' = "update" /\ UNCHANGED <<via_all, level, is_active, clear, target, todo, busy>>
      BY <1>6, <2>4 DEF Set
    <3> QED  BY <2>1, <2>2, <3>4, <3>5, <3>6 DEF TypeOK
  <2> QED  BY <2>3, <2>4
<1>7. CASE ConfigReset
  <2>1. settings' \in 0..MaxSettings
    BY <1>7, BoundAssumption DEF ConfigReset, TypeOK
  <2> QED  BY <1>7, <2>1, DefaultType DEF ConfigReset, TypeOK
<1>8. CASE ConfigurePin
  <2> DEFINE x == CHOOSE x \in todo : TRUE
  <2>1. x \in todo  BY <1>8 DEF ConfigurePin, LoopInv
  <2>2. x[1] \in Ports /\ x[2] \in Pins  BY <2>1 DEF TypeOK
  <2>3. Mode(x[2], config[x[1]][x[2]]) \in Values.output \cup Values.pull
    BY <1>1, <2>2, ModeType
  <2> HIDE DEF x
  <2>4. gpio' = [gpio EXCEPT ![x[1]][x[2]] = Mode(x[2], config[x[1]][x[2]])]
    BY <1>8 DEF ConfigurePin, x
  <2>5. at' = [port |-> x[1], pin |-> x[2], reset |-> TRUE] /\ todo' = todo \ {x}
        /\ pc' = "update"
        /\ UNCHANGED <<config, level, is_active, clear, target, busy, via_all, settings>>
    BY <1>8 DEF ConfigurePin, x
  <2>6. gpio' \in [Ports -> [Pins -> Values.output \cup Values.pull]]
    BY <2>3, <2>4 DEF TypeOK
  <2>7. at' \in [port: Ports, pin: Pins, reset: BOOLEAN]  BY <2>2, <2>5
  <2> QED  BY <2>5, <2>6, <2>7 DEF TypeOK
<1>9. CASE UpdateLevels
  BY <1>2, <1>9 DEF UpdateLevels, TypeOK
<1>10. CASE UpdateAddress  BY <1>3, <1>10 DEF UpdateAddress, TypeOK
<1>11. ASSUME NEW p \in Ports, StartTx(p) PROVE TypeOK'
  BY <1>2, <1>11, PinTypes DEF StartTx, Activate, TypeOK
<1>12. ASSUME NEW p \in Ports, EndTx(p) PROVE TypeOK'
  BY <1>12, PinTypes DEF EndTx, TypeOK
<1>13. ASSUME NEW p \in Ports, NEW pin \in Driven, NEW active \in BOOLEAN,
              SetControlLine(p, pin, active)
       PROVE  TypeOK'
  BY <1>2, <1>13 DEF SetControlLine, Activate, TypeOK
<1>14. CASE UNCHANGED vars  BY <1>14 DEF vars, pins, TypeOK
<1> QED  BY <1>4, <1>5, <1>6, <1>7, <1>8, <1>9, <1>10, <1>11, <1>12, <1>13, <1>14 DEF Next

-----------------------------------------------------------------------------
(* The loop of a reset, and the registers                                   *)

LEMMA Loop == TypeOK /\ LoopInv /\ [Next]_vars => LoopInv'
<1> SUFFICES ASSUME TypeOK, LoopInv, [Next]_vars PROVE LoopInv'  OBVIOUS
<1> USE DEF LoopInv, Resetting
<1>1. ASSUME NEW t \in Targets, BeginCommand(t) PROVE LoopInv'
  BY <1>1 DEF BeginCommand
<1>2. CASE EndCommand  BY <1>2 DEF EndCommand
<1>3. ASSUME NEW pin \in Pins, NEW field \in DOMAIN Values, NEW value \in Values[field],
             Set(pin, field, value)
      PROVE  LoopInv'
  <2>1. todo = {} /\ todo' = todo /\ pc' \in {"argument", "update"}  BY <1>3 DEF Set
  <2> QED  BY <2>1
<1>4. CASE ConfigReset
  <2>1. PICK p \in Ports : TRUE  BY PortAssumption
  <2>2. <<p, "txa">> \in Ports \X Pins  BY PinAssumption
  <2> QED  BY <1>4, <2>2 DEF ConfigReset
<1>5. CASE ConfigurePin
  <2>1. pc' = "update" /\ at'.reset = TRUE  BY <1>5 DEF ConfigurePin
  <2> QED  BY <2>1
<1>6. CASE UpdateLevels  BY <1>6 DEF UpdateLevels
<1>7. CASE UpdateAddress  BY <1>7 DEF UpdateAddress
<1>8. ASSUME NEW p \in Ports, StartTx(p) \/ EndTx(p) PROVE LoopInv'
  BY <1>8 DEF StartTx, EndTx
<1>9. ASSUME NEW p \in Ports, NEW pin \in Driven, NEW active \in BOOLEAN,
             SetControlLine(p, pin, active)
      PROVE  LoopInv'
  BY <1>9 DEF SetControlLine
<1>10. CASE UNCHANGED vars  BY <1>10 DEF vars
<1> QED  BY <1>1, <1>2, <1>3, <1>4, <1>5, <1>6, <1>7, <1>8, <1>9, <1>10 DEF Next

\* A setting for one port: the pin set has its mode already, and its level and
\* address are due; the others are as they were.
LEMMA PinsSet ==
  ASSUME Inv, NEW pin \in Pins, NEW field \in DOMAIN Values, NEW value \in Values[field],
         Set(pin, field, value)
  PROVE  PinsInv'
<1> SUFFICES ASSUME ~via_all' PROVE PinsInv'  BY DEF PinsInv
<1>1. target # All /\ ~via_all  BY DEF Set
<1>2. target \in Ports  BY <1>1, TargetAssumption DEF Inv, TypeOK
<1>3. pc = "argument" /\ todo = {}  BY DEF Set, Inv, LoopInv, Resetting
<1>4. /\ gpio' = [gpio EXCEPT ![target][pin] = Mode(pin, config'[target][pin])]
      /\ at' = [port |-> target, pin |-> pin, reset |-> FALSE]
      /\ pc' = "update" /\ UNCHANGED <<level, is_active, clear>>
  BY <1>1, Zenon DEF Set
<1>5. config' = [p \in Ports |->
                   IF target \in {p, All} THEN [config[p] EXCEPT ![pin][field] = value]
                   ELSE config[p]]
  BY DEF Set
<1>6. \A p \in Ports, other \in Pins :
        p # target \/ other # pin => config'[p][other] = config[p][other]
  BY <1>1, <1>5 DEF Inv, TypeOK
<1>7. /\ \A p \in Ports, other \in Pins : gpio[p][other] = Mode(other, config[p][other])
      /\ \A p \in Ports, other \in Driven \ {"txa"} :
           level[p][other] = PinLevel(config[p][other], is_active[p][other])
      /\ \A p \in Ports : clear[p] = ClearLevel(p)
  BY <1>1, <1>3 DEF Inv, PinsInv, ModeInv, LevelInv, ClearInv, Waiting, Resetting, LevelDue,
                    ClearDue
<1>8. ASSUME NEW p \in Ports, NEW other \in Pins PROVE ModeInv(p, other)'
  <2>1. CASE p = target /\ other = pin  BY <1>4, <2>1 DEF Inv, TypeOK, ModeInv
  <2>2. CASE p # target \/ other # pin
    <3>1. gpio'[p][other] = gpio[p][other]  BY <1>2, <1>4, <2>2 DEF Inv, TypeOK
    <3> QED  BY <1>6, <1>7, <2>2, <3>1 DEF ModeInv
  <2> QED  BY <2>1, <2>2
<1>9. ASSUME NEW p \in Ports, NEW other \in Driven \ {"txa"} PROVE LevelInv(p, other)'
  <2>1. CASE p = target /\ other = pin  BY <1>4, <2>1 DEF LevelInv, LevelDue
  <2>2. CASE p # target \/ other # pin  BY <1>4, <1>6, <1>7, <2>2, PinTypes DEF LevelInv
  <2> QED  BY <2>1, <2>2
<1>10. ASSUME NEW p \in Ports PROVE ClearInv(p)'
  <2>1. CASE p = target /\ pin = "txa"  BY <1>4, <2>1 DEF ClearInv, ClearDue
  <2>2. CASE p # target \/ pin # "txa"
    BY <1>4, <1>6, <1>7, <2>2, PinTypes DEF ClearInv, ClearLevel
  <2> QED  BY <2>1, <2>2
<1> QED  BY <1>8, <1>9, <1>10 DEF PinsInv

\* A pin of a reset's loop: its port's levels and address are due.
LEMMA PinsConfigure == ASSUME Inv, ConfigurePin PROVE PinsInv'
<1> DEFINE x == CHOOSE x \in todo : TRUE
<1>1. x \in todo /\ x \in Ports \X Pins  BY DEF ConfigurePin, Inv, LoopInv, TypeOK
<1>2. /\ gpio' = [gpio EXCEPT ![x[1]][x[2]] = Mode(x[2], config[x[1]][x[2]])]
      /\ at' = [port |-> x[1], pin |-> x[2], reset |-> TRUE] /\ todo' = todo \ {x}
      /\ pc = "configure" /\ pc' = "update"
      /\ UNCHANGED <<config, level, is_active, clear, via_all>>
  BY DEF ConfigurePin
<1> HIDE DEF x
<1> SUFFICES ASSUME ~via_all PROVE PinsInv'  BY <1>2 DEF PinsInv
<1>3. ASSUME NEW p \in Ports, Waiting(p) PROVE Waiting(p)' \/ p = x[1]
  <2>1. PICK pin \in Pins : <<p, pin>> \in todo  BY <1>3 DEF Waiting
  <2>2. CASE <<p, pin>> = x  BY <2>2
  <2>3. CASE <<p, pin>> # x  BY <1>2, <2>1, <2>3 DEF Waiting, Resetting
  <2> QED  BY <2>2, <2>3
<1>4. ASSUME NEW p \in Ports, NEW pin \in Pins PROVE ModeInv(p, pin)'
  <2>1. CASE <<p, pin>> = x  BY <1>2, <2>1 DEF Inv, TypeOK, ModeInv
  <2>2. CASE <<p, pin>> # x
    <3>1. gpio'[p][pin] = gpio[p][pin]  BY <1>1, <1>2, <2>2 DEF Inv, TypeOK
    <3>2. ModeInv(p, pin)  BY DEF Inv, PinsInv
    <3> QED  BY <1>2, <2>2, <3>1, <3>2 DEF ModeInv
  <2> QED  BY <2>1, <2>2
<1>5. ASSUME NEW p \in Ports, NEW pin \in Driven \ {"txa"} PROVE LevelInv(p, pin)'
  <2>1. LevelInv(p, pin)  BY DEF Inv, PinsInv
  <2> QED  BY <1>2, <1>3, <2>1 DEF LevelInv, LevelDue
<1>6. ASSUME NEW p \in Ports PROVE ClearInv(p)'
  <2>1. ClearInv(p)  BY DEF Inv, PinsInv
  <2> QED  BY <1>2, <1>3, <2>1 DEF ClearInv, ClearDue, ClearLevel
<1> QED  BY <1>4, <1>5, <1>6 DEF PinsInv

\* The levels that were due are driven, and no other changes.
LEMMA PinsLevels == ASSUME Inv, UpdateLevels PROVE PinsInv'
<1> SUFFICES ASSUME ~via_all PROVE PinsInv'  BY DEF UpdateLevels, PinsInv
<1>1. ASSUME NEW p \in Ports PROVE Waiting(p)' = Waiting(p)
  BY DEF UpdateLevels, Waiting, Resetting
<1>2. ASSUME NEW p \in Ports, NEW pin \in Pins PROVE ModeInv(p, pin)'
  <2>1. ModeInv(p, pin)  BY DEF Inv, PinsInv
  <2> QED  BY <2>1 DEF ModeInv, UpdateLevels
<1>3. ASSUME NEW p \in Ports, NEW pin \in Driven \ {"txa"} PROVE LevelInv(p, pin)'
  <2>1. LevelInv(p, pin)  BY DEF Inv, PinsInv
  <2>2. CASE at.port = p /\ (at.reset \/ at.pin = pin)
    BY <2>2 DEF UpdateLevels, LevelInv, Inv, TypeOK
  <2>3. CASE ~(at.port = p /\ (at.reset \/ at.pin = pin))
    <3>1. level'[p][pin] = level[p][pin]  BY <2>3 DEF UpdateLevels, Inv, TypeOK
    <3> QED  BY <1>1, <2>1, <2>3, <3>1 DEF LevelInv, LevelDue, UpdateLevels
  <2> QED  BY <2>2, <2>3
<1>4. ASSUME NEW p \in Ports PROVE ClearInv(p)'
  <2>1. ClearInv(p)  BY DEF Inv, PinsInv
  <2> QED  BY <1>1, <2>1 DEF ClearInv, ClearDue, ClearLevel, UpdateLevels
<1> QED  BY <1>2, <1>3, <1>4 DEF PinsInv

\* So is the address; after the last pin of a reset nothing is due.
LEMMA PinsAddress == ASSUME Inv, UpdateAddress PROVE PinsInv'
<1> SUFFICES ASSUME ~via_all PROVE PinsInv'  BY DEF UpdateAddress, PinsInv
<1>1. ASSUME NEW p \in Ports PROVE Waiting(p)' = Waiting(p)
  BY DEF UpdateAddress, Waiting, Resetting
<1>2. ASSUME NEW p \in Ports, NEW pin \in Pins PROVE ModeInv(p, pin)'
  <2>1. ModeInv(p, pin)  BY DEF Inv, PinsInv
  <2> QED  BY <2>1 DEF ModeInv, UpdateAddress
<1>3. ASSUME NEW p \in Ports, NEW pin \in Driven \ {"txa"} PROVE LevelInv(p, pin)'
  <2>1. LevelInv(p, pin)  BY DEF Inv, PinsInv
  <2> QED  BY <1>1, <2>1 DEF LevelInv, LevelDue, UpdateAddress
<1>4. ASSUME NEW p \in Ports PROVE ClearInv(p)'
  <2>1. ClearInv(p)  BY DEF Inv, PinsInv
  <2> QED  BY <1>1, <2>1 DEF ClearInv, ClearDue, ClearLevel, UpdateAddress, Inv, TypeOK
<1> QED  BY <1>2, <1>3, <1>4 DEF PinsInv

\* Steps of the rest of the firmware drive the level that is_active asks for.
LEMMA PinsActivate ==
  ASSUME Inv, NEW p \in Ports, NEW pin \in Driven, NEW active \in BOOLEAN,
         Activate(p, pin, active),
         UNCHANGED <<config, gpio, clear, pc, target, at, todo, via_all>>
  PROVE  PinsInv'
<1> SUFFICES ASSUME ~via_all PROVE PinsInv'  BY DEF PinsInv
<1>1. ASSUME NEW q \in Ports, NEW other \in Pins PROVE ModeInv(q, other)'
  BY DEF ModeInv, Inv, PinsInv
<1>2. ASSUME NEW q \in Ports, NEW other \in Driven \ {"txa"} PROVE LevelInv(q, other)'
  <2>1. LevelInv(q, other)  BY DEF Inv, PinsInv
  <2>2. CASE q = p /\ other = pin  BY <2>2 DEF Activate, LevelInv, Inv, TypeOK
  <2>3. CASE q # p \/ other # pin
    <3>1. level'[q][other] = level[q][other] /\ is_active'[q][other] = is_active[q][other]
      BY <2>3 DEF Activate, Inv, TypeOK
    <3> QED  BY <2>1, <3>1 DEF LevelInv, LevelDue, Waiting, Resetting
  <2> QED  BY <2>2, <2>3
<1>3. ASSUME NEW q \in Ports PROVE ClearInv(q)'
  BY DEF ClearInv, ClearDue, ClearLevel, Waiting, Resetting, Inv, PinsInv
<1> QED  BY <1>1, <1>2, <1>3 DEF PinsInv

\* No other step writes configuration or registers, but for the level of TXA.
LEMMA PinsKept ==
  ASSUME Inv, UNCHANGED <<config, gpio, is_active, clear, at, todo, via_all>>,
         \A p \in Ports, pin \in Driven \ {"txa"} : level'[p][pin] = level[p][pin],
         pc' = pc \/ {pc, pc'} \subseteq {"idle", "argument"}
  PROVE  PinsInv'
<1> SUFFICES ASSUME ~via_all PROVE PinsInv'  BY DEF PinsInv
<1>1. \A q \in Ports : Waiting(q)' = Waiting(q)  BY DEF Waiting, Resetting
<1>2. \A q \in Ports, pin \in Pins : ModeInv(q, pin)'  BY DEF ModeInv, Inv, PinsInv
<1>3. \A q \in Ports, pin \in Driven \ {"txa"} : LevelInv(q, pin)'
  BY <1>1 DEF LevelInv, LevelDue, Inv, PinsInv
<1>4. \A q \in Ports : ClearInv(q)'
  BY <1>1 DEF ClearInv, ClearDue, ClearLevel, Inv, PinsInv
<1> QED  BY <1>2, <1>3, <1>4 DEF PinsInv

LEMMA Registers == Inv /\ [Next]_vars => PinsInv'
<1> SUFFICES ASSUME Inv, [Next]_vars PROVE PinsInv'  OBVIOUS
<1>1. ASSUME NEW t \in Targets, BeginCommand(t) PROVE PinsInv'
  BY <1>1, PinsKept DEF BeginCommand, pins
<1>2. CASE EndCommand  BY <1>2, PinsKept DEF EndCommand, pins
<1>3. ASSUME NEW pin \in Pins, NEW field \in DOMAIN Values, NEW value \in Values[field],
             Set(pin, field, value)
      PROVE  PinsInv'
  BY <1>3, PinsSet
<1>4. CASE ConfigReset
  <2>1. pc' = "configure" /\ todo' = Ports \X Pins  BY <1>4 DEF ConfigReset
  <2>2. \A p \in Ports : Waiting(p)'  BY <2>1, PinAssumption DEF Waiting, Resetting
  <2> QED  BY <2>1, <2>2 DEF PinsInv, ModeInv, LevelInv, ClearInv
<1>5. CASE ConfigurePin  BY <1>5, PinsConfigure
<1>6. CASE UpdateLevels  BY <1>6, PinsLevels
<1>7. CASE UpdateAddress  BY <1>7, PinsAddress
<1>8. ASSUME NEW p \in Ports, StartTx(p) PROVE PinsInv'
  BY <1>8, PinsActivate, PinTypes DEF StartTx
<1>9. ASSUME NEW p \in Ports, EndTx(p) PROVE PinsInv'
  <2>1. \A q \in Ports, pin \in Driven \ {"txa"} : level'[q][pin] = level[q][pin]
    BY <1>9 DEF EndTx, Inv, TypeOK
  <2> QED  BY <1>9, <2>1, PinsKept DEF EndTx
<1>10. ASSUME NEW p \in Ports, NEW pin \in Driven, NEW active \in BOOLEAN,
              SetControlLine(p, pin, active)
       PROVE  PinsInv'
  BY <1>10, PinsActivate DEF SetControlLine
<1>11. CASE UNCHANGED vars  BY <1>11, PinsKept DEF vars, pins
<1> QED  BY <1>1, <1>2, <1>3, <1>4, <1>5, <1>6, <1>7, <1>8, <1>9, <1>10, <1>11 DEF Next

-----------------------------------------------------------------------------
LEMMA InitInv == Init => Inv
<1> SUFFICES ASSUME Init PROVE LoopInv /\ PinsInv  BY InitTypes DEF Inv
<1>1. LoopInv  BY DEF Init, LoopInv
<1>2. \A p \in Ports, pin \in Pins : ModeInv(p, pin)  BY DEF Init, ModeInv
<1>3. \A p \in Ports, pin \in Driven \ {"txa"} : LevelInv(p, pin)  BY DEF Init, LevelInv
<1>4. \A p \in Ports : ClearInv(p)  BY DEF Init, ClearInv
<1> QED  BY <1>1, <1>2, <1>3, <1>4 DEF PinsInv

LEMMA Invariant == Spec => []Inv
<1>1. Inv /\ [Next]_vars => Inv'  BY Types, Loop, Registers DEF Inv
<1> QED  BY <1>1, InitInv, PTL DEF Spec

\* Configuration, registers and levels of every port keep their types, for any
\* set of ports and signals (usb_cdc.c:192-242, 538-569; cdc_shell.c:180-353).
THEOREM TypeCorrect == Spec => []TypeOK
<1>1. Inv => TypeOK  BY DEF Inv
<1> QED  BY <1>1, Invariant, PTL

\* When no command is being carried out, registers, levels and the interrupt's
\* address are as configured, unless "all" has been used since the last reset
\* (cdc_shell.c:180-219, usb_cdc.c:538-569).
THEOREM RegistersFollow == Spec => []AppliedUnlessAll
<1>1. Inv => AppliedUnlessAll
  <2> SUFFICES ASSUME Inv, pc = "idle", ~via_all PROVE Applied  BY DEF AppliedUnlessAll
  <2>1. todo = {}  BY DEF Inv, LoopInv, Resetting
  <2> QED  BY <2>1 DEF Inv, PinsInv, ModeInv, LevelInv, ClearInv, Waiting, Resetting, LevelDue,
                       ClearDue, Applied
<1> QED  BY <1>1, Invariant, PTL
=============================================================================
