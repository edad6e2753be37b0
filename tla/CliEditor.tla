----------------------------- MODULE CliEditor -----------------------------
(***************************************************************************)
(* The line editor of the embedded CLI (lib/embedded-cli/embedded_cli.cpp): *)
(* one step is one character that embeddedCliProcess takes from its input,  *)
(* or one line that something else prints in between.  Its output goes to   *)
(* a terminal that is modelled as the row the cursor is in, wide enough for *)
(* the whole line.  The discarding of a command when the input overflows is *)
(* left out: UartRxProofs shows that it never does.                         *)
(***************************************************************************)
EXTENDS CliHistory

CONSTANTS
  Invitation,   \* the prompt, a sequence of characters
  Names,        \* the sequence of the bindings' names
  Toggling,     \* the name of the binding that switches autocompletion, `simple`
  Letter,       \* the displayable characters
  Typed,        \* bound: those of them that are typed; names bring the others
  Blank,        \* the space, a Letter
  CmdMaxSize,   \* cmdMaxSize, CLI_CMD_BUFFER_SIZE: 64
  MaxLineLength \* bound: inputLineLength, and the terminal's width beside the prompt

\* A completed name and its space fit the buffer.
ASSUME EditorAssumption ==
  /\ CmdMaxSize \in Nat /\ MaxLineLength \in Nat /\ 2 <= CmdMaxSize /\ CmdMaxSize <= MaxLineLength
  /\ Typed \subseteq Letter /\ Blank \in Letter /\ NUL \notin Letter
  /\ Invitation \in Seq(ToSet(Invitation)) /\ Names \in Seq(Seq(Letter))
  /\ \A n \in DOMAIN Names : Len(Names[n]) + 3 <= CmdMaxSize

VARIABLES
  ed,       \* the editor and the row: see EditorType
  history,  \* impl->history
  recent    \* history variable: the commands a user would expect there

vars == <<ed, history, recent>>

Keys == {"CR", "LF", "BS", "TAB", "ESC", "[", "A", "B", "C", "D"}
Width == Len(Invitation) + MaxLineLength + CmdMaxSize
Spaces(n) == [i \in 1..Max({0, n}) |-> Blank]
BlankRow == [i \in 0..Width - 1 |-> Blank]

-----------------------------------------------------------------------------
(* What the terminal does with the output *)

Put(s, str) ==
  [s EXCEPT !.row = [i \in DOMAIN @ |-> IF i \in s.column..s.column + Len(str) - 1 THEN str[i - s.column + 1] ELSE @[i]],
            !.column = @ + Len(str)]

LineBreak(s) == [s EXCEPT !.row = BlankRow, !.column = 0]
Return(s) == [s EXCEPT !.column = 0]
CursorBack(s, n) == [s EXCEPT !.column = IF n > @ THEN 0 ELSE @ - n]
CursorForward(s, n) == [s EXCEPT !.column = @ + n]

\* ICH, DCH
InsertCell(s) ==
  [s EXCEPT !.row = [i \in DOMAIN @ |-> IF i > s.column THEN @[i - 1] ELSE IF i = s.column THEN Blank ELSE @[i]]]
DeleteCell(s) ==
  [s EXCEPT !.row = [i \in DOMAIN @ |-> IF i < s.column THEN @[i] ELSE IF i + 1 \in DOMAIN @ THEN @[i + 1] ELSE Blank]]

-----------------------------------------------------------------------------
(* Autocompletion *)

\* The bindings whose names begin with the line, and the first of those names.
Candidates(line) == {n \in DOMAIN Names : line # <<>> /\ IsPrefix(line, Names[n])}
First(line) == Names[Min(Candidates(line))]

\* Seeded variant: a shorter candidate does not bound the common part.
NarrowKeepsLonger(size, first, len, name) ==
  LET differ == {j \in size..len - 1 : j < Len(name) /\ first[j + 1] # name[j + 1]}
  IN IF differ = {} THEN len ELSE Min(differ)

\* How much of the first candidate remains common when one more candidate comes.
Narrow(size, first, len, name) ==
  LET bound == IF Len(name) < len THEN Len(name) ELSE len
      differ == {j \in size..bound - 1 : first[j + 1] # name[j + 1]}
  IN IF differ = {} THEN bound ELSE Min(differ)

\* getAutocompletedCommand: autocompletedLen after each of the bindings.
LengthAfter(line, size) ==
  LET candidates == Candidates(line)
      after[n \in 0..Len(Names)] ==
        IF n = 0 THEN 0
        ELSE IF n \notin candidates THEN after[n - 1]
        ELSE IF n = Min(candidates) THEN Len(Names[n])
        ELSE Narrow(size, Names[Min(candidates)], after[n - 1], Names[n])
  IN after

CompletedLength(line, size) == LengthAfter(line, size)[Len(Names)]

\* What can be added to the line safely.
Offer(s) == IF Candidates(s.line) = {} THEN <<>> ELSE SubSeq(First(s.line), s.size + 1, CompletedLength(s.line, s.size))

\* printLiveAutocompletion: the cursor is saved before and restored after.
Live(s) ==
  LET offer == Offer(s)
      length == s.size + Len(offer)
      written == Put(CursorForward(s, s.cursor), offer \o Spaces(s.length - length))
  IN IF ~s.autocomplete THEN s
     ELSE [written EXCEPT !.length = length, !.column = s.column]

ClearCurrentLine(s) ==
  [Return(Put(Return(s), Spaces(s.length + Len(Invitation)))) EXCEPT !.length = 0, !.cursor = 0]

\* The invitation and the line, from the beginning of a row.
ShowLine(s) == [Put(Put(s, Invitation), s.line) EXCEPT !.length = s.size]

\* What is written lies right of the cursor, so that the cursor ends at the end.
ExpandedPart(s, line) == SubSeq(line, s.size - s.cursor + 1, Len(line))

Expand(s, line) ==
  [Put(s, ExpandedPart(s, line)) EXCEPT !.line = line, !.size = Len(line), !.length = Len(line), !.cursor = 0]

\* onAutocompleteRequest; the list of the candidates scrolls away.
AutocompleteRequest(s) ==
  LET candidates == Candidates(s.line)
      common == SubSeq(First(s.line), 1, CompletedLength(s.line, s.size))
  IN IF ~s.autocomplete \/ candidates = {} THEN s
     ELSE IF candidates = {Min(candidates)} THEN Expand(s, Append(First(s.line), Blank))
     ELSE IF Len(common) > s.size THEN Expand(s, common)
     ELSE ShowLine(LineBreak(ClearCurrentLine(s)))

-----------------------------------------------------------------------------
(* One character *)

Init ==
  /\ ed = [line |-> <<>>, size |-> 0, cursor |-> 0, length |-> 0, lastChar |-> NUL, escape |-> FALSE,
           autocomplete |-> TRUE, row |-> Put([row |-> BlankRow, column |-> 0], Invitation).row,
           column |-> Len(Invitation)]
  /\ history = EmptyHistory
  /\ recent = <<>>

\* What the loop of embeddedCliProcess does after each character.
After(s, c) == ed' = [Live(s) EXCEPT !.lastChar = c]

HistoryUnchanged == UNCHANGED <<history, recent>>

\* A character that changes nothing but what was typed last: the escape
\* character, a line end that is the second half of a pair, a backspace at the
\* beginning of the line, a character the buffer has no room for.
Ignored(c) ==
  /\ ~ed.escape
  /\ \/ c = "ESC"
     \/ c \in {"CR", "LF"} /\ ed.lastChar \in {"CR", "LF"} \ {c}
     \/ c = "BS" /\ ed.size - ed.cursor <= 0
     \/ c \in Typed /\ ed.size + 2 >= CmdMaxSize
  /\ After(ed, c)
  /\ HistoryUnchanged

EscapeMode ==
  /\ ~ed.escape /\ ed.lastChar = "ESC"
  /\ After([ed EXCEPT !.escape = TRUE], "[")
  /\ HistoryUnchanged

\* In an escape sequence, characters below 64 are skipped and any other but
\* the four arrows ends it.
SkipEscaped(c) ==
  /\ ed.escape /\ c \in {"CR", "BS", "["}
  /\ After([ed EXCEPT !.escape = (c # "[")], c)
  /\ HistoryUnchanged

\* Seeded variant: the cursor stays where it was in the line before.
ReplaceLineKeepsCursor(s, item) ==
  LET old == s.cursor IN [ShowLine([ClearCurrentLine(s) EXCEPT !.line = item, !.size = Len(item)]) EXCEPT !.cursor = old]

ReplaceLine(s, item) == ShowLine([ClearCurrentLine(s) EXCEPT !.line = item, !.size = Len(item)])

\* navigateHistory
NavigateHistory(c) ==
  /\ ed.escape
  /\ \/ c = "A" /\ history.current < history.count
        /\ history' = [history EXCEPT !.current = @ + 1]
     \/ c = "B" /\ history.current > 0
        /\ history' = [history EXCEPT !.current = @ - 1]
  /\ LET item == IF history'.current = 0 THEN <<>> ELSE ItemAt(history, history'.current)
     IN After(Live(ReplaceLine([ed EXCEPT !.escape = FALSE], item)), c)
  /\ UNCHANGED recent

\* The end of the history, or of the line, is reached.
ArrowAtEnd(c) ==
  /\ ed.escape
  /\ \/ c = "A" /\ history.current = history.count
     \/ c = "B" /\ history.current = 0
     \/ c = "C" /\ ed.cursor = 0
     \/ c = "D" /\ ed.cursor = Len(ed.line)
  /\ After([ed EXCEPT !.escape = FALSE], c)
  /\ HistoryUnchanged

MoveCursor(c) ==
  /\ ed.escape
  /\ LET s == [ed EXCEPT !.escape = FALSE]
     IN \/ c = "C" /\ ed.cursor > 0
           /\ After([CursorForward(s, 1) EXCEPT !.cursor = @ - 1], c)
        \/ c = "D" /\ ed.cursor < Len(ed.line)
           /\ After([CursorBack(s, 1) EXCEPT !.cursor = @ + 1], c)
  /\ HistoryUnchanged

\* Seeded variant: one of the two reserved characters is used.
HasRoomForOne(s) == s.size + 1 < CmdMaxSize

HasRoom(s) == s.size + 2 < CmdMaxSize

\* The bound: while autocompletion is off, inputLineLength grows with every
\* character that is typed and erased again, and the code does not limit it.
LengthBound == ed.length < MaxLineLength

\* onCharInput
CharInput(c) ==
  /\ ~ed.escape /\ c \in Typed
  /\ HasRoom(ed) /\ LengthBound
  /\ LET at == Len(ed.line) - ed.cursor
         shifted == IF ed.cursor > 0 THEN InsertCell(ed) ELSE ed
     IN After([Put(shifted, <<c>>) EXCEPT
                 !.line = SubSeq(ed.line, 1, at) \o <<c>> \o SubSeq(ed.line, at + 1, Len(ed.line)),
                 !.size = @ + 1, !.length = @ + 1], c)
  /\ HistoryUnchanged

\* Seeded variant: the size is not adjusted.
ShortenedOnScreen(s) == s.size

Shortened(s) == s.size - 1

\* onControlInput, backspace: inputLineLength is left to the live autocompletion.
Backspace ==
  /\ ~ed.escape /\ ed.size - ed.cursor > 0
  /\ LET at == Len(ed.line) - ed.cursor
     IN After([DeleteCell(CursorBack(ed, 1)) EXCEPT
                 !.line = SubSeq(ed.line, 1, at - 1) \o SubSeq(ed.line, at + 1, Len(ed.line)),
                 !.size = Shortened(ed)], "BS")
  /\ HistoryUnchanged

Tab ==
  /\ ~ed.escape
  /\ After(AutocompleteRequest(ed), "TAB")
  /\ HistoryUnchanged

IsBlank(line) == \A i \in DOMAIN line : line[i] = Blank

\* The first word of the line.
CommandName(line) ==
  LET begin == Min({i \in DOMAIN line : line[i] # Blank})
      end == Min({Len(line) + 1} \cup {i \in begin..Len(line) : line[i] = Blank})
  IN SubSeq(line, begin, end - 1)

\* onControlInput, line end: the line is completed, put into the history and
\* executed; a command prints whole lines, and one of them switches autocompletion.
Enter(c) ==
  /\ ~ed.escape /\ ~(ed.lastChar \in {"CR", "LF"} \ {c})
  /\ LET completed == AutocompleteRequest(ed)
         line == completed.line
         executed == ~IsBlank(line)
         toggles == executed /\ CommandName(line) = Toggling
         ended == [LineBreak(completed) EXCEPT
                     !.line = <<>>, !.size = 0, !.length = 0, !.cursor = 0,
                     !.autocomplete = IF toggles THEN ~@ ELSE @]
     IN /\ history' = [IF executed THEN HistoryPut(history, line) ELSE history EXCEPT !.current = 0]
        /\ recent' = IF executed THEN Remember(recent, line) ELSE recent
        /\ After(Put(ended, Invitation), c)

\* embeddedCliPrint between two characters, from DebugPrintPending.
PrintLine ==
  /\ LET cleared == [ClearCurrentLine(ed) EXCEPT !.cursor = ed.cursor]
     IN ed' = Live(CursorBack(ShowLine(LineBreak(cleared)), ed.cursor))
  /\ HistoryUnchanged

Next ==
  \/ \E c \in Typed : CharInput(c)
  \/ \E c \in Typed \cup Keys : Ignored(c)
  \/ EscapeMode
  \/ \E c \in Keys : SkipEscaped(c) \/ NavigateHistory(c) \/ ArrowAtEnd(c) \/ MoveCursor(c)
  \/ Backspace \/ Tab
  \/ \E c \in {"CR", "LF"} : Enter(c)
  \/ PrintLine

Spec == Init /\ [][Next]_vars

-----------------------------------------------------------------------------
(* Properties *)

TypeOK ==
  /\ ed.line \in UNION {[1..n -> Letter] : n \in 0..CmdMaxSize - 2}
  /\ ed.size \in 0..CmdMaxSize - 2 /\ ed.cursor \in 0..CmdMaxSize - 2 /\ ed.length \in 0..MaxLineLength
  /\ ed.lastChar \in Letter \cup Keys \cup {NUL}
  /\ ed.escape \in BOOLEAN /\ ed.autocomplete \in BOOLEAN
  /\ ed.row \in [0..Width - 1 -> Letter \cup ToSet(Invitation)] /\ ed.column \in 0..Width - 1
  /\ history.buf \in [0..HistorySize - 1 -> Letter \cup {NUL}]
  /\ history.count \in Nat /\ history.current \in 0..history.count

\* The three lengths the editor keeps agree after every character, so that
\* no insertion point lies outside of the line; the two characters that
\* parseCommand needs at the end of the buffer stay free.
SizesAgree ==
  /\ ed.size = Len(ed.line)
  /\ ed.cursor <= ed.size
  /\ ed.size + 2 <= CmdMaxSize

\* The user sees what will be executed: the row holds the invitation, the line
\* and its live completion and nothing else, and the cursor is where the next
\* character will go, after any mixture of editing, history, autocompletion
\* and printing.  The completion is what all candidates have in common, one or
\* several: printLiveAutocompletion does not do what its comment says, "Prints
\* only if autocompletion is present and only one candidate exists".  LengthBound
\* excludes that blanks written up to inputLineLength reach the end of the row.
ScreenShowsLine ==
  LET shown == Invitation \o ed.line \o (IF ed.autocomplete THEN Offer(ed) ELSE <<>>)
  IN /\ ed.row = [i \in 0..Width - 1 |-> IF i < Len(shown) THEN shown[i + 1] ELSE Blank]
     /\ ed.column = Len(Invitation) + ed.size - ed.cursor

\* The buffer of bytes decodes to the most recent commands, newest first, none
\* twice, as many as fit; a command longer than the buffer leaves it alone.
HistoryIsRecent ==
  /\ Items(history) = recent
  /\ \A i, j \in DOMAIN recent : recent[i] = recent[j] => i = j

\* What autocompletion offers is what all candidates have in common, in
\* whatever order they were bound (embedded_cli.cpp: "Number of characters
\* that can be completed safely").
CompletionIsCommon ==
  Candidates(ed.line) # {} =>
    SubSeq(First(ed.line), 1, CompletedLength(ed.line, ed.size)) = LongestCommonPrefix({Names[n] : n \in Candidates(ed.line)})
=============================================================================
