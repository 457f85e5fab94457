---------------------------- MODULE CmdLineBuffer ----------------------------
(***************************************************************************)
(* The line editor of a terminal (src/Telnet/CmdLineBuffer.cpp), one action*)
(* per key, together with the terminal it draws on: every reply is modelled*)
(* by what it does to the row of the prompt and to the cursor.  The two can*)
(* then be compared: what the user sees is what Return runs.               *)
(*                                                                         *)
(* A character is a natural number and 0 is the blank.  The registered     *)
(* commands are a set of lines; three lines stand for the built-in         *)
(* "history" command with a number, with -c and the commands that ask the  *)
(* user to press a key before they complete.                               *)
(***************************************************************************)
EXTENDS SequencesExt

CONSTANTS
  Chars,        \* characters besides the blank
  MaxLine,      \* bound: length of a typed line
  MaxHistory,   \* bound: lines in the history
  FileHistory,  \* what readHistoryFile may find: a set of histories
  Commands,     \* names in CmdLineRegistry
  RecallLine, RecallIndex,  \* "history <RecallIndex>"
  ForgetLine,   \* "history -c"
  AskLine       \* a command that calls waitForChar

Blank == 0
Letters == Chars \cup {Blank}
Lines == Seq(Letters)

ASSUME BoundsAssumption ==
  /\ Chars \subseteq Nat \ {0}
  /\ MaxLine \in Nat /\ MaxHistory \in Nat
  /\ RecallIndex \in Nat

ASSUME LinesAssumption ==
  /\ FileHistory \subseteq Seq(Lines)
  /\ Commands \subseteq Lines \ {<<>>}
  /\ RecallLine \in Lines /\ ForgetLine \in Lines /\ AskLine \in Lines

VARIABLES
  text,     \* _dbuf.data up to _dbuf.used
  pos,      \* _dbuf.pos
  alloc,    \* _dbuf.alloc
  history,  \* _history
  index,    \* _historyIndex, from 0; Unset for ULONG_MAX
  state,    \* _state: "ready", "esc", "esc1"
  listing,  \* _displayingCompletionOptions > 0
  waiting,  \* _waitForCharCB is set
  row, col, \* the terminal: cells of the prompt's row, column of the cursor
  upset     \* ghost: a key has left the screen and the buffer apart

buffer == <<text, pos, alloc>>
screen == <<row, col>>
vars == <<buffer, history, index, state, listing, waiting, screen, upset>>

ALLOC_QUANTUM == 4
Unset == -1

TypeOK ==
  /\ text \in Lines
  /\ pos \in Nat
  /\ alloc \in Nat
  /\ history \in Seq(Lines)
  /\ index \in Nat \cup {Unset}
  /\ state \in {"ready", "esc", "esc1"}
  /\ listing \in BOOLEAN
  /\ waiting \in BOOLEAN
  /\ row \in Seq(Letters \cup {-1}) /\ col \in Nat
  /\ upset \in BOOLEAN

-----------------------------------------------------------------------------
(* The terminal (external).  Columns count from 0.                         *)

PromptCells == <<-1, -1>>   \* "> "
PromptWidth == 2

\* Cells up to column c exist; those never written are blank.
Padded(s, c) == s \o [i \in 1..(IF c > Len(s) THEN c - Len(s) ELSE 0) |-> Blank]

\* A character is written over what is at column c, or pushes it right.
Overwritten(s, c, ch) ==
  IF c < Len(s) THEN ReplaceAt(s, c + 1, ch) ELSE Append(Padded(s, c), ch)
Pushed(s, c, ch) == InsertAt(Padded(s, c), c + 1, ch)

\* ESC[P
Pulled(s, c) == IF c < Len(s) THEN RemoveAt(s, c + 1) ELSE s

\* Variant with a fault: a cursor moves left of the start.
LeftUnbounded(c) == c - 1

\* if(pos > 0) pos--; a terminal does the same at its margin.
OneLeft(c) == IF c > 0 THEN c - 1 ELSE 0

\* The prompt with a line after it and the cursor at its end.
Draw(line) ==
  /\ row' = PromptCells \o line
  /\ col' = PromptWidth + Len(line)

-----------------------------------------------------------------------------
(* The buffer.                                                             *)

\* Utils::trimStart and trimEnd
Trimmed(s) ==
  LET solid == {i \in 1..Len(s) : s[i] # Blank}
  IN  IF solid = {} THEN <<>> ELSE SubSeq(s, Min(solid), Max(solid))

Beyond(i) == i = Unset \/ i > Len(history)
Browsing == index # Unset /\ index < Len(history)

\* The line an editing key works on: maybeCopyHistoryToBuffer puts the history
\* line that is being shown into the buffer first.
Line == IF Browsing THEN history[index + 1] ELSE text
LinePos == IF Browsing THEN Len(Line) ELSE pos

\* append_data asks for room by the position, not by what is used.
Room(at, len, used) ==
  IF len + at > alloc THEN len + used + ALLOC_QUANTUM ELSE alloc

\* dbuf_set
SetBuffer(line) ==
  /\ text' = line
  /\ pos' = Len(line)
  /\ alloc' = Room(0, Len(line), 0)

\* Variant with a fault: the cursor stays where it was.
ClearKeepsPos == text' = <<>> /\ UNCHANGED <<pos, alloc>>

\* clear()
ClearBuffer == text' = <<>> /\ pos' = 0 /\ UNCHANGED alloc

\* Variant with a fault: the index survives an edit of the line it shows.
StayInHistory == UNCHANGED index

\* maybeCopyHistoryToBuffer: the index is dropped if it was in use.
LeaveHistory == index' = IF Browsing THEN Unset ELSE index

Ready == state = "ready" /\ ~waiting

\* An editing key: completions go, and the line it edits is the buffer's.
Edit(newText, newPos, newAlloc) ==
  /\ Ready
  /\ text' = newText /\ pos' = newPos /\ alloc' = newAlloc
  /\ LeaveHistory
  /\ listing' = FALSE
  /\ UNCHANGED <<history, state, waiting>>

-----------------------------------------------------------------------------
Init ==
  /\ text = <<>> /\ pos = 0 /\ alloc = ALLOC_QUANTUM
  /\ history \in FileHistory
  /\ index = Unset
  /\ state = "ready"
  /\ listing = FALSE /\ waiting = FALSE
  /\ row = PromptCells /\ col = PromptWidth
  /\ upset = FALSE

\* append_char and its echo, pushed in before the end of the line
Type(ch) ==
  /\ Len(Line) < MaxLine
  /\ Edit(InsertAt(Line, LinePos + 1, ch), LinePos + 1,
          Room(LinePos, 1, Len(Line)))
  /\ row' = IF LinePos < Len(Line) THEN Pushed(row, col, ch)
            ELSE Overwritten(row, col, ch)
  /\ col' = col + 1
  /\ UNCHANGED upset

\* handleDeleteChar
Delete ==
  /\ IF LinePos > 0
     THEN /\ Edit(RemoveAt(Line, LinePos), LinePos - 1, alloc)
          /\ row' = Pulled(row, OneLeft(col))
          /\ col' = OneLeft(col)
     ELSE Edit(Line, LinePos, alloc) /\ UNCHANGED screen
  /\ UNCHANGED upset

\* handleBackArrow, for Backspace
Backspace ==
  /\ Edit(Line, OneLeft(LinePos), alloc)
  /\ col' = IF LinePos > 0 THEN OneLeft(col) ELSE col
  /\ UNCHANGED <<row, upset>>

\* handleBeginingOfLine
ControlA ==
  /\ Edit(Line, 0, alloc)
  /\ col' = PromptWidth
  /\ row' = PromptCells \o SubSeq(row, PromptWidth + 1, Len(row))
  /\ UNCHANGED upset

\* Variant with a fault: the cursor is moved from the start of the row by the
\* length of the line alone.
ControlEShort ==
  /\ Edit(Line, Len(Line), alloc)
  /\ col' = Len(Line)
  /\ UNCHANGED <<row, upset>>

\* handleEndOfLine
ControlE ==
  /\ Edit(Line, Len(Line), alloc)
  /\ col' = PromptWidth + Len(Line)
  /\ UNCHANGED <<row, upset>>

\* handleClearToEndOfLine
ControlK ==
  /\ Edit(SubSeq(Line, 1, LinePos), LinePos, alloc)
  /\ row' = SubSeq(row, 1, IF col < Len(row) THEN col ELSE Len(row))
  /\ UNCHANGED <<col, upset>>

\* handleClearLine
ControlU ==
  /\ Edit(<<>>, 0, alloc)
  /\ Draw(<<>>)
  /\ upset' = FALSE

-----------------------------------------------------------------------------
(* Arrows: ESC [ A to D.                                                   *)

Escape ==
  /\ Ready
  /\ state' = "esc"
  /\ listing' = FALSE
  /\ UNCHANGED <<buffer, history, index, waiting, screen, upset>>

Bracket ==
  /\ state = "esc" /\ ~waiting
  /\ state' = "esc1"
  /\ UNCHANGED <<buffer, history, index, listing, waiting, screen, upset>>

\* Anything else after ESC or ESC [ is dropped with it.
Unknown ==
  /\ state \in {"esc", "esc1"} /\ ~waiting
  /\ state' = "ready"
  /\ UNCHANGED <<buffer, history, index, listing, waiting, screen, upset>>

\* displayHistoryLine with the index that the arrow left
Browse(newIndex) ==
  LET shown == IF newIndex # Unset /\ newIndex < Len(history)
               THEN history[newIndex + 1] ELSE text
  IN  /\ index' = newIndex
      /\ SetBuffer(shown)
      /\ Draw(shown)

Arrow ==
  /\ state = "esc1" /\ ~waiting
  /\ state' = "ready"
  /\ listing' = FALSE
  /\ UNCHANGED <<history, waiting>>

Up ==
  /\ Arrow
  /\ IF history = <<>> THEN UNCHANGED <<buffer, index, screen>>
     ELSE Browse(IF Beyond(index) THEN Len(history) - 1 ELSE OneLeft(index))
  /\ upset' = IF history = <<>> THEN upset ELSE FALSE

Down ==
  /\ Arrow
  /\ IF history = <<>> THEN UNCHANGED <<buffer, index, screen>>
     ELSE IF Beyond(index) THEN index' = Unset /\ UNCHANGED <<buffer, screen>>
     ELSE Browse(index + 1)
  /\ upset' = IF history = <<>> \/ Beyond(index) THEN upset ELSE FALSE

Forward ==
  /\ Arrow
  /\ LeaveHistory
  /\ text' = Line /\ UNCHANGED alloc
  /\ pos' = IF LinePos < Len(Line) THEN LinePos + 1 ELSE LinePos
  /\ col' = IF LinePos < Len(Line) THEN col + 1 ELSE col
  /\ UNCHANGED <<row, upset>>

Back ==
  /\ Arrow
  /\ LeaveHistory
  /\ text' = Line /\ pos' = OneLeft(LinePos) /\ UNCHANGED alloc
  /\ col' = IF LinePos > 0 THEN OneLeft(col) ELSE col
  /\ UNCHANGED <<row, upset>>

-----------------------------------------------------------------------------
(* Completion: displayCompletions and findCommonPrefix.                    *)

MatchesForCmd(s) == {c \in Commands : IsPrefix(s, c)}

\* The order of sort() on the matches.
Before(s, t) ==
  \/ IsStrictPrefix(s, t)
  \/ \E i \in 1..Min({Len(s), Len(t)}) :
       SubSeq(s, 1, i - 1) = SubSeq(t, 1, i - 1) /\ s[i] < t[i]

\* options.front(), as a set of one element.
FirstOption(options) == {s \in options : \A t \in options \ {s} : Before(s, t)}

\* The first match, cut before the length at which another one differs.  The
\* lengths tried end one short of the whole first match.
CommonPart(test, options) ==
  LET differs == {n \in 1..(Len(test) - 1) :
                    \E t \in options : ~IsPrefix(SubSeq(test, 1, n), t)}
  IN  IF differs = {} THEN test ELSE SubSeq(test, 1, Min(differs) - 1)

FindCommonPrefix(options) == {CommonPart(test, options) : test \in FirstOption(options)}

\* A longer prefix goes into the buffer and is looked up again.  The result is
\* in a set of one element.
Extended(s) ==
  LET options == MatchesForCmd(s)
  IN  IF options = {} THEN {s}
      ELSE IF Cardinality(options) = 1 THEN options
      ELSE {IF Len(prefix) > Len(s) THEN prefix ELSE s :
              prefix \in FindCommonPrefix(options)}

Tab ==
  /\ Ready
  /\ \E new \in Extended(Line) :
       /\ LET hide == listing /\ Line = <<>>
          IN  IF hide \/ (new = Line /\ Cardinality(MatchesForCmd(Line)) # 1)
              THEN text' = Line /\ pos' = LinePos /\ UNCHANGED <<alloc, screen>>
              ELSE SetBuffer(new) /\ Draw(new)
       /\ listing' = (~(listing /\ Line = <<>>)
                       /\ Cardinality(MatchesForCmd(new)) > 1)
  /\ LeaveHistory
  /\ UNCHANGED <<history, state, waiting, upset>>

-----------------------------------------------------------------------------
(* Return and '?'.                                                         *)

\* What processBuffer passes on.
Command == IF Browsing THEN Line ELSE Trimmed(text)

\* Nothing to run: the buffer is left as it is.
ReturnBlank ==
  /\ Ready /\ Command = <<>>
  /\ index' = Unset
  /\ listing' = FALSE
  /\ Draw(<<>>)
  /\ upset' = (text # <<>>)
  /\ UNCHANGED <<buffer, history, state, waiting>>

Run ==
  /\ Ready /\ Command # <<>>
  /\ listing' = FALSE
  /\ UNCHANGED state

\* Variant with a fault: a line is stored again when it is repeated.
StoredAgain(cmd) == Append(history, cmd)

\* storeCmdInHistory
Stored(cmd) ==
  IF history # <<>> /\ history[Len(history)] = cmd THEN history
  ELSE Append(history, cmd)

\* The handler says whether its command is recorded.
MayStore(cmd) ==
  \/ UNCHANGED history
  \/ Len(history) < MaxHistory /\ history' = Stored(cmd)

\* A command that completes at once.
RunCommand ==
  /\ Run
  /\ Command \notin {RecallLine, ForgetLine, AskLine}
  /\ MayStore(Command)
  /\ ClearBuffer
  /\ index' = Unset
  /\ Draw(<<>>)
  /\ upset' = FALSE
  /\ UNCHANGED waiting

\* A command that asks for a key before it completes.
RunAsk ==
  /\ Run /\ Command = AskLine
  /\ ClearBuffer
  /\ index' = Unset
  /\ waiting' = TRUE
  /\ row' = <<>> /\ col' = 0
  /\ upset' = FALSE
  /\ MayStore(Command)

\* doCmdHistory with a number: the line is drawn as if it had been browsed to.
\* If there is none the prompt is drawn twice.
RunRecall ==
  /\ Run /\ Command = RecallLine
  /\ LET i == IF RecallIndex <= Len(history) THEN RecallIndex
              ELSE Len(history) - 1
         shown == IF i # Unset /\ i < Len(history) THEN history[i + 1] ELSE <<>>
     IN  /\ index' = i
         /\ SetBuffer(shown)
         /\ IF shown = <<>> THEN Draw(PromptCells) ELSE Draw(shown)
         /\ upset' = (shown = <<>>)
  /\ UNCHANGED <<history, waiting>>

\* doCmdHistory with -c
RunForget ==
  /\ Run /\ Command = ForgetLine
  /\ history' = <<>>
  /\ ClearBuffer
  /\ index' = Unset
  /\ Draw(<<>>)
  /\ upset' = FALSE
  /\ UNCHANGED waiting

\* While a command waits for a key the others are swallowed.  The callback
\* completes the command, which prompts.
PressAwaited ==
  /\ waiting /\ state = "ready"
  /\ waiting' = FALSE
  /\ Draw(text)
  /\ UNCHANGED <<buffer, history, index, state, listing, upset>>

PressOther ==
  /\ waiting /\ state = "ready"
  /\ UNCHANGED vars

\* handleHelp: help is printed, the buffer is cleared and a prompt drawn.
Help ==
  /\ Ready
  /\ ClearBuffer
  /\ listing' = FALSE
  /\ Draw(<<>>)
  /\ upset' = Browsing
  /\ UNCHANGED <<history, index, state, waiting>>

Next ==
  \/ \E ch \in Letters : Type(ch)
  \/ Delete \/ Backspace \/ ControlA \/ ControlE \/ ControlK \/ ControlU
  \/ Escape \/ Bracket \/ Unknown \/ Up \/ Down \/ Forward \/ Back
  \/ Tab
  \/ ReturnBlank \/ RunCommand \/ RunAsk \/ RunRecall \/ RunForget
  \/ PressAwaited \/ PressOther
  \/ Help

Spec == Init /\ [][Next]_vars

-----------------------------------------------------------------------------
(* Properties.                                                             *)

\* The cursor stays within the line, whichever way either one was changed.
CursorInLine == pos <= Len(text)

\* What the prompt's row shows, and where its cursor is, is the line that the
\* next key edits and Return runs.  Three keys break this until the next line is
\* drawn: '?' on a history line, and Return on a line of blanks or on a call of
\* "history" for a line that is not there.
ScreenIsLine ==
  ~upset /\ ~waiting =>
    row = PromptCells \o Line /\ col = PromptWidth + LinePos

\* While a history line is shown the buffer holds a copy of it, so that an edit
\* starts from what is seen.
BufferIsHistoryLine == ~upset /\ Browsing => text = Line /\ pos = Len(text)

IsClean(lines) ==
  \A i \in 1..Len(lines) :
    /\ lines[i] # <<>>
    /\ lines[i][1] # Blank /\ lines[i][Len(lines[i])] # Blank
    /\ i > 1 => lines[i] # lines[i - 1]

\* The history never holds a blank line, one with blanks around it, or the same
\* line twice in a row.
HistoryIsClean == IsClean(history)

-----------------------------------------------------------------------------
(* Statements of the source that the code does not keep.                   *)

\* CmdLineBuffer.hpp:140, the used part of the buffer is "actual end of
\* buffer": it lies within the allocation.
UsedIsAllocated == Len(text) <= alloc

=============================================================================
