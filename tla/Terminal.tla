------------------------------ MODULE Terminal ------------------------------
(***************************************************************************)
(* The terminal emulator behind the transcript of a session and behind the *)
(* live view (internal/gateway/record/vt.go): one screen and the lines     *)
(* that scrolled off it.                                                   *)
(*                                                                         *)
(* What is printed is a mark of its own, so that the order and the number  *)
(* of times each is shown can be told.  A row is a function of its cells,  *)
(* a line of history the row's text.  A step is one rune or one whole      *)
(* escape sequence with the numbers the machine chose: the parser, which   *)
(* lets nothing of an unfinished or unknown sequence reach the screen,     *)
(* colours, and the bytes of a rune cut in two, are not in this model.     *)
(***************************************************************************)
EXTENDS Integers, Sequences, SequencesExt, FiniteSetsExt

CONSTANTS
  Sizes,        \* the <<cols, rows>> a session may ask for, after boundSize
  TabStop,      \* 8
  MaxHistory,   \* maxHistoryLines
  MaxInt,       \* the largest int; the least is -MaxInt - 1
  Numbers,      \* the parameters of a CSI
  MaxInk,       \* bound on the marks printed
  MaxLog        \* bound on the lines that ever went into history

ASSUME TerminalAssumption ==
  /\ Sizes \subseteq (Nat \ {0}) \X (Nat \ {0})
  /\ {TabStop, MaxHistory, MaxInt} \subseteq Nat \ {0} /\ {MaxInk, MaxLog} \subseteq Nat
  /\ Numbers \subseteq -MaxInt - 1 .. MaxInt

VARIABLE vt

Blank == 0
Half == -1     \* the second cell of a wide rune
NoRow == -1

blankRow(cols) == [c \in 0..cols - 1 |-> Blank]
blankScreen(cols, rows) == [r \in 0..rows - 1 |-> blankRow(cols)]

NewVT(cols, rows) ==
  [cols |-> cols, rows |-> rows, x |-> 0, y |-> 0, savedX |-> 0, savedY |-> 0,
   screen |-> blankScreen(cols, rows), history |-> <<>>, head |-> <<>>, dropped |-> 0,
   wrapPending |-> FALSE,
   pendingRow |-> NoRow, pendingText |-> <<>>, committedRows |-> 0,
   ink |-> 0,          \* marks printed
   log |-> <<>>,       \* every line that ever went into history
   strayed |-> FALSE,  \* the cursor left the pending row by the way of CSI u
   lost |-> FALSE]     \* a step that takes nothing from the transcript did

-----------------------------------------------------------------------------
(* Rows, lines and history. *)

Marks(row) == {c \in DOMAIN row : row[c] > 0}

\* What a cell adds to the text.
Glyph(r) == IF r = Half THEN <<>> ELSE <<r>>
rowToString(row) ==
  IF Marks(row) = {} THEN <<>> ELSE FlattenSeq([i \in 1..Max(Marks(row)) + 1 |-> Glyph(row[i - 1])])

Line(v, r) == rowToString(v.screen[r])
Erased(v, r, cells) ==
  [v EXCEPT !.screen[r] = [c \in DOMAIN @ |-> IF c \in cells THEN Blank ELSE @[c]]]
Cleared(v, rows) ==
  [v EXCEPT !.screen = [r \in DOMAIN @ |-> IF r \in rows THEN blankRow(v.cols) ELSE @[r]]]
WholeRow(v) == 0..v.cols - 1
WholeScreen(v) == 0..v.rows - 1

\* head keeps the first lines for good, history the last ones.
appendHistoryLines(v, lines) ==
  LET all == v.history \o lines
      overflow == Max({0, Len(all) - MaxHistory})
  IN  [v EXCEPT !.head = @ \o SubSeq(lines, 1, Min({MaxHistory - Len(@), Len(lines)})),
                !.history = SubSeq(all, overflow + 1, Len(all)),
                !.dropped = @ + overflow,
                !.log = @ \o lines]

\* Rows 0..to go into history from row first on, the last as lastLine, and are
\* blank from then on.
Committed(v, first, to, lastLine) ==
  [Cleared(appendHistoryLines(v, [i \in 1..to - first |-> Line(v, first + i - 1)] \o <<lastLine>>), 0..to)
     EXCEPT !.committedRows = to + 1]

\* Mutant: only the rows without a gap above the last one.
commitBlock(v, to, lastLine) ==
  Committed(v, Min({f \in 0..to : \A r \in f..to - 1 : Line(v, r) # <<>>}), to, lastLine)

\* Blank rows on top are dropped.
commitPrefix(v, to, lastLine) ==
  Committed(v, Min({f \in 0..to : f = to \/ Line(v, f) # <<>>}), to, lastLine)

\* What is shown down to row to, before a clear.
pushRowsToHistory(v, to) ==
  LET shown == {r \in 0..to : Line(v, r) # <<>>}
  IN  IF shown = {} THEN v ELSE commitPrefix(v, Max(shown), Line(v, Max(shown)))

Settled(v) == [v EXCEPT !.pendingRow = NoRow, !.pendingText = <<>>, !.strayed = FALSE]

\* The erase of a whole row waits until it is known whether it was a redraw.
setPendingErase(v, row) ==
  Erased(IF Line(v, row) = <<>> THEN v
         ELSE [v EXCEPT !.pendingRow = row, !.pendingText = Line(v, row)], row, WholeRow(v))

\* Something is printed into the row: its pending erase was a redraw.
beforeWriteToRow(v, row) ==
  [(IF v.pendingRow = row THEN Settled(v) ELSE v) EXCEPT !.committedRows = Min({@, row})]

resolvePending(v) ==
  IF v.pendingRow = NoRow THEN v ELSE commitPrefix(Settled(v), v.pendingRow, v.pendingText)

-----------------------------------------------------------------------------
(* The cursor and the rows. *)

addSat(a, b) == IF a + b > MaxInt THEN MaxInt ELSE IF a + b < -MaxInt - 1 THEN -MaxInt - 1 ELSE a + b

clamp(val, low, high) == IF val < low THEN low ELSE IF val > high THEN high ELSE val
paramDefault(n, def) == IF n = 0 THEN def ELSE n
Times(n) == LET k == paramDefault(n, 1) IN IF k < 0 THEN 1 ELSE k   \* of a relative move

OnRow(v, y) == clamp(y, 0, v.rows - 1)
OnColumn(v, x) == clamp(x, 0, v.cols - 1)

\* Shifts rows from..rows-1 up or down by n; what comes in is blank.
ShiftedUp(v, from, n) ==
  [v EXCEPT !.screen = [r \in DOMAIN @ |-> IF r < from THEN @[r]
                                           ELSE IF r < v.rows - n THEN @[r + n] ELSE blankRow(v.cols)]]
ShiftedDown(v, from, n) ==
  [v EXCEPT !.screen = [r \in DOMAIN @ |-> IF r < from THEN @[r]
                                           ELSE IF r >= from + n THEN @[r - n] ELSE blankRow(v.cols)]]

scrollUp(v, n) ==
  IF n <= 0 THEN v
  ELSE LET k == Min({n, v.rows})
           w == resolvePending(v)
           skip == Min({k, w.committedRows})
       IN  [ShiftedUp(appendHistoryLines(w, [i \in 1..k - skip |-> Line(w, skip + i - 1)]), 0, k)
              EXCEPT !.committedRows = Max({0, @ - k})]

scrollDown(v, n) ==
  IF n <= 0 THEN v
  ELSE LET k == Min({n, v.rows})
       IN  [ShiftedDown(resolvePending(v), 0, k) EXCEPT !.committedRows = Min({v.rows, @ + k})]

insertLines(v, n) ==
  IF n <= 0 THEN v
  ELSE LET k == Min({n, v.rows - v.y})
       IN  [ShiftedDown(resolvePending(v), v.y, k)
              EXCEPT !.committedRows = IF v.y < @ THEN Min({v.rows, @ + k}) ELSE @]

deleteLines(v, n) ==
  IF n <= 0 THEN v
  ELSE LET k == Min({n, v.rows - v.y})
       IN  [ShiftedUp(resolvePending(v), v.y, k)
              EXCEPT !.committedRows = IF v.y < @ THEN Max({v.y, @ - k}) ELSE @]

insertChars(v, n) ==
  LET k == Min({n, v.cols - v.x})
  IN  IF n <= 0 THEN v
      ELSE [v EXCEPT !.screen[v.y] = [c \in DOMAIN @ |-> IF c < v.x THEN @[c] ELSE IF c < v.x + k THEN Blank ELSE @[c - k]]]

deleteChars(v, n) ==
  LET k == Min({n, v.cols - v.x})
  IN  IF n <= 0 THEN v
      ELSE [v EXCEPT !.screen[v.y] = [c \in DOMAIN @ |-> IF c < v.x THEN @[c] ELSE IF c < v.cols - k THEN @[c + k] ELSE Blank]]

eraseChars(v, n) == IF n <= 0 THEN v ELSE Erased(v, v.y, v.x..Min({v.cols, addSat(v.x, n)}) - 1)

advanceLine(v) ==
  IF v.y + 1 >= v.rows THEN [scrollUp(v, 1) EXCEPT !.y = v.rows - 1]
  ELSE [resolvePending(v) EXCEPT !.y = @ + 1]

moveCursorY(v, newY) == [(IF newY # v.y THEN resolvePending(v) ELSE v) EXCEPT !.y = newY]

-----------------------------------------------------------------------------
(* handleGround. *)

\* Every mark shown, in the order of the transcript.
Ink(r) == IF r > 0 THEN <<r>> ELSE <<>>
Inked(line) == FlattenSeq([i \in 1..Len(line) |-> Ink(line[i])])
Page(v) == v.log \o [i \in 1..v.rows |-> IF i - 1 = v.pendingRow THEN v.pendingText ELSE Line(v, i - 1)]
Shown(v) == Inked(FlattenSeq(Page(v)))

\* A step overwrites or takes out something on the screen, or it must not.
Edits(v) == vt' = v /\ Len(v.log) <= MaxLog
Text(v) == <<v.log, v.screen, v.pendingText>>
Keeps(v) == Edits([v EXCEPT !.lost = @ \/ (~vt.strayed /\ Text(v) # Text(vt) /\ Shown(v) # Shown(vt))])

NextRow(v) == [advanceLine([v EXCEPT !.x = 0]) EXCEPT !.wrapPending = FALSE]

\* Control characters that move the cursor within its row, and those ignored.
carriageReturn == Keeps([vt EXCEPT !.x = 0, !.wrapPending = FALSE])
backspace == Keeps([vt EXCEPT !.x = Max({0, @ - 1}), !.wrapPending = FALSE])
lineFeed == Keeps(NextRow(vt))

tab ==
  LET nextTab == (vt.x \div TabStop + 1) * TabStop
  IN  IF nextTab >= vt.cols THEN Keeps(NextRow(vt))
      ELSE Edits([Erased(vt, vt.y, vt.x..nextTab - 1) EXCEPT !.x = nextTab, !.wrapPending = FALSE])

\* A wrap that was deferred comes first, and a wide rune that does not fit leaves
\* the last cell blank.
Wrapped(v) == IF v.wrapPending THEN NextRow(v) ELSE v
Fitted(v, w) ==
  IF w = 2 /\ v.x >= v.cols - 1 THEN NextRow(Erased(beforeWriteToRow(v, v.y), v.y, {v.x})) ELSE v

Inscribed(v, w) ==
  [v EXCEPT !.ink = @ + 1,
            !.screen[v.y] = [i \in DOMAIN @ |-> IF i = v.x THEN v.ink + 1
                                               ELSE IF w = 2 /\ i = v.x + 1 THEN Half ELSE @[i]]]
Advanced(v, w) ==
  LET fits == v.x + w < v.cols
  IN  [v EXCEPT !.x = IF fits THEN @ + w ELSE v.cols - 1, !.wrapPending = ~fits]
Written(v, w) == Advanced(Inscribed(beforeWriteToRow(v, v.y), w), w)

\* A rune of width w.
print(w) == vt.ink < MaxInk /\ Edits(Written(Fitted(Wrapped(vt), w), w))

-----------------------------------------------------------------------------
(* handleEscape and executeCSI. *)

moves(v) == Keeps([v EXCEPT !.wrapPending = FALSE])

saveCursor == Keeps([vt EXCEPT !.savedX = vt.x, !.savedY = vt.y])
Restored == [vt EXCEPT !.x = OnColumn(vt, vt.savedX)]

\* ESC 8, and CSI u, which does not go through moveCursorY.
restoreCursorEsc == moves(moveCursorY(Restored, OnRow(vt, vt.savedY)))
restoreCursor ==
  LET y == OnRow(vt, vt.savedY)
  IN  moves([Restored EXCEPT !.y = y, !.strayed = @ \/ (vt.pendingRow # NoRow /\ y # vt.y)])

reverseIndex ==
  IF vt.y > 0 THEN moves(moveCursorY(vt, vt.y - 1))
  ELSE Edits([scrollDown(vt, 1) EXCEPT !.wrapPending = FALSE])

resetToInitial ==
  Keeps([Cleared(pushRowsToHistory(resolvePending(vt), vt.rows - 1), WholeScreen(vt))
           EXCEPT !.x = 0, !.y = 0, !.savedX = 0, !.savedY = 0, !.wrapPending = FALSE])

cursorVertical(n) ==
  \/ moves(moveCursorY(vt, OnRow(vt, addSat(vt.y, -Times(n)))))                              \* A
  \/ moves(moveCursorY(vt, OnRow(vt, addSat(vt.y, Times(n)))))                               \* B
  \/ moves([moveCursorY(vt, OnRow(vt, addSat(vt.y, Times(n)))) EXCEPT !.x = 0])              \* E
  \/ moves([moveCursorY(vt, OnRow(vt, addSat(vt.y, -Times(n)))) EXCEPT !.x = 0])             \* F
  \/ moves(moveCursorY(vt, OnRow(vt, addSat(paramDefault(n, 1), -1))))                       \* d

cursorHorizontal(n) ==
  \/ moves([vt EXCEPT !.x = OnColumn(vt, addSat(vt.x, Times(n)))])                           \* C
  \/ moves([vt EXCEPT !.x = OnColumn(vt, addSat(vt.x, -Times(n)))])                          \* D
  \/ moves([vt EXCEPT !.x = OnColumn(vt, addSat(paramDefault(n, 1), -1))])                   \* G

cursorPosition(row, col) ==
  moves([moveCursorY(vt, OnRow(vt, addSat(paramDefault(row, 1), -1)))
           EXCEPT !.x = OnColumn(vt, addSat(paramDefault(col, 1), -1))])

\* Erase in display.  Mode 0: from the cursor on; 1: up to the cursor, where part
\* of its row is not preserved; 2 and 3: all.
eraseInDisplay(mode) ==
  LET v == resolvePending(vt)
      to == IF v.x = v.cols - 1 THEN v.y ELSE v.y - 1
  IN  CASE mode = 0 -> Keeps(Cleared(Erased(pushRowsToHistory(v, v.rows - 1), v.y, v.x..v.cols - 1), v.y + 1..v.rows - 1))
        [] mode = 1 -> LET w == Erased(Cleared(pushRowsToHistory(v, to), 0..v.y - 1), v.y, 0..v.x)
                       IN  IF to = v.y THEN Keeps(w) ELSE Edits(w)
        [] OTHER -> Keeps(Cleared(pushRowsToHistory(v, v.rows - 1), WholeScreen(v)))

\* Erase in line; only that of a whole row may be a clear.
eraseInLine(mode) ==
  IF mode = 2 \/ (mode = 0 /\ vt.x = 0) \/ (mode = 1 /\ vt.x >= vt.cols - 1) THEN Keeps(setPendingErase(vt, vt.y))
  ELSE Edits(Erased(vt, vt.y, IF mode = 0 THEN vt.x..vt.cols - 1 ELSE 0..vt.x))

edit(n) ==
  LET k == paramDefault(n, 1)
  IN  \/ Edits(insertLines(vt, k)) \/ Edits(deleteLines(vt, k)) \/ Edits(scrollDown(vt, k))
      \/ Edits(insertChars(vt, k)) \/ Edits(deleteChars(vt, k)) \/ Edits(eraseChars(vt, k))

scroll(n) == Keeps(scrollUp(vt, paramDefault(n, 1)))

-----------------------------------------------------------------------------
(* Flush, Resize and Reset. *)

Flush == Keeps(resolvePending(vt))

\* The pieces of a line that is too long for the new width.
Split(line, cols) ==
  IF Len(line) <= cols THEN <<line>>
  ELSE [i \in 1..(Len(line) + cols - 1) \div cols |->
          SubSeq(line, (i - 1) * cols + 1, Min({i * cols, Len(line)}))]

\* The rows below the committed ones, laid out again without the blank ones at
\* the end.
Reflowed(v, cols) ==
  LET pieces == FlattenSeq([i \in 1..v.rows - v.committedRows |-> Split(Line(v, v.committedRows + i - 1), cols)])
      full == {i \in DOMAIN pieces : pieces[i] # <<>>}
  IN  IF full = {} THEN <<>> ELSE SubSeq(pieces, 1, Max(full))

Cell(lines, r, c) == IF r < Len(lines) /\ c < Len(lines[r + 1]) THEN lines[r + 1][c + 1] ELSE Blank

\* What does not fit goes into history, and the cursor moves with its line.
Resize(cols, rows) ==
  \E v \in {resolvePending(vt)} : \E lines \in {Reflowed(v, cols)} :
    LET excess == Max({0, Len(lines) - rows})
    IN  Keeps([appendHistoryLines(v, SubSeq(lines, 1, excess)) EXCEPT
          !.cols = cols, !.rows = rows, !.wrapPending = FALSE, !.committedRows = 0,
          !.screen = [r \in 0..rows - 1 |-> [c \in 0..cols - 1 |-> Cell(lines, r + excess, c)]],
          !.x = clamp(@, 0, cols - 1), !.y = clamp(@ - v.committedRows, 0, rows - 1)])

TerminalInit == \E s \in Sizes : vt = NewVT(s[1], s[2])

TerminalNext ==
  \/ \E w \in {1, 2} : print(w)
  \/ carriageReturn \/ backspace \/ lineFeed \/ tab
  \/ saveCursor \/ restoreCursorEsc \/ restoreCursor \/ reverseIndex \/ resetToInitial
  \/ \E n \in Numbers : cursorVertical(n) \/ cursorHorizontal(n) \/ scroll(n) \/ edit(n)
  \/ \E m, n \in Numbers : cursorPosition(m, n)
  \/ \E mode \in 0..2 : eraseInDisplay(mode) \/ eraseInLine(mode)
  \/ Flush
  \/ \E s \in Sizes : Resize(s[1], s[2])

TerminalSpec == TerminalInit /\ [][TerminalNext]_vt

-----------------------------------------------------------------------------

\* The cursor never leaves the screen, whatever numbers and sizes arrive: the
\* next rune would be written outside it (clamp, Resize).
CursorOnScreen == vt.x \in 0..vt.cols - 1 /\ vt.y \in 0..vt.rows - 1

\* A committed row is blank, and so is one whose erase is pending: each is
\* rendered from one place only (commitPrefix, setPendingErase).
LoggedIsBlank ==
  /\ vt.committedRows \in 0..vt.rows
  /\ \A r \in 0..vt.committedRows - 1 : Line(vt, r) = <<>>
  /\ vt.pendingRow # NoRow => Line(vt, vt.pendingRow) = <<>> /\ vt.pendingText # <<>>

OmittedLines(v) == Max({0, v.dropped - Len(v.head)})

\* The history part of Transcript; a marker stands for the lines omitted.
TranscriptHistory(v) ==
  IF v.dropped = 0 THEN v.history
  ELSE v.head \o SubSeq(v.history, Max({0, Len(v.head) - v.dropped}) + 1, Len(v.history))

\* The transcript has every line once, or the first ones and the last ones and
\* the number of those between (appendHistoryLines, Transcript, OmittedLines).
HistoryIsWhole ==
  LET n == Len(vt.log)
      t == TranscriptHistory(vt)
  IN  /\ n = Len(t) + OmittedLines(vt)
      /\ IF n <= 2 * MaxHistory THEN t = vt.log
         ELSE t = SubSeq(vt.log, 1, MaxHistory) \o SubSeq(vt.log, n - MaxHistory + 1, n)

\* A clear, a scroll, a resize and a move of the cursor take nothing from the
\* transcript, and change neither the order nor the number of times that
\* anything is in it (pushRowsToHistory, resolvePending, Resize), but for an
\* erase the cursor has left by CSI u.
ClearsKeep == ~vt.lost

\* What the emulator keeps for any input.
TerminalHolds == CursorOnScreen /\ LoggedIsBlank /\ HistoryIsWhole /\ ClearsKeep

\* What the code says of pendingRow: "every way the cursor leaves a row goes
\* through advanceLine or moveCursorY".
PendingIsUnderCursor == vt.pendingRow \in {NoRow, vt.y}
=============================================================================
