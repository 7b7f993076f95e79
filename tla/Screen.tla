------------------------------- MODULE Screen -------------------------------
(***************************************************************************)
(* The text screen (drivers/screen.c): a log of rows longer than the       *)
(* display, a cursor in it, a view onto it that is copied to video memory, *)
(* and a parser that takes colours from escape sequences.  The screen is a *)
(* record, and each function of screen.c an operator from the screen       *)
(* before to the screen after.                                             *)
(*                                                                         *)
(* The mouse cursor is no more than a place of the display whose cell is   *)
(* shown with its colour inverted.                                         *)
(*                                                                         *)
(* Left out: the background colour, which nothing changes.                 *)
(***************************************************************************)
EXTENDS Integers, SequencesExt, ControlChars

CONSTANTS
  MaxRows, MaxCols,    \* MAX_ROWS, MAX_COLS: the display
  MaxLog,              \* MAX_LOG: rows that are kept
  CarriageReturn, Esc, Bracket,
  Semicolon, EndOfSgr, \* and `m`
  NumberOf,            \* what a digit stands for; a number may be one character
  EscBufLen,           \* sizeof(esc_buf)
  MouseCellX, MouseCellY,  \* where the mouse cursor begins
  Blank

ASSUME ScreenAssumption ==
  /\ MaxRows \in Nat \ {0} /\ MaxCols \in Nat \ {0}
  /\ MaxLog \in Nat /\ MaxLog >= MaxRows
  /\ EscBufLen \in Nat \ {0}
  /\ MouseCellX \in 0 .. MaxCols - 1 /\ MouseCellY \in 0 .. MaxRows - 1
  /\ NumberOf \in [DOMAIN NumberOf -> Nat]
  /\ EndOfSgr \notin DOMAIN NumberOf \cup {Semicolon}

LogRows == 0 .. MaxLog - 1
Columns == 0 .. MaxCols - 1
ViewRows == 0 .. MaxRows - 1
Grey == 7            \* the colour to begin with, and after a reset
Bright == 8

(* The static variables as the kernel is started.                           *)
PowerOn ==
  LET row == [x \in Columns |-> [char |-> Blank, attr |-> 0]] IN
  [lines |-> [r \in LogRows |-> row], vm |-> [r \in ViewRows |-> row],
   cur_row |-> 0, cur_col |-> 0, scroll_off |-> 0,
   current_attr |-> Grey, ansi_bold |-> FALSE, esc_state |-> 0, esc_buf |-> <<>>,
   mouse |-> [visible |-> FALSE, x |-> MouseCellX, y |-> MouseCellY]]

(* make_cell, ensure_row_blank                                              *)
Cell(s, c) == [char |-> c, attr |-> s.current_attr]
BlankRow(s) == [x \in Columns |-> Cell(s, Blank)]

UnderMouse(s, r, x) == s.mouse.visible /\ r = s.mouse.y /\ x = s.mouse.x
Inverted(cell) == [cell EXCEPT !.attr = 15 - @]

(* screen_redraw_hw                                                         *)
Redraw(s) ==
  LET row(r) == IF s.scroll_off + r \in LogRows THEN s.lines[s.scroll_off + r]
                ELSE BlankRow(s)
  IN  [s EXCEPT !.vm = [r \in ViewRows |-> [x \in Columns |->
         IF UnderMouse(s, r, x) THEN Inverted(row(r)[x]) ELSE row(r)[x]]]]

(* clear_screen                                                             *)
ClearScreen(s) ==
  LET row == [x \in Columns |-> [char |-> Blank, attr |-> Grey]] IN
  Redraw([s EXCEPT !.current_attr = Grey, !.ansi_bold = FALSE,
                   !.esc_state = 0, !.esc_buf = <<>>,
                   !.cur_row = 0, !.cur_col = 0, !.scroll_off = 0,
                   !.lines = [r \in LogRows |-> row]])

(* screen_mouse_set_cell                                                    *)
OntoDisplay(v, size) == IF v < 0 THEN 0 ELSE IF v >= size THEN size - 1 ELSE v
ScreenMouseSetCell(s, x, y) ==
  Redraw([s EXCEPT !.mouse = [visible |-> TRUE, x |-> OntoDisplay(x, MaxCols),
                              y |-> OntoDisplay(y, MaxRows)]])

MaxScroll(s) == IF s.cur_row < MaxRows THEN 0 ELSE s.cur_row - (MaxRows - 1)

ClampScroll(s) ==
  [s EXCEPT !.scroll_off = IF @ < 0 THEN 0
                           ELSE IF @ > MaxScroll(s) THEN MaxScroll(s)
                           ELSE @]

(* The definitions called Mutant... are no part of the model: each stands   *)
(* for a plausible bug in the definition that follows it, and shows, put in *)
(* its place, that a property notices.                                      *)
(* Here: the view stays where it was.                                       *)
MutantFollowCursor(s) == ClampScroll(s)

FollowCursor(s) ==
  ClampScroll([s EXCEPT !.scroll_off =
    IF s.cur_row >= @ + MaxRows THEN s.cur_row - (MaxRows - 1) ELSE @])

(* A full log drops its first row.                                          *)
NextRow(s) ==
  IF s.cur_row + 1 < MaxLog
  THEN [s EXCEPT !.cur_col = 0, !.cur_row = @ + 1,
                 !.lines[s.cur_row + 1] = BlankRow(s)]
  ELSE [s EXCEPT !.cur_col = 0, !.cur_row = MaxLog - 1,
                 !.lines = [r \in LogRows |-> IF r = MaxLog - 1 THEN BlankRow(s)
                                              ELSE @[r + 1]]]

AdvanceRow(s) == FollowCursor(NextRow(s))

(* Mistakes: a character backspaced over stays; backspace stops at the left *)
(* edge of the screen.                                                      *)
MutantEraseBack(s) ==
  IF s.cur_col > 0 THEN [s EXCEPT !.cur_col = @ - 1]
  ELSE IF s.cur_row > 0
       THEN [s EXCEPT !.cur_row = @ - 1, !.cur_col = MaxCols - 1]
       ELSE s
MutantEraseInRow(s) ==
  IF s.cur_col > 0
  THEN [s EXCEPT !.cur_col = @ - 1, !.lines[s.cur_row][s.cur_col - 1] = Cell(s, Blank)]
  ELSE s

EraseBack(s) ==
  IF s.cur_col > 0
  THEN [s EXCEPT !.cur_col = @ - 1, !.lines[s.cur_row][s.cur_col - 1] = Cell(s, Blank)]
  ELSE IF s.cur_row > 0
  THEN [s EXCEPT !.cur_row = @ - 1, !.cur_col = MaxCols - 1,
                 !.lines[s.cur_row - 1][MaxCols - 1] = Cell(s, Blank)]
  ELSE s

PutCell(s, c) ==
  LET t == [s EXCEPT !.lines[s.cur_row][s.cur_col] = Cell(s, c),
                     !.cur_col = @ + 1]
  IN  FollowCursor(IF t.cur_col >= MaxCols THEN AdvanceRow(t) ELSE t)

PutPlain(s, c) ==
  Redraw(CASE c = Newline -> AdvanceRow(s)
           [] c = Backspace -> EraseBack(s)
           [] c = CarriageReturn -> [s EXCEPT !.cur_col = 0]
           [] OTHER -> PutCell(s, c))

-----------------------------------------------------------------------------
(* apply_sgr_token                                                          *)
ApplySgr(s, code) ==
  CASE code = 0 -> [s EXCEPT !.current_attr = Grey, !.ansi_bold = FALSE]
    [] code = 1 -> [s EXCEPT !.ansi_bold = TRUE]
    [] code = 22 -> [s EXCEPT !.ansi_bold = FALSE]
    [] code = 39 -> [s EXCEPT !.current_attr = Grey]
    [] code \in 30 .. 37 ->
         [s EXCEPT !.current_attr = code - 30 + (IF s.ansi_bold THEN Bright ELSE 0)]
    [] code \in 90 .. 97 -> [s EXCEPT !.current_attr = code - 90 + Bright]
    [] OTHER -> s

(* flush_esc_sequence: a semicolon ends a number, which is 0 without any    *)
(* digits, but at the very end there need be none.                          *)
TakeEsc(t, c) ==
  IF c = Semicolon
  THEN [screen |-> ApplySgr(t.screen, t.n), n |-> 0, open |-> FALSE]
  ELSE [t EXCEPT !.n = @ * 10 + NumberOf[c], !.open = TRUE]

FlushEsc(s) ==
  LET all == FoldLeft(TakeEsc, [screen |-> s, n |-> 0, open |-> FALSE], s.esc_buf)
  IN  [(IF all.open THEN ApplySgr(all.screen, all.n) ELSE all.screen)
         EXCEPT !.esc_buf = <<>>, !.esc_state = 0]

(* putchar inside an escape sequence, of which nothing is printed.          *)
PutEscaped(s, c) ==
  CASE s.esc_state = 1 -> [s EXCEPT !.esc_state = IF c = Bracket THEN 2 ELSE 0]
    [] s.esc_state = 2 /\ c \in DOMAIN NumberOf \cup {Semicolon} ->
         IF Len(s.esc_buf) < EscBufLen - 1 THEN [s EXCEPT !.esc_buf = Append(@, c)]
         ELSE s
    [] s.esc_state = 2 /\ c = EndOfSgr -> Redraw(FlushEsc(s))
    [] OTHER -> [s EXCEPT !.esc_state = 0, !.esc_buf = <<>>]

PutChar(s, c) ==
  CASE s.esc_state # 0 -> PutEscaped(s, c)
    [] s.esc_state = 0 /\ c = Esc -> [s EXCEPT !.esc_state = 1, !.esc_buf = <<>>]
    [] OTHER -> PutPlain(s, c)

(* print                                                                    *)
PrintStr(s, str) == FoldLeft(PutChar, s, str)

(* Mistake: the view is moved and not redrawn.                              *)
MutantScrollView(s, delta) == ClampScroll([s EXCEPT !.scroll_off = @ + delta])

(* screen_scroll_view                                                       *)
ScrollView(s, delta) == Redraw(ClampScroll([s EXCEPT !.scroll_off = @ + delta]))
=============================================================================
