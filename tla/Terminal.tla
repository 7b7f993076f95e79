------------------------------ MODULE Terminal ------------------------------
(***************************************************************************)
(* What a person sees: the console of console.c and kernel_shell.c with    *)
(* its echo on the screen of screen.c.                                     *)
(*                                                                         *)
(* After Enter the console prints some messages, of which only the shape   *)
(* counts, and the prompt of the state it is in.                           *)
(***************************************************************************)
EXTENDS LineEditor, Screen

CONSTANTS
  Banner,          \* what show_boot_banner prints
  Greeting,        \* what console_init prints before the first prompt
  Messages,        \* what may be printed between Enter and the next prompt
  Prompt,          \* a prompt, with its escape sequences
  PromptShown,     \* and the characters it leaves on the screen
  Star             \* what the gate shows for a character of the PIN

(* A full line is shorter than the display without its last row.  The keymap*)
(* has no carriage return, and what the kernel prints has neither that nor  *)
(* a backspace.  A prompt has a place where it is seen whatever was printed *)
(* before: the first of two characters ends any escape sequence.            *)
ASSUME TerminalAssumption ==
  /\ \A len \in {GateLineLen, ShellLineLen} : len - 1 <= (MaxRows - 1) * MaxCols
  /\ CarriageReturn \notin Chars \cup {Newline, Backspace, Star}
  /\ Star \notin {Esc, Newline, Backspace}
  /\ \A text \in Messages \cup {Banner, Greeting, Prompt} :
       text \in Seq(ToSet(text)) /\ ToSet(text) \cap {CarriageReturn, Backspace} = {}
  /\ \E k \in 1 .. Len(Prompt) - 1 :
       {Prompt[k], Prompt[k + 1]} \cap
         (DOMAIN NumberOf \cup {Semicolon, Bracket, Esc}) = {}

(* What a text on one row looks like: a pen takes the escape sequences, the *)
(* rest is written with it.                                                 *)
Write(t, c) ==
  IF t.pen.esc_state # 0 \/ c = Esc
  THEN [t EXCEPT !.pen = PutChar(@, c)]
  ELSE [t EXCEPT !.shown = Append(@, Cell(t.pen, c))]
Pen(attr, bold) == [PowerOn EXCEPT !.current_attr = attr, !.ansi_bold = bold]
Written(pen, text) == FoldLeft(Write, [pen |-> pen, shown |-> <<>>], text)
Spelled(cells) == [k \in DOMAIN cells |-> cells[k].char]

(* A prompt is one row, reads the same whatever colour was left on, and     *)
(* leaves none; with a full line it is shorter than the log without its     *)
(* last row.  Every message ends its last row, the greeting too.            *)
ASSUME PromptAssumption ==
  /\ Newline \notin ToSet(Prompt)
  /\ \A attr \in 0 .. 15, bold \in BOOLEAN :
       LET t == Written(Pen(attr, bold), Prompt) IN
       /\ Spelled(t.shown) = PromptShown
       /\ t.pen.esc_state = 0 /\ t.pen.current_attr = Grey /\ ~t.pen.ansi_bold
  /\ \A len \in {GateLineLen, ShellLineLen} :
       Len(PromptShown) + len - 1 <= (MaxLog - 1) * MaxCols
  /\ \A said \in Messages : said = <<>> \/ Last(said) = Newline
  /\ Greeting # <<>> /\ Last(Greeting) = Newline
  /\ Newline \notin DOMAIN NumberOf \cup {Semicolon, Bracket, Esc}

VARIABLE screen
terminalVars == <<editorVars, screen>>

ActiveLine == IF con_state = "SHELL" THEN shell_line ELSE gate_line

(* The screen at the end of mouse_init, which shows the mouse cursor.  The  *)
(* mouse cannot move it: no mouse interrupt ever comes (module Kernel).     *)
ScreenAtBoot ==
  ScreenMouseSetCell(PrintStr(ClearScreen(PowerOn), Banner), MouseCellX, MouseCellY)

(* kernel_main; it ends with console_init.                                  *)
TerminalInit ==
  /\ EditorInit
  /\ screen = PrintStr(PrintStr(ScreenAtBoot, Greeting), Prompt)

(* Enter: a newline, the messages of handle_pin_line, handle_gate_line or   *)
(* a command, and the prompt.  The command safa clears the screen.          *)
EchoEnter ==
  \E said \in Messages :
    LET answer == IF con_state' = "LOCKOUT" THEN said ELSE said \o Prompt IN
    \/ screen' = PrintStr(screen, <<Newline>> \o answer)
    \/ con_state = "SHELL" /\ con_state' = "SHELL"
       /\ screen' = PrintStr(ClearScreen(screen), Prompt)

Echoed(c) == IF con_state = "PIN" THEN Star ELSE c

(* A character is echoed if it was taken, a backspace if there was          *)
(* something to take back.                                                  *)
Echo(c) ==
  \/ c = Newline /\ EchoEnter
  \/ /\ c = Backspace
     /\ screen' = IF ActiveLine = <<>> THEN screen ELSE PutChar(screen, Backspace)
  \/ /\ c \in Chars
     /\ screen' = IF Len(ActiveLine') > Len(ActiveLine)
                  THEN PutChar(screen, Echoed(c)) ELSE screen

TypeKey == \E c \in Keys : con_state # "LOCKOUT" /\ EditorKey(c) /\ Echo(c)

(* console_on_extended_scancode: the arrow keys.                            *)
ScrollKey ==
  /\ con_state # "LOCKOUT"
  /\ \E delta \in {-1, 1} : screen' = ScrollView(screen, delta)
  /\ UNCHANGED editorVars

TerminalNext == TypeKey \/ ScrollKey

TerminalSpec == TerminalInit /\ [][TerminalNext]_terminalVars

-----------------------------------------------------------------------------
Cursor == screen.cur_row * MaxCols + screen.cur_col
CellAt(p) == screen.lines[p \div MaxCols][p % MaxCols]
CellsBefore(n) == [k \in 1 .. n |-> CellAt(Cursor - n + k - 1)]

Shown(line) ==
  [k \in DOMAIN line |-> [char |-> Echoed(line[k]), attr |-> Grey]]

(* What stands in front of the cursor is the prompt and the line that Enter *)
(* will act on, across row ends and when the log is full, after any number  *)
(* of backspaces, and the line is in the ordinary colour whatever was       *)
(* printed before: the two line editors and the screen never get out of     *)
(* step.  But for the Esc key, whose echo starts an escape sequence: until  *)
(* the next Enter, the screen shows less than the line holds.               *)
LineOnScreen ==
  con_state # "LOCKOUT" /\ Esc \notin ToSet(typed) =>
    LET line == Shown(ActiveLine)
        width == Len(PromptShown) + Len(line)
    IN
    /\ screen.esc_state = 0
    /\ Cursor >= width
    /\ Spelled(CellsBefore(width)) = PromptShown \o Spelled(line)
    /\ CellsBefore(Len(line)) = line
    /\ screen.current_attr = Grey /\ ~screen.ansi_bold

(* Nothing is left behind: from the cursor on the log is blank, the screen  *)
(* never shows text that was taken back or that a row scrolled away.        *)
NothingAfterCursor ==
  \A p \in Cursor .. MaxLog * MaxCols - 1 : CellAt(p).char = Blank

(* What the display shows of a cell of the log: the mouse cursor is the     *)
(* inverted cell at its place, where it has been since the boot.            *)
Displayed(cell, r, x) ==
  IF r = MouseCellY /\ x = MouseCellX THEN Inverted(cell) ELSE cell

(* Video memory is the part of the log in view, with the mouse cursor drawn *)
(* into it once: no function that changes log, view or mouse cursor leaves  *)
(* the display behind, inverts the cell under the cursor a second time or   *)
(* loses the cursor, and none lets it into the log, where it would scroll   *)
(* away with the text.  The view stays within the log and does not lie past *)
(* the cursor, although a backspace may take the cursor up a row without    *)
(* moving the view.  But for the Esc key again: what it hides can be        *)
(* backspaced over: the prompt and the rows above it go, and nothing stops  *)
(* the cursor at the top of the view.                                       *)
VideoMatchesView ==
  /\ screen.scroll_off \in 0 .. MaxLog - MaxRows
  /\ \A r \in ViewRows, x \in Columns :
       screen.vm[r][x] = Displayed(screen.lines[screen.scroll_off + r][x], r, x)
VideoShowsView ==
  /\ VideoMatchesView
  /\ con_state # "LOCKOUT" /\ Esc \notin ToSet(typed) =>
       screen.scroll_off <= screen.cur_row

(* Whoever scrolled back sees what he types from the first character on:    *)
(* it is in video memory when the key has been handled, in the ordinary     *)
(* colour, or in its inverse if it is under the mouse cursor.               *)
TypingIsSeen ==
  [][\A c \in Chars :
       TypeKey /\ Esc \notin ToSet(typed') /\ typed' = Append(typed, c)
         /\ Len(ActiveLine') > Len(ActiveLine) =>
       LET p == Cursor' - 1
           row == (p \div MaxCols) - screen'.scroll_off
       IN  /\ row \in ViewRows
           /\ screen'.vm[row][p % MaxCols] =
                Displayed([char |-> Echoed(c), attr |-> Grey], row, p % MaxCols)
    ]_terminalVars
=============================================================================
