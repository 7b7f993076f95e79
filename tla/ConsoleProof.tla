---------------------------- MODULE ConsoleProof ----------------------------
(***************************************************************************)
(* The line buffers of the boot gate and of the shell never overflow, the  *)
(* editor without the keyboard is empty, and the lockout comes with the    *)
(* last wrong PIN: for every PIN, keyword, buffer size and number of       *)
(* attempts.  The conjunction of the three is inductive.                   *)
(*                                                                         *)
(* Both editors hold what was typed, edited: a fold over the keys, taken   *)
(* one key further at every step.  The screen stays a screen whatever is   *)
(* printed on it: indexes in range, the log blank from the cursor on,      *)
(* video memory equal to the log in view but for the cell under the mouse  *)
(* cursor, which is the log's inverted.  And the cursor stays in view,     *)
(* because the line and the screen together never owe more backspaces than *)
(* there are places between the cursor and the top of the view.            *)
(*                                                                         *)
(* What is typed is on the screen.  What a character looks like depends on *)
(* the colour and the parser alone, so a pen in the same colour and parser *)
(* state writes what the screen comes to show; each operation of the       *)
(* screen keeps the text in front of the cursor, adds to it, or takes its  *)
(* last character away, as the line editor does.                           *)
(***************************************************************************)
EXTENDS Terminal, Induction, TLAPS

(* MAX_PIN_FAILS is positive and counts up to the lockout only, so a step   *)
(* from the PIN prompt starts below it.                                     *)
IInv == ConsoleTypeOK /\ IdleEditorEmpty /\ LockoutMeansFails

(* A line that is typed into or backspaced stays a line that fits.          *)
LEMMA TypedFits ==
  ASSUME NEW line \in Seq(Chars), NEW c \in Chars, NEW limit \in Nat,
         Len(line) < limit
  PROVE  /\ Typed(line, c, limit) \in Seq(Chars)
         /\ Len(Typed(line, c, limit)) < limit
BY DEF Typed

LEMMA BackspacedFits ==
  ASSUME NEW line \in Seq(Chars), NEW limit \in Nat, Len(line) < limit,
         line # <<>>
  PROVE  /\ Backspaced(line) \in Seq(Chars)
         /\ Len(Backspaced(line)) < limit
<1>1. Len(line) \in Nat /\ Len(line) # 0
  OBVIOUS
<1>2. /\ Backspaced(line) \in Seq(Chars)
      /\ Len(Backspaced(line)) =
           IF 1 <= Len(line) - 1 THEN (Len(line) - 1) - 1 + 1 ELSE 0
  <2>1. \A i \in 1 .. Len(line) - 1 : line[i] \in Chars
    BY <1>1
  <2>. QED
    BY <1>1, <2>1, SubSeqProperties DEF Backspaced
<1>. QED
  BY <1>1, <1>2

LEMMA InitIInv == ConsoleInit => IInv
BY ConsoleAssumption
   DEF ConsoleInit, IInv, ConsoleTypeOK, IdleEditorEmpty, LockoutMeansFails,
       ConsoleState

(* A key at one of the two gate prompts.                                    *)
LEMMA GateKeyPreserves ==
  ASSUME IInv, con_state \in {"PIN", "GATE"}, NEW c \in Keys, GateKey(c)
  PROVE  IInv'
<1>. USE ConsoleAssumption
        
            DEF IInv, ConsoleTypeOK, IdleEditorEmpty, LockoutMeansFails, ConsoleState
<1>1. CASE c = Newline /\ con_state = "PIN" /\ AcceptPin
  BY <1>1 DEF AcceptPin
<1>2. CASE c = Newline /\ con_state = "PIN" /\ RejectPin
  <2>1. pin_fails \in Nat /\ pin_fails < MaxPinFails
    BY <1>2
  <2>2. CASE pin_fails + 1 >= MaxPinFails
    BY <1>2, <2>1, <2>2 DEF RejectPin
  <2>3. CASE ~(pin_fails + 1 >= MaxPinFails)
    BY <1>2, <2>1, <2>3 DEF RejectPin
  <2>. QED
    BY <2>2, <2>3
<1>3. CASE c = Newline /\ con_state = "GATE" /\ GateLine
  <2>1. CASE gate_line = Keyword
    BY <1>3, <2>1 DEF GateLine
  <2>2. CASE gate_line # Keyword
    BY <1>3, <2>2 DEF GateLine
  <2>. QED
    BY <2>1, <2>2
<1>4. CASE /\ c = Backspace
           /\ gate_line' = IF gate_line = <<>> THEN <<>> ELSE Backspaced(gate_line)
           /\ UNCHANGED <<con_state, pin_fails, shell_line>>
  <2>1. gate_line' \in Seq(Chars) /\ Len(gate_line') < GateLineLen
    BY <1>4, BackspacedFits
  <2>. QED
    BY <1>4, <2>1
<1>5. CASE /\ c \in Chars
           /\ gate_line' = Typed(gate_line, c, GateLineLen)
           /\ UNCHANGED <<con_state, pin_fails, shell_line>>
  <2>1. gate_line' \in Seq(Chars) /\ Len(gate_line') < GateLineLen
    BY <1>5, TypedFits
  <2>. QED
    BY <1>5, <2>1
<1>. QED
  BY <1>1, <1>2, <1>3, <1>4, <1>5 DEF GateKey

(* A key in the shell.                                                      *)
LEMMA ShellKeyPreserves ==
  ASSUME IInv, con_state = "SHELL", NEW c \in Keys, ShellKey(c)
  PROVE  IInv'
<1>. USE ConsoleAssumption
        
            DEF IInv, ConsoleTypeOK, IdleEditorEmpty, LockoutMeansFails, ConsoleState
<1>1. CASE /\ c = Newline
           /\ con_state' = IF shell_line \in ExitLines THEN "GATE" ELSE con_state
           /\ shell_line' = <<>>
  BY <1>1 DEF ShellKey
<1>2. CASE /\ c = Backspace
           /\ shell_line' = IF shell_line = <<>> THEN <<>> ELSE Backspaced(shell_line)
           /\ UNCHANGED con_state
  <2>1. shell_line' \in Seq(Chars) /\ Len(shell_line') < ShellLineLen
    BY <1>2, BackspacedFits
  <2>. QED
    BY <1>2, <2>1 DEF ShellKey
<1>3. CASE /\ c \in Chars
           /\ shell_line' = Typed(shell_line, c, ShellLineLen)
           /\ UNCHANGED con_state
  <2>1. shell_line' \in Seq(Chars) /\ Len(shell_line') < ShellLineLen
    BY <1>3, TypedFits
  <2>. QED
    BY <1>3, <2>1 DEF ShellKey
<1>. QED
  BY <1>1, <1>2, <1>3 DEF ShellKey

LEMMA NextPreservesIInv == IInv /\ [ConsoleNext]_consoleVars => IInv'
<1>. SUFFICES ASSUME IInv, [ConsoleNext]_consoleVars
              PROVE  IInv'
  OBVIOUS
<1>1. CASE UNCHANGED consoleVars
  BY <1>1
     DEF consoleVars, IInv, ConsoleTypeOK, IdleEditorEmpty, LockoutMeansFails
<1>2. CASE ConsoleNext
  <2>1. PICK c \in Keys : OnKey(c)
    BY <1>2 DEF ConsoleNext
  <2>2. CASE con_state = "LOCKOUT"
    BY <1>1, <2>1, <2>2 DEF OnKey
  <2>3. CASE con_state = "SHELL"
    BY <2>1, <2>3, ShellKeyPreserves DEF OnKey
  <2>4. CASE con_state \in {"PIN", "GATE"}
    BY <2>1, <2>4, GateKeyPreserves DEF OnKey
  <2>. QED
    BY <2>2, <2>3, <2>4 DEF IInv, ConsoleTypeOK, ConsoleState
<1>. QED
  BY <1>1, <1>2

(* The invariant of every behaviour of the console.                         *)
THEOREM SpecIInv == ConsoleSpec => []IInv
<1>. QED
  BY InitIInv, NextPreservesIInv, PTL DEF ConsoleSpec

(* Both buffers keep room for the terminating NUL, whatever is typed.       *)
THEOREM SpecConsoleTypeOK == ConsoleSpec => []ConsoleTypeOK
<1>1. IInv => ConsoleTypeOK
  BY DEF IInv
<1>. QED
  BY <1>1, SpecIInv, PTL

(* Nothing typed at one prompt turns up in the other editor's line.         *)
THEOREM SpecIdleEditorEmpty == ConsoleSpec => []IdleEditorEmpty
<1>1. IInv => IdleEditorEmpty
  BY DEF IInv
<1>. QED
  BY <1>1, SpecIInv, PTL

(* The console locks with the last attempt, and only then.                  *)
THEOREM SpecLockoutMeansFails == ConsoleSpec => []LockoutMeansFails
<1>1. IInv => LockoutMeansFails
  BY DEF IInv
<1>. QED
  BY <1>1, SpecIInv, PTL

(* The order of the prompts and the count of wrong PINs: at the PIN prompt  *)
(* only the right PIN and the lockout lead on, so the rest of GateOrder is  *)
(* about which handler a key reaches.                                       *)
THEOREM SpecGateOrder == ConsoleSpec => GateOrder
<1>1. ASSUME IInv, [ConsoleNext]_consoleVars
      PROVE  [/\ con_state = "LOCKOUT" => UNCHANGED consoleVars
              /\ con_state' = "SHELL" => con_state \in {"GATE", "SHELL"}
              /\ con_state # "PIN" => con_state' # "PIN"
              /\ pin_fails' >= pin_fails
              /\ pin_fails' # pin_fails => con_state = "PIN"]_consoleVars
  <2>1. CASE UNCHANGED consoleVars
    BY <2>1
  <2>2. ASSUME NEW c \in Keys, OnKey(c)
        PROVE  /\ con_state = "LOCKOUT" => UNCHANGED consoleVars
               /\ con_state' = "SHELL" => con_state \in {"GATE", "SHELL"}
               /\ con_state # "PIN" => con_state' # "PIN"
               /\ pin_fails' >= pin_fails
               /\ pin_fails' # pin_fails => con_state = "PIN"
    <3>1. pin_fails \in Nat /\ con_state \in ConsoleState
      BY <1>1, ConsoleAssumption DEF IInv, ConsoleTypeOK
    <3>2. CASE con_state = "LOCKOUT"
      BY <2>2, <3>1, <3>2 DEF OnKey, consoleVars
    <3>3. CASE con_state = "SHELL"
      BY <2>2, <3>1, <3>3 DEF OnKey, ShellKey
    <3>4. CASE con_state \in {"PIN", "GATE"}
      BY <2>2, <3>1, <3>4 DEF OnKey, GateKey, AcceptPin, RejectPin, GateLine
    <3>. QED
      BY <3>1, <3>2, <3>3, <3>4 DEF ConsoleState
  <2>. QED
    BY <1>1, <2>1, <2>2 DEF ConsoleNext
<1>. QED
  BY <1>1, SpecIInv, PTL DEF ConsoleSpec, GateOrder

-----------------------------------------------------------------------------
(* Edited, one key at a time.                                               *)
EditedKey(limit, line, c) ==
  IF c = Backspace THEN SubSeq(line, 1, Len(line) - 1)
  ELSE IF Len(line) < limit - 1 THEN Append(line, c) ELSE line

EditStep(limit, keys) ==
  [p \in Seq(Chars) \X (1 .. Len(keys)) |-> EditedKey(limit, p[1], keys[p[2]])]

TypedKeys == Chars \cup {Backspace}

LEMMA EditedKeyIsLine ==
  ASSUME NEW limit \in Nat, NEW line \in Seq(Chars), NEW c \in TypedKeys
  PROVE  EditedKey(limit, line, c) \in Seq(Chars)
<1>1. SubSeq(line, 1, Len(line) - 1) \in Seq(Chars)
  <2>1. \A i \in 1 .. Len(line) - 1 : line[i] \in Chars
    OBVIOUS
  <2>2. QED
    BY <2>1, SubSeqProperties
<1>2. QED
  BY <1>1 DEF EditedKey, TypedKeys

LEMMA EditedIsFold ==
  ASSUME NEW limit \in Nat, NEW keys \in Seq(TypedKeys)
  PROVE  \E f : /\ IsSeqFold(f, Len(keys), Seq(Chars), <<>>, EditStep(limit, keys))
               /\ Edited(keys, limit) = f[1 .. Len(keys)]
<1> DEFINE n == Len(keys)
           Eqn(g) == g = [s \in SUBSET DOMAIN keys |->
             IF s = {} THEN <<>>
             ELSE EditedKey(limit, g[s \ {Max(s)}], keys[Max(s)])]
           F == CHOOSE g : Eqn(g)
<1>1. n \in Nat /\ DOMAIN keys = 1 .. n
  OBVIOUS
<1>2. EditStep(limit, keys) \in [Seq(Chars) \X (1 .. n) -> Seq(Chars)]
  <2>1. ASSUME NEW p \in Seq(Chars) \X (1 .. n)
        PROVE  EditedKey(limit, p[1], keys[p[2]]) \in Seq(Chars)
    <3>1. p[1] \in Seq(Chars) /\ keys[p[2]] \in TypedKeys
      OBVIOUS
    <3>2. QED
      BY <3>1, EditedKeyIsLine, Zenon
  <2>2. QED
    BY <2>1, Zenon DEF EditStep
<1>3. PICK f : IsSeqFold(f, n, Seq(Chars), <<>>, EditStep(limit, keys))
  <2>1. <<>> \in Seq(Chars)
    OBVIOUS
  <2> HIDE DEF n
  <2>2. QED
    BY <1>1, <1>2, <2>1, SeqFoldExists, Zenon
<1>4. ASSUME NEW s \in SUBSET (1 .. n), s # {}
      PROVE  /\ Max(s) \in s /\ Max(s) \in 1 .. n /\ s \ {Max(s)} \in SUBSET (1 .. n)
             /\ f[s] = EditedKey(limit, f[s \ {Max(s)}], keys[Max(s)])
  <2>1. Max(s) \in s /\ Max(s) \in 1 .. n
    BY <1>1, <1>4, MaxOfIndices
  <2>2. f[s] = EditStep(limit, keys)[<<f[s \ {Max(s)}], Max(s)>>]
    BY <1>3, <1>4 DEF IsSeqFold
  <2>3. f[s \ {Max(s)}] \in Seq(Chars)
    BY <1>3 DEF IsSeqFold
  <2>4. QED
    BY <2>1, <2>2, <2>3 DEF EditStep
<1>5. f = [s \in SUBSET (1 .. n) |-> f[s]] /\ f[{}] = <<>>
  BY <1>3 DEF IsSeqFold
<1>6. Eqn(f)
  BY <1>1, <1>4, <1>5
<1>7. Eqn(F)
  BY <1>6, Zenon
<1>8. Edited(keys, limit) = F[DOMAIN keys]
  BY Zenon DEF Edited, FoldLeft, MapThenFoldSet, EditedKey
<1> HIDE DEF F
<1> DEFINE P == {s \in SUBSET (1 .. n) : F[s] = f[s]}
<1>9. {} \in P
  BY <1>1, <1>5, <1>7
<1>10. ASSUME NEW s \in SUBSET (1 .. n), s # {}, \A x \in s : s \ {x} \in P
       PROVE  s \in P
  <2>1. F[s] = EditedKey(limit, F[s \ {Max(s)}], keys[Max(s)])
    BY <1>1, <1>7, <1>10
  <2>2. F[s \ {Max(s)}] = f[s \ {Max(s)}]
    BY <1>4, <1>10
  <2>3. QED
    BY <1>4, <1>10, <2>1, <2>2
<1> HIDE DEF P
<1>11. \A s \in SUBSET (1 .. n) : s \in P
  <2>1. IsFiniteSet(1 .. n)
    BY <1>1, FS_Interval
  <2>2. QED
    BY <1>9, <1>10, <2>1, InductionOnSubsets, Zenon
<1>12. F[1 .. n] = f[1 .. n]
  BY <1>11 DEF P
<1>13. QED
  BY <1>1, <1>3, <1>8, <1>12

LEMMA EditedEmpty ==
  ASSUME NEW limit \in Nat
  PROVE  Edited(<<>>, limit) = <<>>
<1>1. <<>> \in Seq(TypedKeys) /\ Len(<<>>) = 0 /\ 1 .. 0 = {}
  OBVIOUS
<1>2. PICK f : /\ IsSeqFold(f, Len(<<>>), Seq(Chars), <<>>, EditStep(limit, <<>>))
               /\ Edited(<<>>, limit) = f[1 .. Len(<<>>)]
  BY <1>1, EditedIsFold, Zenon
<1>3. QED
  BY <1>1, <1>2 DEF IsSeqFold

LEMMA EditedAppend ==
  ASSUME NEW limit \in Nat, NEW keys \in Seq(TypedKeys), NEW c \in TypedKeys
  PROVE  /\ Edited(keys, limit) \in Seq(Chars)
         /\ Edited(Append(keys, c), limit) = EditedKey(limit, Edited(keys, limit), c)
<1>1. PICK n \in Nat : n = Len(keys)
  OBVIOUS
<1>2. PICK more \in Seq(TypedKeys) :
        /\ more = Append(keys, c) /\ Len(more) = n + 1 /\ more[n + 1] = c
        /\ \A i \in 1 .. n : more[i] = keys[i]
  <2>1. /\ Append(keys, c) \in Seq(TypedKeys)
        /\ Len(Append(keys, c)) = Len(keys) + 1
        /\ Append(keys, c)[Len(keys) + 1] = c
        /\ \A i \in 1 .. Len(keys) : Append(keys, c)[i] = keys[i]
    BY AppendProperties
  <2>2. QED
    BY <1>1, <2>1
<1>3. PICK f : /\ IsSeqFold(f, n, Seq(Chars), <<>>, EditStep(limit, keys))
               /\ Edited(keys, limit) = f[1 .. n]
  BY <1>1, EditedIsFold, Zenon
<1>4. PICK g : /\ IsSeqFold(g, n + 1, Seq(Chars), <<>>, EditStep(limit, more))
               /\ Edited(more, limit) = g[1 .. (n + 1)]
  <2>1. PICK g : /\ IsSeqFold(g, Len(more), Seq(Chars), <<>>, EditStep(limit, more))
                 /\ Edited(more, limit) = g[1 .. Len(more)]
    BY <1>2, EditedIsFold, Zenon
  <2>2. QED
    BY <1>2, <2>1
<1>5. f[1 .. n] \in Seq(Chars)
  BY <1>3 DEF IsSeqFold
<1>6. StepsAgree(EditStep(limit, keys), EditStep(limit, more), Seq(Chars), n)
  BY <1>1, <1>2 DEF StepsAgree, EditStep
<1>7. g[1 .. (n + 1)] = EditStep(limit, more)[<<f[1 .. n], n + 1>>]
  BY <1>3, <1>4, <1>6, SeqFoldExtends
<1>8. EditStep(limit, more)[<<f[1 .. n], n + 1>>] = EditedKey(limit, f[1 .. n], c)
  BY <1>2, <1>5 DEF EditStep
<1>9. QED
  BY <1>2, <1>3, <1>4, <1>5, <1>7, <1>8

-----------------------------------------------------------------------------
(* Enter empties the active buffer, and the buffer of the editor that gets  *)
(* the keyboard was empty before: every other key edits as Edited does.     *)
EditInv == IInv /\ typed \in Seq(TypedKeys) /\ LineIsEdited

LEMMA EditorInitEdited == EditorInit => EditInv
<1> SUFFICES ASSUME EditorInit PROVE EditInv
  OBVIOUS
<1>1. IInv
  BY InitIInv DEF EditorInit
<1>2. typed = <<>> /\ gate_line = <<>> /\ con_state = "PIN"
  BY DEF EditorInit, ConsoleInit
<1>3. Edited(<<>>, GateLineLen) = <<>>
  BY EditedEmpty, ConsoleAssumption
<1>4. QED
  BY <1>1, <1>2, <1>3 DEF EditInv, LineIsEdited

LEMMA EditorKeyEdits ==
  ASSUME EditInv, con_state # "LOCKOUT", NEW c \in Keys, EditorKey(c)
  PROVE  EditInv'
<1> USE ConsoleAssumption, ControlCharsDiffer
<1>1. IInv'
  BY NextPreservesIInv DEF EditInv, EditorKey, ConsoleNext
<1>2. OnKey(c) /\ con_state \in {"PIN", "GATE", "SHELL"}
  BY DEF EditorKey, EditInv, IInv, ConsoleTypeOK, ConsoleState
<1>3. CASE c = Newline
  <2>1. typed' = <<>>
    BY <1>3 DEF EditorKey
  <2>2. con_state' \in {"PIN", "GATE"} => gate_line' = <<>>
    BY <1>2, <1>3
    DEF EditInv, IInv, IdleEditorEmpty, OnKey, ShellKey, GateKey, AcceptPin,
        RejectPin, GateLine
  <2>3. con_state' = "SHELL" => shell_line' = <<>>
    BY <1>2, <1>3
    DEF EditInv, IInv, IdleEditorEmpty, OnKey, ShellKey, GateKey, AcceptPin,
        RejectPin, GateLine
  <2>4. Edited(<<>>, GateLineLen) = <<>> /\ Edited(<<>>, ShellLineLen) = <<>>
    BY EditedEmpty
  <2>5. QED
    BY <1>1, <2>1, <2>2, <2>3, <2>4 DEF EditInv, LineIsEdited
<1>4. CASE c # Newline
  <2>1. c \in TypedKeys /\ typed \in Seq(TypedKeys) /\ typed' = Append(typed, c)
    BY <1>4 DEF EditorKey, EditInv, Keys, TypedKeys
  <2>2. \A limit \in Nat :
          Edited(typed', limit) = EditedKey(limit, Edited(typed, limit), c)
    BY <2>1, EditedAppend
  <2>3. con_state' = con_state
    BY <1>2, <1>4 DEF OnKey, ShellKey, GateKey
  <2>4. CASE con_state \in {"PIN", "GATE"}
    <3>1. gate_line' = EditedKey(GateLineLen, gate_line, c)
      BY <1>2, <1>4, <2>4
     
         DEF OnKey, GateKey, EditedKey, Typed, Backspaced, EditInv, IInv, ConsoleTypeOK
    <3>2. QED
      BY <1>1, <2>1, <2>2, <2>3, <2>4, <3>1 DEF EditInv, LineIsEdited
  <2>5. CASE con_state = "SHELL"
    <3>1. shell_line' = EditedKey(ShellLineLen, shell_line, c)
      BY <1>2, <1>4, <2>5
     
         DEF OnKey, ShellKey, EditedKey, Typed, Backspaced, EditInv, IInv, ConsoleTypeOK
    <3>2. QED
      BY <1>1, <2>1, <2>2, <2>3, <2>5, <3>1 DEF EditInv, LineIsEdited
  <2>6. QED
    BY <1>2, <2>4, <2>5
<1>5. QED
  BY <1>3, <1>4

LEMMA TerminalKeepsEdited == EditInv /\ [TerminalNext]_terminalVars => EditInv'
<1> SUFFICES ASSUME EditInv, [TerminalNext]_terminalVars PROVE EditInv'
  OBVIOUS
<1>1. CASE UNCHANGED editorVars
  BY <1>1
     DEF editorVars, consoleVars, EditInv, IInv, ConsoleTypeOK, IdleEditorEmpty,
              LockoutMeansFails, LineIsEdited
<1>2. CASE TypeKey
  BY <1>2, EditorKeyEdits DEF TypeKey
<1>3. QED
  BY <1>1, <1>2 DEF TerminalNext, ScrollKey, terminalVars

(* The line buffers hold what was typed since the last Enter, edited, at    *)
(* every prompt and across all changes of prompt: console.c and             *)
(* kernel_shell.c edit alike and neither loses or keeps a key.              *)
THEOREM SpecLineIsEdited == TerminalSpec => []LineIsEdited
<1>1. TerminalInit => EditInv
  BY EditorInitEdited DEF TerminalInit
<1>2. EditInv => LineIsEdited
  BY DEF EditInv
<1>3. QED
  BY <1>1, <1>2, TerminalKeepsEdited, PTL DEF TerminalSpec
-----------------------------------------------------------------------------
(* The screen (screen.c).  A draft is the screen inside putchar: every index*)
(* is in its range, but for a column that has just left the row, and from   *)
(* the cursor on the log is blank.  Between two characters the column is in *)
(* its row and video memory shows the log from scroll_off on, and the mouse *)
(* cursor if that is on.                                                    *)
TextChars == Chars \cup {Newline, Backspace, Star, Blank}
                   \cup UNION {ToSet(text) : text \in Messages \cup {Banner, Greeting, Prompt}}
Cells == [char : TextChars, attr : 0 .. 15]
Grid(R) == [R -> [Columns -> Cells]]
EscChars == DOMAIN NumberOf \cup {Semicolon}
Scrolls == 0 .. MaxLog - MaxRows

BlankFrom(lines, row, col) ==
  \A r \in LogRows, x \in Columns :
    r > row \/ (r = row /\ x >= col) => lines[r][x].char = Blank

DraftFields ==
  [lines : Grid(LogRows), vm : Grid(ViewRows),
   cur_row : LogRows, cur_col : 0 .. MaxCols, scroll_off : Scrolls,
   current_attr : 0 .. 15, ansi_bold : BOOLEAN, esc_state : 0 .. 2,
   esc_buf : Seq(EscChars),
   mouse : [visible : BOOLEAN, x : Columns, y : ViewRows]]
Drafts ==
  {s \in DraftFields :
     /\ Len(s.esc_buf) < EscBufLen
     /\ BlankFrom(s.lines, s.cur_row, s.cur_col)}

InRow(s) == s.cur_col < MaxCols
UnderCursor(s, r, x, cell) == IF UnderMouse(s, r, x) THEN Inverted(cell) ELSE cell
InView(s) ==
  \A r \in ViewRows, x \in Columns :
    s.vm[r][x] = UnderCursor(s, r, x, s.lines[s.scroll_off + r][x])
Screens == {s \in Drafts : InRow(s) /\ InView(s)}

(* The screens with the log, the cursors and the view of s.                 *)
Placed(s) == {t \in Screens : /\ t.cur_row = s.cur_row /\ t.cur_col = s.cur_col
                              /\ t.scroll_off = s.scroll_off /\ t.lines = s.lines
                              /\ t.mouse = s.mouse}

(* There is room for n characters to be taken back before the cursor leaves *)
(* the view at its top, which matters unless the view is the first.         *)
Place(s) == s.cur_row * MaxCols + s.cur_col
Room(s, n) == s.scroll_off = 0 \/ s.scroll_off * MaxCols + n <= Place(s)
Roomy(s) == Room(s, (MaxRows - 1) * MaxCols)

LEMMA ProductGrows ==
  ASSUME NEW a \in Nat, NEW b \in Nat, NEW m \in Nat, a <= b
  PROVE  a * m <= b * m
<1>1. PICK k \in Nat : b = a + k
  <2>1. b - a \in Nat /\ b = a + (b - a)
    OBVIOUS
  <2>2. QED
    BY <2>1
<1>2. b * m = a * m + k * m
  BY <1>1
<1>3. k * m \in Nat /\ a * m \in Nat
  OBVIOUS
<1>4. QED
  BY <1>2, <1>3

LEMMA ScreenNumbers ==
  /\ MaxRows \in Nat \ {0} /\ MaxCols \in Nat \ {0} /\ MaxLog \in Nat \ {0}
  /\ MaxLog >= MaxRows /\ EscBufLen \in Nat \ {0}
  /\ \A v \in Scrolls, r \in ViewRows : v + r \in LogRows
  /\ 0 \in Scrolls /\ 0 \in LogRows /\ 0 \in Columns /\ Grey \in 0 .. 15
BY ScreenAssumption DEF Scrolls, ViewRows, LogRows, Columns, Grey

LEMMA MouseInDisplay == MouseCellX \in Columns /\ MouseCellY \in ViewRows
BY ScreenAssumption DEF Columns, ViewRows

LEMMA BlankCells ==
  ASSUME NEW s \in Drafts, NEW c \in TextChars
  PROVE  /\ Cell(s, c) \in Cells /\ Cell(s, c).char = c
         /\ BlankRow(s) \in [Columns -> Cells]
         /\ \A x \in Columns : BlankRow(s)[x].char = Blank
<1>1. s.current_attr \in 0 .. 15 /\ Blank \in TextChars
  BY DEF Drafts, DraftFields, TextChars
<1>2. QED
  BY <1>1 DEF Cell, BlankRow, Cells

(* The screen to begin with.                                                *)
LEMMA PowerOnIsScreen == PowerOn \in Screens /\ PowerOn.esc_state = 0
<1> USE ScreenNumbers
<1>1. PICK row : row = [x \in Columns |-> [char |-> Blank, attr |-> 0]]
  OBVIOUS
<1>2. /\ row \in [Columns -> Cells]
      /\ \A x \in Columns : row[x].char = Blank
  BY <1>1 DEF Cells, TextChars
<1>3. PICK m \in [visible : BOOLEAN, x : Columns, y : ViewRows] :
        m = [visible |-> FALSE, x |-> MouseCellX, y |-> MouseCellY]
  BY MouseInDisplay
<1>4. PowerOn = [lines |-> [r \in LogRows |-> row], vm |-> [r \in ViewRows |-> row],
        cur_row |-> 0, cur_col |-> 0, scroll_off |-> 0,
        current_attr |-> Grey, ansi_bold |-> FALSE, esc_state |-> 0, esc_buf |-> <<>>,
        mouse |-> m]
  BY <1>1, <1>3 DEF PowerOn
<1>5. PowerOn \in Drafts
  BY <1>2, <1>4 DEF Drafts, DraftFields, Grid, BlankFrom
<1>6. \A r, x : ~UnderMouse(PowerOn, r, x)
  BY <1>3, <1>4 DEF UnderMouse
<1>7. /\ PowerOn.cur_col = 0 /\ PowerOn.scroll_off = 0 /\ PowerOn.esc_state = 0
      /\ PowerOn.vm = [r \in ViewRows |-> row]
      /\ PowerOn.lines = [r \in LogRows |-> row]
  BY <1>4
<1>8. ASSUME NEW r \in ViewRows, NEW x \in Columns
      PROVE  PowerOn.vm[r][x] =
               UnderCursor(PowerOn, r, x, PowerOn.lines[PowerOn.scroll_off + r][x])
  <2>1. 0 + r \in LogRows
    OBVIOUS
  <2>2. PowerOn.vm[r] = row /\ PowerOn.lines[PowerOn.scroll_off + r] = row
    BY <1>7, <2>1
  <2>3. QED
    BY <1>6, <2>2 DEF UnderCursor
<1>9. InRow(PowerOn)
  BY <1>7 DEF InRow
<1>10. QED
  BY <1>5, <1>7, <1>8, <1>9 DEF Screens, InView

(* follow_cursor and clamp_scroll move the view only, and keep it where the *)
(* log has rows to show.                                                    *)
Scrolled(s, v) == [s EXCEPT !.scroll_off = v]

LEMMA ScrolledIsDraft ==
  ASSUME NEW s \in Drafts, NEW v \in Scrolls
  PROVE  /\ Scrolled(s, v) \in Drafts
         /\ Scrolled(s, v).cur_row = s.cur_row /\ Scrolled(s, v).cur_col = s.cur_col
         /\ Scrolled(s, v).scroll_off = v /\ Scrolled(s, v).esc_state = s.esc_state
         /\ Scrolled(s, v).mouse = s.mouse
BY DEF Scrolled, Drafts, DraftFields

LEMMA TopHasRoom ==
  ASSUME NEW s \in Drafts, NEW w \in Scrolls, w <= MaxScroll(s)
  PROVE  Roomy(Scrolled(s, w))
<1> USE ScreenNumbers
<1>1. PICK row \in Nat, col \in Nat : row = s.cur_row /\ col = s.cur_col
  BY DEF Drafts, DraftFields, LogRows
<1>2. w \in Nat
  BY DEF Scrolls
<1>3. CASE w = 0
  BY <1>3, ScrolledIsDraft DEF Roomy, Room
<1>4. CASE w # 0
  <2>1. w + (MaxRows - 1) <= row
    BY <1>1, <1>2, <1>4 DEF MaxScroll
  <2>2. (w + (MaxRows - 1)) * MaxCols <= row * MaxCols
    BY <1>2, <2>1, ProductGrows
  <2>3. (w + (MaxRows - 1)) * MaxCols = w * MaxCols + (MaxRows - 1) * MaxCols
    BY <1>2
  <2>4. PICK a \in Int, b \in Int, e \in Int :
          a = w * MaxCols /\ b = (MaxRows - 1) * MaxCols /\ e = row * MaxCols
    BY <1>2
  <2>5. a + b <= e + col
    BY <2>2, <2>3, <2>4
  <2>6. LET t == Scrolled(s, w) IN
        t.cur_row = row /\ t.cur_col = col /\ t.scroll_off = w
    BY <1>1, ScrolledIsDraft
  <2>7. QED
    BY <2>4, <2>5, <2>6 DEF Roomy, Room, Place
<1>5. QED
  BY <1>3, <1>4

LEMMA ClampsIntoLog ==
  ASSUME NEW s \in Drafts, NEW v \in Int
  PROVE  \E w \in Scrolls : /\ ClampScroll(Scrolled(s, v)) = Scrolled(s, w)
                            /\ Roomy(Scrolled(s, w))
<1> USE ScreenNumbers
<1>1. PICK top \in Scrolls : top = MaxScroll(Scrolled(s, v)) /\ top = MaxScroll(s)
  <2>1. s.cur_row \in LogRows /\ Scrolled(s, v).cur_row = s.cur_row
    BY DEF Drafts, DraftFields, Scrolled
  <2>2. QED
    BY <2>1 DEF MaxScroll, LogRows, Scrolls
<1>2. PICK w \in Scrolls : w = IF v < 0 THEN 0 ELSE IF v > top THEN top ELSE v
  BY <1>1 DEF Scrolls
<1>3. ClampScroll(Scrolled(s, v)) = Scrolled(s, w)
  BY <1>1, <1>2 DEF ClampScroll, Scrolled, Drafts, DraftFields
<1>4. w <= MaxScroll(s)
  BY <1>1, <1>2 DEF Scrolls
<1>5. QED
  BY <1>3, <1>4, TopHasRoom

LEMMA FollowCursorScrolls ==
  ASSUME NEW s \in Drafts
  PROVE  \E v \in Scrolls : FollowCursor(s) = Scrolled(s, v) /\ Roomy(Scrolled(s, v))
<1>1. s.cur_row \in Int /\ s.scroll_off \in Int
  BY ScreenNumbers DEF Drafts, DraftFields, LogRows, Scrolls
<1>2. PICK v \in Int :
        v = IF s.cur_row >= s.scroll_off + MaxRows THEN s.cur_row - (MaxRows - 1)
            ELSE s.scroll_off
  BY <1>1, ScreenNumbers
<1>3. FollowCursor(s) = ClampScroll(Scrolled(s, v))
  BY <1>2 DEF FollowCursor, Scrolled, Drafts, DraftFields
<1>4. QED
  BY <1>3, ClampsIntoLog

(* What the functions of screen.c do to the log and the cursor.             *)
WithLog(s, g, r, x) == [s EXCEPT !.lines = g, !.cur_row = r, !.cur_col = x]

LEMMA WithLogIsDraft ==
  ASSUME NEW s \in Drafts, NEW g \in Grid(LogRows), NEW r \in LogRows,
         NEW x \in 0 .. MaxCols, BlankFrom(g, r, x)
  PROVE  /\ WithLog(s, g, r, x) \in Drafts
         /\ WithLog(s, g, r, x).cur_row = r /\ WithLog(s, g, r, x).cur_col = x
         /\ WithLog(s, g, r, x).scroll_off = s.scroll_off
         /\ WithLog(s, g, r, x).esc_state = s.esc_state
         /\ WithLog(s, g, r, x).mouse = s.mouse
<1>1. s \in DraftFields
  BY DEF Drafts
<1>2. WithLog(s, g, r, x) \in DraftFields
  BY <1>1 DEF WithLog, DraftFields
<1>3. LET t == WithLog(s, g, r, x) IN
      /\ t.lines = g /\ t.cur_row = r /\ t.cur_col = x /\ t.esc_buf = s.esc_buf
      /\ t.scroll_off = s.scroll_off /\ t.esc_state = s.esc_state
      /\ t.mouse = s.mouse
  BY <1>1 DEF WithLog, DraftFields
<1>4. QED
  BY <1>2, <1>3 DEF Drafts

(* advance_row, at the end of the log too.                                  *)
LEMMA NextRowIsDraft ==
  ASSUME NEW s \in Drafts
  PROVE  /\ NextRow(s) \in Drafts /\ InRow(NextRow(s))
         /\ NextRow(s).esc_state = s.esc_state /\ NextRow(s).mouse = s.mouse
<1> USE ScreenNumbers
<1>1. PICK row \in [Columns -> Cells] :
        row = BlankRow(s) /\ \A x \in Columns : row[x].char = Blank
  <2>1. Blank \in TextChars
    BY DEF TextChars
  <2>2. QED
    BY <2>1, BlankCells
<1>2. s.cur_row \in LogRows /\ s.lines \in Grid(LogRows) /\ 0 \in 0 .. MaxCols
  BY DEF Drafts, DraftFields
<1>3. PICK y : y = s.cur_row + 1
  OBVIOUS
<1>4. CASE y < MaxLog
  <2>1. y \in LogRows
    BY <1>2, <1>3, <1>4 DEF LogRows
  <2>2. PICK g : g = [s.lines EXCEPT ![y] = row]
    OBVIOUS
  <2>3. g \in Grid(LogRows) /\ \A r \in LogRows : g[r] = IF r = y THEN row ELSE s.lines[r]
    BY <1>1, <1>2, <2>1, <2>2 DEF Grid
  <2>4. NextRow(s) = WithLog(s, g, y, 0)
    BY <1>1, <1>3, <1>4, <2>2 DEF NextRow, WithLog, Drafts, DraftFields
  <2>5. BlankFrom(g, y, 0)
    BY <1>1, <1>2, <1>3, <2>1, <2>3, SMTT(30)
       DEF BlankFrom, Drafts, DraftFields, LogRows, Columns
  <2>6. QED
    BY <1>2, <2>1, <2>3, <2>4, <2>5, WithLogIsDraft DEF InRow
<1>5. CASE ~(y < MaxLog)
  <2>1. MaxLog - 1 \in LogRows
    BY DEF LogRows
  <2>2. PICK g : g = [r \in LogRows |-> IF r = MaxLog - 1 THEN row ELSE s.lines[r + 1]]
    OBVIOUS
  <2>3. g \in Grid(LogRows)
    BY <1>1, <1>2, <2>2 DEF Grid, LogRows
  <2>4. NextRow(s) = WithLog(s, g, MaxLog - 1, 0)
    BY <1>1, <1>3, <1>5, <2>2 DEF NextRow, WithLog, Drafts, DraftFields
  <2>5. BlankFrom(g, MaxLog - 1, 0)
    BY <1>1, <2>1, <2>2 DEF BlankFrom, LogRows
  <2>6. QED
    BY <1>2, <2>1, <2>3, <2>4, <2>5, WithLogIsDraft DEF InRow
<1>6. QED
  BY <1>4, <1>5

LEMMA AdvanceRowIsDraft ==
  ASSUME NEW s \in Drafts
  PROVE  /\ AdvanceRow(s) \in Drafts /\ InRow(AdvanceRow(s))
         /\ AdvanceRow(s).esc_state = s.esc_state /\ Roomy(AdvanceRow(s))
         /\ AdvanceRow(s).mouse = s.mouse
<1>1. /\ NextRow(s) \in Drafts /\ InRow(NextRow(s))
      /\ NextRow(s).esc_state = s.esc_state /\ NextRow(s).mouse = s.mouse
  BY NextRowIsDraft
<1>2. PICK v \in Scrolls : /\ AdvanceRow(s) = Scrolled(NextRow(s), v)
                          /\ Roomy(Scrolled(NextRow(s), v))
  BY <1>1, FollowCursorScrolls DEF AdvanceRow
<1>3. QED
  BY <1>1, <1>2, ScrolledIsDraft DEF InRow

(* One cell changes, and the log stays blank from the cursor on.            *)
LEMMA CellIsPut ==
  ASSUME NEW s \in Drafts, NEW r \in LogRows, NEW x \in Columns, NEW c \in TextChars
  PROVE  \E g \in Grid(LogRows) :
           /\ g = [s.lines EXCEPT ![r][x] = Cell(s, c)]
           /\ g[r][x].char = c /\ g[r][x] = Cell(s, c)
           /\ \A q \in LogRows, z \in Columns :
                q # r \/ z # x => g[q][z] = s.lines[q][z]
<1>1. Cell(s, c) \in Cells /\ Cell(s, c).char = c
  BY BlankCells
<1>2. s.lines \in Grid(LogRows)
  BY DEF Drafts, DraftFields
<1>3. PICK h \in [Columns -> Cells] : h = [s.lines[r] EXCEPT ![x] = Cell(s, c)]
  BY <1>1, <1>2 DEF Grid
<1>4. PICK g \in Grid(LogRows) : g = [s.lines EXCEPT ![r] = h]
  BY <1>2, <1>3 DEF Grid
<1>5. g = [s.lines EXCEPT ![r][x] = Cell(s, c)]
  BY <1>2, <1>3, <1>4 DEF Grid
<1>6. QED
  BY <1>1, <1>2, <1>3, <1>4, <1>5 DEF Grid

(* The place in front of the first of a row is the last of the row above.   *)
LEMMA PlaceBefore ==
  ASSUME NEW row \in LogRows, NEW col \in Columns, NEW r \in LogRows, NEW x \in Columns,
         \/ r = row /\ x = col - 1
         \/ r = row - 1 /\ x = MaxCols - 1 /\ col = 0
  PROVE  r * MaxCols + x = row * MaxCols + col - 1
<1>1. row \in Nat /\ col \in Nat /\ r \in Nat /\ x \in Int /\ MaxCols \in Nat
  BY ScreenNumbers DEF LogRows, Columns
<1>2. CASE r = row /\ x = col - 1
  BY <1>1, <1>2
<1>3. CASE r = row - 1 /\ x = MaxCols - 1 /\ col = 0
  <2>1. row * MaxCols = r * MaxCols + MaxCols
    BY <1>1, <1>3
  <2>2. r * MaxCols \in Int
    BY <1>1
  <2>3. QED
    BY <1>1, <1>3, <2>1, <2>2
<1>4. QED
  BY <1>2, <1>3

LEMMA EraseBackIsDraft ==
  ASSUME NEW s \in Drafts, InRow(s)
  PROVE  /\ EraseBack(s) \in Drafts /\ InRow(EraseBack(s))
         /\ EraseBack(s).esc_state = s.esc_state /\ EraseBack(s).mouse = s.mouse
         /\ \A n \in Nat : Room(s, n + 1) => Room(EraseBack(s), n)
<1> USE ScreenNumbers
<1>1. PICK row \in LogRows, col \in Columns : row = s.cur_row /\ col = s.cur_col
  BY DEF Drafts, DraftFields, InRow, Columns
<1>2. /\ s.lines \in Grid(LogRows) /\ Blank \in TextChars
      /\ BlankFrom(s.lines, row, col)
  BY <1>1 DEF Drafts, DraftFields, TextChars
<1>3. ASSUME NEW r \in LogRows, NEW x \in Columns,
             \/ r = row /\ x = col - 1
             \/ r = row - 1 /\ x = MaxCols - 1 /\ col = 0,
             EraseBack(s) =
               [s EXCEPT !.cur_row = r, !.cur_col = x, !.lines[r][x] = Cell(s, Blank)]
      PROVE  /\ EraseBack(s) \in Drafts /\ InRow(EraseBack(s))
             /\ EraseBack(s).esc_state = s.esc_state /\ EraseBack(s).mouse = s.mouse
             /\ \A n \in Nat : Room(s, n + 1) => Room(EraseBack(s), n)
  <2>1. PICK g \in Grid(LogRows) :
          /\ g = [s.lines EXCEPT ![r][x] = Cell(s, Blank)]
          /\ g[r][x].char = Blank
          /\ \A q \in LogRows, z \in Columns :
               q # r \/ z # x => g[q][z] = s.lines[q][z]
    BY <1>2, CellIsPut
  <2>2. EraseBack(s) = WithLog(s, g, r, x)
    BY <1>3, <2>1 DEF WithLog, Drafts, DraftFields
  <2>3. BlankFrom(g, r, x)
    BY <1>2, <1>3, <2>1, SMTT(30) DEF BlankFrom, LogRows, Columns
  <2>4. x \in 0 .. MaxCols /\ x < MaxCols
    BY DEF Columns
  <2>5. LET t == EraseBack(s) IN
        /\ t \in Drafts /\ t.cur_row = r /\ t.cur_col = x
        /\ t.scroll_off = s.scroll_off /\ t.esc_state = s.esc_state
        /\ t.mouse = s.mouse
    BY <2>2, <2>3, <2>4, WithLogIsDraft
  <2>6. r * MaxCols + x = row * MaxCols + col - 1
    BY <1>3, PlaceBefore
  <2>7. ASSUME NEW n \in Nat, Room(s, n + 1)
        PROVE  Room(EraseBack(s), n)
    <3>1. s.scroll_off \in Int /\ r \in Int /\ x \in Int /\ row \in Int /\ col \in Int
      BY DEF Drafts, DraftFields, Scrolls, LogRows, Columns
    <3>2. PICK a \in Int, b \in Int, e \in Int :
            a = s.scroll_off * MaxCols /\ b = Place(s) /\ e = r * MaxCols + x
      BY <1>1, <3>1 DEF Place
    <3>3. e = b - 1
      BY <1>1, <2>6, <3>2, SMTT(30) DEF Place, LogRows, Columns
    <3>4. s.scroll_off = 0 \/ a + n <= e
      BY <2>7, <3>2, <3>3 DEF Room
    <3>5. QED
      BY <2>5, <3>2, <3>4 DEF Room, Place
  <2>8. QED
    BY <2>4, <2>5, <2>7 DEF InRow
<1>4. CASE col > 0
  <2>1. col - 1 \in Columns
    BY <1>4 DEF Columns
  <2>2. EraseBack(s) = [s EXCEPT !.cur_row = row, !.cur_col = col - 1,
                                 !.lines[row][col - 1] = Cell(s, Blank)]
    BY <1>1, <1>4 DEF EraseBack, Drafts, DraftFields
  <2>3. QED
    BY <1>3, <2>1, <2>2
<1>5. CASE col = 0 /\ row > 0
  <2>1. row - 1 \in LogRows /\ MaxCols - 1 \in Columns
    BY <1>5 DEF Columns, LogRows
  <2>2. EraseBack(s) = [s EXCEPT !.cur_row = row - 1, !.cur_col = MaxCols - 1,
                                 !.lines[row - 1][MaxCols - 1] = Cell(s, Blank)]
    BY <1>1, <1>5 DEF EraseBack, Drafts, DraftFields
  <2>3. QED
    BY <1>3, <1>5, <2>1, <2>2
<1>6. CASE col = 0 /\ ~(row > 0)
  <2>1. EraseBack(s) = s /\ row = 0
    BY <1>1, <1>6 DEF EraseBack, LogRows
  <2>2. ASSUME NEW n \in Nat, Room(s, n + 1)
        PROVE  Room(s, n)
    <3>1. PICK a \in Int : a = s.scroll_off * MaxCols
      BY DEF Drafts, DraftFields, Scrolls
    <3>2. Place(s) \in Int
      BY DEF Place, Drafts, DraftFields, LogRows
    <3>3. QED
      BY <2>2, <3>1, <3>2 DEF Room
  <2>3. QED
    BY <2>1, <2>2
<1>7. QED
  BY <1>4, <1>5, <1>6 DEF Columns

LEMMA PutCellIsDraft ==
  ASSUME NEW s \in Drafts, InRow(s), NEW c \in TextChars
  PROVE  /\ PutCell(s, c) \in Drafts /\ InRow(PutCell(s, c))
         /\ PutCell(s, c).esc_state = s.esc_state /\ Roomy(PutCell(s, c))
         /\ PutCell(s, c).mouse = s.mouse
<1> USE ScreenNumbers
<1>1. PICK row \in LogRows, col \in Columns : row = s.cur_row /\ col = s.cur_col
  BY DEF Drafts, DraftFields, InRow, Columns
<1>2. PICK g \in Grid(LogRows) :
        /\ g = [s.lines EXCEPT ![row][col] = Cell(s, c)]
        /\ \A q \in LogRows, z \in Columns :
             q # row \/ z # col => g[q][z] = s.lines[q][z]
  BY CellIsPut
<1>3. PICK t : t = WithLog(s, g, row, col + 1)
  OBVIOUS
<1>4. /\ t.cur_col = col + 1 /\ col + 1 \in 0 .. MaxCols /\ t \in Drafts
      /\ t.esc_state = s.esc_state /\ t.mouse = s.mouse
  <2>1. BlankFrom(s.lines, row, col)
    BY <1>1 DEF Drafts, DraftFields
  <2>2. BlankFrom(g, row, col + 1)
    BY <1>2, <2>1 DEF BlankFrom, LogRows, Columns
  <2>3. col + 1 \in 0 .. MaxCols
    BY DEF Columns
  <2>4. QED
    BY <1>3, <2>2, <2>3, WithLogIsDraft
<1>5. PutCell(s, c) = FollowCursor(IF t.cur_col >= MaxCols THEN AdvanceRow(t) ELSE t)
  BY <1>1, <1>2, <1>3 DEF PutCell, WithLog, Drafts, DraftFields
<1>6. PICK u \in Drafts : /\ u = IF t.cur_col >= MaxCols THEN AdvanceRow(t) ELSE t
                          /\ InRow(u) /\ u.esc_state = s.esc_state
                          /\ u.mouse = s.mouse
  BY <1>4, AdvanceRowIsDraft DEF InRow
<1>7. PICK v \in Scrolls : PutCell(s, c) = Scrolled(u, v) /\ Roomy(Scrolled(u, v))
  BY <1>5, <1>6, FollowCursorScrolls
<1>8. QED
  BY <1>6, <1>7, ScrolledIsDraft DEF InRow

(* screen_redraw_hw                                                         *)
LEMMA RedrawIsScreen ==
  ASSUME NEW s \in Drafts, InRow(s)
  PROVE  /\ Redraw(s) \in Placed(s) /\ Redraw(s).esc_state = s.esc_state
         /\ Redraw(s).current_attr = s.current_attr
         /\ Redraw(s).ansi_bold = s.ansi_bold
<1>1. /\ s.scroll_off \in Scrolls /\ s.lines \in Grid(LogRows)
      /\ s \in DraftFields
  BY DEF Drafts, DraftFields
<1>2. PICK m : m = [r \in ViewRows |-> [x \in Columns |->
                     UnderCursor(s, r, x, s.lines[s.scroll_off + r][x])]]
  OBVIOUS
<1>3. m \in Grid(ViewRows)
  <2>1. ASSUME NEW r \in ViewRows, NEW x \in Columns
        PROVE  UnderCursor(s, r, x, s.lines[s.scroll_off + r][x]) \in Cells
    <3>1. PICK cell \in Cells : cell = s.lines[s.scroll_off + r][x]
      BY <1>1, ScreenNumbers DEF Grid
    <3>2. Inverted(cell) \in Cells
      BY DEF Inverted, Cells
    <3>3. QED
      BY <3>1, <3>2 DEF UnderCursor
  <2>2. QED
    BY <1>2, <2>1 DEF Grid
<1>4. Redraw(s) = [s EXCEPT !.vm = m]
  BY <1>1, <1>2, ScreenNumbers DEF Redraw, UnderCursor
<1>5. PICK t : t = Redraw(s)
  OBVIOUS
<1>6. /\ t \in DraftFields /\ t.vm = m /\ t.lines = s.lines /\ t.mouse = s.mouse
      /\ t.cur_row = s.cur_row /\ t.cur_col = s.cur_col
      /\ t.scroll_off = s.scroll_off /\ t.esc_buf = s.esc_buf
      /\ t.esc_state = s.esc_state /\ t.current_attr = s.current_attr
      /\ t.ansi_bold = s.ansi_bold
  BY <1>1, <1>3, <1>4, <1>5 DEF DraftFields
<1>7. t \in Drafts /\ InRow(t)
  BY <1>6 DEF Drafts, InRow
<1>8. InView(t)
  BY <1>2, <1>6 DEF InView, UnderCursor, UnderMouse
<1>9. QED
  BY <1>5, <1>6, <1>7, <1>8 DEF Placed, Screens

(* clear_screen, and mouse_init's screen_mouse_set_cell.                    *)
LEMMA ClearScreenIsScreen ==
  ASSUME NEW s \in Screens
  PROVE  /\ ClearScreen(s) \in Screens /\ ClearScreen(s).esc_state = 0
         /\ ClearScreen(s).mouse = s.mouse
<1> USE ScreenNumbers
<1>1. PICK row : row = [x \in Columns |-> [char |-> Blank, attr |-> Grey]]
  OBVIOUS
<1>2. /\ row \in [Columns -> Cells]
      /\ \A x \in Columns : row[x].char = Blank
  BY <1>1 DEF Cells, TextChars
<1>3. PICK t : t = [s EXCEPT !.current_attr = Grey, !.ansi_bold = FALSE,
                             !.esc_state = 0, !.esc_buf = <<>>,
                             !.cur_row = 0, !.cur_col = 0, !.scroll_off = 0,
                             !.lines = [r \in LogRows |-> row]]
  OBVIOUS
<1>4. ClearScreen(s) = Redraw(t)
  BY <1>1, <1>3, Zenon DEF ClearScreen
<1>5. s \in DraftFields
  BY DEF Screens, Drafts
<1>6. [r \in LogRows |-> row] \in Grid(LogRows)
  BY <1>2 DEF Grid
<1>7. /\ t \in DraftFields /\ t.mouse = s.mouse /\ t.esc_state = 0
      /\ t.cur_row = 0 /\ t.cur_col = 0 /\ t.esc_buf = <<>>
      /\ t.lines = [r \in LogRows |-> row]
  BY <1>3, <1>5, <1>6 DEF DraftFields
<1>8. t \in Drafts /\ InRow(t)
  BY <1>2, <1>7 DEF Drafts, BlankFrom, InRow
<1>9. QED
  BY <1>4, <1>7, <1>8, RedrawIsScreen DEF Placed

MouseOn == [visible |-> TRUE, x |-> MouseCellX, y |-> MouseCellY]

LEMMA ScreenMouseSetCellIsScreen ==
  ASSUME NEW s \in Screens
  PROVE  LET t == ScreenMouseSetCell(s, MouseCellX, MouseCellY) IN
         t \in Screens /\ t.mouse = MouseOn
<1> USE ScreenNumbers
<1>1. /\ OntoDisplay(MouseCellX, MaxCols) = MouseCellX
      /\ OntoDisplay(MouseCellY, MaxRows) = MouseCellY
  BY MouseInDisplay DEF OntoDisplay, Columns, ViewRows
<1>2. PICK t : t = [s EXCEPT !.mouse = MouseOn]
  OBVIOUS
<1>3. ScreenMouseSetCell(s, MouseCellX, MouseCellY) = Redraw(t)
  BY <1>1, <1>2 DEF ScreenMouseSetCell, MouseOn
<1>4. s \in DraftFields /\ s \in Drafts /\ InRow(s)
  BY DEF Screens, Drafts
<1>5. MouseOn \in [visible : BOOLEAN, x : Columns, y : ViewRows]
  BY MouseInDisplay DEF MouseOn
<1>6. /\ t \in DraftFields /\ t.mouse = MouseOn /\ t.lines = s.lines
      /\ t.cur_row = s.cur_row /\ t.cur_col = s.cur_col /\ t.esc_buf = s.esc_buf
  BY <1>2, <1>4, <1>5 DEF DraftFields
<1>7. t \in Drafts /\ InRow(t)
  BY <1>4, <1>6 DEF Drafts, InRow
<1>8. QED
  BY <1>3, <1>6, <1>7, RedrawIsScreen DEF Placed

(* Every character the screen is given is one of these.                     *)
Printed == TextChars \ {CarriageReturn}

LEMMA PutPlainIsScreen ==
  ASSUME NEW s \in Screens, NEW c \in Printed
  PROVE  /\ PutPlain(s, c) \in Screens
         /\ PutPlain(s, c).esc_state = s.esc_state /\ PutPlain(s, c).mouse = s.mouse
         /\ c # Backspace => Roomy(PutPlain(s, c))
         /\ c = Backspace => \A n \in Nat : Room(s, n + 1) => Room(PutPlain(s, c), n)
<1>1. s \in Drafts /\ InRow(s) /\ c \in TextChars /\ c # CarriageReturn
  BY DEF Screens, Printed
<1>2. PICK t \in Drafts :
        /\ InRow(t) /\ PutPlain(s, c) = Redraw(t) /\ t.esc_state = s.esc_state
        /\ t.mouse = s.mouse
        /\ c # Backspace => Roomy(t)
        /\ c = Backspace => \A n \in Nat : Room(s, n + 1) => Room(t, n)
  <2>1. CASE c = Newline
    BY <1>1, <2>1, AdvanceRowIsDraft, ControlCharsDiffer DEF PutPlain
  <2>2. CASE c = Backspace
    BY <1>1, <2>2, EraseBackIsDraft, ControlCharsDiffer DEF PutPlain
  <2>3. CASE c \notin {Newline, Backspace}
    BY <1>1, <2>3, PutCellIsDraft DEF PutPlain
  <2>4. QED
    BY <2>1, <2>2, <2>3
<1>3. Redraw(t) \in Placed(t) /\ Redraw(t).esc_state = s.esc_state
  BY <1>2, RedrawIsScreen
<1>4. \A n : Room(t, n) => Room(Redraw(t), n)
  BY <1>3 DEF Placed, Room, Place
<1>5. QED
  BY <1>2, <1>3, <1>4 DEF Placed, Roomy

(* Colours: no escape sequence touches the log, the view or the cursor.     *)
Coloured(s, a, b) == [s EXCEPT !.current_attr = a, !.ansi_bold = b]

LEMMA SameView ==
  ASSUME NEW s, InView(s),
         NEW t, t.lines = s.lines, t.vm = s.vm, t.scroll_off = s.scroll_off,
         t.mouse = s.mouse
  PROVE  InView(t)
BY DEF InView, UnderCursor, UnderMouse

LEMMA ColouredIsScreen ==
  ASSUME NEW s \in Screens, NEW a \in 0 .. 15, NEW b \in BOOLEAN
  PROVE  Coloured(s, a, b) \in Placed(s)
<1>1. s \in DraftFields
  BY DEF Screens, Drafts
<1>2. Coloured(s, a, b) \in DraftFields
  BY <1>1 DEF Coloured, DraftFields
<1>3. LET t == Coloured(s, a, b) IN
      /\ t.lines = s.lines /\ t.vm = s.vm /\ t.cur_row = s.cur_row
      /\ t.cur_col = s.cur_col /\ t.scroll_off = s.scroll_off /\ t.esc_buf = s.esc_buf
      /\ t.mouse = s.mouse
  BY <1>1 DEF Coloured, DraftFields
<1>4. QED
  BY <1>2, <1>3, SameView DEF Placed, Screens, Drafts, InRow

LEMMA ApplySgrIsScreen ==
  ASSUME NEW s \in Screens, NEW code \in Nat
  PROVE  ApplySgr(s, code) \in Placed(s)
<1>1. s \in DraftFields /\ s.current_attr \in 0 .. 15 /\ s.ansi_bold \in BOOLEAN
  BY DEF Screens, Drafts, DraftFields
<1>2. \E a \in 0 .. 15, b \in BOOLEAN : ApplySgr(s, code) = Coloured(s, a, b)
  <2>1. CASE code = 0
    <3>1. ApplySgr(s, code) = Coloured(s, Grey, FALSE)
      BY <2>1 DEF ApplySgr, Coloured
    <3>2. Grey \in 0 .. 15
      BY DEF Grey
    <3>3. QED
      BY <3>1, <3>2
  <2>2. CASE code = 1
    <3>1. ApplySgr(s, code) = Coloured(s, s.current_attr, TRUE)
      <4>1. ApplySgr(s, code) = [s EXCEPT !.ansi_bold = TRUE]
        BY <2>2 DEF ApplySgr
      <4>2. QED
        BY <1>1, <4>1 DEF Coloured, DraftFields
    <3>2. QED
      BY <1>1, <3>1
  <2>3. CASE code = 22
    <3>1. ApplySgr(s, code) = Coloured(s, s.current_attr, FALSE)
      <4>1. ApplySgr(s, code) = [s EXCEPT !.ansi_bold = FALSE]
        BY <2>3 DEF ApplySgr
      <4>2. QED
        BY <1>1, <4>1 DEF Coloured, DraftFields
    <3>2. QED
      BY <1>1, <3>1
  <2>4. CASE code = 39
    <3>1. ApplySgr(s, code) = Coloured(s, Grey, s.ansi_bold)
      <4>1. ApplySgr(s, code) = [s EXCEPT !.current_attr = Grey]
        BY <2>4 DEF ApplySgr
      <4>2. QED
        BY <1>1, <4>1 DEF Coloured, DraftFields
    <3>2. QED
      BY <1>1, <3>1 DEF Grey
  <2>5. CASE code \in 30 .. 37
    <3>1. PICK a : a = code - 30 + (IF s.ansi_bold THEN Bright ELSE 0)
      OBVIOUS
    <3>2. ApplySgr(s, code) = Coloured(s, a, s.ansi_bold)
      <4>1. ApplySgr(s, code) = [s EXCEPT !.current_attr = a]
        BY <2>5, <3>1 DEF ApplySgr
      <4>2. QED
        BY <1>1, <4>1 DEF Coloured, DraftFields
    <3>3. a \in 0 .. 15
      BY <2>5, <3>1 DEF Bright
    <3>4. QED
      BY <1>1, <3>2, <3>3
  <2>6. CASE code \in 90 .. 97
    <3>1. PICK a : a = code - 90 + Bright
      OBVIOUS
    <3>2. ApplySgr(s, code) = Coloured(s, a, s.ansi_bold)
      <4>1. ApplySgr(s, code) = [s EXCEPT !.current_attr = a]
        BY <2>6, <3>1 DEF ApplySgr
      <4>2. QED
        BY <1>1, <4>1 DEF Coloured, DraftFields
    <3>3. a \in 0 .. 15
      BY <2>6, <3>1 DEF Bright
    <3>4. QED
      BY <1>1, <3>2, <3>3
  <2>7. CASE ~(code \in {0, 1, 22, 39} \/ code \in 30 .. 37 \/ code \in 90 .. 97)
    <3>1. ApplySgr(s, code) = s
      BY <2>7 DEF ApplySgr
    <3>2. QED
      BY <1>1, <3>1 DEF Coloured, DraftFields
  <2>8. QED
    BY <2>1, <2>2, <2>3, <2>4, <2>5, <2>6, <2>7
<1>3. QED
  BY <1>2, ColouredIsScreen

(* The parser's own two fields.                                             *)
Parsing(s, state, buf) == [s EXCEPT !.esc_state = state, !.esc_buf = buf]

LEMMA ParsingIsScreen ==
  ASSUME NEW s \in Screens, NEW state \in 0 .. 2, NEW buf \in Seq(EscChars),
         Len(buf) < EscBufLen
  PROVE  /\ Parsing(s, state, buf) \in Placed(s)
         /\ Parsing(s, state, buf).esc_state = state
<1>1. s \in DraftFields
  BY DEF Screens, Drafts
<1>2. Parsing(s, state, buf) \in DraftFields
  BY <1>1 DEF Parsing, DraftFields
<1>3. LET t == Parsing(s, state, buf) IN
      /\ t.lines = s.lines /\ t.vm = s.vm /\ t.cur_row = s.cur_row
      /\ t.cur_col = s.cur_col /\ t.scroll_off = s.scroll_off /\ t.esc_buf = buf
      /\ t.esc_state = state /\ t.mouse = s.mouse
  BY <1>1 DEF Parsing, DraftFields
<1>4. QED
  BY <1>2, <1>3, SameView DEF Placed, Screens, Drafts, InRow

LEMMA PlacedIsTransitive ==
  ASSUME NEW s, NEW t \in Placed(s), NEW u \in Placed(t)
  PROVE  u \in Placed(s) /\ u \in Screens
BY DEF Placed

LEMMA PlacedKeepsRoom ==
  ASSUME NEW s, NEW t \in Placed(s), NEW n, Room(s, n)
  PROVE  Room(t, n)
BY DEF Placed, Room, Place

Parsed(s) == [screen : Placed(s), n : Nat, open : BOOLEAN]

LEMMA TakeEscParses ==
  ASSUME NEW s, NEW t \in Parsed(s), NEW c \in EscChars
  PROVE  TakeEsc(t, c) \in Parsed(s)
<1>1. t.screen \in Placed(s) /\ t.screen \in Screens /\ t.n \in Nat
  BY DEF Parsed, Placed
<1>2. CASE c = Semicolon
  <2>1. ApplySgr(t.screen, t.n) \in Placed(s)
    BY <1>1, ApplySgrIsScreen, PlacedIsTransitive
  <2>2. QED
    BY <1>2, <2>1 DEF TakeEsc, Parsed
<1>3. CASE c # Semicolon
  <2>1. NumberOf[c] \in Nat
    BY <1>3, ScreenAssumption DEF EscChars
  <2>2. t.n * 10 + NumberOf[c] \in Nat
    BY <1>1, <2>1
  <2>3. QED
    BY <1>3, <2>2 DEF TakeEsc, Parsed
<1>4. QED
  BY <1>2, <1>3

(* All that is in esc_buf, taken one by one.                                *)
TakeRun(g, s, t, d) ==
  /\ g[0] = t
  /\ \A k \in Nat : k <= Len(d) => g[k] \in Parsed(s)
  /\ \A k \in Nat : k + 1 <= Len(d) => g[k + 1] = TakeEsc(g[k], d[k + 1])

LEMMA TakeEscRuns ==
  ASSUME NEW s, NEW t \in Parsed(s), NEW d \in Seq(EscChars)
  PROVE  \E g : TakeRun(g, s, t, d) /\ FoldLeft(TakeEsc, t, d) = g[Len(d)]
<1> DEFINE Eqn(g) == g = [u \in SUBSET DOMAIN d |->
             IF u = {} THEN t ELSE TakeEsc(g[u \ {Max(u)}], d[Max(u)])]
<1>1. PICK V : V = Parsed(s)
  OBVIOUS
<1>2. PICK n \in Nat : n = Len(d) /\ DOMAIN d = 1 .. n
  OBVIOUS
<1>3. PICK T : T = [p \in V \X EscChars |-> TakeEsc(p[1], p[2])]
  OBVIOUS
<1>4. T \in [V \X EscChars -> V]
  <2>1. ASSUME NEW p \in V \X EscChars
        PROVE  TakeEsc(p[1], p[2]) \in V
    <3>1. p[1] \in Parsed(s) /\ p[2] \in EscChars
      BY <1>1
    <3>2. QED
      BY <1>1, <3>1, TakeEscParses, Zenon
  <2>2. QED
    BY <1>3, <2>1, Zenon
<1>5. ASSUME NEW v \in V, NEW c \in EscChars
      PROVE  T[<<v, c>>] = TakeEsc(v, c)
  BY <1>3
<1>6. PICK f \in [SUBSET (1 .. n) -> V] : IsFoldOver(f, d, V, t, T)
  BY <1>1, <1>2, <1>4, FoldOverExists, Zenon
<1>7. ASSUME NEW u \in SUBSET (1 .. n), u # {}
      PROVE  f[u] = TakeEsc(f[u \ {Max(u)}], d[Max(u)])
  <2>1. Max(u) \in 1 .. n /\ u \ {Max(u)} \in SUBSET (1 .. n)
    BY <1>7, MaxOfIndices
  <2>2. f[u \ {Max(u)}] \in V /\ d[Max(u)] \in EscChars
    BY <1>2, <2>1
  <2>3. f[u] = T[<<f[u \ {Max(u)}], d[Max(u)]>>]
    BY <1>2, <1>6, <1>7, <2>2, Zenon DEF IsFoldOver
  <2>4. QED
    BY <1>5, <2>2, <2>3
<1>8. f[{}] = t
  BY <1>6 DEF IsFoldOver
<1>9. Eqn(f)
  BY <1>2, <1>7, <1>8
<1>10. PICK F : Eqn(F) /\ FoldLeft(TakeEsc, t, d) = F[DOMAIN d]
  <2> DEFINE g == CHOOSE h : Eqn(h)
  <2>1. Eqn(g)
    BY <1>9, Zenon
  <2>2. FoldLeft(TakeEsc, t, d) = g[DOMAIN d]
    BY Zenon DEF FoldLeft, MapThenFoldSet
  <2>3. QED
    BY <2>1, <2>2, Zenon
<1>11. ASSUME NEW u \in SUBSET (1 .. n), u # {}, F[u \ {Max(u)}] \in V
       PROVE  F[u] = T[<<F[u \ {Max(u)}], d[Max(u)]>>]
  <2>1. Max(u) \in 1 .. n
    BY <1>11, MaxOfIndices
  <2>2. F[u] = TakeEsc(F[u \ {Max(u)}], d[Max(u)])
    BY <1>2, <1>10, <1>11
  <2>3. d[Max(u)] \in EscChars
    BY <1>2, <2>1
  <2>4. QED
    BY <1>5, <1>11, <2>2, <2>3
<1>12. F[{}] = t
  BY <1>2, <1>10
<1>13. IsFoldOver(F, d, V, t, T)
  BY <1>2, <1>11, <1>12 DEF IsFoldOver
<1>14. GrowsByOne(F, d, V, t, T)
  BY <1>1, <1>2, <1>4, <1>13, FoldOverPrefix, Zenon
<1>15. PICK g : g = [k \in Nat |-> F[1 .. k]]
  OBVIOUS
<1>16. g[0] = t /\ \A k \in Nat : k <= Len(d) => g[k] \in Parsed(s)
  BY <1>1, <1>14, <1>15 DEF GrowsByOne
<1>17. ASSUME NEW k \in Nat, k + 1 <= Len(d)
       PROVE  g[k + 1] = TakeEsc(g[k], d[k + 1])
  <2>1. k + 1 \in 1 .. Len(d) /\ k <= Len(d) /\ k + 1 \in Nat
    BY <1>2, <1>17
  <2>2. F[1 .. k] \in V /\ d[k + 1] \in EscChars
    BY <1>14, <2>1 DEF GrowsByOne
  <2>3. F[1 .. (k + 1)] = TakeEsc(F[1 .. k], d[k + 1])
    BY <1>5, <1>14, <1>17, <2>2 DEF GrowsByOne
  <2>4. QED
    BY <1>15, <2>1, <2>3
<1>18. FoldLeft(TakeEsc, t, d) = g[Len(d)]
  BY <1>2, <1>10, <1>15
<1>19. QED
  BY <1>16, <1>17, <1>18 DEF TakeRun

LEMMA AllTaken ==
  ASSUME NEW s, NEW t \in Parsed(s), NEW d \in Seq(EscChars)
  PROVE  FoldLeft(TakeEsc, t, d) \in Parsed(s)
<1>1. PICK g : TakeRun(g, s, t, d) /\ FoldLeft(TakeEsc, t, d) = g[Len(d)]
  BY TakeEscRuns
<1>2. QED
  BY <1>1 DEF TakeRun

LEMMA FlushEscIsScreen ==
  ASSUME NEW s \in Screens
  PROVE  FlushEsc(s) \in Placed(s) /\ FlushEsc(s).esc_state = 0
<1>1. PICK t : t = [screen |-> s, n |-> 0, open |-> FALSE]
  OBVIOUS
<1>2. PICK all \in Parsed(s) : all = FoldLeft(TakeEsc, t, s.esc_buf)
  <2>1. t \in Parsed(s) /\ s.esc_buf \in Seq(EscChars)
    BY <1>1 DEF Parsed, Placed, Screens, Drafts, DraftFields
  <2>2. QED
    BY <2>1, AllTaken
<1>3. PICK u \in Placed(s) :
        u = IF all.open THEN ApplySgr(all.screen, all.n) ELSE all.screen
  <2>1. all.screen \in Placed(s) /\ all.screen \in Screens /\ all.n \in Nat
    BY DEF Parsed, Placed
  <2>2. ApplySgr(all.screen, all.n) \in Placed(s)
    BY <2>1, ApplySgrIsScreen, PlacedIsTransitive
  <2>3. QED
    BY <2>1, <2>2
<1>4. FlushEsc(s) = [u EXCEPT !.esc_buf = <<>>, !.esc_state = 0]
  BY <1>1, <1>2, <1>3, Zenon DEF FlushEsc
<1>5. FlushEsc(s) = Parsing(u, 0, <<>>)
  BY <1>4 DEF Parsing, Placed, Screens, Drafts, DraftFields
<1>6. <<>> \in Seq(EscChars) /\ Len(<<>>) < EscBufLen /\ 0 \in 0 .. 2
  BY ScreenNumbers
<1>7. u \in Screens
  BY DEF Placed
<1>8. Parsing(u, 0, <<>>) \in Placed(u) /\ Parsing(u, 0, <<>>).esc_state = 0
  BY <1>6, <1>7, ParsingIsScreen
<1>9. QED
  BY <1>5, <1>8, PlacedIsTransitive

(* A character that neither starts an escape sequence nor goes on with one. *)
Ordinary(c) == c \notin EscChars \cup {Bracket, Esc}

LEMMA PutEscapedIsScreen ==
  ASSUME NEW s \in Screens, NEW c
  PROVE  /\ PutEscaped(s, c) \in Placed(s)
         /\ Ordinary(c) => PutEscaped(s, c).esc_state = 0
<1>1. /\ s.esc_state \in 0 .. 2 /\ s.esc_buf \in Seq(EscChars)
      /\ Len(s.esc_buf) < EscBufLen /\ s \in DraftFields
      /\ <<>> \in Seq(EscChars) /\ Len(<<>>) < EscBufLen /\ 0 \in 0 .. 2 /\ 2 \in 0 .. 2
  BY ScreenNumbers DEF Screens, Drafts, DraftFields
<1>2. CASE s.esc_state = 1
  <2>1. PICK e \in 0 .. 2 : e = IF c = Bracket THEN 2 ELSE 0
    OBVIOUS
  <2>2. PutEscaped(s, c) = [s EXCEPT !.esc_state = e]
    BY <1>2, <2>1 DEF PutEscaped
  <2>3. PutEscaped(s, c) = Parsing(s, e, s.esc_buf)
    BY <1>1, <2>2 DEF Parsing, DraftFields
  <2>4. QED
    BY <1>1, <2>1, <2>3, ParsingIsScreen DEF Ordinary
<1>3. CASE s.esc_state = 2 /\ c \in EscChars
  <2>1. PutEscaped(s, c) = IF Len(s.esc_buf) < EscBufLen - 1
                           THEN [s EXCEPT !.esc_buf = Append(@, c)] ELSE s
    BY <1>3, ScreenAssumption DEF PutEscaped, EscChars
  <2>2. CASE ~(Len(s.esc_buf) < EscBufLen - 1)
    BY <1>3, <2>1, <2>2 DEF Ordinary, Placed
  <2>3. CASE Len(s.esc_buf) < EscBufLen - 1
    <3>1. PICK b : b = Append(s.esc_buf, c)
      OBVIOUS
    <3>2. b \in Seq(EscChars) /\ Len(b) < EscBufLen
      <4>1. b \in Seq(EscChars) /\ Len(b) = Len(s.esc_buf) + 1
        BY <1>1, <1>3, <3>1, AppendProperties
      <4>2. Len(s.esc_buf) \in Nat
        BY <1>1
      <4>3. QED
        BY <2>3, <4>1, <4>2, ScreenNumbers
    <3>3. PutEscaped(s, c) = [s EXCEPT !.esc_buf = b]
      BY <2>1, <2>3, <3>1
    <3>4. PutEscaped(s, c) = Parsing(s, 2, b)
      BY <1>1, <1>3, <3>3 DEF Parsing, DraftFields
    <3>5. QED
      BY <1>1, <1>3, <3>2, <3>4, ParsingIsScreen DEF Ordinary
  <2>4. QED
    BY <2>2, <2>3
<1>4. CASE s.esc_state = 2 /\ c \notin EscChars /\ c = EndOfSgr
  <2>1. PutEscaped(s, c) = Redraw(FlushEsc(s))
    BY <1>4 DEF PutEscaped, EscChars
  <2>2. PICK u \in Placed(s) : u = FlushEsc(s) /\ u.esc_state = 0
    BY FlushEscIsScreen
  <2>3. Redraw(u) \in Placed(u) /\ Redraw(u).esc_state = 0
    BY <2>2, RedrawIsScreen DEF Placed, Screens
  <2>4. QED
    BY <2>1, <2>2, <2>3, PlacedIsTransitive
<1>5. CASE s.esc_state # 1 /\ ~(s.esc_state = 2 /\ (c \in EscChars \/ c = EndOfSgr))
  <2>1. PutEscaped(s, c) = [s EXCEPT !.esc_state = 0, !.esc_buf = <<>>]
    BY <1>5 DEF PutEscaped, EscChars
  <2>2. PutEscaped(s, c) = Parsing(s, 0, <<>>)
    BY <2>1 DEF Parsing
  <2>3. QED
    BY <1>1, <2>2, ParsingIsScreen, ZenonT(40)
<1>6. QED
  BY <1>2, <1>3, <1>4, <1>5

(* putchar, with everything it calls: what is swallowed moves nothing, and  *)
(* whatever else is put, but for a backspace, brings the view along.        *)
LEMMA PutCharIsScreen ==
  ASSUME NEW s \in Screens, NEW c \in Printed
  PROVE  /\ PutChar(s, c) \in Screens /\ PutChar(s, c).mouse = s.mouse
         /\ s.esc_state # 0 => PutChar(s, c) \in Placed(s)
         /\ Ordinary(c) => PutChar(s, c).esc_state = 0
         /\ c # Backspace /\ Roomy(s) => Roomy(PutChar(s, c))
         /\ c \notin {Backspace, Esc} /\ s.esc_state = 0 =>
              Roomy(PutChar(s, c)) /\ PutChar(s, c).esc_state = 0
<1>1. <<>> \in Seq(EscChars) /\ Len(<<>>) < EscBufLen /\ 1 \in 0 .. 2
  BY ScreenNumbers
<1>2. CASE s.esc_state # 0
  <2>1. PutChar(s, c) = PutEscaped(s, c)
    BY <1>2 DEF PutChar
  <2>2. PutChar(s, c) \in Placed(s) /\ (Ordinary(c) => PutChar(s, c).esc_state = 0)
    BY <2>1, PutEscapedIsScreen
  <2>3. Roomy(s) => Roomy(PutChar(s, c))
    BY <2>2, PlacedKeepsRoom DEF Roomy
  <2>4. PutChar(s, c) \in Screens /\ PutChar(s, c).mouse = s.mouse
    BY <2>2 DEF Placed
  <2>5. QED
    BY <1>2, <2>2, <2>3, <2>4
<1>3. CASE s.esc_state = 0 /\ c = Esc
  <2>1. PutChar(s, c) = Parsing(s, 1, <<>>)
    BY <1>3 DEF PutChar, Parsing
  <2>2. PutChar(s, c) \in Placed(s)
    BY <1>1, <2>1, ParsingIsScreen
  <2>3. Roomy(s) => Roomy(PutChar(s, c))
    BY <2>2, PlacedKeepsRoom DEF Roomy
  <2>4. PutChar(s, c) \in Screens /\ PutChar(s, c).mouse = s.mouse /\ ~Ordinary(c)
    BY <1>3, <2>2 DEF Placed, Ordinary
  <2>5. QED
    BY <1>3, <2>3, <2>4
<1>4. CASE s.esc_state = 0 /\ c # Esc
  <2>1. PutChar(s, c) = PutPlain(s, c)
    BY <1>4 DEF PutChar
  <2>2. /\ PutPlain(s, c) \in Screens /\ PutPlain(s, c).esc_state = 0
        /\ c # Backspace => Roomy(PutPlain(s, c))
        /\ PutPlain(s, c).mouse = s.mouse
    BY <1>4, PutPlainIsScreen
  <2>3. QED
    BY <1>4, <2>1, <2>2
<1>5. QED
  BY <1>2, <1>3, <1>4

(* print is putchar again and again: g holds the screens in between.        *)
Alongside(t) == {s \in Screens : s.mouse = t.mouse}
Run(g, t, d) ==
  /\ g[0] = t
  /\ \A k \in Nat : k <= Len(d) => g[k] \in Screens /\ g[k].mouse = t.mouse
  /\ \A k \in Nat : k + 1 <= Len(d) =>
       g[k + 1] = PutChar(g[k], d[k + 1]) /\ d[k + 1] \in Printed

LEMMA PrintStrRuns ==
  ASSUME NEW t \in Screens, NEW d \in Seq(Printed)
  PROVE  \E g : Run(g, t, d) /\ PrintStr(t, d) = g[Len(d)]
<1> DEFINE Eqn(g) == g = [s \in SUBSET DOMAIN d |->
             IF s = {} THEN t ELSE PutChar(g[s \ {Max(s)}], d[Max(s)])]
<1>1. PICK V : V = Alongside(t)
  OBVIOUS
<1>2. PICK n \in Nat : n = Len(d) /\ DOMAIN d = 1 .. n
  OBVIOUS
<1>3. PICK T : T = [p \in V \X Printed |-> PutChar(p[1], p[2])]
  OBVIOUS
<1>4. T \in [V \X Printed -> V]
  <2>1. ASSUME NEW p \in V \X Printed
        PROVE  PutChar(p[1], p[2]) \in V
    <3>1. /\ p[1] \in V /\ p[2] \in Printed
          /\ p[1] \in Screens /\ p[1].mouse = t.mouse
      BY <1>1 DEF Alongside
    <3>2. PutChar(p[1], p[2]) \in Screens /\ PutChar(p[1], p[2]).mouse = t.mouse
      BY <3>1, PutCharIsScreen
    <3>3. QED
      BY <1>1, <3>2 DEF Alongside
  <2>2. QED
    BY <1>3, <2>1, Zenon
<1>5. ASSUME NEW v \in V, NEW c \in Printed
      PROVE  T[<<v, c>>] = PutChar(v, c)
  BY <1>3
<1>6. PICK f \in [SUBSET (1 .. n) -> V] : IsFoldOver(f, d, V, t, T)
  <2>1. t \in V
    BY <1>1 DEF Alongside
  <2>2. QED
    BY <1>2, <1>4, <2>1, FoldOverExists, Zenon
<1>7. ASSUME NEW s \in SUBSET (1 .. n), s # {}
      PROVE  f[s] = PutChar(f[s \ {Max(s)}], d[Max(s)])
  <2>1. Max(s) \in 1 .. n /\ s \ {Max(s)} \in SUBSET (1 .. n)
    BY <1>7, MaxOfIndices
  <2>2. f[s \ {Max(s)}] \in V /\ d[Max(s)] \in Printed
    BY <1>2, <2>1
  <2>3. f[s] = T[<<f[s \ {Max(s)}], d[Max(s)]>>]
    BY <1>2, <1>6, <1>7, <2>2, Zenon DEF IsFoldOver
  <2>4. QED
    BY <1>5, <2>2, <2>3
<1>8. f[{}] = t
  BY <1>6 DEF IsFoldOver
<1>9. Eqn(f)
  BY <1>2, <1>7, <1>8
<1>10. PICK F : Eqn(F) /\ PrintStr(t, d) = F[DOMAIN d]
  <2> DEFINE g == CHOOSE h : Eqn(h)
  <2>1. Eqn(g)
    BY <1>9, Zenon
  <2>2. PrintStr(t, d) = g[DOMAIN d]
    BY Zenon DEF PrintStr, FoldLeft, MapThenFoldSet
  <2>3. QED
    BY <2>1, <2>2, Zenon
<1>11. ASSUME NEW s \in SUBSET (1 .. n), s # {}, F[s \ {Max(s)}] \in V
       PROVE  F[s] = T[<<F[s \ {Max(s)}], d[Max(s)]>>]
  <2>1. Max(s) \in 1 .. n
    BY <1>11, MaxOfIndices
  <2>2. F[s] = PutChar(F[s \ {Max(s)}], d[Max(s)])
    BY <1>2, <1>10, <1>11
  <2>3. d[Max(s)] \in Printed
    BY <1>2, <2>1
  <2>4. QED
    BY <1>5, <1>11, <2>2, <2>3
<1>12. F[{}] = t
  BY <1>2, <1>10
<1>13. IsFoldOver(F, d, V, t, T)
  BY <1>2, <1>11, <1>12 DEF IsFoldOver
<1>14. /\ F[1 .. 0] = t
       /\ \A k \in Nat : k <= Len(d) => F[1 .. k] \in V
       /\ \A k \in Nat : k + 1 <= Len(d) =>
            F[1 .. (k + 1)] = T[<<F[1 .. k], d[k + 1]>>]
  <2>1. t \in V
    BY <1>1 DEF Alongside
  <2>2. GrowsByOne(F, d, V, t, T)
    BY <1>4, <1>13, <2>1, FoldOverPrefix, Zenon
  <2>3. QED
    BY <2>2 DEF GrowsByOne
<1>15. PICK g : g = [k \in Nat |-> F[1 .. k]]
  OBVIOUS
<1>16. ASSUME NEW k \in Nat, k + 1 <= Len(d)
       PROVE  g[k + 1] = PutChar(g[k], d[k + 1]) /\ d[k + 1] \in Printed
  <2>1. k + 1 \in 1 .. Len(d) /\ k <= Len(d) /\ k + 1 \in Nat
    BY <1>2, <1>16
  <2>2. F[1 .. k] \in V /\ d[k + 1] \in Printed
    BY <1>14, <2>1
  <2>3. F[1 .. (k + 1)] = PutChar(F[1 .. k], d[k + 1])
    BY <1>5, <1>14, <1>16, <2>2
  <2>4. QED
    BY <1>15, <2>1, <2>2, <2>3
<1>17. /\ g[0] = t
       /\ \A k \in Nat : k <= Len(d) => g[k] \in Screens /\ g[k].mouse = t.mouse
  BY <1>1, <1>14, <1>15 DEF Alongside
<1>18. PrintStr(t, d) = g[Len(d)]
  BY <1>2, <1>10, <1>15
<1>19. QED
  BY <1>16, <1>17, <1>18 DEF Run

LEMMA PrintStrIsScreen ==
  ASSUME NEW t \in Screens, NEW d \in Seq(Printed)
  PROVE  PrintStr(t, d) \in Screens /\ PrintStr(t, d).mouse = t.mouse
<1>1. PICK g : Run(g, t, d) /\ PrintStr(t, d) = g[Len(d)]
  BY PrintStrRuns
<1>2. QED
  BY <1>1 DEF Run

(* After two ordinary characters in a row the view has followed, wherever   *)
(* it was, and stays with the cursor for the rest of the text.              *)
LEMMA PrintMakesRoom ==
  ASSUME NEW t \in Screens, NEW d \in Seq(Printed \ {Backspace}), NEW k \in Nat,
         k > 0, k + 1 <= Len(d), Ordinary(d[k]), Ordinary(d[k + 1])
  PROVE  Roomy(PrintStr(t, d))
<1>1. d \in Seq(Printed) /\ Len(d) \in Nat
  OBVIOUS
<1>2. PICK g : Run(g, t, d) /\ PrintStr(t, d) = g[Len(d)]
  BY <1>1, PrintStrRuns
<1>3. ASSUME NEW j \in Nat, j + 1 <= Len(d)
      PROVE  /\ g[j] \in Screens /\ g[j + 1] = PutChar(g[j], d[j + 1])
             /\ d[j + 1] \in Printed /\ d[j + 1] # Backspace
  <2>1. j + 1 \in 1 .. Len(d) /\ j <= Len(d)
    BY <1>1, <1>3
  <2>2. QED
    BY <1>2, <1>3, <2>1 DEF Run
<1>4. g[k].esc_state = 0
  <2>1. PICK j \in Nat : j + 1 = k
    <3>1. k - 1 \in Nat /\ (k - 1) + 1 = k
      OBVIOUS
    <3>2. QED
      BY <3>1
  <2>2. j + 1 <= Len(d)
    BY <1>1, <2>1
  <2>3. g[j] \in Screens /\ g[k] = PutChar(g[j], d[k]) /\ d[k] \in Printed
    BY <1>3, <2>1, <2>2
  <2>4. PutChar(g[j], d[k]).esc_state = 0
    BY <2>3, PutCharIsScreen, Zenon
  <2>5. QED
    BY <2>3, <2>4
<1>5. Roomy(g[k + 1])
  <2>1. /\ g[k] \in Screens /\ g[k + 1] = PutChar(g[k], d[k + 1])
        /\ d[k + 1] \in Printed /\ d[k + 1] # Backspace
    BY <1>3
  <2>2. d[k + 1] # Esc
    BY DEF Ordinary
  <2>3. QED
    BY <1>4, <2>1, <2>2, PutCharIsScreen
<1> DEFINE P == {i \in Nat : i <= Len(d) /\ k + 1 <= i => Roomy(g[i])}
<1>6. 0 \in P
  OBVIOUS
<1>7. ASSUME NEW i \in Nat, i \in P
      PROVE  i + 1 \in P
  <2>1. CASE i + 1 <= Len(d) /\ k + 1 <= i
    <3>1. Roomy(g[i])
      BY <1>1, <1>7, <2>1
    <3>2. /\ g[i] \in Screens /\ g[i + 1] = PutChar(g[i], d[i + 1])
          /\ d[i + 1] \in Printed /\ d[i + 1] # Backspace
      BY <1>3, <2>1
    <3>3. Roomy(g[i + 1])
      BY <3>1, <3>2, PutCharIsScreen
    <3>4. QED
      BY <3>3
  <2>2. CASE i = k
    BY <1>5, <2>2
  <2>3. CASE ~(i + 1 <= Len(d) /\ k + 1 <= i) /\ i # k
    BY <1>1, <2>3
  <2>4. QED
    BY <2>1, <2>2, <2>3
<1> HIDE DEF P
<1>8. Len(d) \in P
  <2>1. \A i \in Nat : i \in P => i + 1 \in P
    BY <1>7
  <2>2. QED
    BY <1>1, <1>6, <2>1, InductionOnNat
<1>9. QED
  BY <1>1, <1>2, <1>8 DEF P

(* screen_scroll_view                                                       *)
LEMMA ScrollViewIsScreen ==
  ASSUME NEW s \in Screens, NEW delta \in Int
  PROVE  /\ ScrollView(s, delta) \in Screens /\ Roomy(ScrollView(s, delta))
         /\ ScrollView(s, delta).mouse = s.mouse
         /\ ScrollView(s, delta).esc_state = s.esc_state
<1>1. s \in Drafts /\ s.scroll_off \in Int
  BY DEF Screens, Drafts, DraftFields, Scrolls
<1>2. PICK v \in Int : v = s.scroll_off + delta
  BY <1>1
<1>3. ScrollView(s, delta) = Redraw(ClampScroll(Scrolled(s, v)))
  BY <1>1, <1>2 DEF ScrollView, Scrolled, Drafts, DraftFields
<1>4. PICK w \in Scrolls : /\ ScrollView(s, delta) = Redraw(Scrolled(s, w))
                          /\ Roomy(Scrolled(s, w))
  BY <1>1, <1>3, ClampsIntoLog
<1>5. PICK t \in Drafts : /\ t = Scrolled(s, w) /\ InRow(t)
                          /\ t.esc_state = s.esc_state /\ t.mouse = s.mouse
  BY <1>1, ScrolledIsDraft DEF Screens, InRow
<1>6. ScrollView(s, delta) \in Placed(t) /\ ScrollView(s, delta).esc_state = s.esc_state
  BY <1>4, <1>5, RedrawIsScreen
<1>7. QED
  BY <1>4, <1>5, <1>6, PlacedKeepsRoom DEF Placed, Roomy

-----------------------------------------------------------------------------
(* Every text that is printed is one of the messages, the prompt, or both   *)
(* after a newline.                                                         *)
LEMMA TextsArePrinted ==
  ASSUME NEW said \in Messages
  PROVE  /\ Prompt \in Seq(Printed) /\ said \in Seq(Printed)
         /\ <<Newline>> \o said \in Seq(Printed)
         /\ <<Newline>> \o (said \o Prompt) \in Seq(Printed)
<1>1. ASSUME NEW text \in Messages \cup {Prompt}
      PROVE  text \in Seq(Printed)
  <2>1. ToSet(text) \subseteq Printed
    BY TerminalAssumption DEF Printed, TextChars
  <2>2. text \in Seq(ToSet(text))
    BY TerminalAssumption
  <2>3. QED
    BY <2>1, <2>2
<1>2. <<Newline>> \in Seq(Printed)
  <2>1. Newline \in Printed
    BY TerminalAssumption DEF Printed, TextChars
  <2>2. QED
    BY <2>1
<1>3. Prompt \in Seq(Printed) /\ said \in Seq(Printed)
  BY <1>1
<1>4. said \o Prompt \in Seq(Printed)
  BY <1>3, ConcatProperties
<1>5. QED
  BY <1>2, <1>3, <1>4, ConcatProperties

LEMMA PromptIsPrinted ==
  Prompt \in Seq(Printed) /\ Banner \in Seq(Printed) /\ Greeting \in Seq(Printed)
<1>1. ASSUME NEW text \in {Banner, Greeting, Prompt}
      PROVE  text \in Seq(Printed)
  <2>1. ToSet(text) \subseteq Printed
    BY TerminalAssumption DEF Printed, TextChars
  <2>2. text \in Seq(ToSet(text))
    BY TerminalAssumption
  <2>3. QED
    BY <2>1, <2>2
<1>2. QED
  BY <1>1

(* The screen before the first prompt: the greeting ends with a newline,    *)
(* which ends an escape sequence too.                                       *)
Greeted == PrintStr(ScreenAtBoot, Greeting)

LEMMA GreetedIsScreen ==
  Greeted \in Screens /\ Greeted.mouse = MouseOn /\ Greeted.esc_state = 0
<1>1. PICK t \in Screens : t = PrintStr(ClearScreen(PowerOn), Banner)
  BY PowerOnIsScreen, ClearScreenIsScreen, PromptIsPrinted, PrintStrIsScreen
<1>2. PICK u \in Screens : u = ScreenAtBoot /\ u.mouse = MouseOn
  BY <1>1, ScreenMouseSetCellIsScreen DEF ScreenAtBoot
<1>3. PICK g : Run(g, u, Greeting) /\ Greeted = g[Len(Greeting)]
  BY <1>2, PromptIsPrinted, PrintStrRuns DEF Greeted
<1>4. PICK n \in Nat : n + 1 = Len(Greeting) /\ Greeting[n + 1] = Newline
  <2>1. Len(Greeting) \in Nat /\ Len(Greeting) # 0
    BY PromptIsPrinted, PromptAssumption, EmptySeq
  <2>2. Len(Greeting) - 1 \in Nat /\ (Len(Greeting) - 1) + 1 = Len(Greeting)
    BY <2>1
  <2>3. Greeting[Len(Greeting)] = Newline
    BY PromptAssumption DEF Last
  <2>4. QED
    BY <2>2, <2>3
<1>5. g[n] \in Screens /\ g[n + 1] = PutChar(g[n], Newline) /\ Newline \in Printed
  BY <1>3, <1>4 DEF Run
<1>6. Ordinary(Newline)
  BY PromptAssumption DEF Ordinary, EscChars
<1>7. Greeted.esc_state = 0
  BY <1>3, <1>4, <1>5, <1>6, PutCharIsScreen
<1>8. QED
  BY <1>2, <1>7, PromptIsPrinted, PrintStrIsScreen DEF Greeted

(* The mouse cursor that mouse_init shows is never lost.                    *)
ScreenInv == screen \in Screens /\ screen.mouse = MouseOn

LEMMA TerminalInitScreen == TerminalInit => ScreenInv
<1>1. /\ PrintStr(Greeted, Prompt) \in Screens
      /\ PrintStr(Greeted, Prompt).mouse = MouseOn
  BY GreetedIsScreen, PromptIsPrinted, PrintStrIsScreen
<1>2. QED
  BY <1>1 DEF TerminalInit, ScreenInv, Greeted

LEMMA EchoKeepsScreen ==
  ASSUME ScreenInv, NEW c \in Keys, Echo(c)
  PROVE  ScreenInv'
<1> USE DEF ScreenInv
<1>1. CASE EchoEnter
  <2>1. PICK said \in Messages :
          \/ screen' = PrintStr(screen, <<Newline>> \o
                          (IF con_state' = "LOCKOUT" THEN said ELSE said \o Prompt))
          \/ screen' = PrintStr(ClearScreen(screen), Prompt)
    BY <1>1, Zenon DEF EchoEnter
  <2>2. CASE screen' = PrintStr(ClearScreen(screen), Prompt)
    BY <2>2, ClearScreenIsScreen, PromptIsPrinted, PrintStrIsScreen
  <2>3. CASE screen' = PrintStr(screen, <<Newline>> \o said)
    BY <2>3, TextsArePrinted, PrintStrIsScreen
  <2>4. CASE screen' = PrintStr(screen, <<Newline>> \o (said \o Prompt))
    BY <2>4, TextsArePrinted, PrintStrIsScreen
  <2>5. QED
    BY <2>1, <2>2, <2>3, <2>4
<1>2. CASE screen' = screen
  BY <1>2
<1>3. ASSUME NEW d \in {Backspace, Star} \cup Chars, screen' = PutChar(screen, d)
      PROVE  ScreenInv'
  <2>1. d \in Printed
    BY TerminalAssumption DEF Printed, TextChars
  <2>2. QED
    BY <1>3, <2>1, PutCharIsScreen
<1>4. CASE c = Backspace /\ screen' = PutChar(screen, Backspace)
  BY <1>3, <1>4
<1>5. CASE c \in Chars /\ screen' = PutChar(screen, Echoed(c))
  BY <1>3, <1>5 DEF Echoed
<1>6. QED
  BY <1>1, <1>2, <1>4, <1>5 DEF Echo

LEMMA TerminalKeepsScreen == ScreenInv /\ [TerminalNext]_terminalVars => ScreenInv'
<1> SUFFICES ASSUME ScreenInv, [TerminalNext]_terminalVars PROVE ScreenInv'
  OBVIOUS
<1>1. CASE TypeKey
  BY <1>1, EchoKeepsScreen DEF TypeKey
<1>2. CASE ScrollKey
  <2>1. PICK delta \in Int : screen' = ScrollView(screen, delta)
    BY <1>2 DEF ScrollKey
  <2>2. QED
    BY <2>1, ScrollViewIsScreen DEF ScreenInv
<1>3. CASE UNCHANGED terminalVars
  BY <1>3 DEF terminalVars, ScreenInv
<1>4. QED
  BY <1>1, <1>2, <1>3 DEF TerminalNext

(* The screen never uses an index outside the log, the display or the       *)
(* buffer of an escape sequence, however long the session, whatever is      *)
(* typed and printed, and where the cursor stands when it is: the row and   *)
(* the column are in range whenever a character has been put, the view is   *)
(* MaxRows rows of the log, and esc_buf keeps room for its end.  The mouse  *)
(* cursor stays on at its place on the display, and what it inverts is the  *)
(* display's cell there, never one of the log.                              *)
THEOREM SpecScreenInv == TerminalSpec => []ScreenInv
<1>1. QED
  BY TerminalInitScreen, TerminalKeepsScreen, PTL DEF TerminalSpec

(* A place in the log behind the cursor's, as a row and a column.           *)
LEMMA PlaceIsBehind ==
  ASSUME NEW row \in LogRows, NEW col \in Columns, NEW p \in Int,
         row * MaxCols + col <= p, p <= MaxLog * MaxCols - 1
  PROVE  /\ p \div MaxCols \in LogRows /\ p % MaxCols \in Columns
         /\ \/ p \div MaxCols > row
            \/ p \div MaxCols = row /\ p % MaxCols >= col
<1> USE ScreenNumbers
<1>1. /\ row \in Nat /\ row < MaxLog /\ col \in Nat /\ col < MaxCols
      /\ row * MaxCols \in Nat /\ MaxLog * MaxCols \in Nat /\ p \in Nat
  BY DEF LogRows, Columns
<1>2. PICK q \in Nat, r \in Nat :
        q = p \div MaxCols /\ r = p % MaxCols /\ p = q * MaxCols + r /\ r < MaxCols
  <2>1. /\ p \div MaxCols \in Nat /\ p % MaxCols \in Nat /\ p % MaxCols < MaxCols
        /\ p = (p \div MaxCols) * MaxCols + (p % MaxCols)
    BY <1>1
  <2>2. QED
    BY <2>1
<1>3. q < MaxLog
  <2>1. CASE MaxLog <= q
    <3>1. MaxLog * MaxCols <= q * MaxCols
      BY <2>1, ProductGrows
    <3>2. q * MaxCols \in Nat
      OBVIOUS
    <3>3. QED
      BY <1>1, <1>2, <3>1, <3>2
  <2>2. QED
    BY <2>1
<1>4. row <= q
  <2>1. CASE q + 1 <= row
    <3>1. (q + 1) * MaxCols <= row * MaxCols
      BY <1>1, <2>1, ProductGrows
    <3>2. (q + 1) * MaxCols = q * MaxCols + MaxCols /\ q * MaxCols \in Nat
      OBVIOUS
    <3>3. QED
      BY <1>1, <1>2, <3>1, <3>2
  <2>2. QED
    BY <1>1, <2>1
<1>5. q = row => r >= col
  <2>1. row * MaxCols \in Nat
    BY <1>1
  <2>2. QED
    BY <1>1, <1>2, <2>1
<1>6. QED
  BY <1>1, <1>2, <1>3, <1>4, <1>5 DEF LogRows, Columns

(* From the cursor on the log is blank: text that was taken back is gone,   *)
(* and a row that is entered is empty, at the end of the log too.           *)
THEOREM SpecNothingAfterCursor == TerminalSpec => []NothingAfterCursor
<1>1. ASSUME ScreenInv PROVE NothingAfterCursor
  <2>1. /\ screen.cur_row \in LogRows /\ screen.cur_col \in Columns
        /\ BlankFrom(screen.lines, screen.cur_row, screen.cur_col)
    BY <1>1, ScreenNumbers
       DEF ScreenInv, Screens, Drafts, DraftFields, InRow, Columns
  <2>2. ASSUME NEW p \in Cursor .. MaxLog * MaxCols - 1
        PROVE  CellAt(p).char = Blank
    <3>1. Cursor \in Int /\ MaxLog * MaxCols \in Int
      BY <2>1, ScreenNumbers DEF Cursor, LogRows, Columns
    <3>2. p \in Int /\ Cursor <= p /\ p <= MaxLog * MaxCols - 1
      BY <3>1
    <3>3. /\ p \div MaxCols \in LogRows /\ p % MaxCols \in Columns
          /\ \/ p \div MaxCols > screen.cur_row
             \/ p \div MaxCols = screen.cur_row /\ p % MaxCols >= screen.cur_col
      BY <2>1, <3>2, PlaceIsBehind DEF Cursor
    <3>4. QED
      BY <2>1, <3>3, Zenon DEF BlankFrom, CellAt
  <2>3. QED
    BY <2>2 DEF NothingAfterCursor
<1>2. QED
  BY <1>1, SpecScreenInv, PTL

-----------------------------------------------------------------------------
(* As long as no Esc was typed, every character of the line can be taken    *)
(* back without the cursor leaving the view at its top; inside an escape    *)
(* sequence that something printed left open, a whole line can.             *)
LineInView ==
  con_state # "LOCKOUT" /\ Esc \notin ToSet(typed) =>
    /\ Room(screen, Len(ActiveLine))
    /\ screen.esc_state # 0 => Roomy(screen)
ViewInv == EditInv /\ ScreenInv /\ LineInView

LEMMA LessRoom ==
  ASSUME NEW s \in Screens, NEW n \in Int, NEW m \in Int, n <= m, Room(s, m)
  PROVE  Room(s, n)
<1>1. s.cur_row \in Int /\ s.cur_col \in Int /\ s.scroll_off \in Int
  BY ScreenNumbers DEF Screens, Drafts, DraftFields, Scrolls, LogRows
<1>2. PICK a \in Int, b \in Int : a = s.scroll_off * MaxCols /\ b = Place(s)
  BY <1>1, ScreenNumbers DEF Place
<1>3. QED
  BY <1>2 DEF Room

LEMMA LineFits ==
  ASSUME IInv
  PROVE  Len(ActiveLine) \in Nat /\ Len(ActiveLine) <= (MaxRows - 1) * MaxCols
<1>1. PICK full \in Int : full = (MaxRows - 1) * MaxCols
  BY ScreenNumbers
<1>2. GateLineLen - 1 <= full /\ ShellLineLen - 1 <= full
  BY <1>1, TerminalAssumption
<1>3. Len(gate_line) <= GateLineLen - 1 /\ Len(shell_line) <= ShellLineLen - 1
  BY ConsoleAssumption DEF IInv, ConsoleTypeOK
<1>4. Len(gate_line) \in Nat /\ Len(shell_line) \in Nat
  BY DEF IInv, ConsoleTypeOK
<1>5. QED
  BY <1>1, <1>2, <1>3, <1>4, ConsoleAssumption DEF ActiveLine

LEMMA RoomyIsLineInView == IInv /\ ScreenInv /\ Roomy(screen) => LineInView
<1> SUFFICES ASSUME IInv, ScreenInv, Roomy(screen) PROVE LineInView
  OBVIOUS
<1>1. Room(screen, Len(ActiveLine))
  <2>1. (MaxRows - 1) * MaxCols \in Int
    BY ScreenNumbers
  <2>2. QED
    BY <2>1, LineFits, LessRoom DEF ScreenInv, Roomy
<1>2. QED
  BY <1>1 DEF LineInView

LEMMA BackspacedLength ==
  ASSUME NEW line \in Seq(Chars), line # <<>>
  PROVE  Len(Backspaced(line)) = Len(line) - 1
<1>1. Len(line) \in Nat /\ Len(line) # 0
  OBVIOUS
<1>2. \A i \in 1 .. Len(line) - 1 : line[i] \in Chars
  BY <1>1
<1>3. PICK m \in Nat : m = Len(line) /\ m # 0
  BY <1>1
<1>4. Len(Backspaced(line)) = IF 1 <= m - 1 THEN (m - 1) - 1 + 1 ELSE 0
  BY <1>2, <1>3, SubSeqProperties DEF Backspaced
<1>5. QED
  BY <1>3, <1>4

LEMMA ConsProperties ==
  ASSUME NEW E, NEW c \in E, NEW d \in Seq(E)
  PROVE  /\ <<c>> \o d \in Seq(E) /\ Len(<<c>> \o d) = 1 + Len(d)
         /\ \A i \in 1 .. Len(d) : (<<c>> \o d)[1 + i] = d[i]
<1>1. PICK one \in Seq(E) : one = <<c>> /\ Len(one) = 1
  <2>1. <<c>> \in Seq(E)
    OBVIOUS
  <2>2. Len(<<c>>) = 1
    OBVIOUS
  <2>3. QED
    BY <2>1, <2>2
<1>2. PICK n \in Nat : n = Len(d)
  OBVIOUS
<1>3. /\ one \o d \in Seq(E) /\ Len(one \o d) = 1 + n
      /\ \A i \in 1 .. 1 + n :
           (one \o d)[i] = IF i <= 1 THEN one[i] ELSE d[i - 1]
  BY <1>1, <1>2, ConcatProperties
<1>4. ASSUME NEW i \in 1 .. n
      PROVE  (one \o d)[1 + i] = d[i]
  <2>1. 1 + i \in 1 .. 1 + n /\ ~(1 + i <= 1) /\ (1 + i) - 1 = i
    OBVIOUS
  <2>2. (one \o d)[1 + i] = d[(1 + i) - 1]
    BY <1>3, <2>1, Zenon
  <2>3. QED
    BY <2>1, <2>2
<1>5. QED
  BY <1>1, <1>2, <1>3, <1>4

LEMMA RoomyThenLineInView ==
  (IInv /\ ScreenInv /\ Roomy(screen))' => LineInView'
BY RoomyIsLineInView, PTL

(* A prompt is seen.                                                        *)
LEMMA PromptMakesRoom ==
  ASSUME NEW t \in Screens
  PROVE  /\ Roomy(PrintStr(t, Prompt))
         /\ \A said \in Messages : Roomy(PrintStr(t, <<Newline>> \o (said \o Prompt)))
<1> DEFINE E == Printed \ {Backspace}
<1>1. ASSUME NEW text \in Messages \cup {Prompt}
      PROVE  text \in Seq(E)
  <2>1. ToSet(text) \subseteq E
    BY TerminalAssumption DEF Printed, TextChars
  <2>2. text \in Seq(ToSet(text))
    BY TerminalAssumption
  <2>3. QED
    BY <2>1, <2>2
<1>2. Newline \in E
  BY TerminalAssumption, ControlCharsDiffer DEF Printed, TextChars
<1> HIDE DEF E
<1>3. PICK k \in 1 .. Len(Prompt) - 1 : Ordinary(Prompt[k]) /\ Ordinary(Prompt[k + 1])
  BY TerminalAssumption DEF Ordinary, EscChars
<1>4. Prompt \in Seq(E) /\ Len(Prompt) \in Nat
  BY <1>1
<1>5. k \in Nat /\ k > 0 /\ k + 1 <= Len(Prompt)
  BY <1>4
<1>6. Roomy(PrintStr(t, Prompt))
  BY <1>3, <1>4, <1>5, PrintMakesRoom DEF E
<1>7. ASSUME NEW said \in Messages
      PROVE  Roomy(PrintStr(t, <<Newline>> \o (said \o Prompt)))
  <2>1. PICK d : d = said \o Prompt
    OBVIOUS
  <2>2. PICK e : e = <<Newline>> \o d
    OBVIOUS
  <2>3. said \in Seq(E) /\ Len(said) \in Nat
    BY <1>1
  <2>4. /\ d \in Seq(E) /\ Len(d) = Len(said) + Len(Prompt)
        /\ \A i \in 1 .. Len(Prompt) : d[Len(said) + i] = Prompt[i]
    BY <1>4, <2>1, <2>3, ConcatProperties
  <2>5. <<Newline>> \in Seq(E) /\ Len(<<Newline>>) = 1
    BY <1>2
  <2>6. /\ e \in Seq(E) /\ Len(e) = 1 + Len(d)
        /\ \A i \in 1 .. Len(d) : e[1 + i] = d[i]
    BY <1>2, <2>2, <2>4, ConsProperties, ZenonT(40)
  <2>7. PICK j \in Nat : j = 1 + (Len(said) + k)
    BY <1>5, <2>3
  <2>8. j > 0 /\ j + 1 <= Len(e)
    BY <1>4, <1>5, <2>3, <2>4, <2>6, <2>7
  <2>9. e[j] = Prompt[k] /\ e[j + 1] = Prompt[k + 1]
    <3>1. k \in 1 .. Len(Prompt) /\ k + 1 \in 1 .. Len(Prompt)
      BY <1>4, <1>5
    <3>2. /\ d[Len(said) + k] = Prompt[k] /\ d[Len(said) + (k + 1)] = Prompt[k + 1]
      BY <2>4, <3>1
    <3>3. Len(said) + k \in 1 .. Len(d) /\ Len(said) + (k + 1) \in 1 .. Len(d)
      BY <1>4, <1>5, <2>3, <2>4
    <3>4. e[1 + (Len(said) + k)] = Prompt[k] /\ e[1 + (Len(said) + (k + 1))] = Prompt[k + 1]
      BY <2>6, <3>2, <3>3
    <3>5. j + 1 = 1 + (Len(said) + (k + 1))
      BY <1>5, <2>3, <2>7
    <3>6. QED
      BY <2>7, <3>4, <3>5
  <2>10. QED
    BY <1>3, <2>1, <2>2, <2>6, <2>8, <2>9, PrintMakesRoom DEF E
<1>8. QED
  BY <1>6, <1>7

LEMMA TerminalInitView == TerminalInit => ViewInv
<1> SUFFICES ASSUME TerminalInit PROVE ViewInv
  OBVIOUS
<1>1. EditInv /\ ScreenInv
  BY EditorInitEdited, TerminalInitScreen DEF TerminalInit
<1>2. Roomy(screen)
  BY GreetedIsScreen, PromptMakesRoom DEF TerminalInit, Greeted
<1>3. QED
  BY <1>1, <1>2, RoomyIsLineInView DEF ViewInv, EditInv

(* A key that is not Enter: backspace takes one place of the screen for one *)
(* character of the line, and what is put brings the view along.            *)
LEMMA KeyKeepsLineInView ==
  ASSUME ViewInv, IInv', ScreenInv', con_state # "LOCKOUT",
         NEW c \in Keys, c # Newline, EditorKey(c), Echo(c), Esc \notin ToSet(typed')
  PROVE  LineInView'
<1> USE ControlCharsDiffer
<1>1. /\ con_state' = con_state /\ typed' = Append(typed, c) /\ typed \in Seq(TypedKeys)
      /\ screen \in Screens
  <2>1. OnKey(c) /\ con_state \in {"PIN", "GATE", "SHELL"} /\ typed \in Seq(TypedKeys)
    BY DEF EditorKey, ViewInv, EditInv, IInv, ConsoleTypeOK, ConsoleState
  <2>2. QED
    BY <2>1 DEF OnKey, ShellKey, GateKey, EditorKey, ViewInv, ScreenInv
<1>2. c # Esc /\ Esc \notin ToSet(typed)
  <2>1. c \in TypedKeys
    BY DEF Keys, TypedKeys
  <2>2. /\ Len(typed') = Len(typed) + 1 /\ Len(typed) \in Nat
        /\ typed'[Len(typed) + 1] = c
        /\ \A i \in 1 .. Len(typed) : typed'[i] = typed[i]
    BY <1>1, <2>1, AppendProperties
  <2>3. ToSet(typed') = {typed'[i] : i \in 1 .. Len(typed) + 1}
    BY <1>1, <2>1, <2>2 DEF ToSet
  <2>4. ToSet(typed) = {typed[i] : i \in 1 .. Len(typed)}
    BY <1>1 DEF ToSet
  <2>5. QED
    BY <2>2, <2>3, <2>4
<1>3. Room(screen, Len(ActiveLine)) /\ (screen.esc_state # 0 => Roomy(screen))
  BY <1>2 DEF ViewInv, LineInView
<1>4. PICK line, new : line = ActiveLine /\ new = ActiveLine'
  OBVIOUS
<1>5. line \in Seq(Chars) /\ new \in Seq(Chars) /\ Len(line) \in Nat /\ Len(new) \in Nat
  BY <1>1, <1>4 DEF ActiveLine, ViewInv, EditInv, IInv, ConsoleTypeOK
<1>6. CASE screen' = screen /\ Len(new) <= Len(line)
  <2>1. Room(screen, Len(new))
    BY <1>1, <1>3, <1>4, <1>5, <1>6, LessRoom
  <2>2. QED
    BY <1>3, <1>4, <1>6, <2>1 DEF LineInView
<1>7. CASE c = Backspace /\ line # <<>> /\ screen' = PutChar(screen, Backspace)
  <2>1. Len(line) = Len(new) + 1
    <3>1. new = Backspaced(line)
      BY <1>1, <1>4, <1>7, ConsoleAssumption
     
         DEF ActiveLine, EditorKey, OnKey, GateKey, ShellKey, ViewInv, EditInv, IInv,
          ConsoleTypeOK, ConsoleState
    <3>2. Len(line) # 0 /\ Len(line) \in Nat
      BY <1>5, <1>7
    <3>3. Len(SubSeq(line, 1, Len(line) - 1)) = Len(line) - 1
      BY <1>5, <1>7, BackspacedLength DEF Backspaced
    <3>4. QED
      BY <1>5, <3>1, <3>2, <3>3 DEF Backspaced
  <2>2. Backspace \in Printed /\ Backspace # Esc
    BY <1>2, <1>7, TerminalAssumption DEF Printed, TextChars
  <2>3. CASE screen.esc_state # 0
    <3>1. screen' \in Placed(screen) /\ Roomy(screen)
      BY <1>1, <1>3, <1>7, <2>2, <2>3, PutCharIsScreen
    <3>2. Roomy(screen')
      BY <3>1, PlacedKeepsRoom DEF Roomy
    <3>3. Roomy(screen)'
      BY <3>2 DEF Roomy, Room, Place
    <3>4. QED
      BY <3>3, RoomyThenLineInView
  <2>4. CASE screen.esc_state = 0
    <3>1. screen' = PutPlain(screen, Backspace)
      BY <1>7, <2>2, <2>4 DEF PutChar
    <3>2. Room(screen', Len(new)) /\ screen'.esc_state = 0
      BY <1>1, <1>3, <1>4, <1>5, <2>1, <2>2, <2>4, <3>1, PutPlainIsScreen
    <3>3. QED
      BY <1>4, <3>2 DEF LineInView, Room, Place
  <2>5. QED
    BY <2>3, <2>4
<1>8. CASE c \in Chars /\ screen' = PutChar(screen, Echoed(c))
  <2>1. PICK e \in Printed : e = Echoed(c) /\ e \notin {Backspace, Esc}
    BY <1>2, <1>8, TerminalAssumption, ConsoleAssumption
       DEF Echoed, Printed, TextChars
  <2>2. Roomy(screen')
    BY <1>1, <1>3, <1>8, <2>1, PutCharIsScreen
  <2>3. Roomy(screen)'
    BY <2>2 DEF Roomy, Room, Place
  <2>4. QED
    BY <2>3, RoomyThenLineInView
<1>9. CASE c = Backspace /\ line = <<>> /\ screen' = screen
  <2>1. new = <<>>
    BY <1>1, <1>4, <1>9, ConsoleAssumption
    DEF ActiveLine, EditorKey, OnKey, GateKey, ShellKey, ViewInv, EditInv, IInv,
        ConsoleTypeOK, ConsoleState
  <2>2. QED
    BY <1>6, <1>9, <2>1
<1>10. CASE c \in Chars /\ ~(Len(new) > Len(line)) /\ screen' = screen
  BY <1>5, <1>6, <1>10
<1>11. QED
  BY <1>4, <1>7, <1>8, <1>9, <1>10 DEF Echo

LEMMA TerminalKeepsView == ViewInv /\ [TerminalNext]_terminalVars => ViewInv'
<1> SUFFICES ASSUME ViewInv, [TerminalNext]_terminalVars PROVE ViewInv'
  OBVIOUS
<1>1. EditInv' /\ ScreenInv' /\ IInv'
  BY TerminalKeepsEdited, TerminalKeepsScreen DEF ViewInv, EditInv
<1>2. screen \in Screens
  BY DEF ViewInv, ScreenInv
<1>3. Roomy(screen') => LineInView'
  <2>1. Roomy(screen') => Roomy(screen)'
    BY DEF Roomy, Room, Place
  <2>2. QED
    BY <1>1, <2>1, RoomyThenLineInView
<1>4. CASE TypeKey
  <2>1. PICK c \in Keys : con_state # "LOCKOUT" /\ EditorKey(c) /\ Echo(c)
    BY <1>4 DEF TypeKey
  <2>2. CASE con_state' = "LOCKOUT" \/ Esc \in ToSet(typed')
    BY <1>1, <2>2 DEF LineInView, ViewInv
  <2>3. CASE c = Newline /\ con_state' # "LOCKOUT"
    <3>1. EchoEnter
      BY <2>1, <2>3, ConsoleAssumption, ControlCharsDiffer DEF Echo
    <3>2. \/ screen' = PrintStr(ClearScreen(screen), Prompt)
          \/ \E said \in Messages :
               screen' = PrintStr(screen, <<Newline>> \o (said \o Prompt))
      BY <2>3, <3>1, Zenon DEF EchoEnter
    <3>3. Roomy(screen')
      BY <1>2, <3>2, ClearScreenIsScreen, PromptMakesRoom
    <3>4. QED
      BY <1>1, <1>3, <3>3 DEF ViewInv
  <2>4. CASE c # Newline /\ Esc \notin ToSet(typed')
    BY <1>1, <2>1, <2>4, KeyKeepsLineInView DEF ViewInv
  <2>5. QED
    BY <1>1, <2>2, <2>3, <2>4 DEF ViewInv
<1>5. CASE ScrollKey
  <2>1. PICK delta \in Int : screen' = ScrollView(screen, delta)
    BY <1>5 DEF ScrollKey
  <2>2. Roomy(screen')
    BY <1>2, <2>1, ScrollViewIsScreen
  <2>3. QED
    BY <1>1, <1>3, <2>2 DEF ViewInv
<1>6. CASE UNCHANGED terminalVars
  BY <1>1, <1>6 DEF terminalVars, editorVars, consoleVars, ViewInv, LineInView,
                    ActiveLine, Room, Roomy, Place
<1>7. QED
  BY <1>4, <1>5, <1>6 DEF TerminalNext

LEMMA MouseShows ==
  ASSUME NEW s, s.mouse = MouseOn, NEW r, NEW x, NEW cell
  PROVE  UnderCursor(s, r, x, cell) = Displayed(cell, r, x)
BY DEF MouseOn, UnderCursor, UnderMouse, Displayed

(* What is in the video memory is the log with the mouse cursor drawn where *)
(* it has always been, and the cursor of the log is not above the view:     *)
(* a line may wrap, the log may scroll and backspaces may take the cursor   *)
(* up again, but a line is too short to lead out of the view.               *)
THEOREM SpecVideoShowsView == TerminalSpec => []VideoShowsView
<1>1. ASSUME ViewInv PROVE VideoShowsView
  <2>1. VideoMatchesView
    <3>1. InView(screen) /\ screen.mouse = MouseOn
      BY <1>1 DEF ViewInv, ScreenInv, Screens
    <3>2. screen.scroll_off \in 0 .. MaxLog - MaxRows
      BY <1>1 DEF ViewInv, ScreenInv, Screens, Drafts, DraftFields, Scrolls
    <3>3. ASSUME NEW r \in ViewRows, NEW x \in Columns, NEW cell
          PROVE  UnderCursor(screen, r, x, cell) = Displayed(cell, r, x)
      BY <3>1, MouseShows DEF Displayed
    <3>4. QED
      BY <3>1, <3>2, <3>3 DEF InView, VideoMatchesView
  <2>2. ASSUME con_state # "LOCKOUT", Esc \notin ToSet(typed)
        PROVE  screen.scroll_off <= screen.cur_row
    <3>1. PICK v \in Nat, row \in Nat, col \in Nat :
            v = screen.scroll_off /\ row = screen.cur_row /\ col = screen.cur_col
      BY <1>1
         DEF ViewInv, ScreenInv, Screens, Drafts, DraftFields, Scrolls, LogRows
    <3>2. col < MaxCols
      BY <1>1, <3>1 DEF ViewInv, ScreenInv, Screens, InRow
    <3>3. PICK n \in Nat : n = Len(ActiveLine)
      BY <1>1, LineFits DEF ViewInv, EditInv
    <3>4. v = 0 \/ v * MaxCols + n <= row * MaxCols + col
      BY <1>1, <2>2, <3>1, <3>3 DEF ViewInv, LineInView, Room, Place
    <3>5. CASE row + 1 <= v
      <4>1. (row + 1) * MaxCols <= v * MaxCols
        BY <3>5, ScreenNumbers, ProductGrows
      <4>2. (row + 1) * MaxCols = row * MaxCols + MaxCols
        BY ScreenNumbers
      <4>3. PICK a \in Int, b \in Int : a = v * MaxCols /\ b = row * MaxCols
        BY ScreenNumbers
      <4>4. QED
        BY <3>2, <3>4, <3>5, <4>1, <4>2, <4>3, ScreenNumbers
    <3>6. QED
      BY <3>1, <3>5
  <2>3. QED
    BY <2>1, <2>2 DEF VideoShowsView
<1>2. QED
  BY <1>1, TerminalInitView, TerminalKeepsView, PTL DEF TerminalSpec
-----------------------------------------------------------------------------
(* The colour and the parser, which alone decide what a character looks     *)
(* like and whether it is seen.                                             *)
Ink(s) == <<s.current_attr, s.ansi_bold, s.esc_state, s.esc_buf>>

LEMMA InkOfScreen ==
  ASSUME NEW s \in Screens, NEW p \in Screens
  PROVE  /\ s \in DraftFields /\ s \in Drafts
         /\ Ink(s) = Ink(p) <=>
              /\ s.current_attr = p.current_attr /\ s.ansi_bold = p.ansi_bold
              /\ s.esc_state = p.esc_state /\ s.esc_buf = p.esc_buf
BY DEF Ink, Screens, Drafts

(* apply_sgr_token depends on the colour only.                              *)
LEMMA ApplySgrInk ==
  ASSUME NEW s \in Screens, NEW p \in Screens, Ink(s) = Ink(p), NEW code \in Nat
  PROVE  Ink(ApplySgr(s, code)) = Ink(ApplySgr(p, code))
<1>1. /\ s \in DraftFields /\ p \in DraftFields
      /\ s.current_attr = p.current_attr /\ s.ansi_bold = p.ansi_bold
      /\ s.esc_state = p.esc_state /\ s.esc_buf = p.esc_buf
  BY InkOfScreen
<1>2. CASE code = 0
  <2>1. /\ ApplySgr(s, code) = [s EXCEPT !.current_attr = Grey, !.ansi_bold = FALSE]
        /\ ApplySgr(p, code) = [p EXCEPT !.current_attr = Grey, !.ansi_bold = FALSE]
    BY <1>2 DEF ApplySgr
  <2>2. QED
    BY <1>1, <2>1 DEF Ink, DraftFields
<1>3. CASE code = 1
  <2>1. /\ ApplySgr(s, code) = [s EXCEPT !.ansi_bold = TRUE]
        /\ ApplySgr(p, code) = [p EXCEPT !.ansi_bold = TRUE]
    BY <1>3 DEF ApplySgr
  <2>2. QED
    BY <1>1, <2>1 DEF Ink, DraftFields
<1>4. CASE code = 22
  <2>1. /\ ApplySgr(s, code) = [s EXCEPT !.ansi_bold = FALSE]
        /\ ApplySgr(p, code) = [p EXCEPT !.ansi_bold = FALSE]
    BY <1>4 DEF ApplySgr
  <2>2. QED
    BY <1>1, <2>1 DEF Ink, DraftFields
<1>5. CASE code = 39
  <2>1. /\ ApplySgr(s, code) = [s EXCEPT !.current_attr = Grey]
        /\ ApplySgr(p, code) = [p EXCEPT !.current_attr = Grey]
    BY <1>5 DEF ApplySgr
  <2>2. QED
    BY <1>1, <2>1 DEF Ink, DraftFields
<1>6. CASE code \in 30 .. 37
  <2>1. PICK a : a = code - 30 + (IF s.ansi_bold THEN Bright ELSE 0)
    OBVIOUS
  <2>2. /\ ApplySgr(s, code) = [s EXCEPT !.current_attr = a]
        /\ ApplySgr(p, code) = [p EXCEPT !.current_attr = a]
    BY <1>1, <1>6, <2>1 DEF ApplySgr
  <2>3. QED
    BY <1>1, <2>2 DEF Ink, DraftFields
<1>7. CASE code \in 90 .. 97
  <2>1. PICK a : a = code - 90 + Bright
    OBVIOUS
  <2>2. /\ ApplySgr(s, code) = [s EXCEPT !.current_attr = a]
        /\ ApplySgr(p, code) = [p EXCEPT !.current_attr = a]
    BY <1>7, <2>1 DEF ApplySgr
  <2>3. QED
    BY <1>1, <2>2 DEF Ink, DraftFields
<1>8. CASE ~(code \in {0, 1, 22, 39} \/ code \in 30 .. 37 \/ code \in 90 .. 97)
  BY <1>1, <1>8 DEF ApplySgr, Ink
<1>9. QED
  BY <1>2, <1>3, <1>4, <1>5, <1>6, <1>7, <1>8

(* Two parses of the same characters, with the same ink.                    *)
SameParse(t, u) == Ink(t.screen) = Ink(u.screen) /\ t.n = u.n /\ t.open = u.open

LEMMA TakeEscInk ==
  ASSUME NEW s, NEW p, NEW t \in Parsed(s), NEW u \in Parsed(p), NEW c \in EscChars,
         SameParse(t, u)
  PROVE  SameParse(TakeEsc(t, c), TakeEsc(u, c))
<1>1. /\ t.screen \in Screens /\ u.screen \in Screens /\ t.n \in Nat
      /\ t.n = u.n /\ Ink(t.screen) = Ink(u.screen)
  BY DEF Parsed, Placed, SameParse
<1>2. CASE c = Semicolon
  BY <1>1, <1>2, ApplySgrInk DEF TakeEsc, SameParse
<1>3. CASE c # Semicolon
  BY <1>1, <1>3 DEF TakeEsc, SameParse, Parsed
<1>4. QED
  BY <1>2, <1>3

LEMMA AllTakenInk ==
  ASSUME NEW s, NEW p, NEW t \in Parsed(s), NEW u \in Parsed(p),
         NEW d \in Seq(EscChars), SameParse(t, u)
  PROVE  SameParse(FoldLeft(TakeEsc, t, d), FoldLeft(TakeEsc, u, d))
<1>1. PICK g : TakeRun(g, s, t, d) /\ FoldLeft(TakeEsc, t, d) = g[Len(d)]
  BY TakeEscRuns
<1>2. PICK h : TakeRun(h, p, u, d) /\ FoldLeft(TakeEsc, u, d) = h[Len(d)]
  BY TakeEscRuns
<1> DEFINE P == {k \in Nat : k <= Len(d) => SameParse(g[k], h[k])}
<1>3. 0 \in P
  BY <1>1, <1>2 DEF TakeRun
<1>4. ASSUME NEW k \in Nat, k \in P
      PROVE  k + 1 \in P
  <2>1. CASE k + 1 <= Len(d)
    <3>1. k <= Len(d) /\ k + 1 \in 1 .. Len(d)
      BY <2>1
    <3>2. d[k + 1] \in EscChars /\ SameParse(g[k], h[k])
      BY <1>4, <3>1
    <3>3. g[k] \in Parsed(s) /\ h[k] \in Parsed(p)
      BY <1>1, <1>2, <3>1 DEF TakeRun
    <3>4. g[k + 1] = TakeEsc(g[k], d[k + 1]) /\ h[k + 1] = TakeEsc(h[k], d[k + 1])
      BY <1>1, <1>2, <2>1 DEF TakeRun
    <3>5. QED
      BY <3>2, <3>3, <3>4, TakeEscInk
  <2>2. CASE ~(k + 1 <= Len(d))
    BY <2>2
  <2>3. QED
    BY <2>1, <2>2
<1> HIDE DEF P
<1>5. Len(d) \in P
  <2>1. \A i \in Nat : i \in P => i + 1 \in P
    BY <1>4
  <2>2. QED
    BY <1>3, <2>1, InductionOnNat
<1>6. QED
  BY <1>1, <1>2, <1>5 DEF P

LEMMA FlushEscInk ==
  ASSUME NEW s \in Screens, NEW p \in Screens, Ink(s) = Ink(p)
  PROVE  Ink(FlushEsc(s)) = Ink(FlushEsc(p))
<1>1. PICK d \in Seq(EscChars) : d = s.esc_buf /\ d = p.esc_buf
  BY InkOfScreen DEF DraftFields
<1>2. PICK t, u : /\ t = [screen |-> s, n |-> 0, open |-> FALSE]
                  /\ u = [screen |-> p, n |-> 0, open |-> FALSE]
  OBVIOUS
<1>3. t \in Parsed(s) /\ u \in Parsed(p) /\ SameParse(t, u)
  BY <1>2 DEF Parsed, Placed, SameParse
<1>4. PICK v \in Parsed(s), w \in Parsed(p) :
        /\ v = FoldLeft(TakeEsc, t, d) /\ w = FoldLeft(TakeEsc, u, d)
        /\ SameParse(v, w)
  BY <1>3, AllTaken, AllTakenInk
<1>5. PICK a, b : /\ a = IF v.open THEN ApplySgr(v.screen, v.n) ELSE v.screen
                  /\ b = IF w.open THEN ApplySgr(w.screen, w.n) ELSE w.screen
  OBVIOUS
<1>6. a \in Screens /\ b \in Screens /\ Ink(a) = Ink(b)
  <2>1. /\ v.screen \in Screens /\ w.screen \in Screens /\ v.n \in Nat
        /\ v.n = w.n /\ v.open = w.open /\ Ink(v.screen) = Ink(w.screen)
    BY <1>4 DEF Parsed, Placed, SameParse
  <2>2. /\ ApplySgr(v.screen, v.n) \in Placed(v.screen)
        /\ ApplySgr(w.screen, v.n) \in Placed(w.screen)
    BY <2>1, ApplySgrIsScreen, Zenon
  <2>3. Ink(ApplySgr(v.screen, v.n)) = Ink(ApplySgr(w.screen, v.n))
    BY <2>1, ApplySgrInk, Zenon
  <2>4. QED
    BY <1>5, <2>1, <2>2, <2>3 DEF Placed
<1>7. /\ FlushEsc(s) = [a EXCEPT !.esc_buf = <<>>, !.esc_state = 0]
      /\ FlushEsc(p) = [b EXCEPT !.esc_buf = <<>>, !.esc_state = 0]
  BY <1>1, <1>2, <1>4, <1>5, Zenon DEF FlushEsc
<1>8. a \in DraftFields /\ b \in DraftFields
      /\ a.current_attr = b.current_attr /\ a.ansi_bold = b.ansi_bold
  BY <1>6, InkOfScreen
<1>9. QED
  BY <1>7, <1>8 DEF Ink, DraftFields

(* What an escape sequence does to the ink depends on the ink.              *)
LEMMA PutEscapedInk ==
  ASSUME NEW s \in Screens, NEW p \in Screens, Ink(s) = Ink(p), NEW c
  PROVE  Ink(PutEscaped(s, c)) = Ink(PutEscaped(p, c))
<1>1. /\ s \in DraftFields /\ p \in DraftFields
      /\ s.current_attr = p.current_attr /\ s.ansi_bold = p.ansi_bold
      /\ s.esc_state = p.esc_state /\ s.esc_buf = p.esc_buf
  BY InkOfScreen
<1>2. CASE s.esc_state = 1
  <2>1. PICK e : e = IF c = Bracket THEN 2 ELSE 0
    OBVIOUS
  <2>2. /\ PutEscaped(s, c) = [s EXCEPT !.esc_state = e]
        /\ PutEscaped(p, c) = [p EXCEPT !.esc_state = e]
    BY <1>1, <1>2, <2>1 DEF PutEscaped
  <2>3. QED
    BY <1>1, <2>2 DEF Ink, DraftFields
<1>3. CASE s.esc_state = 2 /\ c \in EscChars
  <2>1. /\ PutEscaped(s, c) = IF Len(s.esc_buf) < EscBufLen - 1
                              THEN [s EXCEPT !.esc_buf = Append(@, c)] ELSE s
        /\ PutEscaped(p, c) = IF Len(p.esc_buf) < EscBufLen - 1
                              THEN [p EXCEPT !.esc_buf = Append(@, c)] ELSE p
    BY <1>1, <1>3, ScreenAssumption DEF PutEscaped, EscChars
  <2>2. CASE Len(s.esc_buf) < EscBufLen - 1
    <3>1. PICK b : b = Append(s.esc_buf, c)
      OBVIOUS
    <3>2. /\ PutEscaped(s, c) = [s EXCEPT !.esc_buf = b]
          /\ PutEscaped(p, c) = [p EXCEPT !.esc_buf = b]
      BY <1>1, <2>1, <2>2, <3>1
    <3>3. QED
      BY <1>1, <3>2 DEF Ink, DraftFields
  <2>3. CASE ~(Len(s.esc_buf) < EscBufLen - 1)
    BY <1>1, <2>1, <2>3
  <2>4. QED
    BY <2>2, <2>3
<1>4. CASE s.esc_state = 2 /\ c \notin EscChars /\ c = EndOfSgr
  <2>1. PutEscaped(s, c) = Redraw(FlushEsc(s)) /\ PutEscaped(p, c) = Redraw(FlushEsc(p))
    BY <1>1, <1>4 DEF PutEscaped, EscChars
  <2>2. /\ FlushEsc(s) \in Screens /\ FlushEsc(p) \in Screens
        /\ Ink(FlushEsc(s)) = Ink(FlushEsc(p))
    BY FlushEscInk, FlushEscIsScreen DEF Placed
  <2>3. ASSUME NEW t \in Screens
        PROVE  Ink(Redraw(t)) = Ink(t)
    BY InkOfScreen DEF Redraw, Ink, DraftFields
  <2>4. QED
    BY <2>1, <2>2, <2>3
<1>5. CASE s.esc_state # 1 /\ ~(s.esc_state = 2 /\ (c \in EscChars \/ c = EndOfSgr))
  <2>1. /\ PutEscaped(s, c) = [s EXCEPT !.esc_state = 0, !.esc_buf = <<>>]
        /\ PutEscaped(p, c) = [p EXCEPT !.esc_state = 0, !.esc_buf = <<>>]
    BY <1>1, <1>5 DEF PutEscaped, EscChars
  <2>2. QED
    BY <1>1, <2>1 DEF Ink, DraftFields
<1>6. QED
  BY <1>2, <1>3, <1>4, <1>5
-----------------------------------------------------------------------------
(* The characters that stand right in front of the cursor.                  *)
HoldsText(s, text) ==
  /\ Len(text) <= Place(s)
  /\ \A r \in LogRows, x \in Columns, k \in 1 .. Len(text) :
       r * MaxCols + x + Len(text) + 1 = Place(s) + k => s.lines[r][x] = text[k]

LEMMA RowIsAbove ==
  ASSUME NEW r \in Nat, NEW x \in Nat, NEW y \in Nat, r * MaxCols + x < y * MaxCols
  PROVE  r < y
<1>1. CASE y <= r
  <2>1. y * MaxCols <= r * MaxCols
    BY <1>1, ScreenNumbers, ProductGrows
  <2>2. PICK a \in Int, b \in Int : a = r * MaxCols /\ b = y * MaxCols
    BY ScreenNumbers
  <2>3. QED
    BY <2>1, <2>2
<1>2. QED
  BY <1>1

LEMMA PlaceIsUnique ==
  ASSUME NEW r \in LogRows, NEW x \in Columns, NEW row \in LogRows, NEW col \in Columns,
         r * MaxCols + x = row * MaxCols + col
  PROVE  r = row /\ x = col
<1>1. /\ r \in Nat /\ row \in Nat /\ x \in Nat /\ col \in Nat
      /\ x < MaxCols /\ col < MaxCols /\ MaxCols \in Nat
  BY ScreenNumbers DEF LogRows, Columns
<1>2. PICK a \in Int, b \in Int : a = r * MaxCols /\ b = row * MaxCols
  BY <1>1
<1>3. (r + 1) * MaxCols = a + MaxCols /\ (row + 1) * MaxCols = b + MaxCols
  BY <1>1, <1>2
<1>4. r < row + 1
  <2>1. r * MaxCols + x < (row + 1) * MaxCols
    BY <1>1, <1>2, <1>3
  <2>2. row + 1 \in Nat
    BY <1>1
  <2>3. QED
    BY <1>1, <2>1, <2>2, RowIsAbove
<1>5. row < r + 1
  <2>1. row * MaxCols + col < (r + 1) * MaxCols
    BY <1>1, <1>2, <1>3
  <2>2. r + 1 \in Nat
    BY <1>1
  <2>3. QED
    BY <1>1, <2>1, <2>2, RowIsAbove
<1>6. r = row
  BY <1>1, <1>4, <1>5
<1>7. QED
  BY <1>1, <1>2, <1>6

LEMMA WithLogKeepsInk ==
  ASSUME NEW s \in Drafts, NEW g, NEW r, NEW x
  PROVE  /\ Ink(WithLog(s, g, r, x)) = Ink(s) /\ WithLog(s, g, r, x).lines = g
         /\ WithLog(s, g, r, x).cur_row = r /\ WithLog(s, g, r, x).cur_col = x
BY DEF WithLog, Ink, Drafts, DraftFields

LEMMA ScrolledKeepsText ==
  ASSUME NEW s \in Drafts, NEW v
  PROVE  /\ Ink(Scrolled(s, v)) = Ink(s) /\ Place(Scrolled(s, v)) = Place(s)
         /\ Scrolled(s, v).lines = s.lines
         /\ \A text : HoldsText(s, text) => HoldsText(Scrolled(s, v), text)
<1>1. LET t == Scrolled(s, v) IN
      /\ t.cur_row = s.cur_row /\ t.cur_col = s.cur_col /\ t.lines = s.lines
      /\ t.current_attr = s.current_attr /\ t.ansi_bold = s.ansi_bold
      /\ t.esc_state = s.esc_state /\ t.esc_buf = s.esc_buf
  BY DEF Scrolled, Drafts, DraftFields
<1>2. QED
  BY <1>1 DEF Ink, Place, HoldsText

(* advance_row when a row is full: nothing in front of the cursor is lost,  *)
(* but the first row of a full log.                                         *)
LEMMA NextRowHolds ==
  ASSUME NEW s \in Drafts, s.cur_col = MaxCols, NEW text \in Seq(Cells),
         HoldsText(s, text), Len(text) <= (MaxLog - 1) * MaxCols
  PROVE  HoldsText(NextRow(s), text) /\ Ink(NextRow(s)) = Ink(s)
<1> USE ScreenNumbers
<1>1. PICK row \in LogRows : row = s.cur_row
  BY DEF Drafts, DraftFields
<1>2. PICK n \in Nat : n = Len(text)
  OBVIOUS
<1>3. s.lines \in Grid(LogRows) /\ row \in Nat /\ row < MaxLog
  BY <1>1 DEF Drafts, DraftFields, LogRows
<1>4. PICK a \in Int : a = row * MaxCols
  BY <1>3
<1>5. Place(s) = a + MaxCols
  BY <1>1, <1>4 DEF Place
<1>6. (row + 1) * MaxCols = a + MaxCols
  BY <1>3, <1>4
<1>7. n <= a + MaxCols
  BY <1>2, <1>5 DEF HoldsText
<1>8. CASE row + 1 < MaxLog
  <2>1. PICK y \in LogRows : y = row + 1
    BY <1>3, <1>8 DEF LogRows
  <2>2. PICK g : g = [s.lines EXCEPT ![y] = BlankRow(s)]
    OBVIOUS
  <2>3. NextRow(s) = WithLog(s, g, y, 0)
    BY <1>1, <1>8, <2>1, <2>2 DEF NextRow, WithLog, Drafts, DraftFields
  <2>4. /\ NextRow(s).lines = g /\ Place(NextRow(s)) = a + MaxCols
        /\ Ink(NextRow(s)) = Ink(s)
    BY <1>6, <2>1, <2>3, WithLogKeepsInk DEF Place
  <2>5. ASSUME NEW r \in LogRows, NEW x \in Columns, NEW k \in 1 .. n,
               r * MaxCols + x + n + 1 = a + MaxCols + k
        PROVE  g[r][x] = text[k]
    <3>1. r \in Nat /\ x \in Nat /\ y \in Nat
      BY DEF LogRows, Columns
    <3>2. r * MaxCols + x < y * MaxCols
      <4>1. PICK b \in Int : b = r * MaxCols
        BY <3>1
      <4>2. QED
        BY <1>6, <2>1, <2>5, <3>1, <4>1
    <3>3. r # y
      BY <3>1, <3>2, RowIsAbove
    <3>4. g[r] = s.lines[r]
      BY <1>3, <2>2, <3>3 DEF Grid
    <3>5. QED
      BY <1>2, <1>5, <2>5, <3>4 DEF HoldsText
  <2>6. QED
    BY <1>2, <1>7, <2>4, <2>5 DEF HoldsText
<1>9. CASE ~(row + 1 < MaxLog)
  <2>1. row = MaxLog - 1 /\ MaxLog - 1 \in LogRows
    BY <1>3, <1>9 DEF LogRows
  <2>2. PICK g : g = [r \in LogRows |-> IF r = MaxLog - 1 THEN BlankRow(s)
                                        ELSE s.lines[r + 1]]
    OBVIOUS
  <2>3. NextRow(s) = WithLog(s, g, MaxLog - 1, 0)
    BY <1>1, <1>9, <2>2 DEF NextRow, WithLog, Drafts, DraftFields
  <2>4. /\ NextRow(s).lines = g /\ Place(NextRow(s)) = a
        /\ Ink(NextRow(s)) = Ink(s)
    BY <1>4, <2>1, <2>3, WithLogKeepsInk DEF Place
  <2>5. ASSUME NEW r \in LogRows, NEW x \in Columns, NEW k \in 1 .. n,
               r * MaxCols + x + n + 1 = a + k
        PROVE  g[r][x] = text[k]
    <3>1. r \in Nat /\ x \in Nat /\ r < MaxLog
      BY DEF LogRows, Columns
    <3>2. PICK b \in Int : b = r * MaxCols
      BY <3>1
    <3>3. r < row
      <4>1. r * MaxCols + x < row * MaxCols
        BY <1>4, <2>5, <3>1, <3>2
      <4>2. QED
        BY <1>3, <3>1, <4>1, RowIsAbove
    <3>4. PICK q \in LogRows : q = r + 1
      BY <2>1, <3>1, <3>3 DEF LogRows
    <3>5. g[r] = s.lines[q]
      BY <2>1, <2>2, <3>3, <3>4
    <3>6. q * MaxCols = b + MaxCols
      BY <3>1, <3>2, <3>4
    <3>7. q * MaxCols + x + n + 1 = Place(s) + k
      BY <1>5, <2>5, <3>1, <3>2, <3>6
    <3>8. QED
      BY <1>2, <3>5, <3>7 DEF HoldsText
  <2>6. n <= a
    BY <1>2, <1>4, <2>1
  <2>7. QED
    BY <1>2, <2>4, <2>5, <2>6 DEF HoldsText
<1>10. QED
  BY <1>8, <1>9
(* follow_cursor brings the row of the cursor into the display, or the row  *)
(* is above it.                                                             *)
InSight(s) == s.cur_row < s.scroll_off + MaxRows

LEMMA FollowCursorKeeps ==
  ASSUME NEW s \in Drafts
  PROVE  /\ InSight(FollowCursor(s)) /\ Ink(FollowCursor(s)) = Ink(s)
         /\ Place(FollowCursor(s)) = Place(s)
         /\ FollowCursor(s).lines = s.lines
         /\ \A text : HoldsText(s, text) => HoldsText(FollowCursor(s), text)
<1> USE ScreenNumbers
<1>1. PICK v \in Scrolls : FollowCursor(s) = Scrolled(s, v)
  BY FollowCursorScrolls
<1>2. PICK row \in Nat, off \in Nat : row = s.cur_row /\ off = s.scroll_off
  BY DEF Drafts, DraftFields, LogRows, Scrolls
<1>3. FollowCursor(s).scroll_off + MaxRows > row
  <2>1. PICK w \in Int : w = IF row >= off + MaxRows THEN row - (MaxRows - 1) ELSE off
    BY <1>2
  <2>2. PICK t : t = [s EXCEPT !.scroll_off = w]
    OBVIOUS
  <2>3. t.cur_row = row /\ t.scroll_off = w /\ t \in [DOMAIN s -> UNION {{t[f]} : f \in DOMAIN s}]
    BY <1>2, <2>2 DEF Drafts, DraftFields
  <2>4. FollowCursor(s) = ClampScroll(t)
    BY <1>2, <2>1, <2>2 DEF FollowCursor, Drafts, DraftFields
  <2>5. ClampScroll(t).scroll_off =
          IF w < 0 THEN 0 ELSE IF w > MaxScroll(t) THEN MaxScroll(t) ELSE w
    BY <2>2, <2>3 DEF ClampScroll, Drafts, DraftFields
  <2>6. MaxScroll(t) = IF row < MaxRows THEN 0 ELSE row - (MaxRows - 1)
    BY <2>3 DEF MaxScroll
  <2>7. QED
    BY <1>2, <2>1, <2>4, <2>5, <2>6
<1>4. FollowCursor(s).cur_row = row /\ FollowCursor(s).lines = s.lines
  BY <1>1, <1>2, ScrolledIsDraft, ScrolledKeepsText
<1>5. InSight(FollowCursor(s))
  <2>1. PICK off2 \in Int : off2 = FollowCursor(s).scroll_off
    BY <1>1, ScrolledIsDraft DEF Scrolls
  <2>2. QED
    BY <1>2, <1>3, <1>4, <2>1 DEF InSight
<1>6. QED
  BY <1>1, <1>4, <1>5, ScrolledKeepsText

LEMMA AppendText ==
  ASSUME NEW text \in Seq(Cells), NEW z \in Cells
  PROVE  /\ Append(text, z) \in Seq(Cells) /\ Len(Append(text, z)) = Len(text) + 1
         /\ Append(text, z)[Len(text) + 1] = z
         /\ \A k \in 1 .. Len(text) : Append(text, z)[k] = text[k]
BY AppendProperties

(* A character is put behind what was there, over the end of a row and at   *)
(* the end of the log.                                                      *)
LEMMA PutCellHolds ==
  ASSUME NEW s \in Drafts, InRow(s), NEW c \in TextChars, NEW text \in Seq(Cells),
         HoldsText(s, text), Len(text) + 1 <= (MaxLog - 1) * MaxCols
  PROVE  /\ HoldsText(PutCell(s, c), Append(text, Cell(s, c)))
         /\ Ink(PutCell(s, c)) = Ink(s) /\ InSight(PutCell(s, c))
<1> USE ScreenNumbers
<1>1. PICK row \in LogRows, col \in Columns : row = s.cur_row /\ col = s.cur_col
  BY DEF Drafts, DraftFields, InRow, Columns
<1>2. PICK g \in Grid(LogRows) :
        /\ g = [s.lines EXCEPT ![row][col] = Cell(s, c)]
        /\ g[row][col] = Cell(s, c)
        /\ \A q \in LogRows, z \in Columns :
             q # row \/ z # col => g[q][z] = s.lines[q][z]
  BY CellIsPut
<1>3. PICK t : t = WithLog(s, g, row, col + 1)
  OBVIOUS
<1>4. /\ t.cur_col = col + 1 /\ col + 1 \in 0 .. MaxCols /\ t \in Drafts
  <2>1. BlankFrom(s.lines, row, col)
    BY <1>1 DEF Drafts, DraftFields
  <2>2. BlankFrom(g, row, col + 1)
    BY <1>2, <2>1 DEF BlankFrom, LogRows, Columns
  <2>3. col + 1 \in 0 .. MaxCols
    BY DEF Columns
  <2>4. QED
    BY <1>3, <2>2, <2>3, WithLogIsDraft
<1>5. PutCell(s, c) = FollowCursor(IF t.cur_col >= MaxCols THEN AdvanceRow(t) ELSE t)
  BY <1>1, <1>2, <1>3 DEF PutCell, WithLog, Drafts, DraftFields
<1>6. PICK a \in Int : a = row * MaxCols
  BY DEF LogRows
<1>7. Place(s) = a + col /\ Place(t) = a + col + 1 /\ Ink(t) = Ink(s) /\ t.lines = g
  <2>1. /\ Ink(t) = Ink(s) /\ t.lines = g /\ t.cur_row = row /\ t.cur_col = col + 1
    BY <1>3, WithLogKeepsInk
  <2>2. a + (col + 1) = a + col + 1
    BY DEF Columns
  <2>3. QED
    BY <1>1, <1>6, <2>1, <2>2 DEF Place
<1>8. PICK more \in Seq(Cells) : more = Append(text, Cell(s, c))
  BY BlankCells, AppendText
<1>9. PICK n \in Nat : n = Len(text)
  OBVIOUS
<1>10. /\ Len(more) = n + 1 /\ more[n + 1] = Cell(s, c)
       /\ \A k \in 1 .. n : more[k] = text[k]
  BY <1>8, <1>9, BlankCells, AppendText
<1>11. HoldsText(t, more)
  <2>1. n + 1 <= Place(t)
    BY <1>7, <1>9 DEF HoldsText, Columns
  <2>2. ASSUME NEW r \in LogRows, NEW x \in Columns, NEW k \in 1 .. n + 1,
               r * MaxCols + x + (n + 1) + 1 = a + col + 1 + k
        PROVE  g[r][x] = more[k]
    <3>1. PICK b \in Int, y \in Int, e \in Int : b = r * MaxCols /\ y = x /\ e = col
      BY DEF LogRows, Columns
    <3>2. b + y + (n + 1) + 1 = a + e + 1 + k
      BY <2>2, <3>1
    <3>3. CASE k = n + 1
      <4>1. b + y = a + e
        BY <3>2, <3>3
      <4>2. r * MaxCols + x = row * MaxCols + col
        BY <1>6, <3>1, <4>1
      <4>3. QED
        BY <1>2, <1>10, <3>3, <4>2, PlaceIsUnique
    <3>4. CASE k # n + 1
      <4>1. k \in 1 .. n
        BY <3>4
      <4>2. b + y + n + 1 = a + e + k
        BY <3>2, <4>1
      <4>3. r * MaxCols + x + n + 1 = a + col + k
        BY <3>1, <4>2
      <4>4. ~(r = row /\ x = col)
        BY <1>6, <3>1, <4>1, <4>2, SMTT(30)
      <4>5. g[r][x] = s.lines[r][x]
        BY <1>2, <4>4
      <4>6. s.lines[r][x] = text[k]
        BY <1>7, <1>9, <4>1, <4>3 DEF HoldsText
      <4>7. QED
        BY <1>10, <4>1, <4>5, <4>6
    <3>5. QED
      BY <3>3, <3>4
  <2>3. QED
    BY <1>7, <1>10, <2>1, <2>2 DEF HoldsText
<1>12. PICK u \in Drafts : /\ u = IF t.cur_col >= MaxCols THEN AdvanceRow(t) ELSE t
                           /\ HoldsText(u, more) /\ Ink(u) = Ink(s)
  <2>1. CASE t.cur_col >= MaxCols
    <3>1. t.cur_col = MaxCols
      BY <1>4, <2>1
    <3>2. HoldsText(NextRow(t), more) /\ Ink(NextRow(t)) = Ink(s) /\ NextRow(t) \in Drafts
      BY <1>4, <1>7, <1>8, <1>9, <1>10, <1>11, <3>1, NextRowHolds, NextRowIsDraft
    <3>3. HoldsText(AdvanceRow(t), more) /\ Ink(AdvanceRow(t)) = Ink(s)
      BY <3>2, FollowCursorKeeps DEF AdvanceRow
    <3>4. QED
      BY <1>4, <2>1, <3>3, AdvanceRowIsDraft
  <2>2. CASE ~(t.cur_col >= MaxCols)
    BY <1>4, <1>7, <1>11, <2>2
  <2>3. QED
    BY <2>1, <2>2
<1>13. QED
  BY <1>5, <1>8, <1>12, FollowCursorKeeps

(* A backspace takes the last character away, at the left edge too.         *)
LEMMA EraseBackHolds ==
  ASSUME NEW s \in Drafts, InRow(s), NEW text \in Seq(Cells), NEW z \in Cells,
         HoldsText(s, Append(text, z))
  PROVE  HoldsText(EraseBack(s), text) /\ Ink(EraseBack(s)) = Ink(s)
<1> USE ScreenNumbers
<1>1. PICK row \in LogRows, col \in Columns : row = s.cur_row /\ col = s.cur_col
  BY DEF Drafts, DraftFields, InRow, Columns
<1>2. PICK n \in Nat : n = Len(text)
  OBVIOUS
<1>3. PICK more : more = Append(text, z)
  OBVIOUS
<1>4. Len(more) = n + 1 /\ \A k \in 1 .. n : more[k] = text[k]
  BY <1>2, <1>3, AppendText
<1>5. PICK a \in Int : a = row * MaxCols
  BY DEF LogRows
<1>6. Place(s) = a + col /\ n + 1 <= a + col
  <2>1. Place(s) = a + col
    BY <1>1, <1>5 DEF Place
  <2>2. QED
    BY <1>3, <1>4, <2>1 DEF HoldsText
<1>7. ASSUME NEW r \in LogRows, NEW x \in Columns,
             \/ r = row /\ x = col - 1
             \/ r = row - 1 /\ x = MaxCols - 1 /\ col = 0,
             EraseBack(s) =
               [s EXCEPT !.cur_row = r, !.cur_col = x, !.lines[r][x] = Cell(s, Blank)]
      PROVE  HoldsText(EraseBack(s), text) /\ Ink(EraseBack(s)) = Ink(s)
  <2>1. PICK g \in Grid(LogRows) :
          /\ g = [s.lines EXCEPT ![r][x] = Cell(s, Blank)]
          /\ \A q \in LogRows, y \in Columns :
               q # r \/ y # x => g[q][y] = s.lines[q][y]
    <3>1. Blank \in TextChars
      BY DEF TextChars
    <3>2. QED
      BY <3>1, CellIsPut, SMTT(30)
  <2>2. EraseBack(s) = WithLog(s, g, r, x)
    BY <1>7, <2>1 DEF WithLog, Drafts, DraftFields
  <2>3. r * MaxCols + x = a + col - 1
    BY <1>5, <1>7, PlaceBefore
  <2>4. /\ EraseBack(s).lines = g /\ Ink(EraseBack(s)) = Ink(s)
        /\ Place(EraseBack(s)) = a + col - 1
    BY <2>2, <2>3, WithLogKeepsInk DEF Place
  <2>5. ASSUME NEW q \in LogRows, NEW y \in Columns, NEW k \in 1 .. n,
               q * MaxCols + y + n + 1 = a + col - 1 + k
        PROVE  g[q][y] = text[k]
    <3>1. PICK b \in Int, e \in Int : b = q * MaxCols /\ e = r * MaxCols
      BY DEF LogRows
    <3>2. ~(q = r /\ y = x)
      BY <2>3, <2>5, <3>1 DEF Columns
    <3>3. g[q][y] = s.lines[q][y]
      BY <2>1, <3>2
    <3>4. q * MaxCols + y + Len(more) + 1 = Place(s) + k /\ k \in 1 .. Len(more)
      <4>1. PICK v \in Int, w \in Int : v = y /\ w = col
        BY DEF Columns
      <4>2. b + v + (n + 1) + 1 = a + w + k /\ k \in 1 .. n + 1
        BY <2>5, <3>1, <4>1, SMTT(30)
      <4>3. QED
        BY <1>4, <1>6, <3>1, <4>1, <4>2
    <3>5. s.lines[q][y] = more[k]
      BY <1>3, <3>4 DEF HoldsText
    <3>6. QED
      BY <1>4, <3>3, <3>5
  <2>6. n <= a + col - 1
    BY <1>6 DEF Columns
  <2>7. QED
    BY <1>2, <2>4, <2>5, <2>6 DEF HoldsText
<1>8. CASE col > 0
  <2>1. col - 1 \in Columns
    BY <1>8 DEF Columns
  <2>2. EraseBack(s) = [s EXCEPT !.cur_row = row, !.cur_col = col - 1,
                                 !.lines[row][col - 1] = Cell(s, Blank)]
    BY <1>1, <1>8 DEF EraseBack, Drafts, DraftFields
  <2>3. QED
    BY <1>7, <2>1, <2>2
<1>9. CASE col = 0
  <2>1. row > 0
    BY <1>2, <1>5, <1>6, <1>9 DEF LogRows
  <2>2. row - 1 \in LogRows /\ MaxCols - 1 \in Columns
    BY <2>1 DEF Columns, LogRows
  <2>3. EraseBack(s) = [s EXCEPT !.cur_row = row - 1, !.cur_col = MaxCols - 1,
                                 !.lines[row - 1][MaxCols - 1] = Cell(s, Blank)]
    BY <1>1, <1>9, <2>1 DEF EraseBack, Drafts, DraftFields
  <2>4. QED
    BY <1>7, <1>9, <2>2, <2>3
<1>10. QED
  BY <1>8, <1>9 DEF Columns
LEMMA PutCellInk ==
  ASSUME NEW s \in Drafts, InRow(s), NEW c \in TextChars
  PROVE  Ink(PutCell(s, c)) = Ink(s)
<1> USE ScreenNumbers
<1>1. PICK row \in LogRows, col \in Columns : row = s.cur_row /\ col = s.cur_col
  BY DEF Drafts, DraftFields, InRow, Columns
<1>2. PICK g \in Grid(LogRows) :
        /\ g = [s.lines EXCEPT ![row][col] = Cell(s, c)]
        /\ \A q \in LogRows, z \in Columns :
             q # row \/ z # col => g[q][z] = s.lines[q][z]
  BY CellIsPut
<1>3. PICK t : t = WithLog(s, g, row, col + 1)
  OBVIOUS
<1>4. t \in Drafts
  <2>1. BlankFrom(s.lines, row, col)
    BY <1>1 DEF Drafts, DraftFields
  <2>2. BlankFrom(g, row, col + 1)
    BY <1>2, <2>1 DEF BlankFrom, LogRows, Columns
  <2>3. col + 1 \in 0 .. MaxCols
    BY ScreenNumbers DEF Columns
  <2>4. QED
    BY <1>3, <2>2, <2>3, WithLogIsDraft
<1>5. PutCell(s, c) = FollowCursor(IF t.cur_col >= MaxCols THEN AdvanceRow(t) ELSE t)
  BY <1>1, <1>2, <1>3 DEF PutCell, WithLog, Drafts, DraftFields
<1>6. Ink(t) = Ink(s)
  BY <1>3, WithLogKeepsInk
<1>7. NextRow(t) \in Drafts /\ Ink(NextRow(t)) = Ink(t)
  <2>1. NextRow(t) \in Drafts
    BY <1>4, NextRowIsDraft
  <2>2. \E h, r : NextRow(t) = WithLog(t, h, r, 0)
    <3>1. CASE t.cur_row + 1 < MaxLog
      <4>1. PICK h : h = [t.lines EXCEPT ![t.cur_row + 1] = BlankRow(t)]
        OBVIOUS
      <4>2. NextRow(t) = WithLog(t, h, t.cur_row + 1, 0)
        BY <1>4, <3>1, <4>1 DEF NextRow, WithLog, Drafts, DraftFields
      <4>3. QED
        BY <4>2
    <3>2. CASE ~(t.cur_row + 1 < MaxLog)
      <4>1. PICK h : h = [r \in LogRows |-> IF r = MaxLog - 1 THEN BlankRow(t)
                                            ELSE t.lines[r + 1]]
        OBVIOUS
      <4>2. NextRow(t) = WithLog(t, h, MaxLog - 1, 0)
        BY <1>4, <3>2, <4>1 DEF NextRow, WithLog, Drafts, DraftFields
      <4>3. QED
        BY <4>2
    <3>3. QED
      BY <3>1, <3>2
  <2>3. QED
    BY <1>4, <2>1, <2>2, WithLogKeepsInk
<1>8. AdvanceRow(t) \in Drafts /\ Ink(AdvanceRow(t)) = Ink(t)
  BY <1>4, <1>7, AdvanceRowIsDraft, FollowCursorKeeps DEF AdvanceRow
<1>9. QED
  BY <1>4, <1>5, <1>6, <1>8, FollowCursorKeeps

LEMMA PlacedHolds ==
  ASSUME NEW s, NEW t \in Placed(s), NEW text, HoldsText(s, text)
  PROVE  HoldsText(t, text)
BY DEF Placed, HoldsText, Place

LEMMA RedrawKeeps ==
  ASSUME NEW s \in Drafts, InRow(s)
  PROVE  /\ Ink(Redraw(s)) = Ink(s)
         /\ InSight(s) => InSight(Redraw(s))
         /\ \A text : HoldsText(s, text) => HoldsText(Redraw(s), text)
<1>1. Redraw(s) \in Placed(s)
  BY RedrawIsScreen
<1>2. Ink(Redraw(s)) = Ink(s)
  BY DEF Redraw, Ink, Drafts, DraftFields
<1>3. QED
  BY <1>1, <1>2, PlacedHolds DEF InSight, Placed

(* putchar outside an escape sequence.                                      *)
LEMMA PutCharHolds ==
  ASSUME NEW s \in Screens, s.esc_state = 0, NEW c \in Printed \ {Newline, Backspace, Esc},
         NEW text \in Seq(Cells), HoldsText(s, text),
         Len(text) + 1 <= (MaxLog - 1) * MaxCols
  PROVE  /\ HoldsText(PutChar(s, c), Append(text, Cell(s, c)))
         /\ Ink(PutChar(s, c)) = Ink(s) /\ InSight(PutChar(s, c))
<1>1. s \in Drafts /\ InRow(s) /\ c \in TextChars /\ c # CarriageReturn
  BY DEF Screens, Printed
<1>2. PutChar(s, c) = Redraw(PutCell(s, c))
  BY <1>1 DEF PutChar, PutPlain
<1>3. /\ HoldsText(PutCell(s, c), Append(text, Cell(s, c)))
      /\ Ink(PutCell(s, c)) = Ink(s) /\ InSight(PutCell(s, c))
  BY <1>1, PutCellHolds
<1>4. PutCell(s, c) \in Drafts /\ InRow(PutCell(s, c))
  BY <1>1, PutCellIsDraft
<1>5. QED
  BY <1>2, <1>3, <1>4, RedrawKeeps

LEMMA BackspaceHolds ==
  ASSUME NEW s \in Screens, s.esc_state = 0, NEW text \in Seq(Cells), NEW z \in Cells,
         HoldsText(s, Append(text, z)), Backspace # Esc
  PROVE  HoldsText(PutChar(s, Backspace), text) /\ Ink(PutChar(s, Backspace)) = Ink(s)
<1>1. s \in Drafts /\ InRow(s)
  BY DEF Screens
<1>2. PutChar(s, Backspace) = Redraw(EraseBack(s))
  <2>1. PICK c : c = Backspace
    OBVIOUS
  <2>2. PutChar(s, c) = PutPlain(s, c)
    BY <2>1 DEF PutChar
  <2>3. c # Newline /\ c # CarriageReturn
    BY <2>1, ControlCharsDiffer, TerminalAssumption
  <2>4. PutPlain(s, c) = Redraw(EraseBack(s))
    BY <2>1, <2>3 DEF PutPlain
  <2>5. QED
    BY <2>1, <2>2, <2>4
<1>3. HoldsText(EraseBack(s), text) /\ Ink(EraseBack(s)) = Ink(s)
  BY <1>1, EraseBackHolds
<1>4. EraseBack(s) \in Drafts /\ InRow(EraseBack(s))
  BY <1>1, EraseBackIsDraft
<1>5. QED
  BY <1>2, <1>3, <1>4, RedrawKeeps

-----------------------------------------------------------------------------
(* The prompt.  A pen of the same ink as the screen writes what the screen  *)
(* comes to show.                                                           *)
Pages == [pen : Screens, shown : Seq(Cells)]
Alike(s, p) ==
  /\ s.current_attr = p.current_attr /\ s.ansi_bold = p.ansi_bold
  /\ s.esc_state = p.esc_state /\ (s.esc_state # 0 => s.esc_buf = p.esc_buf)

LEMMA AlikeInk ==
  ASSUME NEW s \in Screens, NEW p \in Screens
  PROVE  /\ Ink(s) = Ink(p) => Alike(s, p)
         /\ Alike(s, p) /\ s.esc_state # 0 => Ink(s) = Ink(p)
BY InkOfScreen DEF Alike

LEMMA WriteIsPage ==
  ASSUME NEW t \in Pages, NEW c \in Printed
  PROVE  /\ Write(t, c) \in Pages
         /\ Len(t.shown) <= Len(Write(t, c).shown)
<1>1. t.pen \in Screens /\ t.pen \in Drafts /\ t.shown \in Seq(Cells) /\ c \in TextChars
  BY DEF Pages, Printed, Screens
<1>2. PutChar(t.pen, c) \in Screens
  BY <1>1, PutCharIsScreen
<1>3. PICK more \in Seq(Cells) : /\ more = Append(t.shown, Cell(t.pen, c))
                                /\ Len(more) = Len(t.shown) + 1
  BY <1>1, BlankCells, AppendText, ZenonT(40)
<1>4. Len(t.shown) \in Nat
  BY <1>1
<1>5. CASE t.pen.esc_state # 0 \/ c = Esc
  <2>1. Write(t, c) = [t EXCEPT !.pen = PutChar(t.pen, c)]
    BY <1>5 DEF Write
  <2>2. QED
    BY <1>2, <1>4, <2>1 DEF Pages
<1>6. CASE ~(t.pen.esc_state # 0 \/ c = Esc)
  <2>1. Write(t, c) = [t EXCEPT !.shown = more]
    BY <1>3, <1>6 DEF Write
  <2>2. PICK pen \in Screens, old \in Seq(Cells) : t = [pen |-> pen, shown |-> old]
    BY DEF Pages
  <2>3. Write(t, c) = [pen |-> pen, shown |-> more] /\ t.shown = old
    BY <2>1, <2>2
  <2>4. Write(t, c) \in Pages /\ Write(t, c).shown = more
    BY <2>3 DEF Pages
  <2>5. QED
    BY <1>3, <1>4, <2>4
<1>7. QED
  BY <1>5, <1>6

LEMMA WriteHolds ==
  ASSUME NEW s \in Screens, NEW t \in Pages, Alike(s, t.pen),
         NEW c \in Printed \ {Newline, Backspace}
  PROVE  /\ Alike(PutChar(s, c), Write(t, c).pen)
         /\ HoldsText(s, t.shown) /\ Len(Write(t, c).shown) <= (MaxLog - 1) * MaxCols =>
              HoldsText(PutChar(s, c), Write(t, c).shown)
<1>1. /\ t.pen \in Screens /\ t.shown \in Seq(Cells) /\ c \in Printed
      /\ s \in DraftFields /\ t.pen \in DraftFields
  BY InkOfScreen DEF Pages
<1>2. PutChar(s, c) \in Screens /\ PutChar(t.pen, c) \in Screens
  BY <1>1, PutCharIsScreen
<1>3. CASE t.pen.esc_state # 0
  <2>1. /\ Write(t, c).pen = PutChar(t.pen, c) /\ Write(t, c).shown = t.shown
    BY <1>3 DEF Write, Pages
  <2>2. s.esc_state # 0 /\ Ink(s) = Ink(t.pen)
    BY <1>1, <1>3, AlikeInk DEF Alike
  <2>3. Ink(PutChar(s, c)) = Ink(PutChar(t.pen, c))
    BY <1>1, <1>3, <2>2, PutEscapedInk DEF PutChar
  <2>4. PutChar(s, c) \in Placed(s)
    BY <1>1, <2>2, PutCharIsScreen
  <2>5. QED
    BY <1>2, <2>1, <2>3, <2>4, AlikeInk, PlacedHolds
<1>4. CASE t.pen.esc_state = 0 /\ c = Esc
  <2>1. /\ Write(t, c).pen = PutChar(t.pen, c) /\ Write(t, c).shown = t.shown
    BY <1>4 DEF Write, Pages
  <2>2. s.esc_state = 0
    BY <1>4 DEF Alike
  <2>3. PutChar(s, c) = Parsing(s, 1, <<>>) /\ PutChar(t.pen, c) = Parsing(t.pen, 1, <<>>)
    BY <1>4, <2>2 DEF PutChar, Parsing
  <2>4. Alike(PutChar(s, c), PutChar(t.pen, c))
    BY <1>1, <2>3 DEF Parsing, Alike, DraftFields
  <2>5. PutChar(s, c) \in Placed(s)
    <3>1. <<>> \in Seq(EscChars) /\ Len(<<>>) < EscBufLen /\ 1 \in 0 .. 2
      BY ScreenNumbers
    <3>2. QED
      BY <2>3, <3>1, ParsingIsScreen
  <2>6. QED
    BY <2>1, <2>4, <2>5, PlacedHolds
<1>5. CASE t.pen.esc_state = 0 /\ c # Esc
  <2>1. /\ Write(t, c).pen = t.pen /\ Write(t, c).shown = Append(t.shown, Cell(t.pen, c))
    BY <1>5 DEF Write, Pages
  <2>2. s.esc_state = 0 /\ Cell(t.pen, c) = Cell(s, c)
    BY <1>5 DEF Alike, Cell
  <2>3. s \in Drafts /\ c \in TextChars
    BY DEF Screens, Printed
  <2>4. Cell(s, c) \in Cells
    BY <2>3, BlankCells
  <2>5. Len(Write(t, c).shown) = Len(t.shown) + 1
    BY <1>1, <2>1, <2>2, <2>4, AppendText
  <2>6. HoldsText(s, t.shown) /\ Len(t.shown) + 1 <= (MaxLog - 1) * MaxCols =>
          HoldsText(PutChar(s, c), Write(t, c).shown)
    BY <1>1, <1>5, <2>1, <2>2, PutCharHolds
  <2>7. Ink(PutChar(s, c)) = Ink(s)
    <3>1. PutChar(s, c) = PutPlain(s, c)
      BY <1>5, <2>2 DEF PutChar
    <3>2. PutPlain(s, c) = Redraw(PutCell(s, c))
      BY DEF PutPlain, Printed
    <3>3. InRow(s) /\ PutCell(s, c) \in Drafts /\ InRow(PutCell(s, c))
      BY <2>3, PutCellIsDraft DEF Screens
    <3>4. Ink(PutCell(s, c)) = Ink(s)
      BY <2>3, <3>3, PutCellInk
    <3>5. QED
      BY <3>1, <3>2, <3>3, <3>4, RedrawKeeps
  <2>8. Alike(PutChar(s, c), t.pen)
    <3>1. Alike(PutChar(s, c), s)
      BY <1>2, <2>7, AlikeInk
    <3>2. QED
      BY <2>2, <3>1 DEF Alike
  <2>9. QED
    BY <2>1, <2>5, <2>6, <2>8
<1>6. QED
  BY <1>1, <1>3, <1>4, <1>5
PenRun(h, t, d) ==
  /\ h[0] = t
  /\ \A k \in Nat : k <= Len(d) => h[k] \in Pages
  /\ \A k \in Nat : k + 1 <= Len(d) => h[k + 1] = Write(h[k], d[k + 1])

LEMMA WritingRuns ==
  ASSUME NEW t \in Pages, NEW d \in Seq(Printed)
  PROVE  \E h : PenRun(h, t, d) /\ FoldLeft(Write, t, d) = h[Len(d)]
<1> DEFINE Eqn(g) == g = [s \in SUBSET DOMAIN d |->
             IF s = {} THEN t ELSE Write(g[s \ {Max(s)}], d[Max(s)])]
<1>1. PICK n \in Nat : n = Len(d) /\ DOMAIN d = 1 .. n
  OBVIOUS
<1>2. PICK T : T = [p \in Pages \X Printed |-> Write(p[1], p[2])]
  OBVIOUS
<1>3. T \in [Pages \X Printed -> Pages]
  <2>1. ASSUME NEW p \in Pages \X Printed
        PROVE  Write(p[1], p[2]) \in Pages
    <3>1. p[1] \in Pages /\ p[2] \in Printed
      OBVIOUS
    <3>2. QED
      BY <3>1, WriteIsPage
  <2>2. QED
    BY <1>2, <2>1, Zenon
<1>4. ASSUME NEW v \in Pages, NEW c \in Printed
      PROVE  T[<<v, c>>] = Write(v, c)
  BY <1>2
<1>5. PICK f \in [SUBSET (1 .. n) -> Pages] : IsFoldOver(f, d, Pages, t, T)
  BY <1>1, <1>3, FoldOverExists, Zenon
<1>6. ASSUME NEW s \in SUBSET (1 .. n), s # {}
      PROVE  f[s] = Write(f[s \ {Max(s)}], d[Max(s)])
  <2>1. Max(s) \in 1 .. n /\ s \ {Max(s)} \in SUBSET (1 .. n)
    BY <1>6, MaxOfIndices
  <2>2. f[s \ {Max(s)}] \in Pages /\ d[Max(s)] \in Printed
    BY <1>1, <2>1
  <2>3. f[s] = T[<<f[s \ {Max(s)}], d[Max(s)]>>]
    BY <1>1, <1>5, <1>6, <2>2, Zenon DEF IsFoldOver
  <2>4. QED
    BY <1>4, <2>2, <2>3
<1>7. f[{}] = t
  BY <1>5 DEF IsFoldOver
<1>8. Eqn(f)
  BY <1>1, <1>6, <1>7
<1>9. PICK F : Eqn(F) /\ FoldLeft(Write, t, d) = F[DOMAIN d]
  <2> DEFINE g == CHOOSE h : Eqn(h)
  <2>1. Eqn(g)
    BY <1>8, Zenon
  <2>2. FoldLeft(Write, t, d) = g[DOMAIN d]
    BY Zenon DEF FoldLeft, MapThenFoldSet
  <2>3. QED
    BY <2>1, <2>2, Zenon
<1>10. ASSUME NEW s \in SUBSET (1 .. n), s # {}, F[s \ {Max(s)}] \in Pages
       PROVE  F[s] = T[<<F[s \ {Max(s)}], d[Max(s)]>>]
  <2>1. Max(s) \in 1 .. n
    BY <1>10, MaxOfIndices
  <2>2. F[s] = Write(F[s \ {Max(s)}], d[Max(s)])
    BY <1>1, <1>9, <1>10
  <2>3. d[Max(s)] \in Printed
    BY <1>1, <2>1
  <2>4. QED
    BY <1>4, <1>10, <2>2, <2>3
<1>11. F[{}] = t
  BY <1>1, <1>9
<1>12. IsFoldOver(F, d, Pages, t, T)
  BY <1>1, <1>10, <1>11 DEF IsFoldOver
<1>13. /\ F[1 .. 0] = t
       /\ \A k \in Nat : k <= Len(d) => F[1 .. k] \in Pages
       /\ \A k \in Nat : k + 1 <= Len(d) =>
            F[1 .. (k + 1)] = T[<<F[1 .. k], d[k + 1]>>]
  <2>1. GrowsByOne(F, d, Pages, t, T)
    BY <1>3, <1>12, FoldOverPrefix, Zenon
  <2>2. QED
    BY <2>1 DEF GrowsByOne
<1>14. PICK g : g = [k \in Nat |-> F[1 .. k]]
  OBVIOUS
<1>15. ASSUME NEW k \in Nat, k + 1 <= Len(d)
       PROVE  g[k + 1] = Write(g[k], d[k + 1])
  <2>1. k <= Len(d) /\ k + 1 \in 1 .. Len(d)
    BY <1>1, <1>15
  <2>2. d[k + 1] \in Printed /\ F[1 .. k] \in Pages
    BY <1>13, <2>1
  <2>3. F[1 .. (k + 1)] = Write(F[1 .. k], d[k + 1])
    BY <1>4, <1>13, <1>15, <2>2
  <2>4. QED
    BY <1>14, <2>3
<1>16. PenRun(g, t, d)
  BY <1>13, <1>14, <1>15 DEF PenRun
<1>17. FoldLeft(Write, t, d) = g[Len(d)]
  BY <1>1, <1>9, <1>14
<1>18. QED
  BY <1>16, <1>17
(* What the pen has written stands in front of the cursor.                  *)
LEMMA WrittenHolds ==
  ASSUME NEW t \in Screens, NEW e \in Seq(Printed), NEW g, Run(g, t, e),
         NEW d \in Seq(Printed \ {Newline, Backspace}), NEW m \in Nat,
         m + Len(d) = Len(e), \A i \in 1 .. Len(d) : e[m + i] = d[i],
         NEW u \in Pages, Alike(g[m], u.pen), HoldsText(g[m], u.shown),
         NEW w, w = FoldLeft(Write, u, d), Len(w.shown) <= (MaxLog - 1) * MaxCols
  PROVE  w \in Pages /\ Alike(g[Len(e)], w.pen) /\ HoldsText(g[Len(e)], w.shown)
<1>1. PICK n \in Nat : n = Len(d) /\ m + n = Len(e)
  OBVIOUS
<1>2. d \in Seq(Printed)
  OBVIOUS
<1>3. PICK h : PenRun(h, u, d) /\ w = h[n]
  BY <1>1, <1>2, WritingRuns
<1>4. PICK full \in Int : full = (MaxLog - 1) * MaxCols
  BY ScreenNumbers
<1> DEFINE P == {k \in Nat : k <= n =>
                   /\ Alike(g[m + k], h[k].pen)
                   /\ Len(h[k].shown) <= full => HoldsText(g[m + k], h[k].shown)}
<1>5. 0 \in P
  BY <1>3 DEF PenRun
<1>6. ASSUME NEW k \in Nat, k \in P
      PROVE  k + 1 \in P
  <2>1. CASE k + 1 <= n
    <3>1. /\ k <= n /\ k + 1 \in 1 .. n /\ m + k \in Nat /\ m + k <= Len(e)
          /\ (m + k) + 1 <= Len(e) /\ (m + k) + 1 = m + (k + 1)
      BY <1>1, <2>1
    <3>2. g[m + k] \in Screens /\ g[m + (k + 1)] = PutChar(g[m + k], e[m + (k + 1)])
      BY <3>1 DEF Run
    <3>3. e[m + (k + 1)] = d[k + 1] /\ d[k + 1] \in Printed \ {Newline, Backspace}
      BY <1>1, <3>1
    <3>4. h[k] \in Pages /\ h[k + 1] = Write(h[k], d[k + 1])
      BY <1>1, <1>3, <2>1, <3>1 DEF PenRun
    <3>5. /\ Alike(g[m + k], h[k].pen)
          /\ Len(h[k].shown) <= full => HoldsText(g[m + k], h[k].shown)
      BY <1>6, <3>1
    <3>6. Alike(g[m + (k + 1)], h[k + 1].pen)
      BY <3>2, <3>3, <3>4, <3>5, WriteHolds
    <3>7. ASSUME Len(h[k + 1].shown) <= full
          PROVE  HoldsText(g[m + (k + 1)], h[k + 1].shown)
      <4>1. Len(h[k].shown) <= Len(h[k + 1].shown) /\ h[k + 1] \in Pages
        BY <3>3, <3>4, WriteIsPage
      <4>2. Len(h[k].shown) \in Int /\ Len(h[k + 1].shown) \in Int
        BY <3>4, <4>1 DEF Pages
      <4>3. HoldsText(g[m + k], h[k].shown)
        <5>1. PICK a \in Int, b \in Int :
                a = Len(h[k].shown) /\ b = Len(h[k + 1].shown)
          BY <4>2
        <5>2. a <= b /\ b <= full
          BY <3>7, <4>1, <5>1
        <5>3. a <= full
          BY <1>4, <5>2
        <5>4. QED
          BY <3>5, <5>1, <5>3
      <4>4. QED
        BY <1>4, <3>2, <3>3, <3>4, <3>5, <3>7, <4>3, WriteHolds
    <3>8. QED
      BY <3>6, <3>7
  <2>2. CASE ~(k + 1 <= n)
    BY <2>2
  <2>3. QED
    BY <2>1, <2>2
<1> HIDE DEF P
<1>7. n \in P
  <2>1. \A k \in Nat : k \in P => k + 1 \in P
    BY <1>6
  <2>2. QED
    BY <1>5, <2>1, InductionOnNat
<1>8. h[n] \in Pages
  BY <1>1, <1>3 DEF PenRun
<1>9. /\ Alike(g[m + n], h[n].pen)
      /\ Len(h[n].shown) <= full => HoldsText(g[m + n], h[n].shown)
  BY <1>7 DEF P
<1>10. Len(h[n].shown) <= full
  BY <1>3, <1>4
<1>11. QED
  BY <1>1, <1>3, <1>8, <1>9, <1>10

(* A prompt as it is left: the next character is ordinary.                  *)
Calm(s) == s.esc_state = 0 /\ s.current_attr = Grey /\ ~s.ansi_bold
ShownPrompts == {shown \in Seq(Cells) : Spelled(shown) = PromptShown}
Prompted(s) == Calm(s) /\ \E shown \in ShownPrompts : HoldsText(s, shown)

LEMMA SpelledText ==
  ASSUME NEW text \in Seq(Cells)
  PROVE  /\ Spelled(text) \in Seq(TextChars) /\ Len(Spelled(text)) = Len(text)
         /\ \A i \in 1 .. Len(text) : Spelled(text)[i] = text[i].char
<1>1. PICK n \in Nat : n = Len(text) /\ DOMAIN text = 1 .. n
  OBVIOUS
<1>2. Spelled(text) = [k \in 1 .. n |-> text[k].char]
  BY <1>1 DEF Spelled
<1>3. ASSUME NEW k \in 1 .. n
      PROVE  text[k].char \in TextChars
  <2>1. text[k] \in Cells
    BY <1>1
  <2>2. QED
    BY <2>1 DEF Cells
<1>4. Spelled(text) \in [1 .. n -> TextChars]
  BY <1>2, <1>3
<1>5. QED
  BY <1>1, <1>2, <1>4

LEMMA PromptText ==
  /\ Prompt \in Seq(Printed \ {Newline, Backspace})
  /\ \A attr \in 0 .. 15, bold \in BOOLEAN :
       LET t == Written(Pen(attr, bold), Prompt) IN
       Spelled(t.shown) = PromptShown /\ Calm(t.pen)
  /\ PromptShown \in Seq(TextChars)
  /\ \A len \in {GateLineLen, ShellLineLen} :
       Len(PromptShown) + len - 1 <= (MaxLog - 1) * MaxCols
  /\ Len(PromptShown) <= (MaxLog - 1) * MaxCols
<1>1. Prompt \in Seq(Printed \ {Newline, Backspace})
  <2>1. \A i \in 1 .. Len(Prompt) : Prompt[i] # Newline /\ Prompt[i] # Backspace
    <3>1. Newline \notin ToSet(Prompt) /\ Backspace \notin ToSet(Prompt)
      BY PromptAssumption, TerminalAssumption
    <3>2. ToSet(Prompt) = {Prompt[i] : i \in 1 .. Len(Prompt)}
      BY PromptIsPrinted DEF ToSet
    <3>3. QED
      BY <3>1, <3>2
  <2>2. QED
    BY <2>1, PromptIsPrinted
<1>2. ASSUME NEW attr \in 0 .. 15, NEW bold \in BOOLEAN
      PROVE  LET t == Written(Pen(attr, bold), Prompt) IN
             Spelled(t.shown) = PromptShown /\ Calm(t.pen)
  BY PromptAssumption DEF Calm
<1>3. PromptShown \in Seq(TextChars)
  <2>1. PICK t : t = [pen |-> Pen(Grey, FALSE), shown |-> <<>>]
    OBVIOUS
  <2>2. t \in Pages
    <3>1. Pen(Grey, FALSE) = Coloured(PowerOn, Grey, FALSE)
      BY DEF Pen, Coloured
    <3>2. Pen(Grey, FALSE) \in Screens
      BY <3>1, PowerOnIsScreen, ColouredIsScreen, ScreenNumbers DEF Placed
    <3>3. <<>> \in Seq(Cells)
      OBVIOUS
    <3>4. QED
      BY <2>1, <3>2, <3>3 DEF Pages
  <2>3. PICK h : PenRun(h, t, Prompt) /\ FoldLeft(Write, t, Prompt) = h[Len(Prompt)]
    BY <2>2, PromptIsPrinted, WritingRuns
  <2>4. h[Len(Prompt)] \in Pages
    <3>1. Len(Prompt) \in Nat
      BY PromptIsPrinted
    <3>2. QED
      BY <2>3, <3>1 DEF PenRun
  <2>5. Written(Pen(Grey, FALSE), Prompt) \in Pages
    BY <2>1, <2>3, <2>4 DEF Written
  <2>6. PICK shown \in Seq(Cells) : Spelled(shown) = PromptShown
    BY <1>2, <2>5, ScreenNumbers DEF Pages
  <2>7. QED
    BY <2>6, SpelledText
<1>4. PICK full \in Int : full = (MaxLog - 1) * MaxCols
  BY ScreenNumbers
<1>5. /\ Len(PromptShown) + GateLineLen - 1 <= full
      /\ Len(PromptShown) + ShellLineLen - 1 <= full
  BY <1>4, PromptAssumption
<1>6. Len(PromptShown) <= full
  BY <1>3, <1>5, ConsoleAssumption
<1>7. QED
  BY <1>1, <1>2, <1>3, <1>4, <1>5, <1>6
LEMMA PromptLength ==
  ASSUME NEW shown \in ShownPrompts
  PROVE  shown \in Seq(Cells) /\ Len(shown) = Len(PromptShown) /\ Len(shown) \in Nat
BY SpelledText DEF ShownPrompts

LEMMA PromptFromHere ==
  ASSUME NEW t \in Screens, NEW e \in Seq(Printed), NEW g, Run(g, t, e), NEW m \in Nat,
         m + Len(Prompt) = Len(e), \A i \in 1 .. Len(Prompt) : e[m + i] = Prompt[i],
         g[m].esc_state = 0
  PROVE  Prompted(g[Len(e)])
<1>1. g[m] \in Screens
  <2>1. Len(Prompt) \in Nat /\ Len(e) \in Nat
    BY PromptIsPrinted
  <2>2. QED
    BY <2>1 DEF Run
<1>2. PICK a \in 0 .. 15, b \in BOOLEAN : a = g[m].current_attr /\ b = g[m].ansi_bold
  BY <1>1 DEF Screens, Drafts, DraftFields
<1>3. PICK u : u = [pen |-> Pen(a, b), shown |-> <<>>]
  OBVIOUS
<1>4. Pen(a, b) \in Screens /\ Alike(g[m], Pen(a, b))
  <2>1. Pen(a, b) = Coloured(PowerOn, a, b)
    BY DEF Pen, Coloured
  <2>2. Pen(a, b) \in Placed(PowerOn)
    BY <2>1, PowerOnIsScreen, ColouredIsScreen
  <2>3. /\ Pen(a, b).current_attr = a /\ Pen(a, b).ansi_bold = b
        /\ Pen(a, b).esc_state = 0
    BY DEF Pen, PowerOn
  <2>4. QED
    BY <1>2, <2>2, <2>3 DEF Placed, Alike
<1>5. u \in Pages /\ u.pen = Pen(a, b) /\ u.shown = <<>>
  <2>1. <<>> \in Seq(Cells)
    OBVIOUS
  <2>2. QED
    BY <1>3, <1>4, <2>1 DEF Pages
<1>6. HoldsText(g[m], u.shown)
  <2>1. Place(g[m]) \in Nat
    <3>1. PICK row \in Nat, col \in Nat : row = g[m].cur_row /\ col = g[m].cur_col
      BY <1>1 DEF Screens, Drafts, DraftFields, LogRows
    <3>2. row * MaxCols \in Nat
      BY ScreenNumbers
    <3>3. QED
      BY <3>1, <3>2 DEF Place
  <2>2. Len(<<>>) = 0
    OBVIOUS
  <2>3. QED
    BY <1>5, <2>1, <2>2 DEF HoldsText
<1>7. PICK w : w = FoldLeft(Write, u, Prompt) /\ w = Written(Pen(a, b), Prompt)
  BY <1>3 DEF Written
<1>8. Spelled(w.shown) = PromptShown /\ Calm(w.pen)
  BY <1>7, PromptText
<1>9. w.shown \in ShownPrompts /\ Len(w.shown) <= (MaxLog - 1) * MaxCols
  <2>1. PICK h : PenRun(h, u, Prompt) /\ w = h[Len(Prompt)]
    BY <1>5, <1>7, PromptIsPrinted, WritingRuns
  <2>2. w \in Pages
    <3>1. Len(Prompt) \in Nat
      BY PromptIsPrinted
    <3>2. QED
      BY <2>1, <3>1 DEF PenRun
  <2>3. w.shown \in ShownPrompts
    BY <1>8, <2>2 DEF Pages, ShownPrompts
  <2>4. QED
    BY <2>3, PromptText, PromptLength
<1>10. w \in Pages /\ Alike(g[Len(e)], w.pen) /\ HoldsText(g[Len(e)], w.shown)
  BY <1>4, <1>5, <1>6, <1>7, <1>9, PromptText, WrittenHolds
<1>11. QED
  BY <1>8, <1>9, <1>10 DEF Alike, Calm, Prompted

(* The prompt is all of the screen, or comes after the last newline of what *)
(* was printed: either way outside any escape sequence.                     *)
LEMMA PromptIsShown ==
  ASSUME NEW t \in Screens
  PROVE  /\ t.esc_state = 0 => Prompted(PrintStr(t, Prompt))
         /\ \A said \in Messages : Prompted(PrintStr(t, <<Newline>> \o (said \o Prompt)))
<1>1. ASSUME t.esc_state = 0
      PROVE  Prompted(PrintStr(t, Prompt))
  <2>1. PICK g : Run(g, t, Prompt) /\ PrintStr(t, Prompt) = g[Len(Prompt)]
    BY PromptIsPrinted, PrintStrRuns
  <2>2. g[0].esc_state = 0
    BY <1>1, <2>1 DEF Run
  <2>3. 0 + Len(Prompt) = Len(Prompt) /\ \A i \in 1 .. Len(Prompt) : Prompt[0 + i] = Prompt[i]
    BY PromptIsPrinted
  <2>4. QED
    BY <2>1, <2>2, <2>3, PromptIsPrinted, PromptFromHere
<1>2. ASSUME NEW said \in Messages
      PROVE  Prompted(PrintStr(t, <<Newline>> \o (said \o Prompt)))
  <2>1. PICK d : d = said \o Prompt
    OBVIOUS
  <2>2. PICK e : e = <<Newline>> \o d
    OBVIOUS
  <2>3. PICK n \in Nat, l \in Nat : n = Len(said) /\ l = Len(Prompt)
    BY TextsArePrinted
  <2>4. /\ d \in Seq(Printed) /\ Len(d) = n + l
        /\ \A i \in 1 .. n + l : d[i] = IF i <= n THEN said[i] ELSE Prompt[i - n]
    BY <2>1, <2>3, TextsArePrinted, ConcatProperties
  <2>5. /\ e \in Seq(Printed) /\ Len(e) = 1 + Len(d)
        /\ \A i \in 1 .. Len(d) : e[1 + i] = d[i]
    <3>1. Newline \in Printed
      BY TerminalAssumption DEF Printed, TextChars
    <3>2. QED
      BY <2>2, <2>4, <3>1, ConsProperties
  <2>6. PICK m \in Nat : m = 1 + n /\ m + l = Len(e) /\ m <= Len(e)
    BY <2>4, <2>5
  <2>7. \A i \in 1 .. l : e[m + i] = Prompt[i]
    <3>1. ASSUME NEW i \in 1 .. l
          PROVE  e[m + i] = Prompt[i]
      <4>1. n + i \in 1 .. n + l /\ ~(n + i <= n) /\ (n + i) - n = i /\ m + i = 1 + (n + i)
        BY <2>6
      <4>2. d[n + i] = Prompt[(n + i) - n]
        BY <2>4, <4>1, Zenon
      <4>3. QED
        BY <2>4, <2>5, <4>1, <4>2
    <3>2. QED
      BY <3>1
  <2>8. e[m] = Newline
    <3>1. CASE said = <<>>
      <4>1. n = 0
        BY <2>3, <3>1
      <4>2. e[1] = Newline
        BY <2>2, <2>4
      <4>3. QED
        BY <2>6, <4>1, <4>2
    <3>2. CASE said # <<>>
      <4>1. n > 0 /\ Last(said) = said[n]
        BY <2>3, <3>2, TextsArePrinted, EmptySeq DEF Last
      <4>2. said[n] = Newline
        BY <3>2, <4>1, PromptAssumption
      <4>3. n \in 1 .. n + l /\ n <= n
        BY <4>1
      <4>4. d[n] = said[n]
        BY <2>4, <4>3
      <4>5. QED
        BY <2>4, <2>5, <2>6, <4>2, <4>3, <4>4
    <3>3. QED
      BY <3>1, <3>2
  <2>9. PICK g : Run(g, t, e) /\ PrintStr(t, e) = g[Len(e)]
    BY <2>5, PrintStrRuns
  <2>10. g[m].esc_state = 0
    <3>1. n + 1 = m /\ n <= Len(e)
      BY <2>6
    <3>2. g[n] \in Screens /\ g[m] = PutChar(g[n], Newline) /\ Newline \in Printed
      BY <2>6, <2>8, <2>9, <3>1 DEF Run
    <3>3. Ordinary(Newline)
      BY PromptAssumption DEF Ordinary, EscChars
    <3>4. QED
      BY <3>2, <3>3, PutCharIsScreen
  <2>11. Prompted(g[Len(e)])
    BY <2>3, <2>5, <2>6, <2>7, <2>9, <2>10, PromptFromHere
  <2>12. QED
    BY <2>1, <2>2, <2>9, <2>11
<1>3. QED
  BY <1>1, <1>2

(* screen_scroll_view                                                       *)
LEMMA ScrollViewKeepsText ==
  ASSUME NEW s \in Screens, NEW delta \in Int, NEW text, HoldsText(s, text)
  PROVE  HoldsText(ScrollView(s, delta), text) /\ Ink(ScrollView(s, delta)) = Ink(s)
<1>1. s \in Drafts /\ s.scroll_off \in Int
  BY DEF Screens, Drafts, DraftFields, Scrolls
<1>2. PICK v \in Int : v = s.scroll_off + delta
  BY <1>1
<1>3. ScrollView(s, delta) = Redraw(ClampScroll(Scrolled(s, v)))
  BY <1>1, <1>2 DEF ScrollView, Scrolled, Drafts, DraftFields
<1>4. PICK w \in Scrolls : ScrollView(s, delta) = Redraw(Scrolled(s, w))
  BY <1>1, <1>3, ClampsIntoLog
<1>5. Scrolled(s, w) \in Drafts /\ InRow(Scrolled(s, w))
  BY <1>1, ScrolledIsDraft DEF Screens, InRow
<1>6. HoldsText(Scrolled(s, w), text) /\ Ink(Scrolled(s, w)) = Ink(s)
  BY <1>1, ScrolledKeepsText
<1>7. QED
  BY <1>4, <1>5, <1>6, RedrawKeeps
-----------------------------------------------------------------------------
(* The prompt and the line behind it, as they are to be seen.               *)
TextOf(shown, state, line) ==
  shown \o
    [k \in DOMAIN line |-> [char |-> IF state = "PIN" THEN Star ELSE line[k],
                            attr |-> Grey]]

LEMMA TextOfLine ==
  ASSUME NEW shown \in Seq(Cells), NEW state, NEW line \in Seq(Chars)
  PROVE  /\ TextOf(shown, state, line) \in Seq(Cells)
         /\ Len(TextOf(shown, state, line)) = Len(shown) + Len(line)
         /\ \A i \in 1 .. Len(shown) : TextOf(shown, state, line)[i] = shown[i]
         /\ \A i \in 1 .. Len(line) :
              TextOf(shown, state, line)[Len(shown) + i] =
                [char |-> IF state = "PIN" THEN Star ELSE line[i], attr |-> Grey]
<1>1. PICK p \in Nat, n \in Nat : p = Len(shown) /\ n = Len(line)
  OBVIOUS
<1>2. PICK look : look = [k \in 1 .. n |->
         [char |-> IF state = "PIN" THEN Star ELSE line[k], attr |-> Grey]]
  OBVIOUS
<1>3. look \in Seq(Cells) /\ Len(look) = n
  <2>1. ASSUME NEW k \in 1 .. n
        PROVE  [char |-> IF state = "PIN" THEN Star ELSE line[k], attr |-> Grey] \in Cells
    <3>1. line[k] \in Chars
      BY <1>1
    <3>2. QED
      BY <3>1, ScreenNumbers DEF Cells, TextChars
  <2>2. look \in [1 .. n -> Cells]
    BY <1>2, <2>1
  <2>3. QED
    BY <2>2
<1>4. TextOf(shown, state, line) = shown \o look
  <2>1. DOMAIN line = 1 .. n
    BY <1>1
  <2>2. TextOf(shown, state, line) =
          shown \o [k \in 1 .. n |->
            [char |-> IF state = "PIN" THEN Star ELSE line[k], attr |-> Grey]]
    BY <2>1, Zenon DEF TextOf
  <2>3. QED
    BY <1>2, <2>2, Zenon
<1>5. /\ shown \o look \in Seq(Cells) /\ Len(shown \o look) = p + n
      /\ \A i \in 1 .. p + n :
           (shown \o look)[i] = IF i <= p THEN shown[i] ELSE look[i - p]
  <2>1. PICK ps \in Seq(Cells) : ps = shown /\ Len(ps) = p
    BY <1>1
  <2>2. /\ ps \o look \in Seq(Cells) /\ Len(ps \o look) = p + n
        /\ \A i \in 1 .. p + n : (ps \o look)[i] = IF i <= p THEN ps[i] ELSE look[i - p]
    BY <1>3, <2>1, ConcatProperties, ZenonT(40)
  <2>3. QED
    BY <2>1, <2>2
<1>6. ASSUME NEW i \in 1 .. n
      PROVE  (shown \o look)[p + i] = look[i]
  <2>1. p + i \in 1 .. p + n /\ ~(p + i <= p) /\ (p + i) - p = i
    OBVIOUS
  <2>2. (shown \o look)[p + i] = look[(p + i) - p]
    BY <1>5, <2>1, Zenon
  <2>3. QED
    BY <2>1, <2>2
<1>7. ASSUME NEW i \in 1 .. p
      PROVE  (shown \o look)[i] = shown[i]
  BY <1>5
<1>8. QED
  BY <1>1, <1>2, <1>4, <1>5, <1>6, <1>7
LEMMA TextOfCells ==
  ASSUME NEW shown \in Seq(Cells), NEW state, NEW line \in Seq(Chars),
         NEW text, text = TextOf(shown, state, line)
  PROVE  /\ Len(text) = Len(shown) + Len(line)
         /\ \A i \in 1 .. Len(shown) : text[i] = shown[i]
         /\ \A i \in 1 .. Len(line) :
              text[Len(shown) + i] =
                [char |-> IF state = "PIN" THEN Star ELSE line[i], attr |-> Grey]
BY TextOfLine

(* Typing puts one character behind it, and no line is another's text.      *)
LEMMA TextOfTyped ==
  ASSUME NEW shown \in Seq(Cells), NEW state, NEW line \in Seq(Chars), NEW c \in Chars
  PROVE  TextOf(shown, state, Append(line, c)) =
           Append(TextOf(shown, state, line),
                  [char |-> IF state = "PIN" THEN Star ELSE c, attr |-> Grey])
<1>1. PICK p \in Nat, n \in Nat : p = Len(shown) /\ n = Len(line)
  OBVIOUS
<1>2. PICK z \in Cells : z = [char |-> IF state = "PIN" THEN Star ELSE c, attr |-> Grey]
  <2>1. [char |-> IF state = "PIN" THEN Star ELSE c, attr |-> Grey] \in Cells
    BY ScreenNumbers DEF Cells, TextChars
  <2>2. QED
    BY <2>1
<1>3. PICK more \in Seq(Chars) :
        /\ more = Append(line, c) /\ Len(more) = n + 1 /\ more[n + 1] = c
        /\ \A i \in 1 .. n : more[i] = line[i]
  <2>1. /\ Append(line, c) \in Seq(Chars) /\ Len(Append(line, c)) = n + 1
        /\ Append(line, c)[n + 1] = c
        /\ \A i \in 1 .. n : Append(line, c)[i] = line[i]
    BY <1>1, AppendProperties
  <2>2. QED
    BY <2>1
<1>4. PICK old \in Seq(Cells), new \in Seq(Cells) :
        old = TextOf(shown, state, line) /\ new = TextOf(shown, state, more)
  BY TextOfLine
<1>5. shown \in Seq(Cells)
  OBVIOUS
<1>6. /\ Len(old) = p + n /\ Len(new) = p + (n + 1)
      /\ \A i \in 1 .. p : old[i] = shown[i] /\ new[i] = shown[i]
      /\ \A i \in 1 .. n :
           old[p + i] = [char |-> IF state = "PIN" THEN Star ELSE line[i], attr |-> Grey]
      /\ \A i \in 1 .. n + 1 :
           new[p + i] = [char |-> IF state = "PIN" THEN Star ELSE more[i], attr |-> Grey]
  <2>1. /\ Len(old) = p + n /\ \A i \in 1 .. p : old[i] = shown[i]
        /\ \A i \in 1 .. n :
             old[p + i] = [char |-> IF state = "PIN" THEN Star ELSE line[i], attr |-> Grey]
    <3>1. line \in Seq(Chars)
      OBVIOUS
    <3>2. /\ Len(old) = Len(shown) + Len(line)
          /\ \A i \in 1 .. Len(shown) : old[i] = shown[i]
          /\ \A i \in 1 .. Len(line) :
               old[Len(shown) + i] =
                 [char |-> IF state = "PIN" THEN Star ELSE line[i], attr |-> Grey]
      BY <1>5, <1>4, <3>1, TextOfCells
    <3>3. QED
      BY <1>1, <3>2, Zenon
  <2>2. /\ Len(new) = p + (n + 1) /\ \A i \in 1 .. p : new[i] = shown[i]
        /\ \A i \in 1 .. n + 1 :
             new[p + i] = [char |-> IF state = "PIN" THEN Star ELSE more[i], attr |-> Grey]
    <3>1. /\ Len(new) = p + Len(more) /\ \A i \in 1 .. p : new[i] = shown[i]
          /\ \A i \in 1 .. Len(more) :
               new[p + i] =
                 [char |-> IF state = "PIN" THEN Star ELSE more[i], attr |-> Grey]
      <4>1. more \in Seq(Chars)
        BY <1>3
      <4>2. /\ Len(new) = Len(shown) + Len(more)
            /\ \A i \in 1 .. Len(shown) : new[i] = shown[i]
            /\ \A i \in 1 .. Len(more) :
                 new[Len(shown) + i] =
                   [char |-> IF state = "PIN" THEN Star ELSE more[i], attr |-> Grey]
        BY <1>5, <1>4, <4>1, TextOfCells
      <4>3. QED
        BY <1>1, <4>2, Zenon
    <3>2. Len(more) = n + 1
      BY <1>3
    <3>3. QED
      BY <3>1, <3>2, Zenon
  <2>3. QED
    BY <2>1, <2>2
<1>7. /\ Append(old, z) \in Seq(Cells) /\ Len(Append(old, z)) = p + n + 1
      /\ Append(old, z)[p + n + 1] = z
      /\ \A i \in 1 .. p + n : Append(old, z)[i] = old[i]
  BY <1>6, AppendText
<1>8. ASSUME NEW i \in 1 .. p + n + 1
      PROVE  new[i] = Append(old, z)[i]
  <2>1. CASE i \in 1 .. p
    <3>1. i \in 1 .. p + n
      BY <2>1
    <3>2. QED
      BY <1>6, <1>7, <2>1, <3>1
  <2>2. CASE i > p /\ i <= p + n
    <3>1. PICK j \in 1 .. n : i = p + j
      <4>1. i - p \in 1 .. n /\ i = p + (i - p)
        BY <2>2
      <4>2. QED
        BY <4>1
    <3>2. j \in 1 .. n + 1 /\ i \in 1 .. p + n
      BY <2>2
    <3>3. new[p + j] = old[p + j]
      BY <1>3, <1>6, <3>2
    <3>4. QED
      BY <1>7, <3>1, <3>2, <3>3
  <2>3. CASE ~(i \in 1 .. p) /\ ~(i > p /\ i <= p + n)
    <3>1. i = p + n + 1
      BY <2>3
    <3>2. n + 1 \in 1 .. n + 1 /\ p + (n + 1) = p + n + 1
      OBVIOUS
    <3>3. new[p + (n + 1)] = z
      BY <1>2, <1>3, <1>6, <3>2
    <3>4. QED
      BY <1>7, <3>1, <3>2, <3>3
  <2>4. QED
    BY <2>1, <2>2, <2>3
<1>9. new = Append(old, z)
  <2>1. PICK m \in Nat : m = p + n + 1
    OBVIOUS
  <2>2. Len(new) = m /\ Len(Append(old, z)) = m
    BY <1>6, <1>7, <2>1
  <2>3. QED
    BY <1>7, <1>8, <2>1, <2>2, SeqEqual
<1>10. QED
  BY <1>2, <1>3, <1>4, <1>9

LEMMA TextOfBackspaced ==
  ASSUME NEW shown \in Seq(Cells), NEW state, NEW line \in Seq(Chars), line # <<>>
  PROVE  /\ Backspaced(line) \in Seq(Chars)
         /\ \E z \in Cells : TextOf(shown, state, line) = Append(TextOf(shown, state, Backspaced(line)), z)
<1>1. PICK n \in Nat : n = Len(line) /\ n > 0
  BY EmptySeq
<1>2. PICK less \in Seq(Chars) : /\ less = Backspaced(line) /\ Len(less) = n - 1
                                /\ \A i \in 1 .. n - 1 : less[i] = line[i]
  <2>1. \A i \in 1 .. n - 1 : line[i] \in Chars
    BY <1>1
  <2>2. SubSeq(line, 1, n - 1) \in Seq(Chars)
    BY <1>1, <2>1, SubSeqProperties
  <2>3. Len(SubSeq(line, 1, n - 1)) = n - 1
    BY <1>1, BackspacedLength DEF Backspaced
  <2>4. \A i \in 1 .. n - 1 : SubSeq(line, 1, n - 1)[i] = line[i]
    BY <1>1
  <2>5. QED
    BY <1>1, <2>2, <2>3, <2>4 DEF Backspaced
<1>3. PICK c \in Chars : c = line[n]
  BY <1>1
<1>4. line = Append(less, c)
  <2>1. /\ Append(less, c) \in Seq(Chars) /\ Len(Append(less, c)) = n
        /\ Append(less, c)[n] = c /\ \A i \in 1 .. n - 1 : Append(less, c)[i] = less[i]
    <3>1. (n - 1) + 1 = n
      BY <1>1
    <3>2. QED
      BY <1>1, <1>2, <3>1, AppendProperties
  <2>2. \A i \in 1 .. n : line[i] = Append(less, c)[i]
    BY <1>1, <1>2, <1>3, <2>1
  <2>3. QED
    BY <1>1, <2>1, <2>2, SeqEqual
<1>5. [char |-> IF state = "PIN" THEN Star ELSE c, attr |-> Grey] \in Cells
  BY ScreenNumbers DEF Cells, TextChars
<1>6. QED
  BY <1>2, <1>4, <1>5, TextOfTyped
-----------------------------------------------------------------------------
(* What stands in front of the cursor is the prompt and the line, and the   *)
(* next character goes behind it in the ordinary colour.                    *)
OnScreen(s, state, line) ==
  Calm(s) /\ \E shown \in ShownPrompts : HoldsText(s, TextOf(shown, state, line))
InkInv ==
  con_state # "LOCKOUT" /\ Esc \notin ToSet(typed) =>
    OnScreen(screen, con_state, ActiveLine)
TextInv == ViewInv /\ InkInv

LEMMA CalmInk ==
  ASSUME NEW s, NEW t, Ink(s) = Ink(t), Calm(s)
  PROVE  Calm(t)
BY DEF Ink, Calm

LEMMA TextOfNothing ==
  \A shown \in ShownPrompts : \A state : TextOf(shown, state, <<>>) = shown
<1>1. ASSUME NEW shown \in ShownPrompts, NEW state
      PROVE  TextOf(shown, state, <<>>) = shown
  <2>1. PICK p \in Nat : p = Len(shown) /\ shown \in Seq(Cells)
    BY PromptLength
  <2>2. <<>> \in Seq(Chars) /\ Len(<<>>) = 0
    OBVIOUS
  <2>3. PICK t \in Seq(Cells) : t = TextOf(shown, state, <<>>)
    BY <2>1, <2>2, TextOfLine
  <2>4. Len(t) = p + 0 /\ \A i \in 1 .. p : t[i] = shown[i]
    <3>1. PICK none \in Seq(Chars) : none = <<>> /\ Len(none) = 0
      BY <2>2
    <3>2. shown \in Seq(Cells) /\ none \in Seq(Chars)
      BY <2>1, <3>1
    <3>3. t = TextOf(shown, state, none)
      BY <2>3, <3>1, Zenon
    <3>4. /\ Len(t) = Len(shown) + Len(none)
          /\ \A i \in 1 .. Len(shown) : t[i] = shown[i]
      BY <3>2, <3>3, TextOfCells
    <3>5. QED
      BY <2>1, <3>1, <3>4
  <2>5. QED
    BY <2>1, <2>3, <2>4, SeqEqual
<1>2. QED
  BY <1>1

LEMMA TerminalInitText == TerminalInit => TextInv
<1> SUFFICES ASSUME TerminalInit PROVE TextInv
  OBVIOUS
<1>1. ViewInv
  BY TerminalInitView
<1>2. ActiveLine = <<>>
  BY DEF TerminalInit, EditorInit, ConsoleInit, ActiveLine
<1>3. Prompted(screen)
  BY GreetedIsScreen, PromptIsShown DEF TerminalInit, Greeted
<1>4. QED
  BY <1>1, <1>2, <1>3, TextOfNothing DEF TextInv, InkInv, Prompted, OnScreen

(* What a key other than Enter does to the line.                            *)
LEMMA KeyEditsLine ==
  ASSUME EditInv, con_state # "LOCKOUT", NEW c \in Keys, c # Newline, EditorKey(c)
  PROVE  /\ con_state' = con_state /\ typed' = Append(typed, c)
         /\ ActiveLine \in Seq(Chars)
         /\ c = Backspace =>
              ActiveLine' = IF ActiveLine = <<>> THEN <<>> ELSE Backspaced(ActiveLine)
         /\ c \in Chars =>
              \E limit \in {GateLineLen, ShellLineLen} :
                ActiveLine' = Typed(ActiveLine, c, limit)
<1> USE ControlCharsDiffer, ConsoleAssumption
<1>1. OnKey(c) /\ con_state \in {"PIN", "GATE", "SHELL"} /\ typed' = Append(typed, c)
      /\ gate_line \in Seq(Chars) /\ shell_line \in Seq(Chars)
  BY DEF EditorKey, EditInv, IInv, ConsoleTypeOK, ConsoleState
<1>2. CASE con_state = "SHELL"
  <2>1. ShellKey(c) /\ ActiveLine = shell_line
    BY <1>1, <1>2 DEF OnKey, ActiveLine
  <2>2. /\ con_state' = con_state
        /\ c = Backspace =>
             shell_line' = IF shell_line = <<>> THEN <<>> ELSE Backspaced(shell_line)
        /\ c \in Chars => shell_line' = Typed(shell_line, c, ShellLineLen)
    BY <2>1 DEF ShellKey
  <2>3. ActiveLine' = shell_line'
    BY <1>2, <2>2 DEF ActiveLine
  <2>4. QED
    BY <1>1, <2>1, <2>2, <2>3
<1>3. CASE con_state \in {"PIN", "GATE"}
  <2>1. GateKey(c) /\ ActiveLine = gate_line
    BY <1>1, <1>3 DEF OnKey, ActiveLine
  <2>2. /\ con_state' = con_state
        /\ c = Backspace =>
             gate_line' = IF gate_line = <<>> THEN <<>> ELSE Backspaced(gate_line)
        /\ c \in Chars => gate_line' = Typed(gate_line, c, GateLineLen)
    BY <2>1 DEF GateKey
  <2>3. ActiveLine' = gate_line'
    BY <1>3, <2>2 DEF ActiveLine
  <2>4. QED
    BY <1>1, <2>1, <2>2, <2>3
<1>4. QED
  BY <1>1, <1>2, <1>3

LEMMA NoEscTyped ==
  ASSUME typed \in Seq(TypedKeys), NEW c \in TypedKeys,
         typed' = Append(typed, c), Esc \notin ToSet(typed')
  PROVE  c # Esc /\ Esc \notin ToSet(typed)
<1>1. /\ Len(typed') = Len(typed) + 1 /\ Len(typed) \in Nat
      /\ typed'[Len(typed) + 1] = c
      /\ \A i \in 1 .. Len(typed) : typed'[i] = typed[i]
  BY AppendProperties
<1>2. ToSet(typed') = {typed'[i] : i \in 1 .. Len(typed) + 1}
  BY <1>1 DEF ToSet
<1>3. ToSet(typed) = {typed[i] : i \in 1 .. Len(typed)}
  BY DEF ToSet
<1>4. QED
  BY <1>1, <1>2, <1>3

(* A character that the line takes is put, in the ordinary colour and in    *)
(* sight; one that it does not take changes nothing.                        *)
LEMMA CharIsShown ==
  ASSUME TextInv, IInv', con_state # "LOCKOUT", NEW c \in Chars, EditorKey(c), Echo(c),
         Esc \notin ToSet(typed')
  PROVE  /\ OnScreen(screen', con_state, ActiveLine')
         /\ Len(ActiveLine') > Len(ActiveLine) =>
              /\ screen' = PutChar(screen, Echoed(c)) /\ InSight(screen')
              /\ ActiveLine' = Append(ActiveLine, c)
<1>1. c \in Keys /\ c \in TypedKeys /\ c # Newline /\ EditInv /\ IInv /\ typed \in Seq(TypedKeys)
  BY ConsoleAssumption DEF Keys, TypedKeys, TextInv, ViewInv, EditInv
<1>2. PICK line, new : line = ActiveLine /\ new = ActiveLine'
  OBVIOUS
<1>3. PICK limit \in {GateLineLen, ShellLineLen} :
        /\ line = ActiveLine /\ new = ActiveLine' /\ line \in Seq(Chars)
        /\ new = Typed(line, c, limit)
        /\ typed' = Append(typed, c)
  BY <1>2, <1>1, KeyEditsLine
<1>4. c # Esc /\ OnScreen(screen, con_state, line) /\ Calm(screen)
  BY <1>1, <1>3, NoEscTyped DEF TextInv, InkInv, OnScreen
<1>5. screen' = IF Len(new) > Len(line) THEN PutChar(screen, Echoed(c)) ELSE screen
  BY <1>1, <1>3, ConsoleAssumption DEF Echo
<1>6. CASE new = Append(line, c) /\ Len(line) < limit - 1
  <2>1. PICK n \in Nat : n = Len(line) /\ Len(new) = n + 1
    BY <1>3, <1>6, AppendProperties
  <2>2. PICK e : e = Echoed(c)
    OBVIOUS
  <2>3. e \in Printed \ {Newline, Backspace, Esc}
    BY <1>1, <1>4, <2>2, TerminalAssumption, ConsoleAssumption
       DEF Echoed, Printed, TextChars
  <2>4. PICK shown \in ShownPrompts : HoldsText(screen, TextOf(shown, con_state, line))
    BY <1>4 DEF OnScreen
  <2>5. PICK text \in Seq(Cells) : /\ text = TextOf(shown, con_state, line)
                                  /\ Len(text) = Len(PromptShown) + n
    BY <1>3, <2>1, PromptLength, TextOfLine
  <2>6. Len(text) + 1 <= (MaxLog - 1) * MaxCols
    <3>1. PICK full \in Int, p \in Nat : full = (MaxLog - 1) * MaxCols /\ p = Len(PromptShown)
      BY PromptLength, ScreenNumbers
    <3>2. limit \in Nat /\ p + limit - 1 <= full
      BY <3>1, PromptText, ConsoleAssumption
    <3>3. QED
      BY <1>6, <2>1, <2>5, <3>1, <3>2
  <2>7. screen \in Screens /\ screen.esc_state = 0
    BY <1>4 DEF TextInv, ViewInv, ScreenInv, Calm
  <2>8. screen' = PutChar(screen, e)
    BY <1>5, <2>1, <2>2
  <2>9. /\ HoldsText(screen', Append(text, Cell(screen, e)))
        /\ Ink(screen') = Ink(screen) /\ InSight(screen')
    BY <2>4, <2>3, <2>5, <2>6, <2>7, <2>8, PutCharHolds
  <2>10. Cell(screen, e) = [char |-> IF con_state = "PIN" THEN Star ELSE c, attr |-> Grey]
    BY <1>4, <2>2 DEF Cell, Calm, Echoed
  <2>11. Append(text, Cell(screen, e)) = TextOf(shown, con_state, new)
    BY <1>3, <1>6, <2>5, <2>10, PromptLength, TextOfTyped
  <2>12. Calm(screen')
    BY <1>4, <2>9, CalmInk
  <2>13. QED
    BY <1>3, <1>6, <2>2, <2>8, <2>9, <2>11, <2>12 DEF OnScreen
<1>7. CASE new = line
  <2>1. Len(line) \in Nat /\ ~(Len(new) > Len(line))
    BY <1>7
  <2>2. QED
    BY <1>3, <1>4, <1>5, <1>7, <2>1
<1>8. QED
  BY <1>3, <1>6, <1>7 DEF Typed
LEMMA BackspaceIsShown ==
  ASSUME TextInv, con_state # "LOCKOUT", EditorKey(Backspace), Echo(Backspace),
         Esc \notin ToSet(typed')
  PROVE  OnScreen(screen', con_state, ActiveLine')
<1> USE ControlCharsDiffer, ConsoleAssumption
<1>1. Backspace \in Keys /\ Backspace \in TypedKeys /\ EditInv /\ typed \in Seq(TypedKeys)
  BY DEF Keys, TypedKeys, TextInv, ViewInv, EditInv
<1>2. PICK line, new : line = ActiveLine /\ new = ActiveLine'
  OBVIOUS
<1>3. /\ line \in Seq(Chars) /\ new = IF line = <<>> THEN <<>> ELSE Backspaced(line)
      /\ typed' = Append(typed, Backspace)
  BY <1>1, <1>2, KeyEditsLine
<1>4. Backspace # Esc /\ OnScreen(screen, con_state, line)
  BY <1>1, <1>2, <1>3, NoEscTyped DEF TextInv, InkInv
<1>5. screen' = IF line = <<>> THEN screen ELSE PutChar(screen, Backspace)
  BY <1>2 DEF Echo
<1>6. CASE line = <<>>
  BY <1>2, <1>3, <1>4, <1>5, <1>6
<1>7. CASE line # <<>>
  <2>1. new = Backspaced(line) /\ screen' = PutChar(screen, Backspace)
    BY <1>3, <1>5, <1>7
  <2>2. PICK shown \in ShownPrompts : HoldsText(screen, TextOf(shown, con_state, line))
    BY <1>4 DEF OnScreen
  <2>3. PICK z \in Cells :
          TextOf(shown, con_state, line) = Append(TextOf(shown, con_state, new), z)
    BY <1>3, <1>7, <2>1, PromptLength, TextOfBackspaced
  <2>4. TextOf(shown, con_state, new) \in Seq(Cells)
    BY <1>3, <1>7, <2>1, PromptLength, TextOfBackspaced, TextOfLine
  <2>5. screen \in Screens /\ screen.esc_state = 0 /\ Calm(screen)
    BY <1>4 DEF TextInv, ViewInv, ScreenInv, Calm, OnScreen
  <2>6. /\ HoldsText(PutChar(screen, Backspace), TextOf(shown, con_state, new))
        /\ Ink(PutChar(screen, Backspace)) = Ink(screen)
    BY <1>4, <2>2, <2>3, <2>4, <2>5, BackspaceHolds
  <2>7. QED
    BY <1>2, <2>1, <2>5, <2>6, CalmInk DEF OnScreen
<1>8. QED
  BY <1>6, <1>7

LEMMA EnterStartsLine ==
  ASSUME EditInv', con_state' # "LOCKOUT", typed' = <<>>
  PROVE  ActiveLine' = <<>>
<1>1. Edited(<<>>, GateLineLen) = <<>> /\ Edited(<<>>, ShellLineLen) = <<>>
  BY EditedEmpty, ConsoleAssumption
<1>2. con_state' \in {"PIN", "GATE", "SHELL"}
  BY DEF EditInv, IInv, ConsoleTypeOK, ConsoleState
<1>3. CASE con_state' = "SHELL"
  BY <1>1, <1>3 DEF EditInv, LineIsEdited, ActiveLine
<1>4. CASE con_state' # "SHELL"
  BY <1>1, <1>2, <1>4 DEF EditInv, LineIsEdited, ActiveLine
<1>5. QED
  BY <1>3, <1>4

LEMMA TerminalKeepsText == TextInv /\ [TerminalNext]_terminalVars => TextInv'
<1> SUFFICES ASSUME TextInv, [TerminalNext]_terminalVars PROVE TextInv'
  OBVIOUS
<1> USE ControlCharsDiffer, ConsoleAssumption
<1>1. ViewInv' /\ EditInv' /\ IInv' /\ EditInv /\ screen \in Screens
  BY TerminalKeepsView DEF TextInv, ViewInv, EditInv, ScreenInv
<1>2. CASE TypeKey
  <2>1. PICK c \in Keys : con_state # "LOCKOUT" /\ EditorKey(c) /\ Echo(c)
    BY <1>2 DEF TypeKey
  <2>2. CASE con_state' = "LOCKOUT" \/ Esc \in ToSet(typed')
    BY <1>1, <2>2 DEF TextInv, InkInv
  <2>3. CASE c = Newline /\ con_state' # "LOCKOUT"
    <3>1. EchoEnter /\ typed' = <<>>
      BY <2>1, <2>3 DEF Echo, EditorKey
    <3>2. \/ screen' = PrintStr(ClearScreen(screen), Prompt)
          \/ \E said \in Messages :
               screen' = PrintStr(screen, <<Newline>> \o (said \o Prompt))
      BY <2>3, <3>1, Zenon DEF EchoEnter
    <3>3. Prompted(screen')
      BY <1>1, <3>2, ClearScreenIsScreen, PromptIsShown
    <3>4. ActiveLine' = <<>>
      BY <1>1, <2>3, <3>1, EnterStartsLine
    <3>5. OnScreen(screen', con_state', ActiveLine')
      BY <3>3, <3>4, TextOfNothing DEF Prompted, OnScreen
    <3>6. QED
      BY <1>1, <3>5 DEF TextInv, InkInv, OnScreen, HoldsText, Calm, Place
  <2>4. CASE c # Newline /\ Esc \notin ToSet(typed')
    <3>1. OnScreen(screen', con_state, ActiveLine')
      BY <1>1, <2>1, <2>4, CharIsShown, BackspaceIsShown DEF Keys
    <3>2. con_state' = con_state
      BY <1>1, <2>1, <2>4, KeyEditsLine
    <3>3. QED
      BY <1>1, <3>1, <3>2 DEF TextInv, InkInv, OnScreen, HoldsText, Calm, Place
  <2>5. QED
    BY <2>2, <2>3, <2>4
<1>3. CASE ScrollKey
  <2>1. PICK delta \in Int : screen' = ScrollView(screen, delta)
    BY <1>3 DEF ScrollKey
  <2>2. UNCHANGED editorVars
    BY <1>3 DEF ScrollKey
  <2>3. con_state' = con_state /\ typed' = typed /\ ActiveLine' = ActiveLine
    BY <2>2 DEF editorVars, consoleVars, ActiveLine
  <2>4. ASSUME con_state # "LOCKOUT", Esc \notin ToSet(typed)
        PROVE  OnScreen(screen', con_state, ActiveLine)
    BY <1>1, <2>1, <2>4, ScrollViewKeepsText, CalmInk
       DEF TextInv, InkInv, OnScreen
  <2>5. QED
    BY <1>1, <2>3, <2>4 DEF TextInv, InkInv, OnScreen, HoldsText, Calm, Place
<1>4. CASE UNCHANGED terminalVars
  <2>1. /\ con_state' = con_state /\ typed' = typed /\ ActiveLine' = ActiveLine
        /\ screen' = screen
    BY <1>4 DEF terminalVars, editorVars, consoleVars, ActiveLine
  <2>2. QED
    BY <1>1, <2>1 DEF TextInv, InkInv
<1>5. QED
  BY <1>2, <1>3, <1>4 DEF TerminalNext

LEMMA SpecTextInv == TerminalSpec => []TextInv
BY TerminalInitText, TerminalKeepsText, PTL
   DEF TerminalSpec-----------------------------------------------------------------------------
(* The place of a cell determines its row and its column.                   *)
LEMMA PlaceHasCell ==
  ASSUME NEW s \in Screens, NEW p \in Nat, p < Place(s)
  PROVE  \E q \in LogRows, r \in Columns :
           /\ q = p \div MaxCols /\ r = p % MaxCols /\ q * MaxCols + r = p
           /\ q <= s.cur_row
<1> USE ScreenNumbers
<1>1. PICK row \in Nat, col \in Nat :
        row = s.cur_row /\ col = s.cur_col /\ row < MaxLog /\ col < MaxCols
  BY DEF Screens, Drafts, DraftFields, LogRows, InRow
<1>2. PICK q \in Nat, r \in Nat :
        /\ q = p \div MaxCols /\ r = p % MaxCols /\ r < MaxCols
        /\ q * MaxCols + r = p
  <2>1. /\ p \div MaxCols \in Nat /\ p % MaxCols \in Nat /\ p % MaxCols < MaxCols
        /\ p = (p \div MaxCols) * MaxCols + (p % MaxCols)
    OBVIOUS
  <2>2. QED
    BY <2>1
<1>3. q < row + 1
  <2>1. (row + 1) * MaxCols = row * MaxCols + MaxCols
    BY <1>1
  <2>2. PICK a \in Int, b \in Int : a = row * MaxCols /\ b = q * MaxCols
    BY <1>1
  <2>3. p < a + col
    BY <1>1, <2>2 DEF Place
  <2>4. b + r < a + MaxCols
    BY <1>1, <1>2, <2>2, <2>3
  <2>5. q * MaxCols + r < (row + 1) * MaxCols
    BY <2>1, <2>2, <2>4
  <2>6. QED
    BY <1>1, <2>5, RowIsAbove
<1>4. q \in LogRows /\ r \in Columns /\ q <= row
  BY <1>1, <1>2, <1>3 DEF LogRows, Columns
<1>5. QED
  BY <1>1, <1>2, <1>4

LEMMA PlaceIsNat ==
  ASSUME NEW s \in Screens
  PROVE  Place(s) \in Nat
<1>1. PICK row \in Nat, col \in Nat : row = s.cur_row /\ col = s.cur_col
  BY DEF Screens, Drafts, DraftFields, LogRows
<1>2. row * MaxCols \in Nat
  BY ScreenNumbers
<1>3. QED
  BY <1>1, <1>2 DEF Place

LEMMA TextInCells ==
  ASSUME NEW s \in Screens, NEW text \in Seq(Cells), HoldsText(s, text),
         NEW k \in 1 .. Len(text), NEW p, p = Place(s) - Len(text) + k - 1
  PROVE  /\ p \in Nat /\ p < Place(s)
         /\ s.lines[p \div MaxCols][p % MaxCols] = text[k]
<1>1. PICK n \in Nat, c \in Nat : n = Len(text) /\ c = Place(s)
  BY PlaceIsNat
<1>2. n <= c
  BY <1>1 DEF HoldsText
<1>3. p \in Nat /\ p < c /\ p + n + 1 = c + k
  BY <1>1, <1>2, SMTT(30)
<1>4. PICK q \in LogRows, r \in Columns :
        q = p \div MaxCols /\ r = p % MaxCols /\ q * MaxCols + r = p
  BY <1>1, <1>3, PlaceHasCell
<1>5. q * MaxCols + r + Len(text) + 1 = Place(s) + k
  BY <1>1, <1>3, <1>4
<1>6. s.lines[q][r] = text[k]
  BY <1>5 DEF HoldsText
<1>7. QED
  BY <1>1, <1>3, <1>4, <1>6

(* The character in front of the cursor is in the view, unless the cursor   *)
(* is at the left edge of the row above it.                                 *)
LEMMA LastCellInView ==
  ASSUME NEW s \in Screens, InSight(s), NEW n \in Nat, n > 0, Room(s, n),
         NEW p \in Nat, p = Place(s) - 1
  PROVE  LET row == (p \div MaxCols) - s.scroll_off
             x == p % MaxCols
         IN  /\ row \in ViewRows
             /\ s.vm[row][x] = UnderCursor(s, row, x, s.lines[p \div MaxCols][x])
<1> USE ScreenNumbers
<1>1. PICK c \in Nat : c = Place(s) /\ c = p + 1 /\ p < Place(s)
  BY PlaceIsNat
<1>2. PICK q \in LogRows, r \in Columns :
        /\ q = p \div MaxCols /\ r = p % MaxCols
        /\ q * MaxCols + r = p /\ q <= s.cur_row
  BY <1>1, PlaceHasCell, Zenon
<1>3. PICK v \in Nat, row \in Nat : v = s.scroll_off /\ row = s.cur_row /\ row < v + MaxRows
  BY DEF Screens, Drafts, DraftFields, Scrolls, LogRows, InSight
<1>4. q \in Nat /\ r \in Nat /\ r < MaxCols
  BY DEF LogRows, Columns
<1>5. v <= q
  <2>1. CASE v # 0
    <3>1. PICK a \in Int, b \in Int : a = v * MaxCols /\ b = q * MaxCols
      BY <1>4
    <3>2. a + n <= c
      BY <1>1, <1>3, <2>1, <3>1 DEF Room
    <3>3. a < b + MaxCols
      BY <1>1, <1>2, <1>4, <3>1, <3>2
    <3>4. (q + 1) * MaxCols = b + MaxCols
      BY <1>4, <3>1
    <3>5. v * MaxCols + 0 < (q + 1) * MaxCols
      BY <3>1, <3>3, <3>4
    <3>6. v < q + 1
      BY <1>4, <3>5, RowIsAbove
    <3>7. QED
      BY <1>4, <3>6
  <2>2. QED
    BY <1>4, <2>1
<1>6. q - v \in ViewRows /\ v + (q - v) = q
  <2>1. q <= row
    BY <1>2, <1>3
  <2>2. QED
    BY <1>3, <1>4, <1>5, <2>1 DEF ViewRows
<1>7. s.vm[q - v][r] = UnderCursor(s, q - v, r, s.lines[v + (q - v)][r])
  BY <1>3, <1>6 DEF Screens, InView
<1>8. QED
  BY <1>2, <1>3, <1>6, <1>7

LEMMA SpelledConcat ==
  ASSUME NEW a \in Seq(Cells), NEW b \in Seq(Cells)
  PROVE  Spelled(a \o b) = Spelled(a) \o Spelled(b)
<1>1. PICK m \in Nat, n \in Nat : m = Len(a) /\ n = Len(b)
  OBVIOUS
<1>2. /\ a \o b \in Seq(Cells) /\ Len(a \o b) = m + n
      /\ \A i \in 1 .. m + n : (a \o b)[i] = IF i <= m THEN a[i] ELSE b[i - m]
  BY <1>1, ConcatProperties
<1>3. PICK u \in Seq(TextChars), v \in Seq(TextChars), w \in Seq(TextChars) :
        /\ u = Spelled(a) /\ v = Spelled(b) /\ w = Spelled(a \o b)
        /\ Len(u) = m /\ Len(v) = n /\ Len(w) = m + n
        /\ \A i \in 1 .. m : u[i] = a[i].char
        /\ \A i \in 1 .. n : v[i] = b[i].char
        /\ \A i \in 1 .. m + n : w[i] = (a \o b)[i].char
  <2>1. /\ Spelled(a) \in Seq(TextChars) /\ Len(Spelled(a)) = m
        /\ \A i \in 1 .. m : Spelled(a)[i] = a[i].char
    BY <1>1, SpelledText
  <2>2. /\ Spelled(b) \in Seq(TextChars) /\ Len(Spelled(b)) = n
        /\ \A i \in 1 .. n : Spelled(b)[i] = b[i].char
    BY <1>1, SpelledText
  <2>3. /\ Spelled(a \o b) \in Seq(TextChars) /\ Len(Spelled(a \o b)) = m + n
        /\ \A i \in 1 .. m + n : Spelled(a \o b)[i] = (a \o b)[i].char
    BY <1>2, SpelledText
  <2>4. QED
    BY <2>1, <2>2, <2>3
<1>4. /\ u \o v \in Seq(TextChars) /\ Len(u \o v) = m + n
      /\ \A i \in 1 .. m + n : (u \o v)[i] = IF i <= m THEN u[i] ELSE v[i - m]
  BY <1>3, ConcatProperties
<1>5. ASSUME NEW i \in 1 .. m + n
      PROVE  w[i] = (u \o v)[i]
  <2>1. CASE i <= m
    <3>1. i \in 1 .. m
      BY <2>1
    <3>2. (a \o b)[i] = a[i] /\ (u \o v)[i] = u[i]
      BY <1>2, <1>4, <2>1
    <3>3. u[i] = a[i].char /\ w[i] = (a \o b)[i].char
      BY <1>3, <3>1
    <3>4. QED
      BY <3>2, <3>3
  <2>2. CASE ~(i <= m)
    <3>1. PICK j \in 1 .. n : j = i - m
      <4>1. i - m \in 1 .. n
        BY <2>2
      <4>2. QED
        BY <4>1
    <3>2. (a \o b)[i] = b[j] /\ (u \o v)[i] = v[j]
      BY <1>2, <1>4, <2>2, <3>1
    <3>3. QED
      BY <1>3, <3>2
  <2>3. QED
    BY <2>1, <2>2
<1>6. QED
  BY <1>3, <1>4, <1>5, SeqEqual

(* What Enter will act on is on the screen, behind the prompt, over the     *)
(* ends of rows and when the log is full, after any number of backspaces    *)
(* and whatever was printed before.                                         *)
THEOREM SpecLineOnScreen == TerminalSpec => []LineOnScreen
<1>1. ASSUME TextInv PROVE LineOnScreen
  <2>1. SUFFICES ASSUME con_state # "LOCKOUT", Esc \notin ToSet(typed),
                        NEW line, line = Shown(ActiveLine),
                        NEW width, width = Len(PromptShown) + Len(line)
                 PROVE  /\ screen.esc_state = 0
                        /\ Cursor >= width
                        /\ Spelled(CellsBefore(width)) = PromptShown \o Spelled(line)
                        /\ CellsBefore(Len(line)) = line
                        /\ screen.current_attr = Grey /\ ~screen.ansi_bold
    BY DEF LineOnScreen
  <2>2. screen \in Screens /\ ActiveLine \in Seq(Chars)
    BY <1>1
       DEF TextInv, ViewInv, ScreenInv, EditInv, IInv, ConsoleTypeOK, ActiveLine
  <2>3. PICK shown \in ShownPrompts :
          HoldsText(screen, TextOf(shown, con_state, ActiveLine)) /\ Calm(screen)
    BY <1>1, <2>1 DEF TextInv, InkInv, OnScreen
  <2>4. PICK p \in Nat, l \in Nat :
          /\ p = Len(PromptShown) /\ p = Len(shown) /\ shown \in Seq(Cells)
          /\ l = Len(ActiveLine)
    BY <2>2, PromptLength
  <2>5. line \in Seq(Cells) /\ Len(line) = l
    <3>1. line = [k \in 1 .. l |-> [char |-> Echoed(ActiveLine[k]), attr |-> Grey]]
      BY <2>1, <2>2, <2>4 DEF Shown
    <3>2. ASSUME NEW k \in 1 .. l
          PROVE  [char |-> Echoed(ActiveLine[k]), attr |-> Grey] \in Cells
      <4>1. ActiveLine[k] \in Chars
        BY <2>2, <2>4
      <4>2. QED
        BY <4>1, ScreenNumbers DEF Cells, TextChars, Echoed
    <3>3. line \in [1 .. l -> Cells]
      BY <3>1, <3>2
    <3>4. QED
      BY <3>3
  <2>6. PICK text : text = shown \o line
    OBVIOUS
  <2>7. text = TextOf(shown, con_state, ActiveLine)
    BY <2>1, <2>6 DEF TextOf, Shown, Echoed
  <2>8. /\ text \in Seq(Cells) /\ Len(text) = p + l
        /\ \A i \in 1 .. p + l : text[i] = IF i <= p THEN shown[i] ELSE line[i - p]
    <3>1. PICK ps \in Seq(Cells) : ps = shown /\ Len(ps) = p
      BY <2>4
    <3>2. /\ ps \o line \in Seq(Cells) /\ Len(ps \o line) = p + l
          /\ \A i \in 1 .. p + l :
               (ps \o line)[i] = IF i <= p THEN ps[i] ELSE line[i - p]
      BY <2>5, <3>1, ConcatProperties, ZenonT(40)
    <3>3. QED
      BY <2>6, <3>1, <3>2
  <2>9. PICK c \in Nat : c = Cursor /\ c = Place(screen) /\ p + l <= c
    <3>1. Cursor = Place(screen)
      BY DEF Cursor, Place
    <3>2. Len(text) <= Place(screen)
      BY <2>3, <2>7 DEF HoldsText
    <3>3. QED
      BY <2>2, <2>8, <3>1, <3>2, PlaceIsNat
  <2>10. ASSUME NEW k \in 1 .. p + l
         PROVE  CellAt(c - (p + l) + k - 1) = text[k]
    <3>1. k \in 1 .. Len(text) /\ HoldsText(screen, text) /\ text \in Seq(Cells)
      BY <2>3, <2>7, <2>8
    <3>2. PICK q : q = c - (p + l) + k - 1
      OBVIOUS
    <3>3. q = Place(screen) - Len(text) + k - 1
      BY <2>8, <2>9, <3>2
    <3>4. CellAt(q) = text[k]
      BY <2>2, <3>1, <3>3, TextInCells DEF CellAt
    <3>5. QED
      BY <3>2, <3>4
  <2>11. CellsBefore(width) = text
    <3>1. width = p + l
      BY <2>1, <2>4, <2>5
    <3>2. CellsBefore(width) = [k \in 1 .. p + l |-> text[k]]
      BY <2>9, <2>10, <3>1 DEF CellsBefore
    <3>3. QED
      BY <2>8, <3>2
  <2>12. CellsBefore(l) = line
    <3>1. ASSUME NEW k \in 1 .. l
          PROVE  CellAt(c - l + k - 1) = line[k]
      <4>1. PICK i \in 1 .. p + l : i = p + k
        BY <2>4
      <4>2. ~(i <= p) /\ i - p = k /\ c - (p + l) + i - 1 = c - l + k - 1
        BY <4>1
      <4>3. CellAt(c - l + k - 1) = text[i]
        BY <2>10, <4>2
      <4>4. text[i] = line[i - p]
        BY <2>8, <4>2, Zenon
      <4>5. QED
        BY <4>2, <4>3, <4>4
    <3>2. line = [k \in 1 .. l |-> line[k]]
      BY <2>5
    <3>3. QED
      BY <2>9, <3>1, <3>2 DEF CellsBefore
  <2>13. Spelled(text) = PromptShown \o Spelled(line)
    BY <2>3, <2>4, <2>5, <2>6, SpelledConcat DEF ShownPrompts
  <2>14. width <= Cursor /\ width \in Int /\ Cursor \in Int
    BY <2>1, <2>4, <2>5, <2>9
  <2>15. QED
    BY <2>3, <2>5, <2>11, <2>12, <2>13, <2>14 DEF Calm
<1>2. QED
  BY <1>1, SpecTextInv, PTL

(* Whoever scrolled back sees what he types from the first character on, in *)
(* the ordinary colour, or its inverse under the mouse cursor: putting it   *)
(* brings the row of the cursor into the view, and a place that the line    *)
(* owes to the view is not above it.                                        *)
THEOREM SpecTypingIsSeen == TerminalSpec => TypingIsSeen
<1> DEFINE Seen(c) ==
      TypeKey /\ Esc \notin ToSet(typed') /\ typed' = Append(typed, c)
        /\ Len(ActiveLine') > Len(ActiveLine) =>
      LET p == Cursor' - 1
          row == (p \div MaxCols) - screen'.scroll_off
      IN  /\ row \in ViewRows
          /\ screen'.vm[row][p % MaxCols] =
               Displayed([char |-> Echoed(c), attr |-> Grey], row, p % MaxCols)
<1>1. ASSUME TextInv, TextInv', [TerminalNext]_terminalVars, NEW c \in Chars,
             TypeKey, Esc \notin ToSet(typed'), typed' = Append(typed, c),
             Len(ActiveLine') > Len(ActiveLine)
      PROVE  Seen(c)
  <2>1. PICK d \in Keys : con_state # "LOCKOUT" /\ EditorKey(d) /\ Echo(d)
    BY <1>1 DEF TypeKey
  <2>2. EditInv /\ screen \in Screens /\ screen' \in Screens /\ IInv' /\ typed \in Seq(TypedKeys)
    BY <1>1 DEF TextInv, ViewInv, EditInv, ScreenInv
  <2>3. d = c
    <3>1. c \in TypedKeys /\ c # Newline
      BY ConsoleAssumption DEF TypedKeys
    <3>2. /\ Len(typed') = Len(typed) + 1 /\ typed'[Len(typed) + 1] = c
      BY <1>1, <2>2, <3>1, AppendProperties
    <3>3. d # Newline
      <4>1. Len(typed) \in Nat /\ Len(typed') # 0
        BY <2>2, <3>2
      <4>2. typed' # <<>>
        BY <4>1
      <4>3. QED
        BY <2>1, <4>2 DEF EditorKey
    <3>4. d \in TypedKeys /\ typed' = Append(typed, d)
      BY <2>1, <3>3 DEF Keys, TypedKeys, EditorKey
    <3>5. typed'[Len(typed) + 1] = d
      BY <2>2, <3>4, AppendProperties
    <3>6. QED
      BY <3>2, <3>5
  <2>4. /\ OnScreen(screen', con_state, ActiveLine')
        /\ screen' = PutChar(screen, Echoed(c)) /\ InSight(screen')
        /\ ActiveLine' = Append(ActiveLine, c)
    BY <1>1, <2>1, <2>2, <2>3, CharIsShown
  <2>5. PICK line \in Seq(Chars), n \in Nat : line = ActiveLine /\ n = Len(line)
    BY <2>2 DEF EditInv, IInv, ConsoleTypeOK, ActiveLine
  <2>6. PICK shown \in ShownPrompts :
          HoldsText(screen', TextOf(shown, con_state, ActiveLine'))
    BY <2>4 DEF OnScreen
  <2>7. PICK text \in Seq(Cells), l \in Nat :
          /\ text = TextOf(shown, con_state, ActiveLine') /\ Len(text) = l /\ l > 0
          /\ text[l] = [char |-> Echoed(c), attr |-> Grey]
    <3>1. PICK old \in Seq(Cells) : old = TextOf(shown, con_state, line)
      BY <2>5, PromptLength, TextOfLine
    <3>2. PICK z \in Cells : z = [char |-> Echoed(c), attr |-> Grey]
      <4>1. [char |-> Echoed(c), attr |-> Grey] \in Cells
        BY ScreenNumbers DEF Cells, TextChars, Echoed
      <4>2. QED
        BY <4>1
    <3>3. TextOf(shown, con_state, ActiveLine') = Append(old, z)
      BY <2>4, <2>5, <3>1, <3>2, PromptLength, TextOfTyped DEF Echoed
    <3>4. PICK m \in Nat : m = Len(old)
      OBVIOUS
    <3>5. /\ Append(old, z) \in Seq(Cells) /\ Len(Append(old, z)) = m + 1
          /\ Append(old, z)[m + 1] = z
      BY <3>4, AppendText
    <3>6. PICK text, l : text = Append(old, z) /\ l = m + 1
      OBVIOUS
    <3>7. /\ text \in Seq(Cells) /\ l \in Nat /\ l > 0 /\ text[l] = z
          /\ text = TextOf(shown, con_state, ActiveLine') /\ Len(text) = l
      BY <3>3, <3>5, <3>6
    <3>8. QED
      BY <3>2, <3>7
  <2>8. PICK p \in Nat : /\ p = Place(screen') - 1 /\ p < Place(screen')
                         /\ screen'.lines[p \div MaxCols][p % MaxCols] = text[l]
    <3>1. PICK p : p = Place(screen') - Len(text) + l - 1
      OBVIOUS
    <3>2. /\ p \in Nat /\ p < Place(screen')
          /\ screen'.lines[p \div MaxCols][p % MaxCols] = text[l]
      BY <2>6, <2>2, <2>7, <3>1, TextInCells
    <3>3. Place(screen') \in Nat
      BY <2>2, PlaceIsNat
    <3>4. p = Place(screen') - 1
      BY <2>7, <3>1, <3>3
    <3>5. QED
      BY <3>2, <3>4
  <2>9. PICK row : row = (p \div MaxCols) - screen'.scroll_off
    OBVIOUS
  <2>10. /\ row \in ViewRows
        /\ screen'.vm[row][p % MaxCols] =
             UnderCursor(screen', row, p % MaxCols,
                         screen'.lines[p \div MaxCols][p % MaxCols])
    <3>1. PICK new \in Nat : new = Len(ActiveLine') /\ new > 0
      BY <2>4, <2>5, AppendProperties
    <3>2. con_state' # "LOCKOUT"
      BY <2>1, <2>2, <2>3, KeyEditsLine, ConsoleAssumption
    <3>3. Room(screen', new)
      BY <1>1, <3>1, <3>2 DEF TextInv, ViewInv, LineInView, Room, Place
    <3>4. QED
      BY <2>2, <2>4, <2>8, <2>9, <3>1, <3>3, LastCellInView
  <2>11. Cursor' - 1 = p
    BY <2>8 DEF Cursor, Place
  <2>12. screen'.mouse = MouseOn
    BY <1>1 DEF TextInv, ViewInv, ScreenInv, MouseOn
  <2>13. screen'.vm[row][p % MaxCols] =
           Displayed([char |-> Echoed(c), attr |-> Grey], row, p % MaxCols)
    BY <2>7, <2>8, <2>10, <2>12, MouseShows
  <2>14. QED
    BY <2>9, <2>10, <2>11, <2>13
<1>2. ASSUME TextInv, TextInv', [TerminalNext]_terminalVars
      PROVE  [\A c \in Chars : Seen(c)]_terminalVars
  BY <1>1, <1>2
<1>3. QED
  BY <1>2, SpecTextInv, PTL DEF TerminalSpec, TypingIsSeen
=============================================================================
