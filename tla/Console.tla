------------------------------ MODULE Console -------------------------------
(***************************************************************************)
(* The boot gate (kernel/console.c) and the line editor of the kernel      *)
(* shell behind it (shell/kernel_shell.c): PIN, then the word `shell`,     *)
(* then the shell until its exit command, and a final lockout after too    *)
(* many wrong PINs.                                                        *)
(*                                                                         *)
(* One step is one call of console_on_key: a whole keyboard interrupt,     *)
(* command included.  A line is a sequence of characters; what a command   *)
(* does besides leaving the shell is not modelled here.                    *)
(***************************************************************************)
EXTENDS Integers, Sequences, ControlChars

CONSTANTS
  Chars,         \* the printable characters of the keymap
  Pin,           \* BOOT_PIN
  Keyword,       \* "shell"
  ExitLines,     \* the lines whose first word is "nikli"
  GateLineLen,   \* GATE_LINE_LEN, the terminating NUL included
  ShellLineLen,  \* KSHELL_MAX_LINE, likewise
  MaxPinFails    \* MAX_PIN_FAILS

ASSUME ConsoleAssumption ==
  /\ Newline \notin Chars /\ Backspace \notin Chars
  /\ Pin \in Seq(Chars) /\ Keyword \in Seq(Chars) /\ ExitLines \subseteq Seq(Chars)
  /\ GateLineLen \in Nat \ {0} /\ ShellLineLen \in Nat \ {0}
  /\ MaxPinFails \in Nat \ {0}

VARIABLES
  con_state,    \* state in console.c
  gate_line,    \* line_buf up to line_pos in console.c
  pin_fails,
  shell_line    \* line_buffer up to line_pos in kernel_shell.c

consoleVars == <<con_state, gate_line, pin_fails, shell_line>>

Keys == Chars \cup {Newline, Backspace}
ConsoleState == {"PIN", "GATE", "SHELL", "LOCKOUT"}

ConsoleInit ==
  /\ con_state = "PIN"
  /\ gate_line = <<>>
  /\ pin_fails = 0
  /\ shell_line = <<>>

-----------------------------------------------------------------------------
(* Both editors: backspace drops the last character, a full line swallows   *)
(* what is typed.                                                           *)
Backspaced(line) == SubSeq(line, 1, Len(line) - 1)

(* The definitions called Mutant... are no part of the model: each stands   *)
(* for a plausible bug in the definition that follows it, and shows, put in *)
(* its place, that a property notices.                                      *)
(* Here: no room is left for the terminating NUL.                           *)
MutantTyped(line, c, limit) ==
  IF Len(line) < limit THEN Append(line, c) ELSE line

Typed(line, c, limit) ==
  IF Len(line) < limit - 1 THEN Append(line, c) ELSE line

-----------------------------------------------------------------------------
(* Mistakes: the PIN stays in the buffer; the right PIN clears the count.   *)
MutantAcceptPin ==
  /\ gate_line = Pin
  /\ con_state' = "GATE"
  /\ UNCHANGED <<gate_line, pin_fails, shell_line>>
MutantAcceptPinForgets ==
  /\ gate_line = Pin
  /\ con_state' = "GATE"
  /\ gate_line' = <<>>
  /\ pin_fails' = 0
  /\ UNCHANGED shell_line

(* handle_pin_line.  The lockout never returns: console.c halts in a loop   *)
(* before it clears the line.                                               *)
AcceptPin ==
  /\ gate_line = Pin
  /\ con_state' = "GATE"
  /\ gate_line' = <<>>
  /\ UNCHANGED <<pin_fails, shell_line>>

(* Mistake: one attempt too many.                                           *)
MutantRejectPin ==
  /\ gate_line # Pin
  /\ pin_fails' = pin_fails + 1
  /\ IF pin_fails >= MaxPinFails
     THEN con_state' = "LOCKOUT" /\ UNCHANGED gate_line
     ELSE gate_line' = <<>> /\ UNCHANGED con_state
  /\ UNCHANGED shell_line

RejectPin ==
  /\ gate_line # Pin
  /\ pin_fails' = pin_fails + 1
  /\ IF pin_fails + 1 >= MaxPinFails
     THEN con_state' = "LOCKOUT" /\ UNCHANGED gate_line
     ELSE gate_line' = <<>> /\ UNCHANGED con_state
  /\ UNCHANGED shell_line

(* handle_gate_line; microsos_shell_init empties the shell's line.          *)
GateLine ==
  /\ gate_line' = <<>>
  /\ IF gate_line = Keyword
     THEN con_state' = "SHELL" /\ shell_line' = <<>>
     ELSE UNCHANGED <<con_state, shell_line>>
  /\ UNCHANGED pin_fails

(* console_on_key in front of the shell                                     *)
GateKey(c) ==
  \/ /\ c = Newline
     /\ \/ con_state = "PIN" /\ (AcceptPin \/ RejectPin)
        \/ con_state = "GATE" /\ GateLine
  \/ /\ c = Backspace
     /\ gate_line' = IF gate_line = <<>> THEN <<>> ELSE Backspaced(gate_line)
     /\ UNCHANGED <<con_state, pin_fails, shell_line>>
  \/ /\ c \in Chars
     /\ gate_line' = Typed(gate_line, c, GateLineLen)
     /\ UNCHANGED <<con_state, pin_fails, shell_line>>

(* microsos_shell_handle_char; the exit command calls console_leave_shell   *)
(* before the line is cleared.                                              *)
ShellKey(c) ==
  /\ \/ /\ c = Newline
        /\ con_state' = IF shell_line \in ExitLines THEN "GATE" ELSE con_state
        /\ shell_line' = <<>>
     \/ /\ c = Backspace
        /\ shell_line' =
             IF shell_line = <<>> THEN <<>> ELSE Backspaced(shell_line)
        /\ UNCHANGED con_state
     \/ /\ c \in Chars
        /\ shell_line' = Typed(shell_line, c, ShellLineLen)
        /\ UNCHANGED con_state
  /\ UNCHANGED <<gate_line, pin_fails>>

OnKey(c) ==
  CASE con_state = "LOCKOUT" -> UNCHANGED consoleVars
    [] con_state = "SHELL" -> ShellKey(c)
    [] OTHER -> GateKey(c)

ConsoleNext == \E c \in Keys : OnKey(c)

ConsoleSpec == ConsoleInit /\ [][ConsoleNext]_consoleVars

-----------------------------------------------------------------------------
(* Both line buffers have room for the terminating NUL, and the number of   *)
(* wrong PINs is in its range.                                              *)
ConsoleTypeOK ==
  /\ con_state \in ConsoleState
  /\ gate_line \in Seq(Chars) /\ Len(gate_line) < GateLineLen
  /\ shell_line \in Seq(Chars) /\ Len(shell_line) < ShellLineLen
  /\ pin_fails \in 0 .. MaxPinFails

(* The editor that has not got the keyboard is empty: nothing typed at the  *)
(* gate turns up in the shell's first line, nor the other way round.        *)
IdleEditorEmpty ==
  /\ con_state \in {"PIN", "GATE"} => shell_line = <<>>
  /\ con_state = "SHELL" => gate_line = <<>>

(* Locked out means all attempts are used up, and only that.                *)
LockoutMeansFails == con_state = "LOCKOUT" <=> pin_fails = MaxPinFails

(* The way in: the shell is reached from the gate only, the PIN is asked    *)
(* once, wrong PINs are counted at its prompt only and never forgotten,     *)
(* and nothing leaves the lockout.                                          *)
GateOrder ==
  [][/\ con_state = "LOCKOUT" => UNCHANGED consoleVars
     /\ con_state' = "SHELL" => con_state \in {"GATE", "SHELL"}
     /\ con_state # "PIN" => con_state' # "PIN"
     /\ pin_fails' >= pin_fails
     /\ pin_fails' # pin_fails => con_state = "PIN"]_consoleVars
=============================================================================
