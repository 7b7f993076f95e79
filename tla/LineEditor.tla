----------------------------- MODULE LineEditor -----------------------------
(***************************************************************************)
(* The console with a record of every key since the last Enter: what the   *)
(* line buffers of console.c and kernel_shell.c hold is compared with a    *)
(* line editor written as one fold over those keys.                        *)
(***************************************************************************)
EXTENDS Console, SequencesExt

CONSTANT MaxKeys   \* bound on the keys between two Enters

VARIABLE typed
editorVars == <<consoleVars, typed>>

(* The line as the user means it, of `limit` bytes at most, NUL included.   *)
Edited(keys, limit) ==
  FoldLeft(LAMBDA line, c :
             IF c = Backspace THEN SubSeq(line, 1, Len(line) - 1)
             ELSE IF Len(line) < limit - 1 THEN Append(line, c) ELSE line,
           <<>>, keys)

EditorInit == ConsoleInit /\ typed = <<>>

EditorKey(c) ==
  /\ Len(typed) < MaxKeys \/ c = Newline
  /\ OnKey(c)
  /\ typed' = IF c = Newline THEN <<>> ELSE Append(typed, c)

(* The gate and the shell edit alike and lose nothing: the active buffer    *)
(* holds exactly the edited keys since the last Enter, at whichever prompt  *)
(* that was.                                                                *)
LineIsEdited ==
  /\ con_state \in {"PIN", "GATE"} => gate_line = Edited(typed, GateLineLen)
  /\ con_state = "SHELL" => shell_line = Edited(typed, ShellLineLen)
=============================================================================
