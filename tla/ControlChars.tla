---------------------------- MODULE ControlChars ----------------------------
(* The two control characters that the keymap of drivers/keyboard.c, the    *)
(* line editors and the screen agree on.                                    *)
CONSTANTS Newline, Backspace
ASSUME ControlCharsDiffer == Newline # Backspace
=============================================================================
