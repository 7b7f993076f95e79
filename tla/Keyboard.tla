------------------------------ MODULE Keyboard ------------------------------
(***************************************************************************)
(* The keyboard driver (drivers/keyboard.c): one scan code of set 1 at a   *)
(* time, two flags, and a character or an arrow key to the console.        *)
(*                                                                         *)
(* A scan code is "E0", or [make, key]: the code of the key with the top   *)
(* bit clear or set.  Keys are the physical keys, each with a code of its  *)
(* own that comes after E0 or not; LeftShift and RightShift are the codes  *)
(* 2A and 36, wherever they come from.                                     *)
(***************************************************************************)
EXTENDS Console

CONSTANTS
  LeftShift, RightShift,
  CharKeys,     \* keys with an entry in keymap and keymap_shift
  NavKeys,      \* keys whose codes come after E0
  Keymap, KeymapShift   \* CharKeys -> Keys

ASSUME KeyboardAssumption ==
  /\ Keymap \in [CharKeys -> Keys] /\ KeymapShift \in [CharKeys -> Keys]
  /\ LeftShift # RightShift /\ CharKeys \cap NavKeys = {}
  /\ {LeftShift, RightShift} \cap (CharKeys \cup NavKeys) = {}
  /\ "E0" \notin {LeftShift, RightShift} \cup CharKeys \cup NavKeys

VARIABLES extended_prefix, shift_pressed
keyboardVars == <<consoleVars, extended_prefix, shift_pressed>>

Shifts == {LeftShift, RightShift}
Code(make, key) == [make |-> make, key |-> key]
Prefix == Code(FALSE, "E0")
ScanCodes == {Prefix} \cup
  [make: BOOLEAN, key: Shifts \cup CharKeys \cup NavKeys]

KeyboardInit ==
  /\ ConsoleInit
  /\ extended_prefix = FALSE
  /\ shift_pressed = FALSE

(* handle_scancode: a prefix and a shift are looked at before the flag      *)
(* extended_prefix, and a shift leaves it as it is.                         *)
HandlePrefix ==
  /\ extended_prefix' = TRUE
  /\ UNCHANGED <<consoleVars, shift_pressed>>

(* The definitions called Mutant... are no part of the model: each stands   *)
(* for a plausible bug in the definition that follows it, and shows, put in *)
(* its place, that a property notices.                                      *)
(* Here: the release of the right shift is missed.                          *)
MutantHandleShift(code) ==
  /\ shift_pressed' = (code.make \/ (code.key = RightShift /\ shift_pressed))
  /\ UNCHANGED <<consoleVars, extended_prefix>>

HandleShift(code) ==
  /\ shift_pressed' = code.make
  /\ UNCHANGED <<consoleVars, extended_prefix>>

(* Mistake: the flag outlives the key it is about.                          *)
MutantHandleExtended == UNCHANGED keyboardVars

(* After a prefix: the arrow keys scroll the screen (screen.c), anything    *)
(* else is ignored.                                                         *)
HandleExtended ==
  /\ extended_prefix' = FALSE
  /\ UNCHANGED <<consoleVars, shift_pressed>>

CharOf(key) == IF shift_pressed THEN KeymapShift[key] ELSE Keymap[key]

HandlePlain(code) ==
  /\ IF code.make /\ code.key \in CharKeys
     THEN OnKey(CharOf(code.key))
     ELSE UNCHANGED consoleVars
  /\ UNCHANGED <<extended_prefix, shift_pressed>>

HandleScanCode(code) ==
  CASE code = Prefix -> HandlePrefix
    [] code.key \in Shifts -> HandleShift(code)
    [] code # Prefix /\ code.key \notin Shifts /\ extended_prefix -> HandleExtended
    [] OTHER -> HandlePlain(code)
=============================================================================
