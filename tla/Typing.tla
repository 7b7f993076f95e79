------------------------------- MODULE Typing -------------------------------
(***************************************************************************)
(* A person at a PS/2 keyboard, in front of drivers/keyboard.c.            *)
(*                                                                         *)
(* The keyboard puts the codes of each key on the wire, in order; the      *)
(* driver takes them off one interrupt at a time.  A navigation key that   *)
(* is pressed while a shift is down is wrapped in "fake" shift codes by    *)
(* the keyboard: E0 and the shift's release before it, E0 and the shift's  *)
(* press after it.  Each character key typed is put down in `meant`, with  *)
(* the shift as it physically was.                                         *)
(***************************************************************************)
EXTENDS Keyboard

CONSTANTS MaxWire,      \* bound on the codes on the wire
          MaxPresses    \* bound on the key presses of a behaviour

VARIABLES
  wire,         \* codes on their way to the driver
  held,         \* the keys that are down
  presses,
  fakes,        \* E0-prefixed shift presses sent so far
  lost,         \* character keys the driver did not pass on
  muddled       \* since no shift was down: were two down, or fakes sent?

envVars == <<held, presses, fakes, lost, muddled>>
typingVars == <<keyboardVars, wire, envVars>>

HeldShifts == held \cap Shifts

TypingInit ==
  /\ KeyboardInit
  /\ wire = <<>>
  /\ held = {}
  /\ presses = 0
  /\ fakes = 0
  /\ lost = 0
  /\ muddled = FALSE

Send(codes) ==
  /\ Len(wire) + Len(codes) <= MaxWire
  /\ wire' = wire \o codes

(* The fake codes of the shifts that are down.                              *)
Fake(make) ==
  IF HeldShifts = Shifts
  THEN <<Prefix, Code(make, LeftShift), Prefix, Code(make, RightShift)>>
  ELSE IF HeldShifts = {} THEN <<>>
  ELSE <<Prefix, Code(make, CHOOSE s \in HeldShifts : TRUE)>>

Press(key) ==
  /\ key \notin held
  /\ presses < MaxPresses
  /\ presses' = presses + 1
  /\ held' = held \cup {key}
  /\ Send(IF key \in NavKeys
          THEN Fake(FALSE) \o <<Prefix, Code(TRUE, key)>>
          ELSE <<Code(TRUE, key)>>)
  /\ muddled' = (muddled \/ (key \in NavKeys \cup Shifts /\ HeldShifts # {}))
  /\ UNCHANGED <<keyboardVars, fakes, lost>>

Release(key) ==
  /\ key \in held
  /\ held' = held \ {key}
  /\ Send(IF key \in NavKeys
          THEN <<Prefix, Code(FALSE, key)>> \o Fake(TRUE)
          ELSE <<Code(FALSE, key)>>)
  /\ fakes' = IF key \in NavKeys /\ HeldShifts # {} THEN fakes + 1 ELSE fakes
  /\ muddled' = (muddled /\ held' \cap Shifts # {})
  /\ UNCHANGED <<keyboardVars, presses, lost>>

(* keyboard_handler, once per code.                                         *)
Interrupt ==
  /\ wire # <<>>
  /\ wire' = Tail(wire)
  /\ HandleScanCode(Head(wire))
  /\ lost' = IF Head(wire).make /\ Head(wire).key \in CharKeys /\ extended_prefix
             THEN lost + 1 ELSE lost
  /\ UNCHANGED <<held, presses, fakes, muddled>>

TypingNext ==
  \/ \E key \in Shifts \cup CharKeys \cup NavKeys : Press(key) \/ Release(key)
  \/ Interrupt

TypingSpec == TypingInit /\ [][TypingNext]_typingVars

-----------------------------------------------------------------------------
(* With every key up and every code handled the driver is not stuck in      *)
(* shifted mode, whatever the order of the keys and the fake codes.         *)
ShiftNeverStuck == wire = <<>> /\ HeldShifts = {} => ~shift_pressed

(* Characters come in the case the user means, as long as one shift at a    *)
(* time is used, and no navigation key with it: shift_pressed is one flag   *)
(* for two keys.                                                            *)
ShiftFollowsKeys ==
  wire = <<>> /\ ~muddled => (shift_pressed <=> HeldShifts # {})

(* handle_scancode leaves extended_prefix set over a fake shift, and so     *)
(* swallows the next key: at most one for every fake press, and none for    *)
(* a user who does not hold a shift over a navigation key.                  *)
LostOnlyAfterFakes == lost + (IF extended_prefix /\ wire = <<>> THEN 1 ELSE 0) <= fakes
=============================================================================
