------------------------------ MODULE TypingMC ------------------------------
(* One character key and one arrow key; the console behind the driver has   *)
(* the shortest lines that let it reach the shell.                          *)
EXTENDS Typing

MCPin == <<"a">>
MCKeyword == <<"A">>
MCKeymap == [k \in {"keyA"} |-> "a"]
MCKeymapShift == [k \in {"keyA"} |-> "A"]
=============================================================================
