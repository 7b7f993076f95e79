----------------------------- MODULE TerminalMC -----------------------------
(* A screen of two columns and two rows on a log of three: lines wrap and   *)
(* the log is full after a few keys.  The characters are those the escape   *)
(* parser tells apart; the prompt has a colour, and a message leaves bold   *)
(* on, which makes the next prompt bright, as `read` does with a file that  *)
(* was left so.  The mouse cursor stands where lines are typed.             *)
EXTENDS Terminal

MCPin == <<"31">>
MCKeyword == <<"[">>
MCExitLines == {<<"[">>}
MCNumberOf == [c \in {"0", "1", "31"} |->
                 CASE c = "0" -> 0 [] c = "1" -> 1 [] c = "31" -> 31]
MCMessages == {<<>>, <<Esc, Bracket, "1", ";", "31", "m", "!", Newline>>}
MCBanner == <<Esc, Bracket, "31", "m", "!", Newline>>
MCGreeting == <<"!", Newline>>
MCPrompt == <<Esc, Bracket, "31", "m", ">", Esc, Bracket, "0", "m">>
MCPromptShown == <<">">>
=============================================================================
