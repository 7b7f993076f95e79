------------------------------ MODULE KernelMC ------------------------------
(* Users who type up to four scan codes, Enter among them, and one who goes *)
(* through the gate and has the shell run a long command; a PIN, a keyword  *)
(* and a command of one character, and a lockout at the second wrong PIN.   *)
EXTENDS Kernel

MCPin == <<"1">>
MCKeyword == <<"s">>
MCLongLines == {<<"1">>}
MCKeymap == [k \in {"key1", "keyS", "Enter"} |->
               CASE k = "key1" -> "1" [] k = "keyS" -> "s" [] k = "Enter" -> "enter"]
One == Code(TRUE, "key1")
Ess == Code(TRUE, "keyS")
Ret == Code(TRUE, "Enter")
MCShortScripts == {<<One, Ret, One, Ret>>, <<Ret, Ret, One>>, <<One, One, Ret>>}
MCLongScripts == {<<One, Ret, Ess, Ret, One, Ret>>}
MCScripts == MCShortScripts \cup MCLongScripts
=============================================================================
