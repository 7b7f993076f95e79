--------------------------- MODULE ProcessShellMC ---------------------------
(* Lines with every default, a number out of range on either side, one that *)
(* overflows (63 is the largest int here), blanks to skip and words missing.*)
EXTENDS ProcessShell

MCDigits == <<"0", "1", "2", "3", "4", "5", "6", "7", "8", "9">>
MCBursts == {-1, 0, 1, 2}
MCLines == {
  <<"mkproc">>, <<" ", "mkproc", " ", " ", "2">>, <<"mkproc", " ", "-", "1">>,
  <<"mkthr">>, <<"mkthr", " ", "7">>, <<"mkthr", " ", "7", " ", "0", " ", "x">>,
  <<"sched", " ">>, <<"sched", " ", "-", "2">>, <<"sched", " ", "9">>,
  <<"sched", " ", "9", "9">>,
  <<"policy">>, <<"policy", " ", "rr">>, <<"policy", " ", "psjf">>, <<"policy", " ", "2">>,
  <<" ">>, <<"calc", " ", "1">> }
=============================================================================
