---------------------------- MODULE FileSystemMC ----------------------------
(* Values for the constants of FileSystem: blocks of two bytes, texts of    *)
(* one, two and three blocks' length or less, a name that is cut when it is *)
(* stored ("longer", kept as "long").  Some lines lack a word or have one   *)
(* too many.                                                                *)
EXTENDS FileShell

MCNames == {"a", "long", "longer"}
MCStored == [n \in MCNames |-> IF n = "longer" THEN "long" ELSE n]
MCData == {<<"x">>, <<"y", "x">>, <<"x", "y", "y">>}
MCFileLines ==
  {<<"create", n>> : n \in MCNames} \cup {<<"read", n>> : n \in MCNames}
    \cup {<<"write", n, d>> : n \in MCNames, d \in MCData}
    \cup {<<"create">>, <<"write", "a">>, <<"write", "a", <<"x">>, <<"y">>>>}
=============================================================================
