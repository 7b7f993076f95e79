---------------------------- MODULE HostShellMC -----------------------------
(* Lines of up to four words in chunks of two: both arrays grow twice.  Two *)
(* characters without a blank make a word that is no built-in.              *)
EXTENDS HostShell

MCStaleTexts == {<<>>, <<"nikli">>}
=============================================================================
