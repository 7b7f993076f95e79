---------------------------- MODULE WordsOfText -----------------------------
(***************************************************************************)
(* What the two shells' words are (tokenize in shell/kernel_shell.c,       *)
(* lsh_split_line in shell/LegenJuice_Shell/input.c): the longest runs     *)
(* of characters without a blank, from left to right.                      *)
(***************************************************************************)
EXTENDS Integers, SequencesExt

(* Where the words of a text begin.                                         *)
WordStarts(text, blanks) ==
  {i \in DOMAIN text :
     text[i] \notin blanks /\ (i = 1 \/ text[i - 1] \in blanks)}

(* The word that begins at the index i.                                     *)
IsWordAt(text, blanks, word, i) ==
  /\ word = SubSeq(text, i, i + Len(word) - 1)
  /\ ToSet(word) \cap blanks = {}
  /\ i + Len(word) = Len(text) + 1 \/ text[i + Len(word)] \in blanks

(* The elements of a set of numbers up to one of them: how many they are is *)
(* its place in the set.                                                    *)
UpTo(S, b) == {i \in S : i <= b}
PlaceIn(S, i) == Cardinality(UpTo(S, i))
=============================================================================
