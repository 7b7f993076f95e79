--------------------------- MODULE HostShellProof ---------------------------
(***************************************************************************)
(* The hosted shell, for lines, chunks and built-ins of any kind: its      *)
(* indices stay within the buffers, its blocks are freed before the next   *)
(* prompt, no child outlives its command, it ends or crashes only for the  *)
(* known reasons, and what it executes is the words of the line.           *)
(*                                                                         *)
(* What makes them inductive is which pointer is there at which phase, and *)
(* that every block is one of the two or has been lost; and for the words, *)
(* that strtok is always behind a blank, with the words that begin before  *)
(* it found, and no more.                                                  *)
(***************************************************************************)
EXTENDS HostShell, Induction

PointersFit ==
  /\ phase \in {"prompt", "read", "split", "exited"} => args = Null
  /\ phase \in {"prompt", "exited"} => line = Null
  /\ phase = "read" => line # Null
  /\ phase = "split" /\ line = Null => failures > 0
  /\ phase \in {"tokens", "execute", "wait", "free", "leave"} => args # Null

Ledger ==
  blocks = lost + (IF line = Null THEN 0 ELSE 1) + (IF args = Null THEN 0 ELSE 1)

LeavesOnCommand == phase = "leave" => args # <<>> /\ args[1] = <<ExitWord>>

IInv ==
  /\ TypeOK /\ line_size \in Nat /\ args_size \in Nat
  /\ PointersFit /\ Ledger /\ LeavesOnCommand /\ PromptMeansNoChild

-----------------------------------------------------------------------------
(* A set of natural numbers that is not empty has a least element.          *)
LEMMA MinIsLeast ==
  ASSUME NEW S, S \subseteq Nat, S # {}
  PROVE  Min(S) \in S /\ \A y \in S : Min(S) <= y
<1>1. PICK x \in S : \A y \in S : ~(<<y, x>> \in OpToRel(<, Nat))
  BY WFMin, NatLessThanWellFounded
<1>2. \A y \in S : x <= y
  <2>1. SUFFICES ASSUME NEW y \in S PROVE x <= y
    OBVIOUS
  <2>2. ~(<<y, x>> \in {ss \in Nat \X Nat : ss[1] < ss[2]})
    BY <1>1 DEF OpToRel
  <2>. QED
    BY <2>2
<1>. QED
  BY <1>1, <1>2 DEF Min

(* strtok works within the text.                                            *)
LEMMA WordsAreText ==
  ASSUME NEW text \in Seq(Chars)
  PROVE  /\ SkipDelims(text) \in Seq(Chars)
         /\ FirstWord(text) \in Seq(Chars)
         /\ AfterWord(text) \in Seq(Chars)
<1>. DEFINE In == {i \in 1 .. Len(text) : text[i] \in Delims}
            Out == {i \in 1 .. Len(text) : text[i] \notin Delims}
<1>1. In # {} => Min(In) \in 1 .. Len(text)
  <2>1. In \subseteq Nat
    OBVIOUS
  <2>. QED
    BY <2>1, MinIsLeast
<1>2. Out # {} => Min(Out) \in 1 .. Len(text)
  <2>1. Out \subseteq Nat
    OBVIOUS
  <2>. QED
    BY <2>1, MinIsLeast
<1>3. /\ WordEnd(text) = IF In # {} THEN Min(In) ELSE 0
      /\ SkipDelims(text) = IF Out # {} THEN SubSeq(text, Min(Out), Len(text))
                            ELSE <<>>
  BY <1>2 DEF WordEnd, SkipDelims, SelectInSeq
<1>4. WordEnd(text) \in 0 .. Len(text)
  BY <1>1, <1>3
<1>. HIDE DEF In, Out
<1>5. SkipDelims(text) \in Seq(Chars)
  BY <1>2, <1>3
<1>6. FirstWord(text) \in Seq(Chars) /\ AfterWord(text) \in Seq(Chars)
  BY <1>4 DEF FirstWord, AfterWord
<1>. QED
  BY <1>5, <1>6

-----------------------------------------------------------------------------
(* Null is neither an empty line nor an array without tokens.               *)
LEMMA EmptyIsNotNull ==
  <<>> # Null /\ <<>> \in Seq(Chars) /\ <<>> \in Seq(Seq(Chars))
<1>1. <<>> \in Seq(Chars)
  OBVIOUS
<1>2. <<>> \in Seq(Seq(Chars))
  OBVIOUS
<1>. QED
  BY <1>1, <1>2, HostShellAssumption

LEMMA InitIInv == Init => IInv
<1>. SUFFICES ASSUME Init PROVE IInv
  OBVIOUS
<1>1. TypeOK
  <2>1. MaxFailures \in Nat
    BY HostShellAssumption
  <2>2. /\ failures \in 0 .. MaxFailures /\ lost \in 0 .. failures
        /\ blocks \in lost .. lost + 2
    BY <2>1 DEF Init
  <2>. QED
    BY <2>2, EmptyIsNotNull, Zenon DEF Init, TypeOK, NoChild
<1>2. PointersFit /\ Ledger /\ LeavesOnCommand /\ PromptMeansNoChild
  BY DEF Init, PointersFit, Ledger, LeavesOnCommand, PromptMeansNoChild
<1>. QED
  BY <1>1, <1>2 DEF Init, IInv

(* The steps that move pointers and blocks.                                 *)
LEMMA PromptPreserves == ASSUME IInv, Prompt PROVE IInv'
<1>1. LineChunk \in Nat \ {0} /\ MaxFailures \in Nat
  BY HostShellAssumption
<1>2. phase = "prompt" /\ line = Null /\ args = Null /\ blocks = lost
      /\ lost \in 0 .. failures /\ failures \in 0 .. MaxFailures
      /\ UNCHANGED <<words, lost, eof, child>>
  BY DEF Prompt, IInv, PointersFit, Ledger, TypeOK
<1>3. CASE line' = <<>> /\ line_size' = LineChunk /\ blocks' = blocks + 1
           /\ phase' = "read" /\ failures' = failures
  <2>1. TypeOK'
    BY <1>1, <1>2, <1>3, EmptyIsNotNull DEF IInv, TypeOK, words
  <2>. QED
    BY <1>1, <1>2, <1>3, <2>1, EmptyIsNotNull
    DEF IInv, PointersFit, Ledger, LeavesOnCommand, PromptMeansNoChild, words
<1>4. CASE Fails /\ phase' = "split" /\ UNCHANGED <<input, blocks>>
  <2>1. TypeOK'
    BY <1>1, <1>2, <1>4 DEF IInv, TypeOK, words, input, Fails
  <2>. QED
    BY <1>1, <1>2, <1>4, <2>1
    DEF IInv, PointersFit, Ledger, LeavesOnCommand, PromptMeansNoChild, words,
        input, Fails
<1>. QED
  BY <1>3, <1>4 DEF Prompt

LEMMA ReadCharPreserves ==
  ASSUME IInv, NEW c \in Chars, ReadChar(c) PROVE IInv'
<1>1. /\ phase = "read" /\ line \in Seq(Chars) /\ line # Null
      /\ Len(line) < line_size /\ line_size \in Nat
      /\ LineChunk \in Nat \ {0} /\ Null \notin Seq(Chars)
  BY HostShellAssumption DEF IInv, TypeOK, PointersFit, ReadChar
<1>2. /\ Append(line, c) \in Seq(Chars) /\ Append(line, c) # Null
      /\ Len(Append(line, c)) = Len(line) + 1
  BY <1>1
<1>3. CASE line' = Append(line, c)
  <2>1. /\ Len(line') < line_size' /\ line_size' \in Nat
        /\ phase' = phase /\ UNCHANGED memory
    BY <1>1, <1>2, <1>3 DEF ReadChar, MustGrow
  <2>. QED
    BY <1>1, <1>2, <1>3, <2>1
    DEF ReadChar, IInv, TypeOK, PointersFit, Ledger, LeavesOnCommand,
        PromptMeansNoChild, NoChild, words, memory
<1>4. CASE line' # Append(line, c)
  <2>1. /\ Fails /\ line' = Null /\ lost' = lost + 1 /\ phase' = "split"
        /\ UNCHANGED <<line_size, blocks>>
    BY <1>4 DEF ReadChar
  <2>. QED
    BY <1>1, <2>1, HostShellAssumption
    DEF ReadChar, IInv, TypeOK, PointersFit, Ledger, LeavesOnCommand,
        PromptMeansNoChild, NoChild, words, Fails
<1>. QED
  BY <1>3, <1>4

LEMMA BeginSplitPreserves == ASSUME IInv, BeginSplit PROVE IInv'
<1>1. /\ TokenChunk \in Nat \ {0} /\ MaxFailures \in Nat
      /\ StaleTexts \subseteq Seq(Chars)
  BY HostShellAssumption
<1>2. /\ phase = "split" /\ args = Null /\ UNCHANGED <<input, lost, eof, child>>
      /\ blocks = lost + (IF line = Null THEN 0 ELSE 1)
      /\ lost \in 0 .. failures /\ failures \in 0 .. MaxFailures
  BY DEF BeginSplit, IInv, PointersFit, Ledger, TypeOK
<1>3. CASE args' = <<>>
  <2>1. /\ args_size' = TokenChunk /\ blocks' = blocks + 1 /\ failures' = failures
        /\ phase' \in {"tokens", "crashed"}
    BY <1>2, <1>3, EmptyIsNotNull DEF BeginSplit, words
  <2>2. rest' \in Seq(Chars)
    BY <1>1, <1>2, <1>3, EmptyIsNotNull DEF BeginSplit, IInv, TypeOK, words
  <2>3. TypeOK'
    BY <1>1, <1>2, <1>3, <2>1, <2>2, EmptyIsNotNull DEF IInv, TypeOK, input
  <2>. QED
    BY <1>1, <1>2, <1>3, <2>1, <2>3, EmptyIsNotNull
    DEF IInv, PointersFit, Ledger, LeavesOnCommand, PromptMeansNoChild, input
<1>4. CASE args' # <<>>
  <2>1. Fails /\ phase' = "crashed" /\ UNCHANGED <<words, blocks>>
    BY <1>4 DEF BeginSplit
  <2>2. TypeOK'
    BY <1>1, <1>2, <2>1 DEF IInv, TypeOK, input, words, Fails
  <2>. QED
    BY <1>1, <1>2, <2>1, <2>2
    DEF IInv, PointersFit, Ledger, LeavesOnCommand, PromptMeansNoChild, input,
        words
<1>. QED
  BY <1>3, <1>4

LEMMA StoreTokenPreserves == ASSUME IInv, StoreToken PROVE IInv'
<1>. DEFINE stored == Append(args, FirstWord(SkipDelims(rest)))
<1>1. /\ phase = "tokens" /\ args \in Seq(Seq(Chars)) /\ args # Null
      /\ Len(args) < args_size /\ args_size \in Nat
      /\ TokenChunk \in Nat \ {0} /\ Null \notin Seq(Seq(Chars))
  BY HostShellAssumption DEF IInv, TypeOK, PointersFit, StoreToken
<1>2. /\ FirstWord(SkipDelims(rest)) \in Seq(Chars)
      /\ rest' \in Seq(Chars)
  BY WordsAreText DEF IInv, TypeOK, StoreToken
<1>3. stored \in Seq(Seq(Chars)) /\ stored # Null /\ Len(stored) = Len(args) + 1
  <2>. HIDE DEF stored
  <2>1. \A w \in Seq(Chars) : Append(args, w) \in Seq(Seq(Chars))
                             /\ Len(Append(args, w)) = Len(args) + 1
    BY <1>1
  <2>2. stored \in Seq(Seq(Chars)) /\ Len(stored) = Len(args) + 1
    BY <1>2, <2>1 DEF stored
  <2>. QED
    BY <1>1, <2>2
<1>4. CASE args' = stored
  <2>1. /\ Len(args') < args_size' /\ args_size' \in Nat
        /\ phase' = phase /\ UNCHANGED memory
    BY <1>1, <1>3, <1>4 DEF StoreToken, MustGrow
  <2>. QED
    BY <1>1, <1>2, <1>3, <1>4, <2>1
    DEF StoreToken, IInv, TypeOK, PointersFit, Ledger, LeavesOnCommand,
        PromptMeansNoChild, NoChild, input, memory
<1>5. CASE args' # stored
  <2>1. /\ Fails /\ args' = Null /\ lost' = lost + 1 /\ phase' = "crashed"
        /\ UNCHANGED <<args_size, blocks>>
    BY <1>5 DEF StoreToken
  <2>. QED
    BY <1>1, <1>2, <2>1, HostShellAssumption
    DEF StoreToken, IInv, TypeOK, PointersFit, Ledger, LeavesOnCommand,
        PromptMeansNoChild, NoChild, input, Fails
<1>. QED
  BY <1>4, <1>5

LEMMA FreeBothPreserves == ASSUME IInv, FreeBoth PROVE IInv'
<1>1. <<>> \in Seq(Chars)
  OBVIOUS
<1>. QED
  BY <1>1
  DEF IInv, TypeOK, PointersFit, Ledger, LeavesOnCommand, PromptMeansNoChild,
      NoChild, FreeBoth

(* The steps that move only the phase or the child.                         *)
LEMMA QuietPreserves ==
  ASSUME IInv,
         \/ EndLine \/ InputEnds \/ EndTokens \/ ExecuteHere \/ Launch
         \/ ChildExec \/ ChildMoves \/ WaitPid \/ UNCHANGED vars
  PROVE  IInv'
<1>. USE DEF IInv, TypeOK, PointersFit, Ledger, LeavesOnCommand,
             PromptMeansNoChild, NoChild, vars, input, words, memory
<1>1. CASE EndLine BY <1>1 DEF EndLine
<1>2. CASE InputEnds BY <1>2 DEF InputEnds
<1>3. CASE EndTokens BY <1>3 DEF EndTokens
<1>4. CASE ExecuteHere BY <1>4 DEF ExecuteHere, IsCommand, Calculates
<1>5. CASE Launch BY <1>5 DEF Launch
<1>6. CASE ChildExec BY <1>6 DEF ChildExec
<1>7. CASE ChildMoves BY <1>7 DEF ChildMoves
<1>8. CASE WaitPid BY <1>8 DEF WaitPid
<1>9. CASE UNCHANGED vars BY <1>9
<1>. QED
  BY <1>1, <1>2, <1>3, <1>4, <1>5, <1>6, <1>7, <1>8, <1>9

LEMMA StepIInv == IInv /\ [Next]_vars => IInv'
BY PromptPreserves, ReadCharPreserves, BeginSplitPreserves, StoreTokenPreserves,
   FreeBothPreserves, QuietPreserves
DEF Next, ShellStep

LEMMA SpecIInv == Spec => []IInv
BY InitIInv, StepIInv, PTL DEF Spec

(* Whatever the chunks, the indices of both loops stay within their buffers *)
(* and no block is freed twice.                                             *)
THEOREM SpecTypeOK == Spec => []TypeOK
<1>1. IInv => TypeOK
  BY DEF IInv
<1>. QED
  BY SpecIInv, <1>1, PTL

(* No child is left when the shell is anywhere but in the loop that waits.  *)
THEOREM SpecPromptMeansNoChild == Spec => []PromptMeansNoChild
<1>1. IInv => PromptMeansNoChild
  BY DEF IInv
<1>. QED
  BY SpecIInv, <1>1, PTL

(* What the shell has allocated it has freed at the prompt, whatever failed *)
(* on the way, but for what a failed realloc lost.                          *)
THEOREM SpecFreedAtPrompt == Spec => []FreedAtPrompt
<1>1. IInv => FreedAtPrompt
  BY DEF IInv, TypeOK, PointersFit, Ledger, FreedAtPrompt
<1>. QED
  BY SpecIInv, <1>1, PTL

(* The shell crashes only after a failed allocation or in a calculation,    *)
(* and ends only by the exit command.                                       *)
THEOREM SpecEndsKnown == Spec => EndsKnown
<1>. DEFINE Known == /\ phase' = "crashed" => failures' > 0 \/ Calculates
                     /\ phase' = "exited" /\ phase # "exited" =>
                          Head(args) = <<ExitWord>>
            Before == phase = "crashed" => failures > 0 \/ Calculates
<1>1. Init => Before
  BY DEF Init
<1>2. IInv /\ Before /\ [Next]_vars => Known /\ Before'
  <2>. SUFFICES ASSUME IInv, Before, [Next]_vars PROVE Known /\ Before'
    OBVIOUS
  <2>1. /\ phase' = "crashed" => failures' > 0 \/ (Calculates /\ args' = args)
    BY HostShellAssumption
    DEF Next, ShellStep, Prompt, ReadChar, BeginSplit, StoreToken, EndLine,
        InputEnds, EndTokens, ExecuteHere, Launch, ChildExec, ChildMoves,
        WaitPid, FreeBoth, Fails, vars, input, words, memory, IInv, TypeOK,
        PointersFit
  <2>2. phase' = "exited" /\ phase # "exited" => phase = "leave"
    BY DEF Next, ShellStep, Prompt, ReadChar, BeginSplit, StoreToken, EndLine,
           InputEnds, EndTokens, ExecuteHere, Launch, ChildExec, ChildMoves,
           WaitPid, FreeBoth, vars
  <2>. QED
    BY <2>1, <2>2 DEF Calculates, IsCommand, IInv, LeavesOnCommand
<1>. QED
  BY <1>1, <1>2, SpecIInv, PTL DEF Spec, EndsKnown

-----------------------------------------------------------------------------
(* A part of a part of a sequence is a part of it.                          *)
LEMMA PartOfPart ==
  ASSUME NEW S, NEW seq \in Seq(S), NEW t \in Seq(S), NEW s \in 1 .. Len(seq),
         Len(t) = Len(seq) - s + 1,
         \A k \in 1 .. Len(t) : t[k] = seq[s + k - 1],
         NEW a \in Nat \ {0}, NEW b \in Nat, b <= Len(t)
  PROVE  SubSeq(t, a, b) = SubSeq(seq, s + a - 1, s + b - 1)
<1>1. PICK c \in Nat, d \in Int : c = s + a - 1 /\ d = s + b - 1 /\ d - c = b - a
  OBVIOUS
<1>2. /\ SubSeq(t, a, b) \in Seq(S)
      /\ Len(SubSeq(t, a, b)) = IF a <= b THEN b - a + 1 ELSE 0
      /\ \A i \in 1 .. b - a + 1 : SubSeq(t, a, b)[i] = t[a + i - 1]
  <2>1. \A i \in a .. b : t[i] \in S
    OBVIOUS
  <2>2. a \in Int /\ b \in Int
    OBVIOUS
  <2>3. QED
    BY <2>1, <2>2, SubSeqProperties
<1>3. /\ SubSeq(seq, c, d) \in Seq(S)
      /\ Len(SubSeq(seq, c, d)) = IF c <= d THEN d - c + 1 ELSE 0
      /\ \A i \in 1 .. d - c + 1 : SubSeq(seq, c, d)[i] = seq[c + i - 1]
  <2>1. \A i \in c .. d : seq[i] \in S
    BY <1>1
  <2>2. c \in Int /\ d \in Int
    BY <1>1
  <2>3. QED
    BY <2>1, <2>2, SubSeqProperties
<1>4. PICK u \in Seq(S) : u = SubSeq(t, a, b)
  BY <1>2
<1>5. PICK v \in Seq(S) : v = SubSeq(seq, c, d)
  BY <1>3
<1>6. Len(u) = Len(v)
  <2>1. Len(u) = IF a <= b THEN b - a + 1 ELSE 0
    BY <1>2, <1>4
  <2>2. Len(v) = IF c <= d THEN d - c + 1 ELSE 0
    BY <1>3, <1>5
  <2>3. QED
    BY <1>1, <2>1, <2>2
<1>7. \A i \in 1 .. Len(u) : i \in 1 .. b - a + 1
  BY <1>2, <1>4
<1>8. \A i \in 1 .. b - a + 1 : u[i] = t[a + i - 1]
  BY <1>2, <1>4
<1>9. \A i \in 1 .. b - a + 1 : v[i] = seq[c + i - 1]
  BY <1>1, <1>3, <1>5
<1>10. ASSUME NEW i \in 1 .. Len(u)
      PROVE  u[i] = v[i]
  <2>1. i \in 1 .. b - a + 1
    BY <1>7
  <2>2. a + i - 1 \in 1 .. Len(t) /\ s + (a + i - 1) - 1 = c + i - 1
    BY <1>1, <2>1
  <2>3. t[a + i - 1] = seq[s + (a + i - 1) - 1]
    BY <2>2
  <2>4. QED
    BY <1>8, <1>9, <2>1, <2>2, <2>3
<1>11. u = v
  BY <1>10, <1>6, SeqEqual
<1>12. QED
  BY <1>1, <1>5, <1>4, <1>11

-----------------------------------------------------------------------------
(* strtok: blanks, a word, and one more blank or the end.                   *)
LEMMA StrTok ==
  ASSUME NEW left \in Seq(Chars), SkipDelims(left) # <<>>,
         NEW n \in Nat, n = Len(left)
  PROVE  \E s \in 1 .. n : \E e \in s + 1 .. n + 1 :
           /\ \A k \in 1 .. s - 1 : left[k] \in Delims
           /\ \A k \in s .. e - 1 : left[k] \notin Delims
           /\ e = n + 1 \/ left[e] \in Delims
           /\ FirstWord(SkipDelims(left)) = SubSeq(left, s, e - 1)
           /\ AfterWord(SkipDelims(left)) = SubSeq(left, e + 1, n)
<1>1. PICK Out : Out = {i \in 1 .. n : left[i] \notin Delims}
  OBVIOUS
<1>2. SkipDelims(left) = IF Out # {} THEN SubSeq(left, Min(Out), n) ELSE <<>>
  BY <1>1 DEF SkipDelims, SelectInSeq
<1>3. Out # {} /\ Out \subseteq Nat
  BY <1>1, <1>2
<1>4. PICK s \in 1 .. n : s \in Out /\ s = Min(Out) /\ \A i \in Out : s <= i
  BY <1>1, <1>3, MinIsLeast
<1>5. s \in 1 .. n /\ left[s] \notin Delims /\ \A k \in 1 .. s - 1 : left[k] \in Delims
  <2>1. left[s] \notin Delims
    BY <1>1, <1>4
  <2>2. ASSUME NEW k \in 1 .. s - 1
        PROVE  left[k] \in Delims
    <3>1. k \in 1 .. n /\ ~(s <= k)
      OBVIOUS
    <3>2. k \notin Out
      BY <1>4, <3>1
    <3>3. QED
      BY <1>1, <3>1, <3>2
  <2>3. QED
    BY <2>1, <2>2
<1>6. PICK t \in Seq(Chars), m \in Nat :
        /\ t = SkipDelims(left) /\ m = Len(t) /\ m = n - s + 1
        /\ \A k \in 1 .. m : t[k] = left[s + k - 1]
  <2>1. SkipDelims(left) = SubSeq(left, s, n)
    BY <1>2, <1>3, <1>4
  <2>2. \A i \in s .. n : left[i] \in Chars
    BY <1>5
  <2>3. /\ SubSeq(left, s, n) \in Seq(Chars) /\ Len(SubSeq(left, s, n)) = n - s + 1
        /\ \A k \in 1 .. n - s + 1 : SubSeq(left, s, n)[k] = left[s + k - 1]
    BY <1>5, <2>2, SubSeqProperties
  <2>4. PICK t \in Seq(Chars) : t = SkipDelims(left)
    BY <2>1, <2>3
  <2>5. /\ n - s + 1 \in Nat /\ Len(t) = n - s + 1
        /\ \A k \in 1 .. n - s + 1 : t[k] = left[s + k - 1]
    BY <2>1, <2>3, <2>4
  <2>6. QED
    BY <2>4, <2>5
<1>7. PICK In : In = {i \in 1 .. m : t[i] \in Delims}
  OBVIOUS
<1>8. WordEnd(t) = IF In # {} THEN Min(In) ELSE 0
  BY <1>6, <1>7 DEF WordEnd, SelectInSeq
<1>9. CASE In = {}
  <2>1. FirstWord(t) = t /\ AfterWord(t) = <<>>
    BY <1>8, <1>9 DEF FirstWord, AfterWord
  <2>2. \A k \in s .. n : left[k] \notin Delims
    <3>1. ASSUME NEW k \in s .. n
          PROVE  left[k] \notin Delims
      <4>1. PICK i \in 1 .. m : i = k - s + 1
        BY <1>5, <1>6
      <4>2. t[i] = left[k] /\ t[i] \notin Delims
        <5>1. s + i - 1 = k
          BY <4>1
        <5>2. t[i] = left[k]
          BY <1>6, <5>1
        <5>3. QED
          BY <1>7, <1>9, <5>2
      <4>3. QED
        BY <4>2
    <3>2. QED
      BY <3>1
  <2>3. t = SubSeq(left, s, n)
    BY <1>2, <1>3, <1>4, <1>6
  <2>4. SubSeq(left, n + 2, n) = <<>>
    BY SubSeqEmpty
  <2>5. PICK e \in s + 1 .. n + 1 : e = n + 1
    BY <1>5
  <2>6. e - 1 = n /\ e + 1 = n + 2
    BY <2>5
  <2>7. QED
    BY <1>5, <1>6, <2>1, <2>2, <2>3, <2>4, <2>5, <2>6
<1>10. CASE In # {}
  <2>1. In \subseteq Nat
    BY <1>7
  <2>2. PICK w \in 1 .. m : w \in In /\ w = Min(In) /\ \A i \in In : w <= i
    <3>1. Min(In) \in In /\ \A i \in In : Min(In) <= i
      BY <1>10, <2>1, MinIsLeast
    <3>2. Min(In) \in 1 .. m
      BY <1>7, <3>1
    <3>3. QED
      BY <3>1, <3>2, Zenon
  <2>3. w \in 1 .. m /\ t[w] \in Delims /\ \A i \in 1 .. w - 1 : t[i] \notin Delims
    <3>1. t[w] \in Delims
      BY <1>7, <2>2
    <3>2. ASSUME NEW i \in 1 .. w - 1
          PROVE  t[i] \notin Delims
      <4>1. i \in 1 .. m /\ ~(w <= i)
        OBVIOUS
      <4>2. i \notin In
        BY <2>2, <4>1
      <4>3. QED
        BY <1>7, <4>1, <4>2
    <3>3. QED
      BY <3>1, <3>2
  <2>4. w # 1
    BY <1>5, <1>6, <2>3
  <2>5. PICK e \in s + 1 .. n : e = s + w - 1
    BY <1>5, <1>6, <2>3, <2>4
  <2>6. left[e] \in Delims
    BY <1>5, <1>6, <2>3, <2>5
  <2>7. ASSUME NEW k \in s .. e - 1
        PROVE  left[k] \notin Delims
    <3>1. PICK i \in 1 .. w - 1 : i = k - s + 1
      BY <1>5, <2>3, <2>5
    <3>2. i \in 1 .. m /\ s + i - 1 = k
      BY <1>5, <2>3, <3>1
    <3>3. QED
      BY <1>6, <2>3, <3>1, <3>2
  <2>8. FirstWord(t) = SubSeq(t, 1, w - 1) /\ AfterWord(t) = SubSeq(t, w + 1, m)
    <3>1. WordEnd(t) = w
      BY <1>8, <1>10, <2>2
    <3>2. w # 0 /\ Len(t) = m
      BY <1>6
    <3>3. QED
      BY <3>1, <3>2, Zenon DEF FirstWord, AfterWord
  <2>9. SubSeq(t, 1, w - 1) = SubSeq(left, s, e - 1)
    BY <1>5, <1>6, <2>3, <2>5, PartOfPart
  <2>10. SubSeq(t, w + 1, m) = SubSeq(left, e + 1, n)
    BY <1>5, <1>6, <2>3, <2>5, PartOfPart
  <2>11. e \in s + 1 .. n + 1
    BY <2>5
  <2>12. /\ FirstWord(SkipDelims(left)) = SubSeq(left, s, e - 1)
         /\ AfterWord(SkipDelims(left)) = SubSeq(left, e + 1, n)
    BY <1>6, <2>8, <2>9, <2>10, Zenon
  <2>13. QED
    BY <1>5, <2>6, <2>7, <2>11, <2>12
<1>11. QED
  BY <1>9, <1>10

-----------------------------------------------------------------------------
(* After strtok has seen the first b characters, the words found are those  *)
(* that begin there, and it goes on behind a blank.                         *)
SplitAt(text, b, left, found) ==
  /\ Len(left) = Len(text) - b
  /\ \A k \in 1 .. Len(left) : left[k] = text[b + k]
  /\ b = 0 \/ b = Len(text) \/ text[b] \in Delims
  /\ Len(found) = Cardinality(UpTo(WordStarts(text, Delims), b))
  /\ \A i \in UpTo(WordStarts(text, Delims), b) :
       IsWordAt(text, Delims, found[Cardinality(UpTo(WordStarts(text, Delims), i))], i)
Split(text, left, found) == \E b \in 0 .. Len(text) : SplitAt(text, b, left, found)

LEMMA SplitNothing ==
  ASSUME NEW text \in Seq(Chars)
  PROVE  Split(text, text, <<>>)
<1>1. UpTo(WordStarts(text, Delims), 0) = {}
  <2>1. \A i \in WordStarts(text, Delims) : ~(i <= 0)
    BY WordStartsAreIndices
  <2>2. QED
    BY <2>1 DEF UpTo
<1>2. Cardinality({}) = 0 /\ Len(<<>>) = 0 /\ Len(text) \in Nat
  BY FS_EmptySet
<1>3. SplitAt(text, 0, text, <<>>)
  <2>1. Len(text) = Len(text) - 0 /\ \A k \in 1 .. Len(text) : 0 + k = k
    BY <1>2
  <2>2. \A k \in 1 .. Len(text) : text[k] = text[0 + k]
    BY <2>1
  <2>3. Len(<<>>) = Cardinality(UpTo(WordStarts(text, Delims), 0))
    BY <1>1, <1>2
  <2>4. QED
    BY <1>1, <2>1, <2>2, <2>3, Zenon DEF SplitAt
<1>4. QED
  BY <1>2, <1>3 DEF Split

LEMMA SplitAll ==
  ASSUME NEW text \in Seq(Chars), NEW left \in Seq(Chars), NEW found,
         Split(text, left, found), SkipDelims(left) = <<>>
  PROVE  /\ Len(found) = Cardinality(WordStarts(text, Delims))
         /\ \A i \in WordStarts(text, Delims) :
              IsWordAt(text, Delims, found[Cardinality(UpTo(WordStarts(text, Delims), i))], i)
<1>1. PICK b \in 0 .. Len(text) : SplitAt(text, b, left, found)
  BY DEF Split
<1>2. PICK n \in Nat : n = Len(text)
  OBVIOUS
<1>3. Len(left) = n - b /\ \A k \in 1 .. n - b : left[k] = text[b + k]
  BY <1>1, <1>2 DEF SplitAt
<1>4. \A k \in 1 .. n - b : left[k] \in Delims
  <2>1. PICK Out : Out = {i \in 1 .. Len(left) : left[i] \notin Delims}
    OBVIOUS
  <2>2. SkipDelims(left) = IF Out # {} THEN SubSeq(left, Min(Out), Len(left)) ELSE <<>>
    <3>1. Out # {} => Min(Out) # 0
      <4>1. Out \subseteq Nat /\ 0 \notin Out
        BY <2>1
      <4>2. QED
        BY <4>1, MinIsLeast
    <3>2. QED
      BY <2>1, <3>1 DEF SkipDelims, SelectInSeq
  <2>3. CASE Out = {}
    BY <1>3, <2>1, <2>3
  <2>4. CASE Out # {}
    <3>1. Out \subseteq Nat
      BY <2>1
    <3>2. PICK s : s = Min(Out) /\ s \in Out
      BY <2>4, <3>1, MinIsLeast
    <3>3. s \in 1 .. Len(left) /\ Len(left) \in Nat
      BY <2>1, <3>2
    <3>4. \A i \in s .. Len(left) : left[i] \in Chars
      BY <3>3
    <3>5. Len(SubSeq(left, s, Len(left))) = Len(left) - s + 1
      BY <3>3, <3>4, SubSeqProperties
    <3>6. SubSeq(left, s, Len(left)) = <<>>
      BY <2>2, <2>4, <3>2
    <3>7. Len(<<>>) = 0
      OBVIOUS
    <3>8. QED
      BY <3>3, <3>5, <3>6, <3>7
  <2>5. QED
    BY <2>3, <2>4
<1>5. \A i \in WordStarts(text, Delims) : i <= b
  <2>1. ASSUME NEW i \in WordStarts(text, Delims), ~(i <= b)
        PROVE  FALSE
    <3>1. i \in 1 .. n /\ text[i] \notin Delims
      BY <1>2, WordStartsAreIndices
    <3>2. PICK k \in 1 .. n - b : b + k = i
      <4>1. i - b \in 1 .. n - b /\ b + (i - b) = i
        BY <2>1, <3>1
      <4>2. QED
        BY <4>1
    <3>3. QED
      BY <1>3, <1>4, <3>1, <3>2
  <2>2. QED
    BY <2>1
<1>6. UpTo(WordStarts(text, Delims), b) = WordStarts(text, Delims)
  BY <1>5 DEF UpTo
<1>7. QED
  BY <1>1, <1>6 DEF SplitAt

LEMMA SplitOne ==
  ASSUME NEW text \in Seq(Chars), NEW left \in Seq(Chars), NEW found \in Seq(Seq(Chars)),
         Split(text, left, found), SkipDelims(left) # <<>>
  PROVE  Split(text, AfterWord(SkipDelims(left)),
               Append(found, FirstWord(SkipDelims(left))))
<1>1. PICK b \in Nat : b <= Len(text) /\ SplitAt(text, b, left, found)
  <2>1. PICK b \in 0 .. Len(text) : SplitAt(text, b, left, found)
    BY DEF Split
  <2>2. b \in Nat /\ b <= Len(text)
    OBVIOUS
  <2>3. QED
    BY <2>1, <2>2
<1>2. PICK n \in Nat, m \in Nat : n = Len(text) /\ m = Len(left) /\ m = n - b /\ b <= n
  <2>1. Len(left) = Len(text) - b
    BY <1>1, Zenon DEF SplitAt
  <2>2. QED
    BY <1>1, <2>1
<1>3. m = n - b /\ b <= n
  BY <1>2
<1>4. \A k \in 1 .. m : left[k] = text[b + k]
  BY <1>1, <1>2 DEF SplitAt
<1>5. \A k \in 1 .. m : left[k] \in Chars
  <2>1. \A k \in 1 .. Len(left) : left[k] \in Chars
    OBVIOUS
  <2>2. QED
    BY <1>2, <2>1
<1>6. PICK s \in 1 .. m, e \in 1 .. m + 1 :
        /\ s < e
        /\ \A k \in 1 .. s - 1 : left[k] \in Delims
        /\ \A k \in s .. e - 1 : left[k] \notin Delims
        /\ e = m + 1 \/ left[e] \in Delims
        /\ FirstWord(SkipDelims(left)) = SubSeq(left, s, e - 1)
        /\ AfterWord(SkipDelims(left)) = SubSeq(left, e + 1, m)
  <2>1. PICK s \in 1 .. m : \E e \in s + 1 .. m + 1 :
           /\ \A k \in 1 .. s - 1 : left[k] \in Delims
           /\ \A k \in s .. e - 1 : left[k] \notin Delims
           /\ e = m + 1 \/ left[e] \in Delims
           /\ FirstWord(SkipDelims(left)) = SubSeq(left, s, e - 1)
           /\ AfterWord(SkipDelims(left)) = SubSeq(left, e + 1, m)
    BY <1>2, StrTok
  <2>2. \A e \in s + 1 .. m + 1 : e \in 1 .. m + 1 /\ s < e
    OBVIOUS
  <2>3. QED
    BY <2>1, <2>2
<1>7. /\ \A k \in s .. e - 1 : k \in 1 .. m
      /\ \A k \in e + 1 .. m : k \in 1 .. m
  OBVIOUS
<1>8. PICK W : W = WordStarts(text, Delims) /\ W \subseteq 1 .. n
  BY <1>2, WordStartsAreIndices
<1>9. W \subseteq Nat /\ IsFiniteSet(W) /\ \A j \in W : j \in 1 .. n
  <2>1. IsFiniteSet(1 .. n)
    BY FS_Interval
  <2>2. QED
    BY <1>8, <2>1, FS_Subset
<1>10. PICK i \in 1 .. n : i = b + s
  BY <1>2
<1>11. PICK c \in 0 .. n : c = IF e = m + 1 THEN n ELSE b + e
  <2>1. (IF e = m + 1 THEN n ELSE b + e) \in 0 .. n
    BY <1>3
  <2>2. QED
    BY <2>1
<1>12. b < i /\ i <= c
  BY <1>2, <1>6, <1>10, <1>11
<1>13. \A k \in 1 .. n : k >= i /\ k < b + e => text[k] \notin Delims
  <2>1. ASSUME NEW k \in 1 .. n, k >= i, k < b + e
        PROVE  text[k] \notin Delims
    <3>1. PICK j \in s .. e - 1 : j = k - b
      <4>1. k - b \in s .. e - 1
        BY <1>10, <2>1
      <4>2. QED
        BY <4>1
    <3>2. j \in 1 .. m /\ b + j = k
      BY <3>1
    <3>3. QED
      BY <1>4, <1>6, <3>1, <3>2
  <2>2. QED
    BY <2>1
<1>14. \A k \in 1 .. n : b < k /\ k < i => text[k] \in Delims
  <2>1. ASSUME NEW k \in 1 .. n, b < k, k < i
        PROVE  text[k] \in Delims
    <3>1. PICK j \in 1 .. s - 1 : j = k - b
      <4>1. k - b \in 1 .. s - 1
        BY <1>10, <2>1
      <4>2. QED
        BY <4>1
    <3>2. j \in 1 .. m /\ b + j = k
      BY <3>1
    <3>3. QED
      BY <1>4, <1>6, <3>1, <3>2
  <2>2. QED
    BY <2>1
<1>15. e # m + 1 => c = b + e /\ text[c] \in Delims
  BY <1>2, <1>4, <1>6, <1>11
<1>16. i \in W
  <2>1. text[i] \notin Delims
    <3>1. i >= i /\ i < b + e
      BY <1>6, <1>10
    <3>2. QED
      BY <1>13, <3>1
  <2>2. i = 1 \/ text[i - 1] \in Delims
    <3>1. CASE s = 1
      <4>1. b = 0 \/ text[b] \in Delims
        BY <1>1, <1>2 DEF SplitAt
      <4>2. QED
        BY <1>10, <3>1, <4>1
    <3>2. CASE s # 1
      <4>1. i - 1 \in 1 .. n /\ b < i - 1 /\ i - 1 < i
        BY <1>10, <3>2
      <4>2. QED
        BY <1>14, <4>1
    <3>3. QED
      BY <3>1, <3>2
  <2>3. QED
    BY <1>2, <1>8, <2>1, <2>2, WordStartsAreIndices
<1>17. \A j \in W : b < j /\ j <= c => j = i
  <2>1. ASSUME NEW j \in 1 .. n, j \in W, b < j, j <= c, j # i
        PROVE  FALSE
    <3>1. text[j] \notin Delims /\ (j = 1 \/ text[j - 1] \in Delims)
      BY <1>2, <1>8, <2>1, WordStartsAreIndices
    <3>2. ~(j < i)
      BY <1>14, <2>1, <3>1
    <3>3. j - 1 \in 1 .. n /\ j - 1 >= i
      BY <2>1, <3>2
    <3>4. ~(j - 1 < b + e)
      BY <1>13, <3>1, <3>3
    <3>5. QED
      BY <1>2, <1>11, <2>1, <3>4
  <2>2. QED
    BY <1>9, <2>1
<1>18. /\ Cardinality(UpTo(W, c)) = Cardinality(UpTo(W, b)) + 1
       /\ Cardinality(UpTo(W, i)) = Cardinality(UpTo(W, b)) + 1
       /\ \A j \in UpTo(W, c) : j = i \/ j \in UpTo(W, b)
  <2>1. b \in Nat /\ c \in Nat /\ \A j \in W : j \in Nat
    BY <1>9
  <2>2. OneMore(W, b, c, i)
    BY <1>12, <1>16, <1>17, Zenon DEF OneMore
  <2>3. QED
    BY <1>9, <2>1, <2>2, UpToNext
<1>19. PICK l \in Nat, word \in Seq(Chars), more \in Seq(Seq(Chars)) :
         /\ l = Len(found) /\ word = FirstWord(SkipDelims(left))
         /\ more = Append(found, word) /\ Len(more) = l + 1 /\ more[l + 1] = word
         /\ \A k \in 1 .. l : more[k] = found[k]
  <2>1. FirstWord(SkipDelims(left)) \in Seq(Chars)
    BY WordsAreText
  <2>2. PICK word \in Seq(Chars) : word = FirstWord(SkipDelims(left))
    BY <2>1
  <2>3. PICK l \in Nat : l = Len(found)
    OBVIOUS
  <2>4. /\ Append(found, word) \in Seq(Seq(Chars))
        /\ Len(Append(found, word)) = Len(found) + 1
        /\ \A k \in 1 .. Len(found) : Append(found, word)[k] = found[k]
        /\ Append(found, word)[Len(found) + 1] = word
    BY AppendProperties
  <2>5. QED
    BY <2>2, <2>3, <2>4
<1>20. IsWordAt(text, Delims, word, i)
  <2>1. word = SubSeq(text, i, b + e - 1) /\ Len(word) = e - s
    <3>1. word = SubSeq(left, s, e - 1)
      BY <1>6, <1>19
    <3>2. \A k \in s .. e - 1 : left[k] \in Chars
      BY <1>5, <1>7
    <3>3. Len(SubSeq(left, s, e - 1)) = (e - 1) - s + 1
      BY <1>6, <3>2, SubSeqProperties
    <3>4. SubSeq(left, s, e - 1) = SubSeq(text, i, b + e - 1)
      <4>1. PICK r \in 1 .. Len(text) : r = b + 1
        BY <1>2
      <4>2. Len(left) = Len(text) - r + 1
        BY <1>2, <4>1
      <4>3. \A k \in 1 .. m : b + k = r + k - 1
        BY <4>1
      <4>4. \A k \in 1 .. Len(left) : left[k] = text[r + k - 1]
        BY <1>2, <1>4, <4>3
      <4>5. s \in Nat \ {0} /\ e - 1 \in Nat /\ e - 1 <= Len(left)
        BY <1>2
      <4>6. SubSeq(left, s, e - 1) = SubSeq(text, r + s - 1, r + (e - 1) - 1)
        BY <4>2, <4>4, <4>5, PartOfPart
      <4>7. r + s - 1 = i /\ r + (e - 1) - 1 = b + e - 1
        BY <1>10, <4>1
      <4>8. QED
        BY <4>6, <4>7
    <3>5. QED
      BY <1>6, <3>1, <3>3, <3>4
  <2>2. i + Len(word) = b + e
    BY <1>10, <2>1
  <2>3. word = SubSeq(text, i, i + Len(word) - 1)
    BY <2>1, <2>2
  <2>4. ToSet(word) \cap Delims = {}
    <3>1. ASSUME NEW k \in 1 .. Len(word)
          PROVE  word[k] \notin Delims
      <4>1. k \in 1 .. e - s
        BY <2>1
      <4>2. word = SubSeq(left, s, e - 1)
        BY <1>6, <1>19
      <4>3. \A x \in s .. e - 1 : left[x] \in Chars
        BY <1>5, <1>7
      <4>4. SubSeq(left, s, e - 1)[k] = left[s + k - 1]
        <5>1. \A x \in 1 .. (e - 1) - s + 1 : SubSeq(left, s, e - 1)[x] = left[s + x - 1]
          BY <4>3, SubSeqProperties
        <5>2. k \in 1 .. (e - 1) - s + 1
          BY <4>1
        <5>3. QED
          BY <5>1, <5>2
      <4>5. s + k - 1 \in s .. e - 1
        BY <4>1
      <4>6. QED
        BY <1>6, <4>2, <4>4, <4>5
    <3>2. QED
      BY <3>1 DEF ToSet
  <2>5. b + e = n + 1 \/ text[b + e] \in Delims
    <3>1. CASE e = m + 1
      BY <1>2, <3>1
    <3>2. CASE e # m + 1
      BY <1>15, <3>2
    <3>3. QED
      BY <3>1, <3>2
  <2>6. QED
    BY <1>2, <2>2, <2>3, <2>4, <2>5 DEF IsWordAt
<1>21. PICK rest1 \in Seq(Chars) :
         /\ rest1 = AfterWord(SkipDelims(left)) /\ Len(rest1) = n - c
         /\ \A k \in 1 .. Len(rest1) : rest1[k] = text[c + k]
  <2>1. \A k \in e + 1 .. m : left[k] \in Chars
    BY <1>5, <1>7
  <2>2. /\ SubSeq(left, e + 1, m) \in Seq(Chars)
        /\ Len(SubSeq(left, e + 1, m)) = IF e + 1 <= m THEN m - (e + 1) + 1 ELSE 0
        /\ \A k \in 1 .. m - (e + 1) + 1 : SubSeq(left, e + 1, m)[k] = left[(e + 1) + k - 1]
    <3>1. e + 1 \in Int /\ m \in Int
      OBVIOUS
    <3>2. QED
      BY <2>1, <3>1, SubSeqProperties
  <2>3. PICK r \in Seq(Chars) : r = SubSeq(left, e + 1, m)
    BY <2>2
  <2>4. Len(r) = n - c
    <3>1. PICK x \in Nat : x = Len(r)
      OBVIOUS
    <3>2. x = IF e + 1 <= m THEN m - (e + 1) + 1 ELSE 0
      BY <2>2, <2>3, <3>1
    <3>3. x = n - c
      BY <1>3, <1>11, <3>2
    <3>4. QED
      BY <3>1, <3>3
  <2>5. ASSUME NEW k \in 1 .. Len(r)
        PROVE  r[k] = text[c + k]
    <3>1. e # m + 1 /\ k \in 1 .. m - (e + 1) + 1 /\ c = b + e
      BY <1>2, <1>11, <2>4
    <3>2. r[k] = left[(e + 1) + k - 1]
      BY <2>2, <2>3, <3>1
    <3>3. PICK j \in 1 .. m : j = (e + 1) + k - 1
      BY <3>1
    <3>4. b + j = c + k
      BY <3>1, <3>3
    <3>5. QED
      BY <1>4, <3>2, <3>3, <3>4
  <2>6. QED
    BY <1>6, <2>3, <2>4, <2>5
<1>22. c = 0 \/ c = n \/ text[c] \in Delims
  BY <1>11, <1>15
<1>23. l = Cardinality(UpTo(W, b))
  BY <1>1, <1>8, <1>19 DEF SplitAt
<1>24. ASSUME NEW j \in UpTo(W, c)
       PROVE  IsWordAt(text, Delims, more[Cardinality(UpTo(W, j))], j)
  <2>1. CASE j = i
    BY <1>18, <1>19, <1>20, <1>23, <2>1
  <2>2. CASE j \in UpTo(W, b)
    <3>1. Cardinality(UpTo(W, j)) \in 1 .. l
      <4>1. b \in Nat
        OBVIOUS
      <4>2. Cardinality(UpTo(W, j)) \in 1 .. Cardinality(UpTo(W, b))
        BY <1>9, <2>2, <4>1, UpToEarlier
      <4>3. QED
        BY <1>23, <4>2
    <3>2. IsWordAt(text, Delims, found[Cardinality(UpTo(W, j))], j)
      BY <1>1, <1>8, <2>2 DEF SplitAt
    <3>3. QED
      BY <1>19, <3>1, <3>2
  <2>3. QED
    BY <1>18, <2>1, <2>2
<1>25. SplitAt(text, c, rest1, more)
  <2>1. Len(more) = Cardinality(UpTo(W, c))
    BY <1>18, <1>19, <1>23
  <2>2. QED
    BY <1>2, <1>8, <1>21, <1>22, <1>24, <2>1 DEF SplitAt
<1>26. QED
  BY <1>2, <1>19, <1>21, <1>25 DEF Split

-----------------------------------------------------------------------------
(* While the words are taken, the line is split at the place strtok is at;  *)
(* when they are executed, nothing but blanks is behind it.                 *)
SplitInv ==
  line # Null =>
    /\ phase \in {"tokens", "execute"} => Split(line, rest, args)
    /\ phase = "execute" => SkipDelims(rest) = <<>>

LEMMA BeginSplitSplits ==
  ASSUME IInv, BeginSplit PROVE SplitInv'
<1>1. line' = line /\ (phase' = "tokens" \/ phase' = "crashed")
  BY DEF BeginSplit, input
<1>2. line # Null /\ phase' = "tokens" => line' \in Seq(Chars) /\ rest' = line' /\ args' = <<>>
  BY DEF BeginSplit, input, IInv, TypeOK
<1>3. line' # Null /\ phase' = "tokens" => Split(line', rest', args')
  <2>1. ASSUME line' # Null, phase' = "tokens"
        PROVE  Split(line', rest', args')
    <3>1. line' \in Seq(Chars) /\ rest' = line' /\ args' = <<>>
      BY <1>1, <1>2, <2>1
    <3>2. Split(line', line', <<>>)
      BY <3>1, SplitNothing
    <3>3. QED
      BY <3>1, <3>2
  <2>2. QED
    BY <2>1
<1>4. QED
  BY <1>1, <1>3 DEF SplitInv

LEMMA StoreTokenSplits ==
  ASSUME IInv, SplitInv, StoreToken PROVE SplitInv'
<1>1. /\ phase = "tokens" /\ SkipDelims(rest) # <<>> /\ line' = line
      /\ rest' = AfterWord(SkipDelims(rest))
      /\ \/ phase' = phase /\ args' = Append(args, FirstWord(SkipDelims(rest)))
         \/ phase' = "crashed"
  BY DEF StoreToken, input
<1>2. CASE phase' = "crashed" \/ line = Null
  BY <1>1, <1>2 DEF SplitInv
<1>3. CASE phase' # "crashed" /\ line # Null
  <2>1. /\ line \in Seq(Chars) /\ rest \in Seq(Chars)
        /\ args \in Seq(Seq(Chars)) /\ Split(line, rest, args)
    BY <1>1, <1>3 DEF IInv, TypeOK, PointersFit, SplitInv
  <2>2. Split(line, AfterWord(SkipDelims(rest)), Append(args, FirstWord(SkipDelims(rest))))
    BY <1>1, <2>1, SplitOne
  <2>3. QED
    BY <1>1, <1>3, <2>2 DEF SplitInv
<1>4. QED
  BY <1>2, <1>3

LEMMA StepSplits == IInv /\ SplitInv /\ [Next]_vars => SplitInv'
<1>1. SUFFICES ASSUME IInv, SplitInv, [Next]_vars PROVE SplitInv'
  OBVIOUS
<1>2. CASE BeginSplit
  BY <1>1, <1>2, BeginSplitSplits
<1>3. CASE StoreToken
  BY <1>1, <1>3, StoreTokenSplits
<1>4. CASE EndTokens
  <2>1. /\ phase = "tokens" /\ SkipDelims(rest) = <<>> /\ line' = line
        /\ rest' = rest /\ args' = args
    BY <1>4 DEF EndTokens, input, words
  <2>2. QED
    BY <1>1, <2>1 DEF SplitInv
<1>5. CASE InputEnds \/ ChildExec \/ ChildMoves \/ UNCHANGED vars
  <2>1. UNCHANGED <<phase, line, rest, args>>
    BY <1>5 DEF InputEnds, ChildExec, ChildMoves, vars, input, words
  <2>2. QED
    BY <1>1, <2>1 DEF SplitInv
<1>6. CASE \/ Prompt \/ ExecuteHere \/ Launch \/ WaitPid \/ FreeBoth
           \/ EndLine \/ \E c \in Chars : ReadChar(c)
  <2>1. phase' \notin {"tokens", "execute"}
    BY <1>6 DEF Prompt, ExecuteHere, Launch, WaitPid, FreeBoth, EndLine, ReadChar
  <2>2. QED
    BY <2>1 DEF SplitInv
<1>7. QED
  BY <1>1, <1>2, <1>3, <1>4, <1>5, <1>6 DEF Next, ShellStep

LEMMA SplitInvGivesWords == IInv /\ SplitInv => ArgsAreWords
<1>1. SUFFICES ASSUME IInv, SplitInv, phase = "execute", line # Null
               PROVE  /\ Len(args) = Cardinality(WordStarts(line, Delims))
                      /\ \A i \in WordStarts(line, Delims) :
                           IsWordAt(line, Delims, args[PlaceIn(WordStarts(line, Delims), i)], i)
  BY DEF ArgsAreWords
<1>2. /\ line \in Seq(Chars) /\ rest \in Seq(Chars)
      /\ Split(line, rest, args) /\ SkipDelims(rest) = <<>>
  BY <1>1 DEF IInv, TypeOK, SplitInv
<1>3. QED
  BY <1>2, SplitAll DEF PlaceIn

(* What is executed is the words of the line, for lines and chunks of any   *)
(* length: lsh_split_line loses, invents and misplaces none.                *)
THEOREM SpecArgsAreWords == Spec => []ArgsAreWords
<1>1. Init => SplitInv
  BY DEF Init, SplitInv
<1>2. QED
  BY <1>1, SpecIInv, StepSplits, SplitInvGivesWords, PTL DEF Spec
=============================================================================
