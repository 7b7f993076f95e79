------------------------------ MODULE Commands ------------------------------
(***************************************************************************)
(* How the kernel shell reads a line and writes a number                   *)
(* (shell/kernel_shell.c, drivers/printf.c): tokenize, katoi, calc, and    *)
(* the two print_int.                                                      *)
(*                                                                         *)
(* A line is a sequence of characters, with a whole word standing for one  *)
(* character where nobody looks into it.  An int runs from MinInt to       *)
(* MaxInt and wraps, which is what the compiled code does.                 *)
(***************************************************************************)
EXTENDS Integers, SequencesExt, WordsOfText

CONSTANTS
  Space, Minus,
  Digits,         \* the ten digits, in order
  MaxTokens,      \* KSHELL_MAX_TOKENS
  MaxInt,         \* 2^31 - 1
  MaxLineChecked  \* bound on the length of the lines that FindsWords tries

ASSUME CommandsAssumption ==
  /\ MaxTokens \in Nat \ {0} /\ MaxInt \in Nat \ {0} /\ MaxLineChecked \in Nat
  /\ DOMAIN Digits = 1 .. 10 /\ IsInjective(Digits)
  /\ Space \notin ToSet(Digits) /\ Minus \notin ToSet(Digits)

MinInt == -MaxInt - 1
Wrap(n) == ((n - MinInt) % (2 * (MaxInt + 1))) + MinInt

-----------------------------------------------------------------------------
(* The definitions called Mutant... are no part of the model: each stands   *)
(* for a plausible bug in the definition that follows it, and shows, put in *)
(* its place, that a property notices.                                      *)
(* Here: a second blank makes an empty word.                                *)
MutantScan(t, c) ==
  CASE c = Space -> [argv |-> IF t.open THEN t.argv ELSE Append(t.argv, <<>>),
                     open |-> FALSE]
    [] c # Space /\ t.open -> [t EXCEPT !.argv[Len(t.argv)] = Append(@, c)]
    [] c # Space /\ ~t.open ->
         IF Len(t.argv) < MaxTokens
         THEN [argv |-> Append(t.argv, <<c>>), open |-> TRUE] ELSE t

(* tokenize: `open` while the scan is inside a word that is kept.           *)
Scan(t, c) ==
  CASE c = Space -> [t EXCEPT !.open = FALSE]
    [] c # Space /\ t.open -> [t EXCEPT !.argv[Len(t.argv)] = Append(@, c)]
    [] c # Space /\ ~t.open ->
         IF Len(t.argv) < MaxTokens
         THEN [argv |-> Append(t.argv, <<c>>), open |-> TRUE] ELSE t

Tokenize(line) == FoldLeft(Scan, [argv |-> <<>>, open |-> FALSE], line).argv

-----------------------------------------------------------------------------
DigitValue(c) == (CHOOSE d \in DOMAIN Digits : Digits[d] = c) - 1
AddDigit(value, c) == Wrap(value * 10 + DigitValue(c))
ValueOf(digits) == FoldLeft(AddDigit, 0, digits)

DigitsUpTo(s, n) == \A i \in 1 .. n : s[i] \in ToSet(Digits)
LeadingDigits(s) ==
  SubSeq(s, 1, CHOOSE n \in 0 .. Len(s) :
                 /\ DigitsUpTo(s, n)
                 /\ n < Len(s) => ~DigitsUpTo(s, n + 1))

(* katoi, of a word and so of one character at least: digits up to the      *)
(* first other character, and 0 if there are none.                          *)
Katoi(s) ==
  LET negative == Head(s) = Minus
      value == ValueOf(LeadingDigits(IF negative THEN Tail(s) ELSE s))
  IN  IF negative THEN Wrap(-value) ELSE value

-----------------------------------------------------------------------------
(* The loops that collect digits from the right and print them from the     *)
(* left: `value` is positive.                                               *)
Decimal[value \in Nat] ==
  IF value = 0 THEN <<>>
  ELSE Append(Decimal[value \div 10], Digits[(value % 10) + 1])

(* print_uint of printf.c with base 10, and its print_int, which negates in *)
(* unsigned arithmetic.                                                     *)
PrintUint(value) == IF value = 0 THEN <<Digits[1]>> ELSE Decimal[value]
PrintfInt(value) ==
  IF value < 0 THEN <<Minus>> \o PrintUint(-value) ELSE PrintUint(value)

(* print_int of kernel_shell.c: the smallest int has no negation, and only  *)
(* its sign is printed.                                                     *)
ShellPrintInt(value) ==
  CASE value = 0 -> <<Digits[1]>>
    [] value > 0 -> Decimal[value]
    [] value < 0 -> <<Minus>> \o (IF Wrap(-value) > 0 THEN Decimal[-value] ELSE <<>>)

-----------------------------------------------------------------------------
(* Division of C: towards zero.                                             *)
Quotient(x, y) ==
  LET Abs(n) == IF n < 0 THEN -n ELSE n
      q == Abs(x) \div Abs(y)
  IN  IF (x < 0) = (y < 0) THEN q ELSE -q

(* Mistake: the divisor is not looked at.                                   *)
MutantCalc(x, op, y) ==
  CASE op = "+" -> ShellPrintInt(Wrap(x + y))
    [] op = "-" -> ShellPrintInt(Wrap(x - y))
    [] op = "*" -> ShellPrintInt(Wrap(x * y))
    [] op = "/" -> IF y = 0 \/ (x = MinInt /\ y = -1) THEN "exception"
                   ELSE ShellPrintInt(Quotient(x, y))
    [] OTHER -> "Unknown operator"

(* cmd_calc, given its words: the quotient that is no int raises a divide   *)
(* error, whose gate leads nowhere.                                         *)
Calc(x, op, y) ==
  CASE op = "+" -> ShellPrintInt(Wrap(x + y))
    [] op = "-" -> ShellPrintInt(Wrap(x - y))
    [] op = "*" -> ShellPrintInt(Wrap(x * y))
    [] op = "/" -> IF y = 0 THEN "Math Error"
                   ELSE IF x = MinInt /\ y = -1 THEN "exception"
                   ELSE ShellPrintInt(Quotient(x, y))
    [] OTHER -> "Unknown operator"

CmdCalc(argv) ==
  IF Len(argv) < 4 THEN "Format"
  ELSE Calc(Katoi(argv[2]), Head(argv[3]), Katoi(argv[4]))

-----------------------------------------------------------------------------
(* The words of a line, as many as there is room for: blanks at either end  *)
(* and repeated ones make no words.                                         *)
WordsAreFound(line, argv) ==
  LET starts == WordStarts(line, {Space}) IN
  /\ Len(argv) = Min({Cardinality(starts), MaxTokens})
  /\ \A i \in starts :
       PlaceIn(starts, i) <= MaxTokens =>
         IsWordAt(line, {Space}, argv[PlaceIn(starts, i)], i)
FindsWords ==
  \A line \in BoundedSeq({Space, Minus}, MaxLineChecked) :
    WordsAreFound(line, Tokenize(line))

(* `calc` reads every int as printf writes it, prints the exact result      *)
(* whenever that is an int, but for the smallest, division towards zero     *)
(* included, and survives a zero divisor.                                   *)
Ints == MinInt .. MaxInt
IsQuotient(q, x, y) ==
  LET rest == x - q * y IN
  /\ rest \in (IF x < 0 THEN -MaxInt .. 0 ELSE 0 .. MaxInt)
  /\ rest * rest < y * y
CalcShows(x, op, y) ==
  CmdCalc(<<<<"calc">>, PrintfInt(x), <<op>>, PrintfInt(y)>>)
CalcIsExactFor(x, op, y, result) ==
  result \in Ints \ {MinInt} => CalcShows(x, op, y) = PrintfInt(result)
IsExact ==
  \A x, y \in Ints :
    /\ CalcIsExactFor(x, "+", y, x + y)
    /\ CalcIsExactFor(x, "-", y, x - y)
    /\ CalcIsExactFor(x, "*", y, x * y)
    /\ IF y = 0 THEN CalcShows(x, "/", y) = "Math Error"
       ELSE \A q \in Ints : IsQuotient(q, x, y) => CalcIsExactFor(x, "/", y, q)
=============================================================================
