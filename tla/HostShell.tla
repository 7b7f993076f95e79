----------------------------- MODULE HostShell ------------------------------
(***************************************************************************)
(* The hosted shell (shell/LegenJuice_Shell), a POSIX program: prompt,     *)
(* read a line into a buffer that grows, split it into an array that       *)
(* grows, and run a built-in or a child process (loop.c, input.c,          *)
(* executor.c).                                                            *)
(*                                                                         *)
(* A step of the shell is one character, one token, one system call.  The  *)
(* rest of the world moves between them: input arrives or ends, the child  *)
(* execs, stops, goes on and dies.  Every allocation may fail, and so may  *)
(* fork and exec.                                                          *)
(*                                                                         *)
(* Left out: what the built-ins print, and the numbers of the calculator;  *)
(* chdir; the terminal's signals, which reach the shell as well as the     *)
(* child.                                                                  *)
(***************************************************************************)
EXTENDS Integers, SequencesExt, WordsOfText

CONSTANTS
  Null,            \* the pointer of an allocation that failed
  Chars,           \* what a line is made of: Delims, and letters or words
  Delims,          \* LSH_TOK_DELIM
  ExitWord,        \* "nikli"
  CalcWord,        \* "shusankhya"
  Builtins,        \* the built-in commands but for ExitWord
  LineChunk,       \* LSH_RL_BUFFSIZE
  TokenChunk,      \* LSH_TOKEN_BUFFSIZE
  StaleTexts,      \* what strtok may find in a buffer that is no more
  MaxLine,         \* bound on the length of a line
  MaxFailures      \* bound on failing allocations

ASSUME HostShellAssumption ==
  /\ Delims \subseteq Chars /\ CalcWord \in Builtins
  /\ Null \notin Seq(Chars) /\ Null \notin Seq(Seq(Chars))
  /\ MaxFailures \in Nat
  /\ LineChunk \in Nat \ {0} /\ TokenChunk \in Nat \ {0}
  /\ StaleTexts \subseteq Seq(Chars)

VARIABLES
  phase,       \* where the shell is
  line,        \* `buffer` up to `pos`, or Null
  line_size,   \* `buffsize` in lsh_read_line
  rest,        \* the part of the line strtok has not seen
  args,        \* `tokens` up to `pos`, or Null
  args_size,   \* `buffsize` in lsh_split_line
  blocks,      \* allocated blocks
  failures,    \* allocations that failed
  lost,        \* blocks whose only pointer a failed realloc has overwritten
  eof,         \* the input has ended
  child        \* the child process

input == <<line, line_size>>
words == <<rest, args, args_size>>
memory == <<blocks, failures, lost>>
vars == <<phase, input, words, memory, eof, child>>

NoChild == "none"

Init ==
  /\ phase = "prompt"
  /\ line = Null /\ line_size = 0
  /\ rest = <<>> /\ args = Null /\ args_size = 0
  /\ blocks = 0 /\ failures = 0 /\ lost = 0
  /\ eof = FALSE
  /\ child = NoChild

Fails == failures < MaxFailures /\ failures' = failures + 1

-----------------------------------------------------------------------------
(* shell_loop prints the prompt and calls lsh_read_line.                    *)
Prompt ==
  /\ phase = "prompt"
  /\ \/ /\ line' = <<>> /\ line_size' = LineChunk
        /\ blocks' = blocks + 1
        /\ phase' = "read"
        /\ UNCHANGED failures
     \/ /\ Fails
        /\ phase' = "split"
        /\ UNCHANGED <<input, blocks>>
  /\ UNCHANGED <<words, lost, eof, child>>

(* The definitions called Mutant... are no part of the model: each stands   *)
(* for a plausible bug in the definition that follows it, and shows, put in *)
(* its place, that a property notices.                                      *)
(* Here: the buffer grows only when it has overflown.                       *)
MutantMustGrow(used, size) == used > size

MustGrow(used, size) == used >= size

(* realloc, given the variables of the pointer and of the size.             *)
ReadChar(c) ==
  /\ phase = "read" /\ ~eof
  /\ Len(line) < MaxLine
  /\ IF ~MustGrow(Len(line) + 1, line_size)
     THEN line' = Append(line, c) /\ UNCHANGED <<phase, line_size, memory>>
     ELSE \/ /\ line' = Append(line, c)
             /\ line_size' = line_size + LineChunk
             /\ UNCHANGED <<phase, memory>>
          \/ /\ Fails
             /\ line' = Null /\ lost' = lost + 1
             /\ phase' = "split"
             /\ UNCHANGED <<line_size, blocks>>
  /\ UNCHANGED <<words, eof, child>>

(* Mistake: EOF is stored in a char and no longer recognised.               *)
MutantEndLine ==
  /\ phase = "read" /\ ~eof
  /\ phase' = "split"
  /\ UNCHANGED <<input, words, memory, eof, child>>

(* A newline, or the end of the input, which looks the same from then on.   *)
EndLine ==
  /\ phase = "read"
  /\ phase' = "split"
  /\ UNCHANGED <<input, words, memory, eof, child>>

InputEnds ==
  /\ ~eof /\ eof' = TRUE
  /\ UNCHANGED <<phase, input, words, memory, child>>

-----------------------------------------------------------------------------
(* lsh_split_line.  strtok(NULL) goes on where it was, which is no longer   *)
(* there: it crashes or finds whatever is.                                  *)
BeginSplit ==
  /\ phase = "split"
  /\ \/ /\ args' = <<>> /\ args_size' = TokenChunk
        /\ blocks' = blocks + 1
        /\ IF line # Null THEN rest' = line /\ phase' = "tokens"
           ELSE \/ phase' = "crashed" /\ UNCHANGED rest
                \/ phase' = "tokens" /\ rest' \in StaleTexts
        /\ UNCHANGED failures
     \/ /\ Fails
        /\ phase' = "crashed"       \* shell_loop reads args[0]
        /\ UNCHANGED <<words, blocks>>
  /\ UNCHANGED <<input, lost, eof, child>>

(* strtok: what is left of a text behind its leading delimiters, the word   *)
(* there, and what follows the delimiter that ends the word.                *)
SkipDelims(text) ==
  LET start == SelectInSeq(text, LAMBDA c : c \notin Delims) IN
  IF start = 0 THEN <<>> ELSE SubSeq(text, start, Len(text))
WordEnd(text) == SelectInSeq(text, LAMBDA c : c \in Delims)
FirstWord(text) ==
  IF WordEnd(text) = 0 THEN text ELSE SubSeq(text, 1, WordEnd(text) - 1)
AfterWord(text) ==
  IF WordEnd(text) = 0 THEN <<>> ELSE SubSeq(text, WordEnd(text) + 1, Len(text))

(* Mistake: a growing array loses the token that made it grow.              *)
MutantStoreToken ==
  /\ phase = "tokens" /\ SkipDelims(rest) # <<>>
  /\ rest' = AfterWord(SkipDelims(rest))
  /\ IF ~MustGrow(Len(args) + 1, args_size)
     THEN args' = Append(args, FirstWord(SkipDelims(rest))) /\ UNCHANGED args_size
     ELSE UNCHANGED args /\ args_size' = args_size + TokenChunk
  /\ UNCHANGED <<phase, input, memory, eof, child>>

StoreToken ==
  /\ phase = "tokens" /\ SkipDelims(rest) # <<>>
  /\ rest' = AfterWord(SkipDelims(rest))
  /\ LET stored == Append(args, FirstWord(SkipDelims(rest))) IN
     IF ~MustGrow(Len(stored), args_size)
     THEN args' = stored /\ UNCHANGED <<phase, args_size, memory>>
     ELSE \/ /\ args' = stored /\ args_size' = args_size + TokenChunk
             /\ UNCHANGED <<phase, memory>>
          \/ /\ Fails
             /\ args' = Null /\ lost' = lost + 1
             /\ phase' = "crashed"
             /\ UNCHANGED <<args_size, blocks>>
  /\ UNCHANGED <<input, eof, child>>

EndTokens ==
  /\ phase = "tokens" /\ SkipDelims(rest) = <<>>
  /\ phase' = "execute"
  /\ UNCHANGED <<input, words, memory, eof, child>>

-----------------------------------------------------------------------------
(* Mistake: the command may be any of the words.                            *)
MutantIsCommand(commands) ==
  \E i \in DOMAIN args : args[i] \in {<<w>> : w \in commands}

(* lsh_execute: nothing, the exit command, a built-in that returns 1, or    *)
(* launch_shell.  One quotient of lsh_calc is no int and traps.             *)
IsCommand(commands) == args # <<>> /\ args[1] \in {<<w>> : w \in commands}

Calculates == IsCommand({CalcWord}) /\ Len(args) >= 4

ExecuteHere ==
  /\ phase = "execute"
  /\ args = <<>> \/ IsCommand(Builtins \cup {ExitWord})
  /\ \/ phase' = IF IsCommand({ExitWord}) THEN "leave" ELSE "free"
     \/ Calculates /\ phase' = "crashed"
  /\ UNCHANGED <<input, words, memory, eof, child>>

Launch ==
  /\ phase = "execute"
  /\ args # <<>> /\ ~IsCommand(Builtins \cup {ExitWord})
  /\ \/ phase' = "wait" /\ child' = "forked"
     \/ phase' = "free" /\ UNCHANGED child        \* fork fails
  /\ UNCHANGED <<input, words, memory, eof>>

(* The child: execvp, or exit(EXIT_FAILURE) behind it.                      *)
ChildExec ==
  /\ child = "forked"
  /\ child' \in {"running", "dead"}
  /\ UNCHANGED <<phase, input, words, memory, eof>>

(* What programs and signals do to it; a stop is reported once.             *)
ChildMoves ==
  /\ \/ child = "running" /\ child' \in {"stopped", "dead"}
     \/ child \in {"stopped", "reported"} /\ child' \in {"running", "dead"}
  /\ UNCHANGED <<phase, input, words, memory, eof>>

(* Mistake: a stop ends the wait.                                           *)
MutantWaitPid ==
  /\ phase = "wait"
  /\ \/ child = "stopped" /\ child' = "reported" /\ phase' = "free"
     \/ child = "dead" /\ child' = NoChild /\ phase' = "free"
  /\ UNCHANGED <<input, words, memory, eof>>

(* One waitpid, which returns for a stop as well, and the test of the loop. *)
WaitPid ==
  /\ phase = "wait"
  /\ \/ child = "stopped" /\ child' = "reported" /\ UNCHANGED phase
     \/ child = "dead" /\ child' = NoChild /\ phase' = "free"
  /\ UNCHANGED <<input, words, memory, eof>>

(* Mistake: an empty line is not freed.                                     *)
MutantFreeBoth ==
  /\ phase \in {"free", "leave"}
  /\ blocks' = blocks - (IF args = <<>> THEN 0 ELSE IF line = Null THEN 1 ELSE 2)
  /\ phase' = IF phase = "leave" THEN "exited" ELSE "prompt"
  /\ line' = Null /\ args' = Null /\ rest' = <<>>
  /\ line_size' = 0 /\ args_size' = 0
  /\ UNCHANGED <<failures, lost, eof, child>>

(* free(line), free(args), and the test of shell_loop.  The variables are   *)
(* dead until they are assigned again.                                      *)
FreeBoth ==
  /\ phase \in {"free", "leave"}
  /\ blocks' = blocks - (IF line = Null THEN 1 ELSE 2)
  /\ phase' = IF phase = "leave" THEN "exited" ELSE "prompt"
  /\ line' = Null /\ args' = Null /\ rest' = <<>>
  /\ line_size' = 0 /\ args_size' = 0
  /\ UNCHANGED <<failures, lost, eof, child>>

-----------------------------------------------------------------------------
(* What the shell does on its own; only at "read" it waits for its input.   *)
ShellStep ==
  \/ Prompt \/ BeginSplit \/ StoreToken \/ EndTokens
  \/ ExecuteHere \/ Launch \/ WaitPid \/ FreeBoth
  \/ eof /\ EndLine

Next ==
  \/ ShellStep
  \/ \E c \in Chars : ReadChar(c)
  \/ EndLine \/ InputEnds
  \/ ChildExec \/ ChildMoves

(* The shell is scheduled; nobody need type, and a program need not end.    *)
Spec == Init /\ [][Next]_vars /\ WF_vars(ShellStep)

-----------------------------------------------------------------------------
(* Every index is within its buffer, with room for the final NUL and NULL,  *)
(* however the two arrays grow, and no block is freed twice.                *)
TypeOK ==
  /\ phase \in {"prompt", "read", "split", "tokens", "execute", "wait", "free",
               "leave", "exited", "crashed"}
  /\ line # Null => line \in Seq(Chars) /\ Len(line) < line_size
  /\ args # Null => args \in Seq(Seq(Chars)) /\ Len(args) < args_size
  /\ rest \in Seq(Chars)
  /\ failures \in 0 .. MaxFailures /\ lost \in 0 .. failures
  /\ blocks \in lost .. lost + 2
  /\ eof \in BOOLEAN
  /\ child \in {NoChild, "forked", "running", "stopped", "reported", "dead"}

(* What is executed is the words of the line, all of them, whatever chunk   *)
(* they fell into and whatever blanks surround them.                        *)
ArgsAreWords ==
  LET starts == WordStarts(line, Delims) IN
  phase = "execute" /\ line # Null =>
    /\ Len(args) = Cardinality(starts)
    /\ \A i \in starts : IsWordAt(line, Delims, args[PlaceIn(starts, i)], i)

(* A prompt means that no child is left, not even a stopped one or a        *)
(* zombie: whoever types next types to this shell.                          *)
PromptMeansNoChild == phase # "wait" => child = NoChild

(* At the prompt, and at the end, nothing is allocated, but for the blocks  *)
(* that failed reallocs have lost.                                          *)
FreedAtPrompt == phase \in {"prompt", "exited"} => blocks = lost

(* Nothing but an allocation that failed or a calculation brings the shell  *)
(* down, and only the exit command ends it, the end of the input does not.  *)
EndsKnown ==
  [][/\ phase' = "crashed" => failures' > 0 \/ Calculates
     /\ phase' = "exited" /\ phase # "exited" => Head(args) = <<ExitWord>>]_vars

(* The shell comes back to its prompt: when its child is dead, and at the   *)
(* end of the input after every empty line, so that it never waits for a    *)
(* line that cannot come, and never ends either.                            *)
PromptsAgain ==
  /\ (child = "dead") ~> (phase = "prompt")
  /\ (eof /\ phase = "read" /\ line = <<>>) ~> (phase \in {"prompt", "crashed"})
=============================================================================
