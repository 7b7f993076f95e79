---------------------------- MODULE ProcessShell ----------------------------
(***************************************************************************)
(* The kernel shell's commands on the process table, from the line that is *)
(* typed to the operations of Scheduler: execute_line, cmd_policy,         *)
(* cmd_mkproc, cmd_mkthr and `sched` of shell/kernel_shell.c.  A line that *)
(* names no such command, or gives too few words, changes nothing here.    *)
(***************************************************************************)
EXTENDS SchedulerService, RoundRobin, Commands

CONSTANTS
  Lines,                \* the lines that are typed
  DefaultBurst, DefaultThreadBurst, DefaultTimes   \* 5, 3 and 5

ASSUME ProcessShellAssumption ==
  /\ Lines \subseteq Seq(UNION {ToSet(line) : line \in Lines})
  /\ {DefaultBurst, DefaultThreadBurst, DefaultTimes} \subseteq Nat \ {0}
  /\ DefaultTimes <= MaxTimes

(* The number that is the k-th word, or what stands for it.                 *)
NumberAt(argv, k, default) ==
  IF Len(argv) >= k THEN Katoi(argv[k]) ELSE default

(* The table's operations return at once when it is full.                   *)
CmdMkproc(argv) ==
  IF process_count = MaxProcesses THEN UNCHANGED vars
  ELSE CreateProcess(NumberAt(argv, 2, DefaultBurst))

CmdMkthr(argv) ==
  IF Len(argv) < 2 \/ process_count = MaxProcesses THEN UNCHANGED vars
  ELSE CreateThread(Katoi(argv[2]), NumberAt(argv, 3, DefaultThreadBurst))

CmdPolicy(argv) ==
  CASE Len(argv) < 2 -> UNCHANGED vars
    [] Len(argv) >= 2 /\ argv[2] = <<"rr">> -> SetPolicy("RR")
    [] Len(argv) >= 2 /\ argv[2] \in {<<"srtf">>, <<"psjf">>} -> SetPolicy("SRTF")
    [] OTHER -> UNCHANGED vars

(* Mistake: the loop is not limited.                                        *)
MutantTimesOf(argv) ==
  LET n == NumberAt(argv, 2, DefaultTimes) IN IF n < 1 THEN 1 ELSE n

TimesOf(argv) ==
  LET n == NumberAt(argv, 2, DefaultTimes) IN
  IF n < 1 THEN 1 ELSE IF n > MaxTimes THEN MaxTimes ELSE n

ExecuteLine(line) ==
  LET argv == Tokenize(line) IN
  CASE argv = <<>> -> UNCHANGED vars
    [] argv # <<>> /\ argv[1] = <<"mkproc">> -> CmdMkproc(argv)
    [] argv # <<>> /\ argv[1] = <<"mkthr">> -> CmdMkthr(argv)
    [] argv # <<>> /\ argv[1] = <<"policy">> -> CmdPolicy(argv)
    [] argv # <<>> /\ argv[1] = <<"sched">> -> SchedTimes(TimesOf(argv))
    [] OTHER -> UNCHANGED vars

(* A line is typed while no command runs.                                   *)
Command(line) == times = 0 /\ ExecuteLine(line) /\ RecordPolicy

ProcessShellNext ==
  \/ \E line \in Lines : Command(line)
  \/ ScheduleStep /\ RecordDispatch

ProcessShellSpec ==
  RRInit /\ [][ProcessShellNext]_rrVars /\ WF_vars(ScheduleStep)

(* Whatever is typed, a command does no more than Scheduler allows: bursts  *)
(* of at least one tick, loops of 1 to MaxTimes calls, and one operation a  *)
(* line, with blanks, signs and numbers that overflow.                      *)
CommandsAreOperations == ShellSpec

(* tokenize and calc keep no state.  What is said of them in Commands holds *)
(* for good when it holds of the state the shell starts in.                 *)
(* The words of a line are found, whatever blanks are around and between.   *)
TokenizeFindsWords == Init => FindsWords

(* `calc` reads, computes and prints exactly, as far as an int reaches.     *)
CalcIsExact == Init => IsExact
=============================================================================
