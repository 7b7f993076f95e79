--------------------------- MODULE SchedulerProof ---------------------------
(***************************************************************************)
(* Proofs about process/process.c, for every table size, every burst and   *)
(* every order of the operations of process.h; about the commands of       *)
(* kernel_shell.c in front of it, how it reads a line and what calc        *)
(* answers; and about what Round Robin and the statistics do under those   *)
(* commands.                                                               *)
(*                                                                         *)
(* No invariant of the table is inductive alone.  NoStrandedTask needs     *)
(* OneRunning (the task that holds the CPU is the only RUNNING one, so     *)
(* after demotion a live task is READY and can be dispatched), and         *)
(* OneRunning needs the range of current_index from TypeOK.  Round Robin's *)
(* bound needs whose turn comes first, and the statistics need that the    *)
(* counters have not wrapped.                                              *)
(***************************************************************************)
EXTENDS ProcessShell, Induction

IInv == TypeOK /\ OneRunning /\ NoStrandedTask /\ BurstServed

(* OneRunning slot by slot, the form the steps below use.                   *)
LEMMA RunnerIsCurrent ==
  ASSUME TypeOK, OneRunning
  PROVE  \A i \in Slots :
           process_table[i].state = "RUNNING" <=> i = current_index
<1>1. Used \subseteq Slots
  BY SchedulerAssumption DEF TypeOK, Used, Slots
<1>2. -1 \notin Slots
  BY SchedulerAssumption DEF Slots
<1>3. QED
  BY <1>1, <1>2 DEF TypeOK, OneRunning

(* What run_current_tick and demote_running leave behind: the runner, if    *)
(* any, is READY with one tick less, or UNUSED with none; no other slot     *)
(* changed and nothing is RUNNING.                                          *)
TickCharged ==
  IF current_index = -1 THEN ~Finishes /\ IndexAfterTick = -1
  ELSE LET p == process_table[current_index]
           q == DemoteRunning[current_index]
       IN  /\ p.state = "RUNNING"
           /\ IndexAfterTick = IF Finishes THEN -1 ELSE current_index
           /\ q.state = IF Finishes THEN "UNUSED" ELSE "READY"
           /\ q.burst_ticks = p.burst_ticks
           /\ q.remaining_ticks = p.remaining_ticks - 1

LEMMA TickAndDemote ==
  ASSUME IInv
  PROVE  /\ DemoteRunning \in [Slots -> PCB]
         /\ IndexAfterTick \in {-1} \cup Used
         /\ \A i \in Slots : DemoteRunning[i].state # "RUNNING"
         /\ \A i \in Slots \ {current_index} :
              DemoteRunning[i] = process_table[i]
         /\ \A i \in Used :
              LET p == DemoteRunning[i] IN
              /\ p.remaining_ticks \in 0 .. p.burst_ticks
              /\ p.state = "UNUSED" <=> p.remaining_ticks = 0
         /\ IndexAfterTick # -1 => IndexAfterTick \in Candidates
         /\ TickCharged
<1> USE SchedulerAssumption
<1>1. Used \subseteq Slots
  BY DEF IInv, TypeOK, Used, Slots
<1>2. -1 \notin Slots /\ -1 \notin Used
  BY DEF Slots, Used
<1>3. \A i \in Slots : process_table[i].state = "RUNNING" <=> i = current_index
  BY RunnerIsCurrent DEF IInv
<1>4. CASE current_index = -1
  <2>1. ~HasRunner /\ ~Finishes
    BY <1>2, <1>4 DEF HasRunner, Finishes
  <2>2. RunCurrentTick = process_table /\ IndexAfterTick = -1
    BY <1>4, <2>1 DEF RunCurrentTick, IndexAfterTick
  <2>3. DemoteRunning = process_table
    BY <1>2, <2>2 DEF DemoteRunning
  <2>4. QED
    BY <1>1, <1>2, <1>3, <1>4, <2>1, <2>2, <2>3
    DEF IInv, TypeOK, BurstServed, TickCharged
<1>5. CASE current_index # -1
  <2> DEFINE c == current_index
             p == process_table[c]
  <2>1. c \in Used /\ c \in Slots /\ p \in PCB /\ p.state = "RUNNING"
    BY <1>1, <1>3, <1>5 DEF IInv, TypeOK
  <2>2. HasRunner
    BY <2>1 DEF HasRunner
  <2>3. /\ p.burst_ticks \in Nat
        /\ p.remaining_ticks \in 1 .. p.burst_ticks
    BY <2>1 DEF IInv, BurstServed, PCB
  <2>4. CASE p.remaining_ticks = 1
    <3>1. Finishes /\ IndexAfterTick = -1
      BY <2>2, <2>4 DEF Finishes, IndexAfterTick
    <3>2. RunCurrentTick = [process_table EXCEPT
            ![c].remaining_ticks = 0, ![c].state = "UNUSED"]
      BY <2>1, <2>2, <2>4, <3>1 DEF RunCurrentTick, IInv, TypeOK
    <3>3. DemoteRunning = RunCurrentTick
      BY <1>2, <3>1 DEF DemoteRunning
    <3>4. TickCharged
      BY <1>5, <2>1, <2>4, <3>1, <3>2, <3>3 DEF TickCharged, IInv, TypeOK, PCB
    <3>5. QED
      BY <1>1, <1>3, <2>1, <2>3, <3>1, <3>2, <3>3, <3>4
      DEF IInv, TypeOK, BurstServed, PCB, ProcessState
  <2>5. CASE p.remaining_ticks # 1
    <3>1. ~Finishes /\ IndexAfterTick = c
      BY <2>3, <2>5 DEF Finishes, IndexAfterTick
    <3>2. /\ RunCurrentTick \in [Slots -> PCB]
          /\ \A i \in Slots \ {c} : RunCurrentTick[i] = process_table[i]
          /\ RunCurrentTick[c].remaining_ticks = p.remaining_ticks - 1
          /\ RunCurrentTick[c].burst_ticks = p.burst_ticks
          /\ RunCurrentTick[c].state = "RUNNING"
      <4>1. p.remaining_ticks > 0
        BY <2>3
      <4>2. RunCurrentTick = [process_table EXCEPT
              ![c].remaining_ticks = p.remaining_ticks - 1,
              ![c].state = "RUNNING"]
        BY <2>1, <2>2, <3>1, <4>1 DEF RunCurrentTick
      <4>3. process_table \in [Slots -> PCB] /\ p.remaining_ticks - 1 \in Nat
        BY <2>3 DEF IInv, TypeOK
      <4>4. QED
        BY <2>1, <4>2, <4>3 DEF PCB, ProcessState
    <3>3. DemoteRunning = [RunCurrentTick EXCEPT ![c].state = "READY"]
      BY <2>1, <3>1, <3>2 DEF DemoteRunning
    <3>4. /\ DemoteRunning \in [Slots -> PCB]
          /\ \A i \in Slots \ {c} : DemoteRunning[i] = process_table[i]
          /\ DemoteRunning[c].remaining_ticks = p.remaining_ticks - 1
          /\ DemoteRunning[c].burst_ticks = p.burst_ticks
          /\ DemoteRunning[c].state = "READY"
      BY <2>1, <3>2, <3>3 DEF PCB, ProcessState
    <3>5. TickCharged
      BY <1>5, <2>1, <3>1, <3>4 DEF TickCharged
    <3>6. QED
      BY <1>1, <1>3, <2>1, <2>3, <2>5, <3>1, <3>4, <3>5
      DEF IInv, TypeOK, BurstServed, Candidates
  <2>6. QED
    BY <2>4, <2>5
<1>6. QED
  BY <1>4, <1>5
-----------------------------------------------------------------------------
(* A new task: its slot was UNUSED, it starts READY with its whole burst.   *)
LEMMA AddTaskPreserves ==
  ASSUME IInv, NEW b \in Int, NEW t \in BOOLEAN, NEW q \in Int,
         AddTask(b, t, q)
  PROVE  IInv'
<1> USE SchedulerAssumption
<1> DEFINE n == process_count
           new == [pid |-> next_pid, state |-> "READY",
                   burst_ticks |-> AtLeastOne(b),
                   remaining_ticks |-> AtLeastOne(b),
                   is_thread |-> t, parent_pid |-> q]
<1>1. n \in Slots /\ n \in Nat /\ n \notin Used
  BY DEF IInv, TypeOK, AddTask, Slots, Used
<1>2. new \in PCB /\ AtLeastOne(b) > 0
  BY DEF IInv, TypeOK, AddTask, PCB, ProcessState, AtLeastOne
<1>3. process_table' = [process_table EXCEPT ![n] = new]
  BY DEF AddTask
<1>4. Used' = Used \cup {n} /\ Used \subseteq Slots /\ -1 \notin Slots
  BY <1>1 DEF AddTask, Used, Slots, IInv, TypeOK
<1> HIDE DEF new
<1>5. process_table' \in [Slots -> PCB]
  BY <1>2, <1>3 DEF IInv, TypeOK
<1>6. /\ process_table'[n] = new
      /\ \A i \in Slots \ {n} : process_table'[i] = process_table[i]
  BY <1>1, <1>3 DEF IInv, TypeOK
<1>7. /\ new.state = "READY"
      /\ new.burst_ticks = AtLeastOne(b)
      /\ new.remaining_ticks = AtLeastOne(b)
  BY DEF new
<1>8. AtLeastOne(b) \in Nat
  BY DEF AtLeastOne
<1>9. TypeOK'
  BY <1>4, <1>5 DEF IInv, TypeOK, AddTask, stats
<1>10. OneRunning'
  <2>1. \A i \in Slots : process_table'[i].state = "RUNNING" <=> i = current_index
    BY RunnerIsCurrent, <1>1, <1>4, <1>6, <1>7 DEF IInv, TypeOK
  <2>2. current_index' = current_index /\ current_index \in {-1} \cup Slots
    BY <1>4 DEF AddTask, IInv, TypeOK
  <2>3. QED
    BY <1>4, <2>1, <2>2 DEF OneRunning
<1>11. NoStrandedTask'
  BY <1>1, <1>4, <1>6, <1>7 DEF IInv, NoStrandedTask, Live, AddTask
<1>12. BurstServed'
  BY <1>1, <1>2, <1>4, <1>6, <1>7, <1>8 DEF IInv, BurstServed
<1>13. QED
  BY <1>9, <1>10, <1>11, <1>12 DEF IInv

(* One call of schedule().                                                  *)
LEMMA ScheduleStepPreserves ==
  ASSUME IInv, ScheduleStep
  PROVE  IInv'
<1> USE SchedulerAssumption
<1>1. Used' = Used /\ Used \subseteq Slots /\ -1 \notin Slots /\ -1 \notin Used
  BY DEF ScheduleStep, Schedule, Used, Slots, IInv, TypeOK
<1>2. /\ stat_schedule_calls' \in 0 .. CounterMod - 1
      /\ stat_completed_tasks' \in 0 .. CounterMod - 1
      /\ times' \in 0 .. MaxTimes
      /\ UNCHANGED <<process_count, next_pid, sched_policy>>
  BY DEF ScheduleStep, Schedule, Incr, IInv, TypeOK
<1>3. CASE PickNothing
  <2>1. IndexAfterTick = -1 /\ process_table' = DemoteRunning /\ current_index' = -1
    BY <1>3, TickAndDemote DEF PickNothing
  <2>2. TypeOK'
    BY <1>1, <1>2, <1>3, <2>1, TickAndDemote DEF IInv, TypeOK, PickNothing
  <2>3. OneRunning'
    BY <2>1, TickAndDemote DEF OneRunning
  <2>4. Live' = {}
    BY <1>1, <1>3, <2>1, TickAndDemote
    DEF Live, PickNothing, Candidates, PCB, ProcessState
  <2>5. NoStrandedTask'
    BY <2>4 DEF NoStrandedTask
  <2>6. BurstServed'
    BY <1>1, <2>1, TickAndDemote DEF BurstServed
  <2>7. QED
    BY <2>2, <2>3, <2>5, <2>6 DEF IInv
<1>4. ASSUME NEW i \in Candidates, PickRunning(i)
      PROVE  IInv'
  <2>1. i \in Used /\ i \in Slots /\ i # -1 /\ DemoteRunning[i].state = "READY"
    BY <1>1 DEF Candidates
  <2>2. DemoteRunning \in [Slots -> PCB]
    BY TickAndDemote
  <2>3. /\ process_table' = [DemoteRunning EXCEPT ![i].state = "RUNNING"]
        /\ current_index' = i
    BY <1>4 DEF PickRunning
  <2>4. /\ process_table' \in [Slots -> PCB]
        /\ process_table'[i].state = "RUNNING"
        /\ process_table'[i].remaining_ticks = DemoteRunning[i].remaining_ticks
        /\ process_table'[i].burst_ticks = DemoteRunning[i].burst_ticks
        /\ \A j \in Slots \ {i} : process_table'[j] = DemoteRunning[j]
    BY <2>1, <2>2, <2>3 DEF PCB, ProcessState
  <2>5. stat_context_switches' \in 0 .. CounterMod - 1
    BY <1>4 DEF PickRunning, Incr, IInv, TypeOK
  <2>6. TypeOK'
    BY <1>1, <1>2, <2>1, <2>3, <2>4, <2>5 DEF IInv, TypeOK
  <2>7. OneRunning'
    BY <2>1, <2>3, <2>4, TickAndDemote DEF OneRunning
  <2>8. NoStrandedTask'
    BY <2>1, <2>3 DEF NoStrandedTask
  <2>9. BurstServed'
    BY <1>1, <2>1, <2>4, TickAndDemote DEF BurstServed
  <2>10. QED
    BY <2>6, <2>7, <2>8, <2>9 DEF IInv
<1>5. QED
  BY <1>3, <1>4 DEF ScheduleStep, Schedule

(* Operations that leave every task alone, or clear the whole table.        *)
LEMMA OtherStepsPreserve ==
  ASSUME IInv,
         \/ \E n \in 1 .. MaxTimes : SchedTimes(n)
         \/ \E p \in SchedPolicy : SetPolicy(p)
         \/ ResetAll
         \/ StatsReset
         \/ UNCHANGED vars
  PROVE  IInv'
<1> USE SchedulerAssumption
<1>1. ASSUME NEW n \in 1 .. MaxTimes, SchedTimes(n)
      PROVE  IInv'
  BY <1>1 DEF SchedTimes, stats, IInv, TypeOK, OneRunning, NoStrandedTask,
              BurstServed, Live, Used
<1>2. ASSUME NEW p \in SchedPolicy, SetPolicy(p)
      PROVE  IInv'
  BY <1>2 DEF SetPolicy, stats, IInv, TypeOK, OneRunning, NoStrandedTask,
              BurstServed, Live, Used
<1>3. CASE ResetAll
  <2>1. NoTask \in PCB /\ NoTask.state # "RUNNING"
    BY DEF NoTask, PCB, ProcessState
  <2>2. Used' = {}
    BY <1>3 DEF ResetAll, Used
  <2>3. TypeOK'
    BY <1>3, <2>1 DEF ResetAll, stats, IInv, TypeOK
  <2>4. QED
    BY <1>3, <2>1, <2>2, <2>3
    DEF ResetAll, IInv, OneRunning, NoStrandedTask, BurstServed, Live
<1>4. CASE StatsReset
  BY <1>4 DEF StatsReset, IInv, TypeOK, OneRunning, NoStrandedTask,
              BurstServed, Live, Used
<1>5. CASE UNCHANGED vars
  BY <1>5 DEF vars, stats, IInv, TypeOK, OneRunning, NoStrandedTask,
              BurstServed, Live, Used
<1>6. QED
  BY <1>1, <1>2, <1>3, <1>4, <1>5

(* At boot the table is empty.                                              *)
LEMMA InitIInv == Init => IInv
<1> USE SchedulerAssumption
<1> SUFFICES ASSUME Init PROVE IInv
  OBVIOUS
<1>1. NoTask \in PCB /\ NoTask.state # "RUNNING"
  BY DEF NoTask, PCB, ProcessState
<1>2. Used = {}
  BY DEF Init, Used
<1>3. TypeOK
  BY <1>1 DEF Init, TypeOK, SchedPolicy
<1>4. QED
  BY <1>1, <1>2, <1>3
  DEF Init, IInv, OneRunning, NoStrandedTask, BurstServed, Live

LEMMA NextPreservesIInv == IInv /\ [Next]_vars => IInv'
<1> SUFFICES ASSUME IInv, [Next]_vars PROVE IInv'
  OBVIOUS
<1>1. ASSUME NEW b \in Bursts, CreateProcess(b) PROVE IInv'
  <2>1. AddTask(b, FALSE, 0)
    BY <1>1, Zenon DEF CreateProcess
  <2>2. b \in Int /\ 0 \in Int
    BY SchedulerAssumption
  <2>3. QED
    BY <2>1, <2>2, AddTaskPreserves, Zenon
<1>2. ASSUME NEW p \in ParentPids, NEW b \in Bursts, CreateThread(p, b)
      PROVE  IInv'
  <2>1. AddTask(b, TRUE, p)
    BY <1>2, Zenon DEF CreateThread
  <2>2. b \in Int /\ p \in Int
    BY SchedulerAssumption
  <2>3. QED
    BY <2>1, <2>2, AddTaskPreserves, Zenon
<1>3. CASE ScheduleStep
  BY <1>3, ScheduleStepPreserves
<1>4. QED
  BY <1>1, <1>2, <1>3, OtherStepsPreserve DEF Next, ShellNext

(* The inductive invariant holds throughout every behaviour of the process   *)
(* table's operations (process.c).                                          *)
THEOREM SpecIInv == Spec => []IInv
  BY InitIInv, NextPreservesIInv, PTL DEF Spec

(* Each variable of process.c stays in the range its C type and use give it. *)
THEOREM SpecTypeOK == Spec => []TypeOK
<1>1. IInv => TypeOK
  BY DEF IInv
<1>2. QED
  BY <1>1, SpecIInv, PTL

(* The state column and current_index agree: at most one RUNNING task.       *)
THEOREM SpecOneRunning == Spec => []OneRunning
<1>1. IInv => OneRunning
  BY DEF IInv
<1>2. QED
  BY <1>1, SpecIInv, PTL

(* schedule() never leaves the CPU idle while a started task waits.          *)
THEOREM SpecNoStrandedTask == Spec => []NoStrandedTask
<1>1. IInv => NoStrandedTask
  BY DEF IInv
<1>2. QED
  BY <1>1, SpecIInv, PTL

(* A task is retired at the very tick that uses up its burst.                *)
THEOREM SpecBurstServed == Spec => []BurstServed
<1>1. IInv => BurstServed
  BY DEF IInv
<1>2. QED
  BY <1>1, SpecIInv, PTL

(* The dispatch of schedule_srtf, whatever the tick and the demotion before  *)
(* it did to the table.                                                      *)
LEMMA DispatchIsShortest ==
  ASSUME IInv, ScheduleStep, sched_policy = "SRTF",
         NEW i \in Used, process_table'[i].state = "READY"
  PROVE  LET p == process_table'[i]
             r == process_table'[current_index'] IN
         \/ r.remaining_ticks < p.remaining_ticks
         \/ r.remaining_ticks = p.remaining_ticks /\ r.pid < p.pid
<1> USE SchedulerAssumption
<1>1. Used \subseteq Slots
  BY SMTT(30) DEF Used, Slots, IInv, TypeOK
<1>2. ASSUME PickNothing
      PROVE  FALSE
  BY <1>1, <1>2, TickAndDemote DEF PickNothing, Candidates
<1>3. ASSUME NEW k \in Candidates, SelectSRTF(k), PickRunning(k)
      PROVE  LET p == process_table'[i]
                 r == process_table'[k] IN
             \/ r.remaining_ticks < p.remaining_ticks
             \/ r.remaining_ticks = p.remaining_ticks /\ r.pid < p.pid
  <2>1. k \in Slots /\ DemoteRunning \in [Slots -> PCB]
    BY <1>1, TickAndDemote DEF Candidates
  <2>2. process_table' = [DemoteRunning EXCEPT ![k].state = "RUNNING"]
    BY <1>3 DEF PickRunning
  <2>3. /\ process_table'[k].state = "RUNNING"
        /\ process_table'[k].remaining_ticks = DemoteRunning[k].remaining_ticks
        /\ process_table'[k].pid = DemoteRunning[k].pid
        /\ \A j \in Slots \ {k} : process_table'[j] = DemoteRunning[j]
    BY <2>1, <2>2 DEF PCB, ProcessState
  <2>4. i # k /\ i \in Candidates
    BY <1>1, <2>3 DEF Candidates
  <2>5. ShorterJob(k, i)
    BY <1>3, <2>4 DEF SelectSRTF
  <2>6. QED
    BY <1>1, <2>3, <2>4, <2>5 DEF ShorterJob
<1>4. PICK k \in Candidates : Selected(k) /\ PickRunning(k)
  BY <1>2 DEF ScheduleStep, Schedule
<1>5. SelectSRTF(k) /\ current_index' = k
  BY <1>4 DEF Selected, PickRunning
<1>6. QED
  BY <1>3, <1>4, <1>5

(* Under SRTF every schedule() dispatches a live task with the least         *)
(* remaining time, the lowest pid among equals.                              *)
THEOREM SpecSRTF == Spec => SRTFDispatchesShortest
<1>1. IInv /\ [Next]_vars =>
        [ScheduleStep /\ sched_policy = "SRTF" =>
           \A i \in Used :
             process_table'[i].state = "READY" =>
               LET p == process_table'[i]
                   r == process_table'[current_index'] IN
               \/ r.remaining_ticks < p.remaining_ticks
               \/ r.remaining_ticks = p.remaining_ticks /\ r.pid < p.pid]_vars
  BY DispatchIsShortest
<1>2. QED
  BY <1>1, SpecIInv, PTL DEF Spec, SRTFDispatchesShortest
-----------------------------------------------------------------------------
(* The shell's commands (kernel_shell.c).  tokenize: the scan of a line     *)
(* keeps words of one character at least, and never more than there is room *)
(* for.                                                                     *)
Words(C) == Seq(C) \ {<<>>}
Scans(C) == {t \in [argv : Seq(Words(C)), open : BOOLEAN] :
               Len(t.argv) <= MaxTokens /\ (t.open => t.argv # <<>>)}
ScanStart == [argv |-> <<>>, open |-> FALSE]
ScanStep(C, line) ==
  [p \in Scans(C) \X (1 .. Len(line)) |-> Scan(p[1], line[p[2]])]

LEMMA ScanIsScan ==
  ASSUME NEW C, NEW t \in Scans(C), NEW c \in C
  PROVE  Scan(t, c) \in Scans(C)
<1>1. /\ t.argv \in Seq(Words(C)) /\ t.open \in BOOLEAN
      /\ t = [argv |-> t.argv, open |-> t.open]
      /\ Len(t.argv) <= MaxTokens /\ Len(t.argv) \in Nat /\ MaxTokens \in Nat \ {0}
  BY CommandsAssumption DEF Scans
<1>2. CASE c = Space
  <2>1. Scan(t, c) = [argv |-> t.argv, open |-> FALSE]
    BY <1>1, <1>2 DEF Scan
  <2>2. QED
    BY <1>1, <2>1 DEF Scans
<1>3. CASE c # Space /\ t.open
  <2>1. t.argv # <<>> /\ Len(t.argv) \in DOMAIN t.argv
    BY <1>1, <1>3 DEF Scans
  <2> DEFINE n == Len(t.argv)
  <2>2. Append(t.argv[n], c) \in Words(C)
    BY <1>1, <2>1, AppendProperties, SMTT(30) DEF Words
  <2>3. [t.argv EXCEPT ![n] = Append(t.argv[n], c)] \in Seq(Words(C))
    BY <1>1, <2>1, <2>2
  <2>4. Scan(t, c) = [argv |-> [t.argv EXCEPT ![n] = Append(t.argv[n], c)],
                      open |-> t.open]
    BY <1>1, <1>3 DEF Scan
  <2>5. Len([t.argv EXCEPT ![n] = Append(t.argv[n], c)]) = n
    BY <1>1, <2>1
  <2>6. QED
    BY <1>1, <2>1, <2>3, <2>4, <2>5 DEF Scans
<1>4. CASE c # Space /\ ~t.open
  <2>1. CASE Len(t.argv) < MaxTokens
    <3>1. Scan(t, c) = [argv |-> Append(t.argv, <<c>>), open |-> TRUE]
      BY <1>4, <2>1 DEF Scan
    <3>2. <<c>> \in Words(C)
      BY DEF Words
    <3>3. /\ Append(t.argv, <<c>>) \in Seq(Words(C))
          /\ Len(Append(t.argv, <<c>>)) = Len(t.argv) + 1
      BY <1>1, <3>2, AppendProperties
    <3>4. QED
      BY <1>1, <2>1, <3>1, <3>3 DEF Scans
  <2>2. CASE ~(Len(t.argv) < MaxTokens)
    BY <1>4, <2>2 DEF Scan
  <2>3. QED
    BY <2>1, <2>2
<1>5. QED
  BY <1>1, <1>2, <1>3, <1>4

LEMMA TokenizeIsFold ==
  ASSUME NEW C, NEW line \in Seq(C)
  PROVE  \E f : /\ IsSeqFold(f, Len(line), Scans(C), ScanStart, ScanStep(C, line))
               /\ Tokenize(line) = f[1 .. Len(line)].argv
<1> DEFINE Eqn(g) == g = [s \in SUBSET DOMAIN line |->
             IF s = {} THEN ScanStart
             ELSE Scan(g[s \ {Max(s)}], line[Max(s)])]
<1>1. PICK n \in Nat : n = Len(line) /\ DOMAIN line = 1 .. n
  OBVIOUS
<1>2. ScanStart \in Scans(C)
  BY CommandsAssumption DEF ScanStart, Scans
<1>3. ScanStep(C, line) \in [Scans(C) \X (1 .. n) -> Scans(C)]
  <2>1. ASSUME NEW p \in Scans(C) \X (1 .. n)
        PROVE  Scan(p[1], line[p[2]]) \in Scans(C)
    <3>1. p[1] \in Scans(C) /\ line[p[2]] \in C
      BY <1>1
    <3>2. QED
      BY <3>1, ScanIsScan, Zenon
  <2>2. QED
    BY <1>1, <2>1, Zenon DEF ScanStep
<1>4. PICK f : IsSeqFold(f, n, Scans(C), ScanStart, ScanStep(C, line))
  BY <1>2, <1>3, SeqFoldExists, Zenon
<1>5. ASSUME NEW s \in SUBSET (1 .. n), s # {}
      PROVE  f[s] = Scan(f[s \ {Max(s)}], line[Max(s)])
  <2>1. Max(s) \in 1 .. n /\ s \ {Max(s)} \in SUBSET (1 .. n)
    BY <1>5, MaxOfIndices
  <2>2. f[s \ {Max(s)}] \in Scans(C)
    BY <1>4, <2>1 DEF IsSeqFold
  <2>3. f[s] = ScanStep(C, line)[<<f[s \ {Max(s)}], Max(s)>>]
    BY <1>4, <1>5, Zenon DEF IsSeqFold
  <2>4. QED
    BY <1>1, <2>1, <2>2, <2>3 DEF ScanStep
<1>6. Eqn(f)
  BY <1>1, <1>4, <1>5 DEF IsSeqFold
<1>7. \E g : Eqn(g) /\ Tokenize(line) = g[DOMAIN line].argv
  <2> DEFINE g == CHOOSE h : Eqn(h)
  <2>1. Eqn(g)
    BY <1>6, Zenon
  <2>2. Tokenize(line) = g[DOMAIN line].argv
    BY Zenon DEF Tokenize, FoldLeft, MapThenFoldSet, ScanStart
  <2>3. QED
    BY <2>1, <2>2, Zenon
<1>8. PICK F : Eqn(F) /\ Tokenize(line) = F[DOMAIN line].argv
  BY <1>7, Zenon
<1>9. F[{}] = ScanStart
  BY <1>1, <1>8
<1>10. ASSUME NEW s \in SUBSET (1 .. n), s # {}, F[s \ {Max(s)}] \in Scans(C)
       PROVE  F[s] = ScanStep(C, line)[<<F[s \ {Max(s)}], Max(s)>>]
  <2>1. Max(s) \in 1 .. n
    BY <1>10, MaxOfIndices
  <2>2. F[s] = Scan(F[s \ {Max(s)}], line[Max(s)])
    BY <1>1, <1>8, <1>10
  <2>3. QED
    BY <1>1, <1>10, <2>1, <2>2 DEF ScanStep
<1>11. SolvesSeqFold(F, n, Scans(C), ScanStart, ScanStep(C, line))
  BY <1>9, <1>10 DEF SolvesSeqFold
<1>12. F[1 .. n] = f[1 .. n]
  BY <1>4, <1>11, SeqFoldUnique
<1>13. QED
  BY <1>1, <1>4, <1>8, <1>12

(* Whatever is typed, tokenize gives words, MaxTokens of them at most.      *)
LEMMA TokenizeGivesWords ==
  ASSUME NEW C, NEW line \in Seq(C)
  PROVE  /\ Tokenize(line) \in Seq(Words(C))
         /\ Len(Tokenize(line)) <= MaxTokens
<1>1. PICK f : /\ IsSeqFold(f, Len(line), Scans(C), ScanStart, ScanStep(C, line))
               /\ Tokenize(line) = f[1 .. Len(line)].argv
  BY TokenizeIsFold, Zenon
<1>2. f[1 .. Len(line)] \in Scans(C)
  BY <1>1 DEF IsSeqFold
<1>3. QED
  BY <1>1, <1>2 DEF Scans
-----------------------------------------------------------------------------
(* The places of the words that begin in the first b characters of a line,  *)
(* as what the scan needs to know of them.                                  *)
Starts(line) == WordStarts(line, {Space})
NoSpace(line, i, j) == \A x \in i .. j : line[x] # Space
Counts(line, P) ==
  /\ P \in [0 .. Len(line) -> Nat]
  /\ \A b \in 0 .. Len(line) : P[b] = Cardinality(UpTo(Starts(line), b))
CountsWords(line, P) ==
  /\ Counts(line, P)
  /\ P[0] = 0
  /\ \A i \in Starts(line) : i \in 1 .. Len(line)
  /\ \A i \in Starts(line) : \A b \in 0 .. Len(line) : i <= b => 1 <= P[i] /\ P[i] <= P[b]
  /\ \A i, j \in Starts(line) : i < j => P[i] < P[j]
  /\ \A b \in 0 .. Len(line) : b < Len(line) =>
       P[b + 1] = IF b + 1 \in Starts(line) THEN P[b] + 1 ELSE P[b]
  /\ \A i \in Starts(line) : \A b \in 0 .. Len(line) :
       i <= b /\ NoSpace(line, i, b) => P[b] = P[i]

LEMMA WordsAreCounted ==
  ASSUME NEW C, NEW line \in Seq(C)
  PROVE  \E P : CountsWords(line, P)
<1>1. PICK n \in Nat : n = Len(line)
  OBVIOUS
<1>2. PICK W : W = Starts(line)
  OBVIOUS
<1>3. /\ W \subseteq 1 .. n
      /\ \A i \in 1 .. n : i \in W <=> line[i] # Space /\ (i = 1 \/ line[i - 1] = Space)
  BY <1>1, <1>2, WordStartsAreIndices DEF Starts
<1>4. W \subseteq Nat /\ IsFiniteSet(W) /\ \A j \in W : j \in Nat /\ j \in 1 .. n
  <2>1. IsFiniteSet(1 .. n)
    BY FS_Interval
  <2>2. QED
    <3>1. W \in SUBSET (1 .. n) /\ \A j \in 1 .. n : j \in Nat
      BY <1>3
    <3>2. IsFiniteSet(W)
      BY <2>1, <3>1, FS_Subset
    <3>3. QED
      BY <3>1, <3>2
<1>5. PICK P : P = [b \in 0 .. n |-> Cardinality(UpTo(W, b))]
  OBVIOUS
<1>6. \A b \in 0 .. n : P[b] = Cardinality(UpTo(W, b)) /\ P[b] \in Nat
  BY <1>4, <1>5, UpToIsFinite
<1>7. P \in [0 .. n -> Nat]
  BY <1>5, <1>6
<1>8. P[0] = 0
  <2>1. \A j \in W : ~(j <= 0)
    BY <1>4
  <2>2. UpTo(W, 0) = {}
    BY <2>1 DEF UpTo
  <2>3. QED
    <3>1. Cardinality({}) = 0 /\ 0 \in 0 .. n
      BY FS_EmptySet
    <3>2. QED
      BY <1>6, <2>2, <3>1
<1>9. ASSUME NEW i \in W, NEW b \in 0 .. n, i <= b
      PROVE  1 <= P[i] /\ P[i] <= P[b]
  <2>1. i \in UpTo(W, b) /\ b \in Nat /\ i \in 0 .. n
    BY <1>4, <1>9 DEF UpTo
  <2>2. Cardinality(UpTo(W, i)) \in 1 .. Cardinality(UpTo(W, b))
    BY <1>4, <2>1, UpToEarlier
  <2>3. QED
    BY <1>6, <2>1, <2>2
<1>10. ASSUME NEW i \in W, NEW j \in W, i < j
      PROVE  P[i] < P[j]
  <2>1. Cardinality(UpTo(W, i)) < Cardinality(UpTo(W, j))
    BY <1>4, <1>10, UpToGrows
  <2>2. i \in 0 .. n /\ j \in 0 .. n
    BY <1>4
  <2>3. QED
    BY <1>6, <2>1, <2>2
<1>11. ASSUME NEW b \in 0 .. n, NEW c \in 0 .. n, b <= c, \A j \in W : ~(b < j /\ j <= c)
       PROVE  P[c] = P[b]
  <2>1. UpTo(W, c) = UpTo(W, b)
    <3>1. b \in Nat /\ c \in Nat
      OBVIOUS
    <3>2. QED
      BY <1>4, <1>11, <3>1, UpToSame
  <2>2. QED
    BY <1>6, <2>1
<1>12. ASSUME NEW b \in 0 .. n, b < n
       PROVE  P[b + 1] = IF b + 1 \in W THEN P[b] + 1 ELSE P[b]
  <2>1. PICK c \in 0 .. n : c = b + 1
    BY <1>1, <1>12
  <2>2. b \in Nat /\ c \in Nat
    OBVIOUS
  <2>3. CASE c \in W
    <3>1. OneMore(W, b, c, c)
      BY <1>4, <2>1, <2>3 DEF OneMore
    <3>2. Cardinality(UpTo(W, c)) = Cardinality(UpTo(W, b)) + 1
      BY <1>4, <2>2, <3>1, UpToNext
    <3>3. QED
      BY <1>6, <2>1, <2>3, <3>2
  <2>4. CASE c \notin W
    <3>1. \A j \in W : ~(b < j /\ j <= c)
      BY <1>4, <2>1, <2>4
    <3>2. QED
      BY <1>1, <1>11, <2>1, <2>4, <3>1
  <2>5. QED
    BY <2>1, <2>3, <2>4
<1>13. ASSUME NEW i \in W, NEW b \in 0 .. n, i <= b, NoSpace(line, i, b)
       PROVE  P[b] = P[i]
  <2>1. ASSUME NEW j \in W, i < j, j <= b
        PROVE  FALSE
    <3>1. j \in 1 .. n /\ i \in 1 .. n /\ j - 1 \in i .. b /\ j # 1
      BY <1>4, <2>1
    <3>2. line[j - 1] # Space
      BY <1>1, <1>13, <3>1 DEF NoSpace
    <3>3. QED
      BY <1>3, <3>1, <3>2
  <2>2. i \in 0 .. n
    BY <1>4
  <2>3. QED
    BY <1>1, <1>11, <1>13, <2>1, <2>2
<1>14. Counts(line, P)
  BY <1>1, <1>2, <1>6, <1>7 DEF Counts
<1>15. \A i \in W : \A b \in 0 .. n : i <= b => 1 <= P[i] /\ P[i] <= P[b]
  BY <1>9
<1>16. \A i, j \in W : i < j => P[i] < P[j]
  BY <1>10
<1>17. \A b \in 0 .. n : b < n => P[b + 1] = IF b + 1 \in W THEN P[b] + 1 ELSE P[b]
  BY <1>1, <1>12
<1>18. \A i \in W : \A b \in 0 .. n : i <= b /\ NoSpace(line, i, b) => P[b] = P[i]
  BY <1>1, <1>13
<1>19. CountsWords(line, P)
  BY <1>1, <1>2, <1>4, <1>8, <1>14, <1>15, <1>16, <1>17, <1>18, Zenon DEF CountsWords
<1>20. QED
  BY <1>1, <1>19

(* Inside a word there is a last place where a word began.                  *)
LEMMA WordHasStart ==
  ASSUME NEW C, NEW line \in Seq(C)
  PROVE  \A k \in 1 .. Len(line) : line[k] # Space =>
           \E i \in Starts(line) : i <= k /\ NoSpace(line, i, k)
<1>1. PICK n \in Nat : n = Len(line)
  OBVIOUS
<1>2. \A i \in 1 .. n :
        i \in Starts(line) <=> line[i] # Space /\ (i = 1 \/ line[i - 1] = Space)
  BY <1>1, WordStartsAreIndices DEF Starts
<1> DEFINE S == {k \in Nat : k \in 1 .. n /\ line[k] # Space =>
                    \E i \in Starts(line) : i <= k /\ NoSpace(line, i, k)}
<1>3. 0 \in S
  OBVIOUS
<1>4. ASSUME NEW k \in Nat, k \in S
      PROVE  k + 1 \in S
  <2>1. SUFFICES ASSUME k + 1 \in 1 .. n, line[k + 1] # Space
                 PROVE  \E i \in Starts(line) : i <= k + 1 /\ NoSpace(line, i, k + 1)
    OBVIOUS
  <2>2. CASE k + 1 \in Starts(line)
    <3>1. \A x \in k + 1 .. k + 1 : x = k + 1
      OBVIOUS
    <3>2. k + 1 <= k + 1 /\ NoSpace(line, k + 1, k + 1)
      BY <2>1, <3>1 DEF NoSpace
    <3>3. QED
      BY <2>2, <3>2
  <2>3. CASE k + 1 \notin Starts(line)
    <3>1. k \in 1 .. n /\ line[k] # Space
      <4>1. k + 1 # 1 /\ line[(k + 1) - 1] # Space
        BY <1>2, <2>1, <2>3
      <4>2. k \in 1 .. n /\ (k + 1) - 1 = k
        BY <2>1, <4>1
      <4>3. QED
        BY <4>1, <4>2
    <3>2. PICK i \in Starts(line) : i <= k /\ NoSpace(line, i, k)
      BY <1>4, <3>1
    <3>3. i \in Nat
      BY <1>1, WordStartsAreIndices DEF Starts
    <3>4. \A x \in i .. k + 1 : x \in i .. k \/ x = k + 1
      BY <3>3
    <3>5. i <= k + 1 /\ NoSpace(line, i, k + 1)
      BY <2>1, <3>2, <3>3, <3>4 DEF NoSpace
    <3>6. QED
      BY <3>5
  <2>4. QED
    BY <2>2, <2>3
<1> HIDE DEF S
<1>5. \A k \in Nat : k \in S
  BY <1>3, <1>4, InductionOnNat
<1>6. QED
  BY <1>1, <1>5 DEF S

LEMMA PartGrows ==
  ASSUME NEW C, NEW line \in Seq(C), NEW i \in Nat \ {0}, NEW k \in Nat,
         i <= k + 1, k < Len(line)
  PROVE  Append(SubSeq(line, i, k), line[k + 1]) = SubSeq(line, i, k + 1)
<1>1. PICK n \in Nat, c \in C : n = Len(line) /\ c = line[k + 1]
  <2>1. k + 1 \in 1 .. Len(line)
    OBVIOUS
  <2>2. QED
    BY <2>1
<1>2. \A x \in i .. k + 1 : line[x] \in C
  <2>1. \A x \in i .. k + 1 : x \in 1 .. Len(line)
    OBVIOUS
  <2>2. QED
    BY <2>1
<1>3. PICK u \in Seq(C) : /\ u = SubSeq(line, i, k) /\ Len(u) = k + 1 - i
                          /\ \A x \in 1 .. k + 1 - i : u[x] = line[i + x - 1]
  <2>1. \A x \in i .. k : line[x] \in C
    BY <1>2
  <2>2. /\ SubSeq(line, i, k) \in Seq(C)
        /\ Len(SubSeq(line, i, k)) = IF i <= k THEN k - i + 1 ELSE 0
        /\ \A x \in 1 .. k - i + 1 : SubSeq(line, i, k)[x] = line[i + x - 1]
    BY <2>1, SubSeqProperties
  <2>3. PICK u \in Seq(C) : u = SubSeq(line, i, k)
    BY <2>2
  <2>4. k + 1 - i = k - i + 1 /\ (~(i <= k) => k + 1 - i = 0)
    OBVIOUS
  <2>5. QED
    BY <2>2, <2>3, <2>4
<1>4. PICK v \in Seq(C) : /\ v = SubSeq(line, i, k + 1) /\ Len(v) = k + 2 - i
                          /\ \A x \in 1 .. k + 2 - i : v[x] = line[i + x - 1]
  <2>1. k + 1 \in Int /\ i \in Int
    OBVIOUS
  <2>2. /\ SubSeq(line, i, k + 1) \in Seq(C)
        /\ Len(SubSeq(line, i, k + 1)) = IF i <= k + 1 THEN (k + 1) - i + 1 ELSE 0
        /\ \A x \in 1 .. (k + 1) - i + 1 : SubSeq(line, i, k + 1)[x] = line[i + x - 1]
    BY <1>2, <2>1, SubSeqProperties
  <2>3. PICK v \in Seq(C) : v = SubSeq(line, i, k + 1)
    BY <2>2
  <2>4. (k + 1) - i + 1 = k + 2 - i
    OBVIOUS
  <2>5. QED
    BY <2>2, <2>3, <2>4
<1>5. /\ Append(u, c) \in Seq(C) /\ Len(Append(u, c)) = k + 2 - i
      /\ Append(u, c)[k + 2 - i] = c
      /\ \A x \in 1 .. k + 1 - i : Append(u, c)[x] = u[x]
  <2>1. /\ Append(u, c) \in Seq(C) /\ Len(Append(u, c)) = Len(u) + 1
        /\ Append(u, c)[Len(u) + 1] = c
        /\ \A x \in 1 .. Len(u) : Append(u, c)[x] = u[x]
    BY AppendProperties
  <2>2. Len(u) + 1 = k + 2 - i
    BY <1>3
  <2>3. QED
    BY <1>3, <2>1, <2>2
<1>6. PICK w \in Seq(C) : w = Append(u, c)
  BY <1>5
<1>7. ASSUME NEW x \in 1 .. Len(v)
      PROVE  w[x] = v[x]
  <2>1. x \in 1 .. k + 2 - i
    BY <1>4
  <2>2. v[x] = line[i + x - 1]
    BY <1>4, <2>1
  <2>3. CASE x = k + 2 - i
    <3>1. i + x - 1 = k + 1
      BY <2>3
    <3>2. QED
      BY <1>1, <1>5, <1>6, <2>2, <2>3, <3>1
  <2>4. CASE x # k + 2 - i
    <3>1. x \in 1 .. k + 1 - i
      BY <2>1, <2>4
    <3>2. QED
      BY <1>3, <1>5, <1>6, <2>2, <3>1
  <2>5. QED
    BY <2>3, <2>4
<1>8. Len(w) = Len(v)
  BY <1>4, <1>5, <1>6
<1>9. w = v
  BY <1>7, <1>8, SeqEqual
<1>10. QED
  BY <1>1, <1>3, <1>4, <1>6, <1>9

(* The word that begins at i, as far as it is within the first k characters.*)
WordIn(line, w, i, k) ==
  \E e \in Nat : /\ i < e /\ e <= k + 1
                 /\ w = SubSeq(line, i, e - 1) /\ NoSpace(line, i, e - 1)
                 /\ e = k + 1 \/ line[e] = Space

LEMMA WordStays ==
  ASSUME NEW line, NEW w, NEW i \in Nat, NEW k \in Nat, WordIn(line, w, i, k),
         line[k + 1] = Space \/ ~NoSpace(line, i, k)
  PROVE  WordIn(line, w, i, k + 1)
<1>1. PICK e \in Nat : /\ i < e /\ e <= k + 1
                       /\ w = SubSeq(line, i, e - 1) /\ NoSpace(line, i, e - 1)
                       /\ e = k + 1 \/ line[e] = Space
  BY DEF WordIn
<1>2. line[e] = Space
  <2>1. e = k + 1 => e - 1 = k
    OBVIOUS
  <2>2. QED
    BY <1>1, <2>1
<1>3. e <= (k + 1) + 1
  BY <1>1
<1>4. QED
  BY <1>1, <1>2, <1>3 DEF WordIn

LEMMA WordGrows ==
  ASSUME NEW C, NEW line \in Seq(C), NEW i \in Nat \ {0}, NEW k \in Nat,
         i <= k + 1, k < Len(line), NoSpace(line, i, k), line[k + 1] # Space
  PROVE  WordIn(line, Append(SubSeq(line, i, k), line[k + 1]), i, k + 1)
<1>1. PICK e \in Nat : e = k + 2 /\ e - 1 = k + 1 /\ e = (k + 1) + 1 /\ i < e
  <2>1. k + 2 \in Nat /\ (k + 2) - 1 = k + 1 /\ k + 2 = (k + 1) + 1 /\ i < k + 2
    OBVIOUS
  <2>2. QED
    BY <2>1
<1>2. NoSpace(line, i, k + 1)
  <2>1. \A x \in i .. k + 1 : x \in i .. k \/ x = k + 1
    OBVIOUS
  <2>2. QED
    BY <2>1 DEF NoSpace
<1>3. Append(SubSeq(line, i, k), line[k + 1]) = SubSeq(line, i, k + 1)
  BY PartGrows
<1>4. QED
  BY <1>1, <1>2, <1>3, SMTT(30) DEF WordIn

(* What the scan has found in the first k characters.                       *)
Found(line, P, k, t) ==
  /\ Len(t.argv) = IF P[k] <= MaxTokens THEN P[k] ELSE MaxTokens
  /\ t.open <=> k # 0 /\ line[k] # Space /\ P[k] <= MaxTokens
  /\ \A i \in Starts(line) :
       i <= k /\ P[i] <= MaxTokens => WordIn(line, t.argv[P[i]], i, k)

LEMMA ScanFinds ==
  ASSUME NEW C, NEW line \in Seq(C), NEW P, CountsWords(line, P),
         NEW k \in Nat, k < Len(line), NEW t \in Scans(C), Found(line, P, k, t)
  PROVE  Found(line, P, k + 1, Scan(t, line[k + 1]))
<1>1. line[k + 1] \in C
  <2>1. k + 1 \in 1 .. Len(line)
    OBVIOUS
  <2>2. QED
    BY <2>1
<1>2. PICK W : W = Starts(line)
  OBVIOUS
<1>3. PICK n \in Nat, c \in C : n = Len(line) /\ W = Starts(line) /\ c = line[k + 1]
  BY <1>1, <1>2
<1>4. /\ k \in 0 .. n /\ k + 1 \in 0 .. n /\ k + 1 \in 1 .. n /\ k < n
      /\ (k + 1) - 1 = k /\ (k + 1 = 1 <=> k = 0)
  BY <1>3
<1>5. k + 1 \in W <=> c # Space /\ (k = 0 \/ line[k] = Space)
  <2>1. k + 1 \in W <=> line[k + 1] # Space /\ (k + 1 = 1 \/ line[(k + 1) - 1] = Space)
    BY <1>3, <1>4, WordStartsAreIndices DEF Starts
  <2>2. QED
    BY <1>3, <1>4, <2>1
<1>6. P \in [0 .. n -> Nat] /\ MaxTokens \in Nat \ {0}
  BY <1>3, CommandsAssumption DEF CountsWords, Counts
<1>7. /\ \A i \in W : i \in 1 .. n /\ 1 <= P[i]
      /\ \A i \in W : \A b \in 0 .. n : i <= b => P[i] <= P[b]
      /\ \A i, j \in W : i < j => P[i] < P[j]
      /\ P[k + 1] = IF k + 1 \in W THEN P[k] + 1 ELSE P[k]
      /\ \A i \in W : i <= k /\ NoSpace(line, i, k) => P[k] = P[i]
  <2>1. \A i \in W : i \in 1 .. n
    BY <1>3 DEF CountsWords
  <2>2. \A i \in W : \A b \in 0 .. n : i <= b => 1 <= P[i] /\ P[i] <= P[b]
    BY <1>3, Zenon DEF CountsWords
  <2>3. \A i \in W : 1 <= P[i]
    <3>1. \A i \in W : i \in 0 .. n /\ i <= i
      BY <2>1
    <3>2. QED
      BY <2>2, <3>1
  <2>4. \A i, j \in W : i < j => P[i] < P[j]
    BY <1>3, Zenon DEF CountsWords
  <2>5. P[k + 1] = IF k + 1 \in W THEN P[k] + 1 ELSE P[k]
    BY <1>3, <1>4, Zenon DEF CountsWords
  <2>6. \A i \in W : i <= k /\ NoSpace(line, i, k) => P[k] = P[i]
    BY <1>3, <1>4, Zenon DEF CountsWords
  <2>7. QED
    BY <2>1, <2>2, <2>3, <2>4, <2>5, <2>6
<1>8. PICK argv \in Seq(Words(C)), open \in BOOLEAN, l \in Nat :
        /\ argv = t.argv /\ open = t.open /\ l = Len(argv)
        /\ t = [argv |-> argv, open |-> open] /\ DOMAIN argv = 1 .. l
  BY DEF Scans
<1>9. /\ l = IF P[k] <= MaxTokens THEN P[k] ELSE MaxTokens
      /\ open <=> k # 0 /\ line[k] # Space /\ P[k] <= MaxTokens
      /\ \A i \in W : i <= k /\ P[i] <= MaxTokens => WordIn(line, argv[P[i]], i, k)
  BY <1>3, <1>8, Zenon DEF Found
<1>10. ASSUME NEW more \in Seq(Words(C)), NEW now \in BOOLEAN,
             Scan(t, c) = [argv |-> more, open |-> now],
             Len(more) = IF P[k + 1] <= MaxTokens THEN P[k + 1] ELSE MaxTokens,
             now <=> c # Space /\ P[k + 1] <= MaxTokens,
             \A i \in W : i <= k + 1 /\ P[i] <= MaxTokens =>
               WordIn(line, more[P[i]], i, k + 1)
      PROVE  Found(line, P, k + 1, Scan(t, line[k + 1]))
  <2>1. Scan(t, line[k + 1]).argv = more /\ Scan(t, line[k + 1]).open = now
    BY <1>3, <1>10
  <2>2. k + 1 # 0
    OBVIOUS
  <2>3. QED
    BY <1>3, <1>10, <2>1, <2>2, Zenon DEF Found
<1>11. ASSUME NEW i \in W, i <= k, P[i] <= MaxTokens, c = Space \/ ~NoSpace(line, i, k)
      PROVE  WordIn(line, argv[P[i]], i, k + 1)
  <2>1. WordIn(line, argv[P[i]], i, k) /\ i \in Nat
    BY <1>7, <1>9, <1>11
  <2>2. QED
    BY <1>3, <1>11, <2>1, WordStays
<1>12. \A i \in W : i <= k + 1 => i <= k \/ i = k + 1
  BY <1>7
<1>13. CASE c = Space
  <2>1. Scan(t, c) = [argv |-> argv, open |-> FALSE]
    BY <1>8, <1>13 DEF Scan
  <2>2. k + 1 \notin W /\ P[k + 1] = P[k]
    BY <1>5, <1>7, <1>13
  <2>3. \A i \in W : i <= k + 1 /\ P[i] <= MaxTokens => WordIn(line, argv[P[i]], i, k + 1)
    BY <1>11, <1>12, <1>13, <2>2
  <2>4. QED
    BY <1>8, <1>9, <1>10, <1>13, <2>1, <2>2, <2>3
<1>14. CASE c # Space /\ k # 0 /\ line[k] # Space
  <2>1. k + 1 \notin W /\ P[k + 1] = P[k]
    BY <1>5, <1>7, <1>14
  <2>2. PICK cur \in W : cur <= k /\ NoSpace(line, cur, k) /\ P[cur] = P[k]
    <3>1. k \in 1 .. Len(line)
      BY <1>4, <1>14
    <3>2. \E i \in W : i <= k /\ NoSpace(line, i, k)
      BY <1>3, <1>14, <3>1, WordHasStart
    <3>3. QED
      BY <1>7, <3>2
  <2>3. \A i \in W : i <= k /\ i # cur => P[i] # P[k]
    <3>1. ASSUME NEW i \in W, i <= k, i # cur
          PROVE  P[i] # P[k]
      <4>1. i \in 0 .. n /\ cur \in 0 .. n /\ (i < cur \/ cur < i)
        BY <1>7, <3>1
      <4>2. P[i] \in Nat /\ P[cur] \in Nat
        BY <1>6, <4>1
      <4>3. P[i] < P[cur] \/ P[cur] < P[i]
        BY <1>7, <4>1
      <4>4. QED
        BY <2>2, <4>2, <4>3
    <3>2. QED
      BY <3>1
  <2>4. CASE open
    <3>1. l = P[k] /\ P[k] <= MaxTokens /\ l \in 1 .. l
      <4>1. l = P[k] /\ P[k] <= MaxTokens
        BY <1>9, <2>4
      <4>2. 1 <= P[k]
        BY <1>7, <2>2
      <4>3. QED
        BY <4>1, <4>2
    <3>2. PICK w \in Words(C) : w = argv[l]
      BY <1>8, <3>1
    <3>3. Append(w, c) \in Words(C)
      BY AppendProperties, SMTT(30) DEF Words
    <3>4. PICK more \in Seq(Words(C)) :
            /\ more = [argv EXCEPT ![l] = Append(w, c)] /\ Len(more) = l
            /\ more[l] = Append(w, c)
            /\ \A j \in 1 .. l : j # l => more[j] = argv[j]
      <4>1. [argv EXCEPT ![l] = Append(w, c)] \in Seq(Words(C))
        BY <1>8, <3>1, <3>3
      <4>2. Len([argv EXCEPT ![l] = Append(w, c)]) = l
        BY <1>8, <3>1
      <4>3. PICK more \in Seq(Words(C)) : more = [argv EXCEPT ![l] = Append(w, c)]
        BY <4>1
      <4>4. more[l] = Append(w, c) /\ \A j \in 1 .. l : j # l => more[j] = argv[j]
        BY <1>8, <3>1, <4>3
      <4>5. QED
        BY <4>2, <4>3, <4>4
    <3>5. Scan(t, c) = [argv |-> more, open |-> TRUE]
      <4>1. Scan(t, c) =
              [argv |-> [t.argv EXCEPT ![l] = Append(t.argv[l], c)], open |-> t.open]
        BY <1>8, <1>14, <2>4 DEF Scan
      <4>2. QED
        BY <1>8, <2>4, <3>2, <3>4, <4>1
    <3>6. ASSUME NEW i \in W, i <= k, P[i] <= MaxTokens
          PROVE  WordIn(line, more[P[i]], i, k + 1)
      <4>1. CASE i = cur
        <5>1. P[i] = l /\ more[P[i]] = Append(w, c) /\ i \in Nat \ {0}
          BY <1>7, <2>2, <3>1, <3>4, <4>1
        <5>2. WordIn(line, w, i, k)
          BY <1>9, <3>2, <3>6, <5>1
        <5>3. w = SubSeq(line, i, k)
          <6>1. PICK e \in Nat : /\ i < e /\ e <= k + 1
                                 /\ w = SubSeq(line, i, e - 1)
                                 /\ e = k + 1 \/ line[e] = Space
            BY <5>2, Zenon DEF WordIn
          <6>2. e = k + 1
            <7>1. ASSUME e # k + 1
                  PROVE  FALSE
              <8>1. e \in i .. k
                BY <5>1, <6>1, <7>1
              <8>2. QED
                BY <2>2, <4>1, <6>1, <7>1, <8>1 DEF NoSpace
            <7>2. QED
              BY <7>1
          <6>3. e - 1 = k
            BY <6>2
          <6>4. QED
            BY <6>1, <6>3
        <5>4. i <= k + 1 /\ NoSpace(line, i, k)
          BY <2>2, <3>6, <4>1, <5>1
        <5>5. WordIn(line, Append(SubSeq(line, i, k), line[k + 1]), i, k + 1)
          BY <1>3, <1>14, <5>1, <5>4, WordGrows
        <5>6. QED
          BY <1>3, <5>1, <5>3, <5>5
      <4>2. CASE i # cur
        <5>1. P[i] # P[k]
          BY <2>3, <3>6, <4>2
        <5>2. ~NoSpace(line, i, k)
          BY <1>7, <3>6, <5>1
        <5>3. P[i] \in 1 .. l
          <6>1. P[i] \in Nat
            BY <1>6, <1>7
          <6>2. 1 <= P[i] /\ P[i] <= P[k]
            BY <1>4, <1>7, <3>6
          <6>3. QED
            BY <3>1, <6>1, <6>2
        <5>4. more[P[i]] = argv[P[i]]
          BY <3>1, <3>4, <5>1, <5>3
        <5>5. QED
          BY <1>11, <3>6, <5>2, <5>4
      <4>3. QED
        BY <4>1, <4>2
    <3>7. \A i \in W : i <= k + 1 /\ P[i] <= MaxTokens => WordIn(line, more[P[i]], i, k + 1)
      BY <1>12, <2>1, <3>6
    <3>8. QED
      BY <1>10, <1>14, <2>1, <3>1, <3>4, <3>5, <3>7
  <2>5. CASE ~open
    <3>1. ~(P[k] <= MaxTokens) /\ l = MaxTokens
      BY <1>9, <1>14, <2>5
    <3>2. Scan(t, c) = [argv |-> argv, open |-> FALSE]
      <4>1. ~(Len(t.argv) < MaxTokens) /\ ~t.open /\ open = FALSE
        BY <1>6, <1>8, <2>5, <3>1
      <4>2. Scan(t, c) = t
        BY <1>14, <4>1, Zenon DEF Scan
      <4>3. QED
        BY <1>8, <4>1, <4>2
    <3>3. \A i \in W : i <= k + 1 /\ P[i] <= MaxTokens => WordIn(line, argv[P[i]], i, k + 1)
      BY <1>7, <1>11, <1>12, <2>1, <3>1
    <3>4. QED
      BY <1>8, <1>10, <2>1, <3>1, <3>2, <3>3
  <2>6. QED
    BY <2>4, <2>5
<1>15. CASE c # Space /\ (k = 0 \/ line[k] = Space)
  <2>1. k + 1 \in W /\ P[k + 1] = P[k] + 1 /\ ~open
    BY <1>5, <1>7, <1>9, <1>15
  <2>2. ASSUME NEW i \in W, i <= k
        PROVE  ~NoSpace(line, i, k)
    <3>1. k \in i .. k /\ k # 0
      BY <1>7, <2>2
    <3>2. QED
      BY <1>15, <3>1 DEF NoSpace
  <2>3. P[k] \in Nat
    BY <1>4, <1>6
  <2>4. CASE l < MaxTokens
    <3>1. l = P[k] /\ P[k + 1] <= MaxTokens
      BY <1>6, <1>9, <2>1, <2>3, <2>4
    <3>2. <<c>> \in Words(C)
      BY DEF Words
    <3>3. PICK more \in Seq(Words(C)) :
            /\ more = Append(argv, <<c>>) /\ Len(more) = l + 1 /\ more[l + 1] = <<c>>
            /\ \A j \in 1 .. l : more[j] = argv[j]
      <4>1. /\ Append(argv, <<c>>) \in Seq(Words(C))
            /\ Len(Append(argv, <<c>>)) = Len(argv) + 1
            /\ Append(argv, <<c>>)[Len(argv) + 1] = <<c>>
            /\ \A j \in 1 .. Len(argv) : Append(argv, <<c>>)[j] = argv[j]
        BY <3>2, AppendProperties
      <4>2. QED
        BY <1>8, <4>1
    <3>4. Scan(t, c) = [argv |-> more, open |-> TRUE]
      BY <1>8, <1>15, <2>1, <2>4, <3>3 DEF Scan
    <3>5. ASSUME NEW i \in W, i <= k + 1, P[i] <= MaxTokens
          PROVE  WordIn(line, more[P[i]], i, k + 1)
      <4>1. CASE i = k + 1
        <5>1. more[P[i]] = <<c>>
          BY <2>1, <3>1, <3>3, <4>1
        <5>2. SubSeq(line, k + 1, k) = <<>>
          BY SubSeqEmpty
        <5>3. Append(<<>>, c) = <<c>>
          OBVIOUS
        <5>4. NoSpace(line, k + 1, k)
          BY DEF NoSpace
        <5>5. WordIn(line, Append(SubSeq(line, k + 1, k), line[k + 1]), k + 1, k + 1)
          <6>1. k + 1 \in Nat \ {0} /\ k + 1 <= k + 1
            OBVIOUS
          <6>2. QED
            BY <1>3, <1>15, <5>4, <6>1, WordGrows
        <5>6. QED
          BY <1>3, <4>1, <5>1, <5>2, <5>3, <5>5
      <4>2. CASE i <= k
        <5>1. P[i] \in 1 .. l
          <6>1. P[i] \in Nat
            BY <1>6, <1>7
          <6>2. 1 <= P[i] /\ P[i] <= P[k]
            BY <1>4, <1>7, <4>2
          <6>3. QED
            BY <3>1, <6>1, <6>2
        <5>2. more[P[i]] = argv[P[i]]
          BY <3>3, <5>1
        <5>3. QED
          BY <1>11, <2>2, <3>5, <4>2, <5>2
      <4>3. QED
        BY <1>12, <3>5, <4>1, <4>2
    <3>6. QED
      BY <1>10, <1>15, <2>1, <3>1, <3>3, <3>4, <3>5
  <2>5. CASE ~(l < MaxTokens)
    <3>1. l = MaxTokens /\ ~(P[k + 1] <= MaxTokens)
      BY <1>6, <1>9, <2>1, <2>3, <2>5
    <3>2. Scan(t, c) = [argv |-> argv, open |-> FALSE]
      BY <1>8, <1>15, <2>1, <2>5 DEF Scan
    <3>3. \A i \in W : i <= k + 1 /\ P[i] <= MaxTokens => WordIn(line, argv[P[i]], i, k + 1)
      BY <1>11, <1>12, <2>2, <3>1
    <3>4. QED
      BY <1>8, <1>10, <3>1, <3>2, <3>3
  <2>6. QED
    BY <2>4, <2>5
<1>16. QED
  BY <1>13, <1>14, <1>15

LEMMA WordEnds ==
  ASSUME NEW C, NEW line \in Seq(C), NEW w, NEW i \in 1 .. Len(line),
         WordIn(line, w, i, Len(line))
  PROVE  IsWordAt(line, {Space}, w, i)
<1>1. PICK n \in Nat : n = Len(line)
  OBVIOUS
<1>2. PICK e \in Nat : /\ i < e /\ e <= n + 1
                       /\ w = SubSeq(line, i, e - 1) /\ NoSpace(line, i, e - 1)
                       /\ e = n + 1 \/ line[e] = Space
  BY <1>1 DEF WordIn
<1>3. PICK v \in Seq(C) : /\ v = w /\ Len(v) = e - i
                          /\ \A x \in 1 .. e - i : v[x] = line[i + x - 1]
  <2>1. \A x \in i .. e - 1 : line[x] \in C
    <3>1. \A x \in i .. e - 1 : x \in 1 .. Len(line)
      BY <1>1, <1>2
    <3>2. QED
      BY <3>1
  <2>2. i \in Int /\ e - 1 \in Int /\ (e - 1) - i + 1 = e - i /\ i <= e - 1
    BY <1>2
  <2>3. /\ SubSeq(line, i, e - 1) \in Seq(C)
        /\ Len(SubSeq(line, i, e - 1)) = IF i <= e - 1 THEN (e - 1) - i + 1 ELSE 0
        /\ \A x \in 1 .. (e - 1) - i + 1 : SubSeq(line, i, e - 1)[x] = line[i + x - 1]
    BY <2>1, <2>2, SubSeqProperties
  <2>4. PICK v \in Seq(C) : v = SubSeq(line, i, e - 1)
    BY <2>3
  <2>5. QED
    BY <1>2, <2>2, <2>3, <2>4
<1>4. i + Len(w) = e /\ i + Len(w) - 1 = e - 1
  BY <1>2, <1>3
<1>5. ToSet(w) \cap {Space} = {}
  <2>1. ASSUME NEW x \in 1 .. Len(v)
        PROVE  v[x] # Space
    <3>1. x \in 1 .. e - i /\ i + x - 1 \in i .. e - 1
      BY <1>2, <1>3
    <3>2. QED
      BY <1>2, <1>3, <3>1 DEF NoSpace
  <2>2. QED
    BY <1>3, <2>1 DEF ToSet
<1>6. w = SubSeq(line, i, i + Len(w) - 1)
  BY <1>2, <1>4
<1>7. i + Len(w) = Len(line) + 1 \/ line[i + Len(w)] \in {Space}
  BY <1>1, <1>2, <1>4
<1>8. QED
  BY <1>5, <1>6, <1>7, Zenon DEF IsWordAt

(* tokenize finds the words of every line, of whatever it is made.          *)
THEOREM TokenizeFindsEveryWord ==
  ASSUME NEW C, NEW line \in Seq(C)
  PROVE  WordsAreFound(line, Tokenize(line))
<1>1. PICK n \in Nat : n = Len(line)
  OBVIOUS
<1>2. PICK f : /\ IsSeqFold(f, n, Scans(C), ScanStart, ScanStep(C, line))
               /\ Tokenize(line) = f[1 .. n].argv
  BY <1>1, TokenizeIsFold, Zenon
<1>3. PICK P : CountsWords(line, P)
  BY WordsAreCounted, Zenon
<1>4. /\ P \in [0 .. n -> Nat] /\ P[0] = 0
      /\ \A b \in 0 .. n : P[b] = Cardinality(UpTo(Starts(line), b))
      /\ \A i \in Starts(line) : i \in 1 .. n
  BY <1>1, <1>3 DEF CountsWords, Counts
<1> DEFINE S == {k \in Nat : k <= n => f[1 .. k] \in Scans(C) /\ Found(line, P, k, f[1 .. k])}
<1>5. 0 \in S
  <2>1. 1 .. 0 = {}
    OBVIOUS
  <2>2. f[1 .. 0] = ScanStart /\ ScanStart \in Scans(C)
    <3>1. ScanStart \in Scans(C)
      BY CommandsAssumption DEF ScanStart, Scans
    <3>2. f[{}] = ScanStart
      BY <1>2, Zenon DEF IsSeqFold
    <3>3. QED
      BY <2>1, <3>1, <3>2
  <2>3. Found(line, P, 0, ScanStart)
    <3>1. Len(ScanStart.argv) = 0 /\ ScanStart.open = FALSE
      BY DEF ScanStart
    <3>2. P[0] <= MaxTokens /\ \A i \in Starts(line) : ~(i <= 0)
      BY <1>4, CommandsAssumption
    <3>3. QED
      BY <1>4, <3>1, <3>2 DEF Found
  <2>4. QED
    BY <2>2, <2>3
<1>6. ASSUME NEW k \in Nat, k \in S
      PROVE  k + 1 \in S
  <2>1. SUFFICES ASSUME k + 1 <= n
                 PROVE  f[1 .. (k + 1)] \in Scans(C) /\ Found(line, P, k + 1, f[1 .. (k + 1)])
    OBVIOUS
  <2>2. f[1 .. k] \in Scans(C) /\ Found(line, P, k, f[1 .. k])
    BY <1>6, <2>1
  <2>3. PICK t \in Scans(C) : t = f[1 .. k]
    BY <2>2
  <2>4. f[1 .. (k + 1)] = ScanStep(C, line)[<<t, k + 1>>]
    BY <1>2, <2>1, <2>3, SeqFoldOfPrefix
  <2>5. k + 1 \in 1 .. Len(line) /\ k < Len(line) /\ line[k + 1] \in C
    BY <1>1, <2>1
  <2>6. ScanStep(C, line)[<<t, k + 1>>] = Scan(t, line[k + 1])
    BY <2>5 DEF ScanStep
  <2>7. Scan(t, line[k + 1]) \in Scans(C)
    BY <2>5, ScanIsScan
  <2>8. Found(line, P, k + 1, Scan(t, line[k + 1]))
    BY <1>3, <2>2, <2>3, <2>5, ScanFinds
  <2>9. QED
    BY <2>4, <2>6, <2>7, <2>8
<1> HIDE DEF S
<1>7. \A k \in Nat : k \in S
  BY <1>5, <1>6, InductionOnNat
<1>8. PICK t \in Scans(C) : t = f[1 .. n] /\ Found(line, P, n, t)
  BY <1>7 DEF S
<1>9. UpTo(Starts(line), n) = Starts(line)
  BY <1>4 DEF UpTo
<1>10. P[n] = Cardinality(Starts(line)) /\ P[n] \in Nat
  BY <1>4, <1>9
<1>11. Len(Tokenize(line)) = Min({Cardinality(Starts(line)), MaxTokens})
  <2>1. PICK p \in Nat, m \in Nat : p = P[n] /\ m = MaxTokens
    BY <1>10, CommandsAssumption
  <2>2. Len(Tokenize(line)) = IF p <= m THEN p ELSE m
    BY <1>2, <1>8, <2>1 DEF Found
  <2>3. Min({p, m}) = IF p <= m THEN p ELSE m
    <3>1. Min({p, m}) \in {p, m} /\ \A y \in {p, m} : Min({p, m}) <= y
      BY MinIsSmallest
    <3>2. QED
      BY <3>1
  <2>4. QED
    BY <1>10, <2>1, <2>2, <2>3
<1>12. ASSUME NEW i \in Starts(line), PlaceIn(Starts(line), i) <= MaxTokens
       PROVE  IsWordAt(line, {Space}, Tokenize(line)[PlaceIn(Starts(line), i)], i)
  <2>1. i \in 1 .. n /\ i \in 0 .. n /\ i <= n
    BY <1>4
  <2>2. PlaceIn(Starts(line), i) = P[i]
    BY <1>4, <2>1 DEF PlaceIn
  <2>3. WordIn(line, t.argv[P[i]], i, n)
    BY <1>8, <1>12, <2>1, <2>2 DEF Found
  <2>4. IsWordAt(line, {Space}, t.argv[P[i]], i)
    BY <1>1, <2>1, <2>3, WordEnds
  <2>5. QED
    BY <1>2, <1>8, <2>2, <2>4
<1>13. QED
  BY <1>11, <1>12 DEF WordsAreFound, Starts

(* The words of a line are found, whatever blanks are around and between,   *)
(* for lines of any length, and no more than KSHELL_MAX_TOKENS.             *)
THEOREM SpecTokenizeFindsWords == ProcessShellSpec => []TokenizeFindsWords
<1>1. ASSUME NEW line \in BoundedSeq({Space, Minus}, MaxLineChecked)
      PROVE  WordsAreFound(line, Tokenize(line))
  <2>1. line \in Seq({Space, Minus})
    <3>1. PICK n \in 0 .. MaxLineChecked : line \in [1 .. n -> {Space, Minus}]
      BY Zenon DEF BoundedSeq, SeqOf
    <3>2. n \in Nat
      BY CommandsAssumption
    <3>3. QED
      BY <3>1, <3>2
  <2>2. QED
    BY <2>1, TokenizeFindsEveryWord
<1>2. TokenizeFindsWords
  BY <1>1 DEF TokenizeFindsWords, FindsWords
<1>3. QED
  BY <1>2, PTL

-----------------------------------------------------------------------------
(* katoi: the digits a word starts with, and the int they make.             *)
DigitChars == ToSet(Digits)

LEMMA WrapIsInt ==
  ASSUME NEW n \in Int
  PROVE  Wrap(n) \in Ints /\ (n \in Ints => Wrap(n) = n)
<1>1. PICK m \in Nat \ {0} : m = 2 * (MaxInt + 1) /\ MaxInt \in Nat
  BY CommandsAssumption
<1>2. n - MinInt \in Int /\ MinInt \in Int
  BY <1>1 DEF MinInt
<1>3. (n - MinInt) % m \in 0 .. m - 1
  BY <1>1, <1>2
<1>4. n - MinInt \in 0 .. m - 1 => (n - MinInt) % m = n - MinInt
  BY <1>1, <1>2
<1>5. QED
  BY <1>1, <1>2, <1>3, <1>4 DEF Wrap, Ints, MinInt

LEMMA DigitHasValue ==
  ASSUME NEW c \in DigitChars
  PROVE  DigitValue(c) \in 0 .. 9 /\ Digits[DigitValue(c) + 1] = c
<1>1. \E d \in DOMAIN Digits : Digits[d] = c
  BY DEF DigitChars, ToSet
<1>2. PICK d \in 1 .. 10 : d = (CHOOSE e \in DOMAIN Digits : Digits[e] = c) /\ Digits[d] = c
  BY <1>1, CommandsAssumption
<1>3. DigitValue(c) = d - 1
  BY <1>2, Zenon DEF DigitValue
<1>4. d - 1 \in 0 .. 9 /\ (d - 1) + 1 = d
  OBVIOUS
<1>5. QED
  BY <1>2, <1>3, <1>4

LEMMA LeadingDigitsFound ==
  ASSUME NEW C, NEW s \in Seq(C)
  PROVE  \E n \in 0 .. Len(s) :
           /\ LeadingDigits(s) = SubSeq(s, 1, n)
           /\ DigitsUpTo(s, n)
           /\ n < Len(s) => ~DigitsUpTo(s, n + 1)
<1>1. PICK len \in Nat : len = Len(s)
  OBVIOUS
<1> DEFINE T == {m \in Nat : m <= len /\ DigitsUpTo(s, len - m)}
<1>2. PICK m \in Nat : /\ m <= len /\ DigitsUpTo(s, len - m)
                       /\ \A k \in T : m <= k
  <2>1. DigitsUpTo(s, 0)
    BY DEF DigitsUpTo
  <2>2. len \in T /\ T \in SUBSET Nat
    BY <2>1
  <2>3. PICK m \in T : \A k \in T : m <= k
    <3> HIDE DEF T
    <3> QED
      BY <2>2, SmallestElement
  <2>4. QED
    BY <2>3
<1>3. PICK n \in 0 .. Len(s) : n = len - m /\ DigitsUpTo(s, n)
  BY <1>1, <1>2
<1>4. ASSUME n < len, DigitsUpTo(s, n + 1)
      PROVE  FALSE
  <2>1. m - 1 \in Nat /\ n + 1 = len - (m - 1) /\ m - 1 <= len
    BY <1>2, <1>3, <1>4
  <2>2. m - 1 \in T
    BY <1>4, <2>1
  <2>3. QED
    BY <1>2, <2>1, <2>2
<1>5. QED
  BY <1>1, <1>3, <1>4 DEF LeadingDigits

LEMMA LeadingDigitsAreDigits ==
  ASSUME NEW C, NEW s \in Seq(C)
  PROVE  LeadingDigits(s) \in Seq(DigitChars)
<1>1. PICK n \in 0 .. Len(s) : LeadingDigits(s) = SubSeq(s, 1, n) /\ DigitsUpTo(s, n)
  BY LeadingDigitsFound
<1>2. \A i \in 1 .. n : s[i] \in DigitChars
  BY <1>1 DEF DigitsUpTo, DigitChars
<1>3. QED
  BY <1>1, <1>2, SubSeqProperties

DigitStep(d) == [p \in Ints \X (1 .. Len(d)) |-> AddDigit(p[1], d[p[2]])]

LEMMA AddDigitIsInt ==
  ASSUME NEW v \in Ints, NEW c \in DigitChars
  PROVE  AddDigit(v, c) \in Ints
<1>1. v \in Int /\ DigitValue(c) \in Int
  BY DigitHasValue, CommandsAssumption DEF Ints, MinInt
<1>2. v * 10 + DigitValue(c) \in Int
  BY <1>1
<1>3. QED
  BY <1>2, WrapIsInt DEF AddDigit

LEMMA ValueIsFold ==
  ASSUME NEW d \in Seq(DigitChars)
  PROVE  \E f : IsSeqFold(f, Len(d), Ints, 0, DigitStep(d)) /\ ValueOf(d) = f[1 .. Len(d)]
<1> DEFINE Eqn(g) == g = [s \in SUBSET DOMAIN d |->
             IF s = {} THEN 0 ELSE AddDigit(g[s \ {Max(s)}], d[Max(s)])]
<1>1. PICK n \in Nat : n = Len(d) /\ DOMAIN d = 1 .. n
  OBVIOUS
<1>2. 0 \in Ints
  BY CommandsAssumption DEF Ints, MinInt
<1>3. DigitStep(d) \in [Ints \X (1 .. n) -> Ints]
  <2>1. ASSUME NEW p \in Ints \X (1 .. n)
        PROVE  AddDigit(p[1], d[p[2]]) \in Ints
    <3>1. p[1] \in Ints /\ d[p[2]] \in DigitChars
      BY <1>1
    <3>2. QED
      BY <3>1, AddDigitIsInt, Zenon
  <2>2. QED
    BY <1>1, <2>1, Zenon DEF DigitStep
<1>4. PICK f : IsSeqFold(f, n, Ints, 0, DigitStep(d))
  BY <1>2, <1>3, SeqFoldExists, Zenon
<1>5. ASSUME NEW s \in SUBSET (1 .. n), s # {}
      PROVE  f[s] = AddDigit(f[s \ {Max(s)}], d[Max(s)])
  <2>1. Max(s) \in 1 .. n /\ s \ {Max(s)} \in SUBSET (1 .. n)
    BY <1>5, MaxOfIndices
  <2>2. f[s \ {Max(s)}] \in Ints
    BY <1>4, <2>1 DEF IsSeqFold
  <2>3. f[s] = DigitStep(d)[<<f[s \ {Max(s)}], Max(s)>>]
    BY <1>4, <1>5, Zenon DEF IsSeqFold
  <2>4. QED
    BY <1>1, <2>1, <2>2, <2>3 DEF DigitStep
<1>6. Eqn(f)
  BY <1>1, <1>4, <1>5 DEF IsSeqFold
<1>7. \E g : Eqn(g) /\ ValueOf(d) = g[DOMAIN d]
  <2> DEFINE g == CHOOSE h : Eqn(h)
  <2>1. Eqn(g)
    BY <1>6, Zenon
  <2>2. ValueOf(d) = g[DOMAIN d]
    BY Zenon DEF ValueOf, FoldLeft, MapThenFoldSet
  <2>3. QED
    BY <2>1, <2>2, Zenon
<1>8. PICK F : Eqn(F) /\ ValueOf(d) = F[DOMAIN d]
  BY <1>7, Zenon
<1>9. F[{}] = 0
  BY <1>1, <1>8
<1>10. ASSUME NEW s \in SUBSET (1 .. n), s # {}, F[s \ {Max(s)}] \in Ints
       PROVE  F[s] = DigitStep(d)[<<F[s \ {Max(s)}], Max(s)>>]
  <2>1. Max(s) \in 1 .. n
    BY <1>10, MaxOfIndices
  <2>2. F[s] = AddDigit(F[s \ {Max(s)}], d[Max(s)])
    BY <1>1, <1>8, <1>10
  <2>3. QED
    BY <1>1, <1>10, <2>1, <2>2 DEF DigitStep
<1>11. SolvesSeqFold(F, n, Ints, 0, DigitStep(d))
  BY <1>9, <1>10 DEF SolvesSeqFold
<1>12. F[1 .. n] = f[1 .. n]
  BY <1>4, <1>11, SeqFoldUnique
<1>13. QED
  BY <1>1, <1>4, <1>8, <1>12

(* katoi gives an int, whatever the word.                                   *)
LEMMA KatoiIsInt ==
  ASSUME NEW C, NEW s \in Words(C)
  PROVE  Katoi(s) \in Ints
<1>1. ASSUME NEW w \in Seq(C)
      PROVE  ValueOf(LeadingDigits(w)) \in Ints
  <2>1. PICK d \in Seq(DigitChars) : d = LeadingDigits(w)
    BY LeadingDigitsAreDigits
  <2>2. PICK f : IsSeqFold(f, Len(d), Ints, 0, DigitStep(d)) /\ ValueOf(d) = f[1 .. Len(d)]
    BY ValueIsFold, Zenon
  <2>3. QED
    BY <2>1, <2>2 DEF IsSeqFold
<1>2. s \in Seq(C) /\ Tail(s) \in Seq(C)
  BY DEF Words
<1>3. ASSUME NEW v \in Ints
      PROVE  Wrap(-v) \in Ints
  BY <1>3, WrapIsInt, CommandsAssumption DEF Ints, MinInt
<1>4. QED
  BY <1>1, <1>2, <1>3 DEF Katoi
-----------------------------------------------------------------------------
(* The digits of a number: its recursion has a solution, which is Decimal.  *)
LEMMA DecimalEquation ==
  \A v \in Nat : /\ Decimal[v] \in Seq(DigitChars)
                 /\ Decimal[v] = IF v = 0 THEN <<>>
                                 ELSE Append(Decimal[v \div 10], Digits[(v % 10) + 1])
<1> DEFINE V == Seq(DigitChars)
<1>1. PICK less : less = [n \in Nat |-> n \div 10]
  OBVIOUS
<1>2. PICK step : step = [p \in V \X Nat |-> Append(p[1], Digits[(p[2] % 10) + 1])]
  OBVIOUS
<1>3. less \in [Nat -> Nat] /\ \A n \in Nat : less[n] = n \div 10
  BY <1>1
<1>4. \A n \in Nat : n # 0 => less[n] < n
  BY <1>3
<1>5. \A n \in Nat : Digits[(n % 10) + 1] \in DigitChars
  <2>1. \A n \in Nat : (n % 10) + 1 \in 1 .. 10
    OBVIOUS
  <2>2. QED
    BY <2>1, CommandsAssumption DEF DigitChars, ToSet
<1>6. \A d \in V, n \in Nat : step[<<d, n>>] = Append(d, Digits[(n % 10) + 1])
  BY <1>2
<1>7. step \in [V \X Nat -> V]
  <2>1. ASSUME NEW p \in V \X Nat
        PROVE  Append(p[1], Digits[(p[2] % 10) + 1]) \in V
    <3>1. p[1] \in V /\ p[2] \in Nat /\ Digits[(p[2] % 10) + 1] \in DigitChars
      BY <1>5
    <3>2. QED
      BY <3>1
  <2>2. QED
    BY <1>2, <2>1
<1>8. <<>> \in V
  OBVIOUS
<1> HIDE DEF V
<1>9. PICK f : IsRecursion(f, V, <<>>, less, step)
  BY <1>3, <1>4, <1>7, <1>8, RecursionExists
<1> DEFINE Eqn(g) == g = [value \in Nat |->
             IF value = 0 THEN <<>>
             ELSE Append(g[value \div 10], Digits[(value % 10) + 1])]
<1>10. \A n \in Nat : f[n] \in V
  BY <1>9 DEF IsRecursion
<1>11. Eqn(f)
  <2>1. ASSUME NEW n \in Nat, n # 0
        PROVE  f[n] = Append(f[n \div 10], Digits[(n % 10) + 1])
    <3>1. f[n] = step[<<f[less[n]], n>>]
      BY <1>9, <2>1 DEF IsRecursion
    <3>2. less[n] = n \div 10 /\ less[n] \in Nat
      BY <1>3
    <3>3. QED
      BY <1>6, <1>10, <3>1, <3>2
  <2>2. f[0] = <<>>
    BY <1>9 DEF IsRecursion
  <2>3. \A n \in Nat : f[n] = IF n = 0 THEN <<>> ELSE Append(f[n \div 10], Digits[(n % 10) + 1])
    BY <2>1, <2>2
  <2>4. f \in [Nat -> V]
    BY <1>9 DEF IsRecursion
  <2>5. QED
    BY <2>3, <2>4
<1>12. Eqn(Decimal)
  BY <1>11, Zenon DEF Decimal
<1>13. \A n \in Nat : Decimal[n] = IF n = 0 THEN <<>>
                        ELSE Append(Decimal[n \div 10], Digits[(n % 10) + 1])
  BY <1>12
<1> DEFINE S == {n \in Nat : Decimal[n] \in V}
<1>14. ASSUME NEW n \in Nat, \A m \in Nat : m < n => m \in S
       PROVE  n \in S
  <2>1. CASE n = 0
    BY <1>8, <1>13, <2>1
  <2>2. CASE n # 0
    <3>1. n \div 10 \in Nat /\ n \div 10 < n
      BY <2>2
    <3>2. Decimal[n \div 10] \in V
      BY <1>14, <3>1
    <3>3. Append(Decimal[n \div 10], Digits[(n % 10) + 1]) \in V
      BY <1>5, <3>2 DEF V
    <3>4. QED
      BY <1>13, <2>2, <3>3
  <2>3. QED
    BY <2>1, <2>2
<1> HIDE DEF S
<1>15. \A n \in Nat : n \in S
  BY <1>14, StrongInduction
<1>16. QED
  BY <1>13, <1>15 DEF S, V

(* A digit more.                                                            *)
LEMMA ValueOfNothing == ValueOf(<<>>) = 0
<1>1. <<>> \in Seq(DigitChars) /\ Len(<<>>) = 0 /\ 1 .. 0 = {}
  OBVIOUS
<1>2. PICK f : IsSeqFold(f, 0, Ints, 0, DigitStep(<<>>)) /\ ValueOf(<<>>) = f[1 .. 0]
  BY <1>1, ValueIsFold, Zenon
<1>3. QED
  BY <1>1, <1>2 DEF IsSeqFold

LEMMA ValueOfAppend ==
  ASSUME NEW d \in Seq(DigitChars), NEW c \in DigitChars
  PROVE  ValueOf(Append(d, c)) = AddDigit(ValueOf(d), c)
<1>1. PICK n \in Nat : n = Len(d)
  OBVIOUS
<1>2. PICK e \in Seq(DigitChars) :
        /\ e = Append(d, c) /\ Len(e) = n + 1 /\ e[n + 1] = c
        /\ \A j \in 1 .. n : e[j] = d[j]
  <2>1. /\ Append(d, c) \in Seq(DigitChars)
        /\ Len(Append(d, c)) = Len(d) + 1
        /\ Append(d, c)[Len(d) + 1] = c
        /\ \A j \in 1 .. Len(d) : Append(d, c)[j] = d[j]
    BY AppendProperties
  <2>2. QED
    BY <1>1, <2>1
<1>3. PICK f : IsSeqFold(f, n, Ints, 0, DigitStep(d)) /\ ValueOf(d) = f[1 .. n]
  BY <1>1, ValueIsFold, Zenon
<1>4. PICK g : IsSeqFold(g, n + 1, Ints, 0, DigitStep(e)) /\ ValueOf(e) = g[1 .. (n + 1)]
  BY <1>2, ValueIsFold
<1>5. StepsAgree(DigitStep(d), DigitStep(e), Ints, n)
  BY <1>1, <1>2 DEF StepsAgree, DigitStep
<1>6. g[1 .. (n + 1)] = DigitStep(e)[<<f[1 .. n], n + 1>>]
  BY <1>3, <1>4, <1>5, SeqFoldExtends
<1>7. f[1 .. n] \in Ints
  BY <1>3 DEF IsSeqFold
<1>8. DigitStep(e)[<<f[1 .. n], n + 1>>] = AddDigit(f[1 .. n], c)
  <2>1. n + 1 \in 1 .. Len(e)
    BY <1>2
  <2>2. QED
    BY <1>2, <1>7, <2>1 DEF DigitStep
<1>9. QED
  BY <1>2, <1>3, <1>4, <1>6, <1>8

LEMMA ValueOfADigit ==
  \A k \in 0 .. 9 : Digits[k + 1] \in DigitChars /\ DigitValue(Digits[k + 1]) = k
<1>1. SUFFICES ASSUME NEW k \in 0 .. 9
               PROVE  Digits[k + 1] \in DigitChars /\ DigitValue(Digits[k + 1]) = k
  OBVIOUS
<1>2. k + 1 \in DOMAIN Digits
  BY CommandsAssumption
<1>3. Digits[k + 1] \in DigitChars
  BY <1>2 DEF DigitChars, ToSet
<1>4. /\ DigitValue(Digits[k + 1]) \in 0 .. 9
      /\ Digits[DigitValue(Digits[k + 1]) + 1] = Digits[k + 1]
  BY <1>3, DigitHasValue
<1>5. DigitValue(Digits[k + 1]) + 1 \in DOMAIN Digits
  BY <1>4, CommandsAssumption
<1>6. \A a, b \in DOMAIN Digits : Digits[a] = Digits[b] => a = b
  BY CommandsAssumption, Zenon DEF IsInjective
<1>7. DigitValue(Digits[k + 1]) + 1 = k + 1
  BY <1>2, <1>4, <1>5, <1>6
<1>8. QED
  BY <1>3, <1>4, <1>7

(* Reading the digits of a number gives the number, wrapped once: the       *)
(* smallest int has as many digits as its negation, which is no int.        *)
LEMMA ValueOfDecimal ==
  \A v \in 0 .. MaxInt + 1 : ValueOf(Decimal[v]) = Wrap(v)
<1>1. MaxInt \in Nat \ {0} /\ MinInt = -MaxInt - 1
  BY CommandsAssumption DEF MinInt
<1>2. \A n \in 0 .. MaxInt : n \in Int /\ Wrap(n) = n
  <2>1. \A n \in 0 .. MaxInt : n \in Int /\ n \in Ints
    BY <1>1 DEF Ints
  <2>2. QED
    BY <2>1, WrapIsInt
<1> DEFINE S == {v \in Nat : v <= MaxInt + 1 => ValueOf(Decimal[v]) = Wrap(v)}
<1>3. ASSUME NEW v \in Nat, \A m \in Nat : m < v => m \in S
      PROVE  v \in S
  <2>1. SUFFICES ASSUME v <= MaxInt + 1
                 PROVE  ValueOf(Decimal[v]) = Wrap(v)
    OBVIOUS
  <2>2. CASE v = 0
    <3>1. Decimal[0] = <<>>
      BY DecimalEquation
    <3>2. Wrap(0) = 0
      BY <1>1, <1>2
    <3>3. QED
      BY <2>2, <3>1, <3>2, ValueOfNothing
  <2>3. CASE v # 0
    <3>1. PICK w \in Nat, r \in 0 .. 9 :
            /\ w = v \div 10 /\ r = v % 10 /\ v = w * 10 + r /\ w < v
      <4>1. v \div 10 \in Nat /\ v % 10 \in 0 .. 9
        OBVIOUS
      <4>2. v = (v \div 10) * 10 + (v % 10) /\ v \div 10 < v
        BY <2>3
      <4>3. QED
        BY <4>1, <4>2
    <3>2. w <= MaxInt
      BY <1>1, <2>1, <3>1
    <3>3. ValueOf(Decimal[w]) = w
      <4>1. w \in S /\ w <= MaxInt + 1
        BY <1>1, <1>3, <3>1, <3>2
      <4>2. w \in 0 .. MaxInt
        BY <3>2
      <4>3. QED
        BY <1>2, <4>1, <4>2
    <3>4. Decimal[v] = Append(Decimal[w], Digits[r + 1]) /\ Decimal[w] \in Seq(DigitChars)
      BY <2>3, <3>1, DecimalEquation
    <3>5. Digits[r + 1] \in DigitChars /\ DigitValue(Digits[r + 1]) = r
      BY ValueOfADigit
    <3>6. ValueOf(Decimal[v]) = AddDigit(w, Digits[r + 1])
      BY <3>3, <3>4, <3>5, ValueOfAppend
    <3>7. QED
      BY <3>1, <3>5, <3>6 DEF AddDigit
  <2>4. QED
    BY <2>2, <2>3
<1> HIDE DEF S
<1>4. \A v \in Nat : v \in S
  BY <1>3, StrongInduction
<1>5. QED
  BY <1>1, <1>4 DEF S

LEMMA AllLeadingDigits ==
  ASSUME NEW d \in Seq(DigitChars)
  PROVE  LeadingDigits(d) = d
<1>1. PICK n \in 0 .. Len(d) :
        /\ LeadingDigits(d) = SubSeq(d, 1, n)
        /\ n < Len(d) => ~DigitsUpTo(d, n + 1)
  BY LeadingDigitsFound
<1>2. n = Len(d)
  <2>1. ASSUME n < Len(d)
        PROVE  FALSE
    <3>1. \A i \in 1 .. n + 1 : d[i] \in DigitChars
      BY <2>1
    <3>2. DigitsUpTo(d, n + 1)
      BY <3>1 DEF DigitsUpTo, DigitChars
    <3>3. QED
      BY <1>1, <2>1, <3>2
  <2>2. QED
    BY <2>1
<1>3. SubSeq(d, 1, Len(d)) = d
  BY SubSeqFull
<1>4. QED
  BY <1>1, <1>2, <1>3

LEMMA PositiveDecimal ==
  ASSUME NEW v \in Nat \ {0}
  PROVE  Decimal[v] \in Seq(DigitChars) /\ Decimal[v] # <<>> /\ Head(Decimal[v]) # Minus
<1>1. PICK d \in Seq(DigitChars) : d = Decimal[v]
  BY DecimalEquation
<1>2. d # <<>>
  <2>1. PICK e \in Seq(DigitChars), c \in DigitChars : d = Append(e, c)
    <3>1. v \div 10 \in Nat /\ v % 10 \in 0 .. 9 /\ v # 0
      OBVIOUS
    <3>2. Decimal[v \div 10] \in Seq(DigitChars)
      BY <3>1, DecimalEquation
    <3>3. Digits[(v % 10) + 1] \in DigitChars
      BY <3>1, ValueOfADigit
    <3>4. d = Append(Decimal[v \div 10], Digits[(v % 10) + 1])
      BY <1>1, <3>1, DecimalEquation
    <3>5. QED
      BY <3>2, <3>3, <3>4, Zenon
  <2>2. QED
    BY <2>1
<1>3. Head(d) \in DigitChars
  BY <1>2
<1>4. QED
  BY <1>1, <1>2, <1>3, CommandsAssumption DEF DigitChars

LEMMA HeadTailOfPrefixed ==
  ASSUME NEW C, NEW c \in C, NEW d \in Seq(C)
  PROVE  Head(<<c>> \o d) = c /\ Tail(<<c>> \o d) = d
<1>1. PICK e \in Seq(C) : e = <<c>> /\ Len(e) = 1 /\ e[1] = c
  <2>1. <<c>> \in Seq(C)
    OBVIOUS
  <2>2. Len(<<c>>) = 1 /\ <<c>>[1] = c
    OBVIOUS
  <2>3. QED
    BY <2>1, <2>2, Zenon
<1>2. PICK s \in Seq(C) : s = <<c>> \o d
  BY <1>1, ConcatProperties
<1>3. /\ Len(s) = Len(d) + 1 /\ s[1] = c
      /\ \A j \in 1 .. Len(d) : s[j + 1] = d[j]
  BY <1>1, <1>2, ConcatProperties
<1>4. s # <<>>
  BY <1>3
<1>5. PICK t \in Seq(C) : t = Tail(s) /\ Len(t) = Len(d) /\ \A j \in 1 .. Len(d) : t[j] = s[j + 1]
  BY <1>3, <1>4
<1>6. t = d
  BY <1>3, <1>5, SeqEqual
<1>7. QED
  BY <1>2, <1>3, <1>4, <1>5, <1>6

LEMMA WrapsOnce == Wrap(MaxInt + 1) = MinInt
<1>1. PICK m \in Nat \ {0}, k \in Nat : m = 2 * (MaxInt + 1) /\ k = MaxInt
  BY CommandsAssumption
<1>2. MinInt = -k - 1 /\ (k + 1) - MinInt = m
  BY <1>1 DEF MinInt
<1>3. m % m = 0
  BY <1>1
<1>4. QED
  BY <1>1, <1>2, <1>3 DEF Wrap

(* katoi reads every int as printf writes it.                               *)
LEMMA KatoiReads ==
  ASSUME NEW x \in Ints
  PROVE  Katoi(PrintfInt(x)) = x
<1>1. MaxInt \in Nat \ {0} /\ MinInt = -MaxInt - 1 /\ x \in Int
  BY CommandsAssumption DEF MinInt, Ints
<1>2. \A n \in Ints : Wrap(n) = n
  <2>1. \A n \in Ints : n \in Int
    BY <1>1 DEF Ints
  <2>2. QED
    BY <2>1, WrapIsInt
<1>3. CASE x = 0
  <2>1. PICK c : c = Digits[1] /\ c \in DigitChars /\ DigitValue(c) = 0
    <3>1. Digits[0 + 1] \in DigitChars /\ DigitValue(Digits[0 + 1]) = 0
      BY ValueOfADigit
    <3>2. QED
      BY <3>1
  <2>2. PrintfInt(x) = <<c>>
    BY <1>3, <2>1 DEF PrintfInt, PrintUint
  <2>3. <<c>> \in Seq(DigitChars) /\ Head(<<c>>) = c /\ <<c>> = Append(<<>>, c)
    BY <2>1
  <2>4. c # Minus
    BY <2>1, CommandsAssumption DEF DigitChars
  <2>5. ValueOf(<<c>>) = AddDigit(0, c)
    <3>1. <<>> \in Seq(DigitChars)
      OBVIOUS
    <3>2. ValueOf(Append(<<>>, c)) = AddDigit(ValueOf(<<>>), c)
      BY <2>1, <3>1, ValueOfAppend
    <3>3. QED
      BY <2>3, <3>2, ValueOfNothing
  <2>6. AddDigit(0, c) = 0
    <3>1. 0 \in Ints /\ 0 * 10 + 0 = 0
      BY <1>1 DEF Ints
    <3>2. QED
      BY <1>2, <2>1, <3>1 DEF AddDigit
  <2>7. LeadingDigits(<<c>>) = <<c>>
    BY <2>3, AllLeadingDigits
  <2>8. Katoi(<<c>>) = ValueOf(LeadingDigits(<<c>>))
    BY <2>3, <2>4 DEF Katoi
  <2>9. QED
    BY <1>3, <2>2, <2>5, <2>6, <2>7, <2>8
<1>4. CASE x > 0
  <2>1. x \in Nat \ {0} /\ x \in 0 .. MaxInt + 1
    BY <1>1, <1>4 DEF Ints
  <2>2. PICK d \in Seq(DigitChars) : d = Decimal[x] /\ d # <<>> /\ Head(d) # Minus
    BY <2>1, PositiveDecimal
  <2>3. PrintfInt(x) = d
    BY <1>1, <1>4, <2>2 DEF PrintfInt, PrintUint
  <2>4. LeadingDigits(d) = d
    BY AllLeadingDigits
  <2>5. Katoi(d) = ValueOf(LeadingDigits(d))
    BY <2>2 DEF Katoi
  <2>6. ValueOf(d) = x
    BY <1>2, <2>1, <2>2, ValueOfDecimal
  <2>7. QED
    BY <2>3, <2>4, <2>5, <2>6
<1>5. CASE x < 0
  <2>1. PICK v \in Nat \ {0} : v = -x /\ v <= MaxInt + 1
    BY <1>1, <1>5 DEF Ints
  <2>2. PICK d \in Seq(DigitChars) : d = Decimal[v]
    BY <2>1, PositiveDecimal
  <2>3. PrintfInt(x) = <<Minus>> \o d
    BY <1>1, <1>5, <2>1, <2>2 DEF PrintfInt, PrintUint
  <2>4. Head(<<Minus>> \o d) = Minus /\ Tail(<<Minus>> \o d) = d
    <3>1. PICK C : C = DigitChars \cup {Minus}
      OBVIOUS
    <3>2. d \in Seq(C) /\ Minus \in C
      BY <3>1
    <3>3. QED
      BY <3>2, HeadTailOfPrefixed
  <2>5. LeadingDigits(d) = d
    BY AllLeadingDigits
  <2>6. Katoi(<<Minus>> \o d) = Wrap(-ValueOf(d))
    BY <2>4, <2>5 DEF Katoi
  <2>7. ValueOf(d) = Wrap(v)
    <3>1. v \in 0 .. MaxInt + 1
      BY <2>1
    <3>2. QED
      BY <2>2, <3>1, ValueOfDecimal
  <2>8. CASE v <= MaxInt
    <3>1. v \in Ints /\ -v = x
      BY <1>1, <2>1, <2>8 DEF Ints
    <3>2. Wrap(v) = v /\ Wrap(x) = x
      BY <1>2, <3>1
    <3>3. QED
      BY <2>3, <2>6, <2>7, <3>1, <3>2
  <2>9. CASE v = MaxInt + 1
    <3>1. x = MinInt /\ -MinInt = MaxInt + 1 /\ v = -MinInt
      BY <1>1, <2>1, <2>9
    <3>2. Wrap(MaxInt + 1) = MinInt
      BY <1>1, WrapsOnce
    <3>3. QED
      BY <2>3, <2>6, <2>7, <2>9, <3>1, <3>2
  <2>10. QED
    BY <1>1, <2>1, <2>8, <2>9
<1>6. QED
  BY <1>1, <1>3, <1>4, <1>5

(* The shell's own print_int agrees with printf's, but for the smallest int.*)
LEMMA ShellPrints ==
  ASSUME NEW r \in Ints \ {MinInt}
  PROVE  ShellPrintInt(Wrap(r)) = PrintfInt(r)
<1>1. MaxInt \in Nat \ {0} /\ MinInt = -MaxInt - 1 /\ r \in Int
  BY CommandsAssumption DEF MinInt, Ints
<1>2. -r \in Ints /\ -r \in Int
  BY <1>1 DEF Ints
<1>3. Wrap(r) = r /\ Wrap(-r) = -r
  BY <1>1, <1>2, WrapIsInt
<1>4. CASE r = 0
  BY <1>3, <1>4 DEF ShellPrintInt, PrintfInt, PrintUint
<1>5. CASE r > 0
  <2>1. ~(r < 0) /\ r # 0
    BY <1>1, <1>5
  <2>2. QED
    BY <1>3, <1>5, <2>1 DEF ShellPrintInt, PrintfInt, PrintUint
<1>6. CASE r < 0
  <2>1. ~(r > 0) /\ r # 0 /\ -r > 0 /\ -r # 0
    BY <1>1, <1>6
  <2>2. QED
    BY <1>3, <1>6, <2>1 DEF ShellPrintInt, PrintfInt, PrintUint
<1>7. QED
  BY <1>1, <1>4, <1>5, <1>6

(* The quotient of C is the only one whose rest is less than the divisor    *)
(* and has the sign of the dividend.                                        *)
LEMMA QuotientIsUnique ==
  ASSUME NEW x \in Ints, NEW y \in Ints, y # 0, NEW q \in Ints, IsQuotient(q, x, y)
  PROVE  Quotient(x, y) = q
<1>1. MaxInt \in Nat \ {0} /\ MinInt = -MaxInt - 1
  BY CommandsAssumption DEF MinInt
<1>2. x \in Int /\ y \in Int /\ q \in Int
  BY <1>1 DEF Ints
<1>3. PICK rest \in Int : /\ rest = x - q * y
                          /\ x < 0 => rest <= 0
                          /\ x >= 0 => rest >= 0
                          /\ rest * rest < y * y
  <2>1. x - q * y \in Int
    BY <1>2
  <2>2. x - q * y \in (IF x < 0 THEN -MaxInt .. 0 ELSE 0 .. MaxInt)
        /\ (x - q * y) * (x - q * y) < y * y
    BY DEF IsQuotient
  <2>3. PICK rest \in Int : rest = x - q * y
    BY <2>1
  <2>4. x >= 0 => ~(x < 0)
    BY <1>2
  <2>5. QED
    BY <1>1, <2>2, <2>3, <2>4
<1>4. PICK a \in Nat, b \in Nat \ {0}, r \in Nat :
        /\ a = IF x < 0 THEN -x ELSE x
        /\ b = IF y < 0 THEN -y ELSE y
        /\ r = IF rest < 0 THEN -rest ELSE rest
  <2>1. /\ (IF x < 0 THEN -x ELSE x) \in Nat
        /\ (IF y < 0 THEN -y ELSE y) \in Nat \ {0}
        /\ (IF rest < 0 THEN -rest ELSE rest) \in Nat
    BY <1>2
  <2>2. QED
    BY <2>1
<1>5. r * r < b * b
  <2>1. r * r = rest * rest /\ b * b = y * y
    BY <1>2, <1>4
  <2>2. QED
    BY <1>3, <2>1
<1>6. r < b
  BY <1>5
<1>7. PICK p \in Int : p = IF (x < 0) = (y < 0) THEN q ELSE -q
  BY <1>2
<1>8. a = p * b + r
  BY <1>2, <1>3, <1>4, <1>7
<1>9. p >= 0
  BY <1>6, <1>8
<1>10. a \div b = p
  BY <1>6, <1>8, <1>9
<1>11. Quotient(x, y) = IF (x < 0) = (y < 0) THEN a \div b ELSE -(a \div b)
  BY <1>4 DEF Quotient
<1>12. QED
  BY <1>2, <1>7, <1>10, <1>11

CalcLine(x, op, y) == <<<<"calc">>, PrintfInt(x), <<op>>, PrintfInt(y)>>

LEMMA CmdCalcReads ==
  ASSUME NEW x \in Ints, NEW y \in Ints, NEW op
  PROVE  CmdCalc(CalcLine(x, op, y)) = Calc(x, op, y)
<1>1. PICK u, v : u = PrintfInt(x) /\ v = PrintfInt(y) /\ Katoi(u) = x /\ Katoi(v) = y
  BY KatoiReads
<1>2. PICK argv : argv = <<<<"calc">>, u, <<op>>, v>>
  OBVIOUS
<1>3. Len(argv) = 4 /\ argv[2] = u /\ argv[3] = <<op>> /\ argv[4] = v
  BY <1>2
<1>4. Head(<<op>>) = op
  OBVIOUS
<1>5. CalcLine(x, op, y) = argv
  BY <1>1, <1>2 DEF CalcLine
<1>6. CmdCalc(argv) = Calc(x, op, y)
  BY <1>1, <1>3, <1>4 DEF CmdCalc
<1>7. QED
  BY <1>5, <1>6

LEMMA CalcExactly ==
  ASSUME NEW x \in Ints, NEW y \in Ints
  PROVE  /\ x + y \in Ints \ {MinInt} => Calc(x, "+", y) = PrintfInt(x + y)
         /\ x - y \in Ints \ {MinInt} => Calc(x, "-", y) = PrintfInt(x - y)
         /\ x * y \in Ints \ {MinInt} => Calc(x, "*", y) = PrintfInt(x * y)
         /\ y = 0 => Calc(x, "/", y) = "Math Error"
         /\ y # 0 => \A q \in Ints \ {MinInt} :
              IsQuotient(q, x, y) => Calc(x, "/", y) = PrintfInt(q)
<1>1. MaxInt \in Nat \ {0} /\ MinInt = -MaxInt - 1 /\ x \in Int /\ y \in Int
  BY CommandsAssumption DEF MinInt, Ints
<1>2. /\ Calc(x, "+", y) = ShellPrintInt(Wrap(x + y))
      /\ Calc(x, "-", y) = ShellPrintInt(Wrap(x - y))
      /\ Calc(x, "*", y) = ShellPrintInt(Wrap(x * y))
      /\ y = 0 => Calc(x, "/", y) = "Math Error"
      /\ y # 0 /\ ~(x = MinInt /\ y = -1) => Calc(x, "/", y) = ShellPrintInt(Quotient(x, y))
  BY DEF Calc
<1>3. ASSUME NEW q \in Ints \ {MinInt}, y # 0, IsQuotient(q, x, y)
      PROVE  Calc(x, "/", y) = PrintfInt(q)
  <2>1. ~(x = MinInt /\ y = -1)
    <3>1. SUFFICES ASSUME x = MinInt, y = -1
                   PROVE  FALSE
      OBVIOUS
    <3>2. q \in Int /\ q <= MaxInt
      BY <1>1 DEF Ints
    <3>3. (x - q * y) * (x - q * y) < y * y
      BY <1>3 DEF IsQuotient
    <3>4. PICK rest \in Int : rest = x - q * y /\ rest = x + q /\ rest * rest < 1
      <4>1. x - q * y = x + q /\ y * y = 1
        BY <1>1, <3>1, <3>2
      <4>2. QED
        BY <1>1, <3>2, <3>3, <4>1
    <3>5. rest = 0
      <4>1. rest >= 1 => rest * rest >= 1
        OBVIOUS
      <4>2. rest <= -1 => rest * rest >= 1
        OBVIOUS
      <4>3. QED
        BY <3>4, <4>1, <4>2
    <3>6. QED
      BY <1>1, <3>1, <3>2, <3>4, <3>5
  <2>2. Quotient(x, y) = q
    BY <1>3, QuotientIsUnique
  <2>3. Wrap(q) = q
    <3>1. q \in Int
      BY <1>1 DEF Ints
    <3>2. QED
      BY <3>1, WrapIsInt
  <2>4. ShellPrintInt(Wrap(q)) = PrintfInt(q)
    BY ShellPrints
  <2>5. QED
    BY <1>2, <1>3, <2>1, <2>2, <2>3, <2>4
<1>4. \A r \in Ints \ {MinInt} : ShellPrintInt(Wrap(r)) = PrintfInt(r)
  BY ShellPrints
<1>5. QED
  BY <1>2, <1>3, <1>4

(* Whatever the two ints, calc reads them as they are written, and its      *)
(* answer is exact whenever it is an int that can be printed; a divisor of  *)
(* zero is refused.                                                         *)
THEOREM SpecCalcIsExact == ProcessShellSpec => []CalcIsExact
<1>1. ASSUME NEW x \in Ints, NEW y \in Ints, NEW op
      PROVE  CalcShows(x, op, y) = Calc(x, op, y)
  BY CmdCalcReads, Zenon DEF CalcShows, CalcLine
<1>2. IsExact
  <2>1. SUFFICES ASSUME NEW x \in Ints, NEW y \in Ints
        PROVE  /\ CalcIsExactFor(x, "+", y, x + y)
               /\ CalcIsExactFor(x, "-", y, x - y)
               /\ CalcIsExactFor(x, "*", y, x * y)
               /\ y = 0 => CalcShows(x, "/", y) = "Math Error"
               /\ y # 0 => \A q \in Ints :
                    IsQuotient(q, x, y) => CalcIsExactFor(x, "/", y, q)
    BY Zenon DEF IsExact
  <2>2. \A op : CalcShows(x, op, y) = Calc(x, op, y)
    BY <1>1
  <2>3. /\ x + y \in Ints \ {MinInt} => Calc(x, "+", y) = PrintfInt(x + y)
        /\ x - y \in Ints \ {MinInt} => Calc(x, "-", y) = PrintfInt(x - y)
        /\ x * y \in Ints \ {MinInt} => Calc(x, "*", y) = PrintfInt(x * y)
        /\ y = 0 => Calc(x, "/", y) = "Math Error"
    BY CalcExactly, Zenon
  <2>4. ASSUME NEW q \in Ints, y # 0, IsQuotient(q, x, y), q \in Ints \ {MinInt}
        PROVE  Calc(x, "/", y) = PrintfInt(q)
    BY <2>4, CalcExactly, Zenon
  <2>5. QED
    BY <2>2, <2>3, <2>4, Zenon DEF CalcIsExactFor
<1>3. CalcIsExact
  BY <1>2, Zenon DEF CalcIsExact
<1>4. QED
  BY <1>3, PTL

-----------------------------------------------------------------------------
(* What a line can do to the process table, whatever is typed: nothing, or  *)
(* one operation, whose numbers are ints or the shell's defaults.           *)
Operation ==
  \/ \E b \in Ints \cup {DefaultBurst} : CreateProcess(b)
  \/ \E p \in Ints, b \in Ints \cup {DefaultThreadBurst} : CreateThread(p, b)
  \/ \E n \in 1 .. MaxTimes : SchedTimes(n)
  \/ \E p \in SchedPolicy : SetPolicy(p)

LEMMA CommandIsOperation ==
  ASSUME NEW line \in Lines, ExecuteLine(line)
  PROVE  Operation \/ UNCHANGED vars
<1> DEFINE C == UNION {ToSet(l) : l \in Lines}
<1>1. PICK argv \in Seq(Words(C)) : argv = Tokenize(line)
  <2>1. line \in Seq(C)
    BY ProcessShellAssumption
  <2> HIDE DEF C
  <2>2. QED
    BY <2>1, TokenizeGivesWords
<1>2. \A k \in DOMAIN argv : Katoi(argv[k]) \in Ints
  <2> SUFFICES ASSUME NEW k \in DOMAIN argv PROVE Katoi(argv[k]) \in Ints
    OBVIOUS
  <2> HIDE DEF C
  <2>1. argv[k] \in Words(C)
    BY <1>1
  <2>2. QED
    BY <2>1, KatoiIsInt, Zenon
<1>3. \A k \in Nat \ {0} : \A default : Len(argv) >= k => NumberAt(argv, k, default) \in Ints
  BY <1>1, <1>2 DEF NumberAt
<1>4. \A k \in Nat \ {0} : \A default : NumberAt(argv, k, default) \in Ints \cup {default}
  BY <1>1, <1>3 DEF NumberAt
<1>5. CASE CmdMkproc(argv)
  <2>1. NumberAt(argv, 2, DefaultBurst) \in Ints \cup {DefaultBurst}
    BY <1>4
  <2>2. QED
    BY <1>5, <2>1, Zenon DEF CmdMkproc, Operation
<1>6. CASE CmdMkthr(argv)
  <2>1. NumberAt(argv, 3, DefaultThreadBurst) \in Ints \cup {DefaultThreadBurst}
    BY <1>4
  <2>2. ~(Len(argv) < 2) => Katoi(argv[2]) \in Ints
    BY <1>1, <1>2
  <2>3. QED
    BY <1>6, <2>1, <2>2, Zenon DEF CmdMkthr, Operation
<1>7. CASE CmdPolicy(argv)
  <2>1. "RR" \in SchedPolicy /\ "SRTF" \in SchedPolicy
    BY DEF SchedPolicy
  <2>2. UNCHANGED vars \/ SetPolicy("RR") \/ SetPolicy("SRTF")
    BY <1>7, Zenon DEF CmdPolicy
  <2>3. QED
    BY <2>1, <2>2, Zenon DEF Operation
<1>8. CASE SchedTimes(TimesOf(argv))
  <2>1. NumberAt(argv, 2, DefaultTimes) \in Int
    <3>1. Ints \subseteq Int
      BY CommandsAssumption DEF Ints, MinInt
    <3>2. DefaultTimes \in Int /\ 2 \in Nat \ {0}
      BY ProcessShellAssumption
    <3>3. NumberAt(argv, 2, DefaultTimes) \in Ints \cup {DefaultTimes}
      BY <1>4, <3>2, Zenon
    <3>4. QED
      BY <3>1, <3>2, <3>3, Zenon
  <2>2. TimesOf(argv) \in 1 .. MaxTimes
    <3>1. PICK n \in Int : n = NumberAt(argv, 2, DefaultTimes)
      BY <2>1
    <3>2. TimesOf(argv) = IF n < 1 THEN 1 ELSE IF n > MaxTimes THEN MaxTimes ELSE n
      BY <3>1, Zenon DEF TimesOf
    <3>3. MaxTimes \in Nat \ {0}
      BY SchedulerAssumption
    <3>4. QED
      BY <3>2, <3>3
  <2>3. QED
    BY <1>8, <2>2, Zenon DEF Operation
<1>9. QED
  BY <1>1, <1>5, <1>6, <1>7, <1>8, Zenon DEF ExecuteLine

(* The numbers of the lines are among the arguments ShellSpec has for the    *)
(* operations.                                                              *)
NumbersAreArguments ==
  /\ {DefaultBurst, DefaultThreadBurst} \subseteq Bursts
  /\ \A line \in Lines :
       LET argv == Tokenize(line) IN
       Len(argv) >= 2 =>
         /\ argv[1] = <<"mkproc">> => Katoi(argv[2]) \in Bursts
         /\ argv[1] = <<"mkthr">> => Katoi(argv[2]) \in ParentPids
         /\ argv[1] = <<"mkthr">> /\ Len(argv) >= 3 => Katoi(argv[3]) \in Bursts

LEMMA TokensAreWords ==
  ASSUME NEW line \in Lines
  PROVE  /\ Tokenize(line) \in Seq(Words(UNION {ToSet(l) : l \in Lines}))
         /\ \A k \in DOMAIN Tokenize(line) : Katoi(Tokenize(line)[k]) \in Ints
<1> DEFINE C == UNION {ToSet(l) : l \in Lines}
<1>1. line \in Seq(C)
  BY ProcessShellAssumption
<1> HIDE DEF C
<1>2. Tokenize(line) \in Seq(Words(C))
  BY <1>1, TokenizeGivesWords
<1>3. ASSUME NEW k \in DOMAIN Tokenize(line)
      PROVE  Katoi(Tokenize(line)[k]) \in Ints
  <2>1. Tokenize(line)[k] \in Words(C)
    BY <1>2
  <2>2. QED
    BY <2>1, KatoiIsInt, Zenon
<1>4. QED
  BY <1>2, <1>3 DEF C

(* When the operations take any int, as process.h does, no line is left out. *)
LEMMA AnyIntIsArgument ==
  ASSUME Ints \cup {DefaultBurst, DefaultThreadBurst} \subseteq Bursts,
         Ints \subseteq ParentPids
  PROVE  NumbersAreArguments
<1>1. ASSUME NEW line \in Lines, NEW k \in {2, 3}, Len(Tokenize(line)) >= k
      PROVE  Katoi(Tokenize(line)[k]) \in Bursts \cap ParentPids
  <2>1. k \in DOMAIN Tokenize(line)
    BY <1>1, TokensAreWords
  <2>2. Katoi(Tokenize(line)[k]) \in Ints
    BY <2>1, TokensAreWords
  <2>3. QED
    BY <2>2
<1>2. QED
  BY <1>1 DEF NumbersAreArguments

LEMMA LineIsShellStep ==
  ASSUME NumbersAreArguments, NEW line \in Lines, times = 0, ExecuteLine(line)
  PROVE  ShellNext \/ UNCHANGED vars
<1>1. PICK argv \in Seq(Words(UNION {ToSet(l) : l \in Lines})) : argv = Tokenize(line)
  BY TokensAreWords
<1>2. /\ DefaultBurst \in Bursts /\ DefaultThreadBurst \in Bursts
      /\ Len(argv) >= 2 =>
           /\ argv[1] = <<"mkproc">> => Katoi(argv[2]) \in Bursts
           /\ argv[1] = <<"mkthr">> => Katoi(argv[2]) \in ParentPids
           /\ argv[1] = <<"mkthr">> /\ Len(argv) >= 3 => Katoi(argv[3]) \in Bursts
  BY <1>1 DEF NumbersAreArguments
<1>3. CASE argv[1] = <<"mkproc">> /\ CmdMkproc(argv)
  <2>1. NumberAt(argv, 2, DefaultBurst) \in Bursts
    BY <1>1, <1>2, <1>3 DEF NumberAt
  <2>2. QED
    BY <1>3, <2>1, Zenon DEF CmdMkproc, ShellNext
<1>4. CASE argv[1] = <<"mkthr">> /\ CmdMkthr(argv)
  <2>1. CASE Len(argv) < 2
    BY <1>4, <2>1, Zenon DEF CmdMkthr
  <2>2. CASE ~(Len(argv) < 2)
    <3>1. Katoi(argv[2]) \in ParentPids
      BY <1>1, <1>2, <1>4, <2>2
    <3>2. NumberAt(argv, 3, DefaultThreadBurst) \in Bursts
      BY <1>1, <1>2, <1>4, <2>2 DEF NumberAt
    <3>3. QED
      BY <1>4, <3>1, <3>2, Zenon DEF CmdMkthr, ShellNext
  <2>3. QED
    BY <2>1, <2>2
<1>5. CASE ~(argv[1] = <<"mkproc">>) /\ ~(argv[1] = <<"mkthr">>)
  <2>1. (\E n \in 1 .. MaxTimes : SchedTimes(n)) \/ (\E p \in SchedPolicy : SetPolicy(p))
          \/ UNCHANGED vars
    <3>1. CASE CmdPolicy(argv)
      <4>1. "RR" \in SchedPolicy /\ "SRTF" \in SchedPolicy
        BY DEF SchedPolicy
      <4>2. UNCHANGED vars \/ SetPolicy("RR") \/ SetPolicy("SRTF")
        BY <3>1, Zenon DEF CmdPolicy
      <4>3. QED
        BY <4>1, <4>2, Zenon
    <3>2. CASE SchedTimes(TimesOf(argv))
      <4>1. NumberAt(argv, 2, DefaultTimes) \in Int
        <5>1. Len(argv) >= 2 => Katoi(argv[2]) \in Ints
          BY <1>1, TokensAreWords
        <5>2. QED
          BY <5>1, ProcessShellAssumption, CommandsAssumption DEF Ints, MinInt, NumberAt
      <4>2. TimesOf(argv) \in 1 .. MaxTimes
        BY <4>1, SchedulerAssumption DEF TimesOf
      <4>3. QED
        BY <3>2, <4>2, Zenon
    <3>3. CASE UNCHANGED vars
      BY <3>3
    <3>4. QED
      BY <1>1, <1>5, <3>1, <3>2, <3>3, Zenon DEF ExecuteLine
  <2>2. QED
    BY <2>1, Zenon DEF ShellNext
<1>6. CASE UNCHANGED vars
  BY <1>6
<1>7. /\ argv[1] = <<"mkproc">> => CmdMkproc(argv) \/ UNCHANGED vars
      /\ argv[1] = <<"mkthr">> => CmdMkthr(argv) \/ UNCHANGED vars
  <2>1. /\ <<"mkproc">> # <<"mkthr">> /\ <<"mkproc">> # <<"policy">>
        /\ <<"mkproc">> # <<"sched">> /\ <<"mkthr">> # <<"policy">>
        /\ <<"mkthr">> # <<"sched">>
    OBVIOUS
  <2> DEFINE m == argv[1]
  <2>2. m = <<"mkproc">> => CmdMkproc(argv) \/ UNCHANGED vars
    BY <1>1, <2>1, Zenon DEF ExecuteLine
  <2>3. m = <<"mkthr">> => CmdMkthr(argv) \/ UNCHANGED vars
    BY <1>1, <2>1, Zenon DEF ExecuteLine
  <2>4. QED
    BY <2>2, <2>3
<1>8. QED
  BY <1>3, <1>4, <1>5, <1>6, <1>7, Zenon

(* Whatever is typed (execute_line of kernel_shell.c), blanks, signs and    *)
(* numbers that overflow included, a command does no more than one          *)
(* operation of process.h does, and runs schedule() 1 to MaxTimes times.    *)
THEOREM ShellCommandsAreOperations ==
  ASSUME NumbersAreArguments
  PROVE  ProcessShellSpec => CommandsAreOperations
<1>1. RRInit => Init
  BY DEF RRInit
<1>2. ASSUME [ProcessShellNext]_rrVars
      PROVE  [ShellNext]_vars
  <2>1. ASSUME NEW line \in Lines, Command(line)
        PROVE  ShellNext \/ UNCHANGED vars
    BY <2>1, LineIsShellStep, Zenon DEF Command
  <2>2. CASE ScheduleStep
    BY <2>2, Zenon DEF ShellNext
  <2>3. CASE UNCHANGED rrVars
    BY <2>3 DEF rrVars
  <2>4. QED
    BY <1>2, <2>1, <2>2, <2>3, Zenon DEF ProcessShellNext
<1>3. QED
  BY <1>1, <1>2, PTL DEF ProcessShellSpec, CommandsAreOperations, ShellSpec
-----------------------------------------------------------------------------
(* How fair schedule_rr is.  Turn(i) is when the next scan looks at slot i. *)
(* A waiting task is overtaken by a task that comes before it in the scan   *)
(* no more often than tasks completed: dispatching that task moves it       *)
(* behind.  And what is READY is in the part of the table that is scanned.  *)
TurnFrom(c, i) == IF i > c THEN i ELSE i + MaxProcesses
Turn(i) == TurnFrom(current_index, i)
RecordOK ==
  /\ overtaken \in [Slots -> [Slots -> Nat]]
  /\ completed \in [Slots -> Nat]
OvertakenInTurn ==
  \A i, j \in Slots :
    overtaken[i][j] <= completed[i] + (IF Turn(j) < Turn(i) THEN 0 ELSE 1)
RestIsUnused == \A i \in Slots \ Used : process_table[i].state = "UNUSED"
RRInv == IInv /\ RecordOK /\ OvertakenInTurn /\ RestIsUnused

LEMMA RRInitInv == RRInit => RRInv
<1> SUFFICES ASSUME RRInit PROVE RRInv
  OBVIOUS
<1>1. IInv
  BY InitIInv DEF RRInit
<1>2. \A i, j \in Slots : overtaken[i][j] = 0 /\ completed[i] = 0
  BY DEF RRInit, NobodyOvertaken, NothingCompleted
<1>3. RecordOK
  BY DEF RRInit, NobodyOvertaken, NothingCompleted, RecordOK
<1>4. OvertakenInTurn /\ RestIsUnused
  BY <1>2 DEF OvertakenInTurn, RestIsUnused, RRInit, Init, NoTask
<1>5. QED
  BY <1>1, <1>3, <1>4 DEF RRInv

(* The scan of schedule_rr looks at the slots by their turn, counted from   *)
(* where the tick left current_index.                                       *)
LEMMA ScanIsInTurn ==
  ASSUME IInv, NEW i \in Used, NEW j \in Used, ScanDistance(i) < ScanDistance(j)
  PROVE  TurnFrom(IndexAfterTick, i) < TurnFrom(IndexAfterTick, j)
<1>1. PICK n \in Nat, t \in Int :
        /\ n = process_count /\ n <= MaxProcesses
        /\ t = IndexAfterTick /\ t \in -1 .. n - 1
  <2>1. IndexAfterTick \in {-1} \cup Used /\ process_count \in 0 .. MaxProcesses
    BY TickAndDemote DEF IInv, TypeOK
  <2>2. QED
    BY <2>1, SchedulerAssumption DEF Used
<1>2. i \in 0 .. n - 1 /\ j \in 0 .. n - 1 /\ n \in Nat \ {0}
  BY <1>1 DEF Used
<1>3. ASSUME NEW k \in 0 .. n - 1
      PROVE  (k - (t + 1) + n) % n = IF k > t THEN k - (t + 1) ELSE k - (t + 1) + n
  <2>1. PICK d \in 0 .. 2 * n - 1 : d = k - (t + 1) + n
    BY <1>1, <1>2
  <2>2. d % n = IF d >= n THEN d - n ELSE d
    BY <1>2, <2>1
  <2>3. QED
    BY <1>1, <1>2, <2>1, <2>2
<1>4. /\ ScanDistance(i) = IF i > t THEN i - (t + 1) ELSE i - (t + 1) + n
      /\ ScanDistance(j) = IF j > t THEN j - (t + 1) ELSE j - (t + 1) + n
  BY <1>1, <1>2, <1>3 DEF ScanDistance
<1>5. QED
  BY <1>1, <1>2, <1>4, SchedulerAssumption DEF TurnFrom

(* What comes before i when the scan starts behind k came before i when the *)
(* scan started behind c and found k first.                                 *)
LEMMA TurnsAreCyclic ==
  ASSUME NEW c \in -1 .. MaxProcesses - 1, NEW k \in Slots, NEW i \in Slots,
         TurnFrom(c, k) < TurnFrom(c, i)
  PROVE  /\ k # i /\ ~(TurnFrom(k, k) < TurnFrom(k, i))
         /\ \A j \in Slots : TurnFrom(k, j) < TurnFrom(k, i) =>
              TurnFrom(c, j) < TurnFrom(c, i)
<1>1. MaxProcesses \in Nat /\ c \in Int /\ k \in Int /\ i \in Int
  BY SchedulerAssumption DEF Slots
<1>2. QED
  BY <1>1 DEF TurnFrom, Slots

LEMMA ScheduleStepKeepsTurn ==
  ASSUME RRInv, ScheduleStep, RecordDispatch
  PROVE  RRInv'
<1> USE SchedulerAssumption
<1>1. IInv /\ IInv'
  BY ScheduleStepPreserves DEF RRInv
<1>2. RecordOK'
  <2>1. \A i, j \in Slots : overtaken[i][j] \in Nat /\ completed[i] \in Nat
    BY DEF RRInv, RecordOK
  <2>2. QED
    BY <2>1 DEF RecordDispatch, RecordOK
<1>3. /\ Used' = Used /\ Used \subseteq Slots /\ -1 \notin Slots
      /\ current_index \in {-1} \cup Used
  BY <1>1 DEF ScheduleStep, Schedule, Used, Slots, IInv, TypeOK
<1>4. /\ \A i \in Slots \ Used : DemoteRunning[i] = process_table[i]
      /\ DemoteRunning \in [Slots -> PCB]
  BY <1>1, <1>3, TickAndDemote
<1>5. CASE PickNothing
  <2>1. process_table' = DemoteRunning
    BY <1>5 DEF PickNothing
  <2>2. RestIsUnused'
    BY <1>3, <1>4, <2>1 DEF RRInv, RestIsUnused
  <2>3. \A i \in Slots : process_table'[i].state # "READY"
    BY <1>3, <1>4, <1>5, <2>1 DEF RRInv, RestIsUnused, PickNothing, Candidates
  <2>4. \A i, j \in Slots : overtaken'[i][j] = 0 /\ completed'[i] = 0
    BY <2>3 DEF RecordDispatch, Waits
  <2>5. OvertakenInTurn'
    BY <2>4 DEF OvertakenInTurn
  <2>6. QED
    BY <1>1, <1>2, <2>2, <2>5 DEF RRInv
<1>6. ASSUME NEW k \in Candidates, Selected(k), PickRunning(k)
      PROVE  RRInv'
  <2>1. k \in Used /\ k \in Slots /\ current_index' = k
    BY <1>3, <1>6 DEF Candidates, PickRunning
  <2>2. /\ \A i \in Slots \ {k} : process_table'[i] = DemoteRunning[i]
        /\ process_table'[k].state = "RUNNING"
    BY <1>4, <1>6, <2>1 DEF PickRunning, PCB, ProcessState
  <2>3. RestIsUnused'
    BY <1>3, <1>4, <2>1, <2>2 DEF RRInv, RestIsUnused
  <2>4. ASSUME NEW i \in Slots, NEW j \in Slots
        PROVE  overtaken'[i][j] <=
                 completed'[i] + (IF TurnFrom(k, j) < TurnFrom(k, i) THEN 0 ELSE 1)
    <3>1. /\ overtaken[i][j] \in Nat /\ completed[i] \in Nat
          /\ overtaken[i][j] <=
               completed[i] + (IF TurnFrom(current_index, j) < TurnFrom(current_index, i)
                               THEN 0 ELSE 1)
      BY DEF RRInv, RecordOK, OvertakenInTurn, Turn
    <3>2. CASE ~Waits(i)
      <4>1. overtaken'[i][j] = 0 /\ completed'[i] = 0
        BY <3>2 DEF RecordDispatch
      <4>2. QED
        BY <4>1
    <3>3. CASE Waits(i)
      <4>1. i \in Candidates /\ i # k /\ i \in Used
        BY <1>3, <1>4, <2>2, <3>3 DEF Waits, Candidates, RRInv, RestIsUnused
      <4>2. ScanDistance(k) < ScanDistance(i)
        BY <1>6, <3>3, <4>1 DEF Waits, Selected, SelectRR, SchedPolicy
      <4>3. PICK c \in -1 .. MaxProcesses - 1 : c = IndexAfterTick
        <5>1. IndexAfterTick \in {-1} \cup Slots
          BY <1>1, <1>3, TickAndDemote
        <5>2. QED
          BY <5>1 DEF Slots
      <4>4. TurnFrom(c, k) < TurnFrom(c, i)
        BY <1>1, <2>1, <4>1, <4>2, <4>3, ScanIsInTurn
      <4>5. /\ ~(TurnFrom(k, k) < TurnFrom(k, i))
            /\ TurnFrom(k, j) < TurnFrom(k, i) => TurnFrom(c, j) < TurnFrom(c, i)
        BY <2>1, <4>3, <4>4, TurnsAreCyclic
      <4>6. /\ overtaken'[i][j] = IF j = k THEN overtaken[i][j] + 1 ELSE overtaken[i][j]
            /\ completed'[i] = IF Finishes THEN completed[i] + 1 ELSE completed[i]
        BY <2>1, <3>3 DEF RecordDispatch
      <4>7. ~Finishes => c = current_index
        BY <4>3 DEF IndexAfterTick
      <4>8. QED
        BY <3>1, <4>4, <4>5, <4>6, <4>7
    <3>4. QED
      BY <3>2, <3>3
  <2>5. OvertakenInTurn'
    BY <2>1, <2>4 DEF OvertakenInTurn, Turn, TurnFrom
  <2>6. QED
    BY <1>1, <1>2, <2>3, <2>5 DEF RRInv
<1>7. QED
  BY <1>5, <1>6 DEF ScheduleStep, Schedule
(* An operation of the shell leaves current_index and the records alone,    *)
(* and the records start afresh when the policy is not RR.                  *)
LEMMA OperationKeepsTurn ==
  ASSUME RRInv, Operation \/ UNCHANGED vars, RecordPolicy
  PROVE  RRInv'
<1> USE SchedulerAssumption
<1>1. Ints \subseteq Int /\ DefaultBurst \in Int /\ DefaultThreadBurst \in Int
  BY CommandsAssumption, ProcessShellAssumption DEF Ints, MinInt
<1>2. ASSUME NEW b \in Int, NEW t \in BOOLEAN, NEW q \in Int, AddTask(b, t, q)
      PROVE  IInv' /\ RestIsUnused' /\ current_index' = current_index
  <2>1. process_count \in Nat /\ process_count' = process_count + 1
    BY <1>2 DEF RRInv, IInv, TypeOK, AddTask
  <2>2. Used' = Used \cup {process_count}
    BY <2>1 DEF Used
  <2>3. \A i \in Slots \ {process_count} : process_table'[i] = process_table[i]
    BY <1>2 DEF RRInv, IInv, TypeOK, AddTask
  <2>4. RestIsUnused'
    BY <2>2, <2>3 DEF RRInv, RestIsUnused
  <2>5. QED
    BY <1>2, <2>4, AddTaskPreserves DEF RRInv, AddTask
<1>3. ASSUME \/ \E n \in 1 .. MaxTimes : SchedTimes(n)
             \/ \E p \in SchedPolicy : SetPolicy(p)
             \/ UNCHANGED vars
      PROVE  IInv' /\ RestIsUnused' /\ current_index' = current_index
  <2>1. UNCHANGED <<process_table, process_count, current_index>>
    BY <1>3 DEF SchedTimes, SetPolicy, vars
  <2>2. IInv'
    BY <1>3, OtherStepsPreserve, Zenon DEF RRInv
  <2>3. QED
    BY <2>1, <2>2 DEF RRInv, RestIsUnused, Used
<1>4. IInv' /\ RestIsUnused' /\ current_index' = current_index
  <2>1. ASSUME NEW b \in Ints \cup {DefaultBurst}, CreateProcess(b)
        PROVE  IInv' /\ RestIsUnused' /\ current_index' = current_index
    <3>1. b \in Int /\ 0 \in Int
      BY <1>1
    <3>2. AddTask(b, FALSE, 0)
      BY <2>1, Zenon DEF CreateProcess
    <3>3. QED
      BY <1>2, <3>1, <3>2, Zenon
  <2>2. ASSUME NEW p \in Ints, NEW b \in Ints \cup {DefaultThreadBurst}, CreateThread(p, b)
        PROVE  IInv' /\ RestIsUnused' /\ current_index' = current_index
    <3>1. b \in Int /\ p \in Int /\ AddTask(b, TRUE, p)
      BY <1>1, <2>2 DEF CreateThread
    <3>2. QED
      BY <1>2, <3>1
  <2>3. QED
    BY <1>3, <2>1, <2>2, Zenon DEF Operation
<1>5. \/ UNCHANGED <<overtaken, completed>>
      \/ overtaken' = NobodyOvertaken /\ completed' = NothingCompleted
  BY DEF RecordPolicy
<1>6. RecordOK' /\ OvertakenInTurn'
  <2>1. CASE UNCHANGED <<overtaken, completed>>
    BY <1>4, <2>1 DEF RRInv, RecordOK, OvertakenInTurn, Turn, TurnFrom
  <2>2. CASE overtaken' = NobodyOvertaken /\ completed' = NothingCompleted
    <3>1. \A i, j \in Slots : overtaken'[i][j] = 0 /\ completed'[i] = 0
      BY <2>2 DEF NobodyOvertaken, NothingCompleted
    <3>2. OvertakenInTurn'
      BY <3>1 DEF OvertakenInTurn
    <3>3. QED
      BY <2>2, <3>2 DEF RecordOK, NobodyOvertaken, NothingCompleted
  <2>3. QED
    BY <1>5, <2>1, <2>2
<1>7. QED
  BY <1>4, <1>6 DEF RRInv

(* The invariant of the shell's steps: what schedule_rr owes every task.    *)
THEOREM ShellRRInv == ProcessShellSpec => []RRInv
<1>1. ASSUME RRInv, [ProcessShellNext]_rrVars
      PROVE  RRInv'
  <2>1. ASSUME NEW line \in Lines, Command(line)
        PROVE  RRInv'
    <3>1. ExecuteLine(line) /\ RecordPolicy
      BY <2>1, Zenon DEF Command
    <3>2. QED
      BY <1>1, <3>1, CommandIsOperation, OperationKeepsTurn, Zenon
  <2>2. CASE ScheduleStep /\ RecordDispatch
    BY <1>1, <2>2, ScheduleStepKeepsTurn, Zenon
  <2>3. CASE UNCHANGED rrVars
    <3>1. /\ UNCHANGED vars /\ UNCHANGED <<overtaken, completed>>
          /\ UNCHANGED <<process_table, process_count, current_index>>
      BY <2>3 DEF rrVars, vars
    <3>2. IInv'
      BY <1>1, <3>1, OtherStepsPreserve, Zenon DEF RRInv
    <3>3. QED
      BY <1>1, <3>1, <3>2
      DEF RRInv, RecordOK, OvertakenInTurn, RestIsUnused, Turn, TurnFrom, Used
  <2>4. QED
    BY <1>1, <2>1, <2>2, <2>3, Zenon DEF ProcessShellNext
<1>2. QED
  BY <1>1, RRInitInv, PTL DEF ProcessShellSpec

(* Under Round Robin a task that waits is overtaken by the same other task  *)
(* once, and once more for every task that completed meanwhile, whatever    *)
(* is typed (schedule_rr of process.c, behind kernel_shell.c).              *)
THEOREM ShellBoundedOvertaking == ProcessShellSpec => []BoundedOvertaking
<1>1. RRInv => BoundedOvertaking
  <2> SUFFICES ASSUME RRInv, NEW i \in Slots, NEW j \in Slots
               PROVE  overtaken[i][j] <= 1 + completed[i]
    BY DEF BoundedOvertaking
  <2>1. overtaken[i][j] \in Nat /\ completed[i] \in Nat
    BY DEF RRInv, RecordOK
  <2>2. QED
    BY <2>1 DEF RRInv, OvertakenInTurn
<1>2. QED
  BY <1>1, ShellRRInv, PTL
-----------------------------------------------------------------------------
(* The statistics.  The loop's calls are counted before they are made, so   *)
(* no counter wraps; Started are the tasks that were switched to as far as  *)
(* the table shows; and the first schedule() finds nothing to charge.       *)
Started == {i \in Used : Consumed(i) > 0 \/ i = current_index}
CallsLeft == stat_schedule_calls + times <= CallBound
CompletedCounted ==
  /\ stat_completed_tasks = Cardinality(Used \ Live)
  /\ stat_completed_tasks <= stat_schedule_calls
SwitchesCounted ==
  /\ Cardinality(Started) <= stat_context_switches
  /\ stat_context_switches <= stat_schedule_calls
RestConsumedNothing == \A i \in Slots \ Used : Consumed(i) = 0
TicksCharged ==
  IF stat_schedule_calls = 0 THEN current_index = -1 /\ TicksConsumed = 0
  ELSE TicksConsumed < stat_schedule_calls
StatsInv ==
  /\ IInv /\ CallsLeft /\ CompletedCounted /\ SwitchesCounted
  /\ RestConsumedNothing /\ TicksCharged

LEMMA SlotsAreFinite ==
  IInv => /\ IsFiniteSet(Slots) /\ Used \subseteq Slots
          /\ \A S \in SUBSET Slots : IsFiniteSet(S) /\ Cardinality(S) \in Nat
<1> SUFFICES ASSUME IInv
             PROVE  /\ IsFiniteSet(Slots) /\ Used \subseteq Slots
                    /\ \A S \in SUBSET Slots : IsFiniteSet(S) /\ Cardinality(S) \in Nat
  OBVIOUS
<1>1. IsFiniteSet(Slots)
  BY SchedulerAssumption, FS_Interval DEF Slots
<1>2. Used \subseteq Slots
  BY SchedulerAssumption DEF IInv, TypeOK, Used, Slots
<1>3. QED
  BY <1>1, <1>2, FS_Subset, FS_CardinalityType

LEMMA ConsumedIsNumber ==
  IInv => \A i \in Slots : Consumed(i) \in Int
  BY DEF IInv, TypeOK, Consumed, PCB

(* Two tables that differ in what one task consumed.                        *)
LEMMA TicksUpdate ==
  ASSUME NEW S, IsFiniteSet(S), NEW f, IntValued(f, S), NEW g, IntValued(g, S)
  PROVE  /\ SumFunctionOnSet(f, S) \in Int
         /\ (\A y \in S : f[y] = g[y]) =>
              SumFunctionOnSet(g, S) = SumFunctionOnSet(f, S)
         /\ \A x \in S : g[x] = f[x] + 1 /\ (\A y \in S \ {x} : f[y] = g[y]) =>
              SumFunctionOnSet(g, S) = SumFunctionOnSet(f, S) + 1
<1>1. SumFunctionOnSet(f, S) \in Int
  BY SumProperties, Zenon
<1>2. ASSUME \A y \in S : f[y] = g[y]
      PROVE  SumFunctionOnSet(g, S) = SumFunctionOnSet(f, S)
  BY <1>2, SumAgrees, Zenon
<1>3. ASSUME NEW x \in S, g[x] = f[x] + 1, \A y \in S \ {x} : f[y] = g[y]
      PROVE  SumFunctionOnSet(g, S) = SumFunctionOnSet(f, S) + 1
  <2>1. SumFunctionOnSet(g, S) = SumFunctionOnSet(f, S) + (g[x] - f[x])
    BY <1>3, SumUpdate
  <2>2. f[x] \in Int /\ g[x] - f[x] = 1
    BY <1>3 DEF IntValued
  <2>3. QED
    BY <2>1, <2>2
<1>4. QED
  BY <1>1, <1>2, <1>3, Zenon

(* What one call of schedule() does to the columns the statistics are about.*)
LEMMA ScheduleColumns ==
  ASSUME IInv, ScheduleStep
  PROVE  /\ IInv' /\ Used' = Used
         /\ \A i \in Slots : Consumed(i)' =
              IF i = current_index THEN Consumed(i) + 1 ELSE Consumed(i)
         /\ Live' = IF Finishes THEN Live \ {current_index} ELSE Live
         /\ current_index # -1 => current_index \in Live /\ current_index \in Slots
         /\ \/ /\ current_index' = -1
               /\ UNCHANGED stat_context_switches
            \/ /\ current_index' \in Used
               /\ stat_context_switches' =
                    IF current_index' = current_index /\ ~Finishes
                    THEN stat_context_switches
                    ELSE Incr(stat_context_switches)
<1> USE SchedulerAssumption
<1>1. /\ IInv' /\ Used' = Used /\ Used \subseteq Slots
      /\ -1 \notin Used /\ -1 \notin Slots
  BY ScheduleStepPreserves, SlotsAreFinite DEF ScheduleStep, Schedule, Used, Slots
<1>2. current_index \in {-1} \cup Used /\ process_table \in [Slots -> PCB]
  BY DEF IInv, TypeOK
<1>3. /\ DemoteRunning \in [Slots -> PCB] /\ TickCharged
      /\ \A i \in Slots \ {current_index} : DemoteRunning[i] = process_table[i]
      /\ IndexAfterTick # -1 => IndexAfterTick \in Candidates
  BY TickAndDemote
<1>4. /\ \A i \in Slots : /\ process_table'[i].burst_ticks = DemoteRunning[i].burst_ticks
                          /\ process_table'[i].remaining_ticks = DemoteRunning[i].remaining_ticks
                          /\ process_table'[i].state = "UNUSED" <=>
                               DemoteRunning[i].state = "UNUSED"
      /\ \/ /\ current_index' = -1
            /\ UNCHANGED stat_context_switches
         \/ /\ current_index' \in Used
            /\ stat_context_switches' = IF current_index' # IndexAfterTick
                                        THEN Incr(stat_context_switches)
                                        ELSE stat_context_switches
  <2>1. CASE PickNothing
    <3>1. IndexAfterTick = -1
      BY <1>3, <2>1 DEF PickNothing
    <3>2. QED
      BY <2>1, <3>1 DEF PickNothing
  <2>2. CASE ~PickNothing
    <3>1. PICK k \in Candidates : PickRunning(k)
      BY <2>2, Zenon DEF ScheduleStep, Schedule
    <3>2. /\ k \in Used /\ k \in Slots /\ DemoteRunning[k].state = "READY"
          /\ process_table' = [DemoteRunning EXCEPT ![k].state = "RUNNING"]
          /\ current_index' = k
      BY <1>1, <3>1 DEF PickRunning, Candidates
    <3>3. \A i \in Slots : /\ process_table'[i].burst_ticks = DemoteRunning[i].burst_ticks
                          /\ process_table'[i].remaining_ticks = DemoteRunning[i].remaining_ticks
                          /\ process_table'[i].state = "UNUSED" <=>
                               DemoteRunning[i].state = "UNUSED"
      BY <1>3, <3>2 DEF PCB
    <3>4. QED
      BY <3>1, <3>2, <3>3 DEF PickRunning
  <2>3. QED
    BY <2>1, <2>2
<1>5. \A i \in Slots : Consumed(i)' =
        IF i = current_index THEN Consumed(i) + 1 ELSE Consumed(i)
  <2> SUFFICES ASSUME NEW i \in Slots
               PROVE  Consumed(i)' = IF i = current_index THEN Consumed(i) + 1 ELSE Consumed(i)
    OBVIOUS
  <2>1. Consumed(i)' = DemoteRunning[i].burst_ticks - DemoteRunning[i].remaining_ticks
    BY <1>4 DEF Consumed
  <2>2. CASE i = current_index
    <3>1. /\ DemoteRunning[i].burst_ticks = process_table[i].burst_ticks
          /\ DemoteRunning[i].remaining_ticks = process_table[i].remaining_ticks - 1
      BY <1>1, <1>3, <2>2 DEF TickCharged
    <3>2. process_table[i].burst_ticks \in Nat /\ process_table[i].remaining_ticks \in Nat
      BY <1>2 DEF PCB
    <3>3. QED
      BY <2>1, <2>2, <3>1, <3>2 DEF Consumed
  <2>3. CASE i # current_index
    BY <1>3, <2>1, <2>3 DEF Consumed
  <2>4. QED
    BY <2>2, <2>3
<1>6. current_index # -1 => current_index \in Live /\ current_index \in Slots
  BY <1>1, <1>2, <1>3 DEF TickCharged, Live
<1>7. Live' = IF Finishes THEN Live \ {current_index} ELSE Live
  <2>1. Live' = {i \in Used : DemoteRunning[i].state # "UNUSED"}
    BY <1>1, <1>4 DEF Live
  <2>2. CASE current_index = -1
    BY <1>1, <1>3, <2>1, <2>2 DEF TickCharged, Live
  <2>3. CASE current_index # -1
    BY <1>1, <1>3, <1>6, <2>1, <2>3 DEF TickCharged, Live
  <2>4. QED
    BY <2>2, <2>3
<1>8. current_index' \in Used =>
        (current_index' = IndexAfterTick <=> current_index' = current_index /\ ~Finishes)
  BY <1>1, <1>3 DEF TickCharged
<1>9. QED
  BY <1>1, <1>4, <1>5, <1>6, <1>7, <1>8
(* The counters are far from their modulus while CallBound is below it.     *)
LEMMA IncrCounts ==
  ASSUME CallBound < CounterMod, NEW n \in Nat, n < CallBound
  PROVE  Incr(n) = n + 1
BY SchedulerAssumption DEF Incr

LEMMA ScheduleStepKeepsStats ==
  ASSUME CallBound < CounterMod, StatsInv, ScheduleStep
  PROVE  StatsInv'
<1> USE SchedulerAssumption
<1>1. IInv /\ IInv' /\ Used' = Used
  BY ScheduleColumns DEF StatsInv
<1>2. /\ IsFiniteSet(Slots) /\ Used \subseteq Slots /\ -1 \notin Slots
      /\ \A S \in SUBSET Slots : IsFiniteSet(S) /\ Cardinality(S) \in Nat
  BY <1>1, SlotsAreFinite DEF Slots
<1>3. /\ stat_schedule_calls \in Nat /\ stat_completed_tasks \in Nat
      /\ stat_context_switches \in Nat /\ times \in Nat \ {0} /\ CallBound \in Nat
      /\ current_index \in {-1} \cup Used
  BY <1>1 DEF IInv, TypeOK, ScheduleStep
<1>4. /\ stat_schedule_calls < CallBound
      /\ stat_completed_tasks < CallBound
      /\ stat_context_switches < CallBound
  BY <1>3 DEF StatsInv, CallsLeft, CompletedCounted, SwitchesCounted
<1>5. /\ stat_schedule_calls' = stat_schedule_calls + 1
      /\ times' = times - 1
      /\ stat_completed_tasks' = IF Finishes THEN stat_completed_tasks + 1
                                 ELSE stat_completed_tasks
      /\ Incr(stat_context_switches) = stat_context_switches + 1
  BY <1>3, <1>4, IncrCounts DEF ScheduleStep, Schedule
<1>6. CallsLeft'
  BY <1>3, <1>5 DEF StatsInv, CallsLeft
<1>7. CompletedCounted'
  <2>1. PICK done : done = Used \ Live
    OBVIOUS
  <2>2. Live' = IF Finishes THEN Live \ {current_index} ELSE Live
    BY <1>1, ScheduleColumns
  <2>3. CASE Finishes
    <3>1. current_index \in Live /\ current_index \in Used
      BY <1>1, <1>3, <2>3, ScheduleColumns, TickAndDemote DEF TickCharged
    <3>2. (Used \ Live)' = done \cup {current_index} /\ current_index \notin done
      BY <1>1, <2>1, <2>2, <2>3, <3>1
    <3>3. IsFiniteSet(done)
      BY <1>2, <2>1
    <3>4. Cardinality(done \cup {current_index}) = Cardinality(done) + 1
      BY <3>2, <3>3, FS_AddElement
    <3>5. stat_completed_tasks = Cardinality(done)
      BY <2>1 DEF StatsInv, CompletedCounted
    <3>6. stat_completed_tasks' = Cardinality(Used \ Live)'
      BY <1>5, <2>3, <3>2, <3>4, <3>5
    <3>7. stat_completed_tasks' <= stat_schedule_calls'
      BY <1>3, <1>5 DEF StatsInv, CompletedCounted
    <3>8. QED
      BY <3>6, <3>7 DEF CompletedCounted
  <2>4. CASE ~Finishes
    <3>1. (Used \ Live)' = Used \ Live
      BY <1>1, <2>2, <2>4
    <3>2. QED
      BY <1>3, <1>5, <2>4, <3>1 DEF StatsInv, CompletedCounted
  <2>5. QED
    BY <2>3, <2>4
<1>8. \A i \in Slots : Consumed(i) \in Int /\ Consumed(i)' =
        IF i = current_index THEN Consumed(i) + 1 ELSE Consumed(i)
  BY <1>1, ConsumedIsNumber, ScheduleColumns
<1>9. SwitchesCounted'
  <2>1. Started \subseteq Used /\ Started' \subseteq Used
    BY <1>1 DEF Started
  <2>2. /\ IsFiniteSet(Started) /\ Cardinality(Started) \in Nat
        /\ IsFiniteSet(Started') /\ Cardinality(Started') \in Nat
    BY <1>2, <2>1
  <2>3. \A i \in Started' : i \in Started \/ i = current_index'
    BY <1>1, <1>2, <1>8 DEF Started
  <2>4. Started' \subseteq Started => Cardinality(Started') <= Cardinality(Started)
    BY <2>2, FS_Subset
  <2>5. CASE current_index' = -1 /\ UNCHANGED stat_context_switches
    <3>1. Started' \subseteq Started
      BY <1>2, <2>1, <2>3, <2>5
    <3>2. QED
      BY <1>3, <1>5, <2>2, <2>4, <2>5, <3>1 DEF StatsInv, SwitchesCounted
  <2>6. CASE current_index' \in Used /\ current_index' = current_index /\ ~Finishes
    <3>1. Started' \subseteq Started
      BY <2>3, <2>6 DEF Started
    <3>2. stat_context_switches' = stat_context_switches
      BY <1>1, <1>2, <2>6, ScheduleColumns
    <3>3. QED
      BY <1>3, <1>5, <2>2, <2>4, <3>1, <3>2 DEF StatsInv, SwitchesCounted
  <2>7. CASE current_index' \in Used /\ ~(current_index' = current_index /\ ~Finishes)
    <3>1. stat_context_switches' = stat_context_switches + 1
      BY <1>1, <1>2, <1>5, <2>7, ScheduleColumns
    <3>2. PICK k : k = current_index'
      OBVIOUS
    <3>3. Started' \subseteq Started \cup {k}
      BY <2>3, <3>2
    <3>4. /\ IsFiniteSet(Started \cup {k})
          /\ Cardinality(Started \cup {k}) <= Cardinality(Started) + 1
      BY <2>2, FS_AddElement
    <3>5. /\ Cardinality(Started \cup {k}) \in Nat
          /\ Cardinality(Started') <= Cardinality(Started \cup {k})
      BY <3>3, <3>4, FS_Subset, FS_CardinalityType
    <3>6. QED
      BY <1>3, <1>5, <2>2, <3>1, <3>4, <3>5 DEF StatsInv, SwitchesCounted
  <2>8. QED
    BY <1>1, <2>5, <2>6, <2>7, ScheduleColumns
<1>10. RestConsumedNothing'
  BY <1>1, <1>2, <1>3, <1>8 DEF StatsInv, RestConsumedNothing
<1>11. TicksCharged'
  <2>1. PICK f : f = [i \in Slots |-> Consumed(i)]
    OBVIOUS
  <2>2. PICK g : g = [i \in Slots |-> Consumed(i)']
    OBVIOUS
  <2>3. \A i \in Slots : /\ f[i] \in Int /\ g[i] \in Int
                        /\ g[i] = IF i = current_index THEN f[i] + 1 ELSE f[i]
    BY <1>8, <2>1, <2>2
  <2>4. IntValued(f, Slots) /\ IntValued(g, Slots)
    BY <2>1, <2>2, <2>3 DEF IntValued
  <2>5. TicksConsumed = SumFunctionOnSet(f, Slots) /\ TicksConsumed' = SumFunctionOnSet(g, Slots)
    BY <2>1, <2>2 DEF TicksConsumed, Slots
  <2>6. /\ TicksConsumed \in Int
        /\ TicksConsumed' = IF current_index = -1 THEN TicksConsumed ELSE TicksConsumed + 1
    <3>1. CASE current_index = -1
      <4>1. \A i \in Slots : f[i] = g[i]
        BY <1>2, <2>3, <3>1
      <4>2. QED
        BY <1>2, <2>4, <2>5, <3>1, <4>1, TicksUpdate
    <3>2. CASE current_index # -1
      <4>1. PICK x \in Slots : x = current_index
        BY <1>2, <1>3, <3>2
      <4>2. g[x] = f[x] + 1 /\ \A i \in Slots \ {x} : f[i] = g[i]
        BY <2>3, <4>1
      <4>3. QED
        BY <1>2, <2>4, <2>5, <3>2, <4>1, <4>2, TicksUpdate
    <3>3. QED
      BY <3>1, <3>2
  <2>7. QED
    BY <1>3, <1>5, <2>6 DEF StatsInv, TicksCharged
<1>12. QED
  BY <1>1, <1>6, <1>7, <1>9, <1>10, <1>11 DEF StatsInv
LEMMA StatsInitInv == Init => StatsInv
<1> SUFFICES ASSUME Init PROVE StatsInv
  OBVIOUS
<1> USE SchedulerAssumption
<1>1. IInv
  BY InitIInv
<1>2. Used = {} /\ Started = {} /\ Used \ Live = {}
  BY DEF Init, Used, Started, Live
<1>3. Cardinality({}) = 0
  BY FS_EmptySet
<1>4. CallsLeft /\ CompletedCounted /\ SwitchesCounted
  BY <1>2, <1>3 DEF Init, CallsLeft, CompletedCounted, SwitchesCounted
<1>5. \A i \in Slots : Consumed(i) = 0
  BY DEF Init, Consumed, NoTask
<1>6. TicksConsumed = 0
  <2>1. PICK f : f = [i \in Slots |-> Consumed(i)]
    OBVIOUS
  <2>2. IsFiniteSet(Slots) /\ IsFiniteSet({})
    BY <1>1, SlotsAreFinite, FS_EmptySet
  <2>3. \A i \in Slots : f[i] = 0
    BY <1>5, <2>1
  <2>4. SumFunctionOnSet(f, Slots) = 0
    BY <2>2, <2>3, SumOfZeros
  <2>5. QED
    BY <2>1, <2>4 DEF TicksConsumed
<1>7. RestConsumedNothing /\ TicksCharged
  BY <1>5, <1>6 DEF Init, RestConsumedNothing, TicksCharged
<1>8. QED
  BY <1>1, <1>4, <1>7 DEF StatsInv

(* A new task has consumed nothing; the other operations leave the table    *)
(* and the counters alone, and `sched` starts a loop only if there is room  *)
(* for its calls.                                                           *)
LEMMA OperationKeepsStats ==
  ASSUME StatsInv, Operation \/ UNCHANGED vars
  PROVE  StatsInv'
<1> USE SchedulerAssumption
<1>1. Ints \subseteq Int /\ DefaultBurst \in Int /\ DefaultThreadBurst \in Int
  BY CommandsAssumption, ProcessShellAssumption DEF Ints, MinInt
<1>2. ASSUME NEW b \in Int, NEW t \in BOOLEAN, NEW q \in Int, AddTask(b, t, q)
      PROVE  StatsInv'
  <2>1. IInv /\ IInv'
    BY <1>2, AddTaskPreserves DEF StatsInv
  <2>2. process_count \in Slots /\ process_count \in Nat /\ process_count \notin Used
    BY <1>2, <2>1 DEF IInv, TypeOK, AddTask, Slots, Used
  <2>3. Used' = Used \cup {process_count}
    BY <1>2, <2>2 DEF AddTask, Used
  <2>4. /\ \A i \in Slots \ {process_count} : process_table'[i] = process_table[i]
        /\ process_table'[process_count].state = "READY"
        /\ process_table'[process_count].burst_ticks = AtLeastOne(b)
        /\ process_table'[process_count].remaining_ticks = AtLeastOne(b)
    BY <1>2, <2>1, <2>2 DEF AddTask, IInv, TypeOK
  <2>5. UNCHANGED <<current_index, stat_schedule_calls, stat_completed_tasks,
                    stat_context_switches, times>>
    BY <1>2 DEF AddTask, stats
  <2>6. \A i \in Slots : Consumed(i)' = Consumed(i)
    <3>1. PICK n \in Slots : n = process_count
      BY <2>2
    <3>2. AtLeastOne(b) \in Int
      BY DEF AtLeastOne
    <3>3. Consumed(n)' = 0
      BY <2>4, <3>1, <3>2 DEF Consumed
    <3>4. Consumed(n) = 0
      BY <2>2, <3>1 DEF StatsInv, RestConsumedNothing
    <3>5. QED
      BY <2>4, <3>1, <3>3, <3>4 DEF Consumed
  <2>7. Used \subseteq Slots /\ -1 \notin Slots /\ current_index \in {-1} \cup Used
    BY <2>1, SlotsAreFinite DEF Slots, IInv, TypeOK
  <2>8. (Used \ Live)' = Used \ Live
    BY <2>2, <2>3, <2>4, <2>7 DEF Live
  <2>9. Started' = Started
    <3>1. \A i \in Slots : i \in Started' <=> i \in Started
      <4>1. PICK n \in Slots : n = process_count
        BY <2>2
      <4>2. Consumed(n) = 0 /\ n \notin Used /\ n # current_index
        BY <2>2, <2>7, <4>1 DEF StatsInv, RestConsumedNothing
      <4>3. \A i \in Slots : Consumed(i)' > 0 <=> Consumed(i) > 0
        BY <2>6
      <4>4. QED
        BY <2>3, <2>5, <4>1, <4>2, <4>3 DEF Started
    <3>2. Started \subseteq Slots /\ Started' \subseteq Slots
      BY <2>2, <2>3, <2>7 DEF Started
    <3>3. QED
      BY <3>1, <3>2
  <2>10. TicksConsumed' = TicksConsumed
    BY <2>6 DEF TicksConsumed, Slots
  <2>11. RestConsumedNothing'
    BY <2>3, <2>6 DEF StatsInv, RestConsumedNothing, Slots
  <2>12. QED
    BY <2>1, <2>5, <2>8, <2>9, <2>10, <2>11
    DEF StatsInv, CallsLeft, CompletedCounted, SwitchesCounted, TicksCharged
<1>3. ASSUME \/ \E n \in 1 .. MaxTimes : SchedTimes(n)
             \/ \E p \in SchedPolicy : SetPolicy(p)
             \/ UNCHANGED vars
      PROVE  StatsInv'
  <2>1. UNCHANGED <<process_table, process_count, current_index, stat_schedule_calls,
                    stat_completed_tasks, stat_context_switches>>
    BY <1>3 DEF SchedTimes, SetPolicy, vars, stats
  <2>2. IInv'
    BY <1>3, OtherStepsPreserve, Zenon DEF StatsInv
  <2>3. /\ Used' = Used /\ Live' = Live /\ \A i \in Slots : Consumed(i)' = Consumed(i)
    BY <2>1 DEF Used, Live, Consumed
  <2>4. CallsLeft'
    BY <1>3 DEF StatsInv, CallsLeft, SchedTimes, SetPolicy, vars, stats
  <2>5. Started' = Started /\ (Used \ Live)' = Used \ Live /\ TicksConsumed' = TicksConsumed
    BY <2>1 DEF Started, Used, Live, Consumed, TicksConsumed, Slots
  <2>6. QED
    BY <2>1, <2>2, <2>3, <2>4, <2>5
    DEF StatsInv, CompletedCounted, SwitchesCounted, RestConsumedNothing, TicksCharged
<1>4. ASSUME NEW b \in Ints \cup {DefaultBurst}, CreateProcess(b)
      PROVE  StatsInv'
  <2>1. b \in Int /\ 0 \in Int
    BY <1>1
  <2>2. AddTask(b, FALSE, 0)
    BY <1>4, Zenon DEF CreateProcess
  <2>3. QED
    BY <1>2, <2>1, <2>2, Zenon
<1>5. ASSUME NEW p \in Ints, NEW b \in Ints \cup {DefaultThreadBurst}, CreateThread(p, b)
      PROVE  StatsInv'
  <2>1. b \in Int /\ p \in Int
    BY <1>1
  <2>2. AddTask(b, TRUE, p)
    BY <1>5, Zenon DEF CreateThread
  <2>3. QED
    BY <1>2, <2>1, <2>2, Zenon
<1>6. QED
  BY <1>3, <1>4, <1>5, Zenon DEF Operation

(* sched_stats_print tells the truth of the table behind the kernel shell,  *)
(* as long as the counters do not wrap.                                     *)
THEOREM ShellStatsConsistent ==
  ASSUME CallBound < CounterMod
  PROVE  ProcessShellSpec => []StatsConsistent
<1>1. RRInit => StatsInv
  BY StatsInitInv DEF RRInit
<1>2. ASSUME StatsInv, [ProcessShellNext]_rrVars
      PROVE  StatsInv'
  <2>1. ASSUME NEW line \in Lines, Command(line)
        PROVE  Operation \/ UNCHANGED vars
    BY <2>1, CommandIsOperation, Zenon DEF Command
  <2>2. Operation \/ UNCHANGED vars \/ ScheduleStep
    <3>1. UNCHANGED rrVars => UNCHANGED vars
      BY DEF rrVars
    <3>2. QED
      BY <1>2, <2>1, <3>1, Zenon DEF ProcessShellNext
  <2>3. QED
    BY <1>2, <2>2, ScheduleStepKeepsStats, OperationKeepsStats, Zenon
<1>3. StatsInv => StatsConsistent
  <2> SUFFICES ASSUME StatsInv PROVE StatsConsistent
    OBVIOUS
  <2>1. IInv
    BY DEF StatsInv
  <2>2. PICK some : some = {i \in Used : Consumed(i) > 0}
    OBVIOUS
  <2>3. some \subseteq Started /\ Started \subseteq Slots
    BY <2>1, <2>2, SlotsAreFinite DEF Started
  <2>4. Cardinality(some) <= Cardinality(Started) /\ Cardinality(some) \in Nat
        /\ Cardinality(Started) \in Nat
    BY <2>1, <2>3, SlotsAreFinite, FS_Subset
  <2>5. stat_context_switches \in Nat
    BY <2>1, SchedulerAssumption DEF IInv, TypeOK
  <2>6. Cardinality(some) <= stat_context_switches
    BY <2>4, <2>5 DEF StatsInv, SwitchesCounted
  <2>7. QED
    BY <2>2, <2>6 DEF StatsInv, StatsConsistent, CompletedCounted, SwitchesCounted, TicksCharged
<1>4. QED
  BY <1>1, <1>2, <1>3, PTL DEF ProcessShellSpec
=============================================================================
