----------------------------- MODULE Scheduler -----------------------------
(***************************************************************************)
(* The process table and the CPU scheduler (process/process.c).            *)
(*                                                                         *)
(* A task (process or thread) takes the next free slot of process_table;   *)
(* slots are handed out in order and never reused.  schedule() charges one *)
(* tick to the running task, demotes it, and dispatches the next READY one *)
(* under the policy in force, Round Robin (RR) or Shortest Remaining Time  *)
(* First (SRTF).  It is called only from the loop of                       *)
(* process_schedule_times(), the shell's `sched n`; one iteration of that  *)
(* loop is one step here, and `times` counts the iterations left.  A shell *)
(* command runs inside the keyboard interrupt, so no other operation on    *)
(* the table starts while the loop runs.                                   *)
(*                                                                         *)
(* Left out: entry_point (every caller passes the same dummy function,     *)
(* which is never called), priority (always equal to burst_ticks), the     *)
(* printing functions.                                                     *)
(***************************************************************************)
EXTENDS Integers

CONSTANTS
  MaxProcesses,  \* MAX_PROCESSES, the size of the table
  Bursts,        \* the burst arguments given to the create operations
  ParentPids,    \* the parent pids given to create_thread
  MaxTimes,      \* the largest n of `sched n` (64 in the shell)
  CounterMod,    \* the statistics are unsigned long: they wrap at 2^32
  CallBound      \* bound on schedule() calls in a behaviour of the model;
                 \* no bound at all if it exceeds CounterMod + MaxTimes

ASSUME SchedulerAssumption ==
  /\ MaxProcesses \in Nat \ {0}
  /\ Bursts \subseteq Int
  /\ ParentPids \subseteq Int
  /\ MaxTimes \in Nat \ {0}
  /\ CounterMod \in Nat \ {0}
  /\ CallBound \in Nat

VARIABLES
  process_table,
  process_count,          \* slots handed out so far, never decremented
  next_pid,
  current_index,          \* the slot of the running task, -1 if none
  sched_policy,
  stat_schedule_calls,
  stat_context_switches,
  stat_completed_tasks,
  times                   \* iterations left in process_schedule_times()

stats == <<stat_schedule_calls, stat_context_switches, stat_completed_tasks>>
vars == <<process_table, process_count, next_pid, current_index,
          sched_policy, stats, times>>

Slots == 0 .. MaxProcesses - 1
Used == 0 .. process_count - 1
ProcessState == {"UNUSED", "READY", "RUNNING"}  \* WAITING is never assigned
SchedPolicy == {"RR", "SRTF"}

PCB == [pid: Nat, state: ProcessState, burst_ticks: Nat,
        remaining_ticks: Nat, is_thread: BOOLEAN, parent_pid: Int]

NoTask == [pid |-> 0, state |-> "UNUSED", burst_ticks |-> 0,
           remaining_ticks |-> 0, is_thread |-> FALSE, parent_pid |-> 0]

Init ==
  /\ process_table = [i \in Slots |-> NoTask]
  /\ process_count = 0
  /\ next_pid = 1
  /\ current_index = -1
  /\ sched_policy = "RR"
  /\ stat_schedule_calls = 0
  /\ stat_context_switches = 0
  /\ stat_completed_tasks = 0
  /\ times = 0

Incr(counter) == (counter + 1) % CounterMod

-----------------------------------------------------------------------------
(* Creation.  With the table full both operations return at once and        *)
(* nothing changes: that is a stuttering step.                              *)

AtLeastOne(burst) == IF burst < 1 THEN 1 ELSE burst

AddTask(burst, thread, parent) ==
  /\ times = 0
  /\ process_count < MaxProcesses
  /\ process_table' = [process_table EXCEPT ![process_count] =
       [pid |-> next_pid, state |-> "READY",
        burst_ticks |-> AtLeastOne(burst),
        remaining_ticks |-> AtLeastOne(burst),
        is_thread |-> thread, parent_pid |-> parent]]
  /\ next_pid' = next_pid + 1
  /\ process_count' = process_count + 1
  /\ UNCHANGED <<current_index, sched_policy, stats, times>>

CreateProcess(burst) == AddTask(burst, FALSE, 0)

CreateThread(parent, burst) == AddTask(burst, TRUE, parent)

-----------------------------------------------------------------------------
(* schedule(): run_current_tick, demote_running, then the policy.           *)

HasRunner ==
  /\ current_index \in Used
  /\ process_table[current_index].state = "RUNNING"

(* Mistakes.  The definitions called Mutant... are no part of the model:    *)
(* each stands for a plausible bug in the definition that follows it, and   *)
(* shows, put in its place, that a property notices.                        *)
(* Here: a task is kept for one tick after its burst is used up.            *)
MutantFinishes ==
  HasRunner /\ process_table[current_index].remaining_ticks < 1

Finishes == HasRunner /\ process_table[current_index].remaining_ticks <= 1

RunCurrentTick ==
  IF ~HasRunner THEN process_table
  ELSE [process_table EXCEPT
          ![current_index].remaining_ticks = IF @ > 0 THEN @ - 1 ELSE @,
          ![current_index].state = IF Finishes THEN "UNUSED" ELSE @]

IndexAfterTick == IF Finishes THEN -1 ELSE current_index

(* Mistake: the preempted task keeps its state.                             *)
MutantDemoteRunning == RunCurrentTick

DemoteRunning ==
  IF IndexAfterTick \in Used /\ RunCurrentTick[IndexAfterTick].state = "RUNNING"
  THEN [RunCurrentTick EXCEPT ![IndexAfterTick].state = "READY"]
  ELSE RunCurrentTick

(* Mistake: schedule() returns when a task has completed.                   *)
MutantCandidates ==
  {i \in Used : DemoteRunning[i].state = "READY" /\ ~Finishes}

Candidates == {i \in Used : DemoteRunning[i].state = "READY"}

(* Mistake: schedule_rr always scans from slot 0.                           *)
MutantScanDistance(i) == i

(* How many slots the scan of schedule_rr passes over before it looks at i: *)
(* it starts right after the current slot, or at slot 0 if there is none.   *)
ScanDistance(i) == (i - (IndexAfterTick + 1) + process_count) % process_count

(* Mistake: shortest job first, by the whole burst.                         *)
MutantShorterJob(i, j) ==
  LET p == DemoteRunning[i]
      q == DemoteRunning[j]
  IN  \/ p.burst_ticks < q.burst_ticks
      \/ p.burst_ticks = q.burst_ticks /\ p.pid < q.pid

ShorterJob(i, j) ==
  LET p == DemoteRunning[i]
      q == DemoteRunning[j]
  IN  \/ p.remaining_ticks < q.remaining_ticks
      \/ p.remaining_ticks = q.remaining_ticks /\ p.pid < q.pid

SelectRR(i) == \A j \in Candidates \ {i} : ScanDistance(i) < ScanDistance(j)
SelectSRTF(i) == \A j \in Candidates \ {i} : ShorterJob(i, j)

Selected(i) == IF sched_policy = "SRTF" THEN SelectSRTF(i) ELSE SelectRR(i)

(* Mistake: a dispatch after a completion is not counted as a switch.       *)
MutantPickRunning(i) ==
  /\ process_table' = [DemoteRunning EXCEPT ![i].state = "RUNNING"]
  /\ current_index' = i
  /\ stat_context_switches' = IF IndexAfterTick \notin {-1, i}
                              THEN Incr(stat_context_switches)
                              ELSE stat_context_switches

PickRunning(i) ==
  /\ process_table' = [DemoteRunning EXCEPT ![i].state = "RUNNING"]
  /\ current_index' = i
  /\ stat_context_switches' = IF i # IndexAfterTick
                              THEN Incr(stat_context_switches)
                              ELSE stat_context_switches

PickNothing ==
  /\ Candidates = {}
  /\ process_table' = DemoteRunning
  /\ current_index' = IndexAfterTick
  /\ UNCHANGED stat_context_switches

Schedule ==
  /\ stat_schedule_calls' = Incr(stat_schedule_calls)
  /\ stat_completed_tasks' = IF Finishes THEN Incr(stat_completed_tasks)
                             ELSE stat_completed_tasks
  /\ PickNothing \/ \E i \in Candidates : Selected(i) /\ PickRunning(i)
  /\ UNCHANGED <<process_count, next_pid, sched_policy>>

SchedTimes(n) ==
  /\ times = 0
  /\ stat_schedule_calls + n <= CallBound
  /\ times' = n
  /\ UNCHANGED <<process_table, process_count, next_pid, current_index,
                 sched_policy, stats>>

ScheduleStep ==
  /\ times > 0
  /\ times' = times - 1
  /\ Schedule

-----------------------------------------------------------------------------
SetPolicy(p) ==
  /\ times = 0
  /\ sched_policy' = p
  /\ UNCHANGED <<process_table, process_count, next_pid, current_index,
                 stats, times>>

(* Mistake: pids go on counting after a reset.                              *)
MutantResetAll ==
  /\ times = 0
  /\ process_table' = [i \in Slots |-> NoTask]
  /\ process_count' = 0
  /\ current_index' = -1
  /\ UNCHANGED <<next_pid, sched_policy, stats, times>>

(* The two resets are declared in process.h, but nothing in the kernel      *)
(* calls them: they are steps of Next and not of ShellNext.                 *)
ResetAll ==
  /\ times = 0
  /\ process_table' = [i \in Slots |-> NoTask]
  /\ process_count' = 0
  /\ next_pid' = 1
  /\ current_index' = -1
  /\ UNCHANGED <<sched_policy, stats, times>>

StatsReset ==
  /\ times = 0
  /\ stat_schedule_calls' = 0
  /\ stat_context_switches' = 0
  /\ stat_completed_tasks' = 0
  /\ UNCHANGED <<process_table, process_count, next_pid, current_index,
                 sched_policy, times>>

(* What the shell's commands mkproc, mkthr, sched and policy can do.        *)
ShellNext ==
  \/ \E b \in Bursts : CreateProcess(b)
  \/ \E p \in ParentPids, b \in Bursts : CreateThread(p, b)
  \/ \E n \in 1 .. MaxTimes : SchedTimes(n)
  \/ ScheduleStep
  \/ \E p \in SchedPolicy : SetPolicy(p)

Next == ShellNext \/ ResetAll \/ StatsReset

Spec == Init /\ [][Next]_vars
ShellSpec == Init /\ [][ShellNext]_vars

(* Once entered, the loop of process_schedule_times() is a plain for loop    *)
(* that runs to its end: only its steps are fair, the user is not.           *)
FairShellSpec == ShellSpec /\ WF_vars(ScheduleStep)

-----------------------------------------------------------------------------
Live == {i \in Used : process_table[i].state # "UNUSED"}

(* Every variable holds a value of the C type it stands for, pids are       *)
(* handed out in slot order and WAITING never occurs.                       *)
TypeOK ==
  /\ process_table \in [Slots -> PCB]
  /\ process_count \in 0 .. MaxProcesses
  /\ next_pid = process_count + 1
  /\ current_index \in {-1} \cup Used
  /\ sched_policy \in SchedPolicy
  /\ stat_schedule_calls \in 0 .. CounterMod - 1
  /\ stat_context_switches \in 0 .. CounterMod - 1
  /\ stat_completed_tasks \in 0 .. CounterMod - 1
  /\ times \in 0 .. MaxTimes

(* At most one task is RUNNING, and it is the one current_index names: the  *)
(* demotion of the old task, the completion that clears current_index and   *)
(* the dispatch of the new one keep the state column of the table and the   *)
(* index in step, under either policy and across policy changes.            *)
OneRunning ==
  {i \in Slots : process_table[i].state = "RUNNING"} =
    IF current_index = -1 THEN {} ELSE {current_index}

(* With no task dispatched, no live task has begun its burst: schedule()    *)
(* never leaves the CPU idle while a task it has already started waits,     *)
(* although completing a task clears current_index in the middle of it.     *)
NoStrandedTask ==
  current_index = -1 =>
    \A i \in Live :
      process_table[i].remaining_ticks = process_table[i].burst_ticks

(* A task leaves the table (UNUSED) at the very tick that uses up its       *)
(* burst, not before and not after, whatever preempted it in between.       *)
BurstServed ==
  \A i \in Used :
    LET p == process_table[i] IN
    /\ p.remaining_ticks \in 0 .. p.burst_ticks
    /\ p.state = "UNUSED" <=> p.remaining_ticks = 0

(* Under SRTF every schedule() dispatches a live task with the least        *)
(* remaining time, the preempted task included, and the lowest pid among    *)
(* equals.                                                                  *)
SRTFDispatchesShortest ==
  [][ScheduleStep /\ sched_policy = "SRTF" =>
       \A i \in Used :
         process_table'[i].state = "READY" =>
           LET p == process_table'[i]
               r == process_table'[current_index'] IN
           \/ r.remaining_ticks < p.remaining_ticks
           \/ r.remaining_ticks = p.remaining_ticks /\ r.pid < p.pid]_vars

(* Threads as README.md:13 and OS_Overview.md:27 name them, attached to a   *)
(* parent process: the parent is a live process of the table.               *)
ThreadsAttached ==
  \A i \in Live : process_table[i].is_thread =>
    \E j \in Live : /\ ~process_table[j].is_thread
                   /\ process_table[j].pid = process_table[i].parent_pid
=============================================================================
