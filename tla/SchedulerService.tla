-------------------------- MODULE SchedulerService --------------------------
(***************************************************************************)
(* What the scheduler of process/process.c gives its users over time: the  *)
(* statistics it prints and how long `sched n` takes to drain the table.   *)
(* Both add up the bursts of all tasks.                                    *)
(***************************************************************************)
EXTENDS Scheduler, FiniteSets, Functions

Consumed(i) == process_table[i].burst_ticks - process_table[i].remaining_ticks
TicksConsumed == SumFunctionOnSet([i \in Slots |-> Consumed(i)], Slots)
TicksLeft ==
  SumFunctionOnSet([i \in Slots |-> process_table[i].remaining_ticks], Live)

(* sched_stats_print() tells the truth as long as nothing is reset: every   *)
(* task that left the table is counted once, every task that was charged a  *)
(* tick was switched to, and each schedule() switches at most once and      *)
(* charges at most one tick, the first of them none.                        *)
StatsConsistent ==
  /\ stat_completed_tasks = Cardinality(Used \ Live)
  /\ Cardinality({i \in Used : Consumed(i) > 0}) <= stat_context_switches
  /\ stat_context_switches <= stat_schedule_calls
  /\ TicksConsumed > 0 => TicksConsumed < stat_schedule_calls

(* `sched n` returns, and if n exceeds the ticks left in the table then     *)
(* every task has completed when it does: no schedule() of the loop but the *)
(* first is wasted, under either policy.                                    *)
SchedDrains ==
  \A left \in 0 .. MaxTimes :
    (times > left /\ TicksLeft = left) ~> (times = 0 /\ Live = {})
=============================================================================
