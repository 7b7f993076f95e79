----------------------------- MODULE RoundRobin -----------------------------
(***************************************************************************)
(* How fair the Round Robin policy of process/process.c is.                *)
(*                                                                         *)
(* Two history variables, which no action reads, record what each waiting  *)
(* task has seen since it last had the CPU, was created, or the policy     *)
(* became RR:                                                              *)
(*   overtaken[i][j]  how often task j was dispatched,                     *)
(*   completed[i]     how many tasks completed.                            *)
(***************************************************************************)
EXTENDS Scheduler

VARIABLES overtaken, completed
rrVars == <<vars, overtaken, completed>>

NobodyOvertaken == [i \in Slots |-> [j \in Slots |-> 0]]
NothingCompleted == [i \in Slots |-> 0]

RRInit ==
  /\ Init
  /\ overtaken = NobodyOvertaken
  /\ completed = NothingCompleted

Waits(i) == sched_policy = "RR" /\ process_table'[i].state = "READY"

(* A dispatch counts against every task left READY, and the record of every *)
(* other task starts afresh.                                                *)
RecordDispatch ==
  /\ overtaken' = [i \in Slots |-> [j \in Slots |->
       IF ~Waits(i) THEN 0
       ELSE IF j = current_index' THEN overtaken[i][j] + 1
       ELSE overtaken[i][j]]]
  /\ completed' = [i \in Slots |->
       IF ~Waits(i) THEN 0
       ELSE IF Finishes THEN completed[i] + 1
       ELSE completed[i]]

RecordPolicy ==
  IF sched_policy' = "RR" THEN UNCHANGED <<overtaken, completed>>
  ELSE overtaken' = NobodyOvertaken /\ completed' = NothingCompleted

(* A waiting task is overtaken by the same other task at most once, plus    *)
(* once for every task that completed meanwhile: a completion clears        *)
(* current_index, so schedule_rr starts its scan again at slot 0.           *)
BoundedOvertaking ==
  \A i, j \in Slots : overtaken[i][j] <= 1 + completed[i]
=============================================================================
