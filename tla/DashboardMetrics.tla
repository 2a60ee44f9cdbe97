-------------------------- MODULE DashboardMetrics --------------------------
(***************************************************************************)
(* The metrics of the dashboard (python/nano_ray/dashboard.py).  One lock  *)
(* makes each method one step.  Times and durations are left out: of the   *)
(* submit times only the tasks that have one matter, and the list of the   *)
(* last completions and the histogram are made from durations alone.       *)
(***************************************************************************)
EXTENDS Integers, FiniteSets

VARIABLES tasks_submitted, tasks_completed, tasks_failed, tasks_running,
          submit_times,    \* _task_submit_times: the tasks that have one
          objects_stored, worker_count

taskMetrics == <<tasks_submitted, tasks_completed, tasks_failed, tasks_running, submit_times>>
metricsVars == <<taskMetrics, objects_stored, worker_count>>

AtLeast0(n) == IF n < 0 THEN 0 ELSE n

MetricsInit(num_workers) ==
    /\ tasks_submitted = 0 /\ tasks_completed = 0 /\ tasks_failed = 0 /\ tasks_running = 0
    /\ submit_times = {}
    /\ objects_stored = 0
    /\ worker_count = num_workers

on_task_submitted(t) ==
    /\ tasks_submitted' = tasks_submitted + 1
    /\ tasks_running' = tasks_running + 1
    /\ submit_times' = submit_times \cup {t}
    /\ UNCHANGED <<tasks_completed, tasks_failed, objects_stored, worker_count>>

on_task_completed(t) ==
    /\ tasks_completed' = tasks_completed + 1
    /\ tasks_running' = AtLeast0(tasks_running - 1)
    /\ submit_times' = submit_times \ {t}
    /\ UNCHANGED <<tasks_submitted, tasks_failed, objects_stored, worker_count>>

\* Mutant: a task that failed keeps its submit time.
on_task_failed_keeps(t) ==
    /\ tasks_failed' = tasks_failed + 1
    /\ tasks_running' = AtLeast0(tasks_running - 1)
    /\ UNCHANGED <<tasks_submitted, tasks_completed, submit_times, objects_stored, worker_count>>

on_task_failed(t) ==
    /\ tasks_failed' = tasks_failed + 1
    /\ tasks_running' = AtLeast0(tasks_running - 1)
    /\ submit_times' = submit_times \ {t}
    /\ UNCHANGED <<tasks_submitted, tasks_completed, objects_stored, worker_count>>

set_worker_count(n) == worker_count' = n /\ UNCHANGED <<taskMetrics, objects_stored>>

set_objects_stored(n) == objects_stored' = n /\ UNCHANGED <<taskMetrics, worker_count>>

\* to_dict: what the page shows as pending.
Unfinished == tasks_submitted - tasks_completed - tasks_failed
pending == AtLeast0(Unfinished - tasks_running)
=============================================================================
