-------------------------------- MODULE Report --------------------------------
(***************************************************************************)
(* What is said of a result: the rates (src/main.rs), the lines and table  *)
(* rows on the terminal and the entry of the JSON document (src/report.rs). *)
(* Pure functions.  A rate is a fraction <<n, d>>, n events in d units of  *)
(* time; a printed decimal is the number of its last digit's units.  The   *)
(* alignment and the thousands separators of the terminal are left out.    *)
(***************************************************************************)
EXTENDS Integers, Sequences

CONSTANT Second   \* the units of time in a second

ASSUME ReportAssumption == Second \in Nat \ {0}

(* total / duration, guarded: jobs_per_sec and idle_poll_qps.               *)
Rate(count, duration) == IF duration > 0 THEN <<count, duration>> ELSE <<0, 1>>

PerWorker(rate, workers) == IF workers > 0 THEN <<rate[1], rate[2] * workers>> ELSE <<0, 1>>

(* round: to the nearest, a half upwards (nothing here is negative).         *)
Rounded(n, d) == (2 * n + d) \div (2 * d)

(* A rate per second, and a duration, in units of 1/scale.                   *)
PerSecond(rate, scale)    == Rounded(rate[1] * Second * scale, rate[2])
Seconds(duration, scale)  == Rounded(duration * scale, Second)

Whole(rate) == (rate[1] * Second) \div rate[2]

-----------------------------------------------------------------------------
(* IdlePollResult, and the one of a phase that was not run.                  *)
Measured(workers, duration, calls) ==
  [workers |-> workers, duration |-> duration, total_lpop_calls |-> calls,
   idle_poll_qps |-> Rate(calls, duration), per_worker_qps |-> PerWorker(Rate(calls, duration), workers),
   skipped |-> FALSE]

Skipped(workers) ==
  [workers |-> workers, duration |-> 0, total_lpop_calls |-> 0,
   idle_poll_qps |-> <<0, 1>>, per_worker_qps |-> <<0, 1>>, skipped |-> TRUE]

-----------------------------------------------------------------------------
(* print_trial_line and a row of print_summary show the same.                *)
TrialLine(r) ==
  [workers |-> r.workers, jobs_per_sec |-> Whole(r.jobs_per_sec), timeout |-> r.timed_out]

(* print_idle_poll_line, and a row of print_idle_poll_summary.               *)
IdleLine(r) ==
  IF r.skipped THEN [workers |-> r.workers, skipped |-> TRUE]
  ELSE [workers |-> r.workers, skipped |-> FALSE, qps |-> PerSecond(r.idle_poll_qps, 10),
        per_worker |-> PerSecond(r.per_worker_qps, 10), duration |-> Seconds(r.duration, 10),
        calls |-> r.total_lpop_calls]

IdleRowByCalls(r) ==
  IF r.total_lpop_calls = 0 THEN [workers |-> r.workers, skipped |-> TRUE]
  ELSE [workers |-> r.workers, skipped |-> FALSE, qps |-> PerSecond(r.idle_poll_qps, 10),
        per_worker |-> PerSecond(r.per_worker_qps, 100), duration |-> Seconds(r.duration, 10),
        calls |-> r.total_lpop_calls]

IdleRow(r) ==
  IF r.skipped THEN [workers |-> r.workers, skipped |-> TRUE]
  ELSE [workers |-> r.workers, skipped |-> FALSE, qps |-> PerSecond(r.idle_poll_qps, 10),
        per_worker |-> PerSecond(r.per_worker_qps, 100), duration |-> Seconds(r.duration, 10),
        calls |-> r.total_lpop_calls]

-----------------------------------------------------------------------------
IdleEntry(idle) ==
  [duration_s |-> Seconds(idle.duration, 1000), total_lpop_calls |-> idle.total_lpop_calls,
   idle_poll_qps |-> PerSecond(idle.idle_poll_qps, 10),
   per_worker_qps |-> PerSecond(idle.per_worker_qps, 100), skipped_reason |-> idle.skipped]

EntryWithIdleDuration(r, idle) ==
  [workers |-> r.workers, total_jobs |-> r.total_jobs, duration_s |-> Seconds(idle.duration, 1000),
   jobs_per_sec |-> PerSecond(r.jobs_per_sec, 10), timed_out |-> r.timed_out,
   idle_poll |-> IdleEntry(idle)]

(* JsonResult: a drain result and its idle result.                           *)
Entry(r, idle) ==
  [workers |-> r.workers, total_jobs |-> r.total_jobs, duration_s |-> Seconds(r.duration, 1000),
   jobs_per_sec |-> PerSecond(r.jobs_per_sec, 10), timed_out |-> r.timed_out,
   idle_poll |-> IdleEntry(idle)]

Smaller(m, n) == IF m < n THEN m ELSE n

(* JsonOutput.results: zip stops at the shorter list.                         *)
Document(results, idleResults) ==
  [i \in 1..Smaller(Len(results), Len(idleResults)) |-> Entry(results[i], idleResults[i])]
=============================================================================
