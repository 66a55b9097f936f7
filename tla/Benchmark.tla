------------------------------ MODULE Benchmark ------------------------------
(***************************************************************************)
(* main (src/main.rs): for each concurrency level an optional warmup, a    *)
(* drain trial and, on queues verified empty, an idle-poll trial; then the *)
(* report and the exit code.                                               *)
(*                                                                         *)
(* A trial is what DrainLedger promises of it: its workers finish jobs     *)
(* until it ends, drained or timed out, and the report counts them.  What  *)
(* an aborted worker leaves behind is an LPOP Redis may still execute,     *)
(* during any later step: the payload it removes is lost.  Nobody else     *)
(* uses the queues (a shared Redis is in Producer and DrainTrial).         *)
(***************************************************************************)
EXTENDS Report, FiniteSets

CONSTANTS
  Levels,      \* --workers, in order
  TrialJobs,   \* --jobs
  WarmupJobs,  \* --warmup-jobs
  MaxStale,    \* BOUND: LPOPs left behind by aborted workers
  MaxLost,     \* BOUND: jobs lost with a failed query of the trial itself
  Durations,   \* what a drain trial may take
  IdleDurations,   \* what an idle-poll trial may take
  PollCounts,  \* what an idle-poll trial may count
  Nil

(* What validate_cli demands.                                               *)
ASSUME BenchmarkAssumption ==
  /\ Levels \in Seq(Nat \ {0}) /\ Levels # <<>>
  /\ TrialJobs \in Nat \ {0} /\ WarmupJobs \in Nat
  /\ MaxStale \in Nat /\ MaxLost \in Nat
  /\ Durations \subseteq Nat \ {0} /\ PollCounts \subseteq Nat
  /\ IdleDurations \subseteq Nat /\ \A d \in IdleDurations : d >= Second

VARIABLES
  step,        \* where main is
  level,       \* index of the concurrency level
  kind,        \* "warmup" or "drain": which trial clear, fill and trial are for
  queued,      \* Redis: the jobs in the queues, <<level, kind, number>>
  stale,       \* LPOPs of aborted workers Redis may still execute
  finished,    \* current trial: the jobs its workers finished
  missing,     \* history: jobs of the current trial that were lost or stolen
  lost,        \* history: number of jobs lost with a failed query
  aborted,     \* history: number of LPOPs ever left behind
  ended,       \* current trial: "open", "drained" or "timed_out"
  result,      \* main's result of the level in progress, Nil before
  results, idleResults, anyTimeout,   \* main's variables
  drainLines, idleLines,   \* the lines on the terminal
  idleRows,    \* the table of print_idle_poll_summary, Nil before
  output,      \* the JSON document's results, Nil before
  delivered,   \* where it went: "absent", "partial" or "saved" on disk, or "printed"
  code         \* the exit code of the process, Nil before

trialVars  == <<finished, missing, ended>>
outputVars == <<idleRows, output, delivered, code>>
reportVars == <<result, results, idleResults, anyTimeout, drainLines, idleLines, outputVars>>
vars == <<step, level, kind, queued, stale, lost, aborted, trialVars, reportVars>>

Steps == {"head", "clear", "fill", "trial", "llen", "idle", "report", "write", "exited"}

JobCount == IF kind = "warmup" THEN WarmupJobs ELSE TrialJobs
OwnJobs  == {<<level, kind, n>> : n \in 1..JobCount}

Init ==
  /\ step = "head" /\ level = 1 /\ kind = "drain"
  /\ queued = {} /\ stale = 0 /\ lost = 0 /\ aborted = 0
  /\ finished = {} /\ missing = {} /\ ended = "open"
  /\ result = Nil /\ results = <<>> /\ idleResults = <<>> /\ anyTimeout = FALSE
  /\ drainLines = <<>> /\ idleLines = <<>> /\ idleRows = Nil /\ output = Nil
  /\ delivered = "absent" /\ code = Nil

-----------------------------------------------------------------------------
(* The head of the loop over the levels.                                    *)
NextLevel ==
  /\ step = "head" /\ level <= Len(Levels)
  /\ kind' = IF WarmupJobs > 0 THEN "warmup" ELSE "drain"
  /\ step' = "clear"
  /\ UNCHANGED <<level, queued, stale, lost, aborted, trialVars, reportVars>>

LevelsDone ==
  /\ step = "head" /\ level > Len(Levels)
  /\ step' = "report"
  /\ UNCHANGED <<level, kind, queued, stale, lost, aborted, trialVars, reportVars>>

ClearWarmupOnly ==
  /\ step = "clear"
  /\ queued' = IF kind = "warmup" \/ WarmupJobs = 0 THEN {} ELSE queued
  /\ step' = "fill"
  /\ UNCHANGED <<level, kind, stale, lost, aborted, trialVars, reportVars>>

(* pre_trial_clear.                                                         *)
Clear ==
  /\ step = "clear"
  /\ queued' = {}
  /\ step' = "fill"
  /\ UNCHANGED <<level, kind, stale, lost, aborted, trialVars, reportVars>>

FillOneShort ==
  /\ step = "fill"
  /\ queued' = queued \cup {j \in OwnJobs : j[3] < JobCount}
  /\ step' = "trial"
  /\ finished' = {} /\ missing' = {} /\ ended' = "open"
  /\ UNCHANGED <<level, kind, stale, lost, aborted, reportVars>>

(* bulk_enqueue, and the start of run_drain_trial.                           *)
Fill ==
  /\ step = "fill"
  /\ queued' = queued \cup OwnJobs
  /\ step' = "trial"
  /\ finished' = {} /\ missing' = {} /\ ended' = "open"
  /\ UNCHANGED <<level, kind, stale, lost, aborted, reportVars>>

(* A worker of the trial takes a job and finishes it.                        *)
Finish(j) ==
  /\ step = "trial" /\ j \in queued
  /\ queued' = queued \ {j} /\ finished' = finished \cup {j}
  /\ UNCHANGED <<step, level, kind, stale, lost, aborted, missing, ended, reportVars>>

(* A query of the trial fails after its LPOP was executed.                   *)
LoseJob(j) ==
  /\ step = "trial" /\ j \in queued /\ lost < MaxLost
  /\ queued' = queued \ {j} /\ missing' = missing \cup {j} /\ lost' = lost + 1
  /\ UNCHANGED <<step, level, kind, stale, aborted, finished, ended, reportVars>>

TrialEndsWithoutTimeout(verdict) ==
  /\ step = "trial" /\ ended = "open" /\ verdict = "drained"
  /\ Cardinality(finished) >= JobCount
  /\ ended' = verdict
  /\ UNCHANGED <<step, level, kind, queued, stale, lost, aborted, finished, missing, reportVars>>

(* The trial is drained once its target is reached, or its timeout passes.   *)
TrialEnds(verdict) ==
  /\ step = "trial" /\ ended = "open"
  /\ verdict = "drained" => Cardinality(finished) >= JobCount
  /\ ended' = verdict
  /\ UNCHANGED <<step, level, kind, queued, stale, lost, aborted, finished, missing, reportVars>>

TrialResult(duration) ==
  [workers |-> Levels[level], total_jobs |-> Cardinality(finished), duration |-> duration,
   jobs_per_sec |-> Rate(Cardinality(finished), duration), timed_out |-> ended = "timed_out"]

(* The trial returns.  The LPOP of a worker that was aborted in a query, or  *)
(* whose query failed before Redis executed it, may stay behind.             *)
LeavesBehind(n) ==
  /\ aborted + n <= MaxStale
  /\ stale' = stale + n /\ aborted' = aborted + n

(* After a warmup the result, also its timed_out, is dropped.                *)
WarmupReturns ==
  /\ step = "trial" /\ kind = "warmup" /\ ended # "open"
  /\ \E n \in 0..Levels[level] : LeavesBehind(n)
  /\ kind' = "drain" /\ step' = "clear"
  /\ UNCHANGED <<level, queued, lost, trialVars, reportVars>>

TrialReturned ==
  /\ step = "trial" /\ kind = "drain" /\ ended # "open"
  /\ \E n \in 0..Levels[level] : LeavesBehind(n)
  /\ \E d \in Durations : result' = TrialResult(d)
  /\ step' = "llen"
  /\ UNCHANGED <<level, kind, queued, lost, trialVars, results, idleResults, idleLines, outputVars>>

DrainReturnsSilently ==
  /\ TrialReturned
  /\ anyTimeout' = (anyTimeout \/ result'.timed_out)
  /\ UNCHANGED drainLines

(* The verdict is kept and the line printed.                                 *)
DrainReturns ==
  /\ TrialReturned
  /\ anyTimeout' = (anyTimeout \/ result'.timed_out)
  /\ drainLines' = Append(drainLines, TrialLine(result'))

Backlog == Cardinality(queued)

PushResultOnly(idle) ==
  /\ idleLines' = Append(idleLines, IdleLine(idle))
  /\ results' = Append(results, result)
  /\ idleResults' = IF idle.skipped THEN idleResults ELSE Append(idleResults, idle)
  /\ step' = "head" /\ level' = level + 1

PushResultsSameLevel(idle) ==
  /\ idleLines' = Append(idleLines, IdleLine(idle))
  /\ results' = Append(results, result) /\ idleResults' = Append(idleResults, idle)
  /\ step' = "head" /\ level' = level

(* The end of the loop body: the idle line is printed, both results pushed.  *)
PushResults(idle) ==
  /\ idleLines' = Append(idleLines, IdleLine(idle))
  /\ results' = Append(results, result) /\ idleResults' = Append(idleResults, idle)
  /\ step' = "head" /\ level' = level + 1

(* total_queue_len: a backlog skips the idle phase, ...                      *)
SkipIdle == Backlog > 0 /\ PushResults(Skipped(Levels[level]))

StartIdleUnverified == step' = "idle" /\ UNCHANGED <<results, idleResults, idleLines, level>>

(* ... an empty queue starts it.                                            *)
StartIdle == Backlog = 0 /\ step' = "idle" /\ UNCHANGED <<results, idleResults, idleLines, level>>

CheckBacklog ==
  /\ step = "llen"
  /\ SkipIdle \/ StartIdle
  /\ UNCHANGED <<kind, queued, stale, lost, aborted, trialVars, result, anyTimeout, drainLines, outputVars>>

(* The idle-poll trial returns.                                             *)
IdleReturns ==
  /\ step = "idle"
  /\ \E n \in 0..Levels[level] : LeavesBehind(n)
  /\ \E d \in IdleDurations, c \in PollCounts : PushResults(Measured(Levels[level], d, c))
  /\ UNCHANGED <<kind, queued, lost, trialVars, result, anyTimeout, drainLines, outputVars>>

(* print_summary and print_idle_poll_summary.                                *)
PrintSummaries ==
  /\ step = "report"
  /\ idleRows' = [i \in 1..Len(idleResults) |-> IdleRow(idleResults[i])]
  /\ step' = "write"
  /\ UNCHANGED <<level, kind, queued, stale, lost, aborted, trialVars, result, results, idleResults,
                 anyTimeout, drainLines, idleLines, output, delivered, code>>

Exit(status) == step' = "exited" /\ code' = status

(* write_json, to the file or, with `--output -', to the terminal; then the   *)
(* exit code.                                                               *)
WriteReport ==
  /\ step = "write"
  /\ output' = Document(results, idleResults) /\ delivered' \in {"saved", "printed"}
  /\ Exit(IF anyTimeout THEN 1 ELSE 0)
  /\ UNCHANGED <<level, kind, queued, stale, lost, aborted, trialVars, result, results, idleResults,
                 anyTimeout, drainLines, idleLines, idleRows>>

WriteFailsUnnoticed ==
  /\ step = "write"
  /\ delivered' \in {"absent", "partial"}
  /\ Exit(IF anyTimeout THEN 1 ELSE 0)
  /\ UNCHANGED <<level, kind, queued, stale, lost, aborted, trialVars, result, results, idleResults,
                 anyTimeout, drainLines, idleLines, idleRows, output>>

(* create_dir_all fails, or the write, perhaps after a part of it: main       *)
(* returns the error, and the process exits with 1.                          *)
WriteFails ==
  /\ step = "write"
  /\ delivered' \in {"absent", "partial"}
  /\ Exit(1)
  /\ UNCHANGED <<level, kind, queued, stale, lost, aborted, trialVars, result, results, idleResults,
                 anyTimeout, drainLines, idleLines, idleRows, output>>

(* Every other call with a `?': an error ends main, no report is written, and *)
(* the process exits with 1.                                                *)
Fails ==
  /\ step \in {"clear", "fill", "trial", "llen", "idle"}
  /\ Exit(1)
  /\ UNCHANGED <<level, kind, queued, stale, lost, aborted, trialVars, result, results, idleResults,
                 anyTimeout, drainLines, idleLines, idleRows, output, delivered>>

-----------------------------------------------------------------------------
(* Redis executes an LPOP an aborted worker left behind.                     *)
StaleLpop ==
  /\ stale > 0
  /\ stale' = stale - 1
  /\ \/ queued = {} /\ UNCHANGED <<queued, missing>>
     \/ \E j \in queued : queued' = queued \ {j} /\ missing' = missing \cup {j}
  /\ UNCHANGED <<step, level, kind, lost, aborted, finished, ended, reportVars>>

Ended == step = "exited"
Terminated == Ended /\ UNCHANGED vars

MainStep ==
  \/ NextLevel \/ LevelsDone \/ Clear \/ Fill
  \/ \E v \in {"drained", "timed_out"} : TrialEnds(v)
  \/ WarmupReturns \/ DrainReturns \/ CheckBacklog \/ IdleReturns \/ PrintSummaries \/ WriteReport

Next ==
  \/ MainStep \/ Fails \/ WriteFails \/ StaleLpop \/ Terminated
  \/ \E j \in queued : Finish(j) \/ LoseJob(j)

Spec == Init /\ [][Next]_vars

(* Every trial ends (DrainTrial: TrialTerminates), and main goes on.         *)
FairSpec == Spec /\ WF_vars(MainStep)

-----------------------------------------------------------------------------
TypeOK ==
  /\ step \in Steps /\ level \in 1..(Len(Levels) + 1) /\ kind \in {"warmup", "drain"}
  /\ queued \subseteq (1..Len(Levels)) \X {"warmup", "drain"} \X (1..(TrialJobs + WarmupJobs))
  /\ stale \in 0..MaxStale /\ lost \in 0..MaxLost /\ aborted \in 0..MaxStale
  /\ finished \cap queued = {} /\ missing \cap queued = {}
  /\ ended \in {"open", "drained", "timed_out"}
  /\ Len(results) = level - 1 /\ Len(idleResults) = level - 1
  /\ anyTimeout \in BOOLEAN
  /\ delivered \in {"absent", "partial", "saved", "printed"} /\ code \in {Nil, 0, 1}

(* A trial measures its own backlog only: no job left by the warmup or by an  *)
(* earlier level that timed out is ever counted in it.                       *)
TrialFinishesOwnJobs == step = "trial" => finished \cup queued \cup missing \subseteq OwnJobs

(* A trial that is not reported as timed out completed every job it enqueued, *)
(* and no more.  Jobs missing from one that is were left in the queues, lost *)
(* with a failed query, or stolen by an LPOP of an earlier trial's aborted   *)
(* worker: there are never more of them than such queries and workers.       *)
TotalsExplained ==
  /\ \A i \in 1..Len(results) :
       /\ results[i].total_jobs <= TrialJobs
       /\ ~results[i].timed_out => results[i].total_jobs = TrialJobs
  /\ step = "trial" => Cardinality(OwnJobs) - Cardinality(finished \cup queued)
                         <= lost + (aborted - stale)

(* What the LLEN check guarantees of a phase that was measured (main.rs        *)
(* 899-911): the jobs its drain result lacks, were there a timeout or not,   *)
(* are not waiting in the queues.  There are no more of them than queries    *)
(* that failed and LPOPs of aborted workers that were executed, up to now.   *)
IdleOnAccountedQueues ==
  \A i \in 1..Len(idleResults) :
    ~idleResults[i].skipped => TrialJobs - results[i].total_jobs <= lost + (aborted - stale)

(* In the written document each level has one entry, in order, and its drain  *)
(* and idle results belong to the same level (report.rs: zip).               *)
ReportAligned ==
  output # Nil =>
    /\ Len(output) = Len(Levels)
    /\ \A i \in 1..Len(output) :
         /\ output[i] = Entry(results[i], idleResults[i])
         /\ results[i].workers = Levels[i] /\ idleResults[i].workers = Levels[i]

(* A process that ended with code 0 wrote the whole document, to the file or   *)
(* the terminal, and no trial in it timed out; and one that did both has     *)
(* code 0.  Code 1 does not say which of the two is missing: a timeout of    *)
(* any level (main.rs 964-967), or, through the Result of main, an error of  *)
(* any call up to the write of the file (main.rs 754, report.rs 261-273).    *)
(* The timeout of a warmup leaves no trace (main.rs 882).                    *)
ExitCodeTellsAll ==
  step = "exited" =>
    /\ code = 0 \/ code = 1
    /\ code = 0 <=> /\ delivered \in {"saved", "printed"} /\ Len(output) = Len(Levels)
                    /\ \A i \in 1..Len(results) : ~results[i].timed_out

(* A level that was measured is on the terminal, also when main ends with an  *)
(* error at a later one and no document is written (main.rs 893-944): the    *)
(* line of each drain and idle result, and that of the drain trial of the    *)
(* level in progress.                                                        *)
MeasuredLevelsArePrinted ==
  /\ Len(drainLines) >= Len(results) /\ Len(idleLines) = Len(idleResults)
  /\ \A i \in 1..Len(results) : drainLines[i] = TrialLine(results[i])
  /\ \A i \in 1..Len(idleResults) : idleLines[i] = IdleLine(idleResults[i])
  /\ result # Nil => \E i \in 1..Len(drainLines) : i >= Len(results) /\ drainLines[i] = TrialLine(result)

(* An idle phase is skipped only if its drain trial hit the timeout, as the    *)
(* reason says (main.rs 913-915).  The line, the table row and the entry of  *)
(* the document agree on which ones were: "consumers must check this before  *)
(* trusting idle_poll_qps" (report.rs 191-194), which is 0 then, but may be  *)
(* 0 in a phase that was run.                                               *)
SkippedIsMarked ==
  /\ \A i \in 1..Len(idleResults) :
       /\ idleResults[i].skipped => results[i].timed_out
       /\ idleLines[i].skipped = idleResults[i].skipped
  /\ idleRows # Nil =>
       \A i \in 1..Len(idleRows) : idleRows[i].skipped = idleLines[i].skipped
  /\ output # Nil =>
       \A i \in 1..Len(output) : /\ output[i].idle_poll.skipped_reason = idleLines[i].skipped
                                 /\ idleLines[i].skipped => output[i].timed_out

Distance(m, n) == IF m > n THEN m - n ELSE n - m

(* The numbers of an entry belong together: rate times duration is the total, *)
(* for the jobs and for the polls, and the rate per worker times the workers  *)
(* that of the fleet, each up to the rounding of both factors to tenths,     *)
(* hundredths and milliseconds (report.rs 230-257).                           *)
DocumentAgrees ==
  output # Nil =>
    \A i \in 1..Len(output) :
      LET e == output[i]
          p == output[i].idle_poll
      IN  /\ 2 * Distance(e.jobs_per_sec * e.duration_s, 10000 * e.total_jobs)
               <= e.jobs_per_sec + e.duration_s + 2
          /\ 2 * Distance(p.idle_poll_qps * p.duration_s, 10000 * p.total_lpop_calls)
               <= p.idle_poll_qps + p.duration_s + 2
          /\ 2 * Distance(p.per_worker_qps * e.workers, 10 * p.idle_poll_qps) <= e.workers + 10

(* The program ends, at whatever level a trial timed out.                    *)
BenchmarkEnds == <>Ended
=============================================================================
