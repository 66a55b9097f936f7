------------------------------ MODULE DrainTrial ------------------------------
(***************************************************************************)
(* run_drain_trial (src/main.rs): the orchestrator opens one connection    *)
(* per worker, spawns the workers and the histogram collector, waits for   *)
(* the done signal or the timeout, shuts the workers down within a grace   *)
(* period, awaits the collector and returns the TrialResult.               *)
(*                                                                         *)
(* Time is not modelled here: the timeout and the grace period may pass at *)
(* any step.  The one-second samples of the monitor task are in module     *)
(* Sampler.                                                                *)
(***************************************************************************)
EXTENDS PollWorker

CONSTANT HistMax   \* the largest latency the histogram stores (a bound of 60_000_000 us)

ASSUME TrialAssumption ==
  /\ HistMax \in Nat \ {0}
  /\ Target = Cardinality(Jobs)   \* main enqueues cfg.jobs payloads

VARIABLES
  phase,          \* where run_drain_trial is
  timedOut,       \* its timed_out
  abortReq,       \* workers whose task was aborted
  hist,           \* the collector's histogram: the entries it recorded
  refused,        \* history: the entries the histogram did not store
  collectorDone,  \* the collector task returned
  result,         \* the TrialResult, Nil before
  atShutdown      \* history: Metrics.completed when shutdown was sent

trialVars == <<phase, timedOut, abortReq, hist, refused, collectorDone, result, atShutdown>>
vars == <<workerVars, trialVars>>

Phase == {"connect", "running", "stopping", "joining", "collecting", "returned", "error"}

Init ==
  /\ WorkerInit
  /\ phase = "connect" /\ timedOut = FALSE /\ abortReq = {}
  /\ hist = {} /\ refused = {} /\ collectorDone = FALSE
  /\ result = Nil /\ atShutdown = 0

-----------------------------------------------------------------------------
(* The orchestrator.                                                        *)

(* open_worker_connections succeeded: every worker is spawned.              *)
Spawn ==
  /\ phase = "connect"
  /\ phase' = "running"
  /\ pc' = [w \in Workers |-> "top"]
  /\ UNCHANGED <<redisVars, key, reply, metricVars, chan, done, shutdown>>
  /\ UNCHANGED <<timedOut, abortReq, hist, refused, collectorDone, result, atShutdown>>

(* A connection could not be opened: the trial returns Err before any       *)
(* worker is spawned.                                                       *)
ConnectFails ==
  /\ phase = "connect"
  /\ phase' = "error"
  /\ UNCHANGED workerVars
  /\ UNCHANGED <<timedOut, abortReq, hist, refused, collectorDone, result, atShutdown>>

(* select!: done_rx saw true (with no job to drain there is no select!).    *)
TrialDone ==
  /\ phase = "running"
  /\ done \/ Target = 0
  /\ phase' = "stopping"
  /\ UNCHANGED workerVars
  /\ UNCHANGED <<timedOut, abortReq, hist, refused, collectorDone, result, atShutdown>>

(* select!: the timeout elapsed.  If done is set as well, either may win.   *)
TrialTimeout ==
  /\ phase = "running"
  /\ Target > 0
  /\ phase' = "stopping"
  /\ timedOut' = TRUE
  /\ UNCHANGED workerVars
  /\ UNCHANGED <<abortReq, hist, refused, collectorDone, result, atShutdown>>

(* shutdown_tx.send(true), then join_workers.                               *)
SendShutdown ==
  /\ phase = "stopping"
  /\ phase' = "joining"
  /\ shutdown' = TRUE
  /\ atShutdown' = completed
  /\ UNCHANGED <<redisVars, pc, key, reply, metricVars, chan, done>>
  /\ UNCHANGED <<timedOut, abortReq, hist, refused, collectorDone, result>>

(* The supervisor of w sees its grace pass first and aborts the task.       *)
GraceExpires(w) ==
  /\ phase = "joining"
  /\ ~Gone(w) /\ w \notin abortReq
  /\ abortReq' = abortReq \cup {w}
  /\ UNCHANGED workerVars
  /\ UNCHANGED <<phase, timedOut, hist, refused, collectorDone, result, atShutdown>>

CancelAnywhere(w) ==
  /\ w \in abortReq
  /\ ~Gone(w)
  /\ reply' = [reply EXCEPT ![w] = Pending]
  /\ Goto(w, "cancelled")
  /\ UNCHANGED <<redisVars, key, metricVars, chan, done, shutdown, trialVars>>

(* The runtime drops an aborted task where it waits; an answer it had not   *)
(* looked at is dropped with it.                                            *)
Cancel(w) ==
  /\ w \in abortReq
  /\ Parked(w)
  /\ reply' = [reply EXCEPT ![w] = Pending]
  /\ Goto(w, "cancelled")
  /\ UNCHANGED <<redisVars, key, metricVars, chan, done, shutdown, trialVars>>

(* join_workers returns when each task ended or was aborted; an aborted     *)
(* task may still be running.                                               *)
JoinDone ==
  /\ phase = "joining"
  /\ \A w \in Workers : Gone(w) \/ w \in abortReq
  /\ phase' = "collecting"
  /\ UNCHANGED workerVars
  /\ UNCHANGED <<timedOut, abortReq, hist, refused, collectorDone, result, atShutdown>>

ReturnWithoutCollector ==
  /\ phase = "collecting"
  /\ phase' = "returned"
  /\ result' = [total_jobs |-> completed, errors |-> errors,
                latency_count |-> Cardinality(hist), timed_out |-> timedOut]
  /\ UNCHANGED workerVars
  /\ UNCHANGED <<timedOut, abortReq, hist, refused, collectorDone, atShutdown>>

(* collector.await, then the counters are read and the result returned.     *)
Return ==
  /\ phase = "collecting"
  /\ collectorDone
  /\ phase' = "returned"
  /\ result' = [total_jobs |-> completed, errors |-> errors,
                latency_count |-> Cardinality(hist), timed_out |-> timedOut]
  /\ UNCHANGED workerVars
  /\ UNCHANGED <<timedOut, abortReq, hist, refused, collectorDone, atShutdown>>

-----------------------------------------------------------------------------
(* The collector task.                                                      *)

(* record() fails above the histogram's upper bound and the code ignores    *)
(* the failure: the latency is in no statistic.                             *)
CollectorRecv ==
  /\ \E e \in chan :
       /\ chan' = chan \ {e}
       /\ \/ e[2] <= HistMax /\ hist' = hist \cup {e} /\ UNCHANGED refused
          \/ e[2] > HistMax /\ refused' = refused \cup {e} /\ UNCHANGED hist
  /\ UNCHANGED <<redisVars, pc, key, reply, metricVars, done, shutdown>>
  /\ UNCHANGED <<phase, timedOut, abortReq, collectorDone, result, atShutdown>>

CollectorEndKeepsSentinel ==
  /\ phase = "returned"
  /\ chan = {} /\ \A w \in Workers : Gone(w)
  /\ ~collectorDone
  /\ collectorDone' = TRUE
  /\ UNCHANGED workerVars
  /\ UNCHANGED <<phase, timedOut, abortReq, hist, refused, result, atShutdown>>

(* recv() yields None: the channel is empty and every sender is dropped -   *)
(* the sentinel after the last spawn (or when the trial fails to connect),  *)
(* and each worker's clone with its task.                                   *)
CollectorEnd ==
  /\ chan = {}
  /\ phase = "error" \/ \A w \in Workers : Gone(w)
  /\ phase # "connect"
  /\ ~collectorDone
  /\ collectorDone' = TRUE
  /\ UNCHANGED workerVars
  /\ UNCHANGED <<phase, timedOut, abortReq, hist, refused, result, atShutdown>>

-----------------------------------------------------------------------------
(* The trial is over and no task of it is left: nothing need happen any more. *)
Terminated ==
  /\ phase \in {"returned", "error"}
  /\ UNCHANGED vars

WorkerActs(w) == (WorkerStep(w) \/ ReplyErr(w)) /\ UNCHANGED trialVars

Orchestrator ==
  \/ Spawn \/ ConnectFails \/ TrialDone \/ TrialTimeout \/ SendShutdown
  \/ JoinDone \/ Return

Next ==
  \/ Environment /\ UNCHANGED trialVars
  \/ \E w \in Workers : WorkerActs(w) \/ GraceExpires(w) \/ Cancel(w)
  \/ Orchestrator
  \/ CollectorRecv \/ CollectorEnd
  \/ Terminated

Spec == Init /\ [][Next]_vars

(* The runtime polls every task that can move, and its timers fire.  Redis   *)
(* promises nothing: a query may stay unanswered for ever.                  *)
RuntimeFairness ==
  /\ \A w \in Workers : /\ WF_vars(WorkerStep(w) /\ UNCHANGED trialVars)
                        /\ WF_vars(GraceExpires(w))
                        /\ WF_vars(Cancel(w))
  /\ WF_vars(SendShutdown) /\ WF_vars(JoinDone) /\ WF_vars(Return)
  /\ WF_vars(CollectorRecv) /\ WF_vars(CollectorEnd)

FairSpec == Spec /\ RuntimeFairness

(* What some of its liveness needs beyond the runtime: the timeout passes,   *)
(* Redis executes what it was sent, no query fails.                         *)
TimeoutFires == WF_vars(TrialDone \/ TrialTimeout)
RedisAnswers == \A w \in Workers : WF_vars((LpopHit(w) \/ LpopMiss(w)) /\ UNCHANGED trialVars)
NoFailure    == errors = 0 /\ \A w \in Workers : up[w]

-----------------------------------------------------------------------------
(* Where payloads are.                                                      *)

InQueue(p) == \E k \in Keys : \E i \in 1..Len(queue[k]) : queue[k][i] = p
Held(p)    == \E w \in Workers : reply[w] = p

Lost == {p \in Payloads : ~InQueue(p) /\ ~Held(p) /\ p \notin finished /\ p \notin unsent}

(* Malformed payloads whose error was counted.                              *)
Rejected == {p \in Malformed : \/ p \in finished
                               \/ \E w \in Workers : pc[w] = "count" /\ reply[w] = p}

-----------------------------------------------------------------------------
(* Types: in particular no latency of 0 is sent (the histogram starts at 1) *)
(* and none above its bound is stored.                                      *)
TypeOK ==
  /\ WorkerTypeOK
  /\ phase \in Phase
  /\ timedOut \in BOOLEAN
  /\ abortReq \subseteq Workers
  /\ hist \subseteq Payloads \X (1..HistMax)
  /\ refused \subseteq Payloads \X (Nat \ {0})
  /\ collectorDone \in BOOLEAN
  /\ result = Nil \/ result \in [total_jobs : Nat, errors : Nat,
                                 latency_count : Nat, timed_out : BOOLEAN]
  /\ atShutdown \in Nat

(* A payload is in one place at most: in one list position, with one worker, *)
(* finished, or not pushed yet.  So no payload is dequeued by two workers,   *)
(* or finished twice (worker.rs: one LPOP per reservation).                 *)
OnePlace ==
  /\ \A k, l \in Keys : \A i \in 1..Len(queue[k]), j \in 1..Len(queue[l]) :
       queue[k][i] = queue[l][j] => k = l /\ i = j
  /\ \A v, w \in Workers : reply[v] = reply[w] /\ reply[v] \in Payloads => v = w
  /\ \A p \in Payloads :
       /\ InQueue(p) => ~Held(p) /\ p \notin finished /\ p \notin unsent
       /\ Held(p) => p \notin finished /\ p \notin unsent
       /\ p \in finished => p \notin unsent

(* However the workers' steps interleave, completed counts each finished     *)
(* payload once (metrics.rs inc_completed, an atomic fetch_add).            *)
CountedOnce == completed = Cardinality(finished)

(* The done signal is a race-free "queue is empty" signal (main.rs 905-909)  *)
(* as long as nobody else has pushed to the queues: at the latest when it is *)
(* sent, every job of the backlog is finished and every list is empty.       *)
DoneMeansDrained ==
  unsent = Foreign /\ done => finished = Jobs /\ \A k \in Keys : queue[k] = <<>>

(* A payload disappears only with a failed query or an aborted worker, and   *)
(* each of those loses at most one (worker.rs, the Err arm; main.rs,         *)
(* join_workers): the errors of the trial bound the jobs missing from it.    *)
LossIsAccounted ==
  Cardinality(Lost) + Cardinality(Rejected)
    <= errors + Cardinality({w \in Workers : pc[w] = "cancelled"})

(* What run_drain_trial returns is complete although the workers are not    *)
(* awaited one by one: the counters are final, and each finished payload     *)
(* was counted as an error, or recorded once, or refused by the histogram.   *)
ResultAccounts ==
  phase = "returned" =>
    /\ result.total_jobs = Cardinality(finished)
    /\ result.errors = errors
    /\ result.latency_count = Cardinality(hist)
    /\ {e[1] : e \in hist \cup refused} = finished \ Malformed
    /\ Cardinality(hist \cup refused) = Cardinality(finished \ Malformed)

(* After the shutdown signal each worker completes at most one more job,     *)
(* however long the backlog (worker.rs: the check at the top of the loop).   *)
ShutdownOvershoot == shutdown => completed - atShutdown <= Cardinality(Workers)

(* Nothing is counted once the result has been returned: no task of the      *)
(* trial outlives the join in a way the report could miss.                  *)
NothingCountedAfterReturn ==
  [][phase = "returned" => UNCHANGED <<completed, errors, chan, hist>>]_vars

(* Queues are drained in strict priority order by the whole fleet: as long   *)
(* as no query has failed and nobody has pushed, no job leaves a key before  *)
(* every key of higher priority is empty (worker.rs 49-51).                  *)
PriorityOrder ==
  [][errors = 0 /\ unsent = Foreign =>
       \A k \in Keys : Len(queue'[k]) < Len(queue[k]) =>
                         \A j \in 1..(k - 1) : queue[j] = <<>>]_vars

(* Every trial that starts comes to its result, whatever Redis does: also   *)
(* when every worker is stuck in a query (main.rs, join_workers).           *)
TrialTerminates == TimeoutFires => (phase = "running" ~> phase = "returned")

(* With a Redis that answers and no failure the backlog is drained and the   *)
(* trial ends without its timeout.                                          *)
DrainCompletes ==
  RedisAnswers /\ [](~timedOut /\ NoFailure) => (phase = "running" ~> done)

(* A trial reported as timed out is incomplete (main.rs 965: "one or more    *)
(* trials timed out - results are incomplete").                             *)
TimedOutMeansIncomplete ==
  phase = "returned" /\ result.timed_out => result.total_jobs < Target

(* Every job of a completed trial has its latency in the histogram           *)
(* (README: an "HDRHistogram per job").                                     *)
LatencyCoversEveryJob ==
  phase = "returned" /\ Foreign = {} => result.latency_count = result.total_jobs

-----------------------------------------------------------------------------
(* The trial implements the ledger.                                         *)

WhereIs(p) == IF p \in finished THEN "finished"
              ELSE IF p \in unsent THEN "absent"
              ELSE IF InQueue(p) THEN "queued"
              ELSE IF Held(p) THEN "held" ELSE "lost"

fateOf == [p \in Payloads |-> WhereIs(p)]

verdictOf == CASE phase = "error" -> "failed"
               [] phase \in {"connect", "running"} -> "open"
               [] OTHER -> IF timedOut THEN "timed_out" ELSE "drained"

reportOf == IF phase # "returned" THEN Nil
            ELSE [total_jobs |-> result.total_jobs, timed_out |-> result.timed_out]

Ledger == INSTANCE DrainLedger
            WITH fate <- fateOf, verdict <- verdictOf, report <- reportOf, None <- Nil

(* Each payload is taken once and finished once, the verdict "drained" needs *)
(* Target finished payloads, and the report is final.                       *)
ImplementsLedger == Ledger!Spec
=============================================================================
