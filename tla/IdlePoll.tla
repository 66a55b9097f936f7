------------------------------- MODULE IdlePoll -------------------------------
(***************************************************************************)
(* run_idle_poll_trial (src/main.rs): a fleet of poll workers on empty     *)
(* queues for a fixed window; the result is the number of LPOPs issued.    *)
(*                                                                         *)
(* The workers are those of PollWorker, here with the polls counter and    *)
(* with time.  A timer never fires early; a task may be late, except that  *)
(* the supervisors of join_workers act when their grace period is over.    *)
(* Time is counted in units that divide the poll interval.                 *)
(***************************************************************************)
EXTENDS PollWorker, Report

CONSTANTS
  Interval,   \* --poll-interval-ms
  Window,     \* --idle-poll-duration-s
  Grace,      \* the grace period of join_workers
  MaxTime     \* BOUND: the clock stops here

ASSUME IdleAssumption ==
  /\ Interval \in Nat \ {0} /\ Window \in Nat \ {0} /\ Grace \in Nat
  /\ MaxTime \in Nat
  /\ Jobs = {}                                  \* main verified the queues are empty
  /\ Target > Cardinality(Foreign)              \* target_jobs: None

VARIABLES
  now,       \* the clock
  wake,      \* per worker: when its sleep ends (0: it does not sleep)
  deadline,  \* per worker: when its supervisor aborts it
  abortReq,  \* workers whose task was aborted
  polls,     \* Metrics.polls
  phase,     \* where run_idle_poll_trial is
  startAt,   \* its start
  elapsed,   \* its elapsed
  atStop,      \* history: the time and the hits when elapsed was read, ...
  stopPolls,   \* ... the polls counted by then, ...
  atShutdown,  \* ... and the time and the hits when shutdown was sent
  result     \* the IdlePollResult, Nil before

timerVars == <<wake, deadline, abortReq>>
marks     == <<atStop, stopPolls, atShutdown>>
mainVars  == <<phase, startAt, elapsed, marks, result>>
vars == <<workerVars, now, timerVars, polls, mainVars>>

Mark == [at |-> now, hits |-> completed]

Init ==
  /\ WorkerInit
  /\ now = 0
  /\ wake = [w \in Workers |-> 0] /\ deadline = [w \in Workers |-> 0] /\ abortReq = {}
  /\ polls = 0
  /\ phase = "connect" /\ startAt = 0 /\ elapsed = 0
  /\ atStop = Mark /\ stopPolls = 0 /\ atShutdown = Mark
  /\ result = Nil

-----------------------------------------------------------------------------
(* The workers, with the counter and the clock.                             *)

(* inc_poll, then the LPOP.                                                 *)
Poll(w) ==
  /\ SendLpop(w)
  /\ polls' = polls + 1
  /\ UNCHANGED <<now, timerVars, mainVars>>

SleepsTooShort(w) ==
  wake' = IF pc'[w] = "sleep" THEN [wake EXCEPT ![w] = now + Interval - 1] ELSE wake

(* A scan that ends without a hit starts the sleep.                         *)
Sleeps(w) ==
  wake' = IF pc'[w] = "sleep" THEN [wake EXCEPT ![w] = now + Interval] ELSE wake

(* An empty key, or a failed query: on with the scan.                       *)
Miss(w) ==
  /\ ReplyMiss(w) \/ ReplyErr(w)
  /\ Sleeps(w)
  /\ UNCHANGED <<now, deadline, abortReq, polls, mainVars>>

Wakes(w) ==
  /\ \/ SleepElapsed(w) /\ now >= wake[w]
     \/ ShutdownWakes(w)
  /\ wake' = [wake EXCEPT ![w] = 0]
  /\ UNCHANGED <<now, deadline, abortReq, polls, mainVars>>

(* Everything else a worker does: its loop, and a stray hit.                 *)
Works(w) ==
  /\ LoopTop(w) \/ ReplyHit(w) \/ RecordJob(w) \/ CountJob(w)
  /\ UNCHANGED <<now, timerVars, polls, mainVars>>

(* drain_task receives and discards.                                        *)
DiscardLatency ==
  /\ \E e \in chan : chan' = chan \ {e}
  /\ UNCHANGED <<redisVars, pc, key, reply, metricVars, done, shutdown>>
  /\ UNCHANGED <<now, timerVars, polls, mainVars>>

-----------------------------------------------------------------------------
(* The orchestrator.                                                        *)

Spawn ==
  /\ phase = "connect"
  /\ phase' = "spawned"
  /\ pc' = [w \in Workers |-> "top"]
  /\ UNCHANGED <<redisVars, key, reply, metricVars, chan, done, shutdown>>
  /\ UNCHANGED <<now, timerVars, polls, startAt, elapsed, marks, result>>

ConnectFails ==
  /\ phase = "connect"
  /\ phase' = "error"
  /\ UNCHANGED <<workerVars, now, timerVars, polls, startAt, elapsed, marks, result>>

(* start = Instant::now(): the workers are already running.                 *)
StartClock ==
  /\ phase = "spawned"
  /\ phase' = "window"
  /\ startAt' = now
  /\ UNCHANGED <<workerVars, now, timerVars, polls, elapsed, marks, result>>

(* The sleep of the window is over, perhaps late; elapsed is what it took.   *)
StopClock ==
  /\ phase = "window"
  /\ now >= startAt + Window
  /\ phase' = "stopping"
  /\ elapsed' = now - startAt /\ atStop' = Mark /\ stopPolls' = polls
  /\ UNCHANGED <<workerVars, now, timerVars, polls, startAt, atShutdown, result>>

DeadlinesInTurn == [w \in Workers |-> now + Grace * Cardinality(Workers)]

(* join_workers watches all workers at once, each with its own grace.        *)
Deadlines == [w \in Workers |-> now + Grace]

SendShutdown ==
  /\ phase = "stopping"
  /\ phase' = "joining"
  /\ shutdown' = TRUE
  /\ atShutdown' = Mark
  /\ deadline' = Deadlines
  /\ UNCHANGED <<redisVars, pc, key, reply, metricVars, chan, done>>
  /\ UNCHANGED <<now, wake, abortReq, polls, startAt, elapsed, atStop, stopPolls, result>>

GraceExpires(w) ==
  /\ phase = "joining" /\ ~Gone(w) /\ w \notin abortReq
  /\ now >= deadline[w]
  /\ abortReq' = abortReq \cup {w}
  /\ UNCHANGED <<workerVars, now, wake, deadline, polls, mainVars>>

Cancel(w) ==
  /\ w \in abortReq /\ Parked(w)
  /\ reply' = [reply EXCEPT ![w] = Pending]
  /\ Goto(w, "cancelled")
  /\ UNCHANGED <<redisVars, key, metricVars, chan, done, shutdown>>
  /\ UNCHANGED <<now, timerVars, polls, mainVars>>

Joined == \A w \in Workers : Gone(w) \/ w \in abortReq

ReturnBeforeJoin ==
  /\ phase = "joining"
  /\ phase' = "returned"
  /\ result' = Measured(Cardinality(Workers), elapsed, polls)
  /\ UNCHANGED <<workerVars, now, timerVars, polls, startAt, elapsed, marks>>

(* After the join the counter is read, and the rates computed from it over   *)
(* the time the window really took; the workers' errors are not read.       *)
Return ==
  /\ phase = "joining" /\ Joined
  /\ phase' = "returned"
  /\ result' = Measured(Cardinality(Workers), elapsed, polls)
  /\ UNCHANGED <<workerVars, now, timerVars, polls, startAt, elapsed, marks>>

(* Time passes, from the spawn on, while no supervisor is due and the join   *)
(* is not complete.                                                         *)
Pass ==
  /\ now < MaxTime
  /\ phase = "joining" => ~Joined /\ \A w \in Workers :
                            Gone(w) \/ w \in abortReq \/ now < deadline[w]
  /\ phase \notin {"connect", "returned", "error"}
  /\ now' = now + 1
  /\ UNCHANGED <<workerVars, timerVars, polls, mainVars>>

(* The trial is over, or the modelled time is.                              *)
Terminated == (phase \in {"returned", "error"} \/ now = MaxTime) /\ UNCHANGED vars

WorkerActs(w) == Poll(w) \/ Miss(w) \/ Wakes(w) \/ Works(w)

Next ==
  \/ Environment /\ UNCHANGED <<now, timerVars, polls, mainVars>>
  \/ \E w \in Workers : WorkerActs(w) \/ GraceExpires(w) \/ Cancel(w)
  \/ DiscardLatency \/ Spawn \/ ConnectFails \/ StartClock \/ StopClock
  \/ SendShutdown \/ Return \/ Pass \/ Terminated

Spec == Init /\ [][Next]_vars

-----------------------------------------------------------------------------
Fleet == Cardinality(Workers)

(* The polling load of an idle fleet is bounded by its poll interval: one     *)
(* scan per worker and interval, the first one, and one more per stray hit    *)
(* (README 322-328: up to N LPOPs per worker per cycle).  A failed query     *)
(* does not make a worker poll faster.                                      *)
PollRateBounded ==
  polls <= Fleet * NumQueues * ((now \div Interval) + 1) + NumQueues * completed

(* What the fleet may poll between two moments, with that many hits counted.  *)
Allowed(from, to) ==
  Fleet * NumQueues * (((to.at - from.at) \div Interval) + 1) + NumQueues * (to.hits - from.hits)

(* The number the trial reports is more than the polls of its window by what  *)
(* the fleet polls before start and after elapsed is read.  Before start that *)
(* is what its rate allows since the spawn.  After elapsed is read it is what *)
(* its rate allows until the shutdown signal, and nothing for the time and    *)
(* the hits after the signal: a worker then at most ends the scan it is in.   *)
CallsOutsideBounded ==
  /\ phase = "spawned" => polls <= Allowed([at |-> 0, hits |-> 0], Mark)
  /\ phase = "stopping" => polls - stopPolls <= Allowed(atStop, Mark)
  /\ phase \in {"joining", "returned"} => polls - stopPolls <= Allowed(atStop, atShutdown)

(* The join takes one grace period, however many workers are stuck (main.rs  *)
(* 393-403).                                                                *)
JoinWithinGrace == phase \in {"joining", "returned"} => now <= atShutdown.at + Grace

(* The reported duration is what the window really took, never less than     *)
(* requested, and the report is complete: no worker that was joined, rather  *)
(* than aborted, polls after it.                                            *)
ReportIsFinal ==
  phase = "returned" =>
    /\ result.duration >= Window
    /\ abortReq = {} => result.total_lpop_calls = polls

(* No poll of the reported count was issued after elapsed, its duration, was  *)
(* read:                                                                    *)
(* "the LPOP calls/sec issued during this window is the tool's headline new   *)
(* metric" (main.rs 121-124).                                               *)
CallsAreOfTheWindow == phase = "returned" => result.total_lpop_calls <= stopPolls
=============================================================================
