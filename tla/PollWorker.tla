------------------------------ MODULE PollWorker ------------------------------
(***************************************************************************)
(* A fleet of Resque poll workers (src/worker.rs) against one Redis.       *)
(*                                                                         *)
(* A worker scans its queue keys in priority order with one plain LPOP     *)
(* each.  A hit is recorded and the loop restarts at once; a scan without  *)
(* a hit sleeps.  Workers are tokio tasks on several threads, so the steps *)
(* between two awaits interleave with the other tasks at every shared      *)
(* access: the latency channel, the counters and the two watch channels.   *)
(*                                                                         *)
(* Redis and the client library are external.  Each worker owns one        *)
(* connection; its requests are executed in the order they were sent.  A   *)
(* query may fail on the client although its LPOP was executed, or will    *)
(* still be executed later: the reply is then dropped, with its payload.   *)
(***************************************************************************)
EXTENDS Integers, Sequences, FiniteSets

CONSTANTS
  Workers,     \* the worker tasks of the trial
  NumQueues,   \* --num-queues: keys 1..NumQueues, in priority order
  Jobs,        \* the payloads bulk_enqueue pushed for this trial
  Foreign,     \* payloads another client of a shared Redis may push meanwhile
  Malformed,   \* payloads record_job cannot take a timestamp from
  Backlog,     \* what each key holds when the trial starts
  Target,      \* target_jobs
  Waits,       \* how long a payload may have waited (us; negative: clock skew)
  MaxErrors,   \* BOUND: failed queries the network produces
  Nil,         \* Ok(None), the reply to LPOP on an empty key
  Pending      \* no reply yet

Keys     == 1..NumQueues
Payloads == Jobs \cup Foreign

(* Each job sits in exactly one place of the backlog (Producer shows that    *)
(* bulk_enqueue leaves such a backlog).                                     *)
BacklogIsPartition ==
  /\ Backlog \in [Keys -> Seq(Jobs)]
  /\ \A k, l \in Keys : \A i \in 1..Len(Backlog[k]), j \in 1..Len(Backlog[l]) :
       Backlog[k][i] = Backlog[l][j] => k = l /\ i = j
  /\ \A p \in Jobs : \E k \in Keys : \E i \in 1..Len(Backlog[k]) : Backlog[k][i] = p

ASSUME WorkerAssumption ==
  /\ NumQueues \in Nat \ {0}
  /\ IsFiniteSet(Workers)
  /\ IsFiniteSet(Jobs) /\ IsFiniteSet(Foreign)
  /\ Jobs \cap Foreign = {}
  /\ Malformed \subseteq Foreign
  /\ Nil \notin Payloads /\ Pending \notin Payloads /\ Nil # Pending
  /\ Target \in Nat
  /\ Waits \subseteq Int
  /\ MaxErrors \in Nat

ASSUME BacklogAssumption == BacklogIsPartition

VARIABLES
  queue,      \* Redis: the list under each key
  unsent,     \* foreign payloads not pushed yet
  wire,       \* per connection: keys of the LPOPs sent and not yet executed
  up,         \* per connection: usable (a MultiplexedConnection never reconnects)
  pc,         \* where each worker's task is
  key,        \* the key of each worker's scan in progress
  reply,      \* the answer to each worker's last LPOP, kept until processed
  completed,  \* Metrics.completed
  errors,     \* Metrics.errors
  chan,       \* the latency channel: <<payload, us>> sent and not received
  done,       \* the value of the done watch channel
  shutdown,   \* the value of the shutdown watch channel
  finished    \* history: the payloads whose completion was counted

redisVars  == <<queue, unsent, wire, up>>
metricVars == <<completed, errors, finished>>
workerVars == <<redisVars, pc, key, reply, metricVars, chan, done, shutdown>>

PC == {"unspawned", "top", "issue", "await", "record", "count", "signal",
       "sleep", "exited", "cancelled"}

(* The task is over and its latency_tx clone dropped.                       *)
Gone(w) == pc[w] \in {"exited", "cancelled"}

(* The points at which a task waits, and the only ones where it can be      *)
(* aborted: the query and the select! of worker.rs.                         *)
Parked(w) == pc[w] \in {"await", "sleep"}

Goto(w, label) == pc' = [pc EXCEPT ![w] = label]

WorkerInit ==
  /\ queue = Backlog
  /\ unsent = Foreign
  /\ wire = [w \in Workers |-> <<>>]
  /\ up = [w \in Workers |-> TRUE]
  /\ pc = [w \in Workers |-> "unspawned"]
  /\ key = [w \in Workers |-> 1]
  /\ reply = [w \in Workers |-> Pending]
  /\ completed = 0 /\ errors = 0 /\ finished = {}
  /\ chan = {}
  /\ done = FALSE /\ shutdown = FALSE

-----------------------------------------------------------------------------
(* Redis and the network: external.                                         *)

(* Another client pushes a payload of its own to one of the keys.           *)
ForeignPush(p, k) ==
  /\ p \in unsent
  /\ unsent' = unsent \ {p}
  /\ queue' = [queue EXCEPT ![k] = Append(@, p)]
  /\ UNCHANGED <<wire, up, pc, key, reply, metricVars, chan, done, shutdown>>

(* The request Redis is about to execute is the one its worker waits for.   *)
Awaited(w) == pc[w] = "await" /\ Len(wire[w]) = 1

LpopHitPeeks(w) ==
  LET k == Head(wire[w]) IN
  /\ wire[w] # <<>>
  /\ queue[k] # <<>>
  /\ reply' = IF Awaited(w) THEN [reply EXCEPT ![w] = Head(queue[k])] ELSE reply
  /\ wire' = [wire EXCEPT ![w] = Tail(@)]
  /\ UNCHANGED <<queue, unsent, up, pc, key, metricVars, chan, done, shutdown>>

(* Redis executes the oldest request of w's connection and removes the head *)
(* of the list.  If w no longer waits for this request, nobody reads the    *)
(* payload: it is lost.                                                     *)
LpopHit(w) ==
  LET k == Head(wire[w]) IN
  /\ wire[w] # <<>>
  /\ queue[k] # <<>>
  /\ queue' = [queue EXCEPT ![k] = Tail(@)]
  /\ reply' = IF Awaited(w) THEN [reply EXCEPT ![w] = Head(queue[k])] ELSE reply
  /\ wire' = [wire EXCEPT ![w] = Tail(@)]
  /\ UNCHANGED <<unsent, up, pc, key, metricVars, chan, done, shutdown>>

(* ... or finds the list empty.                                             *)
LpopMiss(w) ==
  /\ wire[w] # <<>>
  /\ queue[Head(wire[w])] = <<>>
  /\ reply' = IF Awaited(w) THEN [reply EXCEPT ![w] = Nil] ELSE reply
  /\ wire' = [wire EXCEPT ![w] = Tail(@)]
  /\ UNCHANGED <<queue, unsent, up, pc, key, metricVars, chan, done, shutdown>>

(* w's connection breaks, or is closed after its task is gone (which only   *)
(* matters for a request still on it); requests Redis has not executed by   *)
(* then vanish.                                                             *)
BreakConnection(w) ==
  /\ up[w]
  /\ errors < MaxErrors \/ (Gone(w) /\ wire[w] # <<>>)
  /\ up' = [up EXCEPT ![w] = FALSE]
  /\ wire' = [wire EXCEPT ![w] = <<>>]
  /\ UNCHANGED <<queue, unsent, pc, key, reply, metricVars, chan, done, shutdown>>

-----------------------------------------------------------------------------
(* PollWorker::run.                                                         *)

LoopTopIgnoresShutdown(w) ==
  /\ pc[w] = "top"
  /\ key' = [key EXCEPT ![w] = 1]
  /\ Goto(w, "issue")
  /\ UNCHANGED <<redisVars, reply, metricVars, chan, done, shutdown>>

LoopTopKeepsKey(w) ==
  /\ pc[w] = "top"
  /\ key' = [key EXCEPT ![w] = IF @ = NumQueues THEN 1 ELSE @ + 1]
  /\ Goto(w, IF shutdown THEN "exited" ELSE "issue")
  /\ UNCHANGED <<redisVars, reply, metricVars, chan, done, shutdown>>

(* Top of the loop: leave on shutdown, else start a scan at the first key.  *)
LoopTop(w) ==
  /\ pc[w] = "top"
  /\ key' = [key EXCEPT ![w] = 1]
  /\ Goto(w, IF shutdown THEN "exited" ELSE "issue")
  /\ UNCHANGED <<redisVars, reply, metricVars, chan, done, shutdown>>

(* Send LPOP for the key and await the reply.  (inc_poll counts the poll    *)
(* before it is sent; the drain trial never reads that counter, the idle    *)
(* trial does: module IdlePoll.)                                            *)
SendLpop(w) ==
  /\ pc[w] = "issue"
  /\ wire' = [wire EXCEPT ![w] = IF up[w] THEN Append(@, key[w]) ELSE @]
  /\ Goto(w, "await")
  /\ UNCHANGED <<queue, unsent, up, key, reply, metricVars, chan, done, shutdown>>

ContinueScanStops(w) ==
  /\ Goto(w, "sleep")
  /\ UNCHANGED key

(* The `continue` of the scan: the next key, or, after the last, the sleep. *)
ContinueScan(w) ==
  \/ /\ key[w] < NumQueues
     /\ key' = [key EXCEPT ![w] = @ + 1]
     /\ Goto(w, "issue")
  \/ /\ key[w] = NumQueues
     /\ Goto(w, "sleep")
     /\ UNCHANGED key

(* Ok(Some(payload)): the scan ends with a hit.                             *)
ReplyHit(w) ==
  /\ pc[w] = "await"
  /\ reply[w] \in Payloads
  /\ Goto(w, "record")
  /\ UNCHANGED <<redisVars, key, reply, metricVars, chan, done, shutdown>>

(* Ok(None).                                                                *)
ReplyMiss(w) ==
  /\ pc[w] = "await"
  /\ reply[w] = Nil
  /\ reply' = [reply EXCEPT ![w] = Pending]
  /\ ContinueScan(w)
  /\ UNCHANGED <<redisVars, metricVars, chan, done, shutdown>>

ReplyErrSilent(w) ==
  /\ pc[w] = "await"
  /\ errors < MaxErrors
  /\ reply' = [reply EXCEPT ![w] = Pending]
  /\ ContinueScan(w)
  /\ UNCHANGED <<redisVars, metricVars, chan, done, shutdown>>

(* Err(_): counted, then treated like a miss.  The request stays on the     *)
(* wire if Redis has not executed it; if it has, its reply is dropped.      *)
ReplyErr(w) ==
  /\ pc[w] = "await"
  /\ errors < MaxErrors
  /\ errors' = errors + 1
  /\ reply' = [reply EXCEPT ![w] = Pending]
  /\ ContinueScan(w)
  /\ UNCHANGED <<redisVars, completed, finished, chan, done, shutdown>>

LatencyUsUnclamped(wait) == IF wait < 0 THEN 1 ELSE wait

(* Latency in microseconds: at least 1, also under clock skew.              *)
LatencyUs(wait) == IF wait < 1 THEN 1 ELSE wait

(* record_job: send the latency, or count an error for a payload that does  *)
(* not parse or carries no timestamp.                                       *)
RecordJob(w) ==
  /\ pc[w] = "record"
  /\ \/ /\ reply[w] \in Malformed
        /\ errors' = errors + 1
        /\ UNCHANGED chan
     \/ /\ reply[w] \notin Malformed
        /\ \E wait \in Waits : chan' = chan \cup {<<reply[w], LatencyUs(wait)>>}
        /\ UNCHANGED errors
  /\ Goto(w, "count")
  /\ UNCHANGED <<redisVars, key, reply, completed, finished, done, shutdown>>

CountJobOffByOne(w) ==
  /\ pc[w] = "count"
  /\ completed' = completed + 1
  /\ finished' = finished \cup {reply[w]}
  /\ reply' = [reply EXCEPT ![w] = Pending]
  /\ Goto(w, IF completed' + 1 >= Target THEN "signal" ELSE "top")
  /\ UNCHANGED <<redisVars, key, errors, chan, done, shutdown>>

CountJobNotAtomic(w) ==
  /\ pc[w] = "count"
  /\ \E seen \in {completed, completed - 1} \cap Nat : completed' = seen + 1
  /\ finished' = finished \cup {reply[w]}
  /\ reply' = [reply EXCEPT ![w] = Pending]
  /\ Goto(w, IF completed' >= Target THEN "signal" ELSE "top")
  /\ UNCHANGED <<redisVars, key, errors, chan, done, shutdown>>

(* inc_completed, one atomic fetch_add, and the comparison with the target. *)
CountJob(w) ==
  /\ pc[w] = "count"
  /\ completed' = completed + 1
  /\ finished' = finished \cup {reply[w]}
  /\ reply' = [reply EXCEPT ![w] = Pending]
  /\ Goto(w, IF completed' >= Target THEN "signal" ELSE "top")
  /\ UNCHANGED <<redisVars, key, errors, chan, done, shutdown>>

(* done_tx.send(true).                                                      *)
SignalDone(w) ==
  /\ pc[w] = "signal"
  /\ done' = TRUE
  /\ Goto(w, "top")
  /\ UNCHANGED <<redisVars, key, reply, metricVars, chan, shutdown>>

(* The select! after a scan without a hit: the poll interval elapses, ...   *)
SleepElapsed(w) ==
  /\ pc[w] = "sleep"
  /\ Goto(w, "top")
  /\ UNCHANGED <<redisVars, key, reply, metricVars, chan, done, shutdown>>

(* ... or the shutdown signal arrives; if both are ready, either may win.   *)
ShutdownWakes(w) ==
  /\ pc[w] = "sleep"
  /\ shutdown
  /\ Goto(w, "exited")
  /\ UNCHANGED <<redisVars, key, reply, metricVars, chan, done, shutdown>>

-----------------------------------------------------------------------------
(* What Redis and the network do.                                           *)
Environment ==
  \/ \E p \in Foreign, k \in Keys : ForeignPush(p, k)
  \/ \E w \in Workers : LpopHit(w) \/ LpopMiss(w) \/ BreakConnection(w)

(* What a worker does without waiting for the network to fail.              *)
WorkerStep(w) ==
  \/ LoopTop(w) \/ SendLpop(w) \/ ReplyHit(w) \/ ReplyMiss(w)
  \/ RecordJob(w) \/ CountJob(w) \/ SignalDone(w)
  \/ SleepElapsed(w) \/ ShutdownWakes(w)

WorkerTypeOK ==
  /\ queue \in [Keys -> Seq(Payloads)]
  /\ unsent \subseteq Foreign
  /\ wire \in [Workers -> Seq(Keys)]
  /\ up \in [Workers -> BOOLEAN]
  /\ pc \in [Workers -> PC]
  /\ key \in [Workers -> Keys]
  /\ reply \in [Workers -> Payloads \cup {Nil, Pending}]
  /\ completed \in Nat
  /\ errors \in Nat
  /\ finished \subseteq Payloads
  /\ chan \subseteq Payloads \X (Nat \ {0})
  /\ done \in BOOLEAN
  /\ shutdown \in BOOLEAN
=============================================================================
