------------------------------- MODULE Producer -------------------------------
(***************************************************************************)
(* What main does to the queues around a drain trial (src/producer.rs):    *)
(* clear_queue or flushdb, bulk_enqueue, and after the trial               *)
(* total_queue_len.                                                        *)
(*                                                                         *)
(* redis::pipe() without atomic() is a sequence of separate commands:      *)
(* other clients' commands come between them, and when the connection is   *)
(* lost a prefix of them was executed.  The other clients are the workers  *)
(* (Dequeue, also before the trial: LPOPs left over from an aborted worker *)
(* of the one before) and, on a shared Redis, strangers (ForeignPush).     *)
(***************************************************************************)
EXTENDS Arithmetic, Sequences, FiniteSets

CONSTANTS
  NumQueues,     \* --num-queues
  NumJobs,       \* n_jobs
  BatchSize,     \* BATCH_SIZE
  Leftover,      \* what each key holds before the clear
  Foreign,       \* what a stranger may push
  MaxDequeues    \* BOUND: LPOPs of the workers

Keys == 1..NumQueues
Idx  == 0..(NumJobs - 1)
Payloads == Idx \cup Foreign

ASSUME ProducerAssumption ==
  /\ NumQueues \in Nat \ {0} /\ NumJobs \in Nat /\ BatchSize \in Nat \ {0}
  /\ MaxDequeues \in Nat
  /\ Foreign \cap Int = {}
  /\ Leftover \in [Keys -> Seq(Foreign)]

VARIABLES
  queue,       \* Redis: the list under each key
  registered,  \* Redis: the `queues' set
  phase,       \* which function main is in
  pipe,        \* the commands of the current pipeline Redis has not executed
  idx,         \* bulk_enqueue: idx
  remaining,   \* bulk_enqueue: remaining
  lens,        \* total_queue_len: the replies received
  dequeued,    \* history: number of LPOPs by others
  pushed       \* history: what strangers pushed

vars == <<queue, registered, phase, pipe, idx, remaining, lens, dequeued, pushed>>

Phase == {"clear", "register", "fill", "filled", "count", "counted", "error"}

Del(k)   == [op |-> "DEL",   key |-> k, idx |-> 0]
Srem(k)  == [op |-> "SREM",  key |-> k, idx |-> 0]
Flush    == [op |-> "FLUSHDB", key |-> 1, idx |-> 0]
Sadd(k)  == [op |-> "SADD",  key |-> k, idx |-> 0]
Rpush(k, i) == [op |-> "RPUSH", key |-> k, idx |-> i]
Llen(k)  == [op |-> "LLEN",  key |-> k, idx |-> 0]

ClearPipeUnregistersOnly == [k \in Keys |-> Srem(k)]

(* clear_queue: DEL and SREM for each queue.                                *)
ClearPipe == [n \in 1..(2 * NumQueues) |->
                IF n % 2 = 1 THEN Del((n + 1) \div 2) ELSE Srem(n \div 2)]

Init ==
  /\ queue = Leftover /\ registered = Keys
  /\ phase = "clear" /\ pipe \in {ClearPipe, <<Flush>>}   \* --allow-flushdb or not
  /\ idx = 0 /\ remaining = NumJobs
  /\ lens = <<>> /\ dequeued = 0 /\ pushed = {}

-----------------------------------------------------------------------------
(* Redis executes the next command of the pipeline.                         *)
Execute ==
  LET c == Head(pipe) IN
  /\ pipe # <<>>
  /\ pipe' = Tail(pipe)
  /\ queue' = CASE c.op = "DEL"     -> [queue EXCEPT ![c.key] = <<>>]
                [] c.op = "FLUSHDB" -> [k \in Keys |-> <<>>]
                [] c.op = "RPUSH"   -> [queue EXCEPT ![c.key] = Append(@, c.idx)]
                [] OTHER            -> queue
  /\ registered' = CASE c.op = "SREM"    -> registered \ {c.key}
                     [] c.op = "FLUSHDB" -> {}
                     [] c.op = "SADD"    -> registered \cup {c.key}
                     [] OTHER            -> registered
  /\ lens' = IF c.op = "LLEN" THEN Append(lens, Len(queue[c.key])) ELSE lens
  /\ UNCHANGED <<phase, idx, remaining, dequeued, pushed>>

(* The connection is lost: `?' ends main with the error, whatever the        *)
(* pipeline did so far stays done.                                          *)
ConnectionLost ==
  /\ phase \notin {"filled", "counted", "error"}
  /\ phase' = "error" /\ pipe' = <<>>
  /\ UNCHANGED <<queue, registered, idx, remaining, lens, dequeued, pushed>>

Cleared ==
  /\ phase = "clear" /\ pipe = <<>>
  /\ phase' = "register"
  /\ pipe' = [k \in Keys |-> Sadd(k)]
  /\ UNCHANGED <<queue, registered, idx, remaining, lens, dequeued, pushed>>

Batch == IF remaining < BatchSize THEN remaining ELSE BatchSize

BatchPipeRestarts ==
  [n \in 1..Batch |-> Rpush(((n - 1) % NumQueues) + 1, idx + n - 1)]

(* Job idx + j goes to queue (idx + j) mod n_queues.                        *)
BatchPipe == [n \in 1..Batch |-> Rpush(((idx + n - 1) % NumQueues) + 1, idx + n - 1)]

Registered ==
  /\ phase = "register" /\ pipe = <<>>
  /\ phase' = "fill" /\ pipe' = BatchPipe
  /\ UNCHANGED <<queue, registered, idx, remaining, lens, dequeued, pushed>>

BatchDoneFullSize ==
  /\ phase = "fill" /\ pipe = <<>> /\ remaining > 0
  /\ idx' = idx + BatchSize
  /\ remaining' = remaining - Batch
  /\ pipe' = BatchPipe'
  /\ UNCHANGED <<queue, registered, phase, lens, dequeued, pushed>>

(* A batch was executed: idx and remaining move on; the next batch, if any,  *)
(* is built from them.                                                      *)
BatchDone ==
  /\ phase = "fill" /\ pipe = <<>> /\ remaining > 0
  /\ idx' = idx + Batch
  /\ remaining' = remaining - Batch
  /\ pipe' = BatchPipe'
  /\ UNCHANGED <<queue, registered, phase, lens, dequeued, pushed>>

Filled ==
  /\ phase = "fill" /\ remaining = 0
  /\ phase' = "filled"
  /\ UNCHANGED <<queue, registered, pipe, idx, remaining, lens, dequeued, pushed>>

CountPipeFirstKeyOnly == <<Llen(1)>>
CountPipe == [k \in Keys |-> Llen(k)]

(* The trial is over: total_queue_len.                                      *)
StartCount ==
  /\ phase = "filled"
  /\ phase' = "count" /\ pipe' = CountPipe
  /\ UNCHANGED <<queue, registered, idx, remaining, lens, dequeued, pushed>>

Counted ==
  /\ phase = "count" /\ pipe = <<>>
  /\ phase' = "counted"
  /\ UNCHANGED <<queue, registered, pipe, idx, remaining, lens, dequeued, pushed>>

-----------------------------------------------------------------------------
(* Other clients.                                                           *)

Dequeue(k) ==
  /\ dequeued < MaxDequeues
  /\ queue[k] # <<>>
  /\ queue' = [queue EXCEPT ![k] = Tail(@)]
  /\ dequeued' = dequeued + 1
  /\ UNCHANGED <<registered, phase, pipe, idx, remaining, lens, pushed>>

ForeignPush(p, k) ==
  /\ p \notin pushed
  /\ queue' = [queue EXCEPT ![k] = Append(@, p)]
  /\ pushed' = pushed \cup {p}
  /\ UNCHANGED <<registered, phase, pipe, idx, remaining, lens, dequeued>>

Terminated == phase \in {"counted", "error"} /\ UNCHANGED vars

Next ==
  \/ Execute \/ ConnectionLost \/ Cleared \/ Registered \/ BatchDone \/ Filled
  \/ StartCount \/ Counted
  \/ \E k \in Keys : Dequeue(k) \/ \E p \in Foreign : ForeignPush(p, k)
  \/ Terminated

Spec == Init /\ [][Next]_vars

-----------------------------------------------------------------------------
(* The reference: the first n jobs, round-robin over the keys.               *)
RoundRobin(n) ==
  [k \in Keys |-> [i \in 1..((n + NumQueues - k) \div NumQueues) |->
                     (k - 1) + (i - 1) * NumQueues]]

Lens(q)   == [k \in Keys |-> Len(q[k])]
LenSum(q) == SumTo(Lens(q), NumQueues)
LlenTotal == SumTo(lens, Len(lens))

Undisturbed == dequeued = 0 /\ pushed = {}

TypeOK ==
  /\ queue \in [Keys -> Seq(Payloads)] /\ registered \subseteq Keys
  /\ phase \in Phase
  /\ idx \in 0..NumJobs /\ remaining \in 0..NumJobs
  /\ idx + remaining = NumJobs
  /\ lens \in Seq(Nat) /\ Len(lens) <= NumQueues
  /\ dequeued \in 0..MaxDequeues /\ pushed \subseteq Foreign

(* Whatever the batch size, and wherever the connection is lost, the keys     *)
(* hold a prefix of the round-robin distribution and nothing else; all of it  *)
(* once bulk_enqueue returned.  This is the backlog the drain trial assumes. *)
FilledRoundRobin ==
  Undisturbed =>
    /\ phase \in {"register", "fill"} =>
         \E n \in idx..(idx + Batch) : queue = RoundRobin(n)
    /\ phase \in {"filled", "count", "counted"} => queue = RoundRobin(NumJobs)

Held     == UNION {{queue[k][i] : i \in 1..Len(queue[k])} : k \in Keys}
Enqueued == 0..(idx + Batch - Len(pipe) - 1)

(* What a former trial left is gone when bulk_enqueue pushes its first job,   *)
(* and from then to the start of the trial every key is in the `queues' set,  *)
(* the keys hold the jobs pushed so far (when it returns: all NumJobs), each  *)
(* in one place, and but for what a stranger pushed meanwhile nothing else.   *)
(* No job is missing but one per LPOP of another client.                      *)
NothingLeftOver ==
  phase \in {"fill", "filled"} =>
    /\ registered = Keys
    /\ Held \subseteq Enqueued \cup pushed
    /\ \A k, l \in Keys : \A i \in 1..Len(queue[k]), j \in 1..Len(queue[l]) :
         queue[k][i] = queue[l][j] => k = l /\ i = j
    /\ Cardinality(Enqueued \ Held) <= dequeued
    /\ phase = "filled" => Enqueued = Idx

(* When no stranger pushes, a total of 0 means that every key is empty, and   *)
(* stays so, although the LLENs are not atomic and workers may still dequeue *)
(* between them (main.rs 911, the guard of the idle phase).                  *)
ZeroMeansEmpty ==
  phase = "counted" /\ pushed = {} =>
    /\ LenSum(queue) <= LlenTotal
    /\ LlenTotal <= LenSum(queue) + dequeued
=============================================================================
