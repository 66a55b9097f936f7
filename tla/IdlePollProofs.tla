---------------------------- MODULE IdlePollProofs ----------------------------
(***************************************************************************)
(* Theorems about IdlePoll, for any fleet, any number of queues and any    *)
(* poll interval: the join takes one grace period, the report is final,    *)
(* and the polls are bounded, all of them and those outside the window.    *)
(***************************************************************************)
EXTENDS IdlePoll, FiniteSetTheorems, TLAPS

-----------------------------------------------------------------------------
(* Types of what the bounds are about.                                      *)

Phase == {"connect", "spawned", "window", "stopping", "joining", "returned", "error"}

Moment == [at : Nat, hits : Nat]

Typed ==
  /\ pc \in [Workers -> PC] /\ key \in [Workers -> Keys]
  /\ completed \in Nat /\ polls \in Nat /\ now \in Nat
  /\ wake \in [Workers -> Nat] /\ deadline \in [Workers -> Nat] /\ abortReq \subseteq Workers
  /\ phase \in Phase
  /\ startAt \in Nat /\ elapsed \in Nat /\ stopPolls \in Nat
  /\ atStop \in Moment /\ atShutdown \in Moment

(* After a miss the scan goes on, or ends.                                   *)
LEMMA ScanGoesOn ==
  ASSUME Typed, NEW w \in Workers, ContinueScan(w)
  PROVE  \/ /\ key[w] < NumQueues
            /\ key' = [key EXCEPT ![w] = key[w] + 1] /\ key' \in [Workers -> Keys]
            /\ pc' = [pc EXCEPT ![w] = "issue"] /\ pc'[w] = "issue"
         \/ /\ key[w] = NumQueues
            /\ key' = key
            /\ pc' = [pc EXCEPT ![w] = "sleep"] /\ pc'[w] = "sleep"
PROOF
  <1>1. CASE key[w] < NumQueues /\ key' = [key EXCEPT ![w] = @ + 1] /\ Goto(w, "issue")
    <2>1. key[w] + 1 \in Keys
      BY <1>1, WorkerAssumption DEF Typed, Keys
    <2> QED BY <1>1, <2>1 DEF Typed, Goto
  <1>2. CASE key[w] = NumQueues /\ Goto(w, "sleep") /\ UNCHANGED key
    BY <1>2 DEF Typed, Goto
  <1> QED BY <1>1, <1>2 DEF ContinueScan

LEMMA TypedInit == Init => Typed
BY WorkerAssumption DEF Init, WorkerInit, Typed, PC, Phase, Keys, Mark, Moment, Gone

LEMMA TypedNext == Typed /\ [Next]_vars => Typed'
PROOF
  <1> SUFFICES ASSUME Typed, [Next]_vars PROVE Typed'
    OBVIOUS
  <1> USE DEF Typed, PC, Phase, marks
  <1>m. Mark \in Moment
    BY DEF Mark, Moment
  <1>1. CASE Environment /\ UNCHANGED <<now, timerVars, polls, mainVars>>
    BY <1>1 DEF Environment, ForeignPush, LpopHit, LpopMiss, BreakConnection, metricVars,
                timerVars, mainVars
  <1>2. ASSUME NEW w \in Workers, Poll(w)
        PROVE  Typed'
    BY <1>2 DEF Poll, SendLpop, Goto, metricVars, timerVars, mainVars
  <1>3. ASSUME NEW w \in Workers, Miss(w)
        PROVE  Typed'
    <2>1. key' \in [Workers -> Keys] /\ pc' \in [Workers -> PC]
      BY <1>3, ScanGoesOn DEF Miss, ReplyMiss, ReplyErr
    <2>2. now + Interval \in Nat
      BY IdleAssumption
    <2>3. wake' \in [Workers -> Nat]
      BY <1>3, <2>2 DEF Miss, Sleeps
    <2> QED BY <1>3, <2>1, <2>3 DEF Miss, ReplyMiss, ReplyErr, metricVars, mainVars
  <1>4. ASSUME NEW w \in Workers, Wakes(w)
        PROVE  Typed'
    BY <1>4 DEF Wakes, SleepElapsed, ShutdownWakes, Goto, metricVars, mainVars
  <1>5. ASSUME NEW w \in Workers, Works(w)
        PROVE  Typed'
    BY <1>5, WorkerAssumption
    DEF Works, LoopTop, ReplyHit, RecordJob, CountJob, Goto, Keys, metricVars, timerVars, mainVars
  <1>6. ASSUME NEW w \in Workers, GraceExpires(w)
        PROVE  Typed'
    BY <1>6 DEF GraceExpires, workerVars, metricVars, mainVars
  <1>7. ASSUME NEW w \in Workers, Cancel(w)
        PROVE  Typed'
    BY <1>7 DEF Cancel, Goto, metricVars, timerVars, mainVars
  <1>8. CASE SendShutdown
    <2>1. Deadlines \in [Workers -> Nat]
      BY IdleAssumption DEF Deadlines
    <2> QED BY <1>8, <1>m, <2>1 DEF SendShutdown, metricVars
  <1>9. CASE StopClock
    BY <1>9, <1>m, IdleAssumption DEF StopClock, workerVars, metricVars, timerVars
  <1>10. CASE DiscardLatency \/ Spawn \/ ConnectFails \/ StartClock \/ Return \/ Pass
    BY <1>10 DEF DiscardLatency, Spawn, ConnectFails, StartClock, Return, Pass, workerVars,
                 metricVars, timerVars, mainVars
  <1>11. CASE UNCHANGED vars
    BY <1>11 DEF vars, workerVars, metricVars, timerVars, mainVars
  <1> QED BY <1>1, <1>2, <1>3, <1>4, <1>5, <1>6, <1>7, <1>8, <1>9, <1>10, <1>11
          DEF Next, WorkerActs, Terminated

-----------------------------------------------------------------------------
(* The join.                                                                *)

(* Every supervisor has the same deadline, and time does not pass it.        *)
GraceKept ==
  /\ phase = "joining" => \A w \in Workers : deadline[w] = atShutdown.at + Grace
  /\ phase \in {"joining", "returned"} => now <= atShutdown.at + Grace

LEMMA GraceKeptNext == Typed /\ GraceKept /\ [Next]_vars => GraceKept'
PROOF
  <1> SUFFICES ASSUME Typed, GraceKept, [Next]_vars PROVE GraceKept'
    OBVIOUS
  <1> USE DEF marks
  <1>1. CASE SendShutdown
    BY <1>1, IdleAssumption DEF SendShutdown, Deadlines, GraceKept, Typed, Mark
  <1>2. CASE Pass
    <2>1. CASE phase = "joining"
      <3>1. PICK w \in Workers : now < deadline[w]
        BY <1>2, <2>1 DEF Pass, Joined
      <3>2. now' <= atShutdown.at + Grace
        BY <1>2, <2>1, <3>1, IdleAssumption DEF Pass, GraceKept, Typed
      <3> QED BY <1>2, <3>2 DEF Pass, GraceKept, timerVars, mainVars
    <2>2. CASE phase # "joining"
      BY <1>2, <2>2 DEF Pass, GraceKept, timerVars, mainVars
    <2> QED BY <2>1, <2>2
  <1>3. CASE Spawn \/ ConnectFails \/ StartClock \/ StopClock \/ Return
    BY <1>3 DEF Spawn, ConnectFails, StartClock, StopClock, Return, GraceKept, timerVars
  <1>4. CASE UNCHANGED <<phase, deadline, atShutdown, now>>
    BY <1>4 DEF GraceKept
  <1> QED BY <1>1, <1>2, <1>3, <1>4
    DEF Next, WorkerActs, Poll, Miss, Wakes, Works, GraceExpires, Cancel, DiscardLatency,
        Terminated, vars, timerVars, mainVars

LEMMA TypedHolds == Spec => []Typed
BY TypedInit, TypedNext, PTL DEF Spec

(* The join takes one grace period, however many workers are stuck: their    *)
(* supervisors wait side by side.                                           *)
THEOREM JoinIsBounded == Spec => []JoinWithinGrace
PROOF
  <1>1. Init => GraceKept
    BY DEF Init, GraceKept
  <1>2. GraceKept => JoinWithinGrace
    BY DEF GraceKept, JoinWithinGrace
  <1> QED BY <1>1, <1>2, TypedHolds, GraceKeptNext, PTL DEF Spec

-----------------------------------------------------------------------------
(* The report.                                                              *)

(* The window was waited for, and when no worker was aborted none is left    *)
(* that could still poll.                                                   *)
Final ==
  /\ phase \in {"stopping", "joining", "returned"} => elapsed >= Window
  /\ phase = "returned" => result.duration = elapsed
  /\ phase = "returned" /\ abortReq = {} =>
       result.total_lpop_calls = polls /\ \A w \in Workers : Gone(w)

LEMMA FinalNext == Typed /\ Final /\ [Next]_vars => Final'
PROOF
  <1> SUFFICES ASSUME Typed, Final, [Next]_vars PROVE Final'
    OBVIOUS
  <1>1. CASE Return
    BY <1>1 DEF Return, Joined, Measured, Final, workerVars, timerVars, Gone
  <1>2. CASE StopClock
    BY <1>2, IdleAssumption DEF StopClock, Final, Typed, timerVars
  <1>3. CASE Spawn \/ ConnectFails \/ StartClock \/ SendShutdown
    BY <1>3 DEF Spawn, ConnectFails, StartClock, SendShutdown, Final, timerVars
  <1>4. CASE \E w \in Workers : GraceExpires(w)
    BY <1>4 DEF GraceExpires, Final, workerVars, mainVars
  <1>5. ASSUME NEW w \in Workers, Poll(w) \/ Miss(w) \/ Wakes(w) \/ Works(w) \/ Cancel(w)
        PROVE  Final'
    <2>1. UNCHANGED <<mainVars, abortReq>> /\ ~Gone(w)
      BY <1>5
      DEF Poll, Miss, Wakes, Works, Cancel, SendLpop, ReplyMiss, ReplyErr, SleepElapsed,
          ShutdownWakes, LoopTop, ReplyHit, RecordJob, CountJob, Parked, Gone, timerVars
    <2> QED BY <2>1 DEF Final, mainVars
  <1>6. CASE UNCHANGED <<phase, elapsed, result, abortReq, polls, pc>>
    BY <1>6 DEF Final, Gone
  <1> QED BY <1>1, <1>2, <1>3, <1>4, <1>5, <1>6
    DEF Next, Environment, ForeignPush, LpopHit, LpopMiss, BreakConnection, WorkerActs,
        DiscardLatency, Pass, Terminated, vars, workerVars, timerVars, mainVars

(* The reported duration is never less than requested, and unless a worker   *)
(* was aborted the reported count is the last word of the counter.           *)
THEOREM ReportCannotChange == Spec => []ReportIsFinal
PROOF
  <1>1. Init => Final
    BY DEF Init, Final
  <1>2. Final => ReportIsFinal
    BY DEF Final, ReportIsFinal
  <1> QED BY <1>1, <1>2, TypedHolds, FinalNext, PTL DEF Spec

-----------------------------------------------------------------------------
(* What is left of a scan.                                                  *)

(* Worker w may still poll key k without passing the top of its loop.        *)
ScanLeft(w, k) == \/ pc[w] = "issue" /\ key[w] <= k
                  \/ pc[w] = "await" /\ key[w] < k

LEMMA PollUsesScan ==
  ASSUME Typed, NEW w \in Workers, Poll(w)
  PROVE  /\ key[w] \in Keys /\ pc[w] = "issue" /\ ScanLeft(w, key[w])
         /\ \A v \in Workers, k \in Keys :
              ScanLeft(v, k)' => ScanLeft(v, k) /\ ~(v = w /\ k = key[w])
         /\ \A v \in Workers : v # w => pc'[v] = pc[v]
         /\ pc'[w] = "await"
PROOF
  <1>1. /\ pc[w] = "issue" /\ pc' = [pc EXCEPT ![w] = "await"] /\ key' = key
        /\ key[w] \in Keys
    BY DEF Poll, SendLpop, Goto, Typed
  <1>2. pc'[w] = "await" /\ \A v \in Workers : v # w => pc'[v] = pc[v]
    BY <1>1 DEF Typed
  <1> QED BY <1>1, <1>2 DEF ScanLeft, Keys, Typed

LEMMA MissKeepsScan ==
  ASSUME Typed, NEW w \in Workers, Miss(w)
  PROVE  /\ \A v \in Workers, k \in Keys : ScanLeft(v, k)' => ScanLeft(v, k)
         /\ \A v \in Workers : v # w => pc'[v] = pc[v]
         /\ pc'[w] = "issue" \/ (pc'[w] = "sleep" /\ wake'[w] = now + Interval)
         /\ \A v \in Workers : v # w => wake'[v] = wake[v]
PROOF
  <1>1. pc[w] = "await" /\ ContinueScan(w) /\ Sleeps(w)
    BY DEF Miss, ReplyMiss, ReplyErr
  <1>2. CASE /\ key[w] < NumQueues
             /\ key' = [key EXCEPT ![w] = key[w] + 1]
             /\ pc' = [pc EXCEPT ![w] = "issue"]
    <2>1. key'[w] = key[w] + 1 /\ pc'[w] = "issue" /\ key[w] \in Keys
      BY <1>2 DEF Typed
    <2>2. \A v \in Workers : v # w => key'[v] = key[v] /\ pc'[v] = pc[v]
      BY <1>2 DEF Typed
    <2>3. wake' = wake
      BY <1>1, <2>1 DEF Sleeps
    <2> QED BY <1>1, <2>1, <2>2, <2>3 DEF ScanLeft, Keys
  <1>3. CASE key[w] = NumQueues /\ key' = key /\ pc' = [pc EXCEPT ![w] = "sleep"]
    <2>1. pc'[w] = "sleep" /\ \A v \in Workers : v # w => pc'[v] = pc[v]
      BY <1>3 DEF Typed
    <2>2. wake'[w] = now + Interval /\ \A v \in Workers : v # w => wake'[v] = wake[v]
      BY <1>1, <2>1 DEF Sleeps, Typed
    <2> QED BY <1>3, <2>1, <2>2 DEF ScanLeft
  <1> QED BY <1>1, <1>2, <1>3, ScanGoesOn

LEMMA LeavesScan ==
  ASSUME Typed, NEW w \in Workers,
         \/ Wakes(w) \/ Cancel(w) \/ ReplyHit(w) \/ RecordJob(w) \/ CountJob(w)
         \/ LoopTop(w) /\ shutdown
  PROVE  /\ \A v \in Workers, k \in Keys : ScanLeft(v, k)' => ScanLeft(v, k)
         /\ \A v \in Workers : v # w => pc'[v] = pc[v]
         /\ pc'[w] \in {"top", "signal", "record", "count", "exited", "cancelled"}
PROOF
  <1>1. \A v \in Workers : v # w => pc'[v] = pc[v] /\ key'[v] = key[v]
    BY DEF Typed, Wakes, SleepElapsed, ShutdownWakes, Cancel, ReplyHit, RecordJob, CountJob,
           LoopTop, Goto
  <1>2. pc'[w] \in {"top", "signal", "record", "count", "exited", "cancelled"}
    BY DEF Typed, Wakes, SleepElapsed, ShutdownWakes, Cancel, ReplyHit, RecordJob, CountJob,
           LoopTop, Goto
  <1> QED BY <1>1, <1>2 DEF ScanLeft

-----------------------------------------------------------------------------
(* The scans in progress.                                                   *)

CanIssue == {e \in Workers \X Keys : ScanLeft(e[1], e[2])}

LEMMA KeysCount == /\ IsFiniteSet(Keys) /\ Cardinality(Keys) = NumQueues
                   /\ Fleet \in Nat /\ NumQueues \in Nat
                   /\ IsFiniteSet(Workers \X Keys)
                   /\ Cardinality(Workers \X Keys) = Fleet * NumQueues
                   /\ Fleet * NumQueues \in Nat
PROOF
  <1>1. IsFiniteSet(Keys) /\ Cardinality(Keys) = NumQueues /\ NumQueues \in Nat
    BY WorkerAssumption, FS_Interval DEF Keys
  <1>2. Fleet \in Nat
    BY WorkerAssumption, FS_CardinalityType DEF Fleet
  <1>3. IsFiniteSet(Workers \X Keys) /\ Cardinality(Workers \X Keys) = Fleet * NumQueues
    BY <1>1, WorkerAssumption, FS_Product DEF Fleet
  <1> QED BY <1>1, <1>2, <1>3, FS_CardinalityType

LEMMA CanIssueFinite == /\ IsFiniteSet(CanIssue) /\ Cardinality(CanIssue) \in Nat
                        /\ Cardinality(CanIssue)' \in Nat
                        /\ Cardinality(CanIssue) <= Fleet * NumQueues
                        /\ Cardinality(CanIssue)' <= Fleet * NumQueues
PROOF
  <1>1. CanIssue \subseteq Workers \X Keys /\ CanIssue' \subseteq Workers \X Keys
    BY DEF CanIssue
  <1> QED BY <1>1, KeysCount, FS_Subset, FS_CardinalityType

-----------------------------------------------------------------------------
(* The polling rate.                                                        *)

(* The poll interval after b that a time belongs to.                          *)
Slot(b, t) == IF t <= b THEN 0 ELSE (t - b) \div Interval

(* A worker at the top of its loop is about to scan.                         *)
Fresh(w) == pc[w] \in {"unspawned", "top", "signal"}

(* The polls the fleet may still issue at this instant without another hit:  *)
(* what is left of each scan, and, of a worker that sleeps, one scan for     *)
(* each interval since its sleep was over.                                  *)
Owed(b, w, k, d) == \/ d = 0 /\ (Fresh(w) \/ ScanLeft(w, k))
                    \/ pc[w] = "sleep" /\ Slot(b, wake[w]) <= d

Credit(b) == {e \in (Workers \X Keys) \X (0..Slot(b, now)) : Owed(b, e[1][1], e[1][2], e[2])}

(* From time b on, with z the polls by then less those its hits allow.       *)
RateBound(b, z) ==
  polls + Cardinality(Credit(b))
    <= z + Fleet * NumQueues * (Slot(b, now) + 1) + NumQueues * completed

(* No worker runs before it is spawned.                                      *)
Unspawned == phase = "connect" => \A w \in Workers : pc[w] = "unspawned"

LEMMA SlotFacts ==
  ASSUME NEW b \in Nat, NEW t \in Nat
  PROVE  /\ Slot(b, t) \in Nat
         /\ b <= t => Slot(b, t + Interval) = Slot(b, t) + 1
         /\ b <= t => Slot(b, t + 1) \in {Slot(b, t), Slot(b, t) + 1}
         /\ \A s \in Nat : s <= t => Slot(b, s) <= Slot(b, t)
         /\ Slot(0, t) = t \div Interval
         /\ b <= t => Slot(b, t) = (t - b) \div Interval
PROOF
  <1>1. Interval \in Nat \ {0}
    BY IdleAssumption
  <1>2. ASSUME NEW n \in Nat
        PROVE  /\ n \div Interval \in Nat
               /\ (n + Interval) \div Interval = (n \div Interval) + 1
               /\ (n + 1) \div Interval \in {n \div Interval, (n \div Interval) + 1}
    BY <1>1
  <1>3. ASSUME NEW m \in Nat, NEW n \in Nat, m <= n PROVE m \div Interval <= n \div Interval
    BY <1>1, <1>3
  <1>4. 0 \div Interval = 0
    BY <1>1
  <1>5. ASSUME NEW u \in Nat, b <= u
        PROVE  Slot(b, u) = (u - b) \div Interval /\ u - b \in Nat
    <2>1. CASE u = b
      BY <1>4, <2>1 DEF Slot
    <2>2. CASE u > b
      BY <2>2 DEF Slot
    <2> QED BY <1>5, <2>1, <2>2
  <1>6. ASSUME NEW u \in Nat, u < b PROVE Slot(b, u) = 0
    BY <1>6 DEF Slot
  <1>7. ASSUME NEW u \in Nat PROVE Slot(b, u) \in Nat
    BY <1>2, <1>5, <1>6
  <1>8. ASSUME b <= t
        PROVE  /\ Slot(b, t + Interval) = Slot(b, t) + 1
               /\ Slot(b, t + 1) \in {Slot(b, t), Slot(b, t) + 1}
    <2>1. /\ Slot(b, t) = (t - b) \div Interval
          /\ Slot(b, t + Interval) = ((t - b) + Interval) \div Interval
          /\ Slot(b, t + 1) = ((t - b) + 1) \div Interval
          /\ t - b \in Nat
      <3>1. /\ t + Interval \in Nat /\ b <= t + Interval /\ t + 1 \in Nat /\ b <= t + 1
            /\ (t + Interval) - b = (t - b) + Interval /\ (t + 1) - b = (t - b) + 1
        BY <1>1, <1>8
      <3> QED BY <1>5, <1>8, <3>1
    <2> QED BY <1>2, <2>1
  <1>9. ASSUME NEW s \in Nat, s <= t PROVE Slot(b, s) <= Slot(b, t)
    <2>1. CASE s < b
      BY <1>6, <1>7, <2>1
    <2>2. CASE b <= s
      <3>1. b <= t /\ s - b \in Nat /\ t - b \in Nat /\ s - b <= t - b
        BY <1>9, <2>2
      <3>2. (s - b) \div Interval <= (t - b) \div Interval
        BY <1>3, <3>1
      <3> QED BY <1>5, <2>2, <3>1, <3>2
    <2> QED BY <2>1, <2>2
  <1>10. Slot(0, t) = t \div Interval
    <2>1. t = 0 \/ (t > 0 /\ t - 0 = t)
      OBVIOUS
    <2> QED BY <1>4, <2>1 DEF Slot
  <1> QED BY <1>5, <1>7, <1>8, <1>9, <1>10

LEMMA CreditFinite ==
  ASSUME Typed, NEW b \in Nat
  PROVE  IsFiniteSet(Credit(b)) /\ Cardinality(Credit(b)) \in Nat /\ Slot(b, now) \in Nat
PROOF
  <1>1. Slot(b, now) \in Nat
    BY SlotFacts DEF Typed
  <1>2. IsFiniteSet(0..Slot(b, now))
    BY <1>1, FS_Interval
  <1>3. IsFiniteSet((Workers \X Keys) \X (0..Slot(b, now)))
    BY <1>2, KeysCount, FS_Product
  <1>4. Credit(b) \subseteq (Workers \X Keys) \X (0..Slot(b, now))
    BY DEF Credit
  <1> QED BY <1>1, <1>3, <1>4, FS_Subset, FS_CardinalityType

(* No clock tick, no hit counted: the credit may only have been used up.     *)
LEMMA CreditUsed ==
  ASSUME Typed, Typed', NEW b \in Nat, NEW z \in Int, RateBound(b, z),
         UNCHANGED <<now, completed>>,
         NEW n \in Nat, polls' = polls + n, Cardinality(Credit(b)') + n <= Cardinality(Credit(b)),
         Cardinality(Credit(b)') \in Nat
  PROVE  RateBound(b, z)'
PROOF
  <1>1. Cardinality(Credit(b)) \in Nat /\ Slot(b, now) \in Nat
    BY CreditFinite
  <1>2. polls \in Nat /\ completed \in Nat /\ NumQueues \in Nat /\ Fleet * NumQueues \in Nat
    BY KeysCount DEF Typed
  <1>3. /\ Fleet * NumQueues * (Slot(b, now) + 1) \in Nat /\ NumQueues * completed \in Nat
    BY <1>1, <1>2
  <1>4. /\ polls + Cardinality(Credit(b))
             <= z + Fleet * NumQueues * (Slot(b, now) + 1) + NumQueues * completed
    BY DEF RateBound
  <1>5. polls' + Cardinality(Credit(b)')
          <= z + Fleet * NumQueues * (Slot(b, now) + 1) + NumQueues * completed
    BY <1>1, <1>2, <1>3, <1>4
  <1> QED BY <1>5 DEF RateBound, Slot, Fleet

LEMMA CreditShrinks ==
  ASSUME Typed, Typed', NEW b \in Nat, NEW z \in Int, RateBound(b, z),
         UNCHANGED <<now, completed, polls>>, Credit(b)' \subseteq Credit(b)
  PROVE  RateBound(b, z)'
PROOF
  <1>1. Cardinality(Credit(b)') <= Cardinality(Credit(b)) /\ Cardinality(Credit(b)') \in Nat
        /\ Cardinality(Credit(b)) \in Nat
    BY CreditFinite, FS_Subset, FS_CardinalityType
  <1>2. polls' = polls + 0 /\ Cardinality(Credit(b)') + 0 <= Cardinality(Credit(b))
    BY <1>1 DEF Typed
  <1> QED BY <1>1, <1>2, CreditUsed

(* A sleep that is over turns the credit of one interval into a scan.        *)
LEMMA WakingUsesCredit ==
  ASSUME Typed, Typed', NEW b \in Nat, NEW w \in Workers,
         SleepElapsed(w), now >= wake[w], UNCHANGED now,
         \A v \in Workers : v # w => wake'[v] = wake[v]
  PROVE  Cardinality(Credit(b)') <= Cardinality(Credit(b))
PROOF
  <1> DEFINE s == Slot(b, wake[w])
             f == [e \in Credit(b)' |-> IF e[1][1] = w THEN <<e[1], s>> ELSE e]
  <1>1. pc[w] = "sleep" /\ pc'[w] = "top" /\ key' = key
        /\ \A v \in Workers : v # w => pc'[v] = pc[v]
    BY DEF SleepElapsed, Goto, Typed
  <1>2. s \in 0..Slot(b, now) /\ Slot(b, now)' = Slot(b, now)
    <2>1. Slot(b, now)' = Slot(b, now)
      BY DEF Slot
    <2>2. wake[w] \in Nat /\ now \in Nat /\ wake[w] <= now
      BY DEF Typed
    <2>3. Slot(b, wake[w]) \in Nat /\ Slot(b, now) \in Nat /\ Slot(b, wake[w]) <= Slot(b, now)
      BY <2>2, SlotFacts
    <2> QED BY <2>1, <2>3
  <1>3. \A e \in Credit(b)' : e \in (Workers \X Keys) \X (0..Slot(b, now))
    BY <1>2 DEF Credit
  <1>4. ASSUME NEW e \in Credit(b)', e[1][1] = w PROVE e[2] = 0 /\ <<e[1], s>> \in Credit(b)
    <2>1. e[2] = 0
      BY <1>1, <1>4 DEF Credit, Owed
    <2>2. <<e[1], s>> \in (Workers \X Keys) \X (0..Slot(b, now))
      BY <1>2, <1>3
    <2>3. Owed(b, w, e[1][2], s)
      BY <1>1, <1>2 DEF Owed
    <2> QED BY <1>4, <2>1, <2>2, <2>3 DEF Credit
  <1>5. ASSUME NEW e \in Credit(b)', e[1][1] # w PROVE e \in Credit(b)
    <2>1. e[1][1] \in Workers /\ pc'[e[1][1]] = pc[e[1][1]] /\ wake'[e[1][1]] = wake[e[1][1]]
      BY <1>1, <1>3, <1>5
    <2>2. Owed(b, e[1][1], e[1][2], e[2])'
      BY DEF Credit
    <2>3. Owed(b, e[1][1], e[1][2], e[2])
      BY <1>1, <2>1, <2>2 DEF Owed, Fresh, ScanLeft, Slot
    <2> QED BY <1>3, <2>3 DEF Credit
  <1>6. f \in [Credit(b)' -> Credit(b)]
    BY <1>4, <1>5
  <1>7. ASSUME NEW x \in Credit(b)', NEW y \in Credit(b)', f[x] = f[y] PROVE x = y
    <2>1. x = <<x[1], x[2]>> /\ y = <<y[1], y[2]>>
      BY <1>3
    <2>2. CASE x[1][1] = w /\ y[1][1] = w
      BY <1>4, <1>7, <2>1, <2>2
    <2>3. CASE x[1][1] = w /\ y[1][1] # w
      BY <1>7, <2>1, <2>3
    <2>4. CASE x[1][1] # w /\ y[1][1] = w
      BY <1>7, <2>1, <2>4
    <2>5. CASE x[1][1] # w /\ y[1][1] # w
      BY <1>7, <2>5
    <2> QED BY <2>2, <2>3, <2>4, <2>5
  <1>8. f \in Injection(Credit(b)', Credit(b))
    BY <1>6, <1>7 DEF Injection, IsInjective
  <1> QED BY <1>8, CreditFinite, FS_Injection

(* What a step adds to the credit.                                          *)
LEMMA CreditGrows ==
  ASSUME Typed, NEW b \in Nat, NEW X, IsFiniteSet(X), Credit(b)' \subseteq Credit(b) \cup X
  PROVE  /\ Cardinality(Credit(b)') \in Nat /\ Cardinality(X) \in Nat
         /\ Cardinality(Credit(b)') <= Cardinality(Credit(b)) + Cardinality(X)
PROOF
  <1>1. /\ IsFiniteSet(Credit(b)) /\ Cardinality(Credit(b)) \in Nat
        /\ Cardinality(X) \in Nat /\ Cardinality(Credit(b) \cap X) \in Nat
    BY CreditFinite, FS_CardinalityType, FS_Intersection
  <1>2. /\ IsFiniteSet(Credit(b) \cup X)
        /\ Cardinality(Credit(b) \cup X)
             = Cardinality(Credit(b)) + Cardinality(X) - Cardinality(Credit(b) \cap X)
    BY <1>1, FS_Union
  <1>3. /\ Cardinality(Credit(b)') \in Nat
        /\ Cardinality(Credit(b)') <= Cardinality(Credit(b) \cup X)
    BY <1>2, FS_Subset, FS_CardinalityType
  <1> QED BY <1>1, <1>2, <1>3

LEMMA UnspawnedNext == Unspawned /\ [Next]_vars => Unspawned'
PROOF
  <1> SUFFICES ASSUME Unspawned, [Next]_vars, phase' = "connect"
               PROVE  \A w \in Workers : pc'[w] = "unspawned"
    BY DEF Unspawned
  <1>1. phase = "connect"
    BY DEF Next, WorkerActs, Poll, Miss, Wakes, Works, GraceExpires, Cancel, DiscardLatency, Spawn,
           ConnectFails, StartClock, StopClock, SendShutdown, Return, Pass, Terminated, vars, mainVars
  <1>2. \A w \in Workers : pc[w] = "unspawned"
    BY <1>1 DEF Unspawned
  <1> QED BY <1>1, <1>2
    DEF Next, Environment, ForeignPush, LpopHit, LpopMiss, BreakConnection, WorkerActs, Poll, SendLpop,
        Miss, ReplyMiss, ReplyErr, Wakes, SleepElapsed, ShutdownWakes, Works, LoopTop, ReplyHit,
        RecordJob, CountJob, GraceExpires, Cancel, Parked, DiscardLatency, Spawn, ConnectFails,
        StartClock, StopClock, SendShutdown, Return, Pass, Terminated, vars, workerVars

LEMMA RateBoundNext ==
  ASSUME NEW b \in Nat, NEW z \in Int, b <= now, Typed, Unspawned, RateBound(b, z), [Next]_vars
  PROVE  RateBound(b, z)'
PROOF
  <1>t. Typed'
    BY TypedNext
  <1>f. /\ IsFiniteSet(Credit(b)) /\ Cardinality(Credit(b)) \in Nat /\ Slot(b, now) \in Nat
        /\ polls \in Nat /\ completed \in Nat /\ NumQueues \in Nat /\ Fleet \in Nat
        /\ Fleet * NumQueues \in Nat
    BY CreditFinite, KeysCount DEF Typed
  <1>e. \A e \in Credit(b) : e \in (Workers \X Keys) \X (0..Slot(b, now))
    BY DEF Credit
  <1>1. ASSUME NEW w \in Workers, Poll(w)
        PROVE  RateBound(b, z)'
    <2> DEFINE x == <<<<w, key[w]>>, 0>>
    <2>1. /\ UNCHANGED <<now, wake, completed, phase>> /\ polls' = polls + 1
          /\ phase # "connect"
      <3>1. phase # "connect"
        BY <1>1 DEF Unspawned, Poll, SendLpop
      <3> QED BY <1>1, <3>1 DEF Poll, SendLpop, metricVars, timerVars, mainVars
    <2>2. x \in Credit(b)
      BY <1>1, <1>f, PollUsesScan DEF Credit, Owed
    <2>3. Credit(b)' \subseteq Credit(b) \ {x}
      <3> SUFFICES ASSUME NEW v \in Workers, NEW k \in Keys, NEW d \in 0..Slot(b, now),
                          Owed(b, v, k, d)'
                   PROVE  Owed(b, v, k, d) /\ ~(v = w /\ k = key[w] /\ d = 0)
        BY <2>1 DEF Credit, Slot
      <3> QED BY <1>1, <2>1, PollUsesScan DEF Owed, Fresh, Slot
    <2>4. /\ IsFiniteSet(Credit(b) \ {x}) /\ Cardinality(Credit(b) \ {x}) = Cardinality(Credit(b)) - 1
      BY <1>f, <2>2, FS_RemoveElement
    <2>5. Cardinality(Credit(b)') \in Nat /\ Cardinality(Credit(b)') <= Cardinality(Credit(b)) - 1
      BY <2>3, <2>4, FS_Subset, FS_CardinalityType
    <2>6. Cardinality(Credit(b)') + 1 <= Cardinality(Credit(b))
      BY <1>f, <2>5
    <2> QED BY <1>t, <2>1, <2>5, <2>6, CreditUsed
  <1>2. ASSUME NEW w \in Workers, Miss(w)
        PROVE  RateBound(b, z)'
    <2>1. UNCHANGED <<now, completed, phase, polls>> /\ phase # "connect"
      <3>1. phase # "connect"
        BY <1>2 DEF Unspawned, Miss, ReplyMiss, ReplyErr
      <3> QED BY <1>2, <3>1 DEF Miss, ReplyMiss, ReplyErr, metricVars, mainVars
    <2>2. Slot(b, now + Interval) = Slot(b, now) + 1
      BY SlotFacts DEF Typed
    <2>3. Credit(b)' \subseteq Credit(b)
      <3> SUFFICES ASSUME NEW v \in Workers, NEW k \in Keys, NEW d \in 0..Slot(b, now),
                          Owed(b, v, k, d)'
                   PROVE  Owed(b, v, k, d)
        BY <2>1 DEF Credit, Slot
      <3>1. CASE v # w
        BY <1>2, <3>1, MissKeepsScan DEF Owed, Fresh, Slot
      <3>2. CASE v = w
        <4>1. ~(Slot(b, wake[w])' <= d /\ pc'[w] = "sleep")
          BY <1>2, <1>f, <2>2, MissKeepsScan DEF Slot
        <4> QED BY <1>2, <3>2, <4>1, MissKeepsScan DEF Owed, Fresh, Slot
      <3> QED BY <3>1, <3>2
    <2> QED BY <1>t, <2>1, <2>3, CreditShrinks
  <1>3. ASSUME NEW w \in Workers,
               \/ Wakes(w) /\ ShutdownWakes(w)
               \/ Cancel(w)
               \/ Works(w) /\ (ReplyHit(w) \/ RecordJob(w) \/ (LoopTop(w) /\ shutdown))
        PROVE  RateBound(b, z)'
    <2>1. UNCHANGED <<now, completed, phase, polls>> /\ phase # "connect"
      <3>1. phase # "connect"
        BY <1>3 DEF Unspawned, ShutdownWakes, Cancel, Parked, ReplyHit, RecordJob, LoopTop
      <3> QED BY <1>3, <3>1 DEF Wakes, ShutdownWakes, Cancel, Works, ReplyHit, RecordJob, LoopTop,
                                metricVars, timerVars, mainVars
    <2>2. pc'[w] \in {"record", "count", "exited", "cancelled"}
      BY <1>3 DEF ShutdownWakes, Cancel, ReplyHit, RecordJob, LoopTop, Goto, Typed
    <2>3. \A v \in Workers : v # w => wake'[v] = wake[v]
      BY <1>3 DEF Wakes, Cancel, Works, timerVars, Typed
    <2>4. Credit(b)' \subseteq Credit(b)
      <3> SUFFICES ASSUME NEW v \in Workers, NEW k \in Keys, NEW d \in 0..Slot(b, now),
                          Owed(b, v, k, d)'
                   PROVE  Owed(b, v, k, d)
        BY <2>1 DEF Credit, Slot
      <3>1. v # w
        BY <2>2 DEF Owed, Fresh, ScanLeft
      <3> QED BY <1>3, <2>3, <3>1, LeavesScan DEF Owed, Fresh, Slot
    <2> QED BY <1>t, <2>1, <2>4, CreditShrinks
  <1>4. ASSUME NEW w \in Workers, LoopTop(w), ~shutdown, UNCHANGED <<now, timerVars, polls, mainVars>>
        PROVE  RateBound(b, z)'
    <2>1. UNCHANGED <<now, wake, completed, phase, polls>> /\ phase # "connect"
      <3>1. phase # "connect"
        BY <1>4 DEF Unspawned, LoopTop
      <3> QED BY <1>4, <3>1 DEF LoopTop, metricVars, timerVars, mainVars
    <2>2. pc[w] = "top" /\ pc'[w] = "issue" /\ \A v \in Workers : v # w => pc'[v] = pc[v] /\ key'[v] = key[v]
      BY <1>4 DEF LoopTop, Goto, Typed
    <2>3. Credit(b)' \subseteq Credit(b)
      <3> SUFFICES ASSUME NEW v \in Workers, NEW k \in Keys, NEW d \in 0..Slot(b, now),
                          Owed(b, v, k, d)'
                   PROVE  Owed(b, v, k, d)
        BY <2>1 DEF Credit, Slot
      <3> QED BY <2>1, <2>2 DEF Owed, Fresh, ScanLeft, Slot
    <2> QED BY <1>t, <2>1, <2>3, CreditShrinks
  <1>5. ASSUME NEW w \in Workers, Wakes(w), SleepElapsed(w), now >= wake[w]
        PROVE  RateBound(b, z)'
    <2>1. UNCHANGED <<now, completed, phase, polls>> /\ phase # "connect"
      <3>1. phase # "connect"
        BY <1>5 DEF Unspawned, SleepElapsed
      <3> QED BY <1>5, <3>1 DEF Wakes, SleepElapsed, metricVars, mainVars
    <2>2. \A v \in Workers : v # w => wake'[v] = wake[v]
      BY <1>5 DEF Wakes, Typed
    <2>3. Cardinality(Credit(b)') <= Cardinality(Credit(b))
      BY <1>t, <1>5, <2>1, <2>2, WakingUsesCredit
    <2>4. Cardinality(Credit(b)') \in Nat
      <3>1. Credit(b)' \subseteq (Workers \X Keys) \X (0..Slot(b, now))
        BY <2>1 DEF Credit, Slot
      <3>2. IsFiniteSet(0..Slot(b, now))
        BY <1>f, FS_Interval
      <3>3. IsFiniteSet((Workers \X Keys) \X (0..Slot(b, now)))
        BY <3>2, KeysCount, FS_Product
      <3> QED BY <3>1, <3>3, FS_Subset, FS_CardinalityType
    <2>5. polls' = polls + 0 /\ Cardinality(Credit(b)') + 0 <= Cardinality(Credit(b))
      BY <1>f, <2>1, <2>3, <2>4
    <2> QED BY <1>t, <2>1, <2>4, <2>5, CreditUsed
  <1>6. ASSUME NEW w \in Workers, CountJob(w), UNCHANGED <<now, timerVars, polls, mainVars>>
        PROVE  RateBound(b, z)'
    <2> DEFINE X == ({w} \X Keys) \X {0}
    <2>1. UNCHANGED <<now, wake, phase, polls>> /\ completed' = completed + 1 /\ phase # "connect"
      <3>1. phase # "connect"
        BY <1>6 DEF Unspawned, CountJob
      <3> QED BY <1>6, <3>1 DEF CountJob, timerVars, mainVars
    <2>2. IsFiniteSet(X) /\ Cardinality(X) = NumQueues
      <3>1. IsFiniteSet({w}) /\ Cardinality({w}) = 1 /\ IsFiniteSet({0}) /\ Cardinality({0}) = 1
        BY FS_Singleton
      <3>2. IsFiniteSet({w} \X Keys) /\ Cardinality({w} \X Keys) = NumQueues
        <4>1. /\ IsFiniteSet({w} \X Keys)
              /\ Cardinality({w} \X Keys) = Cardinality({w}) * Cardinality(Keys)
          BY <3>1, KeysCount, FS_Product
        <4>2. 1 * NumQueues = NumQueues
          BY <1>f
        <4> QED BY <3>1, <4>1, <4>2, KeysCount
      <3>3. IsFiniteSet(X) /\ Cardinality(X) = Cardinality({w} \X Keys) * Cardinality({0})
        BY <3>1, <3>2, FS_Product
      <3>4. NumQueues * 1 = NumQueues
        BY <1>f
      <3> QED BY <3>1, <3>2, <3>3, <3>4
    <2>3. pc'[w] \in {"top", "signal"} /\ \A v \in Workers : v # w => pc'[v] = pc[v] /\ key'[v] = key[v]
      BY <1>6 DEF CountJob, Goto, Typed
    <2>4. Credit(b)' \subseteq Credit(b) \cup X
      <3> SUFFICES ASSUME NEW v \in Workers, NEW k \in Keys, NEW d \in 0..Slot(b, now),
                          Owed(b, v, k, d)'
                   PROVE  Owed(b, v, k, d) \/ (v = w /\ d = 0)
        BY <2>1 DEF Credit, Slot
      <3> QED BY <2>1, <2>3 DEF Owed, Fresh, ScanLeft, Slot
    <2>5. Cardinality(Credit(b)') \in Nat /\ Cardinality(Credit(b)') <= Cardinality(Credit(b)) + NumQueues
      BY <2>2, <2>4, CreditGrows
    <2>6. NumQueues * completed' = NumQueues * completed + NumQueues
      BY <2>1, <1>f
    <2> DEFINE A == Fleet * NumQueues * (Slot(b, now) + 1)
               B == NumQueues * completed
    <2>7. A \in Nat /\ B \in Nat /\ A' = A /\ B' = B + NumQueues
      BY <1>f, <2>1, <2>6 DEF Slot, Fleet
    <2>8. polls + Cardinality(Credit(b)) <= z + A + B
      BY DEF RateBound
    <2> HIDE DEF A, B
    <2>9. polls' + Cardinality(Credit(b)') <= z + A' + B'
      BY <1>f, <2>1, <2>5, <2>7, <2>8
    <2> QED BY <2>1, <2>9 DEF RateBound, A, B
  <1>7. CASE Pass
    <2>1. /\ UNCHANGED <<pc, key, wake, completed, polls, phase>> /\ now' = now + 1
          /\ phase # "connect"
      BY <1>7 DEF Pass, workerVars, metricVars, timerVars, mainVars
    <2>2. Slot(b, now)' = Slot(b, now) \/ Slot(b, now)' = Slot(b, now) + 1
      BY <2>1, SlotFacts DEF Typed, Slot
    <2> DEFINE A == Fleet * NumQueues * (Slot(b, now) + 1)
               B == NumQueues * completed
    <2>3. A \in Nat /\ B \in Nat /\ B' = B /\ polls + Cardinality(Credit(b)) <= z + A + B
      BY <1>f, <2>1 DEF RateBound
    <2>4. CASE Slot(b, now)' = Slot(b, now)
      <3>1. Credit(b)' = Credit(b)
        BY <2>1, <2>4 DEF Credit, Owed, Fresh, ScanLeft, Slot
      <3>2. A' = A
        BY <2>4 DEF Fleet
      <3> HIDE DEF A, B
      <3>3. polls' + Cardinality(Credit(b)') <= z + A' + B'
        BY <2>1, <2>3, <3>1, <3>2
      <3> QED BY <2>1, <3>3 DEF RateBound, A, B
    <2>5. CASE Slot(b, now)' = Slot(b, now) + 1
      <3> DEFINE X == (Workers \X Keys) \X {Slot(b, now) + 1}
      <3>1. IsFiniteSet(X) /\ Cardinality(X) = Fleet * NumQueues
        <4>1. IsFiniteSet({Slot(b, now) + 1}) /\ Cardinality({Slot(b, now) + 1}) = 1
          BY FS_Singleton
        <4>2. /\ IsFiniteSet(X)
              /\ Cardinality(X) = Cardinality(Workers \X Keys) * Cardinality({Slot(b, now) + 1})
          BY <4>1, KeysCount, FS_Product
        <4>3. Cardinality(X) = (Fleet * NumQueues) * 1
          BY <4>1, <4>2, KeysCount
        <4>4. (Fleet * NumQueues) * 1 = Fleet * NumQueues
          BY <1>f
        <4> QED BY <4>2, <4>3, <4>4
      <3>2. Credit(b)' \subseteq Credit(b) \cup X
        <4>1. \A d \in 0..Slot(b, now)' : d \in 0..Slot(b, now) \/ d = Slot(b, now) + 1
          BY <1>f, <2>5
        <4> SUFFICES ASSUME NEW v \in Workers, NEW k \in Keys, NEW d \in 0..Slot(b, now)',
                            Owed(b, v, k, d)'
                     PROVE  <<<<v, k>>, d>> \in Credit(b) \cup X
          BY DEF Credit
        <4>2. Owed(b, v, k, d)
          BY <2>1 DEF Owed, Fresh, ScanLeft, Slot
        <4> QED BY <4>1, <4>2 DEF Credit
      <3>3. Cardinality(Credit(b)') \in Nat
            /\ Cardinality(Credit(b)') <= Cardinality(Credit(b)) + Fleet * NumQueues
        BY <3>1, <3>2, CreditGrows
      <3>4. A' = A + Fleet * NumQueues
        <4>1. A' = Fleet * NumQueues * (Slot(b, now) + 2)
          BY <1>f, <2>5 DEF Fleet
        <4> QED BY <1>f, <4>1
      <3> HIDE DEF A, B
      <3>5. polls' + Cardinality(Credit(b)') <= z + A' + B'
        BY <1>f, <2>1, <2>3, <3>3, <3>4
      <3> QED BY <2>1, <3>5 DEF RateBound, A, B
    <2> QED BY <2>2, <2>4, <2>5
  <1>8. CASE Spawn
    <2>1. UNCHANGED <<now, key, wake, completed, polls>> /\ phase' # "connect"
          /\ pc' = [w \in Workers |-> "top"] /\ \A w \in Workers : pc[w] = "unspawned"
      BY <1>8 DEF Spawn, Unspawned, metricVars, timerVars
    <2>2. Credit(b)' \subseteq Credit(b)
      <3> SUFFICES ASSUME NEW v \in Workers, NEW k \in Keys, NEW d \in 0..Slot(b, now),
                          Owed(b, v, k, d)'
                   PROVE  Owed(b, v, k, d)
        BY <2>1 DEF Credit, Slot
      <3> QED BY <2>1 DEF Owed, Fresh, ScanLeft, Slot
    <2> QED BY <1>t, <2>1, <2>2, CreditShrinks
  <1>9. CASE UNCHANGED <<now, pc, key, wake, completed, polls>>
    <2>1. Credit(b)' = Credit(b)
      BY <1>9 DEF Credit, Owed, Fresh, ScanLeft, Slot
    <2> QED BY <1>t, <1>9, <2>1, CreditShrinks
  <1> QED BY <1>1, <1>2, <1>3, <1>4, <1>5, <1>6, <1>7, <1>8, <1>9
    DEF Next, Environment, ForeignPush, LpopHit, LpopMiss, BreakConnection, WorkerActs, Wakes, Works,
        GraceExpires, DiscardLatency, ConnectFails, StartClock, StopClock, SendShutdown, Return,
        Terminated, vars, workerVars, metricVars, timerVars, mainVars

(* A stretch begins: what is left of the scans is one scan per worker.         *)
LEMMA RateBoundBegins ==
  ASSUME Typed, NEW b \in Nat, b = now, NEW z \in Int, z = polls - NumQueues * completed
  PROVE  RateBound(b, z)
PROOF
  <1>1. polls \in Nat /\ NumQueues * completed \in Nat /\ Fleet * NumQueues \in Nat
    BY KeysCount DEF Typed
  <1>2. Slot(b, now) = 0
    BY DEF Slot
  <1>3. Credit(b) \subseteq (Workers \X Keys) \X {0}
    BY <1>2 DEF Credit
  <1>4. /\ IsFiniteSet((Workers \X Keys) \X {0})
        /\ Cardinality((Workers \X Keys) \X {0}) = Fleet * NumQueues
    <2>1. IsFiniteSet({0}) /\ Cardinality({0}) = 1
      BY FS_Singleton
    <2>2. /\ IsFiniteSet((Workers \X Keys) \X {0})
          /\ Cardinality((Workers \X Keys) \X {0})
               = Cardinality(Workers \X Keys) * Cardinality({0})
      BY <2>1, KeysCount, FS_Product
    <2>3. (Fleet * NumQueues) * 1 = Fleet * NumQueues
      BY <1>1
    <2> QED BY <2>1, <2>2, <2>3, KeysCount
  <1>5. Cardinality(Credit(b)) \in Nat /\ Cardinality(Credit(b)) <= Fleet * NumQueues
    BY <1>3, <1>4, FS_Subset, FS_CardinalityType
  <1>6. Fleet * NumQueues * (0 + 1) = Fleet * NumQueues
    BY <1>1
  <1>7. polls + Cardinality(Credit(b)) <= z + Fleet * NumQueues + NumQueues * completed
    BY <1>1, <1>5
  <1> QED BY <1>2, <1>6, <1>7 DEF RateBound

RateFromSpawn == RateBound(0, 0)

LEMMA RateHolds == Spec => []RateFromSpawn /\ []Unspawned
PROOF
  <1>1. Init => RateFromSpawn /\ Unspawned
    <2> SUFFICES ASSUME Init PROVE RateFromSpawn /\ Unspawned
      OBVIOUS
    <2>1. now = 0 /\ polls = 0 /\ completed = 0 /\ NumQueues * completed = 0 /\ Typed
      BY TypedInit, WorkerAssumption DEF Init, WorkerInit
    <2>2. RateBound(0, 0)
      BY <2>1, RateBoundBegins
    <2> QED BY <2>2 DEF RateFromSpawn, Unspawned, Init, WorkerInit
  <1>2. Typed /\ Unspawned /\ RateFromSpawn /\ [Next]_vars => RateFromSpawn'
    BY RateBoundNext DEF RateFromSpawn, Typed
  <1> QED BY <1>1, <1>2, TypedHolds, UnspawnedNext, PTL DEF Spec

(* The polling load of an idle fleet is bounded by its poll interval, for    *)
(* any fleet, any queues and any interval: whoever sleeps owes one scan for  *)
(* each interval that begins after its sleep.                               *)
THEOREM PollRateHolds == Spec => []PollRateBounded
PROOF
  <1>1. Typed /\ RateFromSpawn => PollRateBounded
    <2> SUFFICES ASSUME Typed, RateFromSpawn PROVE PollRateBounded
      OBVIOUS
    <2> DEFINE R == Fleet * NumQueues * (Slot(0, now) + 1) + NumQueues * completed
    <2>1. /\ Cardinality(Credit(0)) \in Nat /\ Slot(0, now) \in Nat
          /\ Slot(0, now) = now \div Interval /\ now \in Nat
      BY CreditFinite, SlotFacts DEF Typed
    <2>2. R \in Nat /\ polls \in Nat /\ 0 + R = R
      <3>1. Fleet * NumQueues * (Slot(0, now) + 1) \in Nat /\ NumQueues * completed \in Nat
        BY <2>1, KeysCount DEF Typed
      <3> QED BY <3>1 DEF Typed
    <2>3. polls + Cardinality(Credit(0)) <= R
      <3>1. Fleet * NumQueues * (Slot(0, now) + 1) \in Nat
        BY <2>1, KeysCount
      <3> QED BY <3>1 DEF RateFromSpawn, RateBound
    <2>4. polls <= R
      <3> HIDE DEF R
      <3> QED BY <2>1, <2>2, <2>3
    <2> QED BY <2>1, <2>4 DEF PollRateBounded
  <1> QED BY <1>1, RateHolds, TypedHolds, PTL

-----------------------------------------------------------------------------
(* The polls outside the window.                                            *)

LEMMA AllowedIs ==
  ASSUME NEW f \in Moment, NEW g \in Moment
  PROVE  /\ Allowed(f, g) \in Int
         /\ f.at <= g.at =>
              Allowed(f, g) = Fleet * NumQueues * (Slot(f.at, g.at) + 1)
                                + (NumQueues * g.hits - NumQueues * f.hits)
PROOF
  <1>1. /\ Interval \in Nat \ {0} /\ f.at \in Nat /\ g.at \in Nat /\ f.hits \in Nat /\ g.hits \in Nat
        /\ Fleet * NumQueues \in Nat /\ NumQueues \in Nat
    BY IdleAssumption, KeysCount DEF Moment
  <1>2. (g.at - f.at) \div Interval \in Int
    BY <1>1
  <1>3. NumQueues * (g.hits - f.hits) = NumQueues * g.hits - NumQueues * f.hits
    BY <1>1
  <1>4. Fleet * NumQueues * (((g.at - f.at) \div Interval) + 1) \in Int
    BY <1>1, <1>2
  <1>5. NumQueues * (g.hits - f.hits) \in Int
    BY <1>1
  <1>6. f.at <= g.at => Slot(f.at, g.at) = (g.at - f.at) \div Interval
    BY <1>1, SlotFacts
  <1> QED BY <1>3, <1>4, <1>5, <1>6 DEF Allowed

(* After elapsed is read the rate is bounded from then on.                    *)
RateFromStop ==
  phase = "stopping" =>
    \E b \in Nat, z \in Int : /\ b = atStop.at /\ b <= now
                              /\ z = stopPolls - NumQueues * atStop.hits
                              /\ RateBound(b, z)

LEMMA RateFromStopNext == Typed /\ Unspawned /\ RateFromStop /\ [Next]_vars => RateFromStop'
PROOF
  <1> SUFFICES ASSUME Typed, Unspawned, RateFromStop, [Next]_vars, phase' = "stopping"
               PROVE  \E b \in Nat, z \in Int : /\ b = atStop'.at /\ b <= now'
                                                /\ z = stopPolls' - NumQueues * atStop'.hits
                                                /\ RateBound(b, z)'
    BY DEF RateFromStop
  <1>1. CASE StopClock
    <2>1. PICK b \in Nat, z \in Int : b = now /\ z = polls - NumQueues * completed
      BY KeysCount DEF Typed
    <2>2. /\ atStop'.at = now /\ atStop'.hits = completed /\ stopPolls' = polls
          /\ UNCHANGED <<now, pc, key, wake, polls, completed>>
      BY <1>1 DEF StopClock, Mark, workerVars, metricVars, timerVars
    <2>3. RateBound(b, z)
      BY <2>1, RateBoundBegins
    <2>4. Credit(b)' = Credit(b) /\ Slot(b, now)' = Slot(b, now)
      BY <2>2 DEF Credit, Owed, Fresh, ScanLeft, Slot
    <2>5. RateBound(b, z)'
      BY <2>2, <2>3, <2>4 DEF RateBound, Fleet
    <2> QED BY <2>1, <2>2, <2>5
  <1>2. CASE ~StopClock
    <2>1. phase = "stopping" /\ UNCHANGED <<atStop, stopPolls>> /\ now' \in {now, now + 1}
      BY <1>2
      DEF Next, WorkerActs, Poll, Miss, Wakes, Works, GraceExpires, Cancel, DiscardLatency, Spawn,
          ConnectFails, StartClock, SendShutdown, Return, Pass, Terminated, vars, mainVars, marks
    <2>2. PICK b \in Nat, z \in Int : /\ b = atStop.at /\ b <= now
                                      /\ z = stopPolls - NumQueues * atStop.hits
                                      /\ RateBound(b, z)
      BY <2>1 DEF RateFromStop
    <2>3. RateBound(b, z)'
      BY <2>2, RateBoundNext
    <2>4. b <= now'
      BY <2>1, <2>2 DEF Typed
    <2> QED BY <2>1, <2>2, <2>3, <2>4
  <1> QED BY <1>1, <1>2

(* A scan in progress is part of the credit.                                 *)
LEMMA ScansAreCredit ==
  ASSUME Typed, NEW b \in Nat
  PROVE  Cardinality(CanIssue) <= Cardinality(Credit(b))
PROOF
  <1> DEFINE f == [e \in CanIssue |-> <<e, 0>>]
  <1>1. 0 \in 0..Slot(b, now)
    BY CreditFinite
  <1>2. f \in [CanIssue -> Credit(b)]
    BY <1>1 DEF CanIssue, Credit, Owed
  <1>3. f \in Injection(CanIssue, Credit(b))
    BY <1>2 DEF Injection, IsInjective
  <1> QED BY <1>3, CreditFinite, FS_Injection

Cap == stopPolls + Allowed(atStop, atShutdown)

(* Each poll after the signal uses up a key of a scan in progress.           *)
LateBound ==
  phase \in {"joining", "returned"} => shutdown /\ polls + Cardinality(CanIssue) <= Cap

LEMMA LateBoundNext == Typed /\ Typed' /\ RateFromStop /\ LateBound /\ [Next]_vars => LateBound'
PROOF
  <1> SUFFICES ASSUME Typed, Typed', RateFromStop, LateBound, [Next]_vars PROVE LateBound'
    OBVIOUS
  <1>c. Cardinality(CanIssue) \in Nat /\ Cardinality(CanIssue)' \in Nat
    BY CanIssueFinite
  <1>t. polls \in Nat /\ Cap \in Int
    BY AllowedIs DEF Typed, Cap
  <1>1. ASSUME CanIssue' \subseteq CanIssue, UNCHANGED <<polls, marks, phase, shutdown>>
        PROVE  LateBound'
    <2>1. Cardinality(CanIssue)' <= Cardinality(CanIssue)
      BY <1>1, CanIssueFinite, FS_Subset
    <2> QED BY <1>1, <1>c, <1>t, <2>1 DEF LateBound, Cap, Allowed, Fleet, marks
  <1>2. ASSUME NEW w \in Workers, Poll(w)
        PROVE  LateBound'
    <2>1. <<w, key[w]>> \in CanIssue /\ CanIssue' \subseteq CanIssue \ {<<w, key[w]>>}
      BY <1>2, PollUsesScan DEF CanIssue
    <2>2. /\ IsFiniteSet(CanIssue \ {<<w, key[w]>>})
          /\ Cardinality(CanIssue \ {<<w, key[w]>>}) = Cardinality(CanIssue) - 1
      BY <2>1, CanIssueFinite, FS_RemoveElement
    <2>3. Cardinality(CanIssue)' <= Cardinality(CanIssue) - 1
      BY <2>1, <2>2, FS_Subset
    <2>4. polls' = polls + 1 /\ UNCHANGED <<marks, phase, shutdown>>
      BY <1>2 DEF Poll, SendLpop, mainVars
    <2> QED BY <1>c, <1>t, <2>3, <2>4 DEF LateBound, Cap, Allowed, Fleet, marks
  <1>3. ASSUME NEW w \in Workers, Miss(w)
        PROVE  LateBound'
    <2>1. CanIssue' \subseteq CanIssue
      BY <1>3, MissKeepsScan DEF CanIssue
    <2> QED BY <1>1, <1>3, <2>1 DEF Miss, ReplyMiss, ReplyErr, mainVars
  <1>4. ASSUME NEW w \in Workers, Wakes(w) \/ Cancel(w)
        PROVE  LateBound'
    <2>1. CanIssue' \subseteq CanIssue
      BY <1>4, LeavesScan DEF CanIssue
    <2> QED BY <1>1, <1>4, <2>1 DEF Wakes, SleepElapsed, ShutdownWakes, Cancel, mainVars
  <1>5. ASSUME NEW w \in Workers, Works(w)
        PROVE  LateBound'
    <2>1. UNCHANGED <<polls, marks, phase, shutdown>>
      BY <1>5 DEF Works, LoopTop, ReplyHit, RecordJob, CountJob, mainVars
    <2>2. CASE ~shutdown
      BY <2>1, <2>2 DEF LateBound
    <2>3. CASE shutdown
      <3>1. CanIssue' \subseteq CanIssue
        BY <1>5, <2>3, LeavesScan DEF CanIssue, Works
      <3> QED BY <1>1, <2>1, <3>1
    <2> QED BY <2>2, <2>3
  <1>6. CASE SendShutdown
    <2>1. /\ phase = "stopping" /\ shutdown' = TRUE /\ polls' = polls /\ CanIssue' = CanIssue
          /\ atStop' = atStop /\ stopPolls' = stopPolls
          /\ atShutdown' = Mark /\ Mark.at = now /\ Mark.hits = completed
      BY <1>6 DEF SendShutdown, CanIssue, ScanLeft, Mark
    <2>2. PICK b \in Nat, z \in Int : /\ b = atStop.at /\ b <= now
                                      /\ z = stopPolls - NumQueues * atStop.hits
                                      /\ RateBound(b, z)
      BY <2>1 DEF RateFromStop
    <2> DEFINE A == Fleet * NumQueues * (Slot(b, now) + 1)
    <2>3. polls + Cardinality(Credit(b)) <= z + A + NumQueues * completed
      BY <2>2 DEF RateBound
    <2>4. Cardinality(CanIssue) <= Cardinality(Credit(b)) /\ Cardinality(Credit(b)) \in Nat
      BY ScansAreCredit, CreditFinite
    <2>5. Mark \in Moment /\ atStop \in Moment
      BY DEF Mark, Moment, Typed
    <2>6. Allowed(atStop, Mark) = A + (NumQueues * completed - NumQueues * atStop.hits)
      BY <2>1, <2>2, <2>5, AllowedIs
    <2>7. A \in Nat /\ NumQueues * completed \in Nat /\ NumQueues * atStop.hits \in Nat /\ stopPolls \in Nat
      <3>1. Slot(b, now) \in Nat /\ completed \in Nat /\ atStop.hits \in Nat /\ stopPolls \in Nat
        BY SlotFacts DEF Typed, Moment
      <3> QED BY <3>1, KeysCount
    <2>8. Cap' = stopPolls + Allowed(atStop, Mark)
      BY <2>1 DEF Cap, Allowed, Fleet
    <2> HIDE DEF A
    <2>9. polls + Cardinality(CanIssue) <= Cap'
      BY <1>c, <1>t, <2>2, <2>3, <2>4, <2>6, <2>7, <2>8
    <2> QED BY <2>1, <2>9 DEF LateBound
  <1>7. CASE Spawn
    BY <1>7 DEF Spawn, LateBound
  <1>8. CASE UNCHANGED <<pc, key, polls, marks, shutdown>> /\ (phase' = phase \/ phase \in {"joining", "returned"})
    <2>1. CanIssue' = CanIssue
      BY <1>8 DEF CanIssue, ScanLeft
    <2> QED BY <1>8, <2>1 DEF LateBound, Cap, Allowed, Fleet, marks
  <1>9. CASE phase' \notin {"joining", "returned"}
    BY <1>9 DEF LateBound
  <1> QED BY <1>2, <1>3, <1>4, <1>5, <1>6, <1>7, <1>8, <1>9
    DEF Next, Environment, ForeignPush, LpopHit, LpopMiss, BreakConnection, WorkerActs,
        GraceExpires, DiscardLatency, ConnectFails, StartClock, StopClock, Return, Pass,
        Terminated, vars, workerVars, timerVars, mainVars

(* Before the window and after it the fleet polls at its rate, for any fleet, *)
(* any queues and any interval, and after the shutdown signal it ends the    *)
(* scans in progress: nothing else is counted outside the window.            *)
THEOREM CallsOutsideAreFew == Spec => []CallsOutsideBounded
PROOF
  <1>1. Init => RateFromStop /\ LateBound
    BY DEF Init, RateFromStop, LateBound
  <1>2. Typed /\ PollRateBounded /\ RateFromStop /\ LateBound => CallsOutsideBounded
    <2> SUFFICES ASSUME Typed, PollRateBounded, RateFromStop, LateBound PROVE CallsOutsideBounded
      OBVIOUS
    <2>t. now \in Nat /\ completed \in Nat /\ polls \in Nat /\ stopPolls \in Nat /\ Mark \in Moment
          /\ atStop \in Moment /\ atShutdown \in Moment /\ Mark.at = now /\ Mark.hits = completed
      BY DEF Typed, Mark, Moment
    <2>1. polls <= Allowed([at |-> 0, hits |-> 0], Mark)
      <3>1. now - 0 = now /\ completed - 0 = completed
        BY <2>t
      <3> QED BY <2>t, <3>1 DEF PollRateBounded, Allowed
    <2>2. ASSUME phase = "stopping" PROVE polls - stopPolls <= Allowed(atStop, Mark)
      <3>1. PICK b \in Nat, z \in Int : /\ b = atStop.at /\ b <= now
                                        /\ z = stopPolls - NumQueues * atStop.hits
                                        /\ RateBound(b, z)
        BY <2>2 DEF RateFromStop
      <3> DEFINE A == Fleet * NumQueues * (Slot(b, now) + 1)
      <3>2. polls + Cardinality(Credit(b)) <= z + A + NumQueues * completed
        BY <3>1 DEF RateBound
      <3>3. Cardinality(Credit(b)) \in Nat /\ Slot(b, now) \in Nat
        BY CreditFinite
      <3>4. Allowed(atStop, Mark) = A + (NumQueues * completed - NumQueues * atStop.hits)
        BY <2>t, <3>1, AllowedIs
      <3>5. A \in Nat /\ NumQueues * completed \in Nat /\ NumQueues * atStop.hits \in Nat
        <4>1. atStop.hits \in Nat
          BY <2>t DEF Moment
        <4> QED BY <2>t, <3>3, <4>1, KeysCount
      <3> HIDE DEF A
      <3> QED BY <2>t, <3>1, <3>2, <3>3, <3>4, <3>5
    <2>3. ASSUME phase \in {"joining", "returned"}
          PROVE  polls - stopPolls <= Allowed(atStop, atShutdown)
      <3>1. polls + Cardinality(CanIssue) <= stopPolls + Allowed(atStop, atShutdown)
        BY <2>3 DEF LateBound, Cap
      <3>2. Cardinality(CanIssue) \in Nat /\ Allowed(atStop, atShutdown) \in Int
        BY <2>t, CanIssueFinite, AllowedIs
      <3> QED BY <2>t, <3>1, <3>2
    <2> QED BY <2>1, <2>2, <2>3 DEF CallsOutsideBounded
  <1>3. Typed /\ Unspawned /\ RateFromStop /\ LateBound /\ [Next]_vars => (RateFromStop /\ LateBound)'
    BY TypedNext, RateFromStopNext, LateBoundNext
  <1> QED BY <1>1, <1>2, <1>3, TypedHolds, RateHolds, PollRateHolds, PTL DEF Spec
=============================================================================
