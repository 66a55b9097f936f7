---------------------------- MODULE BenchmarkProofs ----------------------------
(***************************************************************************)
(* Theorems about Benchmark, for any list of levels and numbers of jobs.    *)
(***************************************************************************)
EXTENDS Benchmark, SequenceTheorems, ArithmeticTheorems

-----------------------------------------------------------------------------
(* Types.                                                                   *)

Jobs == (1..Len(Levels)) \X {"warmup", "drain"} \X (1..(TrialJobs + WarmupJobs))

(* Results, with the rates that their numbers make.                          *)
DrainResult ==
  {r \in [workers : Nat \ {0}, total_jobs : Nat, duration : Nat \ {0},
          jobs_per_sec : Nat \X Nat, timed_out : BOOLEAN] :
     r.jobs_per_sec = <<r.total_jobs, r.duration>>}
IdleResult ==
  {r \in [workers : Nat \ {0}, duration : Nat, total_lpop_calls : Nat,
          idle_poll_qps : Nat \X Nat, per_worker_qps : Nat \X Nat, skipped : BOOLEAN] :
     \/ /\ r.duration # 0 /\ r.idle_poll_qps = <<r.total_lpop_calls, r.duration>>
        /\ r.per_worker_qps = <<r.total_lpop_calls, r.duration * r.workers>>
     \/ /\ r.duration = 0 /\ r.total_lpop_calls = 0
        /\ r.idle_poll_qps = <<0, 1>> /\ r.per_worker_qps = <<0, 1>>}

Measuring == {"clear", "fill", "trial", "llen", "idle"}
Drained   == {"llen", "idle"}

Typed ==
  /\ TypeOK
  /\ stale <= aborted
  /\ finished \subseteq Jobs /\ missing \subseteq Jobs
  /\ results \in Seq(DrainResult) /\ idleResults \in Seq(IdleResult)
  /\ step \in Measuring => level <= Len(Levels)
  /\ step \in {"report", "write"} => level = Len(Levels) + 1
  /\ step \in Drained => result \in DrainResult

LEMMA LevelIsPositive ==
  ASSUME NEW i \in 1..Len(Levels)
  PROVE  Len(Levels) \in Nat /\ Levels[i] \in Nat \ {0}
PROOF
  BY BenchmarkAssumption, LenProperties, ElementOfSeq

(* The jobs of a trial, and what is in the queues, are finite sets.          *)
LEMMA JobsFinite ==
  ASSUME NEW S, S \subseteq Jobs
  PROVE  IsFiniteSet(S) /\ Cardinality(S) \in Nat
PROOF
  <1>1. Len(Levels) \in Nat
    BY BenchmarkAssumption, LenProperties
  <1>2. IsFiniteSet(1..Len(Levels)) /\ IsFiniteSet(1..(TrialJobs + WarmupJobs))
    BY <1>1, BenchmarkAssumption, FS_Interval
  <1>3. IsFiniteSet({"warmup", "drain"})
    <2>1. IsFiniteSet({"warmup"})
      BY FS_Singleton
    <2>2. IsFiniteSet({"warmup"} \cup {"drain"})
      BY <2>1, FS_AddElement
    <2>3. {"warmup", "drain"} = {"warmup"} \cup {"drain"}
      OBVIOUS
    <2> QED BY <2>2, <2>3
  <1>4. IsFiniteSet(Jobs)
    <2>1. IsFiniteSet({"warmup", "drain"} \X (1..(TrialJobs + WarmupJobs)))
      BY <1>2, <1>3, FS_Product
    <2>2. IsFiniteSet((1..Len(Levels)) \X ({"warmup", "drain"} \X (1..(TrialJobs + WarmupJobs))))
      BY <1>2, <2>1, FS_Product
    <2> DEFINE Pairs == (1..Len(Levels)) \X ({"warmup", "drain"} \X (1..(TrialJobs + WarmupJobs)))
               f == [p \in Pairs |-> <<p[1], p[2][1], p[2][2]>>]
    <2>3. f \in Surjection(Pairs, Jobs)
      <3>1. f \in [Pairs -> Jobs]
        BY DEF Jobs
      <3>2. ASSUME NEW j \in Jobs PROVE \E p \in Pairs : f[p] = j
        <4>1. <<j[1], <<j[2], j[3]>>>> \in Pairs
          BY DEF Jobs
        <4>2. f[<<j[1], <<j[2], j[3]>>>>] = j
          BY <4>1 DEF Jobs
        <4> QED BY <4>1, <4>2
      <3> QED BY <3>1, <3>2 DEF Surjection
    <2> QED BY <2>2, <2>3, FS_Surjection
  <1> QED BY <1>4, FS_Subset, FS_CardinalityType

LEMMA OwnJobsTyped ==
  ASSUME level \in 1..Len(Levels), kind \in {"warmup", "drain"}
  PROVE  JobCount \in Nat /\ OwnJobs \subseteq Jobs
PROOF
  BY BenchmarkAssumption DEF JobCount, OwnJobs, Jobs

LEMMA OwnJobsCounted ==
  ASSUME level \in 1..Len(Levels), kind \in {"warmup", "drain"}
  PROVE  Cardinality(OwnJobs) = JobCount
PROOF
  <1> DEFINE f == [n \in 1..JobCount |-> <<level, kind, n>>]
  <1>1. f \in Bijection(1..JobCount, OwnJobs)
    <2>1. f \in [1..JobCount -> OwnJobs]
      BY DEF OwnJobs
    <2>2. \A m, n \in 1..JobCount : f[m] = f[n] => m = n
      OBVIOUS
    <2>3. \A j \in OwnJobs : \E n \in 1..JobCount : f[n] = j
      BY DEF OwnJobs
    <2> QED BY <2>1, <2>2, <2>3 DEF Bijection, Injection, Surjection, IsInjective
  <1>2. JobCount \in Nat
    BY OwnJobsTyped
  <1>3. IsFiniteSet(1..JobCount) /\ Cardinality(1..JobCount) = JobCount
    BY <1>2, FS_Interval
  <1> QED BY <1>1, <1>3, FS_Bijection DEF ExistsBijection

LEMMA TypedInit == Init => Typed
PROOF
  <1> SUFFICES ASSUME Init PROVE Typed
    OBVIOUS
  <1>1. Len(Levels) \in Nat /\ Len(Levels) > 0
    BY BenchmarkAssumption, EmptySeq, LenProperties
  <1>2. /\ results \in Seq(DrainResult) /\ idleResults \in Seq(IdleResult)
        /\ Len(results) = 0 /\ Len(idleResults) = 0
    BY EmptySeq DEF Init
  <1>3. TypeOK
    <2>1. level \in 1..(Len(Levels) + 1) /\ Len(results) = level - 1 /\ Len(idleResults) = level - 1
      BY <1>1, <1>2 DEF Init
    <2>2. stale \in 0..MaxStale /\ lost \in 0..MaxLost /\ aborted \in 0..MaxStale
      BY BenchmarkAssumption DEF Init
    <2> QED BY <2>1, <2>2 DEF Init, TypeOK, Steps
  <1> QED BY <1>1, <1>2, <1>3 DEF Init, Typed, Measuring, Drained

(* What main appends are results.                                           *)
LEMMA ResultsTyped ==
  ASSUME level \in 1..Len(Levels)
  PROVE  /\ IsFiniteSet(finished) => \A d \in Durations : TrialResult(d) \in DrainResult
         /\ Skipped(Levels[level]) \in IdleResult
         /\ \A d \in IdleDurations, c \in PollCounts : Measured(Levels[level], d, c) \in IdleResult
PROOF
  <1>1. Levels[level] \in Nat \ {0}
    BY LevelIsPositive
  <1>2. ASSUME IsFiniteSet(finished), NEW d \in Durations
        PROVE  TrialResult(d) \in DrainResult
    <2>1. Cardinality(finished) \in Nat /\ d \in Nat \ {0}
      BY <1>2, BenchmarkAssumption, FS_CardinalityType
    <2>2. Rate(Cardinality(finished), d) = <<Cardinality(finished), d>>
      BY <2>1 DEF Rate
    <2> QED BY <1>1, <2>1, <2>2 DEF TrialResult, DrainResult
  <1>3. Skipped(Levels[level]) \in IdleResult
    BY <1>1 DEF Skipped, IdleResult
  <1>4. ASSUME NEW d \in IdleDurations, NEW c \in PollCounts
        PROVE  Measured(Levels[level], d, c) \in IdleResult
    <2>1. d \in Nat \ {0} /\ c \in Nat
      BY BenchmarkAssumption, ReportAssumption
    <2>2. Rate(c, d) = <<c, d>>
      BY <2>1 DEF Rate
    <2>3. PerWorker(<<c, d>>, Levels[level]) = <<c, d * Levels[level]>>
      BY <1>1 DEF PerWorker
    <2>4. d * Levels[level] \in Nat
      BY <1>1, <2>1
    <2> QED BY <1>1, <2>1, <2>2, <2>3, <2>4 DEF Measured, IdleResult
  <1> QED BY <1>2, <1>3, <1>4

(* No more LPOPs are pending than were ever left behind: their bound holds.  *)
LEMMA LeftBehind ==
  ASSUME Typed, level \in 1..Len(Levels), \E n \in 0..Levels[level] : LeavesBehind(n)
  PROVE  stale' \in 0..MaxStale /\ aborted' \in 0..MaxStale /\ stale' <= aborted'
                /\ aborted' - stale' = aborted - stale
PROOF
  BY LevelIsPositive, BenchmarkAssumption DEF Typed, TypeOK, LeavesBehind

LEMMA TypedNext == Typed /\ [Next]_vars => Typed'
PROOF
  <1> SUFFICES ASSUME Typed, [Next]_vars PROVE Typed'
    OBVIOUS
  <1>l. Len(Levels) \in Nat
    BY BenchmarkAssumption, LenProperties
  <1>f. IsFiniteSet(finished)
    BY JobsFinite DEF Typed
  <1> USE DEF Typed, TypeOK, Steps, Measuring, Drained, trialVars, outputVars, reportVars
  <1>1. CASE NextLevel
    BY <1>1 DEF NextLevel
  <1>2. CASE LevelsDone
    BY <1>l, <1>2 DEF LevelsDone
  <1>3. CASE Clear
    BY <1>3 DEF Clear
  <1>4. CASE Fill
    <2>1. OwnJobs \subseteq Jobs
      BY <1>l, <1>4, OwnJobsTyped DEF Fill
    <2> QED BY <1>4, <2>1 DEF Fill, Jobs
  <1>5. ASSUME NEW j \in queued, Finish(j) PROVE Typed'
    BY <1>5 DEF Finish, Jobs
  <1>6. ASSUME NEW j \in queued, LoseJob(j) PROVE Typed'
    <2>1. lost' \in 0..MaxLost
      BY <1>6, BenchmarkAssumption DEF LoseJob
    <2>2. /\ j \in Jobs /\ queued' = queued \ {j} /\ missing' = missing \cup {j}
      BY <1>6 DEF LoseJob, Jobs
    <2> QED BY <1>6, <2>1, <2>2 DEF LoseJob
  <1>7. ASSUME NEW v \in {"drained", "timed_out"}, TrialEnds(v) PROVE Typed'
    BY <1>7 DEF TrialEnds
  <1>8. CASE WarmupReturns
    <2>1. step = "trial" /\ level \in 1..Len(Levels) /\ \E n \in 0..Levels[level] : LeavesBehind(n)
      BY <1>l, <1>8 DEF WarmupReturns
    <2>2. stale' \in 0..MaxStale /\ aborted' \in 0..MaxStale /\ stale' <= aborted'
      BY <2>1, LeftBehind
    <2>3. /\ kind' = "drain" /\ step' = "clear"
          /\ UNCHANGED <<level, queued, lost, trialVars, reportVars>>
      BY <1>8 DEF WarmupReturns
    <2> QED BY <2>1, <2>2, <2>3
  <1>9. CASE DrainReturns
    <2>1. result' \in DrainResult
      BY <1>l, <1>f, <1>9, ResultsTyped DEF DrainReturns, TrialReturned
    <2>2. /\ stale' \in 0..MaxStale /\ aborted' \in 0..MaxStale /\ stale' <= aborted'
      BY <1>l, <1>9, LeftBehind DEF DrainReturns, TrialReturned
    <2>3. anyTimeout' \in BOOLEAN
      BY <1>9, <2>1 DEF DrainReturns, DrainResult
    <2> QED BY <1>l, <1>9, <2>1, <2>2, <2>3 DEF DrainReturns, TrialReturned
  <1>10. ASSUME NEW idle \in IdleResult, PushResults(idle), step \in Drained,
                UNCHANGED <<kind, queued, lost, trialVars, result, anyTimeout, drainLines, outputVars>>,
                stale' \in 0..MaxStale, aborted' \in 0..MaxStale, stale' <= aborted'
         PROVE  Typed'
    <2>1. results' \in Seq(DrainResult) /\ idleResults' \in Seq(IdleResult)
      BY <1>10, AppendProperties DEF PushResults
    <2>2. Len(results') = level /\ Len(idleResults') = level
      BY <1>l, <1>10, AppendProperties DEF PushResults
    <2> QED BY <1>l, <1>10, <2>1, <2>2 DEF PushResults
  <1>11. CASE CheckBacklog
    <2>1. CASE SkipIdle
      BY <1>l, <1>11, <2>1, <1>10, ResultsTyped DEF CheckBacklog, SkipIdle
    <2>2. CASE StartIdle
      BY <1>11, <2>2 DEF CheckBacklog, StartIdle
    <2> QED BY <1>11, <2>1, <2>2 DEF CheckBacklog
  <1>12. CASE IdleReturns
    <2>1. stale' \in 0..MaxStale /\ aborted' \in 0..MaxStale /\ stale' <= aborted'
      BY <1>l, <1>12, LeftBehind DEF IdleReturns
    <2>2. PICK d \in IdleDurations, c \in PollCounts : PushResults(Measured(Levels[level], d, c))
      BY <1>12 DEF IdleReturns
    <2>3. Measured(Levels[level], d, c) \in IdleResult
      BY <1>l, <1>12, ResultsTyped DEF IdleReturns
    <2>4. /\ step \in Drained
          /\ UNCHANGED <<kind, queued, lost, trialVars, result, anyTimeout, drainLines, outputVars>>
      BY <1>12 DEF IdleReturns
    <2> QED BY <2>1, <2>2, <2>3, <2>4, <1>10
  <1>13. CASE PrintSummaries
    BY <1>13 DEF PrintSummaries
  <1>14. CASE WriteReport \/ WriteFails
    BY <1>14 DEF WriteReport, WriteFails, Exit
  <1>15. CASE Fails
    BY <1>15 DEF Fails, Exit
  <1>16. CASE StaleLpop
    <2>1. /\ stale > 0 /\ stale' = stale - 1
          /\ queued' \subseteq queued /\ missing' \subseteq missing \cup queued
          /\ missing' \cap queued' = {}
          /\ UNCHANGED <<step, level, kind, lost, aborted, finished, ended, reportVars>>
      BY <1>16 DEF StaleLpop
    <2>2. stale' \in 0..MaxStale /\ stale' <= aborted'
      BY <2>1, BenchmarkAssumption
    <2>3. queued' \subseteq Jobs /\ missing' \subseteq Jobs /\ finished' \cap queued' = {}
      BY <2>1 DEF Jobs
    <2> QED BY <2>1, <2>2, <2>3 DEF Jobs
  <1>17. CASE UNCHANGED vars
    BY <1>17 DEF vars
  <1> QED
    BY <1>1, <1>2, <1>3, <1>4, <1>5, <1>6, <1>7, <1>8, <1>9, <1>11, <1>12, <1>13, <1>14, <1>15,
       <1>16, <1>17
    DEF Next, MainStep, Terminated

(* Every variable has its type, and main has as many drain results as idle    *)
(* results as levels it is through with (main.rs 871-931).                  *)
THEOREM Types == Spec => []TypeOK
PROOF
  <1>1. Typed => TypeOK
    BY DEF Typed
  <1> QED BY <1>1, TypedInit, TypedNext, PTL DEF Spec

-----------------------------------------------------------------------------
(* What is in the queues.                                                   *)

(* During a trial every job of it is finished, queued or missing, and all     *)
(* jobs are its own: what was there before was cleared.                     *)
OwnBacklog ==
  /\ step = "fill" => queued = {}
  /\ step = "trial" => finished \cup queued \cup missing = OwnJobs
  /\ step = "trial" /\ ended = "drained" => finished = OwnJobs
  /\ step = "llen" => (~result.timed_out => queued = {})
  /\ step = "idle" => queued = {}

(* A target that was reached is the whole backlog.                          *)
LEMMA ReachedIsAll ==
  ASSUME Typed, OwnBacklog, step = "trial", Cardinality(finished) >= JobCount
  PROVE  finished = OwnJobs
PROOF
  <1>1. level \in 1..Len(Levels) /\ kind \in {"warmup", "drain"}
    BY DEF Typed, TypeOK, Measuring
  <1>2. finished \subseteq OwnJobs
    BY DEF OwnBacklog
  <1>3. IsFiniteSet(OwnJobs) /\ Cardinality(OwnJobs) = JobCount /\ JobCount \in Nat
    BY <1>1, OwnJobsTyped, OwnJobsCounted, JobsFinite
  <1>4. Cardinality(finished) <= Cardinality(OwnJobs)
    BY <1>2, <1>3, FS_Subset
  <1>5. Cardinality(finished) \in Nat
    BY JobsFinite DEF Typed
  <1> QED BY <1>2, <1>3, <1>4, <1>5, FS_Subset

LEMMA OwnBacklogNext == Typed /\ OwnBacklog /\ [Next]_vars => OwnBacklog'
PROOF
  <1> SUFFICES ASSUME Typed, OwnBacklog, [Next]_vars PROVE OwnBacklog'
    OBVIOUS
  <1> USE DEF OwnBacklog, trialVars, outputVars, reportVars
  <1>1. CASE NextLevel \/ LevelsDone \/ Clear \/ PrintSummaries \/ WriteReport \/ WriteFails \/ Fails
    BY <1>1 DEF NextLevel, LevelsDone, Clear, PrintSummaries, WriteReport, WriteFails, Exit, Fails
  <1>2. CASE Fill
    BY <1>2 DEF Fill, OwnJobs, JobCount
  <1>3. ASSUME NEW j \in queued, Finish(j) PROVE OwnBacklog'
    <2>1. j \notin finished /\ finished \cup queued \cup missing = OwnJobs
      BY <1>3 DEF Finish, Typed, TypeOK
    <2>2. ended # "drained"
      BY <1>3, <2>1 DEF Finish
    <2> QED BY <1>3, <2>1, <2>2 DEF Finish, OwnJobs, JobCount
  <1>4. ASSUME NEW j \in queued, LoseJob(j) PROVE OwnBacklog'
    BY <1>4 DEF LoseJob, OwnJobs, JobCount
  <1>5. ASSUME NEW v \in {"drained", "timed_out"}, TrialEnds(v) PROVE OwnBacklog'
    BY <1>5, ReachedIsAll DEF TrialEnds, OwnJobs, JobCount
  <1>6. CASE WarmupReturns
    BY <1>6 DEF WarmupReturns
  <1>7. CASE DrainReturns
    <2>1. ended = "drained" => queued = {}
      BY <1>7 DEF DrainReturns, TrialReturned, Typed, TypeOK
    <2>2. result'.timed_out = (ended = "timed_out")
      BY <1>7 DEF DrainReturns, TrialReturned, TrialResult
    <2> QED BY <1>7, <2>1, <2>2 DEF DrainReturns, TrialReturned, Typed, TypeOK
  <1>8. CASE CheckBacklog
    <2>1. Backlog = 0 => queued = {}
      <3>1. IsFiniteSet(queued)
        BY JobsFinite DEF Typed, TypeOK, Jobs
      <3> QED BY <3>1, FS_EmptySet DEF Backlog
    <2> QED BY <1>8, <2>1 DEF CheckBacklog, SkipIdle, StartIdle, PushResults
  <1>9. CASE IdleReturns
    BY <1>9 DEF IdleReturns, PushResults
  <1>10. CASE StaleLpop
    BY <1>10 DEF StaleLpop, OwnJobs, JobCount
  <1>11. CASE UNCHANGED vars
    BY <1>11 DEF vars, OwnJobs, JobCount
  <1> QED
    BY <1>1, <1>2, <1>3, <1>4, <1>5, <1>6, <1>7, <1>8, <1>9, <1>10, <1>11
    DEF Next, MainStep, Terminated

LEMMA OwnBacklogHolds == Spec => [](Typed /\ OwnBacklog)
PROOF
  <1>1. Init => OwnBacklog
    BY DEF Init, OwnBacklog
  <1> QED BY <1>1, TypedInit, TypedNext, OwnBacklogNext, PTL DEF Spec

(* A trial measures its own backlog only, whatever an earlier trial that      *)
(* timed out and its aborted workers left behind (main.rs 873-892).         *)
THEOREM TrialMeasuresOwnBacklog == Spec => []TrialFinishesOwnJobs
PROOF
  <1>1. OwnBacklog => TrialFinishesOwnJobs
    BY DEF OwnBacklog, TrialFinishesOwnJobs
  <1> QED BY <1>1, OwnBacklogHolds, PTL

-----------------------------------------------------------------------------
(* Totals and verdicts.                                                     *)

(* Whether or not the queues are being drained, each missing job is due to a  *)
(* query of the trial that failed or to an LPOP that was left behind.        *)
MissingExplained == Cardinality(missing) <= lost + (aborted - stale)

LEMMA MissingExplainedNext == Typed /\ MissingExplained /\ [Next]_vars => MissingExplained'
PROOF
  <1> SUFFICES ASSUME Typed, MissingExplained, [Next]_vars PROVE MissingExplained'
    OBVIOUS
  <1> USE DEF MissingExplained, trialVars, outputVars, reportVars
  <1>t. /\ lost \in Nat /\ stale \in Nat /\ aborted \in Nat /\ stale <= aborted
        /\ IsFiniteSet(missing) /\ Cardinality(missing) \in Nat
    BY JobsFinite, BenchmarkAssumption DEF Typed, TypeOK
  <1>a. ASSUME NEW j PROVE /\ Cardinality(missing \cup {j}) \in Nat
                           /\ Cardinality(missing \cup {j}) <= Cardinality(missing) + 1
    BY <1>t, FS_AddElement
  <1>1. CASE Fill
    <2>1. missing' = {} /\ UNCHANGED <<lost, stale, aborted>>
      BY <1>1 DEF Fill
    <2>2. Cardinality(missing') = 0
      BY <2>1, FS_EmptySet
    <2> QED BY <1>t, <2>1, <2>2
  <1>2. ASSUME NEW j \in queued, LoseJob(j) PROVE MissingExplained'
    <2>1. missing' = missing \cup {j} /\ lost' = lost + 1 /\ stale' = stale /\ aborted' = aborted
      BY <1>2 DEF LoseJob
    <2>2. Cardinality(missing') \in Nat /\ Cardinality(missing') <= Cardinality(missing) + 1
      BY <1>a, <2>1
    <2> QED BY <1>t, <2>1, <2>2
  <1>3. CASE StaleLpop
    <2>1. stale' = stale - 1 /\ lost' = lost /\ aborted' = aborted
      BY <1>3 DEF StaleLpop
    <2>2. missing' = missing \/ \E j : missing' = missing \cup {j}
      BY <1>3 DEF StaleLpop
    <2>3. CASE missing' = missing
      BY <1>t, <2>1, <2>3
    <2>4. ASSUME NEW j, missing' = missing \cup {j} PROVE MissingExplained'
      <3>1. Cardinality(missing') \in Nat /\ Cardinality(missing') <= Cardinality(missing) + 1
        BY <1>a, <2>4
      <3> QED BY <1>t, <2>1, <3>1
    <2> QED BY <2>2, <2>3, <2>4
  <1>4. CASE WarmupReturns \/ DrainReturns \/ IdleReturns
    <2>1. level \in 1..Len(Levels) /\ UNCHANGED <<missing, lost>>
      BY <1>4 DEF WarmupReturns, DrainReturns, TrialReturned, IdleReturns, Typed, TypeOK, Measuring
    <2>2. aborted' - stale' = aborted - stale
      BY <1>4, <2>1, LeftBehind DEF WarmupReturns, DrainReturns, TrialReturned, IdleReturns
    <2> QED BY <2>1, <2>2
  <1>5. CASE UNCHANGED <<missing, lost, stale, aborted>>
    BY <1>5
  <1> QED
    BY <1>1, <1>2, <1>3, <1>4, <1>5
    DEF Next, MainStep, NextLevel, LevelsDone, Clear, Finish, TrialEnds, CheckBacklog, PrintSummaries,
        WriteReport, WriteFails, Fails, Terminated, vars

Explained(r) == r.total_jobs <= TrialJobs /\ (~r.timed_out => r.total_jobs = TrialJobs)

AnyTimedOut == \E i \in 1..Len(results) : results[i].timed_out

(* Of the results, also of the one that is not in the list yet: totals and    *)
(* verdicts fit, and any_timeout has seen them all.                          *)
Verdicts ==
  /\ \A i \in 1..Len(results) : Explained(results[i])
  /\ step \in Drained => Explained(result) /\ (anyTimeout <=> AnyTimedOut \/ result.timed_out)
  /\ step \notin Drained \cup {"exited"} => (anyTimeout <=> AnyTimedOut)

LEMMA NewResultExplained ==
  ASSUME Typed, OwnBacklog, DrainReturns
  PROVE  Explained(result')
PROOF
  <1>1. level \in 1..Len(Levels) /\ kind = "drain" /\ step = "trial"
    BY DEF DrainReturns, TrialReturned, Typed, TypeOK, Measuring
  <1>2. JobCount = TrialJobs /\ TrialJobs \in Nat
    BY <1>1, BenchmarkAssumption DEF JobCount
  <1>3. IsFiniteSet(OwnJobs) /\ Cardinality(OwnJobs) = TrialJobs
    BY <1>1, <1>2, OwnJobsTyped, OwnJobsCounted, JobsFinite
  <1>4. finished \subseteq OwnJobs /\ (ended = "drained" => finished = OwnJobs)
    BY <1>1 DEF OwnBacklog
  <1>5. Cardinality(finished) <= TrialJobs
    BY <1>3, <1>4, FS_Subset
  <1>6. /\ result'.total_jobs = Cardinality(finished)
        /\ result'.timed_out = (ended = "timed_out")
    BY DEF DrainReturns, TrialReturned, TrialResult
  <1>7. ended \in {"drained", "timed_out"}
    BY DEF DrainReturns, TrialReturned, Typed, TypeOK
  <1> QED BY <1>3, <1>4, <1>5, <1>6, <1>7 DEF Explained

LEMMA VerdictsNext == Typed /\ OwnBacklog /\ Verdicts /\ [Next]_vars => Verdicts'
PROOF
  <1> SUFFICES ASSUME Typed, OwnBacklog, Verdicts, [Next]_vars PROVE Verdicts'
    OBVIOUS
  <1> USE DEF Verdicts, AnyTimedOut, Drained, trialVars, outputVars, reportVars
  <1>1. CASE DrainReturns
    <2>1. Explained(result')
      BY <1>1, NewResultExplained
    <2>2. /\ step = "trial" /\ step' = "llen" /\ results' = results
          /\ anyTimeout' = (anyTimeout \/ result'.timed_out)
      BY <1>1 DEF DrainReturns, TrialReturned
    <2> QED BY <2>1, <2>2
  <1>2. ASSUME NEW idle, PushResults(idle), step \in Drained, UNCHANGED anyTimeout
        PROVE  Verdicts'
    <2>1. /\ results \in Seq(DrainResult) /\ result \in DrainResult /\ results' = Append(results, result)
      BY <1>2 DEF PushResults, Typed
    <2>2. /\ Len(results') = Len(results) + 1 /\ results'[Len(results) + 1] = result
          /\ \A i \in 1..Len(results) : results'[i] = results[i]
      BY <2>1, AppendProperties
    <2>3. Len(results) \in Nat /\ step' = "head"
      BY <1>2, <2>1, LenProperties DEF PushResults
    <2>4. Explained(result) /\ (anyTimeout <=> AnyTimedOut \/ result.timed_out)
      BY <1>2
    <2>5. \A i \in 1..Len(results') : i \in 1..Len(results) \/ i = Len(results) + 1
      BY <2>2, <2>3
    <2>6. \A i \in 1..Len(results') : Explained(results'[i])
      BY <2>2, <2>4, <2>5
    <2>7. AnyTimedOut' <=> AnyTimedOut \/ result.timed_out
      <3>1. Len(results) + 1 \in 1..Len(results') /\ 1..Len(results) \subseteq 1..Len(results')
        BY <2>2, <2>3
      <3> QED BY <2>2, <2>5, <3>1
    <2> QED BY <1>2, <2>3, <2>4, <2>6, <2>7
  <1>3. CASE CheckBacklog
    <2>1. CASE SkipIdle
      BY <1>2, <1>3, <2>1 DEF CheckBacklog, SkipIdle
    <2>2. CASE StartIdle
      BY <1>3, <2>2 DEF CheckBacklog, StartIdle
    <2> QED BY <1>3, <2>1, <2>2 DEF CheckBacklog
  <1>4. CASE IdleReturns
    BY <1>2, <1>4 DEF IdleReturns
  <1>5. CASE /\ UNCHANGED <<results, result, anyTimeout>>
             /\ step' = step \/ step' = "exited" \/ step \notin Drained \cup {"exited"}
             /\ step' \in Drained => step \in Drained
    BY <1>5
  <1>6. CASE NextLevel \/ LevelsDone \/ Clear \/ Fill \/ WarmupReturns \/ PrintSummaries \/ WriteReport
               \/ WriteFails \/ Fails \/ StaleLpop \/ UNCHANGED vars
    BY <1>5, <1>6 DEF NextLevel, LevelsDone, Clear, Fill, WarmupReturns, PrintSummaries, WriteReport,
                      WriteFails, Exit, Fails, StaleLpop, vars
  <1>7. ASSUME NEW j \in queued, Finish(j) \/ LoseJob(j) PROVE Verdicts'
    BY <1>5, <1>7 DEF Finish, LoseJob
  <1>8. ASSUME NEW v \in {"drained", "timed_out"}, TrialEnds(v) PROVE Verdicts'
    BY <1>5, <1>8 DEF TrialEnds
  <1> QED
    BY <1>1, <1>3, <1>4, <1>6, <1>7, <1>8 DEF Next, MainStep, Terminated

LEMMA VerdictsHold == Spec => [](Typed /\ OwnBacklog /\ Verdicts)
PROOF
  <1>1. Init => OwnBacklog /\ Verdicts
    BY EmptySeq DEF Init, OwnBacklog, Verdicts, AnyTimedOut, Drained
  <1> QED BY <1>1, TypedInit, TypedNext, OwnBacklogNext, VerdictsNext, PTL DEF Spec

(* A result that is not marked as timed out counts every job that was         *)
(* enqueued, and what a trial lacks is accounted for, for any number of       *)
(* failed queries and aborted workers (main.rs 539-552, 609-618).            *)
THEOREM ShortfallIsExplained == Spec => []TotalsExplained
PROOF
  <1>1. Typed /\ OwnBacklog /\ Verdicts /\ MissingExplained => TotalsExplained
    <2> SUFFICES ASSUME Typed, OwnBacklog, Verdicts, MissingExplained PROVE TotalsExplained
      OBVIOUS
    <2>1. \A i \in 1..Len(results) : Explained(results[i])
      BY DEF Verdicts
    <2>2. ASSUME step = "trial"
          PROVE  Cardinality(OwnJobs) - Cardinality(finished \cup queued) <= lost + (aborted - stale)
      <3>1. OwnJobs = (finished \cup queued) \cup missing
        BY <2>2 DEF OwnBacklog
      <3>2. IsFiniteSet(finished \cup queued) /\ IsFiniteSet(missing)
        BY JobsFinite DEF Typed, TypeOK, Jobs
      <3>3. /\ Cardinality(finished \cup queued) \in Nat /\ Cardinality(missing) \in Nat
            /\ Cardinality((finished \cup queued) \cap missing) \in Nat
        BY <3>2, FS_CardinalityType, FS_Intersection
      <3>4. Cardinality(OwnJobs) = Cardinality(finished \cup queued) + Cardinality(missing)
                                   - Cardinality((finished \cup queued) \cap missing)
        BY <3>1, <3>2, FS_Union
      <3>5. lost \in Nat /\ stale \in Nat /\ aborted \in Nat
        BY BenchmarkAssumption DEF Typed, TypeOK
      <3> QED BY <3>3, <3>4, <3>5 DEF MissingExplained
    <2> QED BY <2>1, <2>2 DEF TotalsExplained, Explained
  <1>2. Init => MissingExplained
    BY FS_EmptySet DEF Init, MissingExplained
  <1> QED BY <1>1, <1>2, VerdictsHold, MissingExplainedNext, PTL DEF Spec

(* The jobs a result lacks, until its idle phase is measured: those of the     *)
(* trial that returned are in the queues or missing; once the queues were    *)
(* found empty they are missing, and due to failed queries and late LPOPs.   *)
Lacking(r) == TrialJobs - r.total_jobs <= lost + (aborted - stale)

LackAccounted ==
  /\ step = "llen" => /\ kind = "drain" /\ finished \cup queued \cup missing = OwnJobs
                     /\ result.total_jobs = Cardinality(finished)
  /\ step = "idle" => Lacking(result)
  /\ IdleOnAccountedQueues

(* What failed queries and late LPOPs account for does not get less.         *)
LEMMA LackingStays ==
  ASSUME Typed, [Next]_vars, NEW r, r.total_jobs \in Nat, Lacking(r)
  PROVE  TrialJobs - r.total_jobs <= lost' + (aborted' - stale')
PROOF
  <1>t. /\ lost \in Nat /\ stale \in Nat /\ aborted \in Nat
        /\ TrialJobs \in Nat /\ r.total_jobs \in Nat
    BY BenchmarkAssumption DEF Typed, TypeOK
  <1> USE DEF Lacking, trialVars, outputVars, reportVars
  <1>1. CASE StaleLpop
    BY <1>t, <1>1 DEF StaleLpop
  <1>2. ASSUME NEW j \in queued, LoseJob(j) PROVE TrialJobs - r.total_jobs <= lost' + (aborted' - stale')
    BY <1>t, <1>2 DEF LoseJob
  <1>3. CASE WarmupReturns \/ DrainReturns \/ IdleReturns
    <2>1. level \in 1..Len(Levels) /\ lost' = lost
      BY <1>3 DEF WarmupReturns, DrainReturns, TrialReturned, IdleReturns, Typed, TypeOK, Measuring
    <2>2. aborted' - stale' = aborted - stale
      BY <1>3, <2>1, LeftBehind DEF WarmupReturns, DrainReturns, TrialReturned, IdleReturns
    <2> QED BY <2>1, <2>2
  <1>4. CASE UNCHANGED <<lost, stale, aborted>>
    BY <1>4
  <1> QED
    BY <1>1, <1>2, <1>3, <1>4
    DEF Next, MainStep, NextLevel, LevelsDone, Clear, Fill, Finish, TrialEnds, CheckBacklog,
        PrintSummaries, WriteReport, WriteFails, Fails, Terminated, vars

LEMMA LackAccountedNext ==
  Typed /\ OwnBacklog /\ MissingExplained /\ LackAccounted /\ [Next]_vars => LackAccounted'
PROOF
  <1> SUFFICES ASSUME Typed, OwnBacklog, MissingExplained, LackAccounted, [Next]_vars
               PROVE  LackAccounted'
    OBVIOUS
  <1> USE DEF LackAccounted, trialVars, outputVars, reportVars
  <1>r. \A i \in 1..Len(results) : results[i].total_jobs \in Nat
    <2>1. \A i \in 1..Len(results) : results[i] \in DrainResult
      BY ElementOfSeq DEF Typed
    <2> QED BY <2>1 DEF DrainResult
  <1>l. Len(results) = level - 1 /\ Len(idleResults) = level - 1 /\ level \in Nat
    BY DEF Typed, TypeOK
  <1>s. ASSUME UNCHANGED <<results, idleResults>> PROVE IdleOnAccountedQueues'
    <2> SUFFICES ASSUME NEW i \in 1..Len(idleResults), ~idleResults[i].skipped
                 PROVE  TrialJobs - results[i].total_jobs <= lost' + (aborted' - stale')
      BY <1>s DEF IdleOnAccountedQueues
    <2>1. Lacking(results[i]) /\ results[i].total_jobs \in Nat
      BY <1>r, <1>l DEF IdleOnAccountedQueues, Lacking
    <2> QED BY <2>1, LackingStays
  <1>p. ASSUME NEW idle, PushResults(idle), step \in Drained, idle.skipped \/ Lacking(result)
        PROVE  LackAccounted'
    <2>1. /\ results \in Seq(DrainResult) /\ idleResults \in Seq(IdleResult) /\ result \in DrainResult
          /\ results' = Append(results, result) /\ idleResults' = Append(idleResults, idle)
          /\ step' = "head"
      BY <1>p DEF PushResults, Typed
    <2>2. /\ Len(idleResults') = level
          /\ \A i \in 1..level : i \in 1..(level - 1) \/ i = level
          /\ \A i \in 1..(level - 1) : results'[i] = results[i] /\ idleResults'[i] = idleResults[i]
          /\ results'[level] = result /\ idleResults'[level] = idle
      <3>1. /\ Len(idleResults') = Len(idleResults) + 1
            /\ \A i \in 1..Len(results) : results'[i] = results[i]
            /\ \A i \in 1..Len(idleResults) : idleResults'[i] = idleResults[i]
            /\ results'[Len(results) + 1] = result /\ idleResults'[Len(idleResults) + 1] = idle
        BY <2>1, AppendProperties
      <3> QED BY <1>l, <3>1
    <2>3. ASSUME NEW i \in 1..(level - 1), ~idleResults[i].skipped
          PROVE  TrialJobs - results[i].total_jobs <= lost' + (aborted' - stale')
      <3>1. Lacking(results[i]) /\ results[i].total_jobs \in Nat
        BY <1>r, <1>l, <2>3 DEF IdleOnAccountedQueues, Lacking
      <3> QED BY <3>1, LackingStays
    <2>4. ~idle.skipped => TrialJobs - result.total_jobs <= lost' + (aborted' - stale')
      BY <1>p, <2>1, LackingStays DEF DrainResult
    <2>5. IdleOnAccountedQueues'
      BY <2>2, <2>3, <2>4 DEF IdleOnAccountedQueues
    <2> QED BY <2>1, <2>5
  <1>1. CASE DrainReturns
    <2>1. /\ step = "trial" /\ step' = "llen" /\ kind = "drain"
          /\ result'.total_jobs = Cardinality(finished)
          /\ UNCHANGED <<level, kind, queued, finished, missing, results, idleResults>>
      BY <1>1 DEF DrainReturns, TrialReturned, TrialResult
    <2>2. finished \cup queued \cup missing = OwnJobs /\ OwnJobs' = OwnJobs
      BY <2>1 DEF OwnBacklog, OwnJobs, JobCount
    <2> QED BY <1>s, <2>1, <2>2
  <1>2. CASE CheckBacklog
    <2>1. CASE SkipIdle
      BY <1>2, <1>p, <2>1 DEF CheckBacklog, SkipIdle, Skipped, Drained
    <2>2. CASE StartIdle
      <3>1. /\ step = "llen" /\ kind = "drain" /\ level \in 1..Len(Levels)
            /\ JobCount = TrialJobs /\ TrialJobs \in Nat
        BY <1>2, BenchmarkAssumption DEF CheckBacklog, Typed, TypeOK, Measuring, JobCount
      <3>2. IsFiniteSet(queued)
        BY JobsFinite DEF Typed, TypeOK, Jobs
      <3>3. queued = {}
        BY <2>2, <3>2, FS_EmptySet DEF StartIdle, Backlog
      <3>4. OwnJobs = finished \cup missing /\ Cardinality(OwnJobs) = TrialJobs
        BY <3>1, <3>3, OwnJobsCounted
      <3>5. /\ IsFiniteSet(finished) /\ IsFiniteSet(missing)
            /\ Cardinality(finished) \in Nat /\ Cardinality(missing) \in Nat
            /\ Cardinality(finished \cap missing) \in Nat
        BY JobsFinite, FS_Intersection, FS_CardinalityType DEF Typed
      <3>6. TrialJobs = Cardinality(finished) + Cardinality(missing) - Cardinality(finished \cap missing)
        BY <3>4, <3>5, FS_Union
      <3>7. lost \in Nat /\ stale \in Nat /\ aborted \in Nat
        BY BenchmarkAssumption DEF Typed, TypeOK
      <3>8. Lacking(result)
        BY <3>1, <3>5, <3>6, <3>7 DEF Lacking, MissingExplained
      <3>9. /\ step' = "idle"
            /\ UNCHANGED <<result, results, idleResults, lost, aborted, stale>>
        BY <1>2, <2>2 DEF CheckBacklog, StartIdle
      <3> QED BY <1>s, <3>8, <3>9 DEF Lacking
    <2> QED BY <1>2, <2>1, <2>2 DEF CheckBacklog
  <1>3. CASE IdleReturns
    BY <1>3, <1>p DEF IdleReturns, Drained
  <1>4. CASE StaleLpop
    <2>1. /\ finished \cup queued' \cup missing' = finished \cup queued \cup missing
          /\ UNCHANGED <<step, level, kind, finished, result, results, idleResults>>
      BY <1>4 DEF StaleLpop
    <2>2. step = "idle" => Lacking(result)'
      BY <2>1, LackingStays DEF Lacking, Typed, Drained, DrainResult
    <2> QED BY <1>s, <2>1, <2>2 DEF OwnJobs, JobCount
  <1>5. CASE step' \notin Drained /\ UNCHANGED <<results, idleResults>>
    BY <1>s, <1>5 DEF Drained
  <1>6. CASE NextLevel \/ LevelsDone \/ Clear \/ Fill \/ WarmupReturns \/ PrintSummaries \/ WriteReport
               \/ WriteFails \/ Fails
    BY <1>5, <1>6 DEF NextLevel, LevelsDone, Clear, Fill, WarmupReturns, PrintSummaries, WriteReport,
                      WriteFails, Exit, Fails, Drained
  <1>7. ASSUME NEW j \in queued, Finish(j) \/ LoseJob(j) PROVE LackAccounted'
    BY <1>5, <1>7 DEF Finish, LoseJob, Drained
  <1>8. ASSUME NEW v \in {"drained", "timed_out"}, TrialEnds(v) PROVE LackAccounted'
    BY <1>5, <1>8 DEF TrialEnds, Drained
  <1>9. CASE UNCHANGED vars
    BY <1>9 DEF vars, IdleOnAccountedQueues, OwnJobs, JobCount, Lacking
  <1> QED
    BY <1>1, <1>2, <1>3, <1>4, <1>6, <1>7, <1>8, <1>9 DEF Next, MainStep, Terminated

(* For any levels, and whatever a trial lost or left behind: the jobs a drain  *)
(* result lacks do not meet the idle phase that was measured after it        *)
(* (main.rs 899-911).                                                       *)
THEOREM MeasuredIdleIsClean == Spec => []IdleOnAccountedQueues
PROOF
  <1>1. LackAccounted => IdleOnAccountedQueues
    BY DEF LackAccounted
  <1>2. Init => MissingExplained
    BY FS_EmptySet DEF Init, MissingExplained
  <1>3. Init => LackAccounted
    BY EmptySeq DEF Init, LackAccounted, IdleOnAccountedQueues
  <1> QED
    BY <1>1, <1>2, <1>3, OwnBacklogHolds, MissingExplainedNext, LackAccountedNext, PTL DEF Spec

-----------------------------------------------------------------------------
(* Terminal, document and exit code.                                        *)

DrainLineSet == {TrialLine(r) : r \in DrainResult}
IdleLineSet  == {IdleLine(r) : r \in IdleResult}

(* Each pair of results belongs to its level, and has its lines.  The last    *)
(* line of a drain trial is that of main's result, in the list or not.       *)
Lined ==
  /\ drainLines \in Seq(DrainLineSet) /\ idleLines \in Seq(IdleLineSet)
  /\ Len(idleLines) = Len(idleResults) /\ Len(drainLines) >= Len(results)
  /\ step \in Drained => Len(drainLines) = Len(results) + 1
  /\ step \notin Drained \cup {"exited"} => Len(drainLines) = Len(results)
  /\ \A i \in 1..Len(results) :
       /\ results[i].workers = Levels[i] /\ drainLines[i] = TrialLine(results[i])
       /\ idleResults[i].workers = Levels[i] /\ idleLines[i] = IdleLine(idleResults[i])
       /\ idleResults[i].skipped => results[i].timed_out
  /\ step \in Drained => result.workers = Levels[level]
  /\ step \in Drained \/ result # Nil => /\ Len(drainLines) > 0
                                        /\ drainLines[Len(drainLines)] = TrialLine(result)

LEMMA PushKeepsLines ==
  ASSUME Typed, Lined, step \in Drained, NEW idle \in IdleResult, PushResults(idle),
         idle.workers = Levels[level], idle.skipped => result.timed_out,
         UNCHANGED <<result, drainLines>>
  PROVE  Lined'
PROOF
  <1>1. /\ results \in Seq(DrainResult) /\ idleResults \in Seq(IdleResult) /\ result \in DrainResult
        /\ drainLines \in Seq(DrainLineSet) /\ idleLines \in Seq(IdleLineSet)
        /\ Len(results) = level - 1 /\ Len(idleResults) = level - 1 /\ Len(idleLines) = level - 1
        /\ level \in Nat /\ Len(drainLines) = level /\ Len(results) \in Nat
    BY LenProperties DEF Typed, TypeOK, Lined
  <1>2. /\ results' = Append(results, result) /\ idleResults' = Append(idleResults, idle)
        /\ idleLines' = Append(idleLines, IdleLine(idle)) /\ step' = "head"
    BY DEF PushResults
  <1>3. IdleLine(idle) \in IdleLineSet
    BY DEF IdleLineSet
  <1>4. /\ idleLines' \in Seq(IdleLineSet)
        /\ Len(results') = level /\ Len(idleResults') = level /\ Len(idleLines') = level
        /\ results'[level] = result /\ idleResults'[level] = idle /\ idleLines'[level] = IdleLine(idle)
        /\ \A i \in 1..(level - 1) : /\ results'[i] = results[i] /\ idleResults'[i] = idleResults[i]
                                   /\ idleLines'[i] = idleLines[i]
    BY <1>1, <1>2, <1>3, AppendProperties
  <1>5. \A i \in 1..Len(results') : i \in 1..Len(results) \/ i = level
    BY <1>1, <1>4
  <1>6. ASSUME NEW i \in 1..Len(results')
        PROVE  /\ results'[i].workers = Levels[i] /\ drainLines[i] = TrialLine(results'[i])
               /\ idleResults'[i].workers = Levels[i] /\ idleLines'[i] = IdleLine(idleResults'[i])
               /\ idleResults'[i].skipped => results'[i].timed_out
    <2>1. CASE i \in 1..Len(results)
      BY <1>1, <1>4, <2>1 DEF Lined
    <2>2. CASE i = level
      BY <1>1, <1>4, <2>2 DEF Lined
    <2> QED BY <1>5, <2>1, <2>2
  <1> QED BY <1>1, <1>2, <1>4, <1>6 DEF Lined, Drained

LEMMA LinedNext == Typed /\ OwnBacklog /\ Lined /\ [Next]_vars => Lined'
PROOF
  <1> SUFFICES ASSUME Typed, OwnBacklog, Lined, [Next]_vars PROVE Lined'
    OBVIOUS
  <1> USE DEF trialVars, outputVars, reportVars
  <1>1. CASE DrainReturns
    <2>1. level \in 1..Len(Levels) /\ IsFiniteSet(finished)
      BY <1>1, JobsFinite DEF DrainReturns, TrialReturned, Typed, TypeOK, Measuring
    <2>2. result' \in DrainResult /\ result'.workers = Levels[level]
      BY <1>1, <2>1, ResultsTyped DEF DrainReturns, TrialReturned, TrialResult
    <2>3. TrialLine(result') \in DrainLineSet
      BY <2>2 DEF DrainLineSet
    <2>4. /\ step = "trial" /\ step' = "llen" /\ drainLines' = Append(drainLines, TrialLine(result'))
          /\ UNCHANGED <<level, results, idleResults, idleLines>>
      BY <1>1 DEF DrainReturns, TrialReturned
    <2>5. /\ drainLines \in Seq(DrainLineSet) /\ Len(drainLines) = Len(results) /\ Len(results) \in Nat
      BY <2>4, LenProperties DEF Lined, Typed, Drained
    <2>6. /\ drainLines' \in Seq(DrainLineSet) /\ Len(drainLines') = Len(results) + 1
          /\ \A i \in 1..Len(results) : drainLines'[i] = drainLines[i]
          /\ drainLines'[Len(drainLines')] = TrialLine(result')
      BY <2>3, <2>4, <2>5, AppendProperties
    <2> QED BY <2>2, <2>4, <2>5, <2>6 DEF Lined, Drained
  <1>2. CASE CheckBacklog
    <2>1. CASE SkipIdle
      <3>1. level \in 1..Len(Levels) /\ step = "llen"
        BY <1>2 DEF CheckBacklog, Typed, TypeOK, Measuring
      <3>2. queued # {}
        BY <2>1, FS_EmptySet DEF SkipIdle, Backlog
      <3>3. Skipped(Levels[level]) \in IdleResult /\ Skipped(Levels[level]).workers = Levels[level]
        BY <3>1, ResultsTyped DEF Skipped
      <3>4. result.timed_out
        BY <3>1, <3>2 DEF OwnBacklog
      <3> QED BY <1>2, <2>1, <3>1, <3>3, <3>4, PushKeepsLines DEF CheckBacklog, SkipIdle, Drained
    <2>2. CASE StartIdle
      BY <1>2, <2>2 DEF CheckBacklog, StartIdle, Lined, Drained
    <2> QED BY <1>2, <2>1, <2>2 DEF CheckBacklog
  <1>3. CASE IdleReturns
    <2>1. level \in 1..Len(Levels) /\ step = "idle" /\ UNCHANGED <<result, drainLines>>
      BY <1>3 DEF IdleReturns, Typed, TypeOK, Measuring
    <2>2. PICK d \in IdleDurations, c \in PollCounts : PushResults(Measured(Levels[level], d, c))
      BY <1>3 DEF IdleReturns
    <2>3. /\ Measured(Levels[level], d, c) \in IdleResult
          /\ Measured(Levels[level], d, c).workers = Levels[level]
          /\ ~Measured(Levels[level], d, c).skipped
      BY <2>1, ResultsTyped DEF Measured
    <2> QED BY <2>1, <2>2, <2>3, PushKeepsLines DEF Drained
  <1>4. CASE /\ UNCHANGED <<level, result, results, idleResults, drainLines, idleLines>>
             /\ step' = step \/ step' = "exited" \/ step \notin Drained \cup {"exited"}
             /\ step' \in Drained => step \in Drained
    BY <1>4 DEF Lined
  <1>5. CASE NextLevel \/ LevelsDone \/ Clear \/ Fill \/ WarmupReturns \/ PrintSummaries \/ WriteReport
               \/ WriteFails \/ Fails \/ StaleLpop \/ UNCHANGED vars
    BY <1>4, <1>5 DEF NextLevel, LevelsDone, Clear, Fill, WarmupReturns, PrintSummaries, WriteReport,
                      WriteFails, Exit, Fails, StaleLpop, vars, Drained
  <1>6. ASSUME NEW j \in queued, Finish(j) \/ LoseJob(j) PROVE Lined'
    BY <1>4, <1>6 DEF Finish, LoseJob, Drained
  <1>7. ASSUME NEW v \in {"drained", "timed_out"}, TrialEnds(v) PROVE Lined'
    BY <1>4, <1>7 DEF TrialEnds, Drained
  <1> QED
    BY <1>1, <1>2, <1>3, <1>5, <1>6, <1>7 DEF Next, MainStep, Terminated

(* A function over 1..n is a sequence of length n.                          *)
LEMMA MappedSequence ==
  ASSUME NEW n \in Nat, NEW S, NEW f \in [1..n -> S]
  PROVE  f \in Seq(S) /\ Len(f) = n
PROOF
  BY LenProperties

(* The document and the table hold what was measured; no step touches the     *)
(* lists once they are made.                                                 *)
Written ==
  /\ step # "exited" => delivered = "absent" /\ output = Nil
  /\ step = "exited" =>
       /\ code = 0 \/ code = 1
       /\ delivered \in {"saved", "printed"} =>
            /\ level = Len(Levels) + 1 /\ output = Document(results, idleResults)
            /\ code = 0 <=> ~AnyTimedOut
       /\ delivered \notin {"saved", "printed"} => code = 1 /\ output = Nil
  /\ idleRows # Nil => /\ step \in {"exited", "write"}
                       /\ idleRows = [i \in 1..Len(idleResults) |-> IdleRow(idleResults[i])]

LEMMA WrittenNext == Typed /\ Verdicts /\ Written /\ [Next]_vars => Written'
PROOF
  <1> SUFFICES ASSUME Typed, Verdicts, Written, [Next]_vars PROVE Written'
    OBVIOUS
  <1> USE DEF Written, trialVars, outputVars, reportVars
  <1>1. CASE PrintSummaries
    BY <1>1 DEF PrintSummaries
  <1>2. CASE WriteReport
    <2>1. /\ step = "write" /\ step' = "exited" /\ code' = (IF anyTimeout THEN 1 ELSE 0)
          /\ delivered' \in {"saved", "printed"} /\ output' = Document(results, idleResults)
          /\ UNCHANGED <<level, results, idleResults, idleRows>>
      BY <1>2 DEF WriteReport, Exit
    <2>2. level = Len(Levels) + 1 /\ (anyTimeout <=> AnyTimedOut)
      BY <2>1 DEF Typed, Verdicts, Drained
    <2>3. AnyTimedOut' <=> AnyTimedOut
      BY <2>1 DEF AnyTimedOut
    <2> QED BY <2>1, <2>2, <2>3
  <1>3. CASE WriteFails
    BY <1>3 DEF WriteFails, Exit
  <1>4. CASE Fails
    BY <1>4 DEF Fails, Exit
  <1>5. CASE /\ step \in Measuring \cup {"head"} /\ step' # "exited"
             /\ UNCHANGED <<idleRows, output, delivered>>
    BY <1>5 DEF Measuring
  <1>6. CASE NextLevel \/ LevelsDone \/ Clear \/ Fill \/ WarmupReturns \/ DrainReturns \/ CheckBacklog
               \/ IdleReturns
    BY <1>5, <1>6 DEF NextLevel, LevelsDone, Clear, Fill, WarmupReturns, DrainReturns, TrialReturned,
                      CheckBacklog, SkipIdle, StartIdle, IdleReturns, PushResults, Measuring
  <1>7. CASE UNCHANGED <<step, level, results, idleResults, idleRows, output, delivered, code>>
    BY <1>7 DEF AnyTimedOut
  <1>8. CASE StaleLpop \/ UNCHANGED vars
    BY <1>7, <1>8 DEF StaleLpop, vars
  <1>9. ASSUME NEW j \in queued, Finish(j) \/ LoseJob(j) PROVE Written'
    BY <1>7, <1>9 DEF Finish, LoseJob
  <1>10. ASSUME NEW v \in {"drained", "timed_out"}, TrialEnds(v) PROVE Written'
    BY <1>7, <1>10 DEF TrialEnds
  <1> QED
    BY <1>1, <1>2, <1>3, <1>4, <1>6, <1>8, <1>9, <1>10 DEF Next, MainStep, Terminated

Reported == Typed /\ OwnBacklog /\ Verdicts /\ Lined /\ Written

LEMMA ReportedHolds == Spec => []Reported
PROOF
  <1>1. Init => OwnBacklog /\ Verdicts
    BY EmptySeq DEF Init, OwnBacklog, Verdicts, AnyTimedOut, Drained
  <1>2. Init => Lined
    BY EmptySeq DEF Init, Lined, Drained
  <1>3. Init => Written
    BY DEF Init, Written
  <1> QED
    BY <1>1, <1>2, <1>3, TypedInit, TypedNext, OwnBacklogNext, VerdictsNext, LinedNext, WrittenNext,
       PTL DEF Spec, Reported

(* The document has an entry for each level that was measured, made of the    *)
(* two results at the same position.                                        *)
LEMMA DocumentEntries ==
  ASSUME Typed
  PROVE  /\ Len(Document(results, idleResults)) = level - 1
         /\ \A i \in 1..(level - 1) :
              Document(results, idleResults)[i] = Entry(results[i], idleResults[i])
PROOF
  <1> DEFINE n == Smaller(Len(results), Len(idleResults))
             f == [i \in 1..n |-> Entry(results[i], idleResults[i])]
             E == {f[i] : i \in 1..n}
  <1>1. n = level - 1 /\ n \in Nat
    BY LenProperties DEF Typed, TypeOK, Smaller
  <1>2. f \in [1..n -> E]
    OBVIOUS
  <1>3. Len(f) = n
    BY <1>1, <1>2, MappedSequence
  <1>4. Document(results, idleResults) = f
    BY DEF Document
  <1> QED BY <1>1, <1>3, <1>4

LEMMA RowsCounted ==
  ASSUME Typed
  PROVE  Len([i \in 1..Len(idleResults) |-> IdleRow(idleResults[i])]) = level - 1
PROOF
  <1> DEFINE n == Len(idleResults)
             f == [i \in 1..n |-> IdleRow(idleResults[i])]
             R == {f[i] : i \in 1..n}
  <1>1. n = level - 1 /\ n \in Nat
    BY LenProperties DEF Typed, TypeOK
  <1>2. f \in [1..n -> R]
    OBVIOUS
  <1>3. Len(f) = n
    BY <1>1, <1>2, MappedSequence
  <1> QED BY <1>1, <1>3

(* Whatever the levels, the written document has one entry for each, in       *)
(* order, and never pairs a drain result with the idle result of another      *)
(* level (report.rs 224-226).                                               *)
THEOREM DocumentPairsLevels == Spec => []ReportAligned
PROOF
  <1>1. Reported => ReportAligned
    <2> SUFFICES ASSUME Reported, output # Nil PROVE ReportAligned
      BY DEF ReportAligned
    <2>1. output = Document(results, idleResults) /\ level = Len(Levels) + 1
      BY DEF Reported, Written
    <2>2. Len(results) = Len(Levels) /\ level - 1 = Len(Levels)
      BY <2>1, BenchmarkAssumption, LenProperties DEF Reported, Typed, TypeOK
    <2> QED BY <2>1, <2>2, DocumentEntries DEF Reported, Lined, ReportAligned
  <1> QED BY <1>1, ReportedHolds, PTL

(* Code 0 says that the whole document was written and that no trial in it    *)
(* timed out, for any levels, and is what such a run ends with (main.rs      *)
(* 754, 953-968, report.rs 261-273).                                        *)
THEOREM ExitCodeIsRight == Spec => []ExitCodeTellsAll
PROOF
  <1>1. Reported => ExitCodeTellsAll
    <2> SUFFICES ASSUME Reported, step = "exited" PROVE ExitCodeTellsAll
      BY DEF ExitCodeTellsAll
    <2>1. CASE delivered \in {"saved", "printed"}
      <3>1. level - 1 = Len(Levels) /\ output = Document(results, idleResults)
        BY <2>1, BenchmarkAssumption, LenProperties DEF Reported, Written
      <3>2. Len(output) = Len(Levels)
        BY <3>1, DocumentEntries DEF Reported
      <3> QED BY <2>1, <3>2 DEF Reported, Written, AnyTimedOut, ExitCodeTellsAll
    <2>2. CASE delivered \notin {"saved", "printed"}
      BY <2>2 DEF Reported, Written, ExitCodeTellsAll
    <2> QED BY <2>1, <2>2
  <1> QED BY <1>1, ReportedHolds, PTL

(* What was measured is on the terminal, also when a later level ends main     *)
(* with an error (main.rs 893-944).                                         *)
THEOREM NothingMeasuredIsSilent == Spec => []MeasuredLevelsArePrinted
PROOF
  <1>1. Reported => MeasuredLevelsArePrinted
    <2> SUFFICES ASSUME Reported PROVE MeasuredLevelsArePrinted
      OBVIOUS
    <2>1. Len(results) = Len(idleResults) /\ Len(results) \in Nat /\ Len(drainLines) \in Nat
      BY LenProperties DEF Reported, Typed, TypeOK, Lined
    <2>2. result # Nil => /\ Len(drainLines) \in 1..Len(drainLines) /\ Len(drainLines) >= Len(results)
                          /\ drainLines[Len(drainLines)] = TrialLine(result)
      BY <2>1 DEF Reported, Lined
    <2> QED BY <2>1, <2>2 DEF Reported, Lined, MeasuredLevelsArePrinted
  <1> QED BY <1>1, ReportedHolds, PTL

(* A skipped idle phase is marked in all three places, and comes with the      *)
(* timeout its reason names (main.rs 912-923, report.rs 61-141, 242-256).    *)
THEOREM SkipIsMarked == Spec => []SkippedIsMarked
PROOF
  <1>1. Reported => SkippedIsMarked
    <2> SUFFICES ASSUME Reported PROVE SkippedIsMarked
      OBVIOUS
    <2>1. /\ Len(results) = level - 1 /\ Len(idleResults) = level - 1
          /\ idleResults \in Seq(IdleResult) /\ level \in Int
      BY DEF Reported, Typed, TypeOK
    <2>2. ASSUME NEW i \in 1..(level - 1)
          PROVE  /\ idleResults[i].skipped => results[i].timed_out
                 /\ idleLines[i].skipped = idleResults[i].skipped
                 /\ IdleRow(idleResults[i]).skipped = idleLines[i].skipped
                 /\ Entry(results[i], idleResults[i]).idle_poll.skipped_reason = idleLines[i].skipped
                 /\ Entry(results[i], idleResults[i]).timed_out = results[i].timed_out
      <3>1. idleResults[i] \in IdleResult
        BY <2>1, <2>2, ElementOfSeq
      <3>2. idleResults[i].skipped \in BOOLEAN
        BY <3>1 DEF IdleResult
      <3>3. idleLines[i] = IdleLine(idleResults[i]) /\ (idleResults[i].skipped => results[i].timed_out)
        BY <2>1, <2>2 DEF Reported, Lined
      <3>4. idleLines[i].skipped = idleResults[i].skipped
        <4>1. IdleLine(idleResults[i]).skipped = idleResults[i].skipped
          BY <3>2 DEF IdleLine
        <4> QED BY <3>3, <4>1
      <3>5. IdleRow(idleResults[i]).skipped = idleResults[i].skipped
        BY <3>2 DEF IdleRow
      <3> QED BY <3>3, <3>4, <3>5 DEF Entry, IdleEntry
    <2>3. ASSUME idleRows # Nil
          PROVE  \A i \in 1..Len(idleRows) : idleRows[i].skipped = idleLines[i].skipped
      <3>1. /\ idleRows = [i \in 1..Len(idleResults) |-> IdleRow(idleResults[i])]
            /\ Len(idleRows) = level - 1
        BY <2>3, RowsCounted DEF Reported, Written
      <3>2. \A i \in 1..(level - 1) : idleRows[i] = IdleRow(idleResults[i])
        BY <2>1, <3>1
      <3> QED BY <2>2, <3>1, <3>2
    <2>4. ASSUME output # Nil
          PROVE  \A i \in 1..Len(output) : /\ output[i].idle_poll.skipped_reason = idleLines[i].skipped
                                           /\ idleLines[i].skipped => output[i].timed_out
      <3>1. /\ Len(output) = level - 1
            /\ \A i \in 1..(level - 1) : output[i] = Entry(results[i], idleResults[i])
        BY <2>4, DocumentEntries DEF Reported, Written
      <3> QED BY <2>2, <3>1
    <2> QED BY <2>1, <2>2, <2>3, <2>4 DEF SkippedIsMarked
  <1> QED BY <1>1, ReportedHolds, PTL

-----------------------------------------------------------------------------
(* Rounded rates.                                                           *)

LEMMA RoundedIsNear ==
  ASSUME NEW n \in Nat, NEW d \in Nat \ {0}
  PROVE  /\ Rounded(n, d) \in Nat
         /\ -d <= 2 * (Rounded(n, d) * d) - 2 * n /\ 2 * (Rounded(n, d) * d) - 2 * n <= d
PROOF
  <1> DEFINE a == 2 * n + d
             m == 2 * d
             q == a \div m
             r == a % m
  <1>1. a \in Nat /\ m \in Nat \ {0}
    OBVIOUS
  <1>2. q \in Nat /\ r \in 0..(m - 1) /\ a = q * m + r
    BY <1>1, Division
  <1>3. Rounded(n, d) = q
    BY DEF Rounded
  <1> HIDE DEF q, r
  <1>4. q * m = 2 * (q * d) /\ q * d \in Nat
    BY <1>2
  <1> QED BY <1>2, <1>3, <1>4

(* A rate of n per d, in tenths per second, times d, in milliseconds.         *)
LEMMA RateTimesDuration ==
  ASSUME NEW n \in Nat, NEW d \in Nat \ {0}
  PROVE  2 * Distance(PerSecond(<<n, d>>, 10) * Seconds(d, 1000), 10000 * n)
           <= PerSecond(<<n, d>>, 10) + Seconds(d, 1000) + 2
PROOF
  <1> DEFINE S == Second
             J == PerSecond(<<n, d>>, 10)
             T == Seconds(d, 1000)
             A == 2 * (J * d) - 20 * (n * S)
             B == 2 * (T * S) - 2000 * d
             X == J * T - 10000 * n
  <1>1. S \in Nat \ {0} /\ n * S \in Nat
    BY ReportAssumption
  <1>2. J \in Nat /\ -d <= A /\ A <= d
    <2>1. n * S * 10 \in Nat /\ 2 * (n * S * 10) = 20 * (n * S)
      BY <1>1
    <2>2. J = Rounded(n * S * 10, d)
      BY DEF PerSecond
    <2> QED BY <2>1, <2>2, RoundedIsNear
  <1>3. T \in Nat /\ -S <= B /\ B <= S
    <2>1. d * 1000 \in Nat /\ 2 * (d * 1000) = 2000 * d
      OBVIOUS
    <2>2. T = Rounded(d * 1000, S)
      BY DEF Seconds
    <2> QED BY <1>1, <2>1, <2>2, RoundedIsNear
  <1> HIDE DEF S, J, T
  <1>4. A \in Int /\ B \in Int /\ X \in Int
    BY <1>1, <1>2, <1>3
  <1>5. 2 * (d * X) = 10 * (n * B) + T * A
    BY <1>1, <1>2, <1>3
  <1>6. -(n * S) <= n * B /\ n * B <= n * S /\ n * B \in Int
    BY <1>1, <1>3, <1>4, Scaled
  <1>7. -(T * d) <= T * A /\ T * A <= T * d /\ T * A \in Int
    BY <1>2, <1>3, <1>4, Scaled
  <1>8. 20 * (n * S) <= 2 * (J * d) + d /\ J * d \in Nat /\ T * d \in Nat
    BY <1>1, <1>2, <1>3
  <1> DEFINE L == 2 * J + 2 * T + 1
  <1>9. d * L = 2 * (J * d) + 2 * (T * d) + d /\ L \in Nat
    BY <1>2, <1>3
  <1>10. d * (4 * X) = 4 * (d * X) /\ d * (-4 * X) = -4 * (d * X) /\ d * X \in Int
    BY <1>4
  <1> HIDE DEF A, B, X, L
  <1>11. d * (4 * X) <= d * L /\ d * (-4 * X) <= d * L
    BY <1>1, <1>5, <1>6, <1>7, <1>8, <1>9, <1>10
  <1>12. 4 * X <= L /\ -4 * X <= L
    <2>1. 4 * X \in Int /\ -4 * X \in Int /\ L \in Int
      BY <1>4, <1>9
    <2> QED BY <1>11, <2>1, Cancel
  <1>13. J * T \in Nat /\ X = J * T - 10000 * n
    BY <1>2, <1>3 DEF X
  <1>14. 2 * Distance(J * T, 10000 * n) <= J + T + 2
    BY <1>2, <1>3, <1>12, <1>13 DEF L, Distance
  <1> QED BY <1>14 DEF J, T

(* A rate of n per d of w workers, in tenths, and that of one, in hundredths. *)
LEMMA PerWorkerTimesWorkers ==
  ASSUME NEW n \in Nat, NEW d \in Nat \ {0}, NEW w \in Nat \ {0}
  PROVE  2 * Distance(PerSecond(<<n, d * w>>, 100) * w, 10 * PerSecond(<<n, d>>, 10)) <= w + 10
PROOF
  <1> DEFINE S == Second
             P == PerSecond(<<n, d * w>>, 100)
             Q == PerSecond(<<n, d>>, 10)
             M == d * w
             A == 2 * (P * M) - 200 * (n * S)
             B == 2 * (Q * d) - 20 * (n * S)
             X == P * w - 10 * Q
  <1>1. S \in Nat \ {0} /\ n * S \in Nat /\ M \in Nat \ {0}
    BY ReportAssumption
  <1>2. P \in Nat /\ -M <= A /\ A <= M
    <2> DEFINE N == n * S * 100
    <2>1. N \in Nat /\ 2 * N = 200 * (n * S)
      BY <1>1
    <2>2. P = Rounded(N, M)
      BY DEF PerSecond
    <2> HIDE DEF M, N, P, S
    <2>3. P \in Nat /\ -M <= 2 * (P * M) - 2 * N /\ 2 * (P * M) - 2 * N <= M
      BY <1>1, <2>1, <2>2, RoundedIsNear
    <2> QED BY <1>1, <2>1, <2>3
  <1>3. Q \in Nat /\ -d <= B /\ B <= d
    <2>1. n * S * 10 \in Nat /\ 2 * (n * S * 10) = 20 * (n * S)
      BY <1>1
    <2>2. Q = Rounded(n * S * 10, d)
      BY DEF PerSecond
    <2> QED BY <1>1, <2>1, <2>2, RoundedIsNear
  <1> HIDE DEF S, P, Q
  <1>4. A \in Int /\ B \in Int /\ X \in Int
    BY <1>1, <1>2, <1>3
  <1>5. d * (2 * X) = A - 10 * B /\ d * (-2 * X) = 10 * B - A
    BY <1>1, <1>2, <1>3
  <1>6. d * (w + 10) = d * w + 10 * d /\ w + 10 \in Int
    OBVIOUS
  <1> HIDE DEF A, B, X
  <1>7. d * (2 * X) <= d * (w + 10) /\ d * (-2 * X) <= d * (w + 10)
    BY <1>1, <1>2, <1>3, <1>4, <1>5, <1>6
  <1>8. 2 * X <= w + 10 /\ -2 * X <= w + 10
    <2>1. 2 * X \in Int /\ -2 * X \in Int
      BY <1>4
    <2> QED BY <1>6, <1>7, <2>1, Cancel
  <1>9. P * w \in Nat /\ X = P * w - 10 * Q
    BY <1>2 DEF X
  <1>10. 2 * Distance(P * w, 10 * Q) <= w + 10
    BY <1>3, <1>8, <1>9 DEF Distance
  <1> QED BY <1>10 DEF P, Q

(* Of any entry of the document, whatever was measured: rate times duration is *)
(* the total, for the jobs and for the polls, and the rate per worker times   *)
(* the workers that of the fleet, up to the rounding (report.rs 230-257).     *)
THEOREM DocumentIsConsistent == Spec => []DocumentAgrees
PROOF
  <1>1. ASSUME NEW r \in DrainResult, NEW p \in IdleResult, p.workers = r.workers, NEW e, e = Entry(r, p)
        PROVE  /\ 2 * Distance(e.jobs_per_sec * e.duration_s, 10000 * e.total_jobs)
                    <= e.jobs_per_sec + e.duration_s + 2
               /\ 2 * Distance(e.idle_poll.idle_poll_qps * e.idle_poll.duration_s,
                               10000 * e.idle_poll.total_lpop_calls)
                    <= e.idle_poll.idle_poll_qps + e.idle_poll.duration_s + 2
               /\ 2 * Distance(e.idle_poll.per_worker_qps * e.workers, 10 * e.idle_poll.idle_poll_qps)
                    <= e.workers + 10
    <2>1. /\ e.workers = r.workers /\ e.total_jobs = r.total_jobs
          /\ e.duration_s = Seconds(r.duration, 1000) /\ e.jobs_per_sec = PerSecond(r.jobs_per_sec, 10)
          /\ e.idle_poll = IdleEntry(p)
      BY <1>1 DEF Entry
    <2>2. /\ e.idle_poll.duration_s = Seconds(p.duration, 1000)
          /\ e.idle_poll.total_lpop_calls = p.total_lpop_calls
          /\ e.idle_poll.idle_poll_qps = PerSecond(p.idle_poll_qps, 10)
          /\ e.idle_poll.per_worker_qps = PerSecond(p.per_worker_qps, 100)
      BY <2>1 DEF IdleEntry
    <2>3. /\ r.workers \in Nat \ {0} /\ r.total_jobs \in Nat /\ r.duration \in Nat \ {0}
          /\ r.jobs_per_sec = <<r.total_jobs, r.duration>>
      BY DEF DrainResult
    <2>4. 2 * Distance(e.jobs_per_sec * e.duration_s, 10000 * e.total_jobs)
            <= e.jobs_per_sec + e.duration_s + 2
      BY <2>1, <2>3, RateTimesDuration
    <2>5. CASE p.duration # 0
      <3>1. /\ p.total_lpop_calls \in Nat /\ p.duration \in Nat \ {0}
            /\ p.idle_poll_qps = <<p.total_lpop_calls, p.duration>>
            /\ p.per_worker_qps = <<p.total_lpop_calls, p.duration * r.workers>>
        BY <1>1, <2>5 DEF IdleResult
      <3>2. 2 * Distance(e.idle_poll.idle_poll_qps * e.idle_poll.duration_s,
                         10000 * e.idle_poll.total_lpop_calls)
              <= e.idle_poll.idle_poll_qps + e.idle_poll.duration_s + 2
        BY <2>2, <3>1, RateTimesDuration
      <3>3. 2 * Distance(e.idle_poll.per_worker_qps * e.workers, 10 * e.idle_poll.idle_poll_qps)
              <= e.workers + 10
        BY <2>1, <2>2, <2>3, <3>1, PerWorkerTimesWorkers
      <3> QED BY <2>4, <3>2, <3>3
    <2>6. CASE p.duration = 0
      <3>1. /\ p.total_lpop_calls = 0
            /\ p.idle_poll_qps = <<0, 1>> /\ p.per_worker_qps = <<0, 1>>
        BY <2>6 DEF IdleResult
      <3>2. /\ PerSecond(<<0, 1>>, 10) = 0 /\ PerSecond(<<0, 1>>, 100) = 0 /\ Seconds(0, 1000) = 0
        <4>1. Second \in Nat \ {0} /\ 0 * Second * 10 = 0 /\ 0 * Second * 100 = 0
          BY ReportAssumption
        <4>2. ASSUME NEW d \in Nat \ {0} PROVE Rounded(0, d) = 0
          <5>1. Rounded(0, d) \in Nat /\ 2 * (Rounded(0, d) * d) <= d
            BY RoundedIsNear
          <5>2. ~(Rounded(0, d) >= 1)
            BY <5>1
          <5> QED BY <5>1, <5>2
        <4> QED BY <4>1, <4>2 DEF PerSecond, Seconds
      <3>3. Distance(0, 0) = 0
        BY DEF Distance
      <3> QED BY <2>1, <2>2, <2>3, <2>4, <2>6, <3>1, <3>2, <3>3
    <2> QED BY <2>5, <2>6
  <1>2. Reported => DocumentAgrees
    <2> SUFFICES ASSUME Reported, output # Nil, NEW i \in 1..Len(output)
                 PROVE  /\ results[i] \in DrainResult /\ idleResults[i] \in IdleResult
                        /\ idleResults[i].workers = results[i].workers
                        /\ output[i] = Entry(results[i], idleResults[i])
      BY <1>1 DEF DocumentAgrees
    <2>1. output = Document(results, idleResults)
      BY DEF Reported, Written
    <2>2. i \in 1..(level - 1) /\ output[i] = Entry(results[i], idleResults[i])
      BY <2>1, DocumentEntries DEF Reported
    <2>3. /\ results \in Seq(DrainResult) /\ idleResults \in Seq(IdleResult)
          /\ i \in 1..Len(results) /\ i \in 1..Len(idleResults)
      BY <2>2 DEF Reported, Typed, TypeOK
    <2> QED BY <2>2, <2>3, ElementOfSeq DEF Reported, Lined
  <1> QED BY <1>2, ReportedHolds, PTL
===============================================================================
