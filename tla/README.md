# A TLA+ development of resque-bench

resque-bench measures how fast a fleet of Resque-style poll workers drains a
backlog from Redis, and how many LPOPs the same fleet issues while the queues
are empty. This directory holds TLA+ models of it, TLC configurations that
check them on small instances, and TLAPS proofs, for every value of the constants,
of all the safety properties that the passing runs check.
Paths below are those of the repository (`src/main.rs`, `src/worker.rs`, ...).

## The system

| part | state | operations | interacts with |
|---|---|---|---|
| poll worker (`worker.rs`) | its connection, the scan in progress, the payload it holds | scan the keys with LPOP, record the latency, count the job, signal done, sleep, leave on shutdown | Redis (one connection each), the counters, the latency channel, the `done` and `shutdown` watch channels |
| drain trial (`main.rs` `run_drain_trial`, `join_workers`) | `timed_out`, the task handles, the two watch channels | open the connections, spawn, `select!` on done or timeout, send shutdown, join with a grace period or abort, await the collector, build the `TrialResult` | spawns workers, collector and monitor |
| collector (`main.rs` 436-460) | the histogram of the trial and that of the current second | receive a latency, answer a snapshot request, end when every sender is dropped | latency channel, snapshot channel |
| monitor (`main.rs` 493-536) | the previous counter values and three series | per second: the completed delta, the error delta, a window of latencies | counters, collector; aborted by the orchestrator at any await |
| idle-poll trial (`main.rs` `run_idle_poll_trial`) | window start, elapsed time, the polls counter | spawn, wait, send shutdown, join, read the counter | workers with `target_jobs: None` |
| producer (`producer.rs`) | position in the round robin | clear or flush, register, enqueue in batches, count | Redis pipelines on main's connection |
| main loop (`main.rs` `main`) | the two result lists, `any_timeout` | per level: warmup, clear, enqueue, drain trial, LLEN check, idle-poll trial; report; exit code | everything above |
| report (`report.rs`) | the terminal, the file | print a line per trial and the tables, pair the results by position, round, write JSON | main |
| startup (`main.rs` up to 871, `tls.rs`) | the arguments, the crypto provider, the URL, the warnings printed, tag, path, queue keys | install the provider, validate, build and redact the URL, warn, look up the version, connect, parse the percentiles | Redis (two connections), main |
| percentiles, statistics, rates (`main.rs`, `metrics.rs`) | none | pure functions | monitor, collector, main, report |
| job payload (`job.rs`) | none | stamp a job, read the stamp back | producer, worker |

What is hard in it:

* **Interleaving.** Workers are tokio tasks on several threads. Between two
  awaits a worker records a latency, increments a counter, compares it with
  the target and signals; every other worker, the collector, the monitor and
  the orchestrator run in between.
* **Failure.** A query may fail after Redis executed its LPOP (the job is gone),
  or before (the LPOP may still be executed for a worker that has moved on, or
  has been aborted, or belongs to a trial that is over). A connection that
  broke never comes back (`MultiplexedConnection` does not reconnect).
* **Ordering.** done against timeout; shutdown against a hit, which bypasses the
  `select!` on the shutdown channel; the monitor aborted inside a tick; the
  counters read after the join and the clock before it.
* **Reporting.** The same fact reaches the user in several places (line, table,
  document, exit code), each computed on its own, and main may end with an error
  between any two of them.
* **Precedence.** `--url` and six other options decide about one connection; the
  warnings and the redaction must follow what was built, not what was asked.
* **Ending.** A worker stuck in a query, or all of them; a collector that ends only
  when the last sender is dropped; a target no completed count can reach.

What makes each part correct is listed with the modules below. `PROJECT.json`
lists the hazards one by one, at their lines, with the properties that catch
them.

## Modules

| module | models | uses |
|---|---|---|
| `PollWorker` | a fleet of workers, Redis and the connections | |
| `DrainTrial` | the orchestrator and the collector around that fleet | EXTENDS `PollWorker` |
| `DrainLedger` | abstract: what a drain trial promises | instantiated by `DrainTrial` |
| `DrainTrialProofs` | theorems: where payloads are, the done signal, the result, the shutdown, the order | EXTENDS `DrainTrial`, `TLAPS` |
| `DrainTrialRefines` | theorems: the trial implements the ledger; what is missing and what is measured is accounted for | EXTENDS `DrainTrialProofs` |
| `Arithmetic` | sums and decimals as recursive functions, pure | |
| `ArithmeticTheorems` | lemmas: induction, division, sums, decimals | EXTENDS `Arithmetic`, `TLAPS` |
| `Percentiles` | percentile specs and histogram statistics, pure | EXTENDS `Arithmetic` |
| `Sampler` | monitor and collector with the snapshot protocol | EXTENDS `Percentiles` |
| `SamplerProofs` | theorems: windows, series, statistics; lemmas about histograms | EXTENDS `Sampler`, `ArithmeticTheorems` |
| `Report` | rates, lines, rows and document entries, pure | |
| `IdlePoll` | the idle-poll trial with a clock | EXTENDS `PollWorker`, `Report` |
| `IdlePollProofs` | theorems: join, report, polls outside the window, poll rate | EXTENDS `IdlePoll`, `TLAPS` |
| `Producer` | the pipelines of clear, enqueue and LLEN | EXTENDS `Arithmetic` |
| `ProducerProofs` | theorems: what the keys hold, what the count says | EXTENDS `Producer`, `ArithmeticTheorems` |
| `Benchmark` | main: the sequence of trials, terminal, document, exit code | EXTENDS `Report` |
| `BenchmarkProofs` | theorems about main | EXTENDS `Benchmark`, `ArithmeticTheorems` |
| `Startup` | main before the first command that changes Redis | EXTENDS `Percentiles` |
| `StartupProofs` | theorems about that | EXTENDS `Startup`, `ArithmeticTheorems` |
| `MC*` | the values of constants TLC needs as definitions, and symmetry | EXTENDS the above |

Some operators are variants of the definition that follows them, written the
way a plausible mistake would be (`LoopTopIgnoresShutdown` before `LoopTop`).
No specification uses them; `PROJECT.json` names for each property the variant
that must violate it.

### PollWorker

One action per stretch of `PollWorker::run` between two points at which other
tasks can observe it; `pc` names the point.

| code | action |
|---|---|
| top of the loop, `*shutdown_rx.borrow()` (64-67) | `LoopTop` |
| `inc_poll`, LPOP sent (70-75) | `SendLpop` |
| the three arms of the match (77-85) | `ReplyHit`, `ReplyMiss`, `ReplyErr`; the `continue` is `ContinueScan` |
| `record_job` (91, 113-138) | `RecordJob` |
| `inc_completed` and the comparison (92-94) | `CountJob` |
| `done_tx.send(true)` (95) | `SignalDone` |
| `select!` of sleep and shutdown (102-107) | `SleepElapsed`, `ShutdownWakes` |

Redis and the client library are external. `queue` holds the lists; `wire[w]`
holds the LPOPs of worker `w` that were sent and not yet executed, in order.
`LpopHit` and `LpopMiss` execute the oldest one: its reply reaches the worker
only if the worker still waits for exactly that request, otherwise the payload
is gone. `ReplyErr` may happen whenever a worker waits: the request stays on
the wire if it was not executed. `BreakConnection` drops what is on the wire
for good; it also closes the connection of a task that is gone. `ForeignPush`
is another client of a shared Redis. A payload is a model value; a `Malformed`
one is a payload `record_job` counts as an error.

### DrainTrial

`phase` is where `run_drain_trial` is: connect, running (the `select!`), stopping,
joining, collecting (`collector.await`), returned, or error (a connection could
not be opened, before any worker is spawned). The timeout and the grace period
may pass at any step, since nothing in the code relates them to the speed of
the workers. `GraceExpires` only requests the abort; `Cancel` drops the task at
one of its two awaits, as the runtime does, which may be after `join_workers`
returned. `CollectorEnd` needs an empty channel and every sender dropped.

* `OnePlace`, `CountedOnce`, `LossIsAccounted`: no payload is processed twice, none
  disappears without an error or an aborted worker to show for it.
* `DoneMeansDrained`: the comment at `main.rs` 905-909 that reaching the target is a
  race-free empty signal, as long as nobody else has pushed to the queues.
* `ResultAccounts`, `NothingCountedAfterReturn`, `ShutdownOvershoot`: the result is final
  and complete although aborted tasks may outlive the join.
* `PriorityOrder`: the fleet, not only each worker, drains in priority order. It
  holds up to the first failed query: after one the code goes on with the keys
  of lower priority, like after a miss.
* `TrialTerminates`, `DrainCompletes`: liveness, see below.
* `ImplementsLedger`: refinement of `DrainLedger`. The mapping (`fateOf`, `verdictOf`,
  `reportOf`) computes a payload's fate from where it is; the abstract `Report`
  step requires that nobody holds a payload any more, and `Finish` that there
  is no report yet, so the refinement says that the report misses nothing.

### Percentiles

`Accepted` and `Quantile` are `parse_percentile_spec`, over the characters after the `p`:
`u64::from_str` with its optional sign, the cap on the digits and the multiplication
that wraps without it. `SpecValue` is `PercentileSpec::value`, `Stats` is
`LatencyStats::from_histogram`. hdrhistogram is external; its buckets are one value wide
for the values used here, and its mean adds up each value times its count (`Total`). Two oddities are the code's own: `p100` is the 10th percentile
(`100` over 1000), and `p+5` is accepted, with the sign counted as a digit (5 over 100).

### Sampler

The monitor and the collector, with the fleet reduced to what they see of it:
a latency is sent before its job is counted. `val` holds each latency, the difference
of two clock readings clamped to 1 us; one above `HistMax` is refused by both
histograms. A window is the set of latencies of one second, and what is pushed to a series
are the values the percentile specs compute from it. `Pushed` pushes one value per
entry of the spec list to the series of that name, so a percentile listed twice has
two values per tick in one series (`Times`). `MonitorCancelled` is the abort taking effect at the sleep or at
the snapshot await; an aborted monitor that already has its answer may still push
it, before or after the result was copied from the series.

* `WindowsPartitionHistogram`: every latency received is in exactly one window.
* `SeriesAddUp`: the deltas are not negative and sum to the counter at the last tick.
* `TicksAligned`: the i-th value of a series is that of the i-th tick. It is stated for the
  percentiles listed once; of one listed twice it is false (see below).
* `EveryLatencyCollected`: the abort of the monitor costs no latency of the result.
* `StatisticsAgree`: the percentiles over the whole trial are ordered, and each lies
  between the values of its series, if the windows that no series holds are added: the
  series and the totals describe the same latencies.

### IdlePoll

The workers of `PollWorker` with the polls counter and a clock `now`. A timer never
fires early; every task may be arbitrarily late, except that a supervisor of
`join_workers` acts when its grace is over (`Pass` does not step past it):
otherwise no bound on the join could be stated. `PollRateBounded` is the poll
rate of README 322-328 as an upper bound, with the extra scan each stray hit causes,
`CallsOutsideBounded` the most the reported count can contain from outside the window:
before `start` what the rate allows since the spawn, after `elapsed` is read what the rate
allows until the shutdown signal, and after the signal nothing that bound does not have
room for, since a worker at most ends its scan. The times, hits and polls it compares are kept in
history variables (`atStop`, `stopPolls`, `atShutdown`). `JoinWithinGrace` is the claim of
`main.rs` 393-403, `ReportIsFinal` that the count read after the join misses no
poll of a worker that was joined. The result has the rates of `Report`.

### Producer

A pipeline without `atomic()` is a sequence of commands; `Execute` runs the next
one, other clients act in between, and `ConnectionLost` leaves a prefix executed.
`FilledRoundRobin` compares what is in Redis with the reference `RoundRobin` at every
command, and is what justifies the `Backlog` the drain trial starts from.
It speaks of queues nobody else uses; `NothingLeftOver` does not: with strangers and late LPOPs
about, each of the `NumJobs` jobs pushed so far is in one place, but for one per LPOP, what is there
besides them is a stranger's, nothing is a former trial's, and every key is in the set of queues.
`ZeroMeansEmpty` is the guard of the idle phase: without strangers the LLEN sum is
never below what is left.

### Report

What is said of a result, as pure functions: `Rate` and `PerWorker` are the guarded divisions
of `compute_idle_poll_qps` and of the result (a rate is a fraction, so nothing is
rounded before the report rounds it), `Rounded` is `round`, `TrialLine`, `IdleLine` and `IdleRow` are what the
terminal shows, `Entry` and `Document` what `write_json` builds. A printed decimal is an integer
number of its last digit's units. Column widths and separators are left out.

### Benchmark

`step` is where main is; a trial is reduced to its ledger: workers finish jobs
until a verdict is reached, and possibly some more before it returns. What
connects trials is what they leave: jobs of a trial that timed out, and LPOPs
of workers that were aborted (`stale`), which `StaleLpop` executes at any later
time. `Fails` is every `?`: main ends without a document; `WriteFails` is the one of
`write_json`, which may leave a part of the file. Both end the process with code 1, as a timeout
does. `delivered` says where the document went: to the file, or with `--output -` to the terminal.

* `TrialFinishesOwnJobs`, `TotalsExplained`: a trial's numbers are its own, and what a shortfall
  may be due to.
* `IdleOnAccountedQueues`: the jobs a drain result lacks although its idle phase was measured were lost to
  failed queries or late LPOPs; they never are a backlog the idle phase ran on.
* `ReportAligned`, `DocumentAgrees`: the document pairs the results of one level, and the
  numbers of an entry belong together up to their rounding.
* `MeasuredLevelsArePrinted`: what was measured is on the terminal also when a later level
  ends main with an error.
* `SkippedIsMarked`: an idle phase is skipped only after a timeout, and line, row and document
  agree on it; a phase that was run and counted no poll is no skipped one.
* `ExitCodeTellsAll`: code 0 is the exit of a run whose whole document was written and in which no
  reported trial timed out, and of no other. Code 1 is shared by timeouts and errors.

### Startup

`at` is the next step of main, in the order of the code: provider, validate, url, warn, output,
tag, banner, connect, specs, levels; each may end the program. A URL is the record of
its parts; what the `url` and `redis` crates accept, and the connection a URL stands for,
are external (`Opens`, `Connection`): `redis`, `valkey`, their TLS forms `rediss`, `valkeys`, and `unix`. Two
connections are opened: one by `fetch_tag`, if no tag was given, and main's.

* `RisksAnnounced`: no unverified connection and no FLUSHDB of db 0 before its warning, whichever
  of the options asked for it. The code looks for the scheme `rediss`, and for the db in the path: the
  property leaves out unverified `valkeys` connections (`UnverifiedIsAnnounced` does not, and is violated), and
  FLUSHDB over a `unix` URL, whose path is that of the socket. The reverse does not hold: a path of
  300 is no db, the `u8` parse makes it 0, and the warning for db 0 is printed before the client refuses it.
* `ConnectionAsAsked`: the precedence rules of `build_redis_url`, at the connection: the db of every TCP
  connection, and that `--insecure` has an effect or is refused. `--tls` has one unless the URL is a `valkey` or
  `unix` one.
* `NoPanic`: a TLS connection needs the process-wide provider, also when only `--url` asks for TLS.
* `AcceptedBeforeTouched`: what the other modules assume of their constants was checked
  before the first command that changes Redis; the keys are distinct and the default
  file stays in the working directory.
* `QuantilesInOrder`: of two accepted specs the smaller as a decimal is the smaller quantile:
  no power of ten wraps.

## Runs

| run | instance | shows |
|---|---|---|
| `DrainTrialSafety` | 2 workers, 2 keys, 3 jobs, 1 failed query, Redis may stop answering, fair | the safety properties of the trial, `TrialTerminates`; and `DrainCompletes` of the behaviours in which Redis answers and nothing fails (494,049 states) |
| `DrainTrialShared` | 2 workers, 1 key, 2 jobs and a stranger's malformed one, latencies in and above range, 1 failed query | `ResultAccounts` and the refinement |
| `SamplerWindows` | 3 jobs with latencies of 1 us, in range and above it, 2 in flight, 2 ticks, 1 error, a percentile listed twice | the series, the windows and the statistics |
| `IdlePollSafety` | 2 workers, 2 keys, interval 2, window 1, grace 1, 3 time units, 1 failed query, a stray job | rate, polls outside the window, join, report (6.2 million states) |
| `Producer` | 5 jobs, batches of 2, 3 keys, leftovers, 1 late LPOP, a stranger | clear, round robin and LLEN with others in between |
| `Benchmark` | levels 1 and 2, warmup 1, 2 jobs, 2 stale LPOPs, 1 lost job, two durations, polls or none, fair | the sequence of trials, terminal, document and exit code, and that the program ends |
| `Startup` | 7911 command lines and 2 version lines | warnings, connection, provider, acceptance, quantiles |

Five runs show a disagreement between a text and the code, each as a violation:

| run | text | code |
|---|---|---|
| `DrainTrialTimeoutRace` | "one or more trials timed out — results are incomplete" (`main.rs` 965) | the timeout can win although every job was completed |
| `DrainTrialLongWait` | "HDRHistogram per job" (README 33) | a wait above 60 s is in no latency statistic |
| `SamplerMidTick` | "one value per elapsed second" (README 408-409) | an abort inside a tick loses the latency value of that second |
| `IdlePollWindow` | LPOPs "issued during this window" (`main.rs` 121-124) | polls after the duration was read (672) are counted too |
| `StartupValkeys` | "Warn whenever the FINAL built URL will actually skip certificate verification" (`main.rs` 766) | the check (192) knows `rediss` only; `valkeys://...#insecure` is unverified without the warning |

More can be read off the models and has no run:

* `Poll` counts a poll before its query, so failed queries count, also on a broken connection,
  although `metrics.rs` 16-18 says that every increment in the idle phase is a miss.
* A percentile listed twice in `--latency-percentiles` gets two values per tick in one series
  (`Pushed`, `Times`), although README 408-409 has one value per second.
* The help of `--tls` says "Enable TLS (upgrades scheme to rediss://)" (`main.rs` 39). Line 143 upgrades
  `redis` only: with a `valkey` or `unix` URL the connection stays plain, without a word.
* `--db` on a `unix` URL replaces the path of the socket, and the db 0 check of `--allow-flushdb`
  reads that path.
* The help of `--url` says that it takes precedence over `--host` and `--port` (`main.rs` 20); in
  `BuiltUrl` they override it.

The 60 s bound is the one the histogram is asked for; the crate rounds the top
of its range up (to about 67 s), so `HistMax` stands for the range it really has.

### Bounds, and why they are enough

* Two workers: every race in the code is between two tasks at one shared object,
  or a task and the orchestrator. The bounds that depend on their number
  (`ShutdownOvershoot`, `CallsOutsideBounded`, `JoinWithinGrace`) are stated in terms of it. What matters most is proved for any number.
* Two keys make a scan have a first and a last key, three jobs make one key hold
  two, so a worker hits, misses and hits again. The producer has three keys and
  a batch size that divides neither the keys nor the jobs, and leftovers in two
  of the keys.
* `MaxErrors` bounds failed queries: one is enough to lose a job and let its worker go
  on; the properties compare with the number of failures, not with a constant.
* `MaxTicks` 2 is the least with a second window after a reset. `MaxTime` 3 is the window
  and twice the grace period; `MaxStale`, `MaxLost`, `MaxDequeues`, `MaxInFlight` bound counters.
* `Waits`, and the readings in `Clocks`, give one latency of each class the code
  distinguishes: below 1 us (clamped), within the range (two values of it in
  `Sampler`, whose `HistMax` is 4), above it.
* `MaxDigits` 3 and `U64Max` 20000 stand for 15 and 2^64-1: 10 to the cap fits, and there are longer
  specs whose power of ten would wrap, so the cap has something to prevent. The
  specs checked have up to five digits.
* `Durations` of `Benchmark` are 0.4 ms and 1.5004 s in units of 0.1 ms: one that rounds to 0 at the
  precision of the document, one whose rounding is visible. The idle window is at
  least a second, as `validate_cli` demands; `PollCounts` has 0, the value a skipped phase shows too.
* The command lines of `Startup` vary a few options at a time around the defaults:
  every combination of the options that meet in the URL, in the host, in the numbers, in
  the path and tag, and in two percentiles. Options of different groups meet
  nowhere in the code but in the order of the steps. What is proved holds for any.

`SYMMETRY` is used in `DrainTrialShared` and `IdlePollSafety`, over workers, and in `SamplerWindows`, over jobs that
no constant tells apart: runs without a liveness property.

### Fairness

`FairSpec` of `DrainTrial` assumes what the tokio runtime does: a task that can move is
polled again (weak fairness of each worker's step, of the orchestrator's steps
and of the collector's), timers fire (the grace period, and the timeout or the
done branch of the `select!`), and an aborted task is dropped where it waits.
Nothing is assumed of Redis or the network: a query may stay unanswered for
ever, and `TrialTerminates` holds nevertheless. `DrainCompletes` has its own hypotheses: Redis executes
what it was sent (`RedisAnswers`), nothing fails (`NoFailure`), the timeout does not pass first; then the
backlog is drained. No strong fairness is needed: no action of these formulas is
disabled again by others for ever.
`FairSpec` of `Benchmark` is weak fairness of main; that each trial returns is what
`TrialTerminates` shows.

## Proofs

Every theorem is `Spec => []P` for a property `P` of a run, or `Spec => P` for an action
property or the refinement, and rests on the assumptions its module's constants are
declared with, which TLC evaluates on every run.

### Arithmetic

Sums, decimals and powers of ten are recursive functions (`Horner`), not `RECURSIVE`
operators. The library's induction theorems take an operator as a parameter, which the
installed provers cannot instantiate; `ArithmeticTheorems` takes another way. The finite
subsets of `Nat` are well-founded under inclusion, so a non-empty set of numbers has a least
element (`Least`), and a set of numbers with 0 and the successor of each of its members has
them all (`Induct`); a proof by induction cites `Induct` for the set of the numbers for which
the claim holds. `HornerEvaluates` says that the recursive function exists and satisfies its
equation; the lemmas about sums (`SumNext`, `SumOfLess`, `SumIsLinear`, ...) and decimals
(`DecimalPadded`, `DecimalLess`, ...) follow from it.

### The drain trial

`DrainTrialProofs` and `DrainTrialRefines` prove for every value of the constants that satisfies
`WorkerAssumption`, `BacklogAssumption` and `TrialAssumption` (finite fleets and
payload sets, at least one key, each job in one place of the initial backlog,
as `BacklogIsReady` proves of `Producer`, the target the number of jobs):

| theorem | states |
|---|---|
| `Types` | `Spec => []TypeOK` |
| `PayloadsInOnePlace` | `Spec => []OnePlace` |
| `CompletionsAreCountedOnce` | `Spec => []CountedOnce` |
| `DoneSignalIsSound` | `Spec => []DoneMeansDrained` |
| `ResultIsFinal` | `Spec => NothingCountedAfterReturn` |
| `ShutdownStopsTheFleet` | `Spec => []ShutdownOvershoot` |
| `DrainFollowsPriority` | `Spec => PriorityOrder` |
| `TrialImplementsLedger` | `Spec => ImplementsLedger` |
| `LossesAreAccounted` | `Spec => []LossIsAccounted` |
| `ResultIsComplete` | `Spec => []ResultAccounts` |

The inductive invariant of the first four is `Inv`, with four parts:

* `Typed`: `TypeOK`, with what the program counter says of the reply: a worker that
  records or counts holds a payload. Without it `RecordJob` and `CountJob` would not
  preserve the types.
* `OnePlace`: the property is inductive with `Typed`. A pop is the only step that moves a
  payload out of a list, and it moves it to at most one worker (`Popped`); a dropped
  reply (`ReplyDropped`) and a counted job (`ReplyFinished`) only take one away.
* `CountedOnce`: inductive because a held payload is not finished yet (`OnePlace`), so
  each count adds a new element to `finished`.
* `DoneJustified`: `done`, or a worker about to signal it, implies that the target was
  reached. As long as no stranger has pushed, `finished` is then, by `OnePlace`, a
  subset of `Jobs` of the same cardinality, hence `Jobs`; and no list can hold a
  payload.

Each step of the specification is one of a few kinds - nothing moves, a reply is
dropped, a payload is pushed, popped or finished - and each kind has its lemma.

The others rest on `Typed` and one invariant each:

* `Settled` (the result is final): no task runs before it is spawned, the collector is
  done only when every task is over and the channel empty, and the orchestrator
  returns only after the collector. A task that is over never moves again
  (`GoneForever`), so nothing is left that could count.
* `BusyBound` (shutdown): once shutdown is sent, the jobs completed since and the workers
  between the loop top and `inc_completed` together never exceed the fleet. The
  property alone is not inductive: it says nothing of the workers still to count.
* `Ordered` (priority): while no query has failed and nobody has pushed, the only
  request on a worker's connection is that of its scan, and a worker asking for a
  key has seen every key before it empty; lists do not grow, so they still are.
* `RefInv` (refinement): `Inv`, `Settled` and `ReplyInUse`, that a worker waiting for a request has no
  older reply in hand (so taking a payload drops none), and that the timeout was taken
  in the `select!`. Every step is then a step of the ledger or a stutter: an LPOP is
  `Take`, or `Lose` when nobody waits for it any more; a failed query or an abort is
  `Lose` or nothing; `Return` is `Report` because by `Settled` no worker holds a payload.
* `LossesPaid` (what is missing): the payloads that are gone or were rejected as malformed, and the LPOPs
  that Redis may still execute for nobody (`Stale`), are together at most the errors and the aborts. The
  property alone is not inductive: an LPOP executed late makes a payload disappear in a
  step in which nothing fails, and it is the failure before it that paid.
* `EntriesMatch` and `ResultCopied` (the result): a payload that `record_job` is through with has
  exactly one entry, in the channel, the histogram or among the refused, unless it is malformed;
  at the return, by `Settled`, the channel is empty and nobody is in between.

### Main

`BenchmarkProofs` proves for any list of levels and numbers of jobs that satisfy
`BenchmarkAssumption` and `ReportAssumption`:

| theorem | states |
|---|---|
| `Types` | `Spec => []TypeOK` |
| `TrialMeasuresOwnBacklog` | `Spec => []TrialFinishesOwnJobs` |
| `MeasuredIdleIsClean` | `Spec => []IdleOnAccountedQueues` |
| `ShortfallIsExplained` | `Spec => []TotalsExplained` |
| `DocumentPairsLevels` | `Spec => []ReportAligned` |
| `ExitCodeIsRight` | `Spec => []ExitCodeTellsAll` |
| `NothingMeasuredIsSilent` | `Spec => []MeasuredLevelsArePrinted` |
| `SkipIsMarked` | `Spec => []SkippedIsMarked` |
| `DocumentIsConsistent` | `Spec => []DocumentAgrees` |

* `Typed` adds to `TypeOK` where `level` may be at each step, and that no more LPOPs are pending than
  were ever left behind; without that, `LeavesBehind` would not keep `stale` within its bound.
* `OwnBacklog` is the heart: during a trial its jobs are exactly those finished, queued or
  missing. A verdict "drained" then means that all of them are finished, by cardinality, so the
  queues are empty: which is why a backlog after the trial can only be that of a
  timeout, and why `SkippedIsMarked` holds.
* `MissingExplained` counts every job that went missing against a failed query or a late LPOP. It is
  kept outside the trials too, since a late LPOP may be executed at any step.
* `LackAccounted` says the same of the results: when the LLEN check lets an idle phase start, nothing is queued,
  so by `OwnBacklog` all that the drain result lacks is missing; later steps only raise what accounts for it.
* `Verdicts` says of each result, also of the one main has not pushed yet, that its total fits its
  verdict, and that `any_timeout` has seen it.
* `Lined` and `Written` tie the lines, the rows, the document and the file to the two lists, which
  no step touches once they are reported. `DocumentIsConsistent` bounds what each of three
  roundings adds to a product of two of an entry's numbers, for numbers of any size.

### Startup

`StartupProofs` proves for any set of command lines that satisfies `StartupAssumption` (the
types clap parses to; a percentile is a sequence of characters) and `PercentileAssumption`:

| theorem | states |
|---|---|
| `RisksAreAnnounced` | `Spec => []RisksAnnounced` |
| `ConnectionIsAsAsked` | `Spec => []ConnectionAsAsked` |
| `NeverPanics` | `Spec => []NoPanic` |
| `ArgumentsAreAccepted` | `Spec => []AcceptedBeforeTouched` |
| `QuantilesAreInOrder` | `Spec => []QuantilesInOrder` |

The invariant `Checked` lists what each step leaves behind for the later ones, and what an
opened connection stands for: that URL, accepted, with its warnings out, also when
the program failed after opening it. For the quantiles, the digits of two specs are padded
with zeros to one length; the first digit in which they differ decides (`DecimalLess`), and
since by the cap no power of ten wraps, padding multiplies numerator and denominator alike.

### Sampler

`SamplerProofs` proves for any jobs, clocks, ticks, percentiles and range of the histogram that satisfy
`SamplerAssumption` (the percentiles are accepted ones, as `Startup` checks):

| theorem | states |
|---|---|
| `WindowsPartition` | `Spec => []WindowsPartitionHistogram` |
| `LatenciesAreCollected` | `Spec => []EveryLatencyCollected` |
| `SeriesSumToCounters` | `Spec => []SeriesAddUp` |
| `SeriesStayAligned` | `Spec => []TicksAligned` |
| `StatisticsAlwaysAgree` | `Spec => []StatisticsAgree` |

* `EndsInOrder`, `Received`: the collector returns after the fleet is gone and with an empty channel; a
  latency sent and not yet received is in the channel, once. With them the
  partition is inductive.
* `SentThenCounted`, `TotalsCopied`: the counter and the jobs in flight make up the latencies sent, so the histogram and
  the refused latencies make up the total of the result.
* `InStep`: there is a number of ticks all series are through with, and the place of the monitor says which
  series have the tick in progress too. `TicksAligned` alone does not say why a value
  pushed next goes to the place of its tick.
* `InTurn`: a request stands for the tick in progress, its answer is the window given out last, and
  between two requests every tick has its window; hence `SeriesFiled`, that the value
  filed under a tick is that of the window with its number, and `ResultFiled`, the same of the result.
* The lemmas about histograms say when the value of a percentile, of the maximum and of the mean is
  at most `x` (`AtMost`), and that of two disjoint windows that agree on this the union does
  too. So the value over both lies between the two values, and by induction that over all windows between
  the values of two of them; `WindowsPartitionHistogram` makes the windows disjoint.

### Idle-poll trial

`IdlePollProofs` proves for any fleet, queues, intervals and durations that satisfy `WorkerAssumption` and
`IdleAssumption`:

| theorem | states |
|---|---|
| `JoinIsBounded` | `Spec => []JoinWithinGrace` |
| `ReportCannotChange` | `Spec => []ReportIsFinal` |
| `CallsOutsideAreFew` | `Spec => []CallsOutsideBounded` |
| `PollRateHolds` | `Spec => []PollRateBounded` |

* `GraceKept`: all supervisors share one deadline, and time does not pass it while one still waits.
* `Final`: when no worker was aborted, none is left at the return that could count.
* `RateBound`: the polls so far and the credit, the polls the fleet may still issue now without another hit, are
  bounded; a worker that sleeps owes one scan for every interval that began since its
  sleep was over. The property alone says nothing of a worker that slept too long and
  scans twice in quick succession, which the code allows. It is stated for the time
  since any moment, so it serves from the spawn (`PollRateBounded`, and the polls before `start`) and from the
  reading of `elapsed` (`RateFromStop`).
* `LateBound`: after the signal the polls, and the keys workers may still ask for without passing the top of
  their loop, stay within what `RateFromStop` allowed when it was sent (`Cap`).

### Producer

`ProducerProofs` proves for any number of keys, jobs and commands per batch that satisfies
`ProducerAssumption`:

| theorem | states |
|---|---|
| `TypesHold` | `Spec => []TypeOK` |
| `QueuesAreClean` | `Spec => []NothingLeftOver` |
| `FillIsRoundRobin` | `Spec => []FilledRoundRobin` |
| `BacklogIsReady` | after an undisturbed fill each of the `NumJobs` jobs is in exactly one place of one key (`IsBacklog`) |
| `TotalIsTrustworthy` | `Spec => []ZeroMeansEmpty` |

* `Typed` says of each phase what its pipeline still holds, and that `idx` and `remaining` always make up the
  jobs asked for.
* `Owned`: a key with a payload of a former trial is one whose DEL, or the FLUSHDB, is still in the pipeline; the
  others hold jobs already pushed and strangers' payloads only, each once.
* `Listed`: a key is in the set of queues, or its SADD is in the pipeline. `FewMissing`: an LPOP takes the
  first element of one list, which by `Owned` is in no other place, so one job is missing more.
* `Shares`: undisturbed, the keys hold the round robin of the jobs before `At`, the next to be pushed; that
  its key is the one the reference puts it in is division with remainder (`Share`).
* `BacklogIsReady` follows from `FillIsRoundRobin`: the round robin of n + 1 jobs is that of n with one more in a new
  place. It is what `BacklogAssumption` asks of the backlog a drain trial starts with.
* `CountedSoFar`: without strangers the sum of the replies received is at least what their keys still hold, and at
  most that and the LPOPs executed; a total of 0 then means that all are empty.

### Only model-checked

The three liveness properties, `TrialTerminates`, `DrainCompletes` and `BenchmarkEnds`, are out of the prover's
reach (fairness and ENABLED). They are checked on the instances above only.

## Not modelled

* Layout: column widths, thousands separators, the units of latencies, colours, the syntax of
  JSON, the wording of messages and errors.
* clap's own parsing (ranges, environment variables, defaults) is external: a command
  line is what it yields.
* NaN, infinity and the rounding of floating point inside a rate: rates are fractions.
  The two guards against a division by zero are modelled.
* Tokio, redis-rs, hdrhistogram, rustls, the `url` crate and Redis themselves: modelled as
  the code uses them, and marked external in `PROJECT.json`.
* A `println!` on a closed terminal, which panics; the parameters of a `unix` URL's query (its db).
* Fields of a document entry that are copied and that no property compares: errors, the
  latency statistics and the series (`Sampler` has them), and the configuration.
* The min/max/backoff polling the worker's comment names is not implemented in the
  code and stays out.
* Tests, packaging and CI.

## Plan

Built in this order: worker and trial, their proofs, sampler, idle trial, producer,
main; then percentiles, report, startup, and the proofs about main and startup; then
those about the sampler, the idle trial and the producer.
Left, in order of weight:

1. `Benchmark` composed with `DrainLedger`: each trial an instance of the ledger, instead of
   restating it.
2. The idle-poll trial as an implementation of what `Benchmark` assumes of a phase.
