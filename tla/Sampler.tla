------------------------------- MODULE Sampler -------------------------------
(***************************************************************************)
(* The per-second samples of a drain trial (src/main.rs): the monitor task *)
(* reads the counters once per tick and asks the collector for the window  *)
(* of latencies received since its last request; the collector serves the  *)
(* latency channel and these requests from one select!.                    *)
(*                                                                         *)
(* The worker fleet is reduced to what this subsystem sees of it: a        *)
(* latency is sent before its job is counted (worker.rs: record_job, then  *)
(* inc_completed).  A histogram is the set of the jobs recorded in it; val *)
(* gives their latencies.                                                  *)
(***************************************************************************)
EXTENDS Percentiles

CONSTANTS
  Jobs,         \* the jobs the fleet dequeues
  MaxInFlight,  \* BOUND: jobs recorded and not yet counted (one per worker)
  MaxErrors,    \* BOUND: failed queries
  MaxTicks,     \* BOUND: ticks of the monitor
  Specs,        \* the --latency-percentiles, in order
  Clocks,       \* readings of the system clock, in ns since the epoch
  HistMax,      \* the largest latency (us) the histogram takes
  Nil,          \* no answer yet
  Dropped       \* the oneshot sender was dropped without an answer

(* spec.name() is the string given.                                         *)
Names == {Specs[i] : i \in 1..Len(Specs)}

ASSUME SamplerAssumption ==
  /\ IsFiniteSet(Jobs)
  /\ MaxInFlight \in Nat /\ MaxErrors \in Nat /\ MaxTicks \in Nat
  /\ Specs \in Seq(Names)
  /\ \A n \in Names : Accepted(n) /\ (n.kind = "p" => n.chars \in Seq(0..Letter))
  /\ Clocks \subseteq Int /\ HistMax \in Nat \ {0}
  /\ Nil # Dropped /\ \A window \in SUBSET Jobs : window \notin {Nil, Dropped}

VARIABLES
  recorded,   \* jobs whose latency was sent
  val,        \* that latency, in us
  inFlight,   \* those of them not yet counted
  completed,  \* Metrics.completed
  errors,     \* Metrics.errors
  fleetGone,  \* every latency_tx is dropped
  chan,       \* the latency channel
  hist,       \* collector: the trial-long histogram
  perSec,     \* collector: the histogram of the current window
  handed,     \* history: the windows the collector gave out
  cdone,      \* the collector returned
  request,    \* a snapshot request is in snapshot_tx's channel
  answer,     \* what resp_rx yields
  mpc,        \* where the monitor is
  prevC, prevE,      \* its prev_completed and prev_errors
  tput, errs, lat,   \* throughput_samples, errors_samples, latency_sec_samples
  phase,      \* where run_drain_trial is
  result      \* the series of the TrialResult, Nil before

fleetVars     == <<recorded, val, inFlight, completed, errors, fleetGone>>
collectorVars == <<hist, perSec, handed, cdone>>
monitorVars   == <<mpc, prevC, prevE, tput, errs, lat>>
mainVars      == <<phase, result>>
vars == <<fleetVars, chan, collectorVars, request, answer, monitorVars, mainVars>>

Init ==
  /\ recorded = {} /\ val = [j \in Jobs |-> 0] /\ inFlight = {} /\ completed = 0 /\ errors = 0 /\ fleetGone = FALSE
  /\ chan = <<>>
  /\ hist = {} /\ perSec = {} /\ handed = <<>> /\ cdone = FALSE
  /\ request = FALSE /\ answer = Nil
  /\ mpc = "sleep" /\ prevC = 0 /\ prevE = 0
  /\ tput = <<>> /\ errs = <<>> /\ lat = [n \in Names |-> <<>>]
  /\ phase = "running" /\ result = Nil

-----------------------------------------------------------------------------
(* The fleet.                                                               *)

(* ResqueJob::new: a clock before the epoch reads as 0.                      *)
Stamp(clock) == IF clock < 0 THEN 0 ELSE clock

(* record_job: at least 1, also when the clock went backwards.              *)
LatencyUs(enqueued, now) ==
  Max({1, IF now >= enqueued THEN (now - enqueued) \div 1000 ELSE 1})

SendLatency(j) ==
  /\ ~fleetGone /\ j \notin recorded
  /\ Cardinality(inFlight) < MaxInFlight
  /\ \E enqueued, now \in Clocks : val' = [val EXCEPT ![j] = LatencyUs(Stamp(enqueued), Stamp(now))]
  /\ recorded' = recorded \cup {j} /\ inFlight' = inFlight \cup {j}
  /\ chan' = Append(chan, j)
  /\ UNCHANGED <<completed, errors, fleetGone, collectorVars, request, answer, monitorVars, mainVars>>

CountCompleted(j) ==
  /\ j \in inFlight
  /\ inFlight' = inFlight \ {j}
  /\ completed' = completed + 1
  /\ UNCHANGED <<recorded, val, errors, fleetGone, chan, collectorVars, request, answer, monitorVars, mainVars>>

CountError ==
  /\ ~fleetGone /\ errors < MaxErrors
  /\ errors' = errors + 1
  /\ UNCHANGED <<recorded, val, inFlight, completed, fleetGone, chan, collectorVars, request, answer,
                 monitorVars, mainVars>>

(* Shutdown has been sent and the last worker is gone.                      *)
FleetExits ==
  /\ phase = "joining" /\ ~fleetGone
  /\ inFlight = {}
  /\ fleetGone' = TRUE
  /\ UNCHANGED <<recorded, val, inFlight, completed, errors, chan, collectorVars, request, answer,
                 monitorVars, mainVars>>

-----------------------------------------------------------------------------
(* The collector.                                                           *)

(* A latency above the range is refused by both histograms, and the refusal *)
(* ignored.                                                                 *)
InRange(j) == val[j] <= HistMax

CollectorRecv ==
  /\ ~cdone /\ chan # <<>>
  /\ hist' = hist \cup {j \in {Head(chan)} : InRange(j)}
  /\ perSec' = perSec \cup {j \in {Head(chan)} : InRange(j)}
  /\ chan' = Tail(chan)
  /\ UNCHANGED <<fleetVars, handed, cdone, request, answer, monitorVars, mainVars>>

CollectorSnapshotKeepsWindow ==
  /\ ~cdone /\ request
  /\ request' = FALSE /\ answer' = perSec
  /\ handed' = Append(handed, perSec)
  /\ UNCHANGED <<fleetVars, chan, hist, perSec, cdone, monitorVars, mainVars>>

CollectorSnapshotResetsFirst ==
  /\ ~cdone /\ request
  /\ request' = FALSE /\ answer' = {}
  /\ handed' = Append(handed, {})
  /\ perSec' = {}
  /\ UNCHANGED <<fleetVars, chan, hist, cdone, monitorVars, mainVars>>

(* select! may answer a request while latencies still wait in the channel.  *)
(* The window is reset also when nobody receives the answer.                *)
CollectorSnapshot ==
  /\ ~cdone /\ request
  /\ request' = FALSE /\ answer' = perSec
  /\ handed' = Append(handed, perSec)
  /\ perSec' = {}
  /\ UNCHANGED <<fleetVars, chan, hist, cdone, monitorVars, mainVars>>

CollectorEndWithMonitor ==
  /\ ~cdone /\ mpc = "cancelled"
  /\ cdone' = TRUE
  /\ UNCHANGED <<fleetVars, chan, hist, perSec, handed, request, answer, monitorVars, mainVars>>

(* recv() yields None; a request not served by then is dropped.              *)
CollectorEnd ==
  /\ ~cdone /\ chan = <<>> /\ fleetGone
  /\ cdone' = TRUE
  /\ request' = FALSE /\ answer' = IF request THEN Dropped ELSE answer
  /\ UNCHANGED <<fleetVars, chan, hist, perSec, handed, monitorVars, mainVars>>

-----------------------------------------------------------------------------
(* The monitor.                                                             *)

(* A task that was aborted is not woken from its sleep any more.            *)
Tick ==
  /\ phase = "running"
  /\ mpc = "sleep" /\ Len(tput) < MaxTicks
  /\ mpc' = "throughput"
  /\ UNCHANGED <<fleetVars, chan, collectorVars, request, answer, prevC, prevE, tput, errs, lat, mainVars>>

(* get_completed is read once: the delta and prev_completed agree.          *)
SampleThroughput ==
  /\ mpc = "throughput"
  /\ tput' = Append(tput, completed - prevC)
  /\ prevC' = completed
  /\ mpc' = "errors"
  /\ UNCHANGED <<fleetVars, chan, collectorVars, request, answer, prevE, errs, lat, mainVars>>

SampleErrorsMixesCounters ==
  /\ mpc = "errors"
  /\ errs' = Append(errs, errors - prevE)
  /\ prevE' = prevC
  /\ mpc' = "ask"
  /\ UNCHANGED <<fleetVars, chan, collectorVars, request, answer, prevC, tput, lat, mainVars>>

SampleErrors ==
  /\ mpc = "errors"
  /\ errs' = Append(errs, errors - prevE)
  /\ prevE' = errors
  /\ mpc' = "ask"
  /\ UNCHANGED <<fleetVars, chan, collectorVars, request, answer, prevC, tput, lat, mainVars>>

(* snapshot_tx.send fails when the collector is gone.                       *)
AskForWindow ==
  /\ mpc = "ask"
  /\ \/ /\ cdone /\ mpc' = "sleep"
        /\ UNCHANGED <<request, answer>>
     \/ ~cdone /\ mpc' = "wait" /\ request' = TRUE /\ answer' = Nil
  /\ UNCHANGED <<fleetVars, chan, collectorVars, prevC, prevE, tput, errs, lat, mainVars>>

(* How often the list of specs names n.                                     *)
Times(n) == Cardinality({i \in 1..Len(Specs) : Specs[i] = n})

(* One value per entry of the spec list is pushed, to the entry's name.     *)
Pushed(n, tick, window) ==
  lat[n] \o [i \in 1..Times(n) |-> [tick |-> tick, value |-> SpecValue(n, window, val)]]

PushWindowUnlessEmpty ==
  /\ mpc = "wait" /\ answer \notin {Nil, Dropped}
  /\ lat' = IF answer = {} THEN lat ELSE [n \in Names |-> Pushed(n, Len(tput), answer)]
  /\ mpc' = "sleep"
  /\ UNCHANGED <<fleetVars, chan, collectorVars, request, answer, prevC, prevE, tput, errs, mainVars>>

PushWindow ==
  /\ mpc = "wait" /\ answer \notin {Nil, Dropped}
  /\ lat' = [n \in Names |-> Pushed(n, Len(tput), answer)]
  /\ mpc' = "sleep"
  /\ UNCHANGED <<fleetVars, chan, collectorVars, request, answer, prevC, prevE, tput, errs, mainVars>>

(* resp_rx yields Err: nothing is pushed for this tick.                     *)
NoWindow ==
  /\ mpc = "wait" /\ answer = Dropped
  /\ mpc' = "sleep"
  /\ UNCHANGED <<fleetVars, chan, collectorVars, request, answer, prevC, prevE, tput, errs, lat, mainVars>>

(* The aborted task ends at its next await.                                 *)
MonitorCancelled ==
  /\ phase # "running" /\ mpc \in {"sleep", "wait"}
  /\ mpc' = "cancelled"
  /\ UNCHANGED <<fleetVars, chan, collectorVars, request, answer, prevC, prevE, tput, errs, lat, mainVars>>

-----------------------------------------------------------------------------
(* run_drain_trial after its select!: abort the monitor (nobody awaits it), *)
(* shut the fleet down, await the collector, copy the series.               *)

AbortMonitor ==
  /\ phase = "running"
  /\ phase' = "aborted"
  /\ UNCHANGED <<fleetVars, chan, collectorVars, request, answer, monitorVars, result>>

SendShutdown ==
  /\ phase = "aborted"
  /\ phase' = "joining"
  /\ UNCHANGED <<fleetVars, chan, collectorVars, request, answer, monitorVars, result>>

Return ==
  /\ phase = "joining" /\ cdone
  /\ phase' = "returned"
  /\ result' = [throughput |-> tput, errors |-> errs, latency |-> lat,
                total |-> completed, stats |-> Stats(hist, val)]
  /\ UNCHANGED <<fleetVars, chan, collectorVars, request, answer, monitorVars>>

(* Nothing is left to do once the trial returned and the monitor is gone.    *)
Terminated == phase = "returned" /\ mpc = "cancelled" /\ UNCHANGED vars

Next ==
  \/ \E j \in Jobs : SendLatency(j) \/ CountCompleted(j)
  \/ CountError \/ FleetExits
  \/ CollectorRecv \/ CollectorSnapshot \/ CollectorEnd
  \/ Tick \/ SampleThroughput \/ SampleErrors \/ AskForWindow
  \/ PushWindow \/ NoWindow \/ MonitorCancelled
  \/ AbortMonitor \/ SendShutdown \/ Return \/ Terminated

Spec == Init /\ [][Next]_vars

-----------------------------------------------------------------------------
SumOf(series) == SumTo(series, Len(series))

Windows == {handed[i] : i \in 1..Len(handed)}

(* Every latency the collector received is in exactly one window: one it     *)
(* gave out, or the current one (main.rs 453-456, clone and reset).         *)
WindowsPartitionHistogram ==
  /\ hist = perSec \cup UNION Windows
  /\ \A i, j \in 1..Len(handed) : i # j => handed[i] \cap handed[j] = {}
  /\ \A i \in 1..Len(handed) : handed[i] \cap perSec = {}

(* The throughput and error series add up to what the counters showed at     *)
(* the last tick, never to more than the totals of the result; and no delta  *)
(* is negative (main.rs 500 and 507 subtract unsigned).                     *)
SeriesAddUp ==
  /\ tput \in Seq(Nat) /\ errs \in Seq(Nat)
  /\ SumOf(tput) = prevC /\ prevC <= completed
  /\ SumOf(errs) = prevE /\ prevE <= errors
  /\ phase = "returned" => SumOf(result.throughput) <= result.total

(* "This keeps latency_per_sec[i] aligned with the throughput/error deltas   *)
(* measured on the same tick" (main.rs 431-432): the i-th value of each     *)
(* percentile that is listed once belongs to the i-th tick, and its series   *)
(* lags by at most the tick in progress.  Of a percentile that is listed     *)
(* twice this is false: its series gets both values of a tick (517-521).     *)
TicksAligned ==
  /\ Len(errs) <= Len(tput)
  /\ \A n \in Names :
       Times(n) = 1 => /\ \A i \in 1..Len(lat[n]) : lat[n][i].tick = i
                       /\ Len(lat[n]) <= Len(errs) /\ Len(tput) - 1 <= Len(lat[n])

(* The histogram of the result holds every latency the fleet sent that is in  *)
(* its range, although the monitor may be cancelled at any await (main.rs    *)
(* 450 and 559-567).                                                        *)
EveryLatencyCollected ==
  phase = "returned" =>
    /\ hist = {j \in recorded : InRange(j)}
    /\ result.stats.total_count + Cardinality({j \in recorded : ~InRange(j)}) = result.total

(* The windows that are in no series: that of the time since the last tick,  *)
(* and one that was given out and, with the abort, not pushed before the      *)
(* series were copied.                                                      *)
Unsampled(n) ==
  {perSec} \cup {handed[i] : i \in {k \in 1..Len(handed) : Len(result.latency[n]) < k * Times(n)}}

(* The statistics of the result agree with each other, no percentile being    *)
(* below a lower one or above the maximum (metrics.rs 138-155), and with the *)
(* series: each lies between the least and the largest value of its series, *)
(* that is over the non-empty windows, if the unsampled ones are added       *)
(* (main.rs 447-456, 517-521).                                              *)
StatisticsAgree ==
  phase = "returned" =>
    /\ LET q == result.stats.quantile
       IN  /\ q.p50 <= q.p75 /\ q.p75 <= q.p90 /\ q.p90 <= q.p95 /\ q.p95 <= q.p99
           /\ q.p99 <= q.p99_9 /\ q.p99_9 <= q.p99_99 /\ q.p99_99 <= result.stats.max
           /\ result.stats.sum <= result.stats.max * result.stats.total_count
    /\ hist # {} =>
         \A n \in Names :
           LET Points == ({SpecValue(n, w, val) : w \in Unsampled(n)}
                          \cup {result.latency[n][i].value : i \in 1..Len(result.latency[n])}) \ {0}
           IN  \E lo, hi \in Points : SpecValue(n, hist, val) \in lo..hi

(* "latency_per_sec_us contains one value per elapsed second of the trial"   *)
(* (README.md 408-409), as throughput_per_sec does.                         *)
OneValuePerTick ==
  phase = "returned" =>
    \A n \in Names : Len(result.latency[n]) = Len(result.throughput)
=============================================================================
