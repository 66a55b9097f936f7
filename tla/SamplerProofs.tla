---------------------------- MODULE SamplerProofs ----------------------------
(***************************************************************************)
(* Theorems about Sampler, for any jobs, clocks, percentiles and number of *)
(* ticks, and lemmas about the histograms of Percentiles.                  *)
(***************************************************************************)
EXTENDS Sampler, SequenceTheorems, ArithmeticTheorems

-----------------------------------------------------------------------------
(* Types, and the order of the ends of the tasks.                           *)

Typed ==
  /\ recorded \subseteq Jobs /\ inFlight \subseteq recorded
  /\ val = [j \in Jobs |-> val[j]]
  /\ completed \in Nat /\ errors \in Nat
  /\ chan \in Seq(Jobs)
  /\ hist \subseteq Jobs /\ perSec \subseteq Jobs /\ handed \in Seq(SUBSET Jobs)
  /\ answer \in (SUBSET Jobs) \cup {Nil, Dropped}
  /\ mpc \in {"sleep", "throughput", "errors", "ask", "wait", "cancelled"}
  /\ phase \in {"running", "aborted", "joining", "returned"}

(* The fleet is gone before the collector returns, and that before the trial  *)
(* does; a request is dropped by a collector that returned only.             *)
EndsInOrder ==
  /\ fleetGone => inFlight = {} /\ phase \in {"joining", "returned"}
  /\ cdone => fleetGone /\ chan = <<>>
  /\ phase = "returned" => cdone
  /\ answer = Dropped => cdone

LEMMA AnswersDiffer ==
  Nil # Dropped /\ \A window \in SUBSET Jobs : window # Nil /\ window # Dropped
PROOF
  <1> DEFINE W == SUBSET Jobs
  <1>1. Nil # Dropped /\ \A window \in W : window \notin {Nil, Dropped}
    BY SamplerAssumption
  <1> HIDE DEF W
  <1>2. \A window \in W : window # Nil /\ window # Dropped
    BY <1>1
  <1> QED BY <1>1, <1>2 DEF W

LEMMA TypedNext == Typed /\ [Next]_vars => Typed'
PROOF
  <1> SUFFICES ASSUME Typed, [Next]_vars PROVE Typed'
    OBVIOUS
  <1> USE DEF Typed, fleetVars, collectorVars, monitorVars, mainVars
  <1>1. ASSUME NEW j \in Jobs, SendLatency(j) PROVE Typed'
    <2>1. PICK l : val' = [val EXCEPT ![j] = l]
      BY <1>1 DEF SendLatency
    <2>2. val' = [k \in Jobs |-> val'[k]]
      BY <2>1
    <2> QED BY <1>1, <2>2 DEF SendLatency
  <1>2. ASSUME NEW j \in Jobs, CountCompleted(j) PROVE Typed'
    BY <1>2 DEF CountCompleted
  <1>3. CASE CountError
    BY <1>3 DEF CountError
  <1>4. CASE FleetExits \/ Tick \/ SampleThroughput \/ SampleErrors \/ NoWindow \/ MonitorCancelled
    BY <1>4 DEF FleetExits, Tick, SampleThroughput, SampleErrors, NoWindow, MonitorCancelled
  <1>5. CASE CollectorRecv
    BY <1>5 DEF CollectorRecv
  <1>6. CASE CollectorSnapshot
    BY <1>6 DEF CollectorSnapshot
  <1>7. CASE CollectorEnd
    <2>1. answer' \in (SUBSET Jobs) \cup {Nil, Dropped}
      BY <1>7 DEF CollectorEnd
    <2> QED BY <1>7, <2>1 DEF CollectorEnd
  <1>8. CASE AskForWindow \/ PushWindow
    <2>1. UNCHANGED <<fleetVars, chan, collectorVars, phase>> /\ mpc' \in {"sleep", "wait"}
          /\ answer' \in {answer, Nil}
      BY <1>8 DEF AskForWindow, PushWindow
    <2> QED BY <2>1
  <1>9. CASE AbortMonitor \/ SendShutdown \/ Return
    BY <1>9 DEF AbortMonitor, SendShutdown, Return
  <1>10. CASE UNCHANGED vars
    BY <1>10 DEF vars
  <1> QED BY <1>1, <1>2, <1>3, <1>4, <1>5, <1>6, <1>7, <1>8, <1>9, <1>10 DEF Next, Terminated

LEMMA EndsInOrderNext == Typed /\ EndsInOrder /\ [Next]_vars => EndsInOrder'
PROOF
  <1> SUFFICES ASSUME Typed, EndsInOrder, [Next]_vars PROVE EndsInOrder'
    OBVIOUS
  <1> USE DEF Typed, EndsInOrder, fleetVars, collectorVars, monitorVars, mainVars
  <1>1. ASSUME NEW j \in Jobs, SendLatency(j) PROVE EndsInOrder'
    BY <1>1 DEF SendLatency
  <1>2. ASSUME NEW j \in Jobs, CountCompleted(j) PROVE EndsInOrder'
    BY <1>2 DEF CountCompleted
  <1>3. CASE CountError \/ FleetExits \/ Tick \/ SampleThroughput \/ SampleErrors \/ NoWindow
             \/ MonitorCancelled \/ PushWindow
    BY <1>3 DEF CountError, FleetExits, Tick, SampleThroughput, SampleErrors, NoWindow,
                MonitorCancelled, PushWindow
  <1>4. CASE CollectorRecv
    BY <1>4 DEF CollectorRecv
  <1>5. CASE CollectorSnapshot \/ AskForWindow
    <2>1. UNCHANGED <<fleetVars, chan, cdone, phase>> /\ (answer' = perSec \/ answer' \in {answer, Nil})
      BY <1>5 DEF CollectorSnapshot, AskForWindow
    <2>2. answer' = Dropped => answer = Dropped
      BY <2>1, AnswersDiffer
    <2> QED BY <2>1, <2>2
  <1>6. CASE CollectorEnd
    BY <1>6 DEF CollectorEnd
  <1>7. CASE AbortMonitor \/ SendShutdown \/ Return
    BY <1>7 DEF AbortMonitor, SendShutdown, Return
  <1>8. CASE UNCHANGED vars
    BY <1>8 DEF vars
  <1> QED BY <1>1, <1>2, <1>3, <1>4, <1>5, <1>6, <1>7, <1>8 DEF Next, Terminated

LEMMA OrderHolds == Spec => [](Typed /\ EndsInOrder)
PROOF
  <1>1. Init => Typed /\ EndsInOrder
    BY AnswersDiffer DEF Init, Typed, EndsInOrder
  <1> QED BY <1>1, TypedNext, EndsInOrderNext, PTL DEF Spec

-----------------------------------------------------------------------------
(* The way of a latency: sent, received, handed out.                         *)

Received ==
  /\ \A i, k \in 1..Len(chan) : chan[i] = chan[k] => i = k
  /\ \A i \in 1..Len(chan) : chan[i] \in recorded \ hist
  /\ hist \subseteq {j \in recorded : InRange(j)}
  /\ \A j \in recorded : InRange(j) => j \in hist \/ \E i \in 1..Len(chan) : chan[i] = j

LEMMA ReceivedNext == Typed /\ EndsInOrder /\ Received /\ [Next]_vars => Received'
PROOF
  <1> SUFFICES ASSUME Typed, EndsInOrder, Received, [Next]_vars PROVE Received'
    OBVIOUS
  <1>1. ASSUME NEW j \in Jobs, SendLatency(j) PROVE Received'
    <2>1. /\ j \notin recorded /\ recorded' = recorded \cup {j} /\ hist' = hist
          /\ chan' = Append(chan, j)
          /\ \E l : val' = [val EXCEPT ![j] = l]
      BY <1>1 DEF SendLatency, collectorVars
    <2>2. /\ chan \in Seq(Jobs) /\ Len(chan') = Len(chan) + 1 /\ chan'[Len(chan) + 1] = j
          /\ \A i \in 1..Len(chan) : chan'[i] = chan[i]
          /\ 1..Len(chan') = 1..Len(chan) \cup {Len(chan) + 1}
      BY <2>1 DEF Typed
    <2>3. \A k \in Jobs : k # j => (InRange(k)' <=> InRange(k))
      BY <2>1 DEF Typed, InRange
    <2>4. j \notin hist
      BY <2>1 DEF Received
    <2>5. \A i, k \in 1..Len(chan') : chan'[i] = chan'[k] => i = k
      BY <2>1, <2>2 DEF Received
    <2>6. \A i \in 1..Len(chan') : chan'[i] \in recorded' \ hist'
      BY <2>1, <2>2, <2>4 DEF Received
    <2>7. hist' \subseteq {k \in recorded' : InRange(k)'}
      BY <2>1, <2>3 DEF Received, Typed
    <2>8. \A k \in recorded' : InRange(k)' => k \in hist' \/ \E i \in 1..Len(chan') : chan'[i] = k
      BY <2>1, <2>2, <2>3 DEF Received, Typed
    <2> QED BY <2>5, <2>6, <2>7, <2>8 DEF Received, InRange
  <1>2. CASE CollectorRecv
    <2> DEFINE h == Head(chan)
    <2>1. /\ chan # <<>> /\ chan' = Tail(chan) /\ hist' = hist \cup {k \in {h} : InRange(k)}
          /\ recorded' = recorded /\ val' = val
      BY <1>2 DEF CollectorRecv, fleetVars
    <2>2. /\ chan \in Seq(Jobs) /\ Len(chan) \in Nat \ {0} /\ h = chan[1] /\ Len(chan') = Len(chan) - 1
          /\ \A i \in 1..Len(chan') : chan'[i] = chan[i + 1] /\ i + 1 \in 1..Len(chan)
      BY <2>1 DEF Typed
    <2>3. h \in recorded
      BY <2>2 DEF Received
    <2> HIDE DEF h
    <2>4. \A i, k \in 1..Len(chan') : chan'[i] = chan'[k] => i = k
      BY <2>2 DEF Received
    <2>5. \A i \in 1..Len(chan') : chan'[i] \in recorded' \ hist'
      <3>1. \A i \in 1..Len(chan') : chan'[i] # h /\ chan'[i] \in recorded \ hist
        BY <2>2 DEF Received
      <3> QED BY <2>1, <3>1
    <2>6. hist' \subseteq {k \in recorded : InRange(k)}
      BY <2>1, <2>3 DEF Received
    <2>7. ASSUME NEW k \in recorded, InRange(k), k \notin hist'
          PROVE  \E i \in 1..Len(chan') : chan'[i] = k
      <3>1. PICK i \in 1..Len(chan) : chan[i] = k
        BY <2>1, <2>7 DEF Received
      <3>2. k # h
        BY <2>1, <2>7
      <3>3. i # 1 /\ i - 1 \in 1..Len(chan') /\ (i - 1) + 1 = i
        BY <2>2, <3>1, <3>2
      <3> QED BY <2>2, <3>1, <3>3
    <2> QED BY <2>1, <2>4, <2>5, <2>6, <2>7 DEF Received, InRange
  <1>3. CASE UNCHANGED <<recorded, val, chan, hist>>
    BY <1>3 DEF Received, InRange
  <1>4. CASE Next /\ ~CollectorRecv /\ ~(\E j \in Jobs : SendLatency(j))
    <2>1. UNCHANGED <<recorded, val, chan, hist>>
      BY <1>4 DEF Next, CountCompleted, CountError, FleetExits, CollectorSnapshot, CollectorEnd, Tick,
                  SampleThroughput, SampleErrors, AskForWindow, PushWindow, NoWindow,
                  MonitorCancelled, AbortMonitor, SendShutdown, Return, Terminated, vars,
                  fleetVars, collectorVars, monitorVars, mainVars
    <2> QED BY <1>3, <2>1
  <1> QED BY <1>1, <1>2, <1>3, <1>4 DEF vars, fleetVars, collectorVars

(* Each latency received is in one window.                                   *)
Partition == WindowsPartitionHistogram

LEMMA PartitionNext ==
  Typed /\ Received /\ Partition /\ [Next]_vars => Partition'
PROOF
  <1> SUFFICES ASSUME Typed, Received, Partition, [Next]_vars PROVE Partition'
    OBVIOUS
  <1> USE DEF Partition, WindowsPartitionHistogram
  <1>1. CASE CollectorRecv
    <2> DEFINE new == {k \in {Head(chan)} : InRange(k)}
    <2>1. /\ chan # <<>> /\ hist' = hist \cup new /\ perSec' = perSec \cup new /\ handed' = handed
      BY <1>1 DEF CollectorRecv
    <2>2. new \cap hist = {}
      <3>1. chan \in Seq(Jobs) /\ Head(chan) = chan[1] /\ 1 \in 1..Len(chan)
        BY <2>1 DEF Typed
      <3> QED BY <3>1 DEF Received
    <2> HIDE DEF new
    <2>3. \A i \in 1..Len(handed) : handed[i] \cap new = {}
      BY <2>2 DEF Windows
    <2>4. hist' = perSec' \cup UNION Windows
      BY <2>1
    <2> QED BY <2>1, <2>3, <2>4 DEF Windows
  <1>2. CASE CollectorSnapshot
    <2>1. handed' = Append(handed, perSec) /\ perSec' = {} /\ hist' = hist
      BY <1>2 DEF CollectorSnapshot
    <2>2. /\ handed \in Seq(SUBSET Jobs) /\ Len(handed') = Len(handed) + 1
          /\ handed'[Len(handed) + 1] = perSec
          /\ \A i \in 1..Len(handed) : handed'[i] = handed[i]
          /\ 1..Len(handed') = 1..Len(handed) \cup {Len(handed) + 1}
      BY <2>1 DEF Typed
    <2>3. Windows' = Windows \cup {perSec}
      BY <2>2 DEF Windows
    <2>4. hist' = perSec' \cup UNION (Windows')
      BY <2>1, <2>3
    <2>5. \A i, j \in 1..Len(handed') : i # j => handed'[i] \cap handed'[j] = {}
      BY <2>2
    <2>6. \A i \in 1..Len(handed') : handed'[i] \cap perSec' = {}
      BY <2>1
    <2> QED BY <2>4, <2>5, <2>6
  <1>3. CASE UNCHANGED <<hist, perSec, handed>>
    BY <1>3 DEF Windows
  <1>4. CASE Next /\ ~CollectorRecv /\ ~CollectorSnapshot
    <2>1. UNCHANGED <<hist, perSec, handed>>
      BY <1>4 DEF Next, SendLatency, CountCompleted, CountError, FleetExits, CollectorEnd, Tick,
                  SampleThroughput, SampleErrors, AskForWindow, PushWindow, NoWindow,
                  MonitorCancelled, AbortMonitor, SendShutdown, Return, Terminated, vars,
                  fleetVars, collectorVars, monitorVars, mainVars
    <2> QED BY <1>3, <2>1
  <1> QED BY <1>1, <1>2, <1>3, <1>4 DEF vars, collectorVars

LEMMA FlowHolds == Spec => [](Typed /\ EndsInOrder /\ Received)
PROOF
  <1>1. Init => Received
    BY DEF Init, Received
  <1> QED BY <1>1, OrderHolds, ReceivedNext, PTL DEF Spec

(* However snapshot requests and latencies alternate in the collector's       *)
(* select!, no latency is in two windows and none in no window.              *)
THEOREM WindowsPartition == Spec => []WindowsPartitionHistogram
PROOF
  <1>1. Init => Partition
    BY DEF Init, Partition, WindowsPartitionHistogram, Windows
  <1>2. Partition => WindowsPartitionHistogram
    BY DEF Partition
  <1> QED BY <1>1, <1>2, FlowHolds, PartitionNext, PTL DEF Spec

-----------------------------------------------------------------------------
(* The totals of the result.                                                *)

(* A latency is sent before its job is counted, and the job counted once.    *)
SentThenCounted == completed + Cardinality(inFlight) = Cardinality(recorded)

TotalsCopied ==
  phase = "returned" => result.total = completed /\ result.stats.total_count = Cardinality(hist)

LEMMA SentThenCountedNext == Typed /\ SentThenCounted /\ [Next]_vars => SentThenCounted'
PROOF
  <1> SUFFICES ASSUME Typed, SentThenCounted, [Next]_vars PROVE SentThenCounted'
    OBVIOUS
  <1>1. IsFiniteSet(recorded) /\ IsFiniteSet(inFlight)
    BY SamplerAssumption, FS_Subset DEF Typed
  <1>2. Cardinality(recorded) \in Nat /\ Cardinality(inFlight) \in Nat /\ completed \in Nat
    BY <1>1, FS_CardinalityType DEF Typed
  <1>3. ASSUME NEW j \in Jobs, SendLatency(j) PROVE SentThenCounted'
    <2>1. /\ j \notin recorded /\ j \notin inFlight /\ completed' = completed
          /\ recorded' = recorded \cup {j} /\ inFlight' = inFlight \cup {j}
      BY <1>3 DEF SendLatency, Typed
    <2>2. /\ Cardinality(recorded') = Cardinality(recorded) + 1
          /\ Cardinality(inFlight') = Cardinality(inFlight) + 1
      BY <1>1, <2>1, FS_AddElement
    <2> QED BY <1>2, <2>1, <2>2 DEF SentThenCounted
  <1>4. ASSUME NEW j \in Jobs, CountCompleted(j) PROVE SentThenCounted'
    <2>1. /\ j \in inFlight /\ inFlight' = inFlight \ {j}
          /\ completed' = completed + 1 /\ recorded' = recorded
      BY <1>4 DEF CountCompleted
    <2>2. Cardinality(inFlight') = Cardinality(inFlight) - 1
      BY <1>1, <2>1, FS_RemoveElement
    <2> QED BY <1>2, <2>1, <2>2 DEF SentThenCounted
  <1>5. CASE UNCHANGED <<recorded, inFlight, completed>>
    BY <1>5 DEF SentThenCounted
  <1>6. CASE Next /\ ~(\E j \in Jobs : SendLatency(j) \/ CountCompleted(j))
    <2>1. UNCHANGED <<recorded, inFlight, completed>>
      BY <1>6 DEF Next, CountError, FleetExits, CollectorRecv, CollectorSnapshot, CollectorEnd, Tick,
                  SampleThroughput, SampleErrors, AskForWindow, PushWindow, NoWindow,
                  MonitorCancelled, AbortMonitor, SendShutdown, Return, Terminated, vars,
                  fleetVars, collectorVars, monitorVars, mainVars
    <2> QED BY <1>5, <2>1
  <1> QED BY <1>3, <1>4, <1>5, <1>6 DEF vars, fleetVars

LEMMA TotalsCopiedNext == Typed /\ EndsInOrder /\ TotalsCopied /\ [Next]_vars => TotalsCopied'
PROOF
  <1> SUFFICES ASSUME Typed, EndsInOrder, TotalsCopied, [Next]_vars PROVE TotalsCopied'
    OBVIOUS
  <1>1. CASE Return
    <2>1. /\ result' = [throughput |-> tput, errors |-> errs, latency |-> lat,
                        total |-> completed, stats |-> Stats(hist, val)]
          /\ UNCHANGED <<completed, hist>>
      BY <1>1 DEF Return, fleetVars, collectorVars
    <2>2. Stats(hist, val).total_count = Cardinality(hist)
      BY DEF Stats
    <2> QED BY <2>1, <2>2 DEF TotalsCopied
  <1>2. CASE phase # "returned" /\ ~Return
    <2>1. phase' # "returned"
      BY <1>2 DEF Next, SendLatency, CountCompleted, CountError, FleetExits, CollectorRecv, CollectorSnapshot,
                  CollectorEnd, Tick, SampleThroughput, SampleErrors, AskForWindow, PushWindow, NoWindow,
                  MonitorCancelled, AbortMonitor, SendShutdown, Terminated, vars,
                  fleetVars, collectorVars, monitorVars, mainVars
    <2> QED BY <2>1 DEF TotalsCopied
  <1>3. CASE phase = "returned"
    <2>1. cdone /\ fleetGone /\ inFlight = {}
      BY <1>3 DEF EndsInOrder
    <2>2. UNCHANGED <<completed, hist, result>>
      BY <1>3, <2>1
      DEF Next, SendLatency, CountCompleted, CountError, FleetExits, CollectorRecv, CollectorSnapshot,
          CollectorEnd, Tick, SampleThroughput, SampleErrors, AskForWindow, PushWindow, NoWindow,
          MonitorCancelled, AbortMonitor, SendShutdown, Return, Terminated, vars,
          fleetVars, collectorVars, monitorVars, mainVars
    <2> QED BY <1>3, <2>2 DEF TotalsCopied
  <1> QED BY <1>1, <1>2, <1>3

(* The histogram of a returned trial misses only the latencies it has no room *)
(* for, wherever the monitor was aborted; it and they make up the total.      *)
THEOREM LatenciesAreCollected == Spec => []EveryLatencyCollected
PROOF
  <1>1. Init => SentThenCounted /\ TotalsCopied
    BY FS_EmptySet DEF Init, SentThenCounted, TotalsCopied
  <1>2. Typed /\ EndsInOrder /\ Received /\ SentThenCounted /\ TotalsCopied => EveryLatencyCollected
    <2> SUFFICES ASSUME Typed, EndsInOrder, Received, SentThenCounted, TotalsCopied, phase = "returned"
                 PROVE  /\ hist = {j \in recorded : InRange(j)}
                        /\ result.stats.total_count + Cardinality({j \in recorded : ~InRange(j)})
                             = result.total
      BY DEF EveryLatencyCollected
    <2> DEFINE in == {j \in recorded : InRange(j)}
               out == {j \in recorded : ~InRange(j)}
    <2>1. chan = <<>> /\ inFlight = {}
      BY DEF EndsInOrder
    <2>2. hist = in
      BY <2>1 DEF Received
    <2>3. IsFiniteSet(recorded) /\ IsFiniteSet(in) /\ IsFiniteSet(out)
      BY SamplerAssumption, FS_Subset DEF Typed
    <2>4. in \cup out = recorded /\ in \cap out = {}
      OBVIOUS
    <2>5. Cardinality(recorded) = Cardinality(in) + Cardinality(out)
      <3> HIDE DEF in, out
      <3>1. Cardinality(in \cup out) = Cardinality(in) + Cardinality(out) - Cardinality(in \cap out)
        BY <2>3, FS_Union
      <3>2. Cardinality(in) \in Nat /\ Cardinality(out) \in Nat /\ Cardinality({}) = 0
        BY <2>3, FS_CardinalityType, FS_EmptySet
      <3>3. Cardinality(in \cup out) = Cardinality(recorded) /\ Cardinality(in \cap out) = Cardinality({})
        BY <2>4
      <3> QED BY <3>1, <3>2, <3>3
    <2>6. result.total = completed /\ result.stats.total_count = Cardinality(in)
      BY <2>2 DEF TotalsCopied
    <2>7. completed = Cardinality(recorded)
      <3>1. Cardinality(inFlight) = 0 /\ completed \in Nat
        BY <2>1, FS_EmptySet DEF Typed
      <3> QED BY <3>1 DEF SentThenCounted
    <2> HIDE DEF in, out
    <2> QED BY <2>2, <2>5, <2>6, <2>7 DEF in, out
  <1> QED BY <1>1, <1>2, FlowHolds, SentThenCountedNext, TotalsCopiedNext, PTL DEF Spec

-----------------------------------------------------------------------------
(* The series.                                                              *)

LEMMA SeriesNext == Typed /\ SeriesAddUp /\ [Next]_vars => SeriesAddUp'
PROOF
  <1> SUFFICES ASSUME Typed, SeriesAddUp, [Next]_vars PROVE SeriesAddUp'
    OBVIOUS
  <1>t. /\ tput \in Seq(Nat) /\ errs \in Seq(Nat)
        /\ SumOf(tput) = prevC /\ prevC <= completed
        /\ SumOf(errs) = prevE /\ prevE <= errors
        /\ prevC \in Nat /\ prevE \in Nat /\ completed \in Nat /\ errors \in Nat
    <2>1. tput \in Seq(Nat) /\ errs \in Seq(Nat) /\ SumOf(tput) = prevC /\ SumOf(errs) = prevE
      BY DEF SeriesAddUp
    <2>2. ASSUME NEW s \in Seq(Nat) PROVE SumOf(s) \in Nat
      <3>1. Len(s) \in Nat /\ Summable(s, Len(s))
        BY DEF Summable
      <3> QED BY <3>1, SumIsNat DEF SumOf
    <2> QED BY <2>1, <2>2 DEF SeriesAddUp, Typed
  <1>a. ASSUME NEW s \in Seq(Nat), NEW d \in Nat PROVE SumOf(Append(s, d)) = SumOf(s) + d
    <2>1. Len(Append(s, d)) = Len(s) + 1
      OBVIOUS
    <2> QED BY <2>1, SumOfAppended DEF SumOf
  <1>1. CASE SampleThroughput
    <2>1. /\ tput' = Append(tput, completed - prevC) /\ prevC' = completed
          /\ UNCHANGED <<errs, prevE, completed, errors, phase, result>>
      BY <1>1 DEF SampleThroughput, fleetVars, mainVars
    <2>2. completed - prevC \in Nat
      BY <1>t
    <2>3. tput' \in Seq(Nat) /\ SumOf(tput') = prevC'
      <3>1. SumOf(tput') = SumOf(tput) + (completed - prevC)
        BY <1>t, <1>a, <2>1, <2>2
      <3> QED BY <1>t, <2>1, <2>2, <3>1
    <2>4. SumOf(errs') = prevE' /\ prevC' <= completed'
      BY <1>t, <2>1
    <2>5. phase' = "returned" => SumOf(result'.throughput) <= result'.total
      BY <2>1 DEF SeriesAddUp
    <2> QED BY <1>t, <2>1, <2>3, <2>4, <2>5 DEF SeriesAddUp, SumOf
  <1>2. CASE SampleErrors
    <2>1. /\ errs' = Append(errs, errors - prevE) /\ prevE' = errors
          /\ UNCHANGED <<tput, prevC, completed, errors, phase, result>>
      BY <1>2 DEF SampleErrors, fleetVars, mainVars
    <2>2. errors - prevE \in Nat
      BY <1>t
    <2>3. errs' \in Seq(Nat) /\ SumOf(errs') = prevE'
      <3>1. SumOf(errs') = SumOf(errs) + (errors - prevE)
        BY <1>t, <1>a, <2>1, <2>2
      <3> QED BY <1>t, <2>1, <2>2, <3>1
    <2>4. SumOf(tput') = prevC' /\ prevE' <= errors'
      BY <1>t, <2>1
    <2>5. phase' = "returned" => SumOf(result'.throughput) <= result'.total
      BY <2>1 DEF SeriesAddUp
    <2> QED BY <1>t, <2>1, <2>3, <2>4, <2>5 DEF SeriesAddUp, SumOf
  <1>3. CASE Return
    <2>1. /\ result'.throughput = tput /\ result'.total = completed
          /\ UNCHANGED <<tput, errs, prevC, prevE, completed, errors>>
      BY <1>3 DEF Return, fleetVars, monitorVars
    <2> QED BY <1>t, <2>1 DEF SeriesAddUp, SumOf
  <1>4. CASE /\ UNCHANGED <<tput, errs, prevC, prevE, result>>
             /\ completed' \in {completed, completed + 1} /\ errors' \in {errors, errors + 1}
             /\ phase' = "returned" => phase = "returned"
    BY <1>t, <1>4 DEF SeriesAddUp, SumOf
  <1>5. CASE Next /\ ~SampleThroughput /\ ~SampleErrors /\ ~Return
    <2>1. /\ UNCHANGED <<tput, errs, prevC, prevE, result>>
          /\ completed' \in {completed, completed + 1} /\ errors' \in {errors, errors + 1}
          /\ phase' = "returned" => phase = "returned"
      BY <1>5 DEF Next, SendLatency, CountCompleted, CountError, FleetExits, CollectorRecv, CollectorSnapshot,
                  CollectorEnd, Tick, AskForWindow, PushWindow, NoWindow,
                  MonitorCancelled, AbortMonitor, SendShutdown, Terminated, vars,
                  fleetVars, collectorVars, monitorVars, mainVars
    <2> QED BY <1>4, <2>1
  <1>6. CASE UNCHANGED vars
    <2>1. /\ UNCHANGED <<tput, errs, prevC, prevE, result, phase>>
          /\ completed' = completed /\ errors' = errors
      BY <1>6 DEF vars, fleetVars, monitorVars, mainVars
    <2> QED BY <1>4, <2>1
  <1> QED BY <1>1, <1>2, <1>3, <1>5, <1>6

(* Wherever the workers count between the reads of the monitor, and wherever  *)
(* it is aborted, no delta is negative and none is counted twice.             *)
THEOREM SeriesSumToCounters == Spec => []SeriesAddUp
PROOF
  <1>1. Init => SeriesAddUp
    BY SumOfNone DEF Init, SeriesAddUp, SumOf
  <1> QED BY <1>1, OrderHolds, SeriesNext, PTL DEF Spec

-----------------------------------------------------------------------------
(* The ticks.                                                               *)

(* The series of n holds the values of the first p windows, in the order of  *)
(* their ticks.                                                             *)
Pushes(n, p) ==
  /\ \E S : lat[n] \in Seq(S)
  /\ Len(lat[n]) = Times(n) * p
  /\ \A i \in 1..Len(lat[n]) : lat[n][i].tick = (i + Times(n) - 1) \div Times(n)

(* The other series hold those of the same ticks, and of the tick in progress *)
(* as far as the monitor came with it, or was aborted.                       *)
Progress(p) ==
  /\ mpc = "throughput" => Len(tput) = p /\ Len(errs) = p
  /\ mpc = "errors" => Len(tput) = p + 1 /\ Len(errs) = p
  /\ mpc \in {"ask", "wait"} => Len(tput) = p + 1 /\ Len(errs) = p + 1
  /\ mpc \in {"sleep", "cancelled"} => Len(errs) = Len(tput) /\ Len(tput) \in {p, p + 1}
  /\ mpc = "sleep" /\ phase = "running" => Len(tput) = p

InStep == \E p \in Nat : Progress(p) /\ \A n \in Names : Pushes(n, p)

LEMMA TimesIsPositive == \A n \in Names : Times(n) \in Nat \ {0}
PROOF
  <1> SUFFICES ASSUME NEW n \in Names PROVE Times(n) \in Nat \ {0}
    OBVIOUS
  <1> DEFINE at == {i \in 1..Len(Specs) : Specs[i] = n}
  <1>1. Len(Specs) \in Nat
    BY SamplerAssumption
  <1>2. IsFiniteSet(1..Len(Specs))
    BY <1>1, FS_Interval
  <1>3. IsFiniteSet(at) /\ at # {}
    BY <1>2, FS_Subset DEF Names
  <1>4. Cardinality(at) \in Nat /\ Cardinality(at) # 0
    BY <1>3, FS_CardinalityType, FS_EmptySet
  <1> QED BY <1>4 DEF Times

LEMMA Appended ==
  ASSUME NEW S, NEW s \in Seq(S), NEW t \in Seq(S), NEW r \in 1..Len(t)
  PROVE  (s \o t)[Len(s) + r] = t[r]
OBVIOUS

LEMMA InStepNext == Typed /\ EndsInOrder /\ SeriesAddUp /\ InStep /\ [Next]_vars => InStep'
PROOF
  <1> SUFFICES ASSUME Typed, EndsInOrder, SeriesAddUp, InStep, [Next]_vars PROVE InStep'
    OBVIOUS
  <1>1. PICK p \in Nat : Progress(p) /\ \A n \in Names : Pushes(n, p)
    BY DEF InStep
  <1>2. ASSUME lat' = lat, Progress(p)' PROVE InStep'
    BY <1>1, <1>2 DEF InStep, Pushes
  <1>3. CASE SampleThroughput
    <2>1. Len(tput') = Len(tput) + 1
      BY <1>3 DEF SampleThroughput, SeriesAddUp
    <2> QED BY <1>1, <1>2, <1>3, <2>1 DEF SampleThroughput, Progress
  <1>4. CASE SampleErrors
    <2>1. Len(errs') = Len(errs) + 1
      BY <1>4 DEF SampleErrors, SeriesAddUp
    <2> QED BY <1>1, <1>2, <1>4, <2>1 DEF SampleErrors, Progress
  <1>5. CASE Tick
    BY <1>1, <1>2, <1>5 DEF Tick, Progress
  <1>6. CASE AskForWindow
    BY <1>1, <1>2, <1>6 DEF AskForWindow, Progress, EndsInOrder, mainVars
  <1>7. CASE NoWindow
    BY <1>1, <1>2, <1>7 DEF NoWindow, Progress, EndsInOrder, mainVars
  <1>8. CASE MonitorCancelled
    BY <1>1, <1>2, <1>8 DEF MonitorCancelled, Progress
  <1>9. CASE PushWindow
    <2>1. Len(tput) = p + 1 /\ Len(errs) = p + 1
      BY <1>1, <1>9 DEF PushWindow, Progress
    <2>2. Progress(p + 1)'
      BY <1>9, <2>1 DEF PushWindow, Progress
    <2>3. ASSUME NEW n \in Names PROVE Pushes(n, p + 1)'
      <3> DEFINE T == Times(n)
                 new == [i \in 1..T |-> [tick |-> p + 1, value |-> SpecValue(n, answer, val)]]
      <3>1. PICK S : lat[n] \in Seq(S)
        BY <1>1 DEF Pushes
      <3>2. T \in Nat \ {0}
        BY TimesIsPositive
      <3>3. lat'[n] = lat[n] \o new
        BY <1>9, <2>1 DEF PushWindow, Pushed
      <3> DEFINE U == S \cup {[tick |-> p + 1, value |-> SpecValue(n, answer, val)]}
      <3>4. lat[n] \in Seq(U) /\ new \in Seq(U) /\ Len(new) = T
        <4> HIDE DEF T
        <4>1. new \in [1..T -> U]
          OBVIOUS
        <4> HIDE DEF new
        <4>2. new \in Seq(U) /\ Len(new) = T
          BY <3>2, <4>1
        <4>3. lat[n] \in Seq(U)
          BY <3>1
        <4> QED BY <4>2, <4>3
      <3>5. Len(lat[n]) = T * p /\ T * p \in Nat
        BY <1>1, <3>2 DEF Pushes
      <3> HIDE DEF U
      <3>6. lat'[n] \in Seq(U) /\ Len(lat'[n]) = T * p + T
        <4> HIDE DEF new, T
        <4> QED BY <3>3, <3>4, <3>5
      <3>7. T * p + T = T * (p + 1)
        BY <3>2
      <3>8. ASSUME NEW i \in 1..(T * p + T)
            PROVE  lat'[n][i].tick = (i + T - 1) \div T
        <4>1. CASE i <= T * p
          <5>1. i \in 1..Len(lat[n])
            BY <3>5, <4>1
          <5>2. lat'[n][i] = lat[n][i]
            <6> HIDE DEF new, T
            <6> QED BY <3>3, <3>4, <5>1
          <5> QED BY <1>1, <5>1, <5>2 DEF Pushes
        <4>2. CASE i > T * p
          <5> DEFINE r == i - T * p
          <5>1. r \in 1..T /\ i = T * p + r
            <6> HIDE DEF T
            <6>1. T * p \in Nat /\ T \in Nat
              BY <3>2, <3>5
            <6> QED BY <4>2, <6>1
          <5>2. lat'[n][i] = new[r]
            <6> HIDE DEF new, T, r
            <6>1. i = Len(lat[n]) + r /\ r \in 1..Len(new)
              BY <3>4, <3>5, <5>1
            <6> QED BY <3>3, <3>4, <6>1, Appended
          <5>3. new[r].tick = p + 1
            BY <5>1
          <5>4. i + T - 1 = (p + 1) * T + (r - 1)
            <6> HIDE DEF T, r
            <6>1. T * p + r + T - 1 = (T * p + T) + (r - 1) /\ (p + 1) * T = T * p + T
              BY <3>2, <3>5, <5>1
            <6> QED BY <5>1, <6>1
          <5>5. ((p + 1) * T + (r - 1)) \div T = p + 1
            <6>1. r - 1 \in 0..(T - 1) /\ p + 1 \in Nat
              BY <3>2, <5>1
            <6> HIDE DEF T, r
            <6> QED BY <3>2, <6>1, Quotient
          <5> HIDE DEF T, r, new
          <5> QED BY <5>2, <5>3, <5>4, <5>5
        <4> QED BY <3>5, <4>1, <4>2
      <3> QED BY <3>6, <3>7, <3>8 DEF Pushes, Times
    <2>4. p + 1 \in Nat
      OBVIOUS
    <2> QED BY <2>2, <2>3, <2>4 DEF InStep
  <1>10. CASE AbortMonitor \/ SendShutdown \/ Return
    BY <1>1, <1>2, <1>10 DEF AbortMonitor, SendShutdown, Return, Progress, monitorVars
  <1>11. CASE UNCHANGED <<monitorVars, mainVars>>
    BY <1>1, <1>2, <1>11 DEF Progress, monitorVars, mainVars
  <1>12. ASSUME NEW j \in Jobs, SendLatency(j) \/ CountCompleted(j)
         PROVE  UNCHANGED <<monitorVars, mainVars>>
    BY <1>12 DEF SendLatency, CountCompleted
  <1>13. CASE CountError \/ FleetExits \/ CollectorRecv \/ CollectorSnapshot \/ CollectorEnd
    BY <1>11, <1>13 DEF CountError, FleetExits, CollectorRecv, CollectorSnapshot, CollectorEnd
  <1>14. CASE UNCHANGED vars
    BY <1>11, <1>14 DEF vars
  <1> QED BY <1>3, <1>4, <1>5, <1>6, <1>7, <1>8, <1>9, <1>10, <1>11, <1>12, <1>13, <1>14
          DEF Next, Terminated

LEMMA InStepHolds == Spec => []InStep
PROOF
  <1>1. Init => InStep
    <2> SUFFICES ASSUME Init PROVE Progress(0) /\ \A n \in Names : Pushes(n, 0)
      BY DEF InStep
    <2>1. Progress(0)
      BY DEF Init, Progress
    <2>2. ASSUME NEW n \in Names PROVE Pushes(n, 0)
      <3>1. lat[n] = <<>> /\ Times(n) * 0 = 0
        BY TimesIsPositive DEF Init
      <3>2. <<>> \in Seq({}) /\ Len(<<>>) = 0
        OBVIOUS
      <3> QED BY <3>1, <3>2 DEF Pushes
    <2> QED BY <2>1, <2>2
  <1> QED BY <1>1, OrderHolds, SeriesSumToCounters, InStepNext, PTL DEF Spec

(* The i-th value of a percentile that is listed once is that of the i-th tick, *)
(* whatever else is listed, and only the tick in progress, or that at which   *)
(* the monitor was aborted, may lack its value, although the collector       *)
(* answers late or not at all (main.rs 431-432).                            *)
THEOREM SeriesStayAligned == Spec => []TicksAligned
PROOF
  <1>1. Typed /\ InStep => TicksAligned
    <2> SUFFICES ASSUME Typed, InStep PROVE TicksAligned
      OBVIOUS
    <2>1. PICK p \in Nat : Progress(p) /\ \A n \in Names : Pushes(n, p)
      BY DEF InStep
    <2>2. Len(errs) \in {p, p + 1} /\ Len(tput) \in {p, p + 1} /\ Len(errs) <= Len(tput)
      BY <2>1 DEF Progress, Typed
    <2>3. ASSUME NEW n \in Names, Times(n) = 1
          PROVE  /\ \A i \in 1..Len(lat[n]) : lat[n][i].tick = i
                 /\ Len(lat[n]) <= Len(errs) /\ Len(tput) - 1 <= Len(lat[n])
      <3>1. /\ Len(lat[n]) = 1 * p
            /\ \A i \in 1..Len(lat[n]) : lat[n][i].tick = (i + 1 - 1) \div 1
        BY <2>1, <2>3 DEF Pushes
      <3> QED BY <2>2, <3>1
    <2> QED BY <2>2, <2>3 DEF TicksAligned
  <1> QED BY <1>1, OrderHolds, InStepHolds, PTL

-----------------------------------------------------------------------------
(* Histograms.                                                              *)

(* A set of latencies that were recorded.                                   *)
Samples(S, v) == IsFiniteSet(S) /\ \A s \in S : v[s] \in 1..HistMax

LEMMA CountOfBoth ==
  ASSUME NEW R, NEW X, NEW Y, IsFiniteSet(X), IsFiniteSet(Y), R = X \cup Y, X \cap Y = {}
  PROVE  Cardinality(R) = Cardinality(X) + Cardinality(Y)
PROOF
  <1>1. Cardinality(X \cup Y) = Cardinality(X) + Cardinality(Y) - Cardinality(X \cap Y)
    BY FS_Union
  <1>2. Cardinality(X \cap Y) = 0 /\ Cardinality(X) \in Nat /\ Cardinality(Y) \in Nat
    BY FS_CardinalityType, FS_EmptySet
  <1>3. Cardinality(R) = Cardinality(X \cup Y)
    OBVIOUS
  <1> QED BY <1>1, <1>2, <1>3

(* The samples of two disjoint windows, counted together.                    *)
LEMMA CountsAdd ==
  ASSUME NEW A, NEW B, NEW R, NEW v, NEW x, IsFiniteSet(A), IsFiniteSet(B),
         R = A \cup B, A \cap B = {}
  PROVE  /\ Cardinality(R) = Cardinality(A) + Cardinality(B)
         /\ CountUpTo(R, v, x) = CountUpTo(A, v, x) + CountUpTo(B, v, x)
         /\ CountAt(R, v, x) = CountAt(A, v, x) + CountAt(B, v, x)
PROOF
  <1> DEFINE P(S) == {s \in S : v[s] <= x}
             Q(S) == {s \in S : v[s] = x}
  <1>1. /\ P(R) = P(A) \cup P(B) /\ P(A) \cap P(B) = {}
        /\ Q(R) = Q(A) \cup Q(B) /\ Q(A) \cap Q(B) = {}
    OBVIOUS
  <1>2. IsFiniteSet(P(A)) /\ IsFiniteSet(P(B)) /\ IsFiniteSet(Q(A)) /\ IsFiniteSet(Q(B))
    <2>1. \A S : P(S) \in SUBSET S /\ Q(S) \in SUBSET S
      OBVIOUS
    <2> HIDE DEF P, Q
    <2> QED BY <2>1, FS_Subset
  <1> HIDE DEF P, Q
  <1>3. Cardinality(P(R)) = Cardinality(P(A)) + Cardinality(P(B))
    BY <1>1, <1>2, CountOfBoth
  <1>4. Cardinality(Q(R)) = Cardinality(Q(A)) + Cardinality(Q(B))
    BY <1>1, <1>2, CountOfBoth
  <1>5. Cardinality(R) = Cardinality(A) + Cardinality(B)
    BY CountOfBoth
  <1> QED BY <1>3, <1>4, <1>5 DEF CountUpTo, CountAt, P, Q

LEMMA CountsAreNat ==
  ASSUME NEW S, NEW v, NEW x, IsFiniteSet(S)
  PROVE  /\ Cardinality(S) \in Nat /\ CountUpTo(S, v, x) \in Nat /\ CountAt(S, v, x) \in Nat
         /\ CountUpTo(S, v, x) <= Cardinality(S)
PROOF
  <1> DEFINE P == {s \in S : v[s] <= x}
             Q == {s \in S : v[s] = x}
  <1>1. P \in SUBSET S /\ Q \in SUBSET S
    OBVIOUS
  <1> HIDE DEF P, Q
  <1>2. IsFiniteSet(P) /\ Cardinality(P) <= Cardinality(S) /\ IsFiniteSet(Q)
    BY <1>1, FS_Subset
  <1>3. Cardinality(S) \in Nat /\ Cardinality(P) \in Nat /\ Cardinality(Q) \in Nat
    BY <1>2, FS_CardinalityType
  <1> QED BY <1>2, <1>3 DEF P, Q, CountUpTo, CountAt

LEMMA CountsGrow ==
  ASSUME NEW S, NEW v, NEW x \in Nat, NEW y \in Nat, Samples(S, v), x <= y
  PROVE  CountUpTo(S, v, x) <= CountUpTo(S, v, y)
PROOF
  <1> DEFINE P == {s \in S : v[s] <= x}
             Q == {s \in S : v[s] <= y}
  <1>1. P \in SUBSET Q /\ Q \in SUBSET S
    BY DEF Samples
  <1> HIDE DEF P, Q
  <1>2. Cardinality(P) <= Cardinality(Q)
    <2>1. IsFiniteSet(Q)
      BY <1>1, FS_Subset DEF Samples
    <2> QED BY <1>1, <2>1, FS_Subset
  <1> QED BY <1>2 DEF P, Q, CountUpTo

(* The largest value has every sample at or below it.                        *)
LEMMA LargestValue ==
  ASSUME NEW S, NEW v, Samples(S, v), S # {}
  PROVE  LET m == Max(Values(S, v))
         IN  /\ m \in Values(S, v) /\ m \in 1..HistMax
             /\ \A s \in S : v[s] <= m
             /\ CountUpTo(S, v, m) = Cardinality(S)
PROOF
  <1> DEFINE V == Values(S, v)
             m == Max(V)
  <1>1. V \subseteq Nat /\ V # {} /\ \A x \in V : x <= HistMax /\ HistMax \in Nat
    BY SamplerAssumption DEF Samples, Values
  <1>2. PICK x \in V : \A y \in V : y <= x
    <2> HIDE DEF V
    <2> QED BY <1>1, Greatest
  <1>3. m \in V /\ \A y \in V : m >= y
    <2>1. \A y \in V : x >= y
      BY <1>1, <1>2
    <2> HIDE DEF V
    <2> QED BY <1>2, <2>1 DEF Max
  <1>4. \A s \in S : v[s] <= m
    BY <1>1, <1>3 DEF Values
  <1>5. m \in 1..HistMax
    BY <1>3 DEF Values, Samples
  <1> HIDE DEF m
  <1>6. {s \in S : v[s] <= m} = S
    BY <1>4
  <1>7. CountUpTo(S, v, m) = Cardinality(S)
    BY <1>6 DEF CountUpTo
  <1> QED BY <1>3, <1>4, <1>5, <1>7 DEF m

(* A quantile that a histogram is asked for.                                 *)
IsQuantile(q) == q = <<q[1], q[2]>> /\ q[1] \in Nat \ {0} /\ q[2] \in Nat /\ q[1] <= q[2]

LEMMA FractionOfAll ==
  ASSUME NEW q, IsQuantile(q), NEW n \in Nat
  PROVE  n * q[2] >= q[1] * n
PROOF
  <1> DEFINE d == q[2] - q[1]
  <1>1. d \in Nat /\ q[2] = q[1] + d /\ q[1] \in Nat
    BY DEF IsQuantile
  <1> DEFINE a == q[1]
  <1> HIDE DEF d
  <1>2. n * (a + d) = a * n + n * d /\ n * d >= 0
    <2>1. a \in Nat
      BY <1>1
    <2> HIDE DEF a
    <2> QED BY <1>1, <2>1
  <1> QED BY <1>1, <1>2

LEMMA ProductsGrow ==
  ASSUME NEW x \in Nat, NEW y \in Nat, NEW d \in Nat, x <= y
  PROVE  x * d <= y * d
PROOF
  <1> DEFINE z == y - x
  <1>1. z \in Nat /\ y = x + z
    OBVIOUS
  <1> HIDE DEF z
  <1>2. (x + z) * d = x * d + z * d /\ z * d >= 0 /\ x * d \in Nat
    BY <1>1
  <1> QED BY <1>1, <1>2

(* The value at a quantile is at most x when enough samples are.              *)
LEMMA QuantileValue ==
  ASSUME NEW S, NEW v, NEW q, Samples(S, v), S # {}, IsQuantile(q)
  PROVE  LET y == ValueAtQuantile(S, v, q)
         IN  /\ y \in Values(S, v) /\ y \in 1..HistMax
             /\ \A x \in Nat : y <= x <=> CountUpTo(S, v, x) * q[2] >= q[1] * Cardinality(S)
PROOF
  <1> DEFINE T == {x \in Values(S, v) : CountUpTo(S, v, x) * q[2] >= q[1] * Cardinality(S)}
             y == ValueAtQuantile(S, v, q)
  <1>1. /\ HistMax \in Nat /\ q[1] \in Nat \ {0} /\ q[2] \in Nat /\ Values(S, v) \subseteq 1..HistMax
        /\ IsFiniteSet(S)
    BY SamplerAssumption DEF Samples, Values, IsQuantile
  <1>2. Cardinality(S) \in Nat \ {0} /\ \A x : CountUpTo(S, v, x) \in Nat
    <2>1. Cardinality(S) \in Nat /\ Cardinality(S) # 0
      BY <1>1, FS_CardinalityType, FS_EmptySet
    <2> QED BY <1>1, <2>1, CountsAreNat
  <1>3. T # {}
    <2> DEFINE m == Max(Values(S, v))
    <2>1. m \in Values(S, v) /\ CountUpTo(S, v, m) = Cardinality(S)
      BY LargestValue
    <2>2. Cardinality(S) * q[2] >= q[1] * Cardinality(S)
      BY <1>2, FractionOfAll
    <2> HIDE DEF m
    <2> QED BY <2>1, <2>2
  <1>4. y \in T /\ \A x \in T : y <= x
    <2>1. T \subseteq Nat
      BY <1>1
    <2>2. y = Min(T)
      BY DEF ValueAtQuantile
    <2> HIDE DEF T, y
    <2>3. PICK m \in T : \A x \in T : m <= x
      BY <1>3, <2>1, Least
    <2> QED BY <2>2, <2>3 DEF Min
  <1>5. y \in Values(S, v) /\ CountUpTo(S, v, y) * q[2] >= q[1] * Cardinality(S)
    BY <1>4
  <1>6. y \in 1..HistMax
    BY <1>1, <1>5
  <1>7. ASSUME NEW x \in Nat, y <= x
        PROVE  CountUpTo(S, v, x) * q[2] >= q[1] * Cardinality(S)
    <2> DEFINE c == CountUpTo(S, v, y)
               d == CountUpTo(S, v, x)
               k == q[1] * Cardinality(S)
    <2>1. c \in Nat /\ d \in Nat /\ k \in Nat /\ c * q[2] >= k /\ c <= d
      <3>1. y \in Nat
        BY <1>6
      <3> HIDE DEF y
      <3>2. c <= d
        BY <1>7, <3>1, CountsGrow
      <3> QED BY <1>1, <1>2, <1>5, <3>2 DEF y
    <2>2. \A e : e = q[2] => c * e <= d * e
      BY <1>1, <2>1, ProductsGrow
    <2> HIDE DEF c, d, k
    <2>3. c * q[2] \in Nat /\ d * q[2] \in Nat /\ c * q[2] <= d * q[2]
      BY <1>1, <2>1, <2>2
    <2>4. d * q[2] >= k
      BY <2>1, <2>3
    <2> QED BY <2>4 DEF d, k
  <1>8. ASSUME NEW x \in Nat, CountUpTo(S, v, x) * q[2] >= q[1] * Cardinality(S)
        PROVE  y <= x
    <2> DEFINE P == {s \in S : v[s] <= x}
               z == Max(Values(P, v))
    <2>1. P # {}
      <3>1. q[1] * Cardinality(S) >= 1
        BY <1>1, <1>2
      <3>2. CountUpTo(S, v, x) # 0
        <4>1. 0 * q[2] = 0 /\ q[1] * Cardinality(S) \in Nat
          BY <1>1, <1>2
        <4> QED BY <1>8, <3>1, <4>1
      <3> QED BY <3>2, FS_EmptySet DEF CountUpTo
    <2>2. Samples(P, v)
      BY <1>1, FS_Subset DEF Samples
    <2>3. z \in Values(P, v) /\ \A s \in P : v[s] <= z
      <3> HIDE DEF P
      <3> QED BY <2>1, <2>2, LargestValue
    <2>4. z \in Values(S, v) /\ z <= x /\ z \in Nat
      <3> HIDE DEF z
      <3>1. PICK s \in P : z = v[s]
        BY <2>3 DEF Values
      <3>2. z \in Values(S, v) /\ z <= x
        BY <3>1 DEF Values
      <3> QED BY <1>1, <3>2
    <2>5. {s \in S : v[s] <= z} = P
      BY <1>1, <2>3, <2>4 DEF Samples
    <2> HIDE DEF z
    <2>6. CountUpTo(S, v, z) = CountUpTo(S, v, x)
      BY <2>5 DEF CountUpTo
    <2> HIDE DEF P, y
    <2>7. z \in T
      BY <1>8, <2>4, <2>6
    <2>8. y <= z /\ y \in Nat
      BY <1>1, <1>4, <2>7
    <2> QED BY <2>4, <2>8
  <1> HIDE DEF y
  <1> QED BY <1>5, <1>6, <1>7, <1>8 DEF y

(* How often each value was recorded, and what it adds to the sum.            *)
Counts(S, v)   == [x \in 1..HistMax |-> CountAt(S, v, x)]
Weighted(S, v) == [x \in 1..HistMax |-> x * CountAt(S, v, x)]

LEMMA CountsAreSummable ==
  ASSUME NEW S, NEW v, IsFiniteSet(S), NEW m \in 0..HistMax
  PROVE  Summable(Counts(S, v), m) /\ Summable(Weighted(S, v), m)
PROOF
  <1>1. HistMax \in Nat /\ \A x : CountAt(S, v, x) \in Nat
    BY SamplerAssumption, CountsAreNat
  <1>2. \A x \in Nat, c \in Nat : x * c \in Nat
    OBVIOUS
  <1> QED BY <1>1, <1>2 DEF Summable, Counts, Weighted

LEMMA CountsMakeUpAll ==
  ASSUME NEW S, NEW v, Samples(S, v)
  PROVE  SumTo(Counts(S, v), HistMax) = Cardinality(S)
PROOF
  <1> DEFINE c == Counts(S, v)
             P(m) == {s \in S : v[s] <= m}
             E(m) == {s \in S : v[s] = m}
             J == {m \in Nat : m <= HistMax => SumTo(c, m) = Cardinality(P(m))}
  <1>1. HistMax \in Nat /\ IsFiniteSet(S)
    BY SamplerAssumption DEF Samples
  <1>2. 0 \in J
    <2>1. P(0) = {}
      BY DEF Samples
    <2> HIDE DEF P
    <2> QED BY <2>1, SumOfNone, FS_EmptySet
  <1>3. ASSUME NEW m \in Nat, m \in J PROVE m + 1 \in J
    <2> SUFFICES ASSUME m + 1 <= HistMax PROVE SumTo(c, m + 1) = Cardinality(P(m + 1))
      OBVIOUS
    <2>1. SumTo(c, m) = Cardinality(P(m))
      BY <1>1, <1>3
    <2>2. SumTo(c, m + 1) = SumTo(c, m) + c[m + 1]
      <3>1. Summable(c, m + 1)
        BY <1>1, CountsAreSummable
      <3> HIDE DEF c
      <3> QED BY <3>1, SumNext
    <2>3. c[m + 1] = Cardinality(E(m + 1))
      BY <1>1 DEF Counts, CountAt
    <2>4. P(m + 1) = P(m) \cup E(m + 1) /\ P(m) \cap E(m + 1) = {}
      BY DEF Samples
    <2>5. IsFiniteSet(P(m)) /\ IsFiniteSet(E(m + 1))
      <3>1. P(m) \in SUBSET S /\ E(m + 1) \in SUBSET S
        OBVIOUS
      <3> HIDE DEF P, E
      <3> QED BY <1>1, <3>1, FS_Subset
    <2> HIDE DEF P, E, c
    <2>6. Cardinality(P(m + 1)) = Cardinality(P(m)) + Cardinality(E(m + 1))
      BY <2>4, <2>5, CountOfBoth
    <2> QED BY <2>1, <2>2, <2>3, <2>6
  <1>4. HistMax \in J
    <2> HIDE DEF J
    <2> QED BY <1>1, <1>2, <1>3, Induct
  <1>5. P(HistMax) = S
    BY <1>1 DEF Samples
  <1> HIDE DEF P, c
  <1> QED BY <1>4, <1>5 DEF c

(* The buckets above the largest value add nothing.                          *)
LEMMA TotalOfAll ==
  ASSUME NEW S, NEW v, Samples(S, v)
  PROVE  Total(S, v) = SumTo(Weighted(S, v), HistMax)
PROOF
  <1> DEFINE w == Weighted(S, v)
  <1>1. HistMax \in Nat /\ IsFiniteSet(S) /\ Summable(w, HistMax)
    BY SamplerAssumption, CountsAreSummable DEF Samples
  <1>2. ASSUME NEW m \in 0..HistMax, \A s \in S : v[s] <= m
        PROVE  SumTo(w, HistMax) = SumTo(w, m)
    <2>1. ASSUME NEW x \in (m + 1)..HistMax PROVE w[x] = 0
      <3>1. {s \in S : v[s] = x} = {}
        BY <1>2, <2>1 DEF Samples
      <3>2. CountAt(S, v, x) = 0
        BY <3>1, FS_EmptySet DEF CountAt
      <3>3. w[x] = x * CountAt(S, v, x) /\ x \in Nat
        BY <1>1, <2>1 DEF Weighted
      <3> QED BY <3>2, <3>3
    <2> DEFINE k == HistMax - m
    <2>2. k \in Nat /\ m \in Nat /\ HistMax = m + k
      BY <1>1
    <2> HIDE DEF w, k
    <2>3. Summable(w, m + k) /\ \A x \in (m + 1)..(m + k) : w[x] = 0
      BY <1>1, <2>1, <2>2
    <2>4. SumTo(w, m + k) = SumTo(w, m)
      BY <2>2, <2>3, SumPadded
    <2> QED BY <2>2, <2>4
  <1>3. CASE S = {}
    <2>1. SumTo(w, HistMax) = SumTo(w, 0)
      BY <1>1, <1>2, <1>3
    <2> QED BY <1>3, <2>1, SumOfNone DEF Total
  <1>4. CASE S # {}
    <2> DEFINE top == Max(Values(S, v))
               u == [x \in 1..top |-> x * CountAt(S, v, x)]
    <2>1. top \in 1..HistMax /\ \A s \in S : v[s] <= top
      BY <1>4, LargestValue
    <2>2. Total(S, v) = SumTo(u, top)
      BY <1>4 DEF Total
    <2> HIDE DEF top
    <2>3. SumTo(w, HistMax) = SumTo(w, top)
      BY <1>1, <1>2, <2>1
    <2>4. \A x \in 1..top : w[x] = u[x]
      BY <1>1, <2>1 DEF Weighted
    <2>5. Summable(w, top)
      BY <1>1, <2>1 DEF Summable
    <2> HIDE DEF w, u
    <2>6. SumTo(w, top) = SumTo(u, top)
      BY <1>1, <2>1, <2>4, <2>5, SumOfEqual
    <2> QED BY <2>2, <2>3, <2>6 DEF w
  <1> QED BY <1>3, <1>4

(* The sum is at least one, and at most the largest value, per sample.        *)
LEMMA TotalInRange ==
  ASSUME NEW S, NEW v, Samples(S, v), S # {}
  PROVE  /\ Cardinality(S) \in Nat \ {0} /\ Total(S, v) \in Nat
         /\ Cardinality(S) <= Total(S, v)
         /\ Total(S, v) <= Max(Values(S, v)) * Cardinality(S)
PROOF
  <1> DEFINE c == Counts(S, v)
             w == Weighted(S, v)
             z == [x \in 1..HistMax |-> 0]
             top == Max(Values(S, v))
             u == [x \in 1..HistMax |-> top * c[x] + z[x]]
  <1>1. HistMax \in Nat /\ IsFiniteSet(S) /\ Summable(c, HistMax) /\ Summable(w, HistMax)
        /\ Summable(z, HistMax) /\ \A x : CountAt(S, v, x) \in Nat
    BY SamplerAssumption, CountsAreSummable, CountsAreNat DEF Samples, Summable
  <1>2. SumTo(c, HistMax) = Cardinality(S) /\ SumTo(w, HistMax) = Total(S, v)
    BY CountsMakeUpAll, TotalOfAll
  <1>3. top \in 1..HistMax /\ top \in Nat /\ \A s \in S : v[s] <= top
    BY LargestValue
  <1>4. Cardinality(S) \in Nat \ {0}
    BY <1>1, FS_CardinalityType, FS_EmptySet
  <1>5. SumTo(z, HistMax) = 0
    <2>1. Summable(z, 0 + HistMax) /\ \A x \in (0 + 1)..(0 + HistMax) : z[x] = 0
      BY <1>1
    <2> HIDE DEF z
    <2>2. SumTo(z, 0 + HistMax) = SumTo(z, 0)
      BY <1>1, <2>1, SumPadded
    <2> QED BY <1>1, <2>2, SumOfNone
  <1> HIDE DEF top
  <1>6. ASSUME NEW x \in 1..HistMax PROVE c[x] <= w[x] /\ w[x] <= u[x]
    <2> DEFINE k == CountAt(S, v, x)
    <2>1. c[x] = k /\ w[x] = x * k /\ u[x] = top * k + 0 /\ k \in Nat /\ x \in Nat \ {0}
      BY <1>1 DEF Counts, Weighted
    <2>2. CASE x <= top
      <3> HIDE DEF k, c, w, u, z
      <3>1. 1 * k <= x * k /\ x * k <= top * k /\ x * k \in Nat /\ top * k \in Nat
        BY <1>3, <2>1, <2>2, ProductsGrow
      <3> QED BY <2>1, <3>1
    <2>3. CASE x > top
      <3>1. {s \in S : v[s] = x} = {}
        BY <1>3, <2>1, <2>3 DEF Samples
      <3>2. k = 0
        BY <3>1, FS_EmptySet DEF CountAt
      <3> HIDE DEF k, c, w, u, z
      <3> QED BY <1>3, <2>1, <3>2
    <2> QED BY <1>3, <2>1, <2>2, <2>3
  <1>7. Summable(u, HistMax)
    <2>1. \A x \in 1..HistMax : c[x] \in Nat /\ z[x] = 0
      BY <1>1 DEF Counts
    <2> HIDE DEF c, z
    <2>2. \A x \in 1..HistMax : top * c[x] + z[x] \in Nat
      BY <1>3, <2>1
    <2> QED BY <2>2 DEF Summable
  <1>8. SumTo(u, HistMax) = top * SumTo(c, HistMax) + SumTo(z, HistMax)
    <2>1. \A x \in 1..HistMax : u[x] = top * c[x] + z[x]
      OBVIOUS
    <2> HIDE DEF c, z, u
    <2> QED BY <1>1, <1>3, <2>1, SumIsLinear
  <1> HIDE DEF c, w, z, u
  <1>9. SumTo(c, HistMax) <= SumTo(w, HistMax) /\ SumTo(w, HistMax) <= SumTo(u, HistMax)
        /\ SumTo(w, HistMax) \in Nat
    BY <1>1, <1>6, <1>7, SumIsMonotonic, SumIsNat
  <1>10. SumTo(u, HistMax) = top * Cardinality(S)
    BY <1>2, <1>3, <1>4, <1>5, <1>8
  <1> QED BY <1>2, <1>4, <1>9, <1>10 DEF top

LEMMA TotalsAdd ==
  ASSUME NEW A, NEW B, NEW R, NEW v, Samples(A, v), Samples(B, v), R = A \cup B, A \cap B = {}
  PROVE  Total(R, v) = Total(A, v) + Total(B, v) /\ Samples(R, v)
PROOF
  <1> DEFINE a == Weighted(A, v)
             b == Weighted(B, v)
             c == Weighted(R, v)
             one == 1
  <1>1. Samples(R, v)
    BY FS_Union DEF Samples
  <1>2. HistMax \in Nat /\ Summable(a, HistMax) /\ Summable(b, HistMax)
    BY SamplerAssumption, CountsAreSummable DEF Samples
  <1>3. ASSUME NEW x \in 1..HistMax PROVE c[x] = one * a[x] + b[x]
    <2> DEFINE i == CountAt(A, v, x)
               j == CountAt(B, v, x)
    <2>1. CountAt(R, v, x) = i + j /\ i \in Nat /\ j \in Nat /\ x \in Nat
      BY <1>2, CountsAdd, CountsAreNat DEF Samples
    <2>2. c[x] = x * CountAt(R, v, x) /\ a[x] = x * i /\ b[x] = x * j
      BY DEF Weighted
    <2> HIDE DEF a, b, c, i, j
    <2>3. x * (i + j) = x * i + x * j /\ x * i \in Nat
      BY <2>1
    <2> QED BY <2>1, <2>2, <2>3
  <1>4. Total(A, v) = SumTo(a, HistMax) /\ Total(B, v) = SumTo(b, HistMax)
        /\ Total(R, v) = SumTo(c, HistMax)
    BY <1>1, TotalOfAll
  <1>5. one = 1 /\ one \in Nat
    OBVIOUS
  <1> HIDE DEF a, b, c, one
  <1>6. SumTo(c, HistMax) = one * SumTo(a, HistMax) + SumTo(b, HistMax)
    BY <1>2, <1>3, <1>5, SumIsLinear
  <1>7. SumTo(a, HistMax) \in Nat
    BY <1>2, SumIsNat
  <1> QED BY <1>1, <1>4, <1>5, <1>6, <1>7

LEMMA SpecKinds ==
  ASSUME NEW n \in Names
  PROVE  /\ n.kind \in {"p", "max", "mean"}
         /\ n.kind = "p" => IsQuantile(Quantile(n))
PROOF
  <1>1. Accepted(n) /\ (n.kind = "p" => n.chars \in Seq(0..Letter))
    BY SamplerAssumption
  <1>2. ASSUME n.kind = "p" PROVE IsQuantile(Quantile(n))
    <2> DEFINE c == n.chars
               d == Divisor(c)
    <2>1. Len(c) \in Nat /\ Value(c) \in 1..d
      BY <1>1, <1>2 DEF Accepted
    <2>2. d \in Nat
      <3>1. U64Max + 1 \in Nat \ {0}
        BY PercentileAssumption
      <3>2. Power10(Len(c)) \in Nat
        <4> DEFINE l == Len(c)
        <4>1. l \in Nat
          BY <2>1
        <4> HIDE DEF l
        <4>2. Power10(l) \in Nat \ {0}
          BY <4>1, PowerNext
        <4> QED BY <4>2 DEF l
      <3> DEFINE k == Power10(Len(c))
                 m == U64Max + 1
      <3>3. d = k % m /\ k \in Nat /\ m \in Nat \ {0}
        BY <3>1, <3>2 DEF Divisor
      <3> HIDE DEF k, m, d
      <3>4. k % m \in 0..(m - 1)
        BY <3>3, Division
      <3> QED BY <3>3, <3>4
    <2> HIDE DEF c, d
    <2>3. Quantile(n) = <<Value(c), d>>
      BY DEF Quantile, c, d
    <2> QED BY <2>1, <2>2, <2>3 DEF IsQuantile
  <1> QED BY <1>1, <1>2 DEF Accepted

(* What makes the value of n at most x.                                     *)
AtMost(n, S, v, x) ==
  \/ n.kind = "p" /\ CountUpTo(S, v, x) * Quantile(n)[2] >= Quantile(n)[1] * Cardinality(S)
  \/ n.kind = "max" /\ \A s \in S : v[s] <= x
  \/ n.kind = "mean" /\ Total(S, v) < (x + 1) * Cardinality(S)

LEMMA QuotientAtMost ==
  ASSUME NEW t \in Nat, NEW k \in Nat \ {0}, NEW x \in Nat
  PROVE  t \div k <= x <=> t < (x + 1) * k
PROOF
  <1> DEFINE q == t \div k
             r == t % k
  <1>1. q \in Nat /\ r \in 0..(k - 1) /\ t = q * k + r
    BY Division
  <1> HIDE DEF q, r
  <1>2. (x + 1) * k = x * k + k /\ (q + 1) * k = q * k + k /\ x * k \in Nat /\ q * k \in Nat
    BY <1>1
  <1>3. CASE q <= x
    <2>1. q * k <= x * k
      BY <1>1, <1>3, ProductsGrow
    <2> QED BY <1>1, <1>2, <1>3, <2>1 DEF q
  <1>4. CASE q > x
    <2>1. (x + 1) * k <= q * k
      BY <1>1, <1>4, ProductsGrow
    <2> QED BY <1>1, <1>2, <1>4, <2>1 DEF q
  <1> QED BY <1>1, <1>3, <1>4

LEMMA ValueAtMost ==
  ASSUME NEW n \in Names, NEW S, NEW v, Samples(S, v), S # {}
  PROVE  /\ SpecValue(n, S, v) \in Nat \ {0}
         /\ \A x \in Nat : SpecValue(n, S, v) <= x <=> AtMost(n, S, v, x)
PROOF
  <1> DEFINE y == SpecValue(n, S, v)
  <1>1. CASE n.kind = "p"
    <2>1. y = ValueAtQuantile(S, v, Quantile(n))
      BY <1>1 DEF SpecValue
    <2>2. y \in 1..HistMax
          /\ \A x \in Nat : y <= x <=> CountUpTo(S, v, x) * Quantile(n)[2]
                                         >= Quantile(n)[1] * Cardinality(S)
      <3> DEFINE q == Quantile(n)
      <3>1. IsQuantile(q)
        BY <1>1, SpecKinds
      <3> HIDE DEF q, y
      <3> QED BY <2>1, <3>1, QuantileValue DEF q
    <2> HIDE DEF y
    <2> QED BY <1>1, <2>2, SamplerAssumption DEF AtMost, y
  <1>2. CASE n.kind = "max"
    <2>1. y = Max(Values(S, v))
      BY <1>2 DEF SpecValue
    <2>2. y \in Values(S, v) /\ y \in 1..HistMax /\ \A s \in S : v[s] <= y
      BY <2>1, LargestValue
    <2>3. PICK s \in S : y = v[s]
      BY <2>2 DEF Values
    <2> HIDE DEF y
    <2>4. ASSUME NEW x \in Nat PROVE y <= x <=> \A r \in S : v[r] <= x
      BY <2>2, <2>3, SamplerAssumption DEF Samples
    <2> QED BY <1>2, <2>2, <2>4, SamplerAssumption DEF AtMost, y
  <1>3. CASE n.kind = "mean"
    <2> DEFINE t == Total(S, v)
               k == Cardinality(S)
    <2>1. y = t \div k
      BY <1>3 DEF SpecValue
    <2>2. t \in Nat /\ k \in Nat \ {0} /\ k <= t
      BY TotalInRange
    <2> HIDE DEF t, k, y
    <2>3. \A x \in Nat : y <= x <=> t < (x + 1) * k
      BY <2>1, <2>2, QuotientAtMost
    <2>4. y \in Nat
      BY <2>1, <2>2, Division
    <2>5. y # 0
      <3>1. (0 + 1) * k = k
        BY <2>2
      <3> QED BY <2>2, <2>3, <3>1
    <2> QED BY <1>3, <2>3, <2>4, <2>5 DEF AtMost, t, k, y
  <1> QED BY <1>1, <1>2, <1>3, SpecKinds

(* With two windows it is as with both, when it is as with each.              *)
LEMMA AtMostOfBoth ==
  ASSUME NEW n \in Names, NEW A, NEW B, NEW R, NEW v, NEW x \in Nat, Samples(A, v), Samples(B, v),
         R = A \cup B, A \cap B = {}, AtMost(n, A, v, x) <=> AtMost(n, B, v, x)
  PROVE  AtMost(n, R, v, x) <=> AtMost(n, A, v, x)
PROOF
  <1>a. Samples(R, v)
    BY TotalsAdd
  <1>1. IsFiniteSet(A) /\ IsFiniteSet(B) /\ IsFiniteSet(R)
    BY <1>a DEF Samples
  <1>2. CASE n.kind = "p"
    <2> DEFINE q == Quantile(n)
               C(S) == CountUpTo(S, v, x)
               N(S) == Cardinality(S)
    <2>1. q[1] \in Nat /\ q[2] \in Nat
      BY <1>2, SpecKinds DEF IsQuantile
    <2>2. /\ C(A) \in Nat /\ C(B) \in Nat /\ N(A) \in Nat /\ N(B) \in Nat
          /\ C(R) = C(A) + C(B) /\ N(R) = N(A) + N(B)
      BY <1>1, CountsAdd, CountsAreNat
    <2>3. ASSUME NEW S PROVE AtMost(n, S, v, x) <=> C(S) * q[2] >= q[1] * N(S)
      BY <1>2 DEF AtMost
    <2> HIDE DEF q, C, N
    <2>4. ASSUME NEW a \in Nat, NEW b \in Nat, NEW c \in Nat, NEW d \in Nat, NEW e \in Nat, NEW f \in Nat,
                 a * e >= f * c <=> b * e >= f * d
          PROVE  (a + b) * e >= f * (c + d) <=> a * e >= f * c
      <3>1. /\ (a + b) * e = a * e + b * e /\ f * (c + d) = f * c + f * d
            /\ a * e \in Nat /\ b * e \in Nat /\ f * c \in Nat /\ f * d \in Nat
        OBVIOUS
      <3> QED BY <2>4, <3>1
    <2> QED BY <2>1, <2>2, <2>3, <2>4
  <1>3. CASE n.kind = "max"
    <2>1. \A S : AtMost(n, S, v, x) <=> \A s \in S : v[s] <= x
      BY <1>3 DEF AtMost
    <2> QED BY <2>1
  <1>4. CASE n.kind = "mean"
    <2> DEFINE t(S) == Total(S, v)
               N(S) == Cardinality(S)
    <2>1. t(A) \in Nat /\ t(B) \in Nat /\ t(R) = t(A) + t(B)
      <3>1. ASSUME NEW S, Samples(S, v) PROVE t(S) \in Nat
        <4>1. HistMax \in 0..HistMax
          BY SamplerAssumption
        <4>2. IsFiniteSet(S)
          BY <3>1 DEF Samples
        <4> QED BY <3>1, <4>1, <4>2, TotalOfAll, CountsAreSummable, SumIsNat, SamplerAssumption
      <3> QED BY <3>1, TotalsAdd
    <2>2. N(A) \in Nat /\ N(B) \in Nat /\ N(R) = N(A) + N(B)
      BY <1>1, CountsAdd, CountsAreNat
    <2>3. ASSUME NEW S PROVE AtMost(n, S, v, x) <=> t(S) < (x + 1) * N(S)
      BY <1>4 DEF AtMost
    <2> HIDE DEF t, N
    <2>4. /\ (x + 1) * (N(A) + N(B)) = (x + 1) * N(A) + (x + 1) * N(B)
          /\ (x + 1) * N(A) \in Nat /\ (x + 1) * N(B) \in Nat
      BY <2>2
    <2> QED BY <2>1, <2>2, <2>3, <2>4
  <1> QED BY <1>2, <1>3, <1>4, SpecKinds

(* The value of two windows together is between those of the two.             *)
LEMMA ValueOfBoth ==
  ASSUME NEW n \in Names, NEW A, NEW B, NEW R, NEW v, Samples(A, v), Samples(B, v),
         A # {}, B # {}, R = A \cup B, A \cap B = {}
  PROVE  \E lo, hi \in {SpecValue(n, A, v), SpecValue(n, B, v)} : SpecValue(n, R, v) \in lo..hi
PROOF
  <1> DEFINE a == SpecValue(n, A, v)
             b == SpecValue(n, B, v)
             c == SpecValue(n, R, v)
  <1>1. Samples(R, v) /\ R # {}
    BY TotalsAdd
  <1>2. a \in Nat \ {0} /\ b \in Nat \ {0} /\ c \in Nat
    BY <1>1, ValueAtMost
  <1>3. ASSUME NEW x \in Nat, a <= x <=> b <= x PROVE c <= x <=> a <= x
    <2>1. (a <= x <=> AtMost(n, A, v, x)) /\ (b <= x <=> AtMost(n, B, v, x))
          /\ (c <= x <=> AtMost(n, R, v, x))
      BY <1>1, ValueAtMost
    <2> HIDE DEF a, b, c
    <2>2. AtMost(n, A, v, x) <=> AtMost(n, B, v, x)
      BY <1>3, <2>1
    <2>3. AtMost(n, R, v, x) <=> AtMost(n, A, v, x)
      BY <2>2, AtMostOfBoth
    <2> QED BY <2>1, <2>3
  <1> HIDE DEF a, b, c
  <1>4. ASSUME NEW l \in {a, b}, NEW h \in {a, b}, l <= a, l <= b, a <= h, b <= h
        PROVE  c \in l..h
    <2>1. c <= h
      BY <1>2, <1>3, <1>4
    <2>2. ~(c <= l - 1)
      <3>1. l - 1 \in Nat /\ ~(a <= l - 1) /\ ~(b <= l - 1)
        BY <1>2, <1>4
      <3> QED BY <1>3, <3>1
    <2> QED BY <1>2, <2>1, <2>2
  <1>5. \E l, h \in {a, b} : l <= a /\ l <= b /\ a <= h /\ b <= h
    <2>1. CASE a <= b
      BY <1>2, <2>1
    <2>2. CASE b <= a
      BY <1>2, <2>2
    <2> QED BY <1>2, <2>1, <2>2
  <1> QED BY <1>4, <1>5 DEF a, b, c

(* The value of many windows together is between those of two of them.        *)
LEMMA ValueOfWindows ==
  ASSUME NEW n \in Names, NEW v, NEW m \in Nat, NEW W, \A i \in 1..m : Samples(W[i], v),
         \A i, j \in 1..m : i # j => W[i] \cap W[j] = {},
         NEW R, R = UNION {W[i] : i \in 1..m}, R # {}
  PROVE  \E i, j \in 1..m : /\ SpecValue(n, W[i], v) # 0 /\ SpecValue(n, W[j], v) # 0
                            /\ SpecValue(n, R, v) \in SpecValue(n, W[i], v)..SpecValue(n, W[j], v)
PROOF
  <1> DEFINE U(k) == UNION {W[i] : i \in 1..k}
             F(S) == SpecValue(n, S, v)
             E(k) == {F(W[i]) : i \in 1..k} \ {0}
             Between(k) == \E lo, hi \in E(k) : F(U(k)) \in lo..hi
             P(k) == Samples(U(k), v) /\ (U(k) # {} => Between(k))
             J == {k \in Nat : k <= m => P(k)}
  <1>1. 0 \in J
    <2>1. U(0) = {}
      OBVIOUS
    <2>2. Samples(U(0), v)
      BY <2>1, FS_EmptySet DEF Samples
    <2> QED BY <2>1, <2>2
  <1>2. ASSUME NEW k \in Nat, k \in J PROVE k + 1 \in J
    <2> HIDE DEF P
    <2> SUFFICES ASSUME k + 1 <= m PROVE P(k + 1)
      OBVIOUS
    <2>p. P(k)
      BY <1>2
    <2> USE DEF P
    <2> DEFINE w == W[k + 1]
    <2>1. Samples(U(k), v) /\ (U(k) # {} => Between(k)) /\ Samples(w, v)
      <3>1. Samples(w, v)
        OBVIOUS
      <3> HIDE DEF U, E, w, F
      <3> QED BY <2>p, <3>1
    <2>2. U(k + 1) = U(k) \cup w
      OBVIOUS
    <2>3. U(k) \cap w = {}
      OBVIOUS
    <2>4. E(k + 1) = (E(k) \cup {F(w)}) \ {0}
      OBVIOUS
    <2> HIDE DEF U, E, w, F
    <2>5. Samples(U(k + 1), v)
      BY <2>1, <2>2, <2>3, TotalsAdd
    <2>6. ASSUME NEW S, Samples(S, v), S # {} PROVE F(S) \in Nat \ {0}
      BY <2>6, ValueAtMost DEF F
    <2>7. CASE U(k) = {}
      <3>1. U(k + 1) = w
        BY <2>2, <2>7
      <3>2. CASE w = {}
        BY <2>5, <3>1, <3>2
      <3>3. CASE w # {}
        <4>1. F(w) \in E(k + 1) /\ F(w) \in F(w)..F(w)
          BY <2>1, <2>4, <2>6, <3>3
        <4> QED BY <2>5, <3>1, <4>1
      <3> QED BY <3>2, <3>3
    <2>8. CASE w = {} /\ U(k) # {}
      <3>1. U(k + 1) = U(k)
        BY <2>2, <2>8
      <3>2. PICK lo, hi \in E(k) : F(U(k)) \in lo..hi
        BY <2>1, <2>8
      <3>3. lo \in E(k + 1) /\ hi \in E(k + 1)
        <4>1. 0 \notin E(k)
          BY DEF E
        <4> QED BY <2>4, <4>1
      <3> QED BY <2>5, <3>1, <3>2, <3>3
    <2>9. CASE w # {} /\ U(k) # {}
      <3>1. PICK lo, hi \in E(k) : F(U(k)) \in lo..hi
        BY <2>1, <2>9
      <3>2. PICK l, h \in {F(U(k)), F(w)} : F(U(k + 1)) \in l..h
        <4> DEFINE u == U(k)
                   r == U(k + 1)
        <4>1. Samples(u, v) /\ Samples(w, v) /\ u # {} /\ w # {} /\ r = u \cup w /\ u \cap w = {}
          BY <2>1, <2>2, <2>3, <2>9
        <4> HIDE DEF u, r
        <4>2. \E l, h \in {SpecValue(n, u, v), SpecValue(n, w, v)} : SpecValue(n, r, v) \in l..h
          BY ONLY <4>1, ValueOfBoth, n \in Names
        <4>3. \E l, h \in {F(u), F(w)} : F(r) \in l..h
          BY <4>2 DEF F
        <4> QED BY <4>3 DEF u, r
      <3>3. F(w) \in Nat \ {0} /\ F(U(k)) \in Nat /\ F(U(k + 1)) \in Nat
        <4>1. U(k + 1) # {}
          BY <2>2, <2>9
        <4> QED BY <2>1, <2>5, <2>6, <2>9, <4>1
      <3>4. E(k + 1) = E(k) \cup {F(w)}
        <4>1. 0 \notin E(k)
          BY DEF E
        <4> QED BY <2>4, <3>3, <4>1
      <3>5. lo \in Int /\ hi \in Int
        <4>1. \A i \in 1..k : W[i] # {} => F(W[i]) \in Nat
          BY <2>6
        <4>2. \A i \in 1..k : W[i] = {} => F(W[i]) = 0
          BY DEF F, SpecValue
        <4>3. E(k) \subseteq Int
          BY <4>1, <4>2 DEF E
        <4> QED BY <4>3
      <3>6. PICK l2, h2 \in E(k + 1) : l2 <= l /\ h <= h2 /\ l2 \in Int /\ h2 \in Int
        <4>1. \A e \in {F(U(k)), F(w)} : \E f \in E(k + 1) : f <= e /\ f \in Int
          BY <3>1, <3>3, <3>4, <3>5
        <4>2. \A e \in {F(U(k)), F(w)} : \E f \in E(k + 1) : e <= f /\ f \in Int
          BY <3>1, <3>3, <3>4, <3>5
        <4> QED BY <4>1, <4>2
      <3>7. F(U(k + 1)) \in l2..h2
        <4>1. l \in Int /\ h \in Int
          BY <3>3
        <4> QED BY <3>2, <3>3, <3>6, <4>1
      <3> QED BY <2>5, <3>6, <3>7
    <2> QED BY <2>7, <2>8, <2>9
  <1>3. m \in J
    <2> HIDE DEF J
    <2> QED BY <1>1, <1>2, Induct
  <1>4. R = U(m)
    OBVIOUS
  <1> HIDE DEF U
  <1>5. Between(m)
    BY <1>3, <1>4
  <1> QED BY <1>4, <1>5

(* No percentile of a histogram is below a lower one, or above the maximum.   *)
InOrder(st) ==
  LET q == st.quantile
  IN  /\ q.p50 <= q.p75 /\ q.p75 <= q.p90 /\ q.p90 <= q.p95 /\ q.p95 <= q.p99
      /\ q.p99 <= q.p99_9 /\ q.p99_9 <= q.p99_99 /\ q.p99_99 <= st.max
      /\ st.sum <= st.max * st.total_count

LEMMA StatsInOrder ==
  ASSUME NEW S, NEW v, Samples(S, v)
  PROVE  InOrder(Stats(S, v))
PROOF
  <1> DEFINE F(f) == IF S = {} THEN 0 ELSE ValueAtQuantile(S, v, StatQuantile[f])
             top == IF S = {} THEN 0 ELSE Max(Values(S, v))
             sum == Total(S, v)
             st == Stats(S, v)
             q == st.quantile
  <1>1. /\ q.p50 = F("p50") /\ q.p75 = F("p75") /\ q.p90 = F("p90") /\ q.p95 = F("p95")
        /\ q.p99 = F("p99") /\ q.p99_9 = F("p99_9") /\ q.p99_99 = F("p99_99")
    <2>1. q = [f \in DOMAIN StatQuantile |-> F(f)]
      BY DEF Stats
    <2>2. DOMAIN StatQuantile = {"p50", "p75", "p90", "p95", "p99", "p99_9", "p99_99"}
      BY DEF StatQuantile
    <2> HIDE DEF F, q
    <2> QED BY <2>1, <2>2
  <1>2. st.max = top /\ st.sum = sum /\ st.total_count = Cardinality(S)
    BY DEF Stats
  <1>3. CASE S = {}
    <2>1. sum = 0 /\ top = 0 /\ Cardinality(S) = 0 /\ \A f : F(f) = 0
      BY <1>3, FS_EmptySet DEF Total
    <2> HIDE DEF F, top, sum, st
    <2>2. InOrder(st)
      BY <1>1, <1>2, <2>1 DEF InOrder
    <2> QED BY <2>2 DEF st
  <1>4. CASE S # {}
    <2> DEFINE c(x) == CountUpTo(S, v, x)
               k == Cardinality(S)
               V(a, b) == ValueAtQuantile(S, v, <<a, b>>)
    <2>1. k \in Nat /\ sum <= top * k
      BY <1>4, TotalInRange
    <2>2. ASSUME NEW a \in Nat \ {0}, NEW b \in Nat, a <= b
          PROVE  /\ V(a, b) \in Nat /\ V(a, b) <= top
                 /\ \A x \in Nat : V(a, b) <= x <=> c(x) * b >= a * k
      <3> DEFINE r == <<a, b>>
      <3>1. IsQuantile(r) /\ r[1] = a /\ r[2] = b
        BY <2>2 DEF IsQuantile
      <3> HIDE DEF r
      <3>2. LET y == ValueAtQuantile(S, v, r)
            IN  /\ y \in Values(S, v) /\ y \in 1..HistMax
                /\ \A x \in Nat : y <= x <=> c(x) * r[2] >= r[1] * k
        BY <1>4, <3>1, QuantileValue
      <3>3. \A y \in Values(S, v) : y <= Max(Values(S, v))
        <4> DEFINE m == Max(Values(S, v))
        <4>1. \A s \in S : v[s] <= m
          BY <1>4, LargestValue
        <4> HIDE DEF m
        <4>2. \A y \in Values(S, v) : y <= m
          BY <4>1 DEF Values
        <4> QED BY <4>2 DEF m
      <3> HIDE DEF c, k
      <3> QED BY <1>4, <3>1, <3>2, <3>3, SamplerAssumption DEF r
    <2>3. ASSUME NEW x PROVE c(x) \in Nat
      BY CountsAreNat DEF Samples
    <2>4. /\ F("p50") = V(50, 100) /\ F("p75") = V(75, 100) /\ F("p90") = V(90, 100)
          /\ F("p95") = V(95, 100) /\ F("p99") = V(99, 100) /\ F("p99_9") = V(999, 1000)
          /\ F("p99_99") = V(9999, 10000)
      BY <1>4 DEF StatQuantile
    <2> HIDE DEF c, k, V, F, top, sum
    <2>5. V(50, 100) <= V(75, 100)
      <3>1. V(75, 100) \in Nat /\ c(V(75, 100)) * 100 >= 75 * k
        BY <2>2
      <3>2. c(V(75, 100)) * 100 >= 50 * k
        BY <2>1, <2>3, <3>1
      <3> QED BY <2>2, <3>1, <3>2
    <2>6. V(75, 100) <= V(90, 100)
      <3>1. V(90, 100) \in Nat /\ c(V(90, 100)) * 100 >= 90 * k
        BY <2>2
      <3>2. c(V(90, 100)) * 100 >= 75 * k
        BY <2>1, <2>3, <3>1
      <3> QED BY <2>2, <3>1, <3>2
    <2>7. V(90, 100) <= V(95, 100)
      <3>1. V(95, 100) \in Nat /\ c(V(95, 100)) * 100 >= 95 * k
        BY <2>2
      <3>2. c(V(95, 100)) * 100 >= 90 * k
        BY <2>1, <2>3, <3>1
      <3> QED BY <2>2, <3>1, <3>2
    <2>8. V(95, 100) <= V(99, 100)
      <3>1. V(99, 100) \in Nat /\ c(V(99, 100)) * 100 >= 99 * k
        BY <2>2
      <3>2. c(V(99, 100)) * 100 >= 95 * k
        BY <2>1, <2>3, <3>1
      <3> QED BY <2>2, <3>1, <3>2
    <2>9. V(99, 100) <= V(999, 1000)
      <3>1. V(999, 1000) \in Nat /\ c(V(999, 1000)) * 1000 >= 999 * k
        BY <2>2
      <3>2. c(V(999, 1000)) * 100 >= 99 * k
        BY <2>1, <2>3, <3>1
      <3> QED BY <2>2, <3>1, <3>2
    <2>10. V(999, 1000) <= V(9999, 10000)
      <3>1. V(9999, 10000) \in Nat /\ c(V(9999, 10000)) * 10000 >= 9999 * k
        BY <2>2
      <3>2. c(V(9999, 10000)) * 1000 >= 999 * k
        BY <2>1, <2>3, <3>1
      <3> QED BY <2>2, <3>1, <3>2
    <2>11. V(9999, 10000) <= top
      BY <2>2
    <2> HIDE DEF st
    <2>12. InOrder(st)
      BY <1>1, <1>2, <2>1, <2>4, <2>5, <2>6, <2>7, <2>8, <2>9, <2>10, <2>11 DEF InOrder, k
    <2> QED BY <2>12 DEF st
  <1> QED BY <1>3, <1>4

-----------------------------------------------------------------------------
(* The values of the series.                                                *)

Measured == \A j \in recorded : val[j] \in Nat \ {0}

(* A request stands for the tick in progress, and its answer is the window    *)
(* given out last; between two requests each tick has its window.             *)
InTurn ==
  /\ mpc = "throughput" \/ (mpc = "sleep" /\ phase = "running") => Len(handed) = Len(tput)
  /\ mpc \in {"errors", "ask"} \/ (mpc = "wait" /\ request) => Len(handed) + 1 = Len(tput)
  /\ mpc \in {"sleep", "throughput", "errors", "ask"} => ~request
  /\ mpc = "wait" /\ request => answer = Nil
  /\ mpc = "wait" /\ answer \notin {Nil, Dropped} =>
       Len(tput) # 0 /\ Len(handed) = Len(tput) /\ answer = handed[Len(tput)]
  /\ mpc = "wait" /\ answer = Nil => request

(* Each value of a series is that of the window of its tick.                  *)
Filed(n, series) ==
  \A i \in 1..Len(series) : /\ series[i].tick \in 1..Len(handed)
                            /\ series[i].value = SpecValue(n, handed[series[i].tick], val)

SeriesFiled == \A n \in Names : Filed(n, lat[n])

ResultFiled ==
  phase = "returned" =>
    /\ result.stats = Stats(hist, val)
    /\ \A n \in Names :
         LET s == result.latency[n]
         IN  /\ Len(s) \in Nat /\ Filed(n, s)
             /\ \A i \in 1..Len(s) : s[i].tick = (i + Times(n) - 1) \div Times(n)

LEMMA ValueIsLocal ==
  ASSUME NEW n \in Names, NEW S, NEW v, NEW w, \A s \in S : v[s] = w[s]
  PROVE  SpecValue(n, S, v) = SpecValue(n, S, w)
PROOF
  <1>1. Values(S, v) = Values(S, w)
    BY DEF Values
  <1>2. ASSUME NEW x PROVE CountUpTo(S, v, x) = CountUpTo(S, w, x) /\ CountAt(S, v, x) = CountAt(S, w, x)
    <2>1. {s \in S : v[s] <= x} = {s \in S : w[s] <= x} /\ {s \in S : v[s] = x} = {s \in S : w[s] = x}
      OBVIOUS
    <2> QED BY <2>1 DEF CountUpTo, CountAt
  <1>3. ASSUME NEW q PROVE ValueAtQuantile(S, v, q) = ValueAtQuantile(S, w, q)
    <2> DEFINE T(u) == {x \in Values(S, u) : CountUpTo(S, u, x) * q[2] >= q[1] * Cardinality(S)}
    <2>1. T(v) = T(w)
      BY <1>1, <1>2
    <2>2. ValueAtQuantile(S, v, q) = Min(T(v)) /\ ValueAtQuantile(S, w, q) = Min(T(w))
      BY DEF ValueAtQuantile
    <2> HIDE DEF T
    <2> QED BY <2>1, <2>2
  <1>4. Total(S, v) = Total(S, w)
    <2> DEFINE top(u) == Max(Values(S, u))
               f(u) == [x \in 1..top(u) |-> x * CountAt(S, u, x)]
    <2>1. top(v) = top(w)
      BY <1>1
    <2> HIDE DEF top
    <2>2. f(v) = f(w)
      BY <1>2, <2>1
    <2>3. \A u : Total(S, u) = IF S = {} THEN 0 ELSE SumTo(f(u), top(u))
      BY DEF Total, top
    <2> HIDE DEF f
    <2> QED BY <2>1, <2>2, <2>3
  <1> QED BY <1>1, <1>3, <1>4, SpecKinds DEF SpecValue

LEMMA LatencyIsPositive ==
  ASSUME NEW enqueued \in Clocks, NEW now \in Clocks
  PROVE  LatencyUs(Stamp(enqueued), Stamp(now)) \in Nat \ {0}
PROOF
  <1> DEFINE e == Stamp(enqueued)
             t == Stamp(now)
             d == IF t >= e THEN (t - e) \div 1000 ELSE 1
  <1>1. e \in Nat /\ t \in Nat
    BY SamplerAssumption DEF Stamp
  <1> HIDE DEF e, t
  <1>2. d \in Nat
    BY <1>1
  <1>3. LatencyUs(e, t) = Max({1, d})
    BY DEF LatencyUs
  <1> HIDE DEF d
  <1>4. \E m \in {1, d} : \A y \in {1, d} : m >= y
    BY <1>2
  <1>5. Max({1, d}) \in {1, d} /\ Max({1, d}) >= 1
    BY <1>4 DEF Max
  <1> QED BY <1>2, <1>3, <1>5 DEF e, t

LEMMA MeasuredNext == Typed /\ Measured /\ [Next]_vars => Measured'
PROOF
  <1> SUFFICES ASSUME Typed, Measured, [Next]_vars PROVE Measured'
    OBVIOUS
  <1>1. ASSUME NEW j \in Jobs, SendLatency(j) PROVE Measured'
    <2>1. PICK enqueued, now \in Clocks :
             val' = [val EXCEPT ![j] = LatencyUs(Stamp(enqueued), Stamp(now))]
      BY <1>1 DEF SendLatency
    <2> DEFINE l == LatencyUs(Stamp(enqueued), Stamp(now))
    <2>2. l \in Nat \ {0}
      BY LatencyIsPositive
    <2> HIDE DEF l
    <2>3. val' = [val EXCEPT ![j] = l] /\ recorded' = recorded \cup {j} /\ val = [k \in Jobs |-> val[k]]
      BY <1>1, <2>1 DEF SendLatency, Typed, l
    <2> QED BY <2>2, <2>3 DEF Measured, Typed
  <1>2. CASE UNCHANGED <<recorded, val>>
    BY <1>2 DEF Measured
  <1>3. CASE Next /\ ~(\E j \in Jobs : SendLatency(j))
    <2>1. UNCHANGED <<recorded, val>>
      BY <1>3 DEF Next, CountCompleted, CountError, FleetExits, CollectorRecv, CollectorSnapshot, CollectorEnd,
                  Tick, SampleThroughput, SampleErrors, AskForWindow, PushWindow, NoWindow,
                  MonitorCancelled, AbortMonitor, SendShutdown, Return, Terminated, vars,
                  fleetVars, collectorVars, monitorVars, mainVars
    <2> QED BY <1>2, <2>1
  <1> QED BY <1>1, <1>2, <1>3 DEF vars, fleetVars

LEMMA InTurnNext == Typed /\ EndsInOrder /\ SeriesAddUp /\ InTurn /\ [Next]_vars => InTurn'
PROOF
  <1> SUFFICES ASSUME Typed, EndsInOrder, SeriesAddUp, InTurn, [Next]_vars PROVE InTurn'
    OBVIOUS
  <1>t. /\ Len(tput) \in Nat /\ Len(handed) \in Nat
        /\ \A d : Len(Append(tput, d)) = Len(tput) + 1
        /\ \A w : Len(Append(handed, w)) = Len(handed) + 1 /\ Append(handed, w)[Len(handed) + 1] = w
    BY DEF Typed, SeriesAddUp
  <1> USE <1>t DEF InTurn
  <1>1. CASE UNCHANGED <<handed, tput, request, answer, mpc, phase>>
    BY <1>1
  <1>2. CASE Tick \/ MonitorCancelled
    BY <1>2 DEF Tick, MonitorCancelled, collectorVars, mainVars
  <1>11. CASE NoWindow
    <2>1. mpc' = "sleep" /\ mpc = "wait" /\ UNCHANGED <<handed, tput, request, answer, phase>>
          /\ answer = Dropped
      BY <1>11 DEF NoWindow, collectorVars, mainVars
    <2>2. phase # "running" /\ ~request
      BY <2>1, AnswersDiffer DEF EndsInOrder
    <2> QED BY <2>1, <2>2
  <1>3. CASE SampleThroughput
    BY <1>3 DEF SampleThroughput, collectorVars
  <1>4. CASE SampleErrors
    BY <1>4 DEF SampleErrors, collectorVars
  <1>5. CASE AskForWindow
    BY <1>5 DEF AskForWindow, EndsInOrder, collectorVars, mainVars
  <1>6. CASE PushWindow
    <2>1. /\ mpc = "wait" /\ answer \notin {Nil, Dropped} /\ mpc' = "sleep"
          /\ UNCHANGED <<handed, tput, request, answer, phase>>
      BY <1>6 DEF PushWindow, collectorVars, mainVars
    <2>2. ~request
      BY <2>1
    <2> QED BY <2>1, <2>2
  <1>7. CASE CollectorSnapshot
    <2>1. /\ request /\ ~request' /\ answer' = perSec /\ handed' = Append(handed, perSec)
          /\ UNCHANGED <<tput, mpc, phase>>
      BY <1>7 DEF CollectorSnapshot, monitorVars, mainVars
    <2>2. answer' # Nil
      BY <2>1, AnswersDiffer DEF Typed
    <2>3. mpc \in {"wait", "cancelled"}
      BY <2>1 DEF Typed
    <2>4. mpc = "wait" => /\ Len(handed) + 1 = Len(tput)
                          /\ handed'[Len(tput)] = answer' /\ Len(handed') = Len(tput)
      BY <2>1
    <2> QED BY <2>1, <2>2, <2>3, <2>4
  <1>8. CASE CollectorEnd
    <2>1. /\ ~request' /\ answer' = IF request THEN Dropped ELSE answer
          /\ UNCHANGED <<handed, tput, mpc, phase>>
      BY <1>8 DEF CollectorEnd, monitorVars, mainVars
    <2> QED BY <2>1, AnswersDiffer
  <1>9. CASE AbortMonitor \/ SendShutdown \/ Return
    <2>1. phase' # "running" /\ UNCHANGED <<handed, tput, request, answer, mpc>>
      BY <1>9 DEF AbortMonitor, SendShutdown, Return, collectorVars, monitorVars
    <2> QED BY <2>1
  <1>10. CASE \/ \E j \in Jobs : SendLatency(j) \/ CountCompleted(j)
              \/ CountError \/ FleetExits \/ CollectorRecv \/ Terminated \/ UNCHANGED vars
    <2>1. UNCHANGED <<handed, tput, request, answer, mpc, phase>>
      BY <1>10 DEF SendLatency, CountCompleted, CountError, FleetExits, CollectorRecv, Terminated, vars,
                   collectorVars, monitorVars, mainVars
    <2> QED BY <1>1, <2>1
  <1> QED BY <1>2, <1>3, <1>4, <1>5, <1>6, <1>7, <1>8, <1>9, <1>10, <1>11 DEF Next

(* What a series is filed by does not change any more.                       *)
LEMMA FiledStays ==
  ASSUME Typed, Received, Partition, NEW n \in Names, NEW series, Filed(n, series),
         \A j \in recorded : val'[j] = val[j],
         handed' = handed \/ handed' = Append(handed, perSec)
  PROVE  Filed(n, series)'
PROOF
  <1>1. /\ handed \in Seq(SUBSET Jobs) /\ Len(handed) \in Nat /\ Len(handed') >= Len(handed)
        /\ Len(handed') \in Nat /\ \A i \in 1..Len(handed) : handed'[i] = handed[i]
    BY DEF Typed
  <1>2. ASSUME NEW i \in 1..Len(series)
        PROVE  /\ series[i].tick \in 1..Len(handed')
               /\ series[i].value = SpecValue(n, handed'[series[i].tick], val')
    <2> DEFINE t == series[i].tick
    <2>1. t \in 1..Len(handed) /\ series[i].value = SpecValue(n, handed[t], val)
      BY DEF Filed
    <2>2. handed[t] \subseteq recorded
      BY <2>1 DEF Partition, WindowsPartitionHistogram, Windows, Received
    <2> HIDE DEF t
    <2>3. SpecValue(n, handed[t], val) = SpecValue(n, handed[t], val')
      <3>1. \A j \in handed[t] : val[j] = val'[j]
        BY <2>2
      <3> QED BY <3>1, ValueIsLocal
    <2>4. handed'[t] = handed[t] /\ t \in 1..Len(handed')
      BY <1>1, <2>1
    <2> QED BY <2>1, <2>3, <2>4 DEF t
  <1> QED BY <1>2 DEF Filed

LEMMA StepsKeepWindows ==
  Typed /\ [Next]_vars => /\ \A j \in recorded : val'[j] = val[j]
                          /\ handed' = handed \/ handed' = Append(handed, perSec)
PROOF
  <1> SUFFICES ASSUME Typed, [Next]_vars
               PROVE  /\ \A j \in recorded : val'[j] = val[j]
                      /\ handed' = handed \/ handed' = Append(handed, perSec)
    OBVIOUS
  <1>1. ASSUME NEW j \in Jobs, SendLatency(j) PROVE \A k \in recorded : val'[k] = val[k]
    BY <1>1 DEF SendLatency, Typed
  <1>2. ASSUME NEW j \in Jobs, SendLatency(j) PROVE handed' = handed
    BY <1>2 DEF SendLatency, collectorVars
  <1>3. CASE UNCHANGED <<handed, val>> \/ (UNCHANGED val /\ handed' = Append(handed, perSec))
    BY <1>3
  <1>4. CASE Next /\ ~(\E j \in Jobs : SendLatency(j))
    <2>1. UNCHANGED val /\ (UNCHANGED handed \/ handed' = Append(handed, perSec))
      BY <1>4 DEF Next, CountCompleted, CountError, FleetExits, CollectorRecv, CollectorSnapshot, CollectorEnd,
                  Tick, SampleThroughput, SampleErrors, AskForWindow, PushWindow, NoWindow,
                  MonitorCancelled, AbortMonitor, SendShutdown, Return, Terminated, vars,
                  fleetVars, collectorVars, monitorVars, mainVars
    <2> QED BY <1>3, <2>1
  <1> QED BY <1>1, <1>2, <1>3, <1>4 DEF vars, fleetVars, collectorVars

LEMMA SeriesFiledNext ==
  Typed /\ Received /\ Partition /\ SeriesAddUp /\ InStep /\ InTurn /\ SeriesFiled /\ [Next]_vars
    => SeriesFiled'
PROOF
  <1> SUFFICES ASSUME Typed, Received, Partition, SeriesAddUp, InStep, InTurn, SeriesFiled, [Next]_vars
               PROVE  SeriesFiled'
    OBVIOUS
  <1>1. ASSUME NEW n \in Names PROVE Filed(n, lat[n]) /\ \E S : lat[n] \in Seq(S)
    BY DEF SeriesFiled, InStep, Pushes
  <1>2. CASE lat' = lat
    <2> SUFFICES ASSUME NEW n \in Names PROVE Filed(n, lat[n])'
      BY DEF SeriesFiled
    <2> DEFINE s == lat[n]
    <2>1. Filed(n, s) /\ s' = s
      BY <1>1, <1>2
    <2>2. ASSUME NEW x, x = s PROVE Filed(n, x)'
      <3>1. Filed(n, x)
        BY <2>1, <2>2
      <3> HIDE DEF s
      <3> QED BY <3>1, StepsKeepWindows, FiledStays
    <2> QED BY <2>1, <2>2
  <1>3. CASE PushWindow
    <2> SUFFICES ASSUME NEW n \in Names PROVE Filed(n, lat[n])'
      BY DEF SeriesFiled
    <2> DEFINE k == Len(tput)
               T == Times(n)
               new == [i \in 1..T |-> [tick |-> k, value |-> SpecValue(n, answer, val)]]
    <2>1. UNCHANGED <<handed, val>> /\ lat'[n] = lat[n] \o new
      BY <1>3 DEF PushWindow, Pushed, fleetVars, collectorVars
    <2>2. k \in 1..Len(handed) /\ answer = handed[k]
      BY <1>3 DEF PushWindow, InTurn, SeriesAddUp
    <2>3. T \in Nat
      BY TimesIsPositive
    <2> HIDE DEF T, k
    <2>4. Len(new) = T /\ \A i \in 1..T : new[i].tick = k /\ new[i].value = SpecValue(n, handed[k], val)
      BY <2>2, <2>3
    <2>5. PICK S : lat[n] \in Seq(S)
      BY <1>1
    <2>6. Len(lat'[n]) = Len(lat[n]) + T /\ Len(lat[n]) \in Nat
          /\ \A i \in 1..(Len(lat[n]) + T) :
               lat'[n][i] = IF i <= Len(lat[n]) THEN lat[n][i] ELSE new[i - Len(lat[n])]
      <3> DEFINE U == S \cup {[tick |-> k, value |-> SpecValue(n, answer, val)]}
      <3>1. lat[n] \in Seq(U) /\ new \in Seq(U)
        <4>1. new \in [1..T -> U]
          OBVIOUS
        <4> HIDE DEF new
        <4> QED BY <2>3, <2>5, <4>1
      <3> HIDE DEF U, new
      <3>2. Len(lat'[n]) = Len(lat[n]) + T /\ Len(lat[n]) \in Nat
        <4>1. lat'[n] = lat[n] \o new /\ Len(new) = T
          BY <2>1, <2>4
        <4> QED BY <3>1, <4>1
      <3>3. ASSUME NEW i \in 1..Len(lat[n]) PROVE lat'[n][i] = lat[n][i]
        BY <2>1, <3>1
      <3>4. ASSUME NEW r \in 1..T PROVE lat'[n][Len(lat[n]) + r] = new[r]
        BY <2>1, <2>4, <3>1, Appended
      <3>5. ASSUME NEW i \in 1..(Len(lat[n]) + T), i > Len(lat[n])
            PROVE  lat'[n][i] = new[i - Len(lat[n])]
        <4> DEFINE r == i - Len(lat[n])
        <4>1. r \in 1..T /\ Len(lat[n]) + r = i
          BY <2>3, <3>2, <3>5
        <4> HIDE DEF r
        <4>2. lat'[n][i] = new[r]
          BY <3>4, <4>1
        <4> QED BY <4>2 DEF r
      <3> QED BY <2>3, <3>2, <3>3, <3>5
    <2> HIDE DEF new
    <2>7. ASSUME NEW i \in 1..Len(lat'[n])
          PROVE  /\ lat'[n][i].tick \in 1..Len(handed)
                 /\ lat'[n][i].value = SpecValue(n, handed[lat'[n][i].tick], val)
      <3>1. CASE i <= Len(lat[n])
        <4>1. i \in 1..Len(lat[n]) /\ lat'[n][i] = lat[n][i]
          BY <2>3, <2>6, <3>1
        <4> QED BY <1>1, <4>1 DEF Filed
      <3>2. CASE i > Len(lat[n])
        <4>1. i - Len(lat[n]) \in 1..T /\ lat'[n][i] = new[i - Len(lat[n])]
          BY <2>3, <2>6, <3>2
        <4> QED BY <2>2, <2>4, <4>1
      <3> QED BY <2>3, <2>6, <3>1, <3>2
    <2> QED BY <2>1, <2>7 DEF Filed
  <1>4. CASE Next /\ ~PushWindow
    <2>1. lat' = lat
      BY <1>4 DEF Next, SendLatency, CountCompleted, CountError, FleetExits, CollectorRecv, CollectorSnapshot,
                  CollectorEnd, Tick, SampleThroughput, SampleErrors, AskForWindow, NoWindow,
                  MonitorCancelled, AbortMonitor, SendShutdown, Return, Terminated, vars,
                  fleetVars, collectorVars, monitorVars, mainVars
    <2> QED BY <1>2, <2>1
  <1> QED BY <1>2, <1>3, <1>4 DEF vars, monitorVars

LEMMA ResultFiledNext ==
  Typed /\ EndsInOrder /\ InStep /\ SeriesFiled /\ ResultFiled /\ [Next]_vars => ResultFiled'
PROOF
  <1> SUFFICES ASSUME Typed, EndsInOrder, InStep, SeriesFiled, ResultFiled, [Next]_vars
               PROVE  ResultFiled'
    OBVIOUS
  <1>1. CASE Return
    <2>1. /\ result' = [throughput |-> tput, errors |-> errs, latency |-> lat,
                        total |-> completed, stats |-> Stats(hist, val)]
          /\ UNCHANGED <<hist, val, handed>>
      BY <1>1 DEF Return, fleetVars, collectorVars
    <2>2. result'.stats = Stats(hist, val) /\ result'.latency = lat
      BY <2>1
    <2>3. ASSUME NEW n \in Names
          PROVE  /\ Len(lat[n]) \in Nat /\ Filed(n, lat[n])
                 /\ \A i \in 1..Len(lat[n]) : lat[n][i].tick = (i + Times(n) - 1) \div Times(n)
      BY DEF InStep, Pushes, SeriesFiled
    <2>4. ASSUME NEW n \in Names, NEW s, Filed(n, s) PROVE Filed(n, s)'
      BY <2>1, <2>4 DEF Filed
    <2> QED BY <2>1, <2>2, <2>3, <2>4 DEF ResultFiled
  <1>2. CASE phase = "returned"
    <2>1. cdone /\ fleetGone
      BY <1>2 DEF EndsInOrder
    <2>2. UNCHANGED <<hist, val, handed, result>>
      BY <1>2, <2>1 DEF Next, SendLatency, CountCompleted, CountError, FleetExits, CollectorRecv,
                  CollectorSnapshot, CollectorEnd, Tick, SampleThroughput, SampleErrors, AskForWindow,
                  PushWindow, NoWindow, MonitorCancelled, AbortMonitor, SendShutdown, Return, Terminated,
                  vars, fleetVars, collectorVars, monitorVars, mainVars
    <2>3. ASSUME NEW n \in Names, NEW s, Filed(n, s) PROVE Filed(n, s)'
      BY <2>2, <2>3 DEF Filed
    <2> QED BY <1>2, <2>2, <2>3 DEF ResultFiled
  <1>3. CASE phase # "returned" /\ ~Return
    <2>1. phase' # "returned"
      BY <1>3 DEF Next, SendLatency, CountCompleted, CountError, FleetExits, CollectorRecv, CollectorSnapshot,
                  CollectorEnd, Tick, SampleThroughput, SampleErrors, AskForWindow, PushWindow, NoWindow,
                  MonitorCancelled, AbortMonitor, SendShutdown, Terminated, vars,
                  fleetVars, collectorVars, monitorVars, mainVars
    <2> QED BY <2>1 DEF ResultFiled
  <1> QED BY <1>1, <1>2, <1>3

(* The percentiles of the result are in order, and each lies between two      *)
(* values of its series, the windows that are in no series added: however     *)
(* the jobs are spread over the windows and wherever the monitor is aborted.  *)
THEOREM StatisticsAlwaysAgree == Spec => []StatisticsAgree
PROOF
  <1>1. Init => Measured /\ InTurn /\ SeriesFiled /\ ResultFiled
    BY DEF Init, Measured, InTurn, SeriesFiled, Filed, ResultFiled
  <1>2. Typed /\ Received /\ Partition /\ Measured /\ ResultFiled => StatisticsAgree
    <2> SUFFICES ASSUME Typed, Received, Partition, Measured, ResultFiled, phase = "returned"
                 PROVE  StatisticsAgree
      BY DEF StatisticsAgree
    <2>1. /\ Samples(hist, val) /\ hist \subseteq Jobs
          /\ \A S \in SUBSET hist : Samples(S, val)
      <3>1. \A j \in hist : val[j] \in 1..HistMax
        BY SamplerAssumption DEF Received, Measured, InRange
      <3>2. IsFiniteSet(hist)
        BY SamplerAssumption, FS_Subset DEF Typed
      <3>3. \A S \in SUBSET hist : IsFiniteSet(S)
        BY <3>2, FS_Subset
      <3> QED BY <3>1, <3>2, <3>3 DEF Samples, Typed
    <2>2. InOrder(result.stats)
      BY <2>1, StatsInOrder DEF ResultFiled
    <2>3. ASSUME hist # {}, NEW n \in Names
          PROVE  LET Points == ({SpecValue(n, w, val) : w \in Unsampled(n)}
                                \cup {result.latency[n][i].value : i \in 1..Len(result.latency[n])}) \ {0}
                 IN  \E lo, hi \in Points : SpecValue(n, hist, val) \in lo..hi
      <3> DEFINE s == result.latency[n]
                 T == Times(n)
                 m == Len(handed) + 1
                 W == [i \in 1..m |-> IF i = m THEN perSec ELSE handed[i]]
                 F(w) == SpecValue(n, w, val)
                 Points == ({F(w) : w \in Unsampled(n)} \cup {s[i].value : i \in 1..Len(s)}) \ {0}
      <3>1. m \in Nat /\ Len(handed) \in Nat
        BY DEF Typed
      <3>2. hist = UNION {W[i] : i \in 1..m}
        <4>1. W[m] = perSec /\ \A i \in 1..Len(handed) : W[i] = handed[i]
          BY <3>1
        <4>2. 1..m = 1..Len(handed) \cup {m}
          BY <3>1
        <4> HIDE DEF W, m
        <4> QED BY <4>1, <4>2 DEF Partition, WindowsPartitionHistogram, Windows
      <3>3. \A i, j \in 1..m : i # j => W[i] \cap W[j] = {}
        BY <3>1 DEF Partition, WindowsPartitionHistogram
      <3>4. \A i \in 1..m : Samples(W[i], val)
        <4>1. \A i \in 1..m : W[i] \in SUBSET hist
          BY <3>2
        <4> HIDE DEF W, m
        <4> QED BY <2>1, <4>1
      <3>5. PICK i, j \in 1..m : F(W[i]) # 0 /\ F(W[j]) # 0 /\ F(hist) \in F(W[i])..F(W[j])
        <4> HIDE DEF W, m
        <4> QED BY <2>3, <3>1, <3>2, <3>3, <3>4, ValueOfWindows
      <3>6. ASSUME NEW l \in 1..m PROVE F(W[l]) \in Points \cup {0}
        <4>1. CASE l = m
          BY <4>1 DEF Unsampled
        <4>2. CASE l # m /\ Len(s) < l * T
          <5>1. W[l] = handed[l] /\ l \in 1..Len(handed)
            BY <3>1, <4>2
          <5> QED BY <4>2, <5>1 DEF Unsampled
        <4>3. CASE l # m /\ ~(Len(s) < l * T)
          <5>1. W[l] = handed[l] /\ l \in Nat \ {0}
            BY <3>1, <4>3
          <5>2. Len(s) \in Nat /\ Filed(n, s)
                /\ \A e \in 1..Len(s) : s[e].tick = (e + T - 1) \div T
            BY DEF ResultFiled
          <5>3. T \in Nat \ {0}
            BY TimesIsPositive
          <5> DEFINE e == l * T
          <5> HIDE DEF T, s, W, m, F
          <5>4. e \in 1..Len(s)
            BY <4>3, <5>1, <5>2, <5>3
          <5>5. (e + T - 1) \div T = l
            <6>1. e + T - 1 = l * T + (T - 1) /\ T - 1 \in 0..(T - 1)
              BY <5>1, <5>3
            <6> HIDE DEF e
            <6> QED BY <5>1, <5>3, <6>1, Quotient
          <5> HIDE DEF e
          <5>6. s[e].tick = l
            BY <5>2, <5>4, <5>5
          <5>7. s[e].value = F(handed[l])
            BY <5>2, <5>4, <5>6 DEF Filed, F
          <5> QED BY <5>1, <5>4, <5>7
        <4> QED BY <4>1, <4>2, <4>3
      <3>7. F(W[i]) \in Points /\ F(W[j]) \in Points
        <4> HIDE DEF W, m, F, Points
        <4> QED BY <3>5, <3>6
      <3> QED BY <3>5, <3>7
    <2> QED BY <2>2, <2>3 DEF StatisticsAgree, InOrder
  <1>3. WindowsPartitionHistogram => Partition
    BY DEF Partition
  <1> QED BY <1>1, <1>2, <1>3, FlowHolds, WindowsPartition, SeriesSumToCounters, InStepHolds,
             MeasuredNext, InTurnNext, SeriesFiledNext, ResultFiledNext, PTL DEF Spec
===============================================================================
