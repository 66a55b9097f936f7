--------------------------- MODULE DrainTrialProofs ---------------------------
(***************************************************************************)
(* Theorems about DrainTrial, for any number of workers, queues and jobs:  *)
(* the types, where a payload is, what the done signal means, that the     *)
(* result is final, how the fleet stops, and the order it drains in.       *)
(***************************************************************************)
EXTENDS DrainTrial, FiniteSetTheorems, SequenceTheorems, TLAPS

-----------------------------------------------------------------------------
(* Types.                                                                   *)

(* What record_job and inc_completed work on is a payload.                  *)
PayloadInHand == \A w \in Workers : pc[w] \in {"record", "count"} => reply[w] \in Payloads

Typed == TypeOK /\ PayloadInHand

(* What a Redis LPOP finds at the head of a list is a payload.               *)
LEMMA HeadIsPayload ==
  ASSUME WorkerTypeOK, NEW w \in Workers, wire[w] # <<>>
  PROVE  /\ Head(wire[w]) \in Keys
         /\ Tail(wire[w]) \in Seq(Keys)
         /\ queue[Head(wire[w])] \in Seq(Payloads)
         /\ queue[Head(wire[w])] # <<>> => /\ Head(queue[Head(wire[w])]) \in Payloads
                                           /\ Tail(queue[Head(wire[w])]) \in Seq(Payloads)
PROOF
  <1>1. Head(wire[w]) \in Keys /\ Tail(wire[w]) \in Seq(Keys)
    BY HeadTailProperties DEF WorkerTypeOK
  <1>2. queue[Head(wire[w])] \in Seq(Payloads)
    BY <1>1 DEF WorkerTypeOK
  <1> QED BY <1>1, <1>2, HeadTailProperties

(* The scan moves on to a key, or to the sleep.                             *)
LEMMA ScanGoesOn ==
  ASSUME WorkerTypeOK, NEW w \in Workers, ContinueScan(w)
  PROVE  /\ key' \in [Workers -> Keys]
         /\ \/ pc' = [pc EXCEPT ![w] = "issue"]
            \/ pc' = [pc EXCEPT ![w] = "sleep"]
PROOF
  <1>1. CASE key[w] < NumQueues /\ key' = [key EXCEPT ![w] = @ + 1] /\ Goto(w, "issue")
    <2>1. key[w] + 1 \in Keys
      BY <1>1, WorkerAssumption DEF WorkerTypeOK, Keys
    <2> QED BY <1>1, <2>1 DEF WorkerTypeOK, Goto
  <1>2. CASE key[w] = NumQueues /\ Goto(w, "sleep") /\ UNCHANGED key
    BY <1>2 DEF WorkerTypeOK, Goto
  <1> QED BY <1>1, <1>2 DEF ContinueScan

(* The histogram holds finitely many entries.                               *)
LEMMA HistFinite ==
  ASSUME TypeOK
  PROVE  IsFiniteSet(hist) /\ Cardinality(hist) \in Nat
PROOF
  <1>1. IsFiniteSet(Payloads)
    BY WorkerAssumption, FS_Union DEF Payloads
  <1>2. IsFiniteSet(1..HistMax)
    BY TrialAssumption, FS_Interval
  <1>3. IsFiniteSet(Payloads \X (1..HistMax))
    BY <1>1, <1>2, FS_Product
  <1>4. IsFiniteSet(hist)
    BY <1>3, FS_Subset DEF TypeOK
  <1> QED BY <1>4, FS_CardinalityType

LEMMA TypedInit == Init => Typed
PROOF
  <1> SUFFICES ASSUME Init PROVE Typed
    OBVIOUS
  <1>1. queue \in [Keys -> Seq(Payloads)]
    BY BacklogAssumption, SeqMonotonic DEF Init, WorkerInit, BacklogIsPartition, Payloads
  <1>2. 1 \in Keys
    BY WorkerAssumption DEF Keys
  <1>3. wire \in [Workers -> Seq(Keys)]
    BY EmptySeq DEF Init, WorkerInit
  <1> QED BY <1>1, <1>2, <1>3 DEF Init, WorkerInit, Typed, TypeOK, WorkerTypeOK,
                                  PayloadInHand, Payloads, PC, Phase

LEMMA TypedNext == Typed /\ [Next]_vars => Typed'
PROOF
  <1> SUFFICES ASSUME Typed, [Next]_vars PROVE Typed'
    OBVIOUS
  <1> USE DEF Typed, TypeOK, WorkerTypeOK, PayloadInHand, PC, Phase, Goto
  <1>1. ASSUME NEW p \in Foreign, NEW k \in Keys, ForeignPush(p, k), UNCHANGED trialVars
        PROVE  Typed'
    <2>1. Append(queue[k], p) \in Seq(Payloads)
      BY AppendProperties DEF Payloads
    <2> QED BY <1>1, <2>1 DEF ForeignPush, trialVars, metricVars
  <1>2. ASSUME NEW w \in Workers, LpopHit(w), UNCHANGED trialVars
        PROVE  Typed'
    BY <1>2, HeadIsPayload DEF LpopHit, Awaited, trialVars, metricVars
  <1>3. ASSUME NEW w \in Workers, LpopMiss(w), UNCHANGED trialVars
        PROVE  Typed'
    BY <1>3, HeadIsPayload DEF LpopMiss, Awaited, trialVars, metricVars
  <1>4. ASSUME NEW w \in Workers, BreakConnection(w), UNCHANGED trialVars
        PROVE  Typed'
    BY <1>4, EmptySeq DEF BreakConnection, trialVars, metricVars
  <1>5. ASSUME NEW w \in Workers, LoopTop(w), UNCHANGED trialVars
        PROVE  Typed'
    BY <1>5, WorkerAssumption DEF LoopTop, Keys, trialVars, metricVars, redisVars
  <1>6. ASSUME NEW w \in Workers, SendLpop(w), UNCHANGED trialVars
        PROVE  Typed'
    <2>1. Append(wire[w], key[w]) \in Seq(Keys)
      BY AppendProperties
    <2> QED BY <1>6, <2>1 DEF SendLpop, trialVars, metricVars
  <1>7. ASSUME NEW w \in Workers, ReplyHit(w), UNCHANGED trialVars
        PROVE  Typed'
    BY <1>7 DEF ReplyHit, trialVars, metricVars, redisVars
  <1>8. ASSUME NEW w \in Workers, ReplyMiss(w), UNCHANGED trialVars
        PROVE  Typed'
    <2>1. ContinueScan(w) /\ reply' = [reply EXCEPT ![w] = Pending]
      BY <1>8 DEF ReplyMiss
    <2>2. /\ key' \in [Workers -> Keys]
          /\ \/ pc' = [pc EXCEPT ![w] = "issue"]
             \/ pc' = [pc EXCEPT ![w] = "sleep"]
      BY <2>1, ScanGoesOn
    <2>3. UNCHANGED <<redisVars, metricVars, chan, done, shutdown, trialVars>>
      BY <1>8 DEF ReplyMiss
    <2> QED BY <2>1, <2>2, <2>3 DEF trialVars, metricVars, redisVars
  <1>9. ASSUME NEW w \in Workers, ReplyErr(w), UNCHANGED trialVars
        PROVE  Typed'
    <2>1. reply' = [reply EXCEPT ![w] = Pending] /\ errors' = errors + 1
      BY <1>9 DEF ReplyErr
    <2>2. /\ key' \in [Workers -> Keys]
          /\ \/ pc' = [pc EXCEPT ![w] = "issue"]
             \/ pc' = [pc EXCEPT ![w] = "sleep"]
      BY <1>9, ScanGoesOn DEF ReplyErr
    <2>3. PayloadInHand'
      BY <2>1, <2>2
    <2>4. UNCHANGED <<redisVars, completed, finished, chan, done, shutdown>>
      BY <1>9 DEF ReplyErr
    <2>5. WorkerTypeOK'
      <3>1. pc' \in [Workers -> PC]
        BY <2>2
      <3>2. reply' \in [Workers -> Payloads \cup {Nil, Pending}]
        BY <2>1
      <3>3. errors' \in Nat
        BY <2>1
      <3> QED BY <2>2, <2>4, <3>1, <3>2, <3>3 DEF redisVars
    <2>6. UNCHANGED trialVars
      BY <1>9
    <2> QED BY <2>3, <2>5, <2>6 DEF trialVars
  <1>10. ASSUME NEW w \in Workers, RecordJob(w), UNCHANGED trialVars
         PROVE  Typed'
    <2>1. \A wait \in Waits : LatencyUs(wait) \in Nat \ {0}
      BY WorkerAssumption DEF LatencyUs
    <2> QED BY <1>10, <2>1 DEF RecordJob, trialVars, redisVars
  <1>11. ASSUME NEW w \in Workers, CountJob(w), UNCHANGED trialVars
         PROVE  Typed'
    BY <1>11 DEF CountJob, trialVars, redisVars
  <1>12. ASSUME NEW w \in Workers, SignalDone(w), UNCHANGED trialVars
         PROVE  Typed'
    BY <1>12 DEF SignalDone, trialVars, metricVars, redisVars
  <1>13. ASSUME NEW w \in Workers, SleepElapsed(w), UNCHANGED trialVars
         PROVE  Typed'
    BY <1>13 DEF SleepElapsed, trialVars, metricVars, redisVars
  <1>14. ASSUME NEW w \in Workers, ShutdownWakes(w), UNCHANGED trialVars
         PROVE  Typed'
    BY <1>14 DEF ShutdownWakes, trialVars, metricVars, redisVars
  <1>15. ASSUME NEW w \in Workers, GraceExpires(w)
         PROVE  Typed'
    BY <1>15 DEF GraceExpires, workerVars, metricVars, redisVars
  <1>16. ASSUME NEW w \in Workers, Cancel(w)
         PROVE  Typed'
    BY <1>16 DEF Cancel, Parked, trialVars, metricVars, redisVars
  <1>17. CASE Orchestrator
    <2>1. CASE Spawn
      BY <2>1 DEF Spawn, metricVars, redisVars
    <2>2. CASE ConnectFails
      BY <2>2 DEF ConnectFails, workerVars, metricVars, redisVars
    <2>3. CASE TrialDone
      BY <2>3 DEF TrialDone, workerVars, metricVars, redisVars
    <2>4. CASE TrialTimeout
      BY <2>4 DEF TrialTimeout, workerVars, metricVars, redisVars
    <2>5. CASE SendShutdown
      BY <2>5 DEF SendShutdown, metricVars, redisVars
    <2>6. CASE JoinDone
      BY <2>6 DEF JoinDone, workerVars, metricVars, redisVars
    <2>7. CASE Return
      BY <2>7, HistFinite DEF Return, workerVars, metricVars, redisVars
    <2> QED BY <1>17, <2>1, <2>2, <2>3, <2>4, <2>5, <2>6, <2>7 DEF Orchestrator
  <1>18. CASE CollectorRecv
    <2>1. PICK e \in chan : /\ chan' = chan \ {e}
                            /\ \/ e[2] <= HistMax /\ hist' = hist \cup {e} /\ UNCHANGED refused
                               \/ e[2] > HistMax /\ refused' = refused \cup {e} /\ UNCHANGED hist
      BY <1>18 DEF CollectorRecv
    <2>2. e \in Payloads \X (Nat \ {0})
      BY <2>1
    <2>3. hist' \subseteq Payloads \X (1..HistMax)
      BY <2>1, <2>2, TrialAssumption
    <2> QED BY <1>18, <2>1, <2>2, <2>3 DEF CollectorRecv, metricVars, redisVars
  <1>19. CASE CollectorEnd
    BY <1>19 DEF CollectorEnd, workerVars, metricVars, redisVars
  <1>20. CASE UNCHANGED vars
    BY <1>20 DEF vars, workerVars, trialVars, metricVars, redisVars
  <1> QED
    BY <1>1, <1>2, <1>3, <1>4, <1>5, <1>6, <1>7, <1>8, <1>9, <1>10, <1>11, <1>12, <1>13,
       <1>14, <1>15, <1>16, <1>17, <1>18, <1>19, <1>20
    DEF Next, Environment, WorkerActs, WorkerStep, Terminated

(* Every reachable state of a trial has its types; in particular every      *)
(* latency sent is at least 1 and every latency stored is in the            *)
(* histogram's range.                                                       *)
THEOREM Types == Spec => []TypeOK
PROOF
  <1>1. Spec => []Typed
    BY TypedInit, TypedNext, PTL DEF Spec
  <1>2. Typed => TypeOK
    BY DEF Typed
  <1> QED BY <1>1, <1>2, PTL

-----------------------------------------------------------------------------
(* Where payloads are.  OnePlace reads only the lists, the replies, the      *)
(* finished and the unsent payloads; four kinds of steps move a payload.    *)

(* A step that moves no payload.                                            *)
LEMMA NothingMoves ==
  ASSUME OnePlace, UNCHANGED <<queue, unsent, reply, finished>>
  PROVE  OnePlace'
BY DEF OnePlace, InQueue, Held

(* A worker forgets its reply, or learns that a list was empty.              *)
LEMMA ReplyDropped ==
  ASSUME TypeOK, OnePlace, NEW w \in Workers, NEW x, x \notin Payloads,
         reply' = [reply EXCEPT ![w] = x], UNCHANGED <<queue, unsent, finished>>
  PROVE  OnePlace'
PROOF
  <1>1. \A v \in Workers : reply'[v] \in Payloads => v # w /\ reply'[v] = reply[v]
    BY DEF TypeOK, WorkerTypeOK
  <1>2. \A p \in Payloads : Held(p)' => Held(p)
    BY <1>1 DEF Held
  <1> QED BY <1>1, <1>2 DEF OnePlace, InQueue

(* A payload's completion is counted.                                       *)
LEMMA ReplyFinished ==
  ASSUME TypeOK, OnePlace, NEW w \in Workers, reply[w] \in Payloads,
         reply' = [reply EXCEPT ![w] = Pending], finished' = finished \cup {reply[w]},
         UNCHANGED <<queue, unsent>>
  PROVE  OnePlace'
PROOF
  <1>1. \A v \in Workers : reply'[v] \in Payloads => v # w /\ reply'[v] = reply[v]
    BY WorkerAssumption DEF TypeOK, WorkerTypeOK
  <1>2. \A p \in Payloads : Held(p)' => Held(p) /\ p # reply[w]
    BY <1>1 DEF Held, OnePlace
  <1>3. ~InQueue(reply[w]) /\ reply[w] \notin unsent
    BY DEF OnePlace, Held
  <1> QED BY <1>1, <1>2, <1>3 DEF OnePlace, InQueue

(* Another client pushes a payload.                                         *)
LEMMA Pushed ==
  ASSUME TypeOK, OnePlace, NEW q \in Foreign, NEW k \in Keys, q \in unsent,
         unsent' = unsent \ {q}, queue' = [queue EXCEPT ![k] = Append(@, q)],
         UNCHANGED <<reply, finished>>
  PROVE  OnePlace'
PROOF
  <1>1. queue \in [Keys -> Seq(Payloads)] /\ q \in Payloads
    BY DEF TypeOK, WorkerTypeOK, Payloads
  <1>2. /\ Len(queue'[k]) = Len(queue[k]) + 1
        /\ \A i \in 1..Len(queue'[k]) :
             \/ i \in 1..Len(queue[k]) /\ queue'[k][i] = queue[k][i]
             \/ i = Len(queue[k]) + 1 /\ queue'[k][i] = q
    BY <1>1, AppendProperties
  <1>3. \A l \in Keys : l # k => queue'[l] = queue[l]
    BY <1>1
  <1>4. ~InQueue(q) /\ ~Held(q) /\ q \notin finished
    BY <1>1 DEF OnePlace
  <1>5. \A l \in Keys : \A i \in 1..Len(queue'[l]) :
          \/ i \in 1..Len(queue[l]) /\ queue'[l][i] = queue[l][i] /\ queue[l][i] # q
          \/ l = k /\ i = Len(queue[k]) + 1 /\ queue'[l][i] = q
    BY <1>2, <1>3, <1>4 DEF InQueue
  <1>6. \A p \in Payloads : InQueue(p)' => InQueue(p) \/ p = q
    BY <1>5 DEF InQueue
  <1>7. \A l, m \in Keys : \A i \in 1..Len(queue'[l]), j \in 1..Len(queue'[m]) :
          queue'[l][i] = queue'[m][j] => l = m /\ i = j
    BY <1>5 DEF OnePlace
  <1> QED BY <1>4, <1>6, <1>7 DEF OnePlace, Held

(* Redis removes the head of a list; the worker that waits for it gets it,   *)
(* or nobody does.                                                          *)
LEMMA Popped ==
  ASSUME TypeOK, OnePlace, NEW w \in Workers, NEW k \in Keys, queue[k] # <<>>,
         queue' = [queue EXCEPT ![k] = Tail(@)],
         reply' = reply \/ reply' = [reply EXCEPT ![w] = Head(queue[k])],
         UNCHANGED <<unsent, finished>>
  PROVE  OnePlace'
PROOF
  <1> DEFINE h == Head(queue[k])
  <1>1. queue \in [Keys -> Seq(Payloads)]
    BY DEF TypeOK, WorkerTypeOK
  <1>2. /\ h \in Payloads /\ h = queue[k][1]
        /\ Len(queue[k]) \in Nat /\ Len(queue[k]) >= 1
        /\ Len(queue'[k]) = Len(queue[k]) - 1
        /\ \A i \in 1..Len(queue'[k]) : queue'[k][i] = queue[k][i + 1]
    BY <1>1, HeadTailProperties, EmptySeq
  <1>3. \A l \in Keys : l # k => queue'[l] = queue[l]
    BY <1>1
  <1>4. \A l \in Keys : \A i \in 1..Len(queue'[l]) :
          \E j \in 1..Len(queue[l]) : /\ queue'[l][i] = queue[l][j]
                                      /\ j = IF l = k THEN i + 1 ELSE i
    <2> TAKE l \in Keys
    <2>1. CASE l = k
      <3>1. \A i \in 1..Len(queue'[k]) : i + 1 \in 1..Len(queue[k])
        BY <1>2
      <3> QED BY <2>1, <3>1, <1>2
    <2>2. CASE l # k
      BY <2>2, <1>3
    <2> QED BY <2>1, <2>2
  <1>5. \A l \in Keys : \A i \in 1..Len(queue'[l]) : queue'[l][i] # h
    <2> SUFFICES ASSUME NEW l \in Keys, NEW i \in 1..Len(queue'[l]), queue'[l][i] = h
                 PROVE  FALSE
      OBVIOUS
    <2>1. PICK j \in 1..Len(queue[l]) : /\ queue'[l][i] = queue[l][j]
                                        /\ j = IF l = k THEN i + 1 ELSE i
      BY <1>4
    <2>2. 1 \in 1..Len(queue[k])
      BY <1>2
    <2>3. l = k /\ j = 1
      BY <2>1, <2>2, <1>2 DEF OnePlace
    <2> QED BY <2>1, <2>3
  <1>6. \A l, m \in Keys : \A i \in 1..Len(queue'[l]), j \in 1..Len(queue'[m]) :
          queue'[l][i] = queue'[m][j] => l = m /\ i = j
    <2> SUFFICES ASSUME NEW l \in Keys, NEW m \in Keys, NEW i \in 1..Len(queue'[l]),
                        NEW j \in 1..Len(queue'[m]), queue'[l][i] = queue'[m][j]
                 PROVE  l = m /\ i = j
      OBVIOUS
    <2>1. PICK a \in 1..Len(queue[l]) : /\ queue'[l][i] = queue[l][a]
                                        /\ a = IF l = k THEN i + 1 ELSE i
      BY <1>4
    <2>2. PICK b \in 1..Len(queue[m]) : /\ queue'[m][j] = queue[m][b]
                                        /\ b = IF m = k THEN j + 1 ELSE j
      BY <1>4
    <2>3. l = m /\ a = b
      BY <2>1, <2>2 DEF OnePlace
    <2> QED BY <2>1, <2>2, <2>3
  <1>7. InQueue(h)
    <2>1. 1 \in 1..Len(queue[k])
      BY <1>2
    <2> QED BY <2>1, <1>2 DEF InQueue
  <1>8. \A p \in Payloads : InQueue(p)' => InQueue(p) /\ p # h
    BY <1>4, <1>5 DEF InQueue
  <1>9. ~Held(h) /\ h \notin finished /\ h \notin unsent
    BY <1>2, <1>7 DEF OnePlace
  <1>10. \A v \in Workers : reply'[v] = reply[v] \/ (v = w /\ reply'[v] = h)
    BY DEF TypeOK, WorkerTypeOK
  <1>11. \A p \in Payloads : Held(p)' => Held(p) \/ p = h
    BY <1>10 DEF Held
  <1>12. \A u, v \in Workers : reply'[u] = reply'[v] /\ reply'[u] \in Payloads => u = v
    BY <1>9, <1>10 DEF Held, OnePlace
  <1> QED BY <1>6, <1>8, <1>9, <1>11, <1>12 DEF OnePlace

-----------------------------------------------------------------------------
(* The inductive invariant.                                                 *)

(* Whoever announced the end, or is about to, had counted up to the target;  *)
(* the counter never decreases.                                             *)
DoneJustified ==
  /\ done => completed >= Target
  /\ \A w \in Workers : pc[w] = "signal" => completed >= Target

Inv == Typed /\ OnePlace /\ CountedOnce /\ DoneJustified

LEMMA FinishedFinite ==
  ASSUME TypeOK
  PROVE  IsFiniteSet(Payloads) /\ IsFiniteSet(finished)
PROOF
  <1>1. IsFiniteSet(Payloads)
    BY WorkerAssumption, FS_Union DEF Payloads
  <1> QED BY <1>1, FS_Subset DEF TypeOK, WorkerTypeOK

LEMMA InvInit == Init => Inv
PROOF
  <1> SUFFICES ASSUME Init PROVE Inv
    OBVIOUS
  <1>1. Typed
    BY TypedInit
  <1>2. OnePlace
    <2>1. \A w \in Workers : reply[w] \notin Payloads
      BY WorkerAssumption DEF Init, WorkerInit
    <2>2. \A p \in Payloads : InQueue(p) => p \in Jobs
      <3>1. \A k \in Keys : \A i \in 1..Len(Backlog[k]) : Backlog[k][i] \in Jobs
        BY BacklogAssumption, ElementOfSeq DEF BacklogIsPartition
      <3> QED BY <3>1 DEF InQueue, Init, WorkerInit
    <2>3. \A p \in Jobs : p \notin Foreign
      BY WorkerAssumption
    <2> QED BY <2>1, <2>2, <2>3, BacklogAssumption
            DEF OnePlace, Held, Init, WorkerInit, BacklogIsPartition
  <1>3. CountedOnce
    BY FS_EmptySet DEF CountedOnce, Init, WorkerInit
  <1>4. DoneJustified
    BY DEF DoneJustified, Init, WorkerInit
  <1> QED BY <1>1, <1>2, <1>3, <1>4 DEF Inv

(* A step that leaves the counters, the signal and the signalling workers    *)
(* as they are.                                                             *)
LEMMA CountsKept ==
  ASSUME CountedOnce, DoneJustified, UNCHANGED <<completed, finished, done>>,
         \A w \in Workers : pc'[w] = "signal" => pc[w] = "signal"
  PROVE  CountedOnce' /\ DoneJustified'
BY DEF CountedOnce, DoneJustified

LEMMA InvNext == Inv /\ [Next]_vars => Inv'
PROOF
  <1> SUFFICES ASSUME Inv, [Next]_vars PROVE Inv'
    OBVIOUS
  <1>t. Typed'
    BY TypedNext DEF Inv
  <1>i. Typed /\ TypeOK /\ WorkerTypeOK /\ OnePlace /\ CountedOnce /\ DoneJustified
    BY DEF Inv, Typed, TypeOK
  <1>n. Nil \notin Payloads /\ Pending \notin Payloads
    BY WorkerAssumption
  <1> DEFINE Kept == CountedOnce' /\ DoneJustified'
  <1>1. ASSUME NEW p \in Foreign, NEW k \in Keys, ForeignPush(p, k)
        PROVE  OnePlace' /\ Kept
    BY <1>i, <1>1, Pushed, CountsKept DEF ForeignPush, metricVars
  <1>2. ASSUME NEW w \in Workers, LpopHit(w)
        PROVE  OnePlace' /\ Kept
    <2>1. Head(wire[w]) \in Keys
      BY <1>i, <1>2, HeadIsPayload DEF LpopHit
    <2> DEFINE k == Head(wire[w])
    <2>2. /\ queue[k] # <<>> /\ queue' = [queue EXCEPT ![k] = Tail(@)]
          /\ reply' = reply \/ reply' = [reply EXCEPT ![w] = Head(queue[k])]
          /\ UNCHANGED <<unsent, finished>>
      BY <1>2 DEF LpopHit, metricVars
    <2> HIDE DEF k
    <2>3. OnePlace'
      BY <1>i, <2>1, <2>2, Popped DEF k
    <2> QED BY <1>i, <1>2, <2>3, CountsKept DEF LpopHit, metricVars
  <1>3. ASSUME NEW w \in Workers, LpopMiss(w)
        PROVE  OnePlace' /\ Kept
    <2>1. OnePlace'
      BY <1>i, <1>n, <1>3, ReplyDropped, NothingMoves DEF LpopMiss, metricVars
    <2> QED BY <1>i, <1>3, <2>1, CountsKept DEF LpopMiss, metricVars
  <1>4. ASSUME NEW w \in Workers, BreakConnection(w)
        PROVE  OnePlace' /\ Kept
    BY <1>i, <1>4, NothingMoves, CountsKept DEF BreakConnection, metricVars
  <1>5. ASSUME NEW w \in Workers, \/ LoopTop(w) \/ SendLpop(w) \/ ReplyHit(w) \/ RecordJob(w)
                                  \/ SleepElapsed(w) \/ ShutdownWakes(w)
        PROVE  OnePlace' /\ Kept
    <2>1. UNCHANGED <<queue, unsent, reply, finished, completed, done>>
      BY <1>5 DEF LoopTop, SendLpop, ReplyHit, RecordJob, SleepElapsed, ShutdownWakes,
                  redisVars, metricVars
    <2>2. \A v \in Workers : pc'[v] = "signal" => pc[v] = "signal"
      BY <1>i, <1>5 DEF LoopTop, SendLpop, ReplyHit, RecordJob, SleepElapsed, ShutdownWakes,
                        Goto, WorkerTypeOK
    <2> QED BY <1>i, <2>1, <2>2, NothingMoves, CountsKept
  <1>6. ASSUME NEW w \in Workers, ReplyMiss(w) \/ ReplyErr(w)
        PROVE  OnePlace' /\ Kept
    <2>1. /\ UNCHANGED <<queue, unsent, finished, completed, done>>
          /\ reply' = [reply EXCEPT ![w] = Pending]
          /\ ContinueScan(w)
      BY <1>6 DEF ReplyMiss, ReplyErr, redisVars, metricVars
    <2>2. pc' = [pc EXCEPT ![w] = "issue"] \/ pc' = [pc EXCEPT ![w] = "sleep"]
      BY <1>i, <2>1, ScanGoesOn
    <2>3. \A v \in Workers : pc'[v] = "signal" => pc[v] = "signal"
      BY <1>i, <2>2 DEF WorkerTypeOK
    <2>4. OnePlace'
      BY <1>i, <1>n, <2>1, ReplyDropped
    <2> QED BY <1>i, <2>1, <2>3, <2>4, CountsKept
  <1>7. ASSUME NEW w \in Workers, CountJob(w)
        PROVE  OnePlace' /\ Kept
    <2>1. reply[w] \in Payloads
      BY <1>i, <1>7 DEF CountJob, Typed, PayloadInHand
    <2>2. reply[w] \notin finished
      BY <1>i, <2>1 DEF OnePlace, Held
    <2>3. OnePlace'
      BY <1>i, <1>7, <2>1, ReplyFinished DEF CountJob, redisVars
    <2>4. CountedOnce'
      BY <1>i, <1>7, <2>2, FinishedFinite, FS_AddElement DEF CountJob, CountedOnce
    <2>5. completed \in Nat /\ completed' = completed + 1 /\ Target \in Nat /\ done' = done
      BY <1>i, <1>7, WorkerAssumption DEF CountJob, WorkerTypeOK
    <2>6. \A v \in Workers : pc'[v] = "signal" => pc[v] = "signal" \/ completed' >= Target
      BY <1>i, <1>7 DEF CountJob, Goto, WorkerTypeOK
    <2> QED BY <1>i, <2>3, <2>4, <2>5, <2>6 DEF DoneJustified
  <1>8. ASSUME NEW w \in Workers, SignalDone(w)
        PROVE  OnePlace' /\ Kept
    <2>1. OnePlace'
      BY <1>i, <1>8, NothingMoves DEF SignalDone, redisVars, metricVars
    <2>2. \A v \in Workers : pc'[v] = "signal" => pc[v] = "signal"
      BY <1>i, <1>8 DEF SignalDone, Goto, WorkerTypeOK
    <2> QED BY <1>i, <1>8, <2>1, <2>2 DEF SignalDone, metricVars, CountedOnce, DoneJustified
  <1>9. ASSUME NEW w \in Workers, Cancel(w)
        PROVE  OnePlace' /\ Kept
    <2>1. OnePlace'
      BY <1>i, <1>n, <1>9, ReplyDropped DEF Cancel, redisVars, metricVars
    <2>2. \A v \in Workers : pc'[v] = "signal" => pc[v] = "signal"
      BY <1>i, <1>9 DEF Cancel, Goto, WorkerTypeOK
    <2> QED BY <1>i, <1>9, <2>1, <2>2, CountsKept DEF Cancel, metricVars
  <1>10. ASSUME NEW w \in Workers, GraceExpires(w)
         PROVE  OnePlace' /\ Kept
    BY <1>i, <1>10, NothingMoves, CountsKept DEF GraceExpires, workerVars, redisVars, metricVars
  <1>11. ASSUME Orchestrator
         PROVE  OnePlace' /\ Kept
    <2>1. /\ UNCHANGED <<queue, unsent, reply, finished, completed, done>>
          /\ \A v \in Workers : pc'[v] = "signal" => pc[v] = "signal"
      BY <1>11 DEF Orchestrator, Spawn, ConnectFails, TrialDone, TrialTimeout, SendShutdown,
                   JoinDone, Return, workerVars, redisVars, metricVars
    <2> QED BY <1>i, <2>1, NothingMoves, CountsKept
  <1>12. ASSUME CollectorRecv \/ CollectorEnd \/ UNCHANGED vars
         PROVE  OnePlace' /\ Kept
    <2>1. /\ UNCHANGED <<queue, unsent, reply, finished, completed, done>>
          /\ \A v \in Workers : pc'[v] = "signal" => pc[v] = "signal"
      BY <1>12 DEF CollectorRecv, CollectorEnd, vars, workerVars, redisVars, metricVars
    <2> QED BY <1>i, <2>1, NothingMoves, CountsKept
  <1>13. OnePlace' /\ Kept
    BY <1>1, <1>2, <1>3, <1>4, <1>5, <1>6, <1>7, <1>8, <1>9, <1>10, <1>11, <1>12
    DEF Next, Environment, WorkerActs, WorkerStep, Terminated
  <1> QED BY <1>t, <1>13 DEF Inv

LEMMA InvHolds == Spec => []Inv
BY InvInit, InvNext, PTL DEF Spec

(* A payload is never dequeued twice, finished twice, or both finished and   *)
(* still in a list, whatever Redis, the network and the scheduler do.       *)
THEOREM PayloadsInOnePlace == Spec => []OnePlace
PROOF
  <1>1. Inv => OnePlace
    BY DEF Inv
  <1> QED BY <1>1, InvHolds, PTL

(* The completion counter is exactly the number of finished payloads.        *)
THEOREM CompletionsAreCountedOnce == Spec => []CountedOnce
PROOF
  <1>1. Inv => CountedOnce
    BY DEF Inv
  <1> QED BY <1>1, InvHolds, PTL

(* The done signal is a race-free "queue is empty" signal: for any fleet and *)
(* any backlog, as long as nobody else has pushed, done implies that every   *)
(* job is finished and every list empty.                                           *)
THEOREM DoneSignalIsSound == Spec => []DoneMeansDrained
PROOF
  <1>1. Inv => DoneMeansDrained
    <2> SUFFICES ASSUME Inv, unsent = Foreign, done
                 PROVE  finished = Jobs /\ \A k \in Keys : queue[k] = <<>>
      BY DEF DoneMeansDrained
    <2>1. TypeOK /\ OnePlace /\ CountedOnce /\ completed >= Target
      BY DEF Inv, Typed, DoneJustified
    <2>2. finished \subseteq Jobs /\ IsFiniteSet(Jobs)
      BY <2>1, WorkerAssumption DEF Payloads, TypeOK, WorkerTypeOK, OnePlace
    <2>3. Cardinality(finished) = Cardinality(Jobs)
      <3>1. Cardinality(finished) <= Cardinality(Jobs)
        BY <2>2, FS_Subset
      <3>2. Cardinality(finished) \in Nat /\ Cardinality(Jobs) \in Nat
        BY <2>1, <2>2, FinishedFinite, FS_CardinalityType
      <3> QED BY <2>1, <3>1, <3>2, TrialAssumption DEF CountedOnce
    <2>4. finished = Jobs
      BY <2>2, <2>3, FS_Subset
    <2>5. ASSUME NEW k \in Keys PROVE queue[k] = <<>>
      <3> SUFFICES ASSUME queue[k] # <<>> PROVE FALSE
        OBVIOUS
      <3>1. queue[k] \in Seq(Payloads)
        BY <2>1 DEF TypeOK, WorkerTypeOK
      <3>2. 1 \in 1..Len(queue[k]) /\ queue[k][1] \in Payloads
        BY <3>1, EmptySeq, ElementOfSeq, LenProperties
      <3>3. InQueue(queue[k][1])
        BY <3>2 DEF InQueue
      <3>4. queue[k][1] \notin finished /\ queue[k][1] \notin unsent
        BY <2>1, <3>2, <3>3 DEF OnePlace
      <3> QED BY <2>4, <3>2, <3>4 DEF Payloads
    <2> QED BY <2>4, <2>5
  <1> QED BY <1>1, InvHolds, PTL

-----------------------------------------------------------------------------
(* What happens after the shutdown signal and after the result is returned,  *)
(* and the order jobs are dequeued in.                                      *)

(* A task that is over does not run again, and the tasks are spawned once.   *)
LEMMA GoneForever ==
  ASSUME WorkerTypeOK, [Next]_vars, phase # "connect", NEW w \in Workers
  PROVE  /\ Gone(w) => pc'[w] = pc[w]
         /\ pc[w] = "unspawned" => pc'[w] = "unspawned"
PROOF
  <1>1. ASSUME NEW v \in Workers, WorkerStep(v) \/ ReplyErr(v) \/ Cancel(v)
        PROVE  /\ pc[v] # "unspawned" /\ ~Gone(v)
               /\ \A u \in Workers : u # v => pc'[u] = pc[u]
    BY <1>1 DEF WorkerStep, LoopTop, SendLpop, ReplyHit, ReplyMiss, ReplyErr, RecordJob,
                CountJob, SignalDone, SleepElapsed, ShutdownWakes, Cancel, ContinueScan,
                Parked, Gone, Goto, WorkerTypeOK
  <1>2. CASE \E v \in Workers : WorkerStep(v) \/ ReplyErr(v) \/ Cancel(v)
    <2>1. PICK v \in Workers : WorkerStep(v) \/ ReplyErr(v) \/ Cancel(v)
      BY <1>2
    <2>2. CASE v = w
      BY <1>1, <2>1, <2>2
    <2>3. CASE v # w
      BY <1>1, <2>1, <2>3
    <2> QED BY <2>2, <2>3
  <1>3. CASE ~(\E v \in Workers : WorkerStep(v) \/ ReplyErr(v) \/ Cancel(v))
    BY <1>3 DEF Next, Environment, ForeignPush, LpopHit, LpopMiss, BreakConnection, WorkerActs,
                GraceExpires, Orchestrator, Spawn, ConnectFails, TrialDone, TrialTimeout,
                SendShutdown, JoinDone, Return, CollectorRecv, CollectorEnd, Terminated,
                vars, workerVars
  <1> QED BY <1>2, <1>3

-----------------------------------------------------------------------------
(* The result is final.                                                     *)

(* The collector ends when no task can send any more, and the orchestrator   *)
(* returns only after it.                                                   *)
Settled ==
  /\ phase \in {"connect", "error"} => \A w \in Workers : pc[w] = "unspawned"
  /\ collectorDone => /\ phase # "connect"
                      /\ chan = {}
                      /\ phase = "error" \/ \A w \in Workers : Gone(w)
  /\ phase = "returned" => collectorDone

LEMMA SettledNext == Typed /\ Settled /\ [Next]_vars => Settled'
PROOF
  <1> SUFFICES ASSUME Typed, Settled, [Next]_vars PROVE Settled'
    OBVIOUS
  <1>t. WorkerTypeOK
    BY DEF Typed, TypeOK
  <1>1. CASE phase = "connect"
    <2>1. \A w \in Workers : pc[w] = "unspawned"
      BY <1>1 DEF Settled
    <2>2. ~collectorDone
      BY <1>1 DEF Settled
    <2>3. CASE Spawn \/ ConnectFails
      BY <1>1, <2>1, <2>2, <2>3 DEF Spawn, ConnectFails, Settled, workerVars
    <2>4. CASE ~(Spawn \/ ConnectFails)
      <3>1. \A w \in Workers : ~WorkerStep(w) /\ ~ReplyErr(w) /\ ~Cancel(w)
        BY <2>1 DEF WorkerStep, LoopTop, SendLpop, ReplyHit, ReplyMiss, ReplyErr, RecordJob,
                    CountJob, SignalDone, SleepElapsed, ShutdownWakes, Cancel, Parked
      <3>2. UNCHANGED <<phase, pc, collectorDone>>
        BY <1>1, <2>4, <3>1
        DEF Next, Environment, ForeignPush, LpopHit, LpopMiss, BreakConnection, WorkerActs,
            GraceExpires, Orchestrator, TrialDone, TrialTimeout, SendShutdown, JoinDone, Return,
            CollectorRecv, CollectorEnd, Terminated, vars, workerVars, trialVars
      <3> QED BY <1>1, <2>1, <2>2, <3>2 DEF Settled
    <2> QED BY <2>3, <2>4
  <1>2. CASE phase # "connect"
    <2>1. \A w \in Workers : /\ Gone(w) => Gone(w)'
                             /\ pc[w] = "unspawned" => pc'[w] = "unspawned"
      BY <1>t, <1>2, GoneForever DEF Gone
    <2>2. phase' # "connect" /\ (phase = "error" <=> phase' = "error")
      BY <1>2 DEF Next, Environment, ForeignPush, LpopHit, LpopMiss, BreakConnection, WorkerActs,
            GraceExpires, Cancel, Orchestrator, Spawn, ConnectFails, TrialDone, TrialTimeout,
            SendShutdown, JoinDone, Return, CollectorRecv, CollectorEnd, Terminated,
            vars, trialVars
    <2>3. CASE collectorDone
      <3>1. \A w \in Workers : pc[w] \notin {"record"}
        BY <1>2, <2>3 DEF Settled, Gone
      <3>2. chan' = {} /\ collectorDone'
        BY <1>2, <2>3, <3>1
        DEF Settled, Next, Environment, ForeignPush, LpopHit, LpopMiss, BreakConnection,
            WorkerActs, WorkerStep, LoopTop, SendLpop, ReplyHit, ReplyMiss, ReplyErr, RecordJob,
            CountJob, SignalDone, SleepElapsed, ShutdownWakes, GraceExpires, Cancel,
            Orchestrator, Spawn, ConnectFails, TrialDone, TrialTimeout, SendShutdown, JoinDone,
            Return, CollectorRecv, CollectorEnd, Terminated, vars, workerVars, trialVars
      <3> QED BY <1>2, <2>1, <2>2, <2>3, <3>2 DEF Settled
    <2>4. CASE CollectorEnd
      BY <1>2, <2>1, <2>2, <2>4 DEF Settled, CollectorEnd, workerVars
    <2>5. CASE ~collectorDone /\ ~CollectorEnd
      <3>1. ~collectorDone' /\ phase' # "returned"
        BY <1>2, <2>5
        DEF Settled, Next, Environment, WorkerActs, GraceExpires, Cancel,
            Orchestrator, Spawn, ConnectFails, TrialDone, TrialTimeout, SendShutdown, JoinDone,
            Return, CollectorRecv, Terminated, vars, trialVars
      <3> QED BY <1>2, <2>1, <2>2, <3>1 DEF Settled
    <2> QED BY <2>3, <2>4, <2>5
  <1> QED BY <1>1, <1>2

LEMMA SettledHolds == Spec => [](Typed /\ Settled)
PROOF
  <1>1. Init => Settled
    BY DEF Init, WorkerInit, Settled
  <1>2. Inv => Typed
    BY DEF Inv
  <1> QED BY <1>1, <1>2, InvHolds, SettledNext, PTL DEF Spec

LEMMA ReturnedStays ==
  ASSUME Settled, [Next]_vars, phase = "returned"
  PROVE  UNCHANGED <<completed, errors, chan, hist, phase, result>>
PROOF
  <1>1. chan = {} /\ \A w \in Workers : pc[w] \in {"exited", "cancelled"}
    BY DEF Settled, Gone
  <1> QED BY <1>1
    DEF Next, Environment, ForeignPush, LpopHit, LpopMiss, BreakConnection,
        WorkerActs, WorkerStep, LoopTop, SendLpop, ReplyHit, ReplyMiss, ReplyErr, RecordJob,
        CountJob, SignalDone, SleepElapsed, ShutdownWakes, GraceExpires, Cancel, Parked, Gone,
        Orchestrator, Spawn, ConnectFails, TrialDone, TrialTimeout, SendShutdown, JoinDone,
        Return, CollectorRecv, CollectorEnd, Terminated, vars, workerVars, metricVars, trialVars

(* Once run_drain_trial has returned, no counter, no pending latency and no  *)
(* entry of the histogram changes any more: nothing outlives the join that   *)
(* the report could miss.                                                   *)
THEOREM ResultIsFinal == Spec => NothingCountedAfterReturn
PROOF
  <1>1. Settled /\ [Next]_vars
          => [phase = "returned" => UNCHANGED <<completed, errors, chan, hist>>]_vars
    BY ReturnedStays
  <1> QED BY <1>1, SettledHolds, PTL DEF Spec, NothingCountedAfterReturn

-----------------------------------------------------------------------------
(* The shutdown signal bounds what is still counted.                        *)

(* The workers that may still count a job without passing the loop top.      *)
Busy == {w \in Workers : pc[w] \in {"issue", "await", "record", "count"}}

(* Each completion since the shutdown signal took a worker out of Busy.      *)
BusyBound == shutdown => completed + Cardinality(Busy) <= atShutdown + Cardinality(Workers)

LEMMA BusyBoundNext == Typed /\ BusyBound /\ [Next]_vars => BusyBound'
PROOF
  <1> SUFFICES ASSUME Typed, BusyBound, [Next]_vars, shutdown'
               PROVE  completed' + Cardinality(Busy') <= atShutdown' + Cardinality(Workers)
    BY DEF BusyBound
  <1>t. WorkerTypeOK /\ atShutdown \in Nat /\ completed \in Nat
    BY DEF Typed, TypeOK, WorkerTypeOK
  <1>b. Busy \subseteq Workers /\ Busy' \subseteq Workers
    BY DEF Busy
  <1>f. /\ IsFiniteSet(Busy) /\ Cardinality(Busy) \in Nat
        /\ IsFiniteSet(Busy') /\ Cardinality(Busy') \in Nat
        /\ Cardinality(Workers) \in Nat
        /\ Cardinality(Busy') <= Cardinality(Workers)
    BY <1>b, WorkerAssumption, FS_Subset, FS_CardinalityType
  <1>1. CASE ~shutdown
    <2>1. atShutdown' = completed /\ completed' = completed
      BY <1>1 DEF Next, Environment, ForeignPush, LpopHit, LpopMiss, BreakConnection,
          WorkerActs, WorkerStep, LoopTop, SendLpop, ReplyHit, ReplyMiss, ReplyErr, RecordJob,
          CountJob, SignalDone, SleepElapsed, ShutdownWakes, GraceExpires, Cancel,
          Orchestrator, Spawn, ConnectFails, TrialDone, TrialTimeout, SendShutdown, JoinDone,
          Return, CollectorRecv, CollectorEnd, Terminated, vars, workerVars, metricVars
    <2> QED BY <1>t, <1>f, <2>1
  <1>2. CASE shutdown /\ \E w \in Workers : CountJob(w) /\ UNCHANGED trialVars
    <2>1. PICK w \in Workers : CountJob(w) /\ UNCHANGED trialVars
      BY <1>2
    <2>2. w \in Busy /\ Busy' = Busy \ {w}
      BY <1>t, <2>1 DEF CountJob, Busy, Goto, WorkerTypeOK
    <2>3. Cardinality(Busy') = Cardinality(Busy) - 1
      BY <1>f, <2>2, FS_RemoveElement
    <2>4. completed' = completed + 1 /\ atShutdown' = atShutdown
      BY <2>1 DEF CountJob, trialVars
    <2> QED BY <1>t, <1>f, <1>2, <2>3, <2>4 DEF BusyBound
  <1>3. CASE shutdown /\ SendShutdown
    BY <1>t, <1>f, <1>3 DEF SendShutdown, metricVars
  <1>4. CASE /\ shutdown /\ ~SendShutdown
             /\ ~(\E w \in Workers : CountJob(w) /\ UNCHANGED trialVars)
    <2>1. completed' = completed /\ atShutdown' = atShutdown
      BY <1>4 DEF Next, Environment, ForeignPush, LpopHit, LpopMiss, BreakConnection,
          WorkerActs, WorkerStep, LoopTop, SendLpop, ReplyHit, ReplyMiss, ReplyErr, RecordJob,
          SignalDone, SleepElapsed, ShutdownWakes, GraceExpires, Cancel,
          Orchestrator, Spawn, ConnectFails, TrialDone, TrialTimeout, JoinDone,
          Return, CollectorRecv, CollectorEnd, Terminated, vars, workerVars, metricVars, trialVars
    <2>2. Busy' \subseteq Busy
      <3>1. ASSUME NEW w \in Workers,
                   (WorkerStep(w) /\ ~CountJob(w)) \/ ReplyErr(w) \/ Cancel(w)
            PROVE  Busy' \subseteq Busy
        BY <1>t, <1>4, <3>1
        DEF WorkerStep, LoopTop, SendLpop, ReplyHit, ReplyMiss, ReplyErr, RecordJob, SignalDone,
            SleepElapsed, ShutdownWakes, Cancel, ContinueScan, Goto, Busy, WorkerTypeOK
      <3>2. CASE pc' = pc
        BY <3>2 DEF Busy
      <3>3. CASE Spawn
        BY <3>3 DEF Spawn, Busy
      <3> QED
        BY <1>4, <3>1, <3>2, <3>3
        DEF Next, Environment, ForeignPush, LpopHit, LpopMiss, BreakConnection, WorkerActs,
            GraceExpires, Orchestrator, ConnectFails, TrialDone, TrialTimeout, JoinDone,
            Return, CollectorRecv, CollectorEnd, Terminated, vars, workerVars, WorkerStep
    <2>3. Cardinality(Busy') <= Cardinality(Busy)
      BY <1>f, <2>2, FS_Subset
    <2> QED BY <1>t, <1>f, <1>4, <2>1, <2>3 DEF BusyBound
  <1> QED BY <1>1, <1>2, <1>3, <1>4

(* After the shutdown signal the fleet completes at most one job per worker, *)
(* however many jobs are left, for any fleet.                               *)
THEOREM ShutdownStopsTheFleet == Spec => []ShutdownOvershoot
PROOF
  <1>1. Init => BusyBound
    BY DEF Init, WorkerInit, BusyBound
  <1>2. Typed /\ BusyBound => ShutdownOvershoot
    <2> SUFFICES ASSUME Typed, BusyBound, shutdown
                 PROVE  completed - atShutdown <= Cardinality(Workers)
      BY DEF ShutdownOvershoot
    <2>1. /\ completed \in Nat /\ atShutdown \in Nat
          /\ Cardinality(Busy) \in Nat /\ Cardinality(Workers) \in Nat
      BY WorkerAssumption, FS_Subset, FS_CardinalityType DEF Busy, Typed, TypeOK, WorkerTypeOK
    <2> QED BY <2>1 DEF BusyBound
  <1>3. Inv => Typed
    BY DEF Inv
  <1> QED BY <1>1, <1>2, <1>3, InvHolds, BusyBoundNext, PTL DEF Spec

-----------------------------------------------------------------------------
(* Jobs are dequeued in priority order.                                     *)

(* Nothing disturbs the order: no query failed and nobody else has pushed.   *)
Quiet == errors = 0 /\ unsent = Foreign

(* A reply is kept only from its arrival until its job is counted.           *)
ReplyInUse ==
  \A w \in Workers : /\ reply[w] # Pending => pc[w] \in {"await", "record", "count"}
                     /\ reply[w] = Nil => pc[w] = "await"

(* The request on the wire is the one of the scan in progress.               *)
WireIsScan(w) ==
  wire[w] # <<>> => /\ wire[w] = <<key[w]>>
                    /\ pc[w] \in {"await", "cancelled"}
                    /\ reply[w] = Pending

(* A worker that asks for a key found every key before it empty.             *)
ScannedAreEmpty(w) ==
  /\ pc[w] \in {"issue", "await"} \/ wire[w] # <<>>
       => \A j \in 1..(key[w] - 1) : queue[j] = <<>>
  /\ reply[w] = Nil => queue[key[w]] = <<>>

ScanSound == Quiet => \A w \in Workers : WireIsScan(w) /\ ScannedAreEmpty(w)

Ordered == ReplyInUse /\ ScanSound

(* Nobody else pushes while the trial is quiet.                             *)
LEMMA QuietBefore ==
  ASSUME Typed, [Next]_vars, Quiet'
  PROVE  /\ Quiet
         /\ \A p \in Foreign, k \in Keys : ~ForeignPush(p, k)
         /\ \A w \in Workers : ~ReplyErr(w)
PROOF
  <1>t. WorkerTypeOK
    BY DEF Typed, TypeOK
  <1>1. errors' = errors \/ errors' = errors + 1
    BY DEF Next, Environment, ForeignPush, LpopHit, LpopMiss, BreakConnection,
           WorkerActs, WorkerStep, LoopTop, SendLpop, ReplyHit, ReplyMiss, ReplyErr, RecordJob,
           CountJob, SignalDone, SleepElapsed, ShutdownWakes, GraceExpires, Cancel,
           Orchestrator, Spawn, ConnectFails, TrialDone, TrialTimeout, SendShutdown, JoinDone,
           Return, CollectorRecv, CollectorEnd, Terminated, vars, workerVars, metricVars
  <1>2. errors = 0
    BY <1>t, <1>1 DEF Quiet, WorkerTypeOK
  <1>3. \A p \in Foreign, k \in Keys : ~ForeignPush(p, k)
    BY DEF ForeignPush, Quiet
  <1>4. unsent' = unsent
    BY <1>3
    DEF Next, Environment, LpopHit, LpopMiss, BreakConnection,
        WorkerActs, WorkerStep, LoopTop, SendLpop, ReplyHit, ReplyMiss, ReplyErr, RecordJob,
        CountJob, SignalDone, SleepElapsed, ShutdownWakes, GraceExpires, Cancel,
        Orchestrator, Spawn, ConnectFails, TrialDone, TrialTimeout, SendShutdown, JoinDone,
        Return, CollectorRecv, CollectorEnd, Terminated, vars, workerVars, redisVars
  <1>5. \A w \in Workers : ~ReplyErr(w)
    BY <1>2 DEF ReplyErr, Quiet
  <1> QED BY <1>2, <1>3, <1>4, <1>5 DEF Quiet
LEMMA ReplyInUseNext == Typed /\ Settled /\ ReplyInUse /\ [Next]_vars => ReplyInUse'
PROOF
  <1> SUFFICES ASSUME Typed, Settled, ReplyInUse, [Next]_vars PROVE ReplyInUse'
    OBVIOUS
  <1>t. WorkerTypeOK /\ Nil \notin Payloads /\ Pending \notin Payloads /\ Nil # Pending
    BY WorkerAssumption DEF Typed, TypeOK
  <1>1. ASSUME NEW w \in Workers, LpopHit(w)
        PROVE  ReplyInUse'
    <2>1. Head(queue[Head(wire[w])]) \in Payloads
      BY <1>t, <1>1, HeadIsPayload DEF LpopHit
    <2>2. \/ reply' = reply
          \/ pc[w] = "await" /\ reply' = [reply EXCEPT ![w] = Head(queue[Head(wire[w])])]
      BY <1>1 DEF LpopHit, Awaited
    <2> QED BY <1>t, <1>1, <2>1, <2>2 DEF LpopHit, ReplyInUse, WorkerTypeOK
  <1>2. ASSUME NEW w \in Workers, LpopMiss(w)
        PROVE  ReplyInUse'
    BY <1>t, <1>2 DEF LpopMiss, Awaited, ReplyInUse, WorkerTypeOK
  <1>3. ASSUME NEW w \in Workers, WorkerStep(w) \/ ReplyErr(w) \/ Cancel(w)
        PROVE  ReplyInUse'
    BY <1>t, <1>3
    DEF WorkerStep, LoopTop, SendLpop, ReplyHit, ReplyMiss, ReplyErr, RecordJob, CountJob,
        SignalDone, SleepElapsed, ShutdownWakes, Cancel, Parked, Gone, ContinueScan, Goto,
        redisVars, ReplyInUse, WorkerTypeOK
  <1>4. CASE Spawn
    <2>1. \A w \in Workers : pc[w] = "unspawned"
      BY <1>4 DEF Spawn, Settled
    <2> QED BY <1>4, <2>1 DEF Spawn, ReplyInUse
  <1>5. CASE UNCHANGED <<pc, reply>>
    BY <1>5 DEF ReplyInUse
  <1> QED
    BY <1>1, <1>2, <1>3, <1>4, <1>5
    DEF Next, Environment, ForeignPush, BreakConnection, WorkerActs, GraceExpires, Orchestrator,
        ConnectFails, TrialDone, TrialTimeout, SendShutdown, JoinDone, Return, CollectorRecv,
        CollectorEnd, Terminated, vars, workerVars

(* An LPOP that is executed while the trial is quiet finds every key of      *)
(* higher priority empty.                                                   *)
LEMMA HitIsNext ==
  ASSUME Typed, ScanSound, Quiet, NEW w \in Workers, LpopHit(w)
  PROVE  /\ wire[w] = <<key[w]>> /\ Head(wire[w]) = key[w] /\ Tail(wire[w]) = <<>>
         /\ key[w] \in Keys
         /\ queue' = [queue EXCEPT ![key[w]] = Tail(@)]
         /\ queue[key[w]] # <<>>
         /\ \A j \in 1..(key[w] - 1) : queue[j] = <<>>
PROOF
  <1>1. wire[w] = <<key[w]>> /\ \A j \in 1..(key[w] - 1) : queue[j] = <<>>
    BY DEF ScanSound, WireIsScan, ScannedAreEmpty, LpopHit
  <1>2. Head(wire[w]) = key[w] /\ Tail(wire[w]) = <<>>
    BY <1>1
  <1>3. key[w] \in Keys
    BY DEF Typed, TypeOK, WorkerTypeOK
  <1> QED BY <1>1, <1>2, <1>3 DEF LpopHit

LEMMA ScanSoundNext == Typed /\ Settled /\ Ordered /\ [Next]_vars => ScanSound'
PROOF
  <1> SUFFICES ASSUME Typed, Settled, Ordered, [Next]_vars, Quiet'
               PROVE  (\A v \in Workers : WireIsScan(v) /\ ScannedAreEmpty(v))'
    BY DEF ScanSound
  <1>t. WorkerTypeOK /\ Nil \notin Payloads /\ Pending \notin Payloads /\ Nil # Pending
    BY WorkerAssumption DEF Typed, TypeOK
  <1>q. Quiet /\ \A w \in Workers : ~ReplyErr(w) /\ \A p \in Foreign, k \in Keys : ~ForeignPush(p, k)
    BY QuietBefore
  <1>s. ReplyInUse /\ ScanSound /\ \A v \in Workers : WireIsScan(v) /\ ScannedAreEmpty(v)
    BY <1>q DEF Ordered, ScanSound
  <1>k. \A v \in Workers : key[v] \in Keys /\ \A j \in 1..(key[v] - 1) : j \in Keys
    BY <1>t, WorkerAssumption DEF WorkerTypeOK, Keys
  <1>1. ASSUME NEW w \in Workers, LpopHit(w), NEW v \in Workers
        PROVE  WireIsScan(v)' /\ ScannedAreEmpty(v)'
    <2>1. /\ Tail(wire[w]) = <<>> /\ key[w] \in Keys
          /\ queue' = [queue EXCEPT ![key[w]] = Tail(@)] /\ queue[key[w]] # <<>>
      BY <1>q, <1>s, <1>1, HitIsNext
    <2>2. \A j \in Keys : queue[j] = <<>> => queue'[j] = <<>>
      BY <1>t, <2>1 DEF WorkerTypeOK
    <2>3. wire' = [wire EXCEPT ![w] = <<>>] /\ UNCHANGED <<pc, key>>
      BY <1>1, <2>1 DEF LpopHit
    <2>4. v # w => reply'[v] = reply[v]
      BY <1>1 DEF LpopHit
    <2>5. reply'[w] # Nil
      <3>1. Head(queue[Head(wire[w])]) \in Payloads
        BY <1>t, <1>1, HeadIsPayload DEF LpopHit
      <3>2. reply[w] = Pending
        BY <1>1, <1>s DEF LpopHit, WireIsScan
      <3> QED BY <1>t, <1>1, <3>1, <3>2 DEF LpopHit, WorkerTypeOK
    <2>6. CASE v = w
      BY <1>t, <1>s, <1>k, <2>2, <2>3, <2>5, <2>6 DEF WireIsScan, ScannedAreEmpty, WorkerTypeOK
    <2>7. CASE v # w
      BY <1>t, <1>s, <1>k, <2>2, <2>3, <2>4, <2>7 DEF WireIsScan, ScannedAreEmpty, WorkerTypeOK
    <2> QED BY <2>6, <2>7
  <1>2. ASSUME NEW w \in Workers, LpopMiss(w), NEW v \in Workers
        PROVE  WireIsScan(v)' /\ ScannedAreEmpty(v)'
    <2>1. wire[w] = <<key[w]>>
      BY <1>2, <1>s DEF LpopMiss, WireIsScan
    <2>2. Head(wire[w]) = key[w] /\ Tail(wire[w]) = <<>>
      BY <2>1
    <2>3. /\ wire' = [wire EXCEPT ![w] = <<>>] /\ queue[key[w]] = <<>>
          /\ UNCHANGED <<pc, key, queue>>
          /\ v # w => reply'[v] = reply[v]
      BY <1>t, <1>2, <2>2 DEF LpopMiss, WorkerTypeOK
    <2> QED BY <1>t, <1>s, <2>3 DEF WireIsScan, ScannedAreEmpty, WorkerTypeOK
  <1>3. ASSUME NEW w \in Workers, BreakConnection(w), NEW v \in Workers
        PROVE  WireIsScan(v)' /\ ScannedAreEmpty(v)'
    BY <1>t, <1>s, <1>3 DEF BreakConnection, WireIsScan, ScannedAreEmpty, WorkerTypeOK
  <1>4. ASSUME NEW w \in Workers, NEW v \in Workers,
               \/ LoopTop(w) \/ ReplyHit(w) \/ RecordJob(w) \/ CountJob(w) \/ SignalDone(w)
               \/ SleepElapsed(w) \/ ShutdownWakes(w) \/ Cancel(w)
        PROVE  WireIsScan(v)' /\ ScannedAreEmpty(v)'
    <2>1. /\ UNCHANGED <<queue, wire>>
          /\ v # w => pc'[v] = pc[v] /\ key'[v] = key[v] /\ reply'[v] = reply[v]
      BY <1>t, <1>4
      DEF LoopTop, ReplyHit, RecordJob, CountJob, SignalDone, SleepElapsed, ShutdownWakes,
          Cancel, Goto, redisVars, WorkerTypeOK
    <2>2. CASE v # w
      BY <1>s, <2>1, <2>2 DEF WireIsScan, ScannedAreEmpty
    <2>3. CASE v = w /\ LoopTop(w)
      <3>1. wire[w] = <<>> /\ reply[w] = Pending
        BY <1>s, <2>3 DEF LoopTop, WireIsScan, ReplyInUse
      <3>2. key'[w] = 1 /\ reply' = reply
        BY <1>t, <2>3 DEF LoopTop, WorkerTypeOK
      <3> QED BY <1>t, <2>1, <2>3, <3>1, <3>2 DEF WireIsScan, ScannedAreEmpty
    <2>4. CASE v = w /\ Cancel(w)
      <3>1. pc'[w] = "cancelled" /\ reply'[w] = Pending /\ key' = key
        BY <1>t, <2>4 DEF Cancel, Goto, WorkerTypeOK
      <3> QED BY <1>t, <1>s, <2>1, <2>4, <3>1 DEF WireIsScan, ScannedAreEmpty
    <2>5. CASE /\ v = w
               /\ \/ ReplyHit(w) \/ RecordJob(w) \/ CountJob(w) \/ SignalDone(w)
                  \/ SleepElapsed(w) \/ ShutdownWakes(w)
      <3>1. wire[w] = <<>>
        BY <1>t, <1>s, <2>5
        DEF ReplyHit, RecordJob, CountJob, SignalDone, SleepElapsed, ShutdownWakes, WireIsScan
      <3>2. /\ pc'[w] \notin {"issue", "await"} /\ reply'[w] # Nil
        BY <1>t, <1>s, <2>5
        DEF ReplyHit, RecordJob, CountJob, SignalDone, SleepElapsed, ShutdownWakes, Goto,
            ReplyInUse, WorkerTypeOK
      <3> QED BY <2>1, <2>5, <3>1, <3>2 DEF WireIsScan, ScannedAreEmpty
    <2> QED BY <1>4, <2>2, <2>3, <2>4, <2>5
  <1>5. ASSUME NEW w \in Workers, SendLpop(w), NEW v \in Workers
        PROVE  WireIsScan(v)' /\ ScannedAreEmpty(v)'
    <2>1. pc[w] = "issue" /\ wire[w] = <<>> /\ reply[w] = Pending
      BY <1>s, <1>5 DEF SendLpop, WireIsScan, ReplyInUse
    <2>2. wire'[w] = <<>> \/ wire'[w] = <<key[w]>>
      BY <1>t, <1>5, <2>1 DEF SendLpop, WorkerTypeOK
    <2>3. v # w => wire'[v] = wire[v] /\ pc'[v] = pc[v]
      BY <1>t, <1>5 DEF SendLpop, Goto, WorkerTypeOK
    <2>4. pc'[w] = "await" /\ UNCHANGED <<queue, key, reply>>
      BY <1>t, <1>5 DEF SendLpop, Goto, WorkerTypeOK
    <2> QED BY <1>s, <2>1, <2>2, <2>3, <2>4 DEF WireIsScan, ScannedAreEmpty
  <1>6. ASSUME NEW w \in Workers, ReplyMiss(w), NEW v \in Workers
        PROVE  WireIsScan(v)' /\ ScannedAreEmpty(v)'
    <2>1. /\ wire[w] = <<>> /\ queue[key[w]] = <<>>
          /\ \A j \in 1..(key[w] - 1) : queue[j] = <<>>
      BY <1>t, <1>s, <1>6 DEF ReplyMiss, WireIsScan, ScannedAreEmpty
    <2>2. UNCHANGED <<queue, wire>> /\ reply' = [reply EXCEPT ![w] = Pending] /\ ContinueScan(w)
      BY <1>6 DEF ReplyMiss, redisVars
    <2>3. v # w => key'[v] = key[v] /\ pc'[v] = pc[v] /\ reply'[v] = reply[v]
      BY <1>t, <2>2 DEF ContinueScan, Goto, WorkerTypeOK
    <2>4. v # w => WireIsScan(v)' /\ ScannedAreEmpty(v)'
      BY <1>s, <2>2, <2>3 DEF WireIsScan, ScannedAreEmpty
    <2>5. \A j \in 1..key[w] : queue[j] = <<>>
      BY <1>k, <2>1 DEF Keys
    <2>6. key'[w] = key[w] + 1 \/ pc'[w] = "sleep"
      BY <1>t, <2>2 DEF ContinueScan, Goto, WorkerTypeOK
    <2>7. WireIsScan(w)' /\ ScannedAreEmpty(w)'
      BY <1>t, <1>k, <2>1, <2>2, <2>5, <2>6 DEF WireIsScan, ScannedAreEmpty, WorkerTypeOK, Keys
    <2> QED BY <2>4, <2>7
  <1>7. ASSUME Spawn, NEW v \in Workers
        PROVE  WireIsScan(v)' /\ ScannedAreEmpty(v)'
    <2>1. pc[v] = "unspawned"
      BY <1>7 DEF Spawn, Settled
    <2> QED BY <1>s, <1>7, <2>1 DEF Spawn, redisVars, WireIsScan, ScannedAreEmpty, ReplyInUse
  <1>8. ASSUME UNCHANGED <<queue, wire, pc, key, reply>>, NEW v \in Workers
        PROVE  WireIsScan(v)' /\ ScannedAreEmpty(v)'
    BY <1>s, <1>8 DEF WireIsScan, ScannedAreEmpty
  <1> QED
    BY <1>q, <1>1, <1>2, <1>3, <1>4, <1>5, <1>6, <1>7, <1>8
    DEF Next, Environment, WorkerActs, WorkerStep, GraceExpires, Orchestrator,
        ConnectFails, TrialDone, TrialTimeout, SendShutdown, JoinDone, Return, CollectorRecv,
        CollectorEnd, Terminated, vars, workerVars, redisVars

(* As long as no query has failed and nobody else has pushed, the fleet      *)
(* drains the keys in strict priority order, for any number of workers and   *)
(* keys and however their scans interleave.                                 *)
THEOREM DrainFollowsPriority == Spec => PriorityOrder
PROOF
  <1>1. Init => Ordered
    BY WorkerAssumption DEF Init, WorkerInit, Ordered, ReplyInUse, ScanSound, WireIsScan,
                            ScannedAreEmpty
  <1>2. Ordered /\ Typed /\ Settled /\ [Next]_vars => Ordered'
    BY ReplyInUseNext, ScanSoundNext DEF Ordered
  <1>3. ASSUME Typed, Ordered, [Next]_vars, Quiet, NEW k \in Keys, Len(queue'[k]) < Len(queue[k])
        PROVE  \A j \in 1..(k - 1) : queue[j] = <<>>
    <2>t. WorkerTypeOK /\ queue[k] \in Seq(Payloads) /\ Len(queue[k]) \in Nat
      BY <1>3, LenProperties DEF Typed, TypeOK, WorkerTypeOK
    <2>1. ASSUME NEW w \in Workers, LpopHit(w)
          PROVE  \A j \in 1..(k - 1) : queue[j] = <<>>
      <3>1. /\ queue' = [queue EXCEPT ![key[w]] = Tail(@)]
            /\ \A j \in 1..(key[w] - 1) : queue[j] = <<>>
        BY <1>3, <2>1, HitIsNext DEF Ordered
      <3>2. k = key[w]
        BY <1>3, <2>t, <3>1 DEF WorkerTypeOK
      <3> QED BY <3>1, <3>2
    <2>2. ASSUME NEW p \in Foreign, NEW l \in Keys, ForeignPush(p, l)
          PROVE  FALSE
      <3>1. queue'[k] = queue[k] \/ queue'[k] = Append(queue[k], p)
        BY <2>t, <2>2 DEF ForeignPush, WorkerTypeOK
      <3>2. p \in Payloads
        BY DEF Payloads
      <3> QED BY <1>3, <2>t, <3>1, <3>2
    <2>3. CASE queue' = queue
      BY <1>3, <2>t, <2>3
    <2> QED
      BY <1>3, <2>1, <2>2, <2>3
      DEF Next, Environment, LpopMiss, BreakConnection, WorkerActs, WorkerStep, LoopTop,
          SendLpop, ReplyHit, ReplyMiss, ReplyErr, RecordJob, CountJob, SignalDone, SleepElapsed,
          ShutdownWakes, GraceExpires, Cancel, Orchestrator, Spawn, ConnectFails, TrialDone,
          TrialTimeout, SendShutdown, JoinDone, Return, CollectorRecv, CollectorEnd, Terminated,
          vars, workerVars, redisVars
  <1>4. Typed /\ Ordered /\ [Next]_vars
          => [errors = 0 /\ unsent = Foreign =>
                \A k \in Keys : Len(queue'[k]) < Len(queue[k]) =>
                                  \A j \in 1..(k - 1) : queue[j] = <<>>]_vars
    BY <1>3 DEF Quiet
  <1> QED BY <1>1, <1>2, <1>4, SettledHolds, PTL DEF Spec, PriorityOrder
===============================================================================
