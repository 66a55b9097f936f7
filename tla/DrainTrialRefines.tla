--------------------------- MODULE DrainTrialRefines ---------------------------
(***************************************************************************)
(* DrainTrial implements DrainLedger, for any fleet and any backlog; its   *)
(* errors account for every missing payload and its result for every       *)
(* finished one.                                                           *)
(***************************************************************************)
EXTENDS DrainTrialProofs

-----------------------------------------------------------------------------
(* The invariant the refinement needs.                                      *)

(* A worker that waits for a request has no older reply in hand.             *)
WaitsEmptyHanded == \A w \in Workers : pc[w] = "await" /\ wire[w] # <<>> => reply[w] = Pending

(* The timeout fires in the select! only.                                   *)
TimeoutWasTaken == timedOut => phase \notin {"connect", "running", "error"}

RefInv == Inv /\ Settled /\ ReplyInUse /\ WaitsEmptyHanded /\ TimeoutWasTaken

LEMMA WaitsEmptyHandedNext ==
  Typed /\ ReplyInUse /\ WaitsEmptyHanded /\ [Next]_vars => WaitsEmptyHanded'
PROOF
  <1> SUFFICES ASSUME Typed, ReplyInUse, WaitsEmptyHanded, [Next]_vars
               PROVE  WaitsEmptyHanded'
    OBVIOUS
  <1>t. WorkerTypeOK
    BY DEF Typed, TypeOK
  <1>1. ASSUME NEW w \in Workers, LpopHit(w) \/ LpopMiss(w)
        PROVE  WaitsEmptyHanded'
    <2>1. UNCHANGED pc /\ wire' = [wire EXCEPT ![w] = Tail(@)] /\ wire[w] # <<>>
      BY <1>1 DEF LpopHit, LpopMiss
    <2>2. \A v \in Workers : v # w => wire'[v] = wire[v] /\ reply'[v] = reply[v]
      BY <1>t, <1>1 DEF LpopHit, LpopMiss, WorkerTypeOK
    <2>3. CASE Awaited(w)
      <3>1. Tail(wire[w]) = <<>>
        <4>1. wire[w] \in Seq(Keys) /\ Len(wire[w]) = 1
          BY <1>t, <2>3 DEF Awaited, WorkerTypeOK
        <4>2. Tail(wire[w]) \in Seq(Keys) /\ Len(Tail(wire[w])) = 0
          BY <2>1, <4>1, HeadTailProperties
        <4> QED BY <4>2, EmptySeq
      <3> QED BY <1>t, <2>1, <2>2, <3>1 DEF WaitsEmptyHanded, WorkerTypeOK
    <2>4. CASE ~Awaited(w)
      <3>1. reply' = reply
        BY <1>1, <2>4 DEF LpopHit, LpopMiss
      <3> QED BY <2>1, <2>2, <3>1 DEF WaitsEmptyHanded
    <2> QED BY <2>3, <2>4
  <1>2. ASSUME NEW w \in Workers, BreakConnection(w)
        PROVE  WaitsEmptyHanded'
    BY <1>t, <1>2 DEF BreakConnection, WaitsEmptyHanded, WorkerTypeOK
  <1>3. ASSUME NEW w \in Workers, SendLpop(w)
        PROVE  WaitsEmptyHanded'
    <2>1. reply[w] = Pending
      BY <1>3 DEF SendLpop, ReplyInUse
    <2> QED BY <1>t, <1>3, <2>1 DEF SendLpop, Goto, WaitsEmptyHanded, WorkerTypeOK
  <1>4. ASSUME NEW w \in Workers, (WorkerStep(w) /\ ~SendLpop(w)) \/ ReplyErr(w) \/ Cancel(w)
        PROVE  WaitsEmptyHanded'
    BY <1>t, <1>4
    DEF WorkerStep, LoopTop, ReplyHit, ReplyMiss, ReplyErr, RecordJob, CountJob, SignalDone,
        SleepElapsed, ShutdownWakes, Cancel, ContinueScan, Goto, redisVars, WaitsEmptyHanded,
        WorkerTypeOK
  <1>5. CASE Spawn
    BY <1>5 DEF Spawn, WaitsEmptyHanded
  <1>6. CASE UNCHANGED <<pc, wire, reply>>
    BY <1>6 DEF WaitsEmptyHanded
  <1> QED
    BY <1>1, <1>2, <1>3, <1>4, <1>5, <1>6
    DEF Next, Environment, ForeignPush, WorkerActs, WorkerStep, GraceExpires, Orchestrator,
        ConnectFails, TrialDone, TrialTimeout, SendShutdown, JoinDone, Return, CollectorRecv,
        CollectorEnd, Terminated, vars, workerVars, redisVars

LEMMA TimeoutWasTakenNext == TimeoutWasTaken /\ [Next]_vars => TimeoutWasTaken'
BY DEF TimeoutWasTaken, Next, Environment, WorkerActs, GraceExpires, Cancel, Orchestrator, Spawn,
       ConnectFails, TrialDone, TrialTimeout, SendShutdown, JoinDone, Return, CollectorRecv,
       CollectorEnd, Terminated, vars, trialVars

LEMMA RefInvHolds == Spec => []RefInv
PROOF
  <1>1. Init => ReplyInUse /\ WaitsEmptyHanded /\ TimeoutWasTaken
    BY WorkerAssumption DEF Init, WorkerInit, ReplyInUse, WaitsEmptyHanded, TimeoutWasTaken
  <1>2. Inv => Typed
    BY DEF Inv
  <1>3. RefInv <=> Inv /\ Settled /\ ReplyInUse /\ WaitsEmptyHanded /\ TimeoutWasTaken
    BY DEF RefInv
  <1> QED BY <1>1, <1>2, <1>3, InvHolds, SettledHolds, ReplyInUseNext, WaitsEmptyHandedNext,
             TimeoutWasTakenNext, PTL DEF Spec

-----------------------------------------------------------------------------
(* Steps and fates.                                                         *)

(* No payload moves and the trial is where it was: a stutter of the ledger.  *)
LEMMA NoMove ==
  ASSUME UNCHANGED <<queue, unsent, finished, phase, timedOut, result>>,
         \A p \in Payloads : Held(p)' <=> Held(p)
  PROVE  UNCHANGED Ledger!ledgerVars
PROOF
  <1>1. \A p \in Payloads : WhereIs(p)' = WhereIs(p)
    BY DEF WhereIs, InQueue
  <1> QED BY <1>1 DEF Ledger!ledgerVars, fateOf, verdictOf, reportOf

(* One payload moves.                                                       *)
LEMMA OneMove ==
  ASSUME UNCHANGED <<phase, timedOut, result>>, NEW p \in Payloads, NEW from, NEW to,
         WhereIs(p) = from, WhereIs(p)' = to,
         \A q \in Payloads : q # p => WhereIs(q)' = WhereIs(q)
  PROVE  Ledger!Move(p, from, to)
PROOF
  <1>1. fateOf' = [fateOf EXCEPT ![p] = to]
    BY DEF fateOf
  <1> QED BY <1>1 DEF Ledger!Move, fateOf, verdictOf, reportOf

(* A worker forgets its reply: a payload it held is lost.                    *)
LEMMA DropMoves ==
  ASSUME RefInv, NEW w \in Workers, reply' = [reply EXCEPT ![w] = Pending],
         UNCHANGED <<queue, unsent, finished>>
  PROVE  /\ \A q \in Payloads : q # reply[w] => WhereIs(q)' = WhereIs(q)
         /\ \A p \in Payloads : p = reply[w] => WhereIs(p) = "held" /\ WhereIs(p)' = "lost"
PROOF
  <1>t. WorkerTypeOK /\ OnePlace /\ Pending \notin Payloads
    BY WorkerAssumption DEF RefInv, Inv, Typed, TypeOK
  <1>1. \A q \in Payloads : q # reply[w] => (Held(q)' <=> Held(q))
    BY <1>t DEF Held, WorkerTypeOK
  <1>2. \A q \in Payloads : q # reply[w] => WhereIs(q)' = WhereIs(q)
    BY <1>1 DEF WhereIs, InQueue
  <1>3. ASSUME NEW p \in Payloads, p = reply[w]
        PROVE  WhereIs(p) = "held" /\ WhereIs(p)' = "lost"
    <2>1. Held(p) /\ ~Held(p)'
      BY <1>t, <1>3 DEF Held, OnePlace, WorkerTypeOK
    <2>2. ~InQueue(p) /\ p \notin finished /\ p \notin unsent
      BY <1>t, <2>1 DEF OnePlace
    <2> QED BY <2>1, <2>2 DEF WhereIs, InQueue
  <1> QED BY <1>2, <1>3

LEMMA DropIsLoss ==
  ASSUME RefInv, NEW w \in Workers, reply' = [reply EXCEPT ![w] = Pending],
         UNCHANGED <<queue, unsent, finished, phase, timedOut, result>>
  PROVE  [Ledger!Next]_(Ledger!ledgerVars)
PROOF
  <1>1. CASE reply[w] \notin Payloads
    <2>1. \A p \in Payloads : WhereIs(p)' = WhereIs(p)
      BY <1>1, DropMoves
    <2> QED BY <2>1 DEF Ledger!ledgerVars, fateOf, verdictOf, reportOf
  <1>2. CASE reply[w] \in Payloads
    <2> PICK p \in Payloads : p = reply[w]
      BY <1>2
    <2>1. /\ WhereIs(p) = "held" /\ WhereIs(p)' = "lost"
          /\ \A q \in Payloads : q # p => WhereIs(q)' = WhereIs(q)
      BY DropMoves
    <2>2. Ledger!Move(p, "held", "lost")
      BY <2>1, OneMove
    <2> QED BY <2>2 DEF Ledger!Next, Ledger!Lose, Payloads
  <1> QED BY <1>1, <1>2

(* Redis takes a payload off a list: it is held by the worker waiting for    *)
(* it, or lost because nobody is.                                           *)
LEMMA PopMoves ==
  ASSUME RefInv, NEW w \in Workers, LpopHit(w), UNCHANGED trialVars
  PROVE  \E p \in Payloads :
           /\ WhereIs(p) = "queued"
           /\ WhereIs(p)' = IF Awaited(w) THEN "held" ELSE "lost"
           /\ \A q \in Payloads : q # p => WhereIs(q)' = WhereIs(q)
PROOF
  <1>t. WorkerTypeOK /\ OnePlace /\ OnePlace' /\ WorkerTypeOK' /\ Pending \notin Payloads
    <2>1. [Next]_vars
      BY DEF Next, Environment
    <2> QED BY <2>1, InvNext, WorkerAssumption DEF RefInv, Inv, Typed, TypeOK
  <1>1. /\ Head(wire[w]) \in Keys /\ queue[Head(wire[w])] \in Seq(Payloads)
        /\ queue[Head(wire[w])] # <<>> /\ wire[w] # <<>>
        /\ Head(queue[Head(wire[w])]) \in Payloads
    BY <1>t, HeadIsPayload DEF LpopHit
  <1>2. PICK k \in Keys, p \in Payloads : k = Head(wire[w]) /\ p = Head(queue[k])
    BY <1>1
  <1>3. /\ Len(queue[k]) \in Nat \ {0} /\ queue[k][1] = p
        /\ Len(Tail(queue[k])) = Len(queue[k]) - 1
        /\ \A i \in 1..Len(Tail(queue[k])) : Tail(queue[k])[i] = queue[k][i + 1]
    BY <1>1, <1>2, HeadTailProperties, EmptySeq
  <1>4. queue' = [queue EXCEPT ![k] = Tail(@)] /\ UNCHANGED <<unsent, finished>>
    BY <1>2 DEF LpopHit, metricVars
  <1>5. \A q \in Payloads : q # p => (InQueue(q)' <=> InQueue(q))
    <2> SUFFICES ASSUME NEW q \in Payloads, q # p PROVE InQueue(q)' <=> InQueue(q)
      OBVIOUS
    <2>1. ASSUME NEW l \in Keys
          PROVE  (\E i \in 1..Len(queue'[l]) : queue'[l][i] = q)
                   <=> (\E i \in 1..Len(queue[l]) : queue[l][i] = q)
      <3>1. CASE l # k
        BY <1>4, <3>1
      <3>2. CASE l = k
        <4>1. queue'[l] = Tail(queue[k])
          BY <1>t, <1>4, <3>2 DEF WorkerTypeOK
        <4>2. ASSUME NEW i \in 1..Len(queue[k]), queue[k][i] = q
              PROVE  i - 1 \in 1..Len(Tail(queue[k])) /\ Tail(queue[k])[i - 1] = q
          <5>1. i - 1 \in 1..Len(Tail(queue[k]))
            BY <1>3, <4>2
          <5> QED BY <1>3, <4>2, <5>1
        <4>3. ASSUME NEW i \in 1..Len(Tail(queue[k])), Tail(queue[k])[i] = q
              PROVE  i + 1 \in 1..Len(queue[k]) /\ queue[k][i + 1] = q
          BY <1>3, <4>3
        <4> QED BY <3>2, <4>1, <4>2, <4>3
      <3> QED BY <3>1, <3>2
    <2> QED BY <2>1 DEF InQueue
  <1>6. InQueue(p)
    <2>1. 1 \in 1..Len(queue[k])
      BY <1>3
    <2> QED BY <1>3, <2>1 DEF InQueue
  <1>7. ~Held(p) /\ p \notin finished /\ p \notin unsent
    BY <1>t, <1>6 DEF OnePlace
  <1>8. WhereIs(p) = "queued"
    BY <1>6, <1>7 DEF WhereIs
  <1>9. ~InQueue(p)'
    <2> SUFFICES ASSUME NEW l \in Keys, NEW i \in 1..Len(queue'[l]), queue'[l][i] = p
                 PROVE  FALSE
      BY DEF InQueue
    <2>1. 1 \in 1..Len(queue[k])
      BY <1>3
    <2>2. CASE l # k
      <3>1. queue'[l] = queue[l]
        BY <1>4, <2>2
      <3> QED BY <1>t, <1>3, <2>1, <2>2, <3>1 DEF OnePlace
    <2>3. CASE l = k
      <3>1. queue'[l] = Tail(queue[k])
        BY <1>t, <1>4, <2>3 DEF WorkerTypeOK
      <3>2. i + 1 \in 1..Len(queue[k]) /\ queue[k][i + 1] = p /\ i + 1 # 1
        BY <1>3, <3>1
      <3> QED BY <1>t, <1>3, <2>1, <3>2 DEF OnePlace
    <2> QED BY <2>2, <2>3
  <1>10. CASE Awaited(w)
    <2>1. reply' = [reply EXCEPT ![w] = p]
      BY <1>2, <1>10 DEF LpopHit
    <2>2. reply[w] = Pending
      BY <1>1, <1>10 DEF RefInv, WaitsEmptyHanded, Awaited
    <2>3. Held(p)' /\ \A q \in Payloads : q # p => (Held(q)' <=> Held(q))
      BY <1>t, <2>1, <2>2 DEF Held, WorkerTypeOK
    <2>4. WhereIs(p)' = "held"
      BY <1>4, <1>7, <1>9, <2>3 DEF WhereIs
    <2>5. \A q \in Payloads : q # p => WhereIs(q)' = WhereIs(q)
      BY <1>4, <1>5, <2>3 DEF WhereIs
    <2> QED BY <1>8, <1>10, <2>4, <2>5
  <1>11. CASE ~Awaited(w)
    <2>1. \A q \in Payloads : Held(q)' <=> Held(q)
      BY <1>11 DEF LpopHit, Held
    <2>2. WhereIs(p)' = "lost"
      BY <1>4, <1>7, <1>9, <2>1 DEF WhereIs
    <2>3. \A q \in Payloads : q # p => WhereIs(q)' = WhereIs(q)
      BY <1>4, <1>5, <2>1 DEF WhereIs
    <2> QED BY <1>8, <1>11, <2>2, <2>3
  <1> QED BY <1>10, <1>11

LEMMA PopIsTakeOrLoss ==
  ASSUME RefInv, NEW w \in Workers, LpopHit(w), UNCHANGED trialVars
  PROVE  Ledger!Next
PROOF
  <1>1. PICK p \in Payloads :
          /\ WhereIs(p) = "queued"
          /\ WhereIs(p)' = IF Awaited(w) THEN "held" ELSE "lost"
          /\ \A q \in Payloads : q # p => WhereIs(q)' = WhereIs(q)
    BY PopMoves
  <1>2. UNCHANGED <<phase, timedOut, result>>
    BY DEF trialVars
  <1>3. CASE Awaited(w)
    <2>1. Ledger!Move(p, "queued", "held")
      BY <1>1, <1>2, <1>3, OneMove
    <2>2. verdictOf # "failed"
      BY <1>3 DEF Awaited, RefInv, Settled, verdictOf
    <2> QED BY <2>1, <2>2 DEF Ledger!Next, Ledger!Take, Payloads
  <1>4. CASE ~Awaited(w)
    <2>1. Ledger!Move(p, "queued", "lost")
      BY <1>1, <1>2, <1>4, OneMove
    <2> QED BY <2>1 DEF Ledger!Next, Ledger!Lose, Payloads
  <1> QED BY <1>3, <1>4

(* Another client's payload appears.                                        *)
LEMMA PushMoves ==
  ASSUME RefInv, NEW p \in Foreign, NEW k \in Keys, ForeignPush(p, k)
  PROVE  /\ WhereIs(p) = "absent" /\ WhereIs(p)' = "queued"
         /\ \A q \in Payloads : q # p => WhereIs(q)' = WhereIs(q)
PROOF
  <1>t. WorkerTypeOK /\ OnePlace
    BY DEF RefInv, Inv, Typed, TypeOK
  <1>1. p \in Payloads /\ p \in unsent /\ queue[k] \in Seq(Payloads)
    BY <1>t DEF ForeignPush, Payloads, WorkerTypeOK
  <1>2. queue' = [queue EXCEPT ![k] = Append(@, p)] /\ unsent' = unsent \ {p}
        /\ UNCHANGED <<reply, finished>>
    BY DEF ForeignPush, metricVars
  <1>3. /\ Len(queue'[k]) = Len(queue[k]) + 1 /\ Len(queue[k]) \in Nat
        /\ queue'[k][Len(queue[k]) + 1] = p
        /\ \A i \in 1..Len(queue[k]) : queue'[k][i] = queue[k][i]
    <2>1. queue'[k] = Append(queue[k], p)
      BY <1>t, <1>2 DEF WorkerTypeOK
    <2> QED BY <1>1, <2>1, AppendProperties, LenProperties
  <1>4. \A q \in Payloads : q # p => (InQueue(q)' <=> InQueue(q))
    <2> SUFFICES ASSUME NEW q \in Payloads, q # p PROVE InQueue(q)' <=> InQueue(q)
      OBVIOUS
    <2>1. ASSUME NEW l \in Keys
          PROVE  (\E i \in 1..Len(queue'[l]) : queue'[l][i] = q)
                   <=> (\E i \in 1..Len(queue[l]) : queue[l][i] = q)
      <3>1. CASE l # k
        BY <1>2, <3>1
      <3>2. CASE l = k
        <4>1. \A i \in 1..Len(queue'[k]) : i \in 1..Len(queue[k]) \/ i = Len(queue[k]) + 1
          BY <1>3
        <4>2. \A i \in 1..Len(queue[k]) : i \in 1..Len(queue'[k])
          BY <1>3
        <4> QED BY <1>3, <2>1, <3>2, <4>1, <4>2
      <3> QED BY <3>1, <3>2
    <2> QED BY <2>1 DEF InQueue
  <1>5. InQueue(p)'
    <2>1. Len(queue[k]) + 1 \in 1..Len(queue'[k])
      BY <1>3
    <2> QED BY <1>3, <2>1 DEF InQueue
  <1>6. WhereIs(p) = "absent" /\ WhereIs(p)' = "queued"
    <2>1. p \notin finished
      BY <1>t, <1>1 DEF OnePlace
    <2>2. WhereIs(p) = "absent"
      BY <1>1, <2>1 DEF WhereIs
    <2>3. p \notin finished' /\ p \notin unsent'
      BY <1>2, <2>1
    <2>4. WhereIs(p)' = "queued"
      BY <1>5, <2>3 DEF WhereIs
    <2> QED BY <2>2, <2>4
  <1>7. \A q \in Payloads : q # p => WhereIs(q)' = WhereIs(q)
    BY <1>2, <1>4 DEF WhereIs, Held
  <1> QED BY <1>6, <1>7

LEMMA PushIsPush ==
  ASSUME RefInv, NEW p \in Foreign, NEW k \in Keys, ForeignPush(p, k), UNCHANGED trialVars
  PROVE  Ledger!Next
PROOF
  <1>1. UNCHANGED <<phase, timedOut, result>> /\ p \in Payloads
    BY DEF trialVars, Payloads
  <1>2. Ledger!Move(p, "absent", "queued")
    BY <1>1, PushMoves, OneMove
  <1> QED BY <1>1, <1>2 DEF Ledger!Next, Ledger!Push, Payloads

(* inc_completed finishes the payload its worker holds.                     *)
LEMMA CountMoves ==
  ASSUME RefInv, NEW w \in Workers, CountJob(w)
  PROVE  \E p \in Payloads : /\ p = reply[w]
                             /\ WhereIs(p) = "held" /\ WhereIs(p)' = "finished"
                             /\ \A q \in Payloads : q # p => WhereIs(q)' = WhereIs(q)
PROOF
  <1>t. WorkerTypeOK /\ OnePlace /\ pc[w] = "count"
    BY DEF RefInv, Inv, Typed, TypeOK, CountJob
  <1>1. PICK p \in Payloads : p = reply[w]
    BY <1>t DEF RefInv, Inv, Typed, PayloadInHand
  <1>2. Held(p)
    BY <1>1 DEF Held
  <1>3. p \notin finished /\ p \notin unsent /\ ~InQueue(p)
    BY <1>t, <1>2 DEF OnePlace
  <1>4. finished' = finished \cup {p} /\ UNCHANGED <<queue, unsent>>
        /\ reply' = [reply EXCEPT ![w] = Pending]
    BY <1>1 DEF CountJob, redisVars
  <1>5. \A q \in Payloads : q # p => (Held(q)' <=> Held(q))
    BY <1>t, <1>1, <1>4, WorkerAssumption DEF Held, WorkerTypeOK
  <1>6. WhereIs(p) = "held" /\ WhereIs(p)' = "finished"
    <2>1. WhereIs(p) = "held"
      BY <1>2, <1>3 DEF WhereIs
    <2>2. p \in finished'
      BY <1>4
    <2>3. WhereIs(p)' = "finished"
      BY <2>2 DEF WhereIs
    <2> QED BY <2>1, <2>3
  <1>7. \A q \in Payloads : q # p => WhereIs(q)' = WhereIs(q)
    BY <1>4, <1>5 DEF WhereIs, InQueue
  <1> QED BY <1>1, <1>6, <1>7

LEMMA CountIsFinish ==
  ASSUME RefInv, NEW w \in Workers, CountJob(w), UNCHANGED trialVars
  PROVE  Ledger!Next
PROOF
  <1>1. PICK p \in Payloads : /\ WhereIs(p) = "held" /\ WhereIs(p)' = "finished"
                              /\ \A q \in Payloads : q # p => WhereIs(q)' = WhereIs(q)
    BY CountMoves
  <1>2. UNCHANGED <<phase, timedOut, result>>
    BY DEF trialVars
  <1>3. Ledger!Move(p, "held", "finished")
    BY <1>1, <1>2, OneMove
  <1>4. reportOf = Nil
    BY DEF RefInv, Settled, Gone, reportOf, CountJob
  <1> QED BY <1>3, <1>4 DEF Ledger!Next, Ledger!Finish, Payloads

-----------------------------------------------------------------------------
(* The orchestrator's steps.                                                *)

(* The ledger counts as the trial does.                                     *)
LEMMA SameCardinality == \A S : Ledger!Cardinality(S) = Cardinality(S)
BY DEF Cardinality, Ledger!Cardinality

LEMMA FinishedFate == ASSUME TypeOK PROVE Ledger!With("finished") = finished
PROOF
  <1>1. \A p \in Payloads : WhereIs(p) = "finished" <=> p \in finished
    BY DEF WhereIs
  <1>2. finished \subseteq Payloads
    BY DEF TypeOK, WorkerTypeOK
  <1> QED BY <1>1, <1>2 DEF Ledger!With, fateOf, Payloads

LEMMA OrchestratorIsLedger ==
  ASSUME RefInv, Orchestrator
  PROVE  [Ledger!Next]_(Ledger!ledgerVars)
PROOF
  <1>t. TypeOK /\ CountedOnce /\ DoneJustified /\ Settled
    BY DEF RefInv, Inv, Typed
  <1>f. Ledger!With("finished") = finished
    BY <1>t, FinishedFate
  <1>k. UNCHANGED <<queue, unsent, reply, finished>>
    BY DEF Orchestrator, Spawn, ConnectFails, TrialDone, TrialTimeout, SendShutdown, JoinDone,
           Return, workerVars, redisVars, metricVars
  <1>u. fateOf' = fateOf
    BY <1>k DEF fateOf, WhereIs, InQueue, Held
  <1>1. CASE Spawn \/ SendShutdown \/ JoinDone
    <2>1. UNCHANGED <<verdictOf, reportOf>>
      BY <1>1 DEF Spawn, SendShutdown, JoinDone, verdictOf, reportOf
    <2> QED BY <1>u, <2>1 DEF Ledger!ledgerVars
  <1>2. CASE ConnectFails
    <2>1. verdictOf = "open" /\ verdictOf' = "failed" /\ UNCHANGED reportOf
      BY <1>2 DEF ConnectFails, verdictOf, reportOf
    <2> QED BY <1>u, <2>1 DEF Ledger!Next, Ledger!Decide
  <1>3. CASE TrialDone
    <2>1. completed >= Target
      BY <1>t, <1>3 DEF TrialDone, DoneJustified, TypeOK, WorkerTypeOK
    <2>2. ~timedOut
      BY <1>3 DEF TrialDone, RefInv, TimeoutWasTaken
    <2>3. verdictOf = "open" /\ verdictOf' = "drained" /\ UNCHANGED reportOf
      BY <1>3, <2>2 DEF TrialDone, verdictOf, reportOf
    <2>4. Cardinality(Ledger!With("finished")) >= Target
      BY <1>t, <1>f, <2>1 DEF CountedOnce
    <2>5. Ledger!Decide("drained")
      BY <1>u, <2>3, <2>4, SameCardinality DEF Ledger!Decide
    <2> QED BY <2>5 DEF Ledger!Next
  <1>4. CASE TrialTimeout
    <2>1. verdictOf = "open" /\ verdictOf' = "timed_out" /\ UNCHANGED reportOf
      BY <1>4 DEF TrialTimeout, verdictOf, reportOf
    <2> QED BY <1>u, <2>1 DEF Ledger!Next, Ledger!Decide
  <1>5. CASE Return
    <2>1. \A w \in Workers : reply[w] = Pending
      BY <1>5 DEF Return, RefInv, Settled, Gone, ReplyInUse
    <2>2. Ledger!With("held") = {}
      BY <2>1, WorkerAssumption DEF Ledger!With, fateOf, WhereIs, Held, Payloads
    <2>3. verdictOf = IF timedOut THEN "timed_out" ELSE "drained"
      BY <1>5 DEF Return, verdictOf
    <2>4. verdictOf' = verdictOf
      BY <1>5 DEF Return, verdictOf
    <2>5. reportOf = Nil
      BY <1>5 DEF Return, reportOf
    <2>6. reportOf' = [total_jobs |-> completed, timed_out |-> timedOut]
      BY <1>5 DEF Return, reportOf
    <2>7. timedOut = (verdictOf = "timed_out")
      BY <1>t, <2>3 DEF TypeOK
    <2>8. completed = Cardinality(Ledger!With("finished"))
      BY <1>t, <1>f DEF CountedOnce
    <2>9. reportOf' = [total_jobs |-> Cardinality(Ledger!With("finished")),
                       timed_out |-> verdictOf = "timed_out"]
      BY <2>6, <2>7, <2>8
    <2>10. verdictOf \in {"drained", "timed_out"}
      BY <2>3
    <2>11. Ledger!Report
      BY <1>u, <2>2, <2>4, <2>5, <2>9, <2>10, SameCardinality DEF Ledger!Report
    <2> QED BY <2>11 DEF Ledger!Next
  <1> QED BY <1>1, <1>2, <1>3, <1>4, <1>5 DEF Orchestrator

LEMMA LedgerNext == RefInv /\ [Next]_vars => [Ledger!Next]_(Ledger!ledgerVars)
PROOF
  <1> SUFFICES ASSUME RefInv, [Next]_vars PROVE [Ledger!Next]_(Ledger!ledgerVars)
    OBVIOUS
  <1>t. WorkerTypeOK /\ Nil \notin Payloads /\ Pending \notin Payloads
    BY WorkerAssumption DEF RefInv, Inv, Typed, TypeOK
  <1>1. ASSUME NEW w \in Workers, LpopMiss(w), UNCHANGED trialVars
        PROVE  [Ledger!Next]_(Ledger!ledgerVars)
    <2>1. Awaited(w) => reply[w] = Pending
      BY <1>1 DEF LpopMiss, Awaited, RefInv, WaitsEmptyHanded
    <2>2. \A p \in Payloads : Held(p)' <=> Held(p)
      BY <1>t, <1>1, <2>1 DEF LpopMiss, Held, WorkerTypeOK
    <2> QED BY <1>1, <2>2, NoMove DEF LpopMiss, metricVars, trialVars
  <1>2. ASSUME NEW w \in Workers, ReplyMiss(w) \/ ReplyErr(w), UNCHANGED trialVars
        PROVE  [Ledger!Next]_(Ledger!ledgerVars)
    BY <1>2, DropIsLoss DEF ReplyMiss, ReplyErr, redisVars, metricVars, trialVars
  <1>3. ASSUME NEW w \in Workers, Cancel(w)
        PROVE  [Ledger!Next]_(Ledger!ledgerVars)
    BY <1>3, DropIsLoss DEF Cancel, redisVars, metricVars, trialVars
  <1>4. ASSUME UNCHANGED <<queue, unsent, reply, finished, phase, timedOut, result>>
        PROVE  [Ledger!Next]_(Ledger!ledgerVars)
    BY <1>4, NoMove DEF Held
  <1>5. ASSUME NEW w \in Workers, UNCHANGED trialVars,
               \/ LoopTop(w) \/ SendLpop(w) \/ ReplyHit(w) \/ RecordJob(w) \/ SignalDone(w)
               \/ SleepElapsed(w) \/ ShutdownWakes(w) \/ BreakConnection(w)
        PROVE  [Ledger!Next]_(Ledger!ledgerVars)
    BY <1>4, <1>5
    DEF LoopTop, SendLpop, ReplyHit, RecordJob, SignalDone, SleepElapsed, ShutdownWakes,
        BreakConnection, redisVars, metricVars, trialVars
  <1>6. CASE \/ CollectorRecv \/ CollectorEnd \/ UNCHANGED vars
             \/ \E w \in Workers : GraceExpires(w)
    BY <1>4, <1>6
    DEF CollectorRecv, CollectorEnd, GraceExpires, vars, workerVars, trialVars, redisVars,
        metricVars
  <1> QED
    BY <1>1, <1>2, <1>3, <1>5, <1>6, PushIsPush, PopIsTakeOrLoss, CountIsFinish,
       OrchestratorIsLedger
    DEF Next, Environment, WorkerActs, WorkerStep, Terminated

(* The workers, the collector and the orchestrator together implement the    *)
(* ledger: whatever Redis, the network and the scheduler do, each payload is *)
(* taken once and finished once, the verdict "drained" needs Target finished *)
(* payloads, and the report counts all of them and is final.                *)
THEOREM TrialImplementsLedger == Spec => ImplementsLedger
PROOF
  <1>1. Init => Ledger!Init
    <2> SUFFICES ASSUME Init PROVE Ledger!Init
      OBVIOUS
    <2>1. \A p \in Jobs : InQueue(p) /\ p \notin Foreign
      BY BacklogAssumption, WorkerAssumption DEF Init, WorkerInit, InQueue, BacklogIsPartition
    <2>2. \A p \in Payloads : WhereIs(p) = IF p \in Jobs THEN "queued" ELSE "absent"
      <3>1. finished = {} /\ unsent = Foreign
        BY DEF Init, WorkerInit
      <3>2. \A p \in Jobs : WhereIs(p) = "queued"
        BY <2>1, <3>1 DEF WhereIs
      <3>3. \A p \in Foreign : WhereIs(p) = "absent"
        BY <3>1 DEF WhereIs
      <3> QED BY <2>1, <3>2, <3>3 DEF Payloads
    <2> QED BY <2>2 DEF Ledger!Init, fateOf, verdictOf, reportOf, Payloads, Init
  <1>2. RefInv /\ [Next]_vars => [Ledger!Next]_(Ledger!ledgerVars)
    BY LedgerNext
  <1>3. Spec => []RefInv
    BY RefInvHolds
  <1> QED BY <1>1, <1>2, <1>3, PTL DEF Spec, ImplementsLedger, Ledger!Spec

-----------------------------------------------------------------------------
(* The errors account for what is missing.  Requests that Redis may still    *)
(* execute for nobody are the losses to come: each was paid for by the error *)
(* or the abort that made its worker stop waiting.                          *)

Cancelled == {w \in Workers : pc[w] = "cancelled"}

OwnRequest(w) == pc[w] = "await" /\ wire[w] # <<>>
StaleAt(w)    == IF OwnRequest(w) THEN Len(wire[w]) - 1 ELSE Len(wire[w])
Stale         == {e \in Workers \X (Nat \ {0}) : e[2] <= StaleAt(e[1])}

LossesPaid ==
  /\ IsFiniteSet(Stale)
  /\ Cardinality(Lost) + Cardinality(Rejected) + Cardinality(Stale)
       <= errors + Cardinality(Cancelled)

(* Sets that shrink, sets that gain an element, sets that lose one.          *)
LEMMA Smaller ==
  ASSUME NEW S, IsFiniteSet(S), NEW T, T \subseteq S
  PROVE  /\ IsFiniteSet(T) /\ Cardinality(T) \in Nat /\ Cardinality(S) \in Nat
         /\ Cardinality(T) <= Cardinality(S)
BY FS_Subset, FS_CardinalityType

LEMMA OneMore ==
  ASSUME NEW S, IsFiniteSet(S), NEW T, NEW x, T \subseteq S \cup {x}
  PROVE  /\ IsFiniteSet(T) /\ Cardinality(T) \in Nat /\ Cardinality(S) \in Nat
         /\ Cardinality(T) <= Cardinality(S) + 1
PROOF
  <1>1. IsFiniteSet(S \cup {x}) /\ Cardinality(S \cup {x}) <= Cardinality(S) + 1
        /\ Cardinality(S) \in Nat
    BY FS_AddElement, FS_CardinalityType
  <1>2. IsFiniteSet(T) /\ Cardinality(T) <= Cardinality(S \cup {x})
    BY <1>1, FS_Subset
  <1>3. Cardinality(T) \in Nat /\ Cardinality(S \cup {x}) \in Nat
    BY <1>1, <1>2, FS_CardinalityType
  <1> QED BY <1>1, <1>2, <1>3

LEMMA OneLess ==
  ASSUME NEW S, IsFiniteSet(S), NEW x \in S, NEW T, T \subseteq S \ {x}
  PROVE  /\ IsFiniteSet(T) /\ Cardinality(T) \in Nat /\ Cardinality(S) \in Nat
         /\ Cardinality(T) <= Cardinality(S) - 1
PROOF
  <1>1. IsFiniteSet(S \ {x}) /\ Cardinality(S \ {x}) = Cardinality(S) - 1
    BY FS_RemoveElement
  <1> QED BY <1>1, Smaller, FS_CardinalityType

LEMMA AccountsFinite ==
  /\ IsFiniteSet(Lost) /\ IsFiniteSet(Rejected)
  /\ IsFiniteSet(Cancelled) /\ IsFiniteSet(Cancelled')
PROOF
  <1>1. IsFiniteSet(Payloads) /\ IsFiniteSet(Malformed)
    BY WorkerAssumption, FS_Union, FS_Subset DEF Payloads
  <1>2. /\ Lost \subseteq Payloads /\ Rejected \subseteq Malformed
        /\ Cancelled \subseteq Workers /\ Cancelled' \subseteq Workers
    BY DEF Lost, Rejected, Cancelled
  <1> QED BY <1>1, <1>2, WorkerAssumption, FS_Subset

LEMMA LostFate == /\ Lost = {p \in Payloads : WhereIs(p) = "lost"}
                  /\ Lost' = {p \in Payloads : WhereIs(p)' = "lost"}
BY DEF Lost, WhereIs

(* A step that at most settles an account.                                  *)
LEMMA PaidStays ==
  ASSUME TypeOK, TypeOK', LossesPaid, Lost' \subseteq Lost, Rejected' \subseteq Rejected,
         Stale' \subseteq Stale, errors' >= errors, Cancelled \subseteq Cancelled'
  PROVE  LossesPaid'
PROOF
  <1>1. /\ IsFiniteSet(Lost) /\ IsFiniteSet(Rejected) /\ IsFiniteSet(Cancelled')
        /\ IsFiniteSet(Stale)
    BY AccountsFinite DEF LossesPaid
  <1>2. errors \in Nat /\ errors' \in Nat
    BY DEF TypeOK, WorkerTypeOK
  <1>3. /\ Cardinality(Lost') <= Cardinality(Lost)
        /\ Cardinality(Lost') \in Nat /\ Cardinality(Lost) \in Nat
    BY <1>1, Smaller
  <1>4. /\ Cardinality(Rejected') <= Cardinality(Rejected)
        /\ Cardinality(Rejected') \in Nat /\ Cardinality(Rejected) \in Nat
    BY <1>1, Smaller
  <1>5. /\ Cardinality(Stale') <= Cardinality(Stale) /\ IsFiniteSet(Stale')
        /\ Cardinality(Stale') \in Nat /\ Cardinality(Stale) \in Nat
    BY <1>1, Smaller
  <1>6. /\ Cardinality(Cancelled) <= Cardinality(Cancelled')
        /\ Cardinality(Cancelled') \in Nat /\ Cardinality(Cancelled) \in Nat
    BY <1>1, Smaller
  <1> QED BY <1>2, <1>3, <1>4, <1>5, <1>6 DEF LossesPaid

(* A worker stops waiting: a payload or a request is given up, and paid for  *)
(* by an error or by the abort.                                             *)
LEMMA PaidByStep ==
  ASSUME TypeOK, TypeOK', LossesPaid, NEW x,
         \/ /\ Lost' \subseteq Lost \cup {x}
            /\ Rejected' \subseteq Rejected /\ Stale' \subseteq Stale
         \/ /\ Rejected' \subseteq Rejected \cup {x}
            /\ Lost' \subseteq Lost /\ Stale' \subseteq Stale
         \/ /\ Stale' \subseteq Stale \cup {x}
            /\ Lost' \subseteq Lost /\ Rejected' \subseteq Rejected,
         \/ errors' = errors + 1 /\ Cancelled \subseteq Cancelled'
         \/ /\ errors' = errors
            /\ \E w \in Workers : w \notin Cancelled /\ Cancelled' = Cancelled \cup {w}
  PROVE  LossesPaid'
PROOF
  <1>1. /\ IsFiniteSet(Lost) /\ IsFiniteSet(Rejected) /\ IsFiniteSet(Cancelled)
        /\ IsFiniteSet(Cancelled') /\ IsFiniteSet(Stale)
    BY AccountsFinite DEF LossesPaid
  <1> DEFINE l == Cardinality(Lost)   l2 == Cardinality(Lost')
             r == Cardinality(Rejected)   r2 == Cardinality(Rejected')
             s == Cardinality(Stale)   s2 == Cardinality(Stale')
             c == Cardinality(Cancelled)   c2 == Cardinality(Cancelled')
  <1>2. errors \in Nat /\ errors' \in Nat
    BY DEF TypeOK, WorkerTypeOK
  <1>3. /\ l \in Nat /\ l2 \in Nat /\ r \in Nat /\ r2 \in Nat /\ s \in Nat /\ s2 \in Nat
        /\ IsFiniteSet(Stale')
        /\ \/ l2 <= l + 1 /\ r2 <= r /\ s2 <= s
           \/ l2 <= l /\ r2 <= r + 1 /\ s2 <= s
           \/ l2 <= l /\ r2 <= r /\ s2 <= s + 1
    <2>1. CASE /\ Lost' \subseteq Lost \cup {x}
               /\ Rejected' \subseteq Rejected /\ Stale' \subseteq Stale
      BY <1>1, <2>1, Smaller, OneMore
    <2>2. CASE /\ Rejected' \subseteq Rejected \cup {x}
               /\ Lost' \subseteq Lost /\ Stale' \subseteq Stale
      BY <1>1, <2>2, Smaller, OneMore
    <2>3. CASE /\ Stale' \subseteq Stale \cup {x}
               /\ Lost' \subseteq Lost /\ Rejected' \subseteq Rejected
      BY <1>1, <2>3, Smaller, OneMore
    <2> QED BY <2>1, <2>2, <2>3
  <1>4. c \in Nat /\ c2 \in Nat /\ errors' + c2 >= errors + c + 1
    <2>1. CASE errors' = errors + 1 /\ Cancelled \subseteq Cancelled'
      <3>1. c <= c2 /\ c \in Nat /\ c2 \in Nat
        BY <1>1, <2>1, Smaller
      <3> QED BY <1>2, <2>1, <3>1
    <2>2. CASE /\ errors' = errors
               /\ \E w \in Workers : w \notin Cancelled /\ Cancelled' = Cancelled \cup {w}
      <3>1. c2 = c + 1 /\ c \in Nat /\ c2 \in Nat
        BY <1>1, <2>2, FS_AddElement, FS_CardinalityType
      <3> QED BY <1>2, <2>2, <3>1
    <2> QED BY <2>1, <2>2
  <1>5. l + r + s <= errors + c
    BY DEF LossesPaid
  <1>6. l2 + r2 + s2 <= errors' + c2
    <2> HIDE DEF l, l2, r, r2, s, s2, c, c2
    <2> DEFINE e == errors   e2 == errors'
    <2>1. e \in Nat /\ e2 \in Nat /\ c \in Nat /\ c2 \in Nat /\ e2 + c2 >= e + c + 1
      BY <1>2, <1>4
    <2>2. l + r + s <= e + c
      BY <1>5
    <2> HIDE DEF e, e2
    <2>3. l2 + r2 + s2 <= e2 + c2
      BY <1>3, <2>1, <2>2
    <2> QED BY <2>3 DEF e, e2
  <1> QED BY <1>3, <1>6 DEF LossesPaid

(* Stale requests, worker by worker.                                        *)
LEMMA StaleShrinks ==
  ASSUME TypeOK, TypeOK', \A v \in Workers : StaleAt(v)' <= StaleAt(v)
  PROVE  Stale' \subseteq Stale
PROOF
  <1>1. \A v \in Workers : StaleAt(v) \in Int /\ StaleAt(v)' \in Int
    BY LenProperties DEF TypeOK, WorkerTypeOK, StaleAt
  <1> QED BY <1>1 DEF Stale

LEMMA StaleGrows ==
  ASSUME TypeOK, TypeOK', NEW w \in Workers, StaleAt(w)' <= StaleAt(w) + 1,
         \A v \in Workers \ {w} : StaleAt(v)' <= StaleAt(v)
  PROVE  Stale' \subseteq Stale \cup {<<w, StaleAt(w) + 1>>}
PROOF
  <1>1. \A v \in Workers : StaleAt(v) \in Int /\ StaleAt(v)' \in Int
    BY LenProperties DEF TypeOK, WorkerTypeOK, StaleAt
  <1>2. ASSUME NEW v \in Workers, NEW i \in Nat \ {0}, i <= StaleAt(v)'
        PROVE  i <= StaleAt(v) \/ (v = w /\ i = StaleAt(w) + 1)
    BY <1>1, <1>2
  <1> QED BY <1>2 DEF Stale

(* Redis executes a request nobody waits for.                               *)
LEMMA StaleExecuted ==
  ASSUME RefInv, NEW w \in Workers, wire[w] # <<>>, ~Awaited(w),
         wire' = [wire EXCEPT ![w] = Tail(@)], UNCHANGED pc
  PROVE  /\ StaleAt(w) \in Nat \ {0} /\ StaleAt(w)' = StaleAt(w) - 1
         /\ \A v \in Workers \ {w} : StaleAt(v)' = StaleAt(v)
         /\ \E x \in Stale : Stale' \subseteq Stale \ {x}
PROOF
  <1>t. WorkerTypeOK
    BY DEF RefInv, Inv, Typed, TypeOK
  <1>1. /\ wire[w] \in Seq(Keys) /\ Len(wire[w]) \in Nat \ {0}
        /\ wire'[w] = Tail(wire[w]) /\ Len(wire'[w]) = Len(wire[w]) - 1
        /\ wire'[w] \in Seq(Keys)
    BY <1>t, HeadTailProperties, EmptySeq DEF WorkerTypeOK
  <1>2. wire'[w] = <<>> <=> Len(wire[w]) = 1
    <2>1. wire'[w] = <<>> <=> Len(wire'[w]) = 0
      BY <1>1, EmptySeq
    <2> QED BY <1>1, <2>1
  <1>3. StaleAt(w) \in Nat \ {0} /\ StaleAt(w)' = StaleAt(w) - 1
    BY <1>1, <1>2 DEF StaleAt, OwnRequest, Awaited
  <1>4. ASSUME NEW v \in Workers \ {w} PROVE StaleAt(v)' = StaleAt(v)
    <2>1. wire'[v] = wire[v] /\ pc'[v] = pc[v]
      BY <1>t DEF WorkerTypeOK
    <2> QED BY <2>1 DEF StaleAt, OwnRequest
  <1>5. <<w, StaleAt(w)>> \in Stale
    BY <1>3 DEF Stale
  <1>6. Stale' \subseteq Stale \ {<<w, StaleAt(w)>>}
    <2> SUFFICES ASSUME NEW v \in Workers, NEW i \in Nat \ {0}, i <= StaleAt(v)'
                 PROVE  i <= StaleAt(v) /\ ~(v = w /\ i = StaleAt(w))
      BY DEF Stale
    <2>1. CASE v = w
      BY <1>3, <2>1
    <2>2. CASE v # w
      BY <1>4, <2>2
    <2> QED BY <2>1, <2>2
  <1> QED BY <1>3, <1>4, <1>5, <1>6

(* Redis answers the request a worker waits for.                            *)
LEMMA AnsweredLeavesStale ==
  ASSUME TypeOK, TypeOK', NEW w \in Workers, Awaited(w), UNCHANGED pc,
         wire' = [wire EXCEPT ![w] = Tail(@)]
  PROVE  Stale' \subseteq Stale
PROOF
  <1>1. /\ wire[w] \in Seq(Keys) /\ Len(wire[w]) = 1 /\ wire[w] # <<>>
        /\ wire'[w] = Tail(wire[w]) /\ Len(wire'[w]) = 0
    BY HeadTailProperties, EmptySeq DEF TypeOK, WorkerTypeOK, Awaited
  <1>2. StaleAt(w) = 0 /\ StaleAt(w)' <= 0
    BY <1>1 DEF StaleAt, OwnRequest, Awaited
  <1>3. \A v \in Workers : StaleAt(v) \in Int
    BY LenProperties DEF StaleAt, TypeOK, WorkerTypeOK
  <1>4. \A v \in Workers \ {w} : StaleAt(v)' = StaleAt(v)
    <2>1. \A v \in Workers \ {w} : wire'[v] = wire[v] /\ pc'[v] = pc[v]
      BY DEF TypeOK, WorkerTypeOK
    <2>2. ASSUME NEW v \in Workers \ {w} PROVE OwnRequest(v)' <=> OwnRequest(v)
      BY <2>1 DEF OwnRequest
    <2> QED BY <2>1, <2>2 DEF StaleAt
  <1> QED BY <1>2, <1>3, <1>4, StaleShrinks

(* A loss that was paid for when its worker stopped waiting.                *)
LEMMA PaidBefore ==
  ASSUME TypeOK, TypeOK', LossesPaid, NEW p, Lost' \subseteq Lost \cup {p},
         NEW x \in Stale, Stale' \subseteq Stale \ {x},
         Rejected' = Rejected, Cancelled' = Cancelled, errors' = errors
  PROVE  LossesPaid'
PROOF
  <1>1. /\ IsFiniteSet(Lost) /\ IsFiniteSet(Rejected) /\ IsFiniteSet(Cancelled)
        /\ IsFiniteSet(Stale) /\ errors \in Nat
    BY AccountsFinite DEF LossesPaid, TypeOK, WorkerTypeOK
  <1> DEFINE l == Cardinality(Lost)   l2 == Cardinality(Lost')
             s == Cardinality(Stale)   s2 == Cardinality(Stale')
             r == Cardinality(Rejected)   c == Cardinality(Cancelled)
  <1>2. l \in Nat /\ l2 \in Nat /\ l2 <= l + 1
    BY <1>1, OneMore
  <1>3. s \in Nat /\ s2 \in Nat /\ s2 <= s - 1 /\ IsFiniteSet(Stale')
    BY <1>1, OneLess
  <1>4. r \in Nat /\ c \in Nat
    BY <1>1, FS_CardinalityType
  <1>5. l + r + s <= errors + c
    BY DEF LossesPaid
  <1>6. l2 + r + s2 <= errors + c
    <2> HIDE DEF l, l2, s, s2, r, c
    <2> QED BY <1>1, <1>2, <1>3, <1>4, <1>5
  <1> QED BY <1>3, <1>6 DEF LossesPaid

(* A task goes on, and leaves no request of its own behind.                  *)
LEMMA MovesOn ==
  ASSUME TypeOK, TypeOK', NEW w \in Workers, OwnRequest(w) => OwnRequest(w)',
         \A v \in Workers \ {w} : pc'[v] = pc[v], pc[w] # "cancelled", UNCHANGED wire
  PROVE  /\ Stale' \subseteq Stale
         /\ Cancelled \subseteq Cancelled'
         /\ UNCHANGED <<finished, reply>> /\ pc'[w] # "count" => Rejected' \subseteq Rejected
         /\ finished' = finished /\ reply' = [reply EXCEPT ![w] = Pending] /\ pc'[w] # "count"
               => Rejected' \subseteq Rejected
PROOF
  <1>1. \A v \in Workers : OwnRequest(v) => OwnRequest(v)'
    BY DEF OwnRequest
  <1>2. \A v \in Workers : Len(wire[v]) \in Nat
    BY LenProperties DEF TypeOK, WorkerTypeOK
  <1>3. \A v \in Workers : StaleAt(v)' <= StaleAt(v)
    BY <1>1, <1>2 DEF StaleAt
  <1>4. Cancelled \subseteq Cancelled'
    BY DEF Cancelled
  <1> QED BY <1>3, <1>4, StaleShrinks DEF Rejected, TypeOK, WorkerTypeOK

(* A worker stops waiting, by an error or because it was aborted: the        *)
(* payload of an answer it had not read is lost, or its request goes stale.  *)
LEMMA GiveUp ==
  ASSUME RefInv, LossesPaid, TypeOK', NEW w \in Workers,
         reply' = [reply EXCEPT ![w] = Pending], UNCHANGED <<queue, unsent, wire, finished>>,
         pc[w] \in {"await", "sleep"},
         NEW to \in {"issue", "sleep", "cancelled"}, pc' = [pc EXCEPT ![w] = to],
         \/ errors' = errors + 1 /\ Cancelled \subseteq Cancelled'
         \/ /\ errors' = errors
            /\ w \notin Cancelled /\ Cancelled' = Cancelled \cup {w}
  PROVE  LossesPaid'
PROOF
  <1>t. TypeOK /\ WorkerTypeOK
    BY DEF RefInv, Inv, Typed, TypeOK
  <1>e. \A v \in Workers : Len(wire[v]) \in Nat /\ StaleAt(v) \in Int
    BY <1>t, LenProperties DEF WorkerTypeOK, StaleAt
  <1>1. Rejected' \subseteq Rejected
    BY <1>t DEF Rejected, WorkerTypeOK
  <1>2. \A v \in Workers \ {w} : StaleAt(v)' = StaleAt(v)
    <2>1. \A v \in Workers \ {w} : pc'[v] = pc[v]
      BY <1>t DEF WorkerTypeOK
    <2> QED BY <2>1 DEF StaleAt, OwnRequest
  <1>3. CASE reply[w] \in Payloads
    <2>1. Lost' \subseteq Lost \cup {reply[w]}
      BY DropMoves, LostFate
    <2>2. ~OwnRequest(w)
      BY <1>3, WorkerAssumption DEF RefInv, WaitsEmptyHanded, OwnRequest
    <2>3. StaleAt(w)' = StaleAt(w)
      BY <1>t, <2>2 DEF StaleAt, OwnRequest, WorkerTypeOK
    <2>4. Stale' \subseteq Stale
      BY <1>t, <1>e, <1>2, <2>3, StaleShrinks
    <2> QED BY <1>t, <1>1, <2>1, <2>4, PaidByStep
  <1>4. CASE reply[w] \notin Payloads
    <2>1. Lost' \subseteq Lost
      BY <1>4, DropMoves, LostFate
    <2>2. StaleAt(w)' <= StaleAt(w) + 1
      BY <1>t, <1>e DEF StaleAt, OwnRequest, WorkerTypeOK
    <2>3. Stale' \subseteq Stale \cup {<<w, StaleAt(w) + 1>>}
      BY <1>t, <1>e, <1>2, <2>2, StaleGrows
    <2> QED BY <1>t, <1>1, <2>1, <2>3, PaidByStep
  <1> QED BY <1>3, <1>4

LEMMA LossesPaidNext == RefInv /\ LossesPaid /\ [Next]_vars => LossesPaid'
PROOF
  <1> SUFFICES ASSUME RefInv, LossesPaid, [Next]_vars PROVE LossesPaid'
    OBVIOUS
  <1>t. TypeOK /\ WorkerTypeOK /\ TypeOK'
    BY InvNext DEF RefInv, Inv, Typed, TypeOK
  <1>e. errors \in Nat /\ \A w \in Workers : wire[w] \in Seq(Keys) /\ StaleAt(w) \in Int
    BY <1>t, LenProperties DEF WorkerTypeOK, StaleAt
  <1>u. UNCHANGED <<wire, pc>> => Stale' = Stale
    BY DEF Stale, StaleAt, OwnRequest
  <1>l. ASSUME UNCHANGED <<queue, unsent, reply, finished>> PROVE Lost' = Lost
    BY <1>l DEF Lost, InQueue, Held
  <1>1. ASSUME NEW p \in Foreign, NEW k \in Keys, ForeignPush(p, k)
        PROVE  LossesPaid'
    <2>1. Lost' \subseteq Lost
      BY <1>1, PushMoves, LostFate DEF Payloads
    <2> QED BY <1>t, <1>e, <1>u, <1>1, <2>1, PaidStays
      DEF ForeignPush, metricVars, Rejected, Cancelled
  <1>2. ASSUME NEW w \in Workers, LpopHit(w), UNCHANGED trialVars
        PROVE  LossesPaid'
    <2>1. PICK p \in Payloads : /\ WhereIs(p) = "queued"
                                /\ WhereIs(p)' = IF Awaited(w) THEN "held" ELSE "lost"
                                /\ \A q \in Payloads : q # p => WhereIs(q)' = WhereIs(q)
      BY <1>2, PopMoves
    <2>2. /\ wire[w] # <<>> /\ wire' = [wire EXCEPT ![w] = Tail(@)]
          /\ UNCHANGED <<pc, errors, finished>>
          /\ \A v \in Workers \ {w} : reply'[v] = reply[v]
      BY <1>t, <1>2 DEF LpopHit, metricVars, WorkerTypeOK
    <2>3. Rejected' = Rejected /\ Cancelled' = Cancelled
      <3>1. \A v \in Workers : pc[v] = "count" => reply'[v] = reply[v]
        BY <1>2, <2>2 DEF LpopHit, Awaited
      <3> QED BY <2>2, <3>1 DEF Rejected, Cancelled
    <2>4. CASE Awaited(w)
      <3>1. Lost' = Lost
        BY <2>1, <2>4, LostFate
      <3>2. Stale' \subseteq Stale
        BY <1>t, <2>2, <2>4, AnsweredLeavesStale
      <3> QED BY <1>t, <1>e, <2>2, <2>3, <3>1, <3>2, PaidStays
    <2>5. CASE ~Awaited(w)
      <3>1. Lost' \subseteq Lost \cup {p}
        BY <2>1, LostFate
      <3>2. \E x \in Stale : Stale' \subseteq Stale \ {x}
        BY <2>2, <2>5, StaleExecuted
      <3> QED BY <1>t, <2>2, <2>3, <3>1, <3>2, PaidBefore
    <2> QED BY <2>4, <2>5
  <1>3. ASSUME NEW w \in Workers, LpopMiss(w), UNCHANGED trialVars
        PROVE  LossesPaid'
    <2>1. /\ wire[w] # <<>> /\ wire' = [wire EXCEPT ![w] = Tail(@)]
          /\ UNCHANGED <<queue, unsent, pc, errors, finished>>
          /\ reply' = reply \/ (Awaited(w) /\ reply' = [reply EXCEPT ![w] = Nil])
      BY <1>3 DEF LpopMiss, metricVars
    <2>2. \A p \in Payloads : Held(p) => Held(p)'
      <3>1. Awaited(w) => reply[w] = Pending
        BY <2>1 DEF RefInv, WaitsEmptyHanded, Awaited
      <3> QED BY <1>t, <2>1, <3>1, WorkerAssumption DEF Held, WorkerTypeOK
    <2>3. Lost' \subseteq Lost
      BY <2>1, <2>2 DEF Lost, InQueue
    <2>4. Rejected' = Rejected /\ Cancelled' = Cancelled
      <3>1. \A v \in Workers : pc[v] = "count" => reply'[v] = reply[v]
        BY <1>t, <2>1 DEF Awaited, WorkerTypeOK
      <3> QED BY <2>1, <3>1 DEF Rejected, Cancelled
    <2>5. Stale' \subseteq Stale
      BY <1>t, <2>1, AnsweredLeavesStale, StaleExecuted
    <2> QED BY <1>t, <1>e, <2>1, <2>3, <2>4, <2>5, PaidStays
  <1>4. ASSUME NEW w \in Workers, BreakConnection(w)
        PROVE  LossesPaid'
    <2>1. StaleAt(w)' <= StaleAt(w)
      <3>1. wire'[w] = <<>> /\ Len(wire'[w]) = 0 /\ Len(wire[w]) \in Nat
        BY <1>t, <1>4, EmptySeq, LenProperties DEF BreakConnection, WorkerTypeOK
      <3>2. wire[w] # <<>> => Len(wire[w]) >= 1
        BY <1>e, <3>1, EmptySeq
      <3> QED BY <3>1, <3>2 DEF StaleAt, OwnRequest
    <2>2. \A v \in Workers \ {w} : StaleAt(v)' = StaleAt(v)
      <3>1. \A v \in Workers \ {w} : wire'[v] = wire[v] /\ pc'[v] = pc[v]
        BY <1>t, <1>4 DEF BreakConnection, WorkerTypeOK
      <3> QED BY <3>1 DEF StaleAt, OwnRequest
    <2>3. Stale' \subseteq Stale
      BY <1>t, <1>e, <2>1, <2>2, StaleShrinks
    <2>4. UNCHANGED <<queue, unsent, reply, finished, pc, errors>>
      BY <1>4 DEF BreakConnection, metricVars
    <2> QED BY <1>t, <1>e, <1>l, <2>3, <2>4, PaidStays DEF Rejected, Cancelled
  <1>5. ASSUME NEW w \in Workers, ReplyErr(w)
        PROVE  LossesPaid'
    <2>1. /\ reply' = [reply EXCEPT ![w] = Pending] /\ errors' = errors + 1 /\ pc[w] = "await"
          /\ UNCHANGED <<queue, unsent, wire, finished>> /\ ContinueScan(w)
      BY <1>5 DEF ReplyErr, redisVars
    <2>2. pc' = [pc EXCEPT ![w] = "issue"] \/ pc' = [pc EXCEPT ![w] = "sleep"]
      BY <1>t, <2>1, ScanGoesOn
    <2>3. Cancelled \subseteq Cancelled'
      BY <1>t, <2>1, <2>2 DEF Cancelled, WorkerTypeOK
    <2> QED BY <1>t, <2>1, <2>2, <2>3, GiveUp
  <1>6. ASSUME NEW w \in Workers, Cancel(w)
        PROVE  LossesPaid'
    <2>1. /\ reply' = [reply EXCEPT ![w] = Pending] /\ pc[w] \in {"await", "sleep"}
          /\ pc' = [pc EXCEPT ![w] = "cancelled"]
          /\ UNCHANGED <<queue, unsent, wire, finished, errors>>
      BY <1>6 DEF Cancel, Parked, Goto, redisVars, metricVars
    <2>2. w \notin Cancelled /\ Cancelled' = Cancelled \cup {w}
      BY <1>t, <2>1 DEF Cancelled, WorkerTypeOK
    <2> QED BY <1>t, <2>1, <2>2, GiveUp
  <1>7. ASSUME NEW w \in Workers, RecordJob(w)
        PROVE  LossesPaid'
    <2>1. /\ pc[w] = "record" /\ pc' = [pc EXCEPT ![w] = "count"]
          /\ UNCHANGED <<queue, unsent, wire, reply, finished>>
          /\ \/ errors' = errors + 1
             \/ reply[w] \notin Malformed /\ errors' = errors
      BY <1>7 DEF RecordJob, Goto, redisVars
    <2>2. Lost' = Lost
      BY <1>l, <2>1
    <2>3. Stale' \subseteq Stale /\ Cancelled \subseteq Cancelled'
      BY <1>t, <2>1, MovesOn DEF OwnRequest, WorkerTypeOK
    <2>4. Rejected' \subseteq Rejected \cup {reply[w]}
      BY <1>t, <2>1 DEF Rejected, WorkerTypeOK
    <2>5. CASE errors' = errors + 1
      BY <1>t, <2>2, <2>3, <2>4, <2>5, PaidByStep
    <2>6. CASE reply[w] \notin Malformed /\ errors' = errors
      <3>1. Rejected' \subseteq Rejected
        BY <1>t, <2>1, <2>6 DEF Rejected, WorkerTypeOK
      <3> QED BY <1>t, <1>e, <2>2, <2>3, <2>6, <3>1, PaidStays
    <2> QED BY <2>1, <2>5, <2>6
  <1>8. ASSUME NEW w \in Workers, CountJob(w)
        PROVE  LossesPaid'
    <2>1. /\ pc[w] = "count" /\ reply' = [reply EXCEPT ![w] = Pending]
          /\ finished' = finished \cup {reply[w]} /\ UNCHANGED <<wire, errors>>
          /\ \/ pc' = [pc EXCEPT ![w] = "signal"]
             \/ pc' = [pc EXCEPT ![w] = "top"]
      BY <1>8 DEF CountJob, Goto, redisVars
    <2>2. Lost' \subseteq Lost
      BY <1>8, CountMoves, LostFate
    <2>3. Stale' \subseteq Stale /\ Cancelled \subseteq Cancelled'
      BY <1>t, <2>1, MovesOn DEF OwnRequest, WorkerTypeOK
    <2>4. Rejected' \subseteq Rejected
      BY <1>t, <2>1 DEF Rejected, WorkerTypeOK
    <2> QED BY <1>t, <1>e, <2>1, <2>2, <2>3, <2>4, PaidStays
  <1>9. ASSUME NEW w \in Workers, ReplyMiss(w)
        PROVE  LossesPaid'
    <2>1. /\ reply' = [reply EXCEPT ![w] = Pending] /\ pc[w] = "await" /\ reply[w] = Nil
          /\ UNCHANGED <<queue, unsent, wire, finished, errors>> /\ ContinueScan(w)
      BY <1>9 DEF ReplyMiss, redisVars, metricVars
    <2>2. pc' = [pc EXCEPT ![w] = "issue"] \/ pc' = [pc EXCEPT ![w] = "sleep"]
      BY <1>t, <2>1, ScanGoesOn
    <2>3. Lost' \subseteq Lost
      BY <2>1, DropMoves, LostFate, WorkerAssumption
    <2>4. wire[w] = <<>>
      BY <2>1, WorkerAssumption DEF RefInv, WaitsEmptyHanded
    <2>5. Stale' \subseteq Stale /\ Rejected' \subseteq Rejected /\ Cancelled \subseteq Cancelled'
      BY <1>t, <2>1, <2>2, <2>4, MovesOn DEF OwnRequest, WorkerTypeOK
    <2> QED BY <1>t, <1>e, <2>1, <2>3, <2>5, PaidStays
  <1>10. ASSUME NEW w \in Workers, ReplyHit(w)
         PROVE  LossesPaid'
    <2>1. /\ pc[w] = "await" /\ pc' = [pc EXCEPT ![w] = "record"] /\ reply[w] # Pending
          /\ UNCHANGED <<queue, unsent, wire, reply, finished, errors>>
      BY <1>10, WorkerAssumption DEF ReplyHit, Goto, redisVars, metricVars
    <2>2. wire[w] = <<>>
      BY <2>1 DEF RefInv, WaitsEmptyHanded
    <2>3. Lost' = Lost
      BY <1>l, <2>1
    <2>4. Stale' \subseteq Stale /\ Rejected' \subseteq Rejected /\ Cancelled \subseteq Cancelled'
      BY <1>t, <2>1, <2>2, MovesOn DEF OwnRequest, WorkerTypeOK
    <2> QED BY <1>t, <1>e, <2>1, <2>3, <2>4, PaidStays
  <1>11. ASSUME NEW w \in Workers, SendLpop(w)
         PROVE  LossesPaid'
    <2>1. /\ pc[w] = "issue" /\ pc' = [pc EXCEPT ![w] = "await"]
          /\ wire' = wire \/ wire' = [wire EXCEPT ![w] = Append(@, key[w])]
          /\ UNCHANGED <<queue, unsent, reply, finished, errors>>
      BY <1>t, <1>11 DEF SendLpop, Goto, metricVars, WorkerTypeOK
    <2>2. Lost' = Lost /\ Rejected' = Rejected /\ Cancelled' = Cancelled
      BY <1>t, <1>l, <2>1 DEF Rejected, Cancelled, WorkerTypeOK
    <2>3. StaleAt(w)' <= StaleAt(w)
      <3>1. wire[w] \in Seq(Keys) /\ key[w] \in Keys /\ pc'[w] = "await"
        BY <1>t, <2>1 DEF WorkerTypeOK
      <3>2. CASE wire' = wire
        BY <1>e, <2>1, <3>1, <3>2 DEF StaleAt, OwnRequest
      <3>3. CASE wire' = [wire EXCEPT ![w] = Append(@, key[w])]
        <4>1. wire'[w] = Append(wire[w], key[w])
          BY <1>t, <3>3 DEF WorkerTypeOK
        <4>2. wire'[w] # <<>> /\ Len(wire'[w]) = Len(wire[w]) + 1
          BY <3>1, <4>1, AppendProperties
        <4> QED BY <2>1, <3>1, <4>2, LenProperties DEF StaleAt, OwnRequest
      <3> QED BY <2>1, <3>2, <3>3
    <2>4. \A v \in Workers \ {w} : StaleAt(v)' = StaleAt(v)
      <3>1. \A v \in Workers \ {w} : wire'[v] = wire[v] /\ pc'[v] = pc[v]
        BY <1>t, <2>1 DEF WorkerTypeOK
      <3> QED BY <3>1 DEF StaleAt, OwnRequest
    <2>5. Stale' \subseteq Stale
      BY <1>t, <1>e, <2>3, <2>4, StaleShrinks
    <2> QED BY <1>t, <1>e, <2>1, <2>2, <2>5, PaidStays
  <1>12. ASSUME NEW w \in Workers, \/ LoopTop(w) \/ SignalDone(w)
                                   \/ SleepElapsed(w) \/ ShutdownWakes(w)
         PROVE  LossesPaid'
    <2>1. /\ pc[w] \notin {"await", "cancelled"} /\ pc'[w] # "count"
          /\ \A v \in Workers \ {w} : pc'[v] = pc[v]
          /\ UNCHANGED <<queue, unsent, wire, reply, finished, errors>>
      BY <1>t, <1>12 DEF LoopTop, SignalDone, SleepElapsed, ShutdownWakes, Goto, redisVars,
                         metricVars, WorkerTypeOK
    <2>2. Lost' = Lost
      BY <1>l, <2>1
    <2>3. Stale' \subseteq Stale /\ Rejected' \subseteq Rejected /\ Cancelled \subseteq Cancelled'
      BY <1>t, <2>1, MovesOn DEF OwnRequest, WorkerTypeOK
    <2> QED BY <1>t, <1>e, <2>1, <2>2, <2>3, PaidStays
  <1>13. CASE Spawn
    <2>1. UNCHANGED <<queue, unsent, wire, reply, finished, errors>>
      BY <1>13 DEF Spawn, redisVars, metricVars
    <2>2. \A w \in Workers : pc[w] = "unspawned" /\ pc'[w] = "top"
      BY <1>13 DEF Spawn, RefInv, Settled
    <2>3. Stale' = Stale /\ Rejected' = Rejected /\ Cancelled' = Cancelled
      BY <2>1, <2>2 DEF Stale, StaleAt, OwnRequest, Rejected, Cancelled
    <2> QED BY <1>t, <1>e, <1>l, <2>1, <2>3, PaidStays
  <1>14. CASE UNCHANGED <<queue, unsent, wire, pc, reply, errors, finished>>
    BY <1>t, <1>e, <1>u, <1>l, <1>14, PaidStays DEF Rejected, Cancelled
  <1> QED
    BY <1>1, <1>2, <1>3, <1>4, <1>5, <1>6, <1>7, <1>8, <1>9, <1>10, <1>11, <1>12, <1>13, <1>14
    DEF Next, Environment, WorkerActs, WorkerStep, GraceExpires, Orchestrator, ConnectFails,
        TrialDone, TrialTimeout, SendShutdown, JoinDone, Return, CollectorRecv, CollectorEnd,
        Terminated, vars, workerVars, redisVars, metricVars

(* A payload disappears only with a failed query or an aborted worker, and   *)
(* each of those loses at most one: for any fleet, any backlog and any       *)
(* number of failures, the errors and the aborts bound the missing payloads. *)
THEOREM LossesAreAccounted == Spec => []LossIsAccounted
PROOF
  <1>1. Init => LossesPaid
    <2> SUFFICES ASSUME Init PROVE LossesPaid
      OBVIOUS
    <2>1. Lost = {}
      <3>1. \A p \in Jobs : InQueue(p)
        BY BacklogAssumption DEF Init, WorkerInit, InQueue, BacklogIsPartition
      <3> QED BY <3>1 DEF Lost, Payloads, Init, WorkerInit
    <2>2. Rejected = {} /\ Cancelled = {} /\ errors = 0
      BY DEF Rejected, Cancelled, Init, WorkerInit
    <2>3. Stale = {}
      <3>1. \A w \in Workers : StaleAt(w) = 0
        BY EmptySeq DEF StaleAt, OwnRequest, Init, WorkerInit
      <3> QED BY <3>1 DEF Stale
    <2> QED BY <2>1, <2>2, <2>3, FS_EmptySet DEF LossesPaid
  <1>2. RefInv /\ LossesPaid => LossIsAccounted
    <2> SUFFICES ASSUME RefInv, LossesPaid PROVE LossIsAccounted
      OBVIOUS
    <2>1. /\ Cardinality(Lost) \in Nat /\ Cardinality(Rejected) \in Nat
          /\ Cardinality(Stale) \in Nat /\ Cardinality(Cancelled) \in Nat /\ errors \in Nat
      BY AccountsFinite, FS_CardinalityType
      DEF LossesPaid, RefInv, Inv, Typed, TypeOK, WorkerTypeOK
    <2> QED BY <2>1 DEF LossesPaid, LossIsAccounted, Cancelled
  <1> QED BY <1>1, <1>2, RefInvHolds, LossesPaidNext, PTL DEF Spec

-----------------------------------------------------------------------------
(* The result accounts for every finished job.                              *)

Sent == chan \cup hist \cup refused

(* record_job is through with p, and p is not malformed.                    *)
Measured(p) ==
  /\ p \notin Malformed
  /\ p \in finished \/ \E w \in Workers : pc[w] = "count" /\ reply[w] = p

(* Each measured payload has exactly one entry, wherever the entry is; and   *)
(* the result was copied from the counters.                                 *)
EntriesMatch ==
  /\ \A e \in Sent : Measured(e[1])
  /\ \A p \in Payloads : Measured(p) => \E e \in Sent : e[1] = p
  /\ \A e, f \in Sent : e[1] = f[1] => e = f

ResultCopied ==
  phase = "returned" => /\ result.total_jobs = completed
                        /\ result.errors = errors
                        /\ result.latency_count = Cardinality(hist)

LEMMA EntriesKept ==
  ASSUME EntriesMatch, Sent' = Sent, \A p \in Payloads : Measured(p)' <=> Measured(p),
         \A e \in Sent : e[1] \in Payloads
  PROVE  EntriesMatch'
PROOF
  <1>1. \A e \in Sent' : Measured(e[1])'
    BY DEF EntriesMatch
  <1>2. \A p \in Payloads : Measured(p)' => \E e \in Sent' : e[1] = p
    BY DEF EntriesMatch
  <1>3. \A e, f \in Sent' : e[1] = f[1] => e = f
    BY DEF EntriesMatch
  <1> QED BY <1>1, <1>2, <1>3 DEF EntriesMatch

LEMMA EntriesMatchNext == Inv /\ Settled /\ EntriesMatch /\ [Next]_vars => EntriesMatch'
PROOF
  <1> SUFFICES ASSUME Inv, Settled, EntriesMatch, [Next]_vars PROVE EntriesMatch'
    OBVIOUS
  <1>t. TypeOK /\ WorkerTypeOK /\ OnePlace /\ PayloadInHand
    BY DEF Inv, Typed, TypeOK
  <1>e. \A e \in Sent : e[1] \in Payloads
    BY <1>t DEF Sent, TypeOK, WorkerTypeOK
  <1>1. ASSUME UNCHANGED <<chan, hist, refused, finished>>,
               \A v \in Workers : /\ pc'[v] = "count" <=> pc[v] = "count"
                                  /\ pc[v] = "count" => reply'[v] = reply[v]
        PROVE  EntriesMatch'
    <2>1. Sent' = Sent
      BY <1>1 DEF Sent
    <2>2. \A p \in Payloads : Measured(p)' <=> Measured(p)
      BY <1>1 DEF Measured
    <2> QED BY <1>e, <2>1, <2>2, EntriesKept
  <1>2. ASSUME NEW w \in Workers, RecordJob(w), UNCHANGED trialVars
        PROVE  EntriesMatch'
    <2>1. /\ pc[w] = "record" /\ pc' = [pc EXCEPT ![w] = "count"]
          /\ UNCHANGED <<reply, finished, hist, refused>> /\ reply[w] \in Payloads
      BY <1>t, <1>2 DEF RecordJob, Goto, redisVars, trialVars, PayloadInHand
    <2>2. \A p \in Payloads : Measured(p)' <=> (Measured(p) \/ (p = reply[w] /\ p \notin Malformed))
      BY <1>t, <2>1 DEF Measured, WorkerTypeOK
    <2>3. CASE reply[w] \in Malformed /\ UNCHANGED chan
      BY <1>e, <2>1, <2>2, <2>3, EntriesKept DEF Sent
    <2>4. CASE /\ reply[w] \notin Malformed
               /\ \E wait \in Waits : chan' = chan \cup {<<reply[w], LatencyUs(wait)>>}
      <3>1. PICK us : Sent' = Sent \cup {<<reply[w], us>>}
        BY <2>1, <2>4 DEF Sent
      <3>2. ~Measured(reply[w])
        BY <1>t, <2>1 DEF Measured, OnePlace, Held, WorkerTypeOK
      <3>3. \A e \in Sent : e[1] # reply[w]
        BY <3>2 DEF EntriesMatch
      <3>4. \A e \in Sent' : e \in Sent \/ e = <<reply[w], us>>
        BY <3>1
      <3>5. ASSUME NEW e \in Sent' PROVE Measured(e[1])'
        <4>1. CASE e \in Sent
          BY <1>e, <2>2, <4>1 DEF EntriesMatch
        <4>2. CASE e = <<reply[w], us>>
          BY <2>1, <2>2, <2>4, <4>2
        <4> QED BY <3>4, <4>1, <4>2
      <3>6. \A p \in Payloads : Measured(p)' => \E e \in Sent' : e[1] = p
        <4> SUFFICES ASSUME NEW p \in Payloads, Measured(p)' PROVE \E e \in Sent' : e[1] = p
          OBVIOUS
        <4>1. CASE Measured(p)
          BY <3>1, <4>1 DEF EntriesMatch
        <4>2. CASE ~Measured(p)
          <5>1. p = reply[w]
            BY <2>2, <4>2
          <5>2. <<reply[w], us>> \in Sent'
            BY <3>1
          <5> QED BY <5>1, <5>2
        <4> QED BY <4>1, <4>2
      <3>7. \A e, f \in Sent' : e[1] = f[1] => e = f
        BY <3>3, <3>4 DEF EntriesMatch
      <3> QED BY <3>5, <3>6, <3>7 DEF EntriesMatch
    <2> QED BY <1>2, <2>3, <2>4 DEF RecordJob
  <1>3. ASSUME NEW w \in Workers, CountJob(w), UNCHANGED trialVars
        PROVE  EntriesMatch'
    <2>1. /\ pc[w] = "count" /\ reply' = [reply EXCEPT ![w] = Pending]
          /\ finished' = finished \cup {reply[w]} /\ UNCHANGED <<chan, hist, refused>>
          /\ \/ pc' = [pc EXCEPT ![w] = "signal"]
             \/ pc' = [pc EXCEPT ![w] = "top"]
      BY <1>3 DEF CountJob, Goto, redisVars, trialVars
    <2>2. \A v \in Workers : pc'[v] = "count" <=> (v # w /\ pc[v] = "count")
      BY <1>t, <2>1 DEF WorkerTypeOK
    <2>3. \A v \in Workers : v # w => reply'[v] = reply[v]
      BY <1>t, <2>1 DEF WorkerTypeOK
    <2>4. \A p \in Payloads : Measured(p)' <=> Measured(p)
      BY <2>1, <2>2, <2>3 DEF Measured
    <2> QED BY <1>e, <2>1, <2>4, EntriesKept DEF Sent
  <1>4. CASE CollectorRecv
    <2>1. Sent' = Sent
      BY <1>4 DEF CollectorRecv, Sent
    <2>2. \A p \in Payloads : Measured(p)' <=> Measured(p)
      BY <1>4 DEF CollectorRecv, Measured, metricVars
    <2> QED BY <1>e, <2>1, <2>2, EntriesKept
  <1>5. ASSUME NEW w \in Workers, LpopHit(w) \/ LpopMiss(w), UNCHANGED trialVars
        PROVE  EntriesMatch'
    BY <1>t, <1>1, <1>5 DEF LpopHit, LpopMiss, Awaited, metricVars, trialVars, WorkerTypeOK
  <1>6. ASSUME NEW w \in Workers, ReplyMiss(w) \/ ReplyErr(w), UNCHANGED trialVars
        PROVE  EntriesMatch'
    <2>1. pc' = [pc EXCEPT ![w] = "issue"] \/ pc' = [pc EXCEPT ![w] = "sleep"]
      BY <1>t, <1>6, ScanGoesOn DEF ReplyMiss, ReplyErr
    <2> QED BY <1>t, <1>1, <1>6, <2>1
      DEF ReplyMiss, ReplyErr, redisVars, metricVars, trialVars, WorkerTypeOK
  <1>7. ASSUME NEW w \in Workers, Cancel(w)
        PROVE  EntriesMatch'
    BY <1>t, <1>1, <1>7 DEF Cancel, Parked, Goto, redisVars, metricVars, trialVars, WorkerTypeOK
  <1>8. ASSUME NEW w \in Workers, UNCHANGED trialVars,
               \/ LoopTop(w) \/ SendLpop(w) \/ ReplyHit(w) \/ SignalDone(w) \/ SleepElapsed(w)
               \/ ShutdownWakes(w) \/ BreakConnection(w)
        PROVE  EntriesMatch'
    BY <1>t, <1>1, <1>8
    DEF LoopTop, SendLpop, ReplyHit, SignalDone, SleepElapsed, ShutdownWakes, BreakConnection,
        Goto, redisVars, metricVars, trialVars, WorkerTypeOK
  <1>9. CASE Spawn
    <2>1. \A w \in Workers : pc[w] = "unspawned" /\ pc'[w] = "top"
      BY <1>9 DEF Spawn, Settled
    <2> QED BY <1>1, <1>9, <2>1 DEF Spawn, metricVars
  <1>10. CASE UNCHANGED <<chan, hist, refused, finished, pc, reply>>
    BY <1>1, <1>10
  <1> QED
    BY <1>2, <1>3, <1>4, <1>5, <1>6, <1>7, <1>8, <1>9, <1>10
    DEF Next, Environment, ForeignPush, WorkerActs, WorkerStep, GraceExpires, Orchestrator,
        ConnectFails, TrialDone, TrialTimeout, SendShutdown, JoinDone, Return, CollectorEnd,
        Terminated, vars, workerVars, redisVars, metricVars, trialVars

(* What run_drain_trial returns is complete although the workers are not     *)
(* awaited one by one: the counters it copied are final, and each finished   *)
(* payload that is not malformed has exactly one entry, recorded in the      *)
(* histogram or refused by it.                                              *)
THEOREM ResultIsComplete == Spec => []ResultAccounts
PROOF
  <1> DEFINE Complete == Inv /\ Settled /\ EntriesMatch /\ ResultCopied
  <1>1. Init => EntriesMatch /\ ResultCopied
    BY DEF Init, WorkerInit, EntriesMatch, ResultCopied, Sent, Measured
  <1>2. ASSUME Settled, ResultCopied, [Next]_vars PROVE ResultCopied'
    <2>1. CASE phase = "returned"
      BY <1>2, <2>1, ReturnedStays DEF ResultCopied
    <2>2. CASE phase # "returned" /\ Return
      BY <2>2 DEF Return, ResultCopied, workerVars, metricVars
    <2>3. CASE phase # "returned" /\ ~Return
      <3>1. phase' # "returned"
        BY <1>2, <2>3
        DEF Next, Environment, WorkerActs, GraceExpires, Cancel, Orchestrator, Spawn, ConnectFails,
            TrialDone, TrialTimeout, SendShutdown, JoinDone, CollectorRecv, CollectorEnd,
            Terminated, vars, trialVars
      <3> QED BY <3>1 DEF ResultCopied
    <2> QED BY <2>1, <2>2, <2>3
  <1>3. ASSUME Inv, Settled, EntriesMatch, ResultCopied PROVE ResultAccounts
    <2> SUFFICES ASSUME phase = "returned" PROVE ResultAccounts
      BY DEF ResultAccounts
    <2>t. TypeOK /\ CountedOnce
      BY <1>3 DEF Inv, Typed
    <2> DEFINE entries == hist \cup refused
               counted == finished \ Malformed
    <2>1. chan = {} /\ \A w \in Workers : pc[w] # "count"
      BY <1>3 DEF Settled, Gone
    <2>2. Sent = entries
      BY <2>1 DEF Sent
    <2>3. \A p : Measured(p) <=> p \in counted
      BY <2>1 DEF Measured
    <2>4. /\ \A e \in entries : e[1] \in counted
          /\ \A p \in counted : \E e \in entries : e[1] = p
          /\ \A e, f \in entries : e[1] = f[1] => e = f
      BY <1>3, <2>t, <2>2, <2>3 DEF EntriesMatch, TypeOK, WorkerTypeOK
    <2>5. {e[1] : e \in entries} = counted
      BY <2>4
    <2>6. Cardinality(entries) = Cardinality(counted)
      <3> DEFINE f == [e \in entries |-> e[1]]
      <3>1. f \in Bijection(entries, counted)
        BY <2>4 DEF Bijection, Injection, Surjection, IsInjective
      <3>2. IsFiniteSet(counted)
        BY <2>t, FinishedFinite, FS_Subset
      <3>3. f \in Injection(entries, counted) /\ f \in Surjection(entries, counted)
        BY <3>1 DEF Bijection
      <3> QED BY <3>2, <3>3, FS_Injection
    <2> QED BY <1>3, <2>t, <2>5, <2>6 DEF ResultAccounts, ResultCopied, CountedOnce
  <1>4. RefInv => Inv /\ Settled
    BY DEF RefInv
  <1> QED BY <1>1, <1>2, <1>3, <1>4, RefInvHolds, EntriesMatchNext, PTL DEF Spec
===============================================================================
