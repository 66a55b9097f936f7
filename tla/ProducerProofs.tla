---------------------------- MODULE ProducerProofs ----------------------------
(***************************************************************************)
(* Theorems about Producer, for any number of queues, jobs and commands    *)
(* per batch: the types, what the keys hold when the trial starts, and     *)
(* what a total of the LLENs says of them.                                 *)
(***************************************************************************)
EXTENDS Producer, ArithmeticTheorems

-----------------------------------------------------------------------------
(* The round-robin distribution.                                            *)

(* The key of job n.                                                        *)
Home(n) == (n % NumQueues) + 1

(* How many of the first n jobs key k gets.                                  *)
Share(n, k) == (n + NumQueues - k) \div NumQueues

LEMMA ShareFacts ==
  ASSUME NEW n \in Nat
  PROVE  /\ \A k \in Keys : Share(n, k) \in Nat
         /\ \A k \in Keys : Share(0, k) = 0
         /\ Home(n) \in Keys
         /\ (Home(n) - 1) + Share(n, Home(n)) * NumQueues = n
         /\ Share(n + 1, Home(n)) = Share(n, Home(n)) + 1
         /\ \A k \in Keys : k # Home(n) => Share(n + 1, k) = Share(n, k)
PROOF
  <1> DEFINE m == NumQueues
             q == n \div m
             r == n % m
  <1>1. m \in Nat \ {0}
    BY ProducerAssumption
  <1>2. q \in Nat /\ r \in 0..(m - 1) /\ n = q * m + r
    BY <1>1, Division
  <1> HIDE DEF m, q, r
  <1>3. ASSUME NEW k \in 1..m, k <= r PROVE (n + m - k) \div m = q + 1
    <2>1. n + m - k = (q + 1) * m + (r - k) /\ r - k \in 0..(m - 1) /\ q + 1 \in Nat
      BY <1>1, <1>2, <1>3
    <2> QED BY <1>1, <2>1, Quotient
  <1>4. ASSUME NEW k \in 1..m, k > r PROVE (n + m - k) \div m = q
    <2>1. n + m - k = q * m + (r + m - k) /\ r + m - k \in 0..(m - 1)
      BY <1>1, <1>2, <1>4
    <2> QED BY <1>1, <1>2, <2>1, Quotient
  <1>5. ASSUME NEW k \in 1..m, k <= r + 1 PROVE (n + 1 + m - k) \div m = q + 1
    <2>1. n + 1 + m - k = (q + 1) * m + (r + 1 - k) /\ r + 1 - k \in 0..(m - 1) /\ q + 1 \in Nat
      BY <1>1, <1>2, <1>5
    <2> QED BY <1>1, <2>1, Quotient
  <1>6. ASSUME NEW k \in 1..m, k > r + 1 PROVE (n + 1 + m - k) \div m = q
    <2>1. n + 1 + m - k = q * m + (r + 1 + m - k) /\ r + 1 + m - k \in 0..(m - 1)
      BY <1>1, <1>2, <1>6
    <2> QED BY <1>1, <1>2, <2>1, Quotient
  <1>7. ASSUME NEW k \in 1..m PROVE (0 + m - k) \div m = 0
    <2>1. 0 + m - k = 0 * m + (m - k) /\ m - k \in 0..(m - 1)
      BY <1>1
    <2> QED BY <1>1, <2>1, Quotient
  <1>8. r + 1 \in 1..m
    BY <1>1, <1>2
  <1>9. \A k \in 1..m : k <= r \/ k = r + 1 \/ k > r + 1
    BY <1>1, <1>2
  <1>10. \A k \in 1..m : (n + m - k) \div m \in Nat
    BY <1>2, <1>3, <1>4, <1>9
  <1>11. (n + m - (r + 1)) \div m = q /\ (n + 1 + m - (r + 1)) \div m = q + 1
    BY <1>2, <1>4, <1>5, <1>8
  <1>12. ASSUME NEW k \in 1..m, k # r + 1 PROVE (n + 1 + m - k) \div m = (n + m - k) \div m
    BY <1>2, <1>3, <1>4, <1>5, <1>6, <1>9, <1>12
  <1>13. (r + 1 - 1) + q * m = n
    BY <1>1, <1>2
  <1>14. /\ Keys = 1..m /\ Home(n) = r + 1 /\ NumQueues = m
         /\ \A k : /\ Share(n, k) = (n + m - k) \div m
                 /\ Share(0, k) = (0 + m - k) \div m
                 /\ Share(n + 1, k) = (n + 1 + m - k) \div m
    BY DEF Keys, Home, Share, m, r
  <1>15. \A k \in Keys : Share(n, k) \in Nat /\ Share(0, k) = 0
    BY <1>7, <1>10, <1>14
  <1>16. Share(n, r + 1) = q /\ Share(n + 1, r + 1) = q + 1
    BY <1>11, <1>14
  <1>17. \A k \in Keys : k # r + 1 => Share(n + 1, k) = Share(n, k)
    BY <1>12, <1>14
  <1>18. (Home(n) - 1) + Share(n, Home(n)) * NumQueues = n
    <2>1. Home(n) = r + 1 /\ NumQueues = m /\ r \in Int
      BY <1>2, <1>14
    <2>2. Share(n, Home(n)) = q
      BY <1>16, <2>1
    <2> QED BY <1>13, <2>1, <2>2
  <1> QED BY <1>8, <1>14, <1>15, <1>16, <1>17, <1>18

LEMMA RoundRobinIs ==
  ASSUME NEW n \in Nat
  PROVE  RoundRobin(n) = [k \in Keys |-> [i \in 1..Share(n, k) |-> (k - 1) + (i - 1) * NumQueues]]
BY DEF RoundRobin, Share

LEMMA RoundRobinEmpty == RoundRobin(0) = [k \in Keys |-> <<>>]
PROOF
  <1>1. ASSUME NEW k \in Keys PROVE RoundRobin(0)[k] = <<>>
    <2>1. RoundRobin(0)[k] = [i \in 1..0 |-> (k - 1) + (i - 1) * NumQueues]
      BY RoundRobinIs, ShareFacts
    <2> QED BY <2>1
  <1> QED BY <1>1 DEF RoundRobin

(* The next job goes behind the last of its key.                             *)
LEMMA RoundRobinNext ==
  ASSUME NEW n \in Nat
  PROVE  RoundRobin(n + 1) = [RoundRobin(n) EXCEPT ![Home(n)] = Append(@, n)]
PROOF
  <1> DEFINE K == Home(n)
             s == Share(n, K)
             F(i) == (K - 1) + (i - 1) * NumQueues
             G(i) == [k \in Keys |-> [j \in 1..Share(i, k) |-> (k - 1) + (j - 1) * NumQueues]]
  <1>1. /\ n + 1 \in Nat /\ NumQueues \in Nat
        /\ RoundRobin(n) = G(n) /\ RoundRobin(n + 1) = G(n + 1)
    BY ProducerAssumption DEF RoundRobin, Share
  <1>2. K \in Keys /\ s \in Nat /\ Share(n + 1, K) = s + 1 /\ (K - 1) + s * NumQueues = n
    BY ShareFacts
  <1>3. F(s + 1) = n /\ \A i \in 1..(s + 1) : F(i) \in Int
    <2> HIDE DEF K, s
    <2>1. K \in Int /\ (s + 1) - 1 = s
      BY <1>2 DEF Keys
    <2> QED BY <1>1, <1>2, <2>1
  <1> HIDE DEF K
  <1>4. RoundRobin(n)[K] = [i \in 1..s |-> F(i)]
    BY <1>1, <1>2
  <1>5. RoundRobin(n + 1)[K] = [i \in 1..(s + 1) |-> F(i)]
    BY <1>1, <1>2
  <1>6. ASSUME NEW k \in Keys, k # K PROVE RoundRobin(n + 1)[k] = RoundRobin(n)[k]
    <2>1. Share(n + 1, k) = Share(n, k)
      BY <1>6, ShareFacts DEF K
    <2> QED BY <1>1, <2>1
  <1>7. RoundRobin(n + 1)[K] = Append(RoundRobin(n)[K], n)
    <2> HIDE DEF F, s
    <2>1. [i \in 1..s |-> F(i)] \in Seq(Int) /\ Len([i \in 1..s |-> F(i)]) = s
      BY <1>2, <1>3
    <2>2. [i \in 1..(s + 1) |-> F(i)] = Append([i \in 1..s |-> F(i)], n)
      BY <1>2, <1>3, <2>1
    <2> QED BY <1>4, <1>5, <2>2
  <1>8. /\ RoundRobin(n) = [k \in Keys |-> RoundRobin(n)[k]]
        /\ RoundRobin(n + 1) = [k \in Keys |-> RoundRobin(n + 1)[k]]
    BY <1>1
  <1>9. RoundRobin(n + 1) = [RoundRobin(n) EXCEPT ![K] = Append(@, n)]
    BY <1>2, <1>6, <1>7, <1>8
  <1> QED BY <1>9 DEF K

-----------------------------------------------------------------------------
(* Types, and what is left of the pipeline of each phase.                    *)

Ops     == {"DEL", "SREM", "FLUSHDB", "SADD", "RPUSH", "LLEN"}
Command == [op : Ops, key : Keys, idx : Nat]

(* The job that the next RPUSH pushes.                                       *)
At == idx + Batch - Len(pipe)

Typed ==
  /\ TypeOK
  /\ pipe \in Seq(Command)
  /\ phase = "clear" => \A n \in 1..Len(pipe) : pipe[n].op \in {"DEL", "SREM", "FLUSHDB"}
  /\ phase = "register" => \A n \in 1..Len(pipe) : pipe[n].op = "SADD"
  /\ phase = "fill" =>
       /\ Len(pipe) <= Batch
       /\ \A n \in 1..Len(pipe) : pipe[n] = Rpush(Home(At + n - 1), At + n - 1)
  /\ phase = "count" =>
       /\ Len(lens) + Len(pipe) = NumQueues
       /\ \A n \in 1..Len(pipe) : pipe[n] = Llen(Len(lens) + n)
  /\ phase \in {"filled", "counted", "error"} => pipe = <<>>
  /\ phase \in {"clear", "register", "fill", "filled"} => lens = <<>>
  /\ phase = "counted" => Len(lens) = NumQueues
  /\ phase \in {"clear", "register"} => idx = 0
  /\ phase \in {"filled", "count", "counted"} => remaining = 0

LEMMA BatchFacts ==
  ASSUME TypeOK
  PROVE  /\ Batch \in Nat /\ Batch <= remaining /\ idx + Batch <= NumJobs
         /\ remaining = 0 => Batch = 0
         /\ idx \in Nat /\ remaining \in Nat /\ NumJobs \in Nat /\ NumQueues \in Nat \ {0}
BY ProducerAssumption DEF TypeOK, Batch

LEMMA BatchPipeFacts ==
  ASSUME TypeOK
  PROVE  /\ BatchPipe \in Seq(Command) /\ Len(BatchPipe) = Batch
         /\ \A n \in 1..Batch : BatchPipe[n] = Rpush(Home(idx + n - 1), idx + n - 1)
PROOF
  <1>1. Batch \in Nat /\ idx \in Nat
    BY BatchFacts
  <1>2. ASSUME NEW n \in 1..Batch
        PROVE  Rpush(Home(idx + n - 1), idx + n - 1) \in Command
    <2>1. idx + n - 1 \in Nat
      BY <1>1
    <2>2. Home(idx + n - 1) \in Keys
      BY <2>1, ShareFacts
    <2> QED BY <2>1, <2>2 DEF Rpush, Command, Ops
  <1>3. BatchPipe = [n \in 1..Batch |-> Rpush(Home(idx + n - 1), idx + n - 1)]
    BY DEF BatchPipe, Home
  <1> QED BY <1>1, <1>2, <1>3

(* The head of the pipeline is executed, the rest moves up.                  *)
LEMMA Shift ==
  ASSUME pipe \in Seq(Command), pipe # <<>>, pipe' = Tail(pipe)
  PROVE  /\ Head(pipe) = pipe[1] /\ pipe[1] \in Command /\ Len(pipe) \in Nat \ {0}
         /\ pipe' \in Seq(Command) /\ Len(pipe') = Len(pipe) - 1
         /\ \A n \in 1..Len(pipe') : n + 1 \in 1..Len(pipe) /\ pipe'[n] = pipe[n + 1]
OBVIOUS

LEMMA TypedInit == Init => Typed
PROOF
  <1> SUFFICES ASSUME Init PROVE Typed
    OBVIOUS
  <1>1. TypeOK
    <2>1. Leftover \in [Keys -> Seq(Payloads)]
      <3>1. \A k \in Keys : Leftover[k] \in Seq(Payloads)
        BY ProducerAssumption DEF Payloads
      <3> QED BY <3>1, ProducerAssumption
    <2> QED BY <2>1, ProducerAssumption DEF Init, TypeOK, Phase
  <1>2. /\ ClearPipe \in Seq(Command)
        /\ \A n \in 1..Len(ClearPipe) : ClearPipe[n].op \in {"DEL", "SREM", "FLUSHDB"}
    <2> DEFINE F(n) == IF n % 2 = 1 THEN Del((n + 1) \div 2) ELSE Srem(n \div 2)
    <2>1. 2 * NumQueues \in Nat /\ NumQueues \in Nat
      BY ProducerAssumption
    <2>2. ASSUME NEW n \in 1..(2 * NumQueues)
          PROVE  F(n) \in Command /\ F(n).op \in {"DEL", "SREM", "FLUSHDB"}
      <3>1. CASE n % 2 = 1
        <4>1. (n + 1) \div 2 \in Keys
          BY <2>1, <3>1 DEF Keys
        <4> QED BY <3>1, <4>1 DEF Del, Command, Ops
      <3>2. CASE n % 2 # 1
        <4>1. n \div 2 \in Keys
          BY <2>1, <3>2 DEF Keys
        <4> QED BY <3>2, <4>1 DEF Srem, Command, Ops
      <3> QED BY <3>1, <3>2
    <2>3. ClearPipe = [n \in 1..(2 * NumQueues) |-> F(n)]
      BY DEF ClearPipe
    <2> HIDE DEF F
    <2> QED BY <2>1, <2>2, <2>3
  <1>3. <<Flush>> \in Seq(Command) /\ Len(<<Flush>>) = 1 /\ <<Flush>>[1].op = "FLUSHDB"
    BY ProducerAssumption DEF Flush, Command, Ops, Keys
  <1>4. pipe \in Seq(Command) /\ \A n \in 1..Len(pipe) : pipe[n].op \in {"DEL", "SREM", "FLUSHDB"}
    <2>1. CASE pipe = ClearPipe
      BY <1>2, <2>1
    <2>2. CASE pipe = <<Flush>>
      BY <1>3, <2>2
    <2> QED BY <2>1, <2>2 DEF Init
  <1> QED BY <1>1, <1>4 DEF Init, Typed

(* What Redis executes in each phase.                                        *)
LEMMA ExecuteClears ==
  ASSUME Typed, Execute, phase = "clear"
  PROVE  /\ queue' \in [Keys -> Seq(Payloads)] /\ registered' \subseteq Keys /\ lens' = lens
         /\ \/ pipe[1].op = "DEL" /\ queue' = [queue EXCEPT ![pipe[1].key] = <<>>]
            \/ pipe[1].op = "FLUSHDB" /\ queue' = [k \in Keys |-> <<>>]
            \/ pipe[1].op = "SREM" /\ queue' = queue
PROOF
  <1> DEFINE c == pipe[1]
  <1>1. /\ Head(pipe) = c /\ c \in Command /\ 1 \in 1..Len(pipe)
    BY Shift DEF Execute, Typed
  <1>2. c.op \in {"DEL", "SREM", "FLUSHDB"} /\ c.key \in Keys
    BY <1>1 DEF Typed, Command
  <1>3. queue \in [Keys -> Seq(Payloads)] /\ registered \subseteq Keys
    BY DEF Typed, TypeOK
  <1>4. <<>> \in Seq(Payloads)
    OBVIOUS
  <1> HIDE DEF c
  <1> QED BY <1>1, <1>2, <1>3, <1>4 DEF Execute, c

LEMMA ExecuteRegisters ==
  ASSUME Typed, Execute, phase = "register"
  PROVE  queue' = queue /\ lens' = lens /\ registered' \subseteq Keys
PROOF
  <1>1. /\ Head(pipe) = pipe[1] /\ pipe[1] \in Command /\ 1 \in 1..Len(pipe)
    BY Shift DEF Execute, Typed
  <1>2. pipe[1].op = "SADD" /\ pipe[1].key \in Keys
    BY <1>1 DEF Typed, Command
  <1> QED BY <1>1, <1>2 DEF Execute, Typed, TypeOK

LEMMA ExecuteFills ==
  ASSUME Typed, Execute, phase = "fill"
  PROVE  /\ At \in Idx /\ At \in Nat /\ Home(At) \in Keys
         /\ queue' = [queue EXCEPT ![Home(At)] = Append(@, At)]
         /\ queue' \in [Keys -> Seq(Payloads)]
         /\ registered' = registered /\ lens' = lens
PROOF
  <1>1. /\ Head(pipe) = pipe[1] /\ Len(pipe) \in Nat \ {0} /\ 1 \in 1..Len(pipe)
    BY Shift DEF Execute, Typed
  <1>2. At \in Nat /\ At < NumJobs /\ At \in Idx
    BY <1>1, BatchFacts DEF Typed, At, Idx
  <1>3. Home(At) \in Keys
    BY <1>2, ShareFacts
  <1>4. pipe[1] = Rpush(Home(At), At)
    <2>1. pipe[1] = Rpush(Home(At + 1 - 1), At + 1 - 1)
      BY <1>1 DEF Typed
    <2>2. At + 1 - 1 = At
      BY <1>2
    <2> QED BY <2>1, <2>2
  <1>5. queue' = [queue EXCEPT ![Home(At)] = Append(@, At)]
        /\ registered' = registered /\ lens' = lens
    <2> DEFINE c == Head(pipe)
    <2>1. c.op = "RPUSH" /\ c.key = Home(At) /\ c.idx = At
      BY <1>1, <1>4 DEF Rpush
    <2> HIDE DEF c
    <2>2. /\ queue' = [queue EXCEPT ![c.key] = Append(@, c.idx)]
          /\ registered' = registered /\ lens' = lens
      BY <2>1 DEF Execute, c
    <2> QED BY <2>1, <2>2
  <1>6. queue' \in [Keys -> Seq(Payloads)]
    <2>1. queue \in [Keys -> Seq(Payloads)] /\ At \in Payloads
      BY <1>2 DEF Typed, TypeOK, Payloads
    <2>2. Append(queue[Home(At)], At) \in Seq(Payloads)
      BY <1>3, <2>1
    <2> QED BY <1>3, <1>5, <2>1, <2>2
  <1> QED BY <1>2, <1>3, <1>5, <1>6

LEMMA ExecuteCounts ==
  ASSUME Typed, Execute, phase = "count"
  PROVE  /\ Len(lens) + 1 \in Keys /\ Len(lens) \in Nat
         /\ lens' = Append(lens, Len(queue[Len(lens) + 1]))
         /\ lens' \in Seq(Nat) /\ Len(lens') = Len(lens) + 1 /\ Len(lens') <= NumQueues
         /\ queue' = queue /\ registered' = registered
PROOF
  <1>1. /\ Head(pipe) = pipe[1] /\ Len(pipe) \in Nat \ {0} /\ 1 \in 1..Len(pipe)
    BY Shift DEF Execute, Typed
  <1>2. lens \in Seq(Nat) /\ Len(lens) \in Nat /\ Len(lens) + 1 \in Keys
    BY <1>1, BatchFacts DEF Typed, TypeOK, Keys
  <1>3. pipe[1] = Llen(Len(lens) + 1)
    BY <1>1 DEF Typed
  <1>4. /\ lens' = Append(lens, Len(queue[Len(lens) + 1]))
        /\ queue' = queue /\ registered' = registered
    BY <1>1, <1>3 DEF Execute, Llen
  <1>5. Len(queue[Len(lens) + 1]) \in Nat
    BY <1>2 DEF Typed, TypeOK
  <1> QED BY <1>2, <1>4, <1>5 DEF Keys

LEMMA TypedExecute ==
  ASSUME Typed, Execute
  PROVE  Typed'
PROOF
  <1>1. /\ pipe' \in Seq(Command) /\ Len(pipe') = Len(pipe) - 1 /\ Len(pipe) \in Nat \ {0}
        /\ \A n \in 1..Len(pipe') : n + 1 \in 1..Len(pipe) /\ pipe'[n] = pipe[n + 1]
    BY Shift DEF Execute, Typed
  <1>2. UNCHANGED <<phase, idx, remaining, dequeued, pushed>> /\ Batch' = Batch
    BY DEF Execute, Batch
  <1>3. phase \in {"clear", "register", "fill", "count"}
    BY DEF Typed, TypeOK, Phase, Execute
  <1>4. CASE phase = "clear"
    <2>1. TypeOK'
      BY <1>2, <1>4, ExecuteClears DEF Typed, TypeOK
    <2> QED BY <1>1, <1>2, <1>4, <2>1, ExecuteClears DEF Typed
  <1>5. CASE phase = "register"
    <2>1. TypeOK'
      BY <1>2, <1>5, ExecuteRegisters DEF Typed, TypeOK
    <2> QED BY <1>1, <1>2, <1>5, <2>1, ExecuteRegisters DEF Typed
  <1>6. CASE phase = "fill"
    <2>1. TypeOK'
      BY <1>2, <1>6, ExecuteFills DEF Typed, TypeOK
    <2>2. At' = At + 1 /\ At \in Nat
      BY <1>1, <1>2, <1>6, BatchFacts, ExecuteFills DEF At, Typed
    <2>3. ASSUME NEW n \in 1..Len(pipe')
          PROVE  pipe'[n] = Rpush(Home(At' + n - 1), At' + n - 1)
      <3>1. pipe'[n] = Rpush(Home(At + (n + 1) - 1), At + (n + 1) - 1)
        BY <1>1, <1>6 DEF Typed
      <3>2. At + (n + 1) - 1 = At' + n - 1
        BY <2>2
      <3> QED BY <3>1, <3>2
    <2>4. Len(pipe') <= Batch'
      BY <1>1, <1>2, <1>6, BatchFacts DEF Typed
    <2>5. Typed!3' /\ Typed!4' /\ Typed!6' /\ Typed!7' /\ Typed!8' /\ Typed!9' /\ Typed!10'
          /\ Typed!11'
      BY <1>2, <1>6, ExecuteFills DEF Typed
    <2> QED BY <1>1, <2>1, <2>3, <2>4, <2>5 DEF Typed, Home, Rpush
  <1>7. CASE phase = "count"
    <2>1. TypeOK'
      BY <1>2, <1>7, ExecuteCounts DEF Typed, TypeOK
    <2>2. ASSUME NEW n \in 1..Len(pipe') PROVE pipe'[n] = Llen(Len(lens') + n)
      <3>1. pipe'[n] = Llen(Len(lens) + (n + 1))
        BY <1>1, <1>7 DEF Typed
      <3>2. Len(lens) + (n + 1) = Len(lens') + n
        BY <1>7, ExecuteCounts
      <3> QED BY <3>1, <3>2
    <2>3. Len(lens') + Len(pipe') = NumQueues
      <3>1. Len(lens) + Len(pipe) = NumQueues /\ Len(lens) \in Nat /\ Len(lens') = Len(lens) + 1
        BY <1>7, ExecuteCounts DEF Typed
      <3> QED BY <1>1, <3>1
    <2> QED BY <1>1, <1>2, <1>7, <2>1, <2>2, <2>3 DEF Typed
  <1> QED BY <1>3, <1>4, <1>5, <1>6, <1>7

LEMMA TypedNext == Typed /\ [Next]_vars => Typed'
PROOF
  <1> SUFFICES ASSUME Typed, [Next]_vars PROVE Typed'
    OBVIOUS
  <1>t. TypeOK
    BY DEF Typed
  <1>1. CASE Execute
    BY <1>1, TypedExecute
  <1>2. CASE ConnectionLost
    BY <1>2 DEF ConnectionLost, Typed, TypeOK, Phase
  <1>3. CASE Cleared
    <2>1. NumQueues \in Nat /\ Keys = 1..NumQueues
      BY ProducerAssumption DEF Keys
    <2>2. \A k \in 1..NumQueues : Sadd(k) \in Command /\ Sadd(k).op = "SADD"
      BY <2>1 DEF Sadd, Command, Ops
    <2>3. /\ pipe' \in Seq(Command)
          /\ \A n \in 1..Len(pipe') : pipe'[n].op = "SADD"
      BY <1>3, <2>1, <2>2 DEF Cleared
    <2>4. TypeOK'
      BY <1>3, <1>t DEF Cleared, TypeOK, Phase
    <2> QED BY <1>3, <2>3, <2>4 DEF Cleared, Typed
  <1>4. CASE Registered
    <2>1. TypeOK'
      BY <1>4, <1>t DEF Registered, TypeOK, Phase
    <2>2. Batch' = Batch /\ idx' = idx /\ Batch \in Nat /\ idx \in Nat
      BY <1>4, <1>t, BatchFacts DEF Registered, Batch
    <2>3. Len(pipe') = Batch /\ pipe' \in Seq(Command) /\ At' = idx
      BY <1>4, <1>t, <2>2, BatchPipeFacts DEF Registered, At
    <2>4. \A n \in 1..Len(pipe') : pipe'[n] = Rpush(Home(At' + n - 1), At' + n - 1)
      BY <1>4, <1>t, <2>2, <2>3, BatchPipeFacts DEF Registered
    <2> QED BY <1>4, <2>1, <2>2, <2>3, <2>4 DEF Registered, Typed, Home, Rpush
  <1>5. CASE BatchDone
    <2>1. TypeOK'
      <3>1. idx \in Nat /\ remaining \in Nat /\ NumJobs \in Nat /\ idx + remaining = NumJobs
            /\ Batch \in Nat /\ Batch <= remaining
        BY <1>t, BatchFacts DEF TypeOK
      <3>2. idx' = idx + Batch /\ remaining' = remaining - Batch
        BY <1>5 DEF BatchDone
      <3> HIDE DEF Batch
      <3>3. idx' \in 0..NumJobs /\ remaining' \in 0..NumJobs /\ idx' + remaining' = NumJobs
        BY <3>1, <3>2
      <3>4. UNCHANGED <<queue, registered, phase, lens, dequeued, pushed>>
        BY <1>5 DEF BatchDone
      <3> QED BY <1>t, <3>3, <3>4 DEF TypeOK
    <2>2. PICK b \in Nat, i \in Nat : b = Batch' /\ i = idx'
      BY <2>1, ProducerAssumption DEF TypeOK, Batch
    <2>3. ASSUME NEW n \in 1..b
          PROVE  Rpush(Home(i + n - 1), i + n - 1) \in Command
      <3>1. i + n - 1 \in Nat
        OBVIOUS
      <3>2. Home(i + n - 1) \in Keys
        BY <3>1, ShareFacts
      <3> QED BY <3>1, <3>2 DEF Rpush, Command, Ops
    <2>4. pipe' = [n \in 1..b |-> Rpush(Home(i + n - 1), i + n - 1)]
      BY <1>5, <2>2 DEF BatchDone, BatchPipe, Home, Rpush
    <2>5. pipe' \in Seq(Command) /\ Len(pipe') = b
          /\ \A n \in 1..b : pipe'[n] = Rpush(Home(i + n - 1), i + n - 1)
      BY <2>3, <2>4
    <2>6. At' = i
      <3>1. i + b - b = i
        OBVIOUS
      <3> QED BY <2>2, <2>5, <3>1 DEF At
    <2>7. /\ Len(pipe') <= Batch'
          /\ \A n \in 1..Len(pipe') : pipe'[n] = Rpush(Home(At' + n - 1), At' + n - 1)
      BY <2>2, <2>5, <2>6
    <2> QED BY <1>5, <2>1, <2>5, <2>7 DEF BatchDone, Typed, Home, Rpush
  <1>6. CASE Filled
    <2>1. pipe = <<>>
      BY <1>6, <1>t, BatchFacts DEF Filled, Typed
    <2> QED BY <1>6, <2>1 DEF Filled, Typed, TypeOK, Phase
  <1>7. CASE StartCount
    <2>1. NumQueues \in Nat /\ Keys = 1..NumQueues
      BY ProducerAssumption DEF Keys
    <2>2. \A k \in 1..NumQueues : Llen(k) \in Command
      BY <2>1 DEF Llen, Command, Ops
    <2>3. /\ pipe' \in Seq(Command) /\ Len(pipe') = NumQueues
          /\ \A n \in 1..Len(pipe') : pipe'[n] = Llen(n)
      BY <1>7, <2>1, <2>2 DEF StartCount, CountPipe
    <2>4. lens' = <<>> /\ Len(lens') = 0
      BY <1>7 DEF StartCount, Typed
    <2>5. TypeOK'
      BY <1>7, <1>t DEF StartCount, TypeOK, Phase
    <2>6. Len(lens') + Len(pipe') = NumQueues
          /\ \A n \in 1..Len(pipe') : pipe'[n] = Llen(Len(lens') + n)
      BY <2>1, <2>3, <2>4
    <2> QED BY <1>7, <2>3, <2>5, <2>6 DEF StartCount, Typed, Llen
  <1>8. CASE Counted
    BY <1>8, <1>t, BatchFacts DEF Counted, Typed, TypeOK, Phase
  <1>9. ASSUME NEW k \in Keys, Dequeue(k) \/ \E p \in Foreign : ForeignPush(p, k)
        PROVE  Typed'
    <2>1. /\ UNCHANGED <<registered, phase, pipe, idx, remaining, lens>>
          /\ queue' \in [Keys -> Seq(Payloads)]
          /\ dequeued' \in 0..MaxDequeues /\ pushed' \subseteq Foreign
      <3>1. CASE Dequeue(k)
        BY <1>t, <3>1, ProducerAssumption DEF Dequeue, TypeOK
      <3>2. ASSUME NEW p \in Foreign, ForeignPush(p, k)
            PROVE  /\ UNCHANGED <<registered, phase, pipe, idx, remaining, lens>>
                   /\ queue' \in [Keys -> Seq(Payloads)]
                   /\ dequeued' \in 0..MaxDequeues /\ pushed' \subseteq Foreign
        BY <1>t, <3>2 DEF ForeignPush, TypeOK, Payloads
      <3> QED BY <1>9, <3>1, <3>2
    <2>2. TypeOK'
      BY <1>t, <2>1 DEF TypeOK
    <2>3. At' = At /\ Batch' = Batch
      BY <2>1 DEF At, Batch
    <2> QED BY <2>1, <2>2, <2>3 DEF Typed, Home, Rpush, Llen
  <1>10. CASE UNCHANGED vars
    BY <1>10 DEF vars, Typed, TypeOK, At, Batch, Home, Rpush, Llen
  <1> QED BY <1>1, <1>2, <1>3, <1>4, <1>5, <1>6, <1>7, <1>8, <1>9, <1>10 DEF Next, Terminated

LEMMA TypedHolds == Spec => []Typed
BY TypedInit, TypedNext, PTL DEF Spec

(* The types: idx and remaining always add up to the jobs asked for, so no   *)
(* batch is short or runs over, and each key answers its LLEN at most once.  *)
THEOREM TypesHold == Spec => []TypeOK
PROOF
  <1>1. Typed => TypeOK
    BY DEF Typed
  <1> QED BY <1>1, TypedHolds, PTL

-----------------------------------------------------------------------------
(* What the keys hold.                                                      *)

(* The jobs pushed so far, and what the keys may hold besides them. *)
Mine == IF phase \in {"fill", "filled"} THEN 0..(At - 1) ELSE {}
Own(k) == \A i \in 1..Len(queue[k]) : queue[k][i] \in Mine \cup pushed

(* The clear has not come to key k yet.                                      *)
Pending(k) == \E n \in 1..Len(pipe) :
                 \/ pipe[n].op = "FLUSHDB"
                 \/ pipe[n].op = "DEL" /\ pipe[n].key = k

Clean == {k \in Keys : phase # "clear" \/ ~Pending(k)}

(* Nothing is in two places of the keys in C.                                *)
Once(q, C) ==
  \A k, l \in C : \A i \in 1..Len(q[k]), j \in 1..Len(q[l]) : q[k][i] = q[l][j] => k = l /\ i = j

Owned ==
  phase \in {"clear", "register", "fill", "filled"} =>
    (\A k \in Clean : Own(k)) /\ Once(queue, Clean)

Listed ==
  /\ phase = "register" =>
       \A k \in Keys : k \in registered \/ \E n \in 1..Len(pipe) : pipe[n] = Sadd(k)
  /\ phase \in {"fill", "filled"} => registered = Keys

FewMissing ==
  phase \in {"fill", "filled"} =>
    IsFiniteSet(Enqueued \ Held) /\ Cardinality(Enqueued \ Held) <= dequeued

LEMMA Appended ==
  ASSUME NEW q \in [Keys -> Seq(Payloads)], NEW h \in Keys, NEW x \in Payloads,
         NEW r, r = [q EXCEPT ![h] = Append(@, x)]
  PROVE  /\ \A k \in Keys : \A i \in 1..Len(r[k]) :
              \/ k = h /\ i = Len(q[h]) + 1 /\ r[k][i] = x
              \/ i \in 1..Len(q[k]) /\ r[k][i] = q[k][i]
         /\ Len(q[h]) + 1 \in 1..Len(r[h]) /\ r[h][Len(q[h]) + 1] = x
         /\ \A k \in Keys : \A i \in 1..Len(q[k]) : i \in 1..Len(r[k]) /\ r[k][i] = q[k][i]
PROOF
  <1>1. r[h] = Append(q[h], x) /\ \A k \in Keys : k # h => r[k] = q[k]
    OBVIOUS
  <1>2. q[h] \in Seq(Payloads) /\ Len(q[h]) \in Nat
    OBVIOUS
  <1>3. /\ Len(r[h]) = Len(q[h]) + 1 /\ r[h][Len(q[h]) + 1] = x
        /\ \A i \in 1..Len(q[h]) : r[h][i] = q[h][i]
    BY <1>1, <1>2
  <1> QED BY <1>1, <1>2, <1>3

LEMMA Shortened ==
  ASSUME NEW q \in [Keys -> Seq(Payloads)], NEW h \in Keys, q[h] # <<>>,
         NEW r, r = [q EXCEPT ![h] = Tail(@)]
  PROVE  /\ \A k \in Keys : \A i \in 1..Len(r[k]) :
              IF k = h THEN i + 1 \in 1..Len(q[k]) /\ r[k][i] = q[k][i + 1]
                       ELSE i \in 1..Len(q[k]) /\ r[k][i] = q[k][i]
PROOF
  <1>1. r[h] = Tail(q[h]) /\ \A k \in Keys : k # h => r[k] = q[k]
    OBVIOUS
  <1>2. q[h] \in Seq(Payloads) /\ Len(q[h]) \in Nat
    OBVIOUS
  <1>3. Len(r[h]) = Len(q[h]) - 1 /\ \A i \in 1..Len(r[h]) : r[h][i] = q[h][i + 1]
    BY <1>1, <1>2
  <1>4. \A i \in 1..Len(r[h]) : i + 1 \in 1..Len(q[h])
    BY <1>2, <1>3
  <1> QED BY <1>1, <1>3, <1>4

(* An LPOP takes the first payload of one key.                               *)
Remains(q, r, h) ==
  \A k \in Keys : \A j \in 1..Len(q[k]) :
    (k = h /\ j = 1) \/ \E i \in 1..Len(r[k]) : r[k][i] = q[k][j]

LEMMA PoppedIsFirst ==
  ASSUME NEW q \in [Keys -> Seq(Payloads)], NEW h \in Keys, q[h] # <<>>
  PROVE  Remains(q, [q EXCEPT ![h] = Tail(@)], h)
PROOF
  <1> DEFINE r == [q EXCEPT ![h] = Tail(@)]
  <1> SUFFICES ASSUME NEW k \in Keys, NEW j \in 1..Len(q[k])
               PROVE  (k = h /\ j = 1) \/ \E i \in 1..Len(r[k]) : r[k][i] = q[k][j]
    BY DEF Remains
  <1>1. r[h] = Tail(q[h]) /\ \A l \in Keys : l # h => r[l] = q[l]
    OBVIOUS
  <1>2. q[h] \in Seq(Payloads) /\ Len(q[h]) \in Nat
    OBVIOUS
  <1>3. Len(r[h]) = Len(q[h]) - 1 /\ \A i \in 1..Len(r[h]) : r[h][i] = q[h][i + 1]
    BY <1>1, <1>2
  <1>4. CASE k = h /\ j # 1
    <2>1. j - 1 \in 1..Len(r[h]) /\ (j - 1) + 1 = j
      BY <1>2, <1>3, <1>4
    <2>2. r[h][j - 1] = q[h][j]
      BY <1>3, <2>1
    <2> QED BY <1>4, <2>1, <2>2
  <1>5. CASE k # h
    BY <1>1, <1>5
  <1> QED BY <1>4, <1>5

(* A payload that no key of C holds may be appended.                          *)
LEMMA OnceAppended ==
  ASSUME NEW q \in [Keys -> Seq(Payloads)], NEW h \in Keys, NEW x \in Payloads,
         NEW r, r = [q EXCEPT ![h] = Append(@, x)],
         NEW C \in SUBSET Keys, Once(q, C),
         \A k \in C : \A i \in 1..Len(q[k]) : q[k][i] # x
  PROVE  Once(r, C)
PROOF
  <1> SUFFICES ASSUME NEW k \in C, NEW l \in C, NEW i \in 1..Len(r[k]), NEW j \in 1..Len(r[l]),
                      r[k][i] = r[l][j]
               PROVE  k = l /\ i = j
    BY DEF Once
  <1>1. \/ k = h /\ i = Len(q[h]) + 1 /\ r[k][i] = x
        \/ i \in 1..Len(q[k]) /\ r[k][i] = q[k][i]
    BY Appended
  <1>2. \/ l = h /\ j = Len(q[h]) + 1 /\ r[l][j] = x
        \/ j \in 1..Len(q[l]) /\ r[l][j] = q[l][j]
    BY Appended
  <1> QED BY <1>1, <1>2 DEF Once

LEMMA OnceShortened ==
  ASSUME NEW q \in [Keys -> Seq(Payloads)], NEW h \in Keys, q[h] # <<>>,
         NEW r, r = [q EXCEPT ![h] = Tail(@)],
         NEW C \in SUBSET Keys, Once(q, C)
  PROVE  Once(r, C)
PROOF
  <1> SUFFICES ASSUME NEW k \in C, NEW l \in C, NEW i \in 1..Len(r[k]), NEW j \in 1..Len(r[l]),
                      r[k][i] = r[l][j]
               PROVE  k = l /\ i = j
    BY DEF Once
  <1>0. Len(r[k]) \in Nat /\ Len(r[l]) \in Nat
    OBVIOUS
  <1>1. IF k = h THEN i + 1 \in 1..Len(q[k]) /\ r[k][i] = q[k][i + 1]
                 ELSE i \in 1..Len(q[k]) /\ r[k][i] = q[k][i]
    BY Shortened
  <1>2. IF l = h THEN j + 1 \in 1..Len(q[l]) /\ r[l][j] = q[l][j + 1]
                 ELSE j \in 1..Len(q[l]) /\ r[l][j] = q[l][j]
    BY Shortened
  <1>3. k = l
    BY <1>1, <1>2 DEF Once
  <1>4. CASE k = h
    <2>1. i + 1 = j + 1
      BY <1>1, <1>2, <1>3, <1>4 DEF Once
    <2> QED BY <1>0, <1>3, <2>1
  <1>5. CASE k # h
    BY <1>1, <1>2, <1>3, <1>5 DEF Once
  <1> QED BY <1>3, <1>4, <1>5

LEMMA ClearIsPending == Init => \A k \in Keys : Pending(k)
PROOF
  <1> SUFFICES ASSUME Init, NEW k \in Keys PROVE Pending(k)
    OBVIOUS
  <1>1. CASE pipe = <<Flush>>
    BY <1>1 DEF Pending, Flush
  <1>2. CASE pipe = ClearPipe
    <2> DEFINE n == 2 * k - 1
    <2>1. /\ n \in 1..(2 * NumQueues) /\ n % 2 = 1 /\ (n + 1) \div 2 = k
          /\ 2 * NumQueues \in Nat
      BY ProducerAssumption DEF Keys
    <2>2. Len(pipe) = 2 * NumQueues /\ pipe[n] = Del(k)
      BY <1>2, <2>1 DEF ClearPipe
    <2> QED BY <2>1, <2>2 DEF Pending, Del
  <1> QED BY <1>1, <1>2 DEF Init

(* A command of the clear either empties a key, or is about another.         *)
LEMMA ClearStep ==
  ASSUME Typed, Execute, phase = "clear", NEW k \in Keys
  PROVE  /\ queue'[k] \in {queue[k], <<>>}
         /\ Pending(k) => Pending(k)' \/ queue'[k] = <<>>
PROOF
  <1>1. queue \in [Keys -> Seq(Payloads)] /\ pipe[1] \in Command /\ Len(pipe) \in Nat \ {0}
    BY Shift DEF Typed, TypeOK, Execute
  <1>2. pipe[1].key \in Keys
    BY <1>1 DEF Command
  <1>3. queue'[k] \in {queue[k], <<>>}
    BY <1>1, <1>2, ExecuteClears
  <1>4. ASSUME NEW n \in 1..Len(pipe), n # 1,
               pipe[n].op = "FLUSHDB" \/ (pipe[n].op = "DEL" /\ pipe[n].key = k)
        PROVE  Pending(k)'
    <2>1. Len(pipe') = Len(pipe) - 1 /\ n - 1 \in 1..Len(pipe')
          /\ \A j \in 1..Len(pipe') : pipe'[j] = pipe[j + 1]
      BY <1>1, <1>4, Shift DEF Execute, Typed
    <2>2. pipe'[n - 1] = pipe[n]
      BY <2>1
    <2> QED BY <1>4, <2>1, <2>2 DEF Pending
  <1>5. ASSUME pipe[1].op = "FLUSHDB" \/ (pipe[1].op = "DEL" /\ pipe[1].key = k)
        PROVE  queue'[k] = <<>>
    BY <1>1, <1>2, <1>5, ExecuteClears
  <1> QED BY <1>3, <1>4, <1>5 DEF Pending

Counting == At \in Int /\ Enqueued = 0..(At - 1)

LEMMA CountingHolds == Typed => Counting
BY BatchFacts DEF Typed, Enqueued, At, Counting

(* The next job after a step.                                                *)
LEMMA AtNext ==
  ASSUME Typed
  PROVE  /\ At \in Int /\ Enqueued = 0..(At - 1)
         /\ Execute /\ phase = "fill" => At' = At + 1
         /\ Registered => At' = 0
         /\ BatchDone => At' = At
         /\ Filled => At' = At
PROOF
  <1>t. /\ TypeOK /\ Batch \in Nat /\ idx \in Nat /\ pipe \in Seq(Command) /\ Len(pipe) \in Nat
        /\ Enqueued = 0..(At - 1) /\ At \in Int
    BY BatchFacts DEF Typed, Enqueued, At
  <1>1. ASSUME Execute, phase = "fill" PROVE At' = At + 1
    <2>1. UNCHANGED <<idx, remaining>> /\ Batch' = Batch
      BY <1>1 DEF Execute, Batch
    <2>2. Len(pipe') = Len(pipe) - 1 /\ Len(pipe) \in Nat
      BY <1>1, Shift DEF Execute, Typed
    <2> QED BY <1>t, <2>1, <2>2 DEF At
  <1>2. ASSUME Registered PROVE At' = 0
    <2>1. Batch' = Batch /\ idx' = idx /\ idx = 0 /\ pipe' = BatchPipe
      BY <1>2 DEF Registered, Batch, Typed
    <2> QED BY <1>t, <2>1, BatchPipeFacts DEF At
  <1>3. ASSUME BatchDone PROVE At' = At
    <2>1. TypeOK'
      BY <1>3, TypedNext DEF Next, Typed
    <2>2. PICK b \in Nat, i \in Nat : b = Batch' /\ i = idx'
      BY <2>1, ProducerAssumption DEF TypeOK, Batch
    <2>3. pipe' = [n \in 1..b |-> Rpush(((i + n - 1) % NumQueues) + 1, i + n - 1)]
      BY <1>3, <2>2 DEF BatchDone, BatchPipe, Rpush
    <2>4. Len(pipe') = b /\ i + b - b = i /\ i = idx + Batch /\ Len(pipe) = 0
      BY <1>3, <2>2, <2>3 DEF BatchDone
    <2>5. At' = i
      BY <2>2, <2>4 DEF At
    <2> QED BY <1>t, <2>4, <2>5 DEF At
  <1>4. ASSUME Filled PROVE At' = At
    BY <1>4 DEF Filled, At, Batch
  <1> QED BY <1>t, <1>1, <1>2, <1>3, <1>4

LEMMA OwnedNext == Typed /\ Owned /\ [Next]_vars => Owned'
PROOF
  <1> SUFFICES ASSUME Typed, Owned, [Next]_vars,
                      phase' \in {"clear", "register", "fill", "filled"}
               PROVE  (\A k \in Clean' : Own(k)') /\ Once(queue', Clean')
    BY DEF Owned, Once
  <1>q. /\ queue \in [Keys -> Seq(Payloads)] /\ pushed \subseteq Foreign /\ Foreign \cap Int = {}
        /\ Clean \in SUBSET Keys
    BY ProducerAssumption DEF Typed, TypeOK, Clean
  <1>1. CASE Execute
    <2>1. UNCHANGED <<phase, pushed>>
      BY <1>1 DEF Execute
    <2>2. (\A k \in Clean : Own(k)) /\ Once(queue, Clean)
      BY <2>1 DEF Owned
    <2>3. CASE phase = "clear"
      <3>1. Mine = {} /\ Mine' = {}
        BY <2>1, <2>3 DEF Mine
      <3>2. \A k \in Clean' : k \in Keys /\ (queue'[k] = <<>> \/ (k \in Clean /\ queue'[k] = queue[k]))
        BY <1>1, <2>1, <2>3, ClearStep DEF Clean
      <3>3. Len(<<>>) = 0 /\ 1..0 = {}
        OBVIOUS
      <3>4. \A k \in Clean' : Own(k)'
        BY <2>1, <2>2, <3>1, <3>2, <3>3 DEF Own
      <3>5. Once(queue', Clean')
        BY <2>2, <3>2, <3>3 DEF Once
      <3> QED BY <3>4, <3>5
    <2>4. CASE phase = "register"
      <3>1. queue' = queue /\ Mine' = Mine /\ Clean' = Clean
        BY <1>1, <2>1, <2>4, ExecuteRegisters DEF Mine, Clean
      <3> QED BY <2>1, <2>2, <3>1 DEF Own, Once
    <2>5. CASE phase = "fill"
      <3>1. /\ At \in Nat /\ At' = At + 1 /\ Home(At) \in Keys /\ At \in Payloads
            /\ queue' = [queue EXCEPT ![Home(At)] = Append(@, At)]
        BY <1>1, <2>5, ExecuteFills, AtNext DEF Payloads
      <3>2. Mine = 0..(At - 1) /\ Mine' = 0..At /\ Clean = Keys /\ Clean' = Keys
        <4>1. At' - 1 = At
          BY <3>1
        <4> QED BY <2>1, <2>5, <4>1 DEF Mine, Clean
      <3>3. \A k \in Keys : \A i \in 1..Len(queue[k]) : queue[k][i] # At
        BY <1>q, <2>2, <3>1, <3>2 DEF Own
      <3>4. Once(queue', Keys)
        BY <1>q, <2>2, <3>1, <3>2, <3>3, OnceAppended
      <3>5. ASSUME NEW k \in Keys PROVE Own(k)'
        <4>1. \A i \in 1..Len(queue'[k]) :
                 queue'[k][i] = At \/ (i \in 1..Len(queue[k]) /\ queue'[k][i] = queue[k][i])
          BY <1>q, <3>1, Appended
        <4>2. At \in Mine' /\ Mine \subseteq Mine'
          BY <3>1, <3>2
        <4> QED BY <2>1, <2>2, <3>2, <4>1, <4>2 DEF Own
      <3> QED BY <3>2, <3>4, <3>5
    <2>6. CASE phase = "filled"
      BY <1>1, <2>6 DEF Execute, Typed
    <2> QED BY <2>1, <2>3, <2>4, <2>5, <2>6
  <1>2. CASE Cleared
    <2>1. /\ UNCHANGED <<queue, pushed>> /\ Clean = Keys /\ Clean' = Keys
          /\ Mine = {} /\ Mine' = {} /\ phase = "clear"
      BY <1>2 DEF Cleared, Clean, Pending, Mine
    <2> QED BY <2>1 DEF Owned, Own, Once
  <1>3. CASE Registered
    <2>1. /\ UNCHANGED <<queue, pushed>> /\ Clean = Keys /\ Clean' = Keys
          /\ Mine = {} /\ phase = "register"
      BY <1>3 DEF Registered, Clean, Mine
    <2> QED BY <2>1 DEF Owned, Own, Once
  <1>4. CASE BatchDone \/ Filled
    <2>1. /\ UNCHANGED <<queue, pushed>> /\ Clean = Keys /\ Clean' = Keys
          /\ phase = "fill" /\ phase' \in {"fill", "filled"} /\ At' = At
      BY <1>4, AtNext DEF BatchDone, Filled, Clean
    <2>2. Mine' = Mine
      BY <2>1 DEF Mine
    <2> QED BY <2>1, <2>2 DEF Owned, Own, Once
  <1>5. ASSUME NEW k \in Keys, Dequeue(k)
        PROVE  (\A l \in Clean' : Own(l)') /\ Once(queue', Clean')
    <2>1. UNCHANGED <<phase, pipe, idx, remaining, pushed>> /\ queue' = [queue EXCEPT ![k] = Tail(@)]
          /\ queue[k] # <<>>
      BY <1>5 DEF Dequeue
    <2>2. Clean' = Clean /\ Mine' = Mine
      BY <2>1 DEF Clean, Pending, Mine, At, Batch
    <2>3. (\A l \in Clean : Own(l)) /\ Once(queue, Clean)
      BY <2>1 DEF Owned
    <2>4. Once(queue', Clean)
      BY <1>q, <2>1, <2>3, OnceShortened
    <2>5. ASSUME NEW l \in Clean PROVE Own(l)'
      <3>1. \A i \in 1..Len(queue'[l]) : \E h \in 1..Len(queue[l]) : queue'[l][i] = queue[l][h]
        BY <1>q, <2>1, Shortened
      <3> QED BY <2>1, <2>2, <2>3, <3>1 DEF Own
    <2> QED BY <2>2, <2>4, <2>5
  <1>6. ASSUME NEW k \in Keys, NEW p \in Foreign, ForeignPush(p, k)
        PROVE  (\A l \in Clean' : Own(l)') /\ Once(queue', Clean')
    <2>1. /\ UNCHANGED <<phase, pipe, idx, remaining>> /\ pushed' = pushed \cup {p} /\ p \notin pushed
          /\ queue' = [queue EXCEPT ![k] = Append(@, p)] /\ p \in Payloads
      BY <1>6 DEF ForeignPush, Payloads
    <2>2. Clean' = Clean /\ Mine' = Mine
      BY <2>1 DEF Clean, Pending, Mine, At, Batch
    <2>3. (\A l \in Clean : Own(l)) /\ Once(queue, Clean)
      BY <2>1 DEF Owned
    <2>4. p \notin Mine
      <3>1. Mine \subseteq Int
        BY DEF Mine
      <3> QED BY <1>q, <3>1
    <2>5. \A l \in Clean : \A i \in 1..Len(queue[l]) : queue[l][i] # p
      BY <2>1, <2>3, <2>4 DEF Own
    <2>6. Once(queue', Clean)
      BY <1>q, <2>1, <2>3, <2>5, OnceAppended
    <2>7. ASSUME NEW l \in Clean PROVE Own(l)'
      <3>1. \A i \in 1..Len(queue'[l]) :
               queue'[l][i] = p \/ (i \in 1..Len(queue[l]) /\ queue'[l][i] = queue[l][i])
        BY <1>q, <2>1, Appended
      <3> QED BY <2>1, <2>2, <2>3, <3>1 DEF Own
    <2> QED BY <2>2, <2>6, <2>7
  <1>7. CASE UNCHANGED vars
    <2>1. Clean' = Clean /\ Mine' = Mine /\ UNCHANGED <<queue, pushed, phase>>
      BY <1>7 DEF vars, Clean, Pending, Mine, At, Batch
    <2> QED BY <2>1 DEF Owned, Own, Once
  <1>8. CASE ConnectionLost \/ StartCount \/ Counted
    BY <1>8 DEF ConnectionLost, StartCount, Counted
  <1> QED BY <1>1, <1>2, <1>3, <1>4, <1>5, <1>6, <1>7, <1>8 DEF Next, Terminated

LEMMA ListedNext == Typed /\ Listed /\ [Next]_vars => Listed'
PROOF
  <1> SUFFICES ASSUME Typed, Listed, [Next]_vars PROVE Listed'
    OBVIOUS
  <1>1. CASE Execute
    <2>1. UNCHANGED phase
      BY <1>1 DEF Execute
    <2>2. CASE phase = "register"
      <3>1. /\ Head(pipe) = pipe[1] /\ pipe[1] \in Command /\ Len(pipe) \in Nat \ {0}
            /\ Len(pipe') = Len(pipe) - 1
            /\ \A n \in 1..Len(pipe') : pipe'[n] = pipe[n + 1]
        BY <1>1, Shift DEF Execute, Typed
      <3>2. registered' = registered \cup {pipe[1].key}
        <4>1. 1 \in 1..Len(pipe)
          BY <3>1
        <4>2. pipe[1].op = "SADD"
          BY <2>2, <4>1 DEF Typed
        <4> QED BY <1>1, <3>1, <4>2 DEF Execute
      <3>3. ASSUME NEW k \in Keys
            PROVE  k \in registered' \/ \E n \in 1..Len(pipe') : pipe'[n] = Sadd(k)
        <4>1. CASE k \in registered
          BY <3>2, <4>1
        <4>2. ASSUME NEW n \in 1..Len(pipe), pipe[n] = Sadd(k)
              PROVE  k \in registered' \/ \E m \in 1..Len(pipe') : pipe'[m] = Sadd(k)
          <5>1. CASE n = 1
            BY <3>2, <4>2, <5>1 DEF Sadd
          <5>2. CASE n # 1
            <6>1. n - 1 \in 1..Len(pipe') /\ (n - 1) + 1 = n
              BY <3>1, <5>2
            <6>2. pipe'[n - 1] = Sadd(k)
              BY <3>1, <4>2, <6>1
            <6> QED BY <6>1, <6>2
          <5> QED BY <5>1, <5>2
        <4> QED BY <2>2, <4>1, <4>2 DEF Listed
      <3> QED BY <2>1, <2>2, <3>3 DEF Listed, Sadd
    <2>3. CASE phase = "fill"
      BY <1>1, <2>1, <2>3, ExecuteFills DEF Listed
    <2>4. CASE phase = "filled"
      BY <1>1, <2>4 DEF Execute, Typed
    <2> QED BY <2>1, <2>2, <2>3, <2>4 DEF Listed
  <1>2. CASE Cleared
    <2>1. Len(pipe') = NumQueues /\ \A k \in Keys : k \in 1..Len(pipe') /\ pipe'[k] = Sadd(k)
      BY <1>2, ProducerAssumption DEF Cleared, Keys
    <2>2. phase' = "register"
      BY <1>2 DEF Cleared
    <2> QED BY <2>1, <2>2 DEF Listed, Sadd
  <1>3. CASE Registered
    <2>1. Len(pipe) = 0 /\ registered \subseteq Keys /\ phase = "register"
      BY <1>3 DEF Registered, Typed, TypeOK
    <2>2. Keys \subseteq registered
      BY <2>1 DEF Listed
    <2>3. phase' = "fill" /\ registered' = Keys
      BY <1>3, <2>1, <2>2 DEF Registered
    <2> QED BY <2>3 DEF Listed
  <1>4. CASE BatchDone \/ Filled
    BY <1>4 DEF BatchDone, Filled, Listed
  <1>5. ASSUME NEW k \in Keys, Dequeue(k) \/ \E p \in Foreign : ForeignPush(p, k)
        PROVE  Listed'
    <2>1. UNCHANGED <<registered, phase, pipe>>
      BY <1>5 DEF Dequeue, ForeignPush
    <2> QED BY <2>1 DEF Listed, Sadd
  <1>6. CASE UNCHANGED vars
    BY <1>6 DEF vars, Listed, Sadd
  <1>7. CASE ConnectionLost \/ StartCount \/ Counted
    BY <1>7 DEF ConnectionLost, StartCount, Counted, Listed
  <1> QED BY <1>1, <1>2, <1>3, <1>4, <1>5, <1>6, <1>7 DEF Next, Terminated

(* What others pop of the jobs is missing, and nothing else.                 *)
LEMMA FewMissingNext == Typed /\ FewMissing /\ [Next]_vars => FewMissing'
PROOF
  <1> SUFFICES ASSUME Typed, FewMissing, [Next]_vars, phase' \in {"fill", "filled"}
               PROVE  /\ IsFiniteSet(Enqueued' \ Held')
                      /\ Cardinality(Enqueued' \ Held') <= dequeued'
    BY DEF FewMissing
  <1>q. queue \in [Keys -> Seq(Payloads)] /\ dequeued \in Nat
    BY ProducerAssumption DEF Typed, TypeOK
  <1>t. At \in Int /\ Enqueued = 0..(At - 1) /\ At' \in Int /\ Enqueued' = 0..(At' - 1)
    <2>1. Typed'
      BY TypedNext
    <2>2. Counting /\ Counting'
      BY <2>1, CountingHolds, PTL
    <2> QED BY <2>2 DEF Counting
  <1>h. /\ \A x : x \in Held <=> \E k \in Keys : \E i \in 1..Len(queue[k]) : queue[k][i] = x
        /\ \A x : x \in Held' <=> \E k \in Keys : \E i \in 1..Len(queue'[k]) : queue'[k][i] = x
    BY DEF Held
  <1>s. ASSUME phase \in {"fill", "filled"}, dequeued' = dequeued,
               Enqueued' \ Held' \subseteq Enqueued \ Held
        PROVE  /\ IsFiniteSet(Enqueued' \ Held')
               /\ Cardinality(Enqueued' \ Held') <= dequeued'
    <2> DEFINE T == Enqueued' \ Held'
               S == Enqueued \ Held
    <2>1. IsFiniteSet(S) /\ Cardinality(S) <= dequeued /\ T \in SUBSET S
      BY <1>s DEF FewMissing
    <2>2. IsFiniteSet(T) /\ Cardinality(T) <= Cardinality(S)
      <3> HIDE DEF S, T
      <3> QED BY <2>1, FS_Subset
    <2>3. Cardinality(S) \in Nat /\ Cardinality(T) \in Nat
      <3> HIDE DEF S, T
      <3> QED BY <2>1, <2>2, FS_CardinalityType
    <2> HIDE DEF S, T
    <2>4. Cardinality(T) <= dequeued'
      BY <1>q, <1>s, <2>1, <2>2, <2>3
    <2> QED BY <2>2, <2>4 DEF T
  <1>1. CASE Execute
    <2>1. phase' = phase /\ phase = "fill" /\ dequeued' = dequeued
      BY <1>1 DEF Execute, Typed
    <2>2. /\ At \in Nat /\ At' = At + 1 /\ Home(At) \in Keys /\ At \in Payloads
          /\ queue' = [queue EXCEPT ![Home(At)] = Append(@, At)]
      BY <1>1, <2>1, ExecuteFills, AtNext DEF Payloads
    <2>3. Held \subseteq Held' /\ At \in Held'
      <3>1. \A k \in Keys : \A i \in 1..Len(queue[k]) : i \in 1..Len(queue'[k]) /\ queue'[k][i] = queue[k][i]
        BY <1>q, <2>2, Appended
      <3>2. \E i \in 1..Len(queue'[Home(At)]) : queue'[Home(At)][i] = At
        BY <1>q, <2>2, Appended
      <3> QED BY <1>h, <2>2, <3>1, <3>2
    <2>4. Enqueued' \subseteq Enqueued \cup {At}
      BY <1>t, <2>2
    <2> QED BY <1>s, <2>1, <2>3, <2>4
  <1>2. CASE Registered
    <2>1. At' = 0 /\ 0..(0 - 1) = {}
      BY <1>2, AtNext
    <2>2. Enqueued' \ Held' = {}
      BY <1>t, <2>1
    <2>3. dequeued' \in Nat
      BY <1>2, <1>q DEF Registered
    <2> QED BY <2>2, <2>3, FS_EmptySet
  <1>3. CASE BatchDone \/ Filled
    <2>1. UNCHANGED <<queue, dequeued>> /\ phase = "fill" /\ At' = At
      BY <1>3, AtNext DEF BatchDone, Filled
    <2>2. Enqueued' = Enqueued /\ Held' = Held
      BY <1>t, <2>1 DEF Held
    <2> QED BY <1>s, <2>1, <2>2
  <1>4. ASSUME NEW k \in Keys, Dequeue(k)
        PROVE  /\ IsFiniteSet(Enqueued' \ Held')
               /\ Cardinality(Enqueued' \ Held') <= dequeued'
    <2> DEFINE T == Enqueued' \ Held'
               S == Enqueued \ Held
               x == queue[k][1]
    <2>1. /\ UNCHANGED <<phase, pipe, idx, remaining>> /\ dequeued' = dequeued + 1
          /\ queue' = [queue EXCEPT ![k] = Tail(@)] /\ queue[k] # <<>>
      BY <1>4 DEF Dequeue
    <2>2. Enqueued' = Enqueued
      BY <2>1 DEF Enqueued, Batch
    <2>3. \A l \in Keys : \A j \in 1..Len(queue[l]) : queue[l][j] = x \/ queue[l][j] \in Held'
      <3>1. Remains(queue, queue', k)
        BY <1>q, <2>1, PoppedIsFirst
      <3> QED BY <1>h, <3>1 DEF Remains
    <2>4. T \in SUBSET (S \cup {x})
      BY <1>h, <2>2, <2>3
    <2>5. IsFiniteSet(S) /\ Cardinality(S) <= dequeued
      BY <2>1 DEF FewMissing
    <2> HIDE DEF S, T, x
    <2>6. /\ IsFiniteSet(S \cup {x}) /\ Cardinality(S) \in Nat
          /\ Cardinality(S \cup {x}) = IF x \in S THEN Cardinality(S) ELSE Cardinality(S) + 1
      BY <2>5, FS_AddElement, FS_CardinalityType
    <2>7. IsFiniteSet(T) /\ Cardinality(T) <= Cardinality(S \cup {x})
      BY <2>4, <2>6, FS_Subset
    <2>8. Cardinality(T) \in Nat
      BY <2>7, FS_CardinalityType
    <2>9. Cardinality(T) <= dequeued'
      BY <1>q, <2>1, <2>5, <2>6, <2>7, <2>8
    <2> QED BY <2>7, <2>9 DEF T
  <1>5. ASSUME NEW k \in Keys, NEW p \in Foreign, ForeignPush(p, k)
        PROVE  /\ IsFiniteSet(Enqueued' \ Held')
               /\ Cardinality(Enqueued' \ Held') <= dequeued'
    <2>1. /\ UNCHANGED <<phase, pipe, idx, remaining, dequeued>>
          /\ queue' = [queue EXCEPT ![k] = Append(@, p)] /\ p \in Payloads
      BY <1>5 DEF ForeignPush, Payloads
    <2>2. Enqueued' = Enqueued
      BY <2>1 DEF Enqueued, Batch
    <2>3. Held \subseteq Held'
      <3>1. \A l \in Keys : \A i \in 1..Len(queue[l]) : i \in 1..Len(queue'[l]) /\ queue'[l][i] = queue[l][i]
        BY <1>q, <2>1, Appended
      <3> QED BY <1>h, <3>1
    <2> QED BY <1>s, <2>1, <2>2, <2>3
  <1>6. CASE UNCHANGED vars
    <2>1. Enqueued' = Enqueued /\ Held' = Held /\ UNCHANGED <<phase, dequeued>>
      BY <1>6 DEF vars, Enqueued, Held, Batch
    <2> QED BY <1>s, <2>1
  <1>7. CASE ConnectionLost \/ Cleared \/ StartCount \/ Counted
    BY <1>7 DEF ConnectionLost, Cleared, StartCount, Counted
  <1> QED BY <1>1, <1>2, <1>3, <1>4, <1>5, <1>6, <1>7 DEF Next, Terminated

(* Whatever a former trial left in any number of keys is gone, every key is   *)
(* registered, and from the first push of bulk_enqueue to the start of the   *)
(* trial the keys hold the jobs pushed so far, each in one place, but for    *)
(* one per LPOP of another client, and nothing else than what strangers      *)
(* push meanwhile.                                                          *)
THEOREM QueuesAreClean == Spec => []NothingLeftOver
PROOF
  <1>1. Init => Owned /\ Listed /\ FewMissing
    BY ClearIsPending DEF Init, Owned, Clean, Once, Listed, FewMissing
  <1>2. Typed /\ Owned /\ Listed /\ FewMissing => NothingLeftOver
    <2> SUFFICES ASSUME Typed, Owned, Listed, FewMissing, phase \in {"fill", "filled"}
                 PROVE  NothingLeftOver
      BY DEF NothingLeftOver
    <2>1. Clean = Keys /\ Mine = Enqueued
      BY AtNext DEF Clean, Mine
    <2>2. Held \subseteq Enqueued \cup pushed
      BY <2>1 DEF Owned, Own, Held
    <2>3. phase = "filled" => Enqueued = Idx
      <3> SUFFICES ASSUME phase = "filled" PROVE Enqueued = Idx
        OBVIOUS
      <3>1. /\ remaining = 0 /\ Batch = 0 /\ idx + remaining = NumJobs /\ Len(pipe) = 0
            /\ idx \in Nat /\ NumJobs \in Nat
        BY BatchFacts DEF Typed, TypeOK
      <3>2. idx + Batch - Len(pipe) - 1 = NumJobs - 1
        BY <3>1
      <3> QED BY <3>2 DEF Enqueued, Idx
    <2> QED BY <2>1, <2>2, <2>3 DEF NothingLeftOver, Owned, Once, Listed, FewMissing
  <1> QED BY <1>1, <1>2, TypedHolds, OwnedNext, ListedNext, FewMissingNext, PTL DEF Spec

(* With no other client about, the keys hold the round-robin distribution of *)
(* the jobs pushed so far.                                                  *)
Shares ==
  Undisturbed =>
    /\ phase = "clear" => \A k \in Keys : queue[k] = <<>> \/ Pending(k)
    /\ phase = "register" => queue = RoundRobin(0)
    /\ phase = "fill" => queue = RoundRobin(At)
    /\ phase \in {"filled", "count", "counted"} => queue = RoundRobin(NumJobs)

LEMMA SharesNext == Typed /\ Shares /\ [Next]_vars => Shares'
PROOF
  <1> SUFFICES ASSUME Typed, Shares, [Next]_vars, Undisturbed' PROVE Shares'
    BY DEF Shares
  <1>t. TypeOK /\ queue \in [Keys -> Seq(Payloads)]
    BY DEF Typed, TypeOK
  <1>1. CASE Execute
    <2>1. UNCHANGED <<phase, pushed, dequeued>> /\ Undisturbed
      BY <1>1 DEF Execute, Undisturbed
    <2>2. CASE phase = "clear"
      <3>1. \A k \in Keys : queue'[k] = <<>> \/ Pending(k)'
        BY <1>1, <2>1, <2>2, ClearStep DEF Shares
      <3> QED BY <2>1, <2>2, <3>1 DEF Shares
    <2>3. CASE phase = "register"
      BY <1>1, <2>1, <2>3, ExecuteRegisters DEF Shares, RoundRobin
    <2>4. CASE phase = "fill"
      <3>1. At \in Nat /\ queue' = [queue EXCEPT ![Home(At)] = Append(@, At)]
        BY <1>1, <2>4, ExecuteFills
      <3>2. At' = At + 1
        <4>1. Len(pipe') = Len(pipe) - 1 /\ Len(pipe) \in Nat /\ UNCHANGED <<idx, remaining>>
          BY <1>1, Shift DEF Execute, Typed
        <4>2. Batch' = Batch /\ Batch \in Nat /\ idx \in Nat
          BY <1>t, <4>1, BatchFacts DEF Batch
        <4> QED BY <4>1, <4>2 DEF At
      <3>3. queue = RoundRobin(At)
        BY <2>1, <2>4 DEF Shares
      <3>4. queue' = RoundRobin(At + 1)
        BY <3>1, <3>3, RoundRobinNext
      <3> QED BY <2>1, <2>4, <3>2, <3>4 DEF Shares, RoundRobin
    <2>5. CASE phase = "count"
      BY <1>1, <2>1, <2>5, ExecuteCounts DEF Shares, RoundRobin
    <2>6. CASE phase \in {"filled", "counted", "error"}
      BY <1>1, <2>6 DEF Execute, Typed
    <2> QED BY <2>2, <2>3, <2>4, <2>5, <2>6, <1>t DEF TypeOK, Phase
  <1>2. CASE Cleared
    <2>1. phase = "clear" /\ pipe = <<>> /\ phase' = "register" /\ queue' = queue /\ Undisturbed
      BY <1>2 DEF Cleared, Undisturbed
    <2>2. \A k \in Keys : queue[k] = <<>>
      BY <2>1 DEF Shares, Pending
    <2>3. queue = RoundRobin(0)
      BY <1>t, <2>2, RoundRobinEmpty
    <2> QED BY <2>1, <2>3 DEF Shares, RoundRobin
  <1>3. CASE Registered
    <2>1. phase = "register" /\ phase' = "fill" /\ queue' = queue /\ Undisturbed
      BY <1>3 DEF Registered, Undisturbed
    <2>2. At' = 0
      <3>1. idx' = 0 /\ Batch' = Batch /\ pipe' = BatchPipe
        BY <1>3 DEF Registered, Typed, Batch
      <3>2. Len(pipe') = Batch /\ Batch \in Nat
        BY <1>t, <3>1, BatchPipeFacts, BatchFacts
      <3>3. 0 + Batch - Batch = 0
        BY <3>2
      <3> QED BY <3>1, <3>2, <3>3 DEF At
    <2> QED BY <2>1, <2>2 DEF Shares, RoundRobin
  <1>4. CASE BatchDone
    <2>1. phase = "fill" /\ phase' = "fill" /\ queue' = queue /\ Undisturbed
      BY <1>4 DEF BatchDone, Undisturbed
    <2>2. At = idx + Batch
      BY <1>4, <1>t, BatchFacts DEF BatchDone, At
    <2>3. At' = idx + Batch
      <3>1. PICK b \in Nat, i \in Nat : b = Batch' /\ i = idx' /\ i = idx + Batch
        <4>1. idx' = idx + Batch /\ idx' \in Nat /\ remaining' \in Nat
          BY <1>4, TypedNext, ProducerAssumption DEF BatchDone, Typed, TypeOK
        <4>2. Batch' \in Nat
          BY <4>1, ProducerAssumption DEF Batch
        <4> QED BY <4>1, <4>2
      <3>2. pipe' = [n \in 1..b |-> Rpush(Home(i + n - 1), i + n - 1)]
        BY <1>4, <3>1 DEF BatchDone, BatchPipe, Home, Rpush
      <3>3. Len(pipe') = b
        BY <3>2
      <3>4. i + b - b = i
        OBVIOUS
      <3> QED BY <3>1, <3>3, <3>4 DEF At
    <2> QED BY <2>1, <2>2, <2>3 DEF Shares, RoundRobin
  <1>5. CASE Filled
    <2>1. phase = "fill" /\ phase' = "filled" /\ queue' = queue /\ Undisturbed /\ remaining = 0
      BY <1>5 DEF Filled, Undisturbed
    <2>2. idx = NumJobs /\ Batch = 0 /\ pipe = <<>>
      BY <1>t, <2>1, BatchFacts DEF Typed, TypeOK
    <2>3. At = NumJobs
      BY <2>2, ProducerAssumption DEF At
    <2> QED BY <2>1, <2>3 DEF Shares, RoundRobin
  <1>6. CASE StartCount \/ Counted
    BY <1>6 DEF StartCount, Counted, Undisturbed, Shares, RoundRobin
  <1>7. ASSUME NEW k \in Keys, Dequeue(k) \/ \E p \in Foreign : ForeignPush(p, k)
        PROVE  Shares'
    BY <1>7, <1>t DEF Dequeue, ForeignPush, Undisturbed, TypeOK
  <1>8. CASE ConnectionLost
    BY <1>8 DEF ConnectionLost, Shares
  <1>9. CASE UNCHANGED vars
    BY <1>9 DEF vars, Shares, Undisturbed, Pending, At, Batch, RoundRobin
  <1> QED BY <1>1, <1>2, <1>3, <1>4, <1>5, <1>6, <1>7, <1>8, <1>9 DEF Next, Terminated

(* Whatever the batch size and wherever the connection is lost, the keys     *)
(* hold a prefix of the round-robin distribution, and all of it once         *)
(* bulk_enqueue returned.                                                   *)
THEOREM FillIsRoundRobin == Spec => []FilledRoundRobin
PROOF
  <1>1. Init => Shares
    BY ClearIsPending DEF Init, Shares
  <1>2. Typed /\ Shares => FilledRoundRobin
    <2> SUFFICES ASSUME Typed, Shares, Undisturbed, phase \in {"register", "fill"}
                 PROVE  \E n \in idx..(idx + Batch) : queue = RoundRobin(n)
      BY DEF Shares, FilledRoundRobin
    <2>1. Batch \in Nat /\ idx \in Nat
      BY BatchFacts DEF Typed
    <2>2. CASE phase = "register"
      BY <2>1, <2>2 DEF Shares, Typed
    <2>3. CASE phase = "fill"
      <3>1. Len(pipe) \in Nat /\ Len(pipe) <= Batch
        BY <2>3 DEF Typed
      <3>2. At \in idx..(idx + Batch)
        BY <2>1, <3>1 DEF At
      <3> QED BY <2>3, <3>2 DEF Shares
    <2> QED BY <2>2, <2>3
  <1> QED BY <1>1, <1>2, TypedHolds, SharesNext, PTL DEF Spec

(* A backlog of n jobs: each of them in one place.                            *)
IsBacklog(q, n) ==
  /\ q \in [Keys -> Seq(0..(n - 1))]
  /\ \A k, l \in Keys : \A i \in 1..Len(q[k]), j \in 1..Len(q[l]) : q[k][i] = q[l][j] => k = l /\ i = j
  /\ \A p \in 0..(n - 1) : \E k \in Keys : \E i \in 1..Len(q[k]) : q[k][i] = p

LEMMA BacklogGrows ==
  ASSUME NEW n \in Nat, NEW h \in Keys, NEW q, IsBacklog(q, n)
  PROVE  IsBacklog([q EXCEPT ![h] = Append(@, n)], n + 1)
PROOF
  <1> DEFINE r == [q EXCEPT ![h] = Append(@, n)]
             s == q[h]
             m == Len(s)
  <1>1. /\ q \in [Keys -> Seq(0..(n - 1))] /\ 0..(n - 1) \subseteq 0..n /\ n \in 0..n /\ (n + 1) - 1 = n
        /\ 0..n = 0..(n - 1) \cup {n}
    BY DEF IsBacklog
  <1>2. s \in Seq(0..(n - 1)) /\ m \in Nat /\ m + 1 \in 1..(m + 1)
    BY <1>1
  <1>3. /\ Append(s, n) \in Seq(0..n) /\ Len(Append(s, n)) = m + 1 /\ Append(s, n)[m + 1] = n
        /\ \A i \in 1..m : Append(s, n)[i] = s[i] /\ s[i] # n
        /\ 1..(m + 1) = 1..m \cup {m + 1}
    BY <1>1, <1>2
  <1>4. /\ r \in [Keys -> Seq(0..n)] /\ r[h] = Append(s, n) /\ \A k \in Keys : k # h => r[k] = q[k]
    BY <1>1, <1>3
  <1>5. \A k \in Keys : \A i \in 1..Len(r[k]) :
          \/ k = h /\ i = m + 1 /\ r[k][i] = n
          \/ i \in 1..Len(q[k]) /\ r[k][i] = q[k][i] /\ r[k][i] # n
    <2>1. \A i \in 1..Len(r[h]) :
            \/ i = m + 1 /\ r[h][i] = n
            \/ i \in 1..Len(q[h]) /\ r[h][i] = q[h][i] /\ r[h][i] # n
      BY <1>3, <1>4
    <2>2. ASSUME NEW k \in Keys, k # h, NEW i \in 1..Len(r[k])
          PROVE  i \in 1..Len(q[k]) /\ r[k][i] = q[k][i] /\ r[k][i] # n
      <3>1. q[k] \in Seq(0..(n - 1)) /\ r[k] = q[k]
        BY <1>1, <1>4, <2>2
      <3>2. i \in 1..Len(q[k]) /\ q[k][i] \in 0..(n - 1)
        BY <2>2, <3>1
      <3> QED BY <3>1, <3>2
    <2> QED BY <2>1, <2>2
  <1>6. ASSUME NEW k \in Keys, NEW i \in 1..Len(q[k]) PROVE i \in 1..Len(r[k]) /\ r[k][i] = q[k][i]
    BY <1>3, <1>4, <1>6
  <1> HIDE DEF r
  <1>7. ASSUME NEW k \in Keys, NEW l \in Keys, NEW i \in 1..Len(r[k]), NEW j \in 1..Len(r[l]),
               r[k][i] = r[l][j]
        PROVE  k = l /\ i = j
    <2>1. \/ k = h /\ i = m + 1 /\ r[k][i] = n
          \/ i \in 1..Len(q[k]) /\ r[k][i] = q[k][i] /\ r[k][i] # n
      BY <1>5
    <2>2. \/ l = h /\ j = m + 1 /\ r[l][j] = n
          \/ j \in 1..Len(q[l]) /\ r[l][j] = q[l][j] /\ r[l][j] # n
      BY <1>5
    <2>3. CASE r[k][i] = n
      BY <1>7, <2>1, <2>2, <2>3
    <2>4. CASE r[k][i] # n
      <3>1. i \in 1..Len(q[k]) /\ j \in 1..Len(q[l]) /\ q[k][i] = q[l][j]
        BY <1>7, <2>1, <2>2, <2>4
      <3> QED BY <3>1 DEF IsBacklog
    <2> QED BY <2>3, <2>4
  <1>8. ASSUME NEW p \in 0..n PROVE \E k \in Keys : \E i \in 1..Len(r[k]) : r[k][i] = p
    <2>1. CASE p = n
      BY <1>2, <1>3, <1>4, <2>1
    <2>2. CASE p \in 0..(n - 1)
      <3>1. PICK k \in Keys : \E i \in 1..Len(q[k]) : q[k][i] = p
        BY <2>2 DEF IsBacklog
      <3> QED BY <1>6, <3>1
    <2> QED BY <1>1, <2>1, <2>2
  <1>9. IsBacklog(r, n + 1)
    BY <1>1, <1>4, <1>7, <1>8 DEF IsBacklog
  <1> QED BY <1>9 DEF r

LEMMA RoundRobinIsBacklog == \A n \in Nat : IsBacklog(RoundRobin(n), n)
PROOF
  <1> DEFINE S == {n \in Nat : IsBacklog(RoundRobin(n), n)}
  <1>1. 0 \in S
    <2> DEFINE q == [k \in Keys |-> <<>>]
    <2>1. RoundRobin(0) = q
      BY RoundRobinEmpty
    <2>2. \A k \in Keys : q[k] = <<>> /\ Len(q[k]) = 0
      OBVIOUS
    <2>3. q \in [Keys -> Seq(0..(0 - 1))]
      OBVIOUS
    <2> HIDE DEF q
    <2>4. IsBacklog(q, 0)
      BY <2>2, <2>3 DEF IsBacklog
    <2> QED BY <2>1, <2>4
  <1>2. ASSUME NEW n \in Nat, n \in S PROVE n + 1 \in S
    <2> DEFINE q == RoundRobin(n)
    <2>1. Home(n) \in Keys /\ IsBacklog(q, n) /\ RoundRobin(n + 1) = [q EXCEPT ![Home(n)] = Append(@, n)]
      BY <1>2, ShareFacts, RoundRobinNext
    <2> HIDE DEF q
    <2>2. IsBacklog([q EXCEPT ![Home(n)] = Append(@, n)], n + 1)
      BY <2>1, BacklogGrows
    <2> QED BY <2>1, <2>2
  <1> HIDE DEF S
  <1>3. Nat \subseteq S
    BY <1>1, <1>2, Induct
  <1> QED BY <1>3 DEF S

(* What DrainTrial assumes of its backlog: unless others interfere, once       *)
(* bulk_enqueue returned each job is in one place of one key.                 *)
THEOREM BacklogIsReady == Spec => [](phase = "filled" /\ Undisturbed => IsBacklog(queue, NumJobs))
PROOF
  <1>1. FilledRoundRobin => (phase = "filled" /\ Undisturbed => IsBacklog(queue, NumJobs))
    <2> SUFFICES ASSUME FilledRoundRobin, phase = "filled", Undisturbed
                 PROVE  IsBacklog(queue, NumJobs)
      OBVIOUS
    <2>1. queue = RoundRobin(NumJobs)
      BY DEF FilledRoundRobin
    <2> QED BY <2>1, RoundRobinIsBacklog, ProducerAssumption
  <1> QED BY <1>1, FillIsRoundRobin, PTL

-----------------------------------------------------------------------------
(* The count.                                                               *)

(* The replies received so far add up to what their keys still hold, and at  *)
(* most the LPOPs more.                                                     *)
CountedSoFar ==
  phase \in {"count", "counted"} /\ pushed = {} =>
    /\ SumTo(Lens(queue), Len(lens)) <= SumTo(lens, Len(lens))
    /\ SumTo(lens, Len(lens)) <= SumTo(Lens(queue), Len(lens)) + dequeued

LEMMA LensFacts ==
  ASSUME NEW q \in [Keys -> Seq(Payloads)], NEW m \in 0..NumQueues
  PROVE  Summable(Lens(q), m) /\ SumTo(Lens(q), m) \in Nat /\ m \in Nat
PROOF
  <1>1. m \in Nat /\ 1..m \subseteq Keys
    BY ProducerAssumption DEF Keys
  <1>2. Summable(Lens(q), m)
    BY <1>1 DEF Lens, Summable
  <1> QED BY <1>1, <1>2, SumIsNat

LEMMA RepliesFacts ==
  ASSUME NEW s \in Seq(Nat)
  PROVE  Summable(s, Len(s)) /\ SumTo(s, Len(s)) \in Nat
PROOF
  <1>1. Len(s) \in Nat /\ Summable(s, Len(s))
    BY DEF Summable
  <1> QED BY <1>1, SumIsNat

LEMMA CountedSoFarNext == Typed /\ CountedSoFar /\ [Next]_vars => CountedSoFar'
PROOF
  <1> DEFINE L == Len(lens)
             A == SumTo(Lens(queue), L)
             B == SumTo(lens, L)
  <1> SUFFICES ASSUME Typed, CountedSoFar, [Next]_vars,
                      phase' \in {"count", "counted"}, pushed' = {}
               PROVE  /\ SumTo(Lens(queue'), Len(lens')) <= SumTo(lens', Len(lens'))
                      /\ SumTo(lens', Len(lens')) <= SumTo(Lens(queue'), Len(lens')) + dequeued'
    BY DEF CountedSoFar, Lens, SumTo
  <1>t. /\ queue \in [Keys -> Seq(Payloads)] /\ lens \in Seq(Nat) /\ L \in 0..NumQueues
        /\ dequeued \in Nat /\ NumQueues \in Nat /\ Keys = 1..NumQueues
    <2>1. TypeOK
      BY DEF Typed
    <2>2. NumQueues \in Nat /\ MaxDequeues \in Nat /\ Keys = 1..NumQueues
      BY ProducerAssumption DEF Keys
    <2>3. lens \in Seq(Nat) /\ Len(lens) <= NumQueues /\ queue \in [Keys -> Seq(Payloads)]
          /\ dequeued \in 0..MaxDequeues
      BY <2>1 DEF TypeOK
    <2>4. Len(lens) \in Nat
      BY <2>3
    <2> QED BY <2>2, <2>3, <2>4
  <1>s. Summable(Lens(queue), L) /\ A \in Nat /\ B \in Nat /\ L \in Nat
    BY <1>t, LensFacts, RepliesFacts
  <1>1. CASE Execute
    <2>1. phase = "count"
      BY <1>1 DEF Execute, Typed
    <2>2. /\ L + 1 \in Keys /\ lens' = Append(lens, Len(queue[L + 1])) /\ Len(lens') = L + 1
          /\ queue' = queue /\ pushed' = pushed /\ dequeued' = dequeued
      BY <1>1, <2>1, ExecuteCounts DEF Execute
    <2>3. A <= B /\ B <= A + dequeued
      BY <2>1, <2>2 DEF CountedSoFar
    <2>4. Len(queue[L + 1]) \in Nat /\ Lens(queue)[L + 1] = Len(queue[L + 1])
      BY <1>t, <2>2 DEF Lens
    <2>5. SumTo(lens', L + 1) = B + Len(queue[L + 1])
      BY <1>t, <2>2, <2>4, SumOfAppended
    <2>6. SumTo(Lens(queue), L + 1) = A + Len(queue[L + 1])
      <3>1. L + 1 \in 0..NumQueues
        BY <1>t, <2>2
      <3>2. Summable(Lens(queue), L + 1)
        BY <1>t, <3>1, LensFacts
      <3> HIDE DEF L
      <3> QED BY <1>s, <2>4, <3>2, SumNext
    <2> HIDE DEF A, B
    <2> QED BY <1>t, <1>s, <2>2, <2>3, <2>4, <2>5, <2>6
  <1>2. CASE StartCount
    <2>1. lens' = lens /\ L = 0 /\ queue' = queue /\ dequeued' = dequeued
      BY <1>2 DEF StartCount, Typed
    <2>2. A = 0 /\ B = 0
      BY <2>1, SumOfNone
    <2> HIDE DEF A, B
    <2> QED BY <1>t, <2>1, <2>2 DEF A, B
  <1>3. CASE Counted
    <2>1. phase = "count" /\ UNCHANGED <<queue, lens, dequeued, pushed>>
      BY <1>3 DEF Counted
    <2> QED BY <2>1 DEF CountedSoFar
  <1>4. ASSUME NEW k \in Keys, Dequeue(k)
        PROVE  /\ SumTo(Lens(queue'), Len(lens')) <= SumTo(lens', Len(lens'))
               /\ SumTo(lens', Len(lens')) <= SumTo(Lens(queue'), Len(lens')) + dequeued'
    <2>1. /\ UNCHANGED <<phase, lens, pushed>> /\ dequeued' = dequeued + 1
          /\ queue' = [queue EXCEPT ![k] = Tail(@)] /\ queue[k] # <<>>
      BY <1>4 DEF Dequeue
    <2>2. A <= B /\ B <= A + dequeued
      BY <2>1 DEF CountedSoFar
    <2>3. queue' \in [Keys -> Seq(Payloads)]
      BY <1>t, <2>1
    <2>4. Summable(Lens(queue'), L) /\ SumTo(Lens(queue'), L) \in Nat
      BY <1>t, <2>3, LensFacts
    <2>5. ASSUME NEW j \in 1..L
          PROVE  Lens(queue)[j] = IF j = k THEN Lens(queue')[j] + 1 ELSE Lens(queue')[j]
      <3>1. j \in Keys /\ Lens(queue)[j] = Len(queue[j]) /\ Lens(queue')[j] = Len(queue'[j])
        BY <1>t DEF Lens
      <3>2. CASE j # k
        BY <1>t, <2>1, <3>1, <3>2
      <3>3. CASE j = k
        <4>1. queue'[j] = Tail(queue[j]) /\ queue[j] \in Seq(Payloads) /\ queue[j] # <<>>
          BY <1>t, <2>1, <3>3
        <4>2. Len(queue[j]) \in Nat /\ Len(queue[j]) # 0 /\ Len(Tail(queue[j])) = Len(queue[j]) - 1
          BY <4>1
        <4> QED BY <3>1, <3>3, <4>1, <4>2
      <3> QED BY <3>2, <3>3
    <2>6. Less(Lens(queue), Lens(queue'), L, k, 1)
      BY <1>s, <2>4, <2>5 DEF Less
    <2>7. A = SumTo(Lens(queue'), L) + 1 \/ A = SumTo(Lens(queue'), L)
      <3>1. k \in Nat \ {0} /\ 1 \in Nat
        BY <1>t
      <3> HIDE DEF L
      <3> QED BY <1>s, <2>6, <3>1, SumOfLess
    <2>8. Len(lens') = L /\ SumTo(lens', Len(lens')) = B
      BY <2>1
    <2> HIDE DEF A, B, L
    <2> QED BY <1>t, <1>s, <2>1, <2>2, <2>4, <2>7, <2>8
  <1>5. ASSUME NEW k \in Keys, NEW p \in Foreign, ForeignPush(p, k)
        PROVE  FALSE
    BY <1>5 DEF ForeignPush
  <1>6. CASE UNCHANGED vars
    BY <1>6 DEF vars, CountedSoFar
  <1>7. CASE ConnectionLost \/ Cleared \/ Registered \/ BatchDone \/ Filled
    BY <1>7 DEF ConnectionLost, Cleared, Registered, BatchDone, Filled
  <1> QED BY <1>1, <1>2, <1>3, <1>4, <1>5, <1>6, <1>7 DEF Next, Terminated

(* A total of 0 lets the idle trial start: then every key is empty, and      *)
(* stays so, although the LLENs are not atomic and a late LPOP may come      *)
(* between any two of them.                                                 *)
THEOREM TotalIsTrustworthy == Spec => []ZeroMeansEmpty
PROOF
  <1>1. Init => CountedSoFar
    BY DEF Init, CountedSoFar
  <1>2. Typed /\ CountedSoFar => ZeroMeansEmpty
    <2> SUFFICES ASSUME Typed, CountedSoFar, phase = "counted", pushed = {}
                 PROVE  LenSum(queue) <= LlenTotal /\ LlenTotal <= LenSum(queue) + dequeued
      BY DEF ZeroMeansEmpty
    <2>1. Len(lens) = NumQueues
      BY DEF Typed
    <2> QED BY <2>1 DEF CountedSoFar, LenSum, LlenTotal
  <1> QED BY <1>1, <1>2, TypedHolds, CountedSoFarNext, PTL DEF Spec
===============================================================================
