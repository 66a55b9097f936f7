-------------------------- MODULE ArithmeticTheorems --------------------------
(***************************************************************************)
(* Facts about products, quotients and the functions of Arithmetic.        *)
(* Induction comes from the well-foundedness of strict inclusion among     *)
(* finite sets.                                                            *)
(***************************************************************************)
EXTENDS Arithmetic, Sequences, FiniteSetTheorems, TLAPS

-----------------------------------------------------------------------------
(* Products and quotients.                                                  *)

LEMMA Division ==
  ASSUME NEW m \in Nat \ {0}, NEW n \in Nat
  PROVE  /\ n \div m \in Nat /\ n % m \in 0..(m - 1)
         /\ n = (n \div m) * m + (n % m)
OBVIOUS

LEMMA Quotient ==
  ASSUME NEW m \in Nat \ {0}, NEW q \in Nat, NEW r \in 0..(m - 1)
  PROVE  (q * m + r) \div m = q
PROOF
  <1> DEFINE n == q * m + r
             d == n \div m
             e == n % m
  <1>1. q * m \in Nat /\ n \in Nat
    OBVIOUS
  <1>2. d \in Nat /\ e \in 0..(m - 1) /\ n = d * m + e
    BY <1>1, Division
  <1>3. q * m - d * m = e - r /\ d * m \in Nat
    BY <1>1, <1>2
  <1>4. q * m - d * m = (q - d) * m
    BY <1>2
  <1>5. ~(q - d >= 1)
    <2> SUFFICES ASSUME q - d >= 1 PROVE (q - d) * m >= m
      BY <1>2, <1>3, <1>4
    <2> HIDE DEF d
    <2> QED BY <1>2
  <1>6. ~(d - q >= 1)
    <2> SUFFICES ASSUME d - q >= 1 PROVE (d - q) * m >= m
      <3>1. (d - q) * m = d * m - q * m
        BY <1>2
      <3> QED BY <1>1, <1>2, <1>3, <3>1
    <2> HIDE DEF d
    <2> QED BY <1>2
  <1> HIDE DEF d
  <1> QED BY <1>2, <1>5, <1>6 DEF d

LEMMA Cancel ==
  ASSUME NEW m \in Nat \ {0}, NEW x \in Int, NEW y \in Int, m * x <= m * y
  PROVE  x <= y
PROOF
  <1> SUFFICES ASSUME x - y >= 1 PROVE FALSE
    OBVIOUS
  <1>1. m * x - m * y = m * (x - y)
    OBVIOUS
  <1>2. m * (x - y) >= m
    <2> DEFINE z == x - y
    <2>1. z \in Nat /\ z >= 1
      OBVIOUS
    <2> HIDE DEF z
    <2>2. m * z >= m
      BY <2>1
    <2> QED BY <2>2 DEF z
  <1> QED BY <1>1, <1>2

(* A product with a factor of at most s is at most that with s.              *)
LEMMA Scaled ==
  ASSUME NEW n \in Nat, NEW s \in Nat, NEW b \in Int, -s <= b, b <= s
  PROVE  n * b \in Int /\ -(n * s) <= n * b /\ n * b <= n * s
PROOF
  <1>1. n * (s - b) >= 0 /\ n * (s - b) = n * s - n * b
    <2> DEFINE z == s - b
    <2>1. z \in Nat
      OBVIOUS
    <2> HIDE DEF z
    <2>2. n * z >= 0
      BY <2>1
    <2> QED BY <2>2 DEF z
  <1>2. n * (s + b) >= 0 /\ n * (s + b) = n * s + n * b
    <2> DEFINE z == s + b
    <2>1. z \in Nat
      OBVIOUS
    <2> HIDE DEF z
    <2>2. n * z >= 0
      BY <2>1
    <2> QED BY <2>2 DEF z
  <1> QED BY <1>1, <1>2

-----------------------------------------------------------------------------
(* Induction, from the well-foundedness of inclusion among finite sets.      *)

LEMMA Least ==
  ASSUME NEW T, T \subseteq Nat, T # {}
  PROVE  \E m \in T : \A n \in T : m <= n
PROOF
  <1> DEFINE Below == {1..n : n \in T}
             R == StrictSubsetOrdering(Nat)
  <1>1. Below \subseteq FiniteSubsetsOf(Nat) /\ Below # {}
    <2>1. ASSUME NEW n \in T PROVE 1..n \in FiniteSubsetsOf(Nat)
      BY FS_Interval DEF FiniteSubsetsOf
    <2> QED BY <2>1
  <1>2. IsWellFoundedOn(R, FiniteSubsetsOf(Nat))
    BY FS_StrictSubsetOrderingWellFounded
  <1> HIDE DEF R
  <1>3. PICK b \in Below : \A c \in Below : ~(<<c, b>> \in R)
    <2> HIDE DEF Below
    <2> QED BY <1>1, <1>2, WFMin
  <1>4. PICK m \in T : b = 1..m
    OBVIOUS
  <1>5. ASSUME NEW n \in T, n < m PROVE FALSE
    <2>1. 1..n \subseteq 1..m /\ m \in 1..m /\ m \notin 1..n
      BY <1>5
    <2>2. 1..n \in SUBSET Nat /\ 1..m \in SUBSET Nat /\ 1..n # 1..m
      BY <2>1
    <2>3. <<1..n, 1..m>> \in R
      BY <2>1, <2>2 DEF R, StrictSubsetOrdering
    <2> QED BY <1>3, <1>4, <2>3
  <1> QED BY <1>5

LEMMA Greatest ==
  ASSUME NEW T, T \subseteq Nat, T # {}, NEW b \in Nat, \A n \in T : n <= b
  PROVE  \E m \in T : \A n \in T : n <= m
PROOF
  <1> DEFINE U == {m \in Nat : \A n \in T : n <= m}
  <1>1. U \subseteq Nat /\ b \in U
    OBVIOUS
  <1>2. PICK m \in U : \A n \in U : m <= n
    <2> HIDE DEF U
    <2> QED BY <1>1, Least
  <1>3. m \in T
    <2> SUFFICES ASSUME m \notin T PROVE FALSE
      OBVIOUS
    <2>1. \A n \in T : n <= m - 1
      OBVIOUS
    <2>2. m - 1 \in Nat
      <3>1. PICK n \in T : TRUE
        OBVIOUS
      <3>2. n \in Nat /\ n <= m - 1
        BY <2>1
      <3> QED BY <3>2
    <2>3. m - 1 \in U
      BY <2>1, <2>2
    <2> QED BY <1>2, <2>3
  <1> QED BY <1>3

LEMMA Induct ==
  ASSUME NEW S, 0 \in S, \A n \in Nat : n \in S => n + 1 \in S
  PROVE  Nat \subseteq S
PROOF
  <1> SUFFICES ASSUME Nat \ S # {} PROVE FALSE
    OBVIOUS
  <1>1. PICK m \in Nat \ S : \A n \in Nat \ S : m <= n
    BY Least
  <1>2. m # 0 /\ m - 1 \in Nat /\ m - 1 \in S
    BY <1>1
  <1> QED BY <1>1, <1>2


-----------------------------------------------------------------------------
(* Horner: each value follows from the one before.                           *)

Summable(a, m) == \A n \in 1..m : a[n] \in Nat

(* g[n] is Horner's value after n steps.                                     *)
Evaluates(g, z, d, a, m) ==
  /\ g[0] = z
  /\ \A n \in 0..m : g[n] \in Nat
  /\ \A n \in 1..m : g[n] = d * g[n - 1] + a[n]

LEMMA StepIsNat ==
  ASSUME NEW d \in Nat, NEW x \in Nat, NEW y \in Nat
  PROVE  d * x + y \in Nat
OBVIOUS

LEMMA EvaluationExists ==
  ASSUME NEW m \in Nat, NEW z \in Nat, NEW d \in Nat, NEW a, Summable(a, m)
  PROVE  \E g \in [0..m -> Nat] : Evaluates(g, z, d, a, m)
PROOF
  <1> DEFINE P(j) == \E g \in [0..j -> Nat] : Evaluates(g, z, d, a, j)
             S == {j \in Nat : j <= m => P(j)}
  <1>1. 0 \in S
    <2>1. Evaluates([n \in 0..0 |-> z], z, d, a, 0)
      BY DEF Evaluates
    <2> QED BY <2>1
  <1>2. ASSUME NEW j \in Nat, j \in S, j + 1 <= m
        PROVE  P(j + 1)
    <2>1. PICK g \in [0..j -> Nat] : Evaluates(g, z, d, a, j)
      BY <1>2
    <2> DEFINE next == d * g[j] + a[j + 1]
               h == [n \in 0..(j + 1) |-> IF n = j + 1 THEN next ELSE g[n]]
    <2>2. next \in Nat
      <3>1. g[j] \in Nat /\ a[j + 1] \in Nat
        BY <1>2, <2>1 DEF Summable
      <3> QED BY <3>1, StepIsNat
    <2>3. h \in [0..(j + 1) -> Nat] /\ h[0] = z
      <3>1. g[0] = z
        BY <2>1 DEF Evaluates
      <3> HIDE DEF next
      <3> QED BY <2>2, <3>1
    <2>4. ASSUME NEW n \in 1..(j + 1) PROVE h[n] = d * h[n - 1] + a[n]
      <3>1. n - 1 \in 0..j /\ h[n - 1] = g[n - 1]
        OBVIOUS
      <3>2. CASE n = j + 1
        <4>1. h[n] = next /\ n - 1 = j
          BY <3>2
        <4> QED BY <3>1, <3>2, <4>1
      <3>3. CASE n # j + 1
        <4>1. n \in 1..j /\ h[n] = g[n]
          BY <3>3
        <4> QED BY <2>1, <3>1, <4>1 DEF Evaluates
      <3> QED BY <3>2, <3>3
    <2> HIDE DEF h
    <2>5. Evaluates(h, z, d, a, j + 1)
      BY <2>3, <2>4 DEF Evaluates
    <2> QED BY <2>3, <2>5
  <1> HIDE DEF P
  <1>3. \A j \in Nat : j \in S => j + 1 \in S
    BY <1>2
  <1> HIDE DEF S
  <1>4. m \in S
    BY <1>1, <1>3, Induct
  <1> QED BY <1>4 DEF P, S

(* What satisfies the recurrence has numbers as values.                      *)
LEMMA RecurrenceEvaluates ==
  ASSUME NEW m \in Nat, NEW z \in Nat, NEW d \in Nat, NEW a, Summable(a, m),
         NEW g, g[0] = z, \A n \in 1..m : g[n] = d * g[n - 1] + a[n]
  PROVE  Evaluates(g, z, d, a, m)
PROOF
  <1> DEFINE S == {j \in Nat : j <= m => g[j] \in Nat}
  <1>1. 0 \in S
    OBVIOUS
  <1>2. ASSUME NEW j \in Nat, j \in S PROVE j + 1 \in S
    <2>1. CASE j + 1 <= m
      <3>1. j + 1 \in 1..m /\ (j + 1) - 1 = j /\ g[j] \in Nat
        BY <1>2, <2>1
      <3>2. g[j + 1] = d * g[j] + a[j + 1] /\ a[j + 1] \in Nat
        BY <3>1 DEF Summable
      <3> QED BY <3>1, <3>2, StepIsNat
    <2> QED BY <2>1
  <1> HIDE DEF S
  <1>3. Nat \subseteq S
    BY <1>1, <1>2, Induct
  <1>4. \A n \in 0..m : g[n] \in Nat
    BY <1>3 DEF S
  <1> QED BY <1>4 DEF Evaluates

LEMMA HornerEvaluates ==
  ASSUME NEW m \in Nat, NEW z \in Nat, NEW d \in Nat, NEW a, Summable(a, m)
  PROVE  \E g : Evaluates(g, z, d, a, m) /\ Horner(z, d, a, m) = g[m]
PROOF
  <1> DEFINE F(S) == [n \in 0..m |-> IF n = 0 THEN z ELSE d * S[n - 1] + a[n]]
             T == CHOOSE S : S = F(S)
  <1>1. PICK g \in [0..m -> Nat] : Evaluates(g, z, d, a, m)
    BY EvaluationExists
  <1>2. ASSUME NEW n \in 0..m PROVE g[n] = IF n = 0 THEN z ELSE d * g[n - 1] + a[n]
    <2>1. n # 0 => n \in 1..m /\ n - 1 \in 0..m
      OBVIOUS
    <2> QED BY <1>1, <2>1 DEF Evaluates
  <1>3. g = F(g)
    BY <1>2
  <1>4. T = F(T)
    <2> HIDE DEF F
    <2> QED BY <1>3
  <1>5. Horner(z, d, a, m) = T[m]
    BY DEF Horner
  <1> HIDE DEF T
  <1>6. T[0] = z
    BY <1>4
  <1>7. ASSUME NEW n \in 1..m PROVE T[n] = d * T[n - 1] + a[n]
    <2>1. n \in 0..m /\ n # 0
      OBVIOUS
    <2> QED BY <1>4, <2>1
  <1> HIDE DEF F
  <1>8. Evaluates(T, z, d, a, m)
    BY <1>6, <1>7, RecurrenceEvaluates
  <1> QED BY <1>5, <1>8

(* Equal numbers have equal values.                                          *)
LEMMA EvaluationsAgree ==
  ASSUME NEW m \in Nat, NEW z, NEW d, NEW a, NEW b, NEW f, NEW g,
         Evaluates(f, z, d, a, m), Evaluates(g, z, d, b, m), \A n \in 1..m : a[n] = b[n]
  PROVE  f[m] = g[m]
PROOF
  <1> DEFINE S == {j \in Nat : j <= m => f[j] = g[j]}
  <1>1. 0 \in S
    BY DEF Evaluates
  <1>2. ASSUME NEW j \in Nat, j \in S PROVE j + 1 \in S
    <2>1. CASE j + 1 <= m
      <3>1. j + 1 \in 1..m /\ (j + 1) - 1 = j /\ f[j] = g[j]
        BY <1>2, <2>1
      <3>2. f[j + 1] = d * f[j] + a[j + 1] /\ g[j + 1] = d * g[j] + b[j + 1]
        BY <3>1 DEF Evaluates
      <3>3. f[j + 1] = g[j + 1]
        BY <3>1, <3>2
      <3> QED BY <3>3
    <2> QED BY <2>1
  <1> HIDE DEF S
  <1>3. m \in S
    BY <1>1, <1>2, Induct
  <1> QED BY <1>3 DEF S

LEMMA HornerIsNat ==
  ASSUME NEW m \in Nat, NEW z \in Nat, NEW d \in Nat, NEW a, Summable(a, m)
  PROVE  Horner(z, d, a, m) \in Nat
PROOF
  <1>1. PICK g : Evaluates(g, z, d, a, m) /\ Horner(z, d, a, m) = g[m]
    BY HornerEvaluates
  <1>2. m \in 0..m
    OBVIOUS
  <1> QED BY <1>1, <1>2 DEF Evaluates

LEMMA HornerOfNone ==
  ASSUME NEW z \in Nat, NEW d \in Nat, NEW a
  PROVE  Horner(z, d, a, 0) = z
PROOF
  <1>1. 0 \in Nat /\ Summable(a, 0)
    BY DEF Summable
  <1> QED BY <1>1, HornerEvaluates DEF Evaluates

LEMMA HornerOfEqual ==
  ASSUME NEW m \in Nat, NEW z \in Nat, NEW d \in Nat, NEW a, NEW b, Summable(a, m),
         \A n \in 1..m : a[n] = b[n]
  PROVE  Horner(z, d, a, m) = Horner(z, d, b, m)
PROOF
  <1>1. Summable(b, m)
    BY DEF Summable
  <1>2. PICK f : Evaluates(f, z, d, a, m) /\ Horner(z, d, a, m) = f[m]
    BY HornerEvaluates
  <1>3. PICK g : Evaluates(g, z, d, b, m) /\ Horner(z, d, b, m) = g[m]
    BY <1>1, HornerEvaluates
  <1> QED BY <1>2, <1>3, EvaluationsAgree

LEMMA HornerNext ==
  ASSUME NEW m \in Nat, NEW z \in Nat, NEW d \in Nat, NEW a, Summable(a, m + 1)
  PROVE  /\ Summable(a, m)
         /\ Horner(z, d, a, m + 1) = d * Horner(z, d, a, m) + a[m + 1]
PROOF
  <1>1. Summable(a, m) /\ m + 1 \in Nat
    BY DEF Summable
  <1>2. PICK f : Evaluates(f, z, d, a, m + 1) /\ Horner(z, d, a, m + 1) = f[m + 1]
    BY <1>1, HornerEvaluates
  <1>3. PICK g : Evaluates(g, z, d, a, m) /\ Horner(z, d, a, m) = g[m]
    BY <1>1, HornerEvaluates
  <1>4. Evaluates(f, z, d, a, m)
    <2>1. 0..m \subseteq 0..(m + 1) /\ 1..m \subseteq 1..(m + 1)
      OBVIOUS
    <2> QED BY <1>2, <2>1 DEF Evaluates
  <1>5. f[m] = g[m]
    BY <1>3, <1>4, EvaluationsAgree
  <1>6. f[m + 1] = d * f[m] + a[m + 1]
    <2>1. m + 1 \in 1..(m + 1) /\ (m + 1) - 1 = m
      OBVIOUS
    <2> QED BY <1>2, <2>1 DEF Evaluates
  <1> QED BY <1>1, <1>2, <1>3, <1>5, <1>6

-----------------------------------------------------------------------------
(* Sums.                                                                    *)

LEMMA SumIsNat ==
  ASSUME NEW m \in Nat, NEW a, Summable(a, m)
  PROVE  SumTo(a, m) \in Nat
BY HornerIsNat DEF SumTo

LEMMA SumOfNone == ASSUME NEW a PROVE SumTo(a, 0) = 0
BY HornerOfNone DEF SumTo

LEMMA SumOfEqual ==
  ASSUME NEW m \in Nat, NEW a, NEW b, Summable(a, m), \A n \in 1..m : a[n] = b[n]
  PROVE  SumTo(a, m) = SumTo(b, m)
BY HornerOfEqual DEF SumTo

LEMMA SumNext ==
  ASSUME NEW m \in Nat, NEW a, Summable(a, m + 1)
  PROVE  /\ Summable(a, m)
         /\ SumTo(a, m + 1) = SumTo(a, m) + a[m + 1]
PROOF
  <1>1. Summable(a, m) /\ SumTo(a, m + 1) = 1 * SumTo(a, m) + a[m + 1]
    BY HornerNext DEF SumTo
  <1>2. SumTo(a, m) \in Nat
    BY <1>1, SumIsNat
  <1> QED BY <1>1, <1>2

(* One number, the h-th, that is d less.                                     *)
Less(a, b, m, h, d) ==
  /\ Summable(a, m) /\ Summable(b, m)
  /\ \A n \in 1..m : a[n] = IF n = h THEN b[n] + d ELSE b[n]

LEMMA SumOfLess ==
  ASSUME NEW m \in Nat, NEW a, NEW b, NEW h \in Nat \ {0}, NEW d \in Nat, Less(a, b, m, h, d)
  PROVE  SumTo(a, m) = IF h <= m THEN SumTo(b, m) + d ELSE SumTo(b, m)
PROOF
  <1> DEFINE P(j) == SumTo(a, j) = IF h <= j THEN SumTo(b, j) + d ELSE SumTo(b, j)
             S == {j \in Nat : j <= m => P(j)}
  <1>1. 0 \in S
    BY SumOfNone
  <1>2. ASSUME NEW j \in Nat, j \in S PROVE j + 1 \in S
    <2>1. CASE j + 1 <= m
      <3>1. P(j) /\ j + 1 \in 1..m
        BY <1>2, <2>1
      <3>2. Summable(a, j + 1) /\ Summable(b, j + 1)
        BY <3>1 DEF Less, Summable
      <3>3. /\ SumTo(a, j + 1) = SumTo(a, j) + a[j + 1] /\ SumTo(b, j + 1) = SumTo(b, j) + b[j + 1]
            /\ SumTo(b, j) \in Nat
        BY <3>2, SumNext, SumIsNat
      <3>4. b[j + 1] \in Nat /\ a[j + 1] = IF j + 1 = h THEN b[j + 1] + d ELSE b[j + 1]
        BY <3>1 DEF Less, Summable
      <3> QED BY <3>1, <3>3, <3>4
    <2> QED BY <2>1
  <1> HIDE DEF S
  <1>3. m \in S
    BY <1>1, <1>2, Induct
  <1> QED BY <1>3 DEF S

(* One number more at the end of a series.                                   *)
LEMMA SumOfAppended ==
  ASSUME NEW s \in Seq(Nat), NEW d \in Nat
  PROVE  SumTo(Append(s, d), Len(s) + 1) = SumTo(s, Len(s)) + d
PROOF
  <1> DEFINE a == Append(s, d)
             m == Len(s)
  <1>1. /\ m \in Nat /\ a \in Seq(Nat) /\ Len(a) = m + 1 /\ a[m + 1] = d
        /\ \A n \in 1..m : s[n] = a[n] /\ s[n] \in Nat
    OBVIOUS
  <1>2. Summable(a, m + 1) /\ Summable(s, m)
    BY <1>1 DEF Summable
  <1> HIDE DEF a, m
  <1>3. SumTo(a, m + 1) = SumTo(a, m) + a[m + 1]
    BY <1>1, <1>2, SumNext
  <1>4. SumTo(s, m) = SumTo(a, m)
    BY <1>1, <1>2, SumOfEqual
  <1> QED BY <1>1, <1>3, <1>4 DEF a, m

(* Sums are linear, monotonic, and not changed by zeros at the end.           *)
LEMMA SumIsLinear ==
  ASSUME NEW m \in Nat, NEW k \in Nat, NEW a, NEW b, NEW c, Summable(a, m), Summable(b, m),
         \A n \in 1..m : c[n] = k * a[n] + b[n]
  PROVE  SumTo(c, m) = k * SumTo(a, m) + SumTo(b, m)
PROOF
  <1> DEFINE S == {j \in Nat : j <= m => SumTo(c, j) = k * SumTo(a, j) + SumTo(b, j)}
  <1>1. 0 \in S
    BY SumOfNone
  <1>2. ASSUME NEW j \in Nat, j \in S PROVE j + 1 \in S
    <2>1. CASE j + 1 <= m
      <3>1. /\ SumTo(c, j) = k * SumTo(a, j) + SumTo(b, j) /\ j + 1 \in 1..m
            /\ Summable(a, j + 1) /\ Summable(b, j + 1)
        BY <1>2, <2>1 DEF Summable
      <3>2. Summable(c, j + 1)
        <4>1. \A n \in 1..(j + 1) : n \in 1..m /\ a[n] \in Nat /\ b[n] \in Nat
          BY <3>1 DEF Summable
        <4> QED BY <4>1, StepIsNat DEF Summable
      <3>3. /\ SumTo(a, j + 1) = SumTo(a, j) + a[j + 1] /\ SumTo(a, j) \in Nat
            /\ SumTo(b, j + 1) = SumTo(b, j) + b[j + 1] /\ SumTo(b, j) \in Nat
            /\ SumTo(c, j + 1) = SumTo(c, j) + c[j + 1] /\ SumTo(c, j) \in Nat
        BY <3>1, <3>2, SumNext, SumIsNat
      <3>4. a[j + 1] \in Nat /\ b[j + 1] \in Nat /\ c[j + 1] = k * a[j + 1] + b[j + 1]
        BY <3>1 DEF Summable
      <3> DEFINE x == SumTo(a, j)
                 y == a[j + 1]
                 z == SumTo(b, j)
                 u == b[j + 1]
      <3>5. x \in Nat /\ y \in Nat /\ z \in Nat /\ u \in Nat
        BY <3>3, <3>4
      <3>6. SumTo(c, j + 1) = (k * x + z) + (k * y + u)
        BY <3>1, <3>3, <3>4
      <3> HIDE DEF x, y, z, u
      <3>7. (k * x + z) + (k * y + u) = k * (x + y) + (z + u)
        BY <3>5
      <3> QED BY <3>3, <3>6, <3>7 DEF x, y, z, u
    <2> QED BY <2>1
  <1>3. m \in S
    <2> HIDE DEF S
    <2> QED BY <1>1, <1>2, Induct
  <1> QED BY <1>3

LEMMA SumIsMonotonic ==
  ASSUME NEW m \in Nat, NEW a, NEW b, Summable(a, m), Summable(b, m),
         \A n \in 1..m : a[n] <= b[n]
  PROVE  SumTo(a, m) <= SumTo(b, m)
PROOF
  <1> DEFINE S == {j \in Nat : j <= m => SumTo(a, j) <= SumTo(b, j)}
  <1>1. 0 \in S
    BY SumOfNone
  <1>2. ASSUME NEW j \in Nat, j \in S PROVE j + 1 \in S
    <2>1. CASE j + 1 <= m
      <3>1. /\ SumTo(a, j) <= SumTo(b, j) /\ j + 1 \in 1..m
            /\ Summable(a, j + 1) /\ Summable(b, j + 1)
        BY <1>2, <2>1 DEF Summable
      <3>2. /\ SumTo(a, j + 1) = SumTo(a, j) + a[j + 1] /\ SumTo(a, j) \in Nat
            /\ SumTo(b, j + 1) = SumTo(b, j) + b[j + 1] /\ SumTo(b, j) \in Nat
        BY <3>1, SumNext, SumIsNat
      <3>3. a[j + 1] \in Nat /\ b[j + 1] \in Nat /\ a[j + 1] <= b[j + 1]
        BY <3>1 DEF Summable
      <3> QED BY <3>1, <3>2, <3>3
    <2> QED BY <2>1
  <1>3. m \in S
    <2> HIDE DEF S
    <2> QED BY <1>1, <1>2, Induct
  <1> QED BY <1>3

LEMMA SumPadded ==
  ASSUME NEW m \in Nat, NEW k \in Nat, NEW a, Summable(a, m + k),
         \A n \in (m + 1)..(m + k) : a[n] = 0
  PROVE  SumTo(a, m + k) = SumTo(a, m)
PROOF
  <1> DEFINE S == {j \in Nat : j <= k => SumTo(a, m + j) = SumTo(a, m)}
  <1>1. 0 \in S
    <2>1. m + 0 = m
      OBVIOUS
    <2> QED BY <2>1
  <1>2. ASSUME NEW j \in Nat, j \in S PROVE j + 1 \in S
    <2>1. CASE j + 1 <= k
      <3>1. /\ m + j \in Nat /\ (m + j) + 1 = m + (j + 1) /\ a[(m + j) + 1] = 0
            /\ Summable(a, (m + j) + 1) /\ SumTo(a, m + j) = SumTo(a, m)
        BY <1>2, <2>1 DEF Summable
      <3>2. SumTo(a, (m + j) + 1) = SumTo(a, m + j) + 0 /\ SumTo(a, m + j) \in Nat
        BY <3>1, SumNext, SumIsNat
      <3> QED BY <3>1, <3>2
    <2> QED BY <2>1
  <1>3. k \in S
    <2> HIDE DEF S
    <2> QED BY <1>1, <1>2, Induct
  <1> QED BY <1>3

-----------------------------------------------------------------------------
(* Decimals and powers of ten.                                              *)

LEMMA PowerNext ==
  ASSUME NEW m \in Nat
  PROVE  /\ Power10(0) = 1 /\ Power10(m) \in Nat \ {0}
         /\ Power10(m + 1) = 10 * Power10(m)
PROOF
  <1> DEFINE Zeros(j) == [n \in 1..j |-> 0]
             S == {j \in Nat : Power10(j) \in Nat \ {0}}
  <1>1. ASSUME NEW j \in Nat PROVE Summable(Zeros(j), j) /\ Power10(j) \in Nat
    <2>1. Summable(Zeros(j), j)
      BY DEF Summable
    <2> QED BY <2>1, HornerIsNat DEF Power10
  <1>2. Power10(0) = 1
    BY HornerOfNone DEF Power10
  <1>3. ASSUME NEW j \in Nat PROVE Power10(j + 1) = 10 * Power10(j)
    <2>1. /\ j + 1 \in Nat /\ Zeros(j + 1)[j + 1] = 0
          /\ \A n \in 1..j : Zeros(j)[n] = Zeros(j + 1)[n]
      OBVIOUS
    <2> DEFINE a == Zeros(j + 1)
               b == Zeros(j)
    <2>2. Summable(a, j + 1) /\ Summable(b, j)
      BY <1>1, <2>1
    <2>3. Power10(j + 1) = Horner(1, 10, a, j + 1) /\ Power10(j) = Horner(1, 10, b, j)
      BY DEF Power10
    <2>4. \A n \in 1..j : b[n] = a[n]
      BY <2>1
    <2>5. a[j + 1] = 0
      BY <2>1
    <2> HIDE DEF a, b
    <2>6. Horner(1, 10, a, j + 1) = 10 * Horner(1, 10, a, j) + 0
      BY <2>2, <2>5, HornerNext
    <2>7. Horner(1, 10, b, j) = Horner(1, 10, a, j)
      BY <2>2, <2>4, HornerOfEqual
    <2>8. Power10(j) \in Nat
      BY <1>1
    <2> QED BY <2>3, <2>6, <2>7, <2>8
  <1>4. 0 \in S
    BY <1>2
  <1>5. ASSUME NEW j \in Nat, j \in S PROVE j + 1 \in S
    BY <1>3, <1>5
  <1>6. m \in S
    <2> HIDE DEF S
    <2> QED BY <1>4, <1>5, Induct
  <1> QED BY <1>2, <1>3, <1>6

LEMMA DecimalIsNat ==
  ASSUME NEW m \in Nat, NEW a, Summable(a, m)
  PROVE  Decimal(a, m) \in Nat
BY HornerIsNat DEF Decimal

LEMMA DecimalOfEqual ==
  ASSUME NEW m \in Nat, NEW a, NEW b, Summable(a, m), \A n \in 1..m : a[n] = b[n]
  PROVE  Decimal(a, m) = Decimal(b, m)
BY HornerOfEqual DEF Decimal

LEMMA DecimalNext ==
  ASSUME NEW m \in Nat, NEW a, Summable(a, m + 1)
  PROVE  /\ Summable(a, m)
         /\ Decimal(a, m + 1) = 10 * Decimal(a, m) + a[m + 1]
BY HornerNext DEF Decimal

(* Zeros at the end multiply by ten each.                                    *)
LEMMA DecimalPadded ==
  ASSUME NEW m \in Nat, NEW k \in Nat, NEW a, Summable(a, m + k),
         \A n \in (m + 1)..(m + k) : a[n] = 0
  PROVE  Decimal(a, m + k) = Decimal(a, m) * Power10(k)
PROOF
  <1> DEFINE S == {j \in Nat : j <= k => Decimal(a, m + j) = Decimal(a, m) * Power10(j)}
  <1>1. \A j \in Nat : j <= k => Summable(a, m + j) /\ Decimal(a, m + j) \in Nat
    <2> SUFFICES ASSUME NEW j \in Nat, j <= k PROVE Summable(a, m + j) /\ Decimal(a, m + j) \in Nat
      OBVIOUS
    <2>1. Summable(a, m + j) /\ m + j \in Nat
      BY DEF Summable
    <2> QED BY <2>1, DecimalIsNat
  <1>2. Decimal(a, m) \in Nat
    <2>1. 0 <= k /\ m + 0 = m
      OBVIOUS
    <2> QED BY <1>1, <2>1
  <1>3. 0 \in S
    <2>1. Power10(0) = 1 /\ m + 0 = m
      BY PowerNext
    <2> QED BY <1>2, <2>1
  <1>4. ASSUME NEW j \in Nat, j \in S PROVE j + 1 \in S
    <2>1. CASE j + 1 <= k
      <3>1. /\ Decimal(a, m + j) = Decimal(a, m) * Power10(j)
            /\ m + j \in Nat /\ (m + j) + 1 = m + (j + 1) /\ a[(m + j) + 1] = 0
        BY <1>4, <2>1
      <3>2. Decimal(a, (m + j) + 1) = 10 * Decimal(a, m + j) + a[(m + j) + 1]
        <4>1. Summable(a, m + (j + 1))
          BY <1>1, <2>1
        <4>2. Summable(a, (m + j) + 1)
          BY <3>1, <4>1
        <4> QED BY <3>1, <4>2, DecimalNext
      <3>3. Power10(j) \in Nat /\ Power10(j + 1) = 10 * Power10(j)
        BY PowerNext
      <3> DEFINE x == Decimal(a, m)
                 p == Power10(j)
                 y == Decimal(a, m + j)
      <3>4. Decimal(a, m + (j + 1)) = 10 * y /\ y \in Nat
        BY <1>1, <2>1, <3>1, <3>2
      <3>5. x \in Nat /\ p \in Nat /\ y = x * p
        BY <1>2, <3>1, <3>3
      <3> HIDE DEF x, p, y
      <3>6. 10 * y = x * (10 * p)
        BY <3>5
      <3> QED BY <3>3, <3>4, <3>6 DEF x, p
    <2> QED BY <2>1
  <1>5. k \in S
    <2> HIDE DEF S
    <2> QED BY <1>3, <1>4, Induct
  <1> QED BY <1>5

(* The first digit that differs decides.                                     *)
LEMMA DecimalLess ==
  ASSUME NEW m \in Nat, NEW a, NEW b, NEW k \in 1..m,
         \A n \in 1..m : a[n] \in 0..9 /\ b[n] \in 0..9,
         \A n \in 1..(k - 1) : a[n] = b[n], a[k] < b[k]
  PROVE  Decimal(a, m) < Decimal(b, m)
PROOF
  <1> DEFINE S == {j \in Nat : k + j <= m => Decimal(a, k + j) < Decimal(b, k + j)}
  <1>1. \A n \in Nat : n <= m => /\ Summable(a, n) /\ Summable(b, n)
                                 /\ Decimal(a, n) \in Nat /\ Decimal(b, n) \in Nat
    <2> SUFFICES ASSUME NEW n \in Nat, n <= m
                 PROVE  /\ Summable(a, n) /\ Summable(b, n)
                        /\ Decimal(a, n) \in Nat /\ Decimal(b, n) \in Nat
      OBVIOUS
    <2>1. Summable(a, n) /\ Summable(b, n)
      BY DEF Summable
    <2> QED BY <2>1, DecimalIsNat
  <1>2. ASSUME NEW n \in Nat, n + 1 <= m
        PROVE  /\ Decimal(a, n + 1) = 10 * Decimal(a, n) + a[n + 1]
               /\ Decimal(b, n + 1) = 10 * Decimal(b, n) + b[n + 1]
               /\ Decimal(a, n) \in Nat /\ Decimal(b, n) \in Nat
               /\ a[n + 1] \in 0..9 /\ b[n + 1] \in 0..9
    <2>1. n + 1 \in Nat /\ n + 1 \in 1..m /\ n <= m
      BY <1>2
    <2> QED BY <1>1, <1>2, <2>1, DecimalNext
  <1>3. 0 \in S
    <2>1. k - 1 \in Nat /\ (k - 1) + 1 = k /\ k <= m /\ k - 1 <= m /\ k + 0 = k
      OBVIOUS
    <2>2. Decimal(a, k - 1) = Decimal(b, k - 1)
      BY <1>1, <2>1, DecimalOfEqual
    <2>3. Decimal(a, k) < Decimal(b, k)
      BY <1>2, <2>1, <2>2
    <2> QED BY <2>1, <2>3
  <1>4. ASSUME NEW j \in Nat, j \in S PROVE j + 1 \in S
    <2>1. CASE k + (j + 1) <= m
      <3>1. k + j \in Nat /\ (k + j) + 1 = k + (j + 1) /\ Decimal(a, k + j) < Decimal(b, k + j)
        BY <1>4, <2>1
      <3>2. /\ Decimal(a, (k + j) + 1) = 10 * Decimal(a, k + j) + a[(k + j) + 1]
            /\ Decimal(b, (k + j) + 1) = 10 * Decimal(b, k + j) + b[(k + j) + 1]
            /\ Decimal(a, k + j) \in Nat /\ Decimal(b, k + j) \in Nat
            /\ a[(k + j) + 1] \in 0..9 /\ b[(k + j) + 1] \in 0..9
        BY <1>2, <2>1, <3>1
      <3>3. Decimal(a, (k + j) + 1) < Decimal(b, (k + j) + 1)
        BY <3>1, <3>2
      <3> QED BY <3>1, <3>3
    <2> QED BY <2>1
  <1>5. m - k \in S /\ k + (m - k) = m
    <2>1. m - k \in Nat /\ k + (m - k) = m
      OBVIOUS
    <2> HIDE DEF S
    <2> QED BY <1>3, <1>4, <2>1, Induct
  <1> QED BY <1>5
===============================================================================
