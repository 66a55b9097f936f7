----------------------------- MODULE StartupProofs -----------------------------
(***************************************************************************)
(* Theorems about Startup, for any set of command lines.                   *)
(***************************************************************************)
EXTENDS Startup, SequenceTheorems, ArithmeticTheorems

(* What is reached only through the step before.                            *)
PastSpecs    == {"levels", "touched"}
PastBanner   == {"connect", "specs"} \cup PastSpecs
PastTag      == {"banner"} \cup PastBanner
PastOutput   == {"tag"} \cup PastTag
PastWarn     == {"output"} \cup PastOutput
PastUrl      == {"warn"} \cup PastWarn
PastValidate == {"url"} \cup PastUrl

Announced ==
  /\ DisablesVerification => "unverified" \in warned
  /\ FlushesDbZero => "flush" \in warned

(* What a percentile spec is made of.                                        *)
Characters(spec) == spec.kind = "p" => spec.chars \in Seq(0..Letter)

(* Each step leaves behind what it checked, up to the first command and, for  *)
(* a connection that was opened, also when the program failed after it.      *)
Checked ==
  /\ cli \in CLIs /\ at # "panicked" /\ (at # "provider" => provider)
  /\ at \in PastValidate => NumbersAccepted
  /\ at \in PastUrl => UrlAccepted /\ url = BuiltUrl
  /\ at \in PastWarn => Announced
  /\ at \in PastOutput => OutputAccepted
  /\ at \in PastTag => \A i \in 1..Len(tag) : tag[i] # "slash"
  /\ at \in PastBanner => keys = QueueNames
  /\ \A c \in conns : /\ Opens(url) /\ c = Connection(url)
                      /\ UrlAccepted /\ url = BuiltUrl /\ Announced
  /\ wiped # None => /\ at = "touched"
                     /\ cli.allow_flushdb => wiped = [db |-> Connection(url).db]
  /\ conns # {} => at \notin {"provider", "validate", "url", "warn"}
  /\ \A i \in 1..Len(specs) : Accepted(specs[i]) /\ Characters(specs[i])

(* A function over 1..n is a sequence of length n.                          *)
LEMMA MappedSequence ==
  ASSUME NEW n \in Nat, NEW S, NEW f \in [1..n -> S]
  PROVE  f \in Seq(S) /\ Len(f) = n
PROOF
  BY LenProperties

LEMMA NoPathIsNoNumber == \A n \in 0..255 : n # NoPath
PROOF
  <1>1. NoPath \notin Nat
    BY StartupAssumption
  <1> QED BY <1>1

LEMMA SanitizedHasNoSlash ==
  ASSUME NEW t \in Seq(Chars)
  PROVE  \A i \in 1..Len(Sanitize(t)) : Sanitize(t)[i] # "slash"
PROOF
  <1>1. CASE t = <<>>
    BY <1>1 DEF Sanitize
  <1>2. CASE t # <<>>
    <2> DEFINE f == [i \in 1..Len(t) |-> IF t[i] \in {"slash", "other"} THEN "safe" ELSE t[i]]
    <2>1. Len(t) \in Nat
      BY LenProperties
    <2>2. f \in [1..Len(t) -> {f[i] : i \in 1..Len(t)}]
      OBVIOUS
    <2>3. Len(f) = Len(t)
      BY <2>1, <2>2, MappedSequence
    <2>4. \A i \in 1..Len(t) : f[i] # "slash"
      OBVIOUS
    <2>5. Sanitize(t) = f
      BY <1>2 DEF Sanitize
    <2> QED BY <2>3, <2>4, <2>5
  <1> QED BY <1>1, <1>2

LEMMA CheckedInit == Init => Checked
PROOF
  BY DEF Init, Checked, PastSpecs, PastBanner, PastTag, PastOutput, PastWarn, PastUrl, PastValidate

LEMMA CheckedNext == Checked /\ [Next]_vars => Checked'
PROOF
  <1> SUFFICES ASSUME Checked, [Next]_vars PROVE Checked'
    OBVIOUS
  <1> USE DEF PastSpecs, PastBanner, PastTag, PastOutput, PastWarn, PastUrl, PastValidate
  <1>c. UNCHANGED cli
    BY DEF Next, InstallProvider, Validate, BuildUrl, Warn, CheckOutput, ChooseTag, Banner, Connect,
           ParseSpecs, StartLevels, Terminated, vars
  (* What an earlier step established depends only on what later steps keep. *)
  <1>k. /\ NumbersAccepted' <=> NumbersAccepted
        /\ UrlAccepted' <=> UrlAccepted
        /\ BuiltUrl' = BuiltUrl
        /\ OutputAccepted' <=> OutputAccepted
        /\ QueueNames' = QueueNames
    BY <1>c DEF NumbersAccepted, Workers, UrlAccepted, BuiltUrl, Scheme, Override, DbPath, OutputAccepted, QueueNames
  <1>a. UNCHANGED <<url, warned>> => (Announced' <=> Announced)
    BY <1>c DEF Announced, DisablesVerification, FlushesDbZero
  <1>1. CASE InstallProvider
    BY <1>1, <1>c DEF Checked, InstallProvider
  <1>2. CASE Validate
    BY <1>2, <1>c, <1>k DEF Checked, Validate, Fail
  <1>3. CASE BuildUrl
    BY <1>3, <1>c, <1>k DEF Checked, BuildUrl, Fail
  <1>4. CASE Warn
    <2>1. Announced'
      BY <1>4 DEF Warn, Announced, DisablesVerification, FlushesDbZero
    <2> QED BY <1>4, <1>c, <1>k, <2>1 DEF Checked, Warn
  <1>5. CASE CheckOutput
    BY <1>5, <1>c, <1>k, <1>a DEF Checked, CheckOutput, Fail
  <1>6. ASSUME Opened, at \in {"tag", "connect"}, UNCHANGED <<cli, url, warned>>
        PROVE  \A c \in conns' : /\ Opens(url) /\ c = Connection(url)
                                 /\ UrlAccepted /\ url = BuiltUrl /\ Announced
    BY <1>6 DEF Opened, Checked
  <1>7. CASE ChooseTag
    <2>1. at = "tag" /\ UNCHANGED <<cli, url, warned, provider, keys, specs, wiped>>
      BY <1>7 DEF ChooseTag
    <2>2. ~Panics
      BY <2>1 DEF Checked, Panics
    <2>3. at' = "banner" /\ \E t \in Seq(Chars) : tag' = Sanitize(t)
      <3>1. "safe" \in Chars
        BY DEF Chars
      <3>2. <<"safe">> \in Seq(Chars)
        <4>1. <<>> \in Seq(Chars) /\ Append(<<>>, "safe") = <<"safe">>
          BY EmptySeq
        <4> QED BY <3>1, <4>1, AppendProperties
      <3> QED BY <1>7, <2>2, <3>2, StartupAssumption DEF ChooseTag, FetchTag, Checked
    <2>4. \A i \in 1..Len(tag') : tag'[i] # "slash"
      BY <2>3, SanitizedHasNoSlash
    <2>5. UNCHANGED conns \/ Opened
      BY <1>7, <2>2 DEF ChooseTag, FetchTag
    <2>6. \A c \in conns' : /\ Opens(url) /\ c = Connection(url)
                            /\ UrlAccepted /\ url = BuiltUrl /\ Announced
      BY <1>6, <2>1, <2>5 DEF Checked
    <2> QED BY <1>c, <1>k, <1>a, <2>1, <2>3, <2>4, <2>6 DEF Checked, Opens, Connection
  <1>8. CASE Banner
    BY <1>8, <1>c, <1>k, <1>a DEF Checked, Banner, Opens, Connection
  <1>9. CASE Connect
    <2>1. at = "connect" /\ UNCHANGED <<cli, url, warned, tag, provider, keys, specs, wiped>>
      BY <1>9 DEF Connect
    <2>2. ~Panics
      BY <2>1 DEF Checked, Panics
    <2>3. at' \in {"specs", "failed"}
      BY <1>9, <2>2 DEF Connect, Fail
    <2>4. \A c \in conns' : /\ Opens(url) /\ c = Connection(url)
                            /\ UrlAccepted /\ url = BuiltUrl /\ Announced
      BY <1>6, <1>9, <2>1, <2>2 DEF Connect, Checked
    <2> QED BY <1>c, <1>k, <1>a, <2>1, <2>3, <2>4 DEF Checked, Opens, Connection
  <1>10. CASE ParseSpecs
    <2>1. \A i \in 1..Len(specs') : Accepted(specs'[i]) /\ Characters(specs'[i])
      <3>1. CASE UNCHANGED specs
        BY <3>1 DEF Checked
      <3>2. CASE specs' = cli.latency_percentiles /\ \A i \in 1..Len(specs') : Accepted(specs'[i])
        <4>1. \A i \in 1..Len(specs') : Characters(specs'[i])
          BY <3>2, StartupAssumption DEF Checked, Characters
        <4> QED BY <3>2, <4>1
      <3> QED BY <1>10, <3>1, <3>2 DEF ParseSpecs
    <2>2. /\ at = "specs" /\ at' \in {"levels", "failed"}
          /\ UNCHANGED <<cli, provider, url, warned, tag, output, keys, shown, conns, wiped>>
      BY <1>10 DEF ParseSpecs, Fail
    <2> QED BY <2>1, <2>2, <1>c, <1>k, <1>a DEF Checked, Opens, Connection
  <1>11. CASE StartLevels
    <2>1. Announced => Announced'
      BY <1>11, <1>c DEF StartLevels, Announced, DisablesVerification, FlushesDbZero
    <2> QED BY <1>11, <1>c, <1>k, <2>1 DEF Checked, StartLevels, Opens, Connection
  <1>12. CASE UNCHANGED vars
    BY <1>12, <1>c, <1>k, <1>a DEF Checked, vars, Opens, Connection
  <1> QED
    BY <1>1, <1>2, <1>3, <1>4, <1>5, <1>7, <1>8, <1>9, <1>10, <1>11, <1>12 DEF Next, Terminated

LEMMA CheckedHolds == Spec => []Checked
PROOF
  BY CheckedInit, CheckedNext, PTL DEF Spec

-----------------------------------------------------------------------------
(* Whichever options ask for it, a connection without verification and a       *)
(* FLUSHDB of db 0 come after their warnings (main.rs 766-792).              *)
THEOREM RisksAreAnnounced == Spec => []RisksAnnounced
PROOF
  <1>1. Checked => RisksAnnounced
    <2> SUFFICES ASSUME Checked PROVE RisksAnnounced
      OBVIOUS
    <2>1. ASSUME NEW c \in conns, c.tls, ~c.verified, url.scheme # "valkeys"
          PROVE  "unverified" \in warned
      BY <2>1 DEF Checked, Connection, TlsSchemes, Announced, DisablesVerification
    <2>2. ASSUME wiped # None, cli.allow_flushdb, wiped.db = 0, url.scheme # "unix"
          PROVE  "flush" \in warned
      <3>1. at = "touched" /\ wiped = [db |-> Connection(url).db]
        BY <2>2 DEF Checked
      <3>2. url.path = NoPath \/ url.path = 0
        BY <2>2, <3>1 DEF Connection
      <3>3. url.path \in 0..255 => url.path = 0
        BY <3>2, NoPathIsNoNumber
      <3> QED BY <2>2, <3>1, <3>3 DEF Checked, Announced, FlushesDbZero, PastWarn, PastOutput, PastTag,
                                      PastBanner, PastSpecs
    <2> QED BY <2>1, <2>2 DEF RisksAnnounced
  <1> QED BY <1>1, CheckedHolds, PTL

(* No combination of --url, --db, --tls and --insecure connects to another     *)
(* database over TCP, or with less protection, than was asked for, but for    *)
(* --tls with a URL that is not upgraded (main.rs 129-178).                  *)
THEOREM ConnectionIsAsAsked == Spec => []ConnectionAsAsked
PROOF
  <1>1. Checked => ConnectionAsAsked
    <2> SUFFICES ASSUME Checked, NEW c \in conns
                 PROVE  /\ url.scheme \in TcpSchemes =>
                             c.db = IF cli.db # None THEN cli.db
                                    ELSE IF cli.url.path # NoPath THEN cli.url.path ELSE 13
                        /\ cli.tls /\ cli.url.scheme \notin {"valkey", "unix"} => c.tls
                        /\ cli.insecure => c.tls /\ ~c.verified
      BY DEF ConnectionAsAsked
    <2>1. /\ c = Connection(BuiltUrl) /\ Opens(BuiltUrl) /\ UrlAccepted /\ url = BuiltUrl
          /\ cli.db = None \/ cli.db \in 0..255
      BY StartupAssumption DEF Checked
    <2>2. url.scheme \in TcpSchemes => c.db = IF DbPath = NoPath THEN 0 ELSE DbPath
      BY <2>1 DEF Connection, BuiltUrl, TcpSchemes, TlsSchemes
    <2>3. 13 # NoPath /\ (cli.db \in 0..255 => cli.db # NoPath)
      BY NoPathIsNoNumber
    <2>4. url.scheme \in TcpSchemes =>
            c.db = IF cli.db # None THEN cli.db
                   ELSE IF cli.url.path # NoPath THEN cli.url.path ELSE 13
      BY <2>1, <2>2, <2>3 DEF DbPath, Override
    <2>5. /\ c.tls <=> Scheme \in TlsSchemes
          /\ c.verified <=> Scheme \in TlsSchemes /\ BuiltUrl.fragment # "insecure"
          /\ Scheme \in TcpSchemes \cup {"unix"}
      BY <2>1 DEF Connection, BuiltUrl, Opens
    <2>6. cli.tls /\ cli.url.scheme \notin {"valkey", "unix"} => Scheme \in TlsSchemes
      BY <2>5 DEF Scheme, TcpSchemes, TlsSchemes
    <2>7. cli.insecure => Scheme = "rediss" /\ BuiltUrl.fragment = "insecure"
      BY <2>1 DEF BuiltUrl, UrlAccepted
    <2> QED BY <2>4, <2>5, <2>6, <2>7 DEF TlsSchemes
  <1> QED BY <1>1, CheckedHolds, PTL

(* The provider is installed before any connection, so none panics (tls.rs).  *)
THEOREM NeverPanics == Spec => []NoPanic
PROOF
  <1>1. Checked => NoPanic
    BY DEF Checked, NoPanic
  <1> QED BY <1>1, CheckedHolds, PTL

(* The queue keys of a command line are as many as asked for, and distinct.  *)
LEMMA QueueNamesDistinct ==
  ASSUME cli.num_queues \in Nat \ {0}
  PROVE  /\ Len(QueueNames) = cli.num_queues /\ QueueNames # <<>>
         /\ \A i, j \in 1..Len(QueueNames) : i # j => QueueNames[i] # QueueNames[j]
PROOF
  <1>1. CASE cli.num_queues <= 1
    BY <1>1 DEF QueueNames
  <1>2. CASE cli.num_queues > 1
    <2> DEFINE n == cli.num_queues
               f == [i \in 1..n |-> <<"base", i - 1>>]
               S == {f[i] : i \in 1..n}
    <2>1. f \in [1..n -> S] /\ n \in Nat
      OBVIOUS
    <2>2. Len(f) = n /\ f \in Seq(S)
      <3> HIDE DEF n, f, S
      <3> QED BY <2>1, MappedSequence
    <2>3. ASSUME NEW i \in 1..n, NEW j \in 1..n, i # j PROVE f[i] # f[j]
      <3>1. f[i][2] = i - 1 /\ f[j][2] = j - 1
        OBVIOUS
      <3> QED BY <2>3, <3>1
    <2>4. f # <<>>
      BY <1>2, <2>2, EmptySeq
    <2>5. QueueNames = f
      BY <1>2 DEF QueueNames
    <2> QED BY <2>2, <2>3, <2>4, <2>5
  <1> QED BY <1>1, <1>2

(* Before the first command that changes Redis every argument was accepted:    *)
(* what the other modules assume of their constants is what main checked      *)
(* (main.rs 698-751, 228-239, 837-841).                                      *)
THEOREM ArgumentsAreAccepted == Spec => []AcceptedBeforeTouched
PROOF
  <1>1. Checked => AcceptedBeforeTouched
    <2> SUFFICES ASSUME Checked, wiped # None PROVE AcceptedBeforeTouched
      BY DEF AcceptedBeforeTouched
    <2>1. /\ NumbersAccepted /\ OutputAccepted /\ keys = QueueNames
          /\ \A i \in 1..Len(tag) : tag[i] # "slash"
          /\ \A i \in 1..Len(specs) : Accepted(specs[i])
      BY DEF Checked, PastValidate, PastUrl, PastWarn, PastOutput, PastTag, PastBanner, PastSpecs
    <2>2. cli.workers \in Seq(Nat) /\ cli.num_queues \in Nat
      BY StartupAssumption DEF Checked
    <2>3. cli.workers \in Seq(Nat \ {0})
      <3>1. /\ cli.workers \in [1..Len(cli.workers) -> Nat] /\ Len(cli.workers) \in Nat
        BY <2>2, LenProperties
      <3>2. \A i \in 1..Len(cli.workers) : cli.workers[i] \in Nat \ {0}
        BY <2>1, <3>1 DEF NumbersAccepted, Workers
      <3>3. cli.workers \in [1..Len(cli.workers) -> Nat \ {0}]
        BY <3>1, <3>2
      <3> QED BY <3>1, <3>3, MappedSequence
    <2>4. /\ Len(keys) = cli.num_queues /\ keys # <<>>
          /\ \A i, j \in 1..Len(keys) : i # j => keys[i] # keys[j]
      BY <2>1, <2>2, QueueNamesDistinct DEF NumbersAccepted
    <2> QED BY <2>1, <2>3, <2>4 DEF AcceptedBeforeTouched, NumbersAccepted
  <1> QED BY <1>1, CheckedHolds, PTL

-----------------------------------------------------------------------------
(* A spec of digits that was accepted is a decimal fraction.                 *)
IsFraction(chars) == chars \in Seq(0..9) /\ chars # <<>>

LEMMA AcceptedIsFraction ==
  ASSUME NEW spec, spec.kind = "p", spec.chars \in Seq(0..Letter), Accepted(spec),
         Head(spec.chars) # Plus
  PROVE  /\ IsFraction(spec.chars)
         /\ Quantile(spec) = <<Decimal(spec.chars, Len(spec.chars)), Power10(Len(spec.chars))>>
PROOF
  <1> DEFINE chars == spec.chars
  <1>1. IsU64(chars) /\ Power10(Len(chars)) <= U64Max
    BY DEF Accepted
  <1>2. Numeral(chars) = chars
    BY DEF Numeral
  <1>3. chars # <<>> /\ \A i \in 1..Len(chars) : chars[i] \in 0..9
    BY <1>1, <1>2 DEF IsU64
  <1>4. chars \in Seq(0..9)
    <2>1. chars \in [1..Len(chars) -> 0..Letter] /\ Len(chars) \in Nat
      BY LenProperties
    <2>2. chars \in [1..Len(chars) -> 0..9]
      BY <1>3, <2>1
    <2> HIDE DEF chars
    <2> QED BY <2>1, <2>2, MappedSequence
  <1>5. Divisor(chars) = Power10(Len(chars))
    <2> DEFINE p == Power10(Len(chars))
               u == U64Max + 1
    <2>1. Len(chars) \in Nat
      BY LenProperties
    <2>2. p \in Nat /\ p < u /\ u \in Nat \ {0}
      <3>1. p \in Nat
        BY <2>1, PowerNext
      <3>2. p <= U64Max /\ U64Max \in Nat
        BY <1>1, PercentileAssumption
      <3> HIDE DEF p
      <3> QED BY <3>1, <3>2
    <2>3. Divisor(chars) = p % u
      BY DEF Divisor
    <2> HIDE DEF p, u
    <2>4. 0 * u + p = p /\ 0 \in Nat /\ p \in 0..(u - 1)
      BY <2>2
    <2>5. p \div u = 0
      BY <2>2, <2>4, Quotient
    <2>6. p = (p \div u) * u + (p % u) /\ p % u \in Nat
      BY <2>2, Division
    <2>7. p % u = p
      BY <2>2, <2>5, <2>6
    <2> QED BY <2>3, <2>7 DEF p
  <1>6. Quantile(spec) = <<Decimal(chars, Len(chars)), Power10(Len(chars))>>
    BY <1>2, <1>5 DEF Quantile, Value
  <1> QED BY <1>3, <1>4, <1>6 DEF IsFraction

(* Of two fractions the one that comes first is the smaller: with the digits    *)
(* of both padded to one length, only the numerators are left to compare.     *)
LEMMA FirstIsSmaller ==
  ASSUME NEW a, NEW b, IsFraction(a), IsFraction(b), Precedes(a, b)
  PROVE  Decimal(a, Len(a)) * Power10(Len(b)) < Decimal(b, Len(b)) * Power10(Len(a))
PROOF
  <1> DEFINE na == Len(a)
             nb == Len(b)
             m == na + nb
             da == [i \in 1..m |-> Digit(a, i)]
             db == [i \in 1..m |-> Digit(b, i)]
  <1>1. /\ na \in Nat /\ nb \in Nat /\ m \in Nat
        /\ \A i \in 1..na : a[i] \in 0..9
        /\ \A i \in 1..nb : b[i] \in 0..9
    BY DEF IsFraction
  <1>2. PICK k \in 1..m : /\ \A i \in 1..(k - 1) : Digit(a, i) = Digit(b, i)
                          /\ Digit(a, k) < Digit(b, k)
    BY DEF Precedes
  <1>3. /\ \A i \in 1..m : da[i] \in 0..9 /\ db[i] \in 0..9
        /\ \A i \in 1..na : a[i] = da[i]
        /\ \A i \in 1..nb : b[i] = db[i]
        /\ \A i \in (na + 1)..(na + nb) : da[i] = 0
        /\ \A i \in (nb + 1)..(nb + na) : db[i] = 0
    <2>1. \A i \in 1..m : /\ da[i] = IF i <= na THEN a[i] ELSE 0
                          /\ db[i] = IF i <= nb THEN b[i] ELSE 0
      BY DEF Digit
    <2> HIDE DEF da, db, na, nb
    <2> QED BY <1>1, <2>1
  <1>4. /\ \A i \in 1..(k - 1) : da[i] = db[i]
        /\ da[k] < db[k]
    <2>1. \A i \in 1..(k - 1) : i \in 1..m
      BY <1>1
    <2> QED BY <1>2, <2>1
  <1> HIDE DEF da, db, na, nb
  <1>5. Decimal(da, m) < Decimal(db, m)
    BY <1>1, <1>3, <1>4, DecimalLess
  <1>6. /\ Summable(a, na) /\ Summable(da, na + nb)
        /\ Summable(b, nb) /\ Summable(db, nb + na)
    BY <1>1, <1>3 DEF Summable
  <1>7. /\ Decimal(a, na) = Decimal(da, na)
        /\ Decimal(b, nb) = Decimal(db, nb)
    BY <1>1, <1>3, <1>6, DecimalOfEqual
  <1>8. Decimal(da, na + nb) = Decimal(da, na) * Power10(nb)
    BY <1>1, <1>3, <1>6, DecimalPadded
  <1>9. Decimal(db, nb + na) = Decimal(db, nb) * Power10(na)
    BY <1>1, <1>3, <1>6, DecimalPadded
  <1>10. nb + na = m
    BY <1>1
  <1> QED BY <1>5, <1>7, <1>8, <1>9, <1>10 DEF na, nb

(* The specs that are reported are in the order of their digits: the cap on    *)
(* the number of digits keeps every power of ten a u64 (main.rs 279-301).    *)
THEOREM QuantilesAreInOrder == Spec => []QuantilesInOrder
PROOF
  <1>1. Checked => QuantilesInOrder
    <2> DEFINE P == {specs[i] : i \in {k \in 1..Len(specs) : specs[k].kind = "p"}}
    <2> SUFFICES ASSUME Checked, NEW s \in P, NEW t \in P, Head(s.chars) # Plus,
                        Head(t.chars) # Plus, Precedes(s.chars, t.chars)
                 PROVE  Quantile(s)[1] * Quantile(t)[2] < Quantile(t)[1] * Quantile(s)[2]
      BY DEF QuantilesInOrder
    <2>1. \A p \in P : p.kind = "p" /\ Accepted(p) /\ p.chars \in Seq(0..Letter)
      BY DEF Checked, Characters
    <2> HIDE DEF P
    <2>2. /\ IsFraction(s.chars) /\ IsFraction(t.chars)
          /\ Quantile(s) = <<Decimal(s.chars, Len(s.chars)), Power10(Len(s.chars))>>
          /\ Quantile(t) = <<Decimal(t.chars, Len(t.chars)), Power10(Len(t.chars))>>
      BY <2>1, AcceptedIsFraction
    <2>3. Decimal(s.chars, Len(s.chars)) * Power10(Len(t.chars))
            < Decimal(t.chars, Len(t.chars)) * Power10(Len(s.chars))
      BY <2>2, FirstIsSmaller
    <2> QED BY <2>2, <2>3
  <1> QED BY <1>1, CheckedHolds, PTL
===============================================================================
