------------------------------- MODULE Startup -------------------------------
(***************************************************************************)
(* main (src/main.rs) from the command line to the first command that      *)
(* changes Redis: validation, the connection URL, the warnings, the output *)
(* path, the tag, the connection and the percentile specs, in that order,  *)
(* each of which may end the program.                                      *)
(*                                                                         *)
(* A URL is the record of its parts; what the url and redis crates do with *)
(* it is external.  Its host is None if it has none, Opaque if it cannot    *)
(* have one (redis:name); its path NoPath (empty or slashes), Text, or the *)
(* number it reads as.  A tag is the sequence of the classes of its        *)
(* characters, a file path that of its components.                         *)
(***************************************************************************)
EXTENDS Percentiles

CONSTANTS
  CLIs,         \* the command lines (with their environment)
  Versions,     \* the redis_version lines a server may answer, as characters
  None,         \* an option that was not given, a URL part that is absent
  Unparsable,   \* a --url the url crate refuses
  Bad,          \* a --host it refuses
  Opaque,       \* the host of a URL without the two slashes
  Stdout,       \* the --output "-"
  NoPath, Text, \* a URL path that is empty, one that is no number
  Secret, Stars \* a password, and what redact_url puts in its place

(* The classes of the characters of a tag.                                  *)
Chars == {"safe", "dot", "slash", "other"}

(* The types clap parses the arguments to.                                  *)
ASSUME StartupAssumption ==
  /\ \A c \in CLIs :
       /\ c.workers \in Seq(Nat) /\ {c.jobs, c.num_queues} \subseteq Nat
       /\ {c.timeout, c.idle_poll_duration_s, c.poll_interval_ms} \subseteq Nat
       /\ c.db = None \/ c.db \in 0..255
       /\ c.tag = None \/ c.tag \in Seq(Chars)
       /\ \A i \in 1..Len(c.latency_percentiles) :
            c.latency_percentiles[i].kind = "p" => c.latency_percentiles[i].chars \in Seq(0..Letter)
  /\ Versions \subseteq Seq(Chars)
  /\ NoPath \notin Nat

VARIABLES
  cli,       \* the parsed arguments
  at,        \* the next step of main
  provider,  \* a process-wide crypto provider is installed
  url,       \* the built URL
  warned,    \* the warnings printed
  tag, output, keys, specs,   \* main's variables; output is None for the default file
  shown,     \* the URL in the banner and in the document's config
  conns,     \* history: the connections opened
  wiped      \* what the first clear removes, None before

vars == <<cli, at, provider, url, warned, tag, output, keys, specs, shown, conns, wiped>>

Init ==
  /\ cli \in CLIs
  /\ at = "provider" /\ provider = FALSE
  /\ url = None /\ warned = {}
  /\ tag = None /\ output = None /\ keys = <<>> /\ specs = <<>> /\ shown = None
  /\ conns = {} /\ wiped = None

Fail == at' = "failed"

-----------------------------------------------------------------------------
InstallProviderForTls ==
  /\ at = "provider" /\ at' = "validate"
  /\ provider' = cli.tls
  /\ UNCHANGED <<cli, url, warned, tag, output, keys, specs, shown, conns, wiped>>

(* tls.rs; an error says that one is installed already.                     *)
InstallProvider ==
  /\ at = "provider" /\ at' = "validate"
  /\ provider' = TRUE
  /\ UNCHANGED <<cli, url, warned, tag, output, keys, specs, shown, conns, wiped>>

Workers == {cli.workers[i] : i \in 1..Len(cli.workers)}

NumbersAcceptedIfAnyWorker ==
  /\ cli.jobs > 0 /\ cli.num_queues > 0 /\ cli.timeout > 0
  /\ cli.idle_poll_duration_s > 0 /\ cli.poll_interval_ms > 0
  /\ \E w \in Workers : w > 0

NumbersAccepted ==
  /\ cli.jobs > 0 /\ cli.num_queues > 0 /\ cli.timeout > 0
  /\ cli.idle_poll_duration_s > 0 /\ cli.poll_interval_ms > 0
  /\ cli.workers # <<>>
  /\ \A w \in Workers : w > 0

(* validate_cli.                                                            *)
Validate ==
  /\ at = "validate"
  /\ \/ ~NumbersAccepted /\ Fail /\ UNCHANGED warned
     \/ /\ NumbersAccepted /\ at' = "url"
        /\ warned' = warned \cup {w \in {"poll_interval", "workers"} :
                                    \/ w = "poll_interval" /\ cli.poll_interval_ms < 10
                                    \/ w = "workers" /\ \E n \in Workers : n > 5000}
  /\ UNCHANGED <<cli, provider, url, tag, output, keys, specs, shown, conns, wiped>>

-----------------------------------------------------------------------------
(* build_redis_url.                                                         *)

Override(given, part) == IF given = None THEN part ELSE given

Scheme == IF cli.tls /\ cli.url.scheme = "redis" THEN "rediss" ELSE cli.url.scheme

(* Without a host a URL refuses a port and a password, an opaque one also a  *)
(* host.                                                                    *)
UrlAccepted ==
  /\ cli.url # Unparsable /\ cli.host # Bad
  /\ cli.url.host = Opaque => cli.host = None
  /\ Override(cli.host, cli.url.host) \in {None, Opaque} => cli.port = None /\ cli.password = None
  /\ cli.insecure => Scheme = "rediss"

DbPathUnlessInUrl ==
  IF cli.url.path # NoPath THEN cli.url.path ELSE Override(cli.db, 13)

DbPath == IF cli.db = None /\ cli.url.path = NoPath THEN 13 ELSE Override(cli.db, cli.url.path)

BuiltUrl ==
  [scheme   |-> Scheme,
   host     |-> Override(cli.host, cli.url.host),
   port     |-> Override(cli.port, cli.url.port),
   password |-> Override(cli.password, cli.url.password),
   path     |-> DbPath,
   fragment |-> IF cli.insecure THEN "insecure" ELSE cli.url.fragment]

(* redact_url.                                                              *)
Redact(u) == [u EXCEPT !.password = IF @ = None THEN None ELSE Stars]

BuildUrl ==
  /\ at = "url"
  /\ \/ ~UrlAccepted /\ Fail /\ UNCHANGED <<url, shown>>
     \/ UrlAccepted /\ at' = "warn" /\ url' = BuiltUrl /\ shown' = Redact(BuiltUrl)
  /\ UNCHANGED <<cli, provider, warned, tag, output, keys, specs, conns, wiped>>

-----------------------------------------------------------------------------
DisablesVerificationAsAsked == cli.insecure

(* url_disables_cert_verification.                                          *)
DisablesVerification == url.scheme = "rediss" /\ url.fragment = "insecure"

(* A path that is no u8 counts as 0.                                        *)
FlushesDbZero == cli.allow_flushdb /\ (url.path \in 0..255 => url.path = 0)

Warn ==
  /\ at = "warn" /\ at' = "output"
  /\ warned' = warned \cup {w \in {"unverified", "flush"} :
                              \/ w = "unverified" /\ DisablesVerification
                              \/ w = "flush" /\ FlushesDbZero}
  /\ UNCHANGED <<cli, provider, url, tag, output, keys, specs, shown, conns, wiped>>

(* validate_output_path: no component is `..'.                              *)
OutputAccepted ==
  cli.output \notin {None, Stdout} => \A i \in 1..Len(cli.output) : cli.output[i] # ".."

CheckOutput ==
  /\ at = "output"
  /\ \/ ~OutputAccepted /\ Fail
     \/ OutputAccepted /\ at' = "tag"
  /\ UNCHANGED <<cli, provider, url, warned, tag, output, keys, specs, shown, conns, wiped>>

-----------------------------------------------------------------------------
(* The redis crate: which URLs it opens, and what connection results.       *)

TlsSchemes == {"rediss", "valkeys"}
TcpSchemes == {"redis", "valkey"} \cup TlsSchemes

(* The path of a unix URL is that of the socket.                            *)
Opens(u) ==
  \/ /\ u.scheme \in TcpSchemes /\ u.host \notin {None, Opaque} /\ u.path # Text
     /\ u.scheme \in TlsSchemes => u.fragment \in {None, "insecure"}
  \/ u.scheme = "unix" /\ u.host = None

Connection(u) ==
  [tls |-> u.scheme \in TlsSchemes,
   verified |-> u.scheme \in TlsSchemes /\ u.fragment # "insecure",
   host |-> u.host, port |-> u.port, password |-> u.password,
   db |-> IF u.scheme = "unix" \/ u.path = NoPath THEN 0 ELSE u.path]

(* A TLS connection without a crypto provider panics in rustls.             *)
Panics == Opens(url) /\ Connection(url).tls /\ ~provider

(* The version lookup and main each open one; it may be refused.            *)
Opened == Opens(url) /\ ~Panics /\ conns' = conns \cup {Connection(url)}

-----------------------------------------------------------------------------
(* sanitize_tag: everything but letters, digits, dots, - and _ becomes a -;  *)
(* an empty tag is "unknown".                                               *)
Sanitize(t) ==
  IF t = <<>> THEN <<"safe">>
  ELSE [i \in 1..Len(t) |-> IF t[i] \in {"slash", "other"} THEN "safe" ELSE t[i]]

(* fetch_tag: the server's version, or "unknown" whatever fails.            *)
FetchTag ==
  \/ Opened /\ \E v \in Versions : tag' = Sanitize(v)
  \/ (Opened \/ (~Panics /\ UNCHANGED conns)) /\ tag' = Sanitize(<<"safe">>)

ChooseTag ==
  /\ at = "tag"
  /\ \/ cli.tag # None /\ at' = "banner" /\ tag' = Sanitize(cli.tag) /\ UNCHANGED conns
     \/ cli.tag = None /\ at' = "banner" /\ FetchTag
     \/ cli.tag = None /\ Panics /\ at' = "panicked" /\ UNCHANGED <<tag, conns>>
  /\ UNCHANGED <<cli, provider, url, warned, output, keys, specs, shown, wiped>>

(* make_queue_names: the base name, or the base name and an index.          *)
QueueNames == IF cli.num_queues <= 1 THEN <<"base">> ELSE [i \in 1..cli.num_queues |-> <<"base", i - 1>>]

(* The output path, the queue keys and the banner, which shows the URL.     *)
Banner ==
  /\ at = "banner" /\ at' = "connect"
  /\ output' = IF cli.output = None THEN [default |-> tag] ELSE [given |-> cli.output]
  /\ keys' = QueueNames
  /\ UNCHANGED <<cli, provider, url, warned, tag, specs, shown, conns, wiped>>

Connect ==
  /\ at = "connect"
  /\ \/ Opened /\ at' = "specs"
     \/ ~Panics /\ Fail /\ UNCHANGED conns
     \/ Panics /\ at' = "panicked" /\ UNCHANGED conns
  /\ UNCHANGED <<cli, provider, url, warned, tag, output, keys, specs, shown, wiped>>

ParseSpecs ==
  /\ at = "specs"
  /\ LET given == cli.latency_percentiles
         ok    == \A i \in 1..Len(given) : Accepted(given[i])
     IN  \/ ~ok /\ Fail /\ UNCHANGED specs
         \/ ok /\ at' = "levels" /\ specs' = given
  /\ UNCHANGED <<cli, provider, url, warned, tag, output, keys, shown, conns, wiped>>

(* The warning about memory (over 100 MB at 250 bytes a job), and the first *)
(* pre_trial_clear, with FLUSHDB or a DEL of every key.                     *)
StartLevels ==
  /\ at = "levels" /\ at' = "touched"
  /\ warned' = warned \cup (IF cli.jobs * 250 > 100 * 1024 * 1024 THEN {"memory"} ELSE {})
  /\ wiped' = IF cli.allow_flushdb THEN [db |-> Connection(url).db] ELSE [keys |-> keys]
  /\ UNCHANGED <<cli, provider, url, tag, output, keys, specs, shown, conns>>

Terminated == at \in {"failed", "panicked", "touched"} /\ UNCHANGED vars

Next ==
  \/ InstallProvider \/ Validate \/ BuildUrl \/ Warn \/ CheckOutput \/ ChooseTag
  \/ Banner \/ Connect \/ ParseSpecs \/ StartLevels \/ Terminated

Spec == Init /\ [][Next]_vars

-----------------------------------------------------------------------------
(* Nothing dangerous happens before its warning is out: no connection, also   *)
(* not the one that looks up the version, skips the verification of the      *)
(* server, whether --insecure or the fragment of --url asks for it (main.rs  *)
(* 180-194, 766-778); and no FLUSHDB runs on db 0, however db 0 was chosen   *)
(* (main.rs 780-792).  The two checks read the scheme rediss and the path;   *)
(* the client also skips the verification for valkeys, and takes no db from  *)
(* the path of a unix URL: nothing is said of those (UnverifiedIsAnnounced). *)
RisksAnnounced ==
  /\ \A c \in conns : c.tls /\ ~c.verified => "unverified" \in warned \/ url.scheme = "valkeys"
  /\ wiped # None /\ cli.allow_flushdb /\ wiped.db = 0 => "flush" \in warned \/ url.scheme = "unix"

(* What the comment at main.rs 766 says: the warning is printed "whenever the *)
(* FINAL built URL will actually skip certificate verification".             *)
UnverifiedIsAnnounced == \A c \in conns : c.tls /\ ~c.verified => "unverified" \in warned

(* Every connection is the one asked for: over TCP its database is that of    *)
(* --db, or else that of --url, or else 13 (main.rs 54-59 and 166-175), and  *)
(* --insecure is never silently without effect (main.rs 147-158), nor is     *)
(* --tls but for the valkey and unix URLs it does not upgrade (143).         *)
ConnectionAsAsked ==
  \A c \in conns :
    /\ url.scheme \in TcpSchemes =>
         c.db = IF cli.db # None THEN cli.db
                ELSE IF cli.url.path # NoPath THEN cli.url.path ELSE 13
    /\ cli.tls /\ cli.url.scheme \notin {"valkey", "unix"} => c.tls
    /\ cli.insecure => c.tls /\ ~c.verified

(* A TLS connection never panics for want of a provider (tls.rs), also when   *)
(* --url alone asks for TLS.                                                *)
NoPanic == at # "panicked"

(* Nothing in Redis is touched before every argument was accepted: then the  *)
(* assumptions of Benchmark, Producer, PollWorker, IdlePoll and Sampler hold, *)
(* the queue keys are distinct, the specs are valid, and the document will be *)
(* in the working directory, whatever the tag or the server's version line   *)
(* holds, or below the path that was given (main.rs 210-239, 803-806).       *)
AcceptedBeforeTouched ==
  wiped # None =>
    /\ cli.jobs > 0 /\ cli.timeout > 0 /\ cli.poll_interval_ms > 0 /\ cli.idle_poll_duration_s > 0
    /\ cli.workers \in Seq(Nat \ {0}) /\ cli.workers # <<>>
    /\ Len(keys) = cli.num_queues /\ keys # <<>>
    /\ \A i, j \in 1..Len(keys) : i # j => keys[i] # keys[j]
    /\ IF cli.output = None THEN \A i \in 1..Len(tag) : tag[i] # "slash" ELSE OutputAccepted
    /\ \A i \in 1..Len(specs) : Accepted(specs[i])

(* Digits read as a decimal fraction: the longer is padded with zeros.       *)
Digit(chars, i) == IF i <= Len(chars) THEN chars[i] ELSE 0
Precedes(a, b) ==
  \E k \in 1..(Len(a) + Len(b)) :
     /\ \A i \in 1..(k - 1) : Digit(a, i) = Digit(b, i)
     /\ Digit(a, k) < Digit(b, k)

(* Of two accepted specs the one whose digits come first as a decimal fraction *)
(* has the smaller quantile, however many digits they have: no power of ten  *)
(* wraps (main.rs 279-291).                                                 *)
QuantilesInOrder ==
  LET P == {specs[i] : i \in {k \in 1..Len(specs) : specs[k].kind = "p"}}
  IN  \A s, t \in {p \in P : Head(p.chars) # Plus} :
         Precedes(s.chars, t.chars) =>
           Quantile(s)[1] * Quantile(t)[2] < Quantile(t)[1] * Quantile(s)[2]
=============================================================================
