------------------------------ MODULE MCStartup ------------------------------
(* Instances of Startup for TLC: the defaults, varied in a few options at a  *)
(* time.                                                                    *)
EXTENDS Startup

Url(scheme, host, password, path, fragment) ==
  [scheme |-> scheme, host |-> host, port |-> None, password |-> password, path |-> path,
   fragment |-> fragment]

Defaults ==
  [url |-> Url("redis", "local", None, 13, None), host |-> None, port |-> None, password |-> None,
   tls |-> FALSE, insecure |-> FALSE, db |-> None, allow_flushdb |-> FALSE,
   workers |-> <<1, 2>>, jobs |-> 2, num_queues |-> 1, timeout |-> 1,
   idle_poll_duration_s |-> 1, poll_interval_ms |-> 10,
   latency_percentiles |-> <<[kind |-> "max"]>>, tag |-> <<"safe">>, output |-> None]

Urls == {Url(s, "local", p, n, f) :
           s \in {"redis", "rediss", "valkey", "valkeys", "http"}, p \in {None, Secret},
           n \in {NoPath, Text, 0, 5, 300}, f \in {None, "insecure", "other"}}

Sockets == {Url("unix", None, None, n, None) : n \in {NoPath, Text}}

ConnectionLines ==
  {[Defaults EXCEPT !.url = u, !.tls = t, !.insecure = i, !.db = d, !.allow_flushdb = a, !.password = p,
                    !.tag = None] :
     u \in Urls \cup Sockets, t \in BOOLEAN, i \in BOOLEAN, d \in {None, 0, 7}, a \in BOOLEAN,
     p \in {None, Secret}}

HostLines ==
  {[Defaults EXCEPT !.url = u, !.host = h, !.port = n, !.password = p] :
     u \in {Unparsable, Url("redis", "local", None, 0, None)} \cup Sockets
           \cup {Url("redis", h, None, Text, None) : h \in {None, Opaque}},
     h \in {None, Bad, "other"}, n \in {None, 6380}, p \in {None, Secret}}

NumberLines ==
  {[Defaults EXCEPT !.workers = w, !.jobs = j, !.num_queues = q, !.timeout = t,
                    !.idle_poll_duration_s = d, !.poll_interval_ms = i] :
     w \in {<<>>, <<0>>, <<1, 0>>, <<1, 6000>>}, j \in {0, 1, 500000}, q \in {0, 1, 3},
     t \in {0, 1}, d \in {0, 1}, i \in {0, 5}}

OutputLines ==
  {[Defaults EXCEPT !.output = o, !.tag = t] :
     o \in {None, Stdout, <<"dir", "file">>, <<"..", "file">>, <<"dir", "..", "file">>},
     t \in {None, <<>>, <<"dot", "dot", "slash", "other">>}}

Digits == {[kind |-> "p", chars |-> c] :
             c \in {<<>>, <<0>>, <<1>>, <<5>>, <<9>>, <<9, 9>>, <<1, 0, 0>>, <<9, 9, 9>>, <<Plus>>, <<Plus, 5>>,
                    <<5, Letter>>, <<1, 0, 0, 0, 0>>, <<1, 0, 0, 0>>, <<9, 9, 9, 9, 9>>}}

SpecLines ==
  {[Defaults EXCEPT !.latency_percentiles = <<s, t>>] :
     s \in Digits \cup {[kind |-> "mean"], [kind |-> "other"]}, t \in Digits \cup {[kind |-> "max"]}}

CommandLines == ConnectionLines \cup HostLines \cup NumberLines \cup OutputLines \cup SpecLines

SomeVersions == {<<"safe", "dot", "safe">>, <<"dot", "dot", "slash">>}
=============================================================================
