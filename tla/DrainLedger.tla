----------------------------- MODULE DrainLedger -----------------------------
(***************************************************************************)
(* What one drain trial promises about each payload and about its report:  *)
(* a payload is taken from Redis once and finished once; the trial ends    *)
(* `drained' only after Target payloads were finished; and the report      *)
(* counts every finished payload because nothing finishes after it.        *)
(* Module DrainTrial shows that the workers and the orchestrator of        *)
(* run_drain_trial implement this.                                         *)
(***************************************************************************)
EXTENDS Integers, FiniteSets

CONSTANTS Jobs, Foreign, Target, None

VARIABLES
  fate,     \* where each payload is
  verdict,  \* how the trial ended
  report    \* what the trial returned, or None

ledgerVars == <<fate, verdict, report>>

With(state) == {p \in Jobs \cup Foreign : fate[p] = state}

Init ==
  /\ fate = [p \in Jobs \cup Foreign |-> IF p \in Jobs THEN "queued" ELSE "absent"]
  /\ verdict = "open"
  /\ report = None

Move(p, from, to) ==
  /\ fate[p] = from
  /\ fate' = [fate EXCEPT ![p] = to]
  /\ UNCHANGED <<verdict, report>>

Push(p) == p \in Foreign /\ Move(p, "absent", "queued")

Take(p) == verdict # "failed" /\ Move(p, "queued", "held")

Finish(p) == report = None /\ Move(p, "held", "finished")

(* Redis gave the payload up and nobody will see it.                        *)
Lose(p) == Move(p, "held", "lost") \/ Move(p, "queued", "lost")

Decide(v) ==
  /\ verdict = "open"
  /\ v = "drained" => Cardinality(With("finished")) >= Target
  /\ verdict' = v
  /\ UNCHANGED <<fate, report>>

Report ==
  /\ verdict \in {"drained", "timed_out"}
  /\ report = None
  /\ With("held") = {}
  /\ report' = [total_jobs |-> Cardinality(With("finished")),
                timed_out |-> verdict = "timed_out"]
  /\ UNCHANGED <<fate, verdict>>

Next ==
  \/ \E p \in Jobs \cup Foreign : Push(p) \/ Take(p) \/ Finish(p) \/ Lose(p)
  \/ \E v \in {"drained", "timed_out", "failed"} : Decide(v)
  \/ Report

Spec == Init /\ [][Next]_ledgerVars
=============================================================================
