---------------------------- MODULE JobLifecycle ----------------------------
(* What a client that polls or watches one ingest job may observe: stages   *)
(* in order, one outcome, nothing after it.  IngestPipeline implements it.  *)

VARIABLES stage, outcome

vars == <<stage, outcome>>

Settled == stage \in {"completed", "failed"}

\* An admitted job.
Init == stage = "queued" /\ outcome = "none"

\* The job moves to a later stage.  A client may miss "extracting", whose
\* write is best effort, and never "triaging" or "relating" of a job that
\* has a batch.
Advance ==
    /\ <<stage, stage'>> \in {<<"queued", "extracting">>,
                              <<"queued", "triaging">>,
                              <<"extracting", "triaging">>,
                              <<"triaging", "relating">>}
    /\ UNCHANGED outcome

\* The job completes: empty when extraction found nothing, otherwise from
\* the relation stage with the outcome of its triage results.
Complete ==
    /\ stage' = "completed"
    /\ \/ stage \in {"queued", "extracting"} /\ outcome' = "empty"
       \/ stage = "relating" /\ outcome' \in {"success", "partial", "empty"}

\* The job fails with its extraction or its relation task; a candidate that
\* cannot be triaged never fails the job.
Fail ==
    /\ stage \in {"queued", "extracting", "relating"}
    /\ stage' = "failed" /\ outcome' = "failure"

Next == Advance \/ Complete \/ Fail

Spec == Init /\ [][Next]_vars
=============================================================================
