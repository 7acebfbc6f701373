---------------------------- MODULE Disposition ----------------------------
(* The one retry decision of the pipeline (tribal-domain, disposition.rs).  *)
(* Both the worker's inline failure path and the reclaim sweep consult it,  *)
(* so every budget of a driving task is spent here and nowhere else.        *)
EXTENDS Naturals

CONSTANTS
    MaxRetries,   \* task_max_retries: consecutive failures a row survives
    RecoveryCap   \* recovery_cap_for_thread: 2 for a loop, 0 for a one-shot

ASSUME BudgetAssumption == MaxRetries \in Nat /\ RecoveryCap \in Nat

\* RETRY_COUNT_AFTER_PROGRESS: both reset rules return the counter here.
AfterProgress == 0

\* What an attempt ended in: its thread completed or failed for good, or
\* the attempt failed in a way that may be tried again.
TurnOutcome == {"completed", "terminal", "retryable"}

Disposition(k, n, c) == [kind |-> k, retry |-> n, recovery |-> c]

DispositionKinds ==
    {"complete", "dead_letter", "requeue", "recovery_cycle", "exhaust"}

\* The mutated rule of an off-by-one in the retry comparison: the budget is
\* compared before the failure is counted.
DecideOffByOne(outcome, retry, recovery) ==
    IF outcome = "retryable" /\ retry <= MaxRetries
        THEN Disposition("requeue", retry + 1, recovery)
        ELSE Disposition("exhaust", retry, recovery)

\* A retryable failure first spends the consecutive-failure budget, then a
\* recovery cycle with that counter reset, then nothing is left.
decide_disposition(outcome, retry, recovery) ==
    CASE outcome = "completed" -> Disposition("complete", retry, recovery)
      [] outcome = "terminal"  -> Disposition("dead_letter", retry, recovery)
      [] outcome = "retryable" ->
            IF retry + 1 <= MaxRetries
                THEN Disposition("requeue", retry + 1, recovery)
            ELSE IF recovery + 1 <= RecoveryCap
                THEN Disposition("recovery_cycle", AfterProgress, recovery + 1)
            ELSE Disposition("exhaust", retry, recovery)
=============================================================================
