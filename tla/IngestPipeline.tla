--------------------------- MODULE IngestPipeline ---------------------------
(* One ingest job on the worker fleet of tribal-worker: its extraction task, *)
(* the triage tasks extraction fans out, and the relation task triage fans   *)
(* in to, each driven through an agent thread by whichever worker holds its  *)
(* claim.  Rows live in Postgres; every action is one statement or one       *)
(* transaction of the code, except the transactions that end a triage task,  *)
(* which are open between their sibling count and their commit: under READ   *)
(* COMMITTED that count does not see a sibling that ends meanwhile.          *)
EXTENDS Disposition, FiniteSets

CONSTANTS
    Workers,         \* dispatch slots of all the worker processes
    Ext, Rel,        \* the extraction and the relation task of the job
    Triage,          \* the candidates extraction may find, as triage tasks
    None,            \* no claim token, no task, no transaction owner
    MaxTurns,        \* turn boundaries a thread may pass (turn cap, rechecks)
    MaxFaults,       \* crashes, stalls of a live attempt, failed commits
    Cancellable,     \* tasks whose threads an operator may cancel
    LateStatusWrite  \* may a worker that lost its lease still reach its
                     \* best-effort job status write?

Tasks == Triage \cup {Ext, Rel}

ASSUME PipelineAssumption ==
    /\ Ext # Rel /\ Ext \notin Triage /\ Rel \notin Triage
    /\ None \notin Workers /\ None \notin Tasks
    /\ MaxTurns \in Nat /\ MaxFaults \in Nat
    /\ Cancellable \subseteq Tasks
    /\ LateStatusWrite \in BOOLEAN

VARIABLES
    job,      \* the jobs row: status, outcome, sealed (committed_batch_id set)
    task,     \* the tasks rows: status, claim token, retry_count, and whether
              \* heartbeat_at is older than the task timeout
    thread,   \* the agent_threads rows: status, cancel intent,
              \* recovery_attempts, the armed wake, turn boundaries passed
    att,      \* the attempt in each dispatch slot: program point, task, the
              \* job status it read, the retry_count its claim returned, and
              \* the outcome a relation attempt derived from triage_results
    txn,      \* the open transaction ending each triage task
    results,  \* triage_results
    commits,  \* history: committed domain effects per task
    healing,  \* the healing sweeps' business with the job: "listed" among
              \* the stuck jobs of one; "owed" a heal by the pass that
              \* dead-lettered a row; "forgone", history: that heal was lost
    faults    \* history: faults so far, bounded by MaxFaults

vars == <<job, task, thread, att, txn, results, commits, healing, faults>>

JobTerminal == {"completed", "failed"}
JobStatus == {"queued", "extracting", "triaging", "relating"} \cup JobTerminal
JobOutcome == {"none", "success", "partial", "empty", "failure"}

TaskTerminal == {"completed", "dead_letter"}
TaskLive == {"queued", "claimed", "blocked"}
TaskStatus == {"absent"} \cup TaskLive \cup TaskTerminal

ThreadTerminal == {"completed", "failed", "cancelled", "dead_letter"}
ThreadLive == {"queued", "running", "suspended"}
ThreadStatus == {"absent"} \cup ThreadLive \cup ThreadTerminal

\* "claimed" and "loaded" precede the heartbeat; "disposing" has seen a
\* cancellation intent; "ending" waits for the transaction ending its triage
\* task; "failing" has only its failure left to persist.
Points == {"idle", "claimed", "loaded", "ready", "running", "disposing",
           "ending", "failing"}

TriageResult == {"none", "created", "duplicate"}

Row == [status : TaskStatus, token : Workers \cup {None},
        retry : 0..(MaxRetries + 1), lapsed : BOOLEAN]

ThreadRow == [status : ThreadStatus, intent : BOOLEAN,
              recovery : 0..RecoveryCap, wake : {"none", "timer", "child"},
              turns : 0..MaxTurns]

Attempt == [pc : Points, task : Tasks \cup {None},
            seen : JobStatus \cup {"none"}, retry : 0..MaxRetries,
            plan : JobOutcome]

Txn == [open : BOOLEAN, row : Row, thread : ThreadStatus, last : BOOLEAN,
        by : Workers \cup {None}, result : TriageResult]

NoRow == [status |-> "absent", token |-> None, retry |-> 0, lapsed |-> FALSE]

\* A row as inserted: claimable at once.
NewTask == [NoRow EXCEPT !.status = "queued"]

NoThread == [status |-> "absent", intent |-> FALSE, recovery |-> 0,
             wake |-> "none", turns |-> 0]

Idle == [pc |-> "idle", task |-> None, seen |-> "none", retry |-> 0,
         plan |-> "none"]

HealWork == {"listed", "owed", "forgone"}

NoTxn == [open |-> FALSE, row |-> NoRow, thread |-> "absent",
          last |-> FALSE, by |-> None, result |-> "none"]

-----------------------------------------------------------------------------
(* The repositories: what one statement does to a row.                      *)

\* complete, block, requeue_claimed, reclaim_requeue, dead_letter_claimed
\* and dead_letter_unclaimed differ in the status and the retry_count they
\* leave; all of them give the claim up.
Release(r, s, n) ==
    [r EXCEPT !.status = s, !.token = None, !.retry = n, !.lapsed = FALSE]

\* fail and reclaim_stale: the legacy CASE for a row with no thread.
FailRow(r) ==
    Release(r, IF r.retry + 1 > MaxRetries THEN "dead_letter" ELSE "queued",
            r.retry + 1)

\* The mutated guard of a status update that forgets the terminal states.
UpdateStatusAlways(s, o) == [job EXCEPT !.status = s, !.outcome = o]

\* update_status_if_live: a terminal job is left as it is.
UpdateStatusIfLive(s, o) ==
    IF job.status \in JobTerminal
        THEN job
        ELSE [job EXCEPT !.status = s, !.outcome = o]

\* upsert of the singleton relation task: an existing row wins.
UpsertRelation(rows) ==
    IF rows[Rel].status = "absent"
        THEN [rows EXCEPT ![Rel] = NewTask]
        ELSE rows

\* The mutated thread end that leaves the wake armed.
EndKeepingWake(r, s) == [r EXCEPT !.status = s]

\* AgentThreadRepository::complete, which also disarms the wake.
EndThread(r, s) == [r EXCEPT !.status = s, !.wake = "none"]

\* AgentThreadRepository::suspend arms the wake; a turn boundary is passed.
SuspendThread(r, wake) ==
    [r EXCEPT !.status = "suspended", !.wake = wake, !.turns = @ + 1]

\* AgentThreadRepository::mark_running, which disarms the wake.
ResumeThread(r) == [r EXCEPT !.status = "running", !.wake = "none"]

\* Row t is locked by the transaction that is ending it.
Locked(t) == t \in Triage /\ txn[t].open

\* The mutated lease check that trusts the worker's memory of its claim.
HoldsAnyClaim(w) == att[w].task \in Tasks

\* The claim token of w's attempt still stands on its row: the guard of
\* holds_claim and of every claim-guarded update.
HoldsClaim(w) ==
    /\ att[w].task \in Tasks
    /\ task[att[w].task].token = w
    /\ ~Locked(att[w].task)

\* The mutated sibling count that forgets blocked rows.
NoClaimableSiblings(t) ==
    \A s \in Triage \ {t} : task[s].status \notin {"queued", "claimed"}

\* count_live_siblings = 0: a blocked sibling counts as live.
NoLiveSiblings(t) == \A s \in Triage \ {t} : task[s].status \notin TaskLive

-----------------------------------------------------------------------------
(* The coupling seam: how the end of a task reaches its job.                *)

\* The transaction ending triage task t, up to and including the sibling
\* count of triage_fan_in; by is the attempt running it, None for a sweep.
BeginTriageEnd(t, row, th, by, result) ==
    /\ txn' = [txn EXCEPT ![t] =
                [open |-> TRUE, row |-> row, thread |-> th,
                 last |-> NoLiveSiblings(t), by |-> by, result |-> result]]
    /\ att' = [w \in Workers |->
                IF w = by THEN [att[w] EXCEPT !.pc = "ending"] ELSE att[w]]
    /\ UNCHANGED <<job, task, thread>>

\* couple_dead_lettered_task for extraction and relation: the job fails.
CoupleSingleton == UpdateStatusIfLive("failed", "failure")

\* Task t ends dead-lettered with row, its thread in th, and its job couples.
DeadLetter(t, row, th, by) ==
    \/ t \in Triage /\ BeginTriageEnd(t, row, th, by, "none")
    \/ /\ t \in {Ext, Rel}
       /\ task' = [task EXCEPT ![t] = row]
       /\ thread' = [thread EXCEPT ![t] = EndThread(@, th)]
       /\ job' = CoupleSingleton
       /\ att' = [w \in Workers |-> IF w = by THEN Idle ELSE att[w]]
       /\ UNCHANGED txn

DeadRow(t) == Release(task[t], "dead_letter", task[t].retry)

-----------------------------------------------------------------------------
(* The dispatch path of one attempt.                                        *)

StageStatus(t) ==
    CASE t = Ext -> "extracting" [] t = Rel -> "relating" [] OTHER -> "triaging"

\* claim: FOR UPDATE SKIP LOCKED, a fresh token, a fresh heartbeat.
Claim(w, t) ==
    /\ att[w].pc = "idle"
    /\ task[t].status = "queued" /\ ~Locked(t)
    /\ task' = [task EXCEPT ![t] =
                    [@ EXCEPT !.status = "claimed", !.token = w,
                              !.lapsed = FALSE]]
    /\ att' = [att EXCEPT ![w] = [Idle EXCEPT !.pc = "claimed", !.task = t,
                                              !.retry = task[t].retry]]
    /\ UNCHANGED <<job, thread, txn, results, commits, healing, faults>>

\* run_task_inner reads the job ...
LoadJob(w) ==
    /\ att[w].pc = "claimed"
    /\ att' = [att EXCEPT ![w] = [@ EXCEPT !.pc = "loaded", !.seen = job.status]]
    /\ UNCHANGED <<job, task, thread, txn, results, commits, healing, faults>>

\* ... and, if that status differs from its stage's, writes it outside any
\* transaction and without its claim token.  The write may fail silently.
WriteStatus(w) ==
    /\ att[w].pc = "loaded"
    /\ HoldsClaim(w) \/ LateStatusWrite
    /\ LET target == StageStatus(att[w].task) IN
         job' \in {job} \cup IF att[w].seen # target
                                THEN {UpdateStatusIfLive(target, "none")}
                                ELSE {}
    /\ att' = [att EXCEPT ![w] = [@ EXCEPT !.pc = "ready", !.seen = "none"]]
    /\ UNCHANGED <<task, thread, txn, results, commits, healing, faults>>

\* create_stage_thread: the first claim of a task creates its thread.
CreateThread(w) ==
    /\ att[w].pc = "ready" /\ HoldsClaim(w)
    /\ thread[att[w].task].status = "absent"
    /\ thread' = [thread EXCEPT ![att[w].task].status = "queued"]
    /\ UNCHANGED <<job, task, att, txn, results, commits, healing, faults>>

\* compute_outcome over the triage_results and the batch size.
ComputeOutcome ==
    LET created == {t \in Triage : results[t] = "created"}
        dead == {t \in Triage : task[t].status # "absent" /\ results[t] = "none"}
    IN  IF created = {} THEN "empty"
        ELSE IF dead = {} THEN "success" ELSE "partial"

\* The mutated stage start that takes every verdict for a created belief.
StartStageCountingVerdicts(w) ==
    att' = [att EXCEPT ![w] = [@ EXCEPT
        !.pc = IF thread[att[w].task].intent THEN "disposing" ELSE "running",
        !.plan =
            IF \A t \in Triage : results[t] = "none" THEN "empty" ELSE "success"]]

\* The stage starts on the thread it read, or goes to dispose of a task
\* whose thread carries an intent.  A relation stage reads the triage
\* results here, long before it commits what it derived from them.
StartStage(w) ==
    att' = [att EXCEPT ![w] = [@ EXCEPT
        !.pc = IF thread[att[w].task].intent THEN "disposing" ELSE "running",
        !.plan = IF att[w].task = Rel THEN ComputeOutcome ELSE "none"]]

\* mark_running_guarded.
MarkRunning(w) ==
    /\ att[w].pc = "ready" /\ HoldsClaim(w)
    /\ thread[att[w].task].status = "queued"
    /\ thread' = [thread EXCEPT ![att[w].task].status = "running"]
    /\ StartStage(w)
    /\ UNCHANGED <<job, task, txn, results, commits, healing, faults>>

\* ensure_stage_thread on a thread that is past queued checks no lease.
Adopt(w) ==
    /\ att[w].pc = "ready"
    /\ thread[att[w].task].status \notin {"absent", "queued"}
    /\ StartStage(w)
    /\ UNCHANGED <<job, task, thread, txn, results, commits, healing, faults>>

\* A committed turn resets the row's retry_count (reset_progress); the
\* attempt keeps the count its claim returned.
Progress(w) ==
    /\ att[w].pc = "running" /\ HoldsClaim(w)
    /\ thread[att[w].task].turns < MaxTurns
    /\ task' = [task EXCEPT ![att[w].task].retry = AfterProgress]
    /\ thread' = [thread EXCEPT ![att[w].task].turns = @ + 1]
    /\ UNCHANGED <<job, att, txn, results, commits, healing, faults>>

\* suspend_stage_thread: the row blocks and the thread suspends together, on
\* a timer (token budget) or on a verifier child (triage and relation).  An
\* intent that got there first rolls the suspension back.
Suspend(w, wake) ==
    LET t == att[w].task IN
    /\ att[w].pc = "running" /\ HoldsClaim(w)
    /\ thread[t].status = "running" /\ thread[t].turns < MaxTurns
    /\ wake = "child" => t # Ext
    /\ \/ /\ thread[t].intent
          /\ att' = [att EXCEPT ![w].pc = "disposing"]
          /\ UNCHANGED <<task, thread>>
       \/ /\ ~thread[t].intent
          /\ task' = [task EXCEPT ![t] = Release(@, "blocked", @.retry)]
          /\ thread' = [thread EXCEPT ![t] = SuspendThread(@, wake)]
          /\ att' = [att EXCEPT ![w] = Idle]
    /\ UNCHANGED <<job, txn, results, commits, healing, faults>>

\* dispose_for_thread_state on a pending intent, at the claim or at a later
\* turn boundary: cancel_at_claim ends task and thread and couples the job.
\* Its other arms need a claimed row whose thread is suspended or terminal,
\* which PairedLifecycle excludes.
Dispose(w) ==
    LET t == att[w].task IN
    /\ att[w].pc \in {"disposing", "running"} /\ HoldsClaim(w)
    /\ thread[t].intent
    /\ DeadLetter(t, DeadRow(t), "cancelled", w)
    /\ UNCHANGED <<results, commits, healing, faults>>

\* What a stage's commit does to its row and its thread (complete and
\* finish_thread, whose status CAS is from running).
Committing(w, t) ==
    /\ att[w].pc = "running" /\ att[w].task = t /\ HoldsClaim(w)
    /\ thread[t].status = "running"

CompletedRow(t) == Release(task[t], "completed", task[t].retry)

\* commit_extraction: one triage task per candidate of S, or an empty job.
CommitExtraction(w, S) ==
    /\ Committing(w, Ext)
    /\ task' = [t \in Tasks |-> CASE t = Ext -> CompletedRow(Ext)
                                  [] t \in S -> NewTask
                                  [] OTHER   -> task[t]]
    /\ thread' = [thread EXCEPT ![Ext] = EndThread(@, "completed")]
    /\ job' = IF S = {} THEN UpdateStatusIfLive("completed", "empty")
                        ELSE UpdateStatusIfLive("triaging", "none")
    /\ commits' = [commits EXCEPT ![Ext] = @ + 1]
    /\ att' = [att EXCEPT ![w] = Idle]
    /\ UNCHANGED <<txn, results, healing, faults>>

\* commit_triage up to the fan-in count of finalise_triage_commit.
CommitTriage(w, t, r) ==
    /\ Committing(w, t)
    /\ BeginTriageEnd(t, CompletedRow(t), "completed", w, r)
    /\ UNCHANGED <<results, commits, healing, faults>>

\* commit_relation_relate: the batch seal decides whether the job moves.
CommitRelation(w) ==
    /\ Committing(w, Rel)
    /\ task' = [task EXCEPT ![Rel] = CompletedRow(Rel)]
    /\ thread' = [thread EXCEPT ![Rel] = EndThread(@, "completed")]
    /\ job' = IF job.sealed THEN job
              ELSE [UpdateStatusIfLive("completed", att[w].plan)
                        EXCEPT !.sealed = TRUE]
    /\ commits' = [commits EXCEPT ![Rel] = @ + IF job.sealed THEN 0 ELSE 1]
    /\ att' = [att EXCEPT ![w] = Idle]
    /\ UNCHANGED <<txn, results, healing, faults>>

\* apply_inline_disposition with the counters persist_failure assembled:
\* retry_count from the claim, recovery_attempts from the row.
ApplyDisposition(w, t, d, terminal) ==
    \/ /\ d.kind \in {"requeue", "recovery_cycle"}
       /\ task' = [task EXCEPT ![t] = Release(@, "queued", d.retry)]
       /\ thread' = [thread EXCEPT ![t].recovery = d.recovery]
       /\ att' = [att EXCEPT ![w] = Idle]
       /\ UNCHANGED <<job, txn>>
    \/ /\ d.kind \in {"dead_letter", "exhaust"}
       /\ DeadLetter(t, DeadRow(t), terminal, w)

\* persist_failure for a task with no thread yet: fail, whatever the error.
FailUnthreaded(w, t) ==
    LET row == FailRow(task[t]) IN
    \/ /\ row.status = "queued"
       /\ task' = [task EXCEPT ![t] = row]
       /\ att' = [att EXCEPT ![w] = Idle]
       /\ UNCHANGED <<job, thread, txn>>
    \/ /\ row.status = "dead_letter"
       /\ DeadLetter(t, row, "absent", w)

\* handle_stage_failure.  A terminal error (budget, binding divergence) is
\* raised past the establishment of the thread only.
Fail(w, outcome) ==
    LET t == att[w].task IN
    /\ att[w].pc \notin {"idle", "loaded", "ending"} /\ HoldsClaim(w)
    /\ outcome = "terminal" => att[w].pc = "running"
    /\ IF thread[t].status = "absent"
         THEN FailUnthreaded(w, t)
         ELSE ApplyDisposition(w, t,
                decide_disposition(outcome, att[w].retry, thread[t].recovery),
                IF outcome = "terminal" THEN "failed" ELSE "dead_letter")
    /\ UNCHANGED <<results, commits, healing, faults>>

\* A claim-guarded write or a heartbeat found another token: the attempt
\* ends with nothing written.
Abandon(w) ==
    /\ att[w].pc # "idle"
    /\ task[att[w].task].token # w /\ ~Locked(att[w].task)
    /\ att' = [att EXCEPT ![w] = Idle]
    /\ UNCHANGED <<job, task, thread, txn, results, commits, healing, faults>>

-----------------------------------------------------------------------------
(* The end of a triage task's transaction.                                  *)

\* The commit publishes the row, the thread's terminal status and the
\* result; the transaction that counted no live sibling also upserts the
\* relation task and moves the job.
CommitTxn(t) ==
    LET x == txn[t]
        rows == [task EXCEPT ![t] = x.row]
    IN
    /\ x.open
    /\ task' = IF x.last THEN UpsertRelation(rows) ELSE rows
    /\ job' = IF x.last THEN UpdateStatusIfLive("relating", "none") ELSE job
    /\ thread' = [thread EXCEPT ![t] = EndThread(@, x.thread)]
    /\ results' = [results EXCEPT ![t] = x.result]
    /\ commits' = [commits EXCEPT
                    ![t] = @ + IF x.result = "none" THEN 0 ELSE 1]
    /\ att' = [w \in Workers |-> IF w = x.by THEN Idle ELSE att[w]]
    /\ txn' = [txn EXCEPT ![t] = NoTxn]
    /\ UNCHANGED <<healing, faults>>

\* The database refuses the commit.  A failed stage commit or disposal is a
\* stage failure; a failure that cannot be persisted is only logged.
AbortTxn(t) ==
    LET x == txn[t] IN
    /\ x.open /\ faults < MaxFaults
    /\ faults' = faults + 1
    /\ txn' = [txn EXCEPT ![t] = NoTxn]
    /\ att' = [w \in Workers |->
                IF w # x.by THEN att[w]
                ELSE IF x.thread \in {"completed", "cancelled"}
                    THEN [att[w] EXCEPT !.pc = "failing"]
                ELSE Idle]
    /\ UNCHANGED <<job, task, thread, results, commits, healing>>

-----------------------------------------------------------------------------
(* Leases: heartbeat, staleness, crash and reclaim.                         *)

\* The attempt that holds row t's claim is still running.
Driven(t) == \E w \in Workers : att[w].task = t /\ task[t].token = w

Heartbeat(w) ==
    /\ att[w].pc \in {"ready", "running", "disposing", "failing"}
    /\ HoldsClaim(w) /\ task[att[w].task].lapsed
    /\ task' = [task EXCEPT ![att[w].task].lapsed = FALSE]
    /\ UNCHANGED <<job, thread, att, txn, results, commits, healing, faults>>

\* A claimed row's heartbeat falls behind the task timeout: always, when its
\* attempt is gone; as a fault, when its attempt is merely stalled.
Lapse(t) ==
    /\ task[t].status = "claimed" /\ ~task[t].lapsed /\ ~Locked(t)
    /\ Driven(t) => faults < MaxFaults
    /\ faults' = faults + IF Driven(t) THEN 1 ELSE 0
    /\ task' = [task EXCEPT ![t].lapsed = TRUE]
    /\ UNCHANGED <<job, thread, att, txn, results, commits, healing>>

\* The process dies or shuts down mid-task: its attempt is forgotten, its
\* open transaction rolls back, its claim stays on the row.
Crash(w) ==
    /\ att[w].pc # "idle" /\ faults < MaxFaults
    /\ faults' = faults + 1
    /\ att' = [att EXCEPT ![w] = Idle]
    /\ txn' = [t \in Triage |-> IF txn[t].by = w THEN NoTxn ELSE txn[t]]
    /\ UNCHANGED <<job, task, thread, results, commits, healing>>

\* run_thread_aware_reclaim on one stale row, with the row's own counters.
ReclaimThreadDriving(t) ==
    LET d == decide_disposition("retryable", task[t].retry, thread[t].recovery)
    IN
    /\ task[t].status = "claimed" /\ task[t].lapsed /\ ~Locked(t)
    /\ thread[t].status # "absent"
    /\ \/ /\ d.kind \in {"requeue", "recovery_cycle"}
          /\ task' = [task EXCEPT ![t] = Release(@, "queued", d.retry)]
          /\ thread' = [thread EXCEPT ![t].recovery = d.recovery]
          /\ UNCHANGED <<job, att, txn>>
       \/ /\ d.kind = "exhaust"
          /\ DeadLetter(t, DeadRow(t), "dead_letter", None)
    /\ UNCHANGED <<results, commits, healing, faults>>

\* The mutated bulk pass after which no job is healed.
ReclaimBulkUnhealed(t) ==
    /\ task[t].status = "claimed" /\ task[t].lapsed /\ ~Locked(t)
    /\ thread[t].status = "absent"
    /\ task' = [task EXCEPT ![t] = FailRow(@)]
    /\ UNCHANGED <<job, thread, att, txn, results, commits, healing, faults>>

\* reclaim_stale: the bulk pass over rows with no thread couples nothing;
\* having dead-lettered a row, its process is to heal the jobs next.
ReclaimBulk(t) ==
    LET row == FailRow(task[t]) IN
    /\ task[t].status = "claimed" /\ task[t].lapsed /\ ~Locked(t)
    /\ thread[t].status = "absent"
    /\ task' = [task EXCEPT ![t] = row]
    /\ healing' = IF row.status = "dead_letter"
                    THEN (healing \ {"forgone"}) \cup {"owed"} ELSE healing
    /\ UNCHANGED <<job, thread, att, txn, results, commits, faults>>

-----------------------------------------------------------------------------
(* The healing and availability sweeps.                                     *)

\* The mutated query that lets any dead-lettered task fail its job.
AnyDeadLettered == \E t \in Tasks : task[t].status = "dead_letter"

\* The jobs fail_stale_dead_lettered_jobs is about.
DeadLettered == \E t \in {Ext, Rel} : task[t].status = "dead_letter"

fail_stale_dead_lettered_jobs ==
    IF DeadLettered THEN UpdateStatusIfLive("failed", "failure") ELSE job

\* heal_dead_lettered_jobs in the reclaim loop: once after a bulk pass that
\* dead-lettered a row, by the process that ran the pass ...
HealDeadLettered ==
    /\ "owed" \in healing
    /\ job' = fail_stale_dead_lettered_jobs
    /\ healing' = healing \ {"owed"}
    /\ UNCHANGED <<task, thread, att, txn, results, commits, faults>>

\* ... unless that process dies between the two, or its pool or query fails,
\* which is only logged.  The next pass finds no row of this job to
\* dead-letter, so none comes back to it on the job's own account.
HealForgone ==
    /\ "owed" \in healing
    /\ healing' = (healing \ {"owed"}) \cup {"forgone"}
    /\ UNCHANGED <<job, task, thread, att, txn, results, commits, faults>>

\* startup_reclaim: a worker process that starts heals whatever it finds, and
\* so does the heal after another job's bulk dead-letter, which this model of
\* one job sees only here.  One that finds nothing, or fails, changes nothing.
HealAtStart ==
    /\ DeadLettered /\ job.status \notin JobTerminal
    /\ job' = fail_stale_dead_lettered_jobs
    /\ healing' = healing \ {"forgone"}
    /\ UNCHANGED <<task, thread, att, txn, results, commits, faults>>

TriageTasks == {t \in Triage : task[t].status # "absent"}

\* The mutated query that looks for completed triage tasks only.
StuckCompleted ==
    /\ job.status = "triaging"
    /\ TriageTasks # {}
    /\ \A t \in TriageTasks : task[t].status = "completed"
    /\ task[Rel].status = "absent"

\* find_stuck_triaging_jobs.
StuckTriaging ==
    /\ job.status = "triaging"
    /\ TriageTasks # {}
    /\ \A t \in TriageTasks : task[t].status \in TaskTerminal
    /\ task[Rel].status = "absent"

\* heal_stuck_triaging_jobs reads the stuck jobs ...
HealScan ==
    /\ StuckTriaging /\ "listed" \notin healing
    /\ healing' = healing \cup {"listed"}
    /\ UNCHANGED <<job, task, thread, att, txn, results, commits, faults>>

\* ... and heals each in a transaction of its own, without looking again.
HealApply ==
    /\ "listed" \in healing
    /\ task' = UpsertRelation(task)
    /\ job' = UpdateStatusIfLive("relating", "none")
    /\ healing' = healing \ {"listed"}
    /\ UNCHANGED <<thread, att, txn, results, commits, faults>>

\* The healing transaction fails, or its process dies: it is only logged.
HealLost ==
    /\ "listed" \in healing /\ faults < MaxFaults
    /\ healing' = healing \ {"listed"}
    /\ faults' = faults + 1
    /\ UNCHANGED <<job, task, thread, att, txn, results, commits>>

\* sweep_timer_wakes: an intent keeps the thread for the cancel fallback.
WakeTimer(t) ==
    /\ thread[t].status = "suspended" /\ thread[t].wake = "timer"
    /\ ~thread[t].intent /\ ~Locked(t)
    /\ thread' = [thread EXCEPT ![t] = ResumeThread(@)]
    /\ task' = [task EXCEPT ![t].status = "queued"]
    /\ UNCHANGED <<job, att, txn, results, commits, healing, faults>>

\* hand_back: the verifier child's verdict or its deferred death wakes the
\* parent, intent or not.
HandBack(t) ==
    /\ thread[t].status = "suspended" /\ thread[t].wake = "child"
    /\ ~Locked(t)
    /\ thread' = [thread EXCEPT ![t] = ResumeThread(@)]
    /\ task' = [task EXCEPT ![t].status = "queued"]
    /\ UNCHANGED <<job, att, txn, results, commits, healing, faults>>

\* record_cancel_intent: durable, never withdrawn, no status guard.
RequestCancel(t) ==
    /\ t \in Cancellable
    /\ thread[t].status # "absent" /\ ~thread[t].intent
    /\ thread' = [thread EXCEPT ![t].intent = TRUE]
    /\ UNCHANGED <<job, task, att, txn, results, commits, healing, faults>>

\* sweep_cancel_fallback through cancel_thread: only an unclaimed row.
CancelSweep(t) ==
    /\ thread[t].intent /\ thread[t].status \in ThreadLive
    /\ task[t].token = None /\ task[t].status \in TaskLive /\ ~Locked(t)
    /\ DeadLetter(t, DeadRow(t), "cancelled", None)
    /\ UNCHANGED <<results, commits, healing, faults>>

-----------------------------------------------------------------------------

\* The admitted job: the ingest handler inserts it with its extraction task.
Init ==
    /\ job = [status |-> "queued", outcome |-> "none", sealed |-> FALSE]
    /\ task = [t \in Tasks |-> IF t = Ext THEN NewTask ELSE NoRow]
    /\ thread = [t \in Tasks |-> NoThread]
    /\ att = [w \in Workers |-> Idle]
    /\ txn = [t \in Triage |-> NoTxn]
    /\ results = [t \in Triage |-> "none"]
    /\ commits = [t \in Tasks |-> 0]
    /\ healing = {}
    /\ faults = 0

\* The steps of the attempt in slot w.
Dispatch(w) ==
    \/ LoadJob(w) \/ WriteStatus(w)
    \/ CreateThread(w) \/ MarkRunning(w) \/ Adopt(w)
    \/ Progress(w)
    \/ \E wake \in {"timer", "child"} : Suspend(w, wake)
    \/ Dispose(w)
    \/ \E S \in SUBSET Triage : CommitExtraction(w, S)
    \/ \E t \in Triage, r \in {"created", "duplicate"} : CommitTriage(w, t, r)
    \/ CommitRelation(w)
    \/ \E o \in {"retryable", "terminal"} : Fail(w, o)
    \/ Abandon(w)

Reclaim(t) == ReclaimThreadDriving(t) \/ ReclaimBulk(t)

Heal == HealDeadLettered \/ HealScan \/ HealApply

Wake(t) == WakeTimer(t) \/ HandBack(t)

Next ==
    \/ \E w \in Workers : Dispatch(w) \/ Heartbeat(w) \/ Crash(w)
    \/ \E w \in Workers, t \in Tasks : Claim(w, t)
    \/ \E t \in Triage : CommitTxn(t) \/ AbortTxn(t)
    \/ \E t \in Tasks : \/ Lapse(t) \/ Reclaim(t) \/ Wake(t)
                        \/ RequestCancel(t) \/ CancelSweep(t)
    \/ Heal \/ HealLost \/ HealForgone \/ HealAtStart

\* What the running fleet does of its own accord: attempts run on, the poll
\* loop claims, transactions end, a lapsed heartbeat goes stale, the periodic
\* sweeps recur and a bulk pass heals what it dead-lettered.  Faults, starts
\* of a process, cancel requests and beats are not in it.
FleetStep ==
    \/ \E w \in Workers : Dispatch(w)
    \/ \E w \in Workers, t \in Tasks : Claim(w, t)
    \/ \E t \in Triage : CommitTxn(t)
    \/ \E t \in Tasks : \/ Lapse(t) /\ ~Driven(t)
                        \/ Reclaim(t) \/ Wake(t) \/ CancelSweep(t)
    \/ Heal

Spec == Init /\ [][Next]_vars

\* The fleet never stops while it has something to do.
FairSpec == Spec /\ WF_vars(FleetStep)

-----------------------------------------------------------------------------
(* Properties.                                                              *)

\* Every row, attempt and open transaction holds values its column or field
\* can hold: in particular no counter passes its budget and a claim names a
\* dispatch slot.
TypeOK ==
    /\ job \in [status : JobStatus, outcome : JobOutcome, sealed : BOOLEAN]
    /\ task \in [Tasks -> Row]
    /\ thread \in [Tasks -> ThreadRow]
    /\ att \in [Workers -> Attempt]
    /\ txn \in [Triage -> Txn]
    /\ results \in [Triage -> TriageResult]
    /\ commits \in [Tasks -> Nat]
    /\ healing \subseteq HealWork
    /\ faults \in 0..MaxFaults

\* The two rows that drive a stage move together through every commit,
\* suspension, cancellation, reclaim and crash: a suspended thread is exactly
\* a blocked task with a wake armed, the thread is terminal exactly when its
\* task is, completed exactly when it is, and a task that never had a thread
\* was never blocked and never completed.  dispose_for_thread_state calls
\* its suspended and terminal arms unreachable on the strength of this.
PairedLifecycle ==
    \A t \in Tasks :
        /\ thread[t].status = "suspended" <=> task[t].status = "blocked"
        /\ thread[t].status = "suspended" <=> thread[t].wake # "none"
        /\ thread[t].status = "completed" <=> task[t].status = "completed"
        /\ thread[t].status \in ThreadTerminal => task[t].status \in TaskTerminal
        /\ thread[t].status \in ThreadLive => task[t].status \in TaskLive

\* The relation stage never starts early: its task exists only when
\* extraction committed, at least one triage task exists, and every triage
\* task is terminal, whoever created it (the in-commit fan-in of a racing
\* commit, a dead-letter, a cancellation or the healing sweep).
FanInSound ==
    task[Rel].status # "absent" =>
        /\ task[Ext].status = "completed"
        /\ TriageTasks # {}
        /\ \A t \in TriageTasks : task[t].status \in TaskTerminal

\* A job that is over has no work left behind: no queued, claimed or blocked
\* task, and no transaction that could still publish one.
TerminalJobQuiesces ==
    job.status \in JobTerminal =>
        /\ \A t \in Tasks : task[t].status \notin TaskLive
        /\ \A t \in Triage : ~txn[t].open

\* The outcome the job reports is the one its final triage results justify,
\* although the relation attempt derived it from results it read before its
\* inference calls and the database commits it much later.
OutcomeJustified ==
    /\ job.status = "completed" =>
        job.outcome = IF task[Ext].status = "completed" THEN ComputeOutcome
                      ELSE "none"
    /\ job.status = "failed" <=> job.outcome = "failure"
    /\ job.status = "failed" =>
        \E t \in {Ext, Rel} : task[t].status = "dead_letter"

\* Domain effects commit exactly once, with the completion of their task: a
\* completed task's effects are in, a task that ended any other way, or has
\* not ended, left none, through reclaimed attempts and repeated commits.
EffectsExactlyOnce ==
    /\ \A t \in Tasks :
        commits[t] = IF task[t].status = "completed" THEN 1 ELSE 0
    /\ \A t \in Triage : results[t] # "none" <=> task[t].status = "completed"
    /\ job.sealed <=> task[Rel].status = "completed"

\* A job that is not over always has something that will move it: a live
\* task, a transaction about to publish, a sweep in progress, or a state the
\* stuck-triaging sweep recognises.  A dead-lettered extraction or relation
\* is no such thing by itself: its job must be coupled in the same step, or
\* the heal of the pass that dead-lettered it must be due, or have been lost.
NoStrandedJob ==
    job.status \notin JobTerminal =>
        \/ \E t \in Tasks : task[t].status \in TaskLive
        \/ \E t \in Triage : txn[t].open
        \/ "listed" \in healing \/ StuckTriaging
        \/ DeadLettered /\ healing \cap {"owed", "forgone"} # {}

\* Terminal is final: no late commit, sweep, retry or status write moves a
\* finished job, task or thread again, or rewrites the job's outcome.
TerminalAbsorbing ==
    [][/\ job.status \in JobTerminal =>
            job'.status = job.status /\ job'.outcome = job.outcome
       /\ \A t \in Tasks :
            /\ task[t].status \in TaskTerminal =>
                task'[t].status = task[t].status
            /\ thread[t].status \in ThreadTerminal =>
                thread'[t].status = thread[t].status]_vars

Client == INSTANCE JobLifecycle WITH stage <- job.status, outcome <- job.outcome

\* What a client polls or watches is a JobLifecycle: stages in order and none
\* skipped but "extracting", one outcome, a job with a batch ends only from
\* its relation stage, whichever commit, fan-in, sweep, cancellation or
\* best-effort status write moves the row.
ImplementsJobLifecycle == Client!Spec

\* The retry budget bounds consecutive failures: a failure raises the count
\* a row carries by at most one, and a thread is exhausted only when its
\* row's count has reached the budget since the last durable progress.
RetryBoundsConsecutiveFailures ==
    [][\A t \in Tasks :
        /\ task'[t].retry <= task[t].retry + 1
        /\ thread'[t].status = "dead_letter" /\ thread[t].status \in ThreadLive
            => task[t].retry >= MaxRetries]_vars

\* Every stale claim drives a thread: the bulk reclaim pass, which couples
\* no job, is left with the rows of an earlier release.
StaleClaimDrivesThread ==
    \A t \in Tasks : task[t].lapsed => thread[t].status # "absent"

\* The job's extraction or relation died in a bulk pass and the one heal of
\* that pass was lost: only a process that starts, or another job's bulk
\* dead-letter, will move it.
AwaitsRestart ==
    DeadLettered /\ "forgone" \in healing /\ job.status \notin JobTerminal

\* Every admitted job ends, through any bounded number of crashes, stalls,
\* aborted commits, suspensions and cancellations, except the job whose one
\* heal after a bulk dead-letter was lost; with TerminalJobQuiesces and
\* PairedLifecycle, so does every task and thread of it.
JobSettles == <>(job.status \in JobTerminal \/ AwaitsRestart)
=============================================================================
