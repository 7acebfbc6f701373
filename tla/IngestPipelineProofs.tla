------------------------ MODULE IngestPipelineProofs ------------------------
(* The safety of IngestPipeline for every fleet, every batch and every       *)
(* budget.  None of the properties is inductive alone: a commit is sound     *)
(* because of what its open transaction saw, which is sound because of the   *)
(* order in which tasks come to exist.  IInv states these facts together.    *)
EXTENDS IngestPipeline, TLAPS

-----------------------------------------------------------------------------
(* The inductive invariant.                                                 *)

\* A row is claimed exactly when it carries a token, and a row that can still
\* be claimed has not spent its retry budget.
ClaimShape ==
    \A t \in Tasks :
        /\ task[t].token # None <=> task[t].status = "claimed"
        /\ task[t].status \in TaskLive => task[t].retry <= MaxRetries

\* An attempt has a task, that task was inserted before it was claimed, and
\* an attempt whose transaction is open waits for it.
AttemptShape ==
    \A w \in Workers :
        /\ att[w].pc # "idle" =>
            att[w].task \in Tasks /\ task[att[w].task].status # "absent"
        /\ \A t \in Triage : txn[t].open /\ txn[t].by = w =>
            att[w].pc = "ending" /\ att[w].task = t

\* An open transaction holds a live row, ends it, leaves the pair of rows
\* consistent, and its sibling count stays good until it commits.
TxnShape ==
    \A t \in Triage : txn[t].open =>
        /\ task[t].status \in TaskLive
        /\ txn[t].row.status \in TaskTerminal /\ txn[t].row.token = None
        /\ txn[t].thread \in ThreadTerminal \cup {"absent"}
        /\ txn[t].thread = "absent" <=> thread[t].status = "absent"
        /\ txn[t].thread = "completed" <=> txn[t].row.status = "completed"
        /\ txn[t].result # "none" <=> txn[t].row.status = "completed"
        /\ txn[t].last => NoLiveSiblings(t)

\* An intent is recorded on a thread that exists.
IntentShape == \A t \in Tasks : thread[t].intent => thread[t].status # "absent"

\* Nothing of a batch exists before extraction has committed it.
BatchAfterExtraction ==
    task[Ext].status # "completed" => \A t \in Triage : task[t].status = "absent"

\* A stuck job that a healing sweep listed is still ready for its relation
\* task when the sweep comes to it.
HealingSound ==
    "listed" \in healing =>
        /\ task[Ext].status = "completed"
        /\ TriageTasks # {}
        /\ \A t \in TriageTasks : task[t].status \in TaskTerminal

\* A finished job with a batch is past its fan-in, so that no sweep can still
\* give it a relation task.
TerminalPastFanIn ==
    job.status \in JobTerminal => TriageTasks = {} \/ task[Rel].status # "absent"

\* The outcome a relation attempt derived is still the one to commit.
PlanStands ==
    \A w \in Workers :
        att[w].task = Rel /\ att[w].pc \in {"running", "disposing"} =>
            att[w].plan = ComputeOutcome

\* The inductive invariant.
IInv ==
    /\ TypeOK /\ ClaimShape /\ AttemptShape /\ TxnShape
    /\ PairedLifecycle /\ IntentShape
    /\ BatchAfterExtraction /\ FanInSound /\ HealingSound
    /\ EffectsExactlyOnce
    /\ TerminalJobQuiesces /\ TerminalPastFanIn
    /\ PlanStands /\ OutcomeJustified

-----------------------------------------------------------------------------
(* What the row operations return.                                          *)

\* Giving a claim up leaves a row with the status and the count asked for
\* and no token (the release statements of TaskRepository).
LEMMA ReleaseRow ==
    ASSUME NEW r \in Row, NEW s \in TaskStatus, NEW n \in 0..(MaxRetries + 1)
    PROVE  /\ Release(r, s, n) \in Row
           /\ Release(r, s, n).status = s
           /\ Release(r, s, n).token = None
           /\ Release(r, s, n).retry = n
BY DEF Release, Row

\* The legacy failure CASE of a row within its budget either requeues it
\* within its budget or dead-letters it (fail, reclaim_stale).
LEMMA FailRowShape ==
    ASSUME NEW r \in Row, r.retry <= MaxRetries
    PROVE  /\ FailRow(r) \in Row
           /\ FailRow(r).status \in {"queued", "dead_letter"}
           /\ FailRow(r).token = None
           /\ FailRow(r).status = "queued" => FailRow(r).retry <= MaxRetries
<1>1. r.retry + 1 \in 0..(MaxRetries + 1)
  BY BudgetAssumption DEF Row
<1> DEFINE s == IF r.retry + 1 > MaxRetries THEN "dead_letter" ELSE "queued"
<1>2. s \in TaskStatus /\ s \in {"queued", "dead_letter"}
  BY DEF TaskStatus, TaskLive, TaskTerminal
<1>3. s = "queued" => r.retry + 1 <= MaxRetries
  BY BudgetAssumption DEF Row
<1>4. FailRow(r) = Release(r, s, r.retry + 1)
  BY DEF FailRow
<1> HIDE DEF s
<1> QED BY <1>1, <1>2, <1>3, <1>4, ReleaseRow

\* Suspending and resuming a thread with a turn to spare.
LEMMA SuspendThreadShape ==
    ASSUME NEW h \in ThreadRow, NEW wake \in {"timer", "child"},
           h.turns < MaxTurns
    PROVE  /\ SuspendThread(h, wake) \in ThreadRow
           /\ SuspendThread(h, wake).status = "suspended"
           /\ SuspendThread(h, wake).wake = wake
<1>1. h.turns + 1 \in 0..MaxTurns
  BY PipelineAssumption DEF ThreadRow
<1>2. "suspended" \in ThreadStatus
  BY DEF ThreadStatus, ThreadLive
<1> QED BY <1>1, <1>2 DEF SuspendThread, ThreadRow

\* Resuming a thread disarms its wake (mark_running).
LEMMA ResumeThreadShape ==
    ASSUME NEW h \in ThreadRow
    PROVE  /\ ResumeThread(h) \in ThreadRow
           /\ ResumeThread(h).status = "running"
           /\ ResumeThread(h).wake = "none"
BY DEF ResumeThread, ThreadRow, ThreadStatus, ThreadLive

\* Row t, ended with its retry count as it stands.
LEMMA DeadRowShape ==
    ASSUME TypeOK, NEW t \in Tasks
    PROVE  DeadRow(t) \in Row /\ DeadRow(t).status = "dead_letter"
           /\ DeadRow(t).token = None
<1>1. task[t] \in Row /\ task[t].retry \in 0..(MaxRetries + 1)
  BY DEF TypeOK, Row
<1> QED BY <1>1, ReleaseRow DEF DeadRow, TaskStatus, TaskTerminal

\* Row t as its commit leaves it (TaskRepository::complete).
LEMMA CompletedRowShape ==
    ASSUME TypeOK, NEW t \in Tasks
    PROVE  CompletedRow(t) \in Row /\ CompletedRow(t).status = "completed"
           /\ CompletedRow(t).token = None
<1>1. task[t] \in Row /\ task[t].retry \in 0..(MaxRetries + 1)
  BY DEF TypeOK, Row
<1> QED BY <1>1, ReleaseRow DEF CompletedRow, TaskStatus, TaskTerminal

\* The retry decision stays within both budgets, and a requeue leaves the
\* row claimable (decide_disposition).
LEMMA DecideWithinBudget ==
    ASSUME NEW o \in {"retryable", "terminal"}, NEW n \in 0..MaxRetries,
           NEW c \in 0..RecoveryCap
    PROVE  LET d == decide_disposition(o, n, c) IN
           /\ d.kind \in DispositionKinds \ {"complete"}
           /\ d.retry \in 0..MaxRetries
           /\ d.recovery \in 0..RecoveryCap
BY BudgetAssumption
   DEF decide_disposition, Disposition, DispositionKinds, AfterProgress

\* A job update is applied to a live job only, and never touches the seal
\* (update_status_if_live).
LEMMA JobUpdateType ==
    ASSUME TypeOK, NEW s \in JobStatus, NEW o \in JobOutcome
    PROVE  /\ UpdateStatusIfLive(s, o)
                \in [status : JobStatus, outcome : JobOutcome, sealed : BOOLEAN]
           /\ UpdateStatusIfLive(s, o).sealed = job.sealed
           /\ job.status \in JobTerminal => UpdateStatusIfLive(s, o) = job
           /\ job.status \notin JobTerminal =>
                /\ UpdateStatusIfLive(s, o).status = s
                /\ UpdateStatusIfLive(s, o).outcome = o
BY DEF UpdateStatusIfLive, TypeOK

\* The values rows, attempts and transactions start from or return to.
LEMMA ConstantTypes ==
    /\ NoRow \in Row /\ NewTask \in Row /\ NoThread \in ThreadRow
    /\ Idle \in Attempt /\ NoTxn \in Txn
    /\ NoRow.status = "absent" /\ NoRow.token = None
    /\ NewTask.status = "queued" /\ NewTask.token = None /\ NewTask.retry = 0
    /\ Idle.pc = "idle" /\ Idle.task = None /\ ~NoTxn.open
    /\ NoThread.status = "absent" /\ NoThread.wake = "none"
<1>1. NoRow \in Row /\ NoRow.status = "absent" /\ NoRow.token = None
  BY BudgetAssumption DEF NoRow, Row, TaskStatus
<1>2. NewTask \in Row /\ NewTask.status = "queued" /\ NewTask.token = None
      /\ NewTask.retry = 0
  BY <1>1, BudgetAssumption DEF NewTask, NoRow, Row, TaskStatus, TaskLive
<1>3. NoThread \in ThreadRow /\ NoThread.status = "absent" /\ NoThread.wake = "none"
  BY BudgetAssumption, PipelineAssumption DEF NoThread, ThreadRow, ThreadStatus
<1>4. Idle \in Attempt /\ Idle.pc = "idle" /\ Idle.task = None
  BY BudgetAssumption DEF Idle, Attempt, Points, JobOutcome
<1>5. NoTxn \in Txn /\ ~NoTxn.open
  BY <1>1 DEF NoTxn, Txn, ThreadStatus, TriageResult
<1> QED BY <1>1, <1>2, <1>3, <1>4, <1>5

-----------------------------------------------------------------------------
(* Quiet steps: no task is inserted, ended or revived.                      *)

\* Task t is as far along as it was: not inserted, live, completed or dead.
SameStanding(t) ==
    /\ task'[t].status \in TaskLive <=> task[t].status \in TaskLive
    /\ task[t].status \notin TaskLive => task'[t].status = task[t].status

\* What a relation attempt may carry after the step.
PlanKept ==
    \A w \in Workers :
        att'[w].task = Rel /\ att'[w].pc \in {"running", "disposing"} =>
            att'[w].plan = ComputeOutcome

\* The job is as it was, or moved between live states.
JobKept ==
    \/ job' = job
    \/ /\ job.status \notin JobTerminal /\ job'.status \notin JobTerminal
       /\ job'.outcome # "failure" /\ job'.sealed = job.sealed

\* A step that changes no task's standing and no domain effect.
Quiet ==
    /\ \A t \in Tasks : SameStanding(t)
    /\ JobKept /\ PlanKept
    /\ results' = results /\ commits' = commits /\ healing' = healing

\* The rows, transactions and attempts agree.
Shapes ==
    /\ TypeOK /\ ClaimShape /\ AttemptShape /\ TxnShape
    /\ PairedLifecycle /\ IntentShape

\* ComputeOutcome depends on the results and on which triage tasks exist.
LEMMA OutcomeKept ==
    ASSUME results' = results,
           \A t \in Triage : task'[t].status = "absent" <=> task[t].status = "absent"
    PROVE  ComputeOutcome' = ComputeOutcome
BY DEF ComputeOutcome

\* Apart from the shapes, no part of the invariant can tell a quiet step: it
\* depends only on which tasks exist, are live, or ended, and how.
LEMMA QuietStep ==
    ASSUME IInv, Shapes', Quiet
    PROVE  IInv'
<1> USE DEF Quiet, IInv
<1>1. \A t \in Tasks :
        /\ task'[t].status \in TaskLive <=> task[t].status \in TaskLive
        /\ task'[t].status = "absent" <=> task[t].status = "absent"
        /\ task'[t].status = "completed" <=> task[t].status = "completed"
        /\ task'[t].status = "dead_letter" <=> task[t].status = "dead_letter"
        /\ task'[t].status \in TaskTerminal <=> task[t].status \in TaskTerminal
  BY DEF SameStanding, TaskLive, TaskTerminal
<1>2. Ext \in Tasks /\ Rel \in Tasks /\ Triage \subseteq Tasks
  BY DEF Tasks
<1>3. TriageTasks' = TriageTasks
  BY <1>1, <1>2 DEF TriageTasks
<1>4. BatchAfterExtraction' /\ FanInSound' /\ HealingSound'
  BY <1>1, <1>2, <1>3
     DEF BatchAfterExtraction, FanInSound, HealingSound, TriageTasks
<1>5. EffectsExactlyOnce'
  BY <1>1, <1>2 DEF EffectsExactlyOnce, JobKept
<1>6. TerminalJobQuiesces'
  BY <1>1, <1>2 DEF TerminalJobQuiesces, JobKept, Shapes, TxnShape
<1>7. TerminalPastFanIn'
  BY <1>1, <1>2, <1>3 DEF TerminalPastFanIn, JobKept
<1>8. ComputeOutcome' = ComputeOutcome
  BY <1>1, <1>2, OutcomeKept
<1>9. PlanStands'
  BY <1>8 DEF PlanStands, PlanKept
<1>10. OutcomeJustified'
  BY <1>1, <1>2, <1>8 DEF OutcomeJustified, JobKept, JobTerminal
<1> QED
  BY <1>4, <1>5, <1>6, <1>7, <1>9, <1>10 DEF Shapes

\* A statement on the live row t and its thread, outside any transaction on
\* that row, keeps the rows in step if it leaves the pair in step.
LEMMA RowStep ==
    ASSUME IInv, NEW t \in Tasks, ~Locked(t),
           \A s \in Tasks \ {t} : task'[s] = task[s] /\ thread'[s] = thread[s],
           txn' = txn,
           task[t].status \in TaskLive, task'[t].status \in TaskLive,
           task'[t].token # None <=> task'[t].status = "claimed",
           task'[t].retry <= MaxRetries,
           thread'[t].status \in ThreadLive \cup {"absent"},
           thread'[t].status = "suspended" <=> task'[t].status = "blocked",
           thread'[t].status = "suspended" <=> thread'[t].wake # "none",
           thread'[t].intent => thread'[t].status # "absent"
    PROVE  /\ ClaimShape' /\ TxnShape' /\ PairedLifecycle' /\ IntentShape'
           /\ \A s \in Tasks : SameStanding(s)
<1> USE DEF IInv
<1>1. ClaimShape'
  BY DEF ClaimShape
<1>2. \A s \in Tasks : SameStanding(s)
  BY DEF SameStanding
<1>3. TxnShape'
  BY <1>2 DEF TxnShape, Locked, NoLiveSiblings, SameStanding, Tasks
<1>4. PairedLifecycle'
  BY DEF PairedLifecycle, ThreadLive, ThreadTerminal, TaskLive
<1>5. IntentShape'
  BY DEF IntentShape
<1> QED BY <1>1, <1>2, <1>3, <1>4, <1>5

-----------------------------------------------------------------------------
(* The steps of an attempt that leave its task live.                        *)

\* A step that touches only the attempts.
LEMMA AttemptStep ==
    ASSUME IInv, UNCHANGED <<job, task, thread, txn, results, commits, healing>>,
           faults' \in 0..MaxFaults, att' \in [Workers -> Attempt],
           AttemptShape', PlanKept
    PROVE  IInv'
<1>1. Shapes'
  BY DEF IInv, Shapes, TypeOK, ClaimShape, TxnShape, NoLiveSiblings,
         PairedLifecycle, IntentShape
<1>2. Quiet
  BY DEF Quiet, SameStanding, JobKept
<1> QED BY <1>1, <1>2, QuietStep

\* What type correctness says of one row, thread and attempt.
LEMMA Fields ==
    ASSUME IInv
    PROVE  /\ \A t \in Tasks :
                /\ task[t] \in Row /\ task[t].retry \in 0..(MaxRetries + 1)
                /\ thread[t] \in ThreadRow
                /\ thread[t].recovery \in 0..RecoveryCap
           /\ \A w \in Workers : att[w] \in Attempt
                                 /\ att[w].retry \in 0..MaxRetries
           /\ Ext \in Tasks /\ Rel \in Tasks /\ Triage \subseteq Tasks
           /\ Ext # Rel /\ Ext \notin Triage /\ Rel \notin Triage
BY PipelineAssumption DEF IInv, TypeOK, Row, ThreadRow, Attempt, Tasks

\* The row an attempt still holds is live, within its budget, outside any
\* transaction, and its thread can only be absent, queued or running.
LEMMA HeldRow ==
    ASSUME IInv, NEW w \in Workers, HoldsClaim(w)
    PROVE  /\ att[w].task \in Tasks /\ ~Locked(att[w].task)
           /\ task[att[w].task].status = "claimed"
           /\ task[att[w].task].retry <= MaxRetries
           /\ thread[att[w].task].status \in {"absent", "queued", "running"}
           /\ thread[att[w].task].wake = "none"
<1> DEFINE t == att[w].task
<1>1. t \in Tasks /\ ~Locked(t) /\ task[t].token = w
  BY DEF HoldsClaim
<1>2. task[t].status = "claimed" /\ task[t].retry <= MaxRetries
  BY <1>1, PipelineAssumption DEF IInv, ClaimShape, TaskLive
<1>3. thread[t].status \in ThreadStatus
  BY <1>1 DEF IInv, TypeOK, ThreadRow
<1>4. thread[t].status \in {"absent", "queued", "running"}
      /\ thread[t].wake = "none"
  BY <1>1, <1>2, <1>3
     DEF IInv, PairedLifecycle, ThreadStatus, ThreadLive, ThreadTerminal,
         TaskTerminal
<1> QED BY <1>1, <1>2, <1>4

\* claim: the row's count, read by the attempt, is within its budget.
LEMMA ClaimStep ==
    ASSUME IInv, NEW w \in Workers, NEW t \in Tasks, Claim(w, t)
    PROVE  IInv'
<1> USE DEF Claim
<1>1. TypeOK'
  <2>1. [task[t] EXCEPT !.status = "claimed", !.token = w, !.lapsed = FALSE]
            \in Row
    BY Fields DEF Row, TaskStatus, TaskLive
  <2>2. task[t].retry \in 0..MaxRetries
    BY Fields, BudgetAssumption DEF IInv, ClaimShape, TaskLive
  <2>3. [Idle EXCEPT !.pc = "claimed", !.task = t, !.retry = task[t].retry]
            \in Attempt
    BY <2>2, ConstantTypes DEF Idle, Attempt, Points
  <2> QED BY <2>1, <2>3 DEF IInv, TypeOK
<1>2. ClaimShape' /\ TxnShape' /\ PairedLifecycle' /\ IntentShape'
      /\ \A s \in Tasks : SameStanding(s)
  <2>1. task'[t].status = "claimed" /\ task'[t].token = w
        /\ task'[t].retry = task[t].retry
    BY Fields DEF IInv, TypeOK, Row
  <2>2. \A s \in Tasks \ {t} : task'[s] = task[s] /\ thread'[s] = thread[s]
    BY DEF IInv, TypeOK
  <2>3. task[t].retry <= MaxRetries
    BY DEF IInv, ClaimShape, TaskLive
  <2>4. thread[t].status \in {"absent", "queued", "running"}
        /\ thread[t].wake = "none" /\ (thread[t].intent => thread[t].status # "absent")
    BY DEF IInv, TypeOK, ThreadRow, PairedLifecycle, ThreadStatus, ThreadLive,
           ThreadTerminal, TaskTerminal, IntentShape
  <2> QED
    BY <2>1, <2>2, <2>3, <2>4, PipelineAssumption, RowStep
       DEF TaskLive, ThreadLive
<1>3. AttemptShape'
  BY DEF IInv, TypeOK, AttemptShape, Row, Attempt, Idle
<1>4. PlanKept
  BY DEF IInv, TypeOK, PlanStands, PlanKept, Idle
<1> QED
  BY <1>1, <1>2, <1>3, <1>4, QuietStep DEF Shapes, Quiet, JobKept

\* Reading the job moves the attempt only (run_task_inner).
LEMMA LoadJobStep ==
    ASSUME IInv, NEW w \in Workers, LoadJob(w)
    PROVE  IInv'
<1> USE DEF LoadJob
<1>1. att' \in [Workers -> Attempt]
  <2>1. job.status \in JobStatus \cup {"none"} /\ "loaded" \in Points
    BY DEF IInv, TypeOK, Points
  <2> QED BY <2>1 DEF IInv, TypeOK, Attempt
<1>2. AttemptShape'
  BY DEF IInv, TypeOK, AttemptShape
<1>3. PlanKept
  BY DEF IInv, TypeOK, PlanStands, PlanKept
<1> QED BY <1>1, <1>2, <1>3, AttemptStep DEF IInv, TypeOK

\* The best-effort status write, late or not, moves a live job only.
LEMMA WriteStatusStep ==
    ASSUME IInv, NEW w \in Workers, WriteStatus(w)
    PROVE  IInv'
<1> USE DEF WriteStatus
<1>1. StageStatus(att[w].task) \in {"extracting", "triaging", "relating"}
  BY DEF StageStatus
<1>2. /\ job' \in [status : JobStatus, outcome : JobOutcome, sealed : BOOLEAN]
      /\ JobKept
  <2>1. CASE job' = job
    BY <2>1 DEF IInv, TypeOK, JobKept
  <2>2. CASE job' = UpdateStatusIfLive(StageStatus(att[w].task), "none")
    BY <1>1, <2>2, JobUpdateType
       DEF IInv, JobKept, JobStatus, JobOutcome, JobTerminal
  <2> QED BY <2>1, <2>2
<1>3. TypeOK'
  <2>1. "none" \in JobStatus \cup {"none"} /\ "ready" \in Points
    BY DEF Points
  <2> QED BY <1>2, <2>1 DEF IInv, TypeOK, Attempt
<1>4. AttemptShape'
  BY DEF IInv, TypeOK, AttemptShape
<1>5. PlanKept
  BY DEF IInv, TypeOK, PlanStands, PlanKept
<1>6. ClaimShape' /\ TxnShape' /\ PairedLifecycle' /\ IntentShape'
  BY DEF IInv, ClaimShape, TxnShape, NoLiveSiblings, PairedLifecycle,
         IntentShape
<1> QED
  BY <1>2, <1>3, <1>4, <1>5, <1>6, QuietStep DEF Shapes, Quiet, SameStanding

\* create_stage_thread: the claimed row gains a queued thread.
LEMMA CreateThreadStep ==
    ASSUME IInv, NEW w \in Workers, CreateThread(w)
    PROVE  IInv'
<1> DEFINE t == att[w].task
<1> USE DEF CreateThread
<1>1. t \in Tasks
  BY HeldRow
<1>2. TypeOK'
  BY <1>1 DEF IInv, TypeOK, ThreadRow, ThreadStatus, ThreadLive
<1>3. thread'[t].status = "queued" /\ thread'[t].wake = thread[t].wake
  BY <1>1 DEF IInv, TypeOK, ThreadRow
<1>4. \A s \in Tasks \ {t} : thread'[s] = thread[s]
  BY DEF IInv, TypeOK
<1>5. task[t].token # None
  BY PipelineAssumption DEF HoldsClaim
<1>6. ClaimShape' /\ TxnShape' /\ PairedLifecycle' /\ IntentShape'
      /\ \A s \in Tasks : SameStanding(s)
  BY <1>1, <1>3, <1>4, <1>5, HeldRow, RowStep DEF TaskLive, ThreadLive
<1>7. AttemptShape' /\ PlanKept
  BY DEF IInv, AttemptShape, PlanStands, PlanKept
<1> QED
  BY <1>2, <1>6, <1>7, QuietStep DEF Shapes, Quiet, JobKept

\* ComputeOutcome yields an outcome.
LEMMA OutcomeType == ComputeOutcome \in JobOutcome
BY DEF ComputeOutcome, JobOutcome

\* Starting the stage derives the plan of a relation attempt from the
\* results as they now stand.
LEMMA StartStageAttempt ==
    ASSUME IInv, NEW w \in Workers, att[w].pc = "ready", StartStage(w), txn' = txn,
           \A t \in Tasks : task'[t].status = "absent" <=> task[t].status = "absent"
    PROVE  att' \in [Workers -> Attempt] /\ AttemptShape' /\ PlanKept
<1> USE DEF StartStage
<1> DEFINE pc == IF thread[att[w].task].intent THEN "disposing" ELSE "running"
           plan == IF att[w].task = Rel THEN ComputeOutcome ELSE "none"
<1>1. att' \in [Workers -> Attempt]
  <2>1. pc \in Points /\ plan \in JobOutcome
    BY OutcomeType DEF Points, JobOutcome
  <2> HIDE DEF pc, plan
  <2>2. [att[w] EXCEPT !.pc = pc, !.plan = plan] \in Attempt
    BY <2>1, Fields DEF Attempt
  <2> QED BY <2>2 DEF IInv, TypeOK, pc, plan
<1>2. \A v \in Workers : att'[v].task = att[v].task
                        /\ (att'[v].pc # "idle" => att[v].pc # "idle")
                        /\ (v # w => att'[v] = att[v])
  BY DEF IInv, TypeOK, Attempt
<1>3. AttemptShape'
  BY <1>2 DEF IInv, AttemptShape
<1>4. PlanKept
  <2> SUFFICES ASSUME NEW v \in Workers, att'[v].task = Rel,
                      att'[v].pc \in {"running", "disposing"}
               PROVE  att'[v].plan = ComputeOutcome
    BY DEF PlanKept
  <2>1. CASE v = w
    BY <2>1, <1>2 DEF IInv, TypeOK, Attempt
  <2>2. CASE v # w
    BY <2>2 DEF IInv, TypeOK, PlanStands
  <2> QED BY <2>1, <2>2
<1> QED BY <1>1, <1>3, <1>4

\* mark_running_guarded: the thread runs while its claim is held.
LEMMA MarkRunningStep ==
    ASSUME IInv, NEW w \in Workers, MarkRunning(w)
    PROVE  IInv'
<1> DEFINE t == att[w].task
<1> USE DEF MarkRunning
<1>1. t \in Tasks
  BY HeldRow
<1>2. att' \in [Workers -> Attempt] /\ AttemptShape' /\ PlanKept
  BY StartStageAttempt
<1>3. TypeOK'
  BY <1>1, <1>2 DEF IInv, TypeOK, ThreadRow, ThreadStatus, ThreadLive
<1>4. thread'[t].status = "running" /\ thread'[t].wake = thread[t].wake
  BY <1>1 DEF IInv, TypeOK, ThreadRow
<1>5. \A s \in Tasks \ {t} : thread'[s] = thread[s]
  BY DEF IInv, TypeOK
<1>6. task[t].token # None
  BY PipelineAssumption DEF HoldsClaim
<1>7. ClaimShape' /\ TxnShape' /\ PairedLifecycle' /\ IntentShape'
      /\ \A s \in Tasks : SameStanding(s)
  BY <1>1, <1>4, <1>5, <1>6, HeldRow, RowStep DEF TaskLive, ThreadLive
<1> QED
  BY <1>2, <1>3, <1>7, QuietStep DEF Shapes, Quiet, JobKept

\* ensure_stage_thread without a lease check moves the attempt only.
LEMMA AdoptStep ==
    ASSUME IInv, NEW w \in Workers, Adopt(w)
    PROVE  IInv'
<1>1. att' \in [Workers -> Attempt] /\ AttemptShape' /\ PlanKept
  BY StartStageAttempt DEF Adopt
<1> QED BY <1>1, AttemptStep DEF Adopt, IInv, TypeOK

\* reset_progress: the count of a claimed row drops to zero.
LEMMA ProgressStep ==
    ASSUME IInv, NEW w \in Workers, Progress(w)
    PROVE  IInv'
<1> DEFINE t == att[w].task
<1> USE DEF Progress
<1>1. t \in Tasks
  BY HeldRow
<1>2. TypeOK'
  <2>1. [task[t] EXCEPT !.retry = AfterProgress] \in Row
    BY <1>1, Fields, BudgetAssumption DEF Row, AfterProgress
  <2>2. [thread[t] EXCEPT !.turns = @ + 1] \in ThreadRow
    BY <1>1, Fields, PipelineAssumption DEF ThreadRow
  <2> QED BY <1>1, <2>1, <2>2 DEF IInv, TypeOK
<1>3. /\ thread'[t].status = thread[t].status /\ thread'[t].wake = thread[t].wake
      /\ thread'[t].intent => thread'[t].status # "absent"
      /\ task'[t].status = task[t].status /\ task'[t].token = task[t].token
      /\ task'[t].retry = 0
  BY <1>1 DEF IInv, TypeOK, ThreadRow, Row, AfterProgress, IntentShape
<1>4. \A s \in Tasks \ {t} : task'[s] = task[s] /\ thread'[s] = thread[s]
  BY DEF IInv, TypeOK
<1>5. task[t].token # None
  BY PipelineAssumption DEF HoldsClaim
<1>6. ClaimShape' /\ TxnShape' /\ PairedLifecycle' /\ IntentShape'
      /\ \A s \in Tasks : SameStanding(s)
  BY <1>1, <1>3, <1>4, <1>5, HeldRow, RowStep, BudgetAssumption
     DEF TaskLive, ThreadLive
<1>7. AttemptShape' /\ PlanKept
  BY <1>3, <1>4 DEF IInv, AttemptShape, PlanStands, PlanKept
<1> QED
  BY <1>2, <1>6, <1>7, QuietStep DEF Shapes, Quiet, JobKept

\* suspend_stage_thread: the pair blocks together, or yields to an intent.
LEMMA SuspendStep ==
    ASSUME IInv, NEW w \in Workers, NEW wake \in {"timer", "child"},
           Suspend(w, wake)
    PROVE  IInv'
<1> DEFINE t == att[w].task
<1> USE DEF Suspend
<1>1. t \in Tasks
  BY HeldRow
<1>2. CASE thread[t].intent
  <2>1. att' = [att EXCEPT ![w].pc = "disposing"] /\ UNCHANGED <<task, thread>>
    BY <1>2
  <2>2. att' \in [Workers -> Attempt]
    <3>1. [att[w] EXCEPT !.pc = "disposing"] \in Attempt
      BY Fields DEF Attempt, Points
    <3>2. att \in [Workers -> Attempt]
      BY DEF IInv, TypeOK
    <3> QED BY <2>1, <3>1, <3>2
  <2>3. AttemptShape' /\ PlanKept
    BY <2>1 DEF IInv, TypeOK, Attempt, AttemptShape, PlanStands, PlanKept
  <2> QED BY <2>1, <2>2, <2>3, AttemptStep DEF IInv, TypeOK
<1>3. CASE ~thread[t].intent
  <2>1. /\ task' = [task EXCEPT ![t] = Release(@, "blocked", @.retry)]
        /\ thread' = [thread EXCEPT ![t] = SuspendThread(@, wake)]
        /\ att' = [att EXCEPT ![w] = Idle]
    BY <1>3
  <2>2. /\ Release(task[t], "blocked", task[t].retry) \in Row
        /\ task'[t].status = "blocked" /\ task'[t].token = None
        /\ task'[t].retry = task[t].retry
    <3>1. "blocked" \in TaskStatus
      BY DEF TaskStatus, TaskLive
    <3>2. task'[t] = Release(task[t], "blocked", task[t].retry)
      BY <1>1, <2>1 DEF IInv, TypeOK
    <3> QED BY <1>1, <3>1, <3>2, ReleaseRow, Fields
  <2>3. TypeOK'
    <3>1. task' \in [Tasks -> Row]
      BY <2>1, <2>2 DEF IInv, TypeOK
    <3>2. thread' \in [Tasks -> ThreadRow]
      BY <1>1, <2>1, SuspendThreadShape, Fields DEF IInv, TypeOK
    <3>3. att' \in [Workers -> Attempt]
      BY <2>1, ConstantTypes DEF IInv, TypeOK
    <3> QED BY <3>1, <3>2, <3>3 DEF IInv, TypeOK
  <2>4. thread'[t].status = "suspended" /\ thread'[t].wake = wake
    BY <1>1, <2>1, SuspendThreadShape, Fields DEF IInv, TypeOK
  <2>5. \A s \in Tasks \ {t} : task'[s] = task[s] /\ thread'[s] = thread[s]
    BY <2>1 DEF IInv, TypeOK
  <2>6. ClaimShape' /\ TxnShape' /\ PairedLifecycle' /\ IntentShape'
        /\ \A s \in Tasks : SameStanding(s)
    BY <1>1, <2>2, <2>4, <2>5, HeldRow, RowStep DEF TaskLive, ThreadLive
  <2>7. AttemptShape' /\ PlanKept
    BY <2>1, <2>2, <2>5, ConstantTypes
       DEF IInv, TypeOK, AttemptShape, PlanStands, PlanKept
  <2> QED
    BY <2>3, <2>6, <2>7, QuietStep DEF Shapes, Quiet, JobKept
<1> QED BY <1>2, <1>3

\* A superseded attempt leaves no trace.
LEMMA AbandonStep ==
    ASSUME IInv, NEW w \in Workers, Abandon(w)
    PROVE  IInv'
<1>1. att' \in [Workers -> Attempt]
  BY ConstantTypes DEF Abandon, IInv, TypeOK
<1>2. AttemptShape' /\ PlanKept
  BY ConstantTypes
     DEF Abandon, IInv, TypeOK, AttemptShape, PlanStands, PlanKept, Locked
<1> QED BY <1>1, <1>2, AttemptStep DEF Abandon, IInv, TypeOK

-----------------------------------------------------------------------------
(* Leases and wakes.                                                        *)

\* A beat, or its absence, moves nothing but the staleness of a claimed row.
LEMMA BeatStep ==
    ASSUME IInv, NEW t \in Tasks, NEW b \in BOOLEAN,
           task[t].status = "claimed", ~Locked(t),
           task' = [task EXCEPT ![t].lapsed = b], faults' \in 0..MaxFaults,
           UNCHANGED <<job, thread, att, txn, results, commits, healing>>
    PROVE  IInv'
<1>1. TypeOK'
  <2>1. [task[t] EXCEPT !.lapsed = b] \in Row
    BY Fields DEF Row
  <2> QED BY <2>1 DEF IInv, TypeOK
<1>2. \A s \in Tasks : /\ task'[s].status = task[s].status
                       /\ task'[s].token = task[s].token
                       /\ task'[s].retry = task[s].retry
  BY DEF IInv, TypeOK, Row
<1>3. ClaimShape' /\ AttemptShape' /\ PairedLifecycle' /\ IntentShape'
  BY <1>2 DEF IInv, ClaimShape, AttemptShape, PairedLifecycle, IntentShape
<1>4. TxnShape'
  BY <1>2 DEF IInv, TxnShape, NoLiveSiblings, Tasks
<1>5. Quiet
  BY <1>2 DEF IInv, Quiet, SameStanding, JobKept, PlanStands, PlanKept
<1> QED BY <1>1, <1>3, <1>4, <1>5, QuietStep DEF Shapes

\* heartbeat, guarded by the claim.
LEMMA HeartbeatStep ==
    ASSUME IInv, NEW w \in Workers, Heartbeat(w)
    PROVE  IInv'
BY HeldRow, BeatStep DEF Heartbeat, IInv, TypeOK

\* A lapse touches claimed rows only.
LEMMA LapseStep ==
    ASSUME IInv, NEW t \in Tasks, Lapse(t)
    PROVE  IInv'
<1>1. faults' \in 0..MaxFaults
  BY PipelineAssumption DEF Lapse, IInv, TypeOK
<1> QED BY <1>1, BeatStep DEF Lapse

\* Rolling an open transaction back frees its row as it was.
LEMMA RollbackStep ==
    ASSUME IInv, UNCHANGED <<job, task, thread, results, commits, healing>>,
           faults' \in 0..MaxFaults, att' \in [Workers -> Attempt],
           AttemptShape', PlanKept, txn' \in [Triage -> Txn],
           \A t \in Triage : txn'[t] = txn[t] \/ ~txn'[t].open
    PROVE  IInv'
<1>1. TypeOK' /\ ClaimShape' /\ PairedLifecycle' /\ IntentShape'
  BY DEF IInv, TypeOK, ClaimShape, PairedLifecycle, IntentShape
<1>2. TxnShape'
  BY DEF IInv, TxnShape, NoLiveSiblings
<1>3. Quiet
  BY DEF Quiet, SameStanding, JobKept
<1> QED BY <1>1, <1>2, <1>3, QuietStep DEF Shapes

\* A crash forgets the attempt and rolls its transaction back.
LEMMA CrashStep ==
    ASSUME IInv, NEW w \in Workers, Crash(w)
    PROVE  IInv'
<1> USE DEF Crash
<1>1. faults' \in 0..MaxFaults
  BY PipelineAssumption DEF IInv, TypeOK
<1>2. att' \in [Workers -> Attempt]
  BY ConstantTypes DEF IInv, TypeOK
<1>3. AttemptShape' /\ PlanKept
  BY ConstantTypes DEF IInv, TypeOK, AttemptShape, PlanStands, PlanKept
<1>4. txn' \in [Triage -> Txn] /\ \A t \in Triage : txn'[t] = txn[t] \/ ~txn'[t].open
  BY ConstantTypes DEF IInv, TypeOK
<1> QED BY <1>1, <1>2, <1>3, <1>4, RollbackStep

\* A refused commit leaves an attempt that still has its task, or none.
LEMMA AbortTxnStep ==
    ASSUME IInv, NEW t \in Triage, AbortTxn(t)
    PROVE  IInv'
<1> USE DEF AbortTxn
<1>1. faults' \in 0..MaxFaults
  BY PipelineAssumption DEF IInv, TypeOK
<1>2. \A w \in Workers :
        /\ [att[w] EXCEPT !.pc = "failing"] \in Attempt
        /\ [att[w] EXCEPT !.pc = "failing"].pc = "failing"
  BY Fields DEF Attempt, Points
<1>3. att' \in [Workers -> Attempt]
  BY <1>2, ConstantTypes DEF IInv, TypeOK
<1>4. \A w \in Workers :
        \/ att'[w] = att[w] \/ att'[w] = Idle
        \/ att'[w] = [att[w] EXCEPT !.pc = "failing"] /\ txn[t].by = w
  OBVIOUS
<1>5. txn' \in [Triage -> Txn] /\ \A u \in Triage : txn'[u] = txn[u] \/ ~txn'[u].open
  BY ConstantTypes DEF IInv, TypeOK
<1>6. AttemptShape'
  <2>1. \A w \in Workers : txn[t].by = w => att[w].pc = "ending" /\ att[w].task = t
    BY DEF IInv, AttemptShape
  <2>2. \A w \in Workers :
          /\ att'[w].pc # "idle" => att[w].pc # "idle"
          /\ att'[w].pc # "idle" => att'[w].task = att[w].task
    BY <1>4, <2>1, ConstantTypes, Fields DEF Attempt
  <2>3. \A w \in Workers, u \in Triage :
          txn'[u].open /\ txn'[u].by = w => txn[u].open /\ u # t /\ txn[u].by = w
    BY ConstantTypes DEF IInv, TypeOK
  <2>4. \A w \in Workers : txn[t].by # w => att'[w] = att[w]
    OBVIOUS
  <2> QED BY <2>1, <2>2, <2>3, <2>4 DEF IInv, AttemptShape
<1>7. PlanKept
  <2>1. \A w \in Workers :
          att'[w].pc \in {"running", "disposing"} => att'[w] = att[w]
    BY <1>2, <1>4, ConstantTypes
  <2> QED BY <2>1 DEF IInv, PlanStands, PlanKept
<1> QED BY <1>1, <1>3, <1>5, <1>6, <1>7, RollbackStep

\* The row behind a suspended thread resumes with it, whoever wakes it.
LEMMA ResumeStep ==
    ASSUME IInv, NEW t \in Tasks, thread[t].status = "suspended", ~Locked(t),
           thread' = [thread EXCEPT ![t] = ResumeThread(@)],
           task' = [task EXCEPT ![t].status = "queued"],
           UNCHANGED <<job, att, txn, results, commits, healing, faults>>
    PROVE  IInv'
<1>1. task[t].status = "blocked" /\ task[t].token = None
      /\ task[t].retry <= MaxRetries
  BY DEF IInv, PairedLifecycle, ClaimShape, TaskLive
<1>2. TypeOK'
  <2>1. [task[t] EXCEPT !.status = "queued"] \in Row
    BY Fields DEF Row, TaskStatus, TaskLive
  <2> QED BY <2>1, Fields, ResumeThreadShape DEF IInv, TypeOK
<1>3. /\ task'[t].status = "queued" /\ task'[t].token = task[t].token
      /\ task'[t].retry = task[t].retry
  BY DEF IInv, TypeOK, Row
<1>4. thread'[t].status = "running" /\ thread'[t].wake = "none"
  BY Fields, ResumeThreadShape DEF IInv, TypeOK
<1>5. \A s \in Tasks \ {t} : task'[s] = task[s] /\ thread'[s] = thread[s]
  BY DEF IInv, TypeOK
<1>6. ClaimShape' /\ TxnShape' /\ PairedLifecycle' /\ IntentShape'
      /\ \A s \in Tasks : SameStanding(s)
  BY <1>1, <1>3, <1>4, <1>5, RowStep DEF TaskLive, ThreadLive
<1>7. AttemptShape' /\ PlanKept
  BY <1>3, <1>5 DEF IInv, AttemptShape, PlanStands, PlanKept
<1> QED
  BY <1>2, <1>6, <1>7, QuietStep DEF Shapes, Quiet, JobKept

\* sweep_timer_wakes and hand_back.
LEMMA WakeStep ==
    ASSUME IInv, NEW t \in Tasks, Wake(t)
    PROVE  IInv'
BY ResumeStep DEF Wake, WakeTimer, HandBack

\* record_cancel_intent: the thread it finds exists.
LEMMA RequestCancelStep ==
    ASSUME IInv, NEW t \in Tasks, RequestCancel(t)
    PROVE  IInv'
<1> USE DEF RequestCancel
<1>1. TypeOK'
  <2>1. [thread[t] EXCEPT !.intent = TRUE] \in ThreadRow
    BY Fields DEF ThreadRow
  <2> QED BY <2>1 DEF IInv, TypeOK
<1>2. \A s \in Tasks : /\ thread'[s].status = thread[s].status
                       /\ thread'[s].wake = thread[s].wake
  BY DEF IInv, TypeOK, ThreadRow
<1>3. IntentShape'
  BY <1>2 DEF IInv, TypeOK, IntentShape
<1>4. ClaimShape' /\ AttemptShape' /\ PairedLifecycle'
  BY <1>2 DEF IInv, ClaimShape, AttemptShape, PairedLifecycle
<1>5. TxnShape'
  BY <1>2 DEF IInv, TxnShape, NoLiveSiblings, Tasks
<1>6. Quiet
  BY DEF IInv, Quiet, SameStanding, JobKept, PlanStands, PlanKept
<1> QED BY <1>1, <1>3, <1>4, <1>5, <1>6, QuietStep DEF Shapes

-----------------------------------------------------------------------------
(* Failures: a requeue is quiet, a dead-letter ends a task.                 *)

\* Some attempts are over, none of them waiting for its transaction.
GivesUp ==
    /\ att' \in [Workers -> Attempt]
    /\ \A w \in Workers : \/ att'[w] = att[w]
                          \/ att'[w] = Idle /\ att[w].pc # "ending"

\* An attempt that is over holds nothing of the invariant back.
LEMMA GivesUpAttempts ==
    ASSUME IInv, GivesUp, txn' = txn,
           \A t \in Tasks : task[t].status # "absent" => task'[t].status # "absent"
    PROVE  AttemptShape' /\ PlanKept
<1>1. AttemptShape'
  BY ConstantTypes DEF IInv, GivesUp, AttemptShape
<1>2. PlanKept
  BY ConstantTypes DEF IInv, GivesUp, PlanStands, PlanKept
<1> QED BY <1>1, <1>2

\* A claimed row returns to the queue with its thread as it was:
\* whether the thread is there or not, and whatever the counters become.
LEMMA RequeueStep ==
    ASSUME IInv, NEW t \in Tasks, task[t].status = "claimed", ~Locked(t),
           NEW r \in Row, r.status = "queued", r.token = None,
           r.retry <= MaxRetries,
           task' = [task EXCEPT ![t] = r],
           thread' \in [Tasks -> ThreadRow],
           \A s \in Tasks \ {t} : thread'[s] = thread[s],
           thread'[t].status = thread[t].status, thread'[t].wake = thread[t].wake,
           thread'[t].intent = thread[t].intent,
           GivesUp, UNCHANGED <<job, txn, results, commits, healing, faults>>
    PROVE  IInv'
<1>1. TypeOK'
  BY DEF IInv, TypeOK, GivesUp
<1>2. task'[t] = r /\ \A s \in Tasks \ {t} : task'[s] = task[s]
  BY DEF IInv, TypeOK
<1>3. thread[t].status \in {"absent", "queued", "running"}
      /\ thread[t].wake = "none" /\ (thread[t].intent => thread[t].status # "absent")
  BY DEF IInv, TypeOK, ThreadRow, PairedLifecycle, ThreadStatus, ThreadLive,
         ThreadTerminal, TaskTerminal, IntentShape
<1>4. ClaimShape' /\ TxnShape' /\ PairedLifecycle' /\ IntentShape'
      /\ \A s \in Tasks : SameStanding(s)
  BY <1>2, <1>3, RowStep DEF TaskLive, ThreadLive
<1>5. \A s \in Tasks : task[s].status # "absent" => task'[s].status # "absent"
  BY <1>2
<1>6. AttemptShape' /\ PlanKept
  BY <1>5, GivesUpAttempts
<1> QED
  BY <1>1, <1>4, <1>6, QuietStep DEF Shapes, Quiet, JobKept

\* Whatever else a healing sweep is to do, the list of stuck jobs is as it was.
ListKept ==
    /\ healing' \subseteq HealWork
    /\ "listed" \in healing' => "listed" \in healing

\* The end of a live task without effects: a singleton may fail its job.
LEMMA DeadStep ==
    ASSUME IInv, NEW t \in Tasks, task[t].status \in TaskLive, ~Locked(t),
           NEW r \in Row, r.status = "dead_letter", r.token = None,
           task' = [task EXCEPT ![t] = r],
           thread' \in [Tasks -> ThreadRow],
           \A s \in Tasks \ {t} : thread'[s] = thread[s],
           thread'[t].wake = "none", thread'[t].intent = thread[t].intent,
           thread'[t].status \in (ThreadTerminal \ {"completed"}) \cup {"absent"},
           GivesUp, UNCHANGED <<txn, results, commits, faults>>, ListKept,
           thread'[t].status = "absent" <=> thread[t].status = "absent",
           job' = job \/ (t \in {Ext, Rel} /\ job' = CoupleSingleton)
    PROVE  IInv'
<1> USE DEF IInv
<1>1. job.status \notin JobTerminal
  BY DEF TerminalJobQuiesces
<1>2. /\ job' \in [status : JobStatus, outcome : JobOutcome, sealed : BOOLEAN]
      /\ job'.sealed = job.sealed
      /\ job' # job => job'.status = "failed" /\ job'.outcome = "failure"
                       /\ t \in {Ext, Rel}
  BY JobUpdateType, <1>1
     DEF TypeOK, CoupleSingleton, JobStatus, JobOutcome, JobTerminal
<1>3. TypeOK'
  BY <1>2 DEF TypeOK, GivesUp, ListKept
<1>4. task'[t] = r /\ \A s \in Tasks \ {t} : task'[s] = task[s]
  BY DEF TypeOK
<1>5. ClaimShape'
  BY <1>4 DEF ClaimShape, TaskLive
<1>6. TxnShape'
  BY <1>4 DEF TxnShape, Locked, NoLiveSiblings, Tasks, TaskLive
<1>7. PairedLifecycle' /\ IntentShape'
  BY <1>4 DEF PairedLifecycle, IntentShape, ThreadLive, ThreadTerminal, TaskLive,
              TaskTerminal
<1>8. AttemptShape' /\ PlanKept
  BY <1>4, GivesUpAttempts
<1>9. \A s \in Tasks :
        /\ task'[s].status = "absent" <=> task[s].status = "absent"
        /\ task'[s].status = "completed" <=> task[s].status = "completed"
        /\ task'[s].status \in TaskLive => task[s].status \in TaskLive
        /\ task[s].status \in TaskTerminal => task'[s].status \in TaskTerminal
        /\ task[s].status = "dead_letter" => task'[s].status = "dead_letter"
  BY <1>4 DEF TaskLive, TaskTerminal
<1>10. TriageTasks' = TriageTasks
  BY <1>9, Fields DEF TriageTasks
<1>11. BatchAfterExtraction' /\ FanInSound' /\ HealingSound'
  BY <1>9, <1>10, Fields
     DEF BatchAfterExtraction, FanInSound, HealingSound, TriageTasks, ListKept
<1>12. EffectsExactlyOnce'
  BY <1>2, <1>9, Fields DEF EffectsExactlyOnce
<1>13. job' # job =>
         /\ \A s \in Tasks : task'[s].status \notin TaskLive
         /\ TriageTasks' = {} \/ task'[Rel].status # "absent"
  <2>1. CASE t = Ext
    <3>1. task[Ext].status # "completed" /\ t # Rel
      BY <2>1, Fields DEF TaskLive
    <3>2. task[Rel].status = "absent" /\ \A s \in Triage : task[s].status = "absent"
      BY <3>1 DEF FanInSound, BatchAfterExtraction
    <3> QED
      BY <2>1, <3>2, <1>4, <1>10, Fields DEF TaskLive, TriageTasks, Tasks
  <2>2. CASE t = Rel
    <3>1. task[Ext].status = "completed"
          /\ \A s \in Triage : task[s].status \in TaskTerminal \cup {"absent"}
      BY <2>2, Fields DEF FanInSound, TaskLive, TriageTasks
    <3> QED
      BY <2>2, <3>1, <1>4, Fields DEF TaskLive, TaskTerminal, Tasks
  <2> QED BY <2>1, <2>2, <1>2
<1>14. TerminalJobQuiesces' /\ TerminalPastFanIn'
  <2>1. job'.status \in JobTerminal => job' # job
    BY <1>1
  <2> QED
    BY <2>1, <1>6, <1>13, Fields
       DEF TerminalJobQuiesces, TerminalPastFanIn, TxnShape
<1>15. ComputeOutcome' = ComputeOutcome
  BY <1>9, Fields, OutcomeKept
<1>16. PlanStands'
  BY <1>8, <1>15 DEF PlanStands, PlanKept
<1>17. OutcomeJustified'
  BY <1>1, <1>2, <1>4 DEF OutcomeJustified, JobTerminal
<1> QED
  BY <1>3, <1>5, <1>6, <1>7, <1>8, <1>11, <1>12, <1>14, <1>16, <1>17

\* Opening the transaction that ends triage task t: its sibling count is the
\* one the rows now give, and nothing is published yet.
LEMMA BeginStep ==
    ASSUME IInv, NEW t \in Triage, task[t].status \in TaskLive, ~Locked(t),
           NEW row \in Row, row.token = None, row.status \in TaskTerminal,
           NEW th \in ThreadTerminal \cup {"absent"},
           th = "absent" <=> thread[t].status = "absent",
           th = "completed" <=> row.status = "completed",
           NEW result \in TriageResult,
           result # "none" <=> row.status = "completed",
           NEW by \in Workers \cup {None},
           \A w \in Workers : by = w => att[w].task = t /\ att[w].pc \notin {"idle", "ending"},
           BeginTriageEnd(t, row, th, by, result),
           UNCHANGED <<results, commits, healing, faults>>
    PROVE  IInv'
<1> DEFINE x == [open |-> TRUE, row |-> row, thread |-> th,
                 last |-> NoLiveSiblings(t), by |-> by, result |-> result]
<1> USE DEF IInv, BeginTriageEnd
<1>1. x \in Txn
  <2>1. th \in ThreadStatus
    BY DEF ThreadStatus
  <2>2. NoLiveSiblings(t) \in BOOLEAN
    BY DEF NoLiveSiblings
  <2> QED BY <2>1, <2>2 DEF Txn
<1>2. txn' = [txn EXCEPT ![t] = x]
  OBVIOUS
<1> HIDE DEF x
<1>3. txn' \in [Triage -> Txn] /\ txn'[t] = x
      /\ \A u \in Triage \ {t} : txn'[u] = txn[u]
  BY <1>1, <1>2 DEF TypeOK
<1>4. \A w \in Workers : /\ [att[w] EXCEPT !.pc = "ending"] \in Attempt
                         /\ [att[w] EXCEPT !.pc = "ending"].pc = "ending"
                         /\ [att[w] EXCEPT !.pc = "ending"].task = att[w].task
  BY Fields DEF Attempt, Points
<1>5. att' \in [Workers -> Attempt]
  BY <1>4 DEF TypeOK
<1>6. TypeOK'
  BY <1>3, <1>5 DEF TypeOK
<1>7. ClaimShape' /\ PairedLifecycle' /\ IntentShape'
  BY DEF ClaimShape, PairedLifecycle, IntentShape
<1>8. \A w \in Workers :
        /\ by # w => att'[w] = att[w]
        /\ by = w => att'[w].pc = "ending" /\ att'[w].task = t
  BY <1>4
<1>9. AttemptShape'
  <2> SUFFICES ASSUME NEW w \in Workers
               PROVE  /\ att'[w].pc # "idle" =>
                            att'[w].task \in Tasks /\ task'[att'[w].task].status # "absent"
                      /\ \A u \in Triage : txn'[u].open /\ txn'[u].by = w =>
                            att'[w].pc = "ending" /\ att'[w].task = u
    BY DEF AttemptShape
  <2>1. x.by = by
    BY DEF x
  <2>2. CASE by # w
    BY <2>1, <2>2, <1>3, <1>8 DEF AttemptShape
  <2>3. CASE by = w
    <3>1. att'[w].task \in Tasks /\ task'[att'[w].task].status # "absent"
      BY <2>3, <1>8, Fields DEF TaskLive
    <3>2. \A u \in Triage \ {t} : ~(txn'[u].open /\ txn'[u].by = w)
      BY <2>3, <1>3 DEF AttemptShape
    <3> QED BY <2>3, <3>1, <3>2, <1>8
  <2> QED BY <2>2, <2>3
<1>10. TxnShape'
  <2>1. /\ x.row = row /\ x.thread = th /\ x.result = result
        /\ x.last => NoLiveSiblings(t)
    BY DEF x
  <2>2. \A u \in Triage : NoLiveSiblings(u)' <=> NoLiveSiblings(u)
    BY DEF NoLiveSiblings
  <2> QED BY <2>1, <2>2, <1>3 DEF TxnShape
<1>11. PlanKept
  BY <1>8 DEF PlanStands, PlanKept
<1>12. Quiet
  BY <1>11 DEF Quiet, SameStanding, JobKept
<1> QED BY <1>6, <1>7, <1>9, <1>10, <1>12, QuietStep DEF Shapes

\* The coupling seam, for every task and every caller.
LEMMA DeadLetterStep ==
    ASSUME IInv, NEW t \in Tasks, task[t].status \in TaskLive, ~Locked(t),
           NEW row \in Row, row.token = None, row.status = "dead_letter",
           NEW th \in (ThreadTerminal \ {"completed"}) \cup {"absent"},
           th = "absent" <=> thread[t].status = "absent",
           NEW by \in Workers \cup {None},
           \A w \in Workers : by = w => att[w].task = t /\ att[w].pc \notin {"idle", "ending"},
           DeadLetter(t, row, th, by),
           UNCHANGED <<results, commits, healing, faults>>
    PROVE  IInv'
<1>1. CASE t \in Triage /\ BeginTriageEnd(t, row, th, by, "none")
  BY <1>1, BeginStep DEF TaskTerminal, TriageResult
<1>2. CASE /\ t \in {Ext, Rel}
           /\ task' = [task EXCEPT ![t] = row]
           /\ thread' = [thread EXCEPT ![t] = EndThread(@, th)]
           /\ job' = CoupleSingleton
           /\ att' = [w \in Workers |-> IF w = by THEN Idle ELSE att[w]]
           /\ UNCHANGED txn
  <2>1. /\ EndThread(thread[t], th) \in ThreadRow
        /\ EndThread(thread[t], th).status = th
        /\ EndThread(thread[t], th).wake = "none"
        /\ EndThread(thread[t], th).intent = thread[t].intent
    <3>1. th \in ThreadStatus
      BY DEF ThreadStatus
    <3> QED BY <3>1, Fields DEF EndThread, ThreadRow
  <2>2. /\ thread' \in [Tasks -> ThreadRow]
        /\ thread'[t].status = th /\ thread'[t].wake = "none"
        /\ thread'[t].intent = thread[t].intent
        /\ \A s \in Tasks \ {t} : thread'[s] = thread[s]
    BY <1>2, <2>1 DEF IInv, TypeOK
  <2>3. GivesUp
    BY <1>2, ConstantTypes DEF IInv, TypeOK, GivesUp
  <2>4. ListKept
    BY DEF IInv, TypeOK, ListKept
  <2> QED BY <1>2, <2>2, <2>3, <2>4, DeadStep
<1> QED BY <1>1, <1>2 DEF DeadLetter

\* A requeue within both budgets, by an attempt or by the reclaim sweep.
LEMMA BudgetedRequeue ==
    ASSUME IInv, NEW t \in Tasks, task[t].status = "claimed", ~Locked(t),
           NEW n \in 0..MaxRetries, NEW c \in 0..RecoveryCap,
           task' = [task EXCEPT ![t] = Release(@, "queued", n)],
           thread' = [thread EXCEPT ![t].recovery = c],
           GivesUp, UNCHANGED <<job, txn, results, commits, healing, faults>>
    PROVE  IInv'
<1>1. "queued" \in TaskStatus /\ n \in 0..(MaxRetries + 1) /\ n <= MaxRetries
  BY BudgetAssumption DEF TaskStatus, TaskLive
<1>2. /\ Release(task[t], "queued", n) \in Row
      /\ Release(task[t], "queued", n).status = "queued"
      /\ Release(task[t], "queued", n).token = None
      /\ Release(task[t], "queued", n).retry <= MaxRetries
  BY <1>1, Fields, ReleaseRow
<1>3. [thread[t] EXCEPT !.recovery = c] \in ThreadRow
  BY Fields DEF ThreadRow
<1>4. /\ thread' \in [Tasks -> ThreadRow]
      /\ \A s \in Tasks \ {t} : thread'[s] = thread[s]
      /\ thread'[t].status = thread[t].status
      /\ thread'[t].wake = thread[t].wake /\ thread'[t].intent = thread[t].intent
  BY <1>3 DEF IInv, TypeOK, ThreadRow
<1>5. task' = [task EXCEPT ![t] = Release(task[t], "queued", n)]
  OBVIOUS
<1> QED BY <1>2, <1>4, <1>5, RequeueStep

\* dispose_for_thread_state on an intent: the thread is there to cancel.
LEMMA DisposeStep ==
    ASSUME IInv, NEW w \in Workers, Dispose(w)
    PROVE  IInv'
<1>1. thread[att[w].task].status # "absent"
  BY HeldRow DEF Dispose, IInv, IntentShape
<1> QED
  BY <1>1, HeldRow, DeadRowShape, DeadLetterStep
     DEF Dispose, IInv, TaskLive, ThreadTerminal

\* sweep_cancel_fallback ends unclaimed rows through the same seam.
LEMMA CancelSweepStep ==
    ASSUME IInv, NEW t \in Tasks, CancelSweep(t)
    PROVE  IInv'
<1>1. thread[t].status # "absent"
  BY DEF CancelSweep, ThreadLive
<1> QED
  BY <1>1, DeadRowShape, DeadLetterStep, PipelineAssumption
     DEF CancelSweep, IInv, ThreadTerminal

\* A failure that the budgets absorb, or that ends the task.
LEMMA FailStep ==
    ASSUME IInv, NEW w \in Workers, NEW o \in {"retryable", "terminal"},
           Fail(w, o)
    PROVE  IInv'
<1> DEFINE t == att[w].task
           d == decide_disposition(o, att[w].retry, thread[t].recovery)
           th == IF o = "terminal" THEN "failed" ELSE "dead_letter"
<1>1. /\ t \in Tasks /\ ~Locked(t) /\ task[t].status = "claimed"
      /\ task[t].retry <= MaxRetries
      /\ att[w].pc \notin {"idle", "ending"}
      /\ UNCHANGED <<results, commits, healing, faults>>
  BY HeldRow DEF Fail
<1>2. att' = [att EXCEPT ![w] = Idle] => GivesUp
  BY <1>1, ConstantTypes DEF IInv, TypeOK, GivesUp
<1>3. CASE thread[t].status = "absent"
  <2> DEFINE row == FailRow(task[t])
  <2>1. /\ row \in Row /\ row.token = None
        /\ row.status \in {"queued", "dead_letter"}
        /\ row.status = "queued" => row.retry <= MaxRetries
    BY <1>1, FailRowShape, Fields
  <2>2. FailUnthreaded(w, t)
    BY <1>3 DEF Fail
  <2> HIDE DEF row
  <2>3. CASE /\ row.status = "queued"
             /\ task' = [task EXCEPT ![t] = row]
             /\ att' = [att EXCEPT ![w] = Idle]
             /\ UNCHANGED <<job, thread, txn>>
    <3>1. thread' \in [Tasks -> ThreadRow]
      BY <2>3 DEF IInv, TypeOK
    <3> QED BY <1>1, <1>2, <2>1, <2>3, <3>1, RequeueStep
  <2>4. CASE row.status = "dead_letter" /\ DeadLetter(t, row, "absent", w)
    BY <1>1, <1>3, <2>1, <2>4, DeadLetterStep DEF TaskLive
  <2> QED BY <2>2, <2>3, <2>4 DEF FailUnthreaded, row
<1>4. CASE thread[t].status # "absent"
  <2>1. /\ d.retry \in 0..MaxRetries /\ d.recovery \in 0..RecoveryCap
    BY <1>1, DecideWithinBudget, Fields
  <2>2. ApplyDisposition(w, t, d, th)
    BY <1>4 DEF Fail
  <2> HIDE DEF d
  <2>3. CASE /\ task' = [task EXCEPT ![t] = Release(@, "queued", d.retry)]
             /\ thread' = [thread EXCEPT ![t].recovery = d.recovery]
             /\ att' = [att EXCEPT ![w] = Idle]
             /\ UNCHANGED <<job, txn>>
    BY <1>1, <1>2, <2>1, <2>3, BudgetedRequeue
  <2>4. CASE DeadLetter(t, DeadRow(t), th, w)
    <3>1. th \in ThreadTerminal \ {"completed"} /\ th # "absent"
      BY DEF ThreadTerminal
    <3> HIDE DEF th
    <3> QED
      BY <1>1, <1>4, <2>4, <3>1, DeadRowShape, DeadLetterStep
         DEF TaskLive, IInv
  <2> QED BY <2>2, <2>3, <2>4 DEF ApplyDisposition
<1> QED BY <1>3, <1>4

\* run_thread_aware_reclaim and the bulk reclaim_stale.
LEMMA ReclaimStep ==
    ASSUME IInv, NEW t \in Tasks, Reclaim(t)
    PROVE  IInv'
<1>1. CASE ReclaimThreadDriving(t)
  <2> DEFINE d == decide_disposition("retryable", task[t].retry, thread[t].recovery)
  <2>1. task[t].status = "claimed" /\ ~Locked(t) /\ thread[t].status # "absent"
        /\ UNCHANGED <<results, commits, healing, faults>>
    BY <1>1 DEF ReclaimThreadDriving
  <2>2. task[t].retry \in 0..MaxRetries
    BY <2>1, Fields, BudgetAssumption DEF IInv, ClaimShape, TaskLive
  <2>3. d.retry \in 0..MaxRetries /\ d.recovery \in 0..RecoveryCap
    BY <2>2, DecideWithinBudget, Fields
  <2> HIDE DEF d
  <2>4. CASE /\ task' = [task EXCEPT ![t] = Release(@, "queued", d.retry)]
             /\ thread' = [thread EXCEPT ![t].recovery = d.recovery]
             /\ UNCHANGED <<job, att, txn>>
    <3>1. GivesUp
      BY <2>4 DEF GivesUp, IInv, TypeOK
    <3> QED BY <2>1, <2>3, <2>4, <3>1, BudgetedRequeue
  <2>5. CASE DeadLetter(t, DeadRow(t), "dead_letter", None)
    BY <2>1, <2>5, DeadRowShape, DeadLetterStep, PipelineAssumption
       DEF TaskLive, ThreadTerminal, IInv
  <2> QED BY <1>1, <2>4, <2>5 DEF ReclaimThreadDriving, d
<1>2. CASE ReclaimBulk(t)
  <2> DEFINE row == FailRow(task[t])
  <2>1. /\ task[t].status = "claimed" /\ ~Locked(t) /\ thread[t].status = "absent"
        /\ task' = [task EXCEPT ![t] = row]
        /\ healing' = IF row.status = "dead_letter"
                        THEN (healing \ {"forgone"}) \cup {"owed"} ELSE healing
        /\ UNCHANGED <<job, thread, att, txn, results, commits, faults>>
    BY <1>2 DEF ReclaimBulk
  <2>2. task[t].retry <= MaxRetries
    BY <2>1 DEF IInv, ClaimShape, TaskLive
  <2>3. /\ row \in Row /\ row.token = None
        /\ row.status \in {"queued", "dead_letter"}
        /\ row.status = "queued" => row.retry <= MaxRetries
    BY <2>2, FailRowShape, Fields
  <2>4. GivesUp /\ thread' \in [Tasks -> ThreadRow]
    BY <2>1 DEF GivesUp, IInv, TypeOK
  <2> HIDE DEF row
  <2>5. CASE row.status = "queued"
    <3>1. healing' = healing
      BY <2>1, <2>5
    <3> QED BY <2>1, <2>3, <2>4, <2>5, <3>1, RequeueStep
  <2>6. CASE row.status = "dead_letter"
    <3>1. thread'[t].wake = "none" /\ thread'[t].status = "absent"
          /\ thread'[t].intent = thread[t].intent
          /\ \A s \in Tasks \ {t} : thread'[s] = thread[s]
      BY <2>1 DEF IInv, PairedLifecycle
    <3>2. task[t].status \in TaskLive
      BY <2>1 DEF TaskLive
    <3>3. thread'[t].status \in (ThreadTerminal \ {"completed"}) \cup {"absent"}
      BY <3>1
    <3>4. thread'[t].status = "absent" <=> thread[t].status = "absent"
      BY <2>1
    <3>5. job' = job /\ UNCHANGED <<txn, results, commits, faults>> /\ ListKept
      BY <2>1, <2>6 DEF IInv, TypeOK, HealWork, ListKept
    <3>6. row \in Row /\ row.status = "dead_letter" /\ row.token = None
          /\ task' = [task EXCEPT ![t] = row] /\ ~Locked(t)
      BY <2>1, <2>3, <2>6
    <3> QED BY <2>4, <3>1, <3>2, <3>3, <3>4, <3>5, <3>6, DeadStep
  <2> QED BY <2>3, <2>5, <2>6
<1> QED BY <1>1, <1>2 DEF Reclaim

-----------------------------------------------------------------------------
(* Commits and healing.                                                     *)

\* An attempt ready to commit task t drives the claimed row of a running
\* thread, and the job is not over.
LEMMA CommittingFacts ==
    ASSUME IInv, NEW w \in Workers, NEW t \in Tasks, Committing(w, t)
    PROVE  /\ att[w].task = t /\ att[w].pc = "running" /\ ~Locked(t)
           /\ task[t].status = "claimed" /\ thread[t].status = "running"
           /\ job.status \notin JobTerminal
           /\ [att EXCEPT ![w] = Idle] \in [Workers -> Attempt]
<1>1. /\ att[w].task = t /\ att[w].pc = "running" /\ ~Locked(t)
      /\ task[t].status = "claimed" /\ thread[t].status = "running"
  BY HeldRow DEF Committing
<1>2. job.status \notin JobTerminal
  BY <1>1 DEF IInv, TerminalJobQuiesces, TaskLive
<1>3. [att EXCEPT ![w] = Idle] \in [Workers -> Attempt]
  BY ConstantTypes DEF IInv, TypeOK
<1> QED BY <1>1, <1>2, <1>3

\* The thread of a committed task.
LEMMA CompletedThread ==
    ASSUME IInv, NEW t \in Tasks
    PROVE  /\ EndThread(thread[t], "completed") \in ThreadRow
           /\ EndThread(thread[t], "completed").status = "completed"
           /\ EndThread(thread[t], "completed").wake = "none"
<1>1. "completed" \in ThreadStatus
  BY DEF ThreadStatus, ThreadTerminal
<1> QED BY <1>1, Fields DEF EndThread, ThreadRow

\* commit_triage opens its transaction on the row it holds.
LEMMA CommitTriageStep ==
    ASSUME IInv, NEW w \in Workers, NEW t \in Triage,
           NEW r \in {"created", "duplicate"}, CommitTriage(w, t, r)
    PROVE  IInv'
<1>1. t \in Tasks /\ TypeOK
  BY Fields DEF IInv
<1>2. Committing(w, t) /\ BeginTriageEnd(t, CompletedRow(t), "completed", w, r)
      /\ UNCHANGED <<results, commits, healing, faults>>
  BY DEF CommitTriage
<1>3. /\ att[w].task = t /\ att[w].pc = "running" /\ ~Locked(t)
      /\ task[t].status \in TaskLive /\ thread[t].status # "absent"
  BY <1>1, <1>2, CommittingFacts DEF TaskLive
<1>4. CompletedRow(t) \in Row /\ CompletedRow(t).status = "completed"
      /\ CompletedRow(t).token = None
  BY <1>1, CompletedRowShape
<1>5. "completed" \in ThreadTerminal /\ "completed" \in TaskTerminal
      /\ r \in TriageResult /\ r # "none"
  BY DEF ThreadTerminal, TaskTerminal, TriageResult
<1> QED BY <1>2, <1>3, <1>4, <1>5, BeginStep

\* commit_relation_relate: the seal was open, the plan still stands, and
\* nothing of the batch is live, so the job may end.
LEMMA CommitRelationStep ==
    ASSUME IInv, NEW w \in Workers, CommitRelation(w)
    PROVE  IInv'
<1> USE DEF IInv
<1>1. /\ att[w].task = Rel /\ att[w].pc = "running" /\ ~Locked(Rel)
      /\ task[Rel].status = "claimed" /\ thread[Rel].status = "running"
      /\ job.status \notin JobTerminal /\ Rel \in Tasks
      /\ [att EXCEPT ![w] = Idle] \in [Workers -> Attempt]
  BY CommittingFacts, Fields DEF CommitRelation
<1>2. ~job.sealed /\ commits[Rel] = 0
  BY <1>1 DEF EffectsExactlyOnce
<1>3. att[w].plan = ComputeOutcome /\ ComputeOutcome \in JobOutcome
  BY <1>1, OutcomeType DEF PlanStands
<1>4. /\ job' \in [status : JobStatus, outcome : JobOutcome, sealed : BOOLEAN]
      /\ job'.sealed /\ job'.status = "completed" /\ job'.outcome = ComputeOutcome
  <2>1. UpdateStatusIfLive("completed", att[w].plan)
            \in [status : JobStatus, outcome : JobOutcome, sealed : BOOLEAN]
        /\ UpdateStatusIfLive("completed", att[w].plan).status = "completed"
        /\ UpdateStatusIfLive("completed", att[w].plan).outcome = att[w].plan
    BY <1>1, <1>3, JobUpdateType DEF JobStatus, JobTerminal
  <2>2. job' = [UpdateStatusIfLive("completed", att[w].plan) EXCEPT !.sealed = TRUE]
    BY <1>2 DEF CommitRelation
  <2> QED BY <2>1, <2>2, <1>3
<1>5. /\ task' \in [Tasks -> Row] /\ task'[Rel].status = "completed"
      /\ task'[Rel].token = None /\ \A s \in Tasks \ {Rel} : task'[s] = task[s]
  BY <1>1, CompletedRowShape DEF CommitRelation, TypeOK
<1>6. /\ thread' \in [Tasks -> ThreadRow] /\ thread'[Rel].status = "completed"
      /\ thread'[Rel].wake = "none" /\ \A s \in Tasks \ {Rel} : thread'[s] = thread[s]
  BY <1>1, CompletedThread DEF CommitRelation, TypeOK
<1>7. /\ commits' \in [Tasks -> Nat] /\ commits'[Rel] = 1
      /\ \A s \in Tasks \ {Rel} : commits'[s] = commits[s]
  BY <1>1, <1>2 DEF CommitRelation, TypeOK
<1>8. att' = [att EXCEPT ![w] = Idle] /\ UNCHANGED <<txn, results, healing, faults>>
  BY DEF CommitRelation
<1>9. TypeOK'
  BY <1>1, <1>4, <1>5, <1>6, <1>7, <1>8 DEF TypeOK
<1>10. ClaimShape'
  BY <1>5 DEF ClaimShape, TaskLive
<1>11. GivesUp
  BY <1>1, <1>8, ConstantTypes DEF GivesUp, TypeOK
<1>12. AttemptShape' /\ PlanKept
  BY <1>5, <1>8, <1>11, GivesUpAttempts
<1>13. TxnShape'
  BY <1>5, <1>6, <1>8, Fields DEF TxnShape, NoLiveSiblings, TaskLive
<1>14. PairedLifecycle' /\ IntentShape'
  BY <1>5, <1>6
     DEF PairedLifecycle, IntentShape, ThreadLive, ThreadTerminal, TaskLive,
         TaskTerminal
<1>15. /\ task[Ext].status = "completed" /\ TriageTasks # {}
       /\ \A s \in TriageTasks : task[s].status \in TaskTerminal
  BY <1>1 DEF FanInSound
<1>16. TriageTasks' = TriageTasks
  BY <1>5, Fields DEF TriageTasks
<1>17. BatchAfterExtraction' /\ FanInSound' /\ HealingSound'
  BY <1>5, <1>8, <1>15, <1>16, Fields
     DEF BatchAfterExtraction, FanInSound, HealingSound, TriageTasks
<1>18. EffectsExactlyOnce'
  BY <1>4, <1>5, <1>7, <1>8, Fields DEF EffectsExactlyOnce
<1>19. \A s \in Tasks : task'[s].status \notin TaskLive
  BY <1>5, <1>15, Fields DEF TriageTasks, TaskLive, TaskTerminal, Tasks
<1>20. TerminalJobQuiesces' /\ TerminalPastFanIn'
  BY <1>5, <1>13, <1>19, Fields
     DEF TerminalJobQuiesces, TerminalPastFanIn, TxnShape
<1>21. ComputeOutcome' = ComputeOutcome
  BY <1>5, <1>8, Fields, OutcomeKept
<1>22. PlanStands'
  BY <1>12, <1>21 DEF PlanStands, PlanKept
<1>23. OutcomeJustified'
  <2>1. ComputeOutcome # "failure"
    BY DEF ComputeOutcome
  <2> QED BY <2>1, <1>4, <1>5, <1>15, <1>21, Fields DEF OutcomeJustified
<1> QED
  BY <1>9, <1>10, <1>12, <1>13, <1>14, <1>17, <1>18, <1>20, <1>22, <1>23

\* commit_extraction: no triage row, transaction or sweep of this batch can
\* exist before it inserts them.
LEMMA CommitExtractionStep ==
    ASSUME IInv, NEW w \in Workers, NEW S \in SUBSET Triage,
           CommitExtraction(w, S)
    PROVE  IInv'
<1> USE DEF IInv
<1>1. /\ att[w].task = Ext /\ att[w].pc = "running" /\ ~Locked(Ext)
      /\ task[Ext].status = "claimed" /\ thread[Ext].status = "running"
      /\ job.status \notin JobTerminal /\ Ext \in Tasks
      /\ [att EXCEPT ![w] = Idle] \in [Workers -> Attempt]
  BY CommittingFacts, Fields DEF CommitExtraction
<1>2. /\ task[Rel].status = "absent"
      /\ \A s \in Triage : task[s].status = "absent"
  BY <1>1 DEF FanInSound, BatchAfterExtraction
<1>3. /\ \A s \in Triage : ~txn[s].open /\ thread[s].status = "absent"
      /\ "listed" \notin healing
  <2>1. \A s \in Triage : thread[s].status \in ThreadStatus
    BY Fields DEF ThreadRow
  <2>2. \A s \in Triage : thread[s].status = "absent"
    BY <1>2, <2>1, Fields
       DEF PairedLifecycle, ThreadStatus, ThreadLive, ThreadTerminal, TaskLive,
           TaskTerminal
  <2>3. \A s \in Triage : ~txn[s].open
    BY <1>2 DEF TxnShape, TaskLive
  <2> QED BY <1>1, <2>2, <2>3 DEF HealingSound
<1>4. /\ job' \in [status : JobStatus, outcome : JobOutcome, sealed : BOOLEAN]
      /\ job'.sealed = job.sealed
      /\ S = {} => job'.status = "completed" /\ job'.outcome = "empty"
      /\ S # {} => job'.status = "triaging" /\ job'.outcome = "none"
  <2>1. {"completed", "triaging"} \subseteq JobStatus
        /\ {"empty", "none"} \subseteq JobOutcome
    BY DEF JobStatus, JobTerminal, JobOutcome
  <2> QED BY <1>1, <2>1, JobUpdateType DEF CommitExtraction
<1>5. /\ task'[Ext] = CompletedRow(Ext)
      /\ \A s \in S : task'[s] = NewTask
      /\ \A s \in Tasks \ (S \cup {Ext}) : task'[s] = task[s]
      /\ task' = [s \in Tasks |-> task'[s]]
  BY Fields DEF CommitExtraction
<1>6. task' \in [Tasks -> Row]
  BY <1>1, <1>5, CompletedRowShape, ConstantTypes, Fields
<1>7. /\ task'[Ext].status = "completed" /\ task'[Ext].token = None
      /\ \A s \in S : /\ task'[s].status = "queued" /\ task'[s].token = None
                      /\ task'[s].retry = 0
      /\ task'[Rel].status = "absent"
      /\ \A s \in Triage \ S : task'[s].status = "absent"
  BY <1>1, <1>2, <1>5, CompletedRowShape, ConstantTypes, Fields
<1>8. /\ thread' \in [Tasks -> ThreadRow] /\ thread'[Ext].status = "completed"
      /\ thread'[Ext].wake = "none" /\ \A s \in Tasks \ {Ext} : thread'[s] = thread[s]
  BY <1>1, CompletedThread DEF CommitExtraction, TypeOK
<1>9. /\ commits' \in [Tasks -> Nat] /\ commits'[Ext] = 1
      /\ \A s \in Tasks \ {Ext} : commits'[s] = commits[s]
  BY <1>1 DEF CommitExtraction, TypeOK, EffectsExactlyOnce
<1>10. att' = [att EXCEPT ![w] = Idle] /\ UNCHANGED <<txn, results, healing, faults>>
  BY DEF CommitExtraction
<1>11. TypeOK'
  BY <1>1, <1>4, <1>6, <1>8, <1>9, <1>10 DEF TypeOK
<1>12. ClaimShape'
  BY <1>5, <1>7, BudgetAssumption DEF ClaimShape, TaskLive, Tasks
<1>13. GivesUp
  BY <1>1, <1>10, ConstantTypes DEF GivesUp, TypeOK
<1>14. AttemptShape' /\ PlanKept
  BY <1>2, <1>5, <1>7, <1>10, <1>13, GivesUpAttempts
<1>15. TxnShape'
  BY <1>3, <1>10 DEF TxnShape
<1>16. PairedLifecycle' /\ IntentShape'
  <2>1. \A s \in S : thread'[s] = thread[s] /\ thread[s].status = "absent"
                     /\ thread[s].wake = "none"
    BY <1>3, <1>8, Fields DEF PairedLifecycle
  <2>2. PairedLifecycle'
    BY <1>5, <1>7, <1>8, <2>1
       DEF PairedLifecycle, ThreadLive, ThreadTerminal, TaskLive, TaskTerminal
  <2>3. IntentShape'
    BY <1>8 DEF IntentShape
  <2> QED BY <2>2, <2>3
<1>17. TriageTasks' = S
  BY <1>7 DEF TriageTasks
<1>18. BatchAfterExtraction' /\ FanInSound' /\ HealingSound'
  BY <1>3, <1>7, <1>10 DEF BatchAfterExtraction, FanInSound, HealingSound
<1>19. EffectsExactlyOnce'
  <2>1. \A s \in Tasks \ {Ext} :
          task'[s].status = "completed" <=> task[s].status = "completed"
    BY <1>2, <1>5, <1>7, Fields
  <2> QED BY <2>1, <1>4, <1>7, <1>9, <1>10, Fields DEF EffectsExactlyOnce
<1>20. TerminalJobQuiesces' /\ TerminalPastFanIn'
  BY <1>3, <1>4, <1>7, <1>10, <1>17
     DEF TerminalJobQuiesces, TerminalPastFanIn, Tasks, TaskLive, JobTerminal
<1>21. \A v \in Workers : att'[v].pc # "idle" => att'[v].task # Rel
  BY <1>7, <1>14 DEF AttemptShape
<1>22. PlanStands'
  BY <1>21 DEF PlanStands
<1>23. ComputeOutcome' = "empty"
  BY <1>2, <1>10, Fields DEF ComputeOutcome, EffectsExactlyOnce
<1>24. OutcomeJustified'
  BY <1>4, <1>7, <1>23 DEF OutcomeJustified
<1> QED
  BY <1>11, <1>12, <1>14, <1>15, <1>16, <1>18, <1>19, <1>20, <1>22, <1>24

\* Inserting the relation task of a batch that has ended: a second insert
\* leaves the row alone.
LEMMA UpsertShape ==
    ASSUME NEW rows \in [Tasks -> Row]
    PROVE  /\ UpsertRelation(rows) \in [Tasks -> Row]
           /\ \A s \in Tasks \ {Rel} : UpsertRelation(rows)[s] = rows[s]
           /\ rows[Rel].status # "absent" => UpsertRelation(rows)[Rel] = rows[Rel]
           /\ rows[Rel].status = "absent" => UpsertRelation(rows)[Rel] = NewTask
           /\ Rel \in Tasks
<1>1. Rel \in Tasks
  BY DEF Tasks
<1> QED BY <1>1, ConstantTypes DEF UpsertRelation

\* The healing transaction, long after its scan, inserts at most the one
\* relation task the batch is due.
LEMMA HealApplyStep ==
    ASSUME IInv, HealApply
    PROVE  IInv'
<1> USE DEF IInv
<1>1. /\ "listed" \in healing /\ task' = UpsertRelation(task)
      /\ healing' = healing \ {"listed"}
      /\ job' = UpdateStatusIfLive("relating", "none")
      /\ UNCHANGED <<thread, att, txn, results, commits, faults>>
  BY DEF HealApply
<1>2. /\ task' \in [Tasks -> Row] /\ Rel \in Tasks
      /\ \A s \in Tasks \ {Rel} : task'[s] = task[s]
      /\ task[Rel].status # "absent" => task'[Rel] = task[Rel]
      /\ task[Rel].status = "absent" => task'[Rel] = NewTask
  BY <1>1, UpsertShape DEF TypeOK
<1>3. /\ job' \in [status : JobStatus, outcome : JobOutcome, sealed : BOOLEAN]
      /\ job'.sealed = job.sealed
      /\ job.status \in JobTerminal => job' = job
      /\ job.status \notin JobTerminal => job'.status = "relating"
                                          /\ job'.outcome = "none"
  <2>1. "relating" \in JobStatus /\ "none" \in JobOutcome
    BY DEF JobStatus, JobOutcome
  <2> QED BY <1>1, <2>1, JobUpdateType
<1>4. TypeOK'
  BY <1>1, <1>2, <1>3 DEF TypeOK
<1>5. CASE task[Rel].status # "absent"
  <2>1. task' = task
    BY <1>1, <1>5 DEF UpsertRelation
  <2>2. ClaimShape' /\ AttemptShape' /\ PairedLifecycle' /\ IntentShape'
    BY <1>1, <2>1 DEF ClaimShape, AttemptShape, PairedLifecycle, IntentShape
  <2>3. TxnShape'
    BY <1>1, <2>1 DEF TxnShape, NoLiveSiblings
  <2>4. ComputeOutcome' = ComputeOutcome /\ TriageTasks' = TriageTasks
    BY <1>1, <2>1 DEF ComputeOutcome, TriageTasks
  <2>5. BatchAfterExtraction' /\ FanInSound' /\ HealingSound'
    BY <1>1, <2>1, <2>4 DEF BatchAfterExtraction, FanInSound, HealingSound
  <2>6. EffectsExactlyOnce'
    BY <1>1, <1>3, <2>1 DEF EffectsExactlyOnce
  <2>7. TerminalJobQuiesces' /\ TerminalPastFanIn'
    BY <1>1, <1>3, <2>1, <2>4
       DEF TerminalJobQuiesces, TerminalPastFanIn, JobTerminal
  <2>8. PlanStands'
    BY <1>1, <2>4 DEF PlanStands
  <2>9. OutcomeJustified'
    BY <1>3, <2>1, <2>4 DEF OutcomeJustified, JobTerminal
  <2> QED
    BY <1>4, <2>2, <2>3, <2>5, <2>6, <2>7, <2>8, <2>9
<1>6. CASE task[Rel].status = "absent"
  <2>1. job.status \notin JobTerminal
    BY <1>1, <1>6 DEF HealingSound, TerminalPastFanIn
  <2>2. /\ task'[Rel].status = "queued" /\ task'[Rel].token = None
        /\ task'[Rel].retry = 0
    BY <1>2, <1>6, ConstantTypes
  <2>3. thread[Rel].status = "absent" /\ thread[Rel].wake = "none"
    BY <1>2, <1>6, Fields
       DEF PairedLifecycle, ThreadRow, ThreadStatus, ThreadLive, ThreadTerminal,
           TaskLive, TaskTerminal
  <2>4. ClaimShape' /\ PairedLifecycle' /\ IntentShape'
    BY <1>1, <1>2, <2>2, <2>3, BudgetAssumption
       DEF ClaimShape, PairedLifecycle, IntentShape, ThreadLive, ThreadTerminal,
           TaskLive
  <2>5. AttemptShape' /\ TxnShape'
    BY <1>1, <1>2, <2>2, Fields
       DEF AttemptShape, TxnShape, NoLiveSiblings
  <2>6. TriageTasks' = TriageTasks
    BY <1>2, Fields DEF TriageTasks
  <2>7. BatchAfterExtraction' /\ FanInSound' /\ HealingSound'
    BY <1>1, <1>2, <2>6, Fields
       DEF BatchAfterExtraction, FanInSound, HealingSound, TriageTasks
  <2>8. EffectsExactlyOnce'
    BY <1>1, <1>2, <1>3, <1>6, <2>2, Fields DEF EffectsExactlyOnce
  <2>9. TerminalJobQuiesces' /\ TerminalPastFanIn'
    BY <1>3, <2>1 DEF TerminalJobQuiesces, TerminalPastFanIn, JobTerminal
  <2>10. \A v \in Workers : att'[v].pc # "idle" => att'[v].task # Rel
    BY <1>1, <1>6 DEF AttemptShape
  <2>11. PlanStands'
    BY <2>10 DEF PlanStands
  <2>12. OutcomeJustified'
    BY <1>3, <2>1 DEF OutcomeJustified
  <2> QED
    BY <1>4, <2>4, <2>5, <2>7, <2>8, <2>9, <2>11, <2>12
<1> QED BY <1>5, <1>6

\* find_stuck_triaging_jobs lists only batches that have ended.
LEMMA HealScanStep ==
    ASSUME IInv, HealScan
    PROVE  IInv'
<1> USE DEF IInv, HealScan
<1>1. TypeOK' /\ ClaimShape' /\ AttemptShape' /\ PairedLifecycle' /\ IntentShape'
  BY DEF TypeOK, HealWork, ClaimShape, AttemptShape, PairedLifecycle, IntentShape
<1>2. TxnShape'
  BY DEF TxnShape, NoLiveSiblings
<1>3. HealingSound'
  BY DEF StuckTriaging, HealingSound, BatchAfterExtraction, TriageTasks
<1>4. ComputeOutcome' = ComputeOutcome /\ TriageTasks' = TriageTasks
  BY DEF ComputeOutcome, TriageTasks
<1>5. BatchAfterExtraction' /\ FanInSound' /\ EffectsExactlyOnce'
  BY <1>4 DEF BatchAfterExtraction, FanInSound, EffectsExactlyOnce
<1>6. TerminalJobQuiesces' /\ TerminalPastFanIn'
  BY <1>4 DEF TerminalJobQuiesces, TerminalPastFanIn
<1>7. PlanStands' /\ OutcomeJustified'
  BY <1>4 DEF PlanStands, OutcomeJustified
<1> QED BY <1>1, <1>2, <1>3, <1>5, <1>6, <1>7

\* What the sweeps have still to do may change while every row is as it was.
LEMMA AgendaStep ==
    ASSUME IInv, UNCHANGED <<job, task, thread, att, txn, results, commits>>,
           faults' \in 0..MaxFaults, ListKept
    PROVE  IInv'
<1> USE DEF IInv
<1>1. TypeOK'
  BY DEF TypeOK, ListKept
<1>2. ClaimShape' /\ AttemptShape' /\ PairedLifecycle' /\ IntentShape'
  BY DEF ClaimShape, AttemptShape, PairedLifecycle, IntentShape
<1>3. TxnShape'
  BY DEF TxnShape, NoLiveSiblings
<1>4. ComputeOutcome' = ComputeOutcome /\ TriageTasks' = TriageTasks
  BY DEF ComputeOutcome, TriageTasks
<1>5. BatchAfterExtraction' /\ FanInSound' /\ HealingSound' /\ EffectsExactlyOnce'
  BY <1>4
     DEF BatchAfterExtraction, FanInSound, HealingSound, ListKept,
         EffectsExactlyOnce
<1>6. TerminalJobQuiesces' /\ TerminalPastFanIn'
  BY <1>4 DEF TerminalJobQuiesces, TerminalPastFanIn
<1>7. PlanStands' /\ OutcomeJustified'
  BY <1>4 DEF PlanStands, OutcomeJustified
<1> QED BY <1>1, <1>2, <1>3, <1>5, <1>6, <1>7

\* A heal that fails, of either kind, leaves every row as it was.
LEMMA HealLostStep ==
    ASSUME IInv, HealLost \/ HealForgone
    PROVE  IInv'
<1>1. faults' \in 0..MaxFaults
  BY PipelineAssumption DEF HealLost, HealForgone, IInv, TypeOK
<1>2. ListKept
  BY DEF HealLost, HealForgone, ListKept, HealWork, IInv, TypeOK
<1> QED BY <1>1, <1>2, AgendaStep DEF HealLost, HealForgone

\* fail_stale_dead_lettered_jobs: a dead singleton leaves nothing live.
LEMMA FailStaleStep ==
    ASSUME IInv, DeadLettered, job.status \notin JobTerminal,
           job' = fail_stale_dead_lettered_jobs, ListKept,
           UNCHANGED <<task, thread, att, txn, results, commits, faults>>
    PROVE  IInv'
<1> USE DEF IInv
<1>1. /\ \E t \in {Ext, Rel} : task[t].status = "dead_letter"
      /\ job.status \notin JobTerminal
      /\ job' = UpdateStatusIfLive("failed", "failure")
      /\ UNCHANGED <<task, thread, att, txn, results, commits, faults>>
  BY DEF DeadLettered, fail_stale_dead_lettered_jobs
<1>2. /\ job' \in [status : JobStatus, outcome : JobOutcome, sealed : BOOLEAN]
      /\ job'.sealed = job.sealed
      /\ job'.status = "failed" /\ job'.outcome = "failure"
  <2>1. "failed" \in JobStatus /\ "failure" \in JobOutcome
    BY DEF JobStatus, JobTerminal, JobOutcome
  <2> QED BY <1>1, <2>1, JobUpdateType
<1>3. TypeOK' /\ ClaimShape' /\ AttemptShape' /\ PairedLifecycle' /\ IntentShape'
  BY <1>1, <1>2
     DEF TypeOK, ListKept, ClaimShape, AttemptShape, PairedLifecycle, IntentShape
<1>4. TxnShape'
  BY <1>1 DEF TxnShape, NoLiveSiblings
<1>5. ComputeOutcome' = ComputeOutcome /\ TriageTasks' = TriageTasks
  BY <1>1 DEF ComputeOutcome, TriageTasks
<1>6. BatchAfterExtraction' /\ FanInSound' /\ HealingSound'
  BY <1>1, <1>5 DEF BatchAfterExtraction, FanInSound, HealingSound, ListKept
<1>7. EffectsExactlyOnce' /\ PlanStands'
  BY <1>1, <1>2, <1>5 DEF EffectsExactlyOnce, PlanStands
<1>8. /\ \A s \in Tasks : task[s].status \notin TaskLive
      /\ TriageTasks = {} \/ task[Rel].status # "absent"
  <2>1. CASE task[Ext].status = "dead_letter"
    BY <2>1
       DEF FanInSound, BatchAfterExtraction, TriageTasks, Tasks, TaskLive
  <2>2. CASE task[Rel].status = "dead_letter"
    BY <2>2 DEF FanInSound, TriageTasks, Tasks, TaskLive, TaskTerminal
  <2> QED BY <1>1, <2>1, <2>2
<1>9. TerminalJobQuiesces' /\ TerminalPastFanIn'
  BY <1>1, <1>4, <1>5, <1>8, Fields
     DEF TerminalJobQuiesces, TerminalPastFanIn, TxnShape
<1>10. OutcomeJustified'
  BY <1>1, <1>2 DEF OutcomeJustified
<1> QED BY <1>3, <1>4, <1>6, <1>7, <1>9, <1>10

\* heal_dead_lettered_jobs, after a bulk pass or as a process starts.
LEMMA HealDeadLetteredStep ==
    ASSUME IInv, HealDeadLettered \/ HealAtStart
    PROVE  IInv'
<1>1. /\ job' = fail_stale_dead_lettered_jobs
      /\ UNCHANGED <<task, thread, att, txn, results, commits, faults>>
  BY DEF HealDeadLettered, HealAtStart
<1>2. ListKept
  BY DEF HealDeadLettered, HealAtStart, ListKept, IInv, TypeOK
<1>3. CASE DeadLettered /\ job.status \notin JobTerminal
  BY <1>1, <1>2, <1>3, FailStaleStep
<1>4. CASE ~(DeadLettered /\ job.status \notin JobTerminal)
  <2>1. job' = job
    BY <1>1, <1>4 DEF fail_stale_dead_lettered_jobs, UpdateStatusIfLive
  <2>2. faults' \in 0..MaxFaults
    BY <1>1 DEF IInv, TypeOK
  <2> QED BY <1>1, <1>2, <2>1, <2>2, AgendaStep
<1> QED BY <1>3, <1>4

\* The commit the races are about: whichever transaction counted no live
\* sibling inserts the relation task, and its count is still true.
LEMMA CommitTxnStep ==
    ASSUME IInv, NEW t \in Triage, CommitTxn(t)
    PROVE  IInv'
<1> DEFINE x == txn[t]
           rows == [task EXCEPT ![t] = x.row]
<1> USE DEF IInv
<1>1. /\ x.open
      /\ task' = IF x.last THEN UpsertRelation(rows) ELSE rows
      /\ job' = IF x.last THEN UpdateStatusIfLive("relating", "none") ELSE job
      /\ thread' = [thread EXCEPT ![t] = EndThread(@, x.thread)]
      /\ results' = [results EXCEPT ![t] = x.result]
      /\ commits' = [commits EXCEPT ![t] = @ + IF x.result = "none" THEN 0 ELSE 1]
      /\ att' = [w \in Workers |-> IF w = x.by THEN Idle ELSE att[w]]
      /\ txn' = [txn EXCEPT ![t] = NoTxn]
      /\ UNCHANGED <<healing, faults>>
  BY DEF CommitTxn
<1>2. /\ x.row \in Row /\ x.thread \in ThreadStatus /\ x.result \in TriageResult
      /\ task[t].status \in TaskLive /\ t \in Tasks
      /\ x.row.status \in TaskTerminal /\ x.row.token = None
      /\ x.thread \in ThreadTerminal \cup {"absent"}
      /\ x.thread = "absent" <=> thread[t].status = "absent"
      /\ x.thread = "completed" <=> x.row.status = "completed"
      /\ x.result # "none" <=> x.row.status = "completed"
      /\ x.last => NoLiveSiblings(t)
  BY <1>1, Fields DEF TypeOK, Txn, TxnShape
<1>3. /\ job.status \notin JobTerminal /\ "listed" \notin healing
      /\ task[Ext].status = "completed" /\ task[Rel].status = "absent"
  BY <1>2
     DEF TerminalJobQuiesces, HealingSound, FanInSound, BatchAfterExtraction,
         TriageTasks, TaskLive, TaskTerminal
<1>4. rows \in [Tasks -> Row] /\ rows[t] = x.row
      /\ \A s \in Tasks \ {t} : rows[s] = task[s]
  BY <1>2 DEF TypeOK
<1>5. /\ task' \in [Tasks -> Row] /\ task'[t] = x.row
      /\ \A s \in Tasks \ {t, Rel} : task'[s] = task[s]
      /\ x.last => task'[Rel] = NewTask
      /\ ~x.last => task'[Rel] = task[Rel]
  <2> HIDE DEF rows
  <2> QED BY <1>1, <1>2, <1>3, <1>4, UpsertShape, Fields
<1>6. /\ job' \in [status : JobStatus, outcome : JobOutcome, sealed : BOOLEAN]
      /\ job'.sealed = job.sealed
      /\ job' = job \/ (job'.status = "relating" /\ job'.outcome = "none")
  <2>1. "relating" \in JobStatus /\ "none" \in JobOutcome
    BY DEF JobStatus, JobOutcome
  <2> QED BY <1>1, <1>3, <2>1, JobUpdateType DEF TypeOK
<1>7. /\ EndThread(thread[t], x.thread) \in ThreadRow
      /\ EndThread(thread[t], x.thread).status = x.thread
      /\ EndThread(thread[t], x.thread).wake = "none"
      /\ EndThread(thread[t], x.thread).intent = thread[t].intent
  BY <1>2, Fields DEF EndThread, ThreadRow
<1>8. /\ thread' \in [Tasks -> ThreadRow]
      /\ thread'[t].status = x.thread /\ thread'[t].wake = "none"
      /\ thread'[t].intent = thread[t].intent
      /\ \A s \in Tasks \ {t} : thread'[s] = thread[s]
  BY <1>1, <1>2, <1>7 DEF TypeOK
<1>9. /\ results' \in [Triage -> TriageResult] /\ results'[t] = x.result
      /\ \A s \in Triage \ {t} : results'[s] = results[s]
  BY <1>1, <1>2 DEF TypeOK
<1>10. /\ commits' \in [Tasks -> Nat]
       /\ commits'[t] = IF x.row.status = "completed" THEN 1 ELSE 0
       /\ \A s \in Tasks \ {t} : commits'[s] = commits[s]
  <2>1. commits[t] = 0
    BY <1>2 DEF EffectsExactlyOnce, TaskLive
  <2> QED BY <2>1, <1>1, <1>2 DEF TypeOK
<1>11. att' \in [Workers -> Attempt] /\ txn' \in [Triage -> Txn]
       /\ ~txn'[t].open /\ \A s \in Triage \ {t} : txn'[s] = txn[s]
  BY <1>1, ConstantTypes DEF TypeOK
<1>12. TypeOK'
  BY <1>1, <1>5, <1>6, <1>8, <1>9, <1>10, <1>11 DEF TypeOK
<1>13. /\ x.last => /\ task'[Rel].status = "queued" /\ task'[Rel].token = None
                    /\ task'[Rel].retry = 0
       /\ ~x.last => task'[Rel].status = "absent"
  BY <1>3, <1>5, ConstantTypes
<1>14. ClaimShape'
  <2>1. \A s \in Tasks \ {t, Rel} :
          /\ task'[s].token # None <=> task'[s].status = "claimed"
          /\ task'[s].status \in TaskLive => task'[s].retry <= MaxRetries
    BY <1>5 DEF ClaimShape
  <2>2. /\ task'[t].token # None <=> task'[t].status = "claimed"
        /\ task'[t].status \in TaskLive => task'[t].retry <= MaxRetries
    BY <1>2, <1>5 DEF TaskLive, TaskTerminal
  <2>3. /\ task'[Rel].token # None <=> task'[Rel].status = "claimed"
        /\ task'[Rel].status \in TaskLive => task'[Rel].retry <= MaxRetries
    BY <1>3, <1>5, <1>13, Fields, BudgetAssumption DEF ClaimShape, TaskLive
  <2> QED BY <2>1, <2>2, <2>3 DEF ClaimShape
<1>15. \A s \in Tasks : task[s].status # "absent" => task'[s].status # "absent"
  BY <1>2, <1>3, <1>5 DEF TaskTerminal
<1>16. AttemptShape'
  <2>1. \A w \in Workers : att'[w] = att[w] \/ (att'[w] = Idle /\ x.by = w)
    BY <1>1
  <2>2. \A w \in Workers : x.by = w => att[w].pc = "ending" /\ att[w].task = t
    BY <1>1 DEF AttemptShape
  <2>3. \A w \in Workers, u \in Triage :
          txn'[u].open /\ txn'[u].by = w => txn[u].open /\ u # t /\ txn[u].by = w
    BY <1>11
  <2> QED
    BY <2>1, <2>2, <2>3, <1>15, ConstantTypes DEF AttemptShape
<1>17. TxnShape'
  <2> SUFFICES ASSUME NEW u \in Triage \ {t}, txn[u].open
               PROVE  /\ task'[u] = task[u] /\ thread'[u] = thread[u]
                      /\ NoLiveSiblings(u) => NoLiveSiblings(u)'
    BY <1>11 DEF TxnShape
  <2>1. task'[u] = task[u] /\ thread'[u] = thread[u]
    BY <1>5, <1>8, Fields
  <2>2. \A s \in Triage : task'[s].status \in TaskLive => task[s].status \in TaskLive
    BY <1>2, <1>5, Fields
  <2> QED BY <2>1, <2>2 DEF NoLiveSiblings
<1>18. thread[Rel].status = "absent" /\ thread[Rel].wake = "none"
  BY <1>3, Fields
     DEF PairedLifecycle, ThreadRow, ThreadStatus, ThreadLive, ThreadTerminal,
         TaskLive, TaskTerminal
<1>19. PairedLifecycle'
  <2> DEFINE P(s) ==
        /\ thread'[s].status = "suspended" <=> task'[s].status = "blocked"
        /\ thread'[s].status = "suspended" <=> thread'[s].wake # "none"
        /\ thread'[s].status = "completed" <=> task'[s].status = "completed"
        /\ thread'[s].status \in ThreadTerminal => task'[s].status \in TaskTerminal
        /\ thread'[s].status \in ThreadLive => task'[s].status \in TaskLive
  <2>1. P(t)
    BY <1>2, <1>5, <1>8 DEF ThreadTerminal, ThreadLive, TaskTerminal, TaskLive
  <2>2. P(Rel)
    BY <1>8, <1>13, <1>18, Fields DEF ThreadTerminal, ThreadLive
  <2>3. \A s \in Tasks \ {t, Rel} : P(s)
    BY <1>5, <1>8 DEF PairedLifecycle
  <2> QED BY <2>1, <2>2, <2>3 DEF PairedLifecycle
<1>20. IntentShape'
  BY <1>2, <1>8 DEF IntentShape
<1>21. \A s \in Triage : task'[s].status = "absent" <=> task[s].status = "absent"
  BY <1>2, <1>5, Fields DEF TaskLive, TaskTerminal
<1>22. TriageTasks' = TriageTasks /\ TriageTasks # {}
  BY <1>2, <1>21 DEF TriageTasks, TaskLive
<1>23. FanInSound'
  <2>1. x.last => \A s \in TriageTasks : task'[s].status \in TaskTerminal
    <3>1. \A s \in Triage : task[s].status \in TaskStatus
      BY Fields DEF Row
    <3> QED
      BY <3>1, <1>2, <1>5, Fields
         DEF NoLiveSiblings, TriageTasks, TaskStatus
  <2>2. task'[Ext] = task[Ext]
    BY <1>5, Fields
  <2> QED BY <2>1, <2>2, <1>3, <1>13, <1>22 DEF FanInSound
<1>24. BatchAfterExtraction' /\ HealingSound'
  BY <1>1, <1>3, <1>5, Fields DEF BatchAfterExtraction, HealingSound
<1>25. EffectsExactlyOnce'
  <2>1. \A s \in Tasks \ {t} :
          task'[s].status = "completed" <=> task[s].status = "completed"
    BY <1>3, <1>5, <1>13
  <2>2. /\ \A s \in Tasks :
             commits'[s] = IF task'[s].status = "completed" THEN 1 ELSE 0
    BY <2>1, <1>5, <1>10 DEF EffectsExactlyOnce
  <2>3. \A s \in Triage : results'[s] # "none" <=> task'[s].status = "completed"
    BY <2>1, <1>2, <1>5, <1>9, Fields DEF EffectsExactlyOnce
  <2>4. job'.sealed <=> task'[Rel].status = "completed"
    BY <2>1, <1>6, Fields DEF EffectsExactlyOnce
  <2> QED BY <2>2, <2>3, <2>4 DEF EffectsExactlyOnce
<1>26. job'.status \notin JobTerminal
  BY <1>3, <1>6 DEF JobTerminal
<1>27. TerminalJobQuiesces' /\ TerminalPastFanIn'
  BY <1>26 DEF TerminalJobQuiesces, TerminalPastFanIn
<1>28. \A w \in Workers : att'[w].pc # "idle" => att'[w].task # Rel
  BY <1>1, <1>3, ConstantTypes DEF AttemptShape
<1>29. PlanStands'
  BY <1>28 DEF PlanStands
<1>30. OutcomeJustified'
  BY <1>3, <1>6, <1>26 DEF OutcomeJustified, JobTerminal
<1> QED
  BY <1>12, <1>14, <1>16, <1>17, <1>19, <1>20, <1>23, <1>24, <1>25, <1>27,
     <1>29, <1>30

-----------------------------------------------------------------------------
(* What is over stays over.                                                 *)

\* The step relation of TerminalAbsorbing.
Absorbs ==
    /\ job.status \in JobTerminal =>
        job'.status = job.status /\ job'.outcome = job.outcome
    /\ \A t \in Tasks :
        /\ task[t].status \in TaskTerminal => task'[t].status = task[t].status
        /\ thread[t].status \in ThreadTerminal =>
            thread'[t].status = thread[t].status

\* A step on a live task finds its thread and its job live too.
LEMMA LiveAbsorbs ==
    ASSUME IInv, NEW t \in Tasks, task[t].status \in TaskLive,
           \A s \in Tasks \ {t} : task'[s].status = task[s].status
                                  /\ thread'[s].status = thread[s].status
    PROVE  Absorbs
<1>1. job.status \notin JobTerminal
  BY DEF IInv, TerminalJobQuiesces
<1>2. task[t].status \notin TaskTerminal /\ thread[t].status \notin ThreadTerminal
  BY DEF IInv, PairedLifecycle, TaskLive, TaskTerminal
<1> QED BY <1>1, <1>2 DEF Absorbs

\* Dead-lettering reopens nothing.
LEMMA DeadLetterAbsorbs ==
    ASSUME IInv, NEW t \in Tasks, task[t].status \in TaskLive,
           NEW row, NEW th, NEW by, DeadLetter(t, row, th, by)
    PROVE  Absorbs
<1>1. \A s \in Tasks \ {t} : task'[s].status = task[s].status
                             /\ thread'[s].status = thread[s].status
  BY DEF DeadLetter, BeginTriageEnd, IInv, TypeOK
<1> QED BY <1>1, LiveAbsorbs

\* No step of an attempt reopens anything.
LEMMA DispatchAbsorbs ==
    ASSUME IInv, NEW w \in Workers, Dispatch(w)
    PROVE  Absorbs
<1> DEFINE t == att[w].task
           Frame == \A s \in Tasks \ {t} : task'[s].status = task[s].status
                                           /\ thread'[s].status = thread[s].status
<1>1. HoldsClaim(w) => t \in Tasks /\ task[t].status \in TaskLive
  BY HeldRow DEF TaskLive
<1>2. HoldsClaim(w) /\ Frame => Absorbs
  BY <1>1, LiveAbsorbs
<1>3. CASE LoadJob(w) \/ Adopt(w) \/ Abandon(w)
  BY <1>3 DEF LoadJob, Adopt, Abandon, Absorbs
<1>4. CASE WriteStatus(w)
  <2>1. job.status \in JobTerminal => job' = job
    BY <1>4 DEF WriteStatus, UpdateStatusIfLive
  <2> QED BY <1>4, <2>1 DEF WriteStatus, Absorbs
<1>5. CASE CreateThread(w) \/ MarkRunning(w) \/ Progress(w)
  <2>1. HoldsClaim(w)
    BY <1>5 DEF CreateThread, MarkRunning, Progress
  <2>2. Frame
    BY <1>5 DEF CreateThread, MarkRunning, Progress, IInv, TypeOK
  <2> QED BY <2>1, <2>2, <1>2
<1>6. ASSUME NEW wake \in {"timer", "child"}, Suspend(w, wake) PROVE Absorbs
  <2>1. HoldsClaim(w)
    BY <1>6 DEF Suspend
  <2>2. Frame
    BY <1>6 DEF Suspend, IInv, TypeOK
  <2> QED BY <2>1, <2>2, <1>2
<1>7. CASE Dispose(w)
  BY <1>1, <1>7, DeadLetterAbsorbs DEF Dispose
<1>8. ASSUME NEW S \in SUBSET Triage, CommitExtraction(w, S) PROVE Absorbs
  <2>1. task[Ext].status = "claimed" /\ Ext \in Tasks /\ job.status \notin JobTerminal
    BY <1>8, CommittingFacts, Fields DEF CommitExtraction
  <2>2. \A s \in Triage : task[s].status = "absent"
    BY <2>1 DEF IInv, BatchAfterExtraction
  <2>3. task[Ext].status \notin TaskTerminal
        /\ thread[Ext].status \notin ThreadTerminal
    BY <2>1 DEF IInv, PairedLifecycle, TaskTerminal
  <2>4. \A s \in Tasks \ {Ext} : thread'[s] = thread[s]
    BY <1>8 DEF CommitExtraction, IInv, TypeOK
  <2>5. \A s \in Tasks \ {Ext} : task[s].status \in TaskTerminal => task'[s] = task[s]
    BY <1>8, <2>2 DEF CommitExtraction, TaskTerminal
  <2> QED BY <2>1, <2>3, <2>4, <2>5 DEF Absorbs
<1>9. ASSUME NEW u \in Triage, NEW r \in {"created", "duplicate"},
             CommitTriage(w, u, r)
      PROVE  Absorbs
  BY <1>9 DEF CommitTriage, BeginTriageEnd, Absorbs
<1>10. CASE CommitRelation(w)
  <2>1. HoldsClaim(w) /\ t = Rel
    BY <1>10 DEF CommitRelation, Committing
  <2>2. Frame
    BY <1>10, <2>1 DEF CommitRelation, IInv, TypeOK
  <2> QED BY <2>1, <2>2, <1>2
<1>11. ASSUME NEW o \in {"retryable", "terminal"}, Fail(w, o) PROVE Absorbs
  <2>1. HoldsClaim(w)
    BY <1>11 DEF Fail
  <2>2. CASE \E row, th : DeadLetter(t, row, th, w)
    BY <2>1, <2>2, <1>1, DeadLetterAbsorbs
  <2>3. CASE ~\E row, th : DeadLetter(t, row, th, w)
    <3>1. \E row, c : /\ task' = [task EXCEPT ![t] = row]
                      /\ thread' = thread \/ thread' = [thread EXCEPT ![t].recovery = c]
      BY <1>11, <2>3 DEF Fail, FailUnthreaded, ApplyDisposition
    <3>2. Frame
      BY <3>1 DEF IInv, TypeOK
    <3> QED BY <2>1, <3>2, <1>2
  <2> QED BY <2>2, <2>3
<1> QED
  BY <1>3, <1>4, <1>5, <1>6, <1>7, <1>8, <1>9, <1>10, <1>11
     DEF Dispatch

\* No sweep, wake or cancellation reopens anything.
LEMMA SweepAbsorbs ==
    ASSUME IInv, NEW t \in Tasks,
           \/ Lapse(t) \/ Reclaim(t) \/ Wake(t)
           \/ RequestCancel(t) \/ CancelSweep(t)
    PROVE  Absorbs
<1>1. CASE Lapse(t) \/ ReclaimBulk(t)
  <2>1. task[t].status \in TaskLive
    BY <1>1 DEF Lapse, ReclaimBulk, TaskLive
  <2>2. \A s \in Tasks \ {t} : task'[s] = task[s] /\ thread'[s] = thread[s]
    BY <1>1 DEF Lapse, ReclaimBulk, IInv, TypeOK
  <2> QED BY <2>1, <2>2, LiveAbsorbs
<1>2. CASE ReclaimThreadDriving(t)
  <2>1. task[t].status \in TaskLive
    BY <1>2 DEF ReclaimThreadDriving, TaskLive
  <2>2. CASE DeadLetter(t, DeadRow(t), "dead_letter", None)
    BY <2>1, <2>2, DeadLetterAbsorbs
  <2>3. CASE ~DeadLetter(t, DeadRow(t), "dead_letter", None)
    <3>1. \A s \in Tasks \ {t} : task'[s] = task[s] /\ thread'[s] = thread[s]
      BY <1>2, <2>3 DEF ReclaimThreadDriving, IInv, TypeOK
    <3> QED BY <2>1, <3>1, LiveAbsorbs
  <2> QED BY <2>2, <2>3
<1>3. CASE Wake(t)
  <2>1. task[t].status \in TaskLive
    BY <1>3 DEF Wake, WakeTimer, HandBack, IInv, PairedLifecycle, TaskLive
  <2>2. \A s \in Tasks \ {t} : task'[s] = task[s] /\ thread'[s] = thread[s]
    BY <1>3 DEF Wake, WakeTimer, HandBack, IInv, TypeOK
  <2> QED BY <2>1, <2>2, LiveAbsorbs
<1>4. CASE RequestCancel(t)
  BY <1>4 DEF RequestCancel, Absorbs, IInv, TypeOK, ThreadRow
<1>5. CASE CancelSweep(t)
  BY <1>5, DeadLetterAbsorbs DEF CancelSweep
<1> QED BY <1>1, <1>2, <1>3, <1>4, <1>5 DEF Reclaim

\* No step of the system reopens anything.
LEMMA NextAbsorbs == ASSUME IInv, [Next]_vars PROVE Absorbs
<1>1. CASE UNCHANGED vars
  BY <1>1 DEF vars, Absorbs
<1>2. ASSUME NEW w \in Workers, Heartbeat(w) \/ Crash(w) PROVE Absorbs
  <2>1. CASE Crash(w)
    BY <2>1 DEF Crash, Absorbs
  <2>2. CASE Heartbeat(w)
    <3>1. att[w].task \in Tasks /\ task[att[w].task].status \in TaskLive
      BY <2>2, HeldRow DEF Heartbeat, TaskLive
    <3>2. \A s \in Tasks \ {att[w].task} : task'[s] = task[s] /\ thread'[s] = thread[s]
      BY <2>2 DEF Heartbeat, IInv, TypeOK
    <3> QED BY <3>1, <3>2, LiveAbsorbs
  <2> QED BY <1>2, <2>1, <2>2
<1>3. ASSUME NEW w \in Workers, NEW t \in Tasks, Claim(w, t) PROVE Absorbs
  <2>1. task[t].status \in TaskLive
    BY <1>3 DEF Claim, TaskLive
  <2>2. \A s \in Tasks \ {t} : task'[s] = task[s] /\ thread'[s] = thread[s]
    BY <1>3 DEF Claim, IInv, TypeOK
  <2> QED BY <2>1, <2>2, LiveAbsorbs
<1>4. ASSUME NEW t \in Triage, CommitTxn(t) PROVE Absorbs
  <2>1. t \in Tasks /\ task[t].status \in TaskLive
    BY <1>4, Fields DEF CommitTxn, IInv, TxnShape
  <2>2. task[Rel].status = "absent" /\ task[Rel].status \notin TaskTerminal
    BY <2>1 DEF IInv, FanInSound, TriageTasks, TaskLive, TaskTerminal
  <2>3. job.status \notin JobTerminal /\ task[t].status \notin TaskTerminal
        /\ thread[t].status \notin ThreadTerminal
    BY <2>1
       DEF IInv, TerminalJobQuiesces, PairedLifecycle, TaskLive, TaskTerminal
  <2>4. \A s \in Tasks \ {t, Rel} : task'[s] = task[s]
    BY <1>4 DEF CommitTxn, UpsertRelation, IInv, TypeOK
  <2>5. \A s \in Tasks \ {t} : thread'[s] = thread[s]
    BY <1>4 DEF CommitTxn, IInv, TypeOK
  <2> QED BY <2>2, <2>3, <2>4, <2>5 DEF Absorbs
<1>5. ASSUME NEW t \in Triage, AbortTxn(t) PROVE Absorbs
  BY <1>5 DEF AbortTxn, Absorbs
<1>6. CASE HealScan \/ HealLost \/ HealForgone
  BY <1>6 DEF HealScan, HealLost, HealForgone, Absorbs
<1>8. CASE HealDeadLettered \/ HealAtStart
  <2>1. job.status \in JobTerminal => job' = job
    BY <1>8
       DEF HealDeadLettered, HealAtStart, fail_stale_dead_lettered_jobs,
           UpdateStatusIfLive
  <2> QED BY <1>8, <2>1 DEF HealDeadLettered, HealAtStart, Absorbs
<1>7. CASE HealApply
  <2>1. job.status \in JobTerminal => job' = job
    BY <1>7 DEF HealApply, UpdateStatusIfLive
  <2>2. \A s \in Tasks : task[s].status \in TaskTerminal => task'[s] = task[s]
    BY <1>7 DEF HealApply, UpsertRelation, IInv, TypeOK, TaskTerminal
  <2> QED BY <1>7, <2>1, <2>2 DEF HealApply, Absorbs
<1> QED
  BY <1>1, <1>2, <1>3, <1>4, <1>5, <1>6, <1>7, <1>8, DispatchAbsorbs,
     SweepAbsorbs
     DEF Next, Heal

-----------------------------------------------------------------------------
(* The theorems.                                                            *)

\* The admitted job satisfies the invariant (ingest handler).
LEMMA InitInvariant == ASSUME Init PROVE IInv
<1> USE DEF Init
<1>1. /\ task[Ext] = NewTask /\ \A t \in Tasks \ {Ext} : task[t] = NoRow
      /\ \A t \in Tasks : thread[t] = NoThread
      /\ \A w \in Workers : att[w] = Idle
      /\ \A t \in Triage : txn[t] = NoTxn
      /\ Ext \in Tasks /\ Rel \in Tasks \ {Ext} /\ Triage \subseteq Tasks \ {Ext}
  BY PipelineAssumption DEF Tasks
<1>2. TypeOK
  <2>1. job \in [status : JobStatus, outcome : JobOutcome, sealed : BOOLEAN]
    BY DEF JobStatus, JobOutcome
  <2>2. task \in [Tasks -> Row] /\ thread \in [Tasks -> ThreadRow]
    BY ConstantTypes
  <2>3. att \in [Workers -> Attempt] /\ txn \in [Triage -> Txn]
    BY ConstantTypes
  <2>4. results \in [Triage -> TriageResult] /\ commits \in [Tasks -> Nat]
    BY DEF TriageResult
  <2>5. healing \subseteq HealWork
    OBVIOUS
  <2>6. faults \in 0..MaxFaults
    BY PipelineAssumption
  <2> QED BY <2>1, <2>2, <2>3, <2>4, <2>5, <2>6 DEF TypeOK
<1>3. ClaimShape /\ AttemptShape /\ TxnShape
  <2>1. ClaimShape
    BY <1>1, ConstantTypes, BudgetAssumption DEF ClaimShape, TaskLive
  <2>2. AttemptShape /\ TxnShape
    BY <1>1, ConstantTypes DEF AttemptShape, TxnShape
  <2> QED BY <2>1, <2>2
<1>4. PairedLifecycle
  BY <1>1, ConstantTypes DEF PairedLifecycle, ThreadTerminal, ThreadLive
<1>5. IntentShape
  BY <1>1 DEF IntentShape, NoThread
<1>6. \A t \in Triage : task[t].status = "absent"
  BY <1>1, ConstantTypes
<1>7. BatchAfterExtraction /\ FanInSound /\ HealingSound
  BY <1>1, <1>6, ConstantTypes DEF BatchAfterExtraction, FanInSound, HealingSound
<1>8. EffectsExactlyOnce
  BY <1>1, ConstantTypes DEF EffectsExactlyOnce
<1>9. TerminalJobQuiesces /\ TerminalPastFanIn
  BY DEF TerminalJobQuiesces, TerminalPastFanIn, JobTerminal
<1>10. PlanStands
  BY <1>1, ConstantTypes DEF PlanStands
<1>11. OutcomeJustified
  BY DEF OutcomeJustified
<1> QED
  BY <1>2, <1>3, <1>4, <1>5, <1>7, <1>8, <1>9, <1>10, <1>11 DEF IInv

\* Every step of the fleet, its sweeps and its faults keeps the invariant.
LEMMA NextInvariant == ASSUME IInv, [Next]_vars PROVE IInv'
<1>1. CASE UNCHANGED vars
  <2>1. TypeOK' /\ ClaimShape' /\ AttemptShape' /\ PairedLifecycle' /\ IntentShape'
    BY <1>1
       DEF vars, IInv, TypeOK, ClaimShape, AttemptShape, PairedLifecycle,
           IntentShape
  <2>2. TxnShape'
    BY <1>1 DEF vars, IInv, TxnShape, NoLiveSiblings
  <2>3. Quiet
    BY <1>1 DEF vars, IInv, Quiet, SameStanding, JobKept, PlanStands, PlanKept
  <2> QED BY <2>1, <2>2, <2>3, QuietStep DEF Shapes
<1>2. ASSUME NEW w \in Workers, Dispatch(w) PROVE IInv'
  BY <1>2, LoadJobStep, WriteStatusStep, CreateThreadStep, MarkRunningStep,
     AdoptStep, ProgressStep, SuspendStep, DisposeStep, CommitExtractionStep,
     CommitTriageStep, CommitRelationStep, FailStep, AbandonStep
     DEF Dispatch
<1>3. ASSUME NEW w \in Workers, Heartbeat(w) \/ Crash(w) PROVE IInv'
  BY <1>3, HeartbeatStep, CrashStep
<1>4. ASSUME NEW w \in Workers, NEW t \in Tasks, Claim(w, t) PROVE IInv'
  BY <1>4, ClaimStep
<1>5. ASSUME NEW t \in Triage, CommitTxn(t) \/ AbortTxn(t) PROVE IInv'
  BY <1>5, CommitTxnStep, AbortTxnStep
<1>6. ASSUME NEW t \in Tasks,
             \/ Lapse(t) \/ Reclaim(t) \/ Wake(t)
             \/ RequestCancel(t) \/ CancelSweep(t)
      PROVE  IInv'
  BY <1>6, LapseStep, ReclaimStep, WakeStep, RequestCancelStep, CancelSweepStep
<1>7. CASE Heal \/ HealLost \/ HealForgone \/ HealAtStart
  BY <1>7, HealDeadLetteredStep, HealScanStep, HealApplyStep, HealLostStep
     DEF Heal
<1> QED BY <1>1, <1>2, <1>3, <1>4, <1>5, <1>6, <1>7 DEF Next

\* The invariant holds in every reachable state.
LEMMA Invariance == Spec => []IInv
<1>1. Init => IInv
  BY InitInvariant
<1>2. IInv /\ [Next]_vars => IInv'
  BY NextInvariant
<1> QED BY <1>1, <1>2, PTL DEF Spec

\* Rows, attempts and transactions are well typed, and no retry or recovery
\* counter leaves its budget, however many workers race (claim, failure and
\* reclaim paths).
THEOREM TypeCorrect == Spec => []TypeOK
<1>1. IInv => TypeOK
  BY DEF IInv
<1> QED BY <1>1, Invariance, PTL

\* Tasks and threads end, block and resume together through every commit,
\* failure, reclaim, cancellation and crash.
THEOREM PairedLifecycleHolds == Spec => []PairedLifecycle
<1>1. IInv => PairedLifecycle
  BY DEF IInv
<1> QED BY <1>1, Invariance, PTL

\* However many triage tasks end concurrently, the relation task is inserted
\* only when all of them are terminal (triage_fan_in, healing sweep).
THEOREM FanInSoundHolds == Spec => []FanInSound
<1>1. IInv => FanInSound
  BY DEF IInv
<1> QED BY <1>1, Invariance, PTL

\* No task commits its effects twice, and none ends completed without them
\* (commit_extraction, commit_triage, commit_relation and their claim guard).
THEOREM EffectsExactlyOnceHolds == Spec => []EffectsExactlyOnce
<1>1. IInv => EffectsExactlyOnce
  BY DEF IInv
<1> QED BY <1>1, Invariance, PTL

\* A finished job leaves no task to run and no transaction to commit.
THEOREM TerminalJobQuiescesHolds == Spec => []TerminalJobQuiesces
<1>1. IInv => TerminalJobQuiesces
  BY DEF IInv
<1> QED BY <1>1, Invariance, PTL

\* The committed outcome is the one the final triage results justify
\* (compute_outcome, commit_relation_relate, couple_dead_lettered_task).
THEOREM OutcomeJustifiedHolds == Spec => []OutcomeJustified
<1>1. IInv => OutcomeJustified
  BY DEF IInv
<1> QED BY <1>1, Invariance, PTL

\* No late commit, retry, sweep or status write reopens a finished job, task
\* or thread (update_status_if_live and the claim-guarded statements).
THEOREM TerminalAbsorbingHolds == Spec => TerminalAbsorbing
<1>1. IInv /\ [Next]_vars => [Absorbs]_vars
  BY NextAbsorbs
<1>2. TerminalAbsorbing <=> [][Absorbs]_vars
  BY PTL DEF TerminalAbsorbing, Absorbs
<1> QED BY <1>1, <1>2, Invariance, PTL DEF Spec
=============================================================================
