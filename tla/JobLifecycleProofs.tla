------------------------- MODULE JobLifecycleProofs -------------------------
(* IngestPipeline implements JobLifecycle, and no job is stranded, for every *)
(* fleet, batch and budget, when a worker reaches its best-effort status     *)
(* write before it loses its lease.  The status of the job row is then a     *)
(* function of its task rows, and a dead-lettered extraction or relation is  *)
(* never left without a heal due: the invariants the proof adds.             *)
EXTENDS IngestPipelineProofs

\* What the tasks say the job's status may be.
StatusTracksTasks ==
    /\ task[Ext].status \in TaskLive => job.status \in {"queued", "extracting"}
    /\ task[Ext].status = "dead_letter" =>
        job.status \in {"queued", "extracting", "failed"}
    /\ task[Ext].status = "completed" /\ TriageTasks = {} =>
        job.status = "completed"
    /\ TriageTasks # {} /\ task[Rel].status = "absent" => job.status = "triaging"
    /\ task[Rel].status \in TaskLive => job.status = "relating"
    /\ task[Rel].status = "dead_letter" => job.status \in {"relating", "failed"}
    /\ task[Rel].status = "completed" => job.status = "completed"

\* A live job has no outcome, and extraction was inserted with the job.
LiveShape ==
    /\ job.status \notin JobTerminal => job.outcome = "none"
    /\ task[Ext].status # "absent"

Tracks == StatusTracksTasks /\ LiveShape

\* What one step shows a client.
ClientStep == [Client!Next]_(Client!vars)

\* What the invariant of the pipeline says of the singleton rows.
LEMMA Singletons ==
    ASSUME IInv
    PROVE  /\ Ext \in Tasks /\ Rel \in Tasks /\ Triage \subseteq Tasks
           /\ Ext # Rel /\ Ext \notin Triage /\ Rel \notin Triage
           /\ \A t \in Tasks : task[t].status \in TaskStatus
           /\ task[Rel].status # "absent" =>
                task[Ext].status = "completed" /\ TriageTasks # {}
           /\ TriageTasks # {} => task[Ext].status = "completed"
           /\ job.status \in JobStatus
BY Fields
   DEF IInv, TypeOK, Row, FanInSound, BatchAfterExtraction, TriageTasks

\* A step that leaves the job alone and moves at most the live row t, to a
\* live state or to the dead letter queue, keeps the job's status in place.
LEMMA RowTracks ==
    ASSUME IInv, Tracks, NEW t \in Tasks, task[t].status \in TaskLive,
           job' = job,
           \A s \in Tasks \ {t} : task'[s].status = task[s].status,
           task'[t].status \in TaskLive \cup {"dead_letter"}
    PROVE  Tracks' /\ ClientStep
<1>1. TriageTasks' = TriageTasks
  BY Singletons DEF TriageTasks, TaskLive
<1>2. CASE t = Ext
  <2>1. task'[Rel].status = task[Rel].status
    BY <1>2, Singletons
  <2>2. job.status \in {"queued", "extracting"}
    BY <1>2 DEF Tracks, StatusTracksTasks
  <2>3. TriageTasks = {} /\ task[Rel].status = "absent"
    BY <1>2, Singletons DEF TaskLive
  <2>4. StatusTracksTasks' /\ LiveShape'
    BY <1>1, <1>2, <2>1, <2>2, <2>3
       DEF Tracks, StatusTracksTasks, LiveShape, TaskLive
  <2> QED BY <2>4 DEF Tracks, ClientStep, Client!vars
<1>3. CASE t # Ext
  <2>1. task'[Ext].status = task[Ext].status
    BY <1>3, Singletons
  <2>2. t = Rel => job.status = "relating" /\ task'[Rel].status # "absent"
                   /\ task'[Rel].status # "completed"
    BY DEF Tracks, StatusTracksTasks, TaskLive
  <2>3. t # Rel => task'[Rel].status = task[Rel].status
    BY Singletons
  <2>4. StatusTracksTasks' /\ LiveShape'
    BY <1>1, <2>1, <2>2, <2>3 DEF Tracks, StatusTracksTasks, LiveShape
  <2> QED BY <2>4 DEF Tracks, ClientStep, Client!vars
<1> QED BY <1>2, <1>3

\* A step that changes no task's status and not the job.
LEMMA StillTracks ==
    ASSUME IInv, Tracks, job' = job, task' = task
    PROVE  Tracks' /\ ClientStep
BY DEF Tracks, StatusTracksTasks, LiveShape, TriageTasks, ClientStep, Client!vars

\* couple_dead_lettered_task: the job fails with its extraction or relation.
LEMMA DeadLetterTracks ==
    ASSUME IInv, Tracks, NEW t \in Tasks, task[t].status \in TaskLive,
           NEW row, row.status = "dead_letter", NEW th, NEW by,
           DeadLetter(t, row, th, by)
    PROVE  Tracks' /\ ClientStep
<1>1. CASE t \in Triage /\ BeginTriageEnd(t, row, th, by, "none")
  BY <1>1, StillTracks DEF BeginTriageEnd
<1>2. CASE /\ t \in {Ext, Rel} /\ job' = CoupleSingleton
           /\ task' = [task EXCEPT ![t] = row]
  <2>1. job.status \notin JobTerminal
    BY DEF IInv, TerminalJobQuiesces
  <2>2. job'.status = "failed" /\ job'.outcome = "failure"
    BY <1>2, <2>1 DEF CoupleSingleton, UpdateStatusIfLive, IInv, TypeOK
  <2>3. job.status \in {"queued", "extracting", "relating"}
    BY <1>2 DEF Tracks, StatusTracksTasks
  <2>4. /\ task'[t].status = "dead_letter"
        /\ \A s \in Tasks \ {t} : task'[s] = task[s]
    BY <1>2 DEF IInv, TypeOK
  <2>5. TriageTasks' = TriageTasks
    BY <1>2, <2>4, Singletons DEF TriageTasks
  <2>6. t = Ext => TriageTasks = {} /\ task[Rel].status = "absent"
                   /\ task'[Rel].status = "absent"
    BY <2>4, Singletons DEF TaskLive
  <2>7. t = Rel => TriageTasks # {} /\ task'[Ext].status = "completed"
    BY <2>4, Singletons DEF TaskLive
  <2>8. Tracks'
    BY <1>2, <2>2, <2>4, <2>5, <2>6, <2>7
       DEF Tracks, StatusTracksTasks, LiveShape, JobTerminal, TaskLive
  <2>9. Client!Fail
    BY <2>2, <2>3 DEF Client!Fail
  <2> QED BY <2>8, <2>9 DEF ClientStep, Client!Next
<1> QED BY <1>1, <1>2 DEF DeadLetter

\* The best-effort write of an attempt that still holds its claim writes the
\* status the job already has, or moves a queued job to extracting.
LEMMA WriteStatusTracks ==
    ASSUME IInv, Tracks, ~LateStatusWrite, NEW w \in Workers, WriteStatus(w)
    PROVE  Tracks' /\ ClientStep
<1> DEFINE t == att[w].task
<1>1. t \in Tasks /\ task[t].status = "claimed"
  BY HeldRow DEF WriteStatus
<1>2. job.status \notin JobTerminal /\ job.outcome = "none"
  BY <1>1 DEF IInv, TerminalJobQuiesces, TaskLive, Tracks, LiveShape
<1>3. CASE job' = job
  BY <1>3, StillTracks DEF WriteStatus
<1>4. CASE job' = UpdateStatusIfLive(StageStatus(t), "none")
  <2>1. job'.status = StageStatus(t) /\ job'.outcome = "none"
    BY <1>2, <1>4 DEF UpdateStatusIfLive, IInv, TypeOK
  <2>2. CASE t = Ext
    <3>1. job'.status = "extracting" /\ job.status \in {"queued", "extracting"}
      BY <1>1, <2>1, <2>2
         DEF StageStatus, Tracks, StatusTracksTasks, TaskLive
    <3>2. TriageTasks = {} /\ task[Rel].status = "absent" /\ task' = task
      BY <1>1, <2>2, Singletons DEF WriteStatus
    <3>3. Tracks'
      BY <1>1, <2>1, <2>2, <3>1, <3>2
         DEF Tracks, StatusTracksTasks, LiveShape, TriageTasks, TaskLive
    <3>4. ClientStep
      BY <1>2, <2>1, <3>1
         DEF ClientStep, Client!vars, Client!Next, Client!Advance
    <3> QED BY <3>3, <3>4
  <2>3. CASE t # Ext
    <3>1. job'.status = job.status
      <4>1. CASE t = Rel
        BY <1>1, <2>1, <2>3, <4>1
           DEF StageStatus, Tracks, StatusTracksTasks, TaskLive
      <4>2. CASE t \in Triage
        <5>1. TriageTasks # {} /\ task[Rel].status = "absent"
          BY <1>1, <4>2 DEF IInv, FanInSound, TriageTasks, TaskTerminal
        <5> QED
          BY <2>1, <2>3, <4>2, <5>1, Singletons
             DEF StageStatus, Tracks, StatusTracksTasks
      <4> QED BY <1>1, <2>3, <4>1, <4>2 DEF Tasks
    <3>2. Tracks'
      BY <1>2, <2>1, <3>1
         DEF WriteStatus, Tracks, StatusTracksTasks, LiveShape, TriageTasks
    <3>3. ClientStep
      BY <1>2, <2>1, <3>1 DEF ClientStep, Client!vars
    <3> QED BY <3>2, <3>3
  <2> QED BY <2>2, <2>3
<1> QED BY <1>3, <1>4 DEF WriteStatus
\* commit_extraction moves the job to its triage stage with its batch, or
\* completes an empty job.
LEMMA CommitExtractionTracks ==
    ASSUME IInv, Tracks, NEW w \in Workers, NEW S \in SUBSET Triage,
           CommitExtraction(w, S)
    PROVE  Tracks' /\ ClientStep
<1>1. task[Ext].status = "claimed" /\ job.status \notin JobTerminal
  BY CommittingFacts, Fields DEF CommitExtraction
<1>2. job.status \in {"queued", "extracting"} /\ job.outcome = "none"
  BY <1>1 DEF Tracks, StatusTracksTasks, LiveShape, TaskLive
<1>3. TriageTasks = {} /\ task[Rel].status = "absent"
  BY <1>1, Singletons
<1>4. task'[Ext].status = "completed" /\ task'[Rel].status = "absent"
  BY <1>3, Fields, CompletedRowShape DEF CommitExtraction, IInv, TypeOK
<1>5. TriageTasks' = S
  <2>1. \A t \in Triage \ S : task'[t].status = "absent"
    BY <1>3, Fields DEF CommitExtraction, TriageTasks
  <2>2. \A t \in S : task'[t].status = "queued"
    BY Fields, ConstantTypes DEF CommitExtraction
  <2> QED BY <2>1, <2>2 DEF TriageTasks
<1>6. CASE S = {}
  <2>1. job'.status = "completed" /\ job'.outcome = "empty"
    BY <1>1, <1>6 DEF CommitExtraction, UpdateStatusIfLive, IInv, TypeOK
  <2>2. Tracks'
    BY <1>4, <1>5, <1>6, <2>1
       DEF Tracks, StatusTracksTasks, LiveShape, JobTerminal, TaskLive
  <2>3. Client!Complete
    BY <1>2, <2>1 DEF Client!Complete
  <2> QED BY <2>2, <2>3 DEF ClientStep, Client!Next
<1>7. CASE S # {}
  <2>1. job'.status = "triaging" /\ job'.outcome = "none"
    BY <1>1, <1>7 DEF CommitExtraction, UpdateStatusIfLive, IInv, TypeOK
  <2>2. Tracks'
    BY <1>4, <1>5, <1>7, <2>1
       DEF Tracks, StatusTracksTasks, LiveShape, JobTerminal, TaskLive
  <2>3. Client!Advance
    BY <1>2, <2>1 DEF Client!Advance
  <2> QED BY <2>2, <2>3 DEF ClientStep, Client!Next
<1> QED BY <1>6, <1>7

\* commit_relation completes a job that is relating.
LEMMA CommitRelationTracks ==
    ASSUME IInv, Tracks, NEW w \in Workers, CommitRelation(w)
    PROVE  Tracks' /\ ClientStep
<1>1. task[Rel].status = "claimed" /\ job.status \notin JobTerminal
  BY CommittingFacts, Fields DEF CommitRelation
<1>2. job.status = "relating" /\ TriageTasks # {} /\ task[Ext].status = "completed"
  BY <1>1, Singletons DEF Tracks, StatusTracksTasks, TaskLive
<1>3. ~job.sealed /\ att[w].plan = ComputeOutcome
  BY <1>1 DEF CommitRelation, Committing, IInv, EffectsExactlyOnce, PlanStands
<1>4. job'.status = "completed" /\ job'.outcome = att[w].plan
  <2>1. /\ UpdateStatusIfLive("completed", att[w].plan)
             = [job EXCEPT !.status = "completed", !.outcome = att[w].plan]
    BY <1>1 DEF UpdateStatusIfLive
  <2> QED BY <1>3, <2>1 DEF CommitRelation, IInv, TypeOK
<1>5. ComputeOutcome \in {"success", "partial", "empty"}
  BY DEF ComputeOutcome
<1>6. /\ task'[Rel].status = "completed"
      /\ \A s \in Tasks \ {Rel} : task'[s] = task[s]
  BY Fields, CompletedRowShape DEF CommitRelation, IInv, TypeOK
<1>7. TriageTasks' = TriageTasks /\ task'[Ext] = task[Ext]
  BY <1>6, Fields DEF TriageTasks
<1>8. Tracks'
  BY <1>2, <1>4, <1>6, <1>7
     DEF Tracks, StatusTracksTasks, LiveShape, JobTerminal, TaskLive
<1>9. Client!Complete
  BY <1>2, <1>3, <1>4, <1>5 DEF Client!Complete
<1> QED BY <1>8, <1>9 DEF ClientStep, Client!Next

\* The fan-in, in a commit or by the healing sweep: a batch that has ended
\* gains its relation task with the relating status, and one that already has
\* it keeps the status it has.
LEMMA FanInTracks ==
    ASSUME IInv, Tracks, NEW rows,
           rows[Ext].status = "completed", rows[Rel] = task[Rel],
           \A t \in Triage : rows[t].status = "absent" <=> task[t].status = "absent",
           DOMAIN rows = Tasks,
           TriageTasks # {}, task' = UpsertRelation(rows),
           job' = UpdateStatusIfLive("relating", "none")
    PROVE  Tracks' /\ ClientStep
<1>1. task'[Ext].status = "completed"
  BY Fields DEF UpsertRelation
<1>2. TriageTasks' = TriageTasks
  BY Fields DEF UpsertRelation, TriageTasks
<1>3. CASE task[Rel].status = "absent"
  <2>1. job.status = "triaging" /\ job.outcome = "none"
    BY <1>3 DEF Tracks, StatusTracksTasks, LiveShape, JobTerminal
  <2>2. job'.status = "relating" /\ job'.outcome = "none"
    BY <2>1 DEF UpdateStatusIfLive, JobTerminal, IInv, TypeOK
  <2>3. task'[Rel].status = "queued"
    BY <1>3, Fields, ConstantTypes DEF UpsertRelation
  <2>4. Tracks'
    BY <1>1, <1>2, <2>2, <2>3 DEF Tracks, StatusTracksTasks, LiveShape, TaskLive
  <2>5. Client!Advance
    BY <2>1, <2>2 DEF Client!Advance
  <2> QED BY <2>4, <2>5 DEF ClientStep, Client!Next
<1>4. CASE task[Rel].status # "absent"
  <2>1. task'[Rel] = task[Rel]
    BY <1>4 DEF UpsertRelation
  <2>2. job.status \in JobTerminal \/ job.status = "relating"
    BY <1>4, Singletons
       DEF Tracks, StatusTracksTasks, TaskStatus, TaskTerminal, JobTerminal
  <2>3. job'.status = job.status /\ job'.outcome = job.outcome
    BY <2>2 DEF UpdateStatusIfLive, Tracks, LiveShape, IInv, TypeOK
  <2>4. Tracks'
    BY <1>1, <1>2, <1>4, <2>1, <2>3
       DEF Tracks, StatusTracksTasks, LiveShape, TaskLive
  <2> QED BY <2>3, <2>4 DEF ClientStep, Client!vars
<1> QED BY <1>3, <1>4

\* Publishing the end of a triage task.
LEMMA CommitTxnTracks ==
    ASSUME IInv, Tracks, NEW t \in Triage, CommitTxn(t)
    PROVE  Tracks' /\ ClientStep
<1> DEFINE rows == [task EXCEPT ![t] = txn[t].row]
<1>1. /\ t \in Tasks /\ task[t].status \in TaskLive
      /\ txn[t].row.status \in TaskTerminal
  BY Fields DEF CommitTxn, IInv, TxnShape
<1>2. TriageTasks # {} /\ task[Ext].status = "completed"
  BY <1>1, Singletons DEF TriageTasks, TaskLive
<1>3. /\ DOMAIN rows = Tasks /\ rows[t].status \in TaskTerminal
      /\ \A s \in Tasks \ {t} : rows[s] = task[s]
  BY <1>1 DEF IInv, TypeOK
<1>4. /\ rows[Ext].status = "completed" /\ rows[Rel] = task[Rel]
      /\ \A s \in Triage : rows[s].status = "absent" <=> task[s].status = "absent"
  BY <1>1, <1>2, <1>3, Fields DEF TaskLive, TaskTerminal
<1>5. CASE txn[t].last
  <2>1. task' = UpsertRelation(rows) /\ job' = UpdateStatusIfLive("relating", "none")
    BY <1>5 DEF CommitTxn
  <2> HIDE DEF rows
  <2> QED BY <1>2, <1>3, <1>4, <2>1, FanInTracks
<1>6. CASE ~txn[t].last
  <2>1. task' = rows /\ job' = job
    BY <1>6 DEF CommitTxn
  <2> HIDE DEF rows
  <2>2. TriageTasks' = TriageTasks
    BY <1>4, <2>1 DEF TriageTasks
  <2>3. Tracks'
    BY <1>2, <1>4, <2>1, <2>2 DEF Tracks, StatusTracksTasks, LiveShape, TaskLive
  <2> QED BY <2>1, <2>3 DEF ClientStep, Client!vars
<1> QED BY <1>5, <1>6

\* heal_stuck_triaging_jobs and fail_stale_dead_lettered_jobs.
LEMMA HealTracks ==
    ASSUME IInv, Tracks, Heal \/ HealLost \/ HealForgone \/ HealAtStart
    PROVE  Tracks' /\ ClientStep
<1>1. CASE HealScan \/ HealLost \/ HealForgone
  BY <1>1, StillTracks DEF HealScan, HealLost, HealForgone
<1>2. CASE HealApply
  <2>1. TriageTasks # {} /\ task[Ext].status = "completed"
    BY <1>2 DEF HealApply, IInv, HealingSound
  <2>2. DOMAIN task = Tasks
    BY DEF IInv, TypeOK
  <2> QED BY <1>2, <2>1, <2>2, FanInTracks DEF HealApply
<1>3. ASSUME HealDeadLettered \/ HealAtStart,
             ~(DeadLettered /\ job.status \notin JobTerminal)
      PROVE  Tracks' /\ ClientStep
  <2>1. job' = job
    BY <1>3
       DEF HealDeadLettered, HealAtStart, fail_stale_dead_lettered_jobs,
           UpdateStatusIfLive
  <2> QED BY <1>3, <2>1, StillTracks DEF HealDeadLettered, HealAtStart
<1>4. ASSUME HealDeadLettered \/ HealAtStart,
             DeadLettered, job.status \notin JobTerminal
      PROVE  Tracks' /\ ClientStep
  <2>1. job'.status = "failed" /\ job'.outcome = "failure" /\ task' = task
    BY <1>4
       DEF HealDeadLettered, HealAtStart, fail_stale_dead_lettered_jobs,
           UpdateStatusIfLive, IInv, TypeOK
  <2>2. PICK t \in {Ext, Rel} : task[t].status = "dead_letter"
    BY <1>4 DEF DeadLettered
  <2>3. job.status \in {"queued", "extracting", "relating"}
    BY <1>4, <2>2 DEF Tracks, StatusTracksTasks, JobTerminal
  <2>4. t = Ext => TriageTasks = {} /\ task[Rel].status = "absent"
    BY <2>2, Singletons
  <2>5. t = Rel => TriageTasks # {} /\ task[Ext].status = "completed"
    BY <2>2, Singletons
  <2>6. Tracks'
    BY <2>1, <2>2, <2>4, <2>5
       DEF Tracks, StatusTracksTasks, LiveShape, TriageTasks, JobTerminal,
           TaskLive
  <2>7. Client!Fail
    BY <2>1, <2>3 DEF Client!Fail
  <2> QED BY <2>6, <2>7 DEF ClientStep, Client!Next
<1> QED BY <1>1, <1>2, <1>3, <1>4 DEF Heal

\* Everything an attempt does.
LEMMA DispatchTracks ==
    ASSUME IInv, Tracks, ~LateStatusWrite, NEW w \in Workers, Dispatch(w)
    PROVE  Tracks' /\ ClientStep
<1> DEFINE t == att[w].task
           Frame == \A s \in Tasks \ {t} : task'[s].status = task[s].status
<1>1. HoldsClaim(w) => t \in Tasks /\ task[t].status = "claimed"
                       /\ task[t].status \in TaskLive
  BY HeldRow DEF TaskLive
<1>2. CASE LoadJob(w) \/ Adopt(w) \/ Abandon(w) \/ CreateThread(w) \/ MarkRunning(w)
  BY <1>2, StillTracks DEF LoadJob, Adopt, Abandon, CreateThread, MarkRunning
<1>3. CASE Progress(w)
  <2>1. /\ HoldsClaim(w) /\ job' = job
        /\ task' = [task EXCEPT ![t].retry = AfterProgress]
    BY <1>3 DEF Progress
  <2>2. Frame /\ task'[t].status = task[t].status
    BY <1>1, <2>1 DEF IInv, TypeOK, Row
  <2> QED BY <1>1, <2>1, <2>2, RowTracks
<1>4. ASSUME NEW wake \in {"timer", "child"}, Suspend(w, wake)
      PROVE  Tracks' /\ ClientStep
  <2>1. CASE task' = task
    BY <1>4, <2>1, StillTracks DEF Suspend
  <2>2. CASE task' = [task EXCEPT ![t] = Release(@, "blocked", @.retry)]
    <3>1. HoldsClaim(w) /\ job' = job
      BY <1>4 DEF Suspend
    <3>2. Release(task[t], "blocked", task[t].retry).status = "blocked"
      BY <1>1, <3>1, Fields, ReleaseRow DEF TaskStatus, TaskLive
    <3>3. Frame /\ task'[t].status = "blocked"
      BY <1>1, <2>2, <3>1, <3>2 DEF IInv, TypeOK
    <3> QED BY <1>1, <3>1, <3>3, RowTracks DEF TaskLive
  <2> QED BY <1>4, <2>1, <2>2 DEF Suspend
<1>5. CASE Dispose(w)
  <2>1. HoldsClaim(w) /\ DeadLetter(t, DeadRow(t), "cancelled", w)
    BY <1>5 DEF Dispose
  <2> QED BY <1>1, <2>1, DeadRowShape, DeadLetterTracks DEF IInv
<1>6. ASSUME NEW u \in Triage, NEW r \in {"created", "duplicate"},
             CommitTriage(w, u, r)
      PROVE  Tracks' /\ ClientStep
  BY <1>6, StillTracks DEF CommitTriage, BeginTriageEnd
<1>7. ASSUME NEW o \in {"retryable", "terminal"}, Fail(w, o)
      PROVE  Tracks' /\ ClientStep
  <2>1. HoldsClaim(w) /\ task[t].retry <= MaxRetries
    BY <1>7, HeldRow DEF Fail
  <2>2. CASE thread[t].status = "absent"
    <3> DEFINE row == FailRow(task[t])
    <3>1. row.status \in {"queued", "dead_letter"}
      BY <1>1, <2>1, FailRowShape, Fields
    <3>2. FailUnthreaded(w, t)
      BY <1>7, <2>2 DEF Fail
    <3> HIDE DEF row
    <3>3. CASE task' = [task EXCEPT ![t] = row] /\ job' = job
      <4>1. Frame /\ task'[t].status = row.status
        BY <1>1, <2>1, <3>3 DEF IInv, TypeOK
      <4> QED BY <1>1, <2>1, <3>1, <3>3, <4>1, RowTracks DEF TaskLive
    <3>4. CASE row.status = "dead_letter" /\ DeadLetter(t, row, "absent", w)
      BY <1>1, <2>1, <3>4, DeadLetterTracks
    <3> QED BY <3>2, <3>3, <3>4 DEF FailUnthreaded, row
  <2>3. CASE thread[t].status # "absent"
    <3> DEFINE d == decide_disposition(o, att[w].retry, thread[t].recovery)
               th == IF o = "terminal" THEN "failed" ELSE "dead_letter"
    <3>1. d.retry \in 0..(MaxRetries + 1)
      <4>1. d.retry \in 0..MaxRetries
        BY <1>1, <2>1, DecideWithinBudget, Fields
      <4> HIDE DEF d
      <4> QED BY <4>1, BudgetAssumption
    <3>2. ApplyDisposition(w, t, d, th)
      BY <1>7, <2>3 DEF Fail
    <3> HIDE DEF d, th
    <3>3. CASE task' = [task EXCEPT ![t] = Release(@, "queued", d.retry)]
               /\ job' = job
      <4>1. Release(task[t], "queued", d.retry).status = "queued"
        <5>1. task[t] \in Row /\ "queued" \in TaskStatus
          BY <1>1, <2>1, Fields DEF TaskStatus, TaskLive
        <5> QED BY <3>1, <5>1, ReleaseRow
      <4>2. Frame /\ task'[t].status = "queued"
        BY <1>1, <2>1, <3>3, <4>1 DEF IInv, TypeOK
      <4> QED BY <1>1, <2>1, <3>3, <4>2, RowTracks DEF TaskLive
    <3>4. CASE DeadLetter(t, DeadRow(t), th, w)
      BY <1>1, <2>1, <3>4, DeadRowShape, DeadLetterTracks DEF IInv
    <3> QED BY <3>2, <3>3, <3>4 DEF ApplyDisposition
  <2> QED BY <2>2, <2>3
<1> QED
  BY <1>2, <1>3, <1>4, <1>5, <1>6, <1>7, WriteStatusTracks,
     CommitExtractionTracks, CommitRelationTracks
     DEF Dispatch

\* Everything that happens to a row without its attempt.
LEMMA SweepTracks ==
    ASSUME IInv, Tracks, NEW t \in Tasks,
           \/ Lapse(t) \/ Reclaim(t) \/ Wake(t)
           \/ RequestCancel(t) \/ CancelSweep(t)
    PROVE  Tracks' /\ ClientStep
<1>1. CASE Lapse(t)
  <2>1. /\ task[t].status = "claimed" /\ job' = job
        /\ task' = [task EXCEPT ![t].lapsed = TRUE]
    BY <1>1 DEF Lapse
  <2>2. task'[t].status = "claimed"
        /\ \A s \in Tasks \ {t} : task'[s].status = task[s].status
    BY <2>1 DEF IInv, TypeOK, Row
  <2> QED BY <2>1, <2>2, RowTracks DEF TaskLive
<1>2. CASE ReclaimBulk(t)
  <2>1. /\ task[t].status = "claimed" /\ job' = job
        /\ task' = [task EXCEPT ![t] = FailRow(task[t])]
    BY <1>2 DEF ReclaimBulk
  <2>2. FailRow(task[t]).status \in {"queued", "dead_letter"}
    BY <2>1, FailRowShape, Fields DEF IInv, ClaimShape, TaskLive
  <2>3. task'[t].status \in {"queued", "dead_letter"}
        /\ \A s \in Tasks \ {t} : task'[s].status = task[s].status
    BY <2>1, <2>2 DEF IInv, TypeOK
  <2> QED BY <2>1, <2>3, RowTracks DEF TaskLive
<1>3. CASE ReclaimThreadDriving(t)
  <2> DEFINE d == decide_disposition("retryable", task[t].retry, thread[t].recovery)
  <2>1. task[t].status = "claimed"
    BY <1>3 DEF ReclaimThreadDriving
  <2>2. d.retry \in 0..(MaxRetries + 1)
    <3>1. task[t].retry \in 0..MaxRetries
      BY <2>1, Fields, BudgetAssumption DEF IInv, ClaimShape, TaskLive
    <3>2. d.retry \in 0..MaxRetries
      BY <3>1, DecideWithinBudget, Fields
    <3> HIDE DEF d
    <3> QED BY <3>2, BudgetAssumption
  <2> HIDE DEF d
  <2>3. CASE task' = [task EXCEPT ![t] = Release(@, "queued", d.retry)]
             /\ job' = job
    <3>1. Release(task[t], "queued", d.retry).status = "queued"
      BY <2>2, Fields, ReleaseRow DEF TaskStatus, TaskLive
    <3>2. task'[t].status = "queued"
          /\ \A s \in Tasks \ {t} : task'[s].status = task[s].status
      BY <2>3, <3>1 DEF IInv, TypeOK
    <3> QED BY <2>1, <2>3, <3>2, RowTracks DEF TaskLive
  <2>4. CASE DeadLetter(t, DeadRow(t), "dead_letter", None)
    BY <2>1, <2>4, DeadRowShape, DeadLetterTracks DEF IInv, TaskLive
  <2> QED BY <1>3, <2>3, <2>4 DEF ReclaimThreadDriving, d
<1>4. CASE Wake(t)
  <2>1. /\ task[t].status \in TaskLive /\ job' = job
        /\ task' = [task EXCEPT ![t].status = "queued"]
    BY <1>4 DEF Wake, WakeTimer, HandBack, IInv, PairedLifecycle, TaskLive
  <2>2. task'[t].status = "queued"
        /\ \A s \in Tasks \ {t} : task'[s].status = task[s].status
    BY <2>1 DEF IInv, TypeOK, Row
  <2> QED BY <2>1, <2>2, RowTracks DEF TaskLive
<1>5. CASE RequestCancel(t)
  BY <1>5, StillTracks DEF RequestCancel
<1>6. CASE CancelSweep(t)
  BY <1>6, DeadRowShape, DeadLetterTracks DEF CancelSweep, IInv
<1> QED BY <1>1, <1>2, <1>3, <1>4, <1>5, <1>6 DEF Reclaim

\* Every step keeps the status in line and is a step of the lifecycle.
LEMMA NextTracks ==
    ASSUME IInv, Tracks, ~LateStatusWrite, [Next]_vars
    PROVE  Tracks' /\ ClientStep
<1>1. CASE UNCHANGED vars
  BY <1>1, StillTracks DEF vars
<1>2. ASSUME NEW w \in Workers, Heartbeat(w) \/ Crash(w)
      PROVE  Tracks' /\ ClientStep
  <2>1. CASE Crash(w)
    BY <2>1, StillTracks DEF Crash
  <2>2. CASE Heartbeat(w)
    <3> DEFINE t == att[w].task
    <3>1. /\ t \in Tasks /\ task[t].status = "claimed" /\ job' = job
          /\ task' = [task EXCEPT ![t].lapsed = FALSE]
      BY <2>2, HeldRow DEF Heartbeat
    <3>2. task'[t].status = "claimed"
          /\ \A s \in Tasks \ {t} : task'[s].status = task[s].status
      BY <3>1 DEF IInv, TypeOK, Row
    <3> QED BY <3>1, <3>2, RowTracks DEF TaskLive
  <2> QED BY <1>2, <2>1, <2>2
<1>3. ASSUME NEW w \in Workers, NEW t \in Tasks, Claim(w, t)
      PROVE  Tracks' /\ ClientStep
  <2>1. /\ task[t].status = "queued" /\ job' = job
        /\ task'[t].status = "claimed"
        /\ \A s \in Tasks \ {t} : task'[s].status = task[s].status
    BY <1>3 DEF Claim, IInv, TypeOK, Row
  <2> QED BY <2>1, RowTracks DEF TaskLive
<1>4. ASSUME NEW t \in Triage, AbortTxn(t) PROVE Tracks' /\ ClientStep
  BY <1>4, StillTracks DEF AbortTxn
<1> QED
  BY <1>1, <1>2, <1>3, <1>4, DispatchTracks, SweepTracks, CommitTxnTracks,
     HealTracks
     DEF Next

-----------------------------------------------------------------------------
(* The heal owed to a job whose extraction or relation died in a bulk pass. *)

\* A live job with a dead singleton is owed a heal, or its heal was lost.
HealDue ==
    DeadLettered /\ job.status \notin JobTerminal =>
        healing \cap {"owed", "forgone"} # {}

\* A step after which no other singleton is dead keeps the heal due.
LEMMA NoNewDeath ==
    ASSUME HealDue, Absorbs, healing' = healing,
           \A t \in {Ext, Rel} :
                task'[t].status = "dead_letter" => task[t].status = "dead_letter"
    PROVE  HealDue'
BY DEF HealDue, DeadLettered, Absorbs

\* In particular one that moves a single row, to anything but its death.
LEMMA RowLives ==
    ASSUME IInv, HealDue, Absorbs, healing' = healing, NEW t \in Tasks, NEW r,
           task' = [task EXCEPT ![t] = r], r.status # "dead_letter"
    PROVE  HealDue'
<1>1. task'[t].status # "dead_letter" /\ \A s \in Tasks \ {t} : task'[s] = task[s]
  BY DEF IInv, TypeOK
<1> QED BY <1>1, NoNewDeath, Singletons

\* couple_dead_lettered_task leaves no heal to a sweep.
LEMMA DeadLetterPays ==
    ASSUME IInv, HealDue, Absorbs, healing' = healing, NEW t \in Tasks,
           NEW row, NEW th, NEW by, DeadLetter(t, row, th, by)
    PROVE  HealDue'
<1>1. CASE t \in Triage /\ BeginTriageEnd(t, row, th, by, "none")
  BY <1>1, NoNewDeath DEF BeginTriageEnd
<1>2. CASE t \in {Ext, Rel} /\ job' = CoupleSingleton
  <2>1. job'.status \in JobTerminal
    BY <1>2 DEF CoupleSingleton, UpdateStatusIfLive, JobTerminal, IInv, TypeOK
  <2> QED BY <2>1 DEF HealDue
<1> QED BY <1>1, <1>2 DEF DeadLetter

\* Everything an attempt does.
LEMMA DispatchPays ==
    ASSUME IInv, HealDue, NEW w \in Workers, Dispatch(w)
    PROVE  HealDue'
<1> DEFINE t == att[w].task
<1>1. HoldsClaim(w) => t \in Tasks /\ task[t].status = "claimed"
                       /\ task[t].retry <= MaxRetries
  BY HeldRow
<1>2. Absorbs
  BY DispatchAbsorbs
<1>3. CASE \/ LoadJob(w) \/ WriteStatus(w) \/ Adopt(w) \/ Abandon(w)
           \/ CreateThread(w) \/ MarkRunning(w)
  BY <1>2, <1>3, NoNewDeath
     DEF LoadJob, WriteStatus, Adopt, Abandon, CreateThread, MarkRunning
<1>4. CASE Progress(w)
  <2>1. HoldsClaim(w) /\ healing' = healing
        /\ task' = [task EXCEPT ![t] = [@ EXCEPT !.retry = AfterProgress]]
    BY <1>4 DEF Progress
  <2>2. [task[t] EXCEPT !.retry = AfterProgress].status = "claimed"
    BY <1>1, <2>1, Fields DEF Row
  <2> QED BY <1>1, <1>2, <2>1, <2>2, RowLives
<1>5. ASSUME NEW wake \in {"timer", "child"}, Suspend(w, wake) PROVE HealDue'
  <2>1. HoldsClaim(w) /\ healing' = healing
    BY <1>5 DEF Suspend
  <2>2. CASE task' = task
    BY <1>2, <2>1, <2>2, NoNewDeath
  <2>3. CASE task' = [task EXCEPT ![t] = Release(@, "blocked", @.retry)]
    <3>1. /\ task[t] \in Row /\ task[t].retry \in 0..(MaxRetries + 1)
          /\ "blocked" \in TaskStatus
      BY <1>1, <2>1, Fields DEF TaskStatus, TaskLive
    <3>2. Release(task[t], "blocked", task[t].retry).status = "blocked"
      BY <3>1, ReleaseRow
    <3> QED BY <1>1, <1>2, <2>1, <2>3, <3>2, RowLives
  <2> QED BY <1>5, <2>2, <2>3 DEF Suspend
<1>6. CASE Dispose(w)
  BY <1>1, <1>2, <1>6, DeadLetterPays DEF Dispose
<1>7. ASSUME NEW S \in SUBSET Triage, CommitExtraction(w, S) PROVE HealDue'
  <2>1. task'[Ext].status = "completed" /\ task'[Rel] = task[Rel]
        /\ healing' = healing
    BY <1>7, CommittingFacts, Fields, CompletedRowShape
       DEF CommitExtraction, IInv, TypeOK
  <2> QED BY <1>2, <2>1, NoNewDeath
<1>8. ASSUME NEW u \in Triage, NEW r \in {"created", "duplicate"},
             CommitTriage(w, u, r)
      PROVE  HealDue'
  BY <1>2, <1>8, NoNewDeath DEF CommitTriage, BeginTriageEnd
<1>9. CASE CommitRelation(w)
  <2>1. /\ task' = [task EXCEPT ![Rel] = CompletedRow(Rel)] /\ Rel \in Tasks
        /\ healing' = healing
    BY <1>9, Fields DEF CommitRelation
  <2>2. CompletedRow(Rel).status = "completed"
    BY <2>1, CompletedRowShape DEF IInv
  <2> QED BY <1>2, <2>1, <2>2, RowLives
<1>10. ASSUME NEW o \in {"retryable", "terminal"}, Fail(w, o) PROVE HealDue'
  <2>1. HoldsClaim(w) /\ healing' = healing
    BY <1>10 DEF Fail
  <2>2. CASE \E row, th : DeadLetter(t, row, th, w)
    BY <1>1, <1>2, <2>1, <2>2, DeadLetterPays
  <2>3. CASE ~\E row, th : DeadLetter(t, row, th, w)
    <3>1. PICK row : task' = [task EXCEPT ![t] = row] /\ row.status = "queued"
      <4>1. CASE FailUnthreaded(w, t)
        BY <2>3, <4>1 DEF FailUnthreaded
      <4>2. ASSUME NEW d, NEW th, d.retry \in 0..MaxRetries,
                   ApplyDisposition(w, t, d, th)
            PROVE  \E row : task' = [task EXCEPT ![t] = row]
                            /\ row.status = "queued"
        <5>1. task' = [task EXCEPT ![t] = Release(@, "queued", d.retry)]
          BY <2>3, <4>2 DEF ApplyDisposition
        <5>2. "queued" \in TaskStatus /\ d.retry \in 0..(MaxRetries + 1)
          BY <4>2, BudgetAssumption DEF TaskStatus, TaskLive
        <5>3. Release(task[t], "queued", d.retry).status = "queued"
          BY <1>1, <2>1, <5>2, Fields, ReleaseRow
        <5> QED BY <5>1, <5>3
      <4>3. decide_disposition(o, att[w].retry, thread[t].recovery).retry
                \in 0..MaxRetries
        BY <1>1, <2>1, DecideWithinBudget, Fields
      <4> QED BY <1>10, <4>1, <4>2, <4>3 DEF Fail
    <3> QED BY <1>1, <1>2, <2>1, <3>1, RowLives
  <2> QED BY <2>2, <2>3
<1> QED
  BY <1>3, <1>4, <1>5, <1>6, <1>7, <1>8, <1>9, <1>10 DEF Dispatch

\* The sweeps: the bulk pass that kills a singleton owes its job a heal.
LEMMA SweepPays ==
    ASSUME IInv, HealDue, NEW t \in Tasks,
           \/ Lapse(t) \/ Reclaim(t) \/ Wake(t)
           \/ RequestCancel(t) \/ CancelSweep(t)
    PROVE  HealDue'
<1>1. Absorbs
  BY SweepAbsorbs
<1>2. CASE Lapse(t)
  <2>1. /\ task' = [task EXCEPT ![t] = [@ EXCEPT !.lapsed = TRUE]]
        /\ task[t].status = "claimed" /\ healing' = healing
    BY <1>2 DEF Lapse
  <2>2. [task[t] EXCEPT !.lapsed = TRUE].status = "claimed"
    BY <2>1, Fields DEF Row
  <2> QED BY <1>1, <2>1, <2>2, RowLives
<1>3. CASE ReclaimBulk(t)
  <2>1. CASE FailRow(task[t]).status = "dead_letter"
    BY <1>3, <2>1 DEF ReclaimBulk, HealDue
  <2>2. CASE FailRow(task[t]).status # "dead_letter"
    BY <1>1, <1>3, <2>2, RowLives DEF ReclaimBulk
  <2> QED BY <2>1, <2>2
<1>4. CASE ReclaimThreadDriving(t)
  <2> DEFINE d == decide_disposition("retryable", task[t].retry, thread[t].recovery)
  <2>1. task[t].status = "claimed" /\ healing' = healing
    BY <1>4 DEF ReclaimThreadDriving
  <2>2. d.retry \in 0..MaxRetries
    <3>1. task[t].retry \in 0..MaxRetries
      BY <2>1, Fields, BudgetAssumption DEF IInv, ClaimShape, TaskLive
    <3> QED BY <3>1, DecideWithinBudget, Fields
  <2> HIDE DEF d
  <2>3. CASE task' = [task EXCEPT ![t] = Release(@, "queued", d.retry)]
    <3>1. "queued" \in TaskStatus /\ d.retry \in 0..(MaxRetries + 1)
      BY <2>2, BudgetAssumption DEF TaskStatus, TaskLive
    <3>2. Release(task[t], "queued", d.retry).status = "queued"
      BY <3>1, Fields, ReleaseRow
    <3> QED BY <1>1, <2>1, <2>3, <3>2, RowLives
  <2>4. CASE DeadLetter(t, DeadRow(t), "dead_letter", None)
    BY <1>1, <2>1, <2>4, DeadLetterPays
  <2> QED BY <1>4, <2>3, <2>4 DEF ReclaimThreadDriving, d
<1>5. CASE Wake(t)
  <2>1. /\ task' = [task EXCEPT ![t] = [@ EXCEPT !.status = "queued"]]
        /\ healing' = healing
    BY <1>5 DEF Wake, WakeTimer, HandBack
  <2>2. [task[t] EXCEPT !.status = "queued"].status = "queued"
    BY Fields DEF Row
  <2> QED BY <1>1, <2>1, <2>2, RowLives
<1>6. CASE RequestCancel(t)
  BY <1>1, <1>6, NoNewDeath DEF RequestCancel
<1>7. CASE CancelSweep(t)
  BY <1>1, <1>7, DeadLetterPays DEF CancelSweep
<1> QED BY <1>2, <1>3, <1>4, <1>5, <1>6, <1>7 DEF Reclaim

\* The heals: one that runs fails its job, one that is lost is on record.
LEMMA HealPays ==
    ASSUME IInv, HealDue, Absorbs, Heal \/ HealLost \/ HealForgone \/ HealAtStart
    PROVE  HealDue'
<1>1. CASE HealScan \/ HealLost \/ HealForgone
  BY <1>1 DEF HealScan, HealLost, HealForgone, HealDue, DeadLettered
<1>2. CASE HealApply
  <2>1. Rel \in Tasks /\ NewTask.status = "queued"
    BY ConstantTypes DEF Tasks
  <2>2. \A t \in {Ext, Rel} :
            task'[t].status = "dead_letter" => task[t].status = "dead_letter"
    BY <1>2, <2>1, Singletons DEF HealApply, UpsertRelation, IInv, TypeOK
  <2>3. healing' \cap {"owed", "forgone"} = healing \cap {"owed", "forgone"}
    BY <1>2 DEF HealApply
  <2> QED BY <2>2, <2>3 DEF HealDue, DeadLettered, Absorbs
<1>3. CASE HealDeadLettered \/ HealAtStart
  <2>1. CASE DeadLettered
    <3>1. job'.status \in JobTerminal
      BY <1>3, <2>1
         DEF HealDeadLettered, HealAtStart, fail_stale_dead_lettered_jobs,
             UpdateStatusIfLive, JobTerminal, IInv, TypeOK
    <3> QED BY <3>1 DEF HealDue
  <2>2. CASE ~DeadLettered
    BY <1>3, <2>2 DEF HealDeadLettered, HealAtStart, HealDue, DeadLettered
  <2> QED BY <2>1, <2>2
<1> QED BY <1>1, <1>2, <1>3 DEF Heal

\* No step of the fleet leaves a dead singleton's job without a heal due.
LEMMA NextPays == ASSUME IInv, HealDue, [Next]_vars PROVE HealDue'
<1>1. CASE UNCHANGED vars
  BY <1>1 DEF vars, HealDue, DeadLettered
<1>2. Next => Absorbs
  BY NextAbsorbs
<1>3. ASSUME NEW w \in Workers, Heartbeat(w) \/ Crash(w) PROVE HealDue'
  <2>1. CASE Crash(w)
    BY <2>1 DEF Crash, HealDue, DeadLettered
  <2>2. CASE Heartbeat(w)
    <3> DEFINE t == att[w].task
    <3>1. /\ t \in Tasks /\ task[t].status = "claimed" /\ healing' = healing
          /\ task' = [task EXCEPT ![t] = [@ EXCEPT !.lapsed = FALSE]]
      BY <2>2, HeldRow DEF Heartbeat
    <3>2. [task[t] EXCEPT !.lapsed = FALSE].status = "claimed"
      BY <3>1, Fields DEF Row
    <3>3. Absorbs
      BY <1>2, <2>2 DEF Next
    <3> QED BY <3>1, <3>2, <3>3, RowLives
  <2> QED BY <1>3, <2>1, <2>2
<1>4. ASSUME NEW w \in Workers, NEW t \in Tasks, Claim(w, t) PROVE HealDue'
  <2>1. /\ task' = [task EXCEPT ![t] = [@ EXCEPT !.status = "claimed",
                                    !.token = w, !.lapsed = FALSE]]
        /\ healing' = healing
    BY <1>4 DEF Claim
  <2>2. [task[t] EXCEPT !.status = "claimed", !.token = w, !.lapsed = FALSE].status
            = "claimed"
    BY Fields DEF Row
  <2>3. Absorbs
    BY <1>2, <1>4 DEF Next
  <2> QED BY <2>1, <2>2, <2>3, RowLives
<1>5. ASSUME NEW t \in Triage, CommitTxn(t) PROVE HealDue'
  <2>1. \A s \in {Ext, Rel} :
            task'[s].status = "dead_letter" => task[s].status = "dead_letter"
    BY <1>5, Singletons, ConstantTypes
       DEF CommitTxn, UpsertRelation, IInv, TypeOK
  <2>2. Absorbs /\ healing' = healing
    BY <1>2, <1>5 DEF Next, CommitTxn
  <2> QED BY <2>1, <2>2, NoNewDeath
<1>6. ASSUME NEW t \in Triage, AbortTxn(t) PROVE HealDue'
  BY <1>6 DEF AbortTxn, HealDue, DeadLettered
<1>7. CASE Heal \/ HealLost \/ HealForgone \/ HealAtStart
  <2>1. Absorbs
    BY <1>2, <1>7 DEF Next
  <2> QED BY <1>7, <2>1, HealPays
<1> QED
  BY <1>1, <1>3, <1>4, <1>5, <1>6, <1>7, DispatchPays, SweepPays DEF Next

-----------------------------------------------------------------------------
(* The theorems.                                                            *)

\* The admitted job.
LEMMA InitTracks == ASSUME Init PROVE Tracks /\ Client!Init
<1>1. IInv
  BY InitInvariant
<1>2. task[Ext].status = "queued" /\ \A t \in Tasks \ {Ext} : task[t].status = "absent"
  BY <1>1, Fields, ConstantTypes DEF Init
<1>3. TriageTasks = {} /\ task[Rel].status = "absent"
  BY <1>1, <1>2, Fields DEF TriageTasks
<1>4. Tracks
  BY <1>2, <1>3 DEF Init, Tracks, StatusTracksTasks, LiveShape, TaskLive
<1> QED BY <1>4 DEF Init, Client!Init

\* With timely status writes the job's status follows its tasks in every
\* reachable state.
LEMMA TracksInvariant == ASSUME ~LateStatusWrite PROVE Spec => [](IInv /\ Tracks)
<1>1. Init => IInv /\ Tracks
  BY InitInvariant, InitTracks
<1>2. IInv /\ Tracks /\ [Next]_vars => (IInv /\ Tracks)'
  BY NextInvariant, NextTracks
<1> QED BY <1>1, <1>2, PTL DEF Spec

\* A dead-lettered extraction or relation was coupled, is owed a heal, or
\* lost it, in every reachable state, late status writes or not.
LEMMA HealDueInvariant == Spec => []HealDue
<1>1. Init => HealDue
  <2> SUFFICES ASSUME Init PROVE ~DeadLettered
    BY DEF HealDue
  <2>1. \A t \in {Ext, Rel} : task[t] = NewTask \/ task[t] = NoRow
    BY PipelineAssumption DEF Init, Tasks
  <2> QED BY <2>1, ConstantTypes DEF DeadLettered
<1>2. IInv /\ HealDue /\ [Next]_vars => HealDue'
  BY NextPays
<1> QED BY <1>1, <1>2, Invariance, PTL DEF Spec

\* A job that is not over always has a live task, an open transaction, a
\* sweep that recognises it or, once its extraction or relation has died in
\* a bulk pass, a heal that is due or was lost, for every fleet, batch and
\* budget, when status writes are not late (find_stuck_triaging_jobs,
\* heal_dead_lettered_jobs).
THEOREM NoStrandedJobHolds == ASSUME ~LateStatusWrite PROVE Spec => []NoStrandedJob
<1>1. ASSUME IInv, Tracks, HealDue PROVE NoStrandedJob
  <2> SUFFICES ASSUME job.status \notin JobTerminal,
                      \A t \in Tasks : task[t].status \notin TaskLive,
                      \A t \in {Ext, Rel} : task[t].status # "dead_letter"
               PROVE  StuckTriaging
    BY <1>1 DEF NoStrandedJob, HealDue, DeadLettered
  <2>1. \A t \in Tasks : task[t].status \in {"absent"} \cup TaskTerminal
    BY <1>1, Singletons DEF TaskStatus
  <2>2. task[Ext].status = "completed"
    BY <1>1, <2>1, Singletons DEF Tracks, LiveShape, TaskTerminal
  <2>3. TriageTasks # {}
    BY <1>1, <2>2 DEF Tracks, StatusTracksTasks, JobTerminal
  <2>4. task[Rel].status # "completed"
    BY <1>1 DEF Tracks, StatusTracksTasks, JobTerminal
  <2>5. task[Rel].status = "absent"
    BY <1>1, <2>1, <2>4, Singletons DEF TaskTerminal
  <2>6. job.status = "triaging"
    BY <1>1, <2>3, <2>5 DEF Tracks, StatusTracksTasks
  <2>7. \A t \in TriageTasks : task[t].status \in TaskTerminal
    BY <1>1, <2>1, Singletons DEF TriageTasks
  <2> QED BY <2>3, <2>5, <2>6, <2>7 DEF StuckTriaging
<1> QED BY <1>1, TracksInvariant, HealDueInvariant, PTL

\* The fleet shows a client of a job nothing but a JobLifecycle when status
\* writes are not late: every commit, fan-in, dead letter, cancellation,
\* reclaim and heal is a step of it or invisible.
THEOREM ImplementsJobLifecycleHolds ==
    ASSUME ~LateStatusWrite PROVE Spec => ImplementsJobLifecycle
<1>1. Init => Client!Init
  BY InitTracks
<1>2. IInv /\ Tracks /\ [Next]_vars => [Client!Next]_(Client!vars)
  BY NextTracks DEF ClientStep
<1> QED
  BY <1>1, <1>2, TracksInvariant, PTL
     DEF Spec, ImplementsJobLifecycle, Client!Spec
=============================================================================
