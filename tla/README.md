# tribal: a verification project

Tribal is a semantic-memory server. A client ingests a text through MCP; the
server stores a *job* in Postgres and a fleet of workers turns it into beliefs
in a knowledge graph: an **extraction** task finds candidates, one **triage**
task per candidate decides whether it is new, and one **relation** task links
what was created and completes the job. Every stage drives an **agent thread**,
a durable conversation that may suspend, be cancelled, or be resumed by another
worker. Beside that pipeline the server drives managed runs, moves its corpus to
new embedding profiles, and supervises its own runtime process. This directory
models these parts in TLA+, checks them with TLC, and proves the safety of the
pipeline with TLAPS.

Source paths below are relative to `src/crates/`.

## The system

| part | state it keeps | operations | interacts with |
|---|---|---|---|
| retry disposition (`tribal-domain/src/disposition.rs`) | none, a pure decision over two budgets | `decide_disposition` | failure path, reclaim sweep |
| task queue (`tribal-db/.../task.rs`) | `tasks`: status, claim token, heartbeat, `retry_count` | claim, heartbeat, complete, fail, requeue, block, dead-letter, reclaim, upsert | everything below |
| dispatch (`tribal-worker/.../dispatch/`) | one attempt per slot, in memory | run a claimed task, commit, persist a failure | queue, threads, jobs |
| job coupling (`tribal-worker/.../coupling.rs`) | `jobs`: status, outcome, batch seal | fan-in, dead-letter coupling, cancel transaction | commits, failures, sweeps |
| stage threads (`tribal-agent-runtime/src/store.rs`, `transitions.rs`, `turn_loop.rs`) | `agent_threads`: status, intent, recovery count, wake; the record log | create, mark running, suspend, wake, cancel, finish | queue, driver tasks |
| leases (`tribal-worker/.../heartbeat.rs`, `dispatch/core.rs`) | `heartbeat_at` against the task timeout | beat, thread-aware reclaim, bulk reclaim | disposition, coupling |
| sweeps (`dispatch/core.rs`, `thread_sweep.rs`) | none durable; a list of jobs read before it is applied | heal dead-lettered jobs, heal stuck triaging jobs, timer wakes, cancel fallback, orphan janitor, stuck relating | jobs, tasks, threads |
| driver tasks (`tribal-agent-runtime/src/driver.rs`, `tribal-worker/.../driver.rs`) | `agent_driver_tasks`, child threads | drive a verifier child, hand back to the parent | threads |
| managed runs (`tribal-runtime-db`, `managed_run.rs`, `managed_loop.rs`) | `run_job`, `tenant_slot` in a second database | admission claim, park, wake, teardown | agent runtime |
| reindex (`reindex.rs`, `reindex_ops.rs`, `backfill.rs`) | runs, tasks, the active embedding profile | backfill, quarantine, cut over | stage commits |
| inference gateway (`tribal-inference`) | concurrency permits, usage ledger | complete, embed, stream | stages |
| MCP server (`tribal-mcp`) | sessions, idempotency keys | ingest, job status, discover, explore, feedback | jobs, graph |
| OAuth (`tribal-auth`) | clients, codes, tokens | authorise, exchange | MCP transports |
| management (`tribal-server/src/management`) | runtime lifecycle, custody of the data directory | start, stop, transition | the server process |
| job watch (`tribal-common`) | in-memory channels | publish, subscribe | dispatch, MCP |

`PROJECT.json` lists every part with what is modelled of it.

What is hard about this code is not any one function. Workers of several
processes share rows under READ COMMITTED with `FOR UPDATE SKIP LOCKED`, so

- a **lease** can lapse under a live attempt, whose late writes then race those
  of its successor;
- a **count** taken inside a transaction does not see a sibling that ends in
  another open transaction;
- some writes are **best-effort**: outside a transaction, without the claim
  token, with their errors dropped;
- **sweeps** apply lists they read earlier;
- a **cancellation intent** may land at any moment, on a queued, running or
  suspended thread;
- a **crash** may fall between any two of these.

For each part, what makes it correct:

- queue and leases: one task's effects commit once; a terminal row never moves;
- disposition: no counter passes its budget; the budget means what it says;
- threads: a task and its thread block, resume and end together;
- coupling: relation starts after *all* triage and never before; the job ends
  exactly when its work does, with the outcome its results justify;
- sweeps: whatever is left behind, some sweep recognises it, so every job ends;
- driver tasks: who waits on a child is woken, by a verdict on what was asked;
- turn loop: the log alone carries the conversation over a crash;
- managed runs: the two planes agree, and nothing metered is done twice;
- reindex: what is committed stays searchable, in one geometry;
- lifecycle: no process is lost, no client is misled or left waiting.

## Modules

| module | what it holds |
|---|---|
| `Disposition` | the retry decision, an operator over budgets given as constants |
| `IngestPipeline` | one job on the fleet: state, one action per statement or transaction, the specification and its properties |
| `JobLifecycle` | what a client may observe of a job; `IngestPipeline` implements it |
| `DriverTasks` | one stage thread, its verifier children, their driver tasks, the sweeps over the lineage |
| `TurnLoop` | the record log of one loop thread and the attempts that drive it in turn; extends `Disposition` |
| `ManagedRun` | run_job and tenant_slot in one database, the run's thread in another, the drives between them |
| `Reindex` | embedding profiles, reindex runs and tasks, the worker's drive, and the ingest commits beside it |
| `Lifecycle` | the management plane's lifecycle owner, its clients, its spawned tasks and the runtime process |
| `MC*` | the instances for TLC |
| `IngestPipelineProofs`, `JobLifecycleProofs` | the pipeline's inductive invariants and theorems, and the refinement |
| `DriverTasksProofs`, `TurnLoopProofs`, `ManagedRunProofs`, `LifecycleProofs`, `ReindexProofs` | the same for the module each one extends |

The modules meet at rows they share. `IngestPipeline` takes a thread's turns to
be one step each, and its suspension on a child to be ended by `HandBack`;
`TurnLoop` refines the first, `DriverTasks` the second. `Reindex` has the commit
that `IngestPipeline` calls `CommitTriage`, seen from the embedding profile.
`ManagedRun` uses the thread of the core database in another way than a stage
does, and has its own. `Lifecycle` stands apart: the runtime it supervises is
the process all the others run in.

## The ingest pipeline (`IngestPipeline`)

### State

`job`, `task`, `thread` and `results` are the Postgres rows. `att[w]` is the
attempt running in dispatch slot `w`: its program point, its task, and the
values it *remembers*: the job status it read, the `retry_count` its claim
returned, the outcome a relation attempt derived. Those copies are modelled
because the code uses them after the row may have moved. `txn[t]` is the open
transaction ending triage task `t`. `healing` is the healing sweeps' business
with the job: it is `listed` among a sweep's stuck jobs, it is `owed` a heal by
the bulk pass that dead-lettered one of its rows, or that heal was lost
(`forgone`, which is history). `commits` and `faults` are history: the first
counts committed domain effects, the second bounds faults.

A slot identifies a claim: a slot holds one attempt, and each claim of the code
draws a fresh UUID, so a token in the model names the slot that drew it. A slot
that re-claims the same row is again the holder, which is right: its previous
attempt is over.

### Actions and code

| action | code |
|---|---|
| `Claim`, `LoadJob`, `WriteStatus` | `claim`, then `run_task_inner` up to the heartbeat; the status write is separate from the read it depends on |
| `CreateThread`, `MarkRunning`, `Adopt` | `ensure_stage_thread`; only the first two check the lease |
| `Progress`, `Suspend` | a turn of the loop: its progress reset, or `suspend_stage_thread` |
| `Dispose` | `dispose_for_thread_state` for an intent, at the claim or a turn boundary |
| `CommitExtraction`, `CommitTriage`, `CommitRelation` | the stage commits with `finish_thread` and the coupling inside |
| `Fail` | `handle_stage_failure`: the legacy `fail` without a thread, else the disposition |
| `Abandon` | ownership lost, seen by a heartbeat or by a claim-guarded write |
| `CommitTxn`, `AbortTxn` | the end of a triage-ending transaction, whoever runs it |
| `Heartbeat`, `Lapse`, `Crash` | liveness of a claim and its loss |
| `ReclaimThreadDriving`, `ReclaimBulk` | the two halves of the reclaim sweep |
| `HealScan`, `HealApply`, `HealLost` | the stuck-triaging sweep, which recurs at every pass; the scan and its application are two steps, and the application may fail |
| `HealDeadLettered`, `HealForgone`, `HealAtStart` | `heal_dead_lettered_jobs`: once after a bulk pass that dead-lettered a row (`core.rs:794`), or lost with its process or to a logged error (`core.rs:629-653`), or made at a start (`core.rs:230`) |
| `WakeTimer`, `HandBack` | what resumes a suspended thread |
| `RequestCancel`, `CancelSweep` | an operator's intent, and the fallback that acts on it |

Each action is one statement or one transaction, because Postgres makes it
atomic and the row locks exclude conflicting ones. The exception is a
transaction that ends a triage task. It counts its live siblings and then
commits, and under READ COMMITTED two such transactions do not see each other,
so it is two steps: `BeginTriageEnd` inside the action that opens it, and
`CommitTxn`. While it is open its row is `Locked`: others skip it or wait.

### What is abstracted

- What a stage infers and writes into the graph is one effect per task; a
  candidate is a model value. Extraction may find any subset of `Triage`.
- `available_at` back-off is delay, and delay is interleaving.
- The suspended and terminal arms of `dispose_for_thread_state` need a claimed
  row whose thread is suspended or terminal; `PairedLifecycle`, which is proved,
  excludes that state, so they have no action.
- The "already committed" returns of the triage and relation commits need a
  result without a completed task; `EffectsExactlyOnce` excludes that one. The
  batch-seal test of the relation commit is kept.
- A verifier child is only the wake it gives its parent (`HandBack`); the child
  itself is `DriverTasks`.
- Job-state notifications go to in-memory watchers and change no row.

## Driver tasks and child threads (`DriverTasks`)

A stage thread that submits a result may suspend on a *verifier* child, which
is a thread of its own with an `agent_driver_tasks` row. `parent` is the stage
thread with its tasks row, `call` the submission its log ends with, `answers`
the child that answered each submission; `child` and `driver` are the rows in
launch order. `run[d]` is what a driver slot remembers from its claim, and
`reclaim`, `due` and `cascade` are what a pass has read and not yet applied.

| action | code |
|---|---|
| `Submit`, `Launch`, `SuspendOnBudget`, `Finish`, `DisposeParent` | the parent's turn: `commit_assistant_turn`, `suspend_with_child`, `suspend_stage_thread`, `commit_loop_terminal`, `dispose_for_thread_state` |
| `ClaimDriver`, `StartChild`, `Resolve`, `CommitTerminal` | `drive_pending_tasks` to `commit_child_terminal`, with the parent row it re-reads |
| `FailChild`, `RejectChild`, `RefuseChild`, `Die` | the ways a drive ends badly: requeue, deferred death, a child already over |
| `Crash`, `Lapse`, `Stall`, `Heartbeat`, `ReclaimScan`, `ReclaimApply` | the driver's lease; a reclaim's scan and its application are two steps |
| `TimerScan`, `TimerWake`, `CancelSweepParent`, `CancelSweepChild`, `StuckRelating`, `OrphanJanitor` | the availability sweep |
| `Cascade`, `CascadeLost` | the post-commit cascade of a cancellation, and its loss with the process |

Abstracted: the verdict is a choice; `available_at` is interleaving; the parent's
own lease is `ClaimParent` and `ReleaseParent`, as `IngestPipeline` has it.

## The turn loop (`TurnLoop`)

`log` is the thread's append-only record sequence, each record reduced to what
the loop's projection reads of it. `loop[p]` is one execution: its program
point and the *reading* (`project`) it derived from the log at entry and has
updated in memory since. An attempt never reads the log again except where the
code does (`BatchOutcome::Reproject`), so a record that the memory and the log
disagree on is visible. Records: the opening, assistant messages with their
calls, tool results and verdicts, suspensions and wakes with their recheck
count, drift inputs, submissions.

`Enter` is the attempt's entry (`begin_turn` on a fresh log); `AcceptVerdict`,
`RejectVerdict` and `DriftVerdict` are `resolve_verdict`; `ExecuteTool`,
`BounceSubmission`, `SubmitUnverified` and `LaunchVerifier` are `execute_batch`
one call at a time, since each result is a commit; `Cancelled`, `CapOrDeadline`,
`Admit` and `Exhaust` are the turn boundary in its order; `CommitTurn` and
`CommitTerminal` are the claim-guarded commits. `Fail` charges a budget through
`decide_disposition`, `Crash` leaves the claim, `Reclaim` charges the row.

## Managed runs (`ManagedRun`)

A managed run has a `run_job` row in the runtime database and an agent thread
in the core database, and no transaction spans them. `job`, `slot`, `program`
are the first plane, `thread` and `log` the second, `hold`, `acked` and
`refusals` what the metering gateway knows. `drive[w]` is one execution with the
thread it last read (`seen`), the counts it re-derived, its cancel watch and its
heartbeat. Every commit against either plane is a step, in the order of
`drive_managed_run`: adopt the thread under its token, the opening input, the
re-derivation, the intent, the adoption of a wait that is over, then the walk
(`Dispatch`, `CommitCall`, `DurableWait`, `CommitArtifact`, `Complete`), and the
teardown (`Poll`, `Settle`, `Acknowledge`). A refusal is a cap disposition
(`DisposeOverCap`, `Park`) or a failure (`FailRun`). The sweeps that join the
planes scan first (`ScanWakes`) and wake later (`SweepWake`, `SweepCancel`).
A dispatch and its answer are two steps, so that a cancel can race the call.

Abstracted: money is a hold that is active or settled; the crossings' wire
format and grants are external; a probe is `[calls, wait, cap]`.

## Reindex (`Reindex`)

A run and the profile it builds are inserted together, so an epoch names both.
`rows[e][x]` is the *generation* of the provider's serving that computed the
embedding of `x` under profile `e`: that is what the probe digest tells apart,
and `drift` is the generation served now. `worker[w]` is a drive cycle with the
counts and the classification it carries between transactions, `ingest[c]` one
commit of a novel item. Operator: `Probe`, `Create`, `CancelRead`/`CancelApply`,
`Prune`. Drive: `Promote`, `Enrol`, `FindTarget`, `ClaimTask`, `CallTask`,
`CallSweep` (provider calls), `Write`, `Bump` (the quarantine tally, a
transaction after the quarantine record), `AfterTasks`, `AfterIndex`,
`CheckSweep`, `ProbeDrifted`, `Cutover`. Ingest: `Embed`, `Begin`,
`AcquireShared`, `ReadActive`, `CommitNovel`. `Abandon` is a crash with the
reconciliation at the next boot.

Abstracted: batches are one answer over any subset of a task's entities; the
partial index build either succeeds or fails the run; rate limits are delay.

## The lifecycle owner (`Lifecycle`)

One task owns `LifecycleState` and reduces commands, completions of the tasks it
spawned, link events and a poll. `own` is that state flattened into a record
whose `mode` names the variant; `req[r]` is the answer of the r-th client
request, with every answer that promises nothing about the runtime called
`declined`; `proc` is what the manager can observe of each runtime process (its
life, its custody stream, its control channel, whether it was told to stop or
killed); `tasks` are the spawned tasks with their outcome; `refresh` is the
document read in flight and whether a newer token overtook it.

`Admit*` are the seven requests, `ExternalShutdown` and `WorkerExit` the other
two inputs; `Completion(t)` is `handle_completion` for each kind of task, split
by what the operation has become since (`LaunchCommitted`/`CancelCommitted`,
`LaunchConnected`/`CancelConnected`, `StopCompleted`, `TransitionStopped`...); a
completion whose token is no longer the operation's is ignored. `Poll` is
`observe_exit` over the five states that look at the process. `LinkEvent`,
`Readiness`, `ConfigChanged`, `DocumentRead` are the events of a running link,
`Monitor` the task that produces them. `TaskRuns`, `Exits`, `Disturbed` and
`Expire` are the world.

`observe_stopping` looks at custody before it looks at the process
(`lifecycle.rs:3112`, then `3132`), and a process that exits closes its custody.
So in the model, as in the code, an ordinary stop or restart of an owned child
ends in termination, and `StopCompleted` is reached for a recovered runtime
only. The answer "stopped", which `AnswersTrue` is about, is therefore exercised
through cancellations, transitions and stops of a recovered runtime.

## Runs

| run | constants that matter | checks | states |
|---|---|---|---|
| `reclaim` | 1 retry, 1 recovery cycle, 1 fault | `TypeOK`, `EffectsExactlyOnce`, `TerminalAbsorbing` | 1,037,453 |
| `cancellation` | no budget, 1 turn, 1 fault, every thread cancellable | `PairedLifecycle`, `FanInSound`, `TerminalJobQuiesces`, `OutcomeJustified` | 312,001 |
| `settles` | as above, one cancellable candidate, fairness, no late status write | `NoStrandedJob`, `ImplementsJobLifecycle`, `JobSettles` | 176,913 |
| `drivers` | 2 driver slots, 1 sweeper, 2 submissions, 2 launches, 2 faults | `TypeOK`, `ParentBlockedWhileChildDrives`, `VerdictMatchesSubmission`, `ChildNeverOutlivesDriver`, `WaiterHasResolver`, `LineageSettles` | 116,244 |
| `turn_loop` | 2 executions, a submission with a call beside it, 2 turns, 1 launch, recheck bound 2, 1 retry | `TypeOK`, `ReadingIsLog`, `ConversationWellFormed`, `SubmissionStands`, `CapsHold`, `LoopEnds` | 280,649 |
| `managed` | 1 run, 2 drives, both cap behaviours, cap 1 or 2, 1 fault, 2 refusals | `TypeOK`, `SlotsMatchRunning`, `NothingRepeated`, `GiveUpSpentOnce`, `AckAfterSettle`, `PlanesAgree`, `RunSettles` | 258,582 |
| `reindex` | 1 worker, 1 commit, 2 items, 1 tag, 2 epochs, 1 drift, 2 faults | `TypeOK`, `ActiveCovered`, `LiveRunHasBuilding`, `FlipVerified`, `FlipWithinCap`, `ReindexSettles` | 255,160 |
| `lifecycle` | 3 requests, fresh or recovered, 1 fault, 1 report, lossy control | `TypeOK`, `LiveLaunchHeld`, `AnswersTrue`, `RestartPendingKept`, `RequestsAnswered` | 260,496 |
| `stranded_job` | 3 slots, 1 retry, 1 fault | `NoStrandedJob` fails | |
| `retry_snapshot` | 1 retry, 1 turn | `RetryBoundsConsecutiveFailures` fails | |
| `stale_claim` | 1 fault | `StaleClaimDrivesThread` fails | |
| `child_cancel_strands` | 1 submission, no fault, triage children cancellable | `LineageConverges` fails | |

`CHECK_DEADLOCK FALSE` everywhere: a job, lineage, thread or run that is over,
or a manager that has left its loop, leaves nothing to do.

**Bounds of the pipeline.** Two candidates, so that a triage task has a sibling
to race, and two slots, so that an attempt has a successor to race (three in
`stranded_job`). `MaxRetries` and `RecoveryCap` are the code's own budgets; one
of each reaches every kind of disposition and both sides of each comparison.
`MaxTurns` bounds the turn boundaries of a thread; one is enough to suspend
after a claim, and to make progress after a failure. `MaxFaults` bounds crashes,
stalls, aborted commits and failed stuck-triaging heals together (a lost
dead-letter heal needs no bound: each uses up a bulk dead-letter); one fault already makes two
attempts on one row, and the theorems hold for any number. A budget of zero in
`cancellation` and `settles` makes every failure final, which brings the
dead-letter paths within few steps. Slots and candidates are interchangeable, so
the safety runs use their permutations as symmetry; `settles` checks liveness
and does not.

**Bounds of the others.** `drivers`: two slots race over one child after a
reclaim; two submissions and two launches let a late verdict meet the next
submission, and let a parent that has spent its launches finish; one attempt per
task makes the next lost lease a deferred death. `turn_loop`: a turn that
carries a submission *and* a call is the shape in which a verdict returns to an
unanswered tail; two turns let a rejection be followed by another submission and
reach the cap; failures and crashes are *not* bounded, the retry budget has to
bound them. `managed`: two drives give a run a rival; two refusals let a cap wait
be followed by another; the probe with a wait and the one without are both
chosen. `reindex`: two epochs let a failed or cancelled run be followed by
another, or a flip by a prune; two faults let a crash follow a failure; a cap
divisor of 1 puts the quarantine bound between one item and two. `lifecycle`: a
request that brings a runtime up, one that tells it to leave, one that meets it
again; the sets `Sessions` allow each of the seven operations where it does
something. `MaxFaults`, `MaxDrift`, `MaxReports`, `MaxRequests`, `MaxRefusals`
are the bounds that are not the code's.

**Fairness.** The loops of the worker are unconditional loops on timers, a
spawned future is polled until it ends, and Postgres ends every transaction.

- `IngestPipeline`: weak fairness of `FleetStep`, the fleet does *something* of
  what it can do by itself. Crashes, stalls, aborted commits, lost heals, starts
  of a process, cancel requests and heartbeats are outside it. A dead-letter heal
  is in it only while one is owed: no timer of the code brings it back. One condition suffices, because every fleet
  step uses something up: a budget, a program point, a turn or a task.
- `DriverTasks`: weak fairness of the stage worker, the sweep, the reclaim pass
  and each driver slot, row lease and sweeper list. Faults, requeues and
  operators owe nothing.
- `TurnLoop`: weak fairness of each execution's own step, of the reclaim of an
  abandoned claim and of whatever resolves a suspension. No fairness says that a
  failure stops; `LoopEnds` follows from the budgets alone.
- `ManagedRun`: weak fairness of each drive's step, heartbeat and claim, of the
  reclaim and the sweeps; and of the outside: a deadline passes, a signal comes,
  the gateway settles what was dispatched.
- `Reindex`: weak fairness of the drive, of a commit, and of the second half of
  a cancel. A probe, a create, a prune and a drift owe nothing.
- `Lifecycle`: weak fairness of handling a completion, of the poll, of a spawned
  task's end (each has its own deadline in the code) and of time. A runtime
  process need not exit when it is told to.

**What the passing runs show.**

- *Pipeline.* Through a crash, a stall that reclaims a row under a live attempt,
  an aborted commit, suspensions and cancellations in any order: effects commit
  exactly once; relation starts after all triage although two last triage tasks
  may each see the other live; a finished job leaves nothing behind; its client
  sees a `JobLifecycle`; and every job ends, but for one case that `JobSettles`
  names `AwaitsRestart`: its extraction or relation died in a bulk pass, which
  couples nothing, and the one heal after that pass was lost. No later pass of its
  own comes back to it; it waits for a worker process to start, or for another
  job's bulk dead-letter. A test knows the window: `tests/worker/lifecycle.rs:320-323`
  waits for both rows before it cancels, because cancellation "aborts the
  reclaim loop, which would prevent heal_dead_lettered_jobs from running".
- *Lineage.* A parent waiting on a child always has a resolver, its task cannot
  be woken under it, the verdict it gets is of the submission it waits for, and a
  child and its driver task end together. `HandBack`, an assumption of the
  pipeline's fairness, is what this run justifies, but for the cases below.
- *Turn loop.* A successor after any crash holds the reading its predecessor
  held; the provider never sees a dangling or doubled tool call; what is
  submitted is what was verified; caps hold over the thread and not only over
  one attempt.
- *Managed runs.* The order core-before-runtime, with the re-derivation, is
  enough for two planes without a common transaction.
- *Reindex.* Three locks, a re-read and a catch-up sweep keep the corpus covered
  while it is rebuilt under ingest.
- *Lifecycle.* Tokens, the waiter lists and the poll agree: nobody waits for
  ever, and no launched process is forgotten.

**Assumptions that a constant states.** Each is a window the code leaves open and
the passing run closes; the next section has what happens when it is open.
`LateStatusWrite` (a worker reaches its status write before it loses its lease),
`SlowAdoption` (a drive adopts its thread before it loses its lease),
`SlowCancel` (no promotion falls inside a reindex cancel), `LongCommit` (a commit
that began without a live run does not outlast the whole run), one sweeper in
`drivers`, one worker in `reindex`, and `SlowReap` (a killed early child is
reaped within its deadline).

### Where code and comments disagree

1. `stranded_job`. `coupling.rs:43-45` calls the stuck-triaging sweep "the
   authoritative convergence mechanism", which "must converge the job on its
   own". Its query requires `status = 'triaging'`. A stalled extraction attempt
   that read the job as `queued` may, after its successor committed, write
   `extracting` over `triaging`. If both triage tasks then dead-letter in
   racing transactions, each counting the other live, there is no relation task
   and no sweep recognises the job. A client polls `extracting` for ever.
2. `retry_snapshot`. `disposition.rs:6-8` says that `retry_count` bounds
   *consecutive* failures and is reset by a committed turn. The reset writes the
   row, and the failure path reads the `Task` its claim returned. A task that
   progressed and then failed is charged for failures before that progress. A
   crash in the same place, decided by the reclaim sweep from the row, is not.
3. `stale_claim`. `task.rs:727-729` says that only rows predating the runtime
   reach the bulk reclaim pass. A thread is created in a later transaction than
   the claim, so any worker that stops in between leaves such a row. The
   pass is not legacy, and it couples no job: a job whose row it dead-letters
   depends on the one heal that follows, and stays live until a restart if that
   heal is lost (`AwaitsRestart`).

4. `child_cancel_strands`. A test of the driver (`tests/worker/driver.rs:753-755`)
   expects that the cancellation of a child crosses back to the parent "so the
   parent is not stranded waiting on a child that will never run". A driver that
   meets the intent does that. The cancel fallback, when it comes first, ends the
   unclaimed child and its task in `dispose_cancelled_driving_task` and hands
   nothing back. A relation parent is rescued by the stuck-relating sweep, called
   the one that "cannot otherwise converge" (`thread_sweep.rs:309-310`). A triage
   parent stays suspended, and its job with it.

### Other constants, other results

These come from the same modules with other constants. They are not runs of the
project; the constants reproduce them.

| property that fails | constants | what happens |
|---|---|---|
| `IngestPipeline!<>(job.status \in JobTerminal)` | as `settles` | `JobSettles` without its exception: a worker stalls between claim and thread, the bulk pass dead-letters the row, and the heal after it is lost (`core.rs:629-653`, `core.rs:794`) |
| `DriverTasks!ParentBlockedWhileChildDrives` | 2 sweepers, 1 driver, no fault | a due-timer list read before the parent moved on wakes it while its child drives: `resolve_stage_thread` asks only that the thread be suspended |
| `DriverTasks!LineageConverges` | `MaxAttempts = 3`, `MaxFaults = 4`, 1 driver, no child cancel | the last attempt is lost while the child is still queued; the death transaction moves a *running* child, misses, and is retried for ever. `LineageSettles` names this case, `UnstartedOnLastAttempt` |
| `ManagedRun!CancelledOnRequest` | `MaxFaults = 1`, no refusals | a database error in a renewal fires the watch that a cancel fires (`managed_run.rs:879`), and the run is torn down `cancelled` |
| `ManagedRun!RunSettles` | `SlowAdoption = TRUE`, `Programs <- Throttled` | a drive that lost its lease before its first heartbeat resolves a thread its successor has already suspended again; the wake is spent on nobody |
| `Reindex!LiveRunHasBuilding` | `SlowCancel = TRUE` | `reindex_cancel` reads `queued`, the worker promotes, the cancel's transition of the run misses and that of the profile does not (`reindex_ops.rs:421-449`) |
| `Reindex!ActiveCovered` | `LongCommit = TRUE` | a commit that saw no live run holds no lock and writes under the profile that a whole reindex has superseded |
| `Reindex!FlipVerified` | 2 workers | one worker's probe verdict is older than another worker's writes |
| `Reindex!FlipWithinCap` | 2 workers, `CapDivisor = 2` | one worker flips between another's quarantine record and its tally: a task that is claimed is not claimable, so nothing waits for it |
| `Lifecycle!ShutdownHeard` | `MaxRequests = 2`, `Ops <- CutShort`, `Origins <- FreshOrigin` | a shutdown during a launch that fails is answered `ShuttingDown` by `resolve_cancel_without_child`, which does not set `shutdown_seen`; the manager goes on |
| `Lifecycle!LiveLaunchHeld` | `SlowReap = TRUE` | `terminate_early_child` (`lifecycle.rs:3847`) drops a killed child that did not exit within the deadline |
| `Lifecycle!LiveRuntimeHeld` | as `lifecycle` | the closed control channel of a recovered runtime is read as its exit, and a second runtime may be started beside it |

Read in the code while modelling, and kept in the models as it is: a managed
thread's adoption writes its token unconditionally (`agent_thread.rs:629`), so a
stale drive can take a thread back for a moment and is stopped at the job's
fence; a crash between a terminal commit and its acknowledgements leaves keys
unacknowledged, since nobody drives a settled run again; a crash between a
quarantine record and its tally under-counts the cap (`FlipWithinCap` excludes
the epochs where that happened); a launch that is cancelled returns to the
readiness it came from and not to the latest one.

## Proofs

Every theorem holds for every value of the constants that the module's assumption
admits; TLC evaluates those assumptions in every run. Where a theorem has a
further hypothesis, it is one the code leaves open, it is named in the tables,
and "Other constants, other results" has what happens without it.

### The pipeline

`IngestPipelineProofs` proves, for
every fleet, batch, retry and recovery budget, turn and fault bound, and either
value of `LateStatusWrite`:

| theorem | states |
|---|---|
| `TypeCorrect` | `Spec => []TypeOK` |
| `PairedLifecycleHolds` | `Spec => []PairedLifecycle` |
| `FanInSoundHolds` | `Spec => []FanInSound` |
| `EffectsExactlyOnceHolds` | `Spec => []EffectsExactlyOnce` |
| `TerminalJobQuiescesHolds` | `Spec => []TerminalJobQuiesces` |
| `OutcomeJustifiedHolds` | `Spec => []OutcomeJustified` |
| `TerminalAbsorbingHolds` | `Spec => TerminalAbsorbing` |

They rest on `BudgetAssumption` (the budgets are naturals) and
`PipelineAssumption` (extraction, relation and triage tasks are distinct, `None`
is neither a slot nor a task), which TLC evaluates in every run.

None of these invariants is inductive alone. `FanInSound`, for instance, needs
to know that an open transaction's sibling count *stays* true until it commits,
and that no triage task is inserted after extraction ended. `IInv` adds:

- `ClaimShape`: a row carries a token exactly when it is claimed, and a live
  row is within its retry budget;
- `AttemptShape`: an attempt drives an inserted task, and one with an open
  transaction is waiting for it;
- `TxnShape`: an open transaction holds a live row, ends task and thread
  consistently, and its count is still true;
- `IntentShape`, `BatchAfterExtraction`, `HealingSound` (a sweep's list names
  only batches that have ended), `TerminalPastFanIn` (a finished job with a
  batch already has its relation task);
- `PlanStands`: the outcome a relation attempt remembers is still what the
  results give. Triage has ended by then, and terminal tasks do not move.

TLC checked `IInv` on the instances of `reclaim` and `cancellation` first.

The proof divides the steps in two. A *quiet* step inserts, ends and revives no
task; lemma `QuietStep` (with `RowStep` and `AttemptStep` for the usual shapes)
shows that such a step keeps everything about fan-in, effects and outcome, and
each quiet action only has to show that it is one. The others (a dead-letter,
opening and committing a triage end, the two singleton commits, the heals) each
have a lemma of their own. `TerminalAbsorbing` follows from the same invariant:
every statement that moves a row starts from a live one.

`JobLifecycleProofs` proves, under the further hypothesis `~LateStatusWrite`:

| theorem | states |
|---|---|
| `NoStrandedJobHolds` | `Spec => []NoStrandedJob` |
| `ImplementsJobLifecycleHolds` | `Spec => ImplementsJobLifecycle` (the refinement) |

`IInv` does not say where a job's status may be while its tasks are where they
are. `Tracks` adds that: `StatusTracksTasks` (a live job is `queued` or
`extracting` until extraction commits, `triaging` until a relation task exists,
`relating` after) and `LiveShape` (a live job has no outcome yet, and its
extraction task was inserted with it). Every lemma then shows two things of its
step at once: it preserves `Tracks`, and it is a step of the client's view or leaves it alone
(`ClientStep`), so one case analysis serves the invariant and the refinement.
The hypothesis is used in one place, `WriteStatusTracks`; the `stranded_job` run
shows that it cannot be dropped. `NoStrandedJobHolds` needs one invariant more,
`HealDue`, which is proved without the hypothesis: a live job with a dead
extraction or relation is owed a heal, or its heal was lost. Every action that
could dead-letter such a row ends the job in the same transaction or is the bulk
pass, which owes the heal; nothing but a heal, or the loss of one, clears the debt.

### Driver tasks

`DriverTasksProofs` proves, for any number of drivers, sweepers, attempts,
launches and submissions:

| theorem | states | hypothesis |
|---|---|---|
| `DriverTypeCorrect` | `Spec => []TypeOK` | |
| `ChildNeverOutlivesDriverHolds` | `Spec => []ChildNeverOutlivesDriver` | |
| `ParentBlockedHolds` | `Spec => []ParentBlockedWhileChildDrives` | one sweeper |
| `VerdictMatchesHolds` | `Spec => []VerdictMatchesSubmission` | one sweeper |
| `WaiterHasResolverHolds` | `Spec => []WaiterHasResolver` | one sweeper, and no cancellation of a triage child |

`RowInv` says how the rows fit: the parent's task follows its thread
(`ParentShape`), the children launched are a prefix (`LaunchShape`), and an
execution or a reclaim pass names one of them (`RunShape`). It holds whatever
the sweeps do. A verdict that matches what was asked needs the lineage in time
order, which is `LineageInv`: the live child is the youngest (`LiveIsYoungest`),
an execution about to commit for it resolved the submission that child was
launched for (`AnswerStands`), and a thread that a sweep has listed still waits
for its timer (`DueStands`). `DueStands` is where a second sweeper breaks the
proof, as it breaks the model.

### The turn loop

`TurnLoopProofs` proves, for any set of slots, any batches of calls and every
budget, with no further hypothesis:

| theorem | states |
|---|---|
| `TurnTypeCorrect` | `Spec => []TypeOK` |
| `ReadingIsLogHolds` | `Spec => []ReadingIsLog` |
| `ConversationHolds` | `Spec => []ConversationWellFormed` |
| `SubmissionStandsHolds` | `Spec => []SubmissionStands` |
| `CapsHoldHolds` | `Spec => []CapsHold` |

`IInv` has a part about the log alone (`LogInv`), one about the rows, and one
about what each attempt remembers (`AttemptsShape`). The parts of `LogInv` are
proved together, by one lemma: `Fits(r)` says which record the log takes next,
and `FitsAppend` that any record that fits keeps all of them. A commit of the
code then only has to show that its record fits. `HolderRow` is what makes it
so: the attempt that holds the claim has, at each program point, a reading that
agrees with the log's, and no other attempt may write. `StallShape` says how a
thread that has run out of credit ends its log, and is why rechecks rise and a
resumed attempt carries on a wait it finds. The steps are of three kinds, with a
lemma each: an attempt moves and writes nothing (`LocalStep`), the holder
appends and goes on (`CommitStep`), or nobody holds the claim afterwards
(`LeaveStep`).

### Managed runs

`ManagedRunProofs` proves, for any runs, tenants, programs, slots and caps:

| theorem | states | hypothesis |
|---|---|---|
| `ManagedTypeCorrect` | `Spec => []TypeOK` | |
| `SlotsMatchRunningHolds` | `Spec => []SlotsMatchRunning` | |
| `NothingRepeatedHolds` | `Spec => []NothingRepeated` | |
| `AckAfterSettleHolds` | `Spec => []AckAfterSettle` | |
| `PlanesAgreeHolds` | `Spec => []PlanesAgree` | `~SlowAdoption` |
| `GiveUpSpentOnceHolds` | `Spec => []GiveUpSpentOnce` | `~SlowAdoption` |

`FenceInv` is what the thread's claim token protects. A drive that still holds
the thread knows what its log holds (`MirrorInv`): the calls it counted, the
wait and the artifact. It may act on nothing else, so nothing is repeated, and
the proof needs no word about the job's lease: the first four theorems hold
with `SlowAdoption` too. `SlotInv` counts, over finite sets of running jobs.
`PlanesInv` ties the two planes: `Held` says what a drive at each program
point may rely on (its lease until it walks, the thread as long as it has the
lease, a terminal its thread agrees with) and `Agree` how an ended job and its
thread compare. `CauseInv` follows the cause of a wait: only a hard stop gives
up, and a drive that carries no cause and has a call to make finds every
give-up of the log spent.

### The lifecycle owner

`LifecycleProofs` proves, for any number of requests, whatever each may ask for,
and every bound on faults and reports:

| theorem | states | hypothesis |
|---|---|---|
| `LifecycleTypeCorrect` | `Spec => []TypeOK` | |
| `LiveLaunchHeldHolds` | `Spec => []LiveLaunchHeld` | `~SlowReap` |
| `AnswersTrueHolds` | `Spec => AnswersTrue` | `~SlowReap` |
| `RestartPendingKeptHolds` | `Spec => RestartPendingKept` | |

`Owns` is what the owner's loop keeps whatever the runtime does: what each mode
holds (`OwnShape`), waiters that have been taken and not answered (`Heard`), a
child that was spawned (`Held`), and a transition's document read only after its
process exited (`TasksFit`). `Charged` is the one that is easy to miss: every
launch has a request of its own, and a restart that has not launched yet keeps
one, so the child of a new launch is a new process and no late completion can be
its own. One case analysis shows of every step that it keeps `Owns`, keeps
`LiveLaunchHeld` if killed children are reaped in time, and answers truly
(`Told`). `RestartPendingKept` rests on a second invariant, `Links`: the monitor
queues a restoration of the child's link only behind the loss that saved the
phase, or after that loss was handled, so a restoration always finds a saved
phase; and no event of a child precedes its link. Every step but the monitor's
and the one that handles an event is one of five kinds (`LinkMoves`).

### Reindex

`ReindexProofs` proves, for every corpus and every bound, any number of drives
and of commits unless `OneDrive` is named, and either value of `LongCommit` and
`SlowCancel` unless it is:

| theorem | states | hypothesis |
|---|---|---|
| `ReindexTypeCorrect` | `Spec => []TypeOK` | |
| `LiveRunHasBuildingHolds` | `Spec => []LiveRunHasBuilding` | `~SlowCancel` |
| `ActiveCoveredHolds` | `Spec => []ActiveCovered` | `~LongCommit` |
| `FlipVerifiedHolds` | `Spec => FlipVerified` | `OneDrive`: no two processes drive |
| `FlipWithinCapHolds` | `Spec => FlipWithinCap` | `OneDrive` |

`Inv` has no hypothesis. `Flight` says that epochs are used in order and that a
live run is the newest, whatever a cancel tore apart; from it follow that
`find_active`, `find_building` and `find_live` name one epoch at most and that
boot has nothing to reconcile. `Fits` is what a drive relies on at each position:
past the claim, the profile it builds *is* its run's, although `find_building` is
not tied to the run read before it. `Tallied` ties a run's tally to the
quarantine: the quarantined items are exactly the counted ones, those that some
drive has recorded and not counted yet, and those a crash lost. On top of it,
`Paired` adds that a cancel's read of the run's state is still true or moot;
`Covered`, that a commit past its read of the active profile has vectors of that
profile; `Verified`, that nothing under a building profile is older than its
probe; `WithinCap`, that the tally is within the cap behind the check.
`DriveShape` reduces the steps of a drive to four: it leaves profiles and
embeddings alone, it writes, it fails profile and run together, or it flips them
together; only the last makes a profile active (`OnlyFlips`).

They rest on `ReindexAssumption`: items and tags are finite and no tag is one of
the names the model gives to a task that is not a tag.

**Only model-checked**: `JobSettles`, `LineageSettles`, `LoopEnds`, `RunSettles`,
`ReindexSettles` and `RequestsAnswered` are liveness under fairness, outside the
prover's reach. Every invariant and action property that a passing run checks is
the subject of a theorem.

## Not modelled, and the plan

Next, in order:

1. `Admission` (two calls with one idempotency key), `OAuthCodes` (single use),
   `Gateway` (permits and the usage ledger), `JobWatch` (no missed terminal
   state).
2. The rest of the management plane: custody's wire protocol, file authority,
   storage transitions, credentials.

Providers, prompts, parsing, configuration, telemetry, terminal output and wire
types are input, output or pure data, and are left out. The handlers of
`tribal-mcp` other than ingest are reads. Row locks *within* a transaction are
not modelled: two transactions that lock a thread and its task in opposite
orders may deadlock, Postgres aborts one, and its caller retries at the next
sweep, which is an aborted transaction of the model.
