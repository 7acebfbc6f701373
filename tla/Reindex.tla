------------------------------ MODULE Reindex ------------------------------
(***************************************************************************)
(* Moving the corpus to a new embedding profile while ingest goes on: the  *)
(* worker's reindex drive (worker/reindex.rs), the operator's create,      *)
(* cancel and prune (worker/reindex_ops.rs), the rows behind them in       *)
(* tribal-db, and the one ingest write that meets them, the commit of a    *)
(* novel item (worker/dispatch/commit.rs).                                 *)
(*                                                                         *)
(* A run and the profile it builds are inserted together, so both are      *)
(* named by their epoch.  An embedding is abstracted to the generation of  *)
(* the provider's serving that computed it (`drift`), which is what the    *)
(* probe digest tells apart.  A write to the database is one step; a       *)
(* provider call ends the step that makes it and its answer is applied by  *)
(* a later one.                                                            *)
(***************************************************************************)
EXTENDS Integers, FiniteSets

CONSTANTS
    Workers,        \* processes that run the reindex loop
    Ingesters,      \* triage commits of a novel item
    Items, Tags,    \* the entities that carry an embedding
    Seed,           \* the entities of the corpus at the start
    Brings,         \* Brings[c]: the entities commit c adds
    Targets,        \* declared identities an operator may ask for
    MaxEpoch,       \* bound: profiles ever created
    MaxDrift,       \* bound: changes of the provider's serving
    MaxFaults,      \* bound: provider failures, unreachable probes, crashes
    MaxAttempts,    \* a task's attempts (8 in the code)
    MaxReembeds,    \* MAX_REEMBED_RETRIES (3 in the code)
    CapDivisor,     \* REINDEX_QUARANTINE_CAP_DIVISOR (4 in the code)
    LongCommit,     \* may an unlocked commit outlast a whole reindex?
    SlowCancel      \* may a promotion fall inside a cancel's transaction?

\* The identity of the profile the deployment was provisioned with.
Bootstrap == CHOOSE t \in Targets : TRUE

Entities == Items \cup Tags
Epochs == 1 .. MaxEpoch
TaskIds == {"range"} \cup Tags
None == -1
NoTarget == [target |-> "none", probe |-> None]
NoCancel == [run |-> None, from |-> "none"]

ASSUME ReindexAssumption ==
    /\ Seed \subseteq Entities
    /\ Brings \in [Ingesters -> SUBSET Entities]
    /\ IsFiniteSet(Items) /\ IsFiniteSet(Tags) /\ Targets # {}
    /\ {MaxDrift, MaxFaults, MaxAttempts, MaxReembeds} \subseteq Nat
    /\ {MaxEpoch, CapDivisor} \subseteq Nat \ {0}
    /\ {LongCommit, SlowCancel} \subseteq BOOLEAN
    /\ {"range", "none", "sweep"} \cap Tags = {}

VARIABLES
    profile,    \* embedding_profiles: [state, target, probe] of each epoch
    run,        \* reindex_runs: [state, enumerated, tally] of each epoch
    tasks,      \* reindex_tasks of the newest run: [state, attempt]
    corpus,     \* knowledge items and registered tags that are committed
    rows,       \* rows[e][x]: generation of x's embedding under e, or None
    quarantined,\* reindex_quarantine: entities given up under each epoch
    worker,     \* each drive's position and its local variables
    ingest,     \* each commit's position and its local variables
    operator,   \* the target probed for the next create, the cancel under way
    drift,      \* the generation the provider serves now
    faults,     \* failures injected so far
    uncounted   \* history: epochs of which a crash lost a quarantine tally

vars == <<profile, run, tasks, corpus, rows, quarantined, worker, ingest,
          operator, drift, faults, uncounted>>

ProfileStates == {"none", "building", "complete", "failed", "superseded"}
RunStates == {"none", "queued", "running", "completed", "failed", "aborted"}
IdleWorker == [pc |-> "idle", run |-> None, prof |-> None, task |-> "none",
               good |-> {}, bad |-> {}, class |-> "none", geo |-> None,
               new |-> 0, prev |-> None, drifted |-> FALSE]
IdleIngest == [pc |-> "idle", prof |-> None, geo |-> None, tries |-> 0]
NoTasks == [t \in TaskIds |-> [state |-> "none", attempt |-> 0]]

TypeOK ==
    /\ profile \in [Epochs -> [state : ProfileStates,
                               target : Targets \cup {"none"},
                               probe : {None} \cup 0 .. MaxDrift]]
    /\ run \in [Epochs -> [state : RunStates,
                           enumerated : {None} \cup 0 .. Cardinality(Items),
                           tally : 0 .. Cardinality(Items)]]
    /\ tasks \in [TaskIds -> [state : {"none", "pending", "claimed",
                                       "complete", "dead"},
                              attempt : 0 .. MaxAttempts]]
    /\ corpus \subseteq Entities
    /\ rows \in [Epochs -> [Entities -> {None} \cup 0 .. MaxDrift]]
    /\ quarantined \in [Epochs -> SUBSET Entities]
    /\ \A w \in Workers :
        /\ worker[w].pc \in {"idle", "enrol", "find", "tasks", "call", "write",
                             "bump", "index", "sweep", "check", "probe", "lock"}
        /\ (worker[w].pc \in {"call", "write", "bump", "index", "sweep", "check",
                              "probe", "lock"})
            => worker[w].run \in Epochs /\ worker[w].prof \in Epochs
    /\ \A c \in Ingesters :
        /\ ingest[c].pc \in {"idle", "ready", "begun", "wait", "locked",
                             "unlocked", "writing", "done"}
        /\ ingest[c].tries \in 0 .. MaxReembeds
    /\ drift \in 0 .. MaxDrift /\ faults \in 0 .. MaxFaults
    /\ uncounted \subseteq Epochs

Init ==
    /\ profile = [e \in Epochs |->
            IF e = 1 THEN [state |-> "complete", target |-> Bootstrap, probe |-> 0]
                     ELSE [state |-> "none", target |-> "none", probe |-> None]]
    /\ run = [e \in Epochs |-> [state |-> "none", enumerated |-> None, tally |-> 0]]
    /\ tasks = NoTasks
    /\ corpus = Seed
    /\ rows = [e \in Epochs |-> [x \in Entities |->
                  IF e = 1 /\ x \in Seed THEN 0 ELSE None]]
    /\ quarantined = [e \in Epochs |-> {}]
    /\ worker = [w \in Workers |-> IdleWorker]
    /\ ingest = [c \in Ingesters |-> IdleIngest]
    /\ operator = [probed |-> NoTarget, cancel |-> NoCancel]
    /\ drift = 0 /\ faults = 0 /\ uncounted = {}

-----------------------------------------------------------------------------
(* Reads of the repositories.                                              *)

Live(e) == run[e].state \in {"queued", "running"}

\* find_live: the newest queued or running run.
FindLive == {e \in Epochs : Live(e) /\ \A f \in Epochs : Live(f) => f <= e}

\* find_active: the complete profile of the highest epoch.
Active == CHOOSE e \in Epochs :
              /\ profile[e].state = "complete"
              /\ \A f \in Epochs : profile[f].state = "complete" => f <= e

\* find_building: the building profile of the highest epoch.
FindBuilding == {e \in Epochs : /\ profile[e].state = "building"
                                /\ \A f \in Epochs :
                                    profile[f].state = "building" => f <= e}

\* find_items_without_embedding and find_tags_missing_embeddings: committed
\* entities with neither a row nor a quarantine entry under e.
Missing(e) == {x \in corpus \ quarantined[e] : rows[e][x] = None}

\* quarantine_exceeds_cap, on the tally and never on the quarantine itself.
ExceedsCap(e) ==
    /\ run[e].enumerated # None
    /\ run[e].tally * CapDivisor > run[e].enumerated

\* The newest run, whose tasks `tasks` holds.
Newest == IF \A e \in Epochs : run[e].state = "none" THEN None
          ELSE CHOOSE e \in Epochs : /\ run[e].state # "none"
                                     /\ \A f \in Epochs :
                                         run[f].state # "none" => f <= e

-----------------------------------------------------------------------------
(* Compare-and-set writes: the profile and the run leave their live states *)
(* once.                                                                   *)

\* transition_to_terminal (mark_complete, mark_failed).
EndProfile(e, state) ==
    profile' = IF profile[e].state = "building"
               THEN [profile EXCEPT ![e].state = state] ELSE profile

\* transition of a run from `from`.
MoveRun(e, from, to) ==
    run' = IF run[e].state = from THEN [run EXCEPT ![e].state = to] ELSE run

-----------------------------------------------------------------------------
(* The operator.                                                           *)

\* resolve_reindex_target: the probe is taken before the create transaction.
Probe(t) ==
    /\ operator.probed = NoTarget
    /\ \E e \in Epochs : profile[e].state = "none"
    /\ operator' = [operator EXCEPT !.probed = [target |-> t, probe |-> drift]]
    /\ UNCHANGED <<profile, run, tasks, corpus, rows, quarantined, worker,
                   ingest, drift, faults, uncounted>>

\* target_matches_profile: same identity and same probe as the active one.
Unchanged == /\ operator.probed.target = profile[Active].target
             /\ operator.probed.probe = profile[Active].probe

\* create_reindex_run: under the single-flight lock, unless a run is live or
\* the target is what is served already, a building profile and its queued run.
Create ==
    /\ operator.probed # NoTarget
    /\ operator' = [operator EXCEPT !.probed = NoTarget]
    /\ IF FindLive # {} \/ Unchanged
       THEN UNCHANGED <<profile, run, tasks>>
       ELSE LET e == CHOOSE e \in Epochs :
                         /\ profile[e].state = "none"
                         /\ \A f \in Epochs : profile[f].state = "none" => e <= f
            IN /\ profile' = [profile EXCEPT
                    ![e] = [state |-> "building", target |-> operator.probed.target,
                            probe |-> operator.probed.probe]]
               /\ run' = [run EXCEPT ![e].state = "queued"]
               /\ tasks' = NoTasks
    /\ UNCHANGED <<corpus, rows, quarantined, worker, ingest, drift, faults,
                   uncounted>>

\* reindex_cancel reads the live run and its state ...
CancelRead ==
    /\ operator.cancel = NoCancel
    /\ \E e \in FindLive :
        operator' = [operator EXCEPT !.cancel = [run |-> e, from |-> run[e].state]]
    /\ UNCHANGED <<profile, run, tasks, corpus, rows, quarantined, worker,
                   ingest, drift, faults, uncounted>>

CancelApplyRunOnly ==
    /\ operator.cancel # NoCancel
    /\ profile' = profile
    /\ MoveRun(operator.cancel.run, operator.cancel.from, "aborted")
    /\ operator' = [operator EXCEPT !.cancel = NoCancel]
    /\ UNCHANGED <<tasks, corpus, rows, quarantined, worker, ingest, drift,
                   faults, uncounted>>

\* ... then fails the profile and moves the run from the state it read.
CancelApply ==
    /\ operator.cancel # NoCancel
    /\ EndProfile(operator.cancel.run, "failed")
    /\ MoveRun(operator.cancel.run, operator.cancel.from, "aborted")
    /\ operator' = [operator EXCEPT !.cancel = NoCancel]
    /\ UNCHANGED <<tasks, corpus, rows, quarantined, worker, ingest, drift,
                   faults, uncounted>>

\* supersede_prunable: failed profiles and complete ones below the active.
Prunable == {e \in Epochs : \/ profile[e].state = "failed"
                            \/ profile[e].state = "complete" /\ e < Active}

\* reindex_prune: supersede, then delete every superseded profile's rows.
Prune ==
    LET gone == Prunable \cup {e \in Epochs : profile[e].state = "superseded"}
    IN /\ gone # {}
       /\ profile' = [e \in Epochs |->
              IF e \in gone THEN [profile[e] EXCEPT !.state = "superseded"]
                            ELSE profile[e]]
       /\ rows' = [e \in Epochs |->
              IF e \in gone THEN [x \in Entities |-> None] ELSE rows[e]]
       /\ UNCHANGED <<run, tasks, corpus, quarantined, worker, ingest, operator,
                      drift, faults, uncounted>>

-----------------------------------------------------------------------------
(* The commit of a novel item (commit_triage, commit_novel).               *)

Goto(c, pc) == ingest' = [ingest EXCEPT ![c].pc = pc]
IngestFrame == UNCHANGED <<profile, run, tasks, quarantined, worker, operator,
                           drift, faults, uncounted>>

\* The stage reads the active profile and embeds against it.
Embed(c) ==
    /\ ingest[c].pc = "idle"
    /\ ingest' = [ingest EXCEPT ![c].pc = "ready", ![c].prof = Active,
                                ![c].geo = drift]
    /\ UNCHANGED <<corpus, rows>> /\ IngestFrame

\* The transaction looks for a live run; only then does it ask for the lock.
Begin(c) ==
    /\ ingest[c].pc = "ready"
    /\ Goto(c, IF FindLive # {} THEN "wait" ELSE "begun")
    /\ UNCHANGED <<corpus, rows>> /\ IngestFrame

\* acquire_shared_xact: a cutover holds the exclusive form only inside its own
\* step, so the shared form is granted between cutovers.
AcquireShared(c) ==
    /\ ingest[c].pc = "wait"
    /\ Goto(c, "locked")
    /\ UNCHANGED <<corpus, rows>> /\ IngestFrame

HoldsShared(c) == ingest[c].pc = "locked" \/ ingest[c].pc = "writing"

\* The active profile is read in the transaction: another one than the
\* vectors' drops the transaction, re-embeds against it and starts over, up to
\* MAX_REEMBED_RETRIES; past that the stage fails and its retry starts afresh.
ReadActive(c) ==
    /\ ingest[c].pc \in {"begun", "locked"}
    /\ IF Active = ingest[c].prof
       THEN ingest' = [ingest EXCEPT ![c].pc =
                          IF @ = "begun" THEN "unlocked" ELSE "writing"]
       ELSE IF ingest[c].tries < MaxReembeds
       THEN ingest' = [ingest EXCEPT ![c] = [pc |-> "ready", prof |-> Active,
                                             geo |-> drift, tries |-> @.tries + 1]]
       ELSE ingest' = [ingest EXCEPT ![c] = IdleIngest]
    /\ UNCHANGED <<corpus, rows>> /\ IngestFrame

\* The commit: the item, its new tags and their embeddings become visible, and
\* the shared lock goes with the transaction.
CommitNovel(c) ==
    /\ ingest[c].pc \in {"unlocked", "writing"}
    /\ corpus' = corpus \cup Brings[c]
    /\ rows' = [rows EXCEPT ![ingest[c].prof] = [x \in Entities |->
                    IF x \in Brings[c] THEN ingest[c].geo ELSE @[x]]]
    /\ ingest' = [ingest EXCEPT ![c] = [IdleIngest EXCEPT !.pc = "done"]]
    /\ IngestFrame

-----------------------------------------------------------------------------
(* One drive cycle of the worker (drive_reindex_cycle).                    *)

At(w, pc) == worker[w].pc = pc
Set(w, rec) == worker' = [worker EXCEPT ![w] = rec]
To(w, pc) == Set(w, [worker[w] EXCEPT !.pc = pc])
Yield(w) == Set(w, IdleWorker)

\* drive_reindex, first half: the live run, promoted by a compare-and-set.
Promote(w) ==
    /\ At(w, "idle")
    /\ \E e \in FindLive :
        /\ SlowCancel \/ operator.cancel = NoCancel \/ run[e].state = "running"
        /\ MoveRun(e, "queued", "running")
        /\ Set(w, [IdleWorker EXCEPT !.pc = "enrol", !.run = e])
    /\ UNCHANGED <<profile, tasks, corpus, rows, quarantined, ingest, operator,
                   drift, faults, uncounted>>

\* enrol_backfill and set_enumerated, once: a range task over the missing items
\* and one task for each missing tag.
Enrol(w) ==
    /\ At(w, "enrol")
    /\ LET e == worker[w].run
           enrolled(t) == IF t = "range" THEN Missing(e) \cap Items # {}
                                         ELSE t \in Missing(e)
       IN IF run[e].enumerated = None
          THEN /\ run' = [run EXCEPT ![e].enumerated = Cardinality(Missing(e) \cap Items)]
               /\ tasks' = IF e # Newest THEN tasks ELSE [t \in TaskIds |->
                     IF enrolled(t) /\ tasks[t].state = "none"
                     THEN [state |-> "pending", attempt |-> 0] ELSE tasks[t]]
          ELSE UNCHANGED <<run, tasks>>
    /\ To(w, "find")
    /\ UNCHANGED <<profile, corpus, rows, quarantined, ingest, operator, drift,
                   faults, uncounted>>

\* find_building, which is not tied to the run read before it.
FindTarget(w) ==
    /\ At(w, "find")
    /\ IF FindBuilding = {} THEN Yield(w)
       ELSE \E b \in FindBuilding :
              Set(w, [worker[w] EXCEPT !.pc = "tasks", !.prof = b])
    /\ UNCHANGED <<profile, run, tasks, corpus, rows, quarantined, ingest,
                   operator, drift, faults, uncounted>>

\* claim: a pending task of the run, while the run is live.  A retried task is
\* claimable once its backoff has passed, so it may also be left for later.
ClaimTask(w) ==
    /\ At(w, "tasks")
    /\ worker[w].run = Newest /\ Live(worker[w].run)
    /\ \E t \in TaskIds :
        /\ tasks[t].state = "pending"
        /\ tasks' = [tasks EXCEPT ![t].state = "claimed"]
        /\ Set(w, [worker[w] EXCEPT !.pc = "call", !.task = t])
    /\ UNCHANGED <<profile, run, corpus, rows, quarantined, ingest, operator,
                   drift, faults, uncounted>>

\* The provider's answer for a batch: all embedded, or some entities failed for
\* good (a permanent error, a wrong dimension) or for now.
Answer(w, batch) ==
    \E bad \in SUBSET batch, class \in {"permanent", "retry"} :
        /\ bad = {} => class = "retry"
        /\ bad # {} => faults < MaxFaults
        /\ faults' = IF bad = {} THEN faults ELSE faults + 1
        /\ Set(w, [worker[w] EXCEPT !.pc = "write", !.good = batch \ bad,
                       !.bad = bad, !.class = class, !.geo = drift])

\* process_tasks, process_one: after the claim the run must still be live; a
\* range task embeds whatever items are missing, a tag task its tag.
CallTask(w) ==
    /\ At(w, "call")
    /\ IF ~Live(worker[w].run)
       THEN Yield(w) /\ faults' = faults
       ELSE Answer(w, IF worker[w].task = "range"
                      THEN Missing(worker[w].prof) \cap Items
                      ELSE {worker[w].task})
    /\ UNCHANGED <<profile, run, tasks, corpus, rows, quarantined, ingest,
                   operator, drift, uncounted>>

\* The catch-up's sweep: every missing item, then every missing tag.
CallSweep(w) ==
    /\ At(w, "sweep")
    /\ Answer(w, Missing(worker[w].prof))
    /\ UNCHANGED <<profile, run, tasks, corpus, rows, quarantined, ingest,
                   operator, drift, uncounted>>

\* batch_insert_skipping_existing for items, batch_upsert for tags; a permanent
\* failure is recorded in the quarantine, counted once.
Write(w) ==
    LET me == worker[w]
        gone == IF me.class = "permanent" THEN me.bad ELSE {}
    IN /\ At(w, "write")
       /\ rows' = [rows EXCEPT ![me.prof] = [x \in Entities |->
              IF x \in me.good /\ (x \in Tags \/ @[x] = None) THEN me.geo ELSE @[x]]]
       /\ quarantined' = [quarantined EXCEPT ![me.prof] = @ \cup gone]
       /\ Set(w, [me EXCEPT !.pc = "bump",
              !.new = Cardinality((gone \cap Items) \ quarantined[me.prof]),
              !.good = {}, !.geo = None])
       /\ UNCHANGED <<profile, run, tasks, corpus, ingest, operator, drift, faults,
                      uncounted>>

Retry(w) == worker[w].class = "retry" /\ worker[w].bad # {}

ResolveLate(w) ==
    tasks' = IF worker[w].run # Newest \/ tasks[worker[w].task].state # "claimed"
             THEN tasks
             ELSE [tasks EXCEPT ![worker[w].task] =
                IF ~Retry(w) THEN [@ EXCEPT !.state = "complete"]
                ELSE IF @.attempt > MaxAttempts THEN [@ EXCEPT !.state = "dead"]
                ELSE [state |-> "pending", attempt |-> @.attempt + 1]]

\* complete, or fail: back to pending, dead once the attempts are spent.
Resolve(w) ==
    tasks' = IF worker[w].run # Newest \/ tasks[worker[w].task].state # "claimed"
             THEN tasks
             ELSE [tasks EXCEPT ![worker[w].task] =
                IF ~Retry(w) THEN [@ EXCEPT !.state = "complete"]
                ELSE IF @.attempt + 1 > MaxAttempts THEN [@ EXCEPT !.state = "dead"]
                ELSE [state |-> "pending", attempt |-> @.attempt + 1]]

BumpNothing(w) ==
    /\ At(w, "bump")
    /\ run' = run
    /\ IF worker[w].task = "sweep"
       THEN /\ tasks' = tasks
            /\ Set(w, [worker[w] EXCEPT !.pc = "check", !.new = 0])
       ELSE /\ Resolve(w)
            /\ Set(w, [worker[w] EXCEPT !.pc = "tasks", !.task = "none", !.bad = {},
                           !.class = "none", !.new = 0])
    /\ UNCHANGED <<profile, corpus, rows, quarantined, ingest, operator, drift,
                   faults, uncounted>>

\* bump_quarantined, a statement of its own after the records, then the task's
\* resolution (or, in the catch-up, the checks that follow the sweep).
Bump(w) ==
    /\ At(w, "bump")
    /\ run' = [run EXCEPT ![worker[w].run].tally = @ + worker[w].new]
    /\ IF worker[w].task = "sweep"
       THEN /\ tasks' = tasks
            /\ Set(w, [worker[w] EXCEPT !.pc = "check", !.new = 0])
       ELSE /\ Resolve(w)
            /\ Set(w, [worker[w] EXCEPT !.pc = "tasks", !.task = "none", !.bad = {},
                           !.class = "none", !.new = 0])
    /\ UNCHANGED <<profile, corpus, rows, quarantined, ingest, operator, drift,
                   faults, uncounted>>

FailRunProfileOnly(w) ==
    /\ EndProfile(worker[w].prof, "failed")
    /\ run' = run
    /\ Yield(w)

\* fail_run: the profile and the run in one transaction.
FailRun(w) ==
    /\ EndProfile(worker[w].prof, "failed")
    /\ MoveRun(worker[w].run, "running", "failed")
    /\ Yield(w)

\* Nothing claimable is left: an ended run goes no further, a dead-lettered
\* task or too many quarantined items fail the run, else the indexes are built.
AfterTasks(w) ==
    /\ At(w, "tasks")
    /\ \/ worker[w].run # Newest
       \/ ~Live(worker[w].run)
       \/ \A t \in TaskIds : tasks[t].state = "pending" => tasks[t].attempt > 0
    /\ LET e == worker[w].run
       IN IF ~Live(e) THEN Yield(w) /\ UNCHANGED <<profile, run>>
          ELSE IF ExceedsCap(e) \/ \E t \in TaskIds : tasks[t].state = "dead"
          THEN FailRun(w)
          ELSE To(w, "index") /\ UNCHANGED <<profile, run>>
    /\ UNCHANGED <<tasks, corpus, rows, quarantined, ingest, operator, drift,
                   faults, uncounted>>

\* build_partial_indexes is long: the run is looked up again behind it.
AfterIndex(w) ==
    /\ At(w, "index")
    /\ IF Live(worker[w].run)
       THEN Set(w, [worker[w] EXCEPT !.pc = "sweep", !.task = "sweep"])
       ELSE Yield(w)
    /\ UNCHANGED <<profile, run, tasks, corpus, rows, quarantined, ingest,
                   operator, drift, faults, uncounted>>

Remaining(e) == Cardinality(Missing(e))

\* After a sweep: too many quarantined fails the run; something left is swept
\* again unless a retryable failure made no progress; nothing left goes to the
\* probe.
CheckSweep(w) ==
    /\ At(w, "check")
    /\ IF ExceedsCap(worker[w].run) THEN FailRun(w)
       ELSE /\ UNCHANGED <<profile, run>>
            /\ IF Remaining(worker[w].prof) = 0 THEN To(w, "probe")
               ELSE IF Retry(w) /\ worker[w].prev = Remaining(worker[w].prof)
               THEN Yield(w)
               ELSE Set(w, [worker[w] EXCEPT !.pc = "sweep",
                                             !.prev = Remaining(worker[w].prof)])
    /\ UNCHANGED <<tasks, corpus, rows, quarantined, ingest, operator, drift,
                   faults, uncounted>>

ProbeTrusting(w) ==
    /\ At(w, "probe")
    /\ \/ To(w, "lock") /\ faults' = faults
       \/ faults < MaxFaults /\ faults' = faults + 1 /\ Yield(w)
    /\ UNCHANGED <<profile, run, tasks, corpus, rows, quarantined, ingest,
                   operator, drift, uncounted>>

\* probe_drifted, without the lock: unreachable yields, else the verdict is
\* kept for the cutover.
ProbeDrifted(w) ==
    /\ At(w, "probe")
    /\ \/ /\ Set(w, [worker[w] EXCEPT !.pc = "lock",
                        !.drifted = (profile[worker[w].prof].probe # drift)])
          /\ faults' = faults
       \/ /\ faults < MaxFaults /\ faults' = faults + 1
          /\ Yield(w)
    /\ UNCHANGED <<profile, run, tasks, corpus, rows, quarantined, ingest,
                   operator, drift, uncounted>>

ExclusiveAlways == LongCommit \/ \A c \in Ingesters :
                                     ingest[c].pc \notin {"begun", "unlocked"}

\* The exclusive cutover lock is granted when no commit holds the shared form;
\* an unlocked commit outlasting the run is excluded unless LongCommit.
ExclusiveFree == /\ \A c \in Ingesters : ~HoldsShared(c)
                 /\ LongCommit \/ \A c \in Ingesters :
                                     ingest[c].pc \notin {"begun", "unlocked"}

\* The cutover transaction: still nothing missing and no drift flips the
\* profile, if it is still building, and completes the run with it.
Cutover(w) ==
    /\ At(w, "lock") /\ ExclusiveFree
    /\ LET me == worker[w]
       IN IF Remaining(me.prof) # 0
          THEN /\ Set(w, [me EXCEPT !.pc = "sweep", !.prev = Remaining(me.prof)])
               /\ UNCHANGED <<profile, run>>
          ELSE IF me.drifted THEN FailRun(w)
          ELSE /\ Yield(w)
               /\ EndProfile(me.prof, "complete")
               /\ IF profile[me.prof].state = "building"
                  THEN MoveRun(me.run, "running", "completed") ELSE run' = run
    /\ UNCHANGED <<tasks, corpus, rows, quarantined, ingest, operator, drift,
                   faults, uncounted>>

-----------------------------------------------------------------------------
(* The environment.                                                        *)

\* reconcile_orphan_building_profile, under the single-flight lock: a building
\* profile without a live run is failed.
Reconcile == IF FindLive = {} /\ FindBuilding # {}
             THEN EndProfile(CHOOSE b \in FindBuilding : TRUE, "failed")
             ELSE profile' = profile

\* A cycle ends early: its process dies (and reconciles when it boots again) or
\* a query of it fails.  A tally not yet bumped is lost, and a claimed task
\* stays claimed.
Abandon(w) ==
    /\ ~At(w, "idle") /\ faults < MaxFaults
    /\ faults' = faults + 1
    /\ Yield(w)
    /\ Reconcile
    /\ uncounted' = IF worker[w].new > 0 THEN uncounted \cup {worker[w].prof}
                                         ELSE uncounted
    /\ UNCHANGED <<run, tasks, corpus, rows, quarantined, ingest, operator,
                   drift>>

\* A mutable model alias starts to serve another geometry.
Drift ==
    /\ drift < MaxDrift
    /\ drift' = drift + 1
    /\ UNCHANGED <<profile, run, tasks, corpus, rows, quarantined, worker, ingest,
                   operator, faults, uncounted>>

Drive(w) ==
    \/ Promote(w) \/ Enrol(w) \/ FindTarget(w) \/ ClaimTask(w) \/ CallTask(w)
    \/ CallSweep(w) \/ Write(w) \/ Bump(w) \/ AfterTasks(w) \/ AfterIndex(w)
    \/ CheckSweep(w) \/ ProbeDrifted(w) \/ Cutover(w)

Ingest(c) == \/ Embed(c) \/ Begin(c) \/ AcquireShared(c) \/ ReadActive(c)
             \/ CommitNovel(c)

Next ==
    \/ \E w \in Workers : Drive(w) \/ Abandon(w)
    \/ \E c \in Ingesters : Ingest(c)
    \/ \E t \in Targets : Probe(t)
    \/ Create \/ CancelRead \/ CancelApply \/ Prune \/ Drift

Spec == Init /\ [][Next]_vars

\* The loop ticks and a transaction ends; a cancel that was begun is finished.
Fairness == /\ \A w \in Workers : WF_vars(Drive(w))
            /\ \A c \in Ingesters : WF_vars(Ingest(c))
            /\ WF_vars(CancelApply)

FairSpec == Spec /\ Fairness

-----------------------------------------------------------------------------
(* Properties.                                                             *)

\* Every committed item and tag is searchable: it has an embedding under the
\* active profile, or that profile's quarantine names it.  Catch-up, the locks
\* of commit_novel and of the cutover, and prune must all agree for this.
ActiveCovered == Missing(Active) = {}

\* A profile is building exactly while its run is live: create, fail_run, the
\* cutover and cancel move the two together, so that no run is wedged behind a
\* profile that can no longer be built and boot has nothing to reconcile.
LiveRunHasBuilding == \A e \in Epochs : Live(e) <=> profile[e].state = "building"

Flips(e) == profile[e].state = "building" /\ profile'[e].state = "complete"

\* A profile goes active only when every embedding under it comes from the
\* serving its probe captured: a serving that shifts in mid-build is caught.
FlipVerified ==
    [][\A e \in Epochs : Flips(e) =>
          \A x \in Entities : rows[e][x] \in {None, profile[e].probe}]_vars

\* A profile goes active only while its quarantined items are within the cap,
\* unless a crash between a quarantine record and its tally hid some of them.
FlipWithinCap ==
    [][\A e \in Epochs : Flips(e) /\ e \notin uncounted =>
          Cardinality(quarantined[e] \cap Items) * CapDivisor
              <= run[e].enumerated]_vars

\* A reindex run ends, in a cutover, a failure or a cancel, and no ingest
\* commit waits for ever behind it: the two locks never starve each other.
ReindexSettles ==
    /\ \A e \in Epochs : Live(e) ~> ~Live(e)
    /\ \A c \in Ingesters : <>(ingest[c].pc = "done")
=============================================================================
