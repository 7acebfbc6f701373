---------------------------- MODULE DriverTasks -----------------------------
(* The driver family of tribal-worker: a stage thread (the parent) submits a *)
(* result, suspends on a verifier child launched for that submission, and is *)
(* woken by the child's verdict or by its deferred death.  Driver loops claim *)
(* and execute the children; the availability sweep wakes timers, cascades    *)
(* cancellations, disposes of unclaimed threads and rescues a relation thread *)
(* whose resolver is gone.  Every action is one transaction, or one           *)
(* transaction with the reads that feed it; what a loop or a sweep read       *)
(* earlier is remembered in its own state.                                    *)
EXTENDS Naturals

CONSTANTS
    Drivers,      \* executions of driver tasks, over all driver loops
    Sweepers,     \* worker processes running the availability sweep
    MaxAttempts,  \* agent_driver_tasks.max_attempts
    MaxCalls,     \* submissions of the parent (its turn cap)
    MaxLaunches,  \* verifier children of the parent (max_child_launches)
    MaxFaults,    \* crashes, stalls, database errors, lost cascades
    ChildCancel   \* stages whose children an operator may cancel

ASSUME DriverAssumption ==
    /\ MaxAttempts \in Nat /\ MaxCalls \in Nat /\ MaxFaults \in Nat
    /\ MaxLaunches \in Nat
    /\ ChildCancel \subseteq {"triage", "relation"}

VARIABLES
    stage,     \* the parent's pipeline stage
    parent,    \* the parent's agent_threads row and its tasks row
    call,      \* the submission the parent's log ends with, 0 before the first
    answers,   \* the child whose result answers each submission, 0 for none
    child,     \* the child threads in launch order: status, intent, and the
               \* submission each was launched for
    driver,    \* their agent_driver_tasks rows
    run,       \* the execution in each driver slot
    reclaim,   \* the stale driver task a reclaim pass has read, if any
    due,       \* the sweepers whose list of due timers names the parent
    cascade,   \* the cascade to the children is owed after a cancellation
    faults

vars == <<stage, parent, call, answers, child, driver, run, reclaim, due,
          cascade, faults>>

Calls == 1..MaxCalls
Children == 1..MaxLaunches

ThreadTerminal == {"completed", "cancelled", "dead_letter"}
ChildLive == {"queued", "running"}
DriverLive == {"pending", "claimed"}

NoDriver == [state |-> "absent", attempt |-> 0, lapsed |-> FALSE]
NoChild == [status |-> "absent", intent |-> FALSE, call |-> 0]
Idle == [pc |-> "idle", child |-> 0, attempt |-> 0, call |-> 0]
NoScan == [child |-> 0, attempt |-> 0]

Launched == {c \in Children : child[c].status # "absent"}
ParentOver == parent.status \in ThreadTerminal

\* Every submission has its result.
Answered == \A k \in 1..call : answers[k] # 0

\* load_parent_resolution: the submission named by the latest suspension on
\* a deferred result, which is the one the youngest child was launched for.
Awaited == child[CHOOSE c \in Launched : \A b \in Launched : b <= c].call

-----------------------------------------------------------------------------
(* The parent, as its stage worker moves it.                                *)

ClaimParent ==
    /\ parent.status = "running" /\ parent.task = "queued"
    /\ parent' = [parent EXCEPT !.task = "claimed"]
    /\ UNCHANGED <<stage, call, answers, child, driver, run, reclaim, due,
                   cascade, faults>>

Working == parent.status = "running" /\ parent.task = "claimed"

\* The stage worker fails or dies; its task returns to the queue.
ReleaseParent ==
    /\ Working /\ faults < MaxFaults
    /\ faults' = faults + 1
    /\ parent' = [parent EXCEPT !.task = "queued"]
    /\ UNCHANGED <<stage, call, answers, child, driver, run, reclaim, due,
                   cascade>>

\* A committed assistant turn whose tool call is the submission.
Submit ==
    /\ Working /\ Answered /\ call < MaxCalls
    /\ call' = call + 1
    /\ UNCHANGED <<stage, parent, answers, child, driver, run, reclaim, due,
                   cascade, faults>>

\* An ending that leaves what the thread was waiting for on its row.
EndParentKeepsWake(s) == parent' = [parent EXCEPT !.status = s, !.task = "ended"]

\* The thread ends and its task with it.
EndParent(s) ==
    parent' = [parent EXCEPT !.status = s, !.task = "ended", !.wake = "none"]

\* suspend_with_child for the pending submission, which a resumed loop
\* re-executes: the parent blocks, and the child, its driver task and its
\* input exist from the same commit.  An intent that got there first misses
\* the suspend and the parent is disposed of at this boundary.
Launch ==
    /\ Working /\ ~Answered /\ ~parent.intent
    /\ \E c \in Children \ Launched :
          /\ \A b \in Children \ Launched : c <= b
          /\ child' = [child EXCEPT ![c] =
                 [status |-> "queued", intent |-> FALSE, call |-> call]]
          /\ driver' = [driver EXCEPT ![c].state = "pending"]
    /\ parent' = [parent EXCEPT !.status = "suspended", !.task = "blocked",
                                !.wake = "child"]
    /\ UNCHANGED <<stage, call, answers, run, reclaim, due, cascade, faults>>

\* A turn whose budget is spent suspends until a timer (once, in the model).
SuspendOnBudget ==
    /\ Working /\ Answered /\ call < MaxCalls /\ ~parent.intent
    /\ ~parent.rechecked
    /\ parent' = [parent EXCEPT !.status = "suspended", !.task = "blocked",
                                !.wake = "timer", !.rechecked = TRUE]
    /\ UNCHANGED <<stage, call, answers, child, driver, run, reclaim, due,
                   cascade, faults>>

\* The stage commits or fails for good.  A pending submission is committed
\* unverified only when the launches are used up.
Finish ==
    /\ Working
    /\ \/ /\ call > 0
          /\ Answered \/ Launched = Children
          /\ EndParent("completed")
       \/ EndParent("dead_letter")
    /\ UNCHANGED <<stage, call, answers, child, driver, run, reclaim, due,
                   cascade, faults>>

\* A claimed parent observes its intent at a boundary of its loop.
DisposeParent ==
    /\ Working /\ parent.intent
    /\ EndParent("cancelled")
    /\ UNCHANGED <<stage, call, answers, child, driver, run, reclaim, due,
                   cascade, faults>>

-----------------------------------------------------------------------------
(* The driver: one claimed child to its terminal.                           *)

\* A row's attempt rises whenever a claim on it is given up, so that it
\* stands for the claim token: this claim is still the row's.
HoldsClaim(c, attempt) ==
    /\ driver[c].state = "claimed"
    /\ driver[c].attempt = attempt

ClaimDriver(d, c) ==
    /\ run[d].pc = "idle" /\ driver[c].state = "pending"
    /\ driver' = [driver EXCEPT ![c].state = "claimed"]
    /\ run' = [run EXCEPT ![d] = [pc |-> "claimed", child |-> c,
                                  attempt |-> driver[c].attempt, call |-> 0]]
    /\ UNCHANGED <<stage, parent, call, answers, child, reclaim, due, cascade,
                   faults>>

\* run_child_thread and the intent test of run_child: a queued child starts
\* under the claim, a running one is adopted; an intent skips the call.
StartChild(d) ==
    LET c == run[d].child IN
    /\ run[d].pc = "claimed"
    /\ \/ /\ child[c].status = "queued" /\ HoldsClaim(c, run[d].attempt)
          /\ child' = [child EXCEPT ![c].status = "running"]
       \/ child[c].status # "queued" /\ UNCHANGED child
    /\ run' = [run EXCEPT ![d].pc = IF child[c].intent THEN "dying" ELSE "calling"]
    /\ UNCHANGED <<stage, parent, call, answers, driver, reclaim, due, cascade,
                   faults>>

\* The model answers, and load_parent_resolution reads which submission the
\* parent's last suspension waits for.
Resolve(d) ==
    /\ run[d].pc = "calling"
    /\ run' = [run EXCEPT ![d] = [@ EXCEPT !.pc = "answering", !.call = Awaited]]
    /\ UNCHANGED <<stage, parent, call, answers, child, driver, reclaim, due,
                   cascade, faults>>

\* A hand-back that wakes the thread and forgets its task.
HandBackNoRequeue(c, k) ==
    \/ parent.status # "suspended" /\ UNCHANGED <<parent, answers>>
    \/ /\ parent.status = "suspended"
       /\ answers' = [answers EXCEPT ![k] = c]
       /\ parent' = [parent EXCEPT !.status = "running", !.wake = "none"]

\* hand_back of child c's result for submission k: a parent that is not
\* suspended discards it; a suspended one takes it and wakes.
HandBack(c, k) ==
    \/ parent.status # "suspended" /\ UNCHANGED <<parent, answers>>
    \/ /\ parent.status = "suspended"
       /\ answers' = [answers EXCEPT ![k] = c]
       /\ parent' = [parent EXCEPT !.status = "running", !.task = "queued",
                                   !.wake = "none"]

\* The terminal transaction commits: the claim stands, the child is running,
\* and the log has no result for the call yet.
CanEnd(c, attempt, k) ==
    /\ HoldsClaim(c, attempt)
    /\ child[c].status = "running"
    /\ parent.status = "suspended" => answers[k] = 0

\* A deferred death that only ends the rows, its hand-back forgotten.
EndChildSilently(c, k, s) ==
    /\ driver' = [driver EXCEPT ![c] = [@ EXCEPT !.state = s, !.lapsed = FALSE]]
    /\ child' = [child EXCEPT ![c].status = s]
    /\ UNCHANGED <<parent, answers>>

\* The end of child c and its driver task, with hand-back:
\* commit_child_terminal ends them completed, commit_deferred_death dead.
EndChild(c, k, s) ==
    /\ driver' = [driver EXCEPT ![c] = [@ EXCEPT !.state = s, !.lapsed = FALSE]]
    /\ child' = [child EXCEPT ![c].status = s]
    /\ HandBack(c, k)

\* A terminal committed on the driver's memory of its claim.
CommitUnguarded(d) ==
    /\ run[d].pc = "answering"
    /\ EndChild(run[d].child, run[d].call, "completed")
    /\ run' = [run EXCEPT ![d] = Idle]
    /\ UNCHANGED <<stage, call, reclaim, due, cascade, faults>>

CommitTerminal(d) ==
    /\ run[d].pc = "answering"
    /\ CanEnd(run[d].child, run[d].attempt, run[d].call)
    /\ EndChild(run[d].child, run[d].call, "completed")
    /\ run' = [run EXCEPT ![d] = Idle]
    /\ UNCHANGED <<stage, call, reclaim, due, cascade, faults>>

\* requeue: one attempt more, under the claim; a lost claim writes nothing.
Requeue(c, attempt) ==
    driver' = IF HoldsClaim(c, attempt)
              THEN [driver EXCEPT ![c] = [state |-> "pending",
                                          attempt |-> attempt + 1,
                                          lapsed |-> FALSE]]
              ELSE driver

\* deferred_death: the transaction commits, or the task is left for reclaim.
DeferredDeath(c, attempt, k) ==
    \/ CanEnd(c, attempt, k) /\ EndChild(c, k, "dead_letter")
    \/ ~CanEnd(c, attempt, k) /\ UNCHANGED <<parent, answers, child, driver>>

LastAttempt(attempt) == attempt + 1 > MaxAttempts

\* dispose_failed_child of a retryable failure: requeue, or die next.
GiveUp(d) ==
    \/ /\ LastAttempt(run[d].attempt)
       /\ run' = [run EXCEPT ![d].pc = "dying"]
       /\ UNCHANGED driver
    \/ /\ ~LastAttempt(run[d].attempt)
       /\ Requeue(run[d].child, run[d].attempt)
       /\ run' = [run EXCEPT ![d] = Idle]

\* The execution fails: a read, the model call or the terminal's commit.
FailChild(d) ==
    /\ run[d].pc \in {"claimed", "calling", "answering"}
    /\ faults < MaxFaults /\ faults' = faults + 1
    /\ GiveUp(d)
    /\ UNCHANGED <<stage, parent, call, answers, child, reclaim, due, cascade>>

\* The lease check of a queued child, or a guard of the terminal, refuses.
RefuseChild(d) ==
    /\ \/ run[d].pc = "claimed" /\ child[run[d].child].status = "queued"
          /\ ~HoldsClaim(run[d].child, run[d].attempt)
       \/ run[d].pc = "answering"
          /\ ~CanEnd(run[d].child, run[d].attempt, run[d].call)
    /\ GiveUp(d)
    /\ UNCHANGED <<stage, parent, call, answers, child, reclaim, due, cascade,
                   faults>>

\* A terminal failure: the binding moved, or the call is refused for good.
RejectChild(d) ==
    /\ run[d].pc = "calling"
    /\ faults < MaxFaults /\ faults' = faults + 1
    /\ run' = [run EXCEPT ![d].pc = "dying"]
    /\ UNCHANGED <<stage, parent, call, answers, child, driver, reclaim, due,
                   cascade>>

Die(d) ==
    /\ run[d].pc = "dying"
    /\ DeferredDeath(run[d].child, run[d].attempt, Awaited)
    /\ run' = [run EXCEPT ![d] = Idle]
    /\ UNCHANGED <<stage, call, reclaim, due, cascade, faults>>

\* The execution vanishes (the process dies, a panic, or the death's own
\* database error), its claim left on the row.
Crash(d) ==
    /\ run[d].pc # "idle"
    /\ faults < MaxFaults /\ faults' = faults + 1
    /\ run' = [run EXCEPT ![d] = Idle]
    /\ UNCHANGED <<stage, parent, call, answers, child, driver, reclaim, due,
                   cascade>>

\* Slot d executes child c under the claim its row carries.
Executes(d, c) == run[d].child = c /\ HoldsClaim(c, run[d].attempt)

\* The heartbeat of an abandoned claim lapses.
Lapse(c) ==
    /\ driver[c].state = "claimed" /\ ~driver[c].lapsed
    /\ ~\E d \in Drivers : Executes(d, c)
    /\ driver' = [driver EXCEPT ![c].lapsed = TRUE]
    /\ UNCHANGED <<stage, parent, call, answers, child, run, reclaim, due,
                   cascade, faults>>

\* A live execution misses its heartbeats past the timeout.
Stall(d) ==
    /\ \E c \in Children :
          /\ Executes(d, c) /\ ~driver[c].lapsed
          /\ driver' = [driver EXCEPT ![c].lapsed = TRUE]
    /\ faults < MaxFaults /\ faults' = faults + 1
    /\ UNCHANGED <<stage, parent, call, answers, child, run, reclaim, due,
                   cascade>>

Heartbeat(d) ==
    /\ \E c \in Children :
          /\ Executes(d, c) /\ driver[c].lapsed
          /\ driver' = [driver EXCEPT ![c].lapsed = FALSE]
    /\ UNCHANGED <<stage, parent, call, answers, child, run, reclaim, due,
                   cascade, faults>>

-----------------------------------------------------------------------------
(* Reclaim: lock_stale's row lock ends with its statement, so the row may   *)
(* have moved on by the time the pass disposes of what it read.             *)

ReclaimScan(c) ==
    /\ reclaim = NoScan
    /\ driver[c].state = "claimed" /\ driver[c].lapsed
    /\ reclaim' = [child |-> c, attempt |-> driver[c].attempt]
    /\ UNCHANGED <<stage, parent, call, answers, child, driver, run, due,
                   cascade, faults>>

ReclaimApply ==
    /\ reclaim # NoScan
    /\ \/ /\ LastAttempt(reclaim.attempt)
          /\ DeferredDeath(reclaim.child, reclaim.attempt, Awaited)
       \/ /\ ~LastAttempt(reclaim.attempt)
          /\ Requeue(reclaim.child, reclaim.attempt)
          /\ UNCHANGED <<parent, answers, child>>
    /\ reclaim' = NoScan
    /\ UNCHANGED <<stage, call, run, due, cascade, faults>>

-----------------------------------------------------------------------------
(* The availability sweep and the operators.                                *)

\* A timer scan that lists every suspended thread.
TimerScanAny(s) ==
    /\ s \notin due
    /\ parent.status = "suspended"
    /\ due' = due \cup {s}
    /\ UNCHANGED <<stage, parent, call, answers, child, driver, run, reclaim,
                   cascade, faults>>

\* find_due_timer_wakes lists the parent; its row lock ends with the query.
TimerScan(s) ==
    /\ s \notin due
    /\ parent.status = "suspended" /\ parent.wake = "timer"
    /\ due' = due \cup {s}
    /\ UNCHANGED <<stage, parent, call, answers, child, driver, run, reclaim,
                   cascade, faults>>

\* resolve_stage_thread for a listed thread: it must still be suspended, on
\* whatever it is waiting for now.
TimerWake(s) ==
    /\ s \in due
    /\ due' = due \ {s}
    /\ \/ /\ parent.status = "suspended"
          /\ parent' = [parent EXCEPT !.status = "running", !.task = "queued",
                                      !.wake = "none"]
       \/ parent.status # "suspended" /\ UNCHANGED parent
    /\ UNCHANGED <<stage, call, answers, child, driver, run, reclaim, cascade,
                   faults>>

RequestCancelParent ==
    /\ ~ParentOver /\ ~parent.intent
    /\ parent' = [parent EXCEPT !.intent = TRUE]
    /\ UNCHANGED <<stage, call, answers, child, driver, run, reclaim, due,
                   cascade, faults>>

RequestCancelChild(c) ==
    /\ stage \in ChildCancel
    /\ child[c].status \in ChildLive /\ ~child[c].intent
    /\ child' = [child EXCEPT ![c].intent = TRUE]
    /\ UNCHANGED <<stage, parent, call, answers, driver, run, reclaim, due,
                   cascade, faults>>

\* cancel_thread of an unclaimed parent; its cascade follows the commit.
CancelParent ==
    /\ parent.task \in {"queued", "blocked"}
    /\ EndParent("cancelled")
    /\ cascade' = TRUE
    /\ UNCHANGED <<stage, call, answers, child, driver, run, reclaim, due,
                   faults>>

CancelSweepParent == parent.intent /\ CancelParent

\* A suspended relation thread without a live child or a live driver task.
StuckRelating ==
    /\ stage = "relation" /\ ~parent.intent
    /\ parent.status = "suspended" /\ parent.wake = "child"
    /\ \A c \in Children : /\ child[c].status \notin ChildLive
                           /\ driver[c].state \notin DriverLive
    /\ CancelParent

\* cascade_cancel_to_children, after the commit of the cancellation.
Cascade ==
    /\ cascade /\ cascade' = FALSE
    /\ child' = [c \in Children |-> IF child[c].status \in ChildLive
                                    THEN [child[c] EXCEPT !.intent = TRUE]
                                    ELSE child[c]]
    /\ UNCHANGED <<stage, parent, call, answers, driver, run, reclaim, due,
                   faults>>

\* The process dies, or the statement fails, before the cascade.
CascadeLost ==
    /\ cascade /\ cascade' = FALSE
    /\ faults < MaxFaults /\ faults' = faults + 1
    /\ UNCHANGED <<stage, parent, call, answers, child, driver, run, reclaim,
                   due>>

\* cascade_cancel_to_orphans: the parent or the child's driver task is over.
OrphanJanitor(c) ==
    /\ child[c].status \in ChildLive /\ ~child[c].intent
    /\ ParentOver \/ driver[c].state \notin DriverLive
    /\ child' = [child EXCEPT ![c].intent = TRUE]
    /\ UNCHANGED <<stage, parent, call, answers, driver, run, reclaim, due,
                   cascade, faults>>

\* A disposal that leaves the driver task behind.
CancelSweepChildOnly(c) ==
    /\ child[c].status \in ChildLive /\ child[c].intent
    /\ driver[c].state = "pending"
    /\ child' = [child EXCEPT ![c].status = "cancelled"]
    /\ UNCHANGED <<stage, parent, call, answers, driver, run, reclaim, due,
                   cascade, faults>>

\* cancel_thread of a child whose driver task nobody has claimed: both rows
\* end, and nothing is handed back.
CancelSweepChild(c) ==
    /\ child[c].status \in ChildLive /\ child[c].intent
    /\ driver[c].state = "pending"
    /\ driver' = [driver EXCEPT ![c].state = "dead_letter"]
    /\ child' = [child EXCEPT ![c].status = "cancelled"]
    /\ UNCHANGED <<stage, parent, call, answers, run, reclaim, due, cascade,
                   faults>>

-----------------------------------------------------------------------------
Init ==
    /\ stage \in {"triage", "relation"}
    /\ parent = [status |-> "running", task |-> "queued", intent |-> FALSE,
                 wake |-> "none", rechecked |-> FALSE]
    /\ call = 0
    /\ answers = [k \in Calls |-> 0]
    /\ child = [c \in Children |-> NoChild]
    /\ driver = [c \in Children |-> NoDriver]
    /\ run = [d \in Drivers |-> Idle]
    /\ reclaim = NoScan
    /\ due = {}
    /\ cascade = FALSE
    /\ faults = 0

ParentStep ==
    ClaimParent \/ Submit \/ Launch \/ SuspendOnBudget \/ Finish \/ DisposeParent

DriverStep(d) ==
    \/ \E c \in Children : ClaimDriver(d, c)
    \/ StartChild(d) \/ Resolve(d) \/ CommitTerminal(d) \/ RefuseChild(d) \/ Die(d)

SweepStep ==
    \/ CancelSweepParent \/ StuckRelating \/ Cascade
    \/ \E c \in Children : OrphanJanitor(c) \/ CancelSweepChild(c)

Fault ==
    \/ ReleaseParent \/ CascadeLost
    \/ \E d \in Drivers : FailChild(d) \/ RejectChild(d) \/ Crash(d) \/ Stall(d)

Operator == RequestCancelParent \/ \E c \in Children : RequestCancelChild(c)

Next ==
    \/ ParentStep \/ SweepStep \/ Fault \/ Operator \/ ReclaimApply
    \/ \E d \in Drivers : DriverStep(d) \/ Heartbeat(d)
    \/ \E c \in Children : Lapse(c) \/ ReclaimScan(c)
    \/ \E s \in Sweepers : TimerScan(s) \/ TimerWake(s)

Spec == Init /\ [][Next]_vars

\* The stage worker, each driver slot, the heartbeat clock, the reclaim pass
\* and the sweeps keep running; faults and operators owe nothing.
FairSpec ==
    /\ Spec
    /\ WF_vars(ParentStep) /\ WF_vars(SweepStep) /\ WF_vars(ReclaimApply)
    /\ \A d \in Drivers : WF_vars(DriverStep(d)) /\ WF_vars(Heartbeat(d))
    /\ \A c \in Children : WF_vars(Lapse(c)) /\ WF_vars(ReclaimScan(c))
    /\ \A s \in Sweepers : WF_vars(TimerScan(s)) /\ WF_vars(TimerWake(s))

-----------------------------------------------------------------------------
\* Every row and every local state has its type, and the parent's row names
\* what it waits for exactly while it is suspended.
TypeOK ==
    /\ stage \in {"triage", "relation"}
    /\ parent \in [status : ThreadTerminal \cup {"running", "suspended"},
                   task : {"queued", "claimed", "blocked", "ended"},
                   intent : BOOLEAN, wake : {"none", "timer", "child"},
                   rechecked : BOOLEAN]
    /\ parent.wake # "none" <=> parent.status = "suspended"
    /\ call \in 0..MaxCalls
    /\ answers \in [Calls -> 0..MaxLaunches]
    /\ child \in [Children -> [status : ThreadTerminal \cup ChildLive \cup {"absent"},
                               intent : BOOLEAN, call : 0..MaxCalls]]
    /\ driver \in [Children -> [state : DriverLive \cup {"absent", "completed", "dead_letter"},
                                attempt : Nat, lapsed : BOOLEAN]]
    /\ run \in [Drivers -> [pc : {"idle", "claimed", "calling", "answering", "dying"},
                            child : 0..MaxLaunches, attempt : Nat, call : 0..MaxCalls]]
    /\ reclaim \in [child : 0..MaxLaunches, attempt : Nat]
    /\ due \subseteq Sweepers
    /\ cascade \in BOOLEAN
    /\ faults \in 0..MaxFaults

LiveChildren == {c \in Children : child[c].status \in ChildLive}

\* "The parent's task is blocked by construction while a child drives"
\* (hand_back): as long as the parent is not over, a live child is its only
\* one, and the parent is suspended on it with its task blocked, so that the
\* hand-back's requeue cannot miss.
ParentBlockedWhileChildDrives ==
    \A c \in LiveChildren :
        ~ParentOver => /\ LiveChildren = {c}
                       /\ parent.status = "suspended" /\ parent.task = "blocked"
                       /\ parent.wake = "child" /\ child[c].call = call

\* A result in the parent's log answers the submission its child was launched
\* for, whatever the reclaims and the re-drives in between.
VerdictMatchesSubmission ==
    \A k \in Calls : answers[k] # 0 => child[answers[k]].call = k

\* "The child never outlives its driver row" (commit_deferred_death), nor the
\* driver row its child: a live thread has a live task and the reverse.
ChildNeverOutlivesDriver ==
    \A c \in Children :
        child[c].status \in ChildLive <=> driver[c].state \in DriverLive

\* A thread suspended on a child has someone to resolve it: that child, a
\* sweep for an intent, or the stuck-relating sweep.
WaiterHasResolver ==
    parent.wake = "child" => \/ \E c \in LiveChildren : child[c].call = call
                             \/ parent.intent
                             \/ stage = "relation"

\* Whatever is lost, the parent ends and leaves no child behind ("so the child
\* never strands its lineage", the driver loop's own promise).
LineageConverges == <>[](ParentOver /\ LiveChildren = {})

\* A last attempt whose claim is abandoned before the child starts: the death
\* transaction moves only a running child, so it misses for ever.
UnstartedOnLastAttempt ==
    \E c \in Children :
        /\ child[c].status = "queued" /\ driver[c].state = "claimed"
        /\ LastAttempt(driver[c].attempt)
        /\ ~\E d \in Drivers : Executes(d, c) /\ run[d].pc = "claimed"

\* The driver loop's promise wherever no child loses its last attempt before
\* it starts.
LineageSettles == []~UnstartedOnLastAttempt => LineageConverges
=============================================================================
