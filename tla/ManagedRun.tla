----------------------------- MODULE ManagedRun -----------------------------
(* The managed plane of tribal: runs queued as run_job rows in the runtime   *)
(* database, admitted under a per-tenant slot, claimed under a lease and     *)
(* driven as agent threads of the core database.  No transaction spans the   *)
(* two planes: a drive moves the thread first and the job after it, and may  *)
(* die, stall or lose its lease between any two of its steps.  The metering  *)
(* gateway, which opens and settles holds and refuses calls, and whatever    *)
(* fires a run's durable signal are external.                                *)
(*                                                                           *)
(* A drive presents the claim token it was given.  A slot of the worker's    *)
(* batch drives one claim at a time, so the slot names the token.            *)
EXTENDS Naturals, Sequences, FiniteSets

CONSTANTS
    Runs,            \* run_job rows
    Tenants,         \* accounts
    TenantOf,        \* the account of each run
    Caps,            \* the ceilings a cap sync may push
    DefaultCap,      \* MANAGED_TENANT_DEFAULT_CAP
    Programs,        \* the probe specs a run may carry
    Slots,           \* concurrent drives, over all workers
    MaxFaults,       \* deaths, errors and stalls of drives
    MaxRefusals,     \* refusals the gateway answers
    SlowAdoption     \* a drive may outlive its lease before it heartbeats

ASSUME ManagedAssumption ==
    /\ TenantOf \in [Runs -> Tenants]
    /\ Caps \subseteq Nat /\ DefaultCap \in Caps
    /\ Programs \subseteq [calls : Nat, wait : BOOLEAN,
                           cap : {"hard_stop", "throttle_queue"}]
    /\ MaxFaults \in Nat /\ MaxRefusals \in Nat
    /\ SlowAdoption \in BOOLEAN
    /\ "none" \notin Slots /\ "none" \notin Runs

VARIABLES
    job,      \* runtime plane: state, claim token, lease, cancel intent
    slot,     \* runtime plane: each tenant's running count and cap
    program,  \* the run's payload
    thread,   \* core plane: status, run_claim_token, wake_at, suspension
    log,      \* core plane: the kinds of the thread's records, in order
    hold,     \* gateway: the hold filed under each position key
    acked,    \* gateway: the position keys acknowledged, per run
    drive,    \* the drive in each slot
    due,      \* the runs the wake sweep has listed and not yet woken
    refusals, faults

core == <<thread, log>>
gateway == <<hold, acked, refusals>>
vars == <<job, slot, program, core, gateway, drive, due, faults>>

Positions(r) == 0..(program[r].calls - 1)

JobTerminal == {"done", "cancelled"}
ThreadTerminal == {"completed", "failed"}
CapCauses == {"give_up", "backoff"}

NoThread == [status |-> "absent", token |-> "none", wake |-> "none",
             cause |-> "none"]
Idle == [pc |-> "idle", run |-> "none", seen |-> NoThread, done |-> 0,
         waited |-> FALSE, artifact |-> FALSE, cause |-> "none",
         watch |-> FALSE, beats |-> FALSE, terminal |-> "none", keys |-> 0]

\* WakeCause::of
WakeCause(behaviour) ==
    IF behaviour = "hard_stop" THEN "give_up" ELSE "backoff"

Count(s, kind) == Cardinality({i \in DOMAIN s : s[i] = kind})

\* re_derive: the cap cause of the last resolution no committed call spent.
PendingCause(s) ==
    LET Unspent == {i \in DOMAIN s : /\ s[i] \in CapCauses
                                     /\ \A j \in i..Len(s) : s[j] # "call"}
    IN  IF Unspent = {} THEN "none"
        ELSE s[CHOOSE i \in Unspent : \A j \in Unspent : j <= i]

Running(t) == {r \in Runs : TenantOf[r] = t /\ job[r].state = "running"}

Min(a, b) == IF a < b THEN a ELSE b

-----------------------------------------------------------------------------
(* The job plane: admission, the lease, and leaving the running state.      *)

Enqueue(r) ==
    /\ job[r].state = "absent"
    /\ \E p \in Programs :
          /\ program' = [program EXCEPT ![r] = p]
          /\ hold' = [hold EXCEPT ![r] = [i \in 0..(p.calls - 1) |-> "none"]]
    /\ job' = [job EXCEPT ![r].state = "queued"]
    /\ UNCHANGED <<slot, core, acked, refusals, drive, due, faults>>

\* claim_in_txn: the slot is taken in the transaction that marks the job
\* running.  Which of the admissible runs is oldest is left open.
Claim(w, r) ==
    /\ drive[w].pc = "idle"
    /\ job[r].state = "queued"
    /\ slot[TenantOf[r]].running < slot[TenantOf[r]].cap
    /\ slot' = [slot EXCEPT ![TenantOf[r]].running = @ + 1]
    /\ job' = [job EXCEPT ![r].state = "running", ![r].token = w,
                          ![r].lapsed = FALSE]
    /\ drive' = [drive EXCEPT ![w] = [Idle EXCEPT !.pc = "ensure", !.run = r]]
    /\ UNCHANGED <<program, core, gateway, due, faults>>

HoldsLease(w, r) == job[r].state = "running" /\ job[r].token = w

\* A transition that forgets the slot.
ReleaseSlotNever(t) == slot' = slot

\* release_slot, never below zero.
ReleaseSlot(t) ==
    slot' = [slot EXCEPT ![t].running = @ - Min(1, @)]

\* A move that leaves the token on the row it no longer guards.
LeaveRunningKeepsToken(w, r, state) ==
    IF HoldsLease(w, r)
    THEN /\ job' = [job EXCEPT ![r].state = state, ![r].lapsed = FALSE]
         /\ ReleaseSlot(TenantOf[r])
    ELSE UNCHANGED <<job, slot>>

\* leave_running: fenced on the token; the slot goes with the state.
LeaveRunning(w, r, state) ==
    IF HoldsLease(w, r)
    THEN /\ job' = [job EXCEPT ![r].state = state, ![r].token = "none",
                               ![r].lapsed = FALSE]
         /\ ReleaseSlot(TenantOf[r])
    ELSE UNCHANGED <<job, slot>>

\* reclaim_expired; it keeps no count of attempts.
ReclaimExpired(r) ==
    /\ job[r].state = "running" /\ job[r].lapsed
    /\ job' = [job EXCEPT ![r].state = "queued", ![r].token = "none",
                          ![r].lapsed = FALSE]
    /\ ReleaseSlot(TenantOf[r])
    /\ UNCHANGED <<program, core, gateway, drive, due, faults>>

RequestCancel(r) ==
    /\ job[r].state # "absent" /\ ~job[r].cancel
    /\ job' = [job EXCEPT ![r].cancel = TRUE]
    /\ UNCHANGED <<slot, program, core, gateway, drive, due, faults>>

\* apply_cap_sync leaves the running count alone.
CapSync(t) ==
    /\ \E c \in Caps : slot' = [slot EXCEPT ![t].cap = c]
    /\ UNCHANGED <<job, program, core, gateway, drive, due, faults>>

-----------------------------------------------------------------------------
(* Adoption: the thread under this claim's token, the opening input, the    *)
(* progress its log holds, and the cancel intent read once up front.        *)

End(w) == drive' = [drive EXCEPT ![w] = Idle]

Goto(w, pc) == drive' = [drive EXCEPT ![w].pc = pc]

\* Every exit of a run goes through the teardown, with the terminal the job
\* takes and the number of position keys it acknowledges.
Teardown(w, terminal, keys) ==
    drive' = [drive EXCEPT ![w] =
        [Idle EXCEPT !.pc = "poll", !.run = drive[w].run,
                     !.beats = drive[w].beats, !.watch = drive[w].watch,
                     !.terminal = terminal, !.keys = keys]]

\* DrivingClaim::managed: the fence of the core plane is the thread's token.
HoldsThread(w, r) == thread[r].token = w

\* ensure_managed_thread: adopt the run's thread, or create it.  The token is
\* written whoever holds the lease.
Adopt(w) ==
    LET r == drive[w].run
        row == IF thread[r].status = "absent"
               THEN [NoThread EXCEPT !.status = "queued", !.token = w]
               ELSE [thread[r] EXCEPT !.token = w]
    IN  /\ drive[w].pc = "ensure"
        /\ thread' = [thread EXCEPT ![r] = row]
        /\ drive' = [drive EXCEPT ![w].pc = "open", ![w].seen = row]
        /\ UNCHANGED <<job, slot, program, log, gateway, due, faults>>

\* commit_opening_input: once, on an empty log; a lost fence ends the drive.
OpenInput(w) ==
    LET r == drive[w].run
    IN  /\ drive[w].pc = "open"
        /\ IF ~HoldsThread(w, r)
           THEN End(w) /\ UNCHANGED log
           ELSE /\ Goto(w, "derive")
                /\ log' = IF log[r] = <<>>
                          THEN [log EXCEPT ![r] = <<"input">>] ELSE log
        /\ UNCHANGED <<job, slot, program, thread, gateway, due, faults>>

\* A derivation that forgets the cause the last wake recorded.
ReDeriveNoCause(w) ==
    LET r == drive[w].run
    IN  /\ drive[w].pc = "derive"
        /\ drive' = [drive EXCEPT
               ![w].pc = "check",
               ![w].done = Count(log[r], "call"),
               ![w].waited = Count(log[r], "wait") > 0,
               ![w].artifact = Count(log[r], "artifact") > 0]
        /\ UNCHANGED <<job, slot, program, core, gateway, due, faults>>

ReDerive(w) ==
    LET r == drive[w].run
    IN  /\ drive[w].pc = "derive"
        /\ drive' = [drive EXCEPT
               ![w].pc = "check",
               ![w].done = Count(log[r], "call"),
               ![w].waited = Count(log[r], "wait") > 0,
               ![w].artifact = Count(log[r], "artifact") > 0,
               ![w].cause = PendingCause(log[r])]
        /\ UNCHANGED <<job, slot, program, core, gateway, due, faults>>

CheckCancel(w) ==
    LET d == drive[w]
    IN  /\ d.pc = "check"
        /\ IF ~job[d.run].cancel THEN Goto(w, "adopt")
           ELSE IF d.seen.wake # "none" THEN Goto(w, "disarm")
           ELSE Teardown(w, "cancelled", d.done)
        /\ UNCHANGED <<job, slot, program, core, gateway, due, faults>>

\* clear_managed_wake
Disarm(w) ==
    LET r == drive[w].run
    IN  /\ drive[w].pc = "disarm"
        /\ IF HoldsThread(w, r)
           THEN /\ thread' = [thread EXCEPT ![r].wake = "none"]
                /\ Teardown(w, "cancelled", drive[w].done)
           ELSE UNCHANGED thread /\ End(w)
        /\ UNCHANGED <<job, slot, program, log, gateway, due, faults>>

\* The walk starts under a heartbeat.
StartWalk(w, cause) ==
    drive' = [drive EXCEPT ![w].pc = "walk", ![w].cause = cause,
                           ![w].beats = TRUE, ![w].seen = NoThread]

Reload(w) == drive' = [drive EXCEPT ![w].seen = thread[drive[w].run]]

\* adopt, a wait that is not over: the job goes back to suspended.
AdoptNotReady(w) ==
    LET d == drive[w]
    IN  /\ d.pc = "adopt" /\ d.seen.status = "suspended"
        /\ d.seen.wake # "due"
        /\ LeaveRunning(w, d.run, "suspended")
        /\ End(w)
        /\ UNCHANGED <<program, core, gateway, due, faults>>

\* adopt, a wait that is over: resolve_stage_thread takes the thread's lock
\* and no claim.  It records the wake at a suspended or terminal thread.
AdoptResolve(w) ==
    LET d == drive[w]
        r == d.run
        cause == IF d.seen.cause = "cap" THEN WakeCause(program[r].cap)
                 ELSE "none"
        record == IF cause = "none" THEN "resolved" ELSE cause
    IN  /\ d.pc = "adopt" /\ d.seen.status = "suspended"
        /\ d.seen.wake = "due"
        /\ IF thread[r].status = "suspended"
           THEN /\ thread' = [thread EXCEPT ![r].status = "running",
                                            ![r].wake = "none",
                                            ![r].cause = "none"]
                /\ StartWalk(w, cause)
           ELSE Reload(w) /\ UNCHANGED thread
        /\ log' = IF thread[r].status \in ThreadTerminal \cup {"suspended"}
                  THEN [log EXCEPT ![r] = Append(@, record)] ELSE log
        /\ UNCHANGED <<job, slot, program, gateway, due, faults>>

\* adopt, a thread not started yet.
AdoptQueued(w) ==
    LET d == drive[w]
        r == d.run
    IN  /\ d.pc = "adopt" /\ d.seen.status = "queued"
        /\ IF thread[r].status = "queued"
           THEN /\ thread' = [thread EXCEPT ![r].status = "running"]
                /\ StartWalk(w, "none")
           ELSE Reload(w) /\ UNCHANGED thread
        /\ UNCHANGED <<job, slot, program, log, gateway, due, faults>>

\* adopt, a thread left running or already over.
AdoptMoved(w) ==
    LET d == drive[w]
    IN  /\ d.pc = "adopt"
        /\ \/ d.seen.status = "running" /\ StartWalk(w, d.cause)
           \/ d.seen.status = "completed" /\ Teardown(w, "done", d.done)
           \/ d.seen.status = "failed" /\ Teardown(w, "cancelled", d.done)
        /\ UNCHANGED <<job, slot, program, core, gateway, due, faults>>

-----------------------------------------------------------------------------
(* The walk: metered calls, the durable wait, the artifact, the terminal.   *)

\* A boundary of the walk sees the cancel watch before anything else.
Observed(w) ==
    /\ drive[w].pc = "walk" /\ drive[w].watch
    /\ Teardown(w, "cancelled", drive[w].done)
    /\ UNCHANGED <<job, slot, program, core, gateway, due, faults>>

AtCall(w) ==
    LET d == drive[w]
    IN  d.pc = "walk" /\ ~d.watch /\ d.done < program[d.run].calls

\* The gateway files a hold under the position key, or finds the one filed
\* by an earlier attempt.
Dispatch(w) ==
    LET d == drive[w]
    IN  /\ AtCall(w)
        /\ hold' = [hold EXCEPT ![d.run][d.done] =
                        IF @ = "none" THEN "active" ELSE @]
        /\ Goto(w, "inflight")
        /\ UNCHANGED <<job, slot, program, core, acked, refusals, due, faults>>

\* The gateway refuses: over the account's cap, or for good.
Refuse(w, error) ==
    LET d == drive[w]
    IN  /\ AtCall(w) /\ refusals < MaxRefusals
        /\ hold[d.run][d.done] = "none"
        /\ refusals' = refusals + 1
        /\ Goto(w, IF error = "over_cap" THEN "over_cap" ELSE "fail")
        /\ UNCHANGED <<job, slot, program, core, hold, acked, due, faults>>

\* A cancel racing the call acknowledges its key as well.
DropCall(w) ==
    /\ drive[w].pc = "inflight" /\ drive[w].watch
    /\ Teardown(w, "cancelled", drive[w].done + 1)
    /\ UNCHANGED <<job, slot, program, core, gateway, due, faults>>

\* A commit that trusts the lease it was claimed under.
CommitCallUnfenced(w) ==
    LET d == drive[w]
    IN  /\ d.pc = "inflight"
        /\ log' = [log EXCEPT ![d.run] = Append(@, "call")]
        /\ drive' = [drive EXCEPT ![w].pc = "walk", ![w].done = @ + 1,
                                  ![w].cause = "none"]
        /\ UNCHANGED <<job, slot, program, thread, gateway, due, faults>>

\* commit_model_call
CommitCall(w) ==
    LET d == drive[w]
    IN  /\ d.pc = "inflight"
        /\ IF HoldsThread(w, d.run)
           THEN /\ log' = [log EXCEPT ![d.run] = Append(@, "call")]
                /\ drive' = [drive EXCEPT ![w].pc = "walk", ![w].done = @ + 1,
                                          ![w].cause = "none"]
           ELSE UNCHANGED log /\ End(w)
        /\ UNCHANGED <<job, slot, program, thread, gateway, due, faults>>

\* suspend_managed_thread: fence, record and status in one transaction; a
\* thread no longer running is an error that ends the drive.
Suspend(w, record, cause, wake) ==
    LET r == drive[w].run
    IN  IF HoldsThread(w, r) /\ thread[r].status = "running"
        THEN /\ thread' = [thread EXCEPT ![r].status = "suspended",
                                         ![r].cause = cause, ![r].wake = wake]
             /\ log' = [log EXCEPT ![r] = Append(@, record)]
             /\ Goto(w, "park")
        ELSE UNCHANGED core /\ End(w)

\* dispose_cap_refusal: a throttled run backs off afresh; a hard-stopped one
\* waits for its deadline once and fails when it comes back short.
DisposeOverCap(w) ==
    LET d == drive[w]
    IN  /\ d.pc = "over_cap"
        /\ IF program[d.run].cap = "throttle_queue" \/ d.cause = "none"
           THEN Suspend(w, "cap", "cap", "armed")
           ELSE Goto(w, "fail") /\ UNCHANGED core
        /\ UNCHANGED <<job, slot, program, gateway, due, faults>>

\* The second half of a suspension; the outcome is not looked at.
Park(w) ==
    /\ drive[w].pc = "park"
    /\ LeaveRunning(w, drive[w].run, "suspended")
    /\ End(w)
    /\ UNCHANGED <<program, core, gateway, due, faults>>

AfterCalls(w) ==
    LET d == drive[w]
    IN  d.pc = "walk" /\ ~d.watch /\ d.done >= program[d.run].calls

DurableWait(w) ==
    /\ AfterCalls(w)
    /\ program[drive[w].run].wait /\ ~drive[w].waited
    /\ Suspend(w, "wait", "signal", "none")
    /\ UNCHANGED <<job, slot, program, gateway, due, faults>>

Waited(w) == AfterCalls(w) /\ (program[drive[w].run].wait => drive[w].waited)

\* commit_artifact_record. The watch was read before it and is not read again:
\* what follows a committed artifact is the terminal.
CommitArtifact(w) ==
    LET r == drive[w].run
    IN  /\ Waited(w) /\ ~drive[w].artifact
        /\ IF HoldsThread(w, r)
           THEN /\ log' = [log EXCEPT ![r] = Append(@, "artifact")]
                /\ drive' = [drive EXCEPT ![w].artifact = TRUE, ![w].pc = "final"]
           ELSE UNCHANGED log /\ End(w)
        /\ UNCHANGED <<job, slot, program, thread, gateway, due, faults>>

\* commit_managed_terminal: a missed status is a rival's terminal, and the
\* job converges all the same.
CommitTerminal(w, status, terminal) ==
    LET r == drive[w].run
    IN  IF HoldsThread(w, r)
        THEN /\ thread' = IF thread[r].status = "running"
                          THEN [thread EXCEPT ![r].status = status]
                          ELSE thread
             /\ Teardown(w, terminal, drive[w].done)
        ELSE UNCHANGED thread /\ End(w)

Complete(w) ==
    /\ \/ drive[w].pc = "final"
       \/ Waited(w) /\ drive[w].artifact
    /\ CommitTerminal(w, "completed", "done")
    /\ UNCHANGED <<job, slot, program, log, gateway, due, faults>>

\* A failed run settled like a finished one.
FailRunDone(w) ==
    /\ drive[w].pc = "fail"
    /\ CommitTerminal(w, "failed", "done")
    /\ UNCHANGED <<job, slot, program, log, gateway, due, faults>>

\* fail_run
FailRun(w) ==
    /\ drive[w].pc = "fail"
    /\ CommitTerminal(w, "failed", "cancelled")
    /\ UNCHANGED <<job, slot, program, log, gateway, due, faults>>

-----------------------------------------------------------------------------
(* The teardown: poll the holds, commit the job's terminal, acknowledge.    *)

Resolved(r) == \A i \in Positions(r) : hold[r][i] # "active"

\* poll_until_resolved: the holds are resolved, or the budget runs out.
Poll(w) ==
    /\ drive[w].pc = "poll"
    /\ IF Resolved(drive[w].run) THEN Goto(w, "settle") ELSE End(w)
    /\ UNCHANGED <<job, slot, program, core, gateway, due, faults>>

\* A settle that acknowledges without looking whether the commit applied.
SettleRegardless(w) ==
    /\ drive[w].pc = "settle"
    /\ LeaveRunning(w, drive[w].run, drive[w].terminal)
    /\ Goto(w, "ack")
    /\ UNCHANGED <<program, core, gateway, due, faults>>

Settle(w) ==
    LET d == drive[w]
    IN  /\ d.pc = "settle"
        /\ LeaveRunning(w, d.run, d.terminal)
        /\ IF HoldsLease(w, d.run) THEN Goto(w, "ack") ELSE End(w)
        /\ UNCHANGED <<program, core, gateway, due, faults>>

Acknowledge(w) ==
    LET d == drive[w]
    IN  /\ d.pc = "ack"
        /\ acked' = [acked EXCEPT ![d.run] = @ \cup 0..(d.keys - 1)]
        /\ End(w)
        /\ UNCHANGED <<job, slot, program, core, hold, refusals, due, faults>>

-----------------------------------------------------------------------------
(* The heartbeat, and what can go wrong with a drive.                       *)

\* spawn_heartbeat: a renewal that does not apply, and an intent, both fire
\* the watch.
Heartbeat(w) ==
    LET d == drive[w]
    IN  /\ d.pc # "idle" /\ d.beats /\ ~d.watch
        /\ IF HoldsLease(w, d.run)
           THEN /\ job' = [job EXCEPT ![d.run].lapsed = FALSE]
                /\ drive' = [drive EXCEPT ![w].watch = job[d.run].cancel]
           ELSE /\ drive' = [drive EXCEPT ![w].watch = TRUE]
                /\ UNCHANGED job
        /\ UNCHANGED <<slot, program, core, gateway, due, faults>>

\* The renewal fails on a database error, under a lease that still stands.
HeartbeatError(w) ==
    /\ faults < MaxFaults
    /\ drive[w].pc # "idle" /\ drive[w].beats /\ ~drive[w].watch
    /\ faults' = faults + 1
    /\ drive' = [drive EXCEPT ![w].watch = TRUE]
    /\ UNCHANGED <<job, slot, program, core, gateway, due>>

\* The drive errs or its process dies; nothing is undone.
Die(w) ==
    /\ drive[w].pc # "idle" /\ faults < MaxFaults
    /\ faults' = faults + 1
    /\ End(w)
    /\ UNCHANGED <<job, slot, program, core, gateway, due>>

Driven(r) == \E w \in Slots : drive[w].run = r /\ HoldsLease(w, r)

\* Nobody renews the lease of a drive that has ended.
Lapse(r) ==
    /\ job[r].state = "running" /\ ~job[r].lapsed /\ ~Driven(r)
    /\ job' = [job EXCEPT ![r].lapsed = TRUE]
    /\ UNCHANGED <<slot, program, core, gateway, drive, due, faults>>

\* A drive that still runs outlives its lease.
Stall(w) ==
    LET d == drive[w]
    IN  /\ d.pc # "idle" /\ faults < MaxFaults
        /\ HoldsLease(w, d.run) /\ ~job[d.run].lapsed
        /\ d.beats \/ d.terminal # "none" \/ SlowAdoption
        /\ faults' = faults + 1
        /\ job' = [job EXCEPT ![d.run].lapsed = TRUE]
        /\ UNCHANGED <<slot, program, core, gateway, drive, due>>

-----------------------------------------------------------------------------
(* The sweeps that join the planes, and the world outside.                  *)

\* A scan that takes a deadline for gone once it has listed it.
ScanWakesOnce ==
    /\ due = {}
    /\ due' = {r \in Runs : thread[r].status = "suspended"
                              /\ thread[r].wake = "due"}
    /\ due' # {}
    /\ thread' = [r \in Runs |-> IF r \in due'
                                 THEN [thread[r] EXCEPT !.wake = "none"]
                                 ELSE thread[r]]
    /\ UNCHANGED <<job, slot, program, log, gateway, drive, faults>>

\* find_due_managed_wakes
ScanWakes ==
    /\ due = {}
    /\ due' = {r \in Runs : thread[r].status = "suspended"
                              /\ thread[r].wake = "due"}
    /\ due' # {}
    /\ UNCHANGED <<job, slot, program, core, gateway, drive, faults>>

\* RunJobRepository::wake
Woken(r) ==
    IF job[r].state = "suspended"
    THEN job' = [job EXCEPT ![r].state = "queued"]
    ELSE UNCHANGED job

\* sweep_managed_wakes, one of the listed runs.
SweepWake(r) ==
    /\ r \in due
    /\ due' = due \ {r}
    /\ Woken(r)
    /\ UNCHANGED <<slot, program, core, gateway, drive, faults>>

\* sweep_managed_cancels
SweepCancel(r) ==
    /\ job[r].state = "suspended" /\ job[r].cancel
    /\ Woken(r)
    /\ UNCHANGED <<slot, program, core, gateway, drive, due, faults>>

\* A cap wait's deadline passes.
Elapse(r) ==
    /\ thread[r].wake = "armed"
    /\ thread' = [thread EXCEPT ![r].wake = "due"]
    /\ UNCHANGED <<job, slot, program, log, gateway, drive, due, faults>>

\* External: the run's signal arrives and its wait becomes due.
Signal(r) ==
    /\ thread[r].status = "suspended" /\ thread[r].cause = "signal"
    /\ thread[r].wake = "none"
    /\ thread' = [thread EXCEPT ![r].wake = "due"]
    /\ UNCHANGED <<job, slot, program, log, gateway, drive, due, faults>>

\* External: the gateway settles a dispatched hold.
SettleHold(r) ==
    /\ \E i \in Positions(r) :
          /\ hold[r][i] = "active"
          /\ hold' = [hold EXCEPT ![r][i] = "settled"]
    /\ UNCHANGED <<job, slot, program, core, acked, refusals, drive, due,
                   faults>>

-----------------------------------------------------------------------------
Init ==
    /\ job = [r \in Runs |-> [state |-> "absent", token |-> "none",
                              lapsed |-> FALSE, cancel |-> FALSE]]
    /\ slot = [t \in Tenants |-> [running |-> 0, cap |-> DefaultCap]]
    /\ program = [r \in Runs |-> [calls |-> 0, wait |-> FALSE,
                                  cap |-> "hard_stop"]]
    /\ thread = [r \in Runs |-> NoThread]
    /\ log = [r \in Runs |-> <<>>]
    /\ hold = [r \in Runs |-> <<>>]
    /\ acked = [r \in Runs |-> {}]
    /\ drive = [w \in Slots |-> Idle]
    /\ due = {}
    /\ refusals = 0
    /\ faults = 0

\* What a drive does next, of its own accord.
Step(w) ==
    \/ Adopt(w) \/ OpenInput(w) \/ ReDerive(w) \/ CheckCancel(w) \/ Disarm(w)
    \/ AdoptNotReady(w) \/ AdoptResolve(w) \/ AdoptQueued(w) \/ AdoptMoved(w)
    \/ Observed(w) \/ Dispatch(w) \/ DropCall(w) \/ CommitCall(w)
    \/ DisposeOverCap(w) \/ Park(w) \/ DurableWait(w) \/ CommitArtifact(w)
    \/ Complete(w) \/ FailRun(w) \/ Poll(w) \/ Settle(w) \/ Acknowledge(w)

Next ==
    \/ \E r \in Runs :
          \/ Enqueue(r) \/ ReclaimExpired(r) \/ RequestCancel(r) \/ Lapse(r)
          \/ SweepWake(r) \/ SweepCancel(r) \/ Elapse(r) \/ Signal(r)
          \/ SettleHold(r)
          \/ \E w \in Slots : Claim(w, r)
    \/ \E w \in Slots :
          \/ Step(w) \/ Refuse(w, "over_cap") \/ Refuse(w, "not_entitled")
          \/ Heartbeat(w) \/ HeartbeatError(w) \/ Die(w) \/ Stall(w)
    \/ \E t \in Tenants : CapSync(t)
    \/ ScanWakes

Spec == Init /\ [][Next]_vars

\* The managed loop reclaims and claims on every tick, a drive keeps going
\* and its heartbeat with it, the sweep runs every cycle; deadlines pass,
\* signals arrive and the gateway settles what was dispatched.
Fairness ==
    /\ \A w \in Slots :
          /\ WF_vars(Step(w))
          /\ WF_vars(Heartbeat(w))
          /\ WF_vars(\E r \in Runs : Claim(w, r))
    /\ \A r \in Runs :
          /\ WF_vars(ReclaimExpired(r)) /\ WF_vars(Lapse(r))
          /\ WF_vars(SweepWake(r)) /\ WF_vars(SweepCancel(r))
          /\ WF_vars(Elapse(r)) /\ WF_vars(Signal(r))
          /\ WF_vars(SettleHold(r))
    /\ WF_vars(ScanWakes)

FairSpec == Spec /\ Fairness

-----------------------------------------------------------------------------
(* Properties.                                                              *)

\* Every row, record and drive keeps its shape, and a job has a claim token
\* exactly while it is running.
TypeOK ==
    /\ job \in [Runs -> [state : {"absent", "queued", "running", "suspended"}
                                    \cup JobTerminal,
                         token : Slots \cup {"none"}, lapsed : BOOLEAN,
                         cancel : BOOLEAN]]
    /\ \A r \in Runs : job[r].token # "none" <=> job[r].state = "running"
    /\ slot \in [Tenants -> [running : Nat, cap : Caps]]
    /\ \A r \in Runs :
          /\ thread[r] \in
                [status : {"absent", "queued", "running", "suspended"}
                             \cup ThreadTerminal,
                 token : Slots \cup {"none"},
                 wake : {"none", "armed", "due"},
                 cause : {"none", "cap", "signal"}]
          /\ thread[r].cause # "none" <=> thread[r].status = "suspended"
          /\ log[r] \in Seq({"input", "call", "cap", "wait", "resolved",
                             "artifact"} \cup CapCauses)
          /\ job[r].state # "absent" =>
                hold[r] \in [Positions(r) -> {"none", "active", "settled"}]
          /\ acked[r] \subseteq Positions(r)
    /\ \A w \in Slots : drive[w].pc = "idle" <=> drive[w].run = "none"
    /\ due \subseteq Runs
    /\ refusals \in 0..MaxRefusals /\ faults \in 0..MaxFaults

\* A tenant's running count is the number of its runs in the running state:
\* no crash, reclaim, lost fence or refused transition leaks or double-frees
\* a slot (leave_running, reclaim_expired, claim_in_txn).
SlotsMatchRunning ==
    \A t \in Tenants : slot[t].running = Cardinality(Running(t))

\* No reclaim, resume or rival repeats what the log holds: no more calls
\* than the probe asks for, one wait, one artifact and only after the rest
\* (re_derive under the thread fence).
NothingRepeated ==
    \A r \in Runs :
       LET s == log[r]
       IN  /\ Count(s, "call") <= program[r].calls
           /\ Count(s, "wait") <= 1 /\ Count(s, "artifact") <= 1
           /\ \A i \in DOMAIN s : s[i] = "artifact" =>
                 /\ Count(SubSeq(s, 1, i), "call") = program[r].calls
                 /\ program[r].wait => Count(SubSeq(s, 1, i), "wait") = 1

\* A hard stop waits for credit once: after its give-up deadline woke it, no
\* further cap wait is committed before a call is (WakeCause, which "never
\* re-suspends a spent give-up bound").
GiveUpSpentOnce ==
    \A r \in Runs : \A i, j \in DOMAIN log[r] :
       /\ i < j /\ log[r][i] = "give_up" /\ log[r][j] = "cap"
       => \E k \in i..j : log[r][k] = "call"

\* The response store hears of a position key only when no attempt can need
\* its output again (the ack fenced behind the run's terminal commit).
AckAfterSettle ==
    \A r \in Runs : acked[r] # {} => job[r].state \in JobTerminal

\* The planes agree on how a run ended: a job is done only with a completed
\* thread, so a failed or unfinished thread never has a finished job, and a
\* completed thread's job ends otherwise only for an intent that got there
\* first (settled_terminal, commit_managed_terminal before the teardown).
PlanesAgree ==
    \A r \in Runs :
       /\ job[r].state = "done" => thread[r].status = "completed"
       /\ job[r].state = "cancelled" /\ thread[r].status = "completed"
             => job[r].cancel

\* ManagedRunOutcome::Cancelled, "an observed cancel tore the run down": no
\* run is cancelled that nobody cancelled and that did not fail.
CancelledOnRequest ==
    \A r \in Runs : job[r].state = "cancelled" =>
       job[r].cancel \/ thread[r].status = "failed"

\* Every queued run is settled: no wake, cancel or lease is lost between the
\* planes (sweep_managed_wakes "so no wake is lost").
RunSettles ==
    \A r \in Runs :
       job[r].state = "queued" ~> job[r].state \in JobTerminal
=============================================================================
