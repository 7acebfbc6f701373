----------------------------- MODULE Lifecycle -----------------------------
(* The lifecycle owner of the management plane: one task that reduces client *)
(* requests, the completions of the tasks it spawned, the events of the link *)
(* to the runtime and a periodic look at the runtime process.  A runtime is  *)
(* spawned, its custody committed and its control channel opened before the  *)
(* launch is answered; it is stopped by request, by kill, or parked by a     *)
(* storage transition.  The runtime process, its custody stream and its      *)
(* control channel are modelled by what the manager can observe of them.     *)
(*                                                                           *)
(* A process names the launch it came from, and so the token of the tasks    *)
(* spawned for it.  Process 0 is a runtime recovered from an earlier manager.*)
EXTENDS Naturals, Sequences, FiniteSets

CONSTANTS
    MaxRequests,   \* client requests, admitted in order
    Ops,           \* Ops[r]: the operations the r-th request may ask for
    Origins,       \* {"none", "recovered"}: what the manager starts from
    Seeds,         \* what the configuration document says at the start
    MaxFaults,     \* crashes, refused commits and handshakes, lost channels
    MaxReports,    \* readiness reports and configuration changes
    EventCapacity, \* RUNTIME_EVENT_CAPACITY: the monitor waits when it is full
    ControlLoss,   \* a control channel may drop under a live runtime
    SlowReap       \* a killed early child may outlive the reap deadline

ASSUME LifecycleAssumption ==
    /\ MaxRequests \in Nat
    /\ Ops \in [1..MaxRequests ->
                  SUBSET {"start", "stop", "restart", "shutdown",
                          "transition", "observe", "force"}]
    /\ Origins \subseteq {"none", "recovered"}
    /\ Seeds \subseteq {"clear", "blocked"}
    /\ MaxFaults \in Nat /\ MaxReports \in Nat
    /\ EventCapacity \in Nat \ {0}
    /\ ControlLoss \in BOOLEAN /\ SlowReap \in BOOLEAN

VARIABLES
    own,       \* the owner's LifecycleState
    latest,    \* LatestReadiness
    seen,      \* shutdown_seen
    worker,    \* the configuration worker is alive
    req,       \* the answer of each request
    proc,      \* the runtime processes
    tasks,     \* spawned tasks: running, or finished with an outcome
    refresh,   \* the document read in flight: none, current or overtaken
    monitor,   \* the link monitor of the running child
    events,    \* RuntimeLinkEvents not yet handled
    faults, reports

vars == <<own, latest, seen, worker, req, proc, tasks, refresh, monitor,
          events, faults, reports>>

Requests == 1..MaxRequests
Launches == 1..MaxRequests     \* a request launches at most once
Procs == {0} \union Launches
Absent == MaxRequests + 1      \* no child
Nobody == 0                    \* no waiter

(* A snapshot without a runtime.                                            *)
Idle(phase) ==
    [mode |-> "none", phase |-> phase, origin |-> phase, intent |-> "none",
     waiters |-> {}, wait |-> Nobody, child |-> Absent, custody |-> FALSE,
     attach |-> "settled", term |-> "none", expired |-> FALSE,
     forced |-> FALSE, finishing |-> FALSE, linked |-> FALSE,
     pending |-> FALSE, saved |-> "none"]

Unborn == [life |-> "none", custody |-> "none", control |-> "none",
           stopping |-> FALSE, killed |-> FALSE]
Closed(s) == IF s = "open" THEN "closed" ELSE s
Gone(q) == [Unborn EXCEPT !.life = "gone", !.custody = Closed(q.custody),
                          !.control = Closed(q.control)]
Alive(p) == p \in Procs /\ proc[p].life = "alive"
Exited(p) == p \in Procs /\ proc[p].life = "gone"

(* The owner's loop leaves once it has seen shutdown in a state that holds  *)
(* no operation.                                                            *)
On == ~(seen /\ own.mode \in {"none", "terminating"})

Task(kind, p) == [kind |-> kind, proc |-> p, out |-> "run"]

(* Every result that promises nothing about the runtime (blocked, refused,   *)
(* already running, in progress, superseded, failed, changed, timed out, a   *)
(* dropped responder...) is "declined".                                      *)
Answer(who, ans) ==
    [r \in Requests |-> IF r \in who THEN ans ELSE req[r]]
Decline(r) == req' = [req EXCEPT ![r] = "declined"]
Waiting(r) == req' = [req EXCEPT ![r] = "waiting"]

(* take_token: a document read in flight is overtaken.                      *)
TakeToken == refresh' = IF refresh = "none" THEN "none" ELSE "stale"

(* no_runtime_snapshot and no_runtime_from_latest: the phase a document and *)
(* the latest readiness give.                                               *)
Phase(readiness) ==
    CASE readiness = "clear" -> "ready"
      [] readiness = "blocked" -> "unconfigured"
      [] OTHER -> "unavailable"
Documents == {"valid", "invalid", "unread"}
AfterDocument(document) == IF document = "unread" THEN "unavailable" ELSE latest
PhaseOf(document) ==
    IF document = "invalid" THEN "unconfigured" ELSE Phase(AfterDocument(document))

Kill(p) == [proc EXCEPT ![p].killed = TRUE]
CustodyClosed == own.custody /\ proc[own.child].custody = "closed"

\* A killed child taken for a reaped one.
ChildExitedWhenKilled ==
    IF own.child = 0 THEN proc[0].control = "closed"
                     ELSE Exited(own.child) \/ proc[own.child].killed
(* managed_child_exit_detail: an owned child has been reaped, or a recovered*)
(* one's control channel is closed.                                         *)
ChildExited == IF own.child = 0 THEN proc[0].control = "closed"
                                ELSE Exited(own.child)

-----------------------------------------------------------------------------
(* Launching                                                                 *)

(* begin_launch: the child is spawned and its custody commit started, or the *)
(* spawn fails and every waiter hears it.                                    *)
Launch(intent, phase, who, others) ==
    LET p == CHOOSE q \in Launches :
                 proc[q] = Unborn /\ \A s \in 1..(q - 1) : proc[s] # Unborn
    IN /\ TakeToken
       /\ \/ /\ own' = [Idle(phase) EXCEPT !.mode = "launching",
                             !.intent = intent, !.waiters = who, !.child = p,
                             !.attach = "committing"]
             /\ proc' = [proc EXCEPT ![p] = [Unborn EXCEPT !.life = "alive"]]
             /\ tasks' = others \union {Task("commit", p)}
             /\ req' = Answer(who, "waiting")
             /\ UNCHANGED faults
          \/ /\ faults < MaxFaults /\ faults' = faults + 1
             /\ own' = Idle(Phase(latest))
             /\ req' = Answer(who, "declined")
             /\ tasks' = others
             /\ UNCHANGED proc

(* begin_stop_state: the link goes, the runtime is asked to stop, and the    *)
(* deadline starts.                                                          *)
Stopping(intent, who) ==
    /\ own' = [own EXCEPT !.mode = "stopping", !.intent = intent,
                   !.waiters = who, !.wait = Nobody, !.expired = FALSE,
                   !.forced = FALSE, !.finishing = FALSE, !.linked = FALSE,
                   !.pending = FALSE, !.saved = "none"]
    /\ tasks' = tasks \union {Task("stop", own.child)}
    /\ monitor' = "off"
    /\ TakeToken

(* A launch that is told to stop becomes a cancellation.                     *)
Cancelling(intent, who) ==
    own' = [own EXCEPT !.mode = "cancelling", !.intent = intent,
                !.waiters = who, !.term = "awaiting", !.expired = FALSE]

Join(r) == own' = [own EXCEPT !.waiters = @ \union {r}]

-----------------------------------------------------------------------------
(* Requests                                                                  *)

(* admit_start.                                                              *)
AdmitStart(r) ==
    \/ /\ own.mode = "none" /\ own.phase = "ready"
       /\ Launch("start", own.phase, {r}, tasks)
       /\ UNCHANGED <<monitor, seen>>
    \/ /\ \/ own.mode = "launching"
          \/ own.mode = "stopping" /\ own.intent = "restart"
       /\ Join(r) /\ Waiting(r)
       /\ UNCHANGED <<proc, tasks, refresh, monitor, seen, faults>>
    \/ /\ own.mode # "launching"
       /\ ~(own.mode = "none" /\ own.phase = "ready")
       /\ ~(own.mode = "stopping" /\ own.intent = "restart")
       /\ Decline(r)
       /\ UNCHANGED <<own, proc, tasks, refresh, monitor, seen, faults>>

(* admit_stop: a launch in progress is cancelled, a restart superseded.      *)
AdmitStop(r) ==
    \/ /\ own.mode \in {"running", "unresponsive"}
       /\ Stopping("stop", {r}) /\ Waiting(r)
       /\ UNCHANGED <<proc, seen>>
    \/ /\ own.mode = "launching"
       /\ Cancelling("stop", {r})
       /\ req' = [Answer(own.waiters, "declined") EXCEPT ![r] = "waiting"]
       /\ UNCHANGED <<proc, tasks, refresh, monitor, seen>>
    \/ /\ own.mode = "stopping" /\ own.intent = "restart"
       /\ own' = [own EXCEPT !.intent = "stop", !.waiters = {r}]
       /\ req' = [Answer(own.waiters, "declined") EXCEPT ![r] = "waiting"]
       /\ UNCHANGED <<proc, tasks, refresh, monitor, seen>>
    \/ /\ own.mode \in {"stopping", "cancelling"} /\ own.intent = "stop"
       /\ Join(r) /\ Waiting(r)
       /\ UNCHANGED <<proc, tasks, refresh, monitor, seen>>
    \/ /\ \/ own.mode \in {"none", "parked", "terminating"}
          \/ own.mode \in {"stopping", "cancelling"} /\ own.intent = "shutdown"
       /\ Decline(r)
       /\ UNCHANGED <<own, proc, tasks, refresh, monitor, seen>>

(* admit_restart.                                                            *)
AdmitRestart(r) ==
    \/ /\ own.mode \in {"running", "unresponsive"}
       /\ Stopping("restart", {r}) /\ Waiting(r)
       /\ UNCHANGED <<proc, seen>>
    \/ /\ own.mode = "stopping" /\ own.intent = "restart"
       /\ Join(r) /\ Waiting(r)
       /\ UNCHANGED <<proc, tasks, refresh, monitor, seen>>
    \/ /\ own.mode \notin {"running", "unresponsive"}
       /\ ~(own.mode = "stopping" /\ own.intent = "restart")
       /\ Decline(r)
       /\ UNCHANGED <<own, proc, tasks, refresh, monitor, seen>>

(* admit_shutdown with its requester, or Nobody for begin_external_shutdown, *)
(* which drops the receiver.  A parked transition's waiter is dropped.       *)
Shutdown(r) ==
    LET who == {r} \ {Nobody}
        Answered(others) ==
            [q \in Requests |-> IF q = r THEN "waiting"
                                ELSE IF q \in others THEN "declined" ELSE req[q]]
    IN \/ /\ own.mode \in {"running", "unresponsive", "parked"}
          /\ Stopping("shutdown", who)
          /\ req' = Answered({own.wait})
          /\ UNCHANGED proc
       \/ /\ own.mode = "launching"
          /\ Cancelling("shutdown", who)
          /\ req' = Answered(own.waiters)
          /\ UNCHANGED <<proc, tasks, refresh, monitor>>
       \/ /\ own.mode \in {"stopping", "cancelling"}
          /\ own.intent # "shutdown"
          /\ own' = [own EXCEPT !.intent = "shutdown", !.waiters = who]
          /\ req' = Answered(own.waiters)
          /\ UNCHANGED <<proc, tasks, refresh, monitor>>
       \/ /\ own.mode \in {"stopping", "cancelling"}
          /\ own.intent = "shutdown"
          /\ own' = [own EXCEPT !.waiters = @ \union who]
          /\ req' = Answered({})
          /\ UNCHANGED <<proc, tasks, refresh, monitor>>

AdmitShutdown(r) ==
    \/ /\ own.mode = "none"
       /\ req' = [req EXCEPT ![r] = "shutting_down"]
       /\ seen' = TRUE
       /\ UNCHANGED <<own, proc, tasks, refresh, monitor>>
    \/ Shutdown(r) /\ UNCHANGED seen

(* The external shutdown signal.                                             *)
ExternalShutdown ==
    /\ On /\ ~seen
    /\ seen' = TRUE
    /\ \/ own.mode = "none" /\ UNCHANGED <<own, req, proc, tasks, refresh, monitor>>
       \/ Shutdown(Nobody)
    /\ UNCHANGED <<latest, worker, events, faults, reports>>

(* admit_transition_stop for the attached runtime, or for the clean posture  *)
(* when none is attached: only an owned child is parked.                     *)
AdmitTransition(r) ==
    \/ /\ own.mode = "running" /\ own.child # 0
       /\ own' = [own EXCEPT !.mode = "parked", !.wait = r, !.expired = FALSE,
                      !.finishing = FALSE, !.linked = FALSE,
                      !.pending = FALSE, !.saved = "none"]
       /\ tasks' = tasks \union {Task("stop", own.child)}
       /\ monitor' = "off"
       /\ Waiting(r)
       /\ TakeToken
       /\ UNCHANGED <<proc, seen>>
    \/ /\ ~(own.mode = "running" /\ own.child # 0)
       /\ req' = [req EXCEPT ![r] = IF own.mode = "none" /\ own.phase = "ready"
                                    THEN "stopped" ELSE "declined"]
       /\ UNCHANGED <<own, proc, tasks, refresh, monitor, seen>>

(* admit_transition_observe, with or without a kill.                         *)
AdmitObserve(r, op) ==
    \/ /\ own.mode = "parked" /\ own.wait = Nobody
       /\ own' = [own EXCEPT !.wait = r, !.expired = FALSE]
       /\ proc' = IF op = "force" THEN Kill(own.child) ELSE proc
       /\ Waiting(r)
       /\ UNCHANGED <<tasks, refresh, monitor, seen>>
    \/ /\ ~(own.mode = "parked" /\ own.wait = Nobody)
       /\ req' = [req EXCEPT ![r] = IF own.mode = "none" THEN "stopped"
                                                        ELSE "declined"]
       /\ UNCHANGED <<own, proc, tasks, refresh, monitor, seen>>

(* handle: the next request is taken from the command channel.               *)
Admit(r) ==
    /\ On
    /\ req[r] = "unsent" /\ \A q \in 1..(r - 1) : req[q] # "unsent"
    /\ \/ "start" \in Ops[r] /\ AdmitStart(r)
       \/ /\ \/ "stop" \in Ops[r] /\ AdmitStop(r)
             \/ "restart" \in Ops[r] /\ AdmitRestart(r)
             \/ "shutdown" \in Ops[r] /\ AdmitShutdown(r)
             \/ "transition" \in Ops[r] /\ AdmitTransition(r)
             \/ \E op \in Ops[r] \cap {"observe", "force"} : AdmitObserve(r, op)
          /\ UNCHANGED faults
    /\ UNCHANGED <<latest, worker, events, reports>>

-----------------------------------------------------------------------------
(* Where an operation ends                                                   *)

(* The manager terminates: every waiter hears it, the child is retained, and *)
(* the owner's loop leaves.                                                  *)
Terminate(child, custody) ==
    /\ own' = [Idle(own.phase) EXCEPT !.mode = "terminating", !.child = child,
                   !.custody = custody]
    /\ req' = Answer(own.waiters \union {own.wait}, "declined")
    /\ seen' = TRUE
    /\ monitor' = "off"

\* A failed launch that only asks its child to stop.
EarlyReapAsked(p, reaped) == proc' = [proc EXCEPT ![p].stopping = TRUE]
(* terminate_early_child: the child is asked to stop, killed and awaited for *)
(* the reap deadline.                                                        *)
EarlyReap(p, reaped) ==
    proc' = [proc EXCEPT ![p] =
        IF reaped THEN Gone(@) ELSE [@ EXCEPT !.killed = TRUE]]

\* A failed launch whose operation is not cleared.
LaunchFailedKeeps ==
    /\ own' = [own EXCEPT !.mode = "none"]
    /\ req' = Answer(own.waiters, "declined")
\* A failed launch whose waiters are forgotten.
LaunchFailedSilently == own' = Idle(Phase(latest)) /\ UNCHANGED req
(* A failed launch: back to no runtime under the latest readiness.           *)
LaunchFailed ==
    /\ own' = Idle(Phase(latest))
    /\ req' = Answer(own.waiters, "declined")

(* resolve_cancel_without_child and abort_early_tasks: the cancelled launch  *)
(* leaves the manager where the launch began.                                *)
CancelDone ==
    /\ own' = Idle(own.origin)
    /\ req' = Answer(own.waiters, IF own.intent = "stop" THEN "stopped"
                                                         ELSE "shutting_down")
    /\ UNCHANGED <<seen, monitor>>

(* force_early_reap.                                                         *)
Forced(o) == [o EXCEPT !.term = "forced", !.expired = FALSE]
WithoutEarly(S) == {t \in S : ~(t.kind = "early" /\ t.proc = own.child)}
Aborted == {t \in tasks : t.proc # own.child}

-----------------------------------------------------------------------------
(* Completions                                                               *)

(* handle_custody_commit in a launch.                                        *)
LaunchCommitted(t) ==
    /\ own.mode = "launching" /\ own.attach = "committing" /\ own.child = t.proc
    /\ IF t.out = "err"
       THEN /\ \E reaped \in {TRUE, ~SlowReap} : EarlyReap(t.proc, reaped)
            /\ LaunchFailed
            /\ tasks' = tasks \ {t}
            /\ UNCHANGED <<seen, monitor>>
       ELSE /\ UNCHANGED proc
            /\ IF proc[t.proc].custody = "closed"
               THEN Terminate(t.proc, TRUE) /\ tasks' = tasks \ {t}
               ELSE /\ own' = [own EXCEPT !.custody = TRUE,
                                          !.attach = "handshaking"]
                    /\ tasks' = (tasks \ {t}) \union {Task("connect", t.proc)}
                    /\ UNCHANGED <<req, seen, monitor>>

(* handle_custody_commit in a cancellation.                                  *)
CancelCommitted(t) ==
    /\ own.mode = "cancelling" /\ own.attach = "committing" /\ own.child = t.proc
    /\ LET graceful == own.term # "forced"
           failed == t.out = "err"
           next == [own EXCEPT
                       !.custody = ~failed,
                       !.attach = IF ~failed /\ graceful THEN "handshaking"
                                                         ELSE "settled"]
       IN IF ~failed /\ proc[t.proc].custody = "closed"
          THEN /\ Terminate(t.proc, TRUE)
               /\ tasks' = tasks \ {t} /\ UNCHANGED proc
          ELSE IF Exited(t.proc)
          THEN /\ CancelDone
               /\ tasks' = Aborted /\ UNCHANGED proc
          ELSE /\ own' = IF failed /\ graceful THEN Forced(next) ELSE next
               /\ proc' = IF failed /\ graceful THEN Kill(t.proc) ELSE proc
               /\ tasks' = (tasks \ {t}) \union
                     (IF ~failed /\ graceful THEN {Task("connect", t.proc)} ELSE {})
               /\ UNCHANGED <<req, seen, monitor>>

(* handle_runtime_connected in a launch: the runtime is up, of this version  *)
(* or of another, which gets no link.                                        *)
LaunchConnected(t) ==
    /\ own.mode = "launching" /\ own.attach = "handshaking" /\ own.child = t.proc
    /\ tasks' = tasks \ {t}
    /\ IF CustodyClosed
       THEN Terminate(t.proc, TRUE) /\ UNCHANGED proc
       ELSE IF t.out = "err" \/ Exited(t.proc)
       THEN /\ \E reaped \in {TRUE, ~SlowReap} : EarlyReap(t.proc, reaped)
            /\ LaunchFailed /\ UNCHANGED <<seen, monitor>>
       ELSE /\ own' = [Idle(own.phase) EXCEPT !.mode = "running",
                           !.child = t.proc, !.custody = TRUE,
                           !.linked = t.out = "ok"]
            /\ monitor' = IF t.out = "ok" THEN "watch" ELSE "off"
            /\ req' = Answer(own.waiters, "started")
            /\ UNCHANGED <<proc, seen>>

(* handle_runtime_connected in a cancellation: the stop can now be asked.    *)
CancelConnected(t) ==
    /\ own.mode = "cancelling" /\ own.attach = "handshaking" /\ own.child = t.proc
    /\ IF Exited(t.proc)
       THEN CancelDone /\ tasks' = Aborted /\ UNCHANGED proc
       ELSE /\ UNCHANGED <<req, seen, monitor>>
            /\ LET settled == [own EXCEPT !.attach = "settled"]
                   ask == t.out # "err" /\ own.term = "awaiting"
                   force == t.out = "err" /\ own.term # "forced"
               IN /\ own' = IF force THEN Forced(settled)
                            ELSE IF ask THEN [settled EXCEPT !.term = "requesting"]
                            ELSE settled
                  /\ proc' = IF force THEN Kill(t.proc) ELSE proc
                  /\ tasks' = (tasks \ {t}) \union
                         (IF ask THEN {Task("early", t.proc)} ELSE {})

(* handle_early_stop_requested.                                              *)
EarlyStopRequested(t) ==
    /\ own.mode = "cancelling" /\ own.term = "requesting" /\ own.child = t.proc
    /\ own' = IF t.out = "err" THEN Forced(own)
                               ELSE [own EXCEPT !.term = "accepted"]
    /\ proc' = IF t.out = "err" THEN Kill(t.proc) ELSE proc
    /\ tasks' = tasks \ {t}
    /\ UNCHANGED <<req, seen, monitor>>

(* handle_stop_completion: the stop's document has been read.                *)
StopCompleted(t) ==
    /\ own.mode = "stopping" /\ own.child = Absent
    /\ UNCHANGED monitor
    /\ \E document \in Documents :
        /\ latest' = AfterDocument(document)
        /\ \/ /\ own.intent # "restart"
              /\ own' = Idle(PhaseOf(document))
              /\ req' = Answer(own.waiters, IF own.intent = "stop"
                                            THEN "stopped" ELSE "shutting_down")
              /\ seen' = (seen \/ own.intent = "shutdown")
              /\ tasks' = tasks \ {t}
              /\ UNCHANGED <<proc, refresh, faults>>
           \/ /\ own.intent = "restart" /\ PhaseOf(document) # "ready"
              /\ own' = Idle(PhaseOf(document))
              /\ req' = Answer(own.waiters, "declined")
              /\ tasks' = tasks \ {t}
              /\ UNCHANGED <<proc, refresh, seen, faults>>
           \/ /\ own.intent = "restart" /\ PhaseOf(document) = "ready"
              /\ Launch("restart", "ready", own.waiters, tasks \ {t})
              /\ UNCHANGED seen

(* The transition's document has been read: the owner settles into its       *)
(* no-runtime state and only then answers the parked caller.                 *)
TransitionStopped(t) ==
    /\ own.mode = "parked" /\ own.child = t.proc
    /\ \E document \in Documents :
        /\ latest' = AfterDocument(document)
        /\ own' = Idle(PhaseOf(document))
    /\ req' = Answer({own.wait}, "stopped")
    /\ tasks' = tasks \ {t}
    /\ UNCHANGED <<proc, refresh, seen, monitor, faults>>

Handles(t) ==
    CASE t.kind = "commit" ->
            own.mode \in {"launching", "cancelling"}
                /\ own.attach = "committing" /\ own.child = t.proc
      [] t.kind = "connect" ->
            own.mode \in {"launching", "cancelling"}
                /\ own.attach = "handshaking" /\ own.child = t.proc
      [] t.kind = "early" ->
            own.mode = "cancelling" /\ own.term = "requesting" /\ own.child = t.proc
      [] t.kind = "stopped" -> own.mode = "stopping" /\ own.child = Absent
      [] OTHER -> own.mode = "parked" /\ own.child = t.proc

(* handle_completion: a completion of an operation that has ended is dropped,*)
(* and a custody stream with it.                                             *)
Completion(t) ==
    /\ On /\ t.out # "run" /\ t.kind # "stop"
    /\ \/ /\ \/ t.kind = "commit" /\ (LaunchCommitted(t) \/ CancelCommitted(t))
             \/ t.kind = "connect" /\ (LaunchConnected(t) \/ CancelConnected(t))
             \/ t.kind = "early" /\ EarlyStopRequested(t)
          /\ UNCHANGED <<latest, refresh, faults>>
       \/ t.kind = "stopped" /\ StopCompleted(t)
       \/ t.kind = "parked" /\ TransitionStopped(t)
       \/ /\ ~Handles(t)
          /\ tasks' = tasks \ {t}
          /\ UNCHANGED <<own, latest, refresh, req, proc, seen, monitor, faults>>
    /\ UNCHANGED <<worker, events, reports>>

-----------------------------------------------------------------------------
(* The look at the process every 250 ms: observe_exit                        *)

(* observe_launching_handshake.                                              *)
PollLaunching ==
    /\ own.mode = "launching" /\ own.attach = "handshaking"
    /\ CustodyClosed \/ Exited(own.child)
    /\ IF CustodyClosed
       THEN Terminate(own.child, TRUE) /\ UNCHANGED tasks
       ELSE LaunchFailed /\ tasks' = Aborted /\ UNCHANGED <<seen, monitor>>
    /\ UNCHANGED <<latest, refresh, proc>>

(* request_document_refresh, unless an observation is still running.         *)
RequestRefresh == refresh' \in {refresh, "current"}
                    /\ (refresh # "none" => refresh' = refresh)

(* observe_managed_state, of a running or an unresponsive child.             *)
PollManaged ==
    /\ own.mode \in {"running", "unresponsive"}
    /\ \/ CustodyClosed /\ Terminate(own.child, TRUE) /\ UNCHANGED <<latest, refresh>>
       \/ /\ ~CustodyClosed /\ ChildExited
          /\ latest' = "unavailable" /\ own' = Idle("unavailable")
          /\ monitor' = "off"
          /\ RequestRefresh
          /\ UNCHANGED <<req, seen>>
    /\ UNCHANGED <<proc, tasks>>

(* observe_stopping: loss of custody first, then the exit, then the deadline,*)
(* which kills an owned child once and then gives up on it.                  *)
PollStopping ==
    /\ own.mode = "stopping" /\ own.child # Absent
    /\ \/ /\ CustodyClosed
          /\ Terminate(own.child, TRUE) /\ UNCHANGED <<proc, tasks>>
       \/ /\ ~CustodyClosed /\ ChildExited
          /\ own' = [own EXCEPT !.child = Absent, !.custody = FALSE]
          /\ tasks' = tasks \union
                {[kind |-> "stopped", proc |-> own.child, out |-> "ok"]}
          /\ UNCHANGED <<req, seen, proc, monitor>>
       \/ /\ ~CustodyClosed /\ ~ChildExited /\ own.expired
          /\ ~own.forced /\ own.child # 0
          /\ proc' = Kill(own.child)
          /\ own' = [own EXCEPT !.forced = TRUE, !.expired = FALSE]
          /\ UNCHANGED <<req, seen, tasks, monitor>>
       \/ /\ ~CustodyClosed /\ ~ChildExited /\ own.expired
          /\ own.forced \/ own.child = 0
          /\ own' = [Idle(own.phase) EXCEPT !.mode = "unresponsive",
                         !.child = own.child, !.custody = TRUE]
          /\ req' = Answer(own.waiters, "declined")
          /\ UNCHANGED <<seen, proc, tasks, monitor>>
    /\ UNCHANGED <<latest, refresh>>

(* observe_transition_pending: the exit first, then custody, then the        *)
(* caller's window, which never kills.                                       *)
PollParked ==
    /\ own.mode = "parked"
    /\ \/ /\ ChildExited /\ ~own.finishing
          /\ own' = [own EXCEPT !.finishing = TRUE]
          /\ tasks' = tasks \union
                {[kind |-> "parked", proc |-> own.child, out |-> "ok"]}
          /\ UNCHANGED <<req, seen, monitor>>
       \/ /\ ~ChildExited /\ CustodyClosed
          /\ Terminate(own.child, TRUE) /\ UNCHANGED tasks
       \/ /\ ~ChildExited /\ ~CustodyClosed
          /\ own.wait # Nobody /\ own.expired
          /\ own' = [own EXCEPT !.wait = Nobody, !.expired = FALSE]
          /\ req' = Answer({own.wait}, "declined")
          /\ UNCHANGED <<seen, tasks, monitor>>
    /\ UNCHANGED <<latest, refresh, proc>>

(* observe_early_cancellation.  A task seen finished before its completion   *)
(* was received is taken first, so that completion finds its stage settled   *)
(* and is dropped.                                                           *)
PollCancelling ==
    /\ own.mode = "cancelling"
    /\ \/ /\ CustodyClosed
          /\ Terminate(own.child, TRUE) /\ UNCHANGED <<proc, tasks>>
       \/ /\ ~CustodyClosed /\ Exited(own.child)
          /\ CancelDone /\ tasks' = Aborted /\ UNCHANGED proc
       \/ /\ ~CustodyClosed /\ ~Exited(own.child)
          /\ \E t \in tasks :
                /\ t.proc = own.child /\ t.out # "run" /\ Handles(t)
                /\ tasks' = tasks \ {t}
                /\ own' = IF t.kind = "early"
                          THEN [own EXCEPT !.term = "accepted"]
                          ELSE [own EXCEPT !.attach = "settled"]
          /\ UNCHANGED <<req, seen, proc, monitor>>
       \/ /\ ~CustodyClosed /\ ~Exited(own.child) /\ own.expired
          /\ own.term # "forced"
          /\ own' = Forced(own) /\ proc' = Kill(own.child)
          /\ tasks' = WithoutEarly(tasks)
          /\ UNCHANGED <<req, seen, monitor>>
       \/ /\ ~CustodyClosed /\ ~Exited(own.child) /\ own.expired
          /\ own.term = "forced"
          /\ Terminate(own.child, own.custody) /\ UNCHANGED <<proc, tasks>>
    /\ UNCHANGED <<latest, refresh>>

Poll ==
    /\ On
    /\ PollLaunching \/ PollManaged \/ PollStopping \/ PollParked \/ PollCancelling
    /\ UNCHANGED <<worker, events, faults, reports>>

(* terminate_for_worker: finished commits are folded in, and the child is    *)
(* retained unless its exit is known and its custody is not closed.          *)
WorkerExit ==
    /\ On /\ worker
    /\ faults < MaxFaults /\ faults' = faults + 1
    /\ worker' = FALSE
    /\ LET committed == own.attach = "committing" /\
               [kind |-> "commit", proc |-> own.child, out |-> "ok"] \in tasks
           managed == own.mode \in {"running", "unresponsive", "stopping", "parked"}
       IN Terminate(IF managed /\ ~CustodyClosed /\ own.child # Absent /\ ChildExited
                    THEN Absent ELSE own.child,
                    own.custody \/ committed)
    /\ UNCHANGED <<latest, refresh, proc, tasks, events, reports>>

-----------------------------------------------------------------------------
(* Readiness, configuration and the runtime link                             *)

(* apply_readiness.                                                          *)
Readiness(report) ==
    /\ latest' = report
    /\ own' = IF own.mode = "none" THEN Idle(Phase(report)) ELSE own
    /\ UNCHANGED refresh

(* apply_readiness_unavailable.                                              *)
ReadinessUnavailable ==
    /\ latest' = "unavailable"
    /\ own' = IF own.mode = "none" /\ own.phase # "unconfigured"
              THEN Idle("unavailable") ELSE own
    /\ UNCHANGED refresh

\* A change recorded in the phase shown alone.
ConfigChangedShown ==
    \/ own.mode = "none" /\ RequestRefresh /\ UNCHANGED <<own, latest>>
    \/ /\ own.mode = "running" /\ own.linked
       /\ own' = [own EXCEPT !.pending = TRUE]
       /\ UNCHANGED <<latest, refresh>>
(* apply_config_change: a document refresh without a runtime, a pending      *)
(* restart with one, in the phase shown and in the phase the link restores.  *)
ConfigChanged ==
    \/ own.mode = "none" /\ RequestRefresh /\ UNCHANGED <<own, latest>>
    \/ /\ own.mode = "running" /\ own.linked
       /\ own' = [own EXCEPT !.pending = TRUE,
                             !.saved = IF @ = "none" THEN @ ELSE "pending"]
       /\ UNCHANGED <<latest, refresh>>

Report ==
    /\ On
    /\ reports < MaxReports /\ reports' = reports + 1
    /\ \/ \E report \in {"clear", "blocked"} : Readiness(report)
       \/ ReadinessUnavailable
       \/ ConfigChanged
    /\ UNCHANGED <<seen, worker, req, proc, tasks, monitor, events, faults>>

(* A document read answers: it counts only if no token was taken since.      *)
DocumentRead ==
    /\ On /\ refresh # "none" /\ refresh' = "none"
    /\ IF refresh = "current" /\ own.mode = "none"
       THEN \E document \in Documents :
              latest' = AfterDocument(document) /\ own' = Idle(PhaseOf(document))
       ELSE UNCHANGED <<latest, own>>
    /\ UNCHANGED <<seen, worker, req, proc, tasks, monitor, events, faults, reports>>

(* monitor_runtime_link: the channel is seen closed, reconnected or given up.*)
(* The event of giving up only rewords the phase shown.                      *)
Monitor ==
    /\ On /\ own.child \in Procs
    /\ LET p == own.child
           Send(what) == /\ Len(events) < EventCapacity
                         /\ events' = Append(events, [proc |-> p, what |-> what])
       IN \/ /\ monitor = "watch" /\ proc[p].control = "closed"
             /\ Send("lost") /\ monitor' = "lost" /\ UNCHANGED proc
          \/ /\ monitor = "lost" /\ Alive(p) /\ ~proc[p].stopping
             /\ proc' = [proc EXCEPT ![p].control = "open"]
             /\ Send("restored") /\ monitor' = "watch"
          \/ monitor = "lost" /\ monitor' = "off" /\ UNCHANGED <<proc, events>>
    /\ UNCHANGED <<own, latest, seen, worker, req, tasks, refresh, faults, reports>>

(* handle_runtime_link_event, fenced by the link's generation.               *)
LinkEvent ==
    /\ On /\ events # <<>>
    /\ events' = Tail(events)
    /\ LET e == Head(events)
           held == own.mode = "running" /\ own.linked /\ own.child = e.proc
       IN own' = IF held /\ e.what = "lost" /\ own.saved = "none"
                 THEN [own EXCEPT !.saved = IF own.pending THEN "pending"
                                                           ELSE "clean"]
                 ELSE IF held /\ e.what = "restored"
                 THEN [own EXCEPT !.pending = own.saved = "pending",
                                  !.saved = "none"]
                 ELSE own
    /\ UNCHANGED <<latest, seen, worker, req, proc, tasks, refresh, monitor,
                   faults, reports>>

-----------------------------------------------------------------------------
(* The runtime and the clock (external)                                      *)

Fault == faults < MaxFaults /\ faults' = faults + 1
Serves(p) == Alive(p) /\ ~proc[p].stopping /\ ~proc[p].killed
Ends(t, out) == tasks' = (tasks \ {t}) \union {[t EXCEPT !.out = out]}

(* commit_custody, the control handshake and the early stop run to their end.*)
TaskRuns(t) ==
    /\ On /\ t.out = "run" /\ t.kind # "stop"
    /\ \/ /\ Serves(t.proc) /\ Ends(t, "ok")
          /\ proc' = [proc EXCEPT ![t.proc] =
                CASE t.kind = "commit" -> [@ EXCEPT !.custody = "open"]
                  [] t.kind = "connect" -> [@ EXCEPT !.control = "open"]
                  [] OTHER -> [@ EXCEPT !.stopping = TRUE]]
          /\ UNCHANGED faults
       \/ /\ Serves(t.proc) /\ t.kind = "connect" /\ Fault /\ Ends(t, "old")
          /\ proc' = [proc EXCEPT ![t.proc].control = "open"]
       \/ /\ Ends(t, "err") /\ UNCHANGED proc
          /\ IF Serves(t.proc) THEN Fault ELSE UNCHANGED faults
    /\ UNCHANGED <<own, latest, seen, worker, req, refresh, monitor, events, reports>>

(* The stop request of begin_stop_state reaches the runtime or is refused.   *)
StopRequest(t) ==
    /\ On /\ t.kind = "stop" /\ tasks' = tasks \ {t}
    /\ \/ /\ Alive(t.proc) /\ proc[t.proc].control = "open"
          /\ proc' = [proc EXCEPT ![t.proc].stopping = TRUE]
          /\ UNCHANGED faults
       \/ /\ UNCHANGED proc
          /\ IF Alive(t.proc) /\ proc[t.proc].control = "open"
             THEN Fault ELSE UNCHANGED faults
    /\ UNCHANGED <<own, latest, seen, worker, req, refresh, monitor, events, reports>>

(* A process exits: killed, stopping, or on its own.  Its streams close with *)
(* it, and a stopping process may close each of them before.  What becomes   *)
(* of a process the owner has let go is out of its sight.                    *)
Exits(p) ==
    /\ On /\ Alive(p) /\ own.child = p
    /\ IF proc[p].killed \/ proc[p].stopping THEN UNCHANGED faults ELSE Fault
    /\ \/ proc' = [proc EXCEPT ![p] = Gone(@)]
       \/ proc[p].stopping /\ proc[p].custody = "open"
            /\ proc' = [proc EXCEPT ![p].custody = "closed"]
       \/ proc[p].stopping /\ proc[p].control = "open"
            /\ proc' = [proc EXCEPT ![p].control = "closed"]
    /\ UNCHANGED <<own, latest, seen, worker, req, tasks, refresh, monitor,
                   events, reports>>

(* The runtime begins to stop on its own, or a control channel drops.        *)
Disturbed(p) ==
    /\ On /\ Serves(p) /\ own.child = p /\ Fault
    /\ \/ proc' = [proc EXCEPT ![p].stopping = TRUE]
       \/ /\ ControlLoss /\ proc[p].control = "open"
          /\ proc' = [proc EXCEPT ![p].control = "closed"]
    /\ UNCHANGED <<own, latest, seen, worker, req, tasks, refresh, monitor,
                   events, reports>>

(* A deadline or a caller's window passes.                                   *)
Expire ==
    /\ On /\ ~own.expired
    /\ \/ own.mode \in {"stopping", "cancelling"}
       \/ own.mode = "parked" /\ own.wait # Nobody
    /\ own' = [own EXCEPT !.expired = TRUE]
    /\ UNCHANGED <<latest, seen, worker, req, proc, tasks, refresh, monitor,
                   events, faults, reports>>

-----------------------------------------------------------------------------
(* spawn: from the document, or attached to a recovered runtime.             *)
Init ==
    /\ latest \in Seeds
    /\ \E origin \in Origins, linked \in BOOLEAN :
        IF origin = "none"
        THEN /\ own = Idle(Phase(latest)) /\ monitor = "off"
             /\ proc = [p \in Procs |-> Unborn]
        ELSE /\ own = [Idle("ready") EXCEPT !.mode = "running", !.child = 0,
                           !.custody = TRUE, !.linked = linked]
             /\ monitor = IF linked THEN "watch" ELSE "off"
             /\ proc = [p \in Procs |-> IF p = 0
                          THEN [life |-> "alive", custody |-> "open",
                                control |-> "open", stopping |-> FALSE,
                                killed |-> FALSE]
                          ELSE Unborn]
    /\ seen = FALSE /\ worker = TRUE
    /\ req = [r \in Requests |-> "unsent"]
    /\ tasks = {} /\ refresh = "none" /\ events = <<>>
    /\ faults = 0 /\ reports = 0

Owner == \/ \E t \in tasks : Completion(t)
         \/ Poll \/ LinkEvent \/ DocumentRead
World == \/ \E t \in tasks : TaskRuns(t) \/ StopRequest(t)
         \/ \E p \in Procs : Exits(p) \/ Disturbed(p)
         \/ Monitor \/ Expire

Next == \/ \E r \in Requests : Admit(r)
        \/ ExternalShutdown \/ WorkerExit \/ Report
        \/ Owner \/ World

Spec == Init /\ [][Next]_vars

(* The owner's loop is never starved, a spawned task ends within its own     *)
(* deadline, and time passes.  A process need not exit when told to.         *)
Fairness ==
    /\ WF_vars(\E t \in tasks : Completion(t))
    /\ WF_vars(Poll)
    /\ WF_vars(\E t \in tasks : TaskRuns(t))
    /\ WF_vars(Expire)
FairSpec == Spec /\ Fairness

-----------------------------------------------------------------------------
(* Properties                                                                *)

Answers == {"unsent", "waiting", "declined", "started", "stopped",
            "shutting_down"}

(* Every waiter is held by an operation that can still answer it, and the    *)
(* owner's state is one of LifecycleState's.                                 *)
TypeOK ==
    /\ own.mode \in {"none", "running", "launching", "stopping", "cancelling",
                     "parked", "unresponsive", "terminating"}
    /\ own.phase \in {"ready", "unconfigured", "unavailable"}
    /\ own.child \in Procs \union {Absent}
    /\ own.waiters \subseteq Requests /\ own.wait \in Requests \union {Nobody}
    /\ own.mode \in {"none", "running", "unresponsive", "terminating"} =>
            own.waiters = {} /\ own.wait = Nobody
    /\ own.mode \in {"running", "unresponsive", "launching", "cancelling",
                     "parked"} => own.child # Absent
    /\ latest \in {"clear", "blocked", "unavailable"}
    /\ \A r \in Requests : req[r] \in Answers
    /\ \A t \in tasks : t.proc \in Procs /\ t.out \in {"run", "ok", "err", "old"}

(* A runtime this manager spawned is never lost sight of: while its process  *)
(* lives, the owner's state holds it as its child, through failed launches,  *)
(* cancellations, stops and termination; so no second runtime is spawned     *)
(* beside it.                                                                *)
LiveLaunchHeld == \A p \in Launches : Alive(p) => own.child = p

(* The same of a recovered runtime.                                          *)
LiveRuntimeHeld == \A p \in Procs : Alive(p) => own.child = p

(* An answer is true when it is given: a client told that the runtime        *)
(* stopped, quiesced or exited finds no spawned runtime alive and an owner   *)
(* that can admit a start; one told that it started finds it attached, with  *)
(* custody; and nobody is told twice.                                        *)
AnswersTrue ==
    [][\A r \in Requests :
         req'[r] # req[r] =>
           /\ req[r] \in {"unsent", "waiting"}
           /\ req'[r] = "stopped" =>
                /\ own'.mode = "none"
                /\ \A p \in Launches : proc'[p].life # "alive"
           /\ req'[r] = "started" =>
                own'.mode = "running" /\ own'.custody /\ Alive(own'.child)]_vars

(* A configuration change seen by a running runtime stays pending until that *)
(* runtime is replaced, across the loss and the restoration of its link.     *)
RestartPendingKept ==
    [][own.mode = "running" /\ own.pending /\ own'.mode = "running"
         => own'.pending]_vars

(* Every request the owner has taken is answered.                            *)
RequestsAnswered ==
    \A r \in Requests : req[r] = "waiting" ~> req[r] # "waiting"

(* A client told that the manager is shutting down is told by a manager that *)
(* will leave its loop.                                                      *)
ShutdownHeard ==
    \A r \in Requests : req[r] = "shutting_down" => seen
=============================================================================
