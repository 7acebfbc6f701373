------------------------------ MODULE TurnLoop ------------------------------
(* The built-in turn loop of tribal-agent-runtime (turn_loop.rs): one stage  *)
(* thread, its append-only record log, and the attempts that drive it in     *)
(* turn.  An attempt reads the log once, keeps its model-facing reading in   *)
(* memory as it commits, and is re-derived from the log by its successor     *)
(* after any failure, suspension or lost lease.  Failures are not bounded:   *)
(* the retry accounting of Disposition has to bound them.                    *)
EXTENDS Disposition, Sequences, FiniteSets, FiniteSetsExt

CONSTANTS
    Slots,         \* executions of the loop, over all worker processes
    Batches,       \* the tool calls one assistant message may carry, in order
    MaxTurns,      \* budgets.max_turns
    MaxLaunches,   \* budgets.max_child_launches
    RecheckBound,  \* RecheckPolicy.bound
    None

ASSUME LoopAssumption ==
    /\ None \notin Slots
    /\ \A b \in Batches : b \in Seq({"tool", "submit"})
    /\ MaxTurns \in Nat /\ MaxLaunches \in Nat /\ RecheckBound \in Nat

VARIABLES
    log,       \* the thread's committed records
    thread,    \* its agent_threads row: status, cancellation intent, recoveries
    task,      \* the driving tasks row: status, claim and retry_count
    loop       \* the attempt in each slot

vars == <<log, thread, task, loop>>

ThreadTerminal == {"completed", "cancelled", "dead_letter"}

-----------------------------------------------------------------------------
(* The records, and what the loop reads from them.                          *)

Opening == [kind |-> "opening"]
Assistant(calls) == [kind |-> "assistant", calls |-> calls]
Result(turn, call, verdict) ==
    [kind |-> "result", turn |-> turn, call |-> call, verdict |-> verdict]
Suspension(why, count) == [kind |-> "suspension", why |-> why, count |-> count]
Wake(count) == [kind |-> "wake", count |-> count]
Drift == [kind |-> "drift"]
Submission(turn, call) == [kind |-> "submission", turn |-> turn, call |-> call]

Of(kind) == {i \in DOMAIN log : log[i].kind = kind}

\* The record of the last assistant message, 0 before the first.
LastTurn == Max(Of("assistant") \cup {0})

\* The results committed for the calls of the message at seq.
ResultsOf(seq) == {i \in Of("result") : log[i].turn = seq}

Unanswered(seq) == DOMAIN log[seq].calls \ {log[i].call : i \in ResultsOf(seq)}

\* Verdicts on the last message's submission that no drift input disposed of.
OpenVerdicts ==
    {i \in ResultsOf(LastTurn) : /\ log[i].verdict \in {"accept", "reject"}
                                 /\ \A j \in Of("drift") : j < i}

\* A reading of the log: the turns, the last message and its unanswered calls
\* (the tail), the verdict to dispose of (0 for none), the recheck count of a
\* trailing budget wake (0 for none, count + 1 otherwise), the launches.
project ==
    [turns |-> Cardinality(Of("assistant")),
     seq |-> LastTurn,
     tail |-> IF LastTurn = 0 THEN {} ELSE Unanswered(LastTurn),
     resolved |-> Max(OpenVerdicts \cup {0}),
     carried |-> IF Len(log) > 0 /\ log[Len(log)].kind = "wake"
                 THEN log[Len(log)].count + 1 ELSE 0,
     launches |-> Cardinality({i \in Of("suspension") : log[i].why = "child"})]

NoReading == [turns |-> 0, seq |-> 0, tail |-> {}, resolved |-> 0,
              carried |-> 0, launches |-> 0]

Idle == [pc |-> "idle", retry |-> 0, read |-> NoReading, call |-> 0]

-----------------------------------------------------------------------------
(* Claims.                                                                  *)

HoldsClaim(p) == task.status = "claimed" /\ task.token = p

\* A row given up with its token left on it.
ReleaseKeepsToken(s, n) == task' = [task EXCEPT !.status = s, !.retry = n]

Release(s, n) == task' = [status |-> s, token |-> None, retry |-> n]

Claim(p) ==
    /\ loop[p].pc = "idle" /\ task.status = "queued"
    /\ task' = [task EXCEPT !.status = "claimed", !.token = p]
    /\ loop' = [loop EXCEPT ![p] = [Idle EXCEPT !.pc = "entry",
                                                !.retry = task.retry]]
    /\ UNCHANGED <<log, thread>>

\* One record committed under the claim, which also resets the row's retry
\* count (reset_progress).
Append1(p, r) ==
    /\ HoldsClaim(p)
    /\ log' = Append(log, r)
    /\ task' = [task EXCEPT !.retry = AfterProgress]
    /\ UNCHANGED thread

\* The attempt goes on at pc with reading r.
Continue(p, pc, r) ==
    loop' = [loop EXCEPT ![p] = [@ EXCEPT !.pc = pc, !.read = r, !.call = 0]]

\* The head of run_turn_loop_inner: only a log without an opening takes one
\* (begin_turn, under the claim, without a progress reset), then the log is
\* projected.
Enter(p) ==
    /\ loop[p].pc = "entry"
    /\ \/ /\ Of("opening") # {}
          /\ Continue(p, "top", project)
          /\ UNCHANGED log
       \/ /\ Of("opening") = {} /\ HoldsClaim(p)
          /\ log' = Append(log, Opening)
          /\ Continue(p, "top", NoReading)
    /\ UNCHANGED <<thread, task>>

-----------------------------------------------------------------------------
(* One pass of the loop, in the order it tests.                             *)

AtTop(p) == loop[p].pc = "top"
HasVerdict(p) == loop[p].read.resolved # 0
HasTail(p) == loop[p].read.tail # {}

Consumed(p) == [loop[p].read EXCEPT !.resolved = 0]

\* resolve_verdict, rejected: the critique is already in the conversation.
RejectVerdict(p) ==
    /\ AtTop(p) /\ HasVerdict(p)
    /\ log[loop[p].read.resolved].verdict = "reject"
    /\ Continue(p, "top", Consumed(p))
    /\ UNCHANGED <<log, thread, task>>

\* The loop is done with the submission in call c.
Accept(p, c) == loop' = [loop EXCEPT ![p] = [@ EXCEPT !.pc = "submitting", !.call = c]]

\* A verdict taken for an acceptance because it arrived.
AcceptAnyVerdict(p) ==
    /\ AtTop(p) /\ HasVerdict(p)
    /\ Accept(p, log[loop[p].read.resolved].call)
    /\ UNCHANGED <<log, thread, task>>

\* resolve_verdict, accepted, and the validators still agree.
AcceptVerdict(p) ==
    /\ AtTop(p) /\ HasVerdict(p)
    /\ log[loop[p].read.resolved].verdict = "accept"
    /\ Accept(p, log[loop[p].read.resolved].call)
    /\ UNCHANGED <<log, thread, task>>

\* A drift that is told to the model and not committed.
DriftUncommitted(p) ==
    /\ AtTop(p) /\ HasVerdict(p)
    /\ log[loop[p].read.resolved].verdict = "accept"
    /\ Continue(p, "top", Consumed(p))
    /\ UNCHANGED <<log, thread, task>>

\* resolve_verdict, accepted, but the graph has moved: commit_drift_input.
DriftVerdict(p) ==
    /\ AtTop(p) /\ HasVerdict(p)
    /\ log[loop[p].read.resolved].verdict = "accept"
    /\ Append1(p, Drift)
    /\ Continue(p, "top", Consumed(p))

\* execute_batch takes the tail in call order.
AtCall(p, kind) ==
    /\ AtTop(p) /\ ~HasVerdict(p) /\ HasTail(p)
    /\ log[loop[p].read.seq].calls[Min(loop[p].read.tail)] = kind

\* A committed result, mirrored in memory; the fence admits one per call.
CommitResult(p) ==
    LET c == Min(loop[p].read.tail)
        seq == loop[p].read.seq
    IN  /\ c \in Unanswered(seq)
        /\ Append1(p, Result(seq, c, "none"))
        /\ Continue(p, "top", [loop[p].read EXCEPT !.tail = @ \ {c}])

\* execute_ordinary: a result or a rendered failure, either way a record.
ExecuteTool(p) == AtCall(p, "tool") /\ CommitResult(p)

\* handle_submission: bounced by the validators, diagnostics as the result.
BounceSubmission(p) == AtCall(p, "submit") /\ CommitResult(p)

\* handle_submission: accepted, and no verifier is bound or none is left.
SubmitUnverified(p) ==
    /\ AtCall(p, "submit")
    /\ loop[p].read.launches >= MaxLaunches
    /\ Accept(p, Min(loop[p].read.tail))
    /\ UNCHANGED <<log, thread, task>>

\* The attempt ends its thread and its task, under its claim.
EndThread(p, s, t) ==
    /\ HoldsClaim(p)
    /\ thread' = [thread EXCEPT !.status = s]
    /\ Release(t, task.retry)
    /\ loop' = [loop EXCEPT ![p] = Idle]

\* dispose_intervened, at a boundary that met the intent.
Cancel(p) == EndThread(p, "cancelled", "dead_letter") /\ UNCHANGED log

\* A budget failure is terminal.
FailForGood(p) == EndThread(p, "dead_letter", "dead_letter") /\ UNCHANGED log

\* The thread suspends and gives the claim up, unless an intent got there
\* first: then the attempt disposes of the thread.
Suspend(p, r) ==
    /\ HoldsClaim(p) /\ thread.status = "running"
    /\ \/ thread.intent /\ Cancel(p)
       \/ /\ ~thread.intent
          /\ log' = Append(log, r)
          /\ thread' = [thread EXCEPT !.status = "suspended"]
          /\ Release("blocked", task.retry)
          /\ loop' = [loop EXCEPT ![p] = Idle]

\* launch_verifier.
LaunchVerifier(p) ==
    /\ AtCall(p, "submit")
    /\ loop[p].read.launches < MaxLaunches
    /\ Suspend(p, Suspension("child", 0))

\* A boundary that forgets the calls left unanswered beside a verdict.
AtBoundaryAnyTail(p) == AtTop(p) /\ ~HasVerdict(p)

AtBoundary(p) == AtTop(p) /\ ~HasVerdict(p) /\ ~HasTail(p)

\* The turn boundary reads the intent, the cap and the ledger in one pass; an
\* intent that lands within it is met by the suspension or the next boundary.
Cancelled(p) == AtBoundary(p) /\ thread.intent /\ Cancel(p)

\* A cap compared as if the turn were already counted.
WithinCapLate(p) == AtBoundary(p) /\ ~thread.intent /\ loop[p].read.turns <= MaxTurns

WithinCap(p) == AtBoundary(p) /\ ~thread.intent /\ loop[p].read.turns < MaxTurns

\* The turn cap, or the execution deadline.
CapOrDeadline(p) == AtBoundary(p) /\ ~thread.intent /\ FailForGood(p)

Admit(p) ==
    /\ WithinCap(p)
    /\ Continue(p, "calling", [loop[p].read EXCEPT !.carried = 0])
    /\ UNCHANGED <<log, thread, task>>

\* decide_admission on a spent ledger: the first suspension counts 0, a wake
\* counts one more, and the bound fails the thread.
Exhaust(p) ==
    LET count == loop[p].read.carried IN
    /\ WithinCap(p)
    /\ \/ count > 0 /\ count >= RecheckBound /\ FailForGood(p)
       \/ /\ count = 0 \/ count < RecheckBound
          /\ Suspend(p, Suspension("budget", count))

\* The streamed call ends and its turn commits (commit_assistant_turn).
CommitTurn(p, calls) ==
    /\ loop[p].pc = "calling"
    /\ Append1(p, Assistant(calls))
    /\ Continue(p, "top", [loop[p].read EXCEPT !.turns = @ + 1,
                              !.seq = Len(log) + 1, !.tail = DOMAIN calls])

-----------------------------------------------------------------------------
(* How an attempt ends.                                                     *)

\* The stage's commit, with commit_loop_terminal in its transaction.
CommitTerminal(p) ==
    /\ loop[p].pc = "submitting" /\ thread.status = "running"
    /\ EndThread(p, "completed", "completed")
    /\ log' = Append(log, Submission(loop[p].read.seq, loop[p].call))

\* A reclaim that gives every attempt its claim back for free.
ChargeNothing(n) ==
    /\ Release("queued", n)
    /\ UNCHANGED thread

\* A retryable failure with the counters n and thread.recovery.
Charge(n) ==
    LET d == decide_disposition("retryable", n, thread.recovery) IN
    \/ /\ d.kind \in {"requeue", "recovery_cycle"}
       /\ Release("queued", d.retry)
       /\ thread' = [thread EXCEPT !.recovery = d.recovery]
    \/ /\ d.kind = "exhaust"
       /\ Release("dead_letter", n)
       /\ thread' = [thread EXCEPT !.status = "dead_letter"]

\* A provider fault, a tool's system failure or a database error: the inline
\* failure path, with the count the claim returned.
Fail(p) ==
    /\ loop[p].pc # "idle" /\ HoldsClaim(p)
    /\ Charge(loop[p].retry)
    /\ loop' = [loop EXCEPT ![p] = Idle]
    /\ UNCHANGED log

\* Any guarded write of an attempt that lost its claim: nothing is written.
LeaseLost(p) ==
    /\ loop[p].pc # "idle" /\ ~HoldsClaim(p)
    /\ loop' = [loop EXCEPT ![p] = Idle]
    /\ UNCHANGED <<log, thread, task>>

\* The process dies; the claim stays on the row.
Crash(p) ==
    /\ loop[p].pc # "idle"
    /\ loop' = [loop EXCEPT ![p] = Idle]
    /\ UNCHANGED <<log, thread, task>>

\* The heartbeat of the claim lapses, its attempt dead or merely stalled, and
\* the reclaim sweep disposes of the row.
Reclaim ==
    /\ task.status = "claimed"
    /\ Charge(task.retry)
    /\ UNCHANGED <<log, loop>>

Abandoned == task.status = "claimed" /\ loop[task.token].pc = "idle"

-----------------------------------------------------------------------------
(* What resolves a suspended thread, and cancellation.                      *)

\* The suspension the thread waits in is the log's last record.
WaitsOn(why) == thread.status = "suspended" /\ log[Len(log)].why = why

Resolve(r) ==
    /\ log' = Append(log, r)
    /\ thread' = [thread EXCEPT !.status = "running"]
    /\ Release("queued", task.retry)
    /\ UNCHANGED loop

\* The child's hand-back: a verdict, an unreadable one, or its death.
HandBack(verdict) ==
    /\ WaitsOn("child")
    /\ \E c \in Unanswered(LastTurn) :
          /\ log[LastTurn].calls[c] = "submit"
          /\ \A b \in Unanswered(LastTurn) : c <= b
          /\ Resolve(Result(LastTurn, c, verdict))

\* sweep_timer_wakes carries the suspension's count.
TimerWake == WaitsOn("budget") /\ Resolve(Wake(log[Len(log)].count))

RequestCancel ==
    /\ thread.status \notin ThreadTerminal /\ ~thread.intent
    /\ thread' = [thread EXCEPT !.intent = TRUE]
    /\ UNCHANGED <<log, task, loop>>

\* The cancel fallback, on a row nobody holds.
CancelSweep ==
    /\ thread.intent /\ task.status \in {"queued", "blocked"}
    /\ thread' = [thread EXCEPT !.status = "cancelled"]
    /\ Release("dead_letter", task.retry)
    /\ UNCHANGED <<log, loop>>

-----------------------------------------------------------------------------
Init ==
    /\ log = <<>>
    /\ thread = [status |-> "running", intent |-> FALSE, recovery |-> 0]
    /\ task = [status |-> "queued", token |-> None, retry |-> 0]
    /\ loop = [p \in Slots |-> Idle]

Step(p) ==
    \/ Claim(p) \/ Enter(p)
    \/ RejectVerdict(p) \/ AcceptVerdict(p) \/ DriftVerdict(p)
    \/ ExecuteTool(p) \/ BounceSubmission(p) \/ SubmitUnverified(p)
    \/ LaunchVerifier(p) \/ Cancelled(p) \/ CapOrDeadline(p) \/ Admit(p)
    \/ Exhaust(p) \/ (\E calls \in Batches : CommitTurn(p, calls))
    \/ CommitTerminal(p) \/ Fail(p) \/ LeaseLost(p)

Next ==
    \/ \E p \in Slots : Step(p) \/ Crash(p)
    \/ Reclaim \/ TimerWake \/ RequestCancel \/ CancelSweep
    \/ \E v \in {"accept", "reject", "none"} : HandBack(v)

Spec == Init /\ [][Next]_vars

\* Every attempt keeps stepping, an abandoned claim is reclaimed, and what
\* resolves a suspension comes; no failure is promised to stop.
FairSpec ==
    /\ Spec
    /\ \A p \in Slots : WF_vars(Step(p))
    /\ WF_vars(Abandoned /\ Reclaim)
    /\ WF_vars(TimerWake) /\ WF_vars(CancelSweep)
    /\ WF_vars(\E v \in {"accept", "reject", "none"} : HandBack(v))

-----------------------------------------------------------------------------
\* Rows and attempts have their types, and the claim follows the status.
TypeOK ==
    /\ thread \in [status : ThreadTerminal \cup {"running", "suspended"},
                   intent : BOOLEAN, recovery : 0..RecoveryCap]
    /\ task \in [status : {"queued", "claimed", "blocked", "completed", "dead_letter"},
                 token : Slots \cup {None}, retry : 0..MaxRetries]
    /\ task.status = "claimed" <=> task.token # None
    /\ thread.status = "suspended" <=> task.status = "blocked"
    /\ \A p \in Slots :
          /\ loop[p].pc \in {"idle", "entry", "top", "calling", "submitting"}
          /\ loop[p].retry \in 0..MaxRetries
          /\ loop[p].call \in Nat

\* The reading the claim's holder keeps in memory is the one its successor
\* would derive from the log: the loop is a re-derivation and never depends on
\* what only the dead attempt knew.  A verdict it has already disposed of and
\* the log has not is a rejection, which a successor disposes of the same way.
ReadingIsLog ==
    \A p \in Slots :
        HoldsClaim(p) /\ loop[p].pc = "top" =>
            LET fresh == project IN
            \/ loop[p].read = fresh
            \/ /\ loop[p].read = [fresh EXCEPT !.resolved = 0]
               /\ log[fresh.resolved].verdict = "reject"

\* Whatever the crashes, the conversation the provider sees is well formed:
\* every call of an assistant message has exactly one result before the next
\* message (a provider refuses a dangling or doubled tool call).
ConversationWellFormed ==
    \A t \in Of("assistant") :
        LET results == ResultsOf(t)
            later == {u \in Of("assistant") : u > t}
        IN  /\ \A i, j \in results : log[i].call = log[j].call => i = j
            /\ later # {} => \A c \in DOMAIN log[t].calls :
                  \E i \in results : log[i].call = c /\ \A u \in later : i < u

\* A committed submission is the last message's, and if a verifier was asked
\* about it, the verifier accepted it and no drift was told since.
SubmissionStands ==
    \A s \in Of("submission") :
        /\ log[s].turn = LastTurn
        /\ log[LastTurn].calls[log[s].call] = "submit"
        /\ \A i \in ResultsOf(LastTurn) : log[i].call = log[s].call =>
              log[i].verdict = "accept" /\ \A j \in Of("drift") : j < i

\* The caps hold over all attempts together: turns, launches, and rechecks,
\* whose count rises from one suspension to the next until a turn commits.
CapsHold ==
    LET turns == Of("assistant")
        stops == Of("suspension")
        budget == {i \in stops : log[i].why = "budget"}
    IN  /\ Cardinality(turns) <= MaxTurns
        /\ Cardinality(stops \ budget) <= MaxLaunches
        /\ \A i \in budget :
              /\ log[i].count = 0 \/ log[i].count < RecheckBound
              /\ \A j \in budget : i < j /\ (\A t \in turns : t < i \/ j < t) =>
                                      log[i].count < log[j].count

\* The thread ends whatever fails and however often: every failure is charged
\* to a budget that only bounded progress refills.
LoopEnds == <>(thread.status \in ThreadTerminal)
=============================================================================
