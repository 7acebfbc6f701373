------------------------- MODULE DriverTasksProofs --------------------------
(* The safety of the driver family for every number of drivers, attempts,   *)
(* submissions and launches.  RowInv says how the rows fit together and     *)
(* holds whatever the sweeps do; LineageInv says why a verdict reaches the  *)
(* submission it is for, and needs the one sweeper of a deployment.         *)
EXTENDS DriverTasks, TLAPS

-----------------------------------------------------------------------------
(* The inductive invariants.                                                *)

\* The parent's task follows its thread, and only the cancellation of the
\* parent owes a cascade.
ParentShape ==
    /\ parent.status = "running" => parent.task \in {"queued", "claimed"}
    /\ parent.status = "suspended" => parent.task = "blocked"
    /\ ParentOver => parent.task = "ended"
    /\ cascade => ParentOver

\* The children launched so far are the first ones, and each has a driver
\* task and the submission it was launched for.
LaunchShape ==
    /\ \E n \in 0..MaxLaunches : Launched = 1..n
    /\ \A c \in Children :
          /\ child[c].status = "absent" <=> driver[c].state = "absent"
          /\ child[c].status = "absent" => child[c] = NoChild
          /\ child[c].status # "absent" => child[c].call \in 1..call

\* An execution, and what a reclaim pass has read, names a launched child.
RunShape ==
    /\ \A d \in Drivers : run[d].pc # "idle" => run[d].child \in Launched
    /\ reclaim # NoScan => reclaim.child \in Launched

\* How the rows fit together.
RowInv ==
    /\ TypeOK /\ ParentShape /\ LaunchShape /\ RunShape
    /\ ChildNeverOutlivesDriver

\* The fleet runs one availability sweep.
OneSweeper == \A s1, s2 \in Sweepers : s1 = s2

\* A live child is the last one launched.
LiveIsYoungest == \A c \in LiveChildren : \A b \in Launched : b <= c

\* An execution about to commit for a live child has resolved the submission
\* that child was launched for.
AnswerStands ==
    \A d \in Drivers :
        run[d].pc = "answering" /\ run[d].child \in LiveChildren =>
            run[d].call = child[run[d].child].call

\* A thread that a sweep has listed still waits for its timer.
DueStands == due # {} => ParentOver \/ parent.wake = "timer"

\* No child of a triage thread is asked to stop before its parent is over.
UncancelledInTriage ==
    stage = "triage" /\ ~ParentOver => \A c \in LiveChildren : ~child[c].intent

\* Why a verdict reaches the submission it is for.
LineageInv ==
    /\ RowInv /\ LiveIsYoungest /\ AnswerStands /\ DueStands
    /\ ParentBlockedWhileChildDrives /\ VerdictMatchesSubmission

\* No child of a waiting triage thread is lost without its parent's doing.
WaiterInv == LineageInv /\ UncancelledInTriage /\ WaiterHasResolver

-----------------------------------------------------------------------------
(* The youngest child and the submission it was launched for.               *)

LEMMA YoungestIs ==
    ASSUME RowInv, NEW c \in Launched, \A b \in Launched : b <= c
    PROVE  Awaited = child[c].call
<1>1. \A b \in Launched : (\A e \in Launched : e <= b) => b = c
  BY DEF Launched, Children
<1> QED BY <1>1 DEF Awaited

LEMMA AwaitedTyped ==
    ASSUME RowInv, Launched # {}
    PROVE  Awaited \in 1..call
<1>1. PICK n \in 0..MaxLaunches : Launched = 1..n
  BY DEF RowInv, LaunchShape
<1>2. n \in Launched /\ \A b \in Launched : b <= n
  BY <1>1, DriverAssumption
<1>3. Awaited = child[n].call
  BY <1>2, YoungestIs
<1> QED BY <1>2, <1>3 DEF RowInv, LaunchShape, Launched

-----------------------------------------------------------------------------
(* One lemma per action: the rows still fit together.                       *)

\* A step that moves the parent's row only, along its lifecycle.
LEMMA ParentRows ==
    ASSUME RowInv,
           \/ ClaimParent \/ ReleaseParent \/ SuspendOnBudget \/ Finish
           \/ DisposeParent \/ RequestCancelParent \/ CancelSweepParent
           \/ StuckRelating
    PROVE  RowInv'
<1> USE DEF ParentOver, ThreadTerminal
<1>1. UNCHANGED <<stage, call, answers, child, driver, run, reclaim, due>>
  BY DEF ClaimParent, ReleaseParent, SuspendOnBudget, Finish, DisposeParent,
         RequestCancelParent, CancelSweepParent, StuckRelating, CancelParent
<1>2. TypeOK' /\ ParentShape'
  <2> USE <1>1, DriverAssumption DEF RowInv, ParentShape, TypeOK, Working, EndParent
  <2>1. CASE ClaimParent \/ ReleaseParent
    BY <2>1 DEF ClaimParent, ReleaseParent
  <2>2. CASE SuspendOnBudget
    BY <2>2 DEF SuspendOnBudget
  <2>3. ASSUME NEW s \in ThreadTerminal, EndParent(s),
               cascade' \in BOOLEAN, faults' = faults
        PROVE  TypeOK' /\ ParentShape'
    BY <2>3
  <2>4. CASE Finish \/ DisposeParent
    BY <2>3, <2>4 DEF Finish, DisposeParent
  <2>5. CASE RequestCancelParent
    BY <2>5 DEF RequestCancelParent
  <2>6. CASE CancelSweepParent \/ StuckRelating
    BY <2>3, <2>6 DEF CancelSweepParent, StuckRelating, CancelParent
  <2> QED BY <2>1, <2>2, <2>4, <2>5, <2>6
<1> QED
  BY <1>1, <1>2
     DEF RowInv, LaunchShape, RunShape, Launched, ChildNeverOutlivesDriver

LEMMA SubmitRows == ASSUME RowInv, Submit PROVE RowInv'
<1>1. TypeOK'
  BY DriverAssumption DEF RowInv, TypeOK, Submit
<1>2. call \in Nat /\ call' = call + 1 /\ UNCHANGED <<child, driver>>
  BY DriverAssumption DEF RowInv, TypeOK, Submit
<1>3. \A k \in 1..call : k \in 1..(call + 1)
  BY <1>2
<1>4. LaunchShape'
  BY <1>2, <1>3 DEF RowInv, LaunchShape, Launched
<1> QED
  BY <1>1, <1>4
     DEF RowInv, ParentShape, RunShape, Launched, ChildNeverOutlivesDriver,
         Submit, ParentOver

LEMMA LaunchRows == ASSUME RowInv, Launch PROVE RowInv'
<1> USE DriverAssumption
<1>1. PICK n \in 0..MaxLaunches : Launched = 1..n
  BY DEF RowInv, LaunchShape
<1>2. PICK c \in Children \ Launched :
        /\ \A b \in Children \ Launched : c <= b
        /\ child' = [child EXCEPT ![c] =
               [status |-> "queued", intent |-> FALSE, call |-> call]]
        /\ driver' = [driver EXCEPT ![c].state = "pending"]
  BY DEF Launch
<1>3. c = n + 1 /\ Launched' = 1..c
  <2>1. c \in Nat /\ n < c /\ c <= MaxLaunches
    BY <1>1, <1>2 DEF Children
  <2>2. n + 1 \in Children \ Launched
    BY <1>1, <2>1 DEF Children
  <2>3. c = n + 1
    BY <1>2, <2>1, <2>2
  <2>4. Launched' = Launched \cup {c}
    BY <1>2 DEF RowInv, TypeOK, Launched
  <2> QED BY <1>1, <2>3, <2>4
<1>4. call \in 1..MaxCalls
  BY DEF Launch, Answered, RowInv, TypeOK
<1>5. TypeOK'
  <2>1. child' \in [Children -> [status : ThreadTerminal \cup ChildLive \cup {"absent"},
                                intent : BOOLEAN, call : 0..MaxCalls]]
    BY <1>2, <1>4 DEF RowInv, TypeOK, ChildLive
  <2>2. driver' \in [Children -> [state : DriverLive \cup {"absent", "completed", "dead_letter"},
                                 attempt : Nat, lapsed : BOOLEAN]]
    BY <1>2 DEF RowInv, TypeOK, DriverLive
  <2> QED BY <2>1, <2>2 DEF RowInv, TypeOK, Launch, Working
<1>6. LaunchShape'
  <2>1. \A b \in Children \ {c} : child'[b] = child[b] /\ driver'[b] = driver[b]
    BY <1>2 DEF RowInv, TypeOK
  <2>2. child'[c].status = "queued" /\ child'[c].call = call /\ driver'[c].state = "pending"
    BY <1>2 DEF RowInv, TypeOK
  <2>3. call' = call /\ c \in 0..MaxLaunches
    BY <1>2 DEF Launch, Children
  <2> QED BY <1>3, <1>4, <2>1, <2>2, <2>3 DEF RowInv, LaunchShape
<1>7. ParentShape' /\ RunShape'
  <2>1. ParentShape'
    BY DEF RowInv, TypeOK, ParentShape, Launch, Working, ParentOver, ThreadTerminal
  <2>2. run' = run /\ reclaim' = reclaim
    BY DEF Launch, Working
  <2>3. \A b \in Launched : b \in Launched'
    BY <1>1, <1>3
  <2>4. RunShape'
    BY <2>2, <2>3 DEF RowInv, RunShape
  <2> QED
    BY <2>1, <2>4
<1>8. ChildNeverOutlivesDriver'
  BY <1>2 DEF RowInv, TypeOK, ChildNeverOutlivesDriver, ChildLive, DriverLive
<1> QED BY <1>5, <1>6, <1>7, <1>8 DEF RowInv

\* What an execution or a reclaim pass remembers is typed and names a
\* launched child.
ExecFits(r, q) ==
    /\ r \in [Drivers -> [pc : {"idle", "claimed", "calling", "answering", "dying"},
                          child : 0..MaxLaunches, attempt : Nat, call : 0..MaxCalls]]
    /\ \A d \in Drivers : r[d].pc # "idle" => r[d].child \in Launched
    /\ q \in [child : 0..MaxLaunches, attempt : Nat]
    /\ q # NoScan => q.child \in Launched

DriverRow == [state : DriverLive \cup {"absent", "completed", "dead_letter"},
              attempt : Nat, lapsed : BOOLEAN]
ChildRow == [status : ThreadTerminal \cup ChildLive \cup {"absent"},
             intent : BOOLEAN, call : 0..MaxCalls]

\* A recorded intent leaves a well-typed child.
LEMMA IntentRow ==
    ASSUME NEW r \in ChildRow, NEW b \in BOOLEAN
    PROVE  [r EXCEPT !.intent = b] \in ChildRow
BY DEF ChildRow

LEMMA LaunchedFacts ==
    ASSUME RowInv, NEW c \in Launched
    PROVE  /\ c \in Children /\ c \in 0..MaxLaunches
           /\ child[c] \in ChildRow /\ driver[c] \in DriverRow
           /\ child[c].status # "absent" /\ driver[c].state # "absent"
           /\ child[c].call \in 1..call
BY DriverAssumption
   DEF RowInv, TypeOK, LaunchShape, Launched, Children, ChildRow, DriverRow

LEMMA ExecFitsNow == ASSUME RowInv PROVE ExecFits(run, reclaim)
BY DEF RowInv, TypeOK, RunShape, ExecFits

\* The slot d leaves its claim, or remembers something else about it.
LEMMA ExecMoves ==
    ASSUME RowInv, NEW d \in Drivers, NEW r,
           r \in [pc : {"idle", "claimed", "calling", "answering", "dying"},
                  child : 0..MaxLaunches, attempt : Nat, call : 0..MaxCalls],
           r.pc # "idle" => r.child \in Launched
    PROVE  ExecFits([run EXCEPT ![d] = r], reclaim)
BY DEF RowInv, TypeOK, RunShape, ExecFits

LEMMA IdleFits ==
    ASSUME RowInv, NEW d \in Drivers
    PROVE  ExecFits([run EXCEPT ![d] = Idle], reclaim)
<1>1. Idle \in [pc : {"idle", "claimed", "calling", "answering", "dying"},
                child : 0..MaxLaunches, attempt : Nat, call : 0..MaxCalls]
  BY DriverAssumption DEF Idle, RowInv, TypeOK
<1> QED BY <1>1, ExecMoves DEF Idle

\* A step of the fleet that leaves the rows of the lineage alone.
LEMMA ExecRows ==
    ASSUME RowInv, ExecFits(run', reclaim'),
           UNCHANGED <<stage, parent, call, answers, child, driver>>,
           due' \subseteq Sweepers, cascade' \in BOOLEAN, cascade' => cascade,
           faults' \in 0..MaxFaults
    PROVE  RowInv'
<1>1. TypeOK'
  BY DEF RowInv, TypeOK, ExecFits
<1>2. Launched' = Launched
  BY DEF Launched
<1>3. LaunchShape' /\ ChildNeverOutlivesDriver'
  BY <1>2 DEF RowInv, LaunchShape, ChildNeverOutlivesDriver
<1>4. ParentShape' /\ RunShape'
  BY <1>2 DEF RowInv, ParentShape, ParentOver, RunShape, ExecFits
<1> QED BY <1>1, <1>3, <1>4 DEF RowInv

\* A step that moves the rows of one launched child, its thread and its driver
\* task together.
LEMMA ChildRows ==
    ASSUME RowInv, NEW c \in Launched, ExecFits(run', reclaim'),
           NEW th \in ChildRow, NEW dt \in DriverRow,
           child' = [child EXCEPT ![c] = th], driver' = [driver EXCEPT ![c] = dt],
           th.status # "absent", dt.state # "absent", th.call = child[c].call,
           th.status \in ChildLive <=> dt.state \in DriverLive,
           UNCHANGED <<stage, call>>, due' \subseteq Sweepers,
           cascade' = cascade, faults' \in 0..MaxFaults,
           \/ UNCHANGED <<parent, answers>>
           \/ /\ parent.status = "suspended"
              /\ parent' = [parent EXCEPT !.status = "running", !.task = "queued",
                                          !.wake = "none"]
              /\ answers' \in [Calls -> 0..MaxLaunches]
    PROVE  RowInv'
<1>1. /\ child' \in [Children -> ChildRow] /\ driver' \in [Children -> DriverRow]
      /\ c \in Children /\ child'[c] = th /\ driver'[c] = dt
      /\ \A b \in Children \ {c} : child'[b] = child[b] /\ driver'[b] = driver[b]
  BY DEF RowInv, TypeOK, Launched, ChildRow, DriverRow
<1>2. TypeOK'
  BY <1>1 DEF RowInv, TypeOK, ExecFits, ChildRow, DriverRow
<1>3. Launched' = Launched
  BY <1>1 DEF Launched
<1>4. LaunchShape'
  BY <1>1, <1>3 DEF RowInv, LaunchShape, Launched
<1>5. ChildNeverOutlivesDriver'
  BY <1>1 DEF RowInv, ChildNeverOutlivesDriver
<1>6. ParentShape'
  BY DEF RowInv, ParentShape, ParentOver, ThreadTerminal, TypeOK
<1>7. RunShape'
  BY <1>3 DEF RunShape, ExecFits
<1> QED BY <1>2, <1>4, <1>5, <1>6, <1>7 DEF RowInv

\* The operations a driver, a reclaim pass and a sweep share.

\* A launched child ends with its driver task, and its result is handed back.
LEMMA EndChildRows ==
    ASSUME RowInv, NEW c \in Launched, NEW a, NEW k,
           NEW s \in {"completed", "dead_letter"},
           CanEnd(c, a, k), EndChild(c, k, s), ExecFits(run', reclaim'),
           UNCHANGED <<stage, call, due, cascade, faults>>
    PROVE  RowInv'
<1> DEFINE th == [child[c] EXCEPT !.status = s]
<1> DEFINE dt == [driver[c] EXCEPT !.state = s, !.lapsed = FALSE]
<1>1. /\ th \in ChildRow /\ dt \in DriverRow
      /\ th.status = s /\ dt.state = s /\ th.call = child[c].call
  BY LaunchedFacts DEF ChildRow, DriverRow, ThreadTerminal
<1>2. child' = [child EXCEPT ![c] = th] /\ driver' = [driver EXCEPT ![c] = dt]
  BY DEF EndChild
<1>3. \/ UNCHANGED <<parent, answers>>
      \/ /\ parent.status = "suspended"
         /\ parent' = [parent EXCEPT !.status = "running", !.task = "queued",
                                     !.wake = "none"]
         /\ answers' \in [Calls -> 0..MaxLaunches]
  BY LaunchedFacts DEF EndChild, HandBack, RowInv, TypeOK
<1>4. faults' \in 0..MaxFaults /\ due' \subseteq Sweepers
  BY DEF RowInv, TypeOK
<1> HIDE DEF th, dt
<1> QED BY <1>1, <1>2, <1>3, <1>4, ChildRows DEF ChildLive, DriverLive

\* A claim that is given up returns its task to the queue with one attempt
\* more; a claim that was lost writes nothing.
LEMMA RequeueRows ==
    ASSUME RowInv, NEW c \in Launched, NEW a \in Nat, Requeue(c, a),
           ExecFits(run', reclaim'), faults' \in 0..MaxFaults,
           UNCHANGED <<stage, parent, call, answers, child, due, cascade>>
    PROVE  RowInv'
<1>1. CASE ~HoldsClaim(c, a)
  BY <1>1, ExecRows DEF Requeue, RowInv, TypeOK
<1>2. CASE HoldsClaim(c, a)
  <2> DEFINE dt == [state |-> "pending", attempt |-> a + 1, lapsed |-> FALSE]
  <2>1. /\ dt \in DriverRow /\ dt.state = "pending"
        /\ driver' = [driver EXCEPT ![c] = dt] /\ driver[c].state = "claimed"
    BY <1>2 DEF DriverRow, DriverLive, Requeue, HoldsClaim
  <2>2. /\ child' = [child EXCEPT ![c] = child[c]] /\ child[c] \in ChildRow
        /\ child[c].status # "absent" /\ child[c].status \in ChildLive
    BY <2>1, LaunchedFacts
       DEF RowInv, TypeOK, ChildNeverOutlivesDriver, DriverLive
  <2>3. due' \subseteq Sweepers
    BY DEF RowInv, TypeOK
  <2> HIDE DEF dt
  <2> QED BY <2>1, <2>2, <2>3, ChildRows DEF DriverLive
<1> QED BY <1>1, <1>2

\* A deferred death ends the rows with hand-back, or writes nothing.
LEMMA DeferredDeathRows ==
    ASSUME RowInv, NEW c \in Launched, NEW a, NEW k, DeferredDeath(c, a, k),
           ExecFits(run', reclaim'),
           UNCHANGED <<stage, call, due, cascade, faults>>
    PROVE  RowInv'
<1>1. CASE CanEnd(c, a, k) /\ EndChild(c, k, "dead_letter")
  BY <1>1, EndChildRows
<1>2. CASE UNCHANGED <<parent, answers, child, driver>>
  BY <1>2, ExecRows DEF RowInv, TypeOK
<1> QED BY <1>1, <1>2 DEF DeferredDeath

\* A failed execution returns its task to the queue or goes on to die.
LEMMA GiveUpRows ==
    ASSUME RowInv, NEW d \in Drivers, run[d].pc # "idle", GiveUp(d),
           reclaim' = reclaim, faults' \in 0..MaxFaults,
           UNCHANGED <<stage, parent, call, answers, child, due, cascade>>
    PROVE  RowInv'
<1>1. run[d].child \in Launched /\ run[d].attempt \in Nat
  BY DEF RowInv, RunShape, TypeOK
<1>2. CASE run' = [run EXCEPT ![d].pc = "dying"] /\ UNCHANGED driver
  <2> DEFINE r == [run[d] EXCEPT !.pc = "dying"]
  <2>1. r \in [pc : {"idle", "claimed", "calling", "answering", "dying"},
               child : 0..MaxLaunches, attempt : Nat, call : 0..MaxCalls]
        /\ r.child \in Launched /\ run' = [run EXCEPT ![d] = r]
    BY <1>1, <1>2 DEF RowInv, TypeOK
  <2>2. ExecFits(run', reclaim')
    <3> HIDE DEF r
    <3> QED BY <2>1, ExecMoves
  <2> QED BY <1>2, <2>2, ExecRows DEF RowInv, TypeOK
<1>3. CASE Requeue(run[d].child, run[d].attempt) /\ run' = [run EXCEPT ![d] = Idle]
  BY <1>1, <1>3, IdleFits, RequeueRows
<1> QED BY <1>2, <1>3 DEF GiveUp

-----------------------------------------------------------------------------
(* The steps of a driver slot.                                              *)

LEMMA ClaimDriverRows ==
    ASSUME RowInv, NEW d \in Drivers, NEW c \in Children, ClaimDriver(d, c)
    PROVE  RowInv'
<1> DEFINE r == [pc |-> "claimed", child |-> c, attempt |-> driver[c].attempt,
                 call |-> 0]
<1> DEFINE dt == [driver[c] EXCEPT !.state = "claimed"]
<1>1. c \in Launched /\ driver[c].state = "pending"
  BY DEF ClaimDriver, RowInv, LaunchShape, Launched
<1>2. /\ r \in [pc : {"idle", "claimed", "calling", "answering", "dying"},
                child : 0..MaxLaunches, attempt : Nat, call : 0..MaxCalls]
      /\ r.child \in Launched /\ run' = [run EXCEPT ![d] = r] /\ reclaim' = reclaim
  BY <1>1, LaunchedFacts, DriverAssumption
     DEF ClaimDriver, DriverRow, RowInv, TypeOK
<1>3. /\ dt \in DriverRow /\ dt.state = "claimed"
      /\ driver' = [driver EXCEPT ![c] = dt]
      /\ child' = [child EXCEPT ![c] = child[c]] /\ child[c] \in ChildRow
      /\ child[c].status # "absent" /\ child[c].status \in ChildLive
  BY <1>1, LaunchedFacts
     DEF ClaimDriver, DriverRow, DriverLive, RowInv, TypeOK,
         ChildNeverOutlivesDriver
<1>4. ExecFits(run', reclaim')
  <2> HIDE DEF r
  <2> QED BY <1>2, ExecMoves
<1>5. faults' \in 0..MaxFaults /\ due' \subseteq Sweepers
  BY DEF ClaimDriver, RowInv, TypeOK
<1> HIDE DEF r, dt
<1> QED BY <1>1, <1>3, <1>4, <1>5, ChildRows DEF ClaimDriver, DriverLive

LEMMA StartChildRows ==
    ASSUME RowInv, NEW d \in Drivers, StartChild(d) PROVE RowInv'
<1> DEFINE c == run[d].child
<1> DEFINE r == [run[d] EXCEPT !.pc = IF child[c].intent THEN "dying" ELSE "calling"]
<1>1. c \in Launched
  BY DEF StartChild, RowInv, RunShape
<1>2. /\ r \in [pc : {"idle", "claimed", "calling", "answering", "dying"},
                child : 0..MaxLaunches, attempt : Nat, call : 0..MaxCalls]
      /\ r.child \in Launched /\ run' = [run EXCEPT ![d] = r] /\ reclaim' = reclaim
  BY <1>1 DEF StartChild, RowInv, TypeOK
<1>3. ExecFits(run', reclaim')
  <2> HIDE DEF r
  <2> QED BY <1>2, ExecMoves
<1>4. faults' \in 0..MaxFaults /\ due' \subseteq Sweepers
  BY DEF StartChild, RowInv, TypeOK
<1>5. CASE UNCHANGED child
  BY <1>3, <1>4, <1>5, ExecRows DEF StartChild, RowInv, TypeOK
<1>6. CASE /\ child[c].status = "queued"
           /\ child' = [child EXCEPT ![c].status = "running"]
  <2> DEFINE th == [child[c] EXCEPT !.status = "running"]
  <2>1. /\ th \in ChildRow /\ th.status = "running" /\ th.call = child[c].call
        /\ child' = [child EXCEPT ![c] = th]
        /\ driver' = [driver EXCEPT ![c] = driver[c]] /\ driver[c] \in DriverRow
        /\ driver[c].state # "absent" /\ driver[c].state \in DriverLive
    BY <1>1, <1>6, LaunchedFacts
       DEF StartChild, ChildRow, ChildLive, RowInv, TypeOK,
           ChildNeverOutlivesDriver
  <2> HIDE DEF th
  <2> QED BY <1>1, <1>3, <1>4, <2>1, ChildRows DEF StartChild, ChildLive
<1> QED BY <1>5, <1>6 DEF StartChild

LEMMA ResolveRows == ASSUME RowInv, NEW d \in Drivers, Resolve(d) PROVE RowInv'
<1> DEFINE r == [run[d] EXCEPT !.pc = "answering", !.call = Awaited]
<1>1. run[d].child \in Launched
  BY DEF Resolve, RowInv, RunShape
<1>2. Awaited \in 0..MaxCalls
  BY <1>1, AwaitedTyped, DriverAssumption DEF RowInv, TypeOK
<1>3. /\ r \in [pc : {"idle", "claimed", "calling", "answering", "dying"},
                child : 0..MaxLaunches, attempt : Nat, call : 0..MaxCalls]
      /\ r.child \in Launched /\ run' = [run EXCEPT ![d] = r] /\ reclaim' = reclaim
  BY <1>1, <1>2 DEF Resolve, RowInv, TypeOK
<1>4. ExecFits(run', reclaim')
  <2> HIDE DEF r
  <2> QED BY <1>3, ExecMoves
<1> QED BY <1>4, ExecRows DEF Resolve, RowInv, TypeOK

LEMMA CommitTerminalRows ==
    ASSUME RowInv, NEW d \in Drivers, CommitTerminal(d) PROVE RowInv'
<1>1. run[d].child \in Launched
  BY DEF CommitTerminal, RowInv, RunShape
<1> QED BY <1>1, IdleFits, EndChildRows DEF CommitTerminal

LEMMA DieRows == ASSUME RowInv, NEW d \in Drivers, Die(d) PROVE RowInv'
<1>1. run[d].child \in Launched
  BY DEF Die, RowInv, RunShape
<1> QED BY <1>1, IdleFits, DeferredDeathRows DEF Die

\* An execution fails, is refused, is rejected or vanishes.
LEMMA FailedRows ==
    ASSUME RowInv, NEW d \in Drivers,
           FailChild(d) \/ RefuseChild(d) \/ RejectChild(d) \/ Crash(d)
    PROVE  RowInv'
<1>1. faults' \in 0..MaxFaults
  BY DriverAssumption
     DEF FailChild, RefuseChild, RejectChild, Crash, RowInv, TypeOK
<1>2. CASE FailChild(d) \/ RefuseChild(d)
  BY <1>1, <1>2, GiveUpRows DEF FailChild, RefuseChild
<1>3. CASE RejectChild(d)
  <2> DEFINE r == [run[d] EXCEPT !.pc = "dying"]
  <2>1. r \in [pc : {"idle", "claimed", "calling", "answering", "dying"},
               child : 0..MaxLaunches, attempt : Nat, call : 0..MaxCalls]
        /\ r.child \in Launched /\ run' = [run EXCEPT ![d] = r] /\ reclaim' = reclaim
    BY <1>3 DEF RejectChild, RowInv, TypeOK, RunShape
  <2>2. ExecFits(run', reclaim')
    <3> HIDE DEF r
    <3> QED BY <2>1, ExecMoves
  <2> QED BY <1>1, <1>3, <2>2, ExecRows DEF RejectChild, RowInv, TypeOK
<1>4. CASE Crash(d)
  BY <1>1, <1>4, IdleFits, ExecRows DEF Crash, RowInv, TypeOK
<1> QED BY <1>2, <1>3, <1>4

\* The heartbeat of a claim lapses, stalls or beats.
LEMMA HeartbeatRows ==
    ASSUME RowInv, NEW c \in Children, driver[c].state = "claimed",
           NEW b \in BOOLEAN, driver' = [driver EXCEPT ![c].lapsed = b],
           faults' \in 0..MaxFaults,
           UNCHANGED <<stage, parent, call, answers, child, run, reclaim, due,
                       cascade>>
    PROVE  RowInv'
<1> DEFINE dt == [driver[c] EXCEPT !.lapsed = b]
<1>1. c \in Launched
  BY DEF RowInv, LaunchShape, Launched
<1>2. /\ dt \in DriverRow /\ dt.state = "claimed"
      /\ driver' = [driver EXCEPT ![c] = dt]
      /\ child' = [child EXCEPT ![c] = child[c]] /\ child[c] \in ChildRow
      /\ child[c].status # "absent" /\ child[c].status \in ChildLive
  BY <1>1, LaunchedFacts
     DEF DriverRow, DriverLive, RowInv, TypeOK, ChildNeverOutlivesDriver
<1>3. ExecFits(run', reclaim') /\ due' \subseteq Sweepers
  BY ExecFitsNow DEF RowInv, TypeOK
<1> HIDE DEF dt
<1> QED BY <1>1, <1>2, <1>3, ChildRows DEF DriverLive

-----------------------------------------------------------------------------
(* The passes: reclaim, the availability sweep and the operators.           *)

LEMMA ReclaimScanRows ==
    ASSUME RowInv, NEW c \in Children, ReclaimScan(c) PROVE RowInv'
<1>1. c \in Launched
  BY DEF ReclaimScan, RowInv, LaunchShape, Launched
<1>2. reclaim' \in [child : 0..MaxLaunches, attempt : Nat]
      /\ reclaim'.child \in Launched /\ run' = run
  BY <1>1, LaunchedFacts DEF ReclaimScan, DriverRow
<1>3. ExecFits(run', reclaim')
  BY <1>2, ExecFitsNow DEF ExecFits
<1> QED BY <1>3, ExecRows DEF ReclaimScan, RowInv, TypeOK

LEMMA ReclaimApplyRows == ASSUME RowInv, ReclaimApply PROVE RowInv'
<1>1. reclaim.child \in Launched /\ reclaim.attempt \in Nat
  BY DEF ReclaimApply, RowInv, RunShape, TypeOK
<1>2. ExecFits(run', reclaim')
  BY ExecFitsNow, DriverAssumption DEF ReclaimApply, ExecFits, NoScan
<1>3. faults' \in 0..MaxFaults
  BY DEF ReclaimApply, RowInv, TypeOK
<1>4. CASE DeferredDeath(reclaim.child, reclaim.attempt, Awaited)
  BY <1>1, <1>2, <1>4, DeferredDeathRows DEF ReclaimApply
<1>5. CASE Requeue(reclaim.child, reclaim.attempt) /\ UNCHANGED <<parent, answers, child>>
  BY <1>1, <1>2, <1>3, <1>5, RequeueRows DEF ReclaimApply
<1> QED BY <1>4, <1>5 DEF ReclaimApply

LEMMA TimerRows ==
    ASSUME RowInv, NEW s \in Sweepers, TimerScan(s) \/ TimerWake(s)
    PROVE  RowInv'
<1>1. CASE TimerScan(s)
  BY <1>1, ExecFitsNow, ExecRows DEF TimerScan, RowInv, TypeOK
<1>2. CASE TimerWake(s) /\ UNCHANGED parent
  BY <1>2, ExecFitsNow, ExecRows DEF TimerWake, RowInv, TypeOK
<1>3. CASE TimerWake(s) /\ parent.status = "suspended"
  <2>1. TypeOK' /\ ParentShape'
    BY <1>3 DEF TimerWake, RowInv, TypeOK, ParentShape, ParentOver, ThreadTerminal
  <2> QED
    BY <1>3, <2>1
       DEF TimerWake, RowInv, LaunchShape, RunShape, Launched,
           ChildNeverOutlivesDriver
<1> QED BY <1>1, <1>2, <1>3 DEF TimerWake

\* An intent is recorded on children that live.
LEMMA IntentRows ==
    ASSUME RowInv, child' \in [Children -> ChildRow],
           \A c \in Children :
              \/ child'[c] = child[c]
              \/ /\ child[c].status \in ChildLive
                 /\ child'[c] = [child[c] EXCEPT !.intent = TRUE],
           UNCHANGED <<stage, parent, call, answers, driver, run, reclaim, due>>,
           cascade' \in BOOLEAN, cascade' => cascade, faults' \in 0..MaxFaults
    PROVE  RowInv'
<1>1. \A c \in Children :
        /\ child'[c].status = child[c].status
        /\ child'[c].call = child[c].call
        /\ child[c].status = "absent" => child'[c] = child[c]
  BY DEF RowInv, TypeOK, ChildLive
<1>2. Launched' = Launched
  BY <1>1 DEF Launched
<1>3. LaunchShape' /\ ChildNeverOutlivesDriver'
  BY <1>1, <1>2 DEF RowInv, LaunchShape, ChildNeverOutlivesDriver
<1>4. TypeOK'
  BY DEF RowInv, TypeOK, ChildRow
<1>5. ParentShape'
  BY DEF RowInv, ParentShape, ParentOver
<1>6. RunShape'
  BY <1>2 DEF RowInv, RunShape
<1> QED BY <1>3, <1>4, <1>5, <1>6 DEF RowInv

LEMMA RecordIntentRows ==
    ASSUME RowInv, NEW c \in Children, RequestCancelChild(c) \/ OrphanJanitor(c)
    PROVE  RowInv'
<1>1. /\ child[c].status \in ChildLive
      /\ child' = [child EXCEPT ![c].intent = TRUE]
      /\ UNCHANGED <<stage, parent, call, answers, driver, run, reclaim, due,
                     cascade, faults>>
  BY DEF RequestCancelChild, OrphanJanitor
<1>2. child' \in [Children -> ChildRow]
  <2>1. child[c] \in ChildRow
    BY DEF RowInv, TypeOK, ChildRow
  <2>2. [child[c] EXCEPT !.intent = TRUE] \in ChildRow
    BY <2>1, IntentRow
  <2> QED BY <1>1, <2>2 DEF RowInv, TypeOK, ChildRow
<1>3. \A b \in Children :
        \/ child'[b] = child[b]
        \/ /\ child[b].status \in ChildLive
           /\ child'[b] = [child[b] EXCEPT !.intent = TRUE]
  BY <1>1 DEF RowInv, TypeOK
<1>4. cascade' \in BOOLEAN /\ faults' \in 0..MaxFaults
  BY <1>1 DEF RowInv, TypeOK
<1> QED BY <1>1, <1>2, <1>3, <1>4, IntentRows

LEMMA CascadeRows == ASSUME RowInv, Cascade \/ CascadeLost PROVE RowInv'
<1>1. CASE Cascade
  <2>1. ASSUME NEW c \in Children
        PROVE  child[c] \in ChildRow /\ [child[c] EXCEPT !.intent = TRUE] \in ChildRow
    <3>1. child[c] \in ChildRow
      BY DEF RowInv, TypeOK, ChildRow
    <3> QED BY <3>1, IntentRow
  <2>2. child' \in [Children -> ChildRow]
    BY <1>1, <2>1 DEF Cascade
  <2>3. \A c \in Children :
          \/ child'[c] = child[c]
          \/ /\ child[c].status \in ChildLive
             /\ child'[c] = [child[c] EXCEPT !.intent = TRUE]
    BY <1>1 DEF Cascade
  <2> QED BY <1>1, <2>2, <2>3, IntentRows DEF Cascade, RowInv, TypeOK
<1>2. CASE CascadeLost
  <2>1. faults' \in 0..MaxFaults /\ due' \subseteq Sweepers
    BY <1>2, DriverAssumption DEF CascadeLost, RowInv, TypeOK
  <2> QED BY <1>2, <2>1, ExecFitsNow, ExecRows DEF CascadeLost
<1> QED BY <1>1, <1>2

LEMMA CancelSweepChildRows ==
    ASSUME RowInv, NEW c \in Children, CancelSweepChild(c) PROVE RowInv'
<1> DEFINE th == [child[c] EXCEPT !.status = "cancelled"]
<1> DEFINE dt == [driver[c] EXCEPT !.state = "dead_letter"]
<1>1. c \in Launched
  BY DEF CancelSweepChild, ChildLive, Launched
<1>2. /\ th \in ChildRow /\ dt \in DriverRow
      /\ th.status = "cancelled" /\ dt.state = "dead_letter"
      /\ th.call = child[c].call
      /\ child' = [child EXCEPT ![c] = th] /\ driver' = [driver EXCEPT ![c] = dt]
  BY <1>1, LaunchedFacts DEF CancelSweepChild, ChildRow, DriverRow, ThreadTerminal
<1>3. ExecFits(run', reclaim') /\ due' \subseteq Sweepers /\ faults' \in 0..MaxFaults
  BY ExecFitsNow DEF CancelSweepChild, RowInv, TypeOK
<1> HIDE DEF th, dt
<1> QED BY <1>1, <1>2, <1>3, ChildRows DEF CancelSweepChild, ChildLive, DriverLive

LEMMA InitRows == ASSUME Init PROVE RowInv
<1>1. Launched = 1..0
  BY DEF Init, Launched, NoChild
<1>2. LaunchShape
  BY <1>1, DriverAssumption DEF Init, LaunchShape, NoChild, NoDriver
<1>3. TypeOK
  <2>1. /\ answers \in [Calls -> 0..MaxLaunches] /\ call \in 0..MaxCalls
        /\ reclaim \in [child : 0..MaxLaunches, attempt : Nat]
        /\ faults \in 0..MaxFaults
    BY DriverAssumption DEF Init, NoScan
  <2>2. /\ child \in [Children -> [status : ThreadTerminal \cup ChildLive \cup {"absent"},
                                 intent : BOOLEAN, call : 0..MaxCalls]]
        /\ driver \in [Children -> [state : DriverLive \cup {"absent", "completed", "dead_letter"},
                                  attempt : Nat, lapsed : BOOLEAN]]
    BY DriverAssumption DEF Init, NoChild, NoDriver
  <2>3. run \in [Drivers -> [pc : {"idle", "claimed", "calling", "answering", "dying"},
                            child : 0..MaxLaunches, attempt : Nat, call : 0..MaxCalls]]
    BY DriverAssumption DEF Init, Idle
  <2> QED BY <2>1, <2>2, <2>3 DEF Init, TypeOK
<1> QED
  BY <1>2, <1>3
     DEF Init, RowInv, ParentShape, ParentOver, RunShape, Idle, NoScan,
         ChildNeverOutlivesDriver, NoChild, NoDriver, ChildLive, DriverLive,
         ThreadTerminal

\* Every step keeps the rows together.
LEMMA NextRows == ASSUME RowInv, [Next]_vars PROVE RowInv'
<1>1. CASE UNCHANGED vars
  BY <1>1, ExecFitsNow, ExecRows DEF vars, RowInv, TypeOK
<1>2. CASE ParentStep \/ ReleaseParent \/ RequestCancelParent
  BY <1>2, ParentRows, SubmitRows, LaunchRows DEF ParentStep
<1>3. CASE SweepStep \/ CascadeLost
  BY <1>3, ParentRows, CascadeRows, RecordIntentRows, CancelSweepChildRows
     DEF SweepStep
<1>4. ASSUME NEW d \in Drivers, DriverStep(d) PROVE RowInv'
  BY <1>4, ClaimDriverRows, StartChildRows, ResolveRows, CommitTerminalRows,
     FailedRows, DieRows
     DEF DriverStep
<1>5. ASSUME NEW d \in Drivers,
             FailChild(d) \/ RejectChild(d) \/ Crash(d)
      PROVE  RowInv'
  BY <1>5, FailedRows
<1>6. ASSUME NEW d \in Drivers, Stall(d) \/ Heartbeat(d) PROVE RowInv'
  <2>1. PICK c \in Children, b \in BOOLEAN :
          /\ driver[c].state = "claimed"
          /\ driver' = [driver EXCEPT ![c].lapsed = b]
    BY <1>6 DEF Stall, Heartbeat, Executes, HoldsClaim
  <2>2. /\ faults' \in 0..MaxFaults
        /\ UNCHANGED <<stage, parent, call, answers, child, run, reclaim, due,
                       cascade>>
    BY <1>6, DriverAssumption DEF Stall, Heartbeat, RowInv, TypeOK
  <2> QED BY <2>1, <2>2, HeartbeatRows
<1>7. ASSUME NEW c \in Children, Lapse(c) \/ ReclaimScan(c) \/ RequestCancelChild(c)
      PROVE  RowInv'
  BY <1>7, HeartbeatRows, ReclaimScanRows, RecordIntentRows DEF Lapse, RowInv, TypeOK
<1>8. ASSUME NEW s \in Sweepers, TimerScan(s) \/ TimerWake(s) PROVE RowInv'
  BY <1>8, TimerRows
<1>9. CASE ReclaimApply
  BY <1>9, ReclaimApplyRows
<1> QED
  BY <1>1, <1>2, <1>3, <1>4, <1>5, <1>6, <1>7, <1>8, <1>9
     DEF Next, Fault, Operator

-----------------------------------------------------------------------------
(* The lineage: one live child, its parent blocked on it.                   *)

\* What a live child is resolved to is the submission it was launched for.
LEMMA LiveAwaited ==
    ASSUME LineageInv, NEW c \in LiveChildren
    PROVE  /\ c \in Launched /\ Awaited = child[c].call
<1>1. c \in Launched
  BY DEF LiveChildren, Launched, ChildLive
<1> QED BY <1>1, YoungestIs DEF LineageInv, LiveIsYoungest

\* A step of the executions alone.
LEMMA ExecLineage ==
    ASSUME LineageInv, RowInv', UNCHANGED <<parent, call, answers, child>>,
           \A d \in Drivers : run'[d].pc = "answering" =>
               run'[d] = run[d] \/ run'[d].call = Awaited,
           due' \subseteq due \/ parent.wake = "timer"
    PROVE  LineageInv'
<1>1. LiveChildren' = LiveChildren /\ Launched' = Launched /\ ParentOver' = ParentOver
  BY DEF LiveChildren, Launched, ParentOver
<1>2. AnswerStands'
  BY <1>1, LiveAwaited DEF LineageInv, AnswerStands
<1>3. DueStands'
  BY <1>1 DEF LineageInv, DueStands
<1> QED
  BY <1>1, <1>2, <1>3
     DEF LineageInv, LiveIsYoungest, ParentBlockedWhileChildDrives,
         VerdictMatchesSubmission

\* A step of the parent's row: it ends, or it was running, or it keeps what it
\* waits for.
LEMMA ParentLineage ==
    ASSUME LineageInv, RowInv', UNCHANGED <<call, answers, child, run>>,
           due' \subseteq due,
           \/ ParentOver'
           \/ parent.status = "running"
           \/ LiveChildren = {} /\ due' = {}
           \/ /\ parent'.status = parent.status /\ parent'.task = parent.task
              /\ parent'.wake = parent.wake
    PROVE  LineageInv'
<1>1. LiveChildren' = LiveChildren /\ Launched' = Launched
  BY DEF LiveChildren, Launched
<1>2. parent.status = "running" => LiveChildren = {} /\ due' = {}
  BY DEF LineageInv, ParentBlockedWhileChildDrives, DueStands, RowInv, TypeOK,
         ParentOver, ThreadTerminal
<1>3. DueStands' /\ ParentBlockedWhileChildDrives'
  BY <1>1, <1>2
     DEF LineageInv, DueStands, ParentBlockedWhileChildDrives, ParentOver
<1>4. AnswerStands' /\ LiveIsYoungest' /\ VerdictMatchesSubmission'
  BY <1>1 DEF LineageInv, AnswerStands, LiveIsYoungest, VerdictMatchesSubmission
<1> QED BY <1>3, <1>4 DEF LineageInv

\* A step of one child's row that does not bring it back.
LEMMA ChildLineage ==
    ASSUME LineageInv, RowInv', NEW c \in Launched,
           \A b \in Children \ {c} : child'[b] = child[b],
           child'[c].call = child[c].call, child'[c].status # "absent",
           child'[c].status \in ChildLive => child[c].status \in ChildLive,
           UNCHANGED <<parent, call, answers, due>>,
           \A d \in Drivers : run'[d].pc = "answering" => run'[d] = run[d]
    PROVE  LineageInv'
<1>1. Launched' = Launched /\ LiveChildren' \subseteq LiveChildren
      /\ ParentOver' = ParentOver
  BY DEF LiveChildren, Launched, ParentOver
<1>2. \A b \in Children : child'[b].call = child[b].call
  OBVIOUS
<1>3. LiveIsYoungest' /\ DueStands'
  BY <1>1 DEF LineageInv, LiveIsYoungest, DueStands
<1>4. AnswerStands'
  BY <1>1, <1>2 DEF LineageInv, AnswerStands, LiveChildren
<1>5. ParentBlockedWhileChildDrives'
  BY <1>1, <1>2 DEF LineageInv, ParentBlockedWhileChildDrives, LiveChildren
<1>6. VerdictMatchesSubmission'
  BY <1>2 DEF LineageInv, VerdictMatchesSubmission, RowInv, TypeOK, Children
<1> QED BY <1>3, <1>4, <1>5, <1>6 DEF LineageInv

\* The end of a live child that hands its result back to the submission it was
\* launched for.
LEMMA EndChildLineage ==
    ASSUME LineageInv, RowInv', NEW c \in LiveChildren,
           NEW s \in {"completed", "dead_letter"},
           EndChild(c, child[c].call, s), UNCHANGED <<call, due>>,
           \A d \in Drivers : run'[d].pc = "answering" => run'[d] = run[d]
    PROVE  LineageInv'
<1> DEFINE k == child[c].call
<1>1. /\ c \in Launched /\ k \in Calls /\ c \in Children
      /\ child'[c].status = s /\ child'[c].call = k
      /\ \A b \in Children \ {c} : child'[b] = child[b]
  <2>1. c \in Launched /\ c \in Children /\ k \in 1..call
    BY LiveAwaited, LaunchedFacts DEF LineageInv
  <2>2. k \in Calls
    BY <2>1, DriverAssumption DEF LineageInv, RowInv, TypeOK, Calls
  <2> QED BY <2>1, <2>2 DEF LineageInv, EndChild, RowInv, TypeOK
<1>2. CASE UNCHANGED <<parent, answers>>
  BY <1>1, <1>2, ChildLineage DEF ChildLive
<1>3. CASE /\ parent.status = "suspended"
           /\ answers' = [answers EXCEPT ![k] = c]
           /\ parent' = [parent EXCEPT !.status = "running", !.task = "queued",
                                       !.wake = "none"]
  <2>1. LiveChildren = {c} /\ parent.wake = "child" /\ ~ParentOver
    BY <1>3
       DEF LineageInv, ParentBlockedWhileChildDrives, ParentOver, ThreadTerminal
  <2>2. LiveChildren' = {} /\ Launched' = Launched
    BY <1>1, <2>1 DEF LiveChildren, ChildLive, Launched
  <2>3. due' = {}
    BY <2>1 DEF LineageInv, DueStands
  <2>4. VerdictMatchesSubmission'
    BY <1>1, <1>3
       DEF LineageInv, VerdictMatchesSubmission, RowInv, TypeOK, Children
  <2> QED
    BY <2>2, <2>3, <2>4
       DEF LineageInv, LiveIsYoungest, AnswerStands, DueStands,
           ParentBlockedWhileChildDrives
<1> QED BY <1>2, <1>3 DEF EndChild, HandBack

-----------------------------------------------------------------------------
(* One lemma per action: the lineage holds together.                        *)

LEMMA ParentStepLineage ==
    ASSUME LineageInv, RowInv',
           \/ ClaimParent \/ ReleaseParent \/ Submit \/ SuspendOnBudget \/ Finish
           \/ DisposeParent \/ RequestCancelParent \/ CancelSweepParent
           \/ StuckRelating
    PROVE  LineageInv'
<1>1. UNCHANGED <<answers, child, run, due>>
  BY DEF ClaimParent, ReleaseParent, Submit, SuspendOnBudget, Finish,
         DisposeParent, RequestCancelParent, CancelSweepParent, StuckRelating,
         CancelParent
<1>2. CASE Submit
  <2>1. LiveChildren = {} /\ due = {} /\ parent' = parent
    BY <1>2
       DEF Submit, Working, LineageInv, ParentBlockedWhileChildDrives, DueStands,
           RowInv, TypeOK, ParentOver, ThreadTerminal
  <2> QED
    BY <1>1, <2>1
       DEF LineageInv, LiveIsYoungest, LiveChildren, AnswerStands, DueStands,
           ParentBlockedWhileChildDrives, VerdictMatchesSubmission
<1>3. CASE ClaimParent \/ ReleaseParent \/ SuspendOnBudget
  BY <1>1, <1>3, ParentLineage
     DEF ClaimParent, ReleaseParent, SuspendOnBudget, Working
<1>4. CASE Finish \/ DisposeParent \/ CancelSweepParent \/ StuckRelating
  <2>1. ParentOver' /\ call' = call
    BY <1>4
       DEF Finish, DisposeParent, CancelSweepParent, StuckRelating, CancelParent,
           EndParent, ParentOver, ThreadTerminal, LineageInv, RowInv, TypeOK
  <2> QED BY <1>1, <2>1, ParentLineage
<1>5. CASE RequestCancelParent
  <2>1. /\ parent'.status = parent.status /\ parent'.task = parent.task
        /\ parent'.wake = parent.wake /\ call' = call
    BY <1>5 DEF RequestCancelParent, LineageInv, RowInv, TypeOK
  <2> QED BY <1>1, <2>1, ParentLineage
<1> QED BY <1>2, <1>3, <1>4, <1>5

LEMMA LaunchLineage == ASSUME LineageInv, RowInv', Launch PROVE LineageInv'
<1> USE DriverAssumption
<1>1. PICK c \in Children \ Launched :
        /\ \A b \in Children \ Launched : c <= b
        /\ child' = [child EXCEPT ![c] =
               [status |-> "queued", intent |-> FALSE, call |-> call]]
  BY DEF Launch
<1>2. LiveChildren = {} /\ due = {}
  BY DEF Launch, Working, LineageInv, ParentBlockedWhileChildDrives, DueStands,
         RowInv, TypeOK, ParentOver, ThreadTerminal
<1>3. /\ child'[c].status = "queued" /\ child'[c].call = call
      /\ \A b \in Children \ {c} : child'[b] = child[b]
      /\ child[c] = NoChild
  BY <1>1 DEF LineageInv, RowInv, LaunchShape, TypeOK, Launched
<1>4. LiveChildren' = {c} /\ Launched' = Launched \cup {c}
  BY <1>2, <1>3 DEF LiveChildren, Launched, ChildLive
<1>5. \A b \in Launched' : b <= c
  <2>1. PICK n \in 0..MaxLaunches : Launched = 1..n
    BY DEF LineageInv, RowInv, LaunchShape
  <2>2. c \in Nat /\ n < c
    BY <1>1, <2>1 DEF Children
  <2> QED BY <1>4, <2>1, <2>2
<1>6. LiveIsYoungest' /\ DueStands' /\ ParentBlockedWhileChildDrives'
  BY <1>2, <1>3, <1>4, <1>5
     DEF LiveIsYoungest, DueStands, ParentBlockedWhileChildDrives, Launch,
         LineageInv, RowInv, TypeOK
<1>7. AnswerStands'
  <2>1. \A d \in Drivers : run[d].pc # "idle" => run[d].child # c
    BY <1>1 DEF LineageInv, RowInv, RunShape
  <2> QED BY <1>4, <2>1 DEF AnswerStands, Launch
<1>8. VerdictMatchesSubmission'
  <2>1. \A k \in Calls : answers[k] # 0 => answers[k] # c
    BY <1>3 DEF LineageInv, VerdictMatchesSubmission, NoChild, Calls
  <2> QED
    BY <1>3, <2>1
       DEF LineageInv, VerdictMatchesSubmission, Launch, RowInv, TypeOK, Children
<1> QED BY <1>6, <1>7, <1>8 DEF LineageInv

\* A terminal commit answers the submission the execution resolved, which
\* stands for a child that still lives.
LEMMA CommitTerminalLineage ==
    ASSUME LineageInv, RowInv', NEW d \in Drivers, CommitTerminal(d)
    PROVE  LineageInv'
<1>1. run[d].child \in LiveChildren
  BY DEF CommitTerminal, CanEnd, LiveChildren, ChildLive, LineageInv, RowInv,
         RunShape, Launched
<1>2. run[d].call = child[run[d].child].call
  BY <1>1 DEF CommitTerminal, LineageInv, AnswerStands
<1>3. \A e \in Drivers : run'[e].pc = "answering" => run'[e] = run[e]
  BY DEF CommitTerminal, Idle, LineageInv, RowInv, TypeOK
<1> QED BY <1>1, <1>2, <1>3, EndChildLineage DEF CommitTerminal

\* So does a deferred death, which resolves the submission as it commits.
LEMMA DeferredDeathLineage ==
    ASSUME LineageInv, RowInv', NEW c \in Launched, NEW a,
           DeferredDeath(c, a, Awaited), UNCHANGED <<call, due>>,
           \A d \in Drivers : run'[d].pc = "answering" => run'[d] = run[d]
    PROVE  LineageInv'
<1>1. CASE CanEnd(c, a, Awaited) /\ EndChild(c, Awaited, "dead_letter")
  <2>1. c \in LiveChildren
    BY <1>1 DEF CanEnd, LiveChildren, Launched, ChildLive
  <2> QED BY <1>1, <2>1, LiveAwaited, EndChildLineage
<1>2. CASE UNCHANGED <<parent, answers, child>>
  BY <1>2, ExecLineage
<1> QED BY <1>1, <1>2 DEF DeferredDeath

LEMMA DriverStepLineage ==
    ASSUME LineageInv, RowInv', NEW d \in Drivers, DriverStep(d)
    PROVE  LineageInv'
<1>1. CASE \E c \in Children : ClaimDriver(d, c)
  <2>1. \A e \in Drivers : run'[e].pc = "answering" => run'[e] = run[e]
    BY <1>1 DEF ClaimDriver, LineageInv, RowInv, TypeOK
  <2> QED BY <1>1, <2>1, ExecLineage DEF ClaimDriver
<1>2. CASE StartChild(d)
  <2> DEFINE c == run[d].child
  <2>1. \A e \in Drivers : run'[e].pc = "answering" => run'[e] = run[e]
    BY <1>2 DEF StartChild, LineageInv, RowInv, TypeOK
  <2>2. CASE UNCHANGED child
    BY <1>2, <2>1, <2>2, ExecLineage DEF StartChild
  <2>3. CASE child[c].status = "queued" /\ child' = [child EXCEPT ![c].status = "running"]
    <3>1. c \in Launched
      BY <1>2 DEF StartChild, LineageInv, RowInv, RunShape
    <3>2. /\ \A b \in Children \ {c} : child'[b] = child[b]
          /\ child'[c].call = child[c].call /\ child'[c].status = "running"
      BY <2>3, <3>1 DEF LineageInv, RowInv, TypeOK, Launched
    <3> QED
      BY <1>2, <2>1, <2>3, <3>1, <3>2, ChildLineage DEF StartChild, ChildLive
  <2> QED BY <1>2, <2>2, <2>3 DEF StartChild
<1>3. CASE Resolve(d)
  <2>1. \A e \in Drivers : run'[e].pc = "answering" =>
            run'[e] = run[e] \/ run'[e].call = Awaited
    BY <1>3 DEF Resolve, LineageInv, RowInv, TypeOK
  <2> QED BY <1>3, <2>1, ExecLineage DEF Resolve
<1>4. CASE CommitTerminal(d)
  BY <1>4, CommitTerminalLineage
<1>5. CASE RefuseChild(d)
  <2>1. \A e \in Drivers : run'[e].pc = "answering" => run'[e] = run[e]
    BY <1>5 DEF RefuseChild, GiveUp, Idle, LineageInv, RowInv, TypeOK
  <2> QED BY <1>5, <2>1, ExecLineage DEF RefuseChild
<1>6. CASE Die(d)
  <2>1. \A e \in Drivers : run'[e].pc = "answering" => run'[e] = run[e]
    BY <1>6 DEF Die, Idle, LineageInv, RowInv, TypeOK
  <2>2. run[d].child \in Launched
    BY <1>6 DEF Die, LineageInv, RowInv, RunShape
  <2> QED BY <1>6, <2>1, <2>2, DeferredDeathLineage DEF Die
<1> QED BY <1>1, <1>2, <1>3, <1>4, <1>5, <1>6 DEF DriverStep

LEMMA FaultLineage ==
    ASSUME LineageInv, RowInv', NEW d \in Drivers,
           FailChild(d) \/ RejectChild(d) \/ Crash(d) \/ Stall(d) \/ Heartbeat(d)
    PROVE  LineageInv'
<1>1. \A e \in Drivers : run'[e].pc = "answering" => run'[e] = run[e]
  BY DEF FailChild, RejectChild, Crash, Stall, Heartbeat, GiveUp, Idle,
         LineageInv, RowInv, TypeOK
<1>2. UNCHANGED <<parent, call, answers, child, due>>
  BY DEF FailChild, RejectChild, Crash, Stall, Heartbeat
<1> QED BY <1>1, <1>2, ExecLineage

LEMMA PassLineage ==
    ASSUME LineageInv, RowInv',
           \/ ReclaimApply \/ CascadeLost \/ Cascade
           \/ \E c \in Children :
                 \/ Lapse(c) \/ ReclaimScan(c) \/ RequestCancelChild(c)
                 \/ OrphanJanitor(c) \/ CancelSweepChild(c)
    PROVE  LineageInv'
<1>1. CASE ReclaimApply
  <2>1. reclaim.child \in Launched
    BY <1>1 DEF ReclaimApply, LineageInv, RowInv, RunShape
  <2> QED
    BY <1>1, <2>1, DeferredDeathLineage, ExecLineage DEF ReclaimApply
<1>2. CASE CascadeLost \/ \E c \in Children : Lapse(c) \/ ReclaimScan(c)
  BY <1>2, ExecLineage DEF CascadeLost, Lapse, ReclaimScan
<1>3. CASE Cascade \/ \E c \in Children : RequestCancelChild(c) \/ OrphanJanitor(c)
  <2>1. /\ UNCHANGED <<parent, call, answers, run, due>>
        /\ \A c \in Children : /\ child'[c].status = child[c].status
                               /\ child'[c].call = child[c].call
    BY <1>3 DEF Cascade, RequestCancelChild, OrphanJanitor, LineageInv, RowInv, TypeOK
  <2>2. LiveChildren' = LiveChildren /\ Launched' = Launched /\ ParentOver' = ParentOver
    BY <2>1 DEF LiveChildren, Launched, ParentOver
  <2>3. VerdictMatchesSubmission'
    BY <2>1 DEF LineageInv, VerdictMatchesSubmission, RowInv, TypeOK, Children
  <2>4. AnswerStands'
    BY <2>1, <2>2 DEF LineageInv, AnswerStands, LiveChildren
  <2>5. ParentBlockedWhileChildDrives'
    BY <2>1, <2>2 DEF LineageInv, ParentBlockedWhileChildDrives, LiveChildren
  <2> QED
    BY <2>1, <2>2, <2>3, <2>4, <2>5 DEF LineageInv, LiveIsYoungest, DueStands
<1>4. ASSUME NEW c \in Children, CancelSweepChild(c) PROVE LineageInv'
  <2>1. /\ c \in Launched /\ child[c].status \in ChildLive
        /\ child'[c].status = "cancelled" /\ child'[c].call = child[c].call
        /\ \A b \in Children \ {c} : child'[b] = child[b]
    BY <1>4 DEF CancelSweepChild, Launched, ChildLive, LineageInv, RowInv, TypeOK
  <2> QED BY <1>4, <2>1, ChildLineage DEF CancelSweepChild
<1> QED BY <1>1, <1>2, <1>3, <1>4

\* A timer scan lists a thread that waits for its timer, and the wake of the
\* only sweeper finds it still waiting.
LEMMA TimerLineage ==
    ASSUME OneSweeper, LineageInv, RowInv', NEW s \in Sweepers,
           TimerScan(s) \/ TimerWake(s)
    PROVE  LineageInv'
<1>1. CASE TimerScan(s)
  BY <1>1, ExecLineage DEF TimerScan
<1>2. CASE TimerWake(s)
  <2>1. due' = {}
    BY <1>2 DEF TimerWake, OneSweeper, LineageInv, RowInv, TypeOK
  <2>2. CASE UNCHANGED parent
    BY <1>2, <2>1, <2>2, ExecLineage DEF TimerWake
  <2>3. CASE parent.status = "suspended"
    <3>1. parent.wake = "timer" /\ ~ParentOver
      BY <1>2, <2>3 DEF TimerWake, LineageInv, DueStands, ParentOver, ThreadTerminal
    <3>2. LiveChildren = {}
      BY <3>1 DEF LineageInv, ParentBlockedWhileChildDrives
    <3> QED BY <1>2, <2>1, <3>2, ParentLineage DEF TimerWake
  <2> QED BY <1>2, <2>2, <2>3 DEF TimerWake
<1> QED BY <1>1, <1>2

LEMMA InitLineage == ASSUME Init PROVE LineageInv
<1>1. RowInv
  BY InitRows
<1>2. LiveChildren = {}
  BY DEF Init, LiveChildren, NoChild, ChildLive
<1>3. AnswerStands /\ LiveIsYoungest /\ ParentBlockedWhileChildDrives
  BY <1>2 DEF Init, AnswerStands, LiveIsYoungest, ParentBlockedWhileChildDrives
<1>4. DueStands /\ VerdictMatchesSubmission
  BY DEF Init, DueStands, VerdictMatchesSubmission
<1> QED BY <1>1, <1>3, <1>4 DEF LineageInv

LEMMA NextLineage ==
    ASSUME OneSweeper, LineageInv, [Next]_vars PROVE LineageInv'
<1>1. RowInv'
  BY NextRows DEF LineageInv
<1>2. CASE UNCHANGED vars
  BY <1>1, <1>2, ExecLineage DEF vars
<1>3. CASE ParentStep \/ ReleaseParent \/ RequestCancelParent
  BY <1>1, <1>3, ParentStepLineage, LaunchLineage DEF ParentStep
<1>4. CASE SweepStep \/ CascadeLost \/ ReclaimApply
  BY <1>1, <1>4, ParentStepLineage, PassLineage DEF SweepStep
<1>5. ASSUME NEW d \in Drivers,
             \/ DriverStep(d) \/ FailChild(d) \/ RejectChild(d) \/ Crash(d)
             \/ Stall(d) \/ Heartbeat(d)
      PROVE  LineageInv'
  BY <1>1, <1>5, DriverStepLineage, FaultLineage
<1>6. ASSUME NEW c \in Children, Lapse(c) \/ ReclaimScan(c) \/ RequestCancelChild(c)
      PROVE  LineageInv'
  BY <1>1, <1>6, PassLineage
<1>7. ASSUME NEW s \in Sweepers, TimerScan(s) \/ TimerWake(s) PROVE LineageInv'
  BY <1>1, <1>7, TimerLineage
<1> QED
  BY <1>2, <1>3, <1>4, <1>5, <1>6, <1>7 DEF Next, Fault, Operator

-----------------------------------------------------------------------------
(* The waiter: a suspended thread keeps someone to resolve it.              *)

\* A step that leaves the parent, its submissions and the children alone.
LEMMA StillWaits ==
    ASSUME WaiterInv, LineageInv', UNCHANGED <<stage, parent, call, child>>
    PROVE  WaiterInv'
BY DEF WaiterInv, UncancelledInTriage, WaiterHasResolver, LiveChildren, ParentOver

\* A step after which the parent no longer waits for a child, and which
\* records no intent on one.
LEMMA NoLongerWaits ==
    ASSUME WaiterInv, LineageInv', stage' = stage, ParentOver => ParentOver',
           parent'.wake # "child",
           \A c \in LiveChildren' : c \in LiveChildren
                                    /\ child'[c].intent = child[c].intent
    PROVE  WaiterInv'
BY DEF WaiterInv, UncancelledInTriage, WaiterHasResolver

LEMMA ParentStepWaits ==
    ASSUME WaiterInv, LineageInv',
           \/ ClaimParent \/ ReleaseParent \/ Submit \/ SuspendOnBudget \/ Finish
           \/ DisposeParent \/ CancelSweepParent \/ StuckRelating
    PROVE  WaiterInv'
<1>1. child' = child /\ stage' = stage /\ LiveChildren' = LiveChildren
  BY DEF ClaimParent, ReleaseParent, Submit, SuspendOnBudget, Finish,
         DisposeParent, CancelSweepParent, StuckRelating, CancelParent,
         LiveChildren
<1>2. CASE ClaimParent \/ ReleaseParent \/ Submit \/ SuspendOnBudget
  <2>1. parent'.wake # "child" /\ ~ParentOver
    BY <1>2 DEF ClaimParent, ReleaseParent, Submit, SuspendOnBudget, Working,
                ParentOver, ThreadTerminal, WaiterInv, LineageInv, RowInv, TypeOK
  <2> QED BY <1>1, <2>1, NoLongerWaits
<1>3. CASE Finish \/ DisposeParent \/ CancelSweepParent \/ StuckRelating
  <2>1. ParentOver' /\ parent'.wake = "none"
    BY <1>3 DEF Finish, DisposeParent, CancelSweepParent, StuckRelating,
                CancelParent, EndParent, ParentOver, ThreadTerminal,
                WaiterInv, LineageInv, RowInv, TypeOK
  <2> QED BY <1>1, <2>1, NoLongerWaits
<1> QED BY <1>2, <1>3

LEMMA RequestCancelParentWaits ==
    ASSUME WaiterInv, LineageInv', RequestCancelParent PROVE WaiterInv'
<1>1. /\ parent'.intent /\ parent'.status = parent.status
      /\ UNCHANGED <<stage, child>>
  BY DEF RequestCancelParent, WaiterInv, LineageInv, RowInv, TypeOK
<1> QED
  BY <1>1
     DEF WaiterInv, UncancelledInTriage, WaiterHasResolver, LiveChildren, ParentOver

LEMMA LaunchWaits == ASSUME WaiterInv, LineageInv', Launch PROVE WaiterInv'
<1>1. PICK c \in Children \ Launched :
        child' = [child EXCEPT ![c] =
               [status |-> "queued", intent |-> FALSE, call |-> call]]
  BY DEF Launch
<1>2. /\ child'[c].status = "queued" /\ child'[c].call = call
      /\ ~child'[c].intent
      /\ \A b \in Children \ {c} : child'[b] = child[b]
  BY <1>1 DEF WaiterInv, LineageInv, RowInv, TypeOK
<1>3. LiveChildren' = LiveChildren \cup {c}
  BY <1>2 DEF LiveChildren, ChildLive
<1>4. ~ParentOver /\ stage' = stage /\ call' = call
  BY DEF Launch, Working, ParentOver, ThreadTerminal
<1>5. UncancelledInTriage'
  BY <1>2, <1>3, <1>4 DEF WaiterInv, UncancelledInTriage, LiveChildren
<1>6. WaiterHasResolver'
  BY <1>2, <1>3, <1>4 DEF WaiterHasResolver
<1> QED BY <1>5, <1>6 DEF WaiterInv

\* A child's end under its claim wakes a suspended parent.
LEMMA EndChildWaits ==
    ASSUME WaiterInv, LineageInv', NEW c \in Launched, NEW k,
           NEW s \in {"completed", "dead_letter"},
           EndChild(c, k, s), stage' = stage
    PROVE  WaiterInv'
<1>1. /\ child'[c].status = s
      /\ \A b \in Children \ {c} : child'[b] = child[b]
  BY DEF EndChild, WaiterInv, LineageInv, RowInv, TypeOK, Launched
<1>2. LiveChildren' = LiveChildren \ {c}
  BY <1>1 DEF LiveChildren, ChildLive
<1>3. /\ parent'.wake # "child"
      /\ ParentOver => ParentOver'
  BY DEF EndChild, HandBack, WaiterInv, LineageInv, RowInv, TypeOK, ParentOver,
         ThreadTerminal
<1> QED BY <1>1, <1>2, <1>3, NoLongerWaits DEF LiveChildren

LEMMA DeferredDeathWaits ==
    ASSUME WaiterInv, LineageInv', NEW c \in Launched, NEW a, NEW k,
           DeferredDeath(c, a, k), UNCHANGED <<stage, call>>
    PROVE  WaiterInv'
BY EndChildWaits, StillWaits DEF DeferredDeath

LEMMA DriverStepWaits ==
    ASSUME WaiterInv, LineageInv', NEW d \in Drivers, DriverStep(d)
    PROVE  WaiterInv'
<1>1. run[d].pc # "idle" => run[d].child \in Launched
  BY DEF WaiterInv, LineageInv, RowInv, RunShape
<1>2. CASE RefuseChild(d) \/ Resolve(d) \/ \E c \in Children : ClaimDriver(d, c)
  BY <1>2, StillWaits DEF RefuseChild, Resolve, ClaimDriver
<1>3. CASE StartChild(d)
  <2> DEFINE c == run[d].child
  <2>1. CASE UNCHANGED child
    BY <1>3, <2>1, StillWaits DEF StartChild
  <2>2. CASE child[c].status = "queued" /\ child' = [child EXCEPT ![c].status = "running"]
    <3>1. c \in Launched /\ UNCHANGED <<stage, parent, call>>
      BY <1>1, <1>3 DEF StartChild
    <3>2. /\ \A b \in Children \ {c} : child'[b] = child[b]
          /\ child'[c].status = "running" /\ child'[c].call = child[c].call
          /\ child'[c].intent = child[c].intent
      BY <2>2, <3>1 DEF WaiterInv, LineageInv, RowInv, TypeOK, Launched
    <3>3. LiveChildren' = LiveChildren
      BY <2>2, <3>2 DEF LiveChildren, ChildLive
    <3>4. \A b \in LiveChildren : child'[b].intent = child[b].intent
                                  /\ child'[b].call = child[b].call
      BY <3>2 DEF LiveChildren
    <3> QED
      BY <3>1, <3>3, <3>4
         DEF WaiterInv, UncancelledInTriage, WaiterHasResolver, ParentOver
  <2> QED BY <1>3, <2>1, <2>2 DEF StartChild
<1>4. CASE CommitTerminal(d)
  BY <1>1, <1>4, EndChildWaits DEF CommitTerminal
<1>5. CASE Die(d)
  BY <1>1, <1>5, DeferredDeathWaits DEF Die
<1> QED BY <1>2, <1>3, <1>4, <1>5 DEF DriverStep

\* An intent on a child of a live triage thread has no one to record it: its
\* operators may not, and a cascade or the janitor needs a parent that is over.
LEMMA PassWaits ==
    ASSUME "triage" \notin ChildCancel, WaiterInv, LineageInv',
           \/ ReclaimApply \/ CascadeLost \/ Cascade
           \/ \E c \in Children :
                 \/ Lapse(c) \/ ReclaimScan(c) \/ RequestCancelChild(c)
                 \/ OrphanJanitor(c) \/ CancelSweepChild(c)
    PROVE  WaiterInv'
<1>1. CASE ReclaimApply
  <2>1. reclaim.child \in Launched
    BY <1>1 DEF ReclaimApply, WaiterInv, LineageInv, RowInv, RunShape
  <2> QED BY <1>1, <2>1, DeferredDeathWaits, StillWaits DEF ReclaimApply
<1>2. CASE CascadeLost \/ \E c \in Children : Lapse(c) \/ ReclaimScan(c)
  BY <1>2, StillWaits DEF CascadeLost, Lapse, ReclaimScan
<1>3. CASE Cascade \/ \E c \in Children : RequestCancelChild(c) \/ OrphanJanitor(c)
  <2>1. /\ UNCHANGED <<stage, parent, call>>
        /\ \A c \in Children : /\ child'[c].status = child[c].status
                               /\ child'[c].call = child[c].call
    <3>1. CASE Cascade
      BY <3>1 DEF Cascade, WaiterInv, LineageInv, RowInv, TypeOK
    <3>2. ASSUME NEW c \in Children, RequestCancelChild(c) \/ OrphanJanitor(c)
          PROVE  /\ UNCHANGED <<stage, parent, call>>
                 /\ \A b \in Children : /\ child'[b].status = child[b].status
                                        /\ child'[b].call = child[b].call
      BY <3>2 DEF RequestCancelChild, OrphanJanitor, WaiterInv, LineageInv,
                  RowInv, TypeOK
    <3> QED BY <1>3, <3>1, <3>2
  <2>2. LiveChildren' = LiveChildren
    BY <2>1 DEF LiveChildren
  <2>3. stage = "triage" => ParentOver
    <3>1. CASE Cascade
      BY <3>1 DEF Cascade, WaiterInv, LineageInv, RowInv, ParentShape
    <3>2. ASSUME NEW c \in Children, RequestCancelChild(c)
          PROVE  stage # "triage"
      BY <3>2 DEF RequestCancelChild
    <3>3. ASSUME NEW c \in Children, OrphanJanitor(c) PROVE ParentOver
      BY <3>3 DEF OrphanJanitor, WaiterInv, LineageInv, RowInv,
                  ChildNeverOutlivesDriver
    <3> QED BY <1>3, <3>1, <3>2, <3>3
  <2>4. UncancelledInTriage'
    BY <2>1, <2>3 DEF UncancelledInTriage, ParentOver
  <2>5. WaiterHasResolver'
    BY <2>1, <2>2 DEF WaiterInv, WaiterHasResolver, LiveChildren
  <2> QED BY <2>4, <2>5 DEF WaiterInv
<1>4. ASSUME NEW c \in Children, CancelSweepChild(c) PROVE WaiterInv'
  <2>1. /\ child[c].status \in ChildLive /\ child[c].intent
        /\ child'[c].status = "cancelled" /\ UNCHANGED <<stage, parent, call>>
        /\ \A b \in Children \ {c} : child'[b] = child[b]
    BY <1>4 DEF CancelSweepChild, WaiterInv, LineageInv, RowInv, TypeOK
  <2>2. LiveChildren' = LiveChildren \ {c} /\ c \in LiveChildren
    BY <2>1 DEF LiveChildren, ChildLive
  <2>3. stage = "triage" => ParentOver
    BY <2>1, <2>2 DEF WaiterInv, UncancelledInTriage
  <2>4. UncancelledInTriage'
    BY <2>1, <2>3 DEF UncancelledInTriage, ParentOver
  <2>5. WaiterHasResolver'
    <3>1. stage = "triage" => parent.wake # "child"
      BY <2>3 DEF ParentOver, ThreadTerminal, WaiterInv, LineageInv, RowInv, TypeOK
    <3> QED
      BY <2>1, <3>1 DEF WaiterHasResolver, WaiterInv, LineageInv, RowInv, TypeOK
  <2> QED BY <2>4, <2>5 DEF WaiterInv
<1> QED BY <1>1, <1>2, <1>3, <1>4

LEMMA TimerWaits ==
    ASSUME WaiterInv, LineageInv', NEW s \in Sweepers,
           TimerScan(s) \/ TimerWake(s)
    PROVE  WaiterInv'
<1>1. CASE UNCHANGED parent
  BY <1>1, StillWaits DEF TimerScan, TimerWake
<1>2. CASE TimerWake(s) /\ parent.status = "suspended"
  <2>1. /\ parent'.wake = "none" \/ parent' = parent
        /\ child' = child /\ stage' = stage /\ ~ParentOver
    BY <1>2 DEF TimerWake, ParentOver, ThreadTerminal, WaiterInv, LineageInv,
                RowInv, TypeOK
  <2> QED
    BY <1>1, <1>2, <2>1, NoLongerWaits DEF LiveChildren, TimerWake
<1> QED BY <1>1, <1>2 DEF TimerScan, TimerWake

LEMMA NextWaits ==
    ASSUME OneSweeper, "triage" \notin ChildCancel, WaiterInv, [Next]_vars
    PROVE  WaiterInv'
<1>1. LineageInv'
  BY NextLineage DEF WaiterInv
<1>2. CASE UNCHANGED vars
  BY <1>1, <1>2, StillWaits DEF vars
<1>3. CASE ParentStep \/ ReleaseParent \/ RequestCancelParent
  BY <1>1, <1>3, ParentStepWaits, RequestCancelParentWaits, LaunchWaits
     DEF ParentStep
<1>4. CASE SweepStep \/ CascadeLost \/ ReclaimApply
  BY <1>1, <1>4, ParentStepWaits, PassWaits DEF SweepStep
<1>5. ASSUME NEW d \in Drivers,
             \/ DriverStep(d) \/ FailChild(d) \/ RejectChild(d) \/ Crash(d)
             \/ Stall(d) \/ Heartbeat(d)
      PROVE  WaiterInv'
  <2>1. CASE DriverStep(d)
    BY <1>1, <2>1, DriverStepWaits
  <2>2. CASE FailChild(d) \/ RejectChild(d) \/ Crash(d) \/ Stall(d) \/ Heartbeat(d)
    BY <1>1, <2>2, StillWaits
       DEF FailChild, RejectChild, Crash, Stall, Heartbeat
  <2> QED BY <1>5, <2>1, <2>2
<1>6. ASSUME NEW c \in Children, Lapse(c) \/ ReclaimScan(c) \/ RequestCancelChild(c)
      PROVE  WaiterInv'
  BY <1>1, <1>6, PassWaits
<1>7. ASSUME NEW s \in Sweepers, TimerScan(s) \/ TimerWake(s) PROVE WaiterInv'
  BY <1>1, <1>7, TimerWaits
<1> QED
  BY <1>2, <1>3, <1>4, <1>5, <1>6, <1>7 DEF Next, Fault, Operator

-----------------------------------------------------------------------------
(* The theorems.                                                            *)

LEMMA RowInvariance == Spec => []RowInv
<1>1. Init => RowInv
  BY InitRows
<1>2. RowInv /\ [Next]_vars => RowInv'
  BY NextRows
<1> QED BY <1>1, <1>2, PTL DEF Spec

LEMMA LineageInvariance == ASSUME OneSweeper PROVE Spec => []LineageInv
<1>1. Init => LineageInv
  BY InitLineage
<1>2. LineageInv /\ [Next]_vars => LineageInv'
  BY NextLineage
<1> QED BY <1>1, <1>2, PTL DEF Spec

\* Every row and every local state of the driver family keeps its type, for
\* every fleet (claims, terminals, reclaims, sweeps).
THEOREM DriverTypeCorrect == Spec => []TypeOK
<1>1. RowInv => TypeOK
  BY DEF RowInv
<1> QED BY <1>1, RowInvariance, PTL

\* A child thread lives exactly as long as its driver task, through every
\* terminal, death, requeue, reclaim and cancellation (commit_deferred_death,
\* cancel_thread), whatever the number of sweepers.
THEOREM ChildNeverOutlivesDriverHolds == Spec => []ChildNeverOutlivesDriver
<1>1. RowInv => ChildNeverOutlivesDriver
  BY DEF RowInv
<1> QED BY <1>1, RowInvariance, PTL

\* With one availability sweep, a parent stays blocked on its only live child,
\* so that a hand-back's requeue cannot miss it.
THEOREM ParentBlockedHolds ==
    ASSUME OneSweeper PROVE Spec => []ParentBlockedWhileChildDrives
<1>1. LineageInv => ParentBlockedWhileChildDrives
  BY DEF LineageInv
<1> QED BY <1>1, LineageInvariance, PTL

\* With one availability sweep, every result in the parent's log answers the
\* submission its child was launched for, whatever is reclaimed and re-driven.
THEOREM VerdictMatchesHolds ==
    ASSUME OneSweeper PROVE Spec => []VerdictMatchesSubmission
<1>1. LineageInv => VerdictMatchesSubmission
  BY DEF LineageInv
<1> QED BY <1>1, LineageInvariance, PTL

\* Where operators cancel no child of a triage thread, a thread suspended on a
\* child always has someone to resolve it.
THEOREM WaiterHasResolverHolds ==
    ASSUME OneSweeper, "triage" \notin ChildCancel
    PROVE  Spec => []WaiterHasResolver
<1>1. Init => WaiterInv
  <2> SUFFICES ASSUME Init PROVE WaiterInv
    OBVIOUS
  <2>1. LiveChildren = {} /\ parent.wake = "none"
    BY DEF Init, LiveChildren, NoChild, ChildLive
  <2> QED
    BY <2>1, InitLineage DEF WaiterInv, UncancelledInTriage, WaiterHasResolver
<1>2. WaiterInv /\ [Next]_vars => WaiterInv'
  BY NextWaits
<1>3. WaiterInv => WaiterHasResolver
  BY DEF WaiterInv
<1> QED BY <1>1, <1>2, <1>3, PTL DEF Spec
=============================================================================
