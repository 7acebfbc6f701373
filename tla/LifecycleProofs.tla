-------------------------- MODULE LifecycleProofs --------------------------
(* The safety of the lifecycle owner for every number of requests, every     *)
(* operation they may ask for, and every bound on faults and reports.  Owns  *)
(* is what the owner's loop keeps, whatever the runtime process does; one    *)
(* case analysis over its steps gives the invariant and what a client is     *)
(* told (Told).  Links is what the monitor of the running child and its      *)
(* queue keep beside it.                                                     *)
EXTENDS Lifecycle, TLAPS

-----------------------------------------------------------------------------
(* The inductive invariant.                                                  *)

Phases == {"ready", "unconfigured", "unavailable"}

OwnRow ==
    [mode : {"none", "running", "launching", "stopping", "cancelling",
             "parked", "unresponsive", "terminating"},
     phase : Phases, origin : Phases,
     intent : {"none", "start", "stop", "restart", "shutdown"},
     waiters : SUBSET Requests, wait : Requests \cup {Nobody},
     child : Procs \cup {Absent}, custody : BOOLEAN,
     attach : {"settled", "committing", "handshaking"},
     term : {"none", "awaiting", "requesting", "accepted", "forced"},
     expired : BOOLEAN, forced : BOOLEAN, finishing : BOOLEAN,
     linked : BOOLEAN, pending : BOOLEAN, saved : {"none", "clean", "pending"}]

\* What each mode of the owner holds.
OwnShape ==
    /\ own \in OwnRow
    /\ own.mode \notin {"launching", "stopping", "cancelling"} => own.waiters = {}
    /\ own.mode # "parked" => own.wait = Nobody
    /\ own.mode = "none" => own.child = Absent
    /\ own.mode \in {"running", "unresponsive"} => own.child \in Procs
    /\ own.mode \in {"launching", "cancelling", "parked"} => own.child \in Launches
    /\ own.saved = "clean" => ~own.pending

\* The waiters of an operation have been taken and not answered.
Heard ==
    /\ req \in [Requests -> Answers]
    /\ \A r \in own.waiters : req[r] = "waiting"
    /\ own.wait # Nobody => req[own.wait] = "waiting"

ProcRow ==
    [life : {"none", "alive", "gone"}, custody : {"none", "open", "closed"},
     control : {"none", "open", "closed"}, stopping : BOOLEAN, killed : BOOLEAN]

\* The child has been spawned.
Held ==
    /\ proc \in [Procs -> ProcRow]
    /\ \A p \in Procs : proc[p].life = "none" => proc[p] = Unborn
    /\ own.child # Absent => proc[own.child].life # "none"

TaskRow == [kind : {"commit", "connect", "early", "stop", "stopped", "parked"},
            proc : Procs, out : {"run", "ok", "err", "old"}]

\* A transition's document is read after its process has exited.
TasksFit ==
    /\ tasks \subseteq TaskRow
    /\ \A t \in tasks : t.kind = "parked" =>
            t.proc \in Launches /\ proc[t.proc].life = "gone" /\ t.out = "ok"

Sent == {r \in Requests : req[r] # "unsent"}
Born == {p \in Launches : proc[p].life # "none"}
Restarting == own.mode = "stopping" /\ own.intent = "restart"

\* Every launch has a request of its own, and a restart that has not launched
\* yet keeps one for it.
Charged ==
    \E sent, born \in 0..MaxRequests :
       /\ Sent = 1..sent /\ Born = 1..born
       /\ born <= sent /\ (Restarting => born < sent)

Owns ==
    /\ OwnShape /\ Heard /\ Held /\ TasksFit /\ Charged
    /\ latest \in {"clear", "blocked", "unavailable"}

-----------------------------------------------------------------------------
(* What a step may do.                                                       *)

\* A process once spawned stays so, and one that has exited stays so.
ProcMoves ==
    /\ proc' \in [Procs -> ProcRow]
    /\ \A p \in Procs :
          /\ proc'[p].life = "none" <=> proc[p].life = "none"
          /\ proc[p].life = "none" => proc'[p] = proc[p]
          /\ proc[p].life = "gone" => proc'[p].life = "gone"

\* No task of a transition's document is added.
TasksMove ==
    \A t \in tasks' : t \in tasks \/ (t \in TaskRow /\ t.kind # "parked")

\* No request is taken from the channel.
ReqMoves ==
    /\ req' \in [Requests -> Answers]
    /\ \A r \in Requests : req'[r] = "unsent" <=> req[r] = "unsent"

\* Who is answered had no answer yet, and the answer describes the owner.
Told ==
    \A r \in Requests : req'[r] # req[r] =>
       /\ req[r] \in {"unsent", "waiting"}
       /\ req'[r] = "stopped" => own'.mode = "none"
       /\ req'[r] = "started" => /\ own'.mode = "running" /\ own'.custody
                                 /\ Alive(own'.child)

\* No process is unborn, and a new child had no process before.
Fresh ==
    /\ \A p \in Procs : proc[p].life # "none" => proc'[p].life # "none"
    /\ \/ own'.child \in {own.child, Absent}
       \/ own'.child \in Procs /\ proc[own'.child].life = "none"

\* What every step is shown to do.
Sound ==
    /\ Owns'
    /\ LiveLaunchHeld /\ ~SlowReap => LiveLaunchHeld'
    /\ Told /\ Fresh

LEMMA Names ==
    /\ MaxRequests \in Nat
    /\ Requests = 1..MaxRequests /\ Launches = 1..MaxRequests
    /\ Nobody \notin Requests /\ Absent \notin Procs
    /\ Launches \subseteq Procs /\ 0 \in Procs /\ 0 \notin Launches
BY LifecycleAssumption DEF Requests, Launches, Nobody, Absent, Procs

\* Processes that only move keep what is said of them.
LEMMA MovedProcs ==
    ASSUME Owns, ProcMoves, own'.child \in {own.child, Absent}
    PROVE  Held' /\ Born' = Born
<1>1. Held'
  <2>1. proc' \in [Procs -> ProcRow]
    BY DEF ProcMoves
  <2>2. \A p \in Procs : proc'[p].life = "none" => proc'[p] = Unborn
    BY DEF Owns, Held, ProcMoves
  <2>3. own.child \in Procs \cup {Absent}
    BY DEF Owns, OwnShape, OwnRow
  <2>4. own'.child # Absent => proc'[own'.child].life # "none"
    BY <2>3 DEF Owns, Held, ProcMoves
  <2> QED
    BY <2>1, <2>2, <2>4 DEF Held
<1>2. Born' = Born
  BY Names DEF ProcMoves, Born
<1> QED
  BY <1>1, <1>2

LEMMA MovedTasks ==
    ASSUME Owns, ProcMoves, TasksMove
    PROVE  TasksFit'
BY Names DEF Owns, TasksFit, ProcMoves, TasksMove

\* A live launch stays the child, or its process has exited.
LEMMA StillHeld ==
    ASSUME Owns, ProcMoves, LiveLaunchHeld,
           \/ own'.child = own.child
           \/ own'.child = Absent /\ (own.child \in Launches =>
                                        proc'[own.child].life # "alive")
    PROVE  LiveLaunchHeld'
<1> SUFFICES ASSUME NEW p \in Launches, proc'[p].life = "alive"
             PROVE  own'.child = p
  BY DEF LiveLaunchHeld, Alive
<1>1. proc[p] \in ProcRow /\ p \in Procs
  BY Names DEF Owns, Held
<1>2. proc[p].life = "alive"
  BY <1>1 DEF ProcMoves, ProcRow
<1>3. own.child = p
  BY <1>1, <1>2 DEF LiveLaunchHeld, Alive
<1> QED
  BY <1>3

\* The steps after a request was taken: the owner keeps its child, or lets go
\* of one whose process has exited.
LEMMA OwnerStep ==
    ASSUME Owns, OwnShape', Heard', ProcMoves, ReqMoves, TasksMove,
           latest' \in {"clear", "blocked", "unavailable"},
           Restarting' => Restarting,
           \/ own'.child = own.child
           \/ own'.child = Absent /\ (own.child \in Launches /\ ~SlowReap =>
                                        proc'[own.child].life # "alive"),
           Told
    PROVE  Sound
<1>1. Held' /\ Born' = Born
  BY MovedProcs
<1>2. Sent' = Sent
  BY DEF ReqMoves, Sent
<1>3. Charged'
  BY <1>1, <1>2 DEF Owns, Charged
<1>4. ASSUME LiveLaunchHeld, ~SlowReap PROVE LiveLaunchHeld'
  BY <1>4, StillHeld
<1>5. Fresh
  BY DEF ProcMoves, Fresh
<1> QED
  BY <1>1, <1>3, <1>4, <1>5, MovedTasks DEF Sound, Owns

\* The steps of the world, which the owner has not seen yet.
LEMMA WorldStep ==
    ASSUME Owns, UNCHANGED <<own, req, latest>>, ProcMoves, TasksMove
    PROVE  Sound
<1>1. OwnShape' /\ Heard' /\ ReqMoves /\ (Restarting' => Restarting) /\ Told
  BY DEF Owns, OwnShape, Heard, ReqMoves, Restarting, Told
<1> QED
  BY <1>1, OwnerStep DEF Owns

\* The steps that take request r from the channel.
LEMMA AdmitStep ==
    ASSUME Owns, NEW r \in Requests, req[r] = "unsent",
           \A q \in 1..(r - 1) : req[q] # "unsent",
           req' \in [Requests -> Answers], req'[r] # "unsent",
           \A q \in Requests \ {r} : req'[q] = "unsent" <=> req[q] = "unsent",
           OwnShape', Heard', ProcMoves, TasksMove, UNCHANGED latest,
           own'.child = own.child, Told
    PROVE  Sound /\ Sent' = 1..r
<1>1. Held' /\ Born' = Born
  BY MovedProcs
<1>2. PICK sent, born \in 0..MaxRequests :
         /\ Sent = 1..sent /\ Born = 1..born /\ born <= sent
  BY DEF Owns, Charged
<1>3. r = sent + 1
  <2>1. r \notin Sent /\ \A q \in 1..(r - 1) : q \in Sent
    BY Names DEF Sent
  <2>2. r \notin 1..sent /\ \A q \in 1..(r - 1) : q \in 1..sent
    BY <1>2, <2>1
  <2>3. r \in Nat /\ sent \in Nat /\ r >= 1
    BY Names
  <2>4. sent < r
    BY <2>2, <2>3
  <2>5. r = 1 \/ r - 1 <= sent
    BY <2>2, <2>3
  <2> QED
    BY <2>3, <2>4, <2>5
<1>4. Sent' = Sent \cup {r}
  BY DEF Sent
<1>5. Sent' = 1..r
  BY <1>2, <1>3, <1>4
<1>6. Charged'
  <2>1. r \in 0..MaxRequests /\ born <= r /\ born < r
    BY <1>2, <1>3, Names
  <2> QED
    BY <1>1, <1>2, <1>5, <2>1 DEF Charged
<1>7. ASSUME LiveLaunchHeld, ~SlowReap PROVE LiveLaunchHeld'
  BY <1>7, StillHeld
<1>8. Fresh
  BY DEF ProcMoves, Fresh
<1> QED
  BY <1>1, <1>5, <1>6, <1>7, <1>8, MovedTasks DEF Sound, Owns

-----------------------------------------------------------------------------
(* The runtime, the clock, readiness and the link.                           *)

\* A process that is alive or gone, and stays or goes.
LEMMA OneProcess ==
    ASSUME Owns, NEW p \in Procs, NEW row \in ProcRow,
           proc[p].life # "none", row.life \in {proc[p].life, "gone"},
           proc' = [proc EXCEPT ![p] = row]
    PROVE  ProcMoves
<1>1. proc \in [Procs -> ProcRow]
  BY DEF Owns, Held
<1>2. \A q \in Procs : proc'[q] = IF q = p THEN row ELSE proc[q]
  BY <1>1
<1>3. proc' \in [Procs -> ProcRow]
  BY <1>1
<1>4. row.life = "none" <=> proc[p].life = "none"
  BY DEF ProcRow
<1> QED
  BY <1>2, <1>3, <1>4 DEF ProcMoves

LEMMA SameProcs == ASSUME Owns, proc' = proc PROVE ProcMoves
BY DEF Owns, Held, ProcMoves

LEMMA ProcFields ==
    ASSUME Owns, NEW p \in Procs
    PROVE  /\ proc[p] \in ProcRow
           /\ [proc[p] EXCEPT !.custody = "open"] \in ProcRow
           /\ [proc[p] EXCEPT !.custody = "open"].life = proc[p].life
           /\ [proc[p] EXCEPT !.custody = "closed"] \in ProcRow
           /\ [proc[p] EXCEPT !.custody = "closed"].life = proc[p].life
           /\ [proc[p] EXCEPT !.control = "open"] \in ProcRow
           /\ [proc[p] EXCEPT !.control = "open"].life = proc[p].life
           /\ [proc[p] EXCEPT !.control = "closed"] \in ProcRow
           /\ [proc[p] EXCEPT !.control = "closed"].life = proc[p].life
           /\ [proc[p] EXCEPT !.stopping = TRUE] \in ProcRow
           /\ [proc[p] EXCEPT !.stopping = TRUE].life = proc[p].life
           /\ [proc[p] EXCEPT !.killed = TRUE] \in ProcRow
           /\ [proc[p] EXCEPT !.killed = TRUE].life = proc[p].life
           /\ Gone(proc[p]) \in ProcRow /\ Gone(proc[p]).life = "gone"
<1>1. proc[p] \in ProcRow
  BY DEF Owns, Held
<1> QED
  BY <1>1 DEF ProcRow, Gone, Unborn, Closed

LEMMA TaskRunsSound ==
    ASSUME Owns, NEW t \in tasks, TaskRuns(t)
    PROVE  Sound
<1>1. t \in TaskRow /\ t.proc \in Procs /\ t.kind # "parked"
  BY DEF Owns, TasksFit, TaskRow, TaskRuns
<1>2. TasksMove
  <2>1. PICK out \in {"ok", "old", "err"} :
           tasks' = (tasks \ {t}) \cup {[t EXCEPT !.out = out]}
    BY DEF TaskRuns, Ends
  <2>2. [t EXCEPT !.out = out] \in TaskRow /\ [t EXCEPT !.out = out].kind # "parked"
    BY <1>1, <2>1 DEF TaskRow
  <2> QED
    BY <2>1, <2>2 DEF TasksMove
<1>3. ProcMoves
  <2> DEFINE p == t.proc
  <2>1. CASE proc' = proc
    BY <2>1, SameProcs
  <2>2. CASE Serves(p) /\ \E row \in {[proc[p] EXCEPT !.custody = "open"],
                                       [proc[p] EXCEPT !.control = "open"],
                                       [proc[p] EXCEPT !.stopping = TRUE]} :
                             proc' = [proc EXCEPT ![p] = row]
    <3>1. PICK row \in {[proc[p] EXCEPT !.custody = "open"],
                        [proc[p] EXCEPT !.control = "open"],
                        [proc[p] EXCEPT !.stopping = TRUE]} :
             proc' = [proc EXCEPT ![p] = row]
      BY <2>2
    <3>2. row \in ProcRow /\ row.life = proc[p].life
      BY <1>1, <3>1, ProcFields
    <3>3. proc[p].life # "none"
      BY <2>2 DEF Serves, Alive
    <3> QED
      BY <1>1, <3>1, <3>2, <3>3, OneProcess
  <2>3. \/ proc' = proc
        \/ Serves(p) /\ \E row \in {[proc[p] EXCEPT !.custody = "open"],
                                    [proc[p] EXCEPT !.control = "open"],
                                    [proc[p] EXCEPT !.stopping = TRUE]} :
                           proc' = [proc EXCEPT ![p] = row]
    BY <1>1 DEF TaskRuns
  <2> QED
    BY <2>1, <2>2, <2>3
<1> QED
  BY <1>2, <1>3, WorldStep DEF TaskRuns

LEMMA StopRequestSound ==
    ASSUME Owns, NEW t \in tasks, StopRequest(t)
    PROVE  Sound
<1>1. t.proc \in Procs
  BY DEF Owns, TasksFit, TaskRow
<1>2. TasksMove
  BY DEF StopRequest, TasksMove
<1>3. ProcMoves
  <2>1. CASE proc' = proc
    BY <2>1, SameProcs
  <2>2. CASE Alive(t.proc) /\ proc' = [proc EXCEPT ![t.proc].stopping = TRUE]
    <3>1. PICK row : row = [proc[t.proc] EXCEPT !.stopping = TRUE]
      OBVIOUS
    <3>2. row \in ProcRow /\ row.life = proc[t.proc].life
      BY <1>1, <3>1, ProcFields
    <3>3. proc' = [proc EXCEPT ![t.proc] = row] /\ proc[t.proc].life # "none"
      BY <2>2, <3>1 DEF Alive
    <3> QED
      BY <1>1, <3>2, <3>3, OneProcess
  <2> QED
    BY <2>1, <2>2 DEF StopRequest
<1> QED
  BY <1>2, <1>3, WorldStep DEF StopRequest

LEMMA ExitsSound ==
    ASSUME Owns, NEW p \in Procs, Exits(p) \/ Disturbed(p)
    PROVE  Sound
<1>1. proc[p].life # "none" /\ UNCHANGED <<own, req, latest, tasks>>
  BY DEF Exits, Disturbed, Serves, Alive
<1>2. PICK row \in {Gone(proc[p]), [proc[p] EXCEPT !.custody = "closed"],
                    [proc[p] EXCEPT !.control = "closed"],
                    [proc[p] EXCEPT !.stopping = TRUE]} :
         proc' = [proc EXCEPT ![p] = row]
  BY DEF Exits, Disturbed
<1>3. row \in ProcRow /\ row.life \in {proc[p].life, "gone"}
  <2>1. CASE row = Gone(proc[p])
    BY <2>1, ProcFields
  <2>2. CASE row = [proc[p] EXCEPT !.custody = "closed"]
    BY <2>2, ProcFields
  <2>3. CASE row = [proc[p] EXCEPT !.control = "closed"]
    BY <2>3, ProcFields
  <2>4. CASE row = [proc[p] EXCEPT !.stopping = TRUE]
    BY <2>4, ProcFields
  <2> QED
    BY <1>2, <2>1, <2>2, <2>3, <2>4
<1>4. ProcMoves
  BY <1>1, <1>2, <1>3, OneProcess
<1> QED
  BY <1>1, <1>4, WorldStep DEF TasksMove

LEMMA MonitorSound == ASSUME Owns, Monitor PROVE Sound
<1> DEFINE p == own.child
<1>1. p \in Procs /\ UNCHANGED <<own, req, latest, tasks>>
  BY DEF Monitor
<1>2. ProcMoves
  <2>1. CASE proc' = proc
    BY <2>1, SameProcs
  <2>2. CASE Alive(p) /\ proc' = [proc EXCEPT ![p].control = "open"]
    <3>1. PICK row : row = [proc[p] EXCEPT !.control = "open"]
      OBVIOUS
    <3>2. row \in ProcRow /\ row.life = proc[p].life
      BY <1>1, <3>1, ProcFields
    <3>3. proc' = [proc EXCEPT ![p] = row] /\ proc[p].life # "none"
      BY <2>2, <3>1 DEF Alive
    <3> QED
      BY <1>1, <3>2, <3>3, OneProcess
  <2> QED
    BY <2>1, <2>2 DEF Monitor
<1> QED
  BY <1>1, <1>2, WorldStep DEF TasksMove

\* The operation under way stays the same one.
LEMMA StillUnderWay ==
    ASSUME Owns, OwnShape', UNCHANGED req, ProcMoves, TasksMove,
           latest' \in {"clear", "blocked", "unavailable"},
           own'.waiters = own.waiters, own'.wait = own.wait,
           own'.child = own.child, own'.mode = own.mode,
           own'.intent = own.intent \/ own.mode # "stopping"
    PROVE  Sound
<1>1. Heard' /\ ReqMoves
  BY DEF Owns, Heard, ReqMoves
<1>2. Told /\ (Restarting' => Restarting)
  BY DEF Told, Restarting
<1> QED
  BY <1>1, <1>2, OwnerStep

\* Time passes, a report arrives, a document is read or the link is heard of.
LEMMA SameOperation ==
    ASSUME Owns, OwnShape', UNCHANGED <<req, proc, tasks>>,
           latest' \in {"clear", "blocked", "unavailable"},
           own'.waiters = own.waiters, own'.wait = own.wait,
           own'.child = own.child, own'.mode = own.mode,
           own'.intent = own.intent \/ own.mode # "stopping"
    PROVE  Sound
<1>1. ProcMoves /\ TasksMove
  BY SameProcs DEF TasksMove
<1> QED
  BY <1>1, StillUnderWay

LEMMA IdleShape ==
    ASSUME NEW phase \in Phases
    PROVE  /\ Idle(phase) \in OwnRow
           /\ Idle(phase).mode = "none" /\ Idle(phase).intent = "none"
           /\ Idle(phase).waiters = {} /\ Idle(phase).wait = Nobody
           /\ Idle(phase).child = Absent /\ Idle(phase).saved = "none"
           /\ ~Idle(phase).pending
BY DEF Idle, OwnRow

LEMMA PhaseType ==
    /\ \A readiness : Phase(readiness) \in Phases
    /\ \A document : PhaseOf(document) \in Phases
    /\ Owns => \A document : AfterDocument(document) \in
                                {"clear", "blocked", "unavailable"}
BY DEF Phase, Phases, PhaseOf, AfterDocument, Owns

\* With no runtime, the snapshot alone changes.
LEMMA IdleAgain ==
    ASSUME Owns, NEW phase \in Phases, own.mode = "none", own' = Idle(phase),
           UNCHANGED <<req, proc, tasks>>,
           latest' \in {"clear", "blocked", "unavailable"}
    PROVE  Sound
<1>1. OwnShape'
  BY IdleShape DEF OwnShape
<1>2. /\ own.waiters = {} /\ own.wait = Nobody /\ own.child = Absent
  BY DEF Owns, OwnShape
<1> QED
  BY <1>1, <1>2, IdleShape, SameOperation

LEMMA ExpireSound == ASSUME Owns, Expire PROVE Sound
<1>1. own \in OwnRow /\ own' = [own EXCEPT !.expired = TRUE]
  BY DEF Owns, OwnShape, Expire
<1>2. OwnShape'
  BY <1>1 DEF Owns, OwnShape, OwnRow
<1>3. /\ own'.waiters = own.waiters /\ own'.wait = own.wait
      /\ own'.child = own.child /\ own'.mode = own.mode
      /\ own'.intent = own.intent /\ own'.pending = own.pending
  BY <1>1 DEF OwnRow
<1> QED
  BY <1>2, <1>3, SameOperation DEF Expire, Owns

LEMMA LinkEventSound == ASSUME Owns, LinkEvent PROVE Sound
<1>1. own \in OwnRow
  BY DEF Owns, OwnShape
<1>2. \/ own' = own
      \/ /\ own.mode = "running" /\ own.saved = "none"
         /\ own' = [own EXCEPT !.saved = IF own.pending THEN "pending" ELSE "clean"]
      \/ /\ own.mode = "running"
         /\ own' = [own EXCEPT !.pending = own.saved = "pending", !.saved = "none"]
  BY DEF LinkEvent
<1>3. UNCHANGED <<req, proc, tasks, latest>>
  BY DEF LinkEvent
<1>4. CASE own' = own
  BY <1>3, <1>4, WorldStep, SameProcs DEF TasksMove
<1>5. CASE /\ own.mode = "running" /\ own.saved = "none"
           /\ own' = [own EXCEPT !.saved = IF own.pending THEN "pending" ELSE "clean"]
  <2>1. OwnShape'
    BY <1>1, <1>5 DEF Owns, OwnShape, OwnRow
  <2>2. /\ own'.waiters = own.waiters /\ own'.wait = own.wait
        /\ own'.child = own.child /\ own'.mode = own.mode
        /\ own'.intent = own.intent /\ own'.pending = own.pending
    BY <1>1, <1>5 DEF OwnRow
  <2> QED
    BY <1>3, <2>1, <2>2, SameOperation DEF Owns
<1>6. CASE /\ own.mode = "running"
           /\ own' = [own EXCEPT !.pending = own.saved = "pending", !.saved = "none"]
  <2> DEFINE still == own.saved = "pending"
  <2>0. still \in BOOLEAN /\ own' = [own EXCEPT !.pending = still, !.saved = "none"]
    BY <1>6
  <2> HIDE DEF still
  <2>1. OwnShape'
    <3>1. own' \in OwnRow
      BY <1>1, <2>0 DEF OwnRow
    <3>2. /\ own'.waiters = own.waiters /\ own'.wait = own.wait
          /\ own'.child = own.child /\ own'.mode = own.mode
          /\ own'.saved = "none"
      BY <1>1, <2>0 DEF OwnRow
    <3> QED
      BY <3>1, <3>2 DEF Owns, OwnShape
  <2>2. /\ own'.waiters = own.waiters /\ own'.wait = own.wait
        /\ own'.child = own.child /\ own'.mode = own.mode
        /\ own'.intent = own.intent
    BY <1>1, <2>0 DEF OwnRow
  <2> QED
    BY <1>3, <2>1, <2>2, SameOperation DEF Owns
<1> QED
  BY <1>2, <1>4, <1>5, <1>6

LEMMA ReportSound == ASSUME Owns, Report PROVE Sound
<1>1. own \in OwnRow /\ UNCHANGED <<req, proc, tasks>>
  BY DEF Owns, OwnShape, Report
<1>2. ASSUME NEW report \in {"clear", "blocked"}, Readiness(report)
      PROVE  Sound
  <2>1. CASE own.mode = "none"
    BY <1>1, <1>2, <2>1, IdleAgain, PhaseType DEF Readiness
  <2>2. CASE own.mode # "none"
    <3>1. own' = own /\ latest' \in {"clear", "blocked", "unavailable"}
      BY <1>2, <2>2 DEF Readiness
    <3>2. OwnShape'
      BY <3>1 DEF Owns, OwnShape
    <3> QED
      BY <1>1, <3>1, <3>2, SameOperation
  <2> QED
    BY <2>1, <2>2
<1>3. CASE ReadinessUnavailable
  <2>1. latest' = "unavailable" /\ "unavailable" \in Phases
    BY <1>3 DEF ReadinessUnavailable, Phases
  <2>2. CASE own.mode = "none" /\ own' = Idle("unavailable")
    BY <1>1, <2>1, <2>2, IdleAgain
  <2>3. CASE own' = own
    <3>1. OwnShape'
      BY <2>3 DEF Owns, OwnShape
    <3> QED
      BY <1>1, <2>1, <2>3, <3>1, SameOperation
  <2> QED
    BY <1>3, <2>2, <2>3 DEF ReadinessUnavailable
<1>4. CASE ConfigChanged
  <2>1. CASE own' = own /\ latest' = latest
    BY <1>1, <2>1, WorldStep, SameProcs DEF TasksMove
  <2>2. CASE /\ own.mode = "running" /\ latest' = latest
             /\ own' = [own EXCEPT !.pending = TRUE,
                                   !.saved = IF @ = "none" THEN @ ELSE "pending"]
    <3>1. OwnShape'
      BY <1>1, <2>2 DEF Owns, OwnShape, OwnRow
    <3>2. /\ own'.waiters = own.waiters /\ own'.wait = own.wait
          /\ own'.child = own.child /\ own'.mode = own.mode
          /\ own'.intent = own.intent
      BY <1>1, <2>2 DEF OwnRow
    <3> QED
      BY <1>1, <2>2, <3>1, <3>2, SameOperation DEF Owns
  <2> QED
    BY <1>4, <2>1, <2>2 DEF ConfigChanged
<1> QED
  BY <1>2, <1>3, <1>4 DEF Report

LEMMA DocumentReadSound == ASSUME Owns, DocumentRead PROVE Sound
<1>1. UNCHANGED <<req, proc, tasks>>
  BY DEF DocumentRead
<1>2. CASE UNCHANGED <<latest, own>>
  BY <1>1, <1>2, WorldStep, SameProcs DEF TasksMove
<1>3. CASE own.mode = "none" /\ \E document \in Documents :
              latest' = AfterDocument(document) /\ own' = Idle(PhaseOf(document))
  BY <1>1, <1>3, IdleAgain, PhaseType
<1> QED
  BY <1>2, <1>3 DEF DocumentRead

-----------------------------------------------------------------------------
(* Where an operation ends.                                                  *)

\* The owner settles without a runtime and answers its waiters.
LEMMA EndShape ==
    ASSUME Owns, NEW phase \in Phases, own' = Idle(phase),
           NEW who, who \subseteq own.waiters \cup {own.wait},
           NEW ans \in {"declined", "stopped", "shutting_down"},
           req' = Answer(who, ans)
    PROVE  /\ OwnShape' /\ Heard' /\ ReqMoves /\ Told
           /\ own'.child = Absent /\ ~Restarting'
<1>1. OwnShape' /\ own'.child = Absent /\ ~Restarting' /\ own'.mode = "none"
      /\ own'.waiters = {} /\ own'.wait = Nobody
  BY IdleShape DEF OwnShape, Restarting
<1>2. req \in [Requests -> Answers]
  BY DEF Owns, Heard
<1>3. \A r \in Requests : req'[r] = IF r \in who THEN ans ELSE req[r]
  BY DEF Answer
<1>4. \A r \in Requests : r \in who => req[r] = "waiting"
  BY Names DEF Owns, Heard
<1>5. req' \in [Requests -> Answers]
  BY <1>2 DEF Answer, Answers
<1> QED
  BY <1>1, <1>3, <1>4, <1>5 DEF Heard, ReqMoves, Told

\* An operation ends and the child, if there was one, is known to have exited.
LEMMA EndStep ==
    ASSUME Owns, NEW phase \in Phases, own' = Idle(phase),
           NEW who, who \subseteq own.waiters \cup {own.wait},
           NEW ans \in {"declined", "stopped", "shutting_down"},
           req' = Answer(who, ans), ProcMoves, TasksMove,
           latest' \in {"clear", "blocked", "unavailable"},
           own.child \in Launches /\ ~SlowReap => proc'[own.child].life # "alive"
    PROVE  Sound
<1>1. /\ OwnShape' /\ Heard' /\ ReqMoves /\ Told
      /\ own'.child = Absent /\ ~Restarting'
  BY EndShape
<1> QED
  BY <1>1, OwnerStep

\* The manager terminates.
LEMMA TerminateStep ==
    ASSUME Owns, NEW child, NEW custody \in BOOLEAN, Terminate(child, custody),
           ProcMoves, TasksMove, UNCHANGED latest,
           \/ child = own.child
           \/ child = Absent /\ (own.child \in Launches =>
                                   proc'[own.child].life # "alive")
    PROVE  Sound
<1>1. own \in OwnRow /\ own.phase \in Phases /\ own.child \in Procs \cup {Absent}
  BY DEF Owns, OwnShape, OwnRow
<1>2. PICK idle : idle = Idle(own.phase)
  OBVIOUS
<1>3. /\ idle \in OwnRow /\ idle.waiters = {} /\ idle.wait = Nobody
      /\ idle.saved = "none" /\ ~idle.pending
  BY <1>1, <1>2, IdleShape
<1>4. own' = [idle EXCEPT !.mode = "terminating", !.child = child,
                          !.custody = custody]
  BY <1>2 DEF Terminate
<1>5. /\ own' \in OwnRow /\ own'.mode = "terminating" /\ own'.child = child
      /\ own'.waiters = {} /\ own'.wait = Nobody
      /\ own'.saved = "none" /\ ~own'.pending
  BY <1>1, <1>3, <1>4 DEF OwnRow
<1>6. OwnShape' /\ ~Restarting'
  BY <1>5 DEF OwnShape, Restarting
<1>7. req \in [Requests -> Answers]
  BY DEF Owns, Heard
<1>8. PICK who : who = own.waiters \cup {own.wait}
  OBVIOUS
<1>9. \A r \in Requests : req'[r] = IF r \in who THEN "declined" ELSE req[r]
  BY <1>8 DEF Terminate, Answer
<1>10. \A r \in Requests : r \in who => req[r] = "waiting"
  BY <1>8, Names DEF Owns, Heard
<1>11. req' \in [Requests -> Answers]
  BY <1>7 DEF Terminate, Answer, Answers
<1>12. Heard' /\ ReqMoves /\ Told
  BY <1>5, <1>9, <1>10, <1>11 DEF Heard, ReqMoves, Told
<1> QED
  BY <1>5, <1>6, <1>12, OwnerStep DEF Owns

\* Waiters of the operation hear its end.
LEMMA AnswerFacts ==
    ASSUME Owns, NEW who, who \subseteq own.waiters \cup {own.wait},
           NEW ans \in {"declined", "stopped", "shutting_down", "started"},
           req' = Answer(who, ans)
    PROVE  /\ ReqMoves
           /\ \A r \in Requests : req'[r] = IF r \in who THEN ans ELSE req[r]
           /\ \A r \in Requests : r \in who => req[r] = "waiting"
<1>1. req \in [Requests -> Answers]
  BY DEF Owns, Heard
<1>2. \A r \in Requests : req'[r] = IF r \in who THEN ans ELSE req[r]
  BY DEF Answer
<1>3. \A r \in Requests : r \in who => req[r] = "waiting"
  BY Names DEF Owns, Heard
<1>4. req' \in [Requests -> Answers]
  BY <1>1 DEF Answer, Answers
<1> QED
  BY <1>2, <1>3, <1>4 DEF ReqMoves

LEMMA KillMoves ==
    ASSUME Owns, NEW p \in Procs, proc[p].life # "none", proc' = Kill(p)
    PROVE  ProcMoves
<1>1. PICK row : row = [proc[p] EXCEPT !.killed = TRUE]
  OBVIOUS
<1>2. row \in ProcRow /\ row.life = proc[p].life
  BY <1>1, ProcFields
<1>3. proc' = [proc EXCEPT ![p] = row]
  BY <1>1 DEF Kill
<1> QED
  BY <1>2, <1>3, OneProcess

\* What the owner knows of its child.
LEMMA ChildFacts ==
    ASSUME Owns
    PROVE  /\ own \in OwnRow /\ own.phase \in Phases /\ own.origin \in Phases
           /\ Phase(latest) \in Phases
           /\ own.child \in Procs \cup {Absent}
           /\ own.waiters \subseteq Requests
           /\ own.child # Absent => proc[own.child].life # "none"
           /\ own.mode \in {"running", "unresponsive"} => own.child \in Procs
           /\ own.mode \in {"launching", "cancelling", "parked"} =>
                  own.child \in Launches /\ own.child \in Procs
           /\ own.child \in Launches => own.child \in Procs /\ own.child # 0
           /\ ChildExited /\ own.child \in Launches => proc[own.child].life = "gone"
           /\ Exited(own.child) => proc[own.child].life = "gone"
BY Names, PhaseType
   DEF Owns, OwnShape, OwnRow, Held, ChildExited, Exited

-----------------------------------------------------------------------------
(* The look at the process.                                                  *)

LEMMA PollLaunchingSound ==
    ASSUME Owns, PollLaunching PROVE Sound
<1>1. ProcMoves /\ own.mode = "launching" /\ UNCHANGED latest
  BY SameProcs DEF PollLaunching
<1>2. CASE Terminate(own.child, TRUE) /\ UNCHANGED tasks
  BY <1>1, <1>2, TerminateStep DEF TasksMove
<1>3. CASE Exited(own.child) /\ LaunchFailed /\ tasks' = Aborted
  <2>1. TasksMove
    BY <1>3 DEF Aborted, TasksMove
  <2>2. proc'[own.child].life # "alive"
    BY <1>3, ChildFacts DEF PollLaunching
  <2> QED
    BY <1>1, <1>3, <2>1, <2>2, EndStep, ChildFacts DEF LaunchFailed, Owns
<1> QED
  BY <1>2, <1>3 DEF PollLaunching

LEMMA PollManagedSound ==
    ASSUME Owns, PollManaged PROVE Sound
<1>1. ProcMoves /\ TasksMove /\ own.mode \in {"running", "unresponsive"}
  BY SameProcs DEF PollManaged, TasksMove
<1>2. CASE Terminate(own.child, TRUE) /\ UNCHANGED latest
  BY <1>1, <1>2, TerminateStep
<1>3. CASE /\ ChildExited /\ latest' = "unavailable"
           /\ own' = Idle("unavailable") /\ UNCHANGED req
  <2>1. own.waiters = {} /\ own.wait = Nobody
    BY <1>1 DEF Owns, OwnShape
  <2>2. req' = Answer({}, "declined")
    BY <1>3 DEF Answer, Owns, Heard
  <2>3. own.child \in Launches => proc'[own.child].life # "alive"
    BY <1>3, ChildFacts DEF PollManaged
  <2>4. "unavailable" \in Phases
    BY DEF Phases
  <2> QED
    BY <1>1, <1>3, <2>2, <2>3, <2>4, EndStep
<1> QED
  BY <1>2, <1>3 DEF PollManaged

LEMMA PollStoppingSound ==
    ASSUME Owns, PollStopping PROVE Sound
<1>1. /\ own.mode = "stopping" /\ own.child \in Procs /\ own.wait = Nobody
      /\ UNCHANGED latest /\ own \in OwnRow /\ own.child # Absent
      /\ latest \in {"clear", "blocked", "unavailable"}
  BY ChildFacts DEF PollStopping, Owns, OwnShape
<1>2. CASE Terminate(own.child, TRUE) /\ UNCHANGED <<proc, tasks>>
  BY <1>1, <1>2, TerminateStep, SameProcs DEF TasksMove
<1>3. CASE /\ ChildExited
           /\ own' = [own EXCEPT !.child = Absent, !.custody = FALSE]
           /\ tasks' = tasks \cup
                 {[kind |-> "stopped", proc |-> own.child, out |-> "ok"]}
           /\ UNCHANGED <<req, proc>>
  <2>1. ProcMoves
    BY <1>3, SameProcs
  <2>2. TasksMove
    BY <1>1, <1>3 DEF TasksMove, TaskRow
  <2>3. OwnShape'
    BY <1>1, <1>3 DEF Owns, OwnShape, OwnRow
  <2>4. /\ own'.child = Absent /\ own'.waiters = own.waiters
        /\ own'.wait = own.wait /\ own'.mode = own.mode /\ own'.intent = own.intent
    BY <1>1, <1>3 DEF OwnRow
  <2>5. Heard' /\ ReqMoves /\ Told /\ (Restarting' => Restarting)
    BY <1>3, <2>4 DEF Owns, Heard, ReqMoves, Told, Restarting
  <2>6. own.child \in Launches => proc'[own.child].life # "alive"
    BY <1>3, ChildFacts
  <2> QED
    BY <1>1, <2>1, <2>2, <2>3, <2>4, <2>5, <2>6, OwnerStep
<1>4. CASE /\ proc' = Kill(own.child)
           /\ own' = [own EXCEPT !.forced = TRUE, !.expired = FALSE]
           /\ UNCHANGED <<req, tasks>>
  <2>1. ProcMoves
    BY <1>1, <1>4, KillMoves, ChildFacts
  <2>2. OwnShape'
    BY <1>1, <1>4 DEF Owns, OwnShape, OwnRow
  <2>3. /\ own'.child = own.child /\ own'.waiters = own.waiters
        /\ own'.wait = own.wait /\ own'.mode = own.mode /\ own'.intent = own.intent
    BY <1>1, <1>4 DEF OwnRow
  <2> QED
    BY <1>1, <1>4, <2>1, <2>2, <2>3, StillUnderWay DEF TasksMove
<1>5. CASE /\ own' = [Idle(own.phase) EXCEPT !.mode = "unresponsive",
                          !.child = own.child, !.custody = TRUE]
           /\ req' = Answer(own.waiters, "declined")
           /\ UNCHANGED <<proc, tasks>>
  <2>1. PICK idle : idle = Idle(own.phase)
    OBVIOUS
  <2>2. /\ idle \in OwnRow /\ idle.waiters = {} /\ idle.wait = Nobody
        /\ idle.saved = "none" /\ ~idle.pending
    BY <2>1, IdleShape, ChildFacts
  <2>3. own' = [idle EXCEPT !.mode = "unresponsive", !.child = own.child,
                            !.custody = TRUE]
    BY <1>5, <2>1
  <2>4. /\ own' \in OwnRow /\ own'.mode = "unresponsive" /\ own'.child = own.child
        /\ own'.waiters = {} /\ own'.wait = Nobody
        /\ own'.saved = "none" /\ ~own'.pending
    BY <1>1, <2>2, <2>3 DEF OwnRow
  <2>5. OwnShape' /\ ~Restarting'
    BY <1>1, <2>4 DEF OwnShape, Restarting
  <2>6. PICK who : who = own.waiters
    OBVIOUS
  <2>7. /\ ReqMoves
        /\ \A r \in Requests : req'[r] = IF r \in who THEN "declined" ELSE req[r]
        /\ \A r \in Requests : r \in who => req[r] = "waiting"
    BY <1>5, <2>6, AnswerFacts
  <2>8. Heard' /\ Told
    BY <2>4, <2>7 DEF Heard, Told, ReqMoves
  <2> QED
    BY <1>1, <1>5, <2>4, <2>5, <2>7, <2>8, OwnerStep, SameProcs DEF TasksMove
<1> QED
  BY <1>2, <1>3, <1>4, <1>5 DEF PollStopping

LEMMA PollParkedSound ==
    ASSUME Owns, PollParked PROVE Sound
<1>1. /\ own.mode = "parked" /\ own.child \in Launches /\ own.child \in Procs
      /\ UNCHANGED <<latest, proc>> /\ own \in OwnRow /\ ProcMoves
      /\ own.waiters = {} /\ latest \in {"clear", "blocked", "unavailable"}
  BY ChildFacts, SameProcs DEF PollParked, Owns, OwnShape
<1>2. CASE Terminate(own.child, TRUE) /\ UNCHANGED tasks
  BY <1>1, <1>2, TerminateStep DEF TasksMove
<1>3. CASE /\ ChildExited /\ own' = [own EXCEPT !.finishing = TRUE]
           /\ tasks' = tasks \cup
                 {[kind |-> "parked", proc |-> own.child, out |-> "ok"]}
           /\ UNCHANGED req
  <2>1. OwnShape'
    BY <1>1, <1>3 DEF Owns, OwnShape, OwnRow
  <2>2. /\ own'.child = own.child /\ own'.waiters = own.waiters
        /\ own'.wait = own.wait /\ own'.mode = own.mode /\ own'.intent = own.intent
    BY <1>1, <1>3 DEF OwnRow
  <2>3. TasksFit'
    <3>1. PICK t : t = [kind |-> "parked", proc |-> own.child, out |-> "ok"]
      OBVIOUS
    <3>2. t \in TaskRow /\ t.proc = own.child /\ t.out = "ok"
      BY <1>1, <3>1 DEF TaskRow
    <3>3. tasks' = tasks \cup {t}
      BY <1>3, <3>1
    <3>4. proc[own.child].life = "gone"
      BY <1>1, <1>3, ChildFacts
    <3> QED
      BY <1>1, <3>2, <3>3, <3>4 DEF Owns, TasksFit
  <2>4. Heard' /\ Told
    BY <1>3, <2>2 DEF Owns, Heard, Told
  <2>5. Held' /\ Born' = Born
    BY <1>1, <2>2, MovedProcs
  <2>6. Charged'
    BY <1>3, <2>2, <2>5 DEF Owns, Charged, Sent, Restarting
  <2>7. LiveLaunchHeld => LiveLaunchHeld'
    BY <1>1, <2>2 DEF LiveLaunchHeld, Alive
  <2>8. Fresh
    BY <1>1, <2>2 DEF ProcMoves, Fresh
  <2> QED
    BY <1>1, <2>1, <2>3, <2>4, <2>5, <2>6, <2>7, <2>8 DEF Sound, Owns
<1>4. CASE /\ own.wait # Nobody
           /\ own' = [own EXCEPT !.wait = Nobody, !.expired = FALSE]
           /\ req' = Answer({own.wait}, "declined") /\ UNCHANGED tasks
  <2>1. OwnShape'
    BY <1>1, <1>4 DEF Owns, OwnShape, OwnRow
  <2>2. /\ own'.child = own.child /\ own'.waiters = {}
        /\ own'.wait = Nobody /\ own'.mode = "parked"
    BY <1>1, <1>4 DEF OwnRow
  <2>3. PICK who : who = {own.wait}
    OBVIOUS
  <2>4. /\ ReqMoves
        /\ \A r \in Requests : req'[r] = IF r \in who THEN "declined" ELSE req[r]
        /\ \A r \in Requests : r \in who => req[r] = "waiting"
    BY <1>4, <2>3, AnswerFacts
  <2>5. Heard' /\ Told /\ ~Restarting'
    BY <2>2, <2>4 DEF Heard, Told, ReqMoves, Restarting
  <2> QED
    BY <1>1, <1>4, <2>1, <2>2, <2>4, <2>5, OwnerStep DEF TasksMove
<1> QED
  BY <1>2, <1>3, <1>4 DEF PollParked

\* A cancellation that goes on.
LEMMA CancelGoesOn ==
    ASSUME Owns, own.mode = "cancelling", own' \in OwnRow,
           own'.mode = "cancelling", own'.child = own.child,
           own'.waiters = own.waiters, own'.wait = own.wait,
           own'.intent = own.intent, own'.saved = own.saved,
           own'.pending = own.pending,
           UNCHANGED <<req, latest>>, TasksMove,
           proc' = proc \/ proc' = Kill(own.child)
    PROVE  Sound
<1>1. OwnShape'
  BY DEF Owns, OwnShape
<1>2. ProcMoves
  <2>1. own.child \in Procs /\ proc[own.child].life # "none"
    BY ChildFacts, Names
  <2> QED
    BY <2>1, SameProcs, KillMoves
<1> QED
  BY <1>1, <1>2, StillUnderWay DEF Owns

\* A cancellation ends where its launch began.
LEMMA CancelDoneStep ==
    ASSUME Owns, CancelDone, Exited(own.child), own.child \in Launches,
           UNCHANGED <<proc, latest>>, TasksMove
    PROVE  Sound
<1>1. PICK ans \in {"stopped", "shutting_down"} : req' = Answer(own.waiters, ans)
  BY DEF CancelDone
<1>2. PICK who : who = own.waiters
  OBVIOUS
<1>3. own.origin \in Phases /\ proc'[own.child].life # "alive"
  BY ChildFacts
<1>4. PICK phase \in Phases : phase = own.origin
  BY <1>3
<1> QED
  BY <1>1, <1>2, <1>3, <1>4, EndStep, SameProcs DEF CancelDone, Owns

LEMMA PollCancellingSound ==
    ASSUME Owns, PollCancelling PROVE Sound
<1>1. /\ own.mode = "cancelling" /\ own.child \in Launches /\ own.child \in Procs
      /\ UNCHANGED latest /\ own \in OwnRow
  BY ChildFacts DEF PollCancelling
<1>2. CASE /\ \E c \in BOOLEAN : Terminate(own.child, c)
           /\ UNCHANGED <<proc, tasks>>
  BY <1>1, <1>2, TerminateStep, SameProcs DEF TasksMove
<1>3. CASE Exited(own.child) /\ CancelDone /\ tasks' = Aborted /\ UNCHANGED proc
  <2>1. TasksMove
    BY <1>3 DEF Aborted, TasksMove
  <2> QED
    BY <1>1, <1>3, <2>1, CancelDoneStep
<1>4. CASE /\ UNCHANGED <<req, proc>> /\ \E t \in tasks : tasks' = tasks \ {t}
           /\ \/ own' = [own EXCEPT !.term = "accepted"]
              \/ own' = [own EXCEPT !.attach = "settled"]
  <2>1. TasksMove
    BY <1>4 DEF TasksMove
  <2>2. /\ own' \in OwnRow /\ own'.mode = "cancelling" /\ own'.child = own.child
        /\ own'.waiters = own.waiters /\ own'.wait = own.wait
        /\ own'.intent = own.intent /\ own'.saved = own.saved
        /\ own'.pending = own.pending
    BY <1>1, <1>4 DEF OwnRow
  <2> QED
    BY <1>1, <1>4, <2>1, <2>2, CancelGoesOn
<1>5. CASE /\ own' = Forced(own) /\ proc' = Kill(own.child)
           /\ tasks' = WithoutEarly(tasks) /\ UNCHANGED req
  <2>1. TasksMove
    BY <1>5 DEF TasksMove, WithoutEarly
  <2>2. /\ own' \in OwnRow /\ own'.mode = "cancelling" /\ own'.child = own.child
        /\ own'.waiters = own.waiters /\ own'.wait = own.wait
        /\ own'.intent = own.intent /\ own'.saved = own.saved
        /\ own'.pending = own.pending
    BY <1>1, <1>5 DEF OwnRow, Forced
  <2> QED
    BY <1>1, <1>5, <2>1, <2>2, CancelGoesOn
<1>6. own.custody \in BOOLEAN
  BY <1>1 DEF OwnRow
<1> QED
  BY <1>2, <1>3, <1>4, <1>5, <1>6 DEF PollCancelling

LEMMA WorkerExitSound ==
    ASSUME Owns, WorkerExit PROVE Sound
<1>1. ProcMoves /\ TasksMove /\ UNCHANGED latest
  BY SameProcs DEF WorkerExit, TasksMove
<1>2. own.custody \in BOOLEAN
  BY ChildFacts DEF OwnRow
<1>3. \E child, custody : /\ Terminate(child, custody) /\ custody \in BOOLEAN
                          /\ \/ child = own.child
                             \/ child = Absent /\ ChildExited
  BY <1>2 DEF WorkerExit
<1>4. PICK child, custody : /\ Terminate(child, custody) /\ custody \in BOOLEAN
                            /\ \/ child = own.child
                               \/ child = Absent /\ ChildExited
  BY <1>3
<1>5. ChildExited /\ own.child \in Launches => proc'[own.child].life # "alive"
  BY ChildFacts DEF WorkerExit
<1> QED
  BY <1>1, <1>4, <1>5, TerminateStep

-----------------------------------------------------------------------------
(* Launching.                                                                *)

\* A runtime is spawned for the next launch, or the spawn fails.
LEMMA LaunchStep ==
    ASSUME Owns, NEW intent \in {"start", "restart"}, NEW phase \in Phases,
           NEW who, who \subseteq Requests, NEW others, others \subseteq tasks,
           NEW born \in 0..MaxRequests, Born = 1..born, born + 1 <= MaxRequests,
           own.child = Absent, own.mode \in {"none", "stopping"},
           \A r \in who : req[r] \in {"unsent", "waiting"},
           Launch(intent, phase, who, others)
    PROVE  /\ OwnShape' /\ Heard' /\ Held' /\ TasksFit' /\ Told /\ Fresh /\ ~Restarting'
           /\ LiveLaunchHeld => LiveLaunchHeld'
           /\ \E n \in {born, born + 1} : Born' = 1..n
           /\ \A r \in Requests : req'[r] = "unsent" <=> req[r] = "unsent" /\ r \notin who
<1> DEFINE p == CHOOSE q \in Launches :
                   proc[q] = Unborn /\ \A s \in 1..(q - 1) : proc[s] # Unborn
<1>1. \A q \in Launches : proc[q] = Unborn <=> q \notin Born
  <2>1. Unborn.life = "none"
    BY DEF Unborn
  <2>2. \A q \in Launches : proc[q].life = "none" => proc[q] = Unborn
    BY Names DEF Owns, Held
  <2> QED
    BY <2>1, <2>2 DEF Born
<1>2. p = born + 1
  <2>1. born + 1 \in Launches /\ born + 1 \notin Born
    BY Names
  <2>2. \A s \in 1..((born + 1) - 1) : proc[s] # Unborn
    BY <1>1, Names
  <2>3. \E q \in Launches : proc[q] = Unborn /\ \A s \in 1..(q - 1) : proc[s] # Unborn
    BY <1>1, <2>1, <2>2
  <2>4. p \in Launches /\ proc[p] = Unborn /\ \A s \in 1..(p - 1) : proc[s] # Unborn
    BY <2>3
  <2>5. p \notin 1..born /\ p \in Nat /\ p >= 1
    BY <1>1, <2>4, Names
  <2>6. born + 1 \notin 1..(p - 1)
    BY <1>1, <2>1, <2>4
  <2> QED
    BY <2>5, <2>6
<1>3. p \in Launches /\ p \in Procs /\ proc[p].life = "none" /\ p # Absent
  BY <1>2, Names DEF Owns, Held, Born
<1>4. PICK ans \in {"waiting", "declined"} : req' = Answer(who, ans)
  BY DEF Launch
<1>5. req' \in [Requests -> Answers]
  BY <1>4 DEF Owns, Heard, Answer, Answers
<1>6. \A r \in Requests : req'[r] = IF r \in who THEN ans ELSE req[r]
  BY <1>4 DEF Answer
<1>7. Told
  BY <1>6 DEF Told
<1>8. \A r \in Requests : req'[r] = "unsent" <=> req[r] = "unsent" /\ r \notin who
  BY <1>6
<1> HIDE DEF p
<1>9. CASE /\ own' = [Idle(phase) EXCEPT !.mode = "launching",
                         !.intent = intent, !.waiters = who, !.child = p,
                         !.attach = "committing"]
           /\ proc' = [proc EXCEPT ![p] = [Unborn EXCEPT !.life = "alive"]]
           /\ tasks' = others \cup {Task("commit", p)}
           /\ req' = Answer(who, "waiting")
  <2>1. PICK idle : idle = Idle(phase)
    OBVIOUS
  <2>2. /\ idle \in OwnRow /\ idle.wait = Nobody /\ idle.saved = "none"
        /\ ~idle.pending
    BY <2>1, IdleShape
  <2>3. own' = [idle EXCEPT !.mode = "launching", !.intent = intent,
                    !.waiters = who, !.child = p, !.attach = "committing"]
    BY <1>9, <2>1
  <2>4. /\ own' \in OwnRow /\ own'.mode = "launching" /\ own'.child = p
        /\ own'.waiters = who /\ own'.wait = Nobody
        /\ own'.saved = "none" /\ ~own'.pending
    BY <1>3, <2>2, <2>3 DEF OwnRow
  <2>5. OwnShape' /\ ~Restarting'
    BY <1>3, <2>4 DEF OwnShape, Restarting
  <2>6. Heard'
    BY <1>5, <1>9, <2>4 DEF Heard, Answer
  <2>7. PICK row : row = [Unborn EXCEPT !.life = "alive"]
    OBVIOUS
  <2>8. row \in ProcRow /\ row.life = "alive"
    BY <2>7 DEF ProcRow, Unborn
  <2>9. /\ proc \in [Procs -> ProcRow] /\ proc' = [proc EXCEPT ![p] = row]
        /\ proc'[p] = row /\ \A q \in Procs \ {p} : proc'[q] = proc[q]
    BY <1>3, <1>9, <2>7 DEF Owns, Held
  <2>10. Held'
    BY <1>3, <2>4, <2>8, <2>9 DEF Owns, Held
  <2>11. TasksFit'
    <3>1. Task("commit", p) \in TaskRow /\ Task("commit", p).kind # "parked"
      BY <1>3 DEF Task, TaskRow
    <3>2. \A t \in others : t \in tasks
      OBVIOUS
    <3>3. \A t \in tasks : t.kind = "parked" => t.proc # p /\ t.proc \in Procs
      BY <1>3, Names DEF Owns, TasksFit
    <3> QED
      BY <1>9, <2>9, <3>1, <3>2, <3>3 DEF Owns, TasksFit
  <2>12. LiveLaunchHeld => LiveLaunchHeld'
    <3> SUFFICES ASSUME LiveLaunchHeld, NEW q \in Launches, proc'[q].life = "alive"
                 PROVE  q = p
      BY <2>4 DEF LiveLaunchHeld, Alive
    <3> QED
      BY <2>9, Names DEF LiveLaunchHeld, Alive
  <2>13. Born' = 1..(born + 1)
    <3>1. Born' = Born \cup {p}
      BY <1>3, <2>8, <2>9, Names DEF Born
    <3> QED
      BY <1>2, <3>1
  <2>14. Fresh
    BY <1>3, <2>4, <2>8, <2>9 DEF Fresh
  <2> QED
    BY <1>7, <1>8, <2>5, <2>6, <2>10, <2>11, <2>12, <2>13, <2>14
<1>10. CASE /\ own' = Idle(Phase(latest)) /\ req' = Answer(who, "declined")
            /\ tasks' = others /\ UNCHANGED proc
  <2>1. PICK ph \in Phases : ph = Phase(latest)
    BY PhaseType
  <2>2. OwnShape' /\ ~Restarting' /\ own'.waiters = {} /\ own'.wait = Nobody
        /\ own'.child = Absent
    BY <1>10, <2>1, IdleShape DEF OwnShape, Restarting
  <2>3. Heard'
    BY <1>5, <2>2 DEF Heard
  <2>4. Held' /\ Born' = Born
    BY <1>10, <2>2 DEF Owns, Held, Born
  <2>5. TasksFit'
    BY <1>10 DEF Owns, TasksFit
  <2>6. LiveLaunchHeld => LiveLaunchHeld'
    BY <1>10, <2>2 DEF LiveLaunchHeld, Alive
  <2>7. Fresh
    BY <1>10, <2>2 DEF Fresh
  <2> QED
    BY <1>7, <1>8, <2>2, <2>3, <2>4, <2>5, <2>6, <2>7
<1> QED
  BY <1>9, <1>10 DEF Launch, p

\* A stopped runtime is replaced: the restart has kept a request for it.
LEMMA RelaunchStep ==
    ASSUME Owns, NEW t \in tasks, own.mode = "stopping", own.intent = "restart",
           own.child = Absent,
           Launch("restart", "ready", own.waiters, tasks \ {t}),
           latest' \in {"clear", "blocked", "unavailable"}
    PROVE  Sound
<1>1. PICK sent, born \in 0..MaxRequests :
         Sent = 1..sent /\ Born = 1..born /\ born < sent
  BY DEF Owns, Charged, Restarting
<1>2. born + 1 <= MaxRequests /\ born + 1 \in 0..MaxRequests
      /\ born \in 0..MaxRequests /\ born + 1 <= sent /\ born <= sent
  BY <1>1, Names
<1>3. PICK who : who = own.waiters
  OBVIOUS
<1>4. who \subseteq Requests /\ \A r \in who : req[r] = "waiting"
  BY <1>3, ChildFacts DEF Owns, Heard
<1>5. PICK others : others = tasks \ {t}
  OBVIOUS
<1>6. Launch("restart", "ready", who, others) /\ "ready" \in Phases
  BY <1>3, <1>5 DEF Phases
<1>7. /\ OwnShape' /\ Heard' /\ Held' /\ TasksFit' /\ Told /\ Fresh /\ ~Restarting'
      /\ LiveLaunchHeld => LiveLaunchHeld'
      /\ \E n \in {born, born + 1} : Born' = 1..n
      /\ \A r \in Requests : req'[r] = "unsent" <=> req[r] = "unsent" /\ r \notin who
  BY <1>1, <1>2, <1>4, <1>5, <1>6, LaunchStep
<1>8. Sent' = 1..sent
  BY <1>1, <1>4, <1>7 DEF Sent
<1>9. Charged'
  BY <1>1, <1>2, <1>7, <1>8 DEF Charged
<1> QED
  BY <1>7, <1>9 DEF Sound, Owns

LEMMA StopCompletedSound ==
    ASSUME Owns, NEW t \in tasks, StopCompleted(t)
    PROVE  Sound
<1>1. own.mode = "stopping" /\ own.child = Absent /\ own.child \notin Launches
  BY Names DEF StopCompleted
<1>2. PICK document \in Documents :
        /\ latest' = AfterDocument(document)
        /\ \/ /\ own.intent # "restart"
              /\ own' = Idle(PhaseOf(document))
              /\ req' = Answer(own.waiters, IF own.intent = "stop"
                                            THEN "stopped" ELSE "shutting_down")
              /\ tasks' = tasks \ {t} /\ UNCHANGED proc
           \/ /\ own' = Idle(PhaseOf(document))
              /\ req' = Answer(own.waiters, "declined")
              /\ tasks' = tasks \ {t} /\ UNCHANGED proc
           \/ /\ own.intent = "restart"
              /\ Launch("restart", "ready", own.waiters, tasks \ {t})
  BY DEF StopCompleted
<1>3. latest' \in {"clear", "blocked", "unavailable"}
  BY <1>2, PhaseType
<1>4. CASE /\ own' = Idle(PhaseOf(document))
           /\ \E ans \in {"declined", "stopped", "shutting_down"} :
                 req' = Answer(own.waiters, ans)
           /\ tasks' = tasks \ {t} /\ UNCHANGED proc
  <2>1. PICK ans \in {"declined", "stopped", "shutting_down"} :
           req' = Answer(own.waiters, ans)
    BY <1>4
  <2>2. PICK who : who = own.waiters
    OBVIOUS
  <2>3. ProcMoves /\ TasksMove
    BY <1>4, SameProcs DEF TasksMove
  <2>4. PICK phase \in Phases : phase = PhaseOf(document)
    BY PhaseType
  <2> QED
    BY <1>1, <1>3, <1>4, <2>1, <2>2, <2>3, <2>4, EndStep
<1>5. CASE /\ own.intent = "restart"
           /\ Launch("restart", "ready", own.waiters, tasks \ {t})
  BY <1>1, <1>3, <1>5, RelaunchStep
<1> QED
  BY <1>2, <1>4, <1>5

LEMMA TransitionStoppedSound ==
    ASSUME Owns, NEW t \in tasks, t.kind = "parked", TransitionStopped(t)
    PROVE  Sound
<1>1. PICK document \in Documents :
         latest' = AfterDocument(document) /\ own' = Idle(PhaseOf(document))
  BY DEF TransitionStopped
<1>2. PICK phase \in Phases : phase = PhaseOf(document)
  BY PhaseType
<1>3. latest' \in {"clear", "blocked", "unavailable"}
  BY <1>1, PhaseType
<1>4. ProcMoves /\ TasksMove
  BY SameProcs DEF TransitionStopped, TasksMove
<1>5. proc'[own.child].life # "alive"
  BY DEF TransitionStopped, Owns, TasksFit
<1>6. PICK who : who = {own.wait}
  OBVIOUS
<1>7. req' = Answer(who, "stopped")
  BY <1>6 DEF TransitionStopped
<1> QED
  BY <1>1, <1>2, <1>3, <1>4, <1>5, <1>6, <1>7, EndStep

-----------------------------------------------------------------------------
(* Completions of a launch and of its cancellation.                          *)

\* A launch fails and its child is reaped.
LEMMA LaunchFailedStep ==
    ASSUME Owns, own.mode = "launching",
           \E reaped \in {TRUE, ~SlowReap} : EarlyReap(own.child, reaped),
           LaunchFailed, TasksMove, UNCHANGED latest
    PROVE  Sound
<1> DEFINE p == own.child
<1>1. p \in Launches /\ p \in Procs /\ proc[p].life # "none" /\ p # Absent
  BY ChildFacts, Names
<1>2. PICK reaped \in {TRUE, ~SlowReap} : EarlyReap(p, reaped)
  OBVIOUS
<1>3. PICK row \in {Gone(proc[p]), [proc[p] EXCEPT !.killed = TRUE]} :
         /\ proc' = [proc EXCEPT ![p] = row]
         /\ reaped => row = Gone(proc[p])
  BY <1>2 DEF EarlyReap
<1>4. row \in ProcRow /\ row.life \in {proc[p].life, "gone"}
      /\ Gone(proc[p]).life = "gone"
  BY <1>1, <1>3, ProcFields
<1>5. ProcMoves
  BY <1>1, <1>3, <1>4, OneProcess
<1>6. ~SlowReap => proc'[p].life # "alive"
  BY <1>1, <1>2, <1>3, <1>4 DEF Owns, Held
<1>7. PICK phase \in Phases : phase = Phase(latest)
  BY PhaseType
<1>8. PICK who : who = own.waiters
  OBVIOUS
<1> QED
  BY <1>5, <1>6, <1>7, <1>8, EndStep DEF LaunchFailed, Owns

LEMMA LaunchCommittedSound ==
    ASSUME Owns, NEW t \in tasks, LaunchCommitted(t), UNCHANGED latest
    PROVE  Sound
<1>1. /\ own.mode = "launching" /\ own.child = t.proc /\ own \in OwnRow
      /\ own.child \in Procs
  BY ChildFacts DEF LaunchCommitted
<1>2. CASE /\ \E reaped \in {TRUE, ~SlowReap} : EarlyReap(t.proc, reaped)
           /\ LaunchFailed /\ tasks' = tasks \ {t}
  <2>1. TasksMove
    BY <1>2 DEF TasksMove
  <2> QED
    BY <1>1, <1>2, <2>1, LaunchFailedStep
<1>3. CASE Terminate(t.proc, TRUE) /\ tasks' = tasks \ {t} /\ UNCHANGED proc
  <2>1. TasksMove
    BY <1>3 DEF TasksMove
  <2> QED
    BY <1>1, <1>3, <2>1, TerminateStep, SameProcs
<1>4. CASE /\ own' = [own EXCEPT !.custody = TRUE, !.attach = "handshaking"]
           /\ tasks' = (tasks \ {t}) \cup {Task("connect", t.proc)}
           /\ UNCHANGED <<req, proc>>
  <2>1. TasksMove
    BY <1>1, <1>4 DEF TasksMove, Task, TaskRow
  <2>2. OwnShape'
    BY <1>1, <1>4 DEF Owns, OwnShape, OwnRow
  <2>3. /\ own'.child = own.child /\ own'.waiters = own.waiters
        /\ own'.wait = own.wait /\ own'.mode = own.mode /\ own'.intent = own.intent
    BY <1>1, <1>4 DEF OwnRow
  <2> QED
    BY <1>1, <1>4, <2>1, <2>2, <2>3, StillUnderWay, SameProcs DEF Owns
<1> QED
  BY <1>2, <1>3, <1>4 DEF LaunchCommitted

LEMMA LaunchConnectedSound ==
    ASSUME Owns, NEW t \in tasks, LaunchConnected(t), UNCHANGED latest
    PROVE  Sound
<1>1. /\ own.mode = "launching" /\ own.child = t.proc /\ own \in OwnRow
      /\ own.child \in Procs /\ own.phase \in Phases
      /\ own.child # Absent /\ proc[own.child].life # "none"
  BY ChildFacts, Names DEF LaunchConnected
<1>2. TasksMove
  BY DEF LaunchConnected, TasksMove
<1>3. CASE /\ \E reaped \in {TRUE, ~SlowReap} : EarlyReap(t.proc, reaped)
           /\ LaunchFailed
  BY <1>1, <1>2, <1>3, LaunchFailedStep
<1>4. CASE Terminate(t.proc, TRUE) /\ UNCHANGED proc
  BY <1>1, <1>2, <1>4, TerminateStep, SameProcs
<1>5. CASE /\ ~Exited(t.proc)
           /\ \E ok \in BOOLEAN :
                 own' = [Idle(own.phase) EXCEPT !.mode = "running",
                           !.child = t.proc, !.custody = TRUE, !.linked = ok]
           /\ req' = Answer(own.waiters, "started") /\ UNCHANGED proc
  <2>1. PICK ok \in BOOLEAN :
           own' = [Idle(own.phase) EXCEPT !.mode = "running",
                           !.child = t.proc, !.custody = TRUE, !.linked = ok]
    BY <1>5
  <2>2. PICK idle : idle = Idle(own.phase)
    OBVIOUS
  <2>3. /\ idle \in OwnRow /\ idle.waiters = {} /\ idle.wait = Nobody
        /\ idle.saved = "none" /\ ~idle.pending
    BY <1>1, <2>2, IdleShape
  <2>4. own' = [idle EXCEPT !.mode = "running", !.child = t.proc,
                            !.custody = TRUE, !.linked = ok]
    BY <2>1, <2>2
  <2>5. /\ own' \in OwnRow /\ own'.mode = "running" /\ own'.child = own.child
        /\ own'.waiters = {} /\ own'.wait = Nobody /\ own'.custody
        /\ own'.saved = "none" /\ ~own'.pending
    BY <1>1, <2>3, <2>4 DEF OwnRow
  <2>6. OwnShape' /\ ~Restarting'
    BY <1>1, <2>5 DEF OwnShape, Restarting
  <2>7. PICK who : who = own.waiters
    OBVIOUS
  <2>8. /\ ReqMoves
        /\ \A r \in Requests : req'[r] = IF r \in who THEN "started" ELSE req[r]
        /\ \A r \in Requests : r \in who => req[r] = "waiting"
    BY <1>5, <2>7, AnswerFacts
  <2>9. Alive(own'.child)
    BY <1>1, <1>5, <2>5 DEF Alive, Exited, Owns, Held, ProcRow
  <2>10. Heard' /\ Told
    BY <1>1, <2>5, <2>8, <2>9 DEF Heard, Told, ReqMoves
  <2> QED
    BY <1>1, <1>2, <1>5, <2>5, <2>6, <2>8, <2>10, OwnerStep, SameProcs DEF Owns
<1>6. (t.out = "ok") \in BOOLEAN
  OBVIOUS
<1> QED
  BY <1>1, <1>3, <1>4, <1>5, <1>6 DEF LaunchConnected

LEMMA CancelCommittedSound ==
    ASSUME Owns, NEW t \in tasks, CancelCommitted(t), UNCHANGED latest
    PROVE  Sound
<1>1. /\ own.mode = "cancelling" /\ own.child = t.proc /\ own \in OwnRow
      /\ own.child \in Launches /\ own.child \in Procs
  BY ChildFacts DEF CancelCommitted
<1>2. CASE Terminate(t.proc, TRUE) /\ tasks' = tasks \ {t} /\ UNCHANGED proc
  <2>1. TasksMove
    BY <1>2 DEF TasksMove
  <2> QED
    BY <1>1, <1>2, <2>1, TerminateStep, SameProcs
<1>3. CASE Exited(t.proc) /\ CancelDone /\ tasks' = Aborted /\ UNCHANGED proc
  <2>1. TasksMove
    BY <1>3 DEF Aborted, TasksMove
  <2> QED
    BY <1>1, <1>3, <2>1, CancelDoneStep
<1>4. CASE /\ \E failed, graceful \in BOOLEAN :
                 LET next == [own EXCEPT
                        !.custody = ~failed,
                        !.attach = IF ~failed /\ graceful THEN "handshaking"
                                                          ELSE "settled"]
                 IN  /\ own' = IF failed /\ graceful THEN Forced(next) ELSE next
                     /\ proc' = IF failed /\ graceful THEN Kill(t.proc) ELSE proc
                     /\ tasks' = (tasks \ {t}) \cup
                          (IF ~failed /\ graceful THEN {Task("connect", t.proc)}
                                                  ELSE {})
           /\ UNCHANGED req
  <2>1. PICK failed, graceful \in BOOLEAN :
                 LET next == [own EXCEPT
                        !.custody = ~failed,
                        !.attach = IF ~failed /\ graceful THEN "handshaking"
                                                          ELSE "settled"]
                 IN  /\ own' = IF failed /\ graceful THEN Forced(next) ELSE next
                     /\ proc' = IF failed /\ graceful THEN Kill(t.proc) ELSE proc
                     /\ tasks' = (tasks \ {t}) \cup
                          (IF ~failed /\ graceful THEN {Task("connect", t.proc)}
                                                  ELSE {})
    BY <1>4
  <2>2. TasksMove
    BY <1>1, <2>1 DEF TasksMove, Task, TaskRow
  <2>3. /\ own' \in OwnRow /\ own'.mode = "cancelling" /\ own'.child = own.child
        /\ own'.waiters = own.waiters /\ own'.wait = own.wait
        /\ own'.intent = own.intent /\ own'.saved = own.saved
        /\ own'.pending = own.pending
    BY <1>1, <2>1 DEF OwnRow, Forced
  <2>4. proc' = proc \/ proc' = Kill(own.child)
    BY <1>1, <2>1
  <2> QED
    BY <1>1, <1>4, <2>2, <2>3, <2>4, CancelGoesOn
<1>5. (t.out = "err") \in BOOLEAN /\ (own.term # "forced") \in BOOLEAN
  OBVIOUS
<1> QED
  BY <1>2, <1>3, <1>4, <1>5 DEF CancelCommitted

LEMMA CancelConnectedSound ==
    ASSUME Owns, NEW t \in tasks, CancelConnected(t), UNCHANGED latest
    PROVE  Sound
<1>1. /\ own.mode = "cancelling" /\ own.child = t.proc /\ own \in OwnRow
      /\ own.child \in Launches /\ own.child \in Procs
  BY ChildFacts DEF CancelConnected
<1>2. CASE Exited(t.proc) /\ CancelDone /\ tasks' = Aborted /\ UNCHANGED proc
  <2>1. TasksMove
    BY <1>2 DEF Aborted, TasksMove
  <2> QED
    BY <1>1, <1>2, <2>1, CancelDoneStep
<1>3. CASE /\ UNCHANGED req
           /\ LET settled == [own EXCEPT !.attach = "settled"]
              IN own' \in {Forced(settled), [settled EXCEPT !.term = "requesting"],
                           settled}
           /\ proc' \in {Kill(t.proc), proc}
           /\ \/ tasks' = tasks \ {t}
              \/ tasks' = (tasks \ {t}) \cup {Task("early", t.proc)}
  <2>1. TasksMove
    BY <1>1, <1>3 DEF TasksMove, Task, TaskRow
  <2>2. /\ own' \in OwnRow /\ own'.mode = "cancelling" /\ own'.child = own.child
        /\ own'.waiters = own.waiters /\ own'.wait = own.wait
        /\ own'.intent = own.intent /\ own'.saved = own.saved
        /\ own'.pending = own.pending
    BY <1>1, <1>3 DEF OwnRow, Forced
  <2> QED
    BY <1>1, <1>3, <2>1, <2>2, CancelGoesOn
<1>4. CASE ~Exited(t.proc)
  BY <1>3, <1>4 DEF CancelConnected
<1> QED
  BY <1>2, <1>4 DEF CancelConnected

LEMMA EarlyStopSound ==
    ASSUME Owns, NEW t \in tasks, EarlyStopRequested(t), UNCHANGED latest
    PROVE  Sound
<1>1. /\ own.mode = "cancelling" /\ own.child = t.proc /\ own \in OwnRow
      /\ UNCHANGED req
  BY ChildFacts DEF EarlyStopRequested
<1>2. TasksMove
  BY DEF EarlyStopRequested, TasksMove
<1>3. /\ own' \in OwnRow /\ own'.mode = "cancelling" /\ own'.child = own.child
      /\ own'.waiters = own.waiters /\ own'.wait = own.wait
      /\ own'.intent = own.intent /\ own'.saved = own.saved
      /\ own'.pending = own.pending
  BY <1>1 DEF OwnRow, Forced, EarlyStopRequested
<1>4. proc' = proc \/ proc' = Kill(own.child)
  BY <1>1 DEF EarlyStopRequested
<1> QED
  BY <1>1, <1>2, <1>3, <1>4, CancelGoesOn

LEMMA CompletionSound ==
    ASSUME Owns, NEW t \in tasks, Completion(t)
    PROVE  Sound
<1>1. CASE /\ UNCHANGED latest
           /\ \/ LaunchCommitted(t) \/ CancelCommitted(t)
              \/ LaunchConnected(t) \/ CancelConnected(t)
              \/ EarlyStopRequested(t)
  BY <1>1, LaunchCommittedSound, CancelCommittedSound, LaunchConnectedSound,
     CancelConnectedSound, EarlyStopSound
<1>2. CASE StopCompleted(t)
  BY <1>2, StopCompletedSound
<1>3. CASE t.kind = "parked" /\ TransitionStopped(t)
  BY <1>3, TransitionStoppedSound
<1>4. CASE tasks' = tasks \ {t} /\ UNCHANGED <<own, latest, req, proc>>
  <2>1. TasksMove
    BY <1>4 DEF TasksMove
  <2> QED
    BY <1>4, <2>1, WorldStep, SameProcs
<1> QED
  BY <1>1, <1>2, <1>3, <1>4 DEF Completion

LEMMA PollSound == ASSUME Owns, Poll PROVE Sound
BY PollLaunchingSound, PollManagedSound, PollStoppingSound, PollParkedSound,
   PollCancellingSound DEF Poll

-----------------------------------------------------------------------------
(* Requests.                                                                 *)

\* Request r is the next one, and this step takes it.
Takes(r) ==
    /\ req[r] = "unsent" /\ \A q \in 1..(r - 1) : req[q] # "unsent"
    /\ UNCHANGED latest

\* A request that is answered at once leaves the operation alone.
LEMMA AnsweredAtOnce ==
    ASSUME Owns, NEW r \in Requests, Takes(r),
           NEW ans \in {"declined", "stopped", "shutting_down"},
           req' = [req EXCEPT ![r] = ans],
           ans = "stopped" => own.mode = "none",
           UNCHANGED <<own, proc, tasks>>
    PROVE  Sound
<1>1. /\ req' \in [Requests -> Answers] /\ req'[r] = ans
      /\ \A q \in Requests \ {r} : req'[q] = req[q]
  BY DEF Owns, Heard, Answers
<1>2. OwnShape' /\ Told
  BY <1>1 DEF Owns, OwnShape, Told, Takes
<1>3. Heard'
  <2>1. own.waiters \subseteq Requests
    BY ChildFacts
  <2>2. own.wait # Nobody => own.wait \in Requests
    BY DEF Owns, OwnShape, OwnRow
  <2> QED
    BY <1>1, <2>1, <2>2 DEF Owns, Heard, Takes
<1>4. ProcMoves /\ TasksMove
  BY SameProcs DEF TasksMove
<1> QED
  BY <1>1, <1>2, <1>3, <1>4, AdmitStep DEF Takes

\* A request that waits: it is among the waiters or is the parked caller, and
\* whoever was waiting before and no longer does is declined.
LEMMA Awaited ==
    ASSUME Owns, NEW r \in Requests, Takes(r), OwnShape',
           own'.child = own.child,
           NEW others, others \subseteq own.waiters \cup {own.wait},
           \A q \in Requests : req'[q] = IF q = r THEN "waiting"
                                         ELSE IF q \in others THEN "declined"
                                         ELSE req[q],
           req' = [q \in Requests |-> req'[q]],
           own'.waiters \subseteq (own.waiters \ others) \cup {r},
           \/ own'.wait \in {Nobody, r}
           \/ own'.wait = own.wait /\ own.wait \notin others,
           ProcMoves, TasksMove
    PROVE  Sound
<1>1. req \in [Requests -> Answers]
  BY DEF Owns, Heard
<1>2. \A q \in Requests : q \in others => req[q] = "waiting"
  BY Names DEF Owns, Heard
<1>3. req' \in [Requests -> Answers]
  BY <1>1 DEF Answers
<1>4. Told
  BY <1>2 DEF Told, Takes
<1>5. Heard'
  BY <1>3, ChildFacts DEF Owns, Heard, OwnShape, OwnRow
<1> QED
  BY <1>2, <1>3, <1>4, <1>5, AdmitStep DEF Takes

LEMMA WaitingShape ==
    ASSUME Owns, NEW r \in Requests, Waiting(r)
    PROVE  /\ \A q \in Requests : req'[q] = IF q = r THEN "waiting"
                                            ELSE IF q \in {} THEN "declined"
                                            ELSE req[q]
           /\ req' = [q \in Requests |-> req'[q]]
BY DEF Owns, Heard, Waiting

LEMMA DeclinedShape ==
    ASSUME Owns, NEW r \in Requests, NEW who,
           req' = [Answer(who, "declined") EXCEPT ![r] = "waiting"]
    PROVE  /\ \A q \in Requests : req'[q] = IF q = r THEN "waiting"
                                            ELSE IF q \in who THEN "declined"
                                            ELSE req[q]
           /\ req' = [q \in Requests |-> req'[q]]
BY DEF Answer

LEMMA StoppingShape ==
    ASSUME Owns, NEW intent \in {"stop", "restart", "shutdown"}, NEW who,
           who \subseteq Requests, Stopping(intent, who),
           own.mode \in {"running", "unresponsive", "parked"}
    PROVE  /\ OwnShape' /\ own'.child = own.child /\ own'.waiters = who
           /\ own'.wait = Nobody /\ TasksMove
<1>1. own \in OwnRow /\ own.child \in Procs
  BY ChildFacts
<1>2. /\ own' \in OwnRow /\ own'.mode = "stopping" /\ own'.child = own.child
      /\ own'.waiters = who /\ own'.wait = Nobody /\ own'.saved = "none"
  BY <1>1 DEF Stopping, OwnRow
<1>3. TasksMove
  <2>1. Task("stop", own.child) \in TaskRow /\ Task("stop", own.child).kind # "parked"
    BY <1>1 DEF Task, TaskRow
  <2> QED
    BY <2>1 DEF Stopping, TasksMove
<1> QED
  BY <1>2, <1>3 DEF OwnShape

LEMMA CancellingShape ==
    ASSUME Owns, NEW intent \in {"stop", "shutdown"}, NEW who,
           who \subseteq Requests, Cancelling(intent, who), own.mode = "launching"
    PROVE  /\ OwnShape' /\ own'.child = own.child /\ own'.waiters = who
           /\ own'.wait = Nobody
<1>1. own \in OwnRow /\ own.child \in Launches /\ own.wait = Nobody
  BY ChildFacts DEF Owns, OwnShape
<1>2. /\ own' \in OwnRow /\ own'.mode = "cancelling" /\ own'.child = own.child
      /\ own'.waiters = who /\ own'.wait = Nobody /\ own'.saved = own.saved
      /\ own'.pending = own.pending
  BY <1>1 DEF Cancelling, OwnRow
<1> QED
  BY <1>1, <1>2 DEF OwnShape, Owns

\* The operation goes on with other waiters, and perhaps for another end.
LEMMA JoinedShape ==
    ASSUME Owns, NEW intent \in {"none", "start", "stop", "restart", "shutdown"},
           NEW who, who \subseteq Requests,
           own.mode \in {"launching", "stopping", "cancelling"},
           own' = [own EXCEPT !.intent = intent, !.waiters = who]
    PROVE  /\ OwnShape' /\ own'.child = own.child /\ own'.waiters = who
           /\ own'.wait = Nobody /\ own'.mode = own.mode
<1>1. own \in OwnRow /\ own.wait = Nobody
  BY ChildFacts DEF Owns, OwnShape
<1>2. /\ own' \in OwnRow /\ own'.mode = own.mode /\ own'.child = own.child
      /\ own'.waiters = who /\ own'.wait = own.wait /\ own'.saved = own.saved
      /\ own'.pending = own.pending
  BY <1>1 DEF OwnRow
<1> QED
  BY <1>1, <1>2 DEF OwnShape, Owns

LEMMA JoinStep ==
    ASSUME Owns, NEW r \in Requests, Takes(r), Join(r), Waiting(r),
           own.mode \in {"launching", "stopping", "cancelling"},
           UNCHANGED <<proc, tasks>>
    PROVE  Sound
<1>1. PICK who : who = own.waiters \cup {r}
  OBVIOUS
<1>2. PICK intent : intent = own.intent
  OBVIOUS
<1>3. who \subseteq Requests
      /\ intent \in {"none", "start", "stop", "restart", "shutdown"}
  BY <1>1, <1>2, ChildFacts DEF OwnRow
<1>4. own' = [own EXCEPT !.intent = intent, !.waiters = who]
  BY <1>1, <1>2, ChildFacts DEF Join, OwnRow
<1>5. /\ OwnShape' /\ own'.child = own.child /\ own'.waiters = who
      /\ own'.wait = Nobody
  BY <1>3, <1>4, JoinedShape
<1>6. ProcMoves /\ TasksMove
  BY SameProcs DEF TasksMove
<1>7. PICK none : none = {}
  OBVIOUS
<1>8. /\ \A q \in Requests : req'[q] = IF q = r THEN "waiting"
                                        ELSE IF q \in none THEN "declined"
                                        ELSE req[q]
      /\ req' = [q \in Requests |-> req'[q]]
  BY <1>7, WaitingShape
<1>9. none \subseteq own.waiters \cup {own.wait}
      /\ own'.waiters \subseteq (own.waiters \ none) \cup {r}
  BY <1>1, <1>5, <1>7
<1> QED
  BY <1>5, <1>6, <1>8, <1>9, Awaited

\* The waiters of an operation are declined in favour of request r.
LEMMA SupersedeStep ==
    ASSUME Owns, NEW r \in Requests, Takes(r),
           own.mode \in {"stopping", "cancelling"},
           NEW intent \in {"stop", "shutdown"},
           own' = [own EXCEPT !.intent = intent, !.waiters = {r}],
           \A q \in Requests : req'[q] = IF q = r THEN "waiting"
                                         ELSE IF q \in own.waiters THEN "declined"
                                         ELSE req[q],
           req' = [q \in Requests |-> req'[q]],
           UNCHANGED <<proc, tasks>>
    PROVE  Sound
<1>1. PICK who : who = own.waiters
  OBVIOUS
<1>2. PICK one : one = {r}
  OBVIOUS
<1>3. /\ OwnShape' /\ own'.child = own.child /\ own'.waiters = one
      /\ own'.wait = Nobody
  <2>1. own' = [own EXCEPT !.intent = intent, !.waiters = one]
        /\ one \subseteq Requests
        /\ intent \in {"none", "start", "stop", "restart", "shutdown"}
    BY <1>2
  <2> QED
    BY <2>1, JoinedShape
<1>4. ProcMoves /\ TasksMove
  BY SameProcs DEF TasksMove
<1> QED
  BY <1>1, <1>2, <1>3, <1>4, Awaited

\* A request to stop cancels the launch.
LEMMA CancelStep ==
    ASSUME Owns, NEW r \in Requests, Takes(r), own.mode = "launching",
           NEW intent \in {"stop", "shutdown"}, Cancelling(intent, {r}),
           \A q \in Requests : req'[q] = IF q = r THEN "waiting"
                                         ELSE IF q \in own.waiters THEN "declined"
                                         ELSE req[q],
           req' = [q \in Requests |-> req'[q]],
           UNCHANGED <<proc, tasks>>
    PROVE  Sound
<1>1. PICK who : who = own.waiters
  OBVIOUS
<1>2. PICK one : one = {r}
  OBVIOUS
<1>3. /\ OwnShape' /\ own'.child = own.child /\ own'.waiters = one
      /\ own'.wait = Nobody
  BY <1>2, CancellingShape
<1>4. ProcMoves /\ TasksMove
  BY SameProcs DEF TasksMove
<1> QED
  BY <1>1, <1>2, <1>3, <1>4, Awaited

LEMMA AdmitStartSound ==
    ASSUME Owns, NEW r \in Requests, Takes(r), AdmitStart(r)
    PROVE  Sound
<1>1. CASE own.mode = "none" /\ Launch("start", own.phase, {r}, tasks)
  <2>1. PICK sent, born \in 0..MaxRequests :
           Sent = 1..sent /\ Born = 1..born /\ born <= sent
    BY DEF Owns, Charged
  <2>2. r = sent + 1
    <3>1. r \notin Sent /\ \A q \in 1..(r - 1) : q \in Sent
      BY Names DEF Sent, Takes
    <3>2. r \notin 1..sent /\ \A q \in 1..(r - 1) : q \in 1..sent
      BY <2>1, <3>1
    <3>3. r \in Nat /\ sent \in Nat /\ r >= 1
      BY Names
    <3>4. sent < r
      BY <3>2, <3>3
    <3>5. r = 1 \/ r - 1 <= sent
      BY <3>2, <3>3
    <3> QED
      BY <3>3, <3>4, <3>5
  <2>3. r \in 0..MaxRequests /\ born + 1 <= r /\ born <= r /\ born + 1 <= MaxRequests
        /\ born + 1 \in 0..MaxRequests
    BY <2>1, <2>2, Names
  <2>4. own.child = Absent /\ own.phase \in Phases
    BY <1>1, ChildFacts DEF Owns, OwnShape
  <2>5. PICK phase \in Phases : phase = own.phase
    BY <2>4
  <2>6. PICK who, others : who = {r} /\ others = tasks
    OBVIOUS
  <2>7. Launch("start", phase, who, others)
    BY <1>1, <2>5, <2>6
  <2>8. /\ OwnShape' /\ Heard' /\ Held' /\ TasksFit' /\ Told /\ Fresh /\ ~Restarting'
        /\ LiveLaunchHeld => LiveLaunchHeld'
        /\ \E n \in {born, born + 1} : Born' = 1..n
        /\ \A q \in Requests : req'[q] = "unsent" <=> req[q] = "unsent" /\ q \notin who
    <3>1. /\ who \subseteq Requests /\ others \subseteq tasks
          /\ \A q \in who : req[q] \in {"unsent", "waiting"}
          /\ own.mode \in {"none", "stopping"}
      BY <1>1, <2>6 DEF Takes
    <3> QED
      BY <2>1, <2>3, <2>4, <2>7, <3>1, LaunchStep
  <2>9. Sent' = Sent \cup {r}
    BY <2>6, <2>8 DEF Sent
  <2>10. Sent' = 1..r
    BY <2>1, <2>2, <2>9
  <2>11. Charged'
    BY <2>1, <2>3, <2>8, <2>10 DEF Charged
  <2> QED
    BY <2>8, <2>11 DEF Sound, Owns, Takes
<1>2. CASE /\ own.mode \in {"launching", "stopping"} /\ Join(r) /\ Waiting(r)
           /\ UNCHANGED <<proc, tasks>>
  BY <1>2, JoinStep
<1>3. CASE Decline(r) /\ UNCHANGED <<own, proc, tasks>>
  BY <1>3, AnsweredAtOnce DEF Decline
<1> QED
  BY <1>1, <1>2, <1>3 DEF AdmitStart

\* A request to stop, restart or shut down a runtime that is up.
LEMMA StopStep ==
    ASSUME Owns, NEW r \in Requests, Takes(r),
           own.mode \in {"running", "unresponsive"},
           NEW intent \in {"stop", "restart"},
           Stopping(intent, {r}), Waiting(r), UNCHANGED proc
    PROVE  Sound
<1>1. PICK one : one = {r}
  OBVIOUS
<1>2. /\ OwnShape' /\ own'.child = own.child /\ own'.waiters = one
      /\ own'.wait = Nobody /\ TasksMove
  <2>1. Stopping(intent, one) /\ one \subseteq Requests
        /\ intent \in {"stop", "restart", "shutdown"}
    BY <1>1
  <2> QED
    BY <2>1, StoppingShape
<1>3. PICK none : none = {}
  OBVIOUS
<1>4. /\ \A q \in Requests : req'[q] = IF q = r THEN "waiting"
                                       ELSE IF q \in none THEN "declined"
                                       ELSE req[q]
      /\ req' = [q \in Requests |-> req'[q]]
  BY <1>3, WaitingShape
<1>5. none \subseteq own.waiters \cup {own.wait}
      /\ own'.waiters \subseteq (own.waiters \ none) \cup {r}
  BY <1>1, <1>2, <1>3
<1> QED
  BY <1>2, <1>4, <1>5, SameProcs, Awaited

LEMMA AdmitStopSound ==
    ASSUME Owns, NEW r \in Requests, Takes(r), AdmitStop(r)
    PROVE  Sound
<1>1. CASE /\ own.mode \in {"running", "unresponsive"}
           /\ Stopping("stop", {r}) /\ Waiting(r) /\ UNCHANGED proc
  BY <1>1, StopStep
<1>2. CASE /\ own.mode = "launching" /\ Cancelling("stop", {r})
           /\ req' = [Answer(own.waiters, "declined") EXCEPT ![r] = "waiting"]
           /\ UNCHANGED <<proc, tasks>>
  BY <1>2, DeclinedShape, CancelStep
<1>3. CASE /\ own.mode = "stopping"
           /\ own' = [own EXCEPT !.intent = "stop", !.waiters = {r}]
           /\ req' = [Answer(own.waiters, "declined") EXCEPT ![r] = "waiting"]
           /\ UNCHANGED <<proc, tasks>>
  BY <1>3, DeclinedShape, SupersedeStep
<1>4. CASE /\ own.mode \in {"stopping", "cancelling"} /\ Join(r) /\ Waiting(r)
           /\ UNCHANGED <<proc, tasks>>
  BY <1>4, JoinStep
<1>5. CASE Decline(r) /\ UNCHANGED <<own, proc, tasks>>
  BY <1>5, AnsweredAtOnce DEF Decline
<1> QED
  BY <1>1, <1>2, <1>3, <1>4, <1>5 DEF AdmitStop

LEMMA AdmitRestartSound ==
    ASSUME Owns, NEW r \in Requests, Takes(r), AdmitRestart(r)
    PROVE  Sound
<1>1. CASE /\ own.mode \in {"running", "unresponsive"}
           /\ Stopping("restart", {r}) /\ Waiting(r) /\ UNCHANGED proc
  BY <1>1, StopStep
<1>2. CASE /\ own.mode = "stopping" /\ Join(r) /\ Waiting(r)
           /\ UNCHANGED <<proc, tasks>>
  BY <1>2, JoinStep
<1>3. CASE Decline(r) /\ UNCHANGED <<own, proc, tasks>>
  BY <1>3, AnsweredAtOnce DEF Decline
<1> QED
  BY <1>1, <1>2, <1>3 DEF AdmitRestart

LEMMA AdmitTransitionSound ==
    ASSUME Owns, NEW r \in Requests, Takes(r), AdmitTransition(r)
    PROVE  Sound
<1>1. CASE /\ own.mode = "running" /\ own.child # 0
           /\ own' = [own EXCEPT !.mode = "parked", !.wait = r, !.expired = FALSE,
                      !.finishing = FALSE, !.linked = FALSE,
                      !.pending = FALSE, !.saved = "none"]
           /\ tasks' = tasks \cup {Task("stop", own.child)}
           /\ Waiting(r) /\ UNCHANGED proc
  <2>1. own \in OwnRow /\ own.child \in Procs /\ own.waiters = {}
    BY <1>1, ChildFacts DEF Owns, OwnShape
  <2>2. own.child \in Launches
    BY <1>1, <2>1 DEF Procs
  <2>3. /\ own' \in OwnRow /\ own'.mode = "parked" /\ own'.child = own.child
        /\ own'.waiters = {} /\ own'.wait = r /\ own'.saved = "none"
    BY <1>1, <2>1 DEF OwnRow
  <2>4. OwnShape'
    BY <2>2, <2>3 DEF OwnShape
  <2>5. TasksMove
    BY <1>1, <2>1 DEF TasksMove, Task, TaskRow
  <2>6. PICK none : none = {}
    OBVIOUS
  <2>7. /\ \A q \in Requests : req'[q] = IF q = r THEN "waiting"
                                         ELSE IF q \in none THEN "declined"
                                         ELSE req[q]
        /\ req' = [q \in Requests |-> req'[q]]
    BY <1>1, <2>6, WaitingShape
  <2>8. none \subseteq own.waiters \cup {own.wait}
        /\ own'.waiters \subseteq (own.waiters \ none) \cup {r}
    BY <2>3, <2>6
  <2> QED
    BY <1>1, <2>3, <2>4, <2>5, <2>7, <2>8, SameProcs, Awaited
<1>2. CASE /\ req' = [req EXCEPT ![r] = IF own.mode = "none" /\ own.phase = "ready"
                                        THEN "stopped" ELSE "declined"]
           /\ UNCHANGED <<own, proc, tasks>>
  <2>1. PICK ans \in {"stopped", "declined"} :
           req' = [req EXCEPT ![r] = ans] /\ (ans = "stopped" => own.mode = "none")
    BY <1>2
  <2> QED
    BY <1>2, <2>1, AnsweredAtOnce
<1> QED
  BY <1>1, <1>2 DEF AdmitTransition

LEMMA AdmitObserveSound ==
    ASSUME Owns, NEW r \in Requests, Takes(r), NEW op, AdmitObserve(r, op)
    PROVE  Sound
<1>1. CASE /\ own.mode = "parked" /\ own.wait = Nobody
           /\ own' = [own EXCEPT !.wait = r, !.expired = FALSE]
           /\ proc' = proc \/ proc' = Kill(own.child)
           /\ Waiting(r) /\ UNCHANGED tasks
  <2>1. own \in OwnRow /\ own.child \in Launches /\ own.child \in Procs
        /\ own.waiters = {} /\ proc[own.child].life # "none"
    BY <1>1, ChildFacts, Names DEF Owns, OwnShape
  <2>2. /\ own' \in OwnRow /\ own'.mode = "parked" /\ own'.child = own.child
        /\ own'.waiters = {} /\ own'.wait = r /\ own'.saved = own.saved
        /\ own'.pending = own.pending
    BY <1>1, <2>1 DEF OwnRow
  <2>3. OwnShape'
    BY <2>1, <2>2 DEF Owns, OwnShape
  <2>4. ProcMoves /\ TasksMove
    BY <1>1, <2>1, SameProcs, KillMoves DEF TasksMove
  <2>5. PICK none : none = {}
    OBVIOUS
  <2>6. /\ \A q \in Requests : req'[q] = IF q = r THEN "waiting"
                                         ELSE IF q \in none THEN "declined"
                                         ELSE req[q]
        /\ req' = [q \in Requests |-> req'[q]]
    BY <1>1, <2>5, WaitingShape
  <2>7. none \subseteq own.waiters \cup {own.wait}
        /\ own'.waiters \subseteq (own.waiters \ none) \cup {r}
    BY <2>2, <2>5
  <2> QED
    BY <2>2, <2>3, <2>4, <2>6, <2>7, Awaited
<1>2. CASE /\ req' = [req EXCEPT ![r] = IF own.mode = "none" THEN "stopped"
                                                             ELSE "declined"]
           /\ UNCHANGED <<own, proc, tasks>>
  <2>1. PICK ans \in {"stopped", "declined"} :
           req' = [req EXCEPT ![r] = ans] /\ (ans = "stopped" => own.mode = "none")
    BY <1>2
  <2> QED
    BY <1>2, <2>1, AnsweredAtOnce
<1> QED
  BY <1>1, <1>2 DEF AdmitObserve

LEMMA ShutdownSound ==
    ASSUME Owns, NEW r \in Requests, Takes(r), Shutdown(r)
    PROVE  Sound
<1>1. {r} \ {Nobody} = {r}
  BY Names
<1>2. PICK others \in {{own.wait}, own.waiters, {}} :
         /\ \A q \in Requests : req'[q] = IF q = r THEN "waiting"
                                          ELSE IF q \in others THEN "declined"
                                          ELSE req[q]
         /\ req' = [q \in Requests |-> req'[q]]
         /\ \/ /\ others = {own.wait} /\ UNCHANGED proc
               /\ own.mode \in {"running", "unresponsive", "parked"}
               /\ Stopping("shutdown", {r})
            \/ /\ others = own.waiters /\ UNCHANGED <<proc, tasks>>
               /\ own.mode = "launching" /\ Cancelling("shutdown", {r})
            \/ /\ others = own.waiters /\ UNCHANGED <<proc, tasks>>
               /\ own.mode \in {"stopping", "cancelling"}
               /\ own' = [own EXCEPT !.intent = "shutdown", !.waiters = {r}]
            \/ /\ others = {} /\ UNCHANGED <<proc, tasks>>
               /\ own.mode \in {"stopping", "cancelling"}
               /\ own' = [own EXCEPT !.waiters = @ \cup {r}]
  BY <1>1 DEF Shutdown
<1>3. CASE /\ others = {own.wait} /\ UNCHANGED proc
           /\ own.mode \in {"running", "unresponsive", "parked"}
           /\ Stopping("shutdown", {r})
  <2>1. PICK one : one = {r}
    OBVIOUS
  <2>2. /\ OwnShape' /\ own'.child = own.child /\ own'.waiters = one
        /\ own'.wait = Nobody /\ TasksMove
    BY <1>3, <2>1, StoppingShape
  <2>3. own.waiters = {}
    BY <1>3 DEF Owns, OwnShape
  <2>4. others \subseteq own.waiters \cup {own.wait}
        /\ own'.waiters \subseteq (own.waiters \ others) \cup {r}
    BY <1>3, <2>1, <2>2
  <2> QED
    BY <1>2, <1>3, <2>2, <2>4, SameProcs, Awaited
<1>4. CASE /\ others = own.waiters /\ UNCHANGED <<proc, tasks>>
           /\ own.mode = "launching" /\ Cancelling("shutdown", {r})
  BY <1>2, <1>4, CancelStep
<1>5. CASE /\ others = own.waiters /\ UNCHANGED <<proc, tasks>>
           /\ own.mode \in {"stopping", "cancelling"}
           /\ own' = [own EXCEPT !.intent = "shutdown", !.waiters = {r}]
  BY <1>2, <1>5, SupersedeStep
<1>6. CASE /\ others = {} /\ UNCHANGED <<proc, tasks>>
           /\ own.mode \in {"stopping", "cancelling"}
           /\ own' = [own EXCEPT !.waiters = @ \cup {r}]
  <2>1. req' = [req EXCEPT ![r] = "waiting"]
    BY <1>2, <1>6 DEF Owns, Heard
  <2> QED
    BY <1>6, <2>1, JoinStep DEF Join, Waiting
<1> QED
  BY <1>2, <1>3, <1>4, <1>5, <1>6

\* The external signal: whoever was waiting for something else is declined.
LEMMA DropStep ==
    ASSUME Owns, OwnShape', own'.child = own.child,
           NEW others, others \subseteq own.waiters \cup {own.wait},
           req' = Answer(others, "declined"),
           own'.waiters \subseteq own.waiters \ others, own'.wait = Nobody,
           UNCHANGED latest, ProcMoves, TasksMove, Restarting' => Restarting
    PROVE  Sound
<1>1. /\ ReqMoves
      /\ \A r \in Requests : req'[r] = IF r \in others THEN "declined" ELSE req[r]
      /\ \A r \in Requests : r \in others => req[r] = "waiting"
  BY AnswerFacts
<1>2. Heard' /\ Told
  BY <1>1, ChildFacts DEF Owns, Heard, Told, ReqMoves
<1> QED
  BY <1>1, <1>2, OwnerStep DEF Owns

LEMMA ExternalShutdownSound ==
    ASSUME Owns, ExternalShutdown
    PROVE  Sound
<1>1. UNCHANGED latest
  BY DEF ExternalShutdown
<1>2. CASE UNCHANGED <<own, req, proc, tasks>>
  BY <1>1, <1>2, WorldStep, SameProcs DEF TasksMove
<1>3. CASE Shutdown(Nobody)
  <2>1. PICK none : none = {}
    OBVIOUS
  <2>2. \A r \in Requests : r # Nobody
    BY Names
  <2>3. PICK others \in {{own.wait}, own.waiters, {}} :
         /\ req' = Answer(others, "declined")
         /\ \/ /\ others = {own.wait} /\ UNCHANGED proc
               /\ own.mode \in {"running", "unresponsive", "parked"}
               /\ Stopping("shutdown", none)
            \/ /\ others = own.waiters /\ UNCHANGED <<proc, tasks>>
               /\ own.mode = "launching" /\ Cancelling("shutdown", none)
            \/ /\ others = own.waiters /\ UNCHANGED <<proc, tasks>>
               /\ own.mode \in {"stopping", "cancelling"}
               /\ own' = [own EXCEPT !.intent = "shutdown", !.waiters = none]
            \/ /\ others = none /\ UNCHANGED <<proc, tasks>>
               /\ own.mode \in {"stopping", "cancelling"}
               /\ own.intent = "shutdown"
               /\ own' = [own EXCEPT !.waiters = @ \cup none]
    <3>1. {Nobody} \ {Nobody} = none
      BY <2>1
    <3>2. \A S : [q \in Requests |-> IF q = Nobody THEN "waiting"
                                     ELSE IF q \in S THEN "declined" ELSE req[q]]
                 = Answer(S, "declined")
      BY <2>2 DEF Answer
    <3>3. none = {}
      BY <2>1
    <3>4. \/ /\ req' = Answer({own.wait}, "declined") /\ UNCHANGED proc
             /\ own.mode \in {"running", "unresponsive", "parked"}
             /\ Stopping("shutdown", none)
          \/ /\ req' = Answer(own.waiters, "declined") /\ UNCHANGED <<proc, tasks>>
             /\ own.mode = "launching" /\ Cancelling("shutdown", none)
          \/ /\ req' = Answer(own.waiters, "declined") /\ UNCHANGED <<proc, tasks>>
             /\ own.mode \in {"stopping", "cancelling"}
             /\ own' = [own EXCEPT !.intent = "shutdown", !.waiters = none]
          \/ /\ req' = Answer({}, "declined") /\ UNCHANGED <<proc, tasks>>
             /\ own.mode \in {"stopping", "cancelling"}
             /\ own.intent = "shutdown"
             /\ own' = [own EXCEPT !.waiters = @ \cup none]
      BY <1>3, <3>1, <3>2 DEF Shutdown
    <3> QED
      BY <3>3, <3>4
  <2>4. others \subseteq own.waiters \cup {own.wait}
    BY <2>1
  <2>5. CASE /\ others = {own.wait} /\ UNCHANGED proc
             /\ own.mode \in {"running", "unresponsive", "parked"}
             /\ Stopping("shutdown", none)
    <3>1. /\ OwnShape' /\ own'.child = own.child /\ own'.waiters = none
          /\ own'.wait = Nobody /\ TasksMove
      BY <2>1, <2>5, StoppingShape
    <3>2. ~Restarting'
      BY <2>5, ChildFacts DEF Stopping, Restarting, OwnRow
    <3> QED
      BY <1>1, <2>1, <2>3, <2>4, <2>5, <3>1, <3>2, SameProcs, DropStep
  <2>6. CASE /\ others = own.waiters /\ UNCHANGED <<proc, tasks>>
             /\ own.mode = "launching" /\ Cancelling("shutdown", none)
    <3>1. /\ OwnShape' /\ own'.child = own.child /\ own'.waiters = none
          /\ own'.wait = Nobody
      BY <2>1, <2>6, CancellingShape
    <3>2. ~Restarting'
      BY <2>6, ChildFacts DEF Cancelling, Restarting, OwnRow
    <3> QED
      BY <1>1, <2>1, <2>3, <2>4, <2>6, <3>1, <3>2, SameProcs, DropStep DEF TasksMove
  <2>7. CASE /\ others = own.waiters /\ UNCHANGED <<proc, tasks>>
             /\ own.mode \in {"stopping", "cancelling"}
             /\ own' = [own EXCEPT !.intent = "shutdown", !.waiters = none]
    <3>1. /\ OwnShape' /\ own'.child = own.child /\ own'.waiters = none
          /\ own'.wait = Nobody
      BY <2>1, <2>7, JoinedShape
    <3>2. ~Restarting'
      BY <2>7, ChildFacts DEF Restarting, OwnRow
    <3> QED
      BY <1>1, <2>1, <2>3, <2>4, <2>7, <3>1, <3>2, SameProcs, DropStep DEF TasksMove
  <2>8. CASE /\ others = none /\ UNCHANGED <<proc, tasks>>
             /\ own.mode \in {"stopping", "cancelling"}
             /\ own.intent = "shutdown"
             /\ own' = [own EXCEPT !.waiters = @ \cup none]
    <3>1. own' = own
      BY <2>1, <2>8, ChildFacts DEF OwnRow
    <3>2. req' = req
      BY <2>1, <2>3, <2>8 DEF Answer, Owns, Heard
    <3> QED
      BY <1>1, <2>8, <3>1, <3>2, WorldStep, SameProcs DEF TasksMove
  <2> QED
    BY <2>3, <2>5, <2>6, <2>7, <2>8
<1> QED
  BY <1>2, <1>3 DEF ExternalShutdown

LEMMA AdmitSound ==
    ASSUME Owns, NEW r \in Requests, Admit(r)
    PROVE  Sound
<1>1. Takes(r)
  BY DEF Admit, Takes
<1>2. CASE AdmitStart(r)
  BY <1>1, <1>2, AdmitStartSound
<1>3. CASE AdmitStop(r)
  BY <1>1, <1>3, AdmitStopSound
<1>4. CASE AdmitRestart(r)
  BY <1>1, <1>4, AdmitRestartSound
<1>5. CASE AdmitShutdown(r)
  <2>1. CASE req' = [req EXCEPT ![r] = "shutting_down"]
             /\ UNCHANGED <<own, proc, tasks>>
    BY <1>1, <2>1, AnsweredAtOnce
  <2>2. CASE Shutdown(r)
    BY <1>1, <2>2, ShutdownSound
  <2> QED
    BY <1>5, <2>1, <2>2 DEF AdmitShutdown
<1>6. CASE AdmitTransition(r)
  BY <1>1, <1>6, AdmitTransitionSound
<1>7. CASE \E op \in Ops[r] \cap {"observe", "force"} : AdmitObserve(r, op)
  BY <1>1, <1>7, AdmitObserveSound
<1> QED
  BY <1>2, <1>3, <1>4, <1>5, <1>6, <1>7 DEF Admit

-----------------------------------------------------------------------------
(* The theorems.                                                             *)

LEMMA InitOwns == Init => Owns /\ LiveLaunchHeld
<1> SUFFICES ASSUME Init PROVE Owns /\ LiveLaunchHeld
  OBVIOUS
<1>1. latest \in {"clear", "blocked"}
  BY LifecycleAssumption DEF Init
<1>2. Unborn \in ProcRow /\ Unborn.life = "none"
  BY DEF Unborn, ProcRow
<1>3. PICK live : live = [life |-> "alive", custody |-> "open", control |-> "open",
                          stopping |-> FALSE, killed |-> FALSE]
  OBVIOUS
<1>4. live \in ProcRow /\ live.life = "alive"
  BY <1>3 DEF ProcRow
<1>5. \/ own = Idle(Phase(latest)) /\ proc = [p \in Procs |-> Unborn]
      \/ /\ \E linked \in BOOLEAN :
               own = [Idle("ready") EXCEPT !.mode = "running", !.child = 0,
                           !.custody = TRUE, !.linked = linked]
         /\ proc = [p \in Procs |-> IF p = 0 THEN live ELSE Unborn]
  BY <1>3 DEF Init
<1>6. /\ own \in OwnRow /\ own.waiters = {} /\ own.wait = Nobody
      /\ own.saved = "none" /\ ~own.pending
      /\ \/ own.mode = "none" /\ own.child = Absent
         \/ own.mode = "running" /\ own.child = 0
  <2>1. CASE own = Idle(Phase(latest))
    BY <2>1, PhaseType, IdleShape
  <2>2. CASE \E linked \in BOOLEAN :
               own = [Idle("ready") EXCEPT !.mode = "running", !.child = 0,
                           !.custody = TRUE, !.linked = linked]
    <3>1. PICK idle : idle = Idle("ready")
      OBVIOUS
    <3>2. /\ idle \in OwnRow /\ idle.waiters = {} /\ idle.wait = Nobody
          /\ idle.saved = "none" /\ ~idle.pending
      BY <3>1, IdleShape DEF Phases
    <3>3. PICK linked \in BOOLEAN :
             own = [idle EXCEPT !.mode = "running", !.child = 0,
                           !.custody = TRUE, !.linked = linked]
      BY <2>2, <3>1
    <3> QED
      BY <3>2, <3>3, Names DEF OwnRow
  <2> QED
    BY <1>5, <2>1, <2>2
<1>7. OwnShape
  BY <1>6, Names DEF OwnShape
<1>8. Heard
  BY <1>6 DEF Heard, Init, Answers
<1>9. /\ proc \in [Procs -> ProcRow]
      /\ \A p \in Procs : proc[p] = Unborn \/ (p = 0 /\ proc[p] = live)
  BY <1>2, <1>4, <1>5
<1>10. own.child # Absent => own.child = 0 /\ proc[0].life = "alive"
  <2>1. CASE own = Idle(Phase(latest))
    BY <2>1, PhaseType, IdleShape
  <2>2. CASE proc = [p \in Procs |-> IF p = 0 THEN live ELSE Unborn]
    BY <1>4, <1>6, <2>2, Names
  <2> QED
    BY <1>5, <2>1, <2>2
<1>13. Held /\ LiveLaunchHeld
  BY <1>2, <1>4, <1>9, <1>10, Names DEF Held, LiveLaunchHeld, Alive
<1>11. TasksFit
  BY DEF TasksFit, Init
<1>12. Charged
  <2>1. Sent = {} /\ Born = {}
    BY <1>2, <1>9, Names DEF Sent, Born, Init
  <2>2. Sent = 1..0 /\ Born = 1..0 /\ 0 \in 0..MaxRequests /\ ~Restarting
    BY <1>6, <2>1, Names DEF Restarting
  <2> QED
    BY <2>2 DEF Charged
<1> QED
  BY <1>1, <1>7, <1>8, <1>11, <1>12, <1>13 DEF Owns

LEMMA NextSound == Owns /\ [Next]_vars => Sound
<1> SUFFICES ASSUME Owns, [Next]_vars PROVE Sound
  OBVIOUS
<1>1. CASE \E r \in Requests : Admit(r)
  BY <1>1, AdmitSound
<1>2. CASE ExternalShutdown \/ WorkerExit \/ Report
  BY <1>2, ExternalShutdownSound, WorkerExitSound, ReportSound
<1>3. CASE Owner
  BY <1>3, CompletionSound, PollSound, LinkEventSound, DocumentReadSound DEF Owner
<1>4. CASE World
  BY <1>4, TaskRunsSound, StopRequestSound, ExitsSound, MonitorSound, ExpireSound
     DEF World
<1>5. CASE UNCHANGED vars
  BY <1>5, WorldStep, SameProcs DEF vars, TasksMove
<1> QED
  BY <1>1, <1>2, <1>3, <1>4, <1>5 DEF Next

-----------------------------------------------------------------------------
(* The runtime link.                                                         *)

\* The i-th event is of the child, and says so.
Says(i, what) == events[i].proc = own.child /\ events[i].what = what

\* Before position n the child's link was last heard of as lost: by an event
\* still queued, or by the phase saved when the last one was handled.
Lost(n) ==
    \/ \E j \in 1..(n - 1) :
          Says(j, "lost") /\ \A k \in (j + 1)..(n - 1) : ~Says(k, "restored")
    \/ own.saved # "none" /\ \A k \in 1..(n - 1) : ~Says(k, "restored")

\* The monitor and its queue follow the linked child: a link is restored only
\* after it was lost, and no event precedes the link.
Links ==
    /\ monitor \in {"off", "watch", "lost"}
    /\ monitor # "off" => own.mode = "running" /\ own.linked
    /\ events \in Seq([proc : Procs, what : {"lost", "restored"}])
    /\ \A i \in DOMAIN events : proc[events[i].proc].life # "none"
    /\ own.mode \in {"launching", "cancelling"} =>
          \A i \in DOMAIN events : events[i].proc # own.child
    /\ own.mode = "running" /\ own.linked =>
          /\ \A i \in DOMAIN events : Says(i, "restored") => Lost(i)
          /\ monitor = "lost" => Lost(Len(events) + 1)

\* A step that leaves the queue and the child alone.
LinkKept ==
    /\ UNCHANGED <<own.mode, own.child, own.linked, events>>
    /\ own.pending => own'.pending
    /\ own.saved # "none" => own'.saved # "none"
    /\ monitor' \in {monitor, "off"}

\* A step that leaves the operation, or stays out of it.
LinkLeft ==
    /\ own'.mode \notin {"running", "launching", "cancelling"}
    /\ monitor' = "off" /\ events' = events

\* A launch begins, for a child that had no process.
LinkAhead ==
    /\ own'.mode = "launching" /\ own'.child \in Procs
    /\ proc[own'.child].life = "none"
    /\ monitor' = "off" /\ events' = events

\* A launch goes on, or is cancelled.
LinkAwaited ==
    /\ own.mode \in {"launching", "cancelling"}
    /\ own'.mode \in {"launching", "cancelling"}
    /\ own'.child = own.child
    /\ monitor' = "off" /\ events' = events

\* A launch is answered, and its link watched from there.
LinkBegins ==
    /\ own.mode = "launching" /\ own'.mode = "running"
    /\ own'.child = own.child
    /\ monitor' \in {"watch", "off"}
    /\ monitor' = "watch" => own'.linked
    /\ events' = events

LinkMoves == LinkKept \/ LinkLeft \/ LinkAhead \/ LinkAwaited \/ LinkBegins

LEMMA KeptLink ==
    ASSUME own'.mode = own.mode, own'.child = own.child,
           own'.linked = own.linked, own'.pending = own.pending,
           own'.saved = own.saved, UNCHANGED <<monitor, events>>
    PROVE  LinkMoves
BY DEF LinkMoves, LinkKept

LEMMA LeftLink ==
    ASSUME Links, own'.mode \notin {"running", "launching", "cancelling"},
           own.mode # "running" \/ monitor' = "off",
           monitor' \in {monitor, "off"}, UNCHANGED events
    PROVE  LinkMoves
BY DEF Links, LinkMoves, LinkLeft

LEMMA AwaitedLink ==
    ASSUME Links, own.mode \in {"launching", "cancelling"},
           own'.mode \in {"launching", "cancelling"}, own'.child = own.child,
           UNCHANGED <<monitor, events>>
    PROVE  LinkMoves
BY DEF Links, LinkMoves, LinkAwaited

LEMMA IdleLink ==
    ASSUME Links, NEW phase, own' = Idle(phase),
           own.mode # "running" \/ monitor' = "off",
           monitor' \in {monitor, "off"}, UNCHANGED events
    PROVE  LinkMoves
BY LeftLink DEF Idle

LEMMA TerminateLink ==
    ASSUME Links, NEW child, NEW custody, Terminate(child, custody),
           UNCHANGED events
    PROVE  LinkMoves
BY LeftLink DEF Terminate, Idle

LEMMA WorldLink ==
    ASSUME Owns, Links,
           \/ \E t \in tasks : TaskRuns(t) \/ StopRequest(t)
           \/ \E p \in Procs : Exits(p) \/ Disturbed(p)
           \/ Expire \/ Report \/ DocumentRead
    PROVE  LinkMoves
<1>1. own \in OwnRow
  BY DEF Owns, OwnShape
<1>2. CASE UNCHANGED <<own, monitor, events>>
  BY <1>2, KeptLink
<1>3. CASE Expire
  BY <1>1, <1>3, KeptLink DEF Expire, OwnRow
<1>4. CASE own.mode = "none" /\ \E phase : own' = Idle(phase)
           /\ UNCHANGED <<monitor, events>>
  BY <1>4, IdleLink
<1>5. CASE ConfigChanged /\ UNCHANGED <<monitor, events>>
  BY <1>1, <1>2, <1>5 DEF ConfigChanged, LinkMoves, LinkKept, OwnRow
<1>6. CASE Report
  BY <1>2, <1>4, <1>5, <1>6 DEF Report, Readiness, ReadinessUnavailable
<1>7. CASE DocumentRead
  BY <1>2, <1>4, <1>7 DEF DocumentRead
<1> QED
  BY <1>2, <1>3, <1>6, <1>7 DEF TaskRuns, StopRequest, Exits, Disturbed

LEMMA PollLink ==
    ASSUME Owns, Links, Poll \/ WorkerExit
    PROVE  LinkMoves
<1>1. own \in OwnRow
  BY DEF Owns, OwnShape
<1>2. CASE UNCHANGED events /\ \E child, custody : Terminate(child, custody)
  BY <1>2, TerminateLink
<1>3. CASE PollLaunching /\ UNCHANGED events
  BY <1>2, <1>3, IdleLink DEF PollLaunching, LaunchFailed
<1>4. CASE PollManaged /\ UNCHANGED events
  BY <1>2, <1>4, IdleLink DEF PollManaged
<1>5. CASE PollStopping /\ UNCHANGED events
  <2>1. CASE UNCHANGED monitor /\ own'.mode \in {"stopping", "unresponsive"}
    BY <1>5, <2>1, LeftLink DEF PollStopping
  <2> QED
    BY <1>1, <1>2, <1>5, <2>1 DEF PollStopping, OwnRow, Idle
<1>6. CASE PollParked /\ UNCHANGED events
  <2>1. CASE UNCHANGED monitor /\ own'.mode = "parked"
    BY <1>6, <2>1, LeftLink DEF PollParked
  <2> QED
    BY <1>1, <1>2, <1>6, <2>1 DEF PollParked, OwnRow
<1>7. CASE PollCancelling /\ UNCHANGED events
  <2>1. CASE CancelDone
    BY <1>7, <2>1, IdleLink DEF PollCancelling, CancelDone
  <2>2. CASE UNCHANGED monitor /\ own'.mode = "cancelling" /\ own'.child = own.child
    BY <1>7, <2>2, AwaitedLink DEF PollCancelling
  <2> QED
    BY <1>1, <1>2, <1>7, <2>1, <2>2 DEF PollCancelling, Forced, OwnRow
<1> QED
  BY <1>2, <1>3, <1>4, <1>5, <1>6, <1>7 DEF Poll, WorkerExit

LEMMA LaunchLink ==
    ASSUME Owns, Links, Sound, NEW intent, NEW phase, NEW who, NEW others,
           Launch(intent, phase, who, others), own.child = Absent,
           own.mode \in {"none", "stopping"}, UNCHANGED <<monitor, events>>
    PROVE  LinkMoves
<1>1. CASE \E ph : own' = Idle(ph)
  BY <1>1, IdleLink
<1>2. CASE own'.mode = "launching"
  <2>1. own'.child \in Launches
    BY <1>2 DEF Sound, Owns, OwnShape
  <2>2. own'.child \in Procs /\ proc[own'.child].life = "none"
    BY <2>1, Names DEF Sound, Fresh
  <2>3. monitor' = "off"
    BY DEF Links
  <2> QED
    BY <1>2, <2>2, <2>3 DEF LinkMoves, LinkAhead
<1> QED
  BY <1>1, <1>2 DEF Launch, Idle

LEMMA CompletionLink ==
    ASSUME Owns, Links, Sound, NEW t \in tasks, Completion(t)
    PROVE  LinkMoves
<1>1. own \in OwnRow /\ UNCHANGED events
  BY DEF Owns, OwnShape, Completion
<1>2. CASE \E child, custody : Terminate(child, custody)
  BY <1>1, <1>2, TerminateLink
<1>3. CASE LaunchFailed /\ UNCHANGED monitor /\ own.mode = "launching"
  BY <1>1, <1>3, IdleLink DEF LaunchFailed
<1>4. CASE CancelDone /\ own.mode = "cancelling"
  BY <1>1, <1>4, IdleLink DEF CancelDone
<1>5. CASE LaunchCommitted(t)
  <2>1. CASE UNCHANGED monitor /\ own'.mode = "launching" /\ own'.child = own.child
    BY <1>1, <1>5, <2>1, AwaitedLink DEF LaunchCommitted
  <2> QED
    BY <1>1, <1>2, <1>3, <1>5, <2>1 DEF LaunchCommitted, OwnRow
<1>6. CASE CancelCommitted(t)
  <2>1. CASE UNCHANGED monitor /\ own'.mode = "cancelling" /\ own'.child = own.child
    BY <1>1, <1>6, <2>1, AwaitedLink DEF CancelCommitted
  <2> QED
    BY <1>1, <1>2, <1>4, <1>6, <2>1 DEF CancelCommitted, Forced, OwnRow
<1>7. CASE LaunchConnected(t)
  <2>1. CASE /\ own' = [Idle(own.phase) EXCEPT !.mode = "running",
                           !.child = t.proc, !.custody = TRUE,
                           !.linked = t.out = "ok"]
             /\ monitor' = IF t.out = "ok" THEN "watch" ELSE "off"
    BY <1>1, <1>7, <2>1 DEF LaunchConnected, LinkMoves, LinkBegins, Idle
  <2> QED
    BY <1>2, <1>3, <1>7, <2>1 DEF LaunchConnected
<1>8. CASE CancelConnected(t)
  <2>1. CASE UNCHANGED monitor /\ own'.mode = "cancelling" /\ own'.child = own.child
    BY <1>1, <1>8, <2>1, AwaitedLink DEF CancelConnected
  <2> QED
    BY <1>1, <1>4, <1>8, <2>1 DEF CancelConnected, Forced, OwnRow
<1>9. CASE EarlyStopRequested(t)
  <2>1. own'.mode = "cancelling" /\ own'.child = own.child
    BY <1>1, <1>9 DEF EarlyStopRequested, Forced, OwnRow
  <2> QED
    BY <1>1, <1>9, <2>1, AwaitedLink DEF EarlyStopRequested
<1>10. CASE StopCompleted(t)
  <2>1. CASE \E phase : own' = Idle(phase)
    BY <1>1, <1>10, <2>1, IdleLink DEF StopCompleted
  <2>2. CASE Launch("restart", "ready", own.waiters, tasks \ {t})
    BY <1>1, <1>10, <2>2, LaunchLink DEF StopCompleted
  <2> QED
    BY <1>10, <2>1, <2>2 DEF StopCompleted
<1>11. CASE TransitionStopped(t)
  BY <1>1, <1>11, IdleLink DEF TransitionStopped
<1> QED
  BY <1>1, <1>5, <1>6, <1>7, <1>8, <1>9, <1>10, <1>11, KeptLink DEF Completion

LEMMA StoppingLink ==
    ASSUME Owns, Links, NEW intent, NEW who, Stopping(intent, who),
           UNCHANGED events
    PROVE  LinkMoves
<1>1. own'.mode = "stopping" /\ monitor' = "off"
  BY DEF Stopping, Owns, OwnShape, OwnRow
<1> QED
  BY <1>1, LeftLink

LEMMA CancellingLink ==
    ASSUME Owns, Links, NEW intent, NEW who, Cancelling(intent, who),
           own.mode = "launching", UNCHANGED <<monitor, events>>
    PROVE  LinkMoves
<1>1. own'.mode = "cancelling" /\ own'.child = own.child
  BY DEF Cancelling, Owns, OwnShape, OwnRow
<1> QED
  BY <1>1, AwaitedLink

LEMMA ShutdownLink ==
    ASSUME Owns, Links, NEW r \in Requests \cup {Nobody}, Shutdown(r),
           UNCHANGED events
    PROVE  LinkMoves
<1>1. own \in OwnRow
  BY DEF Owns, OwnShape
<1>2. CASE \E who : Stopping("shutdown", who)
  BY <1>2, StoppingLink
<1>3. CASE own.mode = "launching" /\ UNCHANGED monitor
           /\ \E who : Cancelling("shutdown", who)
  BY <1>3, CancellingLink
<1>4. CASE /\ UNCHANGED monitor
           /\ \E who : \/ own' = [own EXCEPT !.intent = "shutdown", !.waiters = who]
                       \/ own' = [own EXCEPT !.waiters = @ \cup who]
  BY <1>1, <1>4, KeptLink DEF OwnRow
<1> QED
  BY <1>2, <1>3, <1>4 DEF Shutdown

LEMMA AdmitLink ==
    ASSUME Owns, Links, Sound, NEW r \in Requests, Admit(r)
    PROVE  LinkMoves
<1>1. own \in OwnRow /\ UNCHANGED events
  BY DEF Owns, OwnShape, Admit
<1>2. CASE UNCHANGED <<own, monitor>>
  BY <1>1, <1>2, KeptLink
<1>3. CASE Join(r) /\ UNCHANGED monitor
  BY <1>1, <1>3, KeptLink DEF Join, OwnRow
<1>4. CASE \E intent, who : Stopping(intent, who)
  BY <1>1, <1>4, StoppingLink
<1>5. CASE AdmitStart(r)
  <2>1. CASE own.mode = "none" /\ Launch("start", own.phase, {r}, tasks)
             /\ UNCHANGED monitor
    <3>1. own.child = Absent
      BY <2>1 DEF Owns, OwnShape
    <3> QED
      BY <1>1, <2>1, <3>1, LaunchLink
  <2> QED
    BY <1>2, <1>3, <1>5, <2>1 DEF AdmitStart
<1>6. CASE AdmitStop(r)
  <2>1. CASE own.mode = "launching" /\ Cancelling("stop", {r}) /\ UNCHANGED monitor
    BY <1>1, <2>1, CancellingLink
  <2>2. CASE own' = [own EXCEPT !.intent = "stop", !.waiters = {r}]
             /\ UNCHANGED monitor
    BY <1>1, <2>2, KeptLink DEF OwnRow
  <2> QED
    BY <1>2, <1>3, <1>4, <1>6, <2>1, <2>2 DEF AdmitStop
<1>7. CASE AdmitRestart(r)
  BY <1>2, <1>3, <1>4, <1>7 DEF AdmitRestart
<1>8. CASE AdmitShutdown(r)
  BY <1>1, <1>2, <1>8, ShutdownLink DEF AdmitShutdown
<1>9. CASE AdmitTransition(r)
  <2>1. CASE own' = [own EXCEPT !.mode = "parked", !.wait = r, !.expired = FALSE,
                      !.finishing = FALSE, !.linked = FALSE,
                      !.pending = FALSE, !.saved = "none"]
             /\ monitor' = "off"
    <3>1. own'.mode = "parked"
      BY <1>1, <2>1 DEF OwnRow
    <3> QED
      BY <1>1, <2>1, <3>1, LeftLink
  <2> QED
    BY <1>2, <1>9, <2>1 DEF AdmitTransition
<1>10. ASSUME NEW op, AdmitObserve(r, op) PROVE LinkMoves
  <2>1. CASE own' = [own EXCEPT !.wait = r, !.expired = FALSE] /\ UNCHANGED monitor
    BY <1>1, <2>1, KeptLink DEF OwnRow
  <2> QED
    BY <1>2, <1>10, <2>1 DEF AdmitObserve
<1> QED
  BY <1>5, <1>6, <1>7, <1>8, <1>9, <1>10 DEF Admit

LEMMA ExternalShutdownLink ==
    ASSUME Owns, Links, ExternalShutdown
    PROVE  LinkMoves
BY KeptLink, ShutdownLink DEF ExternalShutdown

LEMMA NextLink ==
    ASSUME Owns, Links, Sound, [Next]_vars
    PROVE  Monitor \/ LinkEvent \/ LinkMoves
<1>1. CASE \E r \in Requests : Admit(r)
  BY <1>1, AdmitLink
<1>2. CASE ExternalShutdown \/ WorkerExit \/ Report
  BY <1>2, ExternalShutdownLink, PollLink, WorldLink
<1>3. CASE Owner
  BY <1>3, CompletionLink, PollLink, WorldLink DEF Owner
<1>4. CASE World
  BY <1>4, WorldLink DEF World
<1>5. CASE UNCHANGED vars
  BY <1>5, KeptLink DEF vars
<1> QED
  BY <1>1, <1>2, <1>3, <1>4, <1>5 DEF Next

\* A pending restart stays pending while the runtime runs.
RestartKept ==
    own.mode = "running" /\ own.pending /\ own'.mode = "running" => own'.pending

LEMMA EventFacts ==
    ASSUME Owns, Links, Fresh
    PROVE  /\ Len(events) \in Nat /\ DOMAIN events = 1..Len(events)
           /\ \A i \in DOMAIN events :
                 /\ events[i] \in [proc : Procs, what : {"lost", "restored"}]
                 /\ events[i].proc \in Procs /\ events[i].what \in {"lost", "restored"}
                 /\ proc[events[i].proc].life # "none"
                 /\ proc'[events[i].proc].life # "none"
<1> DEFINE E == [proc : Procs, what : {"lost", "restored"}]
<1>1. events \in Seq(E)
  BY DEF Links
<1> HIDE DEF E
<1>2. /\ Len(events) \in Nat /\ DOMAIN events = 1..Len(events)
      /\ \A i \in DOMAIN events : events[i] \in E
  BY <1>1
<1>3. /\ Len(events) \in Nat /\ DOMAIN events = 1..Len(events)
      /\ \A i \in DOMAIN events :
            /\ events[i] \in [proc : Procs, what : {"lost", "restored"}]
            /\ events[i].proc \in Procs /\ events[i].what \in {"lost", "restored"}
  BY <1>2 DEF E
<1> QED
  BY <1>3 DEF Links, Fresh

LEMMA MovesLinks ==
    ASSUME Owns, Links, Sound, LinkMoves
    PROVE  Links' /\ RestartKept
<1>1. /\ monitor' \in {"off", "watch", "lost"} /\ events' = events
  BY DEF LinkMoves, LinkKept, LinkLeft, LinkAhead, LinkAwaited, LinkBegins, Links
<1>2. \A i \in DOMAIN events : proc'[events[i].proc].life # "none"
  BY EventFacts DEF Sound
<1>3. CASE LinkKept
  <2>1. \A i, what : Says(i, what)' <=> Says(i, what)
    BY <1>3 DEF LinkKept, Says
  <2>2. ASSUME NEW n, Lost(n) PROVE Lost(n)'
    <3>1. own.saved # "none" => own'.saved # "none"
      BY <1>3 DEF LinkKept
    <3> QED
      BY <2>1, <2>2, <3>1 DEF Lost
  <2>3. PICK n : n = Len(events)
    OBVIOUS
  <2>4. ASSUME own.mode = "running", own.linked
        PROVE  /\ \A i \in DOMAIN events : Says(i, "restored")' => Lost(i)'
               /\ monitor = "lost" => Lost(n + 1)'
    <3>1. /\ \A i \in DOMAIN events : Says(i, "restored") => Lost(i)
          /\ monitor = "lost" => Lost(n + 1)
      BY <2>3, <2>4 DEF Links
    <3>2. \A i : Lost(i) => Lost(i)'
      BY <2>2
    <3> QED
      BY <2>1, <3>1, <3>2
  <2> QED
    BY <1>1, <1>2, <1>3, <2>3, <2>4 DEF LinkKept, Links, RestartKept
<1>4. CASE LinkLeft
  BY <1>1, <1>2, <1>4 DEF LinkLeft, Links, RestartKept
<1>5. CASE LinkAhead
  BY <1>1, <1>2, <1>5, EventFacts DEF Sound, LinkAhead, Links, RestartKept
<1>6. CASE LinkAwaited
  BY <1>1, <1>2, <1>6 DEF LinkAwaited, Links, RestartKept
<1>7. CASE LinkBegins
  <2>1. \A i \in DOMAIN events' : ~Says(i, "restored")'
    BY <1>1, <1>7 DEF LinkBegins, Links, Says
  <2>2. monitor' # "lost"
    BY <1>7 DEF LinkBegins
  <2> QED
    BY <1>1, <1>2, <1>7, <2>1, <2>2 DEF LinkBegins, Links, RestartKept
<1> QED
  BY <1>3, <1>4, <1>5, <1>6, <1>7 DEF LinkMoves

\* The monitor appends what it saw of the channel.
LEMMA MonitorLinks ==
    ASSUME Owns, Links, Sound, Monitor
    PROVE  Links' /\ RestartKept
<1>1. /\ own' = own /\ own.mode = "running" /\ own.linked /\ monitor # "off"
      /\ own.child \in Procs /\ proc[own.child].life # "none"
      /\ proc'[own.child].life # "none"
  <2>1. own' = own /\ monitor # "off" /\ own.child \in Procs
    BY DEF Monitor
  <2> QED
    BY <2>1, Names DEF Links, Owns, Held, Sound, Fresh
<1>2. CASE monitor' = "off" /\ UNCHANGED events
  BY <1>1, <1>2, KeptLink, MovesLinks, EventFacts
     DEF Sound, LinkMoves, LinkKept
<1>3. ASSUME NEW what \in {"lost", "restored"},
             events' = Append(events, [proc |-> own.child, what |-> what]),
             monitor' = IF what = "lost" THEN "lost" ELSE "watch",
             what = "restored" => monitor = "lost"
      PROVE  Links'
  <2> DEFINE E == [proc : Procs, what : {"lost", "restored"}]
             W == {"lost", "restored"}
  <2>0. PICK n : n = Len(events)
    OBVIOUS
  <2>1. PICK e : e = [proc |-> own.child, what |-> what]
    OBVIOUS
  <2>2. e \in E /\ events \in Seq(E) /\ events' = Append(events, e)
    BY <1>1, <1>3, <2>1 DEF Links
  <2>3. /\ events' \in Seq(E) /\ n \in Nat /\ Len(events') = n + 1
        /\ DOMAIN events' = 1..(n + 1) /\ DOMAIN events = 1..n
        /\ \A i \in 1..n : events'[i] = events[i]
        /\ events'[n + 1] = e
    BY <2>0, <2>2
  <2>4. \A i \in DOMAIN events' : proc'[events'[i].proc].life # "none"
    BY <1>1, <2>1, <2>3, EventFacts DEF Sound
  <2>5. \A i \in 1..n, s \in W : Says(i, s)' <=> Says(i, s)
    BY <1>1, <2>3 DEF Says
  <2>6. \A s \in W : Says(n + 1, s)' <=> s = what
    <3>1. e.proc = own.child /\ e.what = what
      BY <2>1
    <3> QED
      BY <1>1, <2>3, <3>1 DEF Says
  <2>7. ASSUME NEW i \in 1..(n + 1), Lost(i) PROVE Lost(i)'
    <3>1. \A k \in 1..(i - 1) : k \in 1..n
      BY <2>3
    <3>2. \A k \in 1..(i - 1), s \in W : Says(k, s)' <=> Says(k, s)
      BY <2>5, <3>1
    <3>3. CASE own.saved # "none" /\ \A k \in 1..(i - 1) : ~Says(k, "restored")
      BY <1>1, <3>2, <3>3 DEF Lost
    <3>4. ASSUME NEW j \in 1..(i - 1), Says(j, "lost"),
                 \A k \in (j + 1)..(i - 1) : ~Says(k, "restored")
          PROVE  Lost(i)'
      <4>1. \A k \in (j + 1)..(i - 1) : k \in 1..(i - 1)
        OBVIOUS
      <4>2. Says(j, "lost")' /\ \A k \in (j + 1)..(i - 1) : ~Says(k, "restored")'
        BY <3>2, <3>4, <4>1
      <4> QED
        BY <4>2 DEF Lost
    <3> QED
      BY <2>7, <3>3, <3>4 DEF Lost
  <2>8. ASSUME NEW i \in DOMAIN events', Says(i, "restored")' PROVE Lost(i)'
    <3>1. CASE i \in 1..n
      <4>1. Lost(i)
        BY <1>1, <2>3, <2>5, <2>8, <3>1 DEF Links
      <4> QED
        BY <2>3, <2>7, <3>1, <4>1
    <3>2. CASE i = n + 1
      <4>1. what = "restored"
        BY <2>6, <2>8, <3>2 DEF W
      <4>2. Lost(n + 1)
        BY <1>1, <1>3, <2>0, <4>1 DEF Links
      <4> QED
        BY <2>3, <2>7, <3>2, <4>2
    <3> QED
      BY <2>3, <3>1, <3>2
  <2>9. ASSUME monitor' = "lost" PROVE Lost((n + 1) + 1)'
    <3>1. Says(n + 1, "lost")'
      BY <1>3, <2>6, <2>9
    <3>2. /\ n + 1 \in 1..(((n + 1) + 1) - 1)
          /\ ((n + 1) + 1)..(((n + 1) + 1) - 1) = {}
      BY <2>3
    <3> QED
      BY <3>1, <3>2 DEF Lost
  <2>10. ASSUME own'.mode = "running", own'.linked
         PROVE  /\ \A i \in DOMAIN events' : Says(i, "restored")' => Lost(i)'
                /\ monitor' = "lost" => Lost((n + 1) + 1)'
    BY <2>8, <2>9
  <2> QED
    BY <1>1, <1>3, <2>3, <2>4, <2>10 DEF Links
<1> QED
  BY <1>1, <1>2, <1>3 DEF Monitor, RestartKept

\* What is known of a link outlives the event at the head of its queue.
LEMMA LostStays ==
    ASSUME Owns, Links, events # <<>>, events' = Tail(events),
           own'.child = own.child,
           Says(1, "lost") => own'.saved # "none",
           ~Says(1, "restored") /\ own.saved # "none" => own'.saved # "none"
    PROVE  /\ Len(events) >= 1 /\ DOMAIN events' = 1..(Len(events) - 1)
           /\ \A i \in 1..(Len(events) - 1) : events'[i] = events[i + 1]
           /\ events' \in Seq([proc : Procs, what : {"lost", "restored"}])
           /\ Len(events') = Len(events) - 1
           /\ \A i \in 1..Len(events) : Lost(i + 1) => Lost(i)'
<1> DEFINE E == [proc : Procs, what : {"lost", "restored"}]
<1>0. events \in Seq(E)
  BY DEF Links
<1> HIDE DEF E
<1>1. PICK n : n = Len(events)
  OBVIOUS
<1>2. /\ n \in Nat /\ n >= 1 /\ DOMAIN events' = 1..(n - 1)
      /\ \A i \in 1..(n - 1) : events'[i] = events[i + 1]
      /\ events' \in Seq(E) /\ Len(events') = n - 1
  BY <1>0, <1>1
<1>3. \A i \in 1..(n - 1) : \A what : Says(i, what)' <=> Says(i + 1, what)
  BY <1>2 DEF Says
<1>4. ASSUME NEW i \in 1..n, Lost(i + 1) PROVE Lost(i)'
  <2>0. i \in Nat /\ (i + 1) - 1 = i
    OBVIOUS
  <2>1. \A k \in 1..(i - 1) : k \in 1..(n - 1) /\ k + 1 \in 1..i
    BY <1>2
  <2>2. CASE own.saved # "none" /\ \A k \in 1..i : ~Says(k, "restored")
    <3>1. ~Says(1, "restored")
      BY <2>0, <2>2
    <3>2. \A k \in 1..(i - 1) : ~Says(k, "restored")'
      BY <1>3, <2>1, <2>2
    <3> QED
      BY <2>2, <3>1, <3>2 DEF Lost
  <2>3. ASSUME NEW j \in 1..i, Says(j, "lost"),
               \A k \in (j + 1)..i : ~Says(k, "restored")
        PROVE  Lost(i)'
    <3>1. CASE j = 1
      <4>1. \A k \in 1..(i - 1) : k + 1 \in (j + 1)..i
        BY <3>1
      <4>2. \A k \in 1..(i - 1) : ~Says(k, "restored")'
        BY <1>3, <2>1, <2>3, <4>1
      <4> QED
        BY <2>3, <3>1, <4>2 DEF Lost
    <3>2. CASE j # 1
      <4>1. PICK m \in 1..(i - 1) : j = m + 1
        <5>1. j - 1 \in 1..(i - 1) /\ j = (j - 1) + 1
          BY <3>2
        <5> QED
          BY <5>1
      <4>2. \A k \in (m + 1)..(i - 1) : k \in 1..(i - 1) /\ k + 1 \in (j + 1)..i
        BY <4>1
      <4>3. Says(m, "lost")' /\ \A k \in (m + 1)..(i - 1) : ~Says(k, "restored")'
        BY <1>3, <2>1, <2>3, <4>1, <4>2
      <4> QED
        BY <4>3 DEF Lost
    <3> QED
      BY <3>1, <3>2
  <2> QED
    BY <1>4, <2>0, <2>2, <2>3 DEF Lost
<1> QED
  BY <1>1, <1>2, <1>4 DEF E

LEMMA LinkEventLinks ==
    ASSUME Owns, Links, Sound, LinkEvent
    PROVE  Links' /\ RestartKept
<1>1. /\ own \in OwnRow /\ events # <<>> /\ events' = Tail(events)
      /\ UNCHANGED monitor
  BY DEF Owns, OwnShape, LinkEvent
<1>2. PICK n : n = Len(events)
  OBVIOUS
<1>3. n \in Nat /\ n >= 1 /\ Head(events) = events[1] /\ 1 \in DOMAIN events
  BY <1>1, <1>2, EventFacts DEF Sound
<1>4. /\ UNCHANGED <<own.mode, own.child, own.linked>>
      /\ own.mode = "running" /\ own.linked =>
            /\ Says(1, "lost") => own'.saved # "none"
            /\ ~Says(1, "restored") /\ own.saved # "none" => own'.saved # "none"
  BY <1>1, <1>3 DEF LinkEvent, Says, OwnRow
<1>5. CASE own.mode = "running" /\ own.linked
  <2>1. /\ DOMAIN events' = 1..(n - 1) /\ Len(events') = n - 1
        /\ \A i \in 1..(n - 1) : events'[i] = events[i + 1]
        /\ events' \in Seq([proc : Procs, what : {"lost", "restored"}])
        /\ \A i \in 1..n : Lost(i + 1) => Lost(i)'
    BY <1>1, <1>2, <1>4, <1>5, LostStays
  <2>2. \A i \in 1..(n - 1) : i + 1 \in DOMAIN events /\ i \in 1..n
    BY <1>2, <1>3, EventFacts DEF Sound
  <2>3. \A i \in DOMAIN events' : proc'[events'[i].proc].life # "none"
    BY <2>1, <2>2, EventFacts DEF Sound
  <2>4. \A i \in DOMAIN events : Says(i, "restored") => Lost(i)
    BY <1>5 DEF Links
  <2>5. \A i \in 1..(n - 1) : Says(i, "restored")' => Says(i + 1, "restored")
    BY <1>4, <2>1 DEF Says
  <2>6. \A i \in DOMAIN events' : Says(i, "restored")' => Lost(i)'
    BY <2>1, <2>2, <2>4, <2>5
  <2>7. monitor = "lost" => Lost(n + 1)
    BY <1>2, <1>5 DEF Links
  <2>8. ((n - 1) + 1 = n) /\ n \in 1..n
    BY <1>3
  <2>9. PICK m : m = n - 1 /\ m + 1 = n
    BY <2>8
  <2>10. monitor' = "lost" => Lost(m + 1)'
    BY <1>1, <2>1, <2>7, <2>8, <2>9
  <2>11. Links'
    BY <1>1, <1>4, <1>5, <2>1, <2>3, <2>6, <2>9, <2>10 DEF Links
  <2>12. RestartKept
    <3>1. CASE ~(own.child = events[1].proc /\ events[1].what = "restored")
      BY <1>1, <1>3, <3>1 DEF LinkEvent, RestartKept, OwnRow
    <3>2. CASE Says(1, "restored")
      <4>1. Lost(1)
        BY <1>3, <2>4, <3>2
      <4>2. own.saved # "none"
        BY <4>1 DEF Lost
      <4>3. own.pending => own.saved = "pending"
        BY <1>1, <4>2 DEF Owns, OwnShape, OwnRow
      <4>4. own' = [own EXCEPT !.pending = own.saved = "pending",
                               !.saved = "none"]
        BY <1>3, <1>5, <3>2 DEF LinkEvent, Says
      <4> QED
        BY <1>1, <4>3, <4>4 DEF RestartKept, OwnRow
    <3> QED
      BY <3>1, <3>2 DEF Says
  <2> QED
    BY <2>11, <2>12
<1>6. CASE ~(own.mode = "running" /\ own.linked)
  <2>1. own' = own
    BY <1>6 DEF LinkEvent
  <2> DEFINE E == [proc : Procs, what : {"lost", "restored"}]
  <2>2. events \in Seq(E)
    BY DEF Links
  <2> HIDE DEF E
  <2>3. /\ events' \in Seq(E) /\ DOMAIN events' = 1..(n - 1)
        /\ \A i \in 1..(n - 1) : events'[i] = events[i + 1]
    BY <1>1, <1>2, <1>3, <2>2
  <2>4. \A i \in 1..(n - 1) : i + 1 \in DOMAIN events
    BY <1>2, <1>3, EventFacts DEF Sound
  <2>5. \A i \in DOMAIN events' : proc'[events'[i].proc].life # "none"
    BY <2>3, <2>4, EventFacts DEF Sound
  <2>6. own.mode \in {"launching", "cancelling"} =>
           \A i \in DOMAIN events' : events'[i].proc # own.child
    BY <2>3, <2>4 DEF Links
  <2>7. events' \in Seq([proc : Procs, what : {"lost", "restored"}])
    BY <2>3 DEF E
  <2>8. Links'
    BY <1>1, <1>6, <2>1, <2>5, <2>6, <2>7 DEF Links
  <2> QED
    BY <2>1, <2>8 DEF RestartKept
<1> QED
  BY <1>5, <1>6

LEMMA InitLinks == Init => Links
<1> SUFFICES ASSUME Init PROVE Links
  OBVIOUS
<1>1. /\ monitor \in {"off", "watch"}
      /\ monitor = "watch" => own.mode = "running" /\ own.linked
      /\ own.mode \notin {"launching", "cancelling"}
  <2>1. CASE \E phase : own = Idle(phase) /\ monitor = "off"
    BY <2>1 DEF Idle
  <2>2. CASE \E linked \in BOOLEAN :
                /\ own = [Idle("ready") EXCEPT !.mode = "running", !.child = 0,
                             !.custody = TRUE, !.linked = linked]
                /\ monitor = IF linked THEN "watch" ELSE "off"
    BY <2>2 DEF Idle
  <2> QED
    BY <2>1, <2>2 DEF Init
<1>2. events = <<>> /\ DOMAIN events = {}
  BY DEF Init
<1>3. events \in Seq([proc : Procs, what : {"lost", "restored"}])
  BY <1>2
<1> QED
  BY <1>1, <1>2, <1>3 DEF Links

-----------------------------------------------------------------------------
(* The owner's rows and its child stay in their types, and every waiter is   *)
(* held by an operation that can answer it, whatever the runtime does.       *)
THEOREM LifecycleTypeCorrect == Spec => []TypeOK
<1>1. Owns => TypeOK
  BY Names DEF Owns, OwnShape, OwnRow, Phases, Heard, TasksFit, TaskRow, TypeOK
<1>2. Init => Owns
  BY InitOwns
<1>3. Owns /\ [Next]_vars => Owns'
  BY NextSound DEF Sound
<1> QED
  BY <1>1, <1>2, <1>3, PTL DEF Spec

(* No runtime this manager spawned is lost sight of while it lives, as long  *)
(* as a killed early child is reaped within its deadline.                    *)
THEOREM LiveLaunchHeldHolds ==
    ASSUME ~SlowReap
    PROVE  Spec => []LiveLaunchHeld
<1>1. Init => Owns /\ LiveLaunchHeld
  BY InitOwns
<1>2. (Owns /\ LiveLaunchHeld) /\ [Next]_vars => (Owns /\ LiveLaunchHeld)'
  BY NextSound DEF Sound
<1> QED
  BY <1>1, <1>2, PTL DEF Spec

\* What AnswersTrue says of one step.
AnswerTrue ==
    \A r \in Requests :
       req'[r] # req[r] =>
         /\ req[r] \in {"unsent", "waiting"}
         /\ req'[r] = "stopped" =>
              /\ own'.mode = "none"
              /\ \A p \in Launches : proc'[p].life # "alive"
         /\ req'[r] = "started" =>
              own'.mode = "running" /\ own'.custody /\ Alive(own'.child)

(* Under the same condition an answer is true when it is given: "stopped"    *)
(* finds no spawned runtime alive, "started" finds it attached; and nobody   *)
(* is answered twice.                                                        *)
THEOREM AnswersTrueHolds ==
    ASSUME ~SlowReap
    PROVE  Spec => AnswersTrue
<1>1. Init => Owns /\ LiveLaunchHeld
  BY InitOwns
<1>2. (Owns /\ LiveLaunchHeld) /\ [Next]_vars => (Owns /\ LiveLaunchHeld)'
  BY NextSound DEF Sound
<1>3. (Owns /\ LiveLaunchHeld) /\ [Next]_vars => [AnswerTrue]_vars
  <2> SUFFICES ASSUME Owns, LiveLaunchHeld, [Next]_vars PROVE AnswerTrue
    OBVIOUS
  <2>1. Told /\ OwnShape' /\ LiveLaunchHeld'
    BY NextSound DEF Sound, Owns
  <2>2. ASSUME own'.mode = "none", NEW p \in Launches
        PROVE  proc'[p].life # "alive"
    BY <2>1, <2>2, Names DEF OwnShape, LiveLaunchHeld, Alive
  <2> QED
    BY <2>1, <2>2 DEF Told, AnswerTrue
<1>4. AnswersTrue <=> [][AnswerTrue]_vars
  BY PTL DEF AnswersTrue, AnswerTrue
<1> QED
  BY <1>1, <1>2, <1>3, <1>4, PTL DEF Spec

(* A configuration change a running runtime has seen stays pending until     *)
(* that runtime is replaced, whatever its link does meanwhile: the monitor   *)
(* queues a restoration only behind the loss that saved the phase (Links).   *)
THEOREM RestartPendingKeptHolds == Spec => RestartPendingKept
<1>1. Init => Owns /\ Links
  BY InitOwns, InitLinks
<1>2. (Owns /\ Links) /\ [Next]_vars => (Owns /\ Links)' /\ RestartKept
  BY NextSound, NextLink, MovesLinks, MonitorLinks, LinkEventLinks DEF Sound
<1>3. RestartPendingKept <=> [][RestartKept]_vars
  BY PTL DEF RestartPendingKept, RestartKept
<1> QED
  BY <1>1, <1>2, <1>3, PTL DEF Spec
=============================================================================
