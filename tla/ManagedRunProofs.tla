------------------------- MODULE ManagedRunProofs ---------------------------
(* The safety of the managed plane for every set of runs, tenants, programs *)
(* and slots.  FenceInv is what the thread's claim token protects: a drive  *)
(* that still holds the thread knows what its log holds.  PlanesInv adds    *)
(* what holds of leases while no drive outlives its own before its          *)
(* heartbeat starts.                                                        *)
EXTENDS ManagedRun, FiniteSetTheorems, SequenceTheorems, TLAPS

-----------------------------------------------------------------------------
(* The log: what appending a record does to its counts.                     *)

Kinds == {"input", "call", "cap", "wait", "resolved", "artifact"} \cup CapCauses

LEMMA AppendFacts ==
    ASSUME NEW s \in Seq(Kinds), NEW x \in Kinds
    PROVE  /\ Append(s, x) \in Seq(Kinds)
           /\ Len(s) \in Nat /\ DOMAIN s = 1..Len(s)
           /\ Len(Append(s, x)) = Len(s) + 1
           /\ DOMAIN Append(s, x) = 1..(Len(s) + 1)
           /\ Append(s, x)[Len(s) + 1] = x
           /\ \A i \in 1..Len(s) : Append(s, x)[i] = s[i]
OBVIOUS

LEMMA CountType ==
    ASSUME NEW s \in Seq(Kinds), NEW k
    PROVE  /\ Count(s, k) \in Nat
           /\ Count(s, k) = 0 <=> \A i \in DOMAIN s : s[i] # k
<1> DEFINE S == {i \in DOMAIN s : s[i] = k}
<1>1. IsFiniteSet(S)
  <2>1. DOMAIN s = 1..Len(s) /\ Len(s) \in Int
    OBVIOUS
  <2> QED BY <2>1, FS_Interval, FS_Subset
<1>2. Cardinality(S) \in Nat /\ (Cardinality(S) = 0 <=> S = {})
  BY <1>1, FS_CardinalityType, FS_EmptySet
<1> QED BY <1>2 DEF Count

LEMMA CountAppend ==
    ASSUME NEW s \in Seq(Kinds), NEW x \in Kinds, NEW k
    PROVE  Count(Append(s, x), k) = IF x = k THEN Count(s, k) + 1 ELSE Count(s, k)
<1> DEFINE t == Append(s, x)
<1> DEFINE S == {i \in DOMAIN s : s[i] = k}
<1> DEFINE T == {i \in DOMAIN t : t[i] = k}
<1>1. IsFiniteSet(S)
  <2>1. DOMAIN s = 1..Len(s) /\ Len(s) \in Int
    OBVIOUS
  <2> QED BY <2>1, FS_Interval, FS_Subset
<1>2. Len(s) + 1 \notin S
  BY AppendFacts
<1>3. T = IF x = k THEN S \cup {Len(s) + 1} ELSE S
  BY AppendFacts
<1>4. Cardinality(S \cup {Len(s) + 1}) = Cardinality(S) + 1
  BY <1>1, <1>2, FS_AddElement
<1> QED BY <1>3, <1>4 DEF Count

LEMMA CountEmpty == ASSUME NEW k PROVE Count(<<>>, k) = 0
<1>1. {i \in DOMAIN <<>> : <<>>[i] = k} = {}
  OBVIOUS
<1> QED BY <1>1, FS_EmptySet DEF Count

LEMMA PrefixAppend ==
    ASSUME NEW s \in Seq(Kinds), NEW x \in Kinds
    PROVE  /\ \A i \in 1..Len(s) : SubSeq(Append(s, x), 1, i) = SubSeq(s, 1, i)
           /\ SubSeq(Append(s, x), 1, Len(s) + 1) = Append(s, x)
<1>1. ASSUME NEW i \in 1..Len(s)
      PROVE  SubSeq(Append(s, x), 1, i) = SubSeq(s, 1, i)
  <2>1. i \in Int /\ Len(s) \in Nat /\ i <= Len(s) /\ 1 <= i
    OBVIOUS
  <2>2. \A j \in 1..i : Append(s, x)[j] \in Kinds /\ s[j] \in Kinds
                        /\ Append(s, x)[j] = s[j]
    BY <2>1, AppendFacts
  <2>3. /\ SubSeq(Append(s, x), 1, i) \in Seq(Kinds)
        /\ Len(SubSeq(Append(s, x), 1, i)) = i
        /\ \A j \in 1..i : SubSeq(Append(s, x), 1, i)[j] = Append(s, x)[j]
    BY <2>1, <2>2, SubSeqProperties
  <2>4. /\ SubSeq(s, 1, i) \in Seq(Kinds) /\ Len(SubSeq(s, 1, i)) = i
        /\ \A j \in 1..i : SubSeq(s, 1, i)[j] = s[j]
    BY <2>1, <2>2, SubSeqProperties
  <2> QED BY <2>2, <2>3, <2>4, SeqEqual
<1>2. SubSeq(Append(s, x), 1, Len(s) + 1) = Append(s, x)
  BY AppendFacts, SubSeqFull
<1> QED BY <1>1, <1>2

\* A log without a repetition: NothingRepeated, of one run.
Once(s, p) ==
    /\ Count(s, "call") <= p.calls
    /\ Count(s, "wait") <= 1 /\ Count(s, "artifact") <= 1
    /\ \A i \in DOMAIN s : s[i] = "artifact" =>
          /\ Count(SubSeq(s, 1, i), "call") = p.calls
          /\ p.wait => Count(SubSeq(s, 1, i), "wait") = 1

LEMMA OnceAppend ==
    ASSUME NEW s \in Seq(Kinds), NEW x \in Kinds, NEW p, p.calls \in Nat,
           Once(s, p),
           x = "call" => Count(s, "call") < p.calls,
           x = "wait" => Count(s, "wait") = 0,
           x = "artifact" => /\ Count(s, "artifact") = 0
                             /\ Count(s, "call") = p.calls
                             /\ p.wait => Count(s, "wait") = 1
    PROVE  Once(Append(s, x), p)
<1>1. /\ Count(s, "call") \in Nat /\ Count(s, "wait") \in Nat
      /\ Count(s, "artifact") \in Nat
  BY CountType
<1>2. /\ Count(Append(s, x), "call") <= p.calls
      /\ Count(Append(s, x), "wait") <= 1 /\ Count(Append(s, x), "artifact") <= 1
  BY <1>1, CountAppend DEF Once
<1>3. ASSUME NEW i \in DOMAIN Append(s, x), Append(s, x)[i] = "artifact"
      PROVE  /\ Count(SubSeq(Append(s, x), 1, i), "call") = p.calls
             /\ p.wait => Count(SubSeq(Append(s, x), 1, i), "wait") = 1
  <2>1. CASE i \in 1..Len(s)
    <3>1. s[i] = "artifact" /\ i \in DOMAIN s
      BY <1>3, <2>1, AppendFacts
    <3>2. SubSeq(Append(s, x), 1, i) = SubSeq(s, 1, i)
      BY <2>1, PrefixAppend
    <3> QED BY <3>1, <3>2 DEF Once
  <2>2. CASE i = Len(s) + 1
    <3>1. x = "artifact" /\ SubSeq(Append(s, x), 1, i) = Append(s, x)
      BY <1>3, <2>2, AppendFacts, PrefixAppend
    <3>2. /\ Count(Append(s, x), "call") = Count(s, "call")
          /\ Count(Append(s, x), "wait") = Count(s, "wait")
      BY <3>1, CountAppend
    <3> QED BY <3>1, <3>2
  <2> QED BY <2>1, <2>2, AppendFacts
<1> QED BY <1>2, <1>3 DEF Once

LEMMA OnceEmpty ==
    ASSUME NEW p, p.calls \in Nat
    PROVE  Once(<<>>, p)
<1>1. DOMAIN <<>> = {}
  OBVIOUS
<1> QED BY <1>1, CountEmpty DEF Once

\* The cap causes no committed call has spent, as re_derive looks for them.
Unspent(s) == {i \in DOMAIN s : /\ s[i] \in CapCauses
                                /\ \A j \in i..Len(s) : s[j] # "call"}

\* The last of them exists when there is one: what the CHOOSE of PendingCause
\* needs.
HasLast(s) == Unspent(s) = {} \/ \E m \in Unspent(s) : \A j \in Unspent(s) : j <= m

LEMMA UnspentAppend ==
    ASSUME NEW s \in Seq(Kinds), NEW x \in Kinds
    PROVE  Unspent(Append(s, x)) =
              IF x = "call" THEN {}
              ELSE IF x \in CapCauses THEN Unspent(s) \cup {Len(s) + 1}
              ELSE Unspent(s)
<1> DEFINE t == Append(s, x)
<1>1. ASSUME NEW i \in 1..Len(s)
      PROVE  i \in Unspent(t) <=> i \in Unspent(s) /\ x # "call"
  <2>1. i..Len(t) = (i..Len(s)) \cup {Len(s) + 1} /\ t[Len(s) + 1] = x
    BY AppendFacts
  <2>2. \A j \in i..Len(s) : t[j] = s[j]
    BY AppendFacts
  <2>3. t[i] = s[i] /\ i \in DOMAIN t /\ i \in DOMAIN s
    BY AppendFacts
  <2> QED BY <2>1, <2>2, <2>3 DEF Unspent
<1>2. Len(s) + 1 \in Unspent(t) <=> x \in CapCauses
  <2>1. /\ t[Len(s) + 1] = x /\ Len(s) + 1 \in DOMAIN t
        /\ (Len(s) + 1)..Len(t) = {Len(s) + 1}
    BY AppendFacts
  <2> QED BY <2>1 DEF Unspent, CapCauses
<1>3. /\ Unspent(t) \subseteq 1..(Len(s) + 1) /\ Unspent(s) \subseteq 1..Len(s)
      /\ 1..(Len(s) + 1) = (1..Len(s)) \cup {Len(s) + 1}
      /\ Len(s) + 1 \notin 1..Len(s)
  BY AppendFacts DEF Unspent
<1>4. "call" \notin CapCauses
  BY DEF CapCauses
<1> HIDE DEF t
<1>5. CASE x = "call"
  BY <1>1, <1>2, <1>3, <1>4, <1>5 DEF t
<1>6. CASE x # "call" /\ x \in CapCauses
  BY <1>1, <1>2, <1>3, <1>6 DEF t
<1>7. CASE x # "call" /\ x \notin CapCauses
  <2>1. Unspent(t) \subseteq 1..Len(s)
    BY <1>2, <1>3, <1>7
  <2>2. Unspent(t) = Unspent(s)
    BY <1>1, <1>3, <1>7, <2>1
  <2> QED BY <1>7, <2>2 DEF t
<1> QED BY <1>5, <1>6, <1>7 DEF t

LEMMA LastAppend ==
    ASSUME NEW s \in Seq(Kinds), NEW x \in Kinds, HasLast(s)
    PROVE  HasLast(Append(s, x))
<1>1. Unspent(s) \subseteq 1..Len(s) /\ Len(s) \in Nat
  BY AppendFacts DEF Unspent
<1> QED BY <1>1, UnspentAppend DEF HasLast

LEMMA LastCause ==
    ASSUME NEW s \in Seq(Kinds), HasLast(s)
    PROVE  /\ PendingCause(s) \in CapCauses \cup {"none"}
           /\ PendingCause(s) = "none" <=> Unspent(s) = {}
<1>1. CASE Unspent(s) = {}
  BY <1>1 DEF PendingCause, Unspent
<1>2. CASE Unspent(s) # {}
  <2> DEFINE m == CHOOSE i \in Unspent(s) : \A j \in Unspent(s) : j <= i
  <2>1. m \in Unspent(s)
    BY <1>2 DEF HasLast
  <2>2. PendingCause(s) = s[m]
    BY <1>2 DEF PendingCause, Unspent
  <2>3. s[m] \in CapCauses
    BY <2>1 DEF Unspent
  <2> QED BY <1>2, <2>2, <2>3 DEF CapCauses
<1> QED BY <1>1, <1>2

LEMMA LastEmpty == HasLast(<<>>)
BY DEF HasLast, Unspent

-----------------------------------------------------------------------------
(* The inductive invariant of the fence.                                    *)

JobRow == [state : {"absent", "queued", "running", "suspended"} \cup JobTerminal,
           token : Slots \cup {"none"}, lapsed : BOOLEAN, cancel : BOOLEAN]

ThreadRow == [status : {"absent", "queued", "running", "suspended"}
                          \cup ThreadTerminal,
              token : Slots \cup {"none"}, wake : {"none", "armed", "due"},
              cause : {"none", "cap", "signal"}]

Program == [calls : Nat, wait : BOOLEAN, cap : {"hard_stop", "throttle_queue"}]

\* The steps of a drive before its walk, in its walk, and in its teardown.
Early == {"ensure", "open", "derive", "check", "disarm", "adopt"}
Walking == {"walk", "inflight", "over_cap", "fail", "final"}
Leaving == {"poll", "settle", "ack"}

\* The steps of a drive that has read the thread's log.
Derived == {"check", "disarm", "adopt"} \cup Walking

DriveRow == [pc : {"idle", "park"} \cup Early \cup Walking \cup Leaving,
             run : Runs \cup {"none"}, seen : ThreadRow, done : Nat,
             waited : BOOLEAN, artifact : BOOLEAN, cause : CapCauses \cup {"none"},
             watch : BOOLEAN, beats : BOOLEAN,
             terminal : JobTerminal \cup {"none"}, keys : Nat]

\* A job has a claim token exactly while it is running.
JobInv ==
    /\ job \in [Runs -> JobRow]
    /\ \A r \in Runs : job[r].token # "none" <=> job[r].state = "running"

\* A run that was never queued has neither thread nor log, and no log repeats
\* what it holds.
CoreInv ==
    /\ program \in [Runs -> Program]
    /\ thread \in [Runs -> ThreadRow]
    /\ log \in [Runs -> Seq(Kinds)]
    /\ \A r \in Runs :
          /\ thread[r].cause # "none" <=> thread[r].status = "suspended"
          /\ job[r].state = "absent" => thread[r] = NoThread /\ log[r] = <<>>
          /\ Once(log[r], program[r])
          /\ HasLast(log[r])

\* A key is acknowledged only for a run that is over.
GateInv ==
    /\ hold = [r \in Runs |-> hold[r]]
    /\ acked \in [Runs -> SUBSET Nat]
    /\ \A r \in Runs :
          /\ job[r].state # "absent" =>
                hold[r] \in [Positions(r) -> {"none", "active", "settled"}]
          /\ acked[r] \subseteq Positions(r)
          /\ acked[r] # {} => job[r].state \in JobTerminal

\* A drive d fits the job rows jb and the programs pg: it has a run that was
\* queued, it never counts more calls than the program asks for, and it goes
\* to acknowledge only once the job is over.
Fits(d, jb, pg) ==
    /\ d.pc = "idle" <=> d.run = "none"
    /\ d.pc # "idle" =>
          /\ jb[d.run].state # "absent"
          /\ d.done <= pg[d.run].calls /\ d.keys <= pg[d.run].calls
          /\ d.pc \in {"inflight", "over_cap"} => d.done < pg[d.run].calls
          /\ d.pc \in Leaving <=> d.terminal # "none"
          /\ d.pc = "ack" => jb[d.run].state \in JobTerminal

DriveInv ==
    /\ drive \in [Slots -> DriveRow]
    /\ \A w \in Slots : Fits(drive[w], job, program)

\* What the drive d of slot w remembers of the log, while the threads th still
\* carry its token, is what the logs lg hold.
Mirrors(w, d, th, lg) ==
    d.pc \in Derived /\ th[d.run].token = w =>
        /\ d.done = Count(lg[d.run], "call")
        /\ d.waited <=> Count(lg[d.run], "wait") > 0
        /\ d.artifact <=> Count(lg[d.run], "artifact") > 0

MirrorInv == \A w \in Slots : Mirrors(w, drive[w], thread, log)

RestInv ==
    /\ due \subseteq Runs
    /\ refusals \in 0..MaxRefusals /\ faults \in 0..MaxFaults

FenceInv == JobInv /\ CoreInv /\ GateInv /\ DriveInv /\ MirrorInv /\ RestInv

\* What a step that queues nothing keeps of every job.
JobKeeps ==
    /\ program' = program
    /\ \A r \in Runs :
          /\ job'[r].state = "absent" <=> job[r].state = "absent"
          /\ job[r].state \in JobTerminal => job'[r].state = job[r].state
          /\ job[r].cancel => job'[r].cancel

-----------------------------------------------------------------------------
(* The job plane.                                                           *)

\* A step that moves the rows of jobs that are not over, and no further than
\* their lifecycle.
LEMMA JobMoves ==
    ASSUME JobInv, NEW r \in Runs, NEW row \in JobRow,
           job' = [job EXCEPT ![r] = row], program' = program,
           row.token # "none" <=> row.state = "running",
           row.state = "absent" <=> job[r].state = "absent",
           job[r].state \in JobTerminal => row.state = job[r].state,
           job[r].cancel => row.cancel
    PROVE  JobInv' /\ JobKeeps
<1>1. /\ job'[r] = row /\ job' \in [Runs -> JobRow]
      /\ \A q \in Runs \ {r} : job'[q] = job[q]
  BY DEF JobInv
<1> QED BY <1>1 DEF JobInv, JobKeeps

LEMMA JobStays ==
    ASSUME JobInv, job' = job, program' = program
    PROVE  JobInv' /\ JobKeeps
BY DEF JobInv, JobKeeps

LEMMA LeaveRunningJob ==
    ASSUME JobInv, NEW w \in Slots, NEW r \in Runs,
           NEW s \in {"suspended"} \cup JobTerminal,
           LeaveRunning(w, r, s), program' = program
    PROVE  /\ JobInv' /\ JobKeeps
           /\ HoldsLease(w, r) => job'[r].state = s
<1>1. CASE UNCHANGED job
  BY <1>1, JobStays DEF LeaveRunning, HoldsLease, JobInv, JobRow
<1>2. CASE HoldsLease(w, r)
  <2> DEFINE row == [job[r] EXCEPT !.state = s, !.token = "none", !.lapsed = FALSE]
  <2>1. /\ row \in JobRow /\ row.state = s /\ row.token = "none"
        /\ row.cancel = job[r].cancel /\ job' = [job EXCEPT ![r] = row]
        /\ job[r].state = "running"
    BY <1>2 DEF LeaveRunning, HoldsLease, JobInv, JobRow
  <2>2. job'[r] = row
    BY <2>1 DEF JobInv
  <2> HIDE DEF row
  <2> QED BY <2>1, <2>2, JobMoves DEF JobTerminal
<1> QED BY <1>1, <1>2 DEF LeaveRunning

\* A drive that is not idle has a run.
LEMMA DriveRun ==
    ASSUME DriveInv, NEW w \in Slots, drive[w].pc # "idle"
    PROVE  /\ drive[w] \in DriveRow /\ drive[w].run \in Runs
           /\ Fits(drive[w], job, program)
BY DEF DriveInv, Fits, DriveRow

LEMMA ClaimJob ==
    ASSUME JobInv, NEW w \in Slots, NEW r \in Runs, Claim(w, r)
    PROVE  JobInv' /\ JobKeeps
<1> DEFINE row == [job[r] EXCEPT !.state = "running", !.token = w, !.lapsed = FALSE]
<1>1. /\ row \in JobRow /\ row.state = "running" /\ row.token = w
      /\ row.cancel = job[r].cancel /\ job' = [job EXCEPT ![r] = row]
      /\ job[r].state = "queued" /\ program' = program
  BY DEF Claim, JobInv, JobRow
<1>2. w # "none"
  BY ManagedAssumption
<1> HIDE DEF row
<1> QED BY <1>1, <1>2, JobMoves DEF JobTerminal

LEMMA ReclaimJob ==
    ASSUME JobInv, NEW r \in Runs, ReclaimExpired(r)
    PROVE  JobInv' /\ JobKeeps
<1> DEFINE row == [job[r] EXCEPT !.state = "queued", !.token = "none", !.lapsed = FALSE]
<1>1. /\ row \in JobRow /\ row.state = "queued" /\ row.token = "none"
      /\ row.cancel = job[r].cancel /\ job' = [job EXCEPT ![r] = row]
      /\ job[r].state = "running" /\ program' = program
  BY DEF ReclaimExpired, JobInv, JobRow
<1> HIDE DEF row
<1> QED BY <1>1, JobMoves DEF JobTerminal

LEMMA CancelJob ==
    ASSUME JobInv, NEW r \in Runs, RequestCancel(r)
    PROVE  JobInv' /\ JobKeeps
<1> DEFINE row == [job[r] EXCEPT !.cancel = TRUE]
<1>1. /\ row \in JobRow /\ row.state = job[r].state /\ row.token = job[r].token
      /\ row.cancel /\ job' = [job EXCEPT ![r] = row] /\ program' = program
  BY DEF RequestCancel, JobInv, JobRow
<1>2. row.token # "none" <=> row.state = "running"
  BY <1>1 DEF JobInv
<1> HIDE DEF row
<1> QED BY <1>1, <1>2, JobMoves

\* The lease of a running job lapses or is renewed.
LEMMA LapsedJob ==
    ASSUME JobInv, NEW r \in Runs, NEW b \in BOOLEAN,
           job' = [job EXCEPT ![r].lapsed = b], program' = program
    PROVE  JobInv' /\ JobKeeps
<1> DEFINE row == [job[r] EXCEPT !.lapsed = b]
<1>1. /\ row \in JobRow /\ row.state = job[r].state /\ row.token = job[r].token
      /\ row.cancel = job[r].cancel /\ job' = [job EXCEPT ![r] = row]
  BY DEF JobInv, JobRow
<1>2. row.token # "none" <=> row.state = "running"
  BY <1>1 DEF JobInv
<1> HIDE DEF row
<1> QED BY <1>1, <1>2, JobMoves

LEMMA WokenJob ==
    ASSUME JobInv, NEW r \in Runs, Woken(r), program' = program
    PROVE  JobInv' /\ JobKeeps
<1>1. CASE UNCHANGED job
  BY <1>1, JobStays
<1>2. CASE job[r].state = "suspended" /\ job' = [job EXCEPT ![r].state = "queued"]
  <2> DEFINE row == [job[r] EXCEPT !.state = "queued"]
  <2>1. /\ row \in JobRow /\ row.state = "queued" /\ row.token = "none"
        /\ row.cancel = job[r].cancel /\ job' = [job EXCEPT ![r] = row]
    BY <1>2 DEF JobInv, JobRow
  <2> HIDE DEF row
  <2> QED BY <1>2, <2>1, JobMoves DEF JobTerminal
<1> QED BY <1>1, <1>2 DEF Woken

LEMMA HeartbeatJob ==
    ASSUME JobInv, DriveInv, NEW w \in Slots, Heartbeat(w)
    PROVE  JobInv' /\ JobKeeps
<1>1. drive[w].run \in Runs
  BY DriveRun DEF Heartbeat
<1>2. \/ job' = [job EXCEPT ![drive[w].run].lapsed = FALSE]
      \/ job' = job
  BY DEF Heartbeat
<1> QED BY <1>1, <1>2, LapsedJob, JobStays DEF Heartbeat

LEMMA StallJob ==
    ASSUME JobInv, DriveInv, NEW w \in Slots, Stall(w)
    PROVE  JobInv' /\ JobKeeps
<1>1. drive[w].run \in Runs
  BY DriveRun DEF Stall
<1>2. job' = [job EXCEPT ![drive[w].run].lapsed = TRUE]
  BY DEF Stall
<1> QED BY <1>1, <1>2, LapsedJob DEF Stall

\* The steps of a drive that hand the job on.
LEMMA ParkJob ==
    ASSUME JobInv, DriveInv, NEW w \in Slots,
           AdoptNotReady(w) \/ Park(w) \/ Settle(w)
    PROVE  JobInv' /\ JobKeeps
<1>1. drive[w].run \in Runs /\ drive[w].pc # "idle"
  BY DriveRun DEF AdoptNotReady, Park, Settle
<1>2. CASE AdoptNotReady(w) \/ Park(w)
  BY <1>1, <1>2, LeaveRunningJob DEF AdoptNotReady, Park
<1>3. CASE Settle(w)
  <2>1. drive[w].terminal \in JobTerminal
    BY <1>1, <1>3, DriveRun DEF Settle, Fits, Leaving, DriveRow
  <2> QED BY <1>1, <1>3, <2>1, LeaveRunningJob DEF Settle
<1> QED BY <1>2, <1>3

\* The steps of a drive that leave the job plane alone.
LEMMA StepJob ==
    ASSUME JobInv, DriveInv, NEW w \in Slots, Step(w)
    PROVE  JobInv' /\ JobKeeps
<1>1. CASE AdoptNotReady(w) \/ Park(w) \/ Settle(w)
  BY <1>1, ParkJob
<1>2. CASE ~(AdoptNotReady(w) \/ Park(w) \/ Settle(w))
  <2>1. job' = job /\ program' = program
    BY <1>2
       DEF Step, Adopt, OpenInput, ReDerive, CheckCancel, Disarm, AdoptResolve,
           AdoptQueued, AdoptMoved, Observed, Dispatch, DropCall, CommitCall,
           DisposeOverCap, DurableWait, CommitArtifact, Complete, FailRun, Poll,
           Acknowledge
  <2> QED BY <2>1, JobStays
<1> QED BY <1>1, <1>2

-----------------------------------------------------------------------------
(* The core plane, the gateway and the drives, one moving at a time.        *)

LEMMA CoreStays ==
    ASSUME CoreInv, JobKeeps, UNCHANGED core PROVE CoreInv'
BY DEF CoreInv, JobKeeps, core

\* One run's thread and log move.
LEMMA CoreMoves ==
    ASSUME CoreInv, JobKeeps, NEW r \in Runs, job[r].state # "absent",
           NEW row \in ThreadRow, NEW s \in Seq(Kinds),
           thread' = [thread EXCEPT ![r] = row], log' = [log EXCEPT ![r] = s],
           row.cause # "none" <=> row.status = "suspended",
           Once(s, program[r]), HasLast(s)
    PROVE  CoreInv'
<1>1. /\ thread'[r] = row /\ log'[r] = s
      /\ thread' \in [Runs -> ThreadRow] /\ log' \in [Runs -> Seq(Kinds)]
      /\ \A q \in Runs \ {r} : thread'[q] = thread[q] /\ log'[q] = log[q]
  BY DEF CoreInv
<1> QED BY <1>1 DEF CoreInv, JobKeeps

LEMMA GateStays ==
    ASSUME GateInv, JobKeeps, hold' = hold, acked' = acked PROVE GateInv'
BY DEF GateInv, JobKeeps, Positions

LEMMA FitsStays ==
    ASSUME DriveInv, JobKeeps, NEW w \in Slots
    PROVE  Fits(drive[w], job', program')
<1>1. drive[w].pc # "idle" => drive[w].run \in Runs
  BY DriveRun
<1> QED BY <1>1 DEF DriveInv, Fits, JobKeeps

LEMMA DriveStays ==
    ASSUME DriveInv, JobKeeps, drive' = drive PROVE DriveInv'
BY FitsStays DEF DriveInv

LEMMA DriveMoves ==
    ASSUME DriveInv, JobKeeps, NEW w \in Slots, NEW d \in DriveRow,
           drive' = [drive EXCEPT ![w] = d], Fits(d, job', program')
    PROVE  /\ DriveInv' /\ drive'[w] = d
           /\ \A v \in Slots \ {w} : drive'[v] = drive[v]
<1>1. /\ drive' \in [Slots -> DriveRow] /\ drive'[w] = d
      /\ \A v \in Slots \ {w} : drive'[v] = drive[v]
  BY DEF DriveInv
<1> QED BY <1>1, FitsStays DEF DriveInv

LEMMA IdleFits ==
    ASSUME NEW jb, NEW pg
    PROVE  /\ Idle \in DriveRow /\ Fits(Idle, jb, pg)
           /\ \A w, th, lg : Mirrors(w, Idle, th, lg)
<1>1. Idle \in DriveRow /\ Idle.pc = "idle" /\ Idle.run = "none"
  BY DEF Idle, DriveRow, NoThread, ThreadRow
<1>2. "idle" \notin Derived
  BY DEF Derived, Walking
<1> QED BY <1>1, <1>2 DEF Fits, Mirrors

\* The thread's token is what protects a log: another slot's memory stands
\* when the token is its own and the counts of its log are.
LEMMA MirrorMoves ==
    ASSUME MirrorInv, DriveInv, NEW w \in Slots,
           \A v \in Slots \ {w} : drive'[v] = drive[v],
           \A r \in Runs : thread'[r].token \in {thread[r].token, w},
           \A r \in Runs :
              \/ thread'[r].token = w
              \/ \A k \in {"call", "wait", "artifact"} :
                    Count(log'[r], k) = Count(log[r], k),
           Mirrors(w, drive'[w], thread', log')
    PROVE  MirrorInv'
<1> SUFFICES ASSUME NEW v \in Slots
             PROVE  Mirrors(v, drive'[v], thread', log')
  BY DEF MirrorInv
<1>1. CASE v # w /\ drive[v].pc \in Derived /\ thread'[drive[v].run].token = v
  <2>1. drive[v].run \in Runs
    BY <1>1, DriveRun DEF Derived, Walking
  <2>2. /\ thread[drive[v].run].token = v
        /\ \A k \in {"call", "wait", "artifact"} :
              Count(log'[drive[v].run], k) = Count(log[drive[v].run], k)
    BY <1>1, <2>1
  <2> QED BY <1>1, <2>2 DEF MirrorInv, Mirrors
<1> QED BY <1>1 DEF Mirrors

LEMMA MirrorStays ==
    ASSUME MirrorInv, drive' = drive, log' = log,
           \A r \in Runs : thread'[r].token = thread[r].token,
           DriveInv
    PROVE  MirrorInv'
<1> SUFFICES ASSUME NEW v \in Slots, drive[v].pc \in Derived
             PROVE  Mirrors(v, drive[v], thread', log)
  BY DEF MirrorInv, Mirrors
<1>1. drive[v].run \in Runs
  BY DriveRun DEF Derived, Walking
<1> QED BY <1>1 DEF MirrorInv, Mirrors

\* A step of one drive that touches neither the core plane nor the gateway.
LEMMA DriveStep ==
    ASSUME FenceInv, JobInv', JobKeeps, NEW w \in Slots, NEW d \in DriveRow,
           drive' = [drive EXCEPT ![w] = d], Fits(d, job', program'),
           Mirrors(w, d, thread, log), UNCHANGED <<core, hold, acked>>, RestInv'
    PROVE  FenceInv'
<1>1. CoreInv' /\ GateInv'
  BY CoreStays, GateStays DEF FenceInv
<1>2. /\ DriveInv' /\ drive'[w] = d
      /\ \A v \in Slots \ {w} : drive'[v] = drive[v]
  BY DriveMoves DEF FenceInv
<1>3. MirrorInv'
  <2>1. Mirrors(w, drive'[w], thread', log')
    BY <1>2 DEF core
  <2> QED BY <1>2, <2>1, MirrorMoves DEF FenceInv, core
<1> QED BY <1>1, <1>2, <1>3 DEF FenceInv

\* A drive that ends, for whatever reason.
LEMMA EndStep ==
    ASSUME FenceInv, JobInv', JobKeeps, NEW w \in Slots, End(w),
           UNCHANGED <<core, hold, acked>>, RestInv'
    PROVE  FenceInv'
BY IdleFits, DriveStep DEF End

\* A step of the job plane alone.
LEMMA JobStep ==
    ASSUME FenceInv, JobInv', JobKeeps, UNCHANGED <<core, hold, acked, drive>>,
           RestInv'
    PROVE  FenceInv'
BY CoreStays, GateStays, DriveStays, MirrorStays DEF FenceInv, core

-----------------------------------------------------------------------------
(* One lemma per action: the fence holds.                                   *)

\* The teardown of a drive, whatever else its step did.
TeardownRow(w, terminal, keys) ==
    [Idle EXCEPT !.pc = "poll", !.run = drive[w].run, !.beats = drive[w].beats,
                 !.watch = drive[w].watch, !.terminal = terminal, !.keys = keys]

LEMMA TeardownFits ==
    ASSUME FenceInv, JobKeeps, NEW w \in Slots, drive[w].pc # "idle",
           NEW t \in JobTerminal, NEW k \in Nat,
           k <= program[drive[w].run].calls
    PROVE  /\ TeardownRow(w, t, k) \in DriveRow
           /\ Fits(TeardownRow(w, t, k), job', program')
           /\ \A th, lg : Mirrors(w, TeardownRow(w, t, k), th, lg)
<1> DEFINE d == TeardownRow(w, t, k)
<1>1. /\ drive[w].run \in Runs /\ drive[w] \in DriveRow
      /\ job[drive[w].run].state # "absent"
      /\ program[drive[w].run].calls \in Nat
  BY DriveRun DEF FenceInv, Fits, CoreInv, Program
<1>2. /\ d \in DriveRow /\ d.pc = "poll" /\ d.run = drive[w].run
      /\ d.done = 0 /\ d.keys = k /\ d.terminal = t
  BY <1>1, IdleFits DEF TeardownRow, Idle, DriveRow, Leaving
<1> HIDE DEF d
<1>3. Fits(d, job', program')
  BY <1>1, <1>2, ManagedAssumption
     DEF Fits, JobKeeps, JobTerminal, Leaving, Walking
<1>4. \A th, lg : Mirrors(w, d, th, lg)
  BY <1>2 DEF Mirrors, Derived, Walking
<1> QED BY <1>2, <1>3, <1>4 DEF d

LEMMA TeardownStep ==
    ASSUME FenceInv, JobInv', JobKeeps, NEW w \in Slots, drive[w].pc # "idle",
           NEW t \in JobTerminal, NEW k \in Nat,
           k <= program[drive[w].run].calls,
           Teardown(w, t, k), UNCHANGED <<core, hold, acked>>, RestInv'
    PROVE  FenceInv'
<1>1. drive' = [drive EXCEPT ![w] = TeardownRow(w, t, k)]
  BY DEF Teardown, TeardownRow
<1> QED BY <1>1, TeardownFits, DriveStep

LEMMA ObservedFence ==
    ASSUME FenceInv, NEW w \in Slots, Observed(w) \/ DropCall(w)
    PROVE  FenceInv'
<1>1. JobInv' /\ JobKeeps /\ RestInv' /\ UNCHANGED <<core, hold, acked>>
  BY JobStays DEF Observed, DropCall, FenceInv, RestInv, gateway
<1>2. /\ drive[w].pc # "idle" /\ drive[w].done \in Nat
      /\ drive[w].done <= program[drive[w].run].calls
      /\ drive[w].pc = "inflight" => drive[w].done + 1 <= program[drive[w].run].calls
  <2>1. drive[w].pc # "idle"
    BY DEF Observed, DropCall
  <2>2. program[drive[w].run].calls \in Nat
    BY <2>1, DriveRun DEF FenceInv, CoreInv, Program
  <2> QED BY <2>1, <2>2, DriveRun DEF FenceInv, Fits, DriveRow
<1> QED
  BY <1>1, <1>2, TeardownStep DEF Observed, DropCall, JobTerminal

LEMMA CheckCancelFence ==
    ASSUME FenceInv, NEW w \in Slots, CheckCancel(w)
    PROVE  FenceInv'
<1>1. JobInv' /\ JobKeeps /\ RestInv' /\ UNCHANGED <<core, hold, acked>>
  BY JobStays DEF CheckCancel, FenceInv, RestInv, gateway
<1>2. /\ drive[w].pc = "check" /\ drive[w].run \in Runs /\ drive[w] \in DriveRow
      /\ Fits(drive[w], job', program')
  BY <1>1, DriveRun, FitsStays DEF CheckCancel, FenceInv
<1>3. ASSUME NEW p \in {"adopt", "disarm"}, Goto(w, p) PROVE FenceInv'
  <2> DEFINE d == [drive[w] EXCEPT !.pc = p]
  <2>1. /\ d \in DriveRow /\ drive' = [drive EXCEPT ![w] = d]
        /\ d.pc = p /\ d.run = drive[w].run /\ d.done = drive[w].done
        /\ d.waited = drive[w].waited /\ d.artifact = drive[w].artifact
        /\ d.keys = drive[w].keys /\ d.terminal = drive[w].terminal
    BY <1>2, <1>3 DEF Goto, DriveRow, Early
  <2> HIDE DEF d
  <2>2. Fits(d, job', program')
    BY <1>2, <2>1 DEF Fits, Leaving
  <2>3. Mirrors(w, d, thread, log)
    BY <1>2, <2>1 DEF FenceInv, MirrorInv, Mirrors, Derived
  <2> QED BY <1>1, <2>1, <2>2, <2>3, DriveStep
<1>4. CASE Teardown(w, "cancelled", drive[w].done)
  <2>1. drive[w].done \in Nat /\ drive[w].done <= program[drive[w].run].calls
    BY <1>2, DriveRun DEF FenceInv, Fits, DriveRow
  <2> QED BY <1>1, <1>2, <1>4, <2>1, TeardownStep DEF JobTerminal
<1> QED BY <1>3, <1>4 DEF CheckCancel

\* re_derive reads the counts of the log as it stands.
LEMMA ReDeriveFence ==
    ASSUME FenceInv, NEW w \in Slots, ReDerive(w)
    PROVE  FenceInv'
<1> DEFINE r == drive[w].run
<1> DEFINE n == Count(log[r], "call")
<1> DEFINE b == Count(log[r], "wait") > 0
<1> DEFINE a == Count(log[r], "artifact") > 0
<1> DEFINE c == PendingCause(log[r])
<1> DEFINE d == [drive[w] EXCEPT !.pc = "check", !.done = n, !.waited = b,
                                 !.artifact = a, !.cause = c]
<1>1. JobInv' /\ JobKeeps /\ RestInv' /\ UNCHANGED <<core, hold, acked>>
  BY JobStays DEF ReDerive, FenceInv, RestInv, gateway
<1>2. /\ drive[w].pc = "derive" /\ r \in Runs /\ drive[w] \in DriveRow
      /\ Fits(drive[w], job', program')
  BY <1>1, DriveRun, FitsStays DEF ReDerive, FenceInv
<1>3. log[r] \in Seq(Kinds) /\ Once(log[r], program[r])
  BY <1>2 DEF FenceInv, CoreInv
<1>4. n \in Nat /\ b \in BOOLEAN /\ a \in BOOLEAN
  BY <1>3, CountType
<1>5. c \in CapCauses \cup {"none"}
  BY <1>2, LastCause DEF FenceInv, CoreInv
<1>6. drive' = [drive EXCEPT ![w] = d]
  BY DEF ReDerive
<1>7. n <= program'[r].calls
  BY <1>1, <1>3 DEF Once, JobKeeps
<1>8. Count(log[r], "wait") > 0 <=> b
  OBVIOUS
<1>9. Count(log[r], "artifact") > 0 <=> a
  OBVIOUS
<1> HIDE DEF n, b, a, c
<1>10. /\ d \in DriveRow
       /\ d.pc = "check" /\ d.run = r /\ d.done = n
       /\ d.waited = b /\ d.artifact = a
       /\ d.keys = drive[w].keys /\ d.terminal = drive[w].terminal
  BY <1>2, <1>4, <1>5 DEF DriveRow, Early
<1> HIDE DEF d
<1>11. Fits(d, job', program')
  BY <1>2, <1>7, <1>10 DEF Fits, Leaving
<1>12. Mirrors(w, d, thread, log)
  BY <1>8, <1>9, <1>10 DEF Mirrors, n
<1> QED BY <1>1, <1>6, <1>10, <1>11, <1>12, DriveStep

\* A drive that goes on to another step, knowing what it knew.
LEMMA GotoFits ==
    ASSUME FenceInv, JobKeeps, NEW w \in Slots,
           drive[w].pc \notin {"idle"} \cup Leaving,
           NEW p \in Early \cup Walking \cup {"park"},
           p \in Derived => drive[w].pc \in Derived,
           p \in {"inflight", "over_cap"} =>
              drive[w].done < program[drive[w].run].calls
    PROVE  /\ [drive[w] EXCEPT !.pc = p] \in DriveRow
           /\ Fits([drive[w] EXCEPT !.pc = p], job', program')
           /\ \A th, lg : Mirrors(w, drive[w], th, lg)
                 => Mirrors(w, [drive[w] EXCEPT !.pc = p], th, lg)
<1> DEFINE d == [drive[w] EXCEPT !.pc = p]
<1>1. drive[w] \in DriveRow /\ drive[w].run \in Runs /\ Fits(drive[w], job', program')
  BY DriveRun, FitsStays DEF FenceInv
<1>2. /\ d \in DriveRow
      /\ d.pc = p /\ d.run = drive[w].run /\ d.done = drive[w].done
      /\ d.waited = drive[w].waited /\ d.artifact = drive[w].artifact
      /\ d.keys = drive[w].keys /\ d.terminal = drive[w].terminal
  BY <1>1 DEF DriveRow
<1> HIDE DEF d
<1>3. p \notin {"idle", "ack"} \cup Leaving
  BY DEF Early, Walking, Leaving
<1>4. Fits(d, job', program')
  BY <1>1, <1>2, <1>3 DEF Fits, JobKeeps
<1>5. \A th, lg : Mirrors(w, drive[w], th, lg) => Mirrors(w, d, th, lg)
  BY <1>2 DEF Mirrors
<1> QED BY <1>2, <1>4, <1>5 DEF d

LEMMA GotoStep ==
    ASSUME FenceInv, JobInv', JobKeeps, NEW w \in Slots,
           drive[w].pc \notin {"idle"} \cup Leaving,
           NEW p \in Early \cup Walking \cup {"park"}, Goto(w, p),
           p \in Derived => drive[w].pc \in Derived,
           p \in {"inflight", "over_cap"} =>
              drive[w].done < program[drive[w].run].calls,
           UNCHANGED <<core, hold, acked>>, RestInv'
    PROVE  FenceInv'
<1>1. Mirrors(w, drive[w], thread, log)
  BY DEF FenceInv, MirrorInv
<1>2. drive' = [drive EXCEPT ![w] = [drive[w] EXCEPT !.pc = p]]
  BY DEF Goto
<1> QED BY <1>1, <1>2, GotoFits, DriveStep

\* A step of one drive that moves its run's thread or log.
LEMMA CoreStep ==
    ASSUME FenceInv, NEW w \in Slots, NEW r \in Runs, job[r].state # "absent",
           NEW row \in ThreadRow, NEW s \in Seq(Kinds), NEW d \in DriveRow,
           thread' = [thread EXCEPT ![r] = row], log' = [log EXCEPT ![r] = s],
           drive' = [drive EXCEPT ![w] = d],
           UNCHANGED <<job, program, hold, acked, refusals, due, faults>>,
           row.token \in {thread[r].token, w},
           row.cause # "none" <=> row.status = "suspended",
           Once(s, program[r]), HasLast(s),
           row.token = w \/ \A k \in {"call", "wait", "artifact"} :
                               Count(s, k) = Count(log[r], k),
           Fits(d, job, program), d.run = r,
           d.pc \in Derived /\ row.token = w =>
              /\ d.done = Count(s, "call")
              /\ d.waited <=> Count(s, "wait") > 0
              /\ d.artifact <=> Count(s, "artifact") > 0
    PROVE  FenceInv'
<1>1. JobInv' /\ JobKeeps
  BY JobStays DEF FenceInv
<1>2. CoreInv' /\ GateInv' /\ RestInv'
  BY <1>1, CoreMoves, GateStays DEF FenceInv, RestInv
<1>3. /\ DriveInv' /\ drive'[w] = d
      /\ \A v \in Slots \ {w} : drive'[v] = drive[v]
  BY <1>1, DriveMoves DEF FenceInv
<1>4. /\ thread'[r] = row /\ log'[r] = s
      /\ \A q \in Runs \ {r} : thread'[q] = thread[q] /\ log'[q] = log[q]
  BY DEF FenceInv, CoreInv
<1>5. Mirrors(w, drive'[w], thread', log')
  BY <1>3, <1>4 DEF Mirrors
<1>6. \A q \in Runs : thread'[q].token \in {thread[q].token, w}
  BY <1>4
<1>7. \A q \in Runs :
         \/ thread'[q].token = w
         \/ \A k \in {"call", "wait", "artifact"} :
               Count(log'[q], k) = Count(log[q], k)
  BY <1>4
<1>8. MirrorInv'
  BY <1>3, <1>5, <1>6, <1>7, MirrorMoves DEF FenceInv
<1> QED BY <1>1, <1>2, <1>3, <1>8 DEF FenceInv

\* What a drive that is not idle finds of its run.
LEMMA RunFacts ==
    ASSUME FenceInv, NEW w \in Slots, drive[w].pc # "idle"
    PROVE  LET r == drive[w].run
           IN  /\ r \in Runs /\ drive[w] \in DriveRow /\ job[r].state # "absent"
               /\ program[r] \in Program /\ thread[r] \in ThreadRow
               /\ log[r] \in Seq(Kinds)
               /\ thread[r].cause # "none" <=> thread[r].status = "suspended"
               /\ Once(log[r], program[r]) /\ HasLast(log[r])
               /\ Fits(drive[w], job, program) /\ Mirrors(w, drive[w], thread, log)
               /\ thread = [thread EXCEPT ![r] = thread[r]]
               /\ log = [log EXCEPT ![r] = log[r]]
BY DriveRun DEF FenceInv, CoreInv, MirrorInv, Fits

LEMMA AdoptFence ==
    ASSUME FenceInv, NEW w \in Slots, Adopt(w)
    PROVE  FenceInv'
<1> DEFINE r == drive[w].run
<1> DEFINE row == IF thread[r].status = "absent"
                  THEN [NoThread EXCEPT !.status = "queued", !.token = w]
                  ELSE [thread[r] EXCEPT !.token = w]
<1> DEFINE d == [drive[w] EXCEPT !.pc = "open", !.seen = row]
<1>1. drive[w].pc = "ensure" /\ drive[w].pc # "idle"
  BY DEF Adopt
<1>2. /\ thread' = [thread EXCEPT ![r] = row] /\ drive' = [drive EXCEPT ![w] = d]
      /\ log' = [log EXCEPT ![r] = log[r]]
      /\ UNCHANGED <<job, program, hold, acked, refusals, due, faults>>
  BY <1>1, RunFacts DEF Adopt, gateway
<1>3. /\ row \in ThreadRow /\ row.token = w
      /\ row.cause # "none" <=> row.status = "suspended"
  BY <1>1, RunFacts DEF ThreadRow, NoThread
<1> HIDE DEF row
<1>4. /\ d \in DriveRow /\ d.pc = "open" /\ d.run = r /\ d.done = drive[w].done
      /\ d.keys = drive[w].keys /\ d.terminal = drive[w].terminal
  <2>1. drive[w] \in DriveRow
    BY <1>1, RunFacts
  <2> QED BY <1>3, <2>1 DEF DriveRow, Early
<1> HIDE DEF d
<1>5. Fits(d, job, program)
  BY <1>1, <1>4, RunFacts DEF Fits, Leaving
<1>6. d.pc \notin Derived
  BY <1>4 DEF Derived, Walking
<1> QED BY <1>1, <1>2, <1>3, <1>4, <1>5, <1>6, RunFacts, CoreStep

\* A drive that gives up and leaves no other trace.
LEMMA QuietEnd ==
    ASSUME FenceInv, NEW w \in Slots, End(w),
           UNCHANGED <<job, program, core, hold, acked, refusals, due, faults>>
    PROVE  FenceInv'
BY JobStays, EndStep DEF FenceInv, RestInv

LEMMA QuietGoto ==
    ASSUME FenceInv, NEW w \in Slots, NEW p \in Early \cup Walking \cup {"park"},
           drive[w].pc \notin {"idle"} \cup Leaving, Goto(w, p),
           p \in Derived => drive[w].pc \in Derived,
           p \in {"inflight", "over_cap"} =>
              drive[w].done < program[drive[w].run].calls,
           UNCHANGED <<job, program, core, hold, acked, refusals, due, faults>>
    PROVE  FenceInv'
BY JobStays, GotoStep DEF FenceInv, RestInv

\* A drive that is torn down without having moved anything.
LEMMA QuietTeardown ==
    ASSUME FenceInv, NEW w \in Slots, drive[w].pc # "idle", NEW t \in JobTerminal,
           Teardown(w, t, drive[w].done),
           UNCHANGED <<job, program, core, hold, acked, refusals, due, faults>>
    PROVE  FenceInv'
<1>1. drive[w].done \in Nat /\ drive[w].done <= program[drive[w].run].calls
  BY RunFacts DEF Fits, DriveRow
<1> QED BY <1>1, JobStays, TeardownStep DEF FenceInv, RestInv

LEMMA OpenInputFence ==
    ASSUME FenceInv, NEW w \in Slots, OpenInput(w)
    PROVE  FenceInv'
<1> DEFINE r == drive[w].run
<1> DEFINE d == [drive[w] EXCEPT !.pc = "derive"]
<1>1. /\ drive[w].pc = "open" /\ drive[w].pc # "idle"
      /\ UNCHANGED <<job, program, thread, hold, acked, refusals, due, faults>>
  BY DEF OpenInput, gateway
<1>2. CASE ~HoldsThread(w, r)
  BY <1>1, <1>2, QuietEnd DEF OpenInput, core
<1>3. CASE HoldsThread(w, r) /\ log[r] # <<>>
  <2>1. Goto(w, "derive") /\ log' = log
    BY <1>3 DEF OpenInput
  <2> QED BY <1>1, <2>1, QuietGoto DEF core, Early, Leaving, Derived, Walking
<1>4. CASE HoldsThread(w, r) /\ log[r] = <<>>
  <2> DEFINE s == Append(log[r], "input")
  <2>1. s = <<"input">> /\ log' = [log EXCEPT ![r] = s]
    BY <1>4 DEF OpenInput
  <2>2. s \in Seq(Kinds) /\ Once(s, program[r]) /\ HasLast(s)
    BY <1>1, RunFacts, AppendFacts, OnceAppend, LastAppend DEF Kinds, Program
  <2> HIDE DEF s
  <2>3. /\ drive' = [drive EXCEPT ![w] = d] /\ d \in DriveRow
        /\ d.pc = "derive" /\ d.run = r
        /\ Fits(d, job, program)
    <3>1. drive' = [drive EXCEPT ![w] = d]
      BY <1>4 DEF OpenInput, Goto
    <3>2. JobKeeps /\ job' = job /\ program' = program
      BY <1>1, JobStays DEF FenceInv
    <3>3. drive[w] \in DriveRow
      BY <1>1, RunFacts
    <3>4. d.pc = "derive" /\ d.run = r
      BY <3>3 DEF DriveRow
    <3> QED BY <1>1, <3>1, <3>2, <3>4, GotoFits DEF Early, Leaving, Derived, Walking
  <2> HIDE DEF d
  <2>4. thread' = [thread EXCEPT ![r] = thread[r]] /\ thread[r].token = w
    BY <1>1, <1>4, RunFacts DEF HoldsThread
  <2>5. "derive" \notin Derived
    BY DEF Derived, Walking
  <2>6. /\ r \in Runs /\ job[r].state # "absent" /\ thread[r] \in ThreadRow
        /\ thread[r].cause # "none" <=> thread[r].status = "suspended"
    BY <1>1, RunFacts
  <2> HIDE DEF r
  <2>7. UNCHANGED <<job, program, hold, acked, refusals, due, faults>>
    BY <1>1
  <2> QED BY <2>1, <2>2, <2>3, <2>4, <2>5, <2>6, <2>7, CoreStep
<1> QED BY <1>2, <1>3, <1>4

\* A drive that is torn down in the step that moves its thread.
LEMMA ThreadTeardown ==
    ASSUME FenceInv, NEW w \in Slots, drive[w].pc # "idle",
           NEW row \in ThreadRow, NEW t \in JobTerminal,
           thread' = [thread EXCEPT ![drive[w].run] = row],
           Teardown(w, t, drive[w].done),
           row.token = thread[drive[w].run].token, row.token = w,
           row.cause # "none" <=> row.status = "suspended",
           UNCHANGED <<job, program, log, hold, acked, refusals, due, faults>>
    PROVE  FenceInv'
<1> DEFINE r == drive[w].run
<1> DEFINE d == TeardownRow(w, t, drive[w].done)
<1>1. JobKeeps /\ job' = job /\ program' = program
  BY JobStays DEF FenceInv
<1>2. drive[w].done \in Nat /\ drive[w].done <= program[drive[w].run].calls
  BY RunFacts DEF Fits, DriveRow
<1>3. d \in DriveRow /\ Fits(d, job, program)
  BY <1>1, <1>2, TeardownFits
<1>4. drive' = [drive EXCEPT ![w] = d] /\ d.run = r /\ d.pc \notin Derived
  BY DEF Teardown, TeardownRow, Derived, Walking, Idle
<1> HIDE DEF d
<1>5. log' = [log EXCEPT ![r] = log[r]]
  BY RunFacts
<1> QED BY <1>3, <1>4, <1>5, RunFacts, CoreStep

LEMMA DisarmFence ==
    ASSUME FenceInv, NEW w \in Slots, Disarm(w)
    PROVE  FenceInv'
<1> DEFINE r == drive[w].run
<1> DEFINE row == [thread[r] EXCEPT !.wake = "none"]
<1>1. /\ drive[w].pc # "idle"
      /\ UNCHANGED <<job, program, log, hold, acked, refusals, due, faults>>
  BY DEF Disarm, gateway
<1>2. CASE ~HoldsThread(w, r)
  BY <1>1, <1>2, QuietEnd DEF Disarm, core
<1>3. CASE HoldsThread(w, r)
  <2>1. /\ thread' = [thread EXCEPT ![r] = row]
        /\ Teardown(w, "cancelled", drive[w].done)
    BY <1>3 DEF Disarm
  <2>2. thread[r] \in ThreadRow
    BY <1>1, RunFacts
  <2>3. /\ row \in ThreadRow /\ row.token = thread[r].token /\ row.token = w
        /\ row.status = thread[r].status /\ row.cause = thread[r].cause
    BY <1>3, <2>2 DEF HoldsThread, ThreadRow
  <2> HIDE DEF row
  <2> QED BY <1>1, <2>1, <2>3, RunFacts, ThreadTeardown DEF JobTerminal
<1> QED BY <1>2, <1>3

LEMMA CommitTerminalFence ==
    ASSUME FenceInv, NEW w \in Slots, Complete(w) \/ FailRun(w)
    PROVE  FenceInv'
<1> DEFINE r == drive[w].run
<1>1. /\ drive[w].pc # "idle"
      /\ UNCHANGED <<job, program, log, hold, acked, refusals, due, faults>>
  BY DEF Complete, FailRun, gateway, Waited, AfterCalls
<1>2. PICK status \in ThreadTerminal, t \in JobTerminal :
         CommitTerminal(w, status, t)
  BY DEF Complete, FailRun, JobTerminal, ThreadTerminal
<1>3. CASE ~HoldsThread(w, r)
  BY <1>1, <1>2, <1>3, QuietEnd DEF CommitTerminal, core
<1>4. CASE HoldsThread(w, r) /\ thread[r].status = "running"
  <2> DEFINE row == [thread[r] EXCEPT !.status = status]
  <2>1. /\ thread' = [thread EXCEPT ![r] = row] /\ Teardown(w, t, drive[w].done)
    BY <1>2, <1>4 DEF CommitTerminal
  <2>2. thread[r] \in ThreadRow /\ thread[r].cause = "none"
    BY <1>1, <1>4, RunFacts
  <2>3. /\ row \in ThreadRow /\ row.token = thread[r].token /\ row.token = w
        /\ row.status \in ThreadTerminal /\ row.cause = "none"
    BY <1>4, <2>2 DEF HoldsThread, ThreadRow
  <2> HIDE DEF row
  <2> QED BY <1>1, <2>1, <2>3, ThreadTeardown DEF ThreadTerminal
<1>5. CASE HoldsThread(w, r) /\ thread[r].status # "running"
  BY <1>1, <1>2, <1>5, QuietTeardown DEF CommitTerminal, core
<1> QED BY <1>3, <1>4, <1>5

\* The drive that StartWalk leaves, and the one Reload leaves.
WalkDrive(w, c) ==
    [drive[w] EXCEPT !.pc = "walk", !.cause = c, !.beats = TRUE, !.seen = NoThread]

LEMMA WalkRow ==
    ASSUME FenceInv, NEW w \in Slots, drive[w].pc = "adopt",
           NEW c \in CapCauses \cup {"none"}
    PROVE  LET d == WalkDrive(w, c)
           IN  /\ d \in DriveRow /\ Fits(d, job, program)
               /\ d.pc = "walk" /\ d.run = drive[w].run /\ d.done = drive[w].done
               /\ d.waited = drive[w].waited /\ d.artifact = drive[w].artifact
               /\ d.cause = c /\ d.beats /\ d.terminal = drive[w].terminal
<1> DEFINE d == WalkDrive(w, c)
<1>1. drive[w] \in DriveRow /\ Fits(drive[w], job, program)
  BY RunFacts
<1>2. NoThread \in ThreadRow
  BY DEF NoThread, ThreadRow
<1>3. /\ d \in DriveRow
      /\ d.pc = "walk" /\ d.run = drive[w].run /\ d.done = drive[w].done
      /\ d.waited = drive[w].waited /\ d.artifact = drive[w].artifact
      /\ d.keys = drive[w].keys /\ d.terminal = drive[w].terminal
      /\ d.cause = c /\ d.beats
  BY <1>1, <1>2 DEF WalkDrive, DriveRow, Walking
<1> HIDE DEF d
<1>4. Fits(d, job, program)
  BY <1>1, <1>3 DEF Fits, Leaving
<1> QED BY <1>3, <1>4 DEF d

LEMMA ReloadRow ==
    ASSUME FenceInv, NEW w \in Slots, drive[w].pc = "adopt", NEW d,
           d = [drive[w] EXCEPT !.seen = thread[drive[w].run]]
    PROVE  /\ d \in DriveRow /\ Fits(d, job, program)
           /\ d.pc = "adopt" /\ d.run = drive[w].run /\ d.done = drive[w].done
           /\ d.waited = drive[w].waited /\ d.artifact = drive[w].artifact
<1>1. /\ drive[w] \in DriveRow /\ Fits(drive[w], job, program)
      /\ thread[drive[w].run] \in ThreadRow
  BY RunFacts
<1>2. /\ d \in DriveRow
      /\ d.pc = "adopt" /\ d.run = drive[w].run /\ d.done = drive[w].done
      /\ d.waited = drive[w].waited /\ d.artifact = drive[w].artifact
      /\ d.keys = drive[w].keys /\ d.terminal = drive[w].terminal
  BY <1>1 DEF DriveRow, Early
<1>3. Fits(d, job, program)
  BY <1>1, <1>2 DEF Fits, Leaving
<1> QED BY <1>2, <1>3

\* adopt records a wake at the thread whoever holds it: the record counts for
\* nothing.
LEMMA AdoptCore ==
    ASSUME FenceInv, NEW w \in Slots, drive[w].pc = "adopt",
           NEW row \in ThreadRow, NEW s \in Seq(Kinds), NEW d \in DriveRow,
           thread' = [thread EXCEPT ![drive[w].run] = row],
           log' = [log EXCEPT ![drive[w].run] = s],
           drive' = [drive EXCEPT ![w] = d],
           row.token = thread[drive[w].run].token,
           row.cause # "none" <=> row.status = "suspended",
           \/ s = log[drive[w].run]
           \/ \E x \in {"resolved"} \cup CapCauses : s = Append(log[drive[w].run], x),
           Fits(d, job, program), d.run = drive[w].run, d.done = drive[w].done,
           d.waited = drive[w].waited, d.artifact = drive[w].artifact,
           UNCHANGED <<job, program, hold, acked, refusals, due, faults>>
    PROVE  FenceInv'
<1> DEFINE r == drive[w].run
<1>1. /\ r \in Runs /\ job[r].state # "absent" /\ program[r].calls \in Nat
      /\ log[r] \in Seq(Kinds) /\ Once(log[r], program[r]) /\ HasLast(log[r])
      /\ Mirrors(w, drive[w], thread, log)
  BY RunFacts DEF Program
<1>2. /\ Once(s, program[r]) /\ HasLast(s)
      /\ \A k \in {"call", "wait", "artifact"} : Count(s, k) = Count(log[r], k)
  <2>1. CASE s = log[r]
    BY <1>1, <2>1
  <2>2. CASE \E x \in {"resolved"} \cup CapCauses : s = Append(log[r], x)
    <3>1. PICK x \in {"resolved"} \cup CapCauses : s = Append(log[r], x)
      BY <2>2
    <3>2. x \in Kinds /\ x \notin {"call", "wait", "artifact"}
      BY DEF Kinds, CapCauses
    <3> QED BY <1>1, <3>1, <3>2, OnceAppend, LastAppend, CountAppend
  <2> QED BY <2>1, <2>2
<1>3. d.pc \in Derived /\ row.token = w =>
         /\ d.done = Count(s, "call")
         /\ d.waited <=> Count(s, "wait") > 0
         /\ d.artifact <=> Count(s, "artifact") > 0
  BY <1>1, <1>2 DEF Mirrors, Derived
<1> QED BY <1>1, <1>2, <1>3, CoreStep

LEMMA AdoptResolveFence ==
    ASSUME FenceInv, NEW w \in Slots, AdoptResolve(w)
    PROVE  FenceInv'
<1> DEFINE r == drive[w].run
<1> DEFINE c == IF drive[w].seen.cause = "cap" THEN WakeCause(program[r].cap)
                ELSE "none"
<1> DEFINE x == IF c = "none" THEN "resolved" ELSE c
<1> DEFINE s == IF thread[r].status \in ThreadTerminal \cup {"suspended"}
                THEN Append(log[r], x) ELSE log[r]
<1>1. /\ drive[w].pc = "adopt" /\ drive[w].pc # "idle"
      /\ UNCHANGED <<job, program, hold, acked, refusals, due, faults>>
  BY DEF AdoptResolve, gateway
<1>2. /\ r \in Runs /\ thread[r] \in ThreadRow /\ log[r] \in Seq(Kinds)
      /\ log = [log EXCEPT ![r] = log[r]] /\ thread = [thread EXCEPT ![r] = thread[r]]
      /\ thread[r].cause # "none" <=> thread[r].status = "suspended"
  BY <1>1, RunFacts
<1>3. c \in CapCauses \cup {"none"} /\ x \in {"resolved"} \cup CapCauses
  BY DEF WakeCause, CapCauses
<1>4. x \in Kinds
  BY <1>3 DEF Kinds
<1>5. /\ s \in Seq(Kinds)
      /\ s = log[r] \/ s = Append(log[r], x)
  BY <1>2, <1>4, AppendFacts DEF ThreadTerminal
<1>6. log' = [log EXCEPT ![r] = s]
  BY <1>2 DEF AdoptResolve
<1>7. CASE thread[r].status = "suspended"
  <2> DEFINE row == [thread[r] EXCEPT !.status = "running", !.wake = "none",
                                      !.cause = "none"]
  <2> DEFINE d == WalkDrive(w, c)
  <2>1. /\ thread' = [thread EXCEPT ![r] = row]
        /\ drive' = [drive EXCEPT ![w] = d]
    BY <1>7 DEF AdoptResolve, StartWalk, WalkDrive
  <2>2. /\ row \in ThreadRow /\ row.token = thread[r].token
        /\ row.cause = "none" /\ row.status = "running"
    BY <1>2 DEF ThreadRow
  <2>4. /\ d \in DriveRow /\ Fits(d, job, program) /\ d.run = r
        /\ d.done = drive[w].done /\ d.waited = drive[w].waited
        /\ d.artifact = drive[w].artifact
    <3> HIDE DEF c
    <3> QED BY <1>1, <1>3, WalkRow
  <2> HIDE DEF row, d, s, x, c
  <2> QED BY <1>1, <1>3, <1>5, <1>6, <2>1, <2>2, <2>4, AdoptCore
<1>8. CASE thread[r].status # "suspended"
  <2> DEFINE d == [drive[w] EXCEPT !.seen = thread[r]]
  <2>1. /\ thread' = [thread EXCEPT ![r] = thread[r]]
        /\ drive' = [drive EXCEPT ![w] = d]
    BY <1>2, <1>8 DEF AdoptResolve, Reload
  <2>2. d = [drive[w] EXCEPT !.seen = thread[r]]
    OBVIOUS
  <2> HIDE DEF d, s, x, c
  <2>3. /\ d \in DriveRow /\ Fits(d, job, program) /\ d.run = r
        /\ d.done = drive[w].done /\ d.waited = drive[w].waited
        /\ d.artifact = drive[w].artifact
    BY <1>1, <2>2, ReloadRow
  <2> QED BY <1>1, <1>2, <1>3, <1>5, <1>6, <2>1, <2>3, AdoptCore
<1> QED BY <1>7, <1>8

LEMMA AdoptQueuedFence ==
    ASSUME FenceInv, NEW w \in Slots, AdoptQueued(w)
    PROVE  FenceInv'
<1> DEFINE r == drive[w].run
<1>1. /\ drive[w].pc = "adopt" /\ drive[w].pc # "idle"
      /\ UNCHANGED <<job, program, log, hold, acked, refusals, due, faults>>
  BY DEF AdoptQueued, gateway
<1>2. /\ r \in Runs /\ thread[r] \in ThreadRow /\ log[r] \in Seq(Kinds)
      /\ log' = [log EXCEPT ![r] = log[r]] /\ thread = [thread EXCEPT ![r] = thread[r]]
      /\ thread[r].cause # "none" <=> thread[r].status = "suspended"
  BY <1>1, RunFacts
<1>3. CASE thread[r].status = "queued"
  <2> DEFINE row == [thread[r] EXCEPT !.status = "running"]
  <2> DEFINE d == WalkDrive(w, "none")
  <2>1. /\ thread' = [thread EXCEPT ![r] = row]
        /\ drive' = [drive EXCEPT ![w] = d]
    BY <1>3 DEF AdoptQueued, StartWalk, WalkDrive
  <2>2. /\ row \in ThreadRow /\ row.token = thread[r].token
        /\ row.cause = "none" /\ row.status = "running"
    BY <1>2, <1>3 DEF ThreadRow
  <2>4. /\ d \in DriveRow /\ Fits(d, job, program) /\ d.run = r
        /\ d.done = drive[w].done /\ d.waited = drive[w].waited
        /\ d.artifact = drive[w].artifact
    <3>1. "none" \in CapCauses \cup {"none"}
      OBVIOUS
    <3> QED BY <1>1, <3>1, WalkRow
  <2> HIDE DEF row, d
  <2> QED BY <1>1, <1>2, <2>1, <2>2, <2>4, AdoptCore
<1>4. CASE thread[r].status # "queued"
  <2> DEFINE d == [drive[w] EXCEPT !.seen = thread[r]]
  <2>1. /\ thread' = [thread EXCEPT ![r] = thread[r]]
        /\ drive' = [drive EXCEPT ![w] = d]
    BY <1>2, <1>4 DEF AdoptQueued, Reload
  <2>2. d = [drive[w] EXCEPT !.seen = thread[r]]
    OBVIOUS
  <2> HIDE DEF d
  <2>3. /\ d \in DriveRow /\ Fits(d, job, program) /\ d.run = r
        /\ d.done = drive[w].done /\ d.waited = drive[w].waited
        /\ d.artifact = drive[w].artifact
    BY <1>1, <2>2, ReloadRow
  <2> QED BY <1>1, <1>2, <2>1, <2>3, AdoptCore
<1> QED BY <1>3, <1>4

LEMMA AdoptMovedFence ==
    ASSUME FenceInv, NEW w \in Slots, AdoptMoved(w)
    PROVE  FenceInv'
<1>1. /\ drive[w].pc = "adopt" /\ drive[w].pc # "idle"
      /\ UNCHANGED <<job, program, core, hold, acked, refusals, due, faults>>
  BY DEF AdoptMoved, gateway
<1>2. CASE StartWalk(w, drive[w].cause)
  <2> DEFINE c == drive[w].cause
  <2> DEFINE d == WalkDrive(w, c)
  <2>1. drive[w] \in DriveRow /\ Mirrors(w, drive[w], thread, log)
    BY <1>1, RunFacts
  <2>2. c \in CapCauses \cup {"none"}
    BY <2>1 DEF DriveRow
  <2>3. drive' = [drive EXCEPT ![w] = d]
    BY <1>2 DEF StartWalk, WalkDrive
  <2> HIDE DEF c
  <2>4. /\ d \in DriveRow /\ Fits(d, job, program) /\ d.run = drive[w].run
        /\ d.done = drive[w].done /\ d.waited = drive[w].waited
        /\ d.artifact = drive[w].artifact /\ d.pc = "walk"
    BY <1>1, <2>2, WalkRow
  <2> HIDE DEF d
  <2>5. Mirrors(w, d, thread, log)
    BY <1>1, <2>1, <2>4 DEF Mirrors, Derived
  <2>6. JobInv' /\ JobKeeps /\ RestInv'
    BY <1>1, JobStays DEF FenceInv, RestInv
  <2>7. Fits(d, job', program')
    BY <1>1, <2>4
  <2> QED BY <1>1, <2>3, <2>4, <2>5, <2>6, <2>7, DriveStep
<1>3. CASE \E t \in JobTerminal : Teardown(w, t, drive[w].done)
  BY <1>1, <1>3, QuietTeardown
<1> QED BY <1>2, <1>3 DEF AdoptMoved, JobTerminal

\* The second half of a suspension, and the wait that is not over.
LEMMA ParkFence ==
    ASSUME FenceInv, NEW w \in Slots, AdoptNotReady(w) \/ Park(w)
    PROVE  FenceInv'
<1>1. JobInv' /\ JobKeeps
  BY ParkJob DEF FenceInv
<1>2. End(w) /\ UNCHANGED <<core, hold, acked>> /\ RestInv'
  BY DEF AdoptNotReady, Park, FenceInv, RestInv, gateway
<1> QED BY <1>1, <1>2, EndStep

LEMMA CommitCallFence ==
    ASSUME FenceInv, NEW w \in Slots, CommitCall(w)
    PROVE  FenceInv'
<1> DEFINE r == drive[w].run
<1>1. /\ drive[w].pc = "inflight" /\ drive[w].pc # "idle"
      /\ UNCHANGED <<job, program, thread, hold, acked, refusals, due, faults>>
  BY DEF CommitCall, gateway
<1>2. CASE ~HoldsThread(w, r)
  BY <1>1, <1>2, QuietEnd DEF CommitCall, core
<1>3. CASE HoldsThread(w, r)
  <2> DEFINE s == Append(log[r], "call")
  <2> DEFINE n == drive[w].done + 1
  <2> DEFINE d == [drive[w] EXCEPT !.pc = "walk", !.done = n, !.cause = "none"]
  <2>1. /\ r \in Runs /\ job[r].state # "absent" /\ program[r].calls \in Nat
        /\ log[r] \in Seq(Kinds) /\ Once(log[r], program[r]) /\ HasLast(log[r])
        /\ drive[w] \in DriveRow /\ Fits(drive[w], job, program)
        /\ thread[r] \in ThreadRow /\ thread[r].token = w
        /\ thread[r].cause # "none" <=> thread[r].status = "suspended"
        /\ thread' = [thread EXCEPT ![r] = thread[r]]
    BY <1>1, <1>3, RunFacts DEF Program, HoldsThread
  <2>2. /\ drive[w].done = Count(log[r], "call")
        /\ drive[w].waited <=> Count(log[r], "wait") > 0
        /\ drive[w].artifact <=> Count(log[r], "artifact") > 0
    BY <1>1, <2>1, RunFacts DEF Mirrors, Derived, Walking
  <2>3. drive[w].done < program[r].calls /\ drive[w].done \in Nat
    BY <1>1, <2>1 DEF Fits, DriveRow
  <2>4. /\ s \in Seq(Kinds) /\ Once(s, program[r]) /\ HasLast(s)
        /\ Count(s, "call") = drive[w].done + 1
        /\ Count(s, "wait") = Count(log[r], "wait")
        /\ Count(s, "artifact") = Count(log[r], "artifact")
    <3>1. "call" \in Kinds /\ Count(log[r], "call") < program[r].calls
      BY <2>2, <2>3 DEF Kinds
    <3>2. s \in Seq(Kinds) /\ HasLast(s)
      BY <2>1, <3>1, AppendFacts, LastAppend
    <3>3. Once(s, program[r])
      BY <2>1, <3>1, OnceAppend
    <3>4. \A k : Count(s, k) = IF k = "call" THEN Count(log[r], k) + 1
                               ELSE Count(log[r], k)
      BY <2>1, <3>1, CountAppend
    <3> QED BY <2>2, <3>2, <3>3, <3>4
  <2>5. log' = [log EXCEPT ![r] = s]
    BY <1>3 DEF CommitCall
  <2>6. drive' = [drive EXCEPT ![w] = d]
    BY <1>3 DEF CommitCall
  <2>7. /\ d \in DriveRow
        /\ d.pc = "walk" /\ d.run = r /\ d.done = n
        /\ d.waited = drive[w].waited /\ d.artifact = drive[w].artifact
        /\ d.keys = drive[w].keys /\ d.terminal = drive[w].terminal
    <3>1. n \in Nat
      BY <2>3
    <3> HIDE DEF n
    <3> QED BY <2>1, <3>1 DEF DriveRow, Walking
  <2> HIDE DEF d, s
  <2>8. Fits(d, job, program)
    BY <1>1, <2>1, <2>3, <2>7 DEF Fits, Leaving
  <2>9. UNCHANGED <<job, program, hold, acked, refusals, due, faults>>
    BY <1>1
  <2> QED BY <2>1, <2>2, <2>4, <2>5, <2>6, <2>7, <2>8, <2>9, CoreStep
<1> QED BY <1>2, <1>3

LEMMA SuspendFence ==
    ASSUME FenceInv, NEW w \in Slots, drive[w].pc \notin {"idle"} \cup Leaving,
           NEW x \in {"cap", "wait"}, NEW c \in {"cap", "signal"},
           NEW wk \in {"none", "armed"}, Suspend(w, x, c, wk),
           x = "wait" => drive[w].pc \in Derived /\ ~drive[w].waited,
           UNCHANGED <<job, program, hold, acked, refusals, due, faults>>
    PROVE  FenceInv'
<1> DEFINE r == drive[w].run
<1>1. drive[w].pc # "idle"
  OBVIOUS
<1>2. CASE ~(HoldsThread(w, r) /\ thread[r].status = "running")
  BY <1>2, QuietEnd DEF Suspend
<1>3. CASE HoldsThread(w, r) /\ thread[r].status = "running"
  <2> DEFINE row == [thread[r] EXCEPT !.status = "suspended", !.cause = c,
                                      !.wake = wk]
  <2> DEFINE s == Append(log[r], x)
  <2> DEFINE d == [drive[w] EXCEPT !.pc = "park"]
  <2>1. /\ r \in Runs /\ job[r].state # "absent" /\ program[r].calls \in Nat
        /\ log[r] \in Seq(Kinds) /\ Once(log[r], program[r]) /\ HasLast(log[r])
        /\ thread[r] \in ThreadRow /\ thread[r].token = w
        /\ Mirrors(w, drive[w], thread, log) /\ drive[w] \in DriveRow
    BY <1>1, <1>3, RunFacts DEF Program, HoldsThread
  <2>2. /\ thread' = [thread EXCEPT ![r] = row] /\ log' = [log EXCEPT ![r] = s]
        /\ drive' = [drive EXCEPT ![w] = d]
    BY <1>3 DEF Suspend, Goto
  <2>3. /\ row \in ThreadRow /\ row.token = w
        /\ row.cause # "none" /\ row.status = "suspended"
    BY <2>1 DEF ThreadRow
  <2>4. s \in Seq(Kinds) /\ Once(s, program[r]) /\ HasLast(s)
    <3>1. x \in Kinds /\ x \notin {"call", "artifact"}
      BY DEF Kinds
    <3>2. x = "wait" => Count(log[r], "wait") = 0
      BY <2>1, CountType DEF Mirrors
    <3> QED BY <2>1, <3>1, <3>2, AppendFacts, LastAppend, OnceAppend
  <2>5. d \in DriveRow /\ Fits(d, job, program)
    <3>1. JobKeeps /\ job' = job /\ program' = program
      BY JobStays DEF FenceInv
    <3> QED BY <3>1, GotoFits DEF Derived, Walking
  <2>6. d.pc = "park" /\ d.run = r /\ d.pc \notin Derived
    BY <2>1 DEF DriveRow, Derived, Walking
  <2> HIDE DEF row, s, d
  <2>7. row.token \in {thread[r].token, w}
    BY <2>3
  <2> QED BY <2>1, <2>2, <2>3, <2>4, <2>5, <2>6, <2>7, CoreStep
<1> QED BY <1>2, <1>3

LEMMA WaitFence ==
    ASSUME FenceInv, NEW w \in Slots, DisposeOverCap(w) \/ DurableWait(w)
    PROVE  FenceInv'
<1>1. /\ UNCHANGED <<job, program, hold, acked, refusals, due, faults>>
      /\ drive[w].pc \notin {"idle"} \cup Leaving /\ drive[w].pc \in Derived
  BY DEF DisposeOverCap, DurableWait, AfterCalls, gateway, Leaving, Derived, Walking
<1>2. CASE Suspend(w, "cap", "cap", "armed")
  BY <1>1, <1>2, SuspendFence
<1>3. CASE Suspend(w, "wait", "signal", "none") /\ ~drive[w].waited
  BY <1>1, <1>3, SuspendFence
<1>4. CASE Goto(w, "fail") /\ UNCHANGED core
  BY <1>1, <1>4, QuietGoto DEF Walking
<1> QED BY <1>2, <1>3, <1>4 DEF DisposeOverCap, DurableWait

LEMMA CommitArtifactFence ==
    ASSUME FenceInv, NEW w \in Slots, CommitArtifact(w)
    PROVE  FenceInv'
<1> DEFINE r == drive[w].run
<1>1. /\ drive[w].pc = "walk" /\ drive[w].pc # "idle" /\ ~drive[w].artifact
      /\ drive[w].done >= program[r].calls
      /\ program[r].wait => drive[w].waited
      /\ UNCHANGED <<job, program, thread, hold, acked, refusals, due, faults>>
  BY DEF CommitArtifact, gateway, Waited, AfterCalls
<1>2. CASE ~HoldsThread(w, r)
  BY <1>1, <1>2, QuietEnd DEF CommitArtifact, core
<1>3. CASE HoldsThread(w, r)
  <2> DEFINE s == Append(log[r], "artifact")
  <2> DEFINE d == [drive[w] EXCEPT !.artifact = TRUE, !.pc = "final"]
  <2>1. /\ r \in Runs /\ job[r].state # "absent" /\ program[r].calls \in Nat
        /\ log[r] \in Seq(Kinds) /\ Once(log[r], program[r]) /\ HasLast(log[r])
        /\ drive[w] \in DriveRow /\ Fits(drive[w], job, program)
        /\ thread[r] \in ThreadRow /\ thread[r].token = w
        /\ thread[r].cause # "none" <=> thread[r].status = "suspended"
        /\ thread' = [thread EXCEPT ![r] = thread[r]]
    BY <1>1, <1>3, RunFacts DEF Program, HoldsThread
  <2>2. /\ drive[w].done = Count(log[r], "call")
        /\ drive[w].waited <=> Count(log[r], "wait") > 0
        /\ drive[w].artifact <=> Count(log[r], "artifact") > 0
    BY <1>1, <2>1, RunFacts DEF Mirrors, Derived, Walking
  <2>3. /\ Count(log[r], "call") = program[r].calls
        /\ Count(log[r], "artifact") = 0 /\ Count(log[r], "artifact") \in Nat
        /\ program[r].wait => Count(log[r], "wait") = 1
    <3>1. drive[w].done \in Nat /\ drive[w].done <= program[r].calls
      BY <1>1, <2>1 DEF Fits, DriveRow
    <3>2. /\ Count(log[r], "artifact") \in Nat /\ Count(log[r], "wait") \in Nat
          /\ Count(log[r], "wait") <= 1
      BY <2>1, CountType DEF Once
    <3>3. Count(log[r], "call") = program[r].calls
      BY <1>1, <2>1, <2>2, <3>1
    <3>4. Count(log[r], "artifact") = 0
      BY <1>1, <2>2, <3>2
    <3>5. program[r].wait => Count(log[r], "wait") = 1
      BY <1>1, <2>2, <3>2
    <3> QED BY <3>2, <3>3, <3>4, <3>5
  <2>4. /\ s \in Seq(Kinds) /\ Once(s, program[r]) /\ HasLast(s)
        /\ Count(s, "call") = drive[w].done
        /\ Count(s, "wait") = Count(log[r], "wait")
        /\ Count(s, "artifact") > 0
    <3>1. "artifact" \in Kinds
      BY DEF Kinds
    <3>2. s \in Seq(Kinds) /\ HasLast(s)
      BY <2>1, <3>1, AppendFacts, LastAppend
    <3>3. Once(s, program[r])
      BY <2>1, <2>3, <3>1, OnceAppend
    <3>4. \A k : Count(s, k) = IF k = "artifact" THEN Count(log[r], k) + 1
                               ELSE Count(log[r], k)
      BY <2>1, <3>1, CountAppend
    <3> QED BY <2>2, <2>3, <3>2, <3>3, <3>4
  <2>5. log' = [log EXCEPT ![r] = s] /\ drive' = [drive EXCEPT ![w] = d]
    BY <1>3 DEF CommitArtifact
  <2>6. /\ d \in DriveRow
        /\ d.pc = "final" /\ d.run = r /\ d.done = drive[w].done
        /\ d.waited = drive[w].waited /\ d.artifact
        /\ d.keys = drive[w].keys /\ d.terminal = drive[w].terminal
    BY <2>1 DEF DriveRow, Walking
  <2> HIDE DEF d, s
  <2>7. Fits(d, job, program)
    BY <1>1, <2>1, <2>6 DEF Fits, Leaving
  <2>8. UNCHANGED <<job, program, hold, acked, refusals, due, faults>>
    BY <1>1
  <2> QED BY <2>1, <2>2, <2>4, <2>5, <2>6, <2>7, <2>8, CoreStep
<1> QED BY <1>2, <1>3

\* The teardown's own steps: the drive it leaves.
LEMMA LeavingGoto ==
    ASSUME FenceInv, JobInv', JobKeeps, NEW w \in Slots, drive[w].pc \in Leaving,
           NEW p \in {"settle", "ack"}, Goto(w, p),
           p = "ack" => job'[drive[w].run].state \in JobTerminal,
           UNCHANGED <<core, hold, acked>>, RestInv'
    PROVE  FenceInv'
<1> DEFINE d == [drive[w] EXCEPT !.pc = p]
<1>1. drive[w] \in DriveRow /\ Fits(drive[w], job', program')
  BY RunFacts, FitsStays DEF Leaving, FenceInv
<1>2. /\ d \in DriveRow /\ drive' = [drive EXCEPT ![w] = d]
      /\ d.pc = p /\ d.run = drive[w].run /\ d.done = drive[w].done
      /\ d.keys = drive[w].keys /\ d.terminal = drive[w].terminal
  BY <1>1 DEF Goto, DriveRow, Leaving
<1> HIDE DEF d
<1>3. Fits(d, job', program')
  BY <1>1, <1>2 DEF Fits, Leaving
<1>4. Mirrors(w, d, thread, log)
  BY <1>2 DEF Mirrors, Derived, Walking
<1> QED BY <1>2, <1>3, <1>4, DriveStep

LEMMA PollFence ==
    ASSUME FenceInv, NEW w \in Slots, Poll(w)
    PROVE  FenceInv'
<1>1. JobInv' /\ JobKeeps /\ RestInv' /\ UNCHANGED <<core, hold, acked>>
  BY JobStays DEF Poll, FenceInv, RestInv, gateway
<1>2. drive[w].pc \in Leaving
  BY DEF Poll, Leaving
<1>3. CASE Goto(w, "settle")
  BY <1>1, <1>2, <1>3, LeavingGoto
<1>4. CASE End(w)
  BY <1>1, <1>4, EndStep
<1> QED BY <1>3, <1>4 DEF Poll

LEMMA SettleFence ==
    ASSUME FenceInv, NEW w \in Slots, Settle(w)
    PROVE  FenceInv'
<1>1. JobInv' /\ JobKeeps
  BY ParkJob DEF FenceInv
<1>2. UNCHANGED <<core, hold, acked>> /\ RestInv' /\ program' = program
  BY DEF Settle, FenceInv, RestInv, gateway
<1>3. CASE HoldsLease(w, drive[w].run)
  <2>1. drive[w].terminal \in JobTerminal /\ drive[w].run \in Runs
    BY RunFacts DEF Settle, Fits, Leaving, DriveRow
  <2>2. job'[drive[w].run].state = drive[w].terminal
    BY <1>2, <1>3, <2>1, LeaveRunningJob DEF Settle, FenceInv
  <2>3. Goto(w, "ack") /\ drive[w].pc \in Leaving
    BY <1>3 DEF Settle, Leaving
  <2> QED BY <1>1, <1>2, <2>1, <2>2, <2>3, LeavingGoto
<1>4. CASE ~HoldsLease(w, drive[w].run)
  <2>1. End(w)
    BY <1>4 DEF Settle
  <2> QED BY <1>1, <1>2, <2>1, EndStep
<1> QED BY <1>3, <1>4

\* A key is acknowledged among the run's own positions, and after its settle.
LEMMA AcknowledgeFence ==
    ASSUME FenceInv, NEW w \in Slots, Acknowledge(w)
    PROVE  FenceInv'
<1> DEFINE r == drive[w].run
<1> DEFINE keys == acked[r] \cup 0..(drive[w].keys - 1)
<1>1. JobInv' /\ JobKeeps /\ RestInv' /\ UNCHANGED <<job, program, core, hold>>
  BY JobStays DEF Acknowledge, FenceInv, RestInv
<1>2. /\ drive[w].pc = "ack" /\ r \in Runs /\ program[r].calls \in Nat
      /\ drive[w].keys \in Nat /\ drive[w].keys <= program[r].calls
      /\ job[r].state \in JobTerminal /\ acked[r] \subseteq Positions(r)
  <2>1. drive[w].pc = "ack"
    BY DEF Acknowledge
  <2> QED BY <2>1, RunFacts DEF Fits, DriveRow, Program, FenceInv, GateInv
<1>3. keys \subseteq Positions(r) /\ keys \in SUBSET Nat
  <2>1. Positions(r) \subseteq Nat
    BY <1>2 DEF Positions
  <2>2. 0..(drive[w].keys - 1) \subseteq Positions(r)
    BY <1>2 DEF Positions
  <2> QED BY <1>2, <2>1, <2>2
<1>4. acked' = [acked EXCEPT ![r] = keys]
  BY DEF Acknowledge
<1> HIDE DEF keys
<1>5. GateInv'
  <2>1. /\ acked' \in [Runs -> SUBSET Nat] /\ acked'[r] = keys
        /\ \A q \in Runs \ {r} : acked'[q] = acked[q]
    BY <1>2, <1>3, <1>4 DEF FenceInv, GateInv
  <2>2. \A q \in Runs : acked'[q] \subseteq Positions(q)
    BY <1>3, <2>1 DEF FenceInv, GateInv
  <2>3. \A q \in Runs : acked'[q] # {} => job[q].state \in JobTerminal
    BY <1>2, <2>1 DEF FenceInv, GateInv
  <2> QED BY <1>1, <2>1, <2>2, <2>3 DEF FenceInv, GateInv, Positions
<1>6. CoreInv'
  BY <1>1, CoreStays DEF FenceInv
<1>7. /\ DriveInv' /\ drive'[w] = Idle
      /\ \A v \in Slots \ {w} : drive'[v] = drive[v]
  BY <1>1, IdleFits, DriveMoves DEF FenceInv, Acknowledge, End
<1>8. MirrorInv'
  <2>1. Mirrors(w, drive'[w], thread', log')
    BY <1>7, IdleFits
  <2> QED BY <1>1, <1>7, <2>1, MirrorMoves DEF FenceInv, core
<1> QED BY <1>1, <1>5, <1>6, <1>7, <1>8 DEF FenceInv

\* The gateway files or settles one hold, and nothing of the planes moves.
LEMMA HoldGate ==
    ASSUME GateInv, NEW r \in Runs, NEW i \in Positions(r),
           NEW x \in {"none", "active", "settled"}, job[r].state # "absent",
           hold' = [hold EXCEPT ![r][i] = x], UNCHANGED <<job, program, acked>>
    PROVE  GateInv'
<1>1. hold[r] \in [Positions(r) -> {"none", "active", "settled"}]
  BY DEF GateInv
<1>2. /\ hold'[r] = [hold[r] EXCEPT ![i] = x]
      /\ \A q \in Runs \ {r} : hold'[q] = hold[q]
      /\ hold' = [q \in Runs |-> hold'[q]]
  BY DEF GateInv
<1>3. hold'[r] \in [Positions(r) -> {"none", "active", "settled"}]
  BY <1>1, <1>2
<1> QED BY <1>2, <1>3 DEF GateInv, Positions

LEMMA DispatchFence ==
    ASSUME FenceInv, NEW w \in Slots, Dispatch(w)
    PROVE  FenceInv'
<1> DEFINE r == drive[w].run
<1> DEFINE i == drive[w].done
<1> DEFINE d == [drive[w] EXCEPT !.pc = "inflight"]
<1>1. JobInv' /\ JobKeeps /\ RestInv' /\ UNCHANGED <<job, program, core, acked>>
  BY JobStays DEF Dispatch, FenceInv, RestInv
<1>2. /\ drive[w].pc = "walk" /\ r \in Runs /\ job[r].state # "absent"
      /\ i \in Nat /\ program[r].calls \in Nat /\ i < program[r].calls
  <2>1. drive[w].pc = "walk" /\ i < program[r].calls
    BY DEF Dispatch, AtCall
  <2> QED BY <2>1, RunFacts DEF DriveRow, Program
<1>3. i \in Positions(r)
  BY <1>2 DEF Positions
<1>4. hold[r] \in [Positions(r) -> {"none", "active", "settled"}]
  BY <1>2 DEF FenceInv, GateInv
<1>5. GateInv'
  <2> DEFINE x == IF hold[r][i] = "none" THEN "active" ELSE hold[r][i]
  <2>1. x \in {"none", "active", "settled"}
    BY <1>3, <1>4
  <2>2. hold' = [hold EXCEPT ![r][i] = x]
    BY DEF Dispatch
  <2> HIDE DEF x
  <2> QED BY <1>1, <1>2, <1>3, <2>1, <2>2, HoldGate DEF FenceInv
<1>6. d \in DriveRow /\ Fits(d, job', program') /\ Mirrors(w, d, thread, log)
  <2>1. Mirrors(w, drive[w], thread, log)
    BY DEF FenceInv, MirrorInv
  <2> QED BY <1>1, <1>2, <2>1, GotoFits DEF Walking, Derived, Leaving
<1>7. drive' = [drive EXCEPT ![w] = d]
  BY DEF Dispatch, Goto
<1> HIDE DEF d
<1>8. /\ DriveInv' /\ drive'[w] = d
      /\ \A v \in Slots \ {w} : drive'[v] = drive[v]
  BY <1>1, <1>6, <1>7, DriveMoves DEF FenceInv
<1>9. MirrorInv'
  <2>1. Mirrors(w, drive'[w], thread', log')
    BY <1>1, <1>6, <1>8 DEF core
  <2> QED BY <1>1, <1>8, <2>1, MirrorMoves DEF FenceInv, core
<1>10. CoreInv'
  BY <1>1, CoreStays DEF FenceInv
<1> QED BY <1>1, <1>5, <1>8, <1>9, <1>10 DEF FenceInv

LEMMA RefuseFence ==
    ASSUME FenceInv, NEW w \in Slots, NEW e \in {"over_cap", "not_entitled"},
           Refuse(w, e)
    PROVE  FenceInv'
<1>1. JobInv' /\ JobKeeps /\ UNCHANGED <<core, hold, acked>>
  BY JobStays DEF Refuse, FenceInv
<1>2. RestInv'
  BY ManagedAssumption DEF Refuse, FenceInv, RestInv
<1>3. /\ drive[w].pc = "walk" /\ drive[w].done < program[drive[w].run].calls
      /\ Goto(w, "over_cap") \/ Goto(w, "fail")
  BY DEF Refuse, AtCall
<1> QED BY <1>1, <1>2, <1>3, GotoStep DEF Walking, Derived, Leaving

\* The heartbeat, and the faults of a drive.
LEMMA WatchRow ==
    ASSUME FenceInv, JobKeeps, NEW w \in Slots, drive[w].pc # "idle",
           NEW b \in BOOLEAN
    PROVE  LET d == [drive[w] EXCEPT !.watch = b]
           IN  d \in DriveRow /\ Fits(d, job', program') /\ Mirrors(w, d, thread, log)
<1> DEFINE d == [drive[w] EXCEPT !.watch = b]
<1>1. /\ drive[w] \in DriveRow /\ Fits(drive[w], job', program')
      /\ Mirrors(w, drive[w], thread, log)
  BY RunFacts, FitsStays DEF FenceInv
<1>2. /\ d \in DriveRow
      /\ d.pc = drive[w].pc /\ d.run = drive[w].run /\ d.done = drive[w].done
      /\ d.waited = drive[w].waited /\ d.artifact = drive[w].artifact
      /\ d.keys = drive[w].keys /\ d.terminal = drive[w].terminal
  BY <1>1 DEF DriveRow
<1> HIDE DEF d
<1>3. Fits(d, job', program')
  BY <1>1, <1>2 DEF Fits
<1>4. Mirrors(w, d, thread, log)
  BY <1>1, <1>2 DEF Mirrors
<1> QED BY <1>2, <1>3, <1>4 DEF d

LEMMA HeartbeatFence ==
    ASSUME FenceInv, NEW w \in Slots, Heartbeat(w) \/ HeartbeatError(w)
    PROVE  FenceInv'
<1>1. JobInv' /\ JobKeeps
  <2>1. CASE Heartbeat(w)
    BY <2>1, HeartbeatJob DEF FenceInv
  <2>2. CASE HeartbeatError(w)
    BY <2>2, JobStays DEF FenceInv, HeartbeatError
  <2> QED BY <2>1, <2>2
<1>2. RestInv' /\ UNCHANGED <<core, hold, acked>> /\ drive[w].pc # "idle"
  BY ManagedAssumption DEF Heartbeat, HeartbeatError, FenceInv, RestInv, gateway
<1>3. PICK b \in BOOLEAN : drive' = [drive EXCEPT ![w].watch = b]
  <2>1. CASE Heartbeat(w)
    <3>1. job[drive[w].run].cancel \in BOOLEAN
      BY <1>2, DriveRun DEF FenceInv, JobInv, JobRow
    <3> QED BY <2>1, <3>1 DEF Heartbeat
  <2>2. CASE HeartbeatError(w)
    BY <2>2 DEF HeartbeatError
  <2> QED BY <2>1, <2>2
<1> DEFINE d == [drive[w] EXCEPT !.watch = b]
<1>4. d \in DriveRow /\ Fits(d, job', program') /\ Mirrors(w, d, thread, log)
  BY <1>1, <1>2, WatchRow
<1>5. drive' = [drive EXCEPT ![w] = d]
  BY <1>3
<1> HIDE DEF d
<1> QED BY <1>1, <1>2, <1>4, <1>5, DriveStep

LEMMA DieFence ==
    ASSUME FenceInv, NEW w \in Slots, Die(w)
    PROVE  FenceInv'
<1>1. JobInv' /\ JobKeeps /\ UNCHANGED <<core, hold, acked>> /\ End(w)
  BY JobStays DEF Die, FenceInv, gateway
<1>2. RestInv'
  BY ManagedAssumption DEF Die, FenceInv, RestInv, gateway
<1> QED BY <1>1, <1>2, EndStep

LEMMA StallFence ==
    ASSUME FenceInv, NEW w \in Slots, Stall(w)
    PROVE  FenceInv'
<1>1. JobInv' /\ JobKeeps /\ UNCHANGED <<core, hold, acked, drive>>
  BY StallJob DEF FenceInv, Stall, gateway
<1>2. RestInv'
  BY ManagedAssumption DEF Stall, FenceInv, RestInv, gateway
<1> QED BY <1>1, <1>2, JobStep

\* A run is queued with the probe it carries.
LEMMA EnqueueFence ==
    ASSUME FenceInv, NEW r \in Runs, Enqueue(r)
    PROVE  FenceInv'
<1> DEFINE row == [job[r] EXCEPT !.state = "queued"]
<1>1. PICK p \in Programs :
         /\ program' = [program EXCEPT ![r] = p]
         /\ hold' = [hold EXCEPT ![r] = [i \in 0..(p.calls - 1) |-> "none"]]
  BY DEF Enqueue
<1>2. /\ job[r].state = "absent" /\ job' = [job EXCEPT ![r] = row]
      /\ UNCHANGED <<core, acked, refusals, drive, due, faults>>
  BY DEF Enqueue
<1>3. p \in Program
  BY ManagedAssumption DEF Program
<1>4. /\ row \in JobRow /\ row.state = "queued" /\ row.token = "none"
  BY <1>2 DEF FenceInv, JobInv, JobRow
<1> HIDE DEF row
<1>5. /\ job' \in [Runs -> JobRow] /\ job'[r] = row /\ program'[r] = p
      /\ program' \in [Runs -> Program]
      /\ \A q \in Runs \ {r} : job'[q] = job[q] /\ program'[q] = program[q]
  BY <1>1, <1>2, <1>3, <1>4 DEF FenceInv, JobInv, CoreInv
<1>6. JobInv'
  BY <1>4, <1>5 DEF FenceInv, JobInv
<1>7. CoreInv'
  <2>1. log[r] = <<>> /\ Once(log[r], p) /\ HasLast(log[r])
    BY <1>2, <1>3, OnceEmpty, LastEmpty DEF FenceInv, CoreInv, Program
  <2>2. UNCHANGED <<thread, log>>
    BY <1>2 DEF core
  <2> QED BY <1>4, <1>5, <2>1, <2>2 DEF FenceInv, CoreInv
<1>8. GateInv'
  <2>1. acked[r] = {}
    BY <1>2 DEF FenceInv, GateInv, JobTerminal
  <2>2. /\ hold'[r] = [i \in 0..(p.calls - 1) |-> "none"]
        /\ \A q \in Runs \ {r} : hold'[q] = hold[q]
        /\ hold' = [q \in Runs |-> hold'[q]]
    BY <1>1 DEF FenceInv, GateInv
  <2>3. hold'[r] \in [0..(p.calls - 1) -> {"none", "active", "settled"}]
    BY <2>2
  <2> QED BY <1>2, <1>5, <2>1, <2>2, <2>3 DEF FenceInv, GateInv, Positions
<1>9. DriveInv'
  <2> SUFFICES ASSUME NEW w \in Slots PROVE Fits(drive[w], job', program')
    BY <1>2 DEF FenceInv, DriveInv
  <2>1. drive[w].pc # "idle" => drive[w].run \in Runs \ {r}
    BY <1>2, RunFacts
  <2> QED BY <1>5, <2>1 DEF FenceInv, DriveInv, Fits
<1>10. MirrorInv' /\ RestInv'
  BY <1>2 DEF FenceInv, MirrorInv, Mirrors, RestInv, core
<1> QED BY <1>6, <1>7, <1>8, <1>9, <1>10 DEF FenceInv

LEMMA ClaimFence ==
    ASSUME FenceInv, NEW w \in Slots, NEW r \in Runs, Claim(w, r)
    PROVE  FenceInv'
<1> DEFINE d == [Idle EXCEPT !.pc = "ensure", !.run = r]
<1>1. JobInv' /\ JobKeeps
  BY ClaimJob DEF FenceInv
<1>2. RestInv' /\ UNCHANGED <<core, hold, acked>>
  BY DEF Claim, FenceInv, RestInv, gateway
<1>3. /\ d \in DriveRow /\ d.pc = "ensure" /\ d.run = r /\ d.done = 0
      /\ d.keys = 0 /\ d.terminal = "none"
  BY IdleFits DEF Idle, DriveRow, Early
<1>4. drive' = [drive EXCEPT ![w] = d]
  BY DEF Claim
<1> HIDE DEF d
<1>5. job[r].state = "queued" /\ program'[r].calls \in Nat
  BY DEF Claim, FenceInv, CoreInv, Program
<1>6. Fits(d, job', program')
  BY <1>1, <1>3, <1>5, ManagedAssumption DEF Fits, JobKeeps, Leaving
<1>7. Mirrors(w, d, thread, log)
  BY <1>3 DEF Mirrors, Derived, Walking
<1> QED BY <1>1, <1>2, <1>3, <1>4, <1>6, <1>7, DriveStep

\* The job plane's own steps, and the sweeps.
LEMMA JobFence ==
    ASSUME FenceInv, NEW r \in Runs,
           ReclaimExpired(r) \/ RequestCancel(r) \/ Lapse(r) \/ SweepWake(r)
              \/ SweepCancel(r)
    PROVE  FenceInv'
<1>1. JobInv' /\ JobKeeps
  <2>1. CASE ReclaimExpired(r) \/ RequestCancel(r)
    BY <2>1, ReclaimJob, CancelJob DEF FenceInv
  <2>2. CASE Lapse(r)
    BY <2>2, LapsedJob DEF FenceInv, Lapse
  <2>3. CASE SweepWake(r) \/ SweepCancel(r)
    BY <2>3, WokenJob DEF FenceInv, SweepWake, SweepCancel
  <2> QED BY <2>1, <2>2, <2>3
<1>2. UNCHANGED <<core, hold, acked, drive, refusals, faults>>
  BY DEF ReclaimExpired, RequestCancel, Lapse, SweepWake, SweepCancel, gateway
<1>3. due' \subseteq due
  BY DEF ReclaimExpired, RequestCancel, Lapse, SweepWake, SweepCancel
<1> QED BY <1>1, <1>2, <1>3, JobStep DEF FenceInv, RestInv

LEMMA CapScanFence ==
    ASSUME FenceInv, ScanWakes \/ \E t \in Tenants : CapSync(t)
    PROVE  FenceInv'
<1>1. JobInv' /\ JobKeeps
  BY JobStays DEF FenceInv, ScanWakes, CapSync
<1>2. UNCHANGED <<core, hold, acked, drive, refusals, faults>>
  BY DEF ScanWakes, CapSync, gateway
<1>3. due' \subseteq Runs
  BY DEF ScanWakes, CapSync, FenceInv, RestInv
<1> QED BY <1>1, <1>2, <1>3, JobStep DEF FenceInv, RestInv

\* A deadline passes or a signal arrives: only the wake of a thread moves.
LEMMA WakeFence ==
    ASSUME FenceInv, NEW r \in Runs, Elapse(r) \/ Signal(r)
    PROVE  FenceInv'
<1> DEFINE row == [thread[r] EXCEPT !.wake = "due"]
<1>1. /\ UNCHANGED <<job, program, log, hold, acked, drive, refusals, due, faults>>
      /\ thread' = [thread EXCEPT ![r] = row]
      /\ thread[r].wake = "armed" \/ thread[r].status = "suspended"
  BY DEF Elapse, Signal, gateway
<1>2. JobInv' /\ JobKeeps /\ GateInv' /\ RestInv' /\ DriveInv'
  BY <1>1, JobStays, GateStays, DriveStays DEF FenceInv, RestInv
<1>3. thread[r] # NoThread /\ thread[r] \in ThreadRow
  BY <1>1 DEF NoThread, FenceInv, CoreInv
<1>4. /\ row \in ThreadRow /\ row.token = thread[r].token
      /\ row.status = thread[r].status /\ row.cause = thread[r].cause
  BY <1>3 DEF ThreadRow
<1> HIDE DEF row
<1>5. job[r].state # "absent" /\ log' = [log EXCEPT ![r] = log[r]]
  BY <1>1, <1>3 DEF FenceInv, CoreInv
<1>6. CoreInv'
  BY <1>1, <1>2, <1>4, <1>5, CoreMoves DEF FenceInv, CoreInv
<1>7. \A q \in Runs : thread'[q].token = thread[q].token
  BY <1>1, <1>4 DEF FenceInv, CoreInv
<1>8. MirrorInv'
  BY <1>1, <1>7, MirrorStays DEF FenceInv
<1> QED BY <1>2, <1>6, <1>8 DEF FenceInv

LEMMA SettleHoldFence ==
    ASSUME FenceInv, NEW r \in Runs, SettleHold(r)
    PROVE  FenceInv'
<1>1. UNCHANGED <<job, program, core, acked, drive, refusals, due, faults>>
  BY DEF SettleHold
<1>2. JobInv' /\ JobKeeps /\ RestInv' /\ DriveInv' /\ CoreInv'
  BY <1>1, JobStays, DriveStays, CoreStays DEF FenceInv, RestInv
<1>3. MirrorInv'
  BY <1>1, MirrorStays DEF FenceInv, core
<1>4. PICK i \in Positions(r) : /\ hold[r][i] = "active"
                                /\ hold' = [hold EXCEPT ![r][i] = "settled"]
  BY DEF SettleHold
<1>5. GateInv'
  <2>1. CASE job[r].state # "absent"
    BY <1>1, <1>4, <2>1, HoldGate DEF FenceInv
  <2>2. CASE job[r].state = "absent"
    <3>1. /\ \A q \in Runs \ {r} : hold'[q] = hold[q]
          /\ hold' = [q \in Runs |-> hold'[q]]
      BY <1>4 DEF FenceInv, GateInv
    <3> QED BY <1>1, <2>2, <3>1 DEF FenceInv, GateInv, Positions
  <2> QED BY <2>1, <2>2
<1> QED BY <1>2, <1>3, <1>5 DEF FenceInv

LEMMA FenceInit == Init => FenceInv
<1> SUFFICES ASSUME Init PROVE FenceInv
  OBVIOUS
<1>1. JobInv
  BY DEF Init, JobInv, JobRow
<1>2. NoThread \in ThreadRow /\ NoThread.cause = "none" /\ NoThread.status = "absent"
  BY DEF NoThread, ThreadRow
<1>3. CoreInv
  <2>1. /\ program \in [Runs -> Program] /\ \A r \in Runs : program[r].calls = 0
    BY DEF Init, Program
  <2>2. /\ thread \in [Runs -> ThreadRow] /\ log \in [Runs -> Seq(Kinds)]
        /\ \A r \in Runs : thread[r] = NoThread /\ log[r] = <<>>
    BY <1>2 DEF Init
  <2>3. \A r \in Runs : Once(log[r], program[r]) /\ HasLast(log[r])
    BY <2>1, <2>2, OnceEmpty, LastEmpty
  <2> QED BY <1>2, <2>1, <2>2, <2>3 DEF CoreInv
<1>4. GateInv
  BY DEF Init, GateInv
<1>5. DriveInv /\ MirrorInv
  BY IdleFits DEF Init, DriveInv, MirrorInv
<1>6. RestInv
  BY ManagedAssumption DEF Init, RestInv
<1> QED BY <1>1, <1>3, <1>4, <1>5, <1>6 DEF FenceInv

LEMMA FenceStep == FenceInv /\ [Next]_vars => FenceInv'
<1> SUFFICES ASSUME FenceInv, [Next]_vars PROVE FenceInv'
  OBVIOUS
<1>1. CASE UNCHANGED vars
  BY <1>1, JobStays, JobStep
     DEF vars, core, gateway, FenceInv, RestInv
<1>2. ASSUME NEW r \in Runs,
             \/ Enqueue(r) \/ ReclaimExpired(r) \/ RequestCancel(r) \/ Lapse(r)
             \/ SweepWake(r) \/ SweepCancel(r) \/ Elapse(r) \/ Signal(r)
             \/ SettleHold(r)
      PROVE  FenceInv'
  BY <1>2, EnqueueFence, JobFence, WakeFence, SettleHoldFence
<1>3. ASSUME NEW r \in Runs, NEW w \in Slots, Claim(w, r) PROVE FenceInv'
  BY <1>3, ClaimFence
<1>4. ASSUME NEW w \in Slots, Step(w) PROVE FenceInv'
  BY <1>4, AdoptFence, OpenInputFence, ReDeriveFence, CheckCancelFence,
     DisarmFence, ParkFence, AdoptResolveFence, AdoptQueuedFence,
     AdoptMovedFence, ObservedFence, DispatchFence, CommitCallFence, WaitFence,
     CommitArtifactFence, CommitTerminalFence, PollFence, SettleFence,
     AcknowledgeFence
     DEF Step
<1>5. ASSUME NEW w \in Slots, NEW e \in {"over_cap", "not_entitled"}, Refuse(w, e)
      PROVE  FenceInv'
  BY <1>5, RefuseFence
<1>6. ASSUME NEW w \in Slots,
             Heartbeat(w) \/ HeartbeatError(w) \/ Die(w) \/ Stall(w)
      PROVE  FenceInv'
  BY <1>6, HeartbeatFence, DieFence, StallFence
<1>7. CASE ScanWakes \/ \E t \in Tenants : CapSync(t)
  BY <1>7, CapScanFence
<1> QED BY <1>1, <1>2, <1>3, <1>4, <1>5, <1>6, <1>7 DEF Next

THEOREM FenceInvariant == Spec => []FenceInv
BY FenceInit, FenceStep, PTL DEF Spec

-----------------------------------------------------------------------------
(* The tenants' slots.                                                      *)

\* The runs of tenant t that the job rows jb hold running.
RunningIn(jb, t) == {r \in Runs : TenantOf[r] = t /\ jb[r].state = "running"}

SlotsFit(jb, sl) ==
    /\ sl \in [Tenants -> [running : Nat, cap : Caps]]
    /\ \A t \in Tenants : /\ IsFiniteSet(RunningIn(jb, t))
                          /\ sl[t].running = Cardinality(RunningIn(jb, t))

SlotInv == SlotsFit(job, slot)

\* No run starts or stops running.
LEMMA SlotStays ==
    ASSUME SlotInv, slot' \in [Tenants -> [running : Nat, cap : Caps]],
           \A t \in Tenants : slot'[t].running = slot[t].running,
           \A r \in Runs : job'[r].state = "running" <=> job[r].state = "running"
    PROVE  SlotInv'
<1>1. \A t \in Tenants : RunningIn(job', t) = RunningIn(job, t)
  BY DEF RunningIn
<1> QED BY <1>1 DEF SlotInv, SlotsFit

\* A run starts running in the transaction that takes its tenant's slot.
LEMMA SlotTaken ==
    ASSUME JobInv, SlotInv, NEW w \in Slots, NEW r \in Runs, Claim(w, r)
    PROVE  SlotInv'
<1> DEFINE t == TenantOf[r]
<1>1. t \in Tenants /\ job[r].state = "queued"
  BY ManagedAssumption DEF Claim
<1>2. /\ job'[r].state = "running"
      /\ \A q \in Runs \ {r} : job'[q].state = job[q].state
  BY DEF Claim, JobInv, JobRow
<1>3. RunningIn(job', t) = RunningIn(job, t) \cup {r} /\ r \notin RunningIn(job, t)
  BY <1>1, <1>2 DEF RunningIn
<1>4. \A u \in Tenants \ {t} : RunningIn(job', u) = RunningIn(job, u)
  BY <1>1, <1>2 DEF RunningIn
<1>5. /\ IsFiniteSet(RunningIn(job', t))
      /\ Cardinality(RunningIn(job', t)) = Cardinality(RunningIn(job, t)) + 1
  BY <1>1, <1>3, FS_AddElement DEF SlotInv, SlotsFit
<1>6. slot \in [Tenants -> [running : Nat, cap : Caps]]
  BY DEF SlotInv, SlotsFit
<1>7. /\ slot' \in [Tenants -> [running : Nat, cap : Caps]]
      /\ slot'[t].running = slot[t].running + 1
      /\ \A u \in Tenants \ {t} : slot'[u] = slot[u]
  <2> DEFINE n == slot[t].running + 1
  <2> DEFINE row == [slot[t] EXCEPT !.running = n]
  <2>1. slot' = [slot EXCEPT ![t] = row]
    BY DEF Claim
  <2>2. n \in Nat
    BY <1>1, <1>6
  <2> HIDE DEF n
  <2>3. row \in [running : Nat, cap : Caps] /\ row.running = n
    BY <1>1, <1>6, <2>2
  <2> HIDE DEF row
  <2> QED BY <1>1, <1>6, <2>1, <2>3 DEF n
<1> HIDE DEF t
<1> QED BY <1>1, <1>4, <1>5, <1>7 DEF SlotInv, SlotsFit

\* A run stops running in the transaction that gives its tenant's slot back.
LEMMA SlotGiven ==
    ASSUME SlotInv, NEW r \in Runs, job[r].state = "running",
           job'[r].state # "running",
           \A q \in Runs \ {r} : job'[q] = job[q], ReleaseSlot(TenantOf[r])
    PROVE  SlotInv'
<1> DEFINE t == TenantOf[r]
<1>1. t \in Tenants
  BY ManagedAssumption
<1>2. RunningIn(job', t) = RunningIn(job, t) \ {r} /\ r \in RunningIn(job, t)
  BY DEF RunningIn
<1>3. \A u \in Tenants \ {t} : RunningIn(job', u) = RunningIn(job, u)
  BY DEF RunningIn
<1>4. /\ IsFiniteSet(RunningIn(job, t))
      /\ slot[t].running = Cardinality(RunningIn(job, t))
      /\ slot \in [Tenants -> [running : Nat, cap : Caps]]
  BY <1>1 DEF SlotInv, SlotsFit
<1>5. /\ IsFiniteSet(RunningIn(job', t))
      /\ Cardinality(RunningIn(job', t)) = Cardinality(RunningIn(job, t)) - 1
      /\ Cardinality(RunningIn(job', t)) \in Nat
  BY <1>2, <1>4, FS_RemoveElement, FS_CardinalityType
<1>6. /\ slot' \in [Tenants -> [running : Nat, cap : Caps]]
      /\ slot'[t].running = slot[t].running - 1
      /\ \A u \in Tenants \ {t} : slot'[u] = slot[u]
  <2> DEFINE n == slot[t].running - Min(1, slot[t].running)
  <2> DEFINE row == [slot[t] EXCEPT !.running = n]
  <2>1. slot' = [slot EXCEPT ![t] = row]
    BY DEF ReleaseSlot
  <2>2. slot[t].running \in Nat /\ slot[t].running - 1 \in Nat
    BY <1>1, <1>4, <1>5
  <2>3. n \in Nat /\ n = slot[t].running - 1
    BY <2>2 DEF Min
  <2> HIDE DEF n
  <2>4. row \in [running : Nat, cap : Caps] /\ row.running = n
    BY <1>1, <1>4, <2>3
  <2> HIDE DEF row
  <2> QED BY <1>1, <1>4, <2>1, <2>3, <2>4
<1> HIDE DEF t
<1> QED BY <1>1, <1>3, <1>4, <1>5, <1>6 DEF SlotInv, SlotsFit

LEMMA SlotLeft ==
    ASSUME JobInv, SlotInv, NEW w \in Slots, NEW r \in Runs,
           NEW s \in {"suspended"} \cup JobTerminal, LeaveRunning(w, r, s)
    PROVE  SlotInv'
<1>1. CASE HoldsLease(w, r)
  <2>1. /\ job[r].state = "running" /\ job'[r].state = s
        /\ \A q \in Runs \ {r} : job'[q] = job[q]
    BY <1>1 DEF LeaveRunning, HoldsLease, JobInv, JobRow
  <2>2. ReleaseSlot(TenantOf[r])
    BY <1>1 DEF LeaveRunning
  <2> QED BY <2>1, <2>2, SlotGiven DEF JobTerminal
<1>2. CASE ~HoldsLease(w, r)
  BY <1>2, SlotStays DEF LeaveRunning, SlotInv, SlotsFit
<1> QED BY <1>1, <1>2

LEMMA SlotReclaimed ==
    ASSUME JobInv, SlotInv, NEW r \in Runs, ReclaimExpired(r)
    PROVE  SlotInv'
<1>1. /\ job[r].state = "running" /\ job'[r].state = "queued"
      /\ \A q \in Runs \ {r} : job'[q] = job[q]
  BY DEF ReclaimExpired, JobInv, JobRow
<1>2. ReleaseSlot(TenantOf[r])
  BY DEF ReclaimExpired
<1> QED BY <1>1, <1>2, SlotGiven

\* Every other step keeps the states of the jobs that run.
LEMMA SlotKept ==
    ASSUME JobInv, SlotInv, slot' = slot,
           \A r \in Runs : job'[r].state = "running" <=> job[r].state = "running"
    PROVE  SlotInv'
BY SlotStays DEF SlotInv, SlotsFit

LEMMA SlotStep == FenceInv /\ SlotInv /\ [Next]_vars => SlotInv'
<1> SUFFICES ASSUME FenceInv, SlotInv, [Next]_vars PROVE SlotInv'
  OBVIOUS
<1> USE DEF FenceInv
<1>1. CASE UNCHANGED vars
  BY <1>1, SlotKept DEF vars
<1>2. ASSUME NEW r \in Runs,
             \/ Enqueue(r) \/ RequestCancel(r) \/ Lapse(r)
             \/ SweepWake(r) \/ SweepCancel(r) \/ Elapse(r) \/ Signal(r)
             \/ SettleHold(r)
      PROVE  SlotInv'
  <2>1. slot' = slot
    BY <1>2 DEF Enqueue, RequestCancel, Lapse, SweepWake, SweepCancel, Elapse,
                Signal, SettleHold
  <2>2. \/ job' = job
        \/ /\ job[r].state \in {"absent", "suspended"}
           /\ job' = [job EXCEPT ![r].state = "queued"]
        \/ job' = [job EXCEPT ![r].cancel = TRUE]
        \/ job' = [job EXCEPT ![r].lapsed = TRUE]
    BY <1>2 DEF Enqueue, RequestCancel, Lapse, SweepWake, SweepCancel, Elapse,
                Signal, SettleHold, Woken
  <2>3. \A q \in Runs : job'[q].state = "running" <=> job[q].state = "running"
    BY <2>2 DEF JobInv, JobRow
  <2> QED BY <2>1, <2>3, SlotKept
<1>3. ASSUME NEW r \in Runs, ReclaimExpired(r) PROVE SlotInv'
  BY <1>3, SlotReclaimed
<1>4. ASSUME NEW r \in Runs, NEW w \in Slots, Claim(w, r) PROVE SlotInv'
  BY <1>4, SlotTaken
<1>5. ASSUME NEW w \in Slots, Step(w) PROVE SlotInv'
  <2>1. CASE AdoptNotReady(w) \/ Park(w)
    <3>1. drive[w].run \in Runs
      BY <2>1, DriveRun DEF AdoptNotReady, Park
    <3> QED BY <2>1, <3>1, SlotLeft DEF AdoptNotReady, Park
  <2>2. CASE Settle(w)
    <3>1. drive[w].run \in Runs /\ drive[w].terminal \in JobTerminal
      BY <2>2, RunFacts DEF Settle, Fits, Leaving, DriveRow
    <3> QED BY <2>2, <3>1, SlotLeft DEF Settle
  <2>3. CASE ~(AdoptNotReady(w) \/ Park(w) \/ Settle(w))
    <3>1. job' = job /\ slot' = slot
      BY <1>5, <2>3
         DEF Step, Adopt, OpenInput, ReDerive, CheckCancel, Disarm, AdoptResolve,
             AdoptQueued, AdoptMoved, Observed, Dispatch, DropCall, CommitCall,
             DisposeOverCap, DurableWait, CommitArtifact, Complete, FailRun, Poll,
             Acknowledge
    <3> QED BY <3>1, SlotKept
  <2> QED BY <2>1, <2>2, <2>3
<1>6. ASSUME NEW w \in Slots,
             \/ Refuse(w, "over_cap") \/ Refuse(w, "not_entitled")
             \/ Heartbeat(w) \/ HeartbeatError(w) \/ Die(w) \/ Stall(w)
      PROVE  SlotInv'
  <2>1. slot' = slot
    BY <1>6 DEF Refuse, Heartbeat, HeartbeatError, Die, Stall
  <2>2. \/ job' = job
        \/ \E b \in BOOLEAN : job' = [job EXCEPT ![drive[w].run].lapsed = b]
    BY <1>6 DEF Refuse, Heartbeat, HeartbeatError, Die, Stall
  <2>3. ASSUME NEW r, NEW b \in BOOLEAN, job' = [job EXCEPT ![r].lapsed = b],
               NEW q \in Runs
        PROVE  job'[q].state = job[q].state
    BY <2>3 DEF JobInv, JobRow
  <2>4. \A q \in Runs : job'[q].state = "running" <=> job[q].state = "running"
    BY <2>2, <2>3
  <2> QED BY <2>1, <2>4, SlotKept
<1>7. ASSUME NEW t \in Tenants, CapSync(t) PROVE SlotInv'
  <2>1. PICK c \in Caps : slot' = [slot EXCEPT ![t].cap = c]
    BY <1>7 DEF CapSync
  <2>2. slot \in [Tenants -> [running : Nat, cap : Caps]]
    BY DEF SlotInv, SlotsFit
  <2>3. /\ slot' \in [Tenants -> [running : Nat, cap : Caps]]
        /\ \A u \in Tenants : slot'[u].running = slot[u].running
    BY <2>1, <2>2
  <2> QED BY <1>7, <2>3, SlotStays DEF CapSync
<1>8. CASE ScanWakes
  BY <1>8, SlotKept DEF ScanWakes
<1> QED BY <1>1, <1>2, <1>3, <1>4, <1>5, <1>6, <1>7, <1>8 DEF Next

LEMMA SlotInit == Init => SlotInv
<1> SUFFICES ASSUME Init PROVE SlotInv
  OBVIOUS
<1>1. \A t : RunningIn(job, t) = {}
  BY DEF Init, RunningIn
<1>2. slot \in [Tenants -> [running : Nat, cap : Caps]]
  BY ManagedAssumption DEF Init
<1> QED BY <1>1, <1>2, FS_EmptySet DEF Init, SlotInv, SlotsFit

\* Every row, record and drive keeps its shape, and a job has a claim token
\* exactly while it is running, whichever drives outlive their leases.
THEOREM ManagedTypeCorrect == Spec => []TypeOK
<1>1. FenceInv /\ SlotInv => TypeOK
  <2> SUFFICES ASSUME FenceInv, SlotInv PROVE TypeOK
    OBVIOUS
  <2>1. \A w \in Slots : drive[w].pc = "idle" <=> drive[w].run = "none"
    BY DEF FenceInv, DriveInv, Fits
  <2>2. ASSUME NEW r \in Runs
        PROVE  /\ thread[r] \in ThreadRow
               /\ thread[r].cause # "none" <=> thread[r].status = "suspended"
               /\ log[r] \in Seq(Kinds)
               /\ job[r].state # "absent" =>
                     hold[r] \in [Positions(r) -> {"none", "active", "settled"}]
               /\ acked[r] \subseteq Positions(r)
    BY DEF FenceInv, CoreInv, GateInv
  <2>3. slot \in [Tenants -> [running : Nat, cap : Caps]]
    BY DEF SlotInv, SlotsFit
  <2> QED BY <2>1, <2>2, <2>3
          DEF TypeOK, FenceInv, JobInv, JobRow, RestInv, ThreadRow, Kinds
<1> QED BY <1>1, FenceInit, FenceStep, SlotInit, SlotStep, PTL DEF Spec

\* A tenant's running count is the number of its runs that are running: no
\* crash, reclaim, lost fence or refused transition leaks a slot or frees it
\* twice (leave_running, reclaim_expired, claim_in_txn).
THEOREM SlotsMatchRunningHolds == Spec => []SlotsMatchRunning
<1>1. SlotInv => SlotsMatchRunning
  BY DEF SlotInv, SlotsFit, SlotsMatchRunning, RunningIn, Running
<1> QED BY <1>1, FenceInit, FenceStep, SlotInit, SlotStep, PTL DEF Spec

\* No reclaim, resume or rival repeats what the log holds, even of a drive
\* that outlives its lease (re_derive under the thread fence).
THEOREM NothingRepeatedHolds == Spec => []NothingRepeated
<1>1. FenceInv => NothingRepeated
  BY DEF FenceInv, CoreInv, Once, NothingRepeated
<1> QED BY <1>1, FenceInvariant, PTL

\* The response store hears of a key only when the run is over (the
\* acknowledgement fenced behind the run's terminal commit).
THEOREM AckAfterSettleHolds == Spec => []AckAfterSettle
<1>1. FenceInv => AckAfterSettle
  BY DEF FenceInv, GateInv, AckAfterSettle
<1> QED BY <1>1, FenceInvariant, PTL

-----------------------------------------------------------------------------
(* The leases.  While no drive outlives its lease before its heartbeat      *)
(* starts, the thread it adopted is its own until it walks, and the planes  *)
(* end a run alike.                                                         *)

Lease(w, r, jb) == jb[r].state = "running" /\ jb[r].token = w

\* What a drive d of slot w may rely on, of the job rows jb and threads th:
\* its lease until it walks, the thread as long as it has the lease, the row
\* it read, a running thread as long as it has its token, a terminal its
\* thread agrees with; and it is about to acknowledge if its job is over.
Held(w, d, jb, th) ==
    LET r == d.run
        own == th[r].token = w
    IN  d.pc # "idle" =>
        /\ d.pc \in Early => Lease(w, r, jb) /\ ~jb[r].lapsed /\ ~d.beats
        /\ d.pc # "ensure" /\ Lease(w, r, jb) => own
        /\ d.pc \in Early \ {"ensure"} => /\ d.seen.status = th[r].status
                                          /\ d.seen.cause = th[r].cause
        /\ d.pc = "disarm" => jb[r].cancel
        /\ d.pc \in Walking /\ own => th[r].status = "running"
        /\ d.terminal = "done" => th[r].status = "completed"
        /\ d.terminal = "cancelled" /\ Lease(w, r, jb) /\ th[r].status = "completed"
              => jb[r].cancel
        /\ jb[r].state \in JobTerminal /\ own => d.pc = "ack"

Agree(j, t) ==
    /\ j.state = "done" => t.status = "completed"
    /\ j.state = "cancelled" /\ t.status = "completed" => j.cancel

PlanesInv ==
    /\ \A w \in Slots : Held(w, drive[w], job, thread)
    /\ \A r \in Runs : Agree(job[r], thread[r])

LEMMA IdleHeld == ASSUME NEW w, NEW jb, NEW th PROVE Held(w, Idle, jb, th)
BY DEF Held, Idle

\* Steps that move no thread: slot w alone may gain a lease, a drive that has
\* not walked keeps its own, and only the holder of a thread ends its job.
LEMMA HeldJob ==
    ASSUME FenceInv, PlanesInv, JobKeeps, NEW w,
           \A r \in Runs : /\ thread'[r].status = thread[r].status
                           /\ thread'[r].cause = thread[r].cause
                           /\ thread'[r].token = thread[r].token,
           \A v \in Slots \ {w} : \A r \in Runs :
              Lease(v, r, job') => Lease(v, r, job),
           \A v \in Slots \ {w} : drive[v].pc \in Early =>
              Lease(v, drive[v].run, job') /\ ~job'[drive[v].run].lapsed,
           \A r \in Runs : job'[r].state \in JobTerminal =>
              job[r].state \in JobTerminal \/ thread[r].token = w
    PROVE  \A v \in Slots \ {w} : Held(v, drive[v], job', thread')
<1> SUFFICES ASSUME NEW v \in Slots \ {w}, drive[v].pc # "idle"
             PROVE  Held(v, drive[v], job', thread')
  BY DEF Held
<1> DEFINE r == drive[v].run
<1>1. r \in Runs /\ Held(v, drive[v], job, thread)
  BY RunFacts DEF PlanesInv
<1>2. /\ thread'[r].status = thread[r].status /\ thread'[r].cause = thread[r].cause
      /\ thread'[r].token = thread[r].token
  BY <1>1
<1>3. /\ Lease(v, r, job') => Lease(v, r, job)
      /\ drive[v].pc \in Early => Lease(v, r, job') /\ ~job'[r].lapsed
      /\ job[r].cancel => job'[r].cancel
      /\ job'[r].state \in JobTerminal =>
            job[r].state \in JobTerminal \/ thread[r].token # v
  BY <1>1 DEF JobKeeps
<1> HIDE DEF r
<1> QED BY <1>1, <1>2, <1>3 DEF Held, r

\* Steps that move no job: a thread that moves goes to slot w, from its own
\* token or under its lease, is not left completed, and its job is not over.
LEMMA HeldThread ==
    ASSUME FenceInv, PlanesInv, NEW w \in Slots, job' = job,
           \A r \in Runs :
              \/ /\ thread'[r].status = thread[r].status
                 /\ thread'[r].cause = thread[r].cause
                 /\ thread'[r].token = thread[r].token
              \/ /\ thread'[r].token = w
                 /\ thread[r].token = w \/ Lease(w, r, job)
                 /\ thread[r].status = "completed" => thread'[r].status = "completed"
                 /\ job[r].state \notin JobTerminal
    PROVE  /\ \A v \in Slots \ {w} : Held(v, drive[v], job', thread')
           /\ \A r \in Runs : Agree(job'[r], thread'[r])
<1>1. ASSUME NEW v \in Slots \ {w}, drive[v].pc # "idle"
      PROVE  Held(v, drive[v], job', thread')
  <2> DEFINE r == drive[v].run
  <2>1. r \in Runs /\ Held(v, drive[v], job, thread)
    BY <1>1, RunFacts DEF PlanesInv
  <2>2. CASE /\ thread'[r].status = thread[r].status
             /\ thread'[r].cause = thread[r].cause
             /\ thread'[r].token = thread[r].token
    <3> HIDE DEF r
    <3> QED BY <1>1, <2>1, <2>2 DEF Held, r
  <2>3. CASE /\ thread'[r].token = w
             /\ thread[r].token = w \/ Lease(w, r, job)
             /\ thread[r].status = "completed" => thread'[r].status = "completed"
    <3>1. Lease(v, r, job) => drive[v].pc = "ensure"
      BY <1>1, <2>1, <2>3 DEF Held, Lease
    <3>2. drive[v].pc = "ensure" => drive[v].terminal = "none"
      BY <1>1, RunFacts DEF Fits, Leaving
    <3> HIDE DEF r
    <3> QED BY <1>1, <2>1, <2>3, <3>1, <3>2 DEF Held, Early, r
  <2> QED BY <2>1, <2>2, <2>3
<1>2. ASSUME NEW r \in Runs PROVE Agree(job'[r], thread'[r])
  <2>1. Agree(job[r], thread[r])
    BY DEF PlanesInv
  <2> QED BY <2>1 DEF Agree, JobTerminal
<1>3. \A v \in Slots \ {w} : Held(v, drive[v], job', thread')
  BY <1>1 DEF Held
<1> QED BY <1>2, <1>3

\* A step of no drive: the job plane's own, or a stall.
LEMMA PlanesJob ==
    ASSUME FenceInv, PlanesInv, JobKeeps, UNCHANGED <<thread, drive>>,
           \A v \in Slots : \A r \in Runs : Lease(v, r, job') => Lease(v, r, job),
           \A v \in Slots : drive[v].pc \in Early =>
              Lease(v, drive[v].run, job') /\ ~job'[drive[v].run].lapsed,
           \A r \in Runs : job'[r].state \in JobTerminal =>
              job[r].state \in JobTerminal
    PROVE  PlanesInv'
<1>1. "none" \notin Slots
  BY ManagedAssumption
<1>2. \A v \in Slots : Held(v, drive[v], job', thread')
  BY <1>1, HeldJob
<1>3. ASSUME NEW r \in Runs PROVE Agree(job'[r], thread'[r])
  BY DEF PlanesInv, Agree, JobKeeps, JobTerminal
<1> QED BY <1>2, <1>3 DEF PlanesInv

LEMMA EarlyLease ==
    ASSUME FenceInv, PlanesInv, NEW v \in Slots, drive[v].pc \in Early
    PROVE  /\ drive[v].run \in Runs /\ Lease(v, drive[v].run, job)
           /\ ~job[drive[v].run].lapsed /\ ~drive[v].beats
           /\ drive[v].terminal = "none" /\ drive[v].pc # "idle"
<1>1. drive[v].pc # "idle" /\ drive[v].pc \notin Leaving
  BY DEF Early, Leaving
<1> QED BY <1>1, RunFacts DEF PlanesInv, Held, Fits

LEMMA JobPlanes ==
    ASSUME FenceInv, PlanesInv, NEW r \in Runs,
           Enqueue(r) \/ ReclaimExpired(r) \/ RequestCancel(r) \/ SweepWake(r)
              \/ SweepCancel(r) \/ Lapse(r)
    PROVE  PlanesInv'
<1>1. UNCHANGED <<thread, drive>>
  BY DEF Enqueue, ReclaimExpired, RequestCancel, SweepWake, SweepCancel, Lapse, core
<1>2. CASE Enqueue(r)
  <2>1. /\ job[r].state = "absent" /\ job'[r].state = "queued"
        /\ job'[r].cancel = job[r].cancel
        /\ \A q \in Runs \ {r} : job'[q] = job[q]
    BY <1>2 DEF Enqueue, FenceInv, JobInv, JobRow
  <2>2. \A v \in Slots : drive[v].pc # "idle" => drive[v].run \in Runs \ {r}
    BY <2>1, RunFacts
  <2>3. \A v \in Slots : Held(v, drive[v], job', thread')
    BY <1>1, <2>1, <2>2 DEF PlanesInv, Held, Lease
  <2>4. \A q \in Runs : Agree(job'[q], thread'[q])
    BY <1>1, <2>1 DEF PlanesInv, Agree
  <2> QED BY <1>1, <2>3, <2>4 DEF PlanesInv
<1>3. CASE ~Enqueue(r)
  <2>1. JobKeeps
    <3>1. CASE ReclaimExpired(r) \/ RequestCancel(r)
      BY <3>1, ReclaimJob, CancelJob DEF FenceInv
    <3>2. CASE Lapse(r)
      BY <3>2, LapsedJob DEF FenceInv, Lapse
    <3>3. CASE SweepWake(r) \/ SweepCancel(r)
      BY <3>3, WokenJob DEF FenceInv, SweepWake, SweepCancel
    <3> QED BY <1>3, <3>1, <3>2, <3>3
  <2>2. /\ \A q \in Runs \ {r} : job'[q] = job[q]
        /\ \/ job'[r] = job[r]
           \/ job'[r].state = "queued"
           \/ /\ job'[r].state = job[r].state /\ job'[r].token = job[r].token
              /\ job'[r].lapsed = job[r].lapsed
           \/ Lapse(r) /\ job'[r].state = "running" /\ job'[r].token = job[r].token
    BY <1>3 DEF ReclaimExpired, RequestCancel, SweepWake, SweepCancel, Woken, Lapse,
                FenceInv, JobInv, JobRow
  <2>3. ASSUME NEW v \in Slots, drive[v].pc \in Early, drive[v].run = r
        PROVE  Lease(v, r, job') /\ ~job'[r].lapsed
    <3>1. Lease(v, r, job) /\ ~job[r].lapsed
      BY <2>3, EarlyLease
    <3>2. ~Lapse(r)
      BY <2>3, <3>1 DEF Lapse, Driven, HoldsLease, Lease
    <3>3. ~ReclaimExpired(r) /\ ~SweepCancel(r)
      BY <3>1 DEF ReclaimExpired, SweepCancel, Lease
    <3>4. /\ job'[r].state = job[r].state /\ job'[r].token = job[r].token
          /\ job'[r].lapsed = job[r].lapsed
      BY <1>3, <3>1, <3>2, <3>3
         DEF RequestCancel, SweepWake, Woken, Lease, FenceInv, JobInv, JobRow
    <3> QED BY <3>1, <3>4 DEF Lease
  <2>4. ASSUME NEW v \in Slots, drive[v].pc \in Early
        PROVE  Lease(v, drive[v].run, job') /\ ~job'[drive[v].run].lapsed
    <3>1. /\ drive[v].run \in Runs /\ Lease(v, drive[v].run, job)
          /\ ~job[drive[v].run].lapsed
      BY <2>4, EarlyLease
    <3> QED BY <2>2, <2>3, <2>4, <3>1 DEF Lease
  <2>5. \A v \in Slots : \A q \in Runs : Lease(v, q, job') => Lease(v, q, job)
    BY <2>2 DEF Lease, Lapse
  <2>6. \A q \in Runs : job'[q].state \in JobTerminal => job[q].state \in JobTerminal
    BY <2>2 DEF JobTerminal, Lapse
  <2> QED BY <1>1, <2>1, <2>4, <2>5, <2>6, PlanesJob
<1> QED BY <1>2, <1>3

\* A stall hits a drive under its heartbeat or in its teardown.
LEMMA StallPlanes ==
    ASSUME FenceInv, PlanesInv, ~SlowAdoption, NEW w \in Slots, Stall(w)
    PROVE  PlanesInv'
<1> DEFINE r == drive[w].run
<1>1. r \in Runs /\ drive[w].pc # "idle" /\ JobKeeps
  BY RunFacts, StallJob DEF Stall, FenceInv
<1>2. UNCHANGED <<thread, drive>> /\ Lease(w, r, job)
  BY DEF Stall, core, HoldsLease, Lease
<1>3. /\ \A q \in Runs \ {r} : job'[q] = job[q]
      /\ job'[r].state = job[r].state /\ job'[r].token = job[r].token
  BY <1>1 DEF Stall, FenceInv, JobInv, JobRow
<1>4. ASSUME NEW v \in Slots, drive[v].pc \in Early
      PROVE  Lease(v, drive[v].run, job') /\ ~job'[drive[v].run].lapsed
  <2>1. /\ drive[v].run \in Runs /\ Lease(v, drive[v].run, job)
        /\ ~job[drive[v].run].lapsed /\ ~drive[v].beats /\ drive[v].terminal = "none"
    BY <1>4, EarlyLease
  <2>2. v # w
    BY <2>1 DEF Stall
  <2>3. drive[v].run # r
    BY <1>2, <2>1, <2>2 DEF Lease
  <2> QED BY <1>3, <2>1, <2>3 DEF Lease
<1>5. \A v \in Slots : \A q \in Runs : Lease(v, q, job') => Lease(v, q, job)
  BY <1>3 DEF Lease
<1>6. \A q \in Runs : job'[q].state \in JobTerminal => job[q].state \in JobTerminal
  BY <1>3
<1> QED BY <1>1, <1>2, <1>4, <1>5, <1>6, PlanesJob

\* A step of the drive in slot w that moves at most its thread.
LEMMA PlanesDrive ==
    ASSUME FenceInv, PlanesInv, NEW w \in Slots, job' = job,
           \A v \in Slots \ {w} : drive'[v] = drive[v],
           \A r \in Runs :
              \/ /\ thread'[r].status = thread[r].status
                 /\ thread'[r].cause = thread[r].cause
                 /\ thread'[r].token = thread[r].token
              \/ /\ thread'[r].token = w
                 /\ thread[r].token = w \/ Lease(w, r, job)
                 /\ thread[r].status = "completed" => thread'[r].status = "completed"
                 /\ job[r].state \notin JobTerminal,
           Held(w, drive'[w], job, thread')
    PROVE  PlanesInv'
<1>1. /\ \A v \in Slots \ {w} : Held(v, drive[v], job', thread')
      /\ \A r \in Runs : Agree(job'[r], thread'[r])
  BY HeldThread
<1>2. Held(w, drive'[w], job', thread')
  OBVIOUS
<1> QED BY <1>1, <1>2 DEF PlanesInv

LEMMA GotoFields ==
    ASSUME FenceInv, NEW w \in Slots, NEW p, Goto(w, p)
    PROVE  /\ drive'[w].pc = p /\ drive'[w].run = drive[w].run
           /\ drive'[w].seen = drive[w].seen /\ drive'[w].beats = drive[w].beats
           /\ drive'[w].terminal = drive[w].terminal
           /\ \A v \in Slots \ {w} : drive'[v] = drive[v]
BY DEF Goto, FenceInv, DriveInv, DriveRow

LEMMA EndFields ==
    ASSUME FenceInv, NEW w \in Slots, End(w)
    PROVE  drive'[w] = Idle /\ \A v \in Slots \ {w} : drive'[v] = drive[v]
BY DEF End, FenceInv, DriveInv

LEMMA TeardownFields ==
    ASSUME FenceInv, NEW w \in Slots, NEW t, NEW k, Teardown(w, t, k)
    PROVE  /\ drive'[w].pc = "poll" /\ drive'[w].run = drive[w].run
           /\ drive'[w].terminal = t
           /\ \A v \in Slots \ {w} : drive'[v] = drive[v]
BY DEF Teardown, Idle, FenceInv, DriveInv, DriveRow

\* A step of a drive that moves neither plane.
LEMMA PlanesQuiet ==
    ASSUME FenceInv, PlanesInv, NEW w \in Slots, UNCHANGED <<job, thread>>,
           \A v \in Slots \ {w} : drive'[v] = drive[v],
           Held(w, drive'[w], job, thread)
    PROVE  PlanesInv'
BY PlanesDrive

LEMMA EndPlanes ==
    ASSUME FenceInv, PlanesInv, NEW w \in Slots, UNCHANGED <<job, thread>>, End(w)
    PROVE  PlanesInv'
BY EndFields, IdleHeld, PlanesQuiet

\* A drive goes on: to an early step from a later early one, to a step of the
\* walk or of the teardown from one.
LEMMA GotoPlanes ==
    ASSUME FenceInv, PlanesInv, NEW w \in Slots, UNCHANGED <<job, thread>>,
           NEW p, Goto(w, p), drive[w].pc \notin {"idle", "ensure", "ack"},
           p # "idle" /\ p # "ensure",
           p \in Early => drive[w].pc \in Early,
           p \in Walking => drive[w].pc \in Walking,
           p = "disarm" => job[drive[w].run].cancel
    PROVE  PlanesInv'
<1>1. Held(w, drive[w], job, thread)
  BY DEF PlanesInv
<1>2. Held(w, drive'[w], job, thread)
  BY <1>1, GotoFields DEF Held
<1> QED BY <1>2, GotoFields, PlanesQuiet

\* The drive is torn down; what it says of its thread's end must be so.
LEMMA TeardownHeld ==
    ASSUME FenceInv, PlanesInv, NEW w \in Slots, NEW t, NEW k, Teardown(w, t, k),
           drive[w].pc \notin {"idle", "ensure", "ack"},
           NEW th, th[drive[w].run].token = thread[drive[w].run].token,
           t = "done" => th[drive[w].run].status = "completed",
           \/ t # "cancelled" \/ job[drive[w].run].cancel
           \/ ~Lease(w, drive[w].run, job)
           \/ th[drive[w].run].status # "completed"
    PROVE  Held(w, drive'[w], job, th)
<1>1. Held(w, drive[w], job, thread)
  BY DEF PlanesInv
<1> QED BY <1>1, TeardownFields DEF Held, Early, Walking

LEMMA TeardownPlanes ==
    ASSUME FenceInv, PlanesInv, NEW w \in Slots, UNCHANGED <<job, thread>>,
           NEW t, NEW k, Teardown(w, t, k),
           drive[w].pc \notin {"idle", "ensure", "ack"},
           t = "done" => thread[drive[w].run].status = "completed",
           \/ t # "cancelled" \/ job[drive[w].run].cancel
           \/ ~Lease(w, drive[w].run, job)
           \/ thread[drive[w].run].status # "completed"
    PROVE  PlanesInv'
BY TeardownHeld, TeardownFields, PlanesQuiet

LEMMA AdoptPlanes ==
    ASSUME FenceInv, PlanesInv, NEW w \in Slots, Adopt(w)
    PROVE  PlanesInv'
<1> DEFINE r == drive[w].run
<1> DEFINE row == IF thread[r].status = "absent"
                  THEN [NoThread EXCEPT !.status = "queued", !.token = w]
                  ELSE [thread[r] EXCEPT !.token = w]
<1>1. /\ drive[w].pc = "ensure" /\ job' = job /\ thread' = [thread EXCEPT ![r] = row]
      /\ drive' = [drive EXCEPT ![w].pc = "open", ![w].seen = row]
  BY DEF Adopt
<1>2. /\ r \in Runs /\ Lease(w, r, job) /\ ~job[r].lapsed /\ ~drive[w].beats
      /\ drive[w].terminal = "none"
  BY <1>1, EarlyLease DEF Early
<1>3. thread[r] \in ThreadRow /\ thread \in [Runs -> ThreadRow]
  BY <1>2 DEF FenceInv, CoreInv
<1>4. /\ row.token = w
      /\ thread[r].status = "completed" => row.status = "completed"
  BY <1>3 DEF ThreadRow, NoThread
<1> HIDE DEF row
<1>5. thread'[r] = row /\ \A q \in Runs \ {r} : thread'[q] = thread[q]
  BY <1>1, <1>2, <1>3
<1>6. /\ drive'[w].pc = "open" /\ drive'[w].run = r /\ drive'[w].seen = row
      /\ drive'[w].beats = drive[w].beats /\ drive'[w].terminal = drive[w].terminal
      /\ \A v \in Slots \ {w} : drive'[v] = drive[v]
  BY <1>1 DEF FenceInv, DriveInv, DriveRow
<1>7. job[r].state \notin JobTerminal
  BY <1>2 DEF Lease, JobTerminal
<1>8. Held(w, drive'[w], job, thread')
  BY <1>2, <1>4, <1>5, <1>6, <1>7 DEF Held, Early, Walking
<1>9. ASSUME NEW q \in Runs
      PROVE  \/ /\ thread'[q].status = thread[q].status
                /\ thread'[q].cause = thread[q].cause
                /\ thread'[q].token = thread[q].token
             \/ /\ thread'[q].token = w
                /\ thread[q].token = w \/ Lease(w, q, job)
                /\ thread[q].status = "completed" => thread'[q].status = "completed"
                /\ job[q].state \notin JobTerminal
  BY <1>2, <1>4, <1>5, <1>7
<1> QED BY <1>1, <1>6, <1>8, <1>9, PlanesDrive

\* The steps of an adoption that move neither the job nor the thread.
LEMMA EarlyPlanes ==
    ASSUME FenceInv, PlanesInv, NEW w \in Slots,
           OpenInput(w) \/ ReDerive(w) \/ CheckCancel(w)
    PROVE  PlanesInv'
<1>1. UNCHANGED <<job, thread>>
  BY DEF OpenInput, ReDerive, CheckCancel, core
<1>2. CASE OpenInput(w)
  <2>1. CASE End(w)
    BY <1>1, <2>1, EndPlanes
  <2>2. CASE Goto(w, "derive") /\ drive[w].pc = "open"
    BY <1>1, <2>2, GotoPlanes DEF Early, Walking
  <2> QED BY <1>2, <2>1, <2>2 DEF OpenInput
<1>3. CASE ReDerive(w)
  <2>1. /\ drive'[w].pc = "check" /\ drive'[w].run = drive[w].run
        /\ drive'[w].seen = drive[w].seen /\ drive'[w].beats = drive[w].beats
        /\ drive'[w].terminal = drive[w].terminal /\ drive[w].pc = "derive"
        /\ \A v \in Slots \ {w} : drive'[v] = drive[v]
    BY <1>3 DEF ReDerive, FenceInv, DriveInv, DriveRow
  <2>2. Held(w, drive[w], job, thread)
    BY DEF PlanesInv
  <2>3. Held(w, drive'[w], job, thread)
    BY <2>1, <2>2 DEF Held, Early, Walking
  <2> QED BY <1>1, <2>1, <2>3, PlanesQuiet
<1>4. CASE CheckCancel(w)
  <2>1. drive[w].pc = "check"
    BY <1>4 DEF CheckCancel
  <2>2. CASE Goto(w, "adopt")
    BY <1>1, <2>1, <2>2, GotoPlanes DEF Early, Walking
  <2>3. CASE Goto(w, "disarm") /\ job[drive[w].run].cancel
    BY <1>1, <2>1, <2>3, GotoPlanes DEF Early, Walking
  <2>4. CASE Teardown(w, "cancelled", drive[w].done) /\ job[drive[w].run].cancel
    BY <1>1, <2>1, <2>4, TeardownPlanes
  <2> QED BY <1>4, <2>2, <2>3, <2>4 DEF CheckCancel
<1> QED BY <1>2, <1>3, <1>4

\* The one thread a drive moves is its own, or of the run whose lease it has.
LEMMA PlanesOwn ==
    ASSUME FenceInv, PlanesInv, NEW w \in Slots, job' = job, NEW r \in Runs,
           NEW row \in ThreadRow, thread' = [thread EXCEPT ![r] = row],
           \A v \in Slots \ {w} : drive'[v] = drive[v],
           thread[r].token = w, row.token = w,
           thread[r].status = "completed" => row.status = "completed",
           job[r].state \notin JobTerminal,
           \A th : th[r] = row => Held(w, drive'[w], job, th)
    PROVE  PlanesInv'
<1>1. thread'[r] = row /\ \A q \in Runs \ {r} : thread'[q] = thread[q]
  BY DEF FenceInv, CoreInv
<1>2. ASSUME NEW q \in Runs
      PROVE  \/ /\ thread'[q].status = thread[q].status
                /\ thread'[q].cause = thread[q].cause
                /\ thread'[q].token = thread[q].token
             \/ /\ thread'[q].token = w
                /\ thread[q].token = w \/ Lease(w, q, job)
                /\ thread[q].status = "completed" => thread'[q].status = "completed"
                /\ job[q].state \notin JobTerminal
  BY <1>1
<1> QED BY <1>1, <1>2, PlanesDrive

\* What a drive in its walk that has its thread's token finds.
LEMMA WalkOwn ==
    ASSUME FenceInv, PlanesInv, NEW w \in Slots, drive[w].pc \in Walking
    PROVE  LET r == drive[w].run
           IN  /\ r \in Runs /\ thread[r] \in ThreadRow
               /\ drive[w].pc \notin {"idle", "ensure", "ack"} \cup Early
               /\ drive[w].terminal = "none"
               /\ thread[r].token = w => /\ thread[r].status = "running"
                                         /\ job[r].state \notin JobTerminal
               /\ Lease(w, r, job) => thread[r].token = w
<1>1. drive[w].pc \notin {"idle", "ensure", "ack"} \cup Early \cup Leaving
  BY DEF Early, Walking, Leaving
<1> QED BY <1>1, RunFacts DEF PlanesInv, Held, Fits

LEMMA DisarmPlanes ==
    ASSUME FenceInv, PlanesInv, NEW w \in Slots, Disarm(w)
    PROVE  PlanesInv'
<1> DEFINE r == drive[w].run
<1>1. drive[w].pc = "disarm" /\ job' = job /\ log' = log
  BY DEF Disarm
<1>2. CASE ~HoldsThread(w, r)
  BY <1>1, <1>2, EndPlanes DEF Disarm
<1>3. CASE HoldsThread(w, r)
  <2> DEFINE row == [thread[r] EXCEPT !.wake = "none"]
  <2>1. /\ r \in Runs /\ Lease(w, r, job) /\ thread[r] \in ThreadRow
        /\ job[r].cancel
    BY <1>1, EarlyLease DEF Early, FenceInv, CoreInv, PlanesInv, Held
  <2>2. /\ row \in ThreadRow /\ row.status = thread[r].status
        /\ row.token = thread[r].token /\ row.token = w
    BY <1>3, <2>1 DEF ThreadRow, HoldsThread
  <2>3. thread' = [thread EXCEPT ![r] = row] /\ Teardown(w, "cancelled", drive[w].done)
    BY <1>3 DEF Disarm
  <2> HIDE DEF row
  <2>4. ASSUME NEW th, th[r] = row PROVE Held(w, drive'[w], job, th)
    <3>1. /\ th[r].token = thread[r].token
          /\ drive[w].pc \notin {"idle", "ensure", "ack"}
      BY <1>1, <2>2, <2>4
    <3>2. "cancelled" # "done"
      OBVIOUS
    <3> QED BY <2>1, <2>3, <3>1, <3>2, TeardownHeld
  <2>5. job[r].state \notin JobTerminal
    BY <2>1 DEF Lease, JobTerminal
  <2>6. \A v \in Slots \ {w} : drive'[v] = drive[v]
    BY <2>3, TeardownFields
  <2>7. thread[r].token = w
    BY <1>3 DEF HoldsThread
  <2> QED BY <1>1, <2>1, <2>2, <2>3, <2>4, <2>5, <2>6, <2>7, PlanesOwn
<1> QED BY <1>2, <1>3

\* adopt at a thread that waits or has not started: the row it read is the
\* thread's, so the wake or the start is its own.
LEMMA StartPlanes ==
    ASSUME FenceInv, PlanesInv, NEW w \in Slots, drive[w].pc = "adopt",
           NEW row \in ThreadRow, row.status = "running",
           row.token = thread[drive[w].run].token,
           thread[drive[w].run].status # "completed",
           thread' = [thread EXCEPT ![drive[w].run] = row], job' = job,
           NEW c, StartWalk(w, c)
    PROVE  PlanesInv'
<1> DEFINE r == drive[w].run
<1>1. /\ r \in Runs /\ Lease(w, r, job) /\ thread[r].token = w
      /\ drive[w].terminal = "none" /\ drive[w].pc # "idle"
  BY EarlyLease DEF Early, PlanesInv, Held
<1>2. /\ drive'[w].pc = "walk" /\ drive'[w].run = r /\ drive'[w].terminal = "none"
      /\ \A v \in Slots \ {w} : drive'[v] = drive[v]
  BY <1>1 DEF StartWalk, FenceInv, DriveInv, DriveRow
<1>3. job[r].state \notin JobTerminal
  BY <1>1 DEF Lease, JobTerminal
<1>4. \A th : th[r] = row => Held(w, drive'[w], job, th)
  BY <1>1, <1>2, <1>3 DEF Held, Early, Walking
<1> QED BY <1>1, <1>2, <1>3, <1>4, PlanesOwn

\* What a drive that is to adopt its thread knows of it.
LEMMA AdoptSees ==
    ASSUME FenceInv, PlanesInv, NEW w \in Slots, drive[w].pc = "adopt"
    PROVE  LET r == drive[w].run
           IN  /\ r \in Runs /\ thread[r] \in ThreadRow /\ Lease(w, r, job)
               /\ thread[r].token = w
               /\ drive[w].seen.status = thread[r].status
               /\ drive[w].seen.cause = thread[r].cause
               /\ thread[r].cause # "none" <=> thread[r].status = "suspended"
BY EarlyLease, RunFacts DEF Early, PlanesInv, Held

LEMMA AdoptThreadPlanes ==
    ASSUME FenceInv, PlanesInv, NEW w \in Slots, AdoptResolve(w) \/ AdoptQueued(w)
    PROVE  PlanesInv'
<1> DEFINE r == drive[w].run
<1>1. drive[w].pc = "adopt" /\ job' = job
  BY DEF AdoptResolve, AdoptQueued
<1>2. thread[r] \in ThreadRow /\ drive[w].seen.status = thread[r].status
  BY <1>1, AdoptSees
<1>3. CASE AdoptResolve(w)
  <2> DEFINE row == [thread[r] EXCEPT !.status = "running", !.wake = "none",
                                      !.cause = "none"]
  <2>1. row \in ThreadRow /\ row.status = "running" /\ row.token = thread[r].token
    BY <1>2 DEF ThreadRow
  <2>2. thread[r].status = "suspended"
    BY <1>2, <1>3 DEF AdoptResolve
  <2>3. /\ thread' = [thread EXCEPT ![r] = row]
        /\ \E c : StartWalk(w, c)
    BY <1>3, <2>2 DEF AdoptResolve
  <2> HIDE DEF row
  <2> QED BY <1>1, <2>1, <2>2, <2>3, StartPlanes
<1>4. CASE AdoptQueued(w)
  <2> DEFINE row == [thread[r] EXCEPT !.status = "running"]
  <2>1. row \in ThreadRow /\ row.status = "running" /\ row.token = thread[r].token
    BY <1>2 DEF ThreadRow
  <2>2. thread[r].status = "queued"
    BY <1>2, <1>4 DEF AdoptQueued
  <2>3. thread' = [thread EXCEPT ![r] = row] /\ StartWalk(w, "none")
    BY <1>4, <2>2 DEF AdoptQueued
  <2> HIDE DEF row
  <2> QED BY <1>1, <2>1, <2>2, <2>3, StartPlanes
<1> QED BY <1>3, <1>4

LEMMA AdoptMovedPlanes ==
    ASSUME FenceInv, PlanesInv, NEW w \in Slots, AdoptMoved(w)
    PROVE  PlanesInv'
<1> DEFINE r == drive[w].run
<1>1. drive[w].pc = "adopt" /\ UNCHANGED <<job, thread>>
  BY DEF AdoptMoved, core
<1>2. thread[r] \in ThreadRow /\ drive[w].seen.status = thread[r].status /\ r \in Runs
  BY <1>1, AdoptSees
<1>3. CASE thread[r].status = "running" /\ StartWalk(w, drive[w].cause)
  <2>1. thread' = [thread EXCEPT ![r] = thread[r]]
    BY <1>1, RunFacts
  <2> QED BY <1>1, <1>2, <1>3, <2>1, StartPlanes
<1>4. CASE thread[r].status = "completed" /\ Teardown(w, "done", drive[w].done)
  BY <1>1, <1>4, TeardownPlanes
<1>5. CASE thread[r].status = "failed" /\ Teardown(w, "cancelled", drive[w].done)
  BY <1>1, <1>5, TeardownPlanes
<1> QED BY <1>2, <1>3, <1>4, <1>5 DEF AdoptMoved

\* The steps of the walk and of the teardown that move neither plane.
LEMMA WalkPlanes ==
    ASSUME FenceInv, PlanesInv, NEW w \in Slots,
           \/ Observed(w) \/ DropCall(w) \/ Dispatch(w) \/ CommitCall(w)
           \/ CommitArtifact(w) \/ Poll(w) \/ Acknowledge(w)
           \/ Refuse(w, "over_cap") \/ Refuse(w, "not_entitled")
    PROVE  PlanesInv'
<1>1. UNCHANGED <<job, thread>>
  BY DEF Observed, DropCall, Dispatch, CommitCall, CommitArtifact, Poll,
         Acknowledge, Refuse, core
<1>2. CASE End(w)
  BY <1>1, <1>2, EndPlanes
<1>3. CASE Observed(w) \/ DropCall(w)
  <2>1. PICK k : Teardown(w, "cancelled", k)
    BY <1>3 DEF Observed, DropCall
  <2>2. drive[w].pc \in Walking
    BY <1>3 DEF Observed, DropCall, Walking
  <2>3. \/ ~Lease(w, drive[w].run, job)
        \/ thread[drive[w].run].status # "completed"
    BY <2>2, WalkOwn
  <2>4. drive[w].pc \notin {"idle", "ensure", "ack"}
    BY <2>2 DEF Walking
  <2> QED BY <1>1, <2>1, <2>3, <2>4, TeardownPlanes
<1>4. CASE Dispatch(w) \/ Refuse(w, "over_cap") \/ Refuse(w, "not_entitled")
  <2>1. PICK p \in Walking : Goto(w, p)
    BY <1>4 DEF Dispatch, Refuse, Walking
  <2>2. drive[w].pc = "walk"
    BY <1>4 DEF Dispatch, Refuse, AtCall
  <2>3. p \notin Early /\ p # "idle"
    BY DEF Walking, Early
  <2> QED BY <1>1, <2>1, <2>2, <2>3, GotoPlanes DEF Walking, Early
<1>5. CASE (CommitCall(w) \/ CommitArtifact(w)) /\ ~End(w)
  <2>1. /\ drive[w].pc \in {"inflight", "walk"}
        /\ drive'[w].pc \in {"walk", "final"} /\ drive'[w].run = drive[w].run
        /\ drive'[w].terminal = drive[w].terminal
        /\ \A v \in Slots \ {w} : drive'[v] = drive[v]
    BY <1>5 DEF CommitCall, CommitArtifact, Waited, AfterCalls, FenceInv, DriveInv,
                DriveRow
  <2>2. Held(w, drive[w], job, thread)
    BY DEF PlanesInv
  <2>3. Held(w, drive'[w], job, thread)
    BY <2>1, <2>2 DEF Held, Early, Walking
  <2> QED BY <1>1, <2>1, <2>3, PlanesQuiet
<1>6. CASE Poll(w) /\ Goto(w, "settle")
  BY <1>1, <1>6, GotoPlanes DEF Poll, Early, Walking
<1> QED BY <1>2, <1>3, <1>4, <1>5, <1>6 DEF Poll, Acknowledge

\* A suspension: the thread is its own and running.
LEMMA SuspendPlanes ==
    ASSUME FenceInv, PlanesInv, NEW w \in Slots, drive[w].pc \in Walking,
           NEW x, NEW c \in {"cap", "signal"}, NEW wk \in {"none", "armed"},
           Suspend(w, x, c, wk), job' = job
    PROVE  PlanesInv'
<1> DEFINE r == drive[w].run
<1>1. CASE ~(HoldsThread(w, r) /\ thread[r].status = "running")
  BY <1>1, EndPlanes DEF Suspend, core
<1>2. CASE HoldsThread(w, r) /\ thread[r].status = "running"
  <2> DEFINE row == [thread[r] EXCEPT !.status = "suspended", !.cause = c,
                                      !.wake = wk]
  <2>1. /\ r \in Runs /\ thread[r] \in ThreadRow /\ thread[r].token = w
        /\ drive[w].terminal = "none" /\ job[r].state \notin JobTerminal
    BY <1>2, WalkOwn DEF HoldsThread
  <2>2. row \in ThreadRow /\ row.token = w
    BY <2>1 DEF ThreadRow
  <2>3. thread' = [thread EXCEPT ![r] = row] /\ Goto(w, "park")
    BY <1>2 DEF Suspend
  <2> HIDE DEF row
  <2>4. \A th : th[r] = row => Held(w, drive'[w], job, th)
    BY <2>1, <2>2, <2>3, GotoFields DEF Held, Early, Walking
  <2>5. \A v \in Slots \ {w} : drive'[v] = drive[v]
    BY <2>3, GotoFields
  <2> QED BY <1>2, <2>1, <2>2, <2>3, <2>4, <2>5, PlanesOwn
<1> QED BY <1>1, <1>2

LEMMA WaitPlanes ==
    ASSUME FenceInv, PlanesInv, NEW w \in Slots, DisposeOverCap(w) \/ DurableWait(w)
    PROVE  PlanesInv'
<1>1. drive[w].pc \in Walking /\ job' = job
  BY DEF DisposeOverCap, DurableWait, AfterCalls, Walking
<1>2. CASE Suspend(w, "cap", "cap", "armed") \/ Suspend(w, "wait", "signal", "none")
  BY <1>1, <1>2, SuspendPlanes
<1>3. CASE Goto(w, "fail") /\ UNCHANGED core /\ drive[w].pc = "over_cap"
  BY <1>1, <1>3, GotoPlanes DEF Walking, Early, core
<1> QED BY <1>2, <1>3 DEF DisposeOverCap, DurableWait

\* The terminal of a thread, and the teardown with the job's.
LEMMA TerminalPlanes ==
    ASSUME FenceInv, PlanesInv, NEW w \in Slots, Complete(w) \/ FailRun(w)
    PROVE  PlanesInv'
<1> DEFINE r == drive[w].run
<1>1. drive[w].pc \in Walking /\ job' = job
  BY DEF Complete, FailRun, Waited, AfterCalls, Walking
<1>2. PICK t \in JobTerminal, s \in ThreadTerminal :
         /\ CommitTerminal(w, s, t)
         /\ t = "done" <=> s = "completed"
  BY DEF Complete, FailRun, JobTerminal, ThreadTerminal
<1>3. CASE ~HoldsThread(w, r)
  BY <1>1, <1>2, <1>3, EndPlanes DEF CommitTerminal
<1>4. CASE HoldsThread(w, r)
  <2> DEFINE row == [thread[r] EXCEPT !.status = s]
  <2>1. /\ r \in Runs /\ thread[r] \in ThreadRow /\ thread[r].token = w
        /\ thread[r].status = "running" /\ job[r].state \notin JobTerminal
        /\ drive[w].pc \notin {"idle", "ensure", "ack"}
    BY <1>1, <1>4, WalkOwn DEF HoldsThread
  <2>2. row \in ThreadRow /\ row.token = w /\ row.status = s
    BY <2>1 DEF ThreadRow
  <2>3. thread' = [thread EXCEPT ![r] = row] /\ Teardown(w, t, drive[w].done)
    BY <1>2, <1>4, <2>1 DEF CommitTerminal
  <2> HIDE DEF row
  <2>4. ASSUME NEW th, th[r] = row PROVE Held(w, drive'[w], job, th)
    <3>1. th[r].token = thread[r].token
      BY <2>1, <2>2, <2>4
    <3>2. t = "done" => th[r].status = "completed"
      BY <1>2, <2>2, <2>4
    <3>3. t # "cancelled" \/ th[r].status # "completed"
      BY <1>2, <2>2, <2>4
    <3> QED BY <2>1, <2>3, <3>1, <3>2, <3>3, TeardownHeld
  <2>5. \A v \in Slots \ {w} : drive'[v] = drive[v]
    BY <2>3, TeardownFields
  <2> QED BY <1>1, <2>1, <2>2, <2>3, <2>4, <2>5, PlanesOwn
<1> QED BY <1>3, <1>4

\* A claim: the run had no lease, and no drive of it was before its walk.
LEMMA ClaimPlanes ==
    ASSUME FenceInv, PlanesInv, NEW w \in Slots, NEW r \in Runs, Claim(w, r)
    PROVE  PlanesInv'
<1>1. JobKeeps /\ job[r].state = "queued" /\ thread' = thread
  BY ClaimJob DEF FenceInv, Claim, core
<1>2. /\ job'[r].state = "running" /\ job'[r].token = w /\ ~job'[r].lapsed
      /\ job'[r].cancel = job[r].cancel
      /\ \A q \in Runs \ {r} : job'[q] = job[q]
  BY DEF Claim, FenceInv, JobInv, JobRow
<1>3. /\ drive'[w].pc = "ensure" /\ drive'[w].run = r /\ ~drive'[w].beats
      /\ drive'[w].terminal = "none"
      /\ \A v \in Slots \ {w} : drive'[v] = drive[v]
  BY DEF Claim, Idle, FenceInv, DriveInv
<1>4. \A v \in Slots \ {w} : \A q \in Runs : Lease(v, q, job') => Lease(v, q, job)
  BY <1>2 DEF Lease
<1>5. ASSUME NEW v \in Slots \ {w}, drive[v].pc \in Early
      PROVE  Lease(v, drive[v].run, job') /\ ~job'[drive[v].run].lapsed
  <2>1. /\ drive[v].run \in Runs /\ Lease(v, drive[v].run, job)
        /\ ~job[drive[v].run].lapsed
    BY <1>5, EarlyLease
  <2> QED BY <1>1, <1>2, <2>1 DEF Lease
<1>6. \A q \in Runs : job'[q].state \in JobTerminal => job[q].state \in JobTerminal
  BY <1>2 DEF JobTerminal
<1>7. \A v \in Slots \ {w} : Held(v, drive[v], job', thread')
  BY <1>1, <1>4, <1>5, <1>6, HeldJob
<1>8. Held(w, drive'[w], job', thread')
  BY <1>2, <1>3 DEF Held, Lease, Walking, JobTerminal
<1>9. \A q \in Runs : Agree(job'[q], thread'[q])
  BY <1>1, <1>2 DEF PlanesInv, Agree
<1> QED BY <1>3, <1>7, <1>8, <1>9 DEF PlanesInv

\* A drive hands its run on: under its lease the thread is its own too.
LEMMA LeavePlanes ==
    ASSUME FenceInv, PlanesInv, NEW w \in Slots, thread' = thread,
           NEW s \in {"suspended"} \cup JobTerminal,
           LeaveRunning(w, drive[w].run, s), program' = program,
           drive[w].pc \notin {"idle", "ensure"},
           \A v \in Slots \ {w} : drive'[v] = drive[v],
           s = "done" => thread[drive[w].run].status = "completed",
           s = "cancelled" => \/ thread[drive[w].run].status # "completed"
                             \/ ~HoldsLease(w, drive[w].run)
                             \/ job[drive[w].run].cancel,
           Held(w, drive'[w], job', thread)
    PROVE  PlanesInv'
<1> DEFINE r == drive[w].run
<1>1. r \in Runs /\ Held(w, drive[w], job, thread)
  BY RunFacts DEF PlanesInv
<1>2. JobKeeps
  BY <1>1, LeaveRunningJob DEF FenceInv
<1>3. /\ \A q \in Runs \ {r} : job'[q] = job[q]
      /\ \/ job'[r] = job[r]
         \/ /\ HoldsLease(w, r) /\ job'[r].state = s /\ job'[r].token = "none"
            /\ job'[r].cancel = job[r].cancel
  BY <1>1 DEF LeaveRunning, FenceInv, JobInv, JobRow
<1>4. HoldsLease(w, r) => thread[r].token = w
  BY <1>1 DEF Held, HoldsLease, Lease
<1>5. \A v \in Slots \ {w} : \A q \in Runs : Lease(v, q, job') => Lease(v, q, job)
  BY <1>3 DEF Lease, JobTerminal
<1>6. ASSUME NEW v \in Slots \ {w}, drive[v].pc \in Early
      PROVE  Lease(v, drive[v].run, job') /\ ~job'[drive[v].run].lapsed
  <2>1. /\ drive[v].run \in Runs /\ Lease(v, drive[v].run, job)
        /\ ~job[drive[v].run].lapsed
    BY <1>6, EarlyLease
  <2> QED BY <1>3, <2>1 DEF Lease, HoldsLease
<1>7. \A q \in Runs : job'[q].state \in JobTerminal =>
         job[q].state \in JobTerminal \/ thread[q].token = w
  BY <1>3, <1>4
<1>8. \A v \in Slots \ {w} : Held(v, drive[v], job', thread')
  BY <1>2, <1>5, <1>6, <1>7, HeldJob
<1>9. ASSUME NEW q \in Runs PROVE Agree(job'[q], thread'[q])
  <2>1. Agree(job[q], thread[q])
    BY DEF PlanesInv
  <2>2. CASE job'[q] = job[q]
    BY <2>1, <2>2
  <2>3. CASE job'[q] # job[q]
    <3>1. /\ q = r /\ HoldsLease(w, r) /\ job'[r].state = s
          /\ job'[r].cancel = job[r].cancel
      BY <1>3, <2>3
    <3> QED BY <3>1 DEF Agree, JobTerminal
  <2> QED BY <2>2, <2>3
<1> QED BY <1>8, <1>9 DEF PlanesInv

LEMMA ParkPlanes ==
    ASSUME FenceInv, PlanesInv, NEW w \in Slots, AdoptNotReady(w) \/ Park(w)
    PROVE  PlanesInv'
<1>1. /\ LeaveRunning(w, drive[w].run, "suspended") /\ End(w)
      /\ thread' = thread /\ program' = program
      /\ drive[w].pc \notin {"idle", "ensure"}
  BY DEF AdoptNotReady, Park, core
<1>2. /\ Held(w, drive'[w], job', thread)
      /\ \A v \in Slots \ {w} : drive'[v] = drive[v]
  BY <1>1, EndFields, IdleHeld
<1>3. "suspended" \notin {"done", "cancelled"}
  OBVIOUS
<1> QED BY <1>1, <1>2, <1>3, LeavePlanes

LEMMA SettlePlanes ==
    ASSUME FenceInv, PlanesInv, NEW w \in Slots, Settle(w)
    PROVE  PlanesInv'
<1> DEFINE r == drive[w].run
<1> DEFINE t == drive[w].terminal
<1>1. /\ drive[w].pc = "settle" /\ LeaveRunning(w, r, t)
      /\ thread' = thread /\ program' = program
      /\ drive[w].pc \notin {"idle", "ensure"}
  BY DEF Settle, core
<1>2. /\ r \in Runs /\ t \in JobTerminal /\ Held(w, drive[w], job, thread)
  BY <1>1, RunFacts DEF Fits, Leaving, DriveRow, PlanesInv
<1>3. \A v \in Slots \ {w} : drive'[v] = drive[v]
  BY EndFields, GotoFields DEF Settle
<1>4. Held(w, drive'[w], job', thread)
  <2>1. CASE HoldsLease(w, r)
    <3>1. /\ drive'[w].pc = "ack" /\ drive'[w].run = r /\ drive'[w].terminal = t
      BY <2>1, GotoFields DEF Settle
    <3>2. job'[r].state = t
      BY <1>1, <1>2, <2>1, LeaveRunningJob DEF FenceInv
    <3>3. ~Lease(w, r, job') /\ "ack" \notin {"idle", "disarm"} \cup Early \cup Walking
      BY <1>2, <3>2 DEF Lease, JobTerminal, Early, Walking
    <3>4. t = "done" => thread[r].status = "completed"
      BY <1>1, <1>2 DEF Held
    <3> QED BY <3>1, <3>3, <3>4 DEF Held
  <2>2. CASE ~HoldsLease(w, r)
    BY <2>2, EndFields, IdleHeld DEF Settle
  <2> QED BY <2>1, <2>2
<1>5. /\ t = "done" => thread[r].status = "completed"
      /\ t = "cancelled" => \/ thread[r].status # "completed"
                            \/ ~HoldsLease(w, r) \/ job[r].cancel
  BY <1>1, <1>2 DEF Held, HoldsLease, Lease
<1> HIDE DEF t
<1> QED BY <1>1, <1>2, <1>3, <1>4, <1>5, LeavePlanes

\* A renewal that applies is of a drive that has its lease.
LEMMA HeartbeatPlanes ==
    ASSUME FenceInv, PlanesInv, NEW w \in Slots, Heartbeat(w) \/ HeartbeatError(w)
    PROVE  PlanesInv'
<1> DEFINE r == drive[w].run
<1>1. /\ drive[w].pc # "idle" /\ drive[w].beats /\ r \in Runs
      /\ Held(w, drive[w], job, thread) /\ thread' = thread
  <2>1. drive[w].pc # "idle"
    BY DEF Heartbeat, HeartbeatError
  <2> QED BY <2>1, RunFacts DEF Heartbeat, HeartbeatError, PlanesInv, core
<1>2. drive[w].pc \notin Early
  BY <1>1 DEF Held
<1>3. JobKeeps
  BY HeartbeatJob, JobStays DEF FenceInv, HeartbeatError
<1>4. /\ drive'[w].pc = drive[w].pc /\ drive'[w].run = r
      /\ drive'[w].seen = drive[w].seen /\ drive'[w].beats = drive[w].beats
      /\ drive'[w].terminal = drive[w].terminal
      /\ \A v \in Slots \ {w} : drive'[v] = drive[v]
  BY DEF Heartbeat, HeartbeatError, FenceInv, DriveInv, DriveRow
<1>5. \A q \in Runs : /\ job'[q].state = job[q].state
                      /\ job'[q].token = job[q].token
                      /\ job'[q].lapsed = job[q].lapsed \/ ~job'[q].lapsed
                      /\ job'[q].cancel = job[q].cancel
  BY DEF Heartbeat, HeartbeatError, FenceInv, JobInv, JobRow
<1>6. \A v \in Slots \ {w} : \A q \in Runs : Lease(v, q, job') => Lease(v, q, job)
  BY <1>5 DEF Lease
<1>7. ASSUME NEW v \in Slots \ {w}, drive[v].pc \in Early
      PROVE  Lease(v, drive[v].run, job') /\ ~job'[drive[v].run].lapsed
  BY <1>5, <1>7, EarlyLease DEF Lease
<1>8. \A q \in Runs : job'[q].state \in JobTerminal =>
         job[q].state \in JobTerminal \/ thread[q].token = w
  BY <1>5
<1>9. \A v \in Slots \ {w} : Held(v, drive[v], job', thread')
  BY <1>1, <1>3, <1>6, <1>7, <1>8, HeldJob
<1>10. Held(w, drive'[w], job', thread')
  BY <1>1, <1>2, <1>4, <1>5 DEF Held, Lease
<1>11. \A q \in Runs : Agree(job'[q], thread'[q])
  BY <1>1, <1>5 DEF PlanesInv, Agree
<1> QED BY <1>4, <1>9, <1>10, <1>11 DEF PlanesInv

\* A step that moves neither a job, nor a thread beyond its wake, nor a drive.
LEMMA WakePlanes ==
    ASSUME FenceInv, PlanesInv, NEW r \in Runs, Elapse(r) \/ Signal(r)
    PROVE  PlanesInv'
<1>1. \A q \in Runs : /\ thread'[q].status = thread[q].status
                      /\ thread'[q].cause = thread[q].cause
                      /\ thread'[q].token = thread[q].token
  <2>1. thread' = [thread EXCEPT ![r].wake = "due"] /\ thread \in [Runs -> ThreadRow]
    BY DEF Elapse, Signal, FenceInv, CoreInv
  <2> QED BY <2>1 DEF ThreadRow
<1>2. UNCHANGED <<job, drive>>
  BY DEF Elapse, Signal
<1>3. ASSUME NEW w \in Slots PROVE Held(w, drive'[w], job', thread')
  <2>1. Held(w, drive[w], job, thread)
    BY DEF PlanesInv
  <2>2. drive[w].pc # "idle" => drive[w].run \in Runs
    BY RunFacts
  <2> QED BY <1>1, <1>2, <2>1, <2>2 DEF Held
<1>4. \A q \in Runs : Agree(job'[q], thread'[q])
  BY <1>1, <1>2 DEF PlanesInv, Agree
<1> QED BY <1>3, <1>4 DEF PlanesInv

LEMMA PlanesStep == ~SlowAdoption /\ FenceInv /\ PlanesInv /\ [Next]_vars => PlanesInv'
<1> SUFFICES ASSUME ~SlowAdoption, FenceInv, PlanesInv, [Next]_vars PROVE PlanesInv'
  OBVIOUS
<1>1. CASE UNCHANGED <<job, thread, drive>>
  BY <1>1 DEF PlanesInv
<1>2. ASSUME NEW r \in Runs,
             \/ Enqueue(r) \/ ReclaimExpired(r) \/ RequestCancel(r) \/ Lapse(r)
             \/ SweepWake(r) \/ SweepCancel(r) \/ Elapse(r) \/ Signal(r)
      PROVE  PlanesInv'
  BY <1>2, JobPlanes, WakePlanes
<1>3. ASSUME NEW r \in Runs, NEW w \in Slots, Claim(w, r) PROVE PlanesInv'
  BY <1>3, ClaimPlanes
<1>4. ASSUME NEW w \in Slots, Step(w) PROVE PlanesInv'
  BY <1>4, AdoptPlanes, EarlyPlanes, DisarmPlanes, ParkPlanes, AdoptThreadPlanes,
     AdoptMovedPlanes, WalkPlanes, WaitPlanes, TerminalPlanes, SettlePlanes
     DEF Step
<1>5. ASSUME NEW w \in Slots,
             \/ Refuse(w, "over_cap") \/ Refuse(w, "not_entitled")
             \/ Heartbeat(w) \/ HeartbeatError(w) \/ Stall(w)
      PROVE  PlanesInv'
  BY <1>5, WalkPlanes, HeartbeatPlanes, StallPlanes
<1>6. ASSUME NEW w \in Slots, Die(w) PROVE PlanesInv'
  BY <1>6, EndPlanes DEF Die, core
<1>7. CASE UNCHANGED vars
  BY <1>1, <1>7 DEF vars, core
<1>8. CASE ScanWakes \/ (\E t \in Tenants : CapSync(t))
                     \/ (\E r \in Runs : SettleHold(r))
  BY <1>1, <1>8 DEF ScanWakes, CapSync, SettleHold, core
<1> QED BY <1>2, <1>3, <1>4, <1>5, <1>6, <1>7, <1>8 DEF Next

LEMMA PlanesInit == Init => PlanesInv
<1> SUFFICES ASSUME Init PROVE PlanesInv
  OBVIOUS
<1>1. \A w \in Slots : Held(w, drive[w], job, thread)
  BY IdleHeld DEF Init
<1>2. \A r \in Runs : Agree(job[r], thread[r])
  BY DEF Init, Agree
<1> QED BY <1>1, <1>2 DEF PlanesInv

\* While no drive outlives its lease before its heartbeat starts, the planes
\* agree on how a run ended (settled_terminal, commit_managed_terminal before
\* the teardown).
THEOREM PlanesAgreeHolds ==
    ASSUME ~SlowAdoption
    PROVE  Spec => []PlanesAgree
<1>1. PlanesInv => PlanesAgree
  BY DEF PlanesInv, Agree, PlanesAgree
<1>2. FenceInv /\ PlanesInv /\ [Next]_vars => PlanesInv'
  BY PlanesStep
<1> QED BY <1>1, <1>2, FenceInit, FenceStep, PlanesInit, PTL DEF Spec

-----------------------------------------------------------------------------
(* The give-up bound.                                                       *)

\* GiveUpSpentOnce, of one log.
SpentOnce(s) ==
    \A i, j \in DOMAIN s :
       i < j /\ s[i] = "give_up" /\ s[j] = "cap" => \E k \in i..j : s[k] = "call"

\* No give-up at all, and none a committed call has not spent.
Clean(s) == \A i \in DOMAIN s : s[i] # "give_up"
Spent(s) == \A i \in Unspent(s) : s[i] # "give_up"

LEMMA CleanSpent == ASSUME NEW s, Clean(s) PROVE Spent(s)
BY DEF Clean, Spent, Unspent

LEMMA CleanAppend ==
    ASSUME NEW s \in Seq(Kinds), NEW x \in Kinds, Clean(s), x # "give_up"
    PROVE  Clean(Append(s, x))
BY AppendFacts DEF Clean

LEMMA SpentAppend ==
    ASSUME NEW s \in Seq(Kinds), NEW x \in Kinds,
           x = "call" \/ (x # "give_up" /\ Spent(s))
    PROVE  Spent(Append(s, x))
<1>1. CASE x = "call"
  BY <1>1, UnspentAppend DEF Spent
<1>2. CASE x # "call" /\ x # "give_up" /\ Spent(s)
  <2>1. \A i \in Unspent(s) : i \in 1..Len(s) /\ Append(s, x)[i] # "give_up"
    BY <1>2, AppendFacts DEF Spent, Unspent
  <2>2. Append(s, x)[Len(s) + 1] # "give_up"
    BY <1>2, AppendFacts
  <2> QED BY <1>2, <2>1, <2>2, UnspentAppend DEF Spent
<1> QED BY <1>1, <1>2

LEMMA SpentOnceAppend ==
    ASSUME NEW s \in Seq(Kinds), NEW x \in Kinds, SpentOnce(s),
           x = "cap" => Spent(s)
    PROVE  SpentOnce(Append(s, x))
<1> DEFINE t == Append(s, x)
<1> SUFFICES ASSUME NEW i \in DOMAIN t, NEW j \in DOMAIN t,
                    i < j, t[i] = "give_up", t[j] = "cap"
             PROVE  \E k \in i..j : t[k] = "call"
  BY DEF SpentOnce
<1>1. /\ i \in 1..Len(s) /\ i \in DOMAIN s /\ s[i] = "give_up"
      /\ Len(s) \in Nat /\ j \in Nat /\ j <= Len(s) + 1
  BY AppendFacts
<1>2. \A k \in 1..Len(s) : t[k] = s[k]
  BY AppendFacts
<1>3. CASE j <= Len(s)
  <2>1. j \in DOMAIN s /\ s[j] = "cap"
    BY <1>1, <1>3, AppendFacts
  <2>2. PICK k \in i..j : s[k] = "call"
    BY <1>1, <2>1 DEF SpentOnce
  <2>3. k \in 1..Len(s)
    BY <1>1, <1>3, <2>2
  <2> QED BY <1>2, <2>2, <2>3
<1>4. CASE j = Len(s) + 1
  <2>1. x = "cap"
    BY <1>4, AppendFacts
  <2>2. PICK k \in i..Len(s) : s[k] = "call"
    BY <1>1, <2>1 DEF Spent, Unspent, CapCauses
  <2>3. k \in 1..Len(s) /\ k \in i..j
    BY <1>1, <1>4, <2>2
  <2> QED BY <1>2, <2>2, <2>3
<1> QED BY <1>1, <1>3, <1>4

\* The steps at which a drive goes by the cause it carries.
Causal == {"check", "disarm", "adopt", "walk", "inflight", "over_cap"}

\* Only a hard stop gives up, and not before its thread has run; a thread that
\* waits for its signal has no call left to make.
CauseRun(p, t, s) ==
    /\ p.cap = "throttle_queue" => Clean(s)
    /\ t.status \in {"absent", "queued"} => Clean(s)
    /\ t.cause = "signal" => Count(s, "call") = p.calls
    /\ SpentOnce(s)

\* A drive that holds its thread, carries no cause and has a call to make
\* finds every give-up of the log spent.
CauseDrive(w, d, th, lg, pg) ==
    d.pc \in Causal /\ th[d.run].token = w /\ d.cause = "none"
       /\ d.done < pg[d.run].calls => Spent(lg[d.run])

CauseInv ==
    /\ \A r \in Runs : CauseRun(program[r], thread[r], log[r])
    /\ \A w \in Slots : CauseDrive(w, drive[w], thread, log, program)

\* No log moves, no thread starts to wait for its signal, and slot w alone
\* may gain a token or move its drive.
LEMMA CauseQuiet ==
    ASSUME FenceInv, CauseInv, UNCHANGED <<program, log>>, NEW w,
           \A r \in Runs :
              /\ thread'[r].token \in {thread[r].token, w}
              /\ thread'[r].cause \in {thread[r].cause, "none", "cap"}
              /\ thread'[r].status \in {"absent", "queued"} =>
                    thread[r].status \in {"absent", "queued"},
           \A v \in Slots \ {w} :
              /\ drive'[v].pc = drive[v].pc /\ drive'[v].run = drive[v].run
              /\ drive'[v].cause = drive[v].cause /\ drive'[v].done = drive[v].done,
           w \in Slots => CauseDrive(w, drive'[w], thread', log, program)
    PROVE  CauseInv'
<1>1. ASSUME NEW r \in Runs PROVE CauseRun(program'[r], thread'[r], log'[r])
  BY DEF CauseInv, CauseRun
<1>2. ASSUME NEW v \in Slots \ {w}
      PROVE  CauseDrive(v, drive'[v], thread', log', program')
  <2>1. drive[v].pc # "idle" => drive[v].run \in Runs
    BY RunFacts
  <2>2. "idle" \notin Causal
    BY DEF Causal
  <2> QED BY <2>1, <2>2 DEF CauseInv, CauseDrive
<1>3. w \in Slots => CauseDrive(w, drive'[w], thread', log', program')
  OBVIOUS
<1> QED BY <1>1, <1>2, <1>3 DEF CauseInv

\* One log moves, under the token of slot w.
LEMMA CauseMoves ==
    ASSUME FenceInv, CauseInv, program' = program, NEW w \in Slots, NEW r \in Runs,
           NEW s \in Seq(Kinds), log' = [log EXCEPT ![r] = s],
           \A q \in Runs \ {r} : thread'[q] = thread[q],
           thread[r].token = w, thread'[r].token = w,
           CauseRun(program[r], thread'[r], s),
           \A v \in Slots \ {w} : drive'[v] = drive[v],
           CauseDrive(w, drive'[w], thread', log', program)
    PROVE  CauseInv'
<1>1. log'[r] = s /\ \A q \in Runs \ {r} : log'[q] = log[q]
  BY DEF FenceInv, CoreInv
<1>2. ASSUME NEW q \in Runs PROVE CauseRun(program'[q], thread'[q], log'[q])
  BY <1>1 DEF CauseInv
<1>3. ASSUME NEW v \in Slots \ {w}
      PROVE  CauseDrive(v, drive'[v], thread', log', program')
  <2>1. drive[v].pc # "idle" => drive[v].run \in Runs
    BY RunFacts
  <2>2. "idle" \notin Causal
    BY DEF Causal
  <2> QED BY <1>1, <2>1, <2>2 DEF CauseInv, CauseDrive
<1>4. CauseDrive(w, drive'[w], thread', log', program')
  OBVIOUS
<1> QED BY <1>2, <1>3, <1>4 DEF CauseInv

\* A step that moves no log and leaves every drive where it was.
LEMMA StandCause ==
    ASSUME FenceInv, CauseInv, UNCHANGED <<program, log>>,
           \A r \in Runs :
              /\ thread'[r].token = thread[r].token
              /\ thread'[r].cause = thread[r].cause
              /\ thread'[r].status = thread[r].status,
           \A v \in Slots :
              /\ drive'[v].pc = drive[v].pc /\ drive'[v].run = drive[v].run
              /\ drive'[v].cause = drive[v].cause /\ drive'[v].done = drive[v].done
    PROVE  CauseInv'
<1>1. "none" \notin Slots
  BY ManagedAssumption
<1> QED BY <1>1, CauseQuiet

\* A drive that goes where its cause does not matter.
LEMMA LeaveCause ==
    ASSUME FenceInv, CauseInv, UNCHANGED <<program, log>>, NEW w \in Slots,
           \A r \in Runs :
              /\ thread'[r].token \in {thread[r].token, w}
              /\ thread'[r].cause \in {thread[r].cause, "none", "cap"}
              /\ thread'[r].status \in {"absent", "queued"} =>
                    thread[r].status \in {"absent", "queued"},
           \A v \in Slots \ {w} : drive'[v] = drive[v],
           drive'[w].pc \notin Causal
    PROVE  CauseInv'
<1>1. CauseDrive(w, drive'[w], thread', log, program)
  BY DEF CauseDrive
<1> QED BY <1>1, CauseQuiet

\* A drive that goes on with the cause and the count it had.
LEMMA GotoCause ==
    ASSUME FenceInv, CauseInv, UNCHANGED <<program, log, thread>>, NEW w \in Slots,
           NEW p, Goto(w, p), p \in Causal => drive[w].pc \in Causal
    PROVE  CauseInv'
<1>1. /\ drive'[w].pc = p /\ drive'[w].run = drive[w].run
      /\ drive'[w].cause = drive[w].cause /\ drive'[w].done = drive[w].done
      /\ \A v \in Slots \ {w} : drive'[v] = drive[v]
  BY DEF Goto, FenceInv, DriveInv, DriveRow
<1>2. CauseDrive(w, drive'[w], thread', log, program)
  BY <1>1 DEF CauseInv, CauseDrive
<1> QED BY <1>1, <1>2, CauseQuiet

LEMMA ExitCause ==
    ASSUME FenceInv, CauseInv, UNCHANGED <<program, log>>, NEW w \in Slots,
           \A r \in Runs :
              /\ thread'[r].token \in {thread[r].token, w}
              /\ thread'[r].cause \in {thread[r].cause, "none", "cap"}
              /\ thread'[r].status \in {"absent", "queued"} =>
                    thread[r].status \in {"absent", "queued"},
           End(w) \/ \E t, k : Teardown(w, t, k)
    PROVE  CauseInv'
<1>1. /\ drive'[w].pc \in {"idle", "poll"}
      /\ \A v \in Slots \ {w} : drive'[v] = drive[v]
  BY EndFields, TeardownFields DEF Idle
<1>2. drive'[w].pc \notin Causal
  BY <1>1 DEF Causal
<1> QED BY <1>1, <1>2, LeaveCause

\* The steps of a drive that move neither its log nor its thread.
LEMMA QuietCause ==
    ASSUME FenceInv, CauseInv, NEW w \in Slots,
           \/ CheckCancel(w) \/ AdoptNotReady(w) \/ AdoptMoved(w) \/ Observed(w)
           \/ Dispatch(w) \/ DropCall(w) \/ Park(w) \/ Poll(w) \/ Settle(w)
           \/ Acknowledge(w) \/ Refuse(w, "over_cap") \/ Refuse(w, "not_entitled")
           \/ Die(w)
    PROVE  CauseInv'
<1>1. UNCHANGED <<program, log, thread>>
  BY DEF CheckCancel, AdoptNotReady, AdoptMoved, Observed, Dispatch, DropCall, Park,
         Poll, Settle, Acknowledge, Refuse, Die, core
<1>2. CASE End(w) \/ \E t, k : Teardown(w, t, k)
  BY <1>1, <1>2, ExitCause
<1>3. CASE \E p \in {"settle", "ack", "disarm", "adopt", "inflight", "over_cap", "fail"} :
              Goto(w, p) /\ (p \in Causal => drive[w].pc \in Causal)
  BY <1>1, <1>3, GotoCause
<1>4. CASE StartWalk(w, drive[w].cause) /\ drive[w].pc = "adopt"
  <2>1. /\ drive'[w].pc = "walk" /\ drive'[w].run = drive[w].run
        /\ drive'[w].cause = drive[w].cause /\ drive'[w].done = drive[w].done
        /\ \A v \in Slots \ {w} : drive'[v] = drive[v]
    BY <1>4 DEF StartWalk, FenceInv, DriveInv, DriveRow
  <2>2. CauseDrive(w, drive'[w], thread', log, program)
    BY <1>1, <1>4, <2>1 DEF CauseInv, CauseDrive, Causal
  <2> QED BY <1>1, <2>1, <2>2, CauseQuiet
<1>5. CASE CheckCancel(w)
  BY <1>2, <1>3, <1>5 DEF CheckCancel, Causal
<1>6. CASE AdoptNotReady(w) \/ Park(w) \/ Acknowledge(w) \/ Die(w)
  BY <1>2, <1>6 DEF AdoptNotReady, Park, Acknowledge, Die
<1>7. CASE AdoptMoved(w)
  BY <1>2, <1>4, <1>7 DEF AdoptMoved
<1>8. CASE Observed(w) \/ DropCall(w)
  BY <1>2, <1>8 DEF Observed, DropCall
<1>9. CASE Dispatch(w) \/ Refuse(w, "over_cap") \/ Refuse(w, "not_entitled")
  BY <1>3, <1>9 DEF Dispatch, Refuse, AtCall, Causal
<1>10. CASE Poll(w) \/ Settle(w)
  BY <1>2, <1>3, <1>10 DEF Poll, Settle, Causal
<1> QED BY <1>5, <1>6, <1>7, <1>8, <1>9, <1>10

\* The cause re_derive takes from the log is none only if none is unspent.
LEMMA ReDeriveCause ==
    ASSUME FenceInv, CauseInv, NEW w \in Slots, ReDerive(w)
    PROVE  CauseInv'
<1> DEFINE r == drive[w].run
<1>1. /\ UNCHANGED <<program, log, thread>> /\ drive[w].pc = "derive"
  BY DEF ReDerive, core
<1>2. r \in Runs /\ log[r] \in Seq(Kinds) /\ HasLast(log[r])
  BY <1>1, RunFacts
<1>3. /\ drive'[w].run = r /\ drive'[w].cause = PendingCause(log[r])
      /\ \A v \in Slots \ {w} : drive'[v] = drive[v]
  BY DEF ReDerive, FenceInv, DriveInv, DriveRow
<1>4. PendingCause(log[r]) = "none" => Spent(log[r])
  BY <1>2, LastCause DEF Spent
<1>5. CauseDrive(w, drive'[w], thread', log, program)
  BY <1>3, <1>4 DEF CauseDrive
<1> QED BY <1>1, <1>3, <1>5, CauseQuiet

LEMMA AdoptCause ==
    ASSUME FenceInv, CauseInv, NEW w \in Slots, Adopt(w)
    PROVE  CauseInv'
<1> DEFINE r == drive[w].run
<1> DEFINE row == IF thread[r].status = "absent"
                  THEN [NoThread EXCEPT !.status = "queued", !.token = w]
                  ELSE [thread[r] EXCEPT !.token = w]
<1>1. /\ UNCHANGED <<program, log>> /\ thread' = [thread EXCEPT ![r] = row]
      /\ drive' = [drive EXCEPT ![w].pc = "open", ![w].seen = row]
      /\ drive[w].pc = "ensure"
  BY DEF Adopt
<1>2. r \in Runs /\ thread[r] \in ThreadRow /\ thread \in [Runs -> ThreadRow]
  BY <1>1, RunFacts DEF FenceInv, CoreInv
<1>3. /\ row.token = w /\ row.cause \in {thread[r].cause, "none"}
      /\ row.status \in {"absent", "queued"} =>
            thread[r].status \in {"absent", "queued"}
  BY <1>2 DEF ThreadRow, NoThread
<1> HIDE DEF row
<1>4. thread'[r] = row /\ \A q \in Runs \ {r} : thread'[q] = thread[q]
  BY <1>1, <1>2
<1>5. drive'[w].pc = "open" /\ \A v \in Slots \ {w} : drive'[v] = drive[v]
  BY <1>1 DEF FenceInv, DriveInv, DriveRow
<1>6. "open" \notin Causal
  BY DEF Causal
<1>7. ASSUME NEW q \in Runs
      PROVE  /\ thread'[q].token \in {thread[q].token, w}
             /\ thread'[q].cause \in {thread[q].cause, "none", "cap"}
             /\ thread'[q].status \in {"absent", "queued"} =>
                   thread[q].status \in {"absent", "queued"}
  BY <1>3, <1>4
<1> QED BY <1>1, <1>5, <1>6, <1>7, LeaveCause

LEMMA OpenInputCause ==
    ASSUME FenceInv, CauseInv, NEW w \in Slots, OpenInput(w)
    PROVE  CauseInv'
<1> DEFINE r == drive[w].run
<1>1. UNCHANGED <<program, thread>> /\ drive[w].pc = "open"
  BY DEF OpenInput
<1>2. CASE End(w) /\ log' = log
  BY <1>1, <1>2, ExitCause
<1>3. CASE Goto(w, "derive") /\ log' = log
  BY <1>1, <1>3, GotoCause DEF Causal
<1>4. CASE HoldsThread(w, r) /\ Goto(w, "derive") /\ log[r] = <<>>
           /\ log' = [log EXCEPT ![r] = <<"input">>]
  <2>1. /\ r \in Runs /\ log[r] \in Seq(Kinds) /\ thread[r].token = w
    BY <1>1, <1>4, RunFacts DEF HoldsThread
  <2> DEFINE s == Append(log[r], "input")
  <2>2. s = <<"input">> /\ "input" \in Kinds
    BY <1>4 DEF Kinds
  <2>3. CauseRun(program[r], thread[r], s)
    <3>1. CauseRun(program[r], thread[r], log[r])
      BY <2>1 DEF CauseInv
    <3> HIDE DEF s
    <3> QED BY <2>1, <2>2, <3>1, CleanAppend, SpentOnceAppend, CountAppend
            DEF CauseRun, s
  <2>4. s \in Seq(Kinds) /\ log' = [log EXCEPT ![r] = s]
    BY <1>4, <2>1, <2>2, AppendFacts
  <2> HIDE DEF s
  <2>5. drive'[w].pc = "derive" /\ \A v \in Slots \ {w} : drive'[v] = drive[v]
    BY <1>4, GotoFields
  <2>6. CauseDrive(w, drive'[w], thread', log', program)
    BY <2>5 DEF CauseDrive, Causal
  <2> QED BY <1>1, <2>1, <2>3, <2>4, <2>5, <2>6, CauseMoves
<1> QED BY <1>2, <1>3, <1>4 DEF OpenInput

LEMMA DisarmCause ==
    ASSUME FenceInv, CauseInv, NEW w \in Slots,
           Disarm(w) \/ Complete(w) \/ FailRun(w)
    PROVE  CauseInv'
<1> DEFINE r == drive[w].run
<1>1. drive[w].pc # "idle" /\ UNCHANGED <<program, log>>
  BY DEF Disarm, Complete, FailRun, Waited, AfterCalls
<1>2. thread[r] \in ThreadRow /\ thread \in [Runs -> ThreadRow] /\ r \in Runs
  BY <1>1, RunFacts DEF FenceInv, CoreInv
<1>3. \/ thread' = thread
      \/ thread' = [thread EXCEPT ![r].wake = "none"]
      \/ \E s \in ThreadTerminal : thread' = [thread EXCEPT ![r].status = s]
  BY DEF Disarm, Complete, FailRun, CommitTerminal, ThreadTerminal
<1>4. ASSUME NEW q \in Runs
      PROVE  /\ thread'[q].token \in {thread[q].token, w}
             /\ thread'[q].cause \in {thread[q].cause, "none", "cap"}
             /\ thread'[q].status \in {"absent", "queued"} =>
                   thread[q].status \in {"absent", "queued"}
  BY <1>2, <1>3 DEF ThreadRow, ThreadTerminal
<1>5. End(w) \/ \E t, k : Teardown(w, t, k)
  BY DEF Disarm, Complete, FailRun, CommitTerminal
<1> QED BY <1>1, <1>4, <1>5, ExitCause

\* The cause of a wake: none only for a signal, and then no call is left.
LEMMA AdoptResolveCause ==
    ASSUME FenceInv, PlanesInv, CauseInv, NEW w \in Slots, AdoptResolve(w)
    PROVE  CauseInv'
<1> DEFINE r == drive[w].run
<1> DEFINE c == IF drive[w].seen.cause = "cap" THEN WakeCause(program[r].cap)
                ELSE "none"
<1> DEFINE x == IF c = "none" THEN "resolved" ELSE c
<1> DEFINE s == Append(log[r], x)
<1>1. drive[w].pc = "adopt" /\ program' = program /\ drive[w].pc # "idle"
  BY DEF AdoptResolve
<1>2. /\ r \in Runs /\ thread[r] \in ThreadRow /\ thread[r].token = w
      /\ drive[w].seen.cause = thread[r].cause /\ thread[r].status = "suspended"
      /\ thread[r].cause \in {"cap", "signal"}
  BY <1>1, AdoptSees DEF AdoptResolve, ThreadRow
<1>3. /\ log[r] \in Seq(Kinds) /\ CauseRun(program[r], thread[r], log[r])
      /\ program[r] \in Program /\ drive[w] \in DriveRow
      /\ Mirrors(w, drive[w], thread, log)
  BY <1>1, <1>2, RunFacts DEF CauseInv
<1>4. x \in Kinds /\ x # "cap" /\ x # "call"
  BY DEF Kinds, CapCauses, WakeCause
<1>5. program[r].cap = "throttle_queue" => x # "give_up"
  BY DEF WakeCause
<1>6. /\ thread'[r].status = "running" /\ thread'[r].cause = "none"
      /\ thread'[r].token = w
      /\ \A q \in Runs \ {r} : thread'[q] = thread[q]
  BY <1>2 DEF AdoptResolve, FenceInv, CoreInv, ThreadRow
<1>7. log' = [log EXCEPT ![r] = s] /\ s \in Seq(Kinds)
  BY <1>2, <1>3, <1>4, AppendFacts DEF AdoptResolve
<1>8. CauseRun(program[r], thread'[r], s)
  <2> HIDE DEF x
  <2> QED BY <1>3, <1>4, <1>5, <1>6, CleanAppend, SpentOnceAppend DEF CauseRun
<1>9. /\ drive'[w].pc = "walk" /\ drive'[w].run = r /\ drive'[w].cause = c
      /\ drive'[w].done = drive[w].done
      /\ \A v \in Slots \ {w} : drive'[v] = drive[v]
  BY <1>2, <1>3 DEF AdoptResolve, StartWalk, FenceInv, DriveInv, DriveRow
<1>10. c = "none" => drive[w].done = program[r].calls
  <2>1. c = "none" => thread[r].cause = "signal"
    BY <1>2 DEF WakeCause
  <2>2. drive[w].done = Count(log[r], "call")
    BY <1>1, <1>2, <1>3 DEF Mirrors, Derived
  <2> QED BY <1>3, <2>1, <2>2 DEF CauseRun
<1> HIDE DEF s, x, c
<1>11. CauseDrive(w, drive'[w], thread', log', program)
  <2>1. program[r].calls \in Nat
    BY <1>3 DEF Program
  <2> QED BY <1>9, <1>10, <2>1 DEF CauseDrive
<1> QED BY <1>1, <1>2, <1>6, <1>7, <1>8, <1>9, <1>11, CauseMoves

LEMMA AdoptQueuedCause ==
    ASSUME FenceInv, PlanesInv, CauseInv, NEW w \in Slots, AdoptQueued(w)
    PROVE  CauseInv'
<1> DEFINE r == drive[w].run
<1>1. drive[w].pc = "adopt" /\ UNCHANGED <<program, log>> /\ drive[w].pc # "idle"
  BY DEF AdoptQueued
<1>2. /\ r \in Runs /\ thread[r] \in ThreadRow /\ thread[r].status = "queued"
  BY <1>1, AdoptSees DEF AdoptQueued
<1>3. Spent(log[r])
  BY <1>2, CleanSpent DEF CauseInv, CauseRun
<1>4. /\ thread'[r].status = "running" /\ thread'[r].cause = thread[r].cause
      /\ thread'[r].token = thread[r].token
      /\ \A q \in Runs \ {r} : thread'[q] = thread[q]
  <2>1. thread' = [thread EXCEPT ![r].status = "running"]
    BY <1>2 DEF AdoptQueued
  <2>2. thread \in [Runs -> ThreadRow]
    BY DEF FenceInv, CoreInv
  <2> QED BY <1>2, <2>1, <2>2 DEF ThreadRow
<1>5. /\ drive'[w].run = r /\ \A v \in Slots \ {w} : drive'[v] = drive[v]
  BY <1>2 DEF AdoptQueued, StartWalk, FenceInv, DriveInv, DriveRow
<1>6. CauseDrive(w, drive'[w], thread', log, program)
  BY <1>3, <1>5 DEF CauseDrive
<1>7. ASSUME NEW q \in Runs
      PROVE  /\ thread'[q].token \in {thread[q].token, w}
             /\ thread'[q].cause \in {thread[q].cause, "none", "cap"}
             /\ thread'[q].status \in {"absent", "queued"} =>
                   thread[q].status \in {"absent", "queued"}
  BY <1>4
<1> QED BY <1>1, <1>5, <1>6, <1>7, CauseQuiet

\* A drive that appends a record of its own walk.
LEMMA WalkCause ==
    ASSUME FenceInv, PlanesInv, CauseInv, NEW w \in Slots, drive[w].pc \in Walking,
           HoldsThread(w, drive[w].run), program' = program,
           NEW x \in {"call", "cap", "wait", "artifact"},
           log' = [log EXCEPT ![drive[w].run] = Append(@, x)],
           x = "cap" => Spent(log[drive[w].run]),
           \A q \in Runs \ {drive[w].run} : thread'[q] = thread[q],
           thread'[drive[w].run].token = w,
           thread'[drive[w].run].status \notin {"absent", "queued"},
           thread'[drive[w].run].cause = "signal" =>
              /\ x # "call"
              /\ Count(log[drive[w].run], "call") = program[drive[w].run].calls,
           \A v \in Slots \ {w} : drive'[v] = drive[v],
           drive'[w].run = drive[w].run, drive'[w].pc \in Causal => x = "call"
    PROVE  CauseInv'
<1> DEFINE r == drive[w].run
<1> DEFINE s == Append(log[r], x)
<1>1. drive[w].pc # "idle"
  BY DEF Walking
<1>2. /\ r \in Runs /\ log[r] \in Seq(Kinds) /\ thread[r].token = w
      /\ CauseRun(program[r], thread[r], log[r]) /\ x \in Kinds /\ x # "give_up"
  BY <1>1, RunFacts DEF CauseInv, HoldsThread, Kinds
<1>3. s \in Seq(Kinds) /\ log' = [log EXCEPT ![r] = s] /\ log'[r] = s
  BY <1>2, AppendFacts DEF FenceInv, CoreInv
<1>4. CauseRun(program[r], thread'[r], s)
  <2>1. Count(s, "call") = Count(log[r], "call") \/ x = "call"
    BY <1>2, CountAppend
  <2>2. SpentOnce(s)
    BY <1>2, SpentOnceAppend DEF CauseRun
  <2>3. Clean(log[r]) => Clean(s)
    BY <1>2, CleanAppend
  <2> HIDE DEF s
  <2> QED BY <1>2, <2>1, <2>2, <2>3 DEF CauseRun
<1>5. x = "call" => Spent(s)
  <2>1. ASSUME x = "call" PROVE Spent(s)
    BY <1>2, <2>1, SpentAppend
  <2> QED BY <2>1
<1> HIDE DEF s
<1>6. CauseDrive(w, drive'[w], thread', log', program)
  BY <1>3, <1>5 DEF CauseDrive
<1>7. \A q \in Runs \ {r} : thread'[q] = thread[q]
  OBVIOUS
<1> QED BY <1>2, <1>3, <1>4, <1>6, <1>7, CauseMoves

LEMMA CommitCause ==
    ASSUME FenceInv, PlanesInv, CauseInv, NEW w \in Slots,
           CommitCall(w) \/ CommitArtifact(w)
    PROVE  CauseInv'
<1> DEFINE r == drive[w].run
<1>1. /\ drive[w].pc \in Walking /\ UNCHANGED <<program, thread>>
  BY DEF CommitCall, CommitArtifact, Waited, AfterCalls, Walking
<1>2. CASE End(w) /\ log' = log
  BY <1>1, <1>2, ExitCause
<1>3. CASE HoldsThread(w, r)
  <2>1. /\ r \in Runs /\ thread[r].token = w /\ thread[r].status = "running"
        /\ thread[r].cause = "none"
    BY <1>1, <1>3, WalkOwn DEF HoldsThread, FenceInv, CoreInv
  <2>2. /\ drive'[w].run = r /\ \A v \in Slots \ {w} : drive'[v] = drive[v]
        /\ drive'[w].pc \in Causal => CommitCall(w)
    <3>1. drive \in [Slots -> DriveRow]
      BY DEF FenceInv, DriveInv
    <3>2. CASE CommitCall(w)
      BY <1>3, <3>1, <3>2 DEF CommitCall, DriveRow
    <3>3. CASE CommitArtifact(w)
      BY <1>3, <3>1, <3>3 DEF CommitArtifact, DriveRow, Causal
    <3> QED BY <3>2, <3>3
  <2>3. CASE CommitCall(w)
    <3>1. log' = [log EXCEPT ![r] = Append(@, "call")]
      BY <1>3, <2>3 DEF CommitCall
    <3> QED BY <1>1, <1>3, <2>1, <2>2, <3>1, WalkCause
  <2>4. CASE CommitArtifact(w) /\ ~CommitCall(w)
    <3>1. log' = [log EXCEPT ![r] = Append(@, "artifact")]
      BY <1>3, <2>4 DEF CommitArtifact
    <3> QED BY <1>1, <1>3, <2>1, <2>2, <2>4, <3>1, WalkCause
  <2> QED BY <2>3, <2>4
<1> QED BY <1>2, <1>3 DEF CommitCall, CommitArtifact

\* A suspension: at a cap only when the log's give-ups are spent, for the
\* signal only when every call is made.
LEMMA WaitCause ==
    ASSUME FenceInv, PlanesInv, CauseInv, NEW w \in Slots,
           DisposeOverCap(w) \/ DurableWait(w)
    PROVE  CauseInv'
<1> DEFINE r == drive[w].run
<1>1. /\ drive[w].pc \in {"over_cap", "walk"} /\ program' = program
      /\ drive[w].pc \in Walking
  BY DEF DisposeOverCap, DurableWait, AfterCalls, Walking
<1>2. CASE Goto(w, "fail") /\ UNCHANGED core
  BY <1>1, <1>2, GotoCause DEF core, Causal
<1>3. CASE End(w) /\ UNCHANGED core
  BY <1>1, <1>3, ExitCause DEF core
<1>4. CASE HoldsThread(w, r) /\ thread[r].status = "running"
           /\ ~(Goto(w, "fail") /\ UNCHANGED core)
  <2>1. /\ r \in Runs /\ thread[r] \in ThreadRow /\ thread[r].token = w
        /\ log[r] \in Seq(Kinds) /\ program[r] \in Program /\ drive[w] \in DriveRow
        /\ Fits(drive[w], job, program) /\ Mirrors(w, drive[w], thread, log)
    BY <1>1, <1>4, RunFacts DEF HoldsThread
  <2>2. drive[w].done = Count(log[r], "call")
    BY <1>1, <2>1 DEF Mirrors, Derived
  <2>3. PICK x \in {"cap", "wait"}, c \in {"cap", "signal"}, wk \in {"armed", "none"} :
           /\ Suspend(w, x, c, wk)
           /\ c = "signal" => AfterCalls(w)
           /\ x = "cap" => /\ drive[w].pc = "over_cap"
                           /\ program[r].cap = "throttle_queue" \/ drive[w].cause = "none"
    BY <1>4 DEF DisposeOverCap, DurableWait
  <2>4. /\ thread' = [thread EXCEPT ![r].status = "suspended", ![r].cause = c,
                                    ![r].wake = wk]
        /\ log' = [log EXCEPT ![r] = Append(@, x)] /\ Goto(w, "park")
    BY <1>4, <2>3 DEF Suspend
  <2>5. /\ thread'[r].token = w /\ thread'[r].status = "suspended"
        /\ thread'[r].cause = c /\ \A q \in Runs \ {r} : thread'[q] = thread[q]
    BY <2>1, <2>4 DEF FenceInv, CoreInv, ThreadRow
  <2>6. x = "cap" => Spent(log[r])
    <3>1. CASE x = "cap" /\ program[r].cap = "throttle_queue"
      BY <2>1, <3>1, CleanSpent DEF CauseInv, CauseRun
    <3>2. CASE x = "cap" /\ drive[w].cause = "none"
      BY <2>1, <2>3, <3>2 DEF CauseInv, CauseDrive, Causal, Fits
    <3> QED BY <2>3, <3>1, <3>2
  <2>7. c = "signal" => Count(log[r], "call") = program[r].calls
    <3>1. drive[w].done \in Nat /\ program[r].calls \in Nat
          /\ drive[w].done <= program[r].calls
      BY <1>1, <2>1 DEF Fits, DriveRow, Program
    <3> QED BY <2>2, <2>3, <3>1 DEF AfterCalls
  <2>8. /\ drive'[w].run = r /\ drive'[w].pc \notin Causal
        /\ \A v \in Slots \ {w} : drive'[v] = drive[v]
    BY <2>4, GotoFields DEF Causal
  <2> QED BY <1>1, <1>4, <2>3, <2>4, <2>5, <2>6, <2>7, <2>8, WalkCause
<1> QED BY <1>2, <1>3, <1>4 DEF DisposeOverCap, DurableWait, Suspend

LEMMA EnqueueCause ==
    ASSUME FenceInv, CauseInv, NEW r \in Runs, Enqueue(r)
    PROVE  CauseInv'
<1>1. job[r].state = "absent" /\ UNCHANGED <<thread, log, drive>>
  BY DEF Enqueue, core
<1>2. \A q \in Runs \ {r} : program'[q] = program[q]
  BY DEF Enqueue, FenceInv, CoreInv
<1>3. thread[r] = NoThread /\ log[r] = <<>>
  BY <1>1 DEF FenceInv, CoreInv
<1>4. CauseRun(program'[r], thread[r], log[r])
  <2>1. DOMAIN <<>> = {}
    OBVIOUS
  <2> QED BY <1>3, <2>1 DEF CauseRun, Clean, SpentOnce, NoThread
<1>5. \A q \in Runs : CauseRun(program'[q], thread'[q], log'[q])
  BY <1>1, <1>2, <1>4 DEF CauseInv
<1>6. ASSUME NEW w \in Slots PROVE CauseDrive(w, drive'[w], thread', log', program')
  <2>1. drive[w].pc # "idle" => drive[w].run \in Runs \ {r}
    BY <1>1, RunFacts
  <2>2. "idle" \notin Causal
    BY DEF Causal
  <2> QED BY <1>1, <1>2, <2>1, <2>2 DEF CauseInv, CauseDrive
<1> QED BY <1>5, <1>6 DEF CauseInv

LEMMA ClaimCause ==
    ASSUME FenceInv, CauseInv, NEW w \in Slots, NEW r \in Runs, Claim(w, r)
    PROVE  CauseInv'
<1>1. UNCHANGED <<program, log, thread>>
  BY DEF Claim, core
<1>2. drive'[w].pc = "ensure" /\ \A v \in Slots \ {w} : drive'[v] = drive[v]
  BY DEF Claim, Idle, FenceInv, DriveInv
<1>3. "ensure" \notin Causal
  BY DEF Causal
<1> QED BY <1>1, <1>2, <1>3, LeaveCause

LEMMA StandingCause ==
    ASSUME FenceInv, CauseInv,
           \/ \E r \in Runs : \/ ReclaimExpired(r) \/ RequestCancel(r) \/ Lapse(r)
                              \/ SweepWake(r) \/ SweepCancel(r) \/ Elapse(r)
                              \/ Signal(r) \/ SettleHold(r)
           \/ \E w \in Slots : Heartbeat(w) \/ HeartbeatError(w) \/ Stall(w)
           \/ \E t \in Tenants : CapSync(t)
           \/ ScanWakes
           \/ UNCHANGED vars
    PROVE  CauseInv'
<1>1. UNCHANGED <<program, log>>
  BY DEF ReclaimExpired, RequestCancel, Lapse, SweepWake, SweepCancel, Elapse, Signal,
         SettleHold, Heartbeat, HeartbeatError, Stall, CapSync, ScanWakes, vars, core
<1>2. \/ thread' = thread
      \/ \E r \in Runs : thread' = [thread EXCEPT ![r].wake = "due"]
  BY DEF ReclaimExpired, RequestCancel, Lapse, SweepWake, SweepCancel, Elapse, Signal,
         SettleHold, Heartbeat, HeartbeatError, Stall, CapSync, ScanWakes, vars, core
<1>3. \/ drive' = drive
      \/ \E w \in Slots : \E b : drive' = [drive EXCEPT ![w].watch = b]
  BY DEF ReclaimExpired, RequestCancel, Lapse, SweepWake, SweepCancel, Elapse, Signal,
         SettleHold, Heartbeat, HeartbeatError, Stall, CapSync, ScanWakes, vars
<1>4. \A r \in Runs : /\ thread'[r].token = thread[r].token
                      /\ thread'[r].cause = thread[r].cause
                      /\ thread'[r].status = thread[r].status
  <2>1. thread \in [Runs -> ThreadRow]
    BY DEF FenceInv, CoreInv
  <2>2. ASSUME NEW r \in Runs, thread' = [thread EXCEPT ![r].wake = "due"]
        PROVE  \A q \in Runs : /\ thread'[q].token = thread[q].token
                                /\ thread'[q].cause = thread[q].cause
                                /\ thread'[q].status = thread[q].status
    BY <2>1, <2>2 DEF ThreadRow
  <2> QED BY <1>2, <2>2
<1>5. \A v \in Slots :
         /\ drive'[v].pc = drive[v].pc /\ drive'[v].run = drive[v].run
         /\ drive'[v].cause = drive[v].cause /\ drive'[v].done = drive[v].done
  BY <1>3 DEF FenceInv, DriveInv, DriveRow
<1> QED BY <1>1, <1>4, <1>5, StandCause

LEMMA CauseStep == FenceInv /\ PlanesInv /\ CauseInv /\ [Next]_vars => CauseInv'
<1> SUFFICES ASSUME FenceInv, PlanesInv, CauseInv, [Next]_vars PROVE CauseInv'
  OBVIOUS
<1>1. ASSUME NEW r \in Runs, Enqueue(r) PROVE CauseInv'
  BY <1>1, EnqueueCause
<1>2. ASSUME NEW r \in Runs, NEW w \in Slots, Claim(w, r) PROVE CauseInv'
  BY <1>2, ClaimCause
<1>3. ASSUME NEW w \in Slots, Step(w) PROVE CauseInv'
  BY <1>3, AdoptCause, OpenInputCause, ReDeriveCause, DisarmCause,
     AdoptResolveCause, AdoptQueuedCause, CommitCause, WaitCause, QuietCause
     DEF Step
<1>4. ASSUME NEW w \in Slots,
             Refuse(w, "over_cap") \/ Refuse(w, "not_entitled") \/ Die(w)
      PROVE  CauseInv'
  BY <1>4, QuietCause
<1> QED BY <1>1, <1>2, <1>3, <1>4, StandingCause DEF Next

LEMMA CauseInit == Init => CauseInv
<1> SUFFICES ASSUME Init PROVE CauseInv
  OBVIOUS
<1>1. DOMAIN <<>> = {}
  OBVIOUS
<1>2. \A r \in Runs : CauseRun(program[r], thread[r], log[r])
  BY <1>1 DEF Init, CauseRun, Clean, SpentOnce, NoThread
<1>3. \A w \in Slots : CauseDrive(w, drive[w], thread, log, program)
  BY DEF Init, CauseDrive, Causal, Idle
<1> QED BY <1>2, <1>3 DEF CauseInv

\* While no drive outlives its lease before its heartbeat starts, a hard stop
\* waits for credit once: no cap wait follows a give-up with no call between
\* (WakeCause, dispose_cap_refusal).
THEOREM GiveUpSpentOnceHolds ==
    ASSUME ~SlowAdoption
    PROVE  Spec => []GiveUpSpentOnce
<1>1. CauseInv => GiveUpSpentOnce
  BY DEF CauseInv, CauseRun, SpentOnce, GiveUpSpentOnce
<1>2. FenceInv /\ PlanesInv /\ [Next]_vars => PlanesInv'
  BY PlanesStep
<1> QED
  BY <1>1, <1>2, FenceInit, FenceStep, PlanesInit, CauseInit, CauseStep, PTL DEF Spec
=============================================================================
