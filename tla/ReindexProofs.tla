--------------------------- MODULE ReindexProofs ---------------------------
(* The safety of the move to a new embedding profile, for every corpus, any  *)
(* number of workers and of commits, and every bound.  Inv is what holds     *)
(* whatever the processes do; the invariants on top of it (Paired, Covered,  *)
(* Verified, WithinCap) each have the hypothesis its theorem names.          *)
EXTENDS Reindex, FiniteSetTheorems, WellFoundedInduction, TLAPS

-----------------------------------------------------------------------------
(* The inductive invariant.                                                  *)

WorkerRow ==
    [pc : {"idle", "enrol", "find", "tasks", "call", "write", "bump", "index",
           "sweep", "check", "probe", "lock"},
     run : {None} \cup Epochs, prof : {None} \cup Epochs,
     task : {"none", "sweep"} \cup TaskIds,
     good : SUBSET Entities, bad : SUBSET Entities,
     class : {"none", "permanent", "retry"}, geo : {None} \cup 0 .. MaxDrift,
     new : Nat, prev : {None} \cup Nat, drifted : BOOLEAN]

IngestRow ==
    [pc : {"idle", "ready", "begun", "wait", "locked", "unlocked", "writing",
           "done"},
     prof : {None} \cup Epochs, geo : {None} \cup 0 .. MaxDrift,
     tries : 0 .. MaxReembeds]

OperatorRow ==
    [probed : [target : Targets \cup {"none"}, probe : {None} \cup 0 .. MaxDrift],
     cancel : [run : {None} \cup Epochs, from : {"none", "queued", "running"}]]

ProfileRow == [state : ProfileStates, target : Targets \cup {"none"},
               probe : {None} \cup 0 .. MaxDrift]
RunRow == [state : RunStates, enumerated : {None} \cup 0 .. Cardinality(Items),
           tally : Nat]
TaskRow == [state : {"none", "pending", "claimed", "complete", "dead"},
            attempt : 0 .. MaxAttempts]

Rows ==
    /\ profile \in [Epochs -> ProfileRow] /\ run \in [Epochs -> RunRow]
    /\ tasks \in [TaskIds -> TaskRow]
    /\ corpus \subseteq Entities
    /\ rows \in [Epochs -> [Entities -> {None} \cup 0 .. MaxDrift]]
    /\ quarantined \in [Epochs -> SUBSET Entities]
    /\ worker \in [Workers -> WorkerRow] /\ ingest \in [Ingesters -> IngestRow]
    /\ operator \in OperatorRow
    /\ drift \in 0 .. MaxDrift /\ faults \in 0 .. MaxFaults
    /\ uncounted \subseteq Epochs

\* Epochs are used in order, a profile that is building has a live run, and at
\* most one run is live, the newest; some profile serves.
Flight ==
    /\ profile[1].state # "none" /\ run[1].state = "none"
    /\ \A e \in Epochs \ {1} : profile[e].state = "none" <=> run[e].state = "none"
    /\ \A e, f \in Epochs : profile[e].state = "none" /\ e < f
                                => profile[f].state = "none"
    /\ \A e \in Epochs : profile[e].state = "building" => Live(e)
    /\ \A e, f \in Epochs : Live(e) /\ profile[f].state # "none" => f <= e
    /\ \E e \in Epochs : profile[e].state = "complete"
    /\ operator.probed # NoTarget => \E e \in Epochs : profile[e].state = "none"
    /\ operator.cancel # NoCancel =>
          /\ operator.cancel.run \in Epochs
          /\ operator.cancel.from \in {"queued", "running"}
          /\ run[operator.cancel.run].state # "none"

\* What a drive relies on at each position: past the claim of a task the
\* profile it builds is its run's, although find_building is not tied to it.
Fits(me) ==
    /\ me.pc # "idle" => /\ me.run \in Epochs
                         /\ run[me.run].state \notin {"none", "queued"}
    /\ me.pc \notin {"idle", "enrol"} => run[me.run].enumerated # None
    /\ me.pc \notin {"idle", "enrol", "find"} =>
          me.prof \in Epochs /\ profile[me.prof].state # "none"
    /\ me.pc = "tasks" /\ Live(me.run) => me.prof = me.run
    /\ me.pc \notin {"idle", "enrol", "find", "tasks"} => me.prof = me.run
    /\ me.pc = "call" => me.task \in TaskIds
    /\ me.pc \in {"write", "bump"} => me.task # "none"
    /\ me.pc \in {"sweep", "check", "probe", "lock"} => me.task = "sweep"
    /\ me.pc = "write" => me.geo \in 0 .. drift
    /\ me.pc # "bump" => me.new = 0

\* A commit embeds against a profile that serves or has served.
Embeds(me) ==
    me.pc \notin {"idle", "done"} =>
       /\ me.prof \in Epochs /\ me.geo \in 0 .. drift
       /\ profile[me.prof].state \in {"complete", "superseded"}

Drives == /\ \A w \in Workers : Fits(worker[w])
          /\ \A c \in Ingesters : Embeds(ingest[c])

\* T[e] holds the quarantined items that run e's tally counts, N[w] those that
\* drive w has recorded and not counted yet; a crash loses the latter.
Counts(T, N) ==
    /\ \A e \in Epochs : /\ T[e] \subseteq Items /\ T[e] \subseteq quarantined[e]
                         /\ run[e].tally = Cardinality(T[e])
    /\ \A w \in Workers :
          /\ N[w] \subseteq Items /\ worker[w].new = Cardinality(N[w])
          /\ \A x \in N[w] : x \in quarantined[worker[w].run] \ T[worker[w].run]
    /\ \A v, w \in Workers : v # w /\ worker[v].run = worker[w].run
                                => N[v] \cap N[w] = {}
    /\ \A e \in Epochs \ uncounted : \A x \in quarantined[e] \cap Items :
          x \in T[e] \/ \E w \in Workers : x \in N[w] /\ worker[w].run = e

Tallied == \E T \in [Epochs -> SUBSET Items], N \in [Workers -> SUBSET Items] :
              Counts(T, N)

Inv == Rows /\ Flight /\ Drives /\ Tallied

-----------------------------------------------------------------------------
(* The invariants that need a hypothesis.                                    *)

\* No more than one process drives reindexes.
OneDrive == \A v, w \in Workers : v = w

\* Without a promotion inside a cancel's transaction, the run that a cancel
\* read is in the state it read, or has ended.
Paired ==
    /\ LiveRunHasBuilding
    /\ operator.cancel # NoCancel =>
          \/ run[operator.cancel.run].state = operator.cancel.from
          \/ ~Live(operator.cancel.run)

\* A commit that is past its read of the active profile has that one's vectors.
Covered ==
    /\ ActiveCovered
    /\ \A c \in Ingesters : ingest[c].pc \in {"unlocked", "writing"} =>
                               ingest[c].prof = Active

\* What a drive at the write, or past a probe that agreed, relies on.
Sound(me) ==
    /\ me.pc = "write" => profile[me.prof].probe <= me.geo
    /\ me.pc = "lock" /\ ~me.drifted /\ profile[me.prof].state = "building" =>
          \A x \in Entities : rows[me.prof][x] \in {None, profile[me.prof].probe}

\* Embeddings under a building profile come from its probe's serving or a later
\* one, and all from its probe's when the probe agreed before the lock.
Verified ==
    /\ \A e \in Epochs : profile[e].probe <= drift
    /\ operator.probed.probe <= drift
    /\ \A e \in Epochs, x \in Entities : rows[e][x] <= drift
    /\ \A e \in Epochs : profile[e].state = "none" =>
          \A x \in Entities : rows[e][x] = None
    /\ \A e \in Epochs : profile[e].state = "building" =>
          \A x \in Entities : rows[e][x] \in {None} \cup profile[e].probe .. drift
    /\ \A w \in Workers : Sound(worker[w])

\* Past the check, the run's tally is within the cap.
WithinCap == \A w \in Workers :
                worker[w].pc \in {"probe", "lock"} => ~ExceedsCap(worker[w].run)

-----------------------------------------------------------------------------
(* The constants, and reads of the repositories.                             *)

LEMMA Consts ==
    /\ MaxEpoch \in Nat /\ MaxEpoch >= 1 /\ Epochs = 1 .. MaxEpoch
    /\ 1 \in Epochs /\ Epochs \subseteq Nat /\ None \notin Epochs /\ None = -1
    /\ MaxDrift \in Nat /\ MaxFaults \in Nat
    /\ MaxAttempts \in Nat /\ MaxReembeds \in Nat
    /\ CapDivisor \in Nat /\ CapDivisor >= 1
    /\ IsFiniteSet(Items) /\ IsFiniteSet(Entities)
    /\ Cardinality(Items) \in Nat
    /\ Items \subseteq Entities /\ Tags \subseteq Entities /\ Tags \subseteq TaskIds
    /\ "none" \notin TaskIds /\ "sweep" \notin TaskIds
    /\ Seed \subseteq Entities /\ Bootstrap \in Targets
    /\ \A c \in Ingesters : Brings[c] \subseteq Entities
<1>1. /\ MaxEpoch \in Nat \ {0} /\ CapDivisor \in Nat \ {0}
      /\ MaxDrift \in Nat /\ MaxFaults \in Nat
      /\ MaxAttempts \in Nat /\ MaxReembeds \in Nat
      /\ IsFiniteSet(Items) /\ IsFiniteSet(Tags) /\ Targets # {}
      /\ Seed \subseteq Entities /\ Brings \in [Ingesters -> SUBSET Entities]
      /\ {"range", "none", "sweep"} \cap Tags = {}
  BY ReindexAssumption
<1>2. /\ MaxEpoch >= 1 /\ 1 \in Epochs /\ Epochs \subseteq Nat /\ None \notin Epochs
      /\ CapDivisor >= 1 /\ CapDivisor \in Nat /\ MaxEpoch \in Nat
  BY <1>1 DEF Epochs, None
<1>3. IsFiniteSet(Entities) /\ Cardinality(Items) \in Nat
  BY <1>1, FS_Union, FS_CardinalityType DEF Entities
<1>4. Bootstrap \in Targets
  BY <1>1 DEF Bootstrap
<1> QED
  BY <1>1, <1>2, <1>3, <1>4 DEF Epochs, None, Entities, TaskIds

\* A set of naturals has a smallest member.
LEMMA NatSetMin ==
    ASSUME NEW S, S \subseteq Nat, S # {}
    PROVE  \E m \in S : \A y \in S : m <= y
<1> DEFINE R == OpToRel(<, Nat)
<1>1. \A x, y \in Nat : x < y => <<x, y>> \in R
  BY Zenon DEF OpToRel
<1>2. IsWellFoundedOn(R, Nat)
  BY NatLessThanWellFounded
<1> HIDE DEF R
<1>3. PICK m \in S : \A y \in S : ~(<<y, m>> \in R)
  BY <1>2, WFMin, Zenon
<1>4. ASSUME NEW y \in S PROVE m <= y
  <2>1. m \in Nat /\ y \in Nat
    BY <1>4
  <2>2. ~(y < m)
    BY <1>1, <1>3, <1>4, <2>1
  <2> QED
    BY <2>1, <2>2
<1> QED
  BY <1>4

LEMMA EpochMin ==
    ASSUME NEW S, S \subseteq Epochs, S # {}
    PROVE  \E m \in S : \A y \in S : m <= y
BY Consts, NatSetMin

LEMMA EpochMax ==
    ASSUME NEW S, S \subseteq Epochs, S # {}
    PROVE  \E m \in S : \A y \in S : y <= m
<1> DEFINE T == {k \in 0 .. MaxEpoch : MaxEpoch - k \in S}
<1>1. ASSUME NEW x \in S
      PROVE  MaxEpoch - x \in T /\ MaxEpoch - x \in Nat /\ x \in Nat
  <2>1. x \in 1 .. MaxEpoch /\ MaxEpoch \in Nat
    BY Consts
  <2>2. MaxEpoch - x \in 0 .. MaxEpoch /\ MaxEpoch - (MaxEpoch - x) = x
    BY <2>1
  <2> QED
    BY <2>1, <2>2
<1>2. T \subseteq Nat /\ T # {}
  <2>1. PICK x \in S : TRUE
    OBVIOUS
  <2>2. MaxEpoch - x \in T
    BY <1>1
  <2>3. T \subseteq Nat
    OBVIOUS
  <2> QED
    BY <2>2, <2>3
<1>3. PICK m \in T : \A y \in T : m <= y
  <2> HIDE DEF T
  <2> QED
    BY <1>2, NatSetMin
<1>4. MaxEpoch - m \in S /\ m \in Nat
  BY <1>3
<1>5. ASSUME NEW y \in S PROVE y <= MaxEpoch - m
  <2>1. m <= MaxEpoch - y /\ MaxEpoch - y \in Nat /\ y \in Nat
    BY <1>1, <1>3
  <2> QED
    BY <1>4, <2>1, Consts
<1> QED
  BY <1>4, <1>5

LEMMA ActiveIs ==
    ASSUME Flight
    PROVE  /\ Active \in Epochs /\ profile[Active].state = "complete"
           /\ \A f \in Epochs : profile[f].state = "complete" => f <= Active
<1> DEFINE S == {e \in Epochs : profile[e].state = "complete"}
<1>1. S # {} /\ S \subseteq Epochs
  BY DEF Flight
<1>2. \E m \in S : \A y \in S : y <= m
  <2> HIDE DEF S
  <2> QED
    BY <1>1, EpochMax
<1>3. \E e \in Epochs : /\ profile[e].state = "complete"
                        /\ \A f \in Epochs : profile[f].state = "complete" => f <= e
  BY <1>2
<1> QED
  BY <1>3 DEF Active

LEMMA LiveIs ==
    ASSUME Flight
    PROVE  /\ \A e, f \in Epochs : Live(e) /\ Live(f) => e = f
           /\ \A e \in Epochs : Live(e) => profile[e].state # "none"
           /\ FindLive = {e \in Epochs : Live(e)}
<1>1. \A e \in Epochs : Live(e) => profile[e].state # "none"
  BY DEF Flight, Live
<1>2. \A e, f \in Epochs : Live(e) /\ Live(f) => e = f
  BY <1>1, Consts DEF Flight
<1>3. FindLive = {e \in Epochs : Live(e)}
  BY <1>2, Consts DEF FindLive
<1> QED
  BY <1>1, <1>2, <1>3

\* Any profile that is building is the only one, so find_building finds it.
LEMMA BuildingIs ==
    ASSUME Flight
    PROVE  FindBuilding = {e \in Epochs : profile[e].state = "building"}
BY LiveIs, Consts DEF Flight, FindBuilding

\* Boot finds nothing to reconcile.
LEMMA ReconcileIdle == ASSUME Flight, Reconcile PROVE profile' = profile
BY LiveIs, BuildingIs DEF Flight, Reconcile

LEMMA MissingFinite ==
    ASSUME Rows, NEW e \in Epochs
    PROVE  /\ Missing(e) \subseteq Entities /\ IsFiniteSet(Missing(e))
           /\ Remaining(e) \in Nat /\ (Remaining(e) = 0 => Missing(e) = {})
           /\ Cardinality(Missing(e) \cap Items) \in 0 .. Cardinality(Items)
<1>1. Missing(e) \subseteq Entities
  BY DEF Rows, Missing
<1>2. IsFiniteSet(Missing(e))
  BY <1>1, Consts, FS_Subset
<1>3. Cardinality(Missing(e)) \in Nat
  BY <1>2, FS_CardinalityType
<1>4. Cardinality(Missing(e)) = 0 => Missing(e) = {}
  BY <1>2, FS_EmptySet
<1> DEFINE M == Missing(e) \cap Items
<1>5. M \in SUBSET Items
  OBVIOUS
<1> HIDE DEF M
<1>6. Cardinality(M) \in Nat /\ Cardinality(M) <= Cardinality(Items)
  BY <1>5, Consts, FS_Subset, FS_CardinalityType
<1> QED
  BY <1>1, <1>2, <1>3, <1>4, <1>6, Consts DEF Remaining, M

-----------------------------------------------------------------------------
(* What a step may do, and what that keeps.                                  *)

\* Profiles and runs only move on: every step but a create and a prune.
EpochMoves ==
    \A e \in Epochs :
       /\ \/ profile'[e].state = profile[e].state
          \/ /\ profile[e].state = "building"
             /\ profile'[e].state \in {"failed", "complete"}
       /\ \/ run'[e].state = run[e].state
          \/ Live(e) /\ run'[e].state \in RunStates \ {"none", "queued"}
       /\ run[e].enumerated # None => run'[e].enumerated # None
       /\ profile'[e].state = "building" => run'[e].state \in {"queued", "running"}

\* What no step undoes.
Forward ==
    /\ drift <= drift'
    /\ \A e \in Epochs :
          /\ profile[e].state # "none" => profile'[e].state # "none"
          /\ profile[e].state \in {"complete", "superseded"} =>
                profile'[e].state \in {"complete", "superseded"}
          /\ run[e].state \notin {"none", "queued"} =>
                run'[e].state \notin {"none", "queued"}
          /\ run[e].state \notin {"none", "queued", "running"} =>
                run'[e].state \notin {"none", "queued", "running"}
          /\ run[e].enumerated # None => run'[e].enumerated # None

LEMMA MovesForward ==
    ASSUME EpochMoves, drift <= drift'
    PROVE  Forward
BY DEF EpochMoves, Forward, Live, RunStates

LEMMA FlightMoves ==
    ASSUME Flight, EpochMoves,
           operator'.probed \in {operator.probed, NoTarget},
           operator'.cancel \in {operator.cancel, NoCancel}
    PROVE  Flight'
<1>1. \A e \in Epochs :
         /\ profile'[e].state = "none" <=> profile[e].state = "none"
         /\ run'[e].state = "none" <=> run[e].state = "none"
         /\ run'[e].state \in {"queued", "running"} => Live(e)
         /\ profile[e].state = "complete" => profile'[e].state = "complete"
  BY DEF EpochMoves, Live, RunStates
<1>2. \A e \in Epochs : Live(e)' <=> run'[e].state \in {"queued", "running"}
  BY DEF Live
<1>3. profile'[1].state # "none" /\ run'[1].state = "none"
  BY <1>1, Consts DEF Flight
<1>4. \A e \in Epochs \ {1} : profile'[e].state = "none" <=> run'[e].state = "none"
  BY <1>1 DEF Flight
<1>5. \A e, f \in Epochs : profile'[e].state = "none" /\ e < f
                                => profile'[f].state = "none"
  BY <1>1 DEF Flight
<1>6. \A e \in Epochs : profile'[e].state = "building" => Live(e)'
  BY <1>2 DEF EpochMoves
<1>7. \A e, f \in Epochs : Live(e)' /\ profile'[f].state # "none" => f <= e
  BY <1>1, <1>2 DEF Flight
<1>8. \E e \in Epochs : profile'[e].state = "complete"
  BY <1>1 DEF Flight
<1>9. /\ operator'.probed # NoTarget => \E e \in Epochs : profile'[e].state = "none"
      /\ operator'.cancel # NoCancel =>
            /\ operator'.cancel.run \in Epochs
            /\ operator'.cancel.from \in {"queued", "running"}
            /\ run'[operator'.cancel.run].state # "none"
  BY <1>1 DEF Flight
<1> QED
  BY <1>3, <1>4, <1>5, <1>6, <1>7, <1>8, <1>9 DEF Flight

\* Forward keeps what a position, once reached, relies on.
LEMMA FitsForward ==
    ASSUME drift \in Nat, drift' \in Nat, Forward, NEW me, Fits(me)
    PROVE  Fits(me)'
<1>1. \A g : g \in 0 .. drift => g \in 0 .. drift'
  BY DEF Forward
<1>2. me.pc = "write" => me.geo \in 0 .. drift'
  BY <1>1 DEF Fits
<1>3. me.pc # "idle" => /\ me.run \in Epochs
                        /\ run'[me.run].state \notin {"none", "queued"}
  BY DEF Forward, Fits
<1>4. me.pc \notin {"idle", "enrol"} => run'[me.run].enumerated # None
  BY DEF Forward, Fits
<1>5. me.pc \notin {"idle", "enrol", "find"} =>
          me.prof \in Epochs /\ profile'[me.prof].state # "none"
  BY DEF Forward, Fits
<1>6. me.pc = "tasks" /\ Live(me.run)' => me.prof = me.run
  BY <1>3 DEF Forward, Fits, Live
<1> QED
  BY <1>2, <1>3, <1>4, <1>5, <1>6 DEF Fits

LEMMA EmbedsForward ==
    ASSUME drift \in Nat, drift' \in Nat, Forward, NEW me, Embeds(me)
    PROVE  Embeds(me)'
<1>1. \A g : g \in 0 .. drift => g \in 0 .. drift'
  BY DEF Forward
<1> QED
  BY <1>1 DEF Forward, Embeds

-----------------------------------------------------------------------------
(* A step of a drive, and of a commit.                                       *)

\* A drive whose count is zero has recorded nothing that is not counted.
LEMMA NothingNew ==
    ASSUME NEW N \in SUBSET Items, Cardinality(N) = 0
    PROVE  N = {}
<1>1. IsFiniteSet(N)
  BY Consts, FS_Subset
<1> QED
  BY <1>1, FS_EmptySet

LEMMA TalliedKept ==
    ASSUME Tallied, UNCHANGED <<quarantined, worker, uncounted>>,
           \A e \in Epochs : run'[e].tally = run[e].tally
    PROVE  Tallied'
<1>1. PICK T \in [Epochs -> SUBSET Items], N \in [Workers -> SUBSET Items] :
         Counts(T, N)
  BY DEF Tallied
<1>2. Counts(T, N)'
  BY <1>1 DEF Counts
<1> QED
  BY <1>2 DEF Tallied

LEMMA TalliedMoves ==
    ASSUME Tallied, worker \in [Workers -> WorkerRow],
           NEW w \in Workers, NEW rec, Set(w, rec),
           worker[w].new = 0, rec.new = 0,
           UNCHANGED <<quarantined, uncounted>>,
           \A e \in Epochs : run'[e].tally = run[e].tally
    PROVE  Tallied'
<1>1. PICK T \in [Epochs -> SUBSET Items], N \in [Workers -> SUBSET Items] :
         Counts(T, N)
  BY DEF Tallied
<1>2. N[w] = {}
  BY <1>1, NothingNew DEF Counts
<1>3. /\ worker'[w] = rec
      /\ \A v \in Workers : v # w => worker'[v] = worker[v]
  BY DEF Set
<1>4. \A e \in Epochs : /\ T[e] \subseteq Items /\ T[e] \subseteq quarantined'[e]
                        /\ run'[e].tally = Cardinality(T[e])
  BY <1>1 DEF Counts
<1>5. \A v \in Workers :
          /\ N[v] \subseteq Items /\ worker'[v].new = Cardinality(N[v])
          /\ \A x \in N[v] : x \in quarantined'[worker'[v].run] \ T[worker'[v].run]
  BY <1>1, <1>2, <1>3 DEF Counts
<1>6. \A u, v \in Workers : u # v /\ worker'[u].run = worker'[v].run
                                => N[u] \cap N[v] = {}
  BY <1>1, <1>2, <1>3 DEF Counts
<1>7. \A e \in Epochs \ uncounted' : \A x \in quarantined'[e] \cap Items :
          x \in T[e] \/ \E v \in Workers : x \in N[v] /\ worker'[v].run = e
  BY <1>1, <1>2, <1>3 DEF Counts
<1>8. Counts(T, N)'
  BY <1>4, <1>5, <1>6, <1>7 DEF Counts
<1> QED
  BY <1>8 DEF Tallied

LEMMA DrivesMove ==
    ASSUME Drives, Forward, drift \in Nat, drift' \in Nat,
           worker \in [Workers -> WorkerRow],
           NEW w \in Workers, NEW rec, Fits(rec)', Set(w, rec), UNCHANGED ingest
    PROVE  Drives'
<1>1. \A me : Fits(me) => Fits(me)'
  BY FitsForward
<1>2. \A me : Embeds(me) => Embeds(me)'
  BY EmbedsForward
<1>3. /\ worker'[w] = rec
      /\ \A v \in Workers : v # w => worker'[v] = worker[v]
  BY DEF Set
<1>4. \A v \in Workers : Fits(worker[v])'
  BY <1>1, <1>3 DEF Drives
<1>5. \A c \in Ingesters : Embeds(ingest[c])'
  BY <1>2 DEF Drives
<1> QED
  BY <1>4, <1>5 DEF Drives

\* Every step of a drive but a quarantine write, its count and a crash.
LEMMA WorkerStep ==
    ASSUME Inv, EpochMoves, NEW w \in Workers, NEW rec \in WorkerRow,
           Fits(rec)', Set(w, rec), worker[w].new = 0, rec.new = 0,
           profile' \in [Epochs -> ProfileRow], run' \in [Epochs -> RunRow],
           \A e \in Epochs : run'[e].tally = run[e].tally,
           tasks' \in [TaskIds -> TaskRow], faults' \in 0 .. MaxFaults,
           UNCHANGED <<corpus, rows, quarantined, ingest, operator, drift,
                       uncounted>>
    PROVE  Inv'
<1>1. worker' \in [Workers -> WorkerRow]
  BY DEF Inv, Rows, Set
<1>2. Rows'
  BY <1>1 DEF Inv, Rows
<1>3. drift \in Nat /\ drift' \in Nat /\ drift <= drift'
  BY Consts DEF Inv, Rows
<1>4. Flight'
  BY FlightMoves DEF Inv
<1>5. Drives'
  BY <1>3, MovesForward, DrivesMove DEF Inv, Rows
<1>6. Tallied'
  BY TalliedMoves DEF Inv, Rows
<1> QED
  BY <1>2, <1>4, <1>5, <1>6 DEF Inv

\* The profile and the run a drive or a cancel ends, or leaves alone.
LEMMA EndStep ==
    ASSUME Rows, Flight, NEW e \in Epochs, NEW state \in {"failed", "complete"},
           NEW from \in {"queued", "running"},
           NEW to \in {"failed", "completed", "aborted"},
           EndProfile(e, state), MoveRun(e, from, to) \/ UNCHANGED run
    PROVE  /\ EpochMoves
           /\ profile' \in [Epochs -> ProfileRow] /\ run' \in [Epochs -> RunRow]
           /\ \A f \in Epochs : run'[f].tally = run[f].tally
<1>1. /\ profile \in [Epochs -> ProfileRow] /\ run \in [Epochs -> RunRow]
  BY DEF Rows
<1>2. /\ profile' \in [Epochs -> ProfileRow]
      /\ \A f \in Epochs : f # e => profile'[f] = profile[f]
      /\ profile'[e].state = IF profile[e].state = "building"
                             THEN state ELSE profile[e].state
  BY <1>1 DEF EndProfile, ProfileRow, ProfileStates
<1>3. /\ run' \in [Epochs -> RunRow]
      /\ \A f \in Epochs : f # e => run'[f] = run[f]
      /\ run'[e].tally = run[e].tally /\ run'[e].enumerated = run[e].enumerated
      /\ \/ run'[e].state = run[e].state
         \/ run[e].state = from /\ run'[e].state = to
  <2> DEFINE moved == [run EXCEPT ![e].state = to]
  <2>1. moved \in [Epochs -> RunRow]
    BY <1>1 DEF RunRow, RunStates
  <2>2. /\ \A f \in Epochs : f # e => moved[f] = run[f]
        /\ moved[e].tally = run[e].tally /\ moved[e].enumerated = run[e].enumerated
        /\ moved[e].state = to
    BY <1>1 DEF RunRow
  <2>3. run' = run \/ (run[e].state = from /\ run' = moved)
    BY DEF MoveRun
  <2> HIDE DEF moved
  <2>4. CASE run' = run
    BY <1>1, <2>4
  <2>5. CASE run[e].state = from /\ run' = moved
    BY <2>1, <2>2, <2>5
  <2> QED
    BY <2>3, <2>4, <2>5
<1>4. \A f \in Epochs : profile'[f].state = "building" =>
                           run'[f].state \in {"queued", "running"}
  BY <1>2, <1>3 DEF Flight, Live
<1> QED
  BY <1>2, <1>3, <1>4 DEF EpochMoves, Live, RunStates

-----------------------------------------------------------------------------
(* The steps of a drive.                                                     *)

LEMMA AtRow ==
    ASSUME Inv, NEW w \in Workers
    PROVE  \E me \in WorkerRow : me = worker[w] /\ Fits(me)
BY DEF Inv, Rows, Drives

LEMMA IdleFits == IdleWorker \in WorkerRow /\ IdleWorker.new = 0 /\ Fits(IdleWorker)'
BY Consts DEF IdleWorker, WorkerRow, Fits

LEMMA EpochsStay ==
    ASSUME Inv, UNCHANGED <<profile, run>>
    PROVE  /\ EpochMoves
           /\ profile' \in [Epochs -> ProfileRow] /\ run' \in [Epochs -> RunRow]
           /\ \A e \in Epochs : run'[e].tally = run[e].tally
BY DEF Inv, Rows, Flight, EpochMoves, Live

\* A drive that reads, and changes no row of the database.
LEMMA ReadStep ==
    ASSUME Inv, NEW w \in Workers, NEW rec \in WorkerRow,
           Fits(rec)', Set(w, rec), worker[w].new = 0, rec.new = 0,
           tasks' \in [TaskIds -> TaskRow], faults' \in 0 .. MaxFaults,
           UNCHANGED <<profile, run, corpus, rows, quarantined, ingest, operator,
                       drift, uncounted>>
    PROVE  Inv'
BY EpochsStay, WorkerStep

LEMMA PromoteKeeps ==
    ASSUME Inv, NEW w \in Workers, Promote(w)
    PROVE  Inv'
<1>1. worker[w].new = 0
  BY AtRow DEF Promote, At, Fits
<1>2. PICK e \in FindLive :
         /\ MoveRun(e, "queued", "running")
         /\ Set(w, [IdleWorker EXCEPT !.pc = "enrol", !.run = e])
  BY DEF Promote
<1>3. e \in Epochs /\ Live(e)
  BY <1>2 DEF FindLive
<1> DEFINE moved == [run EXCEPT ![e].state = "running"]
<1>4. PICK rec \in WorkerRow :
         /\ rec = [IdleWorker EXCEPT !.pc = "enrol", !.run = e]
         /\ rec.new = 0 /\ rec.pc = "enrol" /\ rec.run = e
  <2>1. [IdleWorker EXCEPT !.pc = "enrol", !.run = e] \in WorkerRow
    BY <1>3, Consts DEF IdleWorker, WorkerRow
  <2> QED
    BY <2>1 DEF IdleWorker
<1>5. /\ run \in [Epochs -> RunRow] /\ profile \in [Epochs -> ProfileRow]
      /\ tasks \in [TaskIds -> TaskRow] /\ faults \in 0 .. MaxFaults
  BY DEF Inv, Rows
<1>6. /\ moved \in [Epochs -> RunRow]
      /\ \A f \in Epochs : f # e => moved[f] = run[f]
      /\ moved[e].tally = run[e].tally /\ moved[e].enumerated = run[e].enumerated
      /\ moved[e].state = "running"
  BY <1>5, <1>3 DEF RunRow, RunStates
<1> HIDE DEF moved
<1>7. run' = moved
  <2>1. CASE run[e].state = "queued"
    BY <1>2, <2>1 DEF MoveRun, moved
  <2>2. CASE run[e].state = "running"
    BY <1>2, <1>3, <1>5, <2>2 DEF MoveRun, moved, RunRow
  <2> QED
    BY <1>3, <2>1, <2>2 DEF Live
<1>8. EpochMoves
  BY <1>3, <1>6, <1>7 DEF Promote, EpochMoves, Live, RunStates, Inv, Flight
<1>9. Fits(rec)'
  BY <1>3, <1>4, <1>6, <1>7 DEF Fits
<1>10. \A f \in Epochs : run'[f].tally = run[f].tally
  BY <1>6, <1>7
<1>11. Set(w, rec)
  BY <1>2, <1>4
<1> QED
  BY <1>1, <1>4, <1>5, <1>6, <1>7, <1>8, <1>9, <1>10, <1>11, WorkerStep DEF Promote

LEMMA EnrolKeeps ==
    ASSUME Inv, NEW w \in Workers, Enrol(w)
    PROVE  Inv'
<1>1. PICK me \in WorkerRow : me = worker[w] /\ Fits(me) /\ me.pc = "enrol"
  BY AtRow DEF Enrol, At
<1>2. PICK e \in Epochs : e = me.run /\ run[e].state \notin {"none", "queued"}
  BY <1>1 DEF Fits
<1>3. PICK rec \in WorkerRow :
         /\ rec = [me EXCEPT !.pc = "find"]
         /\ rec.new = 0 /\ rec.pc = "find" /\ rec.run = e
  <2>1. [me EXCEPT !.pc = "find"] \in WorkerRow
    BY DEF WorkerRow
  <2> QED
    BY <1>1, <1>2, <2>1 DEF WorkerRow, Fits
<1>4. /\ run \in [Epochs -> RunRow] /\ profile \in [Epochs -> ProfileRow]
      /\ tasks \in [TaskIds -> TaskRow] /\ faults \in 0 .. MaxFaults
  BY DEF Inv, Rows
<1>5. PICK n \in 0 .. Cardinality(Items) : n = Cardinality(Missing(e) \cap Items)
  BY MissingFinite DEF Inv
<1>6. n # None
  BY Consts
<1>7. run' = [run EXCEPT ![e].enumerated = n]
         \/ (run[e].enumerated # None /\ run' = run)
  BY <1>1, <1>2, <1>5 DEF Enrol
<1>8. /\ run' \in [Epochs -> RunRow] /\ run'[e].enumerated # None
      /\ \A f \in Epochs : /\ run'[f].state = run[f].state
                           /\ run'[f].tally = run[f].tally
                           /\ run[f].enumerated # None => run'[f].enumerated # None
  <2>1. CASE run' = [run EXCEPT ![e].enumerated = n]
    BY <1>4, <1>6, <2>1 DEF RunRow
  <2>2. CASE run[e].enumerated # None /\ run' = run
    BY <1>4, <2>2
  <2> QED
    BY <1>7, <2>1, <2>2
<1>9. tasks' \in [TaskIds -> TaskRow]
  <2>1. 0 \in 0 .. MaxAttempts
    BY Consts
  <2>2. [state |-> "pending", attempt |-> 0] \in TaskRow
    BY <2>1 DEF TaskRow
  <2> DEFINE enrolled(t) == IF t = "range" THEN Missing(e) \cap Items # {}
                                           ELSE t \in Missing(e)
  <2>3. \/ tasks' = tasks
        \/ tasks' = [t \in TaskIds |->
                       IF enrolled(t) /\ tasks[t].state = "none"
                       THEN [state |-> "pending", attempt |-> 0] ELSE tasks[t]]
    BY <1>1, <1>2 DEF Enrol
  <2> HIDE DEF enrolled
  <2> QED
    BY <1>4, <2>2, <2>3
<1>10. EpochMoves
  BY <1>8 DEF Enrol, EpochMoves, Live, Inv, Flight
<1>11. Fits(rec)'
  BY <1>2, <1>3, <1>8 DEF Fits
<1>12. Set(w, rec) /\ worker[w].new = 0
  BY <1>1, <1>3 DEF Enrol, To, Fits
<1> QED
  BY <1>3, <1>4, <1>8, <1>9, <1>10, <1>11, <1>12, WorkerStep DEF Enrol

LEMMA FindTargetKeeps ==
    ASSUME Inv, NEW w \in Workers, FindTarget(w)
    PROVE  Inv'
<1>1. PICK me \in WorkerRow : me = worker[w] /\ Fits(me) /\ me.pc = "find"
  BY AtRow DEF FindTarget, At
<1>2. /\ me.run \in Epochs /\ run[me.run].state \notin {"none", "queued"}
      /\ run[me.run].enumerated # None /\ me.new = 0
  BY <1>1 DEF Fits
<1>3. tasks' \in [TaskIds -> TaskRow] /\ faults' \in 0 .. MaxFaults
  BY DEF FindTarget, Inv, Rows
<1>4. CASE Yield(w)
  BY <1>1, <1>2, <1>3, <1>4, IdleFits, ReadStep DEF FindTarget, Yield
<1>5. ASSUME NEW b \in FindBuilding, Set(w, [me EXCEPT !.pc = "tasks", !.prof = b])
      PROVE  Inv'
  <2>1. b \in Epochs /\ profile[b].state = "building" /\ Live(b)
    BY <1>5 DEF FindBuilding, Inv, Flight
  <2>2. PICK rec \in WorkerRow :
           /\ rec = [me EXCEPT !.pc = "tasks", !.prof = b] /\ rec.new = 0
           /\ rec.pc = "tasks" /\ rec.prof = b /\ rec.run = me.run
    <3>1. [me EXCEPT !.pc = "tasks", !.prof = b] \in WorkerRow
      BY <2>1 DEF WorkerRow
    <3> QED
      BY <1>2, <3>1 DEF WorkerRow
  <2>3. Live(rec.run) => rec.prof = rec.run
    BY <1>2, <2>1, <2>2, LiveIs DEF Inv
  <2>4. Fits(rec)'
    BY <1>2, <2>1, <2>2, <2>3 DEF Fits, Live, FindTarget
  <2>5. Set(w, rec)
    BY <1>5, <2>2
  <2> QED
    BY <1>1, <1>2, <1>3, <2>2, <2>4, <2>5, ReadStep DEF FindTarget
<1> QED
  BY <1>1, <1>4, <1>5 DEF FindTarget

LEMMA YieldReads ==
    ASSUME Inv, NEW w \in Workers, Yield(w), worker[w].new = 0,
           faults' \in 0 .. MaxFaults,
           UNCHANGED <<profile, run, tasks, corpus, rows, quarantined, ingest,
                       operator, drift, uncounted>>
    PROVE  Inv'
<1>1. tasks' \in [TaskIds -> TaskRow]
  BY DEF Inv, Rows
<1> QED
  BY <1>1, IdleFits, ReadStep DEF Yield

\* fail_run moves the profile and the run of one epoch.
LEMMA FailRunKeeps ==
    ASSUME Inv, NEW w \in Workers, FailRun(w), worker[w].new = 0,
           worker[w].run \in Epochs, worker[w].prof = worker[w].run,
           UNCHANGED <<tasks, corpus, rows, quarantined, ingest, operator, drift,
                       faults, uncounted>>
    PROVE  Inv'
<1>1. PICK e \in Epochs : e = worker[w].run
  OBVIOUS
<1>2. EndProfile(e, "failed") /\ MoveRun(e, "running", "failed")
  BY <1>1 DEF FailRun
<1>3. /\ EpochMoves
      /\ profile' \in [Epochs -> ProfileRow] /\ run' \in [Epochs -> RunRow]
      /\ \A f \in Epochs : run'[f].tally = run[f].tally
  BY <1>2, EndStep DEF Inv
<1>4. tasks' \in [TaskIds -> TaskRow] /\ faults' \in 0 .. MaxFaults
  BY DEF Inv, Rows
<1> QED
  BY <1>3, <1>4, IdleFits, WorkerStep DEF FailRun, Yield

LEMMA ClaimTaskKeeps ==
    ASSUME Inv, NEW w \in Workers, ClaimTask(w)
    PROVE  Inv'
<1>1. PICK me \in WorkerRow : me = worker[w] /\ Fits(me) /\ me.pc = "tasks"
  BY AtRow DEF ClaimTask, At
<1>2. PICK t \in TaskIds :
         /\ tasks' = [tasks EXCEPT ![t].state = "claimed"]
         /\ Set(w, [me EXCEPT !.pc = "call", !.task = t])
  BY <1>1 DEF ClaimTask
<1>3. PICK rec \in WorkerRow : rec = [me EXCEPT !.pc = "call", !.task = t]
  <2>1. [me EXCEPT !.pc = "call", !.task = t] \in WorkerRow
    BY DEF WorkerRow
  <2> QED
    BY <2>1
<1>4. /\ rec.pc = "call" /\ rec.task = t /\ rec.run = me.run /\ rec.prof = me.prof
      /\ rec.new = 0 /\ rec.prof = rec.run
  BY <1>1, <1>3 DEF ClaimTask, Fits, WorkerRow
<1>5. Fits(rec)'
  BY <1>1, <1>4 DEF Fits, ClaimTask
<1>6. tasks' \in [TaskIds -> TaskRow]
  BY <1>2 DEF Inv, Rows, TaskRow
<1>7. faults' \in 0 .. MaxFaults /\ worker[w].new = 0 /\ Set(w, rec)
  BY <1>1, <1>2, <1>3 DEF Inv, Rows, ClaimTask, Fits
<1> QED
  BY <1>4, <1>5, <1>6, <1>7, ReadStep DEF ClaimTask

\* An answer of the provider leads to the write of what it says.
LEMMA AnswerKeeps ==
    ASSUME Inv, NEW w \in Workers, NEW batch \in SUBSET Entities,
           worker[w].pc \in {"call", "sweep"}, Answer(w, batch),
           UNCHANGED <<profile, run, tasks, corpus, rows, quarantined, ingest,
                       operator, drift, uncounted>>
    PROVE  Inv'
<1>1. PICK me \in WorkerRow : me = worker[w] /\ Fits(me)
  BY AtRow
<1>2. PICK bad \in SUBSET batch, class \in {"permanent", "retry"} :
         /\ bad # {} => faults < MaxFaults
         /\ faults' = IF bad = {} THEN faults ELSE faults + 1
         /\ Set(w, [me EXCEPT !.pc = "write", !.good = batch \ bad,
                       !.bad = bad, !.class = class, !.geo = drift])
  BY <1>1 DEF Answer
<1>3. drift \in 0 .. MaxDrift /\ drift \in Nat /\ faults \in 0 .. MaxFaults
  BY Consts DEF Inv, Rows
<1>4. PICK d \in 0 .. MaxDrift : d = drift /\ d \in Nat
  BY <1>3
<1>5. PICK rec \in WorkerRow :
         rec = [me EXCEPT !.pc = "write", !.good = batch \ bad,
                          !.bad = bad, !.class = class, !.geo = d]
  <2>1. [me EXCEPT !.pc = "write", !.good = batch \ bad,
                   !.bad = bad, !.class = class, !.geo = d] \in WorkerRow
    BY <1>2 DEF WorkerRow
  <2> QED
    BY <2>1
<1>6. /\ rec.pc = "write" /\ rec.task = me.task /\ rec.run = me.run
      /\ rec.prof = me.prof /\ rec.new = me.new /\ rec.geo = d
  BY <1>5 DEF WorkerRow
<1>7. me.new = 0 /\ me.task # "none"
  BY <1>1, Consts DEF Fits
<1>8. Fits(rec)'
  BY <1>1, <1>4, <1>6, <1>7 DEF Fits
<1>9. faults' \in 0 .. MaxFaults
  BY <1>2, <1>3, Consts
<1>10. Set(w, rec) /\ worker[w].new = 0 /\ tasks' \in [TaskIds -> TaskRow]
  BY <1>1, <1>2, <1>4, <1>5, <1>7 DEF Inv, Rows
<1> QED
  BY <1>6, <1>7, <1>8, <1>9, <1>10, ReadStep

LEMMA CallTaskKeeps ==
    ASSUME Inv, NEW w \in Workers, CallTask(w)
    PROVE  Inv'
<1>1. PICK me \in WorkerRow : me = worker[w] /\ Fits(me) /\ me.pc = "call"
  BY AtRow DEF CallTask, At
<1>2. me.prof \in Epochs /\ me.task \in TaskIds /\ me.new = 0
  BY <1>1 DEF Fits
<1>3. CASE ~Live(worker[w].run)
  BY <1>1, <1>2, <1>3, YieldReads DEF CallTask, Inv, Rows
<1>4. CASE Live(worker[w].run)
  <2> DEFINE batch == IF worker[w].task = "range"
                      THEN Missing(worker[w].prof) \cap Items
                      ELSE {worker[w].task}
  <2>1. batch \in SUBSET Entities /\ Answer(w, batch)
    BY <1>1, <1>2, <1>4, Consts DEF CallTask, TaskIds, Entities
  <2>2. PICK b \in SUBSET Entities : b = batch
    BY <2>1
  <2> QED
    BY <1>1, <2>1, <2>2, AnswerKeeps DEF CallTask
<1> QED
  BY <1>3, <1>4

LEMMA CallSweepKeeps ==
    ASSUME Inv, NEW w \in Workers, CallSweep(w)
    PROVE  Inv'
<1>1. PICK me \in WorkerRow : me = worker[w] /\ Fits(me) /\ me.pc = "sweep"
  BY AtRow DEF CallSweep, At
<1>2. me.prof \in Epochs
  BY <1>1 DEF Fits
<1>3. PICK b \in SUBSET Entities : b = Missing(worker[w].prof)
  BY <1>1, <1>2, MissingFinite DEF Inv
<1> QED
  BY <1>1, <1>3, AnswerKeeps DEF CallSweep

\* A drive that stays with its run and its profile, at a later position.
LEMMA OnwardKeeps ==
    ASSUME Inv, NEW w \in Workers, NEW me, me = worker[w], Fits(me),
           me.run \in Epochs, me.prof = me.run,
           run[me.run].state \notin {"none", "queued"},
           run[me.run].enumerated # None, profile[me.run].state # "none",
           NEW rec \in WorkerRow, Set(w, rec),
           me.new = 0, rec.new = 0, rec.run = me.run, rec.prof = me.prof,
           \/ rec.pc = "index"
           \/ rec.pc \in {"sweep", "check", "probe", "lock"} /\ rec.task = "sweep",
           faults' \in 0 .. MaxFaults,
           UNCHANGED <<profile, run, tasks, corpus, rows, quarantined, ingest,
                       operator, drift, uncounted>>
    PROVE  Inv'
<1>1. Fits(rec)'
  BY DEF Fits
<1>2. tasks' \in [TaskIds -> TaskRow] /\ worker[w].new = 0
  BY DEF Inv, Rows
<1> QED
  BY <1>1, <1>2, ReadStep

LEMMA AfterTasksKeeps ==
    ASSUME Inv, NEW w \in Workers, AfterTasks(w)
    PROVE  Inv'
<1>1. PICK me \in WorkerRow : me = worker[w] /\ Fits(me) /\ me.pc = "tasks"
  BY AtRow DEF AfterTasks, At
<1>2. /\ me.run \in Epochs /\ run[me.run].state \notin {"none", "queued"}
      /\ run[me.run].enumerated # None /\ me.new = 0
      /\ me.prof \in Epochs /\ profile[me.prof].state # "none"
      /\ Live(me.run) => me.prof = me.run
      /\ faults \in 0 .. MaxFaults
  BY <1>1 DEF Fits, Inv, Rows
<1>3. CASE ~Live(me.run)
  BY <1>1, <1>2, <1>3, YieldReads DEF AfterTasks
<1>4. CASE Live(me.run) /\ FailRun(w)
  BY <1>1, <1>2, <1>4, FailRunKeeps DEF AfterTasks
<1>5. CASE Live(me.run) /\ To(w, "index") /\ UNCHANGED <<profile, run>>
  <2>1. PICK rec \in WorkerRow : rec = [me EXCEPT !.pc = "index"]
    <3>1. [me EXCEPT !.pc = "index"] \in WorkerRow
      BY DEF WorkerRow
    <3> QED
      BY <3>1
  <2>2. /\ rec.pc = "index" /\ rec.run = me.run /\ rec.prof = me.prof
        /\ rec.new = me.new
    BY <2>1 DEF WorkerRow
  <2>3. Set(w, rec)
    BY <1>1, <1>5, <2>1 DEF To
  <2> QED
    BY <1>1, <1>2, <1>5, <2>2, <2>3, OnwardKeeps DEF AfterTasks
<1> QED
  BY <1>1, <1>3, <1>4, <1>5 DEF AfterTasks

LEMMA AfterIndexKeeps ==
    ASSUME Inv, NEW w \in Workers, AfterIndex(w)
    PROVE  Inv'
<1>1. PICK me \in WorkerRow : me = worker[w] /\ Fits(me) /\ me.pc = "index"
  BY AtRow DEF AfterIndex, At
<1>2. /\ me.run \in Epochs /\ run[me.run].state \notin {"none", "queued"}
      /\ run[me.run].enumerated # None /\ me.new = 0
      /\ me.prof = me.run /\ profile[me.run].state # "none"
      /\ faults \in 0 .. MaxFaults
  BY <1>1 DEF Fits, Inv, Rows
<1>3. CASE Yield(w)
  BY <1>1, <1>2, <1>3, YieldReads DEF AfterIndex
<1>4. CASE Set(w, [me EXCEPT !.pc = "sweep", !.task = "sweep"])
  <2>1. PICK rec \in WorkerRow : rec = [me EXCEPT !.pc = "sweep", !.task = "sweep"]
    <3>1. [me EXCEPT !.pc = "sweep", !.task = "sweep"] \in WorkerRow
      BY DEF WorkerRow
    <3> QED
      BY <3>1
  <2>2. /\ rec.pc = "sweep" /\ rec.task = "sweep" /\ rec.run = me.run
        /\ rec.prof = me.prof /\ rec.new = me.new
    BY <2>1 DEF WorkerRow
  <2> QED
    BY <1>1, <1>2, <1>4, <2>1, <2>2, OnwardKeeps DEF AfterIndex
<1> QED
  BY <1>1, <1>3, <1>4 DEF AfterIndex

LEMMA CheckSweepKeeps ==
    ASSUME Inv, NEW w \in Workers, CheckSweep(w)
    PROVE  Inv'
<1>1. PICK me \in WorkerRow : me = worker[w] /\ Fits(me) /\ me.pc = "check"
  BY AtRow DEF CheckSweep, At
<1>2. /\ me.run \in Epochs /\ run[me.run].state \notin {"none", "queued"}
      /\ run[me.run].enumerated # None /\ me.new = 0 /\ me.task = "sweep"
      /\ me.prof = me.run /\ profile[me.run].state # "none"
      /\ faults \in 0 .. MaxFaults
  BY <1>1 DEF Fits, Inv, Rows
<1>3. CASE FailRun(w)
  BY <1>1, <1>2, <1>3, FailRunKeeps DEF CheckSweep
<1>4. CASE UNCHANGED <<profile, run>> /\ To(w, "probe")
  <2>1. PICK rec \in WorkerRow : rec = [me EXCEPT !.pc = "probe"]
    <3>1. [me EXCEPT !.pc = "probe"] \in WorkerRow
      BY DEF WorkerRow
    <3> QED
      BY <3>1
  <2>2. /\ rec.pc = "probe" /\ rec.task = me.task /\ rec.run = me.run
        /\ rec.prof = me.prof /\ rec.new = me.new
    BY <2>1 DEF WorkerRow
  <2>3. Set(w, rec)
    BY <1>1, <1>4, <2>1 DEF To
  <2> QED
    BY <1>1, <1>2, <1>4, <2>2, <2>3, OnwardKeeps DEF CheckSweep
<1>5. CASE UNCHANGED <<profile, run>> /\ Yield(w)
  BY <1>1, <1>2, <1>5, YieldReads DEF CheckSweep
<1>6. CASE /\ UNCHANGED <<profile, run>>
           /\ Set(w, [me EXCEPT !.pc = "sweep", !.prev = Remaining(me.prof)])
  <2>1. PICK n \in Nat : n = Remaining(me.prof)
    BY <1>2, MissingFinite DEF Inv
  <2>2. PICK rec \in WorkerRow : rec = [me EXCEPT !.pc = "sweep", !.prev = n]
    <3>1. [me EXCEPT !.pc = "sweep", !.prev = n] \in WorkerRow
      BY DEF WorkerRow
    <3> QED
      BY <3>1
  <2>3. /\ rec.pc = "sweep" /\ rec.task = me.task /\ rec.run = me.run
        /\ rec.prof = me.prof /\ rec.new = me.new
    BY <2>2 DEF WorkerRow
  <2> QED
    BY <1>1, <1>2, <1>6, <2>1, <2>2, <2>3, OnwardKeeps DEF CheckSweep
<1> QED
  BY <1>1, <1>3, <1>4, <1>5, <1>6 DEF CheckSweep

LEMMA ProbeDriftedKeeps ==
    ASSUME Inv, NEW w \in Workers, ProbeDrifted(w)
    PROVE  Inv'
<1>1. PICK me \in WorkerRow : me = worker[w] /\ Fits(me) /\ me.pc = "probe"
  BY AtRow DEF ProbeDrifted, At
<1>2. /\ me.run \in Epochs /\ run[me.run].state \notin {"none", "queued"}
      /\ run[me.run].enumerated # None /\ me.new = 0 /\ me.task = "sweep"
      /\ me.prof = me.run /\ profile[me.run].state # "none"
  BY <1>1 DEF Fits
<1>3. faults' \in 0 .. MaxFaults
  BY Consts DEF ProbeDrifted, Inv, Rows
<1>4. CASE Yield(w)
  BY <1>1, <1>2, <1>3, <1>4, YieldReads DEF ProbeDrifted
<1>5. CASE Set(w, [me EXCEPT !.pc = "lock",
                             !.drifted = (profile[me.prof].probe # drift)])
  <2>1. PICK b \in BOOLEAN : b = (profile[me.prof].probe # drift)
    OBVIOUS
  <2>2. PICK rec \in WorkerRow : rec = [me EXCEPT !.pc = "lock", !.drifted = b]
    <3>1. [me EXCEPT !.pc = "lock", !.drifted = b] \in WorkerRow
      BY DEF WorkerRow
    <3> QED
      BY <3>1
  <2>3. /\ rec.pc = "lock" /\ rec.task = me.task /\ rec.run = me.run
        /\ rec.prof = me.prof /\ rec.new = me.new
    BY <2>2 DEF WorkerRow
  <2>4. Set(w, rec)
    BY <1>5, <2>1, <2>2
  <2> QED
    BY <1>1, <1>2, <1>3, <2>3, <2>4, OnwardKeeps DEF ProbeDrifted
<1> QED
  BY <1>1, <1>4, <1>5 DEF ProbeDrifted

LEMMA CutoverKeeps ==
    ASSUME Inv, NEW w \in Workers, Cutover(w)
    PROVE  Inv'
<1>1. PICK me \in WorkerRow : me = worker[w] /\ Fits(me) /\ me.pc = "lock"
  BY AtRow DEF Cutover, At
<1>2. /\ me.run \in Epochs /\ run[me.run].state \notin {"none", "queued"}
      /\ run[me.run].enumerated # None /\ me.new = 0 /\ me.task = "sweep"
      /\ me.prof = me.run /\ profile[me.run].state # "none"
      /\ faults \in 0 .. MaxFaults
  BY <1>1 DEF Fits, Inv, Rows
<1>3. CASE FailRun(w)
  BY <1>1, <1>2, <1>3, FailRunKeeps DEF Cutover
<1>4. CASE /\ UNCHANGED <<profile, run>>
           /\ Set(w, [me EXCEPT !.pc = "sweep", !.prev = Remaining(me.prof)])
  <2>1. PICK n \in Nat : n = Remaining(me.prof)
    BY <1>2, MissingFinite DEF Inv
  <2>2. PICK rec \in WorkerRow : rec = [me EXCEPT !.pc = "sweep", !.prev = n]
    <3>1. [me EXCEPT !.pc = "sweep", !.prev = n] \in WorkerRow
      BY DEF WorkerRow
    <3> QED
      BY <3>1
  <2>3. /\ rec.pc = "sweep" /\ rec.task = me.task /\ rec.run = me.run
        /\ rec.prof = me.prof /\ rec.new = me.new
    BY <2>2 DEF WorkerRow
  <2> QED
    BY <1>1, <1>2, <1>4, <2>1, <2>2, <2>3, OnwardKeeps DEF Cutover
<1>5. CASE /\ Yield(w)
           /\ EndProfile(me.prof, "complete")
           /\ IF profile[me.prof].state = "building"
              THEN MoveRun(me.run, "running", "completed") ELSE run' = run
  <2>1. MoveRun(me.run, "running", "completed") \/ UNCHANGED run
    BY <1>5
  <2>2. EndProfile(me.run, "complete")
    BY <1>2, <1>5
  <2>3. /\ EpochMoves
        /\ profile' \in [Epochs -> ProfileRow] /\ run' \in [Epochs -> RunRow]
        /\ \A f \in Epochs : run'[f].tally = run[f].tally
    BY <1>2, <2>1, <2>2, EndStep DEF Inv
  <2>4. tasks' \in [TaskIds -> TaskRow] /\ faults' \in 0 .. MaxFaults
    BY DEF Inv, Rows, Cutover
  <2> QED
    BY <1>1, <1>2, <1>5, <2>3, <2>4, IdleFits, WorkerStep DEF Cutover, Yield
<1> QED
  BY <1>1, <1>3, <1>4, <1>5 DEF Cutover

\* A drive with something to count knows its run.
LEMMA CountsARun ==
    ASSUME Inv, NEW T, NEW N \in [Workers -> SUBSET Items], Counts(T, N),
           NEW v \in Workers, NEW x \in N[v]
    PROVE  worker[v].run \in Epochs
<1>1. PICK me \in WorkerRow : me = worker[v] /\ Fits(me)
  BY AtRow
<1>2. Cardinality(N[v]) # 0
  BY NothingNew
<1> QED
  BY <1>1, <1>2 DEF Counts, Fits

\* The quarantine's records are noted as recorded, not yet counted.
LEMMA WriteKeeps ==
    ASSUME Inv, NEW w \in Workers, Write(w)
    PROVE  Inv'
<1>1. PICK me \in WorkerRow : me = worker[w] /\ Fits(me) /\ me.pc = "write"
  BY AtRow DEF Write, At
<1>2. PICK e \in Epochs :
         /\ e = me.run /\ me.prof = e /\ run[e].state \notin {"none", "queued"}
         /\ run[e].enumerated # None /\ profile[e].state # "none"
         /\ me.new = 0 /\ me.task # "none" /\ me.geo \in 0 .. drift
  BY <1>1 DEF Fits
<1>3. PICK gone \in SUBSET Entities :
         gone = IF me.class = "permanent" THEN me.bad ELSE {}
  BY DEF WorkerRow
<1>4. PICK D \in SUBSET Items : D = (gone \cap Items) \ quarantined[e]
  OBVIOUS
<1>5. PICK n \in Nat : n = Cardinality(D)
  BY Consts, FS_Subset, FS_CardinalityType
<1>6. PICK rec \in WorkerRow :
         rec = [me EXCEPT !.pc = "bump", !.new = n, !.good = {}, !.geo = None]
  <2>1. [me EXCEPT !.pc = "bump", !.new = n, !.good = {}, !.geo = None] \in WorkerRow
    BY DEF WorkerRow
  <2> QED
    BY <2>1
<1>7. /\ rec.pc = "bump" /\ rec.new = n /\ rec.run = e /\ rec.prof = e
      /\ rec.task = me.task
  BY <1>2, <1>6 DEF WorkerRow
<1>8. /\ Set(w, rec)
      /\ rows' = [rows EXCEPT ![e] = [x \in Entities |->
              IF x \in me.good /\ (x \in Tags \/ @[x] = None) THEN me.geo ELSE @[x]]]
      /\ quarantined' = [quarantined EXCEPT ![e] = @ \cup gone]
      /\ UNCHANGED <<profile, run, tasks, corpus, ingest, operator, drift, faults,
                     uncounted>>
  BY <1>1, <1>2, <1>3, <1>4, <1>5, <1>6 DEF Write
<1>9. /\ drift \in 0 .. MaxDrift /\ me.geo \in 0 .. MaxDrift
      /\ rows \in [Epochs -> [Entities -> {None} \cup 0 .. MaxDrift]]
      /\ quarantined \in [Epochs -> SUBSET Entities]
      /\ worker \in [Workers -> WorkerRow]
  BY <1>2, Consts DEF Inv, Rows
<1>10. Rows'
  <2>1. rows' \in [Epochs -> [Entities -> {None} \cup 0 .. MaxDrift]]
    BY <1>8, <1>9
  <2>2. quarantined' \in [Epochs -> SUBSET Entities]
    BY <1>8, <1>9
  <2>3. worker' \in [Workers -> WorkerRow]
    BY <1>8, <1>9 DEF Set
  <2> QED
    BY <1>8, <2>1, <2>2, <2>3 DEF Inv, Rows
<1>11. EpochMoves /\ Flight'
  BY <1>8, EpochsStay, FlightMoves DEF Inv
<1>12. Fits(rec)'
  BY <1>2, <1>7, <1>8 DEF Fits
<1>13. Drives'
  <2>1. drift \in Nat /\ drift' \in Nat /\ drift <= drift'
    BY <1>8, <1>9, Consts
  <2> QED
    BY <1>8, <1>9, <1>11, <1>12, <2>1, MovesForward, DrivesMove DEF Inv
<1>14. Tallied'
  <2>1. PICK T \in [Epochs -> SUBSET Items], N \in [Workers -> SUBSET Items] :
           Counts(T, N)
    BY DEF Inv, Tallied
  <2>2. N[w] = {}
    BY <1>1, <1>2, <2>1, NothingNew DEF Counts
  <2>3. PICK M \in [Workers -> SUBSET Items] : M = [N EXCEPT ![w] = D]
    OBVIOUS
  <2>4. /\ M[w] = D /\ \A v \in Workers : v # w => M[v] = N[v]
        /\ worker'[w] = rec
        /\ \A v \in Workers : v # w => worker'[v] = worker[v]
    BY <1>8, <1>9, <2>3 DEF Set
  <2>5. \A f \in Epochs : quarantined'[f] = IF f = e THEN quarantined[e] \cup gone
                                                     ELSE quarantined[f]
    BY <1>8, <1>9
  <2>6. \A f \in Epochs : /\ T[f] \subseteq Items /\ T[f] \subseteq quarantined'[f]
                          /\ run'[f].tally = Cardinality(T[f])
    BY <1>8, <2>1, <2>5 DEF Counts
  <2>7. ASSUME NEW v \in Workers
        PROVE  /\ M[v] \subseteq Items /\ worker'[v].new = Cardinality(M[v])
               /\ \A x \in M[v] : x \in quarantined'[worker'[v].run]
                                            \ T[worker'[v].run]
    <3>1. CASE v = w
      <4>1. M[v] = D /\ worker'[v].new = Cardinality(D) /\ worker'[v].run = e
        BY <1>5, <1>7, <2>4, <3>1
      <4>2. T[e] \subseteq quarantined[e] /\ quarantined'[e] = quarantined[e] \cup gone
        BY <2>1, <2>5 DEF Counts
      <4>3. \A x \in D : x \in quarantined'[e] \ T[e]
        BY <1>4, <4>2
      <4> QED
        BY <4>1, <4>3
    <3>2. CASE v # w
      <4>1. \A x \in N[v] : x \in quarantined[worker[v].run] \ T[worker[v].run]
        BY <2>1 DEF Counts
      <4>2. \A x \in N[v] : quarantined[worker[v].run]
                                 \subseteq quarantined'[worker[v].run]
        BY <1>8, <1>9, <2>1, CountsARun
      <4> QED
        BY <2>1, <2>4, <3>2, <4>1, <4>2 DEF Counts
    <3> QED
      BY <3>1, <3>2
  <2>8. ASSUME NEW u \in Workers, NEW v \in Workers, u # v,
               worker'[u].run = worker'[v].run
        PROVE  M[u] \cap M[v] = {}
    <3>1. \A y \in Workers : y # w /\ worker[y].run = e => N[y] \cap D = {}
      BY <1>4, <2>1 DEF Counts
    <3> QED
      BY <1>1, <1>2, <1>7, <2>1, <2>4, <2>8, <3>1 DEF Counts
  <2>9. ASSUME NEW f \in Epochs \ uncounted', NEW x \in quarantined'[f] \cap Items
        PROVE  x \in T[f] \/ \E v \in Workers : x \in M[v] /\ worker'[v].run = f
    <3>1. CASE x \in quarantined[f]
      BY <1>8, <2>1, <2>2, <2>4, <2>9, <3>1 DEF Counts
    <3>2. CASE x \notin quarantined[f]
      BY <1>4, <1>7, <2>4, <2>5, <2>9, <3>2
    <3> QED
      BY <3>1, <3>2
  <2>10. Counts(T, M)'
    BY <2>6, <2>7, <2>8, <2>9 DEF Counts
  <2> QED
    BY <2>10 DEF Tallied
<1> QED
  BY <1>10, <1>11, <1>13, <1>14 DEF Inv

\* They move over to the count.
LEMMA BumpKeeps ==
    ASSUME Inv, NEW w \in Workers, Bump(w)
    PROVE  Inv'
<1>1. PICK me \in WorkerRow : me = worker[w] /\ Fits(me) /\ me.pc = "bump"
  BY AtRow DEF Bump, At
<1>2. PICK e \in Epochs :
         /\ e = me.run /\ me.prof = e /\ run[e].state \notin {"none", "queued"}
         /\ run[e].enumerated # None /\ profile[e].state # "none"
         /\ me.task # "none"
  BY <1>1 DEF Fits
<1>3. /\ run \in [Epochs -> RunRow] /\ tasks \in [TaskIds -> TaskRow]
      /\ worker \in [Workers -> WorkerRow] /\ me.new \in Nat
      /\ me.task \in {"none", "sweep"} \cup TaskIds
  BY DEF Inv, Rows, WorkerRow
<1>4. run' = [run EXCEPT ![e].tally = @ + me.new]
  BY <1>1, <1>2 DEF Bump
<1>5. /\ run' \in [Epochs -> RunRow]
      /\ \A f \in Epochs : /\ run'[f].state = run[f].state
                           /\ run'[f].enumerated = run[f].enumerated
                           /\ f # e => run'[f].tally = run[f].tally
      /\ run'[e].tally = run[e].tally + me.new
  BY <1>3, <1>4 DEF RunRow
<1>6. PICK rec \in WorkerRow :
         /\ Set(w, rec) /\ rec.new = 0 /\ rec.run = e /\ rec.prof = e
         /\ \/ rec.pc = "check" /\ rec.task = "sweep"
            \/ rec.pc = "tasks"
  <2>1. CASE me.task = "sweep"
    <3>1. [me EXCEPT !.pc = "check", !.new = 0] \in WorkerRow
      BY DEF WorkerRow
    <3> QED
      BY <1>1, <1>2, <2>1, <3>1 DEF Bump, WorkerRow
  <2>2. CASE me.task # "sweep"
    <3>1. [me EXCEPT !.pc = "tasks", !.task = "none", !.bad = {},
                     !.class = "none", !.new = 0] \in WorkerRow
      BY DEF WorkerRow
    <3> QED
      BY <1>1, <1>2, <2>2, <3>1 DEF Bump, WorkerRow
  <2> QED
    BY <2>1, <2>2
<1>7. tasks' \in [TaskIds -> TaskRow]
  <2>1. CASE tasks' = tasks
    BY <1>3, <2>1
  <2>2. CASE me.task # "sweep" /\ Resolve(w) /\ tasks' # tasks
    <3>1. PICK t \in TaskIds : t = me.task
      BY <1>2, <1>3, <2>2
    <3>2. PICK row \in TaskRow : row = tasks[t]
      BY <1>3
    <3>3. tasks' = [tasks EXCEPT ![t] =
                IF ~Retry(w) THEN [row EXCEPT !.state = "complete"]
                ELSE IF row.attempt + 1 > MaxAttempts THEN [row EXCEPT !.state = "dead"]
                ELSE [state |-> "pending", attempt |-> row.attempt + 1]]
      BY <1>1, <1>3, <2>2, <3>1, <3>2 DEF Resolve
    <3>4. /\ [row EXCEPT !.state = "complete"] \in TaskRow
          /\ [row EXCEPT !.state = "dead"] \in TaskRow
          /\ ~(row.attempt + 1 > MaxAttempts) =>
                [state |-> "pending", attempt |-> row.attempt + 1] \in TaskRow
      BY Consts DEF TaskRow
    <3> QED
      BY <1>3, <3>3, <3>4
  <2> QED
    BY <1>1, <2>1, <2>2 DEF Bump
<1>8. Rows'
  <2>1. worker' \in [Workers -> WorkerRow]
    BY <1>3, <1>6 DEF Set
  <2> QED
    BY <1>5, <1>7, <2>1 DEF Bump, Inv, Rows
<1>9. EpochMoves
  BY <1>5 DEF Bump, EpochMoves, Inv, Flight, Live
<1>10. Flight'
  BY <1>9, FlightMoves DEF Bump, Inv
<1>11. Drives'
  <2>1. Fits(rec)'
    BY <1>2, <1>5, <1>6 DEF Bump, Fits
  <2>2. drift \in Nat /\ drift' \in Nat /\ drift <= drift'
    BY Consts DEF Bump, Inv, Rows
  <2> QED
    BY <1>3, <1>6, <1>9, <2>1, <2>2, MovesForward, DrivesMove DEF Bump, Inv
<1>12. Tallied'
  <2>1. PICK T \in [Epochs -> SUBSET Items], N \in [Workers -> SUBSET Items] :
           Counts(T, N)
    BY DEF Inv, Tallied
  <2>2. PICK M \in [Workers -> SUBSET Items] : M = [N EXCEPT ![w] = {}]
    OBVIOUS
  <2>3. PICK S \in [Epochs -> SUBSET Items] : S = [T EXCEPT ![e] = @ \cup N[w]]
    OBVIOUS
  <2>4. /\ M[w] = {} /\ \A v \in Workers : v # w => M[v] = N[v]
        /\ worker'[w] = rec
        /\ \A v \in Workers : v # w => worker'[v] = worker[v]
        /\ S[e] = T[e] \cup N[w] /\ \A f \in Epochs : f # e => S[f] = T[f]
    BY <1>3, <1>6, <2>2, <2>3 DEF Set
  <2>5. quarantined' = quarantined /\ uncounted' = uncounted
    BY DEF Bump
  <2>6. run'[e].tally = Cardinality(T[e] \cup N[w])
    <3>1. IsFiniteSet(T[e]) /\ IsFiniteSet(N[w]) /\ T[e] \cap N[w] = {}
      BY <1>1, <1>2, <2>1, Consts, FS_Subset DEF Counts
    <3>2. Cardinality(T[e] \cup N[w]) = Cardinality(T[e]) + Cardinality(N[w])
      <4>1. Cardinality(T[e] \cup N[w])
               = Cardinality(T[e]) + Cardinality(N[w]) - Cardinality(T[e] \cap N[w])
        BY <3>1, FS_Union
      <4>2. Cardinality(T[e] \cap N[w]) = 0
        BY <3>1, FS_EmptySet
      <4>3. Cardinality(T[e]) \in Nat /\ Cardinality(N[w]) \in Nat
        BY <3>1, FS_CardinalityType
      <4> QED
        BY <4>1, <4>2, <4>3
    <3> QED
      BY <1>1, <1>5, <2>1, <3>2 DEF Counts
  <2>7. ASSUME NEW f \in Epochs
        PROVE  /\ S[f] \subseteq Items /\ S[f] \subseteq quarantined'[f]
               /\ run'[f].tally = Cardinality(S[f])
    <3>1. CASE f = e
      <4>1. \A x \in N[w] : x \in quarantined[e]
        BY <1>1, <1>2, <2>1 DEF Counts
      <4> QED
        BY <2>1, <2>4, <2>5, <2>6, <3>1, <4>1 DEF Counts
    <3>2. CASE f # e
      BY <1>5, <2>1, <2>4, <2>5, <3>2 DEF Counts
    <3> QED
      BY <3>1, <3>2
  <2>8. ASSUME NEW v \in Workers
        PROVE  /\ M[v] \subseteq Items /\ worker'[v].new = Cardinality(M[v])
               /\ \A x \in M[v] : x \in quarantined'[worker'[v].run]
                                            \ S[worker'[v].run]
    <3>1. CASE v = w
      BY <1>6, <2>4, <3>1, FS_EmptySet
    <3>2. CASE v # w
      <4>1. worker'[v] = worker[v] /\ M[v] = N[v]
        BY <2>4, <3>2
      <4>2. \A x \in N[v] : x \in quarantined[worker[v].run] \ T[worker[v].run]
        BY <2>1 DEF Counts
      <4>3. worker[v].run = e => N[v] \cap N[w] = {}
        BY <1>1, <1>2, <2>1, <3>2 DEF Counts
      <4>4. \A x \in N[v] : x \notin S[worker[v].run]
        <5>1. CASE worker[v].run = e
          BY <2>4, <4>2, <4>3, <5>1
        <5>2. CASE worker[v].run # e
          BY <2>1, <2>4, <4>2, <5>2, CountsARun
        <5> QED
          BY <5>1, <5>2
      <4> QED
        BY <2>1, <2>5, <4>1, <4>2, <4>4 DEF Counts
    <3> QED
      BY <3>1, <3>2
  <2>9. ASSUME NEW u \in Workers, NEW v \in Workers, u # v,
               worker'[u].run = worker'[v].run
        PROVE  M[u] \cap M[v] = {}
    BY <2>1, <2>4, <2>9 DEF Counts
  <2>10. ASSUME NEW f \in Epochs \ uncounted', NEW x \in quarantined'[f] \cap Items
         PROVE  x \in S[f] \/ \E v \in Workers : x \in M[v] /\ worker'[v].run = f
    BY <1>1, <1>2, <2>1, <2>4, <2>5, <2>10 DEF Counts
  <2>11. Counts(S, M)'
    BY <2>7, <2>8, <2>9, <2>10 DEF Counts
  <2> QED
    BY <2>11 DEF Tallied
<1> QED
  BY <1>8, <1>10, <1>11, <1>12 DEF Inv

\* A crash gives up what the drive had not counted, and uncounted says so.
LEMMA AbandonKeeps ==
    ASSUME Inv, NEW w \in Workers, Abandon(w)
    PROVE  Inv'
<1>1. PICK me \in WorkerRow : me = worker[w] /\ Fits(me) /\ me.pc # "idle"
  BY AtRow DEF Abandon, At
<1>2. profile' = profile
  BY ReconcileIdle DEF Abandon, Inv
<1>3. /\ Set(w, IdleWorker)
      /\ UNCHANGED <<run, tasks, corpus, rows, quarantined, ingest, operator, drift>>
  BY DEF Abandon, Yield
<1>4. EpochMoves /\ Flight'
  BY <1>2, <1>3, EpochsStay, FlightMoves DEF Inv
<1>5. worker \in [Workers -> WorkerRow]
  BY DEF Inv, Rows
<1>6. /\ worker'[w] = IdleWorker
      /\ \A v \in Workers : v # w => worker'[v] = worker[v]
  BY <1>3, <1>5 DEF Set
<1>7. me.new = 0 \/ (me.run \in Epochs /\ me.prof = me.run)
  BY <1>1 DEF Fits
<1>8. /\ uncounted \subseteq uncounted' /\ uncounted' \subseteq Epochs
      /\ me.new = 0 \/ me.run \in uncounted'
  <2>1. uncounted \subseteq Epochs /\ me.new \in Nat
    BY DEF Inv, Rows, WorkerRow
  <2>2. CASE me.new = 0
    BY <1>1, <2>1, <2>2 DEF Abandon
  <2>3. CASE me.new > 0
    BY <1>1, <1>7, <2>1, <2>3 DEF Abandon
  <2> QED
    BY <2>1, <2>2, <2>3
<1>9. Rows'
  <2>1. worker' \in [Workers -> WorkerRow]
    BY <1>3, <1>5, IdleFits DEF Set
  <2>2. faults' \in 0 .. MaxFaults
    BY Consts DEF Abandon, Inv, Rows
  <2> QED
    BY <1>2, <1>3, <1>8, <2>1, <2>2 DEF Inv, Rows
<1>10. Drives'
  <2>1. drift \in Nat /\ drift' \in Nat /\ drift <= drift'
    BY <1>3, Consts DEF Inv, Rows
  <2> QED
    BY <1>3, <1>4, <1>5, <2>1, IdleFits, MovesForward, DrivesMove DEF Inv
<1>11. Tallied'
  <2>1. PICK T \in [Epochs -> SUBSET Items], N \in [Workers -> SUBSET Items] :
           Counts(T, N)
    BY DEF Inv, Tallied
  <2>2. PICK M \in [Workers -> SUBSET Items] : M = [N EXCEPT ![w] = {}]
    OBVIOUS
  <2>3. M[w] = {} /\ \A v \in Workers : v # w => M[v] = N[v]
    BY <2>2
  <2>4. \A f \in Epochs : /\ T[f] \subseteq Items /\ T[f] \subseteq quarantined'[f]
                          /\ run'[f].tally = Cardinality(T[f])
    BY <1>3, <2>1 DEF Counts
  <2>5. ASSUME NEW v \in Workers
        PROVE  /\ M[v] \subseteq Items /\ worker'[v].new = Cardinality(M[v])
               /\ \A x \in M[v] : x \in quarantined'[worker'[v].run]
                                            \ T[worker'[v].run]
    <3>1. CASE v = w
      BY <1>6, <2>3, <3>1, IdleFits, FS_EmptySet
    <3>2. CASE v # w
      BY <1>3, <1>6, <2>1, <2>3, <3>2 DEF Counts
    <3> QED
      BY <3>1, <3>2
  <2>6. ASSUME NEW u \in Workers, NEW v \in Workers, u # v,
               worker'[u].run = worker'[v].run
        PROVE  M[u] \cap M[v] = {}
    BY <1>6, <2>1, <2>3, <2>6 DEF Counts
  <2>7. ASSUME NEW f \in Epochs \ uncounted', NEW x \in quarantined'[f] \cap Items
        PROVE  x \in T[f] \/ \E v \in Workers : x \in M[v] /\ worker'[v].run = f
    <3>1. x \in T[f] \/ \E v \in Workers : x \in N[v] /\ worker[v].run = f
      BY <1>3, <1>8, <2>1, <2>7 DEF Counts
    <3>2. ASSUME NEW v \in Workers, x \in N[v], worker[v].run = f PROVE v # w
      <4>1. CASE me.new = 0
        BY <1>1, <2>1, <3>2, <4>1, NothingNew DEF Counts
      <4>2. CASE me.run \in uncounted'
        BY <1>1, <2>7, <3>2, <4>2
      <4> QED
        BY <1>8, <4>1, <4>2
    <3> QED
      BY <1>6, <2>3, <3>1, <3>2
  <2>8. Counts(T, M)'
    BY <2>4, <2>5, <2>6, <2>7 DEF Counts
  <2> QED
    BY <2>8 DEF Tallied
<1> QED
  BY <1>4, <1>9, <1>10, <1>11 DEF Inv

-----------------------------------------------------------------------------
(* The steps of a commit.                                                    *)

LEMMA IngestStep ==
    ASSUME Inv, NEW c \in Ingesters, NEW rec \in IngestRow, Embeds(rec),
           ingest' = [ingest EXCEPT ![c] = rec], IngestFrame,
           corpus' \subseteq Entities,
           rows' \in [Epochs -> [Entities -> {None} \cup 0 .. MaxDrift]]
    PROVE  Inv'
<1>1. ingest' \in [Ingesters -> IngestRow]
  BY DEF Inv, Rows
<1>2. Rows'
  BY <1>1 DEF Inv, Rows, IngestFrame
<1>3. EpochMoves /\ Flight'
  BY EpochsStay, FlightMoves DEF Inv, IngestFrame
<1>4. Drives'
  <2>1. \A w \in Workers : Fits(worker[w])'
    BY DEF Inv, Drives, Fits, Live, IngestFrame
  <2>2. \A d \in Ingesters : Embeds(ingest[d])'
    BY DEF Inv, Rows, Drives, Embeds, IngestFrame
  <2> QED
    BY <2>1, <2>2 DEF Drives
<1>5. Tallied'
  BY TalliedKept DEF Inv, IngestFrame
<1> QED
  BY <1>2, <1>3, <1>4, <1>5 DEF Inv

LEMMA IdleEmbeds == IdleIngest \in IngestRow /\ Embeds(IdleIngest)
BY Consts DEF IdleIngest, IngestRow, Embeds

LEMMA GotoKeeps ==
    ASSUME Inv, NEW c \in Ingesters, ingest[c].pc \notin {"idle", "done"},
           NEW pc \in {"ready", "begun", "wait", "locked", "unlocked", "writing"},
           Goto(c, pc), IngestFrame, UNCHANGED <<corpus, rows>>
    PROVE  Inv'
<1>1. PICK me \in IngestRow : me = ingest[c] /\ Embeds(me)
  BY DEF Inv, Rows, Drives
<1>2. PICK rec \in IngestRow : rec = [me EXCEPT !.pc = pc]
  <2>1. [me EXCEPT !.pc = pc] \in IngestRow
    BY DEF IngestRow
  <2> QED
    BY <2>1
<1>3. rec.pc = pc /\ rec.prof = me.prof /\ rec.geo = me.geo
  BY <1>2 DEF IngestRow
<1>4. Embeds(rec)
  BY <1>1, <1>3 DEF Embeds
<1>5. ingest' = [ingest EXCEPT ![c] = rec]
  BY <1>1, <1>2 DEF Goto, Inv, Rows
<1> QED
  BY <1>4, <1>5, IngestStep DEF Inv, Rows

LEMMA IngestKeeps ==
    ASSUME Inv, NEW c \in Ingesters, Ingest(c)
    PROVE  Inv'
<1>1. PICK me \in IngestRow : me = ingest[c] /\ Embeds(me)
  BY DEF Inv, Rows, Drives
<1>2. PICK d \in 0 .. MaxDrift : d = drift /\ d \in 0 .. drift
  BY Consts DEF Inv, Rows
<1>3. PICK a \in Epochs : a = Active /\ profile[a].state = "complete"
  BY ActiveIs DEF Inv
<1>4. /\ corpus \subseteq Entities /\ ingest \in [Ingesters -> IngestRow]
      /\ rows \in [Epochs -> [Entities -> {None} \cup 0 .. MaxDrift]]
  BY DEF Inv, Rows
<1>5. CASE Embed(c)
  <2>1. PICK rec \in IngestRow :
           /\ rec = [me EXCEPT !.pc = "ready", !.prof = a, !.geo = d]
           /\ rec.prof = a /\ rec.geo = d
    <3>1. [me EXCEPT !.pc = "ready", !.prof = a, !.geo = d] \in IngestRow
      BY DEF IngestRow
    <3> QED
      BY <3>1 DEF IngestRow
  <2>2. Embeds(rec)
    BY <1>2, <1>3, <2>1 DEF Embeds
  <2>3. ingest' = [ingest EXCEPT ![c] = rec]
    BY <1>1, <1>2, <1>3, <1>4, <1>5, <2>1 DEF Embed
  <2> QED
    BY <1>4, <1>5, <2>2, <2>3, IngestStep DEF Embed
<1>6. CASE Begin(c)
  <2>1. Goto(c, "wait") \/ Goto(c, "begun")
    BY <1>6 DEF Begin
  <2> QED
    BY <1>6, <2>1, GotoKeeps DEF Begin
<1>7. CASE AcquireShared(c)
  BY <1>7, GotoKeeps DEF AcquireShared
<1>8. CASE ReadActive(c)
  <2>1. CASE Active = ingest[c].prof
    <3>1. Goto(c, "unlocked") \/ Goto(c, "writing")
      BY <1>8, <2>1 DEF ReadActive, Goto
    <3> QED
      BY <1>8, <3>1, GotoKeeps DEF ReadActive
  <2>2. CASE /\ Active # ingest[c].prof
             /\ ingest[c].tries < MaxReembeds
    <3>1. PICK rec \in IngestRow : rec = [pc |-> "ready", prof |-> a, geo |-> d,
                                          tries |-> me.tries + 1]
      <4>1. me.tries + 1 \in 0 .. MaxReembeds
        BY <1>1, <2>2, Consts DEF IngestRow
      <4> QED
        BY <4>1 DEF IngestRow
    <3>2. Embeds(rec)
      BY <1>2, <1>3, <3>1 DEF Embeds
    <3>3. ingest' = [ingest EXCEPT ![c] = rec]
      BY <1>1, <1>2, <1>3, <1>4, <1>8, <2>2, <3>1 DEF ReadActive
    <3> QED
      BY <1>4, <1>8, <3>2, <3>3, IngestStep DEF ReadActive
  <2>3. CASE ingest' = [ingest EXCEPT ![c] = IdleIngest]
    BY <1>4, <1>8, <2>3, IdleEmbeds, IngestStep DEF ReadActive
  <2> QED
    BY <1>8, <2>1, <2>2, <2>3 DEF ReadActive
<1>9. CASE CommitNovel(c)
  <2>1. me.prof \in Epochs /\ me.geo \in 0 .. MaxDrift
    BY <1>1, <1>2, <1>9, Consts DEF CommitNovel, Embeds
  <2>2. rows' \in [Epochs -> [Entities -> {None} \cup 0 .. MaxDrift]]
    BY <1>1, <1>4, <1>9, <2>1 DEF CommitNovel
  <2>3. corpus' \subseteq Entities
    BY <1>4, <1>9, Consts DEF CommitNovel
  <2>4. PICK rec \in IngestRow : rec = [IdleIngest EXCEPT !.pc = "done"]
    BY IdleEmbeds DEF IdleIngest, IngestRow
  <2>5. Embeds(rec)
    BY <2>4 DEF IdleIngest, Embeds
  <2> QED
    BY <1>9, <2>2, <2>3, <2>4, <2>5, IngestStep DEF CommitNovel
<1> QED
  BY <1>5, <1>6, <1>7, <1>8, <1>9 DEF Ingest

-----------------------------------------------------------------------------
(* The steps of the operator and of the environment.                         *)

\* A step that leaves the drives and the commits where they are.
LEMMA ForwardKeeps ==
    ASSUME Inv, Forward, Rows', Flight',
           \A e \in Epochs : run'[e].tally = run[e].tally,
           UNCHANGED <<quarantined, worker, ingest, uncounted>>
    PROVE  Inv'
<1>1. drift \in Nat /\ drift' \in Nat
  BY Consts DEF Inv, Rows
<1>2. \A me : Fits(me) => Fits(me)'
  BY <1>1, FitsForward
<1>3. \A me : Embeds(me) => Embeds(me)'
  BY <1>1, EmbedsForward
<1>4. \A w \in Workers : Fits(worker[w])'
  BY <1>2 DEF Inv, Drives
<1>5. \A c \in Ingesters : Embeds(ingest[c])'
  BY <1>3 DEF Inv, Drives
<1>6. Tallied'
  BY TalliedKept DEF Inv
<1> QED
  BY <1>4, <1>5, <1>6 DEF Inv, Drives

LEMMA ProbeKeeps ==
    ASSUME Inv, NEW t \in Targets, Probe(t)
    PROVE  Inv'
<1>1. drift \in Nat /\ drift' \in Nat /\ drift <= drift' /\ drift \in 0 .. MaxDrift
  BY Consts DEF Inv, Rows, Probe
<1>2. EpochMoves /\ Forward
  BY <1>1, EpochsStay, MovesForward DEF Probe
<1>3. operator' = [operator EXCEPT !.probed = [target |-> t, probe |-> drift]]
  BY DEF Probe
<1>4. operator \in OperatorRow
  BY DEF Inv, Rows
<1>5. operator' \in OperatorRow /\ operator'.cancel = operator.cancel
  BY <1>1, <1>3, <1>4 DEF OperatorRow
<1>6. Rows'
  BY <1>5 DEF Inv, Rows, Probe
<1>7. Flight'
  BY <1>5 DEF Inv, Flight, Probe, Live
<1> QED
  BY <1>2, <1>6, <1>7, ForwardKeeps DEF Probe

LEMMA CancelReadKeeps ==
    ASSUME Inv, CancelRead
    PROVE  Inv'
<1>1. drift \in Nat /\ drift' \in Nat /\ drift <= drift'
  BY Consts DEF Inv, Rows, CancelRead
<1>2. EpochMoves /\ Forward
  BY <1>1, EpochsStay, MovesForward DEF CancelRead
<1>3. PICK e \in FindLive :
         operator' = [operator EXCEPT !.cancel = [run |-> e, from |-> run[e].state]]
  BY DEF CancelRead
<1>4. /\ e \in Epochs /\ run[e].state \in {"queued", "running"}
      /\ run[e].state # "none"
  BY <1>3 DEF FindLive, Live
<1>5. operator \in OperatorRow
  BY DEF Inv, Rows
<1>6. /\ operator' \in OperatorRow /\ operator'.probed = operator.probed
      /\ operator'.cancel = [run |-> e, from |-> run[e].state]
  BY <1>3, <1>4, <1>5 DEF OperatorRow
<1>7. Rows'
  BY <1>6 DEF Inv, Rows, CancelRead
<1>8. Flight'
  <2>1. /\ operator'.cancel.run = e /\ operator'.cancel.from = run[e].state
    BY <1>6
  <2> QED
    BY <1>4, <1>6, <2>1 DEF Inv, Flight, CancelRead, Live
<1> QED
  BY <1>2, <1>7, <1>8, ForwardKeeps DEF CancelRead

LEMMA CancelApplyKeeps ==
    ASSUME Inv, CancelApply
    PROVE  Inv'
<1>1. drift \in Nat /\ drift' \in Nat /\ drift <= drift'
  BY Consts DEF Inv, Rows, CancelApply
<1>2. PICK e \in Epochs, from \in {"queued", "running"} :
         e = operator.cancel.run /\ from = operator.cancel.from
  BY DEF CancelApply, Inv, Flight
<1>3. EndProfile(e, "failed") /\ MoveRun(e, from, "aborted")
  BY <1>2 DEF CancelApply
<1>4. /\ EpochMoves
      /\ profile' \in [Epochs -> ProfileRow] /\ run' \in [Epochs -> RunRow]
      /\ \A f \in Epochs : run'[f].tally = run[f].tally
  BY <1>3, EndStep DEF Inv
<1>5. operator' = [operator EXCEPT !.cancel = NoCancel] /\ operator \in OperatorRow
  BY DEF CancelApply, Inv, Rows
<1>6. /\ operator' \in OperatorRow /\ operator'.probed = operator.probed
      /\ operator'.cancel = NoCancel
  BY <1>5, Consts DEF OperatorRow, NoCancel
<1>7. Rows'
  BY <1>4, <1>6 DEF Inv, Rows, CancelApply
<1>8. Flight'
  BY <1>4, <1>6, FlightMoves DEF Inv
<1> QED
  BY <1>1, <1>4, <1>7, <1>8, MovesForward, ForwardKeeps DEF CancelApply

\* What create inserts: the new epoch is the one after the newest.
LEMMA CreateIs ==
    ASSUME Inv, Create, ~UNCHANGED <<profile, run, tasks>>
    PROVE  \E e \in Epochs :
              /\ profile[e].state = "none" /\ \A f \in Epochs : ~Live(f)
              /\ \A f \in Epochs : profile[f].state = "none" => e <= f
              /\ profile' = [profile EXCEPT
                    ![e] = [state |-> "building", target |-> operator.probed.target,
                            probe |-> operator.probed.probe]]
              /\ run' = [run EXCEPT ![e].state = "queued"]
              /\ tasks' = NoTasks
<1>1. ~(FindLive # {} \/ Unchanged)
  BY DEF Create
<1>2. \A f \in Epochs : ~Live(f)
  BY <1>1, LiveIs DEF Inv
<1> DEFINE least(e) == /\ profile[e].state = "none"
                       /\ \A f \in Epochs : profile[f].state = "none" => e <= f
           free == {e \in Epochs : profile[e].state = "none"}
<1>3. free # {} /\ free \subseteq Epochs
  BY DEF Create, Inv, Flight
<1>4. \E e \in free : \A f \in free : e <= f
  <2> HIDE DEF free
  <2> QED
    BY <1>3, EpochMin
<1>5. \E e \in Epochs : least(e)
  BY <1>4
<1>6. PICK e : e = CHOOSE f \in Epochs : least(f)
  OBVIOUS
<1>7. e \in Epochs /\ least(e)
  BY <1>5, <1>6
<1> QED
  BY <1>1, <1>2, <1>6, <1>7 DEF Create

LEMMA CreateKeeps ==
    ASSUME Inv, Create
    PROVE  Inv'
<1>1. drift \in Nat /\ drift' \in Nat /\ drift <= drift'
  BY Consts DEF Inv, Rows, Create
<1>2. operator' = [operator EXCEPT !.probed = NoTarget] /\ operator \in OperatorRow
  BY DEF Create, Inv, Rows
<1>3. /\ operator' \in OperatorRow /\ operator'.probed = NoTarget
      /\ operator'.cancel = operator.cancel
  BY <1>2, Consts DEF OperatorRow, NoTarget
<1>4. CASE UNCHANGED <<profile, run, tasks>>
  <2>1. EpochMoves /\ Flight'
    BY <1>3, <1>4, EpochsStay, FlightMoves DEF Inv
  <2>2. Rows'
    BY <1>3, <1>4 DEF Inv, Rows, Create
  <2> QED
    BY <1>1, <1>4, <2>1, <2>2, MovesForward, ForwardKeeps DEF Create
<1>5. CASE ~UNCHANGED <<profile, run, tasks>>
  <2> DEFINE least(e) == /\ profile[e].state = "none"
                         /\ \A f \in Epochs : profile[f].state = "none" => e <= f
  <2>1. PICK e \in Epochs :
           /\ least(e) /\ \A f \in Epochs : ~Live(f)
           /\ profile' = [profile EXCEPT
                 ![e] = [state |-> "building", target |-> operator.probed.target,
                         probe |-> operator.probed.probe]]
           /\ run' = [run EXCEPT ![e].state = "queued"]
           /\ tasks' = NoTasks
    BY <1>5, CreateIs
  <2>2. /\ profile \in [Epochs -> ProfileRow] /\ run \in [Epochs -> RunRow]
        /\ operator.probed.target \in Targets \cup {"none"}
        /\ operator.probed.probe \in {None} \cup 0 .. MaxDrift
    BY DEF Inv, Rows, OperatorRow
  <2>3. /\ profile' \in [Epochs -> ProfileRow] /\ profile'[e].state = "building"
        /\ \A f \in Epochs : f # e => profile'[f] = profile[f]
    BY <2>1, <2>2 DEF ProfileRow, ProfileStates
  <2>4. /\ run' \in [Epochs -> RunRow] /\ run'[e].state = "queued"
        /\ run'[e].tally = run[e].tally /\ run'[e].enumerated = run[e].enumerated
        /\ \A f \in Epochs : f # e => run'[f] = run[f]
    BY <2>1, <2>2 DEF RunRow, RunStates
  <2>5. tasks' \in [TaskIds -> TaskRow]
    BY <2>1, Consts DEF NoTasks, TaskRow
  <2>6. Rows'
    BY <1>3, <2>3, <2>4, <2>5 DEF Inv, Rows, Create
  <2>7. e # 1 /\ run[e].state = "none"
    BY <2>1, Consts DEF Inv, Flight
  <2>8. Forward
    BY <1>1, <2>1, <2>3, <2>4, <2>7 DEF Forward
  <2>9. Flight'
    <3>1. profile'[1].state # "none" /\ run'[1].state = "none"
      BY <2>3, <2>4, <2>7, Consts DEF Inv, Flight
    <3>2. \A f \in Epochs \ {1} : profile'[f].state = "none" <=> run'[f].state = "none"
      BY <2>3, <2>4 DEF Inv, Flight
    <3>3. \A f, g \in Epochs : profile'[f].state = "none" /\ f < g
                                  => profile'[g].state = "none"
      <4>1. ASSUME NEW f \in Epochs, NEW g \in Epochs,
                   profile'[f].state = "none", f < g
            PROVE  profile'[g].state = "none"
        <5>1. f # e /\ profile[f].state = "none"
          BY <2>3, <4>1
        <5>2. g # e
          BY <2>1, <4>1, <5>1, Consts
        <5> QED
          BY <2>3, <4>1, <5>1, <5>2 DEF Inv, Flight
      <4> QED
        BY <4>1
    <3>4. \A f \in Epochs : profile'[f].state = "building"
                              => run'[f].state \in {"queued", "running"}
      BY <2>3, <2>4 DEF Inv, Flight, Live
    <3>5. \A f, g \in Epochs : run'[f].state \in {"queued", "running"}
                                 /\ profile'[g].state # "none" => g <= f
      <4>1. ASSUME NEW f \in Epochs, NEW g \in Epochs,
                   run'[f].state \in {"queued", "running"},
                   profile'[g].state # "none"
            PROVE  g <= f
        <5>1. f = e
          BY <2>1, <2>4, <4>1 DEF Live
        <5>2. g = e \/ profile[g].state # "none"
          BY <2>3, <4>1
        <5>3. ~(e < g) \/ g = e
          BY <2>1, <5>2 DEF Inv, Flight
        <5> QED
          BY <5>1, <5>3, Consts
      <4> QED
        BY <4>1
    <3>6. \E f \in Epochs : profile'[f].state = "complete"
      BY <2>1, <2>3 DEF Inv, Flight
    <3>7. operator'.cancel # NoCancel =>
            /\ operator'.cancel.run \in Epochs
            /\ operator'.cancel.from \in {"queued", "running"}
            /\ run'[operator'.cancel.run].state # "none"
      BY <1>3, <2>4 DEF Inv, Flight
    <3> QED
      BY <1>3, <3>1, <3>2, <3>3, <3>4, <3>5, <3>6, <3>7 DEF Flight, Live
  <2> QED
    BY <2>4, <2>6, <2>8, <2>9, ForwardKeeps DEF Create
<1> QED
  BY <1>4, <1>5 DEF Create

\* What is deleted serves nothing: the active profile is not among it.
LEMMA PruneIs ==
    ASSUME Inv, Prune
    PROVE  \E gone \in SUBSET Epochs, a \in Epochs :
              /\ a = Active /\ profile[a].state = "complete" /\ a \notin gone
              /\ \A e \in Epochs : profile[e].state = "complete" => e <= a
              /\ \A e \in gone : profile[e].state \in {"failed", "complete", "superseded"}
              /\ profile' = [e \in Epochs |->
                    IF e \in gone THEN [profile[e] EXCEPT !.state = "superseded"]
                                  ELSE profile[e]]
              /\ rows' = [e \in Epochs |->
                    IF e \in gone THEN [x \in Entities |-> None] ELSE rows[e]]
<1>1. PICK a \in Epochs :
         /\ a = Active /\ profile[a].state = "complete"
         /\ \A e \in Epochs : profile[e].state = "complete" => e <= a
  BY ActiveIs DEF Inv
<1>2. PICK gone \in SUBSET Epochs :
         gone = Prunable \cup {e \in Epochs : profile[e].state = "superseded"}
  BY DEF Prunable
<1>3. a \notin gone
  BY <1>1, <1>2, Consts DEF Prunable
<1>4. \A e \in gone : profile[e].state \in {"failed", "complete", "superseded"}
  BY <1>2 DEF Prunable
<1> QED
  BY <1>1, <1>2, <1>3, <1>4 DEF Prune

LEMMA PruneKeeps ==
    ASSUME Inv, Prune
    PROVE  Inv'
<1>1. PICK gone \in SUBSET Epochs, a \in Epochs :
         /\ profile[a].state = "complete" /\ a \notin gone
         /\ \A e \in gone : profile[e].state \in {"failed", "complete", "superseded"}
         /\ profile' = [e \in Epochs |->
               IF e \in gone THEN [profile[e] EXCEPT !.state = "superseded"]
                             ELSE profile[e]]
         /\ rows' = [e \in Epochs |->
               IF e \in gone THEN [x \in Entities |-> None] ELSE rows[e]]
  BY PruneIs
<1>2. profile \in [Epochs -> ProfileRow]
  BY DEF Inv, Rows
<1>3. /\ profile' \in [Epochs -> ProfileRow]
      /\ \A e \in Epochs : profile'[e].state = IF e \in gone THEN "superseded"
                                                             ELSE profile[e].state
  BY <1>1, <1>2 DEF ProfileRow, ProfileStates
<1>4. rows' \in [Epochs -> [Entities -> {None} \cup 0 .. MaxDrift]]
  BY <1>1 DEF Inv, Rows
<1>5. Rows'
  BY <1>3, <1>4 DEF Inv, Rows, Prune
<1>6. drift \in Nat /\ drift' \in Nat /\ drift <= drift'
  BY Consts DEF Inv, Rows, Prune
<1>7. Forward
  BY <1>1, <1>3, <1>6 DEF Forward, Prune
<1>8. Flight'
  <2>1. \A e \in Epochs : /\ profile'[e].state = "none" <=> profile[e].state = "none"
                          /\ profile'[e].state = "building"
                                => profile[e].state = "building"
    BY <1>1, <1>3
  <2>2. \E e \in Epochs : profile'[e].state = "complete"
    BY <1>1, <1>3
  <2> QED
    BY <2>1, <2>2, Consts DEF Inv, Flight, Prune, Live
<1> QED
  BY <1>5, <1>7, <1>8, ForwardKeeps DEF Prune

LEMMA DriftKeeps ==
    ASSUME Inv, Drift
    PROVE  Inv'
<1>1. drift \in Nat /\ drift' \in Nat /\ drift <= drift' /\ drift' \in 0 .. MaxDrift
  BY Consts DEF Inv, Rows, Drift
<1>2. EpochMoves /\ Forward /\ Flight'
  BY <1>1, EpochsStay, FlightMoves, MovesForward DEF Drift, Inv
<1>3. Rows'
  BY <1>1 DEF Inv, Rows, Drift
<1> QED
  BY <1>2, <1>3, ForwardKeeps DEF Drift

-----------------------------------------------------------------------------
(* Inv holds of every reachable state.                                       *)

LEMMA InitInv ==
    ASSUME Init
    PROVE  Inv
<1>1. Rows
  <2>1. 0 \in 0 .. MaxDrift /\ 0 \in 0 .. MaxFaults /\ 0 \in 0 .. MaxAttempts
        /\ 0 \in 0 .. MaxReembeds /\ 0 \in Nat
    BY Consts
  <2>2. profile \in [Epochs -> ProfileRow] /\ run \in [Epochs -> RunRow]
    BY <2>1, Consts DEF Init, ProfileRow, ProfileStates, RunRow, RunStates
  <2>3. tasks \in [TaskIds -> TaskRow] /\ corpus \subseteq Entities
    BY <2>1, Consts DEF Init, NoTasks, TaskRow
  <2>4. rows \in [Epochs -> [Entities -> {None} \cup 0 .. MaxDrift]]
    BY <2>1 DEF Init
  <2>5. quarantined \in [Epochs -> SUBSET Entities] /\ uncounted \subseteq Epochs
    BY DEF Init
  <2>6. IdleWorker \in WorkerRow
    BY DEF IdleWorker, WorkerRow
  <2>7. worker \in [Workers -> WorkerRow] /\ ingest \in [Ingesters -> IngestRow]
    BY <2>6, IdleEmbeds DEF Init
  <2>8. operator \in OperatorRow
    BY DEF Init, OperatorRow, NoTarget, NoCancel
  <2>9. drift \in 0 .. MaxDrift /\ faults \in 0 .. MaxFaults
    BY <2>1 DEF Init
  <2> QED
    BY <2>2, <2>3, <2>4, <2>5, <2>7, <2>8, <2>9 DEF Rows
<1>2. Flight
  <2>1. \A e \in Epochs : /\ profile[e].state = IF e = 1 THEN "complete" ELSE "none"
                          /\ run[e].state = "none"
    BY DEF Init
  <2>2. operator.probed = NoTarget /\ operator.cancel = NoCancel
    BY DEF Init
  <2> QED
    BY <2>1, <2>2, Consts DEF Flight, Live
<1>3. Drives
  BY IdleEmbeds DEF Init, Drives, Fits, Embeds, IdleWorker, IdleIngest
<1>4. Tallied
  <2>1. PICK T \in [Epochs -> SUBSET Items], N \in [Workers -> SUBSET Items] :
           T = [e \in Epochs |-> {}] /\ N = [w \in Workers |-> {}]
    OBVIOUS
  <2>2. Cardinality({}) = 0
    BY FS_EmptySet
  <2>3. Counts(T, N)
    BY <2>1, <2>2 DEF Init, Counts, IdleWorker
  <2> QED
    BY <2>3 DEF Tallied
<1> QED
  BY <1>1, <1>2, <1>3, <1>4 DEF Inv

LEMMA StutterInv ==
    ASSUME Inv, UNCHANGED vars
    PROVE  Inv'
<1>1. drift \in Nat /\ drift' \in Nat /\ drift <= drift'
  BY Consts DEF vars, Inv, Rows
<1>2. EpochMoves /\ Forward /\ Flight'
  BY <1>1, EpochsStay, FlightMoves, MovesForward DEF vars, Inv
<1>3. Rows'
  BY DEF vars, Inv, Rows
<1> QED
  BY <1>2, <1>3, ForwardKeeps DEF vars

LEMMA NextInv ==
    ASSUME Inv, [Next]_vars
    PROVE  Inv'
<1>1. ASSUME NEW w \in Workers, Drive(w) PROVE Inv'
  BY <1>1, PromoteKeeps, EnrolKeeps, FindTargetKeeps, ClaimTaskKeeps,
     CallTaskKeeps, CallSweepKeeps, WriteKeeps, BumpKeeps, AfterTasksKeeps,
     AfterIndexKeeps, CheckSweepKeeps, ProbeDriftedKeeps, CutoverKeeps DEF Drive
<1>2. ASSUME NEW w \in Workers, Abandon(w) PROVE Inv'
  BY <1>2, AbandonKeeps
<1>3. ASSUME NEW c \in Ingesters, Ingest(c) PROVE Inv'
  BY <1>3, IngestKeeps
<1>4. CASE (\E t \in Targets : Probe(t)) \/ Create \/ CancelRead \/ CancelApply
           \/ Prune \/ Drift
  BY <1>4, ProbeKeeps, CreateKeeps, CancelReadKeeps, CancelApplyKeeps,
     PruneKeeps, DriftKeeps
<1>5. CASE UNCHANGED vars
  BY <1>5, StutterInv
<1> QED
  BY <1>1, <1>2, <1>3, <1>4, <1>5 DEF Next

LEMMA InvType ==
    ASSUME Inv
    PROVE  TypeOK
<1>1. run \in [Epochs -> [state : RunStates,
                          enumerated : {None} \cup 0 .. Cardinality(Items),
                          tally : 0 .. Cardinality(Items)]]
  <2>1. PICK T \in [Epochs -> SUBSET Items], N \in [Workers -> SUBSET Items] :
           Counts(T, N)
    BY DEF Inv, Tallied
  <2>2. ASSUME NEW e \in Epochs
        PROVE  run[e].tally \in 0 .. Cardinality(Items)
    <3>1. PICK S \in SUBSET Items : S = T[e] /\ run[e].tally = Cardinality(S)
      BY <2>1 DEF Counts
    <3>2. Cardinality(S) \in Nat /\ Cardinality(S) <= Cardinality(Items)
      BY Consts, FS_Subset, FS_CardinalityType
    <3> QED
      BY <3>1, <3>2, Consts
  <2>3. run \in [Epochs -> RunRow]
    BY DEF Inv, Rows
  <2> QED
    BY <2>2, <2>3 DEF RunRow
<1>2. \A w \in Workers :
        /\ worker[w].pc \in {"idle", "enrol", "find", "tasks", "call", "write",
                             "bump", "index", "sweep", "check", "probe", "lock"}
        /\ (worker[w].pc \in {"call", "write", "bump", "index", "sweep", "check",
                              "probe", "lock"})
            => worker[w].run \in Epochs /\ worker[w].prof \in Epochs
  BY AtRow DEF WorkerRow, Fits
<1>3. \A c \in Ingesters :
        /\ ingest[c].pc \in {"idle", "ready", "begun", "wait", "locked",
                             "unlocked", "writing", "done"}
        /\ ingest[c].tries \in 0 .. MaxReembeds
  BY DEF Inv, Rows, IngestRow
<1> QED
  BY <1>1, <1>2, <1>3 DEF TypeOK, Inv, Rows, ProfileRow, TaskRow

\* Whatever the processes do, every row and every position is one the code
\* knows, and a run's tally never counts an item twice.
THEOREM ReindexTypeCorrect == Spec => []TypeOK
<1>1. Init => Inv
  BY InitInv
<1>2. Inv /\ [Next]_vars => Inv'
  BY NextInv
<1>3. Inv => TypeOK
  BY InvType
<1> QED
  BY <1>1, <1>2, <1>3, PTL DEF Spec

-----------------------------------------------------------------------------
(* What the steps of a drive come to, for the invariants that follow.        *)

\* It leaves the profiles and what is embedded under them alone ...
Stays(w) ==
    /\ UNCHANGED <<profile, corpus, rows, quarantined, ingest, operator, drift>>
    /\ \A v \in Workers : v # w => worker'[v] = worker[v]
    /\ \/ Promote(w)
       \/ \A e \in Epochs : run'[e].state = run[e].state
    /\ worker'[w].pc = "write" => worker'[w].geo = drift
    /\ worker'[w].pc = "probe" =>
          /\ UNCHANGED run /\ worker'[w].run = worker[w].run
          /\ ~ExceedsCap(worker[w].run)
    /\ worker'[w].pc = "lock" =>
          /\ worker[w].pc = "probe"
          /\ UNCHANGED run /\ worker'[w].run = worker[w].run
          /\ worker'[w].drifted = (profile[worker'[w].prof].probe # drift)

\* ... or ends the profile and the run of one epoch together.
Ends(w) ==
    /\ worker[w].run \in Epochs /\ worker[w].prof = worker[w].run
    /\ run[worker[w].run].state \notin {"none", "queued"}
    /\ Yield(w)
    /\ UNCHANGED <<corpus, rows, quarantined, ingest, operator, drift>>

Fails(w) ==
    /\ Ends(w)
    /\ EndProfile(worker[w].run, "failed")
    /\ MoveRun(worker[w].run, "running", "failed")

Flip(w) ==
    /\ Ends(w)
    /\ At(w, "lock") /\ ExclusiveFree
    /\ Remaining(worker[w].run) = 0 /\ ~worker[w].drifted
    /\ profile[worker[w].run].state = "building"
    /\ EndProfile(worker[w].run, "complete")
    /\ MoveRun(worker[w].run, "running", "completed")

LEMMA SetIs ==
    ASSUME Inv, NEW w \in Workers, NEW rec, Set(w, rec)
    PROVE  /\ worker'[w] = rec
           /\ \A v \in Workers : v # w => worker'[v] = worker[v]
BY DEF Inv, Rows, Set

\* A drive that yields leaves everything else to the others.
LEMMA YieldStays ==
    ASSUME Inv, NEW w \in Workers, Yield(w),
           \A e \in Epochs : run'[e].state = run[e].state,
           UNCHANGED <<profile, corpus, rows, quarantined, ingest, operator, drift>>
    PROVE  Stays(w)
<1>1. /\ worker'[w].pc = "idle"
      /\ \A v \in Workers : v # w => worker'[v] = worker[v]
  BY SetIs DEF Yield, IdleWorker
<1> QED
  BY <1>1 DEF Stays

LEMMA PlainStays ==
    ASSUME Inv, NEW w \in Workers, NEW rec, Set(w, rec),
           rec.pc \notin {"write", "probe", "lock"},
           Promote(w) \/ \A e \in Epochs : run'[e].state = run[e].state,
           UNCHANGED <<profile, corpus, rows, quarantined, ingest, operator, drift>>
    PROVE  Stays(w)
BY SetIs DEF Stays

LEMMA AnswerStays ==
    ASSUME Inv, NEW w \in Workers, NEW batch, Answer(w, batch),
           UNCHANGED <<profile, run, corpus, rows, quarantined, ingest, operator,
                       drift>>
    PROVE  Stays(w)
<1>1. PICK me \in WorkerRow : me = worker[w]
  BY AtRow
<1>2. PICK bad, class :
         Set(w, [me EXCEPT !.pc = "write", !.good = batch \ bad,
                       !.bad = bad, !.class = class, !.geo = drift])
  BY <1>1 DEF Answer
<1>3. PICK d : d = drift
  OBVIOUS
<1>4. PICK rec : rec = [me EXCEPT !.pc = "write", !.good = batch \ bad,
                                  !.bad = bad, !.class = class, !.geo = d]
  OBVIOUS
<1>5. rec.pc = "write" /\ rec.geo = d
  BY <1>4 DEF WorkerRow
<1>6. /\ worker'[w] = rec
      /\ \A v \in Workers : v # w => worker'[v] = worker[v]
  BY <1>2, <1>3, <1>4, SetIs
<1> QED
  BY <1>3, <1>5, <1>6 DEF Stays

LEMMA PlainShapes ==
    ASSUME Inv, NEW w \in Workers,
           Promote(w) \/ Enrol(w) \/ FindTarget(w) \/ ClaimTask(w) \/ CallTask(w)
              \/ CallSweep(w) \/ Bump(w) \/ AfterIndex(w) \/ Abandon(w)
    PROVE  Stays(w)
<1>1. PICK me \in WorkerRow : me = worker[w] /\ Fits(me)
  BY AtRow
<1>2. CASE Promote(w)
  <2>1. PICK e \in FindLive : Set(w, [IdleWorker EXCEPT !.pc = "enrol", !.run = e])
    BY <1>2 DEF Promote
  <2>2. PICK rec : rec = [IdleWorker EXCEPT !.pc = "enrol", !.run = e]
    OBVIOUS
  <2>3. rec.pc = "enrol"
    BY <2>2 DEF IdleWorker
  <2> QED
    BY <1>2, <2>1, <2>2, <2>3, PlainStays DEF Promote
<1>3. CASE Enrol(w)
  <2>1. PICK rec : rec = [me EXCEPT !.pc = "find"]
    OBVIOUS
  <2>2. rec.pc = "find" /\ Set(w, rec)
    BY <1>1, <1>3, <2>1 DEF Enrol, To, WorkerRow
  <2>3. \A e \in Epochs : run'[e].state = run[e].state
    <3>1. run \in [Epochs -> RunRow]
      BY DEF Inv, Rows
    <3> DEFINE n == Cardinality(Missing(worker[w].run) \cap Items)
    <3>2. run' = run \/ run' = [run EXCEPT ![worker[w].run].enumerated = n]
      BY <1>3 DEF Enrol
    <3> HIDE DEF n
    <3> QED
      BY <3>1, <3>2 DEF RunRow
  <2> QED
    BY <1>3, <2>2, <2>3, PlainStays DEF Enrol
<1>4. CASE FindTarget(w)
  <2>1. CASE Yield(w)
    BY <1>4, <2>1, YieldStays DEF FindTarget
  <2>2. ASSUME NEW b, Set(w, [me EXCEPT !.pc = "tasks", !.prof = b])
        PROVE  Stays(w)
    <3>1. PICK rec : rec = [me EXCEPT !.pc = "tasks", !.prof = b]
      OBVIOUS
    <3>2. rec.pc = "tasks"
      BY <3>1 DEF WorkerRow
    <3> QED
      BY <1>4, <2>2, <3>1, <3>2, PlainStays DEF FindTarget
  <2> QED
    BY <1>1, <1>4, <2>1, <2>2 DEF FindTarget
<1>5. CASE ClaimTask(w)
  <2>1. PICK t : Set(w, [me EXCEPT !.pc = "call", !.task = t])
    BY <1>1, <1>5 DEF ClaimTask
  <2>2. PICK rec : rec = [me EXCEPT !.pc = "call", !.task = t]
    OBVIOUS
  <2>3. rec.pc = "call"
    BY <2>2 DEF WorkerRow
  <2> QED
    BY <1>5, <2>1, <2>2, <2>3, PlainStays DEF ClaimTask
<1>6. CASE CallTask(w)
  <2>1. CASE Yield(w)
    BY <1>6, <2>1, YieldStays DEF CallTask
  <2> DEFINE batch == IF worker[w].task = "range"
                      THEN Missing(worker[w].prof) \cap Items
                      ELSE {worker[w].task}
  <2>2. CASE Answer(w, batch)
    <3>1. PICK b : b = batch
      OBVIOUS
    <3> QED
      BY <1>6, <2>2, <3>1, AnswerStays DEF CallTask
  <2> QED
    BY <1>6, <2>1, <2>2 DEF CallTask
<1>7. CASE CallSweep(w)
  <2>1. PICK b : b = Missing(worker[w].prof)
    OBVIOUS
  <2> QED
    BY <1>7, <2>1, AnswerStays DEF CallSweep
<1>8. CASE Bump(w)
  <2>1. PICK rec : Set(w, rec) /\ rec.pc \in {"check", "tasks"}
    <3>1. [me EXCEPT !.pc = "check", !.new = 0].pc = "check"
      BY DEF WorkerRow
    <3>2. [me EXCEPT !.pc = "tasks", !.task = "none", !.bad = {},
                     !.class = "none", !.new = 0].pc = "tasks"
      BY DEF WorkerRow
    <3> QED
      BY <1>1, <1>8, <3>1, <3>2 DEF Bump
  <2>2. \A e \in Epochs : run'[e].state = run[e].state
    BY <1>8 DEF Bump, Inv, Rows, RunRow
  <2> QED
    BY <1>8, <2>1, <2>2, PlainStays DEF Bump
<1>9. CASE AfterIndex(w)
  <2>1. CASE Yield(w)
    BY <1>9, <2>1, YieldStays DEF AfterIndex
  <2>2. CASE Set(w, [me EXCEPT !.pc = "sweep", !.task = "sweep"])
    <3>1. PICK rec : rec = [me EXCEPT !.pc = "sweep", !.task = "sweep"]
      OBVIOUS
    <3>2. rec.pc = "sweep"
      BY <3>1 DEF WorkerRow
    <3> QED
      BY <1>9, <2>2, <3>1, <3>2, PlainStays DEF AfterIndex
  <2> QED
    BY <1>1, <1>9, <2>1, <2>2 DEF AfterIndex
<1>10. CASE Abandon(w)
  BY <1>10, ReconcileIdle, YieldStays DEF Abandon, Inv
<1> QED
  BY <1>2, <1>3, <1>4, <1>5, <1>6, <1>7, <1>8, <1>9, <1>10

LEMMA DriveShape ==
    ASSUME Inv, NEW w \in Workers, Drive(w) \/ Abandon(w)
    PROVE  Stays(w) \/ Fails(w) \/ Flip(w) \/ Write(w)
<1>1. PICK me \in WorkerRow : me = worker[w] /\ Fits(me)
  BY AtRow
<1>2. CASE AfterTasks(w)
  <2>1. CASE FailRun(w) /\ Live(me.run)
    BY <1>1, <1>2, <2>1 DEF AfterTasks, At, FailRun, Fails, Ends, Fits
  <2>2. CASE Yield(w) /\ UNCHANGED <<profile, run>>
    BY <1>2, <2>2, YieldStays DEF AfterTasks
  <2>3. CASE To(w, "index") /\ UNCHANGED <<profile, run>>
    <3>1. PICK rec : rec = [me EXCEPT !.pc = "index"]
      OBVIOUS
    <3>2. rec.pc = "index" /\ Set(w, rec)
      BY <1>1, <2>3, <3>1 DEF WorkerRow, To
    <3> QED
      BY <1>2, <2>3, <3>2, PlainStays DEF AfterTasks
  <2> QED
    BY <1>1, <1>2, <2>1, <2>2, <2>3 DEF AfterTasks
<1>3. CASE CheckSweep(w)
  <2>1. CASE FailRun(w)
    BY <1>1, <1>3, <2>1 DEF CheckSweep, At, FailRun, Fails, Ends, Fits
  <2>2. CASE Yield(w) /\ UNCHANGED <<profile, run>>
    BY <1>3, <2>2, YieldStays DEF CheckSweep
  <2>3. CASE /\ To(w, "probe") /\ UNCHANGED <<profile, run>>
             /\ ~ExceedsCap(worker[w].run)
    <3>1. PICK rec : rec = [me EXCEPT !.pc = "probe"]
      OBVIOUS
    <3>2. rec.pc = "probe" /\ rec.run = me.run /\ Set(w, rec)
      BY <1>1, <2>3, <3>1 DEF WorkerRow, To
    <3> QED
      BY <1>1, <1>3, <2>3, <3>2, SetIs DEF CheckSweep, Stays
  <2>4. CASE /\ Set(w, [me EXCEPT !.pc = "sweep", !.prev = Remaining(me.prof)])
             /\ UNCHANGED <<profile, run>>
    <3>1. PICK n : n = Remaining(me.prof)
      OBVIOUS
    <3>2. PICK rec : rec = [me EXCEPT !.pc = "sweep", !.prev = n]
      OBVIOUS
    <3>3. rec.pc = "sweep" /\ Set(w, rec)
      BY <2>4, <3>1, <3>2 DEF WorkerRow
    <3> QED
      BY <1>3, <2>4, <3>3, PlainStays DEF CheckSweep
  <2> QED
    BY <1>1, <1>3, <2>1, <2>2, <2>3, <2>4 DEF CheckSweep
<1>4. CASE ProbeDrifted(w)
  <2>1. CASE Yield(w)
    BY <1>4, <2>1, YieldStays DEF ProbeDrifted
  <2>2. CASE Set(w, [me EXCEPT !.pc = "lock",
                               !.drifted = (profile[me.prof].probe # drift)])
    <3>1. PICK b : b = (profile[me.prof].probe # drift)
      OBVIOUS
    <3>2. PICK rec : rec = [me EXCEPT !.pc = "lock", !.drifted = b]
      OBVIOUS
    <3>3. /\ rec.pc = "lock" /\ rec.run = me.run /\ rec.prof = me.prof
          /\ rec.drifted = b
      BY <3>2 DEF WorkerRow
    <3>4. Set(w, rec)
      BY <2>2, <3>1, <3>2
    <3> QED
      BY <1>1, <1>4, <3>1, <3>3, <3>4, SetIs DEF ProbeDrifted, At, Stays
  <2> QED
    BY <1>1, <1>4, <2>1, <2>2 DEF ProbeDrifted
<1>5. CASE Cutover(w)
  <2>1. /\ me.pc = "lock" /\ me.run \in Epochs /\ me.prof = me.run
        /\ run[me.run].state \notin {"none", "queued"}
    BY <1>1, <1>5 DEF Cutover, At, Fits
  <2>2. CASE FailRun(w)
    BY <1>1, <1>5, <2>1, <2>2 DEF Cutover, FailRun, Fails, Ends
  <2>3. CASE /\ Set(w, [me EXCEPT !.pc = "sweep", !.prev = Remaining(me.prof)])
             /\ UNCHANGED <<profile, run>>
    <3>1. PICK n : n = Remaining(me.prof)
      OBVIOUS
    <3>2. PICK rec : rec = [me EXCEPT !.pc = "sweep", !.prev = n]
      OBVIOUS
    <3>3. rec.pc = "sweep" /\ Set(w, rec)
      BY <2>3, <3>1, <3>2 DEF WorkerRow
    <3> QED
      BY <1>5, <2>3, <3>3, PlainStays DEF Cutover
  <2>4. CASE /\ Remaining(me.run) = 0 /\ ~me.drifted /\ Yield(w)
             /\ EndProfile(me.run, "complete")
             /\ profile[me.run].state = "building"
             /\ MoveRun(me.run, "running", "completed")
    BY <1>1, <1>5, <2>1, <2>4 DEF Cutover, Flip, Ends
  <2>5. CASE /\ Yield(w) /\ EndProfile(me.run, "complete")
             /\ profile[me.run].state # "building" /\ run' = run
    <3>1. profile' = profile
      BY <2>5 DEF EndProfile
    <3> QED
      BY <1>5, <2>5, <3>1, YieldStays DEF Cutover
  <2> QED
    BY <1>1, <1>5, <2>1, <2>2, <2>3, <2>4, <2>5 DEF Cutover
<1> QED
  BY <1>2, <1>3, <1>4, <1>5, PlainShapes DEF Drive

-----------------------------------------------------------------------------
(* A live run has its building profile.                                      *)

LEMMA PairedStay ==
    ASSUME Inv, Paired,
           \A e \in Epochs : run'[e].state = run[e].state,
           \A e \in Epochs : profile'[e].state = "building"
                                <=> profile[e].state = "building",
           operator'.cancel = operator.cancel
    PROVE  Paired'
BY DEF Inv, Flight, Paired, LiveRunHasBuilding, Live

\* A compare-and-set from the state the run is in takes both out at once.
LEMMA PairedEnds ==
    ASSUME Inv, Paired, NEW e \in Epochs,
           NEW state \in {"failed", "complete"}, NEW from,
           NEW to \in {"failed", "completed", "aborted"},
           EndProfile(e, state), MoveRun(e, from, to),
           Live(e) => run[e].state = from,
           operator'.cancel \in {operator.cancel, NoCancel}
    PROVE  Paired'
<1>1. profile \in [Epochs -> ProfileRow] /\ run \in [Epochs -> RunRow]
  BY DEF Inv, Rows
<1>2. /\ profile'[e].state # "building"
      /\ \A f \in Epochs : f # e => profile'[f].state = profile[f].state
  BY <1>1 DEF EndProfile, ProfileRow
<1>3. /\ run'[e].state \notin {"queued", "running"}
      /\ \A f \in Epochs : f # e => run'[f].state = run[f].state
  <2>1. CASE run[e].state = from
    BY <1>1, <2>1 DEF MoveRun, RunRow
  <2>2. CASE run[e].state # from
    BY <2>2 DEF MoveRun, Live
  <2> QED
    BY <2>1, <2>2
<1>4. LiveRunHasBuilding'
  BY <1>2, <1>3 DEF Paired, LiveRunHasBuilding, Live
<1>5. ASSUME operator'.cancel # NoCancel
      PROVE  \/ run'[operator'.cancel.run].state = operator'.cancel.from
             \/ run'[operator'.cancel.run].state \notin {"queued", "running"}
  <2>1. operator'.cancel = operator.cancel /\ operator.cancel # NoCancel
    BY <1>5
  <2>2. PICK r \in Epochs : r = operator.cancel.run
    BY <2>1 DEF Inv, Flight
  <2>3. run[r].state = operator.cancel.from \/ run[r].state \notin {"queued", "running"}
    BY <2>1, <2>2 DEF Paired, Live
  <2>4. run'[r].state = run[r].state \/ run'[r].state \notin {"queued", "running"}
    BY <1>3
  <2> QED
    BY <2>1, <2>2, <2>3, <2>4
<1> QED
  BY <1>4, <1>5 DEF Paired, Live

LEMMA PairedDrive ==
    ASSUME ~SlowCancel, Inv, Paired, NEW w \in Workers, Drive(w) \/ Abandon(w)
    PROVE  Paired'
<1>1. CASE Stays(w)
  <2>1. CASE \A e \in Epochs : run'[e].state = run[e].state
    BY <1>1, <2>1, PairedStay DEF Stays
  <2>2. CASE Promote(w)
    <3>1. PICK e \in FindLive :
             /\ operator.cancel = NoCancel \/ run[e].state = "running"
             /\ MoveRun(e, "queued", "running")
      BY <2>2 DEF Promote
    <3>2. e \in Epochs /\ Live(e) /\ run \in [Epochs -> RunRow]
      BY <3>1 DEF FindLive, Inv, Rows
    <3>3. CASE run[e].state = "running"
      BY <2>2, <3>1, <3>3, PairedStay DEF Promote, MoveRun
    <3>4. CASE run[e].state = "queued" /\ operator.cancel = NoCancel
      <4>1. /\ run'[e].state = "running"
            /\ \A f \in Epochs : f # e => run'[f].state = run[f].state
        BY <3>1, <3>2, <3>4 DEF MoveRun, RunRow
      <4> QED
        BY <2>2, <3>2, <3>4, <4>1 DEF Promote, Paired, LiveRunHasBuilding, Live
    <3> QED
      BY <3>1, <3>2, <3>3, <3>4 DEF Live
  <2> QED
    BY <1>1, <2>1, <2>2 DEF Stays
<1>2. CASE Fails(w) \/ Flip(w)
  <2>1. PICK e \in Epochs : e = worker[w].run
    BY <1>2 DEF Fails, Flip, Ends
  <2>2. /\ Live(e) => run[e].state = "running"
        /\ operator' = operator
        /\ \E state \in {"failed", "complete"}, to \in {"failed", "completed"} :
              EndProfile(e, state) /\ MoveRun(e, "running", to)
    BY <1>2, <2>1 DEF Fails, Flip, Ends, Live
  <2> QED
    BY <2>2, PairedEnds
<1>3. CASE Write(w)
  BY <1>3, PairedStay DEF Write
<1> QED
  BY <1>1, <1>2, <1>3, DriveShape

LEMMA PairedCreate ==
    ASSUME Inv, Paired, Create
    PROVE  Paired'
<1>1. operator \in OperatorRow
  BY DEF Inv, Rows
<1>2. operator'.cancel = operator.cancel
  BY <1>1 DEF Create, OperatorRow
<1>3. CASE UNCHANGED <<profile, run, tasks>>
  BY <1>2, <1>3, PairedStay
<1>4. CASE ~UNCHANGED <<profile, run, tasks>>
  <2>1. PICK e \in Epochs :
           /\ profile[e].state = "none" /\ \A f \in Epochs : ~Live(f)
           /\ profile' = [profile EXCEPT
                 ![e] = [state |-> "building", target |-> operator.probed.target,
                         probe |-> operator.probed.probe]]
           /\ run' = [run EXCEPT ![e].state = "queued"]
    BY <1>4, CreateIs
  <2>2. profile \in [Epochs -> ProfileRow] /\ run \in [Epochs -> RunRow]
    BY DEF Inv, Rows
  <2>3. /\ profile'[e].state = "building" /\ run'[e].state = "queued"
        /\ \A f \in Epochs : f # e => /\ profile'[f] = profile[f]
                                      /\ run'[f] = run[f]
    BY <2>1, <2>2 DEF RunRow
  <2>4. LiveRunHasBuilding'
    BY <2>3 DEF Paired, LiveRunHasBuilding, Live
  <2>5. operator.cancel # NoCancel => operator.cancel.run # e
    BY <2>1, Consts DEF Inv, Flight
  <2>6. operator.cancel # NoCancel =>
           \/ run'[operator.cancel.run].state = operator.cancel.from
           \/ run'[operator.cancel.run].state \notin {"queued", "running"}
    BY <2>3, <2>5 DEF Paired, Live, Inv, Flight
  <2> QED
    BY <1>2, <2>4, <2>6 DEF Paired, Live
<1> QED
  BY <1>3, <1>4

LEMMA NextPaired ==
    ASSUME ~SlowCancel, Inv, Paired, [Next]_vars
    PROVE  Paired'
<1>1. ASSUME NEW w \in Workers, Drive(w) \/ Abandon(w) PROVE Paired'
  BY <1>1, PairedDrive
<1>2. ASSUME NEW c \in Ingesters, Ingest(c) PROVE Paired'
  <2>1. IngestFrame
    BY <1>2 DEF Ingest, Embed, Begin, AcquireShared, ReadActive, CommitNovel
  <2> QED
    BY <2>1, PairedStay DEF IngestFrame
<1>3. operator \in OperatorRow
  BY DEF Inv, Rows
<1>4. CASE \E t \in Targets : Probe(t)
  BY <1>3, <1>4, PairedStay DEF Probe, OperatorRow
<1>5. CASE Create
  BY <1>5, PairedCreate
<1>6. CASE CancelRead
  <2>1. PICK e \in FindLive :
           operator' = [operator EXCEPT !.cancel = [run |-> e, from |-> run[e].state]]
    BY <1>6 DEF CancelRead
  <2>2. operator'.cancel = [run |-> e, from |-> run[e].state]
    BY <1>3, <2>1 DEF OperatorRow
  <2> QED
    BY <1>6, <2>2 DEF CancelRead, Paired, LiveRunHasBuilding, Live
<1>7. CASE CancelApply
  <2>1. PICK e \in Epochs, from \in {"queued", "running"} :
           e = operator.cancel.run /\ from = operator.cancel.from
    BY <1>7 DEF CancelApply, Inv, Flight
  <2>2. EndProfile(e, "failed") /\ MoveRun(e, from, "aborted")
    BY <1>7, <2>1 DEF CancelApply
  <2>3. Live(e) => run[e].state = from
    BY <1>7, <2>1 DEF CancelApply, Paired
  <2>4. operator'.cancel = NoCancel
    BY <1>3, <1>7 DEF CancelApply, OperatorRow
  <2> QED
    BY <2>2, <2>3, <2>4, PairedEnds
<1>8. CASE Prune
  <2>1. PICK gone \in SUBSET Epochs :
           /\ \A e \in gone : profile[e].state \in {"failed", "complete", "superseded"}
           /\ profile' = [e \in Epochs |->
                 IF e \in gone THEN [profile[e] EXCEPT !.state = "superseded"]
                               ELSE profile[e]]
    BY <1>8, PruneIs
  <2>2. \A e \in Epochs : profile'[e].state = "building"
                             <=> profile[e].state = "building"
    BY <2>1 DEF Inv, Rows, ProfileRow
  <2> QED
    BY <1>8, <2>2, PairedStay DEF Prune
<1>9. CASE Drift
  BY <1>9, PairedStay DEF Drift
<1>10. CASE UNCHANGED vars
  BY <1>10, PairedStay DEF vars
<1> QED
  BY <1>1, <1>2, <1>4, <1>5, <1>6, <1>7, <1>8, <1>9, <1>10 DEF Next

\* create, fail_run, the cutover and a cancel move a profile and its run
\* together: no run waits for a profile that can no longer be built, and boot
\* finds nothing to reconcile.  Not so when a promotion falls inside a cancel's
\* transaction, which SlowCancel allows.
THEOREM LiveRunHasBuildingHolds ==
    ASSUME ~SlowCancel
    PROVE  Spec => []LiveRunHasBuilding
<1>1. Init => Inv
  BY InitInv
<1>2. Init => Paired
  <2>1. ASSUME Init PROVE Paired
    <3>1. \A e \in Epochs : /\ profile[e].state \in {"complete", "none"}
                            /\ run[e].state = "none"
      BY <2>1 DEF Init
    <3>2. operator.cancel = NoCancel
      BY <2>1 DEF Init
    <3> QED
      BY <3>1, <3>2 DEF Paired, LiveRunHasBuilding, Live
  <2> QED
    BY <2>1
<1>3. Inv /\ [Next]_vars => Inv'
  BY NextInv
<1>4. Inv /\ Paired /\ [Next]_vars => Paired'
  BY NextPaired
<1>5. Paired => LiveRunHasBuilding
  BY DEF Paired
<1> QED
  BY <1>1, <1>2, <1>3, <1>4, <1>5, PTL DEF Spec

-----------------------------------------------------------------------------
(* Everything committed is covered by the active profile.                    *)

\* a is active after the step, and covers the corpus as it is then.
LEMMA CoveredBy ==
    ASSUME NEW a \in Epochs, profile'[a].state = "complete",
           \A e \in Epochs : profile'[e].state = "complete" => e <= a,
           \A x \in corpus' : x \in quarantined'[a] \/ rows'[a][x] # None,
           \A c \in Ingesters : ingest'[c].pc \in {"unlocked", "writing"} =>
                                   ingest'[c].prof = a
    PROVE  Covered'
<1>1. Active' = a
  <2> DEFINE top(e) == /\ profile'[e].state = "complete"
                       /\ \A f \in Epochs : profile'[f].state = "complete" => f <= e
  <2>1. top(a)
    OBVIOUS
  <2>2. \A e \in Epochs : top(e) => e = a
    BY Consts
  <2>3. Active' = CHOOSE e \in Epochs : top(e)
    BY DEF Active
  <2> HIDE DEF top
  <2> QED
    BY <2>1, <2>2, <2>3
<1>2. ActiveCovered'
  BY <1>1 DEF ActiveCovered, Missing
<1> QED
  BY <1>1, <1>2 DEF Covered

LEMMA CoveredIs ==
    ASSUME Inv, Covered
    PROVE  \E a \in Epochs :
              /\ a = Active /\ profile[a].state = "complete"
              /\ \A e \in Epochs : profile[e].state = "complete" => e <= a
              /\ \A x \in corpus : x \in quarantined[a] \/ rows[a][x] # None
              /\ \A c \in Ingesters : ingest[c].pc \in {"unlocked", "writing"} =>
                                         ingest[c].prof = a
<1>1. PICK a \in Epochs :
         /\ a = Active /\ profile[a].state = "complete"
         /\ \A e \in Epochs : profile[e].state = "complete" => e <= a
  BY ActiveIs DEF Inv
<1> QED
  BY <1>1 DEF Covered, ActiveCovered, Missing

LEMMA CoveredStay ==
    ASSUME Inv, Covered,
           \A e \in Epochs : profile'[e].state = "complete"
                                <=> profile[e].state = "complete",
           UNCHANGED <<corpus, rows, quarantined, ingest>>
    PROVE  Covered'
BY CoveredIs, CoveredBy

LEMMA EndComplete ==
    ASSUME Rows, NEW e \in Epochs, EndProfile(e, "failed")
    PROVE  \A f \in Epochs : profile'[f].state = "complete"
                                <=> profile[f].state = "complete"
BY DEF EndProfile, Rows, ProfileRow

LEMMA CoveredDrive ==
    ASSUME ~LongCommit, Inv, Covered, NEW w \in Workers, Drive(w) \/ Abandon(w)
    PROVE  Covered'
<1>1. PICK a \in Epochs :
         /\ a = Active /\ profile[a].state = "complete"
         /\ \A e \in Epochs : profile[e].state = "complete" => e <= a
         /\ \A x \in corpus : x \in quarantined[a] \/ rows[a][x] # None
         /\ \A c \in Ingesters : ingest[c].pc \in {"unlocked", "writing"} =>
                                    ingest[c].prof = a
  BY CoveredIs
<1>2. CASE Stays(w)
  BY <1>2, CoveredStay DEF Stays
<1>3. CASE Fails(w)
  <2>1. PICK e \in Epochs : e = worker[w].run /\ EndProfile(e, "failed")
    BY <1>3 DEF Fails, Ends
  <2>2. \A f \in Epochs : profile'[f].state = "complete"
                             <=> profile[f].state = "complete"
    BY <2>1, EndComplete DEF Inv
  <2> QED
    BY <1>3, <2>2, CoveredStay DEF Fails, Ends
<1>4. CASE Flip(w)
  <2>1. PICK e \in Epochs :
           /\ e = worker[w].run /\ Remaining(e) = 0
           /\ profile[e].state = "building" /\ EndProfile(e, "complete")
    BY <1>4 DEF Flip, Ends
  <2>2. /\ profile'[e].state = "complete"
        /\ \A f \in Epochs : f # e => profile'[f] = profile[f]
    BY <2>1 DEF EndProfile, Inv, Rows, ProfileRow
  <2>3. \A f \in Epochs : profile[f].state # "none" => f <= e
    BY <2>1 DEF Inv, Flight
  <2>4. Missing(e) = {}
    BY <2>1, MissingFinite DEF Inv
  <2>5. \A x \in corpus : x \in quarantined[e] \/ rows[e][x] # None
    BY <2>4 DEF Missing
  <2>6. \A c \in Ingesters : ingest[c].pc \notin {"unlocked", "writing"}
    BY <1>4 DEF Flip, ExclusiveFree, HoldsShared
  <2>7. \A f \in Epochs : profile'[f].state = "complete" => f <= e
    BY <2>2, <2>3, Consts
  <2> QED
    BY <1>4, <2>2, <2>5, <2>6, <2>7, CoveredBy DEF Flip, Ends
<1>5. CASE Write(w)
  <2>1. PICK me \in WorkerRow : me = worker[w] /\ Fits(me) /\ me.pc = "write"
    BY <1>5, AtRow DEF Write, At
  <2>2. me.prof \in Epochs /\ me.geo # None
    BY <2>1, Consts DEF Fits, Inv, Rows
  <2>3. rows' = [rows EXCEPT ![me.prof] = [x \in Entities |->
              IF x \in me.good /\ (x \in Tags \/ @[x] = None) THEN me.geo ELSE @[x]]]
    BY <1>5, <2>1 DEF Write
  <2>4. \A x \in Entities : rows[a][x] # None => rows'[a][x] # None
    BY <2>2, <2>3 DEF Inv, Rows
  <2> DEFINE gone == IF me.class = "permanent" THEN me.bad ELSE {}
  <2>5. quarantined' = [quarantined EXCEPT ![me.prof] = @ \cup gone]
    BY <1>5, <2>1 DEF Write
  <2>6. quarantined[a] \subseteq quarantined'[a]
    <3> HIDE DEF gone
    <3> QED
      BY <2>2, <2>5 DEF Inv, Rows
  <2>7. corpus \subseteq Entities /\ UNCHANGED <<profile, corpus, ingest>>
    BY <1>5 DEF Write, Inv, Rows
  <2> QED
    BY <1>1, <2>4, <2>6, <2>7, CoveredBy
<1> QED
  BY <1>2, <1>3, <1>4, <1>5, DriveShape

LEMMA CoveredIngest ==
    ASSUME Inv, Covered, NEW c \in Ingesters, Ingest(c)
    PROVE  Covered'
<1>1. PICK a \in Epochs :
         /\ a = Active /\ profile[a].state = "complete"
         /\ \A e \in Epochs : profile[e].state = "complete" => e <= a
         /\ \A x \in corpus : x \in quarantined[a] \/ rows[a][x] # None
         /\ \A d \in Ingesters : ingest[d].pc \in {"unlocked", "writing"} =>
                                    ingest[d].prof = a
  BY CoveredIs
<1>2. IngestFrame /\ ingest \in [Ingesters -> IngestRow]
  BY DEF Ingest, Embed, Begin, AcquireShared, ReadActive, CommitNovel, Inv, Rows
<1>3. ASSUME \A d \in Ingesters : d # c => ingest'[d] = ingest[d],
             ingest'[c].pc \in {"unlocked", "writing"} => ingest'[c].prof = a,
             UNCHANGED <<corpus, rows>>
      PROVE  Covered'
  BY <1>1, <1>2, <1>3, CoveredBy DEF IngestFrame
<1>4. CASE Embed(c)
  <2>1. ingest'[c].pc = "ready" /\ \A d \in Ingesters : d # c => ingest'[d] = ingest[d]
    BY <1>2, <1>4 DEF Embed, IngestRow
  <2> QED
    BY <1>3, <1>4, <2>1 DEF Embed
<1>5. CASE Begin(c) \/ AcquireShared(c)
  <2>1. /\ ingest'[c].pc \in {"wait", "begun", "locked"}
        /\ \A d \in Ingesters : d # c => ingest'[d] = ingest[d]
    BY <1>2, <1>5 DEF Begin, AcquireShared, Goto, IngestRow
  <2> QED
    BY <1>3, <1>5, <2>1 DEF Begin, AcquireShared
<1>6. CASE ReadActive(c)
  <2>1. CASE a = ingest[c].prof
    <3>1. ingest'[c].prof = a /\ \A d \in Ingesters : d # c => ingest'[d] = ingest[d]
      BY <1>1, <1>2, <1>6, <2>1 DEF ReadActive, IngestRow
    <3> QED
      BY <1>3, <1>6, <3>1 DEF ReadActive
  <2>2. CASE a # ingest[c].prof
    <3>1. /\ ingest'[c].pc \in {"ready", "idle"}
          /\ \A d \in Ingesters : d # c => ingest'[d] = ingest[d]
      BY <1>1, <1>2, <1>6, <2>2 DEF ReadActive, IdleIngest
    <3> QED
      BY <1>3, <1>6, <3>1 DEF ReadActive
  <2> QED
    BY <2>1, <2>2
<1>7. CASE CommitNovel(c)
  <2>1. PICK me \in IngestRow : me = ingest[c] /\ Embeds(me)
    BY DEF Inv, Rows, Drives
  <2>2. me.prof = a /\ me.geo # None
    BY <1>1, <1>7, <2>1, Consts DEF CommitNovel, Embeds, Inv, Rows
  <2>3. /\ corpus' = corpus \cup Brings[c]
        /\ rows' = [rows EXCEPT ![a] = [x \in Entities |->
                       IF x \in Brings[c] THEN me.geo ELSE @[x]]]
    BY <1>7, <2>1, <2>2 DEF CommitNovel
  <2>4. corpus \subseteq Entities /\ Brings[c] \subseteq Entities
    BY Consts DEF Inv, Rows
  <2>5. \A x \in corpus' : x \in quarantined[a] \/ rows'[a][x] # None
    BY <1>1, <2>2, <2>3, <2>4 DEF Inv, Rows
  <2>6. ingest'[c].pc = "done" /\ \A d \in Ingesters : d # c => ingest'[d] = ingest[d]
    BY <1>2, <1>7 DEF CommitNovel, IdleIngest
  <2>7. UNCHANGED <<profile, quarantined>>
    BY <1>2 DEF IngestFrame
  <2> QED
    BY <1>1, <2>5, <2>6, <2>7, CoveredBy
<1> QED
  BY <1>4, <1>5, <1>6, <1>7 DEF Ingest

LEMMA NextCovered ==
    ASSUME ~LongCommit, Inv, Covered, [Next]_vars
    PROVE  Covered'
<1>1. ASSUME NEW w \in Workers, Drive(w) \/ Abandon(w) PROVE Covered'
  BY <1>1, CoveredDrive
<1>2. ASSUME NEW c \in Ingesters, Ingest(c) PROVE Covered'
  BY <1>2, CoveredIngest
<1>3. CASE (\E t \in Targets : Probe(t)) \/ CancelRead \/ Drift \/ UNCHANGED vars
  BY <1>3, CoveredStay DEF Probe, CancelRead, Drift, vars
<1>4. CASE Create
  <2>1. CASE UNCHANGED <<profile, run, tasks>>
    BY <1>4, <2>1, CoveredStay DEF Create
  <2>2. CASE ~UNCHANGED <<profile, run, tasks>>
    <3>1. PICK e \in Epochs :
             /\ profile[e].state = "none"
             /\ profile' = [profile EXCEPT
                   ![e] = [state |-> "building", target |-> operator.probed.target,
                           probe |-> operator.probed.probe]]
      BY <1>4, <2>2, CreateIs
    <3>2. \A f \in Epochs : profile'[f].state = "complete"
                               <=> profile[f].state = "complete"
      BY <3>1 DEF Inv, Rows
    <3> QED
      BY <1>4, <3>2, CoveredStay DEF Create
  <2> QED
    BY <2>1, <2>2
<1>5. CASE CancelApply
  <2>1. PICK e \in Epochs : e = operator.cancel.run /\ EndProfile(e, "failed")
    BY <1>5 DEF CancelApply, Inv, Flight
  <2>2. \A f \in Epochs : profile'[f].state = "complete"
                             <=> profile[f].state = "complete"
    BY <2>1, EndComplete DEF Inv
  <2> QED
    BY <1>5, <2>2, CoveredStay DEF CancelApply
<1>6. CASE Prune
  <2>1. PICK gone \in SUBSET Epochs, a \in Epochs :
           /\ a = Active /\ profile[a].state = "complete" /\ a \notin gone
           /\ profile' = [e \in Epochs |->
                 IF e \in gone THEN [profile[e] EXCEPT !.state = "superseded"]
                               ELSE profile[e]]
           /\ rows' = [e \in Epochs |->
                 IF e \in gone THEN [x \in Entities |-> None] ELSE rows[e]]
    BY <1>6, PruneIs
  <2>2. /\ \A e \in Epochs : profile[e].state = "complete" => e <= a
        /\ \A x \in corpus : x \in quarantined[a] \/ rows[a][x] # None
        /\ \A c \in Ingesters : ingest[c].pc \in {"unlocked", "writing"} =>
                                   ingest[c].prof = a
    BY <2>1, CoveredIs
  <2>3. /\ profile'[a] = profile[a] /\ rows'[a] = rows[a]
        /\ \A e \in Epochs : profile'[e].state = "complete" =>
                                profile[e].state = "complete"
    BY <2>1 DEF Inv, Rows, ProfileRow
  <2>4. UNCHANGED <<corpus, quarantined, ingest>>
    BY <1>6 DEF Prune
  <2> QED
    BY <2>1, <2>2, <2>3, <2>4, CoveredBy
<1> QED
  BY <1>1, <1>2, <1>3, <1>4, <1>5, <1>6 DEF Next

\* Every committed item and tag is searchable, whatever commits, drives,
\* cancels and prunes do to each other, for as long as no commit that began
\* without the lock outlasts a whole reindex, which LongCommit allows.
THEOREM ActiveCoveredHolds ==
    ASSUME ~LongCommit
    PROVE  Spec => []ActiveCovered
<1>1. Init => Inv
  BY InitInv
<1>2. Init => Covered
  <2>1. ASSUME Init PROVE Covered
    <3>1. Active = 1
      <4>1. \A e \in Epochs : profile[e].state = "complete" <=> e = 1
        BY <2>1 DEF Init
      <4>2. Active \in Epochs /\ profile[Active].state = "complete"
        BY <2>1, InitInv, ActiveIs DEF Inv
      <4> QED
        BY <4>1, <4>2
    <3>2. corpus = Seed /\ \A x \in Seed : rows[1][x] = 0
      BY <2>1, Consts DEF Init
    <3>3. 0 # None
      BY Consts
    <3>4. \A c \in Ingesters : ingest[c].pc = "idle"
      BY <2>1 DEF Init, IdleIngest
    <3> QED
      BY <3>1, <3>2, <3>3, <3>4 DEF Covered, ActiveCovered, Missing
  <2> QED
    BY <2>1
<1>3. Inv /\ [Next]_vars => Inv'
  BY NextInv
<1>4. Inv /\ Covered /\ [Next]_vars => Covered'
  BY NextCovered
<1>5. Covered => ActiveCovered
  BY DEF Covered
<1> QED
  BY <1>1, <1>2, <1>3, <1>4, <1>5, PTL DEF Spec

-----------------------------------------------------------------------------
(* Embeddings that a flip makes active come from the serving that was probed.*)

LEMMA SoundStay ==
    ASSUME NEW me, Fits(me), Sound(me),
           \A e \in Epochs : /\ profile'[e].probe = profile[e].probe
                             /\ profile'[e].state = "building" =>
                                   profile[e].state = "building" /\ rows'[e] = rows[e]
    PROVE  Sound(me)'
<1>1. me.pc \in {"write", "lock"} => me.prof \in Epochs
  BY DEF Fits
<1> QED
  BY <1>1 DEF Sound

\* A step that embeds nothing and creates no profile.
LEMMA VerifiedStay ==
    ASSUME Inv, Verified, drift' = drift, rows' = rows,
           \A e \in Epochs : /\ profile'[e].probe = profile[e].probe
                             /\ profile'[e].state = "none" => profile[e].state = "none"
                             /\ profile'[e].state = "building" =>
                                   profile[e].state = "building",
           operator'.probed.probe <= drift,
           \A w \in Workers : Sound(worker[w])'
    PROVE  Verified'
BY DEF Verified

LEMMA SoundsStay ==
    ASSUME Inv, Verified, worker' = worker,
           \A e \in Epochs : /\ profile'[e].probe = profile[e].probe
                             /\ profile'[e].state = "building" =>
                                   profile[e].state = "building" /\ rows'[e] = rows[e]
    PROVE  \A w \in Workers : Sound(worker[w])'
<1>1. ASSUME NEW w \in Workers PROVE Sound(worker[w])'
  <2>1. PICK me \in WorkerRow : me = worker[w] /\ Fits(me)
    BY AtRow
  <2>2. Sound(me)
    BY <2>1 DEF Verified
  <2>3. Sound(me)'
    BY <2>1, <2>2, SoundStay
  <2> QED
    BY <2>1, <2>3
<1> QED
  BY <1>1

LEMMA EndProbe ==
    ASSUME Rows, NEW e \in Epochs, NEW state \in {"failed", "complete"},
           EndProfile(e, state)
    PROVE  \A f \in Epochs :
              /\ profile'[f].probe = profile[f].probe
              /\ profile'[f].state = "none" => profile[f].state = "none"
              /\ profile'[f].state = "building" => profile[f].state = "building"
BY DEF EndProfile, Rows, ProfileRow

LEMMA VerifiedWrite ==
    ASSUME OneDrive, Inv, Verified, NEW w \in Workers, Write(w)
    PROVE  Verified'
<1>1. PICK me \in WorkerRow : me = worker[w] /\ Fits(me) /\ Sound(me) /\ me.pc = "write"
  BY AtRow DEF Write, At, Verified
<1>2. PICK e \in Epochs :
         /\ e = me.prof /\ profile[e].state # "none" /\ me.geo \in 0 .. drift
         /\ profile[e].probe <= me.geo
  BY <1>1 DEF Fits, Sound
<1>3. /\ drift \in Nat /\ profile \in [Epochs -> ProfileRow]
      /\ rows \in [Epochs -> [Entities -> {None} \cup 0 .. MaxDrift]]
      /\ \A f \in Epochs : profile[f].probe \in Int
  BY Consts DEF Inv, Rows, ProfileRow
<1>4. /\ rows' = [rows EXCEPT ![e] = [x \in Entities |->
              IF x \in me.good /\ (x \in Tags \/ @[x] = None) THEN me.geo ELSE @[x]]]
      /\ UNCHANGED <<profile, operator, drift>>
  BY <1>1, <1>2 DEF Write
<1>5. \A f \in Epochs, x \in Entities :
         rows'[f][x] = rows[f][x] \/ (f = e /\ rows'[f][x] = me.geo)
  BY <1>3, <1>4
<1>6. \A f \in Epochs, x \in Entities : rows'[f][x] <= drift
  BY <1>2, <1>3, <1>5 DEF Verified
<1>7. \A f \in Epochs : profile[f].state = "none" =>
         \A x \in Entities : rows'[f][x] = None
  BY <1>2, <1>5 DEF Verified
<1>8. \A f \in Epochs : profile[f].state = "building" =>
         \A x \in Entities : rows'[f][x] \in {None} \cup profile[f].probe .. drift
  BY <1>2, <1>3, <1>5 DEF Verified
<1>9. \A v \in Workers : worker'[v].pc = "bump"
  <2>1. PICK n : n = Cardinality(((IF me.class = "permanent" THEN me.bad ELSE {})
                                     \cap Items) \ quarantined[me.prof])
    OBVIOUS
  <2>2. PICK rec : rec = [me EXCEPT !.pc = "bump", !.new = n, !.good = {}, !.geo = None]
    OBVIOUS
  <2>3. rec.pc = "bump" /\ Set(w, rec)
    BY <1>1, <2>1, <2>2 DEF Write, WorkerRow
  <2> QED
    BY <2>3, SetIs DEF OneDrive
<1>10. \A v \in Workers : Sound(worker[v])'
  BY <1>9 DEF Sound
<1> QED
  BY <1>4, <1>6, <1>7, <1>8, <1>10 DEF Verified

LEMMA VerifiedDrive ==
    ASSUME OneDrive, Inv, Inv', Verified, NEW w \in Workers, Drive(w) \/ Abandon(w)
    PROVE  Verified'
<1>1. /\ drift \in Nat /\ \A f \in Epochs : profile[f].probe \in Int
      /\ profile \in [Epochs -> ProfileRow]
  BY Consts DEF Inv, Rows, ProfileRow
<1>2. CASE Stays(w)
  <2>1. UNCHANGED <<profile, rows, operator, drift>>
    BY <1>2 DEF Stays
  <2>2. PICK me \in WorkerRow : me = worker'[w] /\ Fits(me)'
    BY DEF Inv, Rows, Drives
  <2>3. Sound(me)'
    <3>1. me.pc = "write" => profile'[me.prof].probe <= me.geo
      BY <1>2, <2>1, <2>2 DEF Stays, Fits, Verified
    <3>2. ASSUME me.pc = "lock", ~me.drifted, profile'[me.prof].state = "building",
                 NEW x \in Entities
          PROVE  rows'[me.prof][x] \in {None, profile'[me.prof].probe}
      <4>1. me.prof \in Epochs
        BY <2>2, <3>2 DEF Fits
      <4>2. profile[me.prof].probe = drift /\ profile[me.prof].state = "building"
        BY <1>2, <2>1, <2>2, <3>2 DEF Stays
      <4>3. rows[me.prof][x] \in {None} \cup drift .. drift
        BY <4>1, <4>2 DEF Verified
      <4>4. \A k : k \in drift .. drift => k = drift
        BY <1>1
      <4> QED
        BY <2>1, <4>2, <4>3, <4>4
    <3> QED
      BY <3>1, <3>2 DEF Sound
  <2>4. \A v \in Workers : Sound(worker[v])'
    BY <2>2, <2>3 DEF OneDrive
  <2> QED
    BY <2>1, <2>4, VerifiedStay DEF Verified
<1>3. CASE Fails(w) \/ Flip(w)
  <2>1. PICK e \in Epochs, state \in {"failed", "complete"} : EndProfile(e, state)
    BY <1>3 DEF Fails, Flip, Ends
  <2>2. UNCHANGED <<rows, operator, drift>> /\ worker'[w].pc = "idle"
    BY <1>3, SetIs DEF Fails, Flip, Ends, Yield, IdleWorker
  <2>3. \A v \in Workers : Sound(worker[v])'
    BY <2>2 DEF OneDrive, Sound
  <2> QED
    BY <2>1, <2>2, <2>3, EndProbe, VerifiedStay DEF Verified, Inv
<1>4. CASE Write(w)
  BY <1>4, VerifiedWrite
<1> QED
  BY <1>2, <1>3, <1>4, DriveShape

LEMMA VerifiedIngest ==
    ASSUME Inv, Verified, NEW c \in Ingesters, Ingest(c)
    PROVE  Verified'
<1>1. /\ UNCHANGED <<profile, worker, operator, drift>>
      /\ rows \in [Epochs -> [Entities -> {None} \cup 0 .. MaxDrift]]
      /\ drift \in Nat
  BY Consts DEF Ingest, Embed, Begin, AcquireShared, ReadActive, CommitNovel,
     IngestFrame, Inv, Rows
<1>2. CASE rows' = rows
  BY <1>1, <1>2, SoundsStay, VerifiedStay DEF Verified
<1>3. CASE CommitNovel(c)
  <2>1. PICK me \in IngestRow : me = ingest[c] /\ Embeds(me)
    BY DEF Inv, Rows, Drives
  <2>2. PICK e \in Epochs :
           /\ e = me.prof /\ me.geo \in 0 .. drift
           /\ profile[e].state \in {"complete", "superseded"}
    BY <1>3, <2>1 DEF CommitNovel, Embeds
  <2>3. rows' = [rows EXCEPT ![e] = [x \in Entities |->
                    IF x \in Brings[c] THEN me.geo ELSE @[x]]]
    BY <1>3, <2>1, <2>2 DEF CommitNovel
  <2>4. /\ \A f \in Epochs : f # e => rows'[f] = rows[f]
        /\ \A x \in Entities : rows'[e][x] \in {rows[e][x], me.geo}
    BY <1>1, <2>3
  <2>5. \A f \in Epochs, x \in Entities : rows'[f][x] <= drift
    BY <1>1, <2>2, <2>4 DEF Verified
  <2>6. \A f \in Epochs : profile'[f].state \in {"building", "none"} =>
                             profile[f].state = profile'[f].state /\ rows'[f] = rows[f]
    BY <1>1, <2>2, <2>4
  <2>7. \A w \in Workers : Sound(worker[w])'
    BY <1>1, <2>6, SoundsStay
  <2> QED
    BY <1>1, <2>5, <2>6, <2>7 DEF Verified
<1> QED
  BY <1>2, <1>3 DEF Ingest, Embed, Begin, AcquireShared, ReadActive

LEMMA VerifiedCreate ==
    ASSUME Inv, Verified, Create
    PROVE  Verified'
<1>1. operator \in OperatorRow /\ drift \in Nat
  BY Consts DEF Inv, Rows
<1>2. operator'.probed.probe <= drift
  BY <1>1, Consts DEF Create, OperatorRow, NoTarget
<1>3. UNCHANGED <<rows, worker, drift>>
  BY DEF Create
<1>4. CASE UNCHANGED <<profile, run, tasks>>
  BY <1>2, <1>3, <1>4, SoundsStay, VerifiedStay
<1>5. CASE ~UNCHANGED <<profile, run, tasks>>
  <2>1. PICK e \in Epochs :
           /\ profile[e].state = "none"
           /\ profile' = [profile EXCEPT
                 ![e] = [state |-> "building", target |-> operator.probed.target,
                         probe |-> operator.probed.probe]]
    BY <1>5, CreateIs
  <2>2. /\ profile'[e].probe = operator.probed.probe /\ profile'[e].state = "building"
        /\ \A f \in Epochs : f # e => profile'[f] = profile[f]
    BY <2>1 DEF Inv, Rows
  <2>3. \A x \in Entities : rows'[e][x] = None
    BY <1>3, <2>1 DEF Verified
  <2>4. ASSUME NEW w \in Workers PROVE Sound(worker[w])'
    <3>1. PICK me \in WorkerRow : me = worker[w] /\ Fits(me) /\ Sound(me)
      BY AtRow DEF Verified
    <3>2. me.pc \in {"write", "lock"} => me.prof \in Epochs /\ me.prof # e
      BY <2>1, <3>1 DEF Fits
    <3>3. Sound(me)'
      BY <1>3, <2>2, <3>1, <3>2 DEF Sound
    <3> QED
      BY <1>3, <3>1, <3>3
  <2> QED
    BY <1>2, <1>3, <2>2, <2>3, <2>4 DEF Verified
<1> QED
  BY <1>4, <1>5

LEMMA NextVerified ==
    ASSUME OneDrive, Inv, Verified, [Next]_vars
    PROVE  Verified'
<1>1. ASSUME NEW w \in Workers, Drive(w) \/ Abandon(w) PROVE Verified'
  BY <1>1, NextInv, VerifiedDrive DEF Next
<1>2. ASSUME NEW c \in Ingesters, Ingest(c) PROVE Verified'
  BY <1>2, VerifiedIngest
<1>3. operator \in OperatorRow /\ drift \in Nat
  BY Consts DEF Inv, Rows
<1>4. CASE \E t \in Targets : Probe(t)
  <2>1. PICK t \in Targets : Probe(t)
    BY <1>4
  <2>2. operator'.probed = [target |-> t, probe |-> drift]
    BY <1>3, <2>1 DEF Probe, OperatorRow
  <2>3. operator'.probed.probe <= drift
    BY <1>3, <2>2
  <2> QED
    BY <2>1, <2>3, SoundsStay, VerifiedStay DEF Probe
<1>5. CASE Create
  BY <1>5, VerifiedCreate
<1>6. CASE CancelRead
  <2>1. operator'.probed = operator.probed
    BY <1>3, <1>6 DEF CancelRead, OperatorRow
  <2> QED
    BY <1>6, <2>1, SoundsStay, VerifiedStay DEF CancelRead, Verified
<1>7. CASE CancelApply
  <2>1. PICK e \in Epochs : EndProfile(e, "failed")
    BY <1>7 DEF CancelApply, Inv, Flight
  <2>2. operator'.probed = operator.probed
    BY <1>3, <1>7 DEF CancelApply, OperatorRow
  <2> QED
    BY <1>7, <2>1, <2>2, EndProbe, SoundsStay, VerifiedStay
       DEF CancelApply, Verified, Inv
<1>8. CASE Prune
  <2>1. PICK gone \in SUBSET Epochs :
           /\ \A e \in gone : profile[e].state \in {"failed", "complete", "superseded"}
           /\ profile' = [e \in Epochs |->
                 IF e \in gone THEN [profile[e] EXCEPT !.state = "superseded"]
                               ELSE profile[e]]
           /\ rows' = [e \in Epochs |->
                 IF e \in gone THEN [x \in Entities |-> None] ELSE rows[e]]
    BY <1>8, PruneIs
  <2>2. \A e \in Epochs :
           /\ profile'[e].probe = profile[e].probe
           /\ profile'[e].state \in {"none", "building"} =>
                 profile'[e] = profile[e] /\ rows'[e] = rows[e]
    BY <2>1 DEF Inv, Rows, ProfileRow
  <2>3. \A e \in Epochs, x \in Entities : rows'[e][x] \in {None, rows[e][x]}
    BY <2>1
  <2>4. UNCHANGED <<worker, operator, drift>>
    BY <1>8 DEF Prune
  <2>5. \A w \in Workers : Sound(worker[w])'
    BY <2>2, <2>4, SoundsStay
  <2>6. \A e \in Epochs, x \in Entities : rows'[e][x] <= drift
    BY <1>3, <2>3, Consts DEF Verified
  <2> QED
    BY <2>2, <2>4, <2>5, <2>6 DEF Verified
<1>9. CASE Drift
  <2>1. UNCHANGED <<profile, rows, worker, operator>> /\ drift' = drift + 1
    BY <1>9 DEF Drift
  <2>2. \A w \in Workers : Sound(worker[w])'
    BY <2>1, SoundsStay
  <2>3. /\ \A e \in Epochs : profile[e].probe \in Int
        /\ operator.probed.probe \in Int
        /\ \A e \in Epochs, x \in Entities : rows[e][x] \in Int
    BY <1>3, Consts DEF Inv, Rows, ProfileRow, OperatorRow
  <2>4. \A k \in Int : k <= drift => k <= drift'
    BY <1>3, <2>1
  <2>5. \A p \in Int : \A k : k \in p .. drift => k \in p .. drift'
    BY <1>3, <2>1
  <2>6. /\ \A e \in Epochs : profile'[e].probe <= drift'
        /\ operator'.probed.probe <= drift'
        /\ \A e \in Epochs, x \in Entities : rows'[e][x] <= drift'
    BY <2>1, <2>3, <2>4 DEF Verified
  <2>7. \A e \in Epochs : profile'[e].state = "building" =>
           \A x \in Entities : rows'[e][x] \in {None} \cup profile'[e].probe .. drift'
    BY <2>1, <2>3, <2>5 DEF Verified
  <2> QED
    BY <2>1, <2>2, <2>6, <2>7 DEF Verified
<1>10. CASE UNCHANGED vars
  BY <1>10, SoundsStay, VerifiedStay DEF vars, Verified
<1> QED
  BY <1>1, <1>2, <1>4, <1>5, <1>6, <1>7, <1>8, <1>9, <1>10 DEF Next

\* Only the cutover makes a profile active.
LEMMA OnlyFlips ==
    ASSUME Inv, [Next]_vars, NEW e \in Epochs, Flips(e)
    PROVE  \E w \in Workers : Flip(w) /\ worker[w].run = e /\ worker[w].prof = e
<1>1. profile[e].state = "building" /\ profile'[e].state = "complete"
  BY DEF Flips
<1>2. profile \in [Epochs -> ProfileRow] /\ profile' # profile
  BY <1>1 DEF Inv, Rows
<1>3. ASSUME NEW f \in Epochs, EndProfile(f, "failed") PROVE FALSE
  BY <1>1, <1>3, EndComplete DEF Inv
<1>4. ASSUME NEW w \in Workers, Drive(w) \/ Abandon(w)
      PROVE  Flip(w) /\ worker[w].run = e /\ worker[w].prof = e
  <2>1. ~Stays(w) /\ ~Write(w)
    BY <1>2 DEF Stays, Write
  <2>2. ~Fails(w)
    BY <1>3 DEF Fails, Ends
  <2>3. Flip(w)
    BY <1>4, <2>1, <2>2, DriveShape
  <2>4. PICK f \in Epochs :
           f = worker[w].run /\ worker[w].prof = f /\ EndProfile(f, "complete")
    BY <2>3 DEF Flip, Ends
  <2>5. f = e
    BY <1>1, <1>2, <2>4 DEF EndProfile
  <2> QED
    BY <2>3, <2>4, <2>5
<1>5. ASSUME NEW c \in Ingesters, Ingest(c) PROVE FALSE
  BY <1>2, <1>5 DEF Ingest, Embed, Begin, AcquireShared, ReadActive, CommitNovel,
     IngestFrame
<1>6. CASE (\E t \in Targets : Probe(t)) \/ CancelRead \/ Drift \/ UNCHANGED vars
  BY <1>2, <1>6 DEF Probe, CancelRead, Drift, vars
<1>7. CASE Create
  <2>1. PICK f \in Epochs :
           /\ profile[f].state = "none"
           /\ profile' = [profile EXCEPT
                 ![f] = [state |-> "building", target |-> operator.probed.target,
                         probe |-> operator.probed.probe]]
    BY <1>2, <1>7, CreateIs
  <2> QED
    BY <1>1, <1>2, <2>1
<1>8. CASE CancelApply
  BY <1>3, <1>8 DEF CancelApply, Inv, Flight
<1>9. CASE Prune
  <2>1. PICK gone \in SUBSET Epochs :
           profile' = [f \in Epochs |->
              IF f \in gone THEN [profile[f] EXCEPT !.state = "superseded"]
                            ELSE profile[f]]
    BY <1>9, PruneIs
  <2> QED
    BY <1>1, <1>2, <2>1 DEF ProfileRow
<1> QED
  BY <1>4, <1>5, <1>6, <1>7, <1>8, <1>9 DEF Next

LEMMA FlipSound ==
    ASSUME Inv, Verified, [Next]_vars, NEW e \in Epochs, Flips(e), NEW x \in Entities
    PROVE  rows[e][x] \in {None, profile[e].probe}
<1>1. PICK w \in Workers : Flip(w) /\ worker[w].run = e /\ worker[w].prof = e
  BY OnlyFlips
<1>2. Sound(worker[w])
  BY DEF Verified
<1> QED
  BY <1>1, <1>2 DEF Flip, At, Sound, Flips

LEMMA InitVerified ==
    ASSUME Init
    PROVE  Verified
<1>1. None = -1 /\ drift = 0
  BY Consts DEF Init
<1>2. \A e \in Epochs : /\ profile[e].probe <= drift
                        /\ profile[e].state \in {"none", "complete"}
                        /\ profile[e].state = "none" => e # 1
  BY <1>1 DEF Init
<1>3. operator.probed.probe <= drift
  BY <1>1 DEF Init, NoTarget
<1>4. \A e \in Epochs, x \in Entities :
         rows[e][x] <= drift /\ (e # 1 => rows[e][x] = None)
  BY <1>1 DEF Init
<1>5. \A w \in Workers : worker[w].pc = "idle"
  BY DEF Init, IdleWorker
<1> QED
  BY <1>2, <1>3, <1>4, <1>5 DEF Verified, Sound

\* With one process driving, a profile goes active only when each embedding
\* under it comes from the serving that its probe captured, however the serving
\* drifts during the build and whatever is committed meanwhile.
THEOREM FlipVerifiedHolds ==
    ASSUME OneDrive
    PROVE  Spec => FlipVerified
<1> DEFINE Step == \A e \in Epochs : Flips(e) =>
                      \A x \in Entities : rows[e][x] \in {None, profile[e].probe}
<1>1. Init => Inv /\ Verified
  BY InitInv, InitVerified
<1>2. Inv /\ Verified /\ [Next]_vars => (Inv /\ Verified)'
  BY NextInv, NextVerified
<1>3. Inv /\ Verified /\ [Next]_vars => [Step]_vars
  BY FlipSound
<1>4. FlipVerified <=> [][Step]_vars
  BY PTL DEF FlipVerified, Step
<1> QED
  BY <1>1, <1>2, <1>3, <1>4, PTL DEF Spec

-----------------------------------------------------------------------------
(* A flip is within the cap.                                                 *)

LEMMA WithinStay ==
    ASSUME WithinCap,
           \A e \in Epochs : /\ run'[e].tally = run[e].tally
                             /\ run'[e].enumerated = run[e].enumerated,
           \A w \in Workers : worker'[w].pc \in {"probe", "lock"} =>
              /\ worker[w].run \in Epochs /\ worker'[w].run = worker[w].run
              /\ worker[w].pc \in {"probe", "lock"} \/ ~ExceedsCap(worker[w].run)
    PROVE  WithinCap'
BY DEF WithinCap, ExceedsCap

LEMMA EndCounts ==
    ASSUME Rows, NEW e \in Epochs, NEW from, NEW to,
           MoveRun(e, from, to)
    PROVE  \A f \in Epochs : /\ run'[f].tally = run[f].tally
                             /\ run'[f].enumerated = run[f].enumerated
BY DEF MoveRun, Rows, RunRow

\* A drive at the probe or the lock has a run.
LEMMA WithinRun ==
    ASSUME Inv, NEW w \in Workers, worker[w].pc \in {"probe", "lock"}
    PROVE  worker[w].run \in Epochs
BY AtRow DEF Fits

LEMMA WithinDrive ==
    ASSUME OneDrive, Inv, Inv', WithinCap, NEW w \in Workers, Drive(w) \/ Abandon(w)
    PROVE  WithinCap'
<1>1. CASE worker'[w].pc \notin {"probe", "lock"}
  BY <1>1 DEF OneDrive, WithinCap
<1>2. CASE worker'[w].pc \in {"probe", "lock"}
  <2>1. Stays(w)
    <3>1. ASSUME Fails(w) \/ Flip(w) PROVE FALSE
      BY <1>2, <3>1, SetIs DEF Fails, Flip, Ends, Yield, IdleWorker
    <3>2. ASSUME Write(w) PROVE FALSE
      <4>1. PICK me \in WorkerRow : me = worker[w]
        BY AtRow
      <4>2. PICK n : n = Cardinality(((IF me.class = "permanent" THEN me.bad ELSE {})
                                         \cap Items) \ quarantined[me.prof])
        OBVIOUS
      <4>3. PICK rec : rec = [me EXCEPT !.pc = "bump", !.new = n, !.good = {},
                                        !.geo = None]
        OBVIOUS
      <4>4. rec.pc = "bump" /\ Set(w, rec)
        BY <3>2, <4>1, <4>2, <4>3 DEF Write, WorkerRow
      <4> QED
        BY <1>2, <4>4, SetIs
    <3> QED
      BY <3>1, <3>2, DriveShape
  <2>2. /\ UNCHANGED run /\ worker'[w].run = worker[w].run
        /\ worker[w].pc = "probe" \/ ~ExceedsCap(worker[w].run)
    BY <1>2, <2>1 DEF Stays
  <2>3. worker'[w].run \in Epochs
    <3>1. PICK me \in WorkerRow : me = worker'[w] /\ Fits(me)'
      BY DEF Inv, Rows, Drives
    <3> QED
      BY <1>2, <3>1 DEF Fits
  <2> QED
    BY <2>2, <2>3, WithinStay DEF OneDrive
<1> QED
  BY <1>1, <1>2

LEMMA NextWithin ==
    ASSUME OneDrive, Inv, WithinCap, [Next]_vars
    PROVE  WithinCap'
<1>1. ASSUME NEW w \in Workers, Drive(w) \/ Abandon(w) PROVE WithinCap'
  BY <1>1, NextInv, WithinDrive DEF Next
<1>2. ASSUME worker' = worker,
             \A e \in Epochs : /\ run'[e].tally = run[e].tally
                               /\ run'[e].enumerated = run[e].enumerated
      PROVE  WithinCap'
  BY <1>2, WithinRun, WithinStay
<1>3. ASSUME NEW c \in Ingesters, Ingest(c) PROVE WithinCap'
  BY <1>2, <1>3 DEF Ingest, Embed, Begin, AcquireShared, ReadActive, CommitNovel,
     IngestFrame
<1>4. CASE (\E t \in Targets : Probe(t)) \/ CancelRead \/ Prune \/ Drift
           \/ UNCHANGED vars
  BY <1>2, <1>4 DEF Probe, CancelRead, Prune, Drift, vars
<1>5. CASE Create
  <2>1. CASE UNCHANGED <<profile, run, tasks>>
    BY <1>2, <1>5, <2>1 DEF Create
  <2>2. CASE ~UNCHANGED <<profile, run, tasks>>
    <3>1. PICK e \in Epochs : run' = [run EXCEPT ![e].state = "queued"]
      BY <1>5, <2>2, CreateIs
    <3>2. \A f \in Epochs : /\ run'[f].tally = run[f].tally
                            /\ run'[f].enumerated = run[f].enumerated
      BY <3>1 DEF Inv, Rows, RunRow
    <3> QED
      BY <1>2, <1>5, <3>2 DEF Create
  <2> QED
    BY <2>1, <2>2
<1>6. CASE CancelApply
  <2>1. PICK from : from = operator.cancel.from
    OBVIOUS
  <2>2. PICK e \in Epochs : MoveRun(e, from, "aborted")
    BY <1>6, <2>1 DEF CancelApply, Inv, Flight
  <2> QED
    BY <1>2, <1>6, <2>2, EndCounts DEF CancelApply, Inv
<1> QED
  BY <1>1, <1>3, <1>4, <1>5, <1>6 DEF Next

\* With one process driving, no record of a live quarantine is uncounted.
LEMMA FlipCounted ==
    ASSUME OneDrive, Inv, WithinCap, [Next]_vars, NEW e \in Epochs, Flips(e),
           e \notin uncounted
    PROVE  Cardinality(quarantined[e] \cap Items) * CapDivisor <= run[e].enumerated
<1>1. PICK w \in Workers : Flip(w) /\ worker[w].run = e
  BY OnlyFlips
<1>2. PICK me \in WorkerRow : me = worker[w] /\ Fits(me) /\ me.pc = "lock"
  BY <1>1, AtRow DEF Flip, At
<1>3. me.new = 0 /\ run[e].enumerated # None
  BY <1>1, <1>2 DEF Fits
<1>4. PICK T \in [Epochs -> SUBSET Items], N \in [Workers -> SUBSET Items] :
         Counts(T, N)
  BY DEF Inv, Tallied
<1>5. \A v \in Workers : N[v] = {}
  BY <1>2, <1>3, <1>4, NothingNew DEF Counts, OneDrive
<1>6. quarantined[e] \cap Items = T[e]
  BY <1>4, <1>5 DEF Counts
<1>7. run[e].tally = Cardinality(quarantined[e] \cap Items)
  BY <1>4, <1>6 DEF Counts
<1>8. ~ExceedsCap(e)
  BY <1>1, <1>2 DEF WithinCap
<1>9. /\ run[e].tally \in Nat /\ run[e].enumerated \in Nat /\ CapDivisor \in Nat
  BY <1>3, Consts DEF Inv, Rows, RunRow
<1>10. PICK k \in Nat : k = run[e].tally * CapDivisor
  BY <1>9
<1>11. ~(k > run[e].enumerated)
  BY <1>3, <1>8, <1>10 DEF ExceedsCap
<1> QED
  BY <1>7, <1>9, <1>10, <1>11

\* With one process driving, a profile goes active only while the items its
\* quarantine holds are within the cap, unless a crash lost part of the tally.
THEOREM FlipWithinCapHolds ==
    ASSUME OneDrive
    PROVE  Spec => FlipWithinCap
<1> DEFINE Step == \A e \in Epochs : Flips(e) /\ e \notin uncounted =>
                      Cardinality(quarantined[e] \cap Items) * CapDivisor
                         <= run[e].enumerated
<1>1. Init => Inv
  BY InitInv
<1>2. Init => WithinCap
  BY DEF Init, WithinCap, IdleWorker
<1>3. Inv /\ [Next]_vars => Inv'
  BY NextInv
<1>4. Inv /\ WithinCap /\ [Next]_vars => WithinCap'
  BY NextWithin
<1>5. Inv /\ WithinCap /\ [Next]_vars => [Step]_vars
  BY FlipCounted
<1>6. FlipWithinCap <=> [][Step]_vars
  BY PTL DEF FlipWithinCap, Step
<1> QED
  BY <1>1, <1>2, <1>3, <1>4, <1>5, <1>6, PTL DEF Spec
=============================================================================
