--------------------------- MODULE TurnLoopProofs ---------------------------
(* Proofs about TurnLoop, for every set of slots, of batches of calls, and   *)
(* every budget: the types, the caps, the conversation, the submission and   *)
(* that the claim's holder reads what the log says.                          *)
EXTENDS TurnLoop, WellFoundedInduction, FiniteSetTheorems, SequenceTheorems, TLAPS

Record ==
    [kind : {"opening"}] \cup [kind : {"drift"}]
    \cup [kind : {"assistant"}, calls : Batches]
    \cup [kind : {"result"}, turn : Nat, call : Nat,
          verdict : {"accept", "reject", "none"}]
    \cup [kind : {"suspension"}, why : {"child", "budget"}, count : Nat]
    \cup [kind : {"wake"}, count : Nat]
    \cup [kind : {"submission"}, turn : Nat, call : Nat]

-----------------------------------------------------------------------------
(* The inductive invariant.                                                 *)

\* The log is a sequence of records that starts with its opening.
LogShape ==
    /\ log \in Seq(Record)
    /\ log # <<>> => log[1].kind = "opening"

\* A result answers a call of an earlier message, and a verdict a submission;
\* a verifier is launched for a message.
ResultsRefer ==
    /\ \A i \in Of("result") :
          LET t == log[i].turn
          IN  /\ t \in Of("assistant") /\ t < i
              /\ log[i].call \in DOMAIN log[t].calls
              /\ log[i].verdict # "none" => log[t].calls[log[i].call] = "submit"
    /\ \A i \in Of("suspension") : log[i].why = "child" => LastTurn # 0

BudgetStops == {i \in Of("suspension") : log[i].why = "budget"}

\* The ledger was found spent since the last message.
Stalled == \E i \in BudgetStops : LastTurn < i

\* A loop that is out of credit has nothing else to do, so that its waits and
\* wakes follow one another and their counts rise.
StallShape ==
    /\ log # <<>> /\ log[Len(log)].kind = "wake" => Stalled
    /\ Stalled => /\ project.tail = {}
                  /\ project.resolved # 0 => log[project.resolved].verdict = "reject"
                  /\ Of("submission") = {} =>
                        /\ \/ log[Len(log)].kind = "wake"
                           \/ Len(log) \in BudgetStops
                        /\ \A i \in BudgetStops : LastTurn < i =>
                              log[i].count <= log[Len(log)].count

\* The rows say where the log stopped.
RowsShape ==
    /\ task.status \in {"queued", "claimed"} => thread.status = "running"
    /\ thread.status = "suspended" => log # <<>> /\ log[Len(log)].kind = "suspension"
    /\ thread.status = "running" /\ log # <<>> => log[Len(log)].kind # "suspension"
    /\ Of("submission") # {} => task.status = "completed"

Reading == [turns : Nat, seq : Nat, tail : SUBSET Nat, resolved : Nat,
            carried : Nat, launches : Nat]

Attempt == [pc : {"idle", "entry", "top", "calling", "submitting"},
            retry : 0..MaxRetries, read : Reading, call : Nat]

\* What an attempt remembers is in the log, its claim held or not.
MemoryRow(row) ==
    /\ row.read.resolved # 0 => row.read.resolved \in Of("result")
    /\ row.read.tail # {} =>
          /\ row.read.seq \in Of("assistant")
          /\ row.read.tail \subseteq DOMAIN log[row.read.seq].calls

\* The verdicts given on the call c of the last message all stand.
Stands(c) ==
    /\ LastTurn # 0 /\ c \in DOMAIN log[LastTurn].calls
    /\ log[LastTurn].calls[c] = "submit"
    /\ \A i \in ResultsOf(LastTurn) : log[i].call = c =>
          log[i].verdict = "accept" /\ \A j \in Of("drift") : j < i

\* What the holder knows is what its successor would derive.
HolderRow(row) ==
    /\ row.pc \in {"top", "calling", "submitting"} => log # <<>>
    /\ row.pc = "top" =>
          \/ row.read = project
          \/ /\ row.read = [project EXCEPT !.resolved = 0]
             /\ log[project.resolved].verdict = "reject"
    /\ row.pc = "calling" =>
          /\ row.read = [project EXCEPT !.carried = 0, !.resolved = 0]
          /\ project.tail = {} /\ project.turns < MaxTurns
    /\ row.pc = "submitting" => row.read.seq = LastTurn /\ Stands(row.call)

AttemptsShape ==
    /\ loop \in [Slots -> Attempt]
    /\ \A p \in Slots : MemoryRow(loop[p])
    /\ \A p \in Slots : HoldsClaim(p) => HolderRow(loop[p])

LogInv == /\ LogShape /\ ResultsRefer /\ StallShape
          /\ ConversationWellFormed /\ CapsHold /\ SubmissionStands

IInv == TypeOK /\ LogInv /\ RowsShape /\ AttemptsShape

-----------------------------------------------------------------------------
(* Sets of positions.                                                       *)

\* A set of naturals has a smallest member.
LEMMA NatSetMin ==
    ASSUME NEW S, S \subseteq Nat, S # {}
    PROVE  \E m \in S : \A y \in S : m <= y
<1> DEFINE R == OpToRel(<, Nat)
<1>1. \A x, y \in Nat : x < y => <<x, y>> \in R
  BY Zenon DEF OpToRel
<1>2. IsWellFoundedOn(R, Nat)
  BY NatLessThanWellFounded
<1> HIDE DEF R
<1>3. PICK m \in S : \A y \in S : ~(<<y, m>> \in R)
  BY <1>2, WFMin, Zenon
<1>4. ASSUME NEW y \in S PROVE m <= y
  <2>1. m \in Nat /\ y \in Nat
    BY <1>4
  <2>2. ~(y < m)
    BY <1>1, <1>3, <1>4, <2>1
  <2> QED
    BY <2>1, <2>2
<1> QED
  BY <1>4

LEMMA MinOf ==
    ASSUME NEW S, S \subseteq Nat, S # {}
    PROVE  Min(S) \in S /\ \A y \in S : Min(S) <= y
BY NatSetMin DEF Min

\* Max picks the greatest position, which a set of positions has.
LEMMA MaxOf ==
    ASSUME NEW n \in Nat, NEW S, S \subseteq 0..n, S # {}
    PROVE  Max(S) \in S /\ \A y \in S : y <= Max(S)
<1> DEFINE T == {k \in 0..n : n - k \in S}
<1>1. T # {}
  <2>1. PICK x \in S : TRUE
    OBVIOUS
  <2>2. n - x \in 0..n /\ n - (n - x) = x
    BY <2>1
  <2> QED
    BY <2>1, <2>2
<1>2. PICK m \in T : \A y \in T : m <= y
  <2>1. T \subseteq Nat
    OBVIOUS
  <2> HIDE DEF T
  <2> QED
    BY <1>1, <2>1, NatSetMin
<1>3. n - m \in S
  BY <1>2
<1>4. ASSUME NEW y \in S PROVE y <= n - m
  <2>1. n - y \in 0..n /\ n - (n - y) = y
    BY <1>4
  <2>2. m <= n - y
    BY <1>2, <1>4, <2>1
  <2> QED
    BY <1>2, <1>4, <2>2
<1>5. \E x \in S : \A y \in S : x >= y
  <2>1. \A y \in S : n - m >= y
    BY <1>2, <1>4
  <2> QED
    BY <1>3, <2>1
<1>6. Max(S) \in S /\ \A y \in S : Max(S) >= y
  BY <1>5 DEF Max
<1> QED
  BY <1>6

LEMMA MaxUnique ==
    ASSUME NEW S, S \subseteq Nat, NEW m \in S, \A y \in S : y <= m
    PROVE  Max(S) = m
<1>1. \E x \in S : \A y \in S : x >= y
  BY SMT
<1>2. Max(S) \in S /\ \A y \in S : Max(S) >= y
  BY <1>1 DEF Max
<1>3. Max(S) \in Nat /\ m \in Nat /\ Max(S) <= m /\ Max(S) >= m
  BY <1>2
<1> QED
  BY <1>3

-----------------------------------------------------------------------------
(* Records and the log.                                                     *)

LEMMA RecordFacts ==
    ASSUME NEW r \in Record
    PROVE  /\ r.kind \in {"opening", "drift", "assistant", "result",
                          "suspension", "wake", "submission"}
           /\ r.kind = "assistant" => r.calls \in Batches
           /\ r.kind = "result" => /\ r.turn \in Nat /\ r.call \in Nat
                                   /\ r.verdict \in {"accept", "reject", "none"}
           /\ r.kind = "suspension" => r.why \in {"child", "budget"} /\ r.count \in Nat
           /\ r.kind = "wake" => r.count \in Nat
           /\ r.kind = "submission" => r.turn \in Nat /\ r.call \in Nat
BY DEF Record

LEMMA RecordsMade ==
    /\ Opening \in Record /\ Opening.kind = "opening"
    /\ Drift \in Record /\ Drift.kind = "drift"
    /\ \A b \in Batches :
          LET r == Assistant(b)
          IN  r \in Record /\ r.kind = "assistant" /\ r.calls = b
    /\ \A t, c \in Nat : \A v \in {"accept", "reject", "none"} :
          LET r == Result(t, c, v)
          IN  r \in Record /\ r.kind = "result" /\ r.turn = t /\ r.call = c /\ r.verdict = v
    /\ \A w \in {"child", "budget"} : \A n \in Nat :
          LET r == Suspension(w, n)
          IN  r \in Record /\ r.kind = "suspension" /\ r.why = w /\ r.count = n
    /\ \A n \in Nat :
          LET r == Wake(n) IN r \in Record /\ r.kind = "wake" /\ r.count = n
    /\ \A t, c \in Nat :
          LET r == Submission(t, c)
          IN  r \in Record /\ r.kind = "submission" /\ r.turn = t /\ r.call = c
BY DEF Record, Opening, Drift, Assistant, Result, Suspension, Wake, Submission

LEMMA BatchFacts ==
    ASSUME NEW b \in Batches
    PROVE  /\ DOMAIN b \subseteq Nat
           /\ \A c \in DOMAIN b : b[c] \in {"tool", "submit"}
<1>1. b \in Seq({"tool", "submit"})
  BY LoopAssumption
<1>2. Len(b) \in Nat /\ b \in [1..Len(b) -> {"tool", "submit"}]
  BY <1>1, LenProperties
<1> QED
  BY <1>2

\* Positions and records of a log.
LEMMA LogFacts ==
    ASSUME log \in Seq(Record)
    PROVE  /\ Len(log) \in Nat /\ DOMAIN log = 1..Len(log)
           /\ \A i \in 1..Len(log) : log[i] \in Record
           /\ \A k : Of(k) \subseteq 1..Len(log)
           /\ \A k : \A i \in Of(k) : log[i].kind = k
           /\ \A i \in 1..Len(log) : i \in Of(log[i].kind)
           /\ log = <<>> <=> Len(log) = 0
<1>1. Len(log) \in Nat /\ DOMAIN log = 1..Len(log)
  BY LenProperties
<1>2. \A i \in 1..Len(log) : log[i] \in Record
  BY ElementOfSeq
<1>3. log = <<>> <=> Len(log) = 0
  BY EmptySeq, <1>1
<1> QED
  BY <1>1, <1>2, <1>3 DEF Of

\* The last message is the greatest position of one.
LEMMA LastTurnFacts ==
    ASSUME log \in Seq(Record)
    PROVE  /\ LastTurn \in 0..Len(log)
           /\ LastTurn # 0 => LastTurn \in Of("assistant")
           /\ \A t \in Of("assistant") : t <= LastTurn
           /\ LastTurn = 0 <=> Of("assistant") = {}
<1> DEFINE S == Of("assistant") \cup {0}
<1>1. Len(log) \in Nat /\ Of("assistant") \subseteq 1..Len(log)
  BY LogFacts
<1>2. S \subseteq 0..Len(log) /\ S # {}
  BY <1>1
<1> HIDE DEF S
<1>3. Max(S) \in S /\ \A y \in S : y <= Max(S)
  BY <1>1, <1>2, MaxOf
<1>4. LastTurn = Max(S)
  BY DEF LastTurn, S
<1>5. LastTurn \in 0..Len(log) /\ \A t \in Of("assistant") : t <= LastTurn
  BY <1>1, <1>2, <1>3, <1>4 DEF S
<1>6. LastTurn # 0 => LastTurn \in Of("assistant")
  BY <1>3, <1>4 DEF S
<1>7. LastTurn = 0 <=> Of("assistant") = {}
  BY <1>1, <1>5, <1>6
<1> QED
  BY <1>5, <1>6, <1>7

\* What appending one record does to the log.
LEMMA AppendFacts ==
    ASSUME log \in Seq(Record), NEW r \in Record, log' = Append(log, r)
    PROVE  /\ log' \in Seq(Record) /\ log' # <<>>
           /\ Len(log') = Len(log) + 1 /\ Len(log) \in Nat
           /\ DOMAIN log = 1..Len(log) /\ DOMAIN log' = 1..(Len(log) + 1)
           /\ \A i \in 1..Len(log) : log'[i] = log[i]
           /\ log'[Len(log) + 1] = r
           /\ \A k : Of(k)' = IF r.kind = k THEN Of(k) \cup {Len(log) + 1} ELSE Of(k)
           /\ \A k : Of(k) \subseteq 1..Len(log)
<1>1. /\ log' \in Seq(Record) /\ Len(log') = Len(log) + 1
      /\ \A i \in 1..Len(log) : log'[i] = log[i]
      /\ log'[Len(log) + 1] = r
  BY AppendProperties
<1>2. Len(log) \in Nat /\ DOMAIN log = 1..Len(log) /\ DOMAIN log' = 1..Len(log')
  BY <1>1, LenProperties
<1>3. ASSUME NEW k
      PROVE  Of(k)' = IF r.kind = k THEN Of(k) \cup {Len(log) + 1} ELSE Of(k)
  <2>1. Of(k)' = {i \in 1..(Len(log) + 1) : log'[i].kind = k}
    BY <1>1, <1>2 DEF Of
  <2>2. Of(k) = {i \in 1..Len(log) : log[i].kind = k}
    BY <1>2 DEF Of
  <2> QED
    BY <2>1, <2>2, <1>1, <1>2
<1>4. \A k : Of(k) \subseteq 1..Len(log)
  BY <1>2 DEF Of
<1>5. log' # <<>>
  BY <1>1, <1>2, EmptySeq
<1> QED
  BY <1>1, <1>2, <1>3, <1>4, <1>5

-----------------------------------------------------------------------------
(* What the loop reads, before and after a record.                          *)

LEMMA FiniteOf ==
    ASSUME log \in Seq(Record), NEW k
    PROVE  IsFiniteSet(Of(k)) /\ Cardinality(Of(k)) \in Nat
<1>1. Len(log) \in Nat /\ Of(k) \subseteq 1..Len(log)
  BY LogFacts
<1>2. IsFiniteSet(1..Len(log))
  BY <1>1, FS_Interval
<1> QED
  BY <1>1, <1>2, FS_Subset, FS_CardinalityType

LEMMA OpenFacts ==
    ASSUME log \in Seq(Record)
    PROVE  /\ OpenVerdicts \subseteq 1..Len(log)
           /\ OpenVerdicts \subseteq Of("result")
           /\ OpenVerdicts \subseteq ResultsOf(LastTurn)
           /\ OpenVerdicts = {} => project.resolved = 0
           /\ OpenVerdicts # {} => /\ project.resolved \in OpenVerdicts
                                   /\ \A i \in OpenVerdicts : i <= project.resolved
<1>1. Len(log) \in Nat /\ Of("result") \subseteq 1..Len(log)
  BY LogFacts
<1>2. /\ OpenVerdicts \subseteq ResultsOf(LastTurn)
      /\ ResultsOf(LastTurn) \subseteq Of("result")
  BY DEF OpenVerdicts, ResultsOf
<1> DEFINE S == OpenVerdicts \cup {0}
<1>3. S \subseteq 0..Len(log) /\ S # {}
  BY <1>1, <1>2
<1>4. project.resolved = Max(S)
  BY DEF project
<1>5. OpenVerdicts \subseteq 1..Len(log)
  BY <1>1, <1>2
<1> HIDE DEF S
<1>6. Max(S) \in S /\ \A y \in S : y <= Max(S)
  BY <1>1, <1>3, MaxOf
<1>7. OpenVerdicts = {} => project.resolved = 0
  BY <1>4, <1>6 DEF S
<1>8. ASSUME OpenVerdicts # {} PROVE project.resolved \in OpenVerdicts
  <2>1. PICK i \in OpenVerdicts : TRUE
    BY <1>8
  <2>2. i \in S /\ i >= 1 /\ i \in Nat
    BY <1>1, <1>5, <2>1 DEF S
  <2>3. Max(S) # 0
    BY <1>1, <1>3, <1>6, <2>2
  <2> QED
    BY <1>4, <1>6, <2>3 DEF S
<1>9. \A i \in OpenVerdicts : i <= project.resolved
  BY <1>4, <1>6 DEF S
<1> QED
  BY <1>2, <1>5, <1>7, <1>8, <1>9, <1>1

\* A reading by its fields.
LEMMA ProjectFields ==
    /\ project.turns = Cardinality(Of("assistant"))
    /\ project.seq = LastTurn
    /\ project.tail = IF LastTurn = 0 THEN {} ELSE Unanswered(LastTurn)
    /\ project.carried = IF Len(log) > 0 /\ log[Len(log)].kind = "wake"
                         THEN log[Len(log)].count + 1 ELSE 0
    /\ project.launches = Cardinality({i \in Of("suspension") : log[i].why = "child"})
    /\ project = [turns |-> project.turns, seq |-> project.seq, tail |-> project.tail,
                  resolved |-> project.resolved, carried |-> project.carried,
                  launches |-> project.launches]
BY DEF project

LEMMA TailFacts ==
    ASSUME LogShape
    PROVE  /\ project.tail # {} => LastTurn \in Of("assistant")
           /\ \A c \in project.tail : c \in DOMAIN log[LastTurn].calls
           /\ \A c \in project.tail : c \in Nat
<1>1. log \in Seq(Record)
  BY DEF LogShape
<1>2. project.tail # {} => LastTurn # 0 /\ project.tail = Unanswered(LastTurn)
  BY ProjectFields
<1>3. LastTurn # 0 => LastTurn \in Of("assistant")
  BY <1>1, LastTurnFacts
<1>4. \A c \in project.tail : c \in DOMAIN log[LastTurn].calls
  BY <1>2 DEF Unanswered
<1>5. ASSUME NEW c \in project.tail PROVE c \in Nat
  <2>1. LastTurn \in 1..Len(log) /\ log[LastTurn].kind = "assistant"
    BY <1>1, <1>2, <1>3, <1>5, LogFacts
  <2>2. log[LastTurn] \in Record
    BY <1>1, <2>1, LogFacts
  <2>3. log[LastTurn].calls \in Batches
    BY <2>1, <2>2, RecordFacts
  <2> QED
    BY <2>3, <1>4, <1>5, BatchFacts
<1> QED
  BY <1>2, <1>3, <1>4, <1>5

\* The results of a message after a record.
LEMMA AppendResults ==
    ASSUME log \in Seq(Record), NEW r \in Record, log' = Append(log, r)
    PROVE  /\ \A s : ResultsOf(s)' = IF r.kind = "result" /\ r.turn = s
                                     THEN ResultsOf(s) \cup {Len(log) + 1}
                                     ELSE ResultsOf(s)
           /\ \A s \in Of("assistant") :
                 Unanswered(s)' = IF r.kind = "result" /\ r.turn = s
                                  THEN Unanswered(s) \ {r.call}
                                  ELSE Unanswered(s)
<1>1. /\ Len(log) \in Nat /\ \A k : Of(k) \subseteq 1..Len(log)
      /\ \A i \in 1..Len(log) : log'[i] = log[i]
      /\ log'[Len(log) + 1] = r
      /\ \A k : Of(k)' = IF r.kind = k THEN Of(k) \cup {Len(log) + 1} ELSE Of(k)
  BY AppendFacts
<1>2. ASSUME NEW s
      PROVE  ResultsOf(s)' = IF r.kind = "result" /\ r.turn = s
                             THEN ResultsOf(s) \cup {Len(log) + 1}
                             ELSE ResultsOf(s)
  <2>1. ResultsOf(s)' = {i \in Of("result")' : log'[i].turn = s}
    BY DEF ResultsOf
  <2>2. ResultsOf(s) = {i \in Of("result") : log[i].turn = s}
    BY DEF ResultsOf
  <2>3. {i \in Of("result") : log'[i].turn = s} = ResultsOf(s)
    BY <2>2, <1>1
  <2>4. CASE r.kind = "result"
    <3>1. Of("result")' = Of("result") \cup {Len(log) + 1}
      BY <1>1, <2>4
    <3> QED
      BY <2>1, <2>3, <2>4, <3>1, <1>1
  <2>5. CASE r.kind # "result"
    <3>1. Of("result")' = Of("result")
      BY <1>1, <2>5
    <3> QED
      BY <2>1, <2>3, <2>5, <3>1
  <2> QED
    BY <2>4, <2>5
<1>3. ASSUME NEW s \in Of("assistant")
      PROVE  Unanswered(s)' = IF r.kind = "result" /\ r.turn = s
                              THEN Unanswered(s) \ {r.call}
                              ELSE Unanswered(s)
  <2>1. log'[s] = log[s] /\ \A i \in ResultsOf(s) : log'[i] = log[i]
    BY <1>1 DEF ResultsOf
  <2>2. Unanswered(s)' = DOMAIN log[s].calls \ {log'[i].call : i \in ResultsOf(s)'}
    BY <2>1 DEF Unanswered
  <2>3. {log'[i].call : i \in ResultsOf(s)} = {log[i].call : i \in ResultsOf(s)}
    BY <2>1
  <2>4. CASE r.kind = "result" /\ r.turn = s
    <3>1. ResultsOf(s)' = ResultsOf(s) \cup {Len(log) + 1}
      BY <1>2, <2>4
    <3>2. {log'[i].call : i \in ResultsOf(s)'}
            = {log[i].call : i \in ResultsOf(s)} \cup {r.call}
      <4>1. {log'[i].call : i \in ResultsOf(s)'}
              = {log'[i].call : i \in ResultsOf(s)} \cup {log'[Len(log) + 1].call}
        BY <3>1
      <4> QED
        BY <4>1, <2>3, <1>1
    <3> QED
      BY <2>2, <2>4, <3>2 DEF Unanswered
  <2>5. CASE ~(r.kind = "result" /\ r.turn = s)
    <3>1. ResultsOf(s)' = ResultsOf(s)
      BY <1>2, <2>5
    <3>2. Unanswered(s)' = Unanswered(s)
      BY <2>2, <2>3, <3>1 DEF Unanswered
    <3> QED
      BY <2>5, <3>2
  <2> QED
    BY <2>4, <2>5
<1> QED
  BY <1>2, <1>3

\* The last message after a record.
LEMMA AppendLastTurn ==
    ASSUME log \in Seq(Record), NEW r \in Record, log' = Append(log, r)
    PROVE  /\ r.kind # "assistant" => /\ LastTurn' = LastTurn
                                      /\ Of("assistant")' = Of("assistant")
           /\ r.kind = "assistant" => LastTurn' = Len(log) + 1
<1>1. /\ Len(log) \in Nat /\ Of("assistant") \subseteq 1..Len(log)
      /\ Of("assistant")' = IF r.kind = "assistant"
                            THEN Of("assistant") \cup {Len(log) + 1} ELSE Of("assistant")
  BY AppendFacts
<1>2. LastTurn' = Max(Of("assistant")' \cup {0})
  BY DEF LastTurn
<1>3. CASE r.kind # "assistant"
  BY <1>1, <1>2, <1>3 DEF LastTurn
<1>4. CASE r.kind = "assistant"
  <2> DEFINE S == Of("assistant")' \cup {0}
  <2>1. S \subseteq Nat /\ Len(log) + 1 \in S /\ \A y \in S : y <= Len(log) + 1
    BY <1>1, <1>4
  <2> HIDE DEF S
  <2>2. Max(S) = Len(log) + 1
    BY <2>1, MaxUnique
  <2> QED
    BY <1>2, <1>4, <2>2 DEF S
<1> QED
  BY <1>3, <1>4

\* The open verdicts after a record.
LEMMA AppendOpen ==
    ASSUME LogShape, ResultsRefer, NEW r \in Record, log' = Append(log, r)
    PROVE  OpenVerdicts' =
               IF r.kind \in {"assistant", "drift"} THEN {}
               ELSE IF /\ r.kind = "result" /\ r.turn = LastTurn
                       /\ r.verdict \in {"accept", "reject"}
                    THEN OpenVerdicts \cup {Len(log) + 1}
               ELSE OpenVerdicts
<1>0. log \in Seq(Record)
  BY DEF LogShape
<1>1. /\ Len(log) \in Nat /\ \A k : Of(k) \subseteq 1..Len(log)
      /\ \A i \in 1..Len(log) : log'[i] = log[i]
      /\ log'[Len(log) + 1] = r
      /\ \A k : Of(k)' = IF r.kind = k THEN Of(k) \cup {Len(log) + 1} ELSE Of(k)
  BY <1>0, AppendFacts
<1>2. \A s : ResultsOf(s)' = IF r.kind = "result" /\ r.turn = s
                             THEN ResultsOf(s) \cup {Len(log) + 1}
                             ELSE ResultsOf(s)
  BY <1>0, AppendResults
<1>3. /\ r.kind # "assistant" => LastTurn' = LastTurn
      /\ r.kind = "assistant" => LastTurn' = Len(log) + 1
  BY <1>0, AppendLastTurn
<1>4. \A s : ResultsOf(s) \subseteq 1..Len(log)
  BY <1>1 DEF ResultsOf
<1>5. OpenVerdicts' = {i \in ResultsOf(LastTurn)' : /\ log'[i].verdict \in {"accept", "reject"}
                                                     /\ \A j \in Of("drift")' : j < i}
  BY DEF OpenVerdicts
<1>6. CASE r.kind = "assistant"
  <2>1. \A i \in Of("result") : log'[i].turn # Len(log) + 1
    BY <1>1 DEF ResultsRefer
  <2>2. Of("result")' = Of("result") /\ LastTurn' = Len(log) + 1
    BY <1>1, <1>3, <1>6
  <2>3. ResultsOf(LastTurn)' = {i \in Of("result")' : log'[i].turn = LastTurn'}
    BY DEF ResultsOf
  <2> QED
    BY <1>5, <1>6, <2>1, <2>2, <2>3
<1>7. CASE r.kind = "drift"
  <2>1. ResultsOf(LastTurn)' = ResultsOf(LastTurn) /\ LastTurn' = LastTurn
    BY <1>2, <1>3, <1>7
  <2>2. Len(log) + 1 \in Of("drift")'
    BY <1>1, <1>7
  <2>3. \A i \in ResultsOf(LastTurn) : ~(Len(log) + 1 < i)
    BY <1>1, <1>4
  <2> QED
    BY <1>5, <1>7, <2>1, <2>2, <2>3
<1>8. CASE r.kind \notin {"assistant", "drift"}
  <2>1. LastTurn' = LastTurn /\ Of("drift")' = Of("drift")
    BY <1>1, <1>3, <1>8
  <2>2. CASE r.kind = "result" /\ r.turn = LastTurn
    <3>1. ResultsOf(LastTurn)' = ResultsOf(LastTurn) \cup {Len(log) + 1}
      BY <1>2, <2>1, <2>2
    <3>2. \A j \in Of("drift") : j < Len(log) + 1
      BY <1>1
    <3>3. OpenVerdicts' = {i \in ResultsOf(LastTurn) \cup {Len(log) + 1} :
                              /\ log'[i].verdict \in {"accept", "reject"}
                              /\ \A j \in Of("drift") : j < i}
      BY <1>5, <2>1, <3>1
    <3>4. OpenVerdicts = {i \in ResultsOf(LastTurn) :
                              /\ log'[i].verdict \in {"accept", "reject"}
                              /\ \A j \in Of("drift") : j < i}
      BY <1>1, <1>4 DEF OpenVerdicts
    <3>5. CASE r.verdict \in {"accept", "reject"}
      BY <1>1, <1>8, <2>2, <3>2, <3>3, <3>4, <3>5
    <3>6. CASE r.verdict \notin {"accept", "reject"}
      BY <1>1, <1>8, <2>2, <3>3, <3>4, <3>6
    <3> QED
      BY <3>5, <3>6
  <2>3. CASE ~(r.kind = "result" /\ r.turn = LastTurn)
    <3>1. ResultsOf(LastTurn)' = ResultsOf(LastTurn)
      BY <1>2, <2>1, <2>3
    <3>2. OpenVerdicts' = OpenVerdicts
      BY <1>1, <1>4, <1>5, <2>1, <3>1 DEF OpenVerdicts
    <3> QED
      BY <1>8, <2>3, <3>2
  <2> QED
    BY <2>2, <2>3
<1> QED
  BY <1>6, <1>7, <1>8

\* The suspensions after a record.
LEMMA AppendStops ==
    ASSUME log \in Seq(Record), NEW r \in Record, log' = Append(log, r)
    PROVE  /\ BudgetStops' = IF r.kind = "suspension" /\ r.why = "budget"
                             THEN BudgetStops \cup {Len(log) + 1} ELSE BudgetStops
           /\ (Of("suspension") \ BudgetStops)' =
                  IF r.kind = "suspension" /\ r.why = "child"
                  THEN (Of("suspension") \ BudgetStops) \cup {Len(log) + 1}
                  ELSE Of("suspension") \ BudgetStops
           /\ Of("suspension") \ BudgetStops = {i \in Of("suspension") : log[i].why = "child"}
           /\ BudgetStops \subseteq 1..Len(log)
           /\ (Of("suspension") \ BudgetStops) \subseteq 1..Len(log)
<1>1. /\ Len(log) \in Nat /\ Of("suspension") \subseteq 1..Len(log)
      /\ \A i \in 1..Len(log) : log'[i] = log[i]
      /\ log'[Len(log) + 1] = r
      /\ Of("suspension")' = IF r.kind = "suspension"
                             THEN Of("suspension") \cup {Len(log) + 1} ELSE Of("suspension")
  BY AppendFacts
<1>2. r.kind = "suspension" => r.why \in {"child", "budget"}
  BY RecordFacts
<1>3. \A i \in Of("suspension") : log[i].why \in {"child", "budget"}
  BY LogFacts, RecordFacts
<1>4. BudgetStops' = {i \in Of("suspension")' : log'[i].why = "budget"}
  BY DEF BudgetStops
<1>5. BudgetStops = {i \in Of("suspension") : log'[i].why = "budget"}
  BY <1>1 DEF BudgetStops
<1>6. CASE r.kind = "suspension"
  <2>1. CASE r.why = "budget"
    BY <1>1, <1>3, <1>4, <1>5, <1>6, <2>1 DEF BudgetStops
  <2>2. CASE r.why = "child"
    BY <1>1, <1>3, <1>4, <1>5, <1>6, <2>2 DEF BudgetStops
  <2> QED
    BY <1>2, <1>6, <2>1, <2>2
<1>7. CASE r.kind # "suspension"
  BY <1>1, <1>3, <1>4, <1>5, <1>7 DEF BudgetStops
<1> QED
  BY <1>6, <1>7

\* The reading after a record that is no message.
LEMMA ProjectAppend ==
    ASSUME LogShape, ResultsRefer, NEW r \in Record, log' = Append(log, r),
           r.kind # "assistant"
    PROVE  /\ project'.turns = project.turns
           /\ project'.seq = project.seq
           /\ project'.tail = IF r.kind = "result" /\ r.turn = LastTurn
                              THEN project.tail \ {r.call} ELSE project.tail
           /\ project'.carried = IF r.kind = "wake" THEN r.count + 1 ELSE 0
           /\ ~(r.kind = "suspension" /\ r.why = "child") =>
                 project'.launches = project.launches
           /\ project'.resolved =
                 IF r.kind = "drift" THEN 0
                 ELSE IF /\ r.kind = "result" /\ r.turn = LastTurn
                         /\ r.verdict \in {"accept", "reject"}
                      THEN Len(log) + 1
                 ELSE project.resolved
<1>0. log \in Seq(Record)
  BY DEF LogShape
<1>1. /\ Len(log) \in Nat /\ Len(log') = Len(log) + 1
      /\ log'[Len(log) + 1] = r
  BY <1>0, AppendFacts
<1>2. LastTurn' = LastTurn /\ Of("assistant")' = Of("assistant")
  BY <1>0, AppendLastTurn
<1>3. project'.turns = project.turns /\ project'.seq = project.seq
  BY <1>2 DEF project
<1>4. project'.tail = IF r.kind = "result" /\ r.turn = LastTurn
                      THEN project.tail \ {r.call} ELSE project.tail
  <2>1. \A s \in Of("assistant") :
           Unanswered(s)' = IF r.kind = "result" /\ r.turn = s
                            THEN Unanswered(s) \ {r.call} ELSE Unanswered(s)
    BY <1>0, AppendResults
  <2>2. project'.tail = IF LastTurn' = 0 THEN {} ELSE Unanswered(LastTurn)'
    BY DEF project
  <2>3. project.tail = IF LastTurn = 0 THEN {} ELSE Unanswered(LastTurn)
    BY DEF project
  <2>4. CASE LastTurn = 0
    BY <1>2, <2>2, <2>3, <2>4
  <2>5. CASE LastTurn # 0
    <3>1. PICK s \in Of("assistant") : s = LastTurn
      BY <1>0, <2>5, LastTurnFacts
    <3>2. Unanswered(LastTurn)' = Unanswered(s)'
      BY <1>2, <3>1 DEF Unanswered, ResultsOf
    <3> QED
      BY <1>2, <2>1, <2>2, <2>3, <2>5, <3>1, <3>2
  <2> QED
    BY <2>4, <2>5
<1>5. project'.carried = IF r.kind = "wake" THEN r.count + 1 ELSE 0
  <2>1. project'.carried = IF Len(log') > 0 /\ log'[Len(log')].kind = "wake"
                           THEN log'[Len(log')].count + 1 ELSE 0
    BY DEF project
  <2> QED
    BY <1>1, <2>1
<1>6. ASSUME ~(r.kind = "suspension" /\ r.why = "child")
      PROVE  project'.launches = project.launches
  <2>1. {i \in Of("suspension") : log[i].why = "child"} = Of("suspension") \ BudgetStops
    BY <1>0, AppendStops
  <2>2. {i \in Of("suspension")' : log'[i].why = "child"} = (Of("suspension") \ BudgetStops)'
    <3>1. log' \in Seq(Record)
      BY <1>0, AppendFacts
    <3>2. \A i \in Of("suspension")' : log'[i].why \in {"child", "budget"}
      <4>1. /\ \A i \in 1..Len(log) : log'[i] = log[i]
            /\ Of("suspension")' = IF r.kind = "suspension"
                                   THEN Of("suspension") \cup {Len(log) + 1}
                                   ELSE Of("suspension")
            /\ Of("suspension") \subseteq 1..Len(log)
        BY <1>0, AppendFacts
      <4>2. \A i \in Of("suspension") : log[i].why \in {"child", "budget"}
        BY <1>0, LogFacts, RecordFacts
      <4>3. r.kind = "suspension" => r.why \in {"child", "budget"}
        BY RecordFacts
      <4> QED
        BY <1>1, <4>1, <4>2, <4>3
    <3> QED
      BY <3>2 DEF BudgetStops
  <2>3. (Of("suspension") \ BudgetStops)' = Of("suspension") \ BudgetStops
    BY <1>0, <1>6, AppendStops
  <2> QED
    BY <2>1, <2>2, <2>3 DEF project
<1>7. project'.resolved =
         IF r.kind = "drift" THEN 0
         ELSE IF /\ r.kind = "result" /\ r.turn = LastTurn
                 /\ r.verdict \in {"accept", "reject"}
              THEN Len(log) + 1
         ELSE project.resolved
  <2>1. project'.resolved = Max(OpenVerdicts' \cup {0})
    BY DEF project
  <2>2. project.resolved = Max(OpenVerdicts \cup {0})
    BY DEF project
  <2>3. OpenVerdicts' =
           IF r.kind \in {"assistant", "drift"} THEN {}
           ELSE IF /\ r.kind = "result" /\ r.turn = LastTurn
                   /\ r.verdict \in {"accept", "reject"}
                THEN OpenVerdicts \cup {Len(log) + 1}
           ELSE OpenVerdicts
    BY AppendOpen
  <2>4. CASE r.kind = "drift"
    <3>1. Max({0}) = 0
      <4>1. {0} \subseteq Nat /\ 0 \in {0} /\ \A y \in {0} : y <= 0
        OBVIOUS
      <4> QED
        BY <4>1, MaxUnique
    <3>2. OpenVerdicts' = {} /\ {} \cup {0} = {0}
      BY <2>3, <2>4
    <3> QED
      BY <2>1, <2>4, <3>1, <3>2
  <2>5. CASE /\ r.kind = "result" /\ r.turn = LastTurn
             /\ r.verdict \in {"accept", "reject"}
    <3> DEFINE S == OpenVerdicts' \cup {0}
    <3>1. OpenVerdicts' = OpenVerdicts \cup {Len(log) + 1}
      BY <2>3, <2>5
    <3>2. OpenVerdicts \subseteq 1..Len(log)
      BY <1>0, OpenFacts
    <3>3. S \subseteq 0..(Len(log) + 1)
      <4>1. \A y \in OpenVerdicts : y \in 0..(Len(log) + 1)
        BY <1>1, <3>2
      <4>2. 0 \in 0..(Len(log) + 1) /\ Len(log) + 1 \in 0..(Len(log) + 1)
        BY <1>1
      <4> QED
        BY <3>1, <4>1, <4>2
    <3>5. S \subseteq Nat /\ Len(log) + 1 \in S /\ \A y \in S : y <= Len(log) + 1
      BY <1>1, <3>1, <3>3
    <3> HIDE DEF S
    <3>4. Max(S) = Len(log) + 1
      BY <3>5, MaxUnique
    <3> QED
      BY <2>1, <2>5, <3>4 DEF S
  <2>6. CASE /\ r.kind # "drift"
             /\ ~(/\ r.kind = "result" /\ r.turn = LastTurn
                  /\ r.verdict \in {"accept", "reject"})
    BY <2>1, <2>2, <2>3, <2>6
  <2> QED
    BY <2>4, <2>5, <2>6
<1> QED
  BY <1>3, <1>4, <1>5, <1>6, <1>7

\* The reading after a message.
LEMMA ProjectTurn ==
    ASSUME LogShape, ResultsRefer, NEW b \in Batches, log' = Append(log, Assistant(b))
    PROVE  /\ project'.turns = project.turns + 1
           /\ project'.seq = Len(log) + 1
           /\ project'.tail = DOMAIN b
           /\ project'.carried = 0 /\ project'.resolved = 0
           /\ project'.launches = project.launches
<1> DEFINE r == Assistant(b)
<1>r. r \in Record /\ r.kind = "assistant" /\ r.calls = b
  BY RecordsMade
<1>h. log' = Append(log, r)
  OBVIOUS
<1> HIDE DEF r
<1>0. log \in Seq(Record)
  BY DEF LogShape
<1>1. /\ Len(log) \in Nat /\ Len(log') = Len(log) + 1
      /\ log'[Len(log) + 1] = r
      /\ \A i \in 1..Len(log) : log'[i] = log[i]
      /\ \A k : Of(k)' = IF r.kind = k THEN Of(k) \cup {Len(log) + 1} ELSE Of(k)
      /\ \A k : Of(k) \subseteq 1..Len(log)
  BY <1>0, <1>r, <1>h, AppendFacts
<1>2. LastTurn' = Len(log) + 1
  BY <1>0, <1>r, <1>h, AppendLastTurn
<1>3. project'.turns = project.turns + 1
  <2>1. Of("assistant")' = Of("assistant") \cup {Len(log) + 1}
    BY <1>1, <1>r
  <2>2. Len(log) + 1 \notin Of("assistant")
    BY <1>1
  <2>3. IsFiniteSet(Of("assistant"))
    BY <1>0, FiniteOf
  <2>4. Cardinality(Of("assistant") \cup {Len(log) + 1}) = Cardinality(Of("assistant")) + 1
    BY <2>2, <2>3, FS_AddElement
  <2> QED
    BY <2>1, <2>4 DEF project
<1>4. project'.seq = Len(log) + 1
  BY <1>2 DEF project
<1>5. project'.tail = DOMAIN b
  <2>1. project'.tail = Unanswered(LastTurn)'
    BY <1>1, <1>2 DEF project
  <2>2. Of("result")' = Of("result")
    BY <1>1, <1>r
  <2>3. \A i \in Of("result") : log'[i].turn # Len(log) + 1
    BY <1>1 DEF ResultsRefer
  <2>4. ResultsOf(LastTurn)' = {i \in Of("result")' : log'[i].turn = LastTurn'}
    BY DEF ResultsOf
  <2>5. ResultsOf(LastTurn)' = {}
    BY <1>2, <2>2, <2>3, <2>4
  <2>6. Unanswered(LastTurn)' = DOMAIN log'[LastTurn'].calls \ {log'[i].call : i \in ResultsOf(LastTurn)'}
    BY DEF Unanswered
  <2>7. Unanswered(LastTurn)' = DOMAIN b
    BY <1>1, <1>2, <1>r, <2>5, <2>6
  <2> QED
    BY <2>1, <2>7
<1>6. project'.carried = 0
  <2>1. project'.carried = IF Len(log') > 0 /\ log'[Len(log')].kind = "wake"
                           THEN log'[Len(log')].count + 1 ELSE 0
    BY DEF project
  <2> QED
    BY <1>1, <1>r, <2>1
<1>7. project'.resolved = 0
  <2>1. project'.resolved = Max(OpenVerdicts' \cup {0})
    BY DEF project
  <2>2. OpenVerdicts' = {}
    BY <1>r, <1>h, AppendOpen
  <2>3. Max({0}) = 0 /\ {} \cup {0} = {0}
    BY MaxUnique
  <2> QED
    BY <2>1, <2>2, <2>3
<1>8. project'.launches = project.launches
  <2>1. Of("suspension")' = Of("suspension")
    BY <1>1, <1>r
  <2>2. {i \in Of("suspension") : log'[i].why = "child"} = {i \in Of("suspension") : log[i].why = "child"}
    BY <1>1
  <2> QED
    BY <2>1, <2>2 DEF project
<1> QED
  BY <1>3, <1>4, <1>5, <1>6, <1>7, <1>8

-----------------------------------------------------------------------------
(* What a record must satisfy for the log to stay in order.                 *)

LEMMA ShapeAppend ==
    ASSUME LogShape, NEW r \in Record, log' = Append(log, r),
           log # <<>> \/ r.kind = "opening"
    PROVE  LogShape'
<1>1. /\ log \in Seq(Record) /\ log' \in Seq(Record)
      /\ Len(log) \in Nat /\ log'[Len(log) + 1] = r
      /\ \A i \in 1..Len(log) : log'[i] = log[i]
  BY AppendFacts DEF LogShape
<1>2. CASE log = <<>>
  <2>1. Len(log) = 0
    BY <1>2, EmptySeq
  <2> QED
    BY <1>1, <1>2, <2>1 DEF LogShape
<1>3. CASE log # <<>>
  <2>1. 1 \in 1..Len(log)
    BY <1>1, <1>3, LogFacts
  <2> QED
    BY <1>1, <1>3, <2>1 DEF LogShape
<1> QED
  BY <1>2, <1>3

LEMMA RefersAppend ==
    ASSUME LogShape, ResultsRefer, NEW r \in Record, log' = Append(log, r),
           r.kind = "result" =>
              /\ r.turn \in Of("assistant") /\ r.call \in DOMAIN log[r.turn].calls
              /\ r.verdict # "none" => log[r.turn].calls[r.call] = "submit",
           r.kind = "suspension" /\ r.why = "child" => LastTurn # 0
    PROVE  ResultsRefer'
<1>0. log \in Seq(Record)
  BY DEF LogShape
<1>1. /\ Len(log) \in Nat /\ log'[Len(log) + 1] = r
      /\ \A i \in 1..Len(log) : log'[i] = log[i]
      /\ \A k : Of(k)' = IF r.kind = k THEN Of(k) \cup {Len(log) + 1} ELSE Of(k)
      /\ \A k : Of(k) \subseteq 1..Len(log)
  BY <1>0, AppendFacts
<1>2. LastTurn # 0 => LastTurn' # 0
  BY <1>0, <1>1, AppendLastTurn, LastTurnFacts
<1>3. Of("assistant") \subseteq Of("assistant")'
  BY <1>1
<1>4. ASSUME NEW i \in Of("result")'
      PROVE  LET t == log'[i].turn
             IN  /\ t \in Of("assistant")' /\ t < i
                 /\ log'[i].call \in DOMAIN log'[t].calls
                 /\ log'[i].verdict # "none" => log'[t].calls[log'[i].call] = "submit"
  <2>1. CASE i \in Of("result")
    <3>1. log'[i] = log[i]
      BY <1>1, <2>1
    <3>2. log[i].turn \in Of("assistant") /\ log'[log[i].turn] = log[log[i].turn]
      BY <1>1, <2>1 DEF ResultsRefer
    <3> QED
      BY <1>3, <2>1, <3>1, <3>2 DEF ResultsRefer
  <2>2. CASE i \notin Of("result")
    <3>1. i = Len(log) + 1 /\ r.kind = "result" /\ log'[i] = r
      BY <1>1, <1>4, <2>2
    <3>2. r.turn \in 1..Len(log) /\ log'[r.turn] = log[r.turn]
      BY <1>1, <3>1
    <3> QED
      BY <1>1, <1>3, <3>1, <3>2
  <2> QED
    BY <2>1, <2>2
<1>5. ASSUME NEW i \in Of("suspension")', log'[i].why = "child"
      PROVE  LastTurn' # 0
  <2>1. CASE i \in Of("suspension")
    BY <1>1, <1>2, <1>5, <2>1 DEF ResultsRefer
  <2>2. CASE i \notin Of("suspension")
    <3>1. r.kind = "suspension" /\ log'[i] = r
      BY <1>1, <1>5, <2>2
    <3> QED
      BY <1>2, <1>5, <3>1
  <2> QED
    BY <2>1, <2>2
<1> QED
  BY <1>4, <1>5 DEF ResultsRefer

\* A result for a call still open, or a message once every call is answered.
LEMMA ConversationAppend ==
    ASSUME LogShape, ResultsRefer, ConversationWellFormed,
           NEW r \in Record, log' = Append(log, r),
           r.kind = "result" => /\ r.turn = LastTurn /\ LastTurn # 0
                                /\ r.call \in Unanswered(LastTurn),
           r.kind = "assistant" => project.tail = {}
    PROVE  ConversationWellFormed'
<1>0. log \in Seq(Record)
  BY DEF LogShape
<1>1. /\ Len(log) \in Nat /\ log'[Len(log) + 1] = r
      /\ \A i \in 1..Len(log) : log'[i] = log[i]
      /\ \A k : Of(k)' = IF r.kind = k THEN Of(k) \cup {Len(log) + 1} ELSE Of(k)
      /\ \A k : Of(k) \subseteq 1..Len(log)
  BY <1>0, AppendFacts
<1>2. \A s : ResultsOf(s) \subseteq Of("result") /\ ResultsOf(s) \subseteq 1..Len(log)
  BY <1>1 DEF ResultsOf
<1>3. \A s : ResultsOf(s)' = IF r.kind = "result" /\ r.turn = s
                             THEN ResultsOf(s) \cup {Len(log) + 1} ELSE ResultsOf(s)
  BY <1>0, AppendResults
<1> SUFFICES ASSUME NEW t \in Of("assistant")'
             PROVE  /\ \A i, j \in ResultsOf(t)' : log'[i].call = log'[j].call => i = j
                    /\ {u \in Of("assistant")' : u > t} # {} =>
                          \A c \in DOMAIN log'[t].calls :
                             \E i \in ResultsOf(t)' :
                                /\ log'[i].call = c
                                /\ \A u \in {u \in Of("assistant")' : u > t} : i < u
  BY DEF ConversationWellFormed
<1>4. LastTurn \in 0..Len(log) /\ \A u \in Of("assistant") : u <= LastTurn
  BY <1>0, LastTurnFacts
<1>5. CASE t \notin Of("assistant")
  <2>1. t = Len(log) + 1 /\ r.kind = "assistant"
    BY <1>1, <1>5
  <2>2. ResultsOf(t)' = ResultsOf(t)
    BY <1>3, <2>1
  <2>3. ResultsOf(t) = {}
    BY <1>1, <2>1 DEF ResultsOf, ResultsRefer
  <2>4. \A u \in Of("assistant")' : ~(u > t)
    BY <1>1, <2>1
  <2> QED
    BY <2>2, <2>3, <2>4
<1>6. CASE t \in Of("assistant")
  <2>1. log'[t] = log[t]
    BY <1>1, <1>6
  <2>2. \A i, j \in ResultsOf(t) : log[i].call = log[j].call => i = j
    BY <1>6 DEF ConversationWellFormed
  <2>3. ASSUME NEW u \in Of("assistant"), u > t, NEW c \in DOMAIN log[t].calls
        PROVE  \E i \in ResultsOf(t) :
                  log[i].call = c /\ \A v \in Of("assistant") : v > t => i < v
    <3>1. {v \in Of("assistant") : v > t} # {}
      BY <2>3
    <3>2. \E i \in ResultsOf(t) :
             log[i].call = c /\ \A v \in {v \in Of("assistant") : v > t} : i < v
      BY <1>6, <2>3, <3>1 DEF ConversationWellFormed
    <3> QED
      BY <3>2
  <2>4. \A i, j \in ResultsOf(t)' : log'[i].call = log'[j].call => i = j
    <3>1. CASE r.kind = "result" /\ r.turn = t
      <4>1. ResultsOf(t)' = ResultsOf(t) \cup {Len(log) + 1}
        BY <1>3, <3>1
      <4>2. \A i \in ResultsOf(t) : log[i].call # r.call
        BY <3>1 DEF Unanswered
      <4>3. \A i \in ResultsOf(t) : log'[i] = log[i]
        BY <1>1, <1>2
      <4> QED
        BY <1>1, <2>2, <4>1, <4>2, <4>3
    <3>2. CASE ~(r.kind = "result" /\ r.turn = t)
      <4>1. ResultsOf(t)' = ResultsOf(t)
        BY <1>3, <3>2
      <4>2. \A i \in ResultsOf(t) : log'[i] = log[i]
        BY <1>1, <1>2
      <4> QED
        BY <2>2, <4>1, <4>2
    <3> QED
      BY <3>1, <3>2
  <2>5. ASSUME NEW w \in Of("assistant")', w > t, NEW c \in DOMAIN log[t].calls
        PROVE  \E i \in ResultsOf(t)' :
                  log'[i].call = c /\ \A v \in Of("assistant")' : v > t => i < v
    <3>1. ResultsOf(t) \subseteq ResultsOf(t)'
      BY <1>3
    <3>2. CASE \E u \in Of("assistant") : u > t
      <4>1. PICK i \in ResultsOf(t) :
               log[i].call = c /\ \A v \in Of("assistant") : v > t => i < v
        BY <2>3, <2>5, <3>2
      <4>2. i \in 1..Len(log) /\ log'[i] = log[i]
        BY <1>1, <1>2
      <4>3. \A v \in Of("assistant")' : v > t => i < v
        BY <1>1, <4>1, <4>2
      <4> QED
        BY <3>1, <4>1, <4>2, <4>3
    <3>3. CASE ~\E u \in Of("assistant") : u > t
      <4>1. r.kind = "assistant"
        BY <1>1, <2>5, <3>3
      <4>2. LastTurn = t
        BY <1>0, <1>1, <1>4, <1>6, <3>3, LastTurnFacts
      <4>3. Unanswered(t) = {}
        BY <1>1, <1>6, <4>1, <4>2, ProjectFields
      <4>4. PICK i \in ResultsOf(t) : log[i].call = c
        BY <2>5, <4>3 DEF Unanswered
      <4>5. i \in 1..Len(log) /\ log'[i] = log[i]
        BY <1>1, <1>2
      <4>6. \A v \in Of("assistant")' : v > t => i < v
        BY <1>1, <3>3, <4>1, <4>5
      <4> QED
        BY <3>1, <4>4, <4>5, <4>6
    <3> QED
      BY <3>2, <3>3
  <2>6. ASSUME {u \in Of("assistant")' : u > t} # {}, NEW c \in DOMAIN log'[t].calls
        PROVE  \E i \in ResultsOf(t)' :
                  /\ log'[i].call = c
                  /\ \A u \in {u \in Of("assistant")' : u > t} : i < u
    <3>1. PICK w \in Of("assistant")' : w > t
      BY <2>6
    <3>2. c \in DOMAIN log[t].calls
      BY <2>1
    <3> QED
      BY <2>5, <3>1, <3>2
  <2> QED
    BY <2>4, <2>6
<1> QED
  BY <1>5, <1>6

\* A record within the caps.
LEMMA CapsAppend ==
    ASSUME LogShape, CapsHold, NEW r \in Record, log' = Append(log, r),
           r.kind = "assistant" => project.turns < MaxTurns,
           r.kind = "suspension" /\ r.why = "child" => project.launches < MaxLaunches,
           r.kind = "suspension" /\ r.why = "budget" =>
              /\ r.count = 0 \/ r.count < RecheckBound
              /\ \A i \in BudgetStops : LastTurn < i => log[i].count < r.count
    PROVE  CapsHold'
<1>0. log \in Seq(Record)
  BY DEF LogShape
<1>1. /\ Len(log) \in Nat /\ log'[Len(log) + 1] = r
      /\ \A i \in 1..Len(log) : log'[i] = log[i]
      /\ \A k : Of(k)' = IF r.kind = k THEN Of(k) \cup {Len(log) + 1} ELSE Of(k)
      /\ \A k : Of(k) \subseteq 1..Len(log)
  BY <1>0, AppendFacts
<1>2. /\ BudgetStops' = IF r.kind = "suspension" /\ r.why = "budget"
                        THEN BudgetStops \cup {Len(log) + 1} ELSE BudgetStops
      /\ (Of("suspension") \ BudgetStops)' =
            IF r.kind = "suspension" /\ r.why = "child"
            THEN (Of("suspension") \ BudgetStops) \cup {Len(log) + 1}
            ELSE Of("suspension") \ BudgetStops
      /\ BudgetStops \subseteq 1..Len(log)
      /\ (Of("suspension") \ BudgetStops) \subseteq 1..Len(log)
  BY <1>0, AppendStops
<1>3. /\ project.turns = Cardinality(Of("assistant"))
      /\ project.launches = Cardinality(Of("suspension") \ BudgetStops)
  <2>1. Of("suspension") \ BudgetStops = {i \in Of("suspension") : log[i].why = "child"}
    BY <1>0, AppendStops
  <2> QED
    BY <2>1, ProjectFields
<1>4. /\ Cardinality(Of("assistant")) <= MaxTurns
      /\ Cardinality(Of("suspension") \ BudgetStops) <= MaxLaunches
      /\ \A i \in BudgetStops :
            /\ log[i].count = 0 \/ log[i].count < RecheckBound
            /\ \A j \in BudgetStops :
                  i < j /\ (\A t \in Of("assistant") : t < i \/ j < t) =>
                     log[i].count < log[j].count
  BY DEF CapsHold, BudgetStops
<1>5. Cardinality(Of("assistant")') <= MaxTurns
  <2>1. IsFiniteSet(Of("assistant")) /\ Cardinality(Of("assistant")) \in Nat
    BY <1>0, FiniteOf
  <2>2. CASE r.kind = "assistant"
    <3>1. Of("assistant")' = Of("assistant") \cup {Len(log) + 1}
      BY <1>1, <2>2
    <3>2. Len(log) + 1 \notin Of("assistant")
      BY <1>1
    <3>3. Cardinality(Of("assistant") \cup {Len(log) + 1}) = Cardinality(Of("assistant")) + 1
      BY <2>1, <3>2, FS_AddElement
    <3>4. Cardinality(Of("assistant")) < MaxTurns
      BY <1>3, <2>2
    <3>5. Cardinality(Of("assistant")') = Cardinality(Of("assistant")) + 1
      BY <3>1, <3>3
    <3> QED
      BY <2>1, <3>4, <3>5, LoopAssumption
  <2>3. CASE r.kind # "assistant"
    BY <1>1, <1>4, <2>3
  <2> QED
    BY <2>2, <2>3
<1>6. Cardinality((Of("suspension") \ BudgetStops)') <= MaxLaunches
  <2> DEFINE S == Of("suspension") \ BudgetStops
  <2>1. IsFiniteSet(S) /\ Cardinality(S) \in Nat
    <3>1. IsFiniteSet(Of("suspension"))
      BY <1>0, FiniteOf
    <3>2. S \subseteq Of("suspension")
      OBVIOUS
    <3> QED
      BY <3>1, <3>2, FS_Subset, FS_CardinalityType
  <2>2. CASE r.kind = "suspension" /\ r.why = "child"
    <3>1. S' = S \cup {Len(log) + 1} /\ Len(log) + 1 \notin S
      BY <1>1, <1>2, <2>2
    <3> HIDE DEF S
    <3>2. Cardinality(S \cup {Len(log) + 1}) = Cardinality(S) + 1
      BY <2>1, <3>1, FS_AddElement
    <3>3. Cardinality(S) < MaxLaunches
      BY <1>3, <2>2 DEF S
    <3>4. Cardinality(S') = Cardinality(S) + 1
      BY <3>1, <3>2
    <3>5. Cardinality(S') <= MaxLaunches
      BY <2>1, <3>3, <3>4, LoopAssumption
    <3> QED
      BY <3>5 DEF S
  <2>3. CASE ~(r.kind = "suspension" /\ r.why = "child")
    BY <1>2, <1>4, <2>3
  <2> QED
    BY <2>2, <2>3
<1>7. ASSUME NEW i \in BudgetStops'
      PROVE  log'[i].count = 0 \/ log'[i].count < RecheckBound
  BY <1>1, <1>2, <1>4, <1>7
<1>8. ASSUME NEW i \in BudgetStops', NEW j \in BudgetStops', i < j,
             \A t \in Of("assistant")' : t < i \/ j < t
      PROVE  log'[i].count < log'[j].count
  <2>1. i \in BudgetStops /\ log'[i] = log[i] /\ i \in 1..Len(log)
    BY <1>1, <1>2, <1>8
  <2>2. \A t \in Of("assistant") : t < i \/ j < t
    BY <1>1, <1>8
  <2>3. CASE j \in BudgetStops
    <3>1. log'[j] = log[j]
      BY <1>1, <1>2, <2>3
    <3> QED
      BY <1>4, <1>8, <2>1, <2>2, <2>3, <3>1
  <2>4. CASE j \notin BudgetStops
    <3>1. /\ r.kind = "suspension" /\ r.why = "budget"
          /\ j = Len(log) + 1 /\ log'[j] = r
      BY <1>1, <1>2, <1>8, <2>4
    <3>2. \A t \in Of("assistant") : t < i
      BY <1>1, <2>2, <3>1
    <3>3. LastTurn < i
      BY <1>0, <2>1, <3>2, LastTurnFacts
    <3> QED
      BY <2>1, <3>1, <3>3
  <2> QED
    BY <2>3, <2>4
<1>9. CapsHold' <=>
         /\ Cardinality(Of("assistant")') <= MaxTurns
         /\ Cardinality((Of("suspension") \ BudgetStops)') <= MaxLaunches
         /\ \A i \in BudgetStops' :
               /\ log'[i].count = 0 \/ log'[i].count < RecheckBound
               /\ \A j \in BudgetStops' :
                     i < j /\ (\A t \in Of("assistant")' : t < i \/ j < t) =>
                        log'[i].count < log'[j].count
  BY DEF CapsHold, BudgetStops
<1> QED
  BY <1>5, <1>6, <1>7, <1>8, <1>9

\* A submission of the last message that its verdicts let stand.
LEMMA SubmissionAppend ==
    ASSUME LogShape, Of("submission") = {}, NEW r \in Record, log' = Append(log, r),
           r.kind = "submission" => r.turn = LastTurn /\ Stands(r.call)
    PROVE  SubmissionStands'
<1>0. log \in Seq(Record)
  BY DEF LogShape
<1>1. /\ Len(log) \in Nat /\ log'[Len(log) + 1] = r
      /\ \A i \in 1..Len(log) : log'[i] = log[i]
      /\ \A k : Of(k)' = IF r.kind = k THEN Of(k) \cup {Len(log) + 1} ELSE Of(k)
      /\ \A k : Of(k) \subseteq 1..Len(log)
  BY <1>0, AppendFacts
<1>2. CASE r.kind # "submission"
  <2>1. Of("submission")' = {}
    BY <1>1, <1>2
  <2> QED
    BY <2>1 DEF SubmissionStands
<1>3. CASE r.kind = "submission"
  <2>1. Of("submission")' = {Len(log) + 1} /\ Of("drift")' = Of("drift")
    BY <1>1, <1>3
  <2>2. LastTurn' = LastTurn /\ Of("result")' = Of("result")
    BY <1>0, <1>1, <1>3, AppendLastTurn
  <2>3. LastTurn \in 1..Len(log)
    BY <1>0, <1>3, LastTurnFacts DEF Stands
  <2>4. \A i \in Of("result") : log'[i] = log[i]
    BY <1>1
  <2>5. ResultsOf(LastTurn)' = ResultsOf(LastTurn)
    BY <2>2, <2>4 DEF ResultsOf
  <2>6. \A i \in ResultsOf(LastTurn) : log'[i] = log[i]
    BY <2>4 DEF ResultsOf
  <2>7. log'[LastTurn] = log[LastTurn]
    BY <1>1, <2>3
  <2>8. r.turn = LastTurn /\ log[LastTurn].calls[r.call] = "submit"
    BY <1>3 DEF Stands
  <2>9. \A i \in ResultsOf(LastTurn) : log[i].call = r.call =>
           log[i].verdict = "accept" /\ \A j \in Of("drift") : j < i
    BY <1>3 DEF Stands
  <2>10. \A i \in ResultsOf(LastTurn)' : log'[i].call = r.call =>
            log'[i].verdict = "accept" /\ \A j \in Of("drift")' : j < i
    BY <2>1, <2>5, <2>6, <2>9
  <2>11. r.turn = LastTurn' /\ log'[LastTurn'].calls[r.call] = "submit"
    BY <2>2, <2>7, <2>8
  <2> QED
    BY <1>1, <2>1, <2>10, <2>11 DEF SubmissionStands
<1> QED
  BY <1>2, <1>3

\* While the loop is out of credit, nothing but waits and wakes.
LEMMA StallAppend ==
    ASSUME LogShape, ResultsRefer, StallShape, NEW r \in Record, log' = Append(log, r),
           r.kind \in {"opening", "result", "drift"} => ~Stalled,
           r.kind = "suspension" /\ r.why = "child" => ~Stalled,
           r.kind = "wake" =>
              /\ Stalled
              /\ \A i \in BudgetStops : LastTurn < i => log[i].count <= r.count,
           r.kind = "suspension" /\ r.why = "budget" =>
              /\ project.tail = {}
              /\ project.resolved # 0 => log[project.resolved].verdict = "reject"
              /\ \A i \in BudgetStops : LastTurn < i => log[i].count <= r.count
    PROVE  StallShape'
<1>0. log \in Seq(Record)
  BY DEF LogShape
<1>1. /\ Len(log) \in Nat /\ Len(log') = Len(log) + 1 /\ log' # <<>>
      /\ log'[Len(log) + 1] = r
      /\ \A i \in 1..Len(log) : log'[i] = log[i]
      /\ \A k : Of(k)' = IF r.kind = k THEN Of(k) \cup {Len(log) + 1} ELSE Of(k)
      /\ \A k : Of(k) \subseteq 1..Len(log)
  BY <1>0, AppendFacts
<1>2. /\ BudgetStops' = IF r.kind = "suspension" /\ r.why = "budget"
                        THEN BudgetStops \cup {Len(log) + 1} ELSE BudgetStops
      /\ BudgetStops \subseteq 1..Len(log)
  BY <1>0, AppendStops
<1>3. r.kind \in {"opening", "drift", "assistant", "result",
                  "suspension", "wake", "submission"}
      /\ (r.kind = "suspension" => r.why \in {"child", "budget"} /\ r.count \in Nat)
  BY RecordFacts
<1>4. CASE r.kind = "assistant"
  <2>1. LastTurn' = Len(log) + 1 /\ BudgetStops' = BudgetStops
    BY <1>0, <1>2, <1>4, AppendLastTurn
  <2>2. ~Stalled'
    BY <1>1, <1>2, <2>1 DEF Stalled
  <2> QED
    BY <1>1, <1>4, <2>2 DEF StallShape
<1>5. CASE r.kind # "assistant"
  <2>1. LastTurn' = LastTurn
    BY <1>0, <1>5, AppendLastTurn
  <2>2. CASE \/ r.kind \in {"opening", "result", "drift"}
             \/ r.kind = "suspension" /\ r.why = "child"
    <3>1. ~Stalled'
      BY <1>2, <2>1, <2>2 DEF Stalled
    <3> QED
      BY <1>1, <2>2, <3>1 DEF StallShape
  <2>3. CASE \/ r.kind \in {"wake", "submission"}
             \/ r.kind = "suspension" /\ r.why = "budget"
    <3>1. project'.tail = project.tail /\ project'.resolved = project.resolved
      BY <1>5, <2>3, ProjectAppend
    <3>2. project.resolved # 0 => log'[project.resolved] = log[project.resolved]
      BY <1>0, <1>1, OpenFacts
    <3>3. /\ r.kind \in {"wake", "submission"} => BudgetStops' = BudgetStops
          /\ \A i \in BudgetStops : log'[i] = log[i]
      BY <1>1, <1>2
    <3>4. CASE r.kind = "submission"
      <4>1. Of("submission")' # {}
        BY <1>1, <3>4
      <4>2. Stalled' => Stalled
        BY <2>1, <3>3, <3>4 DEF Stalled
      <4> QED
        BY <1>1, <3>1, <3>2, <3>4, <4>1, <4>2 DEF StallShape
    <3>5. CASE r.kind = "wake"
      <4>1. Stalled' /\ Stalled
        BY <2>1, <3>3, <3>5 DEF Stalled
      <4>2. \A i \in BudgetStops' : LastTurn' < i => log'[i].count <= log'[Len(log')].count
        BY <1>1, <2>1, <3>3, <3>5
      <4> QED
        BY <1>1, <3>1, <3>2, <3>5, <4>1, <4>2 DEF StallShape
    <3>6. CASE r.kind = "suspension" /\ r.why = "budget"
      <4>1. BudgetStops' = BudgetStops \cup {Len(log) + 1}
        BY <1>2, <3>6
      <4>2. \A i \in BudgetStops' : LastTurn' < i => log'[i].count <= log'[Len(log')].count
        BY <1>1, <1>2, <1>3, <2>1, <3>3, <3>6, <4>1
      <4>3. Len(log') \in BudgetStops'
        BY <1>1, <4>1
      <4>4. project'.tail = {}
            /\ (project'.resolved # 0 => log'[project'.resolved].verdict = "reject")
        BY <3>1, <3>2, <3>6
      <4> QED
        BY <1>1, <3>6, <4>2, <4>3, <4>4 DEF StallShape
    <3> QED
      BY <2>3, <3>4, <3>5, <3>6
  <2> QED
    BY <1>3, <1>5, <2>2, <2>3
<1> QED
  BY <1>4, <1>5

-----------------------------------------------------------------------------
(* The log as a whole.                                                      *)

\* A record the log takes.
Fits(r) ==
    /\ r \in Record
    /\ log # <<>> \/ r.kind = "opening"
    /\ r.kind \in {"opening", "drift"} => ~Stalled
    /\ r.kind = "assistant" => project.tail = {} /\ project.turns < MaxTurns
    /\ r.kind = "result" =>
          /\ r.turn = LastTurn /\ r.call \in project.tail
          /\ r.verdict # "none" => log[LastTurn].calls[r.call] = "submit"
    /\ r.kind = "suspension" /\ r.why = "child" =>
          project.tail # {} /\ project.launches < MaxLaunches
    /\ r.kind = "suspension" /\ r.why = "budget" =>
          /\ r.count = 0 \/ r.count < RecheckBound
          /\ project.tail = {}
          /\ project.resolved # 0 => log[project.resolved].verdict = "reject"
          /\ \A i \in BudgetStops : LastTurn < i => log[i].count < r.count
    /\ r.kind = "wake" =>
          /\ Stalled
          /\ \A i \in BudgetStops : LastTurn < i => log[i].count <= r.count
    /\ r.kind = "submission" => r.turn = LastTurn /\ Stands(r.call)

LEMMA FitsAppend ==
    ASSUME LogInv, Of("submission") = {}, NEW r, Fits(r), log' = Append(log, r)
    PROVE  LogInv'
<1>0. log \in Seq(Record) /\ LogShape /\ r \in Record
  BY DEF LogInv, LogShape, Fits
<1>1. r.kind = "suspension" => r.why \in {"child", "budget"} /\ r.count \in Nat
  BY <1>0, RecordFacts
<1>2. project.tail # {} => ~Stalled /\ LastTurn \in Of("assistant") /\ LastTurn # 0
                           /\ project.tail = Unanswered(LastTurn)
  <2>1. project.tail # {} => LastTurn # 0 /\ project.tail = Unanswered(LastTurn)
    BY ProjectFields
  <2>2. project.tail # {} => ~Stalled
    BY DEF LogInv, StallShape
  <2> QED
    BY <1>0, <2>1, <2>2, TailFacts
<1>3. LogShape'
  BY <1>0, ShapeAppend DEF Fits
<1>4. ResultsRefer'
  <2>1. r.kind = "result" =>
           /\ r.turn \in Of("assistant") /\ r.call \in DOMAIN log[r.turn].calls
           /\ r.verdict # "none" => log[r.turn].calls[r.call] = "submit"
    BY <1>0, <1>2, TailFacts DEF Fits
  <2>2. r.kind = "suspension" /\ r.why = "child" => LastTurn # 0
    BY <1>2 DEF Fits
  <2> QED
    BY <1>0, <2>1, <2>2, RefersAppend DEF LogInv
<1>5. StallShape'
  <2>1. r.kind \in {"opening", "result", "drift"} => ~Stalled
    BY <1>2 DEF Fits
  <2>2. r.kind = "suspension" /\ r.why = "child" => ~Stalled
    BY <1>2 DEF Fits
  <2>3. r.kind = "wake" =>
           /\ Stalled
           /\ \A i \in BudgetStops : LastTurn < i => log[i].count <= r.count
    BY DEF Fits
  <2>4. ASSUME r.kind = "suspension", r.why = "budget"
        PROVE  /\ project.tail = {}
               /\ project.resolved # 0 => log[project.resolved].verdict = "reject"
               /\ \A i \in BudgetStops : LastTurn < i => log[i].count <= r.count
    <3>1. \A i \in BudgetStops : log[i].count \in Nat
      BY <1>0, LogFacts, RecordFacts DEF BudgetStops
    <3>2. \A i \in BudgetStops : LastTurn < i => log[i].count < r.count
      BY <2>4 DEF Fits
    <3>3. \A i \in BudgetStops : LastTurn < i => log[i].count <= r.count
      BY <1>1, <2>4, <3>1, <3>2
    <3> QED
      BY <2>4, <3>3 DEF Fits
  <2> QED
    BY <1>0, <2>1, <2>2, <2>3, <2>4, StallAppend DEF LogInv
<1>6. ConversationWellFormed'
  <2>1. r.kind = "result" => /\ r.turn = LastTurn /\ LastTurn # 0
                             /\ r.call \in Unanswered(LastTurn)
    BY <1>2 DEF Fits
  <2>2. r.kind = "assistant" => project.tail = {}
    BY DEF Fits
  <2> QED
    BY <1>0, <2>1, <2>2, ConversationAppend DEF LogInv
<1>7. CapsHold'
  <2>1. r.kind = "assistant" => project.turns < MaxTurns
    BY DEF Fits
  <2>2. r.kind = "suspension" /\ r.why = "child" => project.launches < MaxLaunches
    BY DEF Fits
  <2>3. r.kind = "suspension" /\ r.why = "budget" =>
           /\ r.count = 0 \/ r.count < RecheckBound
           /\ \A i \in BudgetStops : LastTurn < i => log[i].count < r.count
    BY DEF Fits
  <2> QED
    BY <1>0, <2>1, <2>2, <2>3, CapsAppend DEF LogInv
<1>8. SubmissionStands'
  <2>1. r.kind = "submission" => r.turn = LastTurn /\ Stands(r.call)
    BY DEF Fits
  <2> QED
    BY <1>0, <2>1, SubmissionAppend
<1> QED
  BY <1>3, <1>4, <1>5, <1>6, <1>7, <1>8 DEF LogInv

\* Nothing is read differently when nothing is written.
LEMMA SameReading ==
    ASSUME log' = log
    PROVE  /\ project' = project /\ LastTurn' = LastTurn
           /\ \A k : Of(k)' = Of(k)
           /\ \A c : Stands(c)' <=> Stands(c)
           /\ \A row : MemoryRow(row)' <=> MemoryRow(row)
           /\ \A row : HolderRow(row)' <=> HolderRow(row)
<1>1. \A k : Of(k)' = Of(k)
  BY DEF Of
<1>2. LastTurn' = LastTurn
  BY <1>1 DEF LastTurn
<1>3. \A s : ResultsOf(s)' = ResultsOf(s)
  BY <1>1 DEF ResultsOf
<1>4. \A s : Unanswered(s)' = Unanswered(s)
  BY <1>3 DEF Unanswered
<1>5. ResultsOf(LastTurn)' = ResultsOf(LastTurn)
  BY <1>1, <1>2 DEF ResultsOf
<1>6. OpenVerdicts' = OpenVerdicts
  BY <1>1, <1>5 DEF OpenVerdicts
<1>7. Unanswered(LastTurn)' = Unanswered(LastTurn)
  BY <1>2, <1>5 DEF Unanswered
<1>8. project' = project
  BY <1>1, <1>2, <1>6, <1>7 DEF project
<1>9. \A c : Stands(c)' <=> Stands(c)
  BY <1>1, <1>2, <1>5 DEF Stands
<1>10. \A row : MemoryRow(row)' <=> MemoryRow(row)
  BY <1>1 DEF MemoryRow
<1>11. \A row : HolderRow(row)' <=> HolderRow(row)
  BY <1>2, <1>8, <1>9 DEF HolderRow
<1> QED
  BY <1>1, <1>2, <1>8, <1>9, <1>10, <1>11

LEMMA SameLog ==
    ASSUME LogInv, log' = log
    PROVE  LogInv'
<1>1. project' = project /\ LastTurn' = LastTurn /\ \A k : Of(k)' = Of(k)
  BY SameReading
<1>2. \A s : ResultsOf(s)' = ResultsOf(s)
  BY <1>1 DEF ResultsOf
<1>3. LogShape'
  BY DEF LogInv, LogShape
<1>4. ResultsRefer'
  BY <1>1 DEF LogInv, ResultsRefer
<1>5. BudgetStops' = BudgetStops
  BY <1>1 DEF BudgetStops
<1>6. StallShape'
  BY <1>1, <1>5 DEF LogInv, StallShape, Stalled
<1>7. ConversationWellFormed'
  BY <1>1, <1>2 DEF LogInv, ConversationWellFormed
<1>8. CapsHold'
  BY <1>1 DEF LogInv, CapsHold
<1>9. SubmissionStands'
  <2>1. ResultsOf(LastTurn)' = ResultsOf(LastTurn)
    BY <1>1 DEF ResultsOf
  <2> QED
    BY <1>1, <2>1 DEF LogInv, SubmissionStands
<1> QED
  BY <1>3, <1>4, <1>6, <1>7, <1>8, <1>9 DEF LogInv

\* What an attempt remembers stays in the log.
LEMMA MemoryAppend ==
    ASSUME log \in Seq(Record), NEW r \in Record, log' = Append(log, r)
    PROVE  \A row : MemoryRow(row) => MemoryRow(row)'
<1>1. /\ \A i \in 1..Len(log) : log'[i] = log[i]
      /\ \A k : Of(k)' = IF r.kind = k THEN Of(k) \cup {Len(log) + 1} ELSE Of(k)
      /\ \A k : Of(k) \subseteq 1..Len(log)
  BY AppendFacts
<1>2. \A k : Of(k) \subseteq Of(k)'
  BY <1>1
<1>3. \A i \in Of("assistant") : log'[i] = log[i]
  BY <1>1
<1> QED
  BY <1>2, <1>3 DEF MemoryRow

LEMMA ReadingType ==
    ASSUME LogShape
    PROVE  project \in Reading /\ NoReading \in Reading
<1>0. log \in Seq(Record)
  BY DEF LogShape
<1>1. project.turns \in Nat
  BY <1>0, FiniteOf, ProjectFields
<1>2. project.seq \in Nat
  BY <1>0, LastTurnFacts, LogFacts, ProjectFields
<1>3. project.tail \in SUBSET Nat
  BY TailFacts
<1>4. project.resolved \in Nat
  BY <1>0, OpenFacts, LogFacts
<1>5. project.carried \in Nat
  <2>1. project.carried = IF Len(log) > 0 /\ log[Len(log)].kind = "wake"
                          THEN log[Len(log)].count + 1 ELSE 0
    BY ProjectFields
  <2>2. CASE Len(log) > 0 /\ log[Len(log)].kind = "wake"
    <3>1. log[Len(log)] \in Record
      BY <1>0, <2>2, LogFacts
    <3>2. log[Len(log)].count \in Nat
      BY <2>2, <3>1, RecordFacts
    <3> QED
      BY <2>1, <2>2, <3>2
  <2>3. CASE ~(Len(log) > 0 /\ log[Len(log)].kind = "wake")
    BY <2>1, <2>3
  <2> QED
    BY <2>2, <2>3
<1>6. project.launches \in Nat
  <2>1. IsFiniteSet(Of("suspension"))
    BY <1>0, FiniteOf
  <2>2. {i \in Of("suspension") : log[i].why = "child"} \subseteq Of("suspension")
    OBVIOUS
  <2> QED
    BY <2>1, <2>2, FS_Subset, FS_CardinalityType, ProjectFields
<1>7. project \in Reading
  BY <1>1, <1>2, <1>3, <1>4, <1>5, <1>6, ProjectFields DEF Reading
<1> QED
  BY <1>7 DEF NoReading, Reading

LEMMA ReadingTypeNext ==
    (LogShape => project \in Reading)'
<1>1. LogShape => project \in Reading
  BY ReadingType
<1> QED
  BY <1>1, PTL

\* A fresh reading is in the log.
LEMMA FreshMemory ==
    ASSUME LogShape
    PROVE  /\ project.resolved # 0 => project.resolved \in Of("result")
           /\ project.tail # {} =>
                 /\ project.seq \in Of("assistant")
                 /\ project.tail \subseteq DOMAIN log[project.seq].calls
<1>1. project.resolved # 0 => project.resolved \in Of("result")
  BY OpenFacts DEF LogShape
<1> QED
  BY <1>1, TailFacts, ProjectFields

-----------------------------------------------------------------------------
(* The kinds of step.                                                       *)

ThreadRow == [status : ThreadTerminal \cup {"running", "suspended"},
              intent : BOOLEAN, recovery : 0..RecoveryCap]

TaskRow == [status : {"queued", "claimed", "blocked", "completed", "dead_letter"},
            token : Slots \cup {None}, retry : 0..MaxRetries]

RowsType ==
    /\ thread \in ThreadRow /\ task \in TaskRow
    /\ task.status = "claimed" <=> task.token # None
    /\ thread.status = "suspended" <=> task.status = "blocked"

LEMMA TypeParts ==
    ASSUME AttemptsShape
    PROVE  TypeOK <=> RowsType
BY DEF TypeOK, RowsType, ThreadRow, TaskRow, AttemptsShape, Attempt

LEMMA IdleFacts ==
    ASSUME TRUE
    PROVE  /\ Idle \in Attempt /\ Idle.pc = "idle"
           /\ MemoryRow(Idle) /\ MemoryRow(Idle)'
           /\ NoReading \in Reading
<1>1. 0 \in 0..MaxRetries
  BY BudgetAssumption
<1>2. NoReading \in Reading /\ NoReading.resolved = 0 /\ NoReading.tail = {}
  BY DEF NoReading, Reading
<1>3. Idle \in Attempt /\ Idle.pc = "idle" /\ Idle.read = NoReading
  BY <1>1, <1>2 DEF Idle, Attempt
<1> QED
  BY <1>2, <1>3 DEF MemoryRow

\* An attempt moves on and writes nothing.
LEMMA LocalStep ==
    ASSUME IInv, NEW p \in Slots, NEW row \in Attempt,
           MemoryRow(row), HoldsClaim(p) => HolderRow(row),
           UNCHANGED <<log, thread, task>>, loop' = [loop EXCEPT ![p] = row]
    PROVE  IInv'
<1>1. log' = log /\ thread' = thread /\ task' = task
  OBVIOUS
<1>2. /\ \A x : MemoryRow(x)' <=> MemoryRow(x)
      /\ \A x : HolderRow(x)' <=> HolderRow(x)
      /\ \A k : Of(k)' = Of(k)
  BY <1>1, SameReading
<1>3. LogInv'
  BY <1>1, SameLog DEF IInv
<1>4. RowsShape'
  BY <1>1, <1>2 DEF IInv, RowsShape
<1>5. loop' \in [Slots -> Attempt]
  BY DEF IInv, AttemptsShape
<1>6. ASSUME NEW q \in Slots
      PROVE  MemoryRow(loop[q])' /\ (HoldsClaim(q)' => HolderRow(loop[q])')
  <2>1. HoldsClaim(q)' <=> HoldsClaim(q)
    BY <1>1 DEF HoldsClaim
  <2>2. MemoryRow(loop[q]) /\ (HoldsClaim(q) => HolderRow(loop[q]))
    BY DEF IInv, AttemptsShape
  <2>3. PICK x : x = loop'[q]
    OBVIOUS
  <2>4. x = IF q = p THEN row ELSE loop[q]
    BY <2>3 DEF IInv, AttemptsShape
  <2>5. MemoryRow(x) /\ (HoldsClaim(q) => HolderRow(x))
    BY <2>2, <2>4
  <2>6. MemoryRow(x)' /\ (HoldsClaim(q)' => HolderRow(x)')
    BY <1>2, <2>1, <2>5
  <2> QED
    BY <2>3, <2>6 DEF MemoryRow, HolderRow, Stands
<1>7. AttemptsShape'
  BY <1>5, <1>6 DEF AttemptsShape
<1>8. RowsType'
  BY <1>1, TypeParts DEF IInv, RowsType
<1>9. TypeOK'
  BY <1>5, <1>8 DEF TypeOK, RowsType, ThreadRow, TaskRow, Attempt
<1> QED
  BY <1>3, <1>4, <1>7, <1>9 DEF IInv

\* The holder commits a record and goes on.
LEMMA CommitStep ==
    ASSUME IInv, NEW p \in Slots, NEW row \in Attempt, NEW r, Fits(r),
           r.kind \notin {"suspension", "submission"},
           HoldsClaim(p), log' = Append(log, r), thread' = thread,
           task' = task \/ task' = [task EXCEPT !.retry = AfterProgress],
           loop' = [loop EXCEPT ![p] = row],
           MemoryRow(row)', HolderRow(row)'
    PROVE  IInv'
<1>0. log \in Seq(Record) /\ r \in Record
  BY DEF IInv, LogInv, LogShape, Fits
<1>1. Of("submission") = {}
  BY DEF IInv, RowsShape, HoldsClaim
<1>2. LogInv'
  BY <1>1, FitsAppend DEF IInv
<1>3. /\ log' # <<>> /\ Len(log') = Len(log) + 1 /\ log'[Len(log) + 1] = r
      /\ Of("submission")' = Of("submission")
  BY <1>0, AppendFacts
<1>4. RowsType
  BY TypeParts DEF IInv
<1>5. /\ task' \in TaskRow
      /\ task'.status = task.status /\ task'.token = task.token
  BY <1>4, BudgetAssumption DEF RowsType, TaskRow, AfterProgress
<1>6. RowsType'
  BY <1>4, <1>5 DEF RowsType
<1>7. thread.status = "running"
  BY DEF IInv, RowsShape, HoldsClaim
<1>8. RowsShape'
  BY <1>1, <1>3, <1>5, <1>7 DEF IInv, RowsShape
<1>9. loop' \in [Slots -> Attempt]
  BY DEF IInv, AttemptsShape
<1>10. ASSUME NEW q \in Slots
       PROVE  MemoryRow(loop[q])' /\ (HoldsClaim(q)' => HolderRow(loop[q])')
  <2>1. HoldsClaim(q)' => q = p
    BY <1>5 DEF HoldsClaim
  <2>2. CASE q = p
    <3>1. loop'[q] = row
      BY <2>2 DEF IInv, AttemptsShape
    <3> QED
      BY <3>1 DEF MemoryRow, HolderRow, Stands
  <2>3. CASE q # p
    <3>1. loop'[q] = loop[q]
      BY <2>3 DEF IInv, AttemptsShape
    <3>2. PICK x : x = loop[q]
      OBVIOUS
    <3>3. MemoryRow(x)
      BY <3>2 DEF IInv, AttemptsShape
    <3>4. MemoryRow(x)'
      BY <1>0, <3>3, MemoryAppend
    <3> QED
      BY <2>1, <2>3, <3>1, <3>2, <3>4 DEF MemoryRow
  <2> QED
    BY <2>2, <2>3
<1>11. AttemptsShape'
  BY <1>9, <1>10 DEF AttemptsShape
<1>12. TypeOK'
  BY <1>6, <1>9 DEF TypeOK, RowsType, ThreadRow, TaskRow, Attempt
<1> QED
  BY <1>2, <1>8, <1>11, <1>12 DEF IInv

\* Nobody holds the claim after the step.
LEMMA LeaveStep ==
    ASSUME IInv, RowsType', RowsShape', task'.status # "claimed",
           \/ log' = log
           \/ \E r : Fits(r) /\ Of("submission") = {} /\ log' = Append(log, r),
           \/ loop' = loop
           \/ \E p \in Slots : loop' = [loop EXCEPT ![p] = Idle]
    PROVE  IInv'
<1>1. LogInv'
  <2>1. CASE log' = log
    BY <2>1, SameLog DEF IInv
  <2>2. CASE \E r : Fits(r) /\ Of("submission") = {} /\ log' = Append(log, r)
    BY <2>2, FitsAppend DEF IInv
  <2> QED
    BY <2>1, <2>2
<1>2. \A row : MemoryRow(row) => MemoryRow(row)'
  <2>1. CASE log' = log
    BY <2>1, SameReading
  <2>2. CASE \E r : Fits(r) /\ Of("submission") = {} /\ log' = Append(log, r)
    <3>1. PICK r : Fits(r) /\ log' = Append(log, r)
      BY <2>2
    <3>2. r \in Record /\ log \in Seq(Record)
      BY <3>1 DEF IInv, LogInv, LogShape, Fits
    <3> QED
      BY <3>1, <3>2, MemoryAppend
  <2> QED
    BY <2>1, <2>2
<1>3. loop' \in [Slots -> Attempt]
  BY IdleFacts DEF IInv, AttemptsShape
<1>4. ASSUME NEW q \in Slots
      PROVE  MemoryRow(loop[q])' /\ (HoldsClaim(q)' => HolderRow(loop[q])')
  <2>1. ~HoldsClaim(q)'
    BY DEF HoldsClaim
  <2>2. loop'[q] \in {loop[q], Idle}
    BY DEF IInv, AttemptsShape
  <2>3. PICK x : x = loop'[q]
    OBVIOUS
  <2>4. MemoryRow(x)
    BY <2>2, <2>3, IdleFacts DEF IInv, AttemptsShape
  <2>5. MemoryRow(x)'
    BY <1>2, <2>4
  <2> QED
    BY <2>1, <2>3, <2>5 DEF MemoryRow
<1>5. AttemptsShape'
  BY <1>3, <1>4 DEF AttemptsShape
<1>6. TypeOK'
  BY <1>3 DEF TypeOK, RowsType, ThreadRow, TaskRow, Attempt
<1> QED
  BY <1>1, <1>5, <1>6 DEF IInv

-----------------------------------------------------------------------------
(* How the rows move.                                                       *)

\* What holding the claim says of the rows and the log.
LEMMA HolderFacts ==
    ASSUME IInv, NEW p \in Slots, HoldsClaim(p)
    PROVE  /\ RowsType /\ HolderRow(loop[p]) /\ MemoryRow(loop[p])
           /\ loop[p] \in Attempt
           /\ task.status = "claimed" /\ thread.status = "running"
           /\ Of("submission") = {}
           /\ log # <<>> => log[Len(log)].kind # "suspension"
           /\ LogInv /\ LogShape /\ ResultsRefer /\ StallShape /\ log \in Seq(Record)
BY TypeParts DEF IInv, AttemptsShape, HoldsClaim, RowsShape, LogInv, LogShape

\* The attempt ends its thread, with its submission or without a record.
LEMMA EndStep ==
    ASSUME IInv, NEW p \in Slots,
           NEW s \in ThreadTerminal, NEW t \in {"completed", "dead_letter"},
           EndThread(p, s, t),
           \/ log' = log
           \/ /\ t = "completed"
              /\ \E r : Fits(r) /\ log' = Append(log, r)
    PROVE  IInv'
<1>1. HoldsClaim(p)
  BY DEF EndThread
<1>2. RowsType /\ task.status = "claimed" /\ Of("submission") = {}
  BY <1>1, HolderFacts
<1>3. task' = [status |-> t, token |-> None, retry |-> task.retry]
  BY DEF EndThread, Release
<1>4. thread' \in ThreadRow /\ thread'.status = s
  BY <1>2 DEF EndThread, RowsType, ThreadRow
<1>5. task' \in TaskRow /\ task'.status = t /\ task'.token = None
  BY <1>2, <1>3 DEF RowsType, TaskRow
<1>6. s \notin {"running", "suspended"}
  BY DEF ThreadTerminal
<1>7. RowsType'
  BY <1>4, <1>5, <1>6 DEF RowsType
<1>8. Of("submission")' # {} => t = "completed"
  BY <1>2, SameReading
<1>9. RowsShape'
  BY <1>4, <1>5, <1>6, <1>8 DEF RowsShape
<1>10. task'.status # "claimed"
  BY <1>5
<1>11. \E q \in Slots : loop' = [loop EXCEPT ![q] = Idle]
  BY DEF EndThread
<1> QED
  BY <1>2, <1>7, <1>9, <1>10, <1>11, LeaveStep

\* The attempt suspends its thread, or ends it for an intent.
LEMMA SuspendStep ==
    ASSUME IInv, NEW p \in Slots, NEW r, Fits(r), r.kind = "suspension",
           Suspend(p, r)
    PROVE  IInv'
<1>1. CASE thread.intent /\ Cancel(p)
  BY <1>1, EndStep DEF Cancel, ThreadTerminal
<1>2. CASE /\ log' = Append(log, r)
           /\ thread' = [thread EXCEPT !.status = "suspended"]
           /\ Release("blocked", task.retry)
           /\ loop' = [loop EXCEPT ![p] = Idle]
  <2>1. HoldsClaim(p)
    BY DEF Suspend
  <2>2. RowsType /\ task.status = "claimed" /\ Of("submission") = {}
        /\ log \in Seq(Record)
    BY <2>1, HolderFacts
  <2>3. thread' \in ThreadRow /\ thread'.status = "suspended"
    BY <1>2, <2>2 DEF RowsType, ThreadRow
  <2>4. task' \in TaskRow /\ task'.status = "blocked" /\ task'.token = None
    BY <1>2, <2>2 DEF RowsType, TaskRow, Release
  <2>5. RowsType'
    BY <2>3, <2>4 DEF RowsType
  <2>6. r \in Record
    BY DEF Fits
  <2>7. /\ log' # <<>> /\ log'[Len(log')].kind = "suspension"
        /\ Of("submission")' = {}
    BY <1>2, <2>2, <2>6, AppendFacts
  <2>8. RowsShape'
    BY <2>3, <2>4, <2>7 DEF RowsShape
  <2>9. task'.status # "claimed"
    BY <2>4
  <2>10. \E x : Fits(x) /\ Of("submission") = {} /\ log' = Append(log, x)
    BY <1>2, <2>2
  <2>11. \E q \in Slots : loop' = [loop EXCEPT ![q] = Idle]
    BY <1>2
  <2> QED
    BY <2>5, <2>8, <2>9, <2>10, <2>11, LeaveStep
<1> QED
  BY <1>1, <1>2 DEF Suspend

\* A failure is charged to a row within its budgets.
LEMMA ChargeStep ==
    ASSUME IInv, task.status = "claimed", NEW n \in 0..MaxRetries, Charge(n), log' = log,
           \/ loop' = loop
           \/ \E p \in Slots : loop' = [loop EXCEPT ![p] = Idle]
    PROVE  IInv'
<1>1. RowsType
  BY TypeParts DEF IInv
<1>2. thread.status = "running" /\ Of("submission") = {}
  BY DEF IInv, RowsShape
<1>3. Of("submission")' = {}
  BY <1>2, SameReading
<1> DEFINE c == thread.recovery
           d == decide_disposition("retryable", n, c)
<1>4. c \in 0..RecoveryCap /\ RecoveryCap \in Nat /\ MaxRetries \in Nat
  BY <1>1, BudgetAssumption DEF RowsType, ThreadRow
<1>5. d = IF n + 1 <= MaxRetries THEN Disposition("requeue", n + 1, c)
          ELSE IF c + 1 <= RecoveryCap THEN Disposition("recovery_cycle", AfterProgress, c + 1)
          ELSE Disposition("exhaust", n, c)
  BY DEF decide_disposition
<1>6. d.kind \in {"requeue", "recovery_cycle"} =>
         d.retry \in 0..MaxRetries /\ d.recovery \in 0..RecoveryCap
  <2>1. CASE n + 1 <= MaxRetries
    <3>1. d = [kind |-> "requeue", retry |-> n + 1, recovery |-> c]
      BY <1>5, <2>1 DEF Disposition
    <3> QED
      BY <1>4, <2>1, <3>1
  <2>2. CASE ~(n + 1 <= MaxRetries) /\ c + 1 <= RecoveryCap
    <3>1. d = [kind |-> "recovery_cycle", retry |-> 0, recovery |-> c + 1]
      BY <1>5, <2>2 DEF Disposition, AfterProgress
    <3> QED
      BY <1>4, <2>2, <3>1
  <2>3. CASE ~(n + 1 <= MaxRetries) /\ ~(c + 1 <= RecoveryCap)
    <3>1. d = [kind |-> "exhaust", retry |-> n, recovery |-> c]
      BY <1>5, <2>3 DEF Disposition
    <3> QED
      BY <3>1
  <2> QED
    BY <2>1, <2>2, <2>3
<1> HIDE DEF d
<1>7. CASE /\ d.kind \in {"requeue", "recovery_cycle"}
           /\ Release("queued", d.retry)
           /\ thread' = [thread EXCEPT !.recovery = d.recovery]
  <2>1. /\ thread' \in ThreadRow /\ thread'.status = "running"
        /\ task' \in TaskRow /\ task'.status = "queued" /\ task'.token = None
    BY <1>1, <1>2, <1>6, <1>7 DEF RowsType, ThreadRow, TaskRow, Release
  <2>2. RowsType'
    BY <2>1 DEF RowsType
  <2>3. RowsShape'
    BY <1>2, <1>3, <2>1 DEF IInv, RowsShape
  <2> QED
    BY <2>1, <2>2, <2>3, LeaveStep
<1>8. CASE /\ Release("dead_letter", n)
           /\ thread' = [thread EXCEPT !.status = "dead_letter"]
  <2>1. /\ thread' \in ThreadRow /\ thread'.status = "dead_letter"
        /\ task' \in TaskRow /\ task'.status = "dead_letter" /\ task'.token = None
    BY <1>1, <1>8 DEF RowsType, ThreadRow, TaskRow, Release, ThreadTerminal
  <2>2. RowsType'
    BY <2>1 DEF RowsType
  <2>3. RowsShape'
    BY <1>3, <2>1 DEF RowsShape
  <2> QED
    BY <2>1, <2>2, <2>3, LeaveStep
<1> QED
  BY <1>7, <1>8 DEF Charge, d

-----------------------------------------------------------------------------
(* The steps of an attempt.                                                 *)

LEMMA ReadingEq ==
    ASSUME NEW x \in Reading, NEW y \in Reading,
           x.turns = y.turns, x.seq = y.seq, x.tail = y.tail,
           x.resolved = y.resolved, x.carried = y.carried, x.launches = y.launches
    PROVE  x = y
BY DEF Reading

\* A row that remembers no verdict and no call remembers nothing wrong.
LEMMA BlankMemory ==
    ASSUME NEW row, row.read.resolved = 0, row.read.tail = {}
    PROVE  MemoryRow(row) /\ MemoryRow(row)'
BY DEF MemoryRow

\* The reading of an attempt at the top of the loop, if it holds the claim.
LEMMA TopReading ==
    ASSUME IInv, NEW p \in Slots, HoldsClaim(p), AtTop(p)
    PROVE  /\ log # <<>>
           /\ \/ loop[p].read = project
              \/ /\ loop[p].read = [project EXCEPT !.resolved = 0]
                 /\ log[project.resolved].verdict = "reject"
           /\ HasVerdict(p) => loop[p].read = project
           /\ loop[p].read.seq = LastTurn /\ loop[p].read.tail = project.tail
           /\ loop[p].read.turns = project.turns /\ loop[p].read.carried = project.carried
           /\ loop[p].read.launches = project.launches
<1>1. HolderRow(loop[p]) /\ LogShape
  BY HolderFacts
<1>2. project \in Reading
  BY <1>1, ReadingType
<1>3. log # <<>> /\ \/ loop[p].read = project
                    \/ /\ loop[p].read = [project EXCEPT !.resolved = 0]
                       /\ log[project.resolved].verdict = "reject"
  BY <1>1 DEF HolderRow, AtTop
<1>4. LET y == [project EXCEPT !.resolved = 0]
      IN  /\ y.resolved = 0 /\ y.seq = project.seq /\ y.tail = project.tail
          /\ y.turns = project.turns /\ y.carried = project.carried
          /\ y.launches = project.launches
  BY <1>2 DEF Reading
<1> QED
  BY <1>3, <1>4, ProjectFields DEF HasVerdict

\* The row of an attempt whatever it holds.
LEMMA RowFacts ==
    ASSUME IInv, NEW p \in Slots
    PROVE  /\ loop[p] \in Attempt /\ loop[p].read \in Reading
           /\ MemoryRow(loop[p]) /\ LogShape /\ log \in Seq(Record)
BY DEF IInv, AttemptsShape, Attempt, LogInv, LogShape

LEMMA ClaimSafe ==
    ASSUME IInv, NEW p \in Slots, Claim(p)
    PROVE  IInv'
<1> DEFINE row == [Idle EXCEPT !.pc = "entry", !.retry = task.retry]
<1>1. RowsType /\ task.status = "queued"
  BY TypeParts DEF IInv, Claim
<1>2. row \in Attempt /\ row.pc = "entry" /\ row.read = NoReading
  BY <1>1, IdleFacts DEF RowsType, TaskRow, Idle, Attempt
<1>3. loop' = [loop EXCEPT ![p] = row] /\ log' = log /\ thread' = thread
      /\ task' = [task EXCEPT !.status = "claimed", !.token = p]
  BY DEF Claim
<1> HIDE DEF row
<1>4. /\ task' \in TaskRow /\ task'.status = "claimed" /\ task'.token = p
  BY <1>1, <1>3 DEF RowsType, TaskRow
<1>5. thread.status = "running" /\ Of("submission") = {}
  BY <1>1 DEF IInv, RowsShape
<1>6. RowsType'
  BY <1>1, <1>3, <1>4, <1>5, LoopAssumption DEF RowsType
<1>7. Of("submission")' = {}
  BY <1>3, <1>5, SameReading
<1>8. RowsShape'
  BY <1>3, <1>4, <1>5, <1>7 DEF IInv, RowsShape
<1>9. LogInv'
  BY <1>3, SameLog DEF IInv
<1>10. loop' \in [Slots -> Attempt]
  BY <1>2, <1>3 DEF IInv, AttemptsShape
<1>11. ASSUME NEW q \in Slots
       PROVE  MemoryRow(loop[q])' /\ (HoldsClaim(q)' => HolderRow(loop[q])')
  <2>1. CASE q = p
    <3>1. loop'[q] = row
      BY <1>3, <2>1 DEF IInv, AttemptsShape
    <3>2. row.read.resolved = 0 /\ row.read.tail = {}
      BY <1>2 DEF NoReading
    <3> QED
      BY <1>2, <3>1, <3>2 DEF MemoryRow, HolderRow
  <2>2. CASE q # p
    <3>1. loop'[q] = loop[q] /\ ~HoldsClaim(q)'
      BY <1>3, <1>4, <2>2 DEF IInv, AttemptsShape, HoldsClaim
    <3>2. PICK x : x = loop[q]
      OBVIOUS
    <3>3. MemoryRow(x)
      BY <3>2, RowFacts
    <3>4. MemoryRow(x)'
      BY <1>3, <3>3, SameReading
    <3> QED
      BY <3>1, <3>2, <3>4 DEF MemoryRow
  <2> QED
    BY <2>1, <2>2
<1>12. AttemptsShape'
  BY <1>10, <1>11 DEF AttemptsShape
<1>13. TypeOK'
  BY <1>6, <1>10 DEF TypeOK, RowsType, ThreadRow, TaskRow, Attempt
<1> QED
  BY <1>8, <1>9, <1>12, <1>13 DEF IInv

\* An empty log reads as NoReading.
LEMMA EmptyReading ==
    ASSUME log = <<>>
    PROVE  project = NoReading
<1>1. \A k : Of(k) = {}
  BY EmptySeq DEF Of
<1>2. Max({0}) = 0
  <2>1. {0} \subseteq Nat /\ 0 \in {0} /\ \A y \in {0} : y <= 0
    OBVIOUS
  <2> QED
    BY <2>1, MaxUnique
<1>3. LastTurn = 0
  BY <1>1, <1>2 DEF LastTurn
<1>4. OpenVerdicts = {}
  BY <1>1 DEF OpenVerdicts, ResultsOf
<1>5. Cardinality({}) = 0
  BY FS_EmptySet
<1>6. {i \in Of("suspension") : log[i].why = "child"} = {}
  BY <1>1
<1>7. ~(Len(log) > 0)
  BY EmptySeq
<1> QED
  BY <1>1, <1>2, <1>3, <1>4, <1>5, <1>6, <1>7 DEF project, NoReading

LEMMA EnterSafe ==
    ASSUME IInv, NEW p \in Slots, Enter(p)
    PROVE  IInv'
<1>1. /\ loop[p] \in Attempt /\ MemoryRow(loop[p]) /\ LogShape /\ log \in Seq(Record)
      /\ ResultsRefer
  BY RowFacts DEF IInv, LogInv
<1>2. project \in Reading /\ NoReading \in Reading
  BY <1>1, ReadingType
<1>3. CASE Of("opening") # {} /\ Continue(p, "top", project) /\ UNCHANGED log
  <2>0. PICK row : row = [loop[p] EXCEPT !.pc = "top", !.read = project, !.call = 0]
    OBVIOUS
  <2>1. row \in Attempt /\ row.pc = "top" /\ row.read = project
    BY <1>1, <1>2, <2>0 DEF Attempt
  <2>2. loop' = [loop EXCEPT ![p] = row] /\ UNCHANGED <<log, thread, task>>
    BY <1>3, <2>0 DEF Enter, Continue
  <2>3. MemoryRow(row)
    BY <1>1, <2>1, FreshMemory DEF MemoryRow
  <2>4. log # <<>>
    BY <1>3, EmptySeq DEF Of
  <2>5. HolderRow(row)
    BY <2>1, <2>4 DEF HolderRow
  <2> QED
    BY <2>1, <2>2, <2>3, <2>5, LocalStep
<1>4. CASE /\ Of("opening") = {} /\ HoldsClaim(p)
           /\ log' = Append(log, Opening) /\ Continue(p, "top", NoReading)
  <2> DEFINE r == Opening
  <2>0. PICK row : row = [loop[p] EXCEPT !.pc = "top", !.read = NoReading, !.call = 0]
    OBVIOUS
  <2>1. row \in Attempt /\ row.pc = "top" /\ row.read = NoReading
    BY <1>1, <1>2, <2>0 DEF Attempt
  <2>2. /\ loop' = [loop EXCEPT ![p] = row] /\ thread' = thread /\ task' = task
        /\ log' = Append(log, r)
    BY <1>4, <2>0 DEF Enter, Continue
  <2>3. r \in Record /\ r.kind = "opening"
    BY RecordsMade
  <2> HIDE DEF r
  <2>4. log = <<>>
    <3>1. log # <<>> => 1 \in Of("opening")
      BY <1>1, LogFacts DEF LogShape, Of
    <3> QED
      BY <1>4, <3>1
  <2>5. ~Stalled
    BY <2>4, EmptySeq DEF Stalled, BudgetStops, Of
  <2>6. Fits(r)
    BY <2>3, <2>4, <2>5 DEF Fits
  <2>7. project = NoReading
    BY <2>4, EmptyReading
  <2>8. LogShape' /\ log' # <<>>
    BY <1>1, <2>2, <2>3, <2>4, ShapeAppend, AppendFacts
  <2>9. project' \in Reading
    BY <2>8, ReadingTypeNext
  <2>10. project' = NoReading
    BY <1>1, <1>2, <2>2, <2>3, <2>7, <2>9, ProjectAppend, ReadingEq DEF NoReading
  <2>11. MemoryRow(row)'
    BY <2>1, BlankMemory DEF NoReading
  <2>12. HolderRow(row)'
    BY <2>1, <2>8, <2>10 DEF HolderRow
  <2> QED
    BY <1>4, <2>1, <2>2, <2>3, <2>6, <2>11, <2>12, CommitStep
<1> QED
  BY <1>3, <1>4 DEF Enter

\* A row's reading without its verdict remembers no more.
LEMMA ConsumedRow ==
    ASSUME IInv, NEW p \in Slots, NEW row,
           row = [loop[p] EXCEPT !.pc = "top", !.read = Consumed(p), !.call = 0]
    PROVE  /\ row \in Attempt /\ row.pc = "top" /\ row.read \in Reading
           /\ row.read = [loop[p].read EXCEPT !.resolved = 0]
           /\ row.read.resolved = 0 /\ row.read.tail = loop[p].read.tail
           /\ row.read.seq = loop[p].read.seq
           /\ MemoryRow(row)
<1>1. loop[p] \in Attempt /\ loop[p].read \in Reading /\ MemoryRow(loop[p])
  BY RowFacts
<1>2. /\ Consumed(p) \in Reading /\ Consumed(p).resolved = 0
      /\ Consumed(p).tail = loop[p].read.tail /\ Consumed(p).seq = loop[p].read.seq
  BY <1>1 DEF Consumed, Reading
<1>3. row \in Attempt /\ row.pc = "top" /\ row.read = Consumed(p)
  BY <1>1, <1>2 DEF Attempt
<1>4. MemoryRow(row)
  BY <1>1, <1>2, <1>3 DEF MemoryRow
<1> QED
  BY <1>2, <1>3, <1>4 DEF Consumed

LEMMA RejectSafe ==
    ASSUME IInv, NEW p \in Slots, RejectVerdict(p)
    PROVE  IInv'
<1>0. PICK row : row = [loop[p] EXCEPT !.pc = "top", !.read = Consumed(p), !.call = 0]
  OBVIOUS
<1>1. /\ row \in Attempt /\ row.pc = "top" /\ MemoryRow(row)
      /\ row.read = [loop[p].read EXCEPT !.resolved = 0]
  BY <1>0, ConsumedRow
<1>2. loop' = [loop EXCEPT ![p] = row] /\ UNCHANGED <<log, thread, task>>
  BY <1>0 DEF RejectVerdict, Continue
<1>3. ASSUME HoldsClaim(p) PROVE HolderRow(row)
  <2>1. log # <<>> /\ loop[p].read = project
    BY <1>3, TopReading DEF RejectVerdict
  <2>2. log[project.resolved].verdict = "reject"
    BY <2>1 DEF RejectVerdict
  <2> QED
    BY <1>1, <2>1, <2>2 DEF HolderRow
<1> QED
  BY <1>1, <1>2, <1>3, LocalStep

\* An accepted verdict lets its call stand.
LEMMA VerdictStands ==
    ASSUME LogInv, project.resolved # 0, log[project.resolved].verdict = "accept"
    PROVE  Stands(log[project.resolved].call)
<1> DEFINE v == project.resolved
<1>1. log \in Seq(Record) /\ ResultsRefer /\ ConversationWellFormed
  BY DEF LogInv, LogShape
<1>2. v \in OpenVerdicts /\ v \in Of("result") /\ v \in ResultsOf(LastTurn)
  BY <1>1, OpenFacts
<1>3. log[v].turn = LastTurn /\ (\A j \in Of("drift") : j < v)
  BY <1>2 DEF OpenVerdicts, ResultsOf
<1>4. LastTurn \in Of("assistant") /\ log[v].call \in DOMAIN log[LastTurn].calls
      /\ log[LastTurn].calls[log[v].call] = "submit"
  BY <1>1, <1>2, <1>3 DEF ResultsRefer
<1>5. LastTurn # 0
  BY <1>1, <1>4, LogFacts
<1>6. \A i \in ResultsOf(LastTurn) : log[i].call = log[v].call => i = v
  BY <1>1, <1>2, <1>4 DEF ConversationWellFormed
<1> QED
  BY <1>3, <1>4, <1>5, <1>6 DEF Stands

\* So does the lack of any verdict.
LEMMA TailStands ==
    ASSUME LogInv, NEW c \in project.tail, log[LastTurn].calls[c] = "submit"
    PROVE  Stands(c)
<1>1. LastTurn # 0 /\ c \in Unanswered(LastTurn)
  BY ProjectFields
<1> QED
  BY <1>1 DEF Stands, Unanswered

\* The loop is done with the submission in call c.
LEMMA AcceptStep ==
    ASSUME IInv, NEW p \in Slots, NEW c \in Nat, Accept(p, c), UNCHANGED <<log, thread, task>>,
           AtTop(p), HoldsClaim(p) => Stands(c)
    PROVE  IInv'
<1>0. PICK row : row = [loop[p] EXCEPT !.pc = "submitting", !.call = c]
  OBVIOUS
<1>1. loop[p] \in Attempt /\ MemoryRow(loop[p])
  BY RowFacts
<1>2. /\ row \in Attempt /\ row.pc = "submitting" /\ row.call = c
      /\ row.read = loop[p].read
  BY <1>0, <1>1 DEF Attempt
<1>3. loop' = [loop EXCEPT ![p] = row]
  BY <1>0 DEF Accept
<1>4. MemoryRow(row)
  BY <1>1, <1>2 DEF MemoryRow
<1>5. HoldsClaim(p) => HolderRow(row)
  BY <1>2, TopReading DEF HolderRow
<1> QED
  BY <1>2, <1>3, <1>4, <1>5, LocalStep

LEMMA AcceptSafe ==
    ASSUME IInv, NEW p \in Slots, AcceptVerdict(p)
    PROVE  IInv'
<1> DEFINE v == loop[p].read.resolved
<1>1. MemoryRow(loop[p]) /\ log \in Seq(Record) /\ LogInv
  BY RowFacts DEF IInv
<1>2. AtTop(p) /\ HasVerdict(p) /\ log[v].verdict = "accept" /\ Accept(p, log[v].call)
      /\ UNCHANGED <<log, thread, task>>
  BY DEF AcceptVerdict
<1>3. v \in Of("result")
  BY <1>1, <1>2 DEF MemoryRow, HasVerdict
<1>4. log[v].call \in Nat
  BY <1>1, <1>3, LogFacts, RecordFacts
<1>5. HoldsClaim(p) => Stands(log[v].call)
  BY <1>1, <1>2, TopReading, VerdictStands DEF HasVerdict
<1>6. PICK c \in Nat : c = log[v].call
  BY <1>4
<1> QED
  BY <1>2, <1>5, <1>6, AcceptStep

\* The call taken is one of the tail.
LEMMA CallFacts ==
    ASSUME IInv, NEW p \in Slots, HasTail(p)
    PROVE  /\ Min(loop[p].read.tail) \in loop[p].read.tail
           /\ Min(loop[p].read.tail) \in Nat
<1>1. loop[p].read.tail \subseteq Nat
  BY RowFacts DEF Reading
<1> QED
  BY <1>1, MinOf DEF HasTail

LEMMA SubmitSafe ==
    ASSUME IInv, NEW p \in Slots, SubmitUnverified(p)
    PROVE  IInv'
<1>1. /\ AtTop(p) /\ HasTail(p) /\ UNCHANGED <<log, thread, task>>
      /\ Accept(p, Min(loop[p].read.tail)) /\ LogInv
      /\ log[loop[p].read.seq].calls[Min(loop[p].read.tail)] = "submit"
  BY DEF SubmitUnverified, AtCall, IInv
<1>2. PICK c \in Nat : c = Min(loop[p].read.tail) /\ c \in loop[p].read.tail
  BY <1>1, CallFacts
<1>3. ASSUME HoldsClaim(p) PROVE Stands(c)
  <2>1. loop[p].read.seq = LastTurn /\ c \in project.tail
    BY <1>1, <1>2, <1>3, TopReading
  <2> QED
    BY <1>1, <1>2, <2>1, TailStands
<1> QED
  BY <1>1, <1>2, <1>3, AcceptStep

LEMMA LeaseSafe ==
    ASSUME IInv, NEW p \in Slots, LeaseLost(p) \/ Crash(p)
    PROVE  IInv'
<1>1. loop' = [loop EXCEPT ![p] = Idle] /\ UNCHANGED <<log, thread, task>>
  BY DEF LeaseLost, Crash
<1>2. HolderRow(Idle)
  BY IdleFacts DEF HolderRow
<1> QED
  BY <1>1, <1>2, IdleFacts, LocalStep

\* Out of credit, the log ends in a wait or a wake; otherwise it carries none.
LEMMA CarriedFacts ==
    ASSUME IInv, ~Stalled
    PROVE  project.carried = 0
<1>1. ~(Len(log) > 0 /\ log[Len(log)].kind = "wake")
  <2>1. log # <<>> <=> Len(log) # 0
    BY LogFacts, RowFacts DEF IInv, LogInv, LogShape
  <2> QED
    BY <2>1 DEF IInv, LogInv, StallShape
<1> QED
  BY <1>1, ProjectFields

LEMMA DriftSafe ==
    ASSUME IInv, NEW p \in Slots, DriftVerdict(p)
    PROVE  IInv'
<1> DEFINE r == Drift
<1>0. PICK row : row = [loop[p] EXCEPT !.pc = "top", !.read = Consumed(p), !.call = 0]
  OBVIOUS
<1>1. /\ row \in Attempt /\ row.pc = "top" /\ MemoryRow(row) /\ row.read \in Reading
      /\ row.read = [loop[p].read EXCEPT !.resolved = 0]
  BY <1>0, ConsumedRow
<1>2. /\ HoldsClaim(p) /\ AtTop(p) /\ HasVerdict(p)
      /\ log' = Append(log, r) /\ thread' = thread
      /\ task' = [task EXCEPT !.retry = AfterProgress]
      /\ loop' = [loop EXCEPT ![p] = row]
      /\ log[loop[p].read.resolved].verdict = "accept"
  BY <1>0 DEF DriftVerdict, Append1, Continue
<1>3. r \in Record /\ r.kind = "drift"
  BY RecordsMade
<1> HIDE DEF r
<1>4. /\ log # <<>> /\ loop[p].read = project
      /\ LogShape /\ ResultsRefer /\ StallShape /\ log \in Seq(Record)
  BY <1>2, TopReading, HolderFacts
<1>5. ~Stalled
  BY <1>2, <1>4 DEF StallShape, HasVerdict
<1>6. Fits(r)
  BY <1>3, <1>4, <1>5 DEF Fits
<1>7. LogShape' /\ log' # <<>>
  BY <1>2, <1>3, <1>4, ShapeAppend, AppendFacts
<1>8. project \in Reading /\ project' \in Reading
  BY <1>4, <1>7, ReadingType, ReadingTypeNext
<1>9. project.carried = 0
  BY <1>5, CarriedFacts
<1>10. /\ row.read.turns = project.turns /\ row.read.seq = project.seq
       /\ row.read.tail = project.tail /\ row.read.resolved = 0
       /\ row.read.carried = project.carried /\ row.read.launches = project.launches
  BY <1>1, <1>4, <1>8 DEF Reading
<1>11. /\ project'.turns = project.turns /\ project'.seq = project.seq
       /\ project'.tail = project.tail /\ project'.resolved = 0
       /\ project'.carried = 0 /\ project'.launches = project.launches
  BY <1>2, <1>3, <1>4, ProjectAppend
<1>12. row.read = project'
  BY <1>1, <1>8, <1>9, <1>10, <1>11, ReadingEq
<1>13. HolderRow(row)'
  BY <1>1, <1>7, <1>12 DEF HolderRow
<1>14. MemoryRow(row)'
  BY <1>1, <1>2, <1>3, <1>4, MemoryAppend
<1> QED
  BY <1>1, <1>2, <1>3, <1>6, <1>13, <1>14, CommitStep

\* A result for the call the tail starts with.
LEMMA ResultSafe ==
    ASSUME IInv, NEW p \in Slots, AtTop(p), HasTail(p), CommitResult(p)
    PROVE  IInv'
<1> DEFINE rd == loop[p].read
<1>0. PICK c : c = Min(rd.tail)
  OBVIOUS
<1>1. PICK seq : seq = rd.seq
  OBVIOUS
<1>2. PICK row : row = [loop[p] EXCEPT !.pc = "top",
                           !.read = [rd EXCEPT !.tail = @ \ {c}], !.call = 0]
  OBVIOUS
<1>3. c \in rd.tail /\ c \in Nat
  BY <1>0, CallFacts
<1>4. /\ loop[p] \in Attempt /\ rd \in Reading /\ MemoryRow(loop[p])
  BY RowFacts
<1>5. /\ HoldsClaim(p) /\ log' = Append(log, Result(seq, c, "none"))
      /\ thread' = thread /\ task' = [task EXCEPT !.retry = AfterProgress]
      /\ loop' = [loop EXCEPT ![p] = row]
  BY <1>0, <1>1, <1>2 DEF CommitResult, Append1, Continue
<1>6. PICK r : r = Result(seq, c, "none")
  OBVIOUS
<1>7. seq \in Nat
  BY <1>1, <1>4 DEF Reading
<1>8. r \in Record /\ r.kind = "result" /\ r.turn = seq /\ r.call = c /\ r.verdict = "none"
  BY <1>3, <1>6, <1>7, RecordsMade
<1>9. /\ log # <<>>
      /\ \/ rd = project
         \/ /\ rd = [project EXCEPT !.resolved = 0]
            /\ log[project.resolved].verdict = "reject"
      /\ seq = LastTurn /\ rd.tail = project.tail
  BY <1>1, <1>5, TopReading
<1>10. LogShape /\ ResultsRefer /\ StallShape /\ log \in Seq(Record)
  BY <1>5, HolderFacts
<1>11. ~Stalled
  BY <1>3, <1>9, <1>10 DEF StallShape
<1>12. Fits(r)
  BY <1>3, <1>8, <1>9 DEF Fits
<1>13. LogShape' /\ log' # <<>>
  BY <1>5, <1>6, <1>8, <1>9, <1>10, ShapeAppend, AppendFacts
<1>14. project \in Reading /\ project' \in Reading
  BY <1>10, <1>13, ReadingType, ReadingTypeNext
<1>15. project.carried = 0
  BY <1>11, CarriedFacts
<1>16. /\ project'.turns = project.turns /\ project'.seq = project.seq
       /\ project'.tail = project.tail \ {c} /\ project'.resolved = project.resolved
       /\ project'.carried = 0 /\ project'.launches = project.launches
  BY <1>5, <1>6, <1>8, <1>9, <1>10, ProjectAppend
<1>17. [rd EXCEPT !.tail = @ \ {c}] \in Reading
  BY <1>4 DEF Reading
<1>18. /\ row \in Attempt /\ row.pc = "top" /\ row.read \in Reading
       /\ row.read = [rd EXCEPT !.tail = @ \ {c}]
  BY <1>2, <1>4, <1>17 DEF Attempt
<1>19. /\ row.read.turns = rd.turns /\ row.read.seq = rd.seq
       /\ row.read.tail = rd.tail \ {c} /\ row.read.resolved = rd.resolved
       /\ row.read.carried = rd.carried /\ row.read.launches = rd.launches
  BY <1>4, <1>18 DEF Reading
<1>20. MemoryRow(row)'
  <2>1. MemoryRow(row)
    BY <1>4, <1>19 DEF MemoryRow
  <2> QED
    BY <1>5, <1>6, <1>8, <1>10, <2>1, MemoryAppend
<1>21. HolderRow(row)'
  <2>1. CASE rd = project
    <3>0. /\ row.read.turns = project'.turns /\ row.read.seq = project'.seq
          /\ row.read.tail = project'.tail /\ row.read.resolved = project'.resolved
          /\ row.read.carried = project'.carried /\ row.read.launches = project'.launches
      BY <1>15, <1>16, <1>19, <2>1
    <3>1. row.read = project'
      BY <1>14, <1>18, <3>0, ReadingEq
    <3> QED
      BY <1>13, <1>18, <3>1 DEF HolderRow
  <2>2. CASE /\ rd = [project EXCEPT !.resolved = 0]
             /\ log[project.resolved].verdict = "reject"
    <3>1. /\ rd.turns = project.turns /\ rd.seq = project.seq /\ rd.tail = project.tail
          /\ rd.resolved = 0 /\ rd.carried = project.carried /\ rd.launches = project.launches
      BY <1>14, <2>2 DEF Reading
    <3>2. PICK y : y = [project' EXCEPT !.resolved = 0]
      OBVIOUS
    <3>3. /\ y \in Reading
          /\ y.turns = project'.turns /\ y.seq = project'.seq /\ y.tail = project'.tail
          /\ y.resolved = 0 /\ y.carried = project'.carried /\ y.launches = project'.launches
      BY <1>14, <3>2 DEF Reading
    <3>0. /\ row.read.turns = y.turns /\ row.read.seq = y.seq
          /\ row.read.tail = y.tail /\ row.read.resolved = y.resolved
          /\ row.read.carried = y.carried /\ row.read.launches = y.launches
      BY <1>15, <1>16, <1>19, <3>1, <3>3
    <3>4. row.read = y
      BY <1>18, <3>0, <3>3, ReadingEq
    <3>5. CASE project.resolved = 0
      <4>1. row.read = project'
        BY <1>14, <1>16, <3>3, <3>4, <3>5, ReadingEq
      <4> QED
        BY <1>13, <1>18, <4>1 DEF HolderRow
    <3>6. CASE project.resolved # 0
      <4>1. log'[project'.resolved] = log[project.resolved]
        BY <1>5, <1>6, <1>8, <1>10, <1>16, <3>6, OpenFacts, AppendFacts
      <4> QED
        BY <1>13, <1>18, <2>2, <3>2, <3>4, <4>1 DEF HolderRow
    <3> QED
      BY <3>5, <3>6
  <2> QED
    BY <1>9, <2>1, <2>2
<1>22. r.kind \notin {"suspension", "submission"} /\ log' = Append(log, r)
  BY <1>5, <1>6, <1>8
<1> QED
  BY <1>5, <1>12, <1>18, <1>20, <1>21, <1>22, CommitStep

\* At the boundary the holder knows that every call is answered.
LEMMA BoundaryFacts ==
    ASSUME IInv, NEW p \in Slots, HoldsClaim(p), AtBoundary(p)
    PROVE  /\ log # <<>> /\ project.tail = {}
           /\ project.resolved # 0 => log[project.resolved].verdict = "reject"
           /\ loop[p].read.turns = project.turns
           /\ loop[p].read.carried = project.carried
           /\ [loop[p].read EXCEPT !.carried = 0]
                 = [project EXCEPT !.carried = 0, !.resolved = 0]
<1>1. AtTop(p) /\ loop[p].read.resolved = 0 /\ loop[p].read.tail = {}
  BY DEF AtBoundary, HasVerdict, HasTail
<1>2. project \in Reading /\ loop[p].read \in Reading
  BY HolderFacts, ReadingType, RowFacts
<1>3. /\ log # <<>> /\ loop[p].read.tail = project.tail
      /\ loop[p].read.turns = project.turns /\ loop[p].read.carried = project.carried
      /\ \/ loop[p].read = project
         \/ /\ loop[p].read = [project EXCEPT !.resolved = 0]
            /\ log[project.resolved].verdict = "reject"
  BY <1>1, TopReading
<1>4. project.resolved # 0 => log[project.resolved].verdict = "reject"
  BY <1>1, <1>3
<1>5. [loop[p].read EXCEPT !.carried = 0] = [project EXCEPT !.carried = 0, !.resolved = 0]
  BY <1>1, <1>2, <1>3 DEF Reading
<1> QED
  BY <1>1, <1>3, <1>4, <1>5

LEMMA AdmitSafe ==
    ASSUME IInv, NEW p \in Slots, Admit(p)
    PROVE  IInv'
<1>0. PICK row : row = [loop[p] EXCEPT !.pc = "calling",
                           !.read = [loop[p].read EXCEPT !.carried = 0], !.call = 0]
  OBVIOUS
<1>1. loop[p] \in Attempt /\ loop[p].read \in Reading /\ MemoryRow(loop[p])
  BY RowFacts
<1>2. [loop[p].read EXCEPT !.carried = 0] \in Reading
  BY <1>1 DEF Reading
<1>3. /\ row \in Attempt /\ row.pc = "calling"
      /\ row.read = [loop[p].read EXCEPT !.carried = 0]
  BY <1>0, <1>1, <1>2 DEF Attempt
<1>4. /\ row.read.resolved = loop[p].read.resolved /\ row.read.tail = loop[p].read.tail
      /\ row.read.seq = loop[p].read.seq
  BY <1>1, <1>3 DEF Reading
<1>5. MemoryRow(row)
  BY <1>1, <1>4 DEF MemoryRow
<1>6. /\ loop' = [loop EXCEPT ![p] = row] /\ UNCHANGED <<log, thread, task>>
      /\ AtBoundary(p) /\ loop[p].read.turns < MaxTurns
  BY <1>0 DEF Admit, Continue, WithinCap
<1>7. HoldsClaim(p) => HolderRow(row)
  BY <1>3, <1>6, BoundaryFacts DEF HolderRow
<1> QED
  BY <1>3, <1>5, <1>6, <1>7, LocalStep

LEMMA TurnSafe ==
    ASSUME IInv, NEW p \in Slots, NEW calls \in Batches, CommitTurn(p, calls)
    PROVE  IInv'
<1> DEFINE rd == loop[p].read
           r == Assistant(calls)
<1>0. PICK row : row = [loop[p] EXCEPT !.pc = "top",
                           !.read = [rd EXCEPT !.turns = @ + 1, !.seq = Len(log) + 1,
                                               !.tail = DOMAIN calls], !.call = 0]
  OBVIOUS
<1>1. loop[p] \in Attempt /\ rd \in Reading
  BY RowFacts
<1>2. /\ HoldsClaim(p) /\ loop[p].pc = "calling" /\ log' = Append(log, Assistant(calls))
      /\ thread' = thread /\ task' = [task EXCEPT !.retry = AfterProgress]
      /\ loop' = [loop EXCEPT ![p] = row]
  BY <1>0 DEF CommitTurn, Append1, Continue
<1>3. LogShape /\ ResultsRefer /\ log \in Seq(Record) /\ HolderRow(loop[p])
  BY <1>2, HolderFacts
<1>4. r \in Record /\ r.kind = "assistant" /\ r.calls = calls /\ log' = Append(log, r)
  BY <1>2, RecordsMade
<1>5. /\ log # <<>> /\ rd = [project EXCEPT !.carried = 0, !.resolved = 0]
      /\ project.tail = {} /\ project.turns < MaxTurns
  BY <1>2, <1>3 DEF HolderRow
<1>6. /\ project'.turns = project.turns + 1 /\ project'.seq = Len(log) + 1
      /\ project'.tail = DOMAIN calls /\ project'.carried = 0 /\ project'.resolved = 0
      /\ project'.launches = project.launches
  BY <1>2, <1>3, ProjectTurn
<1> HIDE DEF r
<1>7. Fits(r)
  BY <1>4, <1>5 DEF Fits
<1>8. LogShape' /\ log' # <<>> /\ Len(log) \in Nat
  BY <1>3, <1>4, <1>5, ShapeAppend, AppendFacts
<1>9. project \in Reading /\ project' \in Reading
  BY <1>3, <1>8, ReadingType, ReadingTypeNext
<1>10. /\ rd.turns = project.turns /\ rd.resolved = 0 /\ rd.carried = 0
       /\ rd.launches = project.launches
  BY <1>5, <1>9 DEF Reading
<1>11. [rd EXCEPT !.turns = @ + 1, !.seq = Len(log) + 1, !.tail = DOMAIN calls] \in Reading
  <2>1. DOMAIN calls \in SUBSET Nat
    BY BatchFacts
  <2>2. rd.turns + 1 \in Nat /\ Len(log) + 1 \in Nat
    BY <1>1, <1>8 DEF Reading
  <2> QED
    BY <1>1, <2>1, <2>2 DEF Reading
<1>12. /\ row \in Attempt /\ row.pc = "top" /\ row.read \in Reading
       /\ row.read = [rd EXCEPT !.turns = @ + 1, !.seq = Len(log) + 1, !.tail = DOMAIN calls]
  BY <1>0, <1>1, <1>11 DEF Attempt
<1>13. /\ row.read.turns = rd.turns + 1 /\ row.read.seq = Len(log) + 1
       /\ row.read.tail = DOMAIN calls /\ row.read.resolved = rd.resolved
       /\ row.read.carried = rd.carried /\ row.read.launches = rd.launches
  BY <1>1, <1>12 DEF Reading
<1>14. row.read = project'
  <2>1. /\ row.read.turns = project'.turns /\ row.read.seq = project'.seq
        /\ row.read.tail = project'.tail /\ row.read.resolved = project'.resolved
        /\ row.read.carried = project'.carried /\ row.read.launches = project'.launches
    BY <1>6, <1>10, <1>13
  <2> QED
    BY <1>9, <1>12, <2>1, ReadingEq
<1>15. HolderRow(row)'
  BY <1>8, <1>12, <1>14 DEF HolderRow
<1>16. MemoryRow(row)'
  <2>1. Len(log) + 1 \in Of("assistant")' /\ log'[Len(log) + 1] = r
    BY <1>3, <1>4, AppendFacts
  <2>2. row.read.resolved = 0
    BY <1>10, <1>13
  <2> QED
    BY <1>4, <1>13, <2>1, <2>2 DEF MemoryRow
<1> QED
  BY <1>2, <1>4, <1>7, <1>12, <1>15, <1>16, CommitStep

LEMMA LaunchSafe ==
    ASSUME IInv, NEW p \in Slots, LaunchVerifier(p)
    PROVE  IInv'
<1>1. PICK r : r = Suspension("child", 0)
  OBVIOUS
<1>2. r \in Record /\ r.kind = "suspension" /\ r.why = "child"
  BY <1>1, RecordsMade
<1>3. /\ HoldsClaim(p) /\ AtTop(p) /\ HasTail(p) /\ Suspend(p, r)
      /\ loop[p].read.launches < MaxLaunches
  BY <1>1 DEF LaunchVerifier, AtCall, Suspend
<1>4. Fits(r)
  BY <1>2, <1>3, TopReading DEF Fits, HasTail
<1> QED
  BY <1>2, <1>3, <1>4, SuspendStep

LEMMA EndsSafe ==
    ASSUME IInv, NEW p \in Slots, Cancelled(p) \/ CapOrDeadline(p)
    PROVE  IInv'
BY EndStep DEF Cancelled, CapOrDeadline, Cancel, FailForGood, ThreadTerminal

LEMMA ExhaustSafe ==
    ASSUME IInv, NEW p \in Slots, Exhaust(p)
    PROVE  IInv'
<1> DEFINE n == loop[p].read.carried
<1>1. CASE FailForGood(p)
  BY <1>1, EndStep DEF FailForGood, ThreadTerminal
<1>2. CASE (n = 0 \/ n < RecheckBound) /\ Suspend(p, Suspension("budget", n))
  <2>1. PICK r : r = Suspension("budget", n)
    OBVIOUS
  <2>2. n \in Nat
    BY RowFacts DEF Reading
  <2>3. r \in Record /\ r.kind = "suspension" /\ r.why = "budget" /\ r.count = n
    BY <2>1, <2>2, RecordsMade
  <2>4. HoldsClaim(p) /\ AtBoundary(p)
    BY <1>2 DEF Suspend, Exhaust, WithinCap
  <2>5. /\ log # <<>> /\ project.tail = {} /\ n = project.carried
        /\ project.resolved # 0 => log[project.resolved].verdict = "reject"
    BY <2>4, BoundaryFacts
  <2>6. ASSUME NEW i \in BudgetStops, LastTurn < i
        PROVE  log[i].count < n
    <3>1. /\ Stalled /\ Of("submission") = {} /\ log \in Seq(Record) /\ StallShape
          /\ log[Len(log)].kind # "suspension"
      BY <2>4, <2>5, <2>6, HolderFacts DEF Stalled
    <3>2. /\ log[Len(log)].kind = "wake" /\ log[i].count <= log[Len(log)].count
      <4>1. Len(log) \notin BudgetStops
        BY <3>1 DEF BudgetStops, Of
      <4> QED
        BY <2>6, <3>1, <4>1 DEF StallShape
    <3>3. Len(log) \in 1..Len(log) /\ Len(log) > 0
      BY <2>5, <3>1, LogFacts
    <3>4. n = log[Len(log)].count + 1
      BY <2>5, <3>2, <3>3, ProjectFields
    <3>5. log[Len(log)].count \in Nat
      BY <3>1, <3>2, <3>3, LogFacts, RecordFacts
    <3>6. log[i].count \in Nat
      BY <2>6, <3>1, LogFacts, RecordFacts DEF BudgetStops
    <3> QED
      BY <3>2, <3>4, <3>5, <3>6
  <2>7. Fits(r)
    BY <1>2, <2>3, <2>5, <2>6 DEF Fits
  <2> QED
    BY <1>2, <2>1, <2>3, <2>7, SuspendStep
<1> QED
  BY <1>1, <1>2 DEF Exhaust

LEMMA TerminalSafe ==
    ASSUME IInv, NEW p \in Slots, CommitTerminal(p)
    PROVE  IInv'
<1>1. PICK r : r = Submission(loop[p].read.seq, loop[p].call)
  OBVIOUS
<1>2. loop[p] \in Attempt /\ loop[p].read.seq \in Nat /\ loop[p].call \in Nat
  BY RowFacts DEF Reading, Attempt
<1>3. /\ r \in Record /\ r.kind = "submission"
      /\ r.turn = loop[p].read.seq /\ r.call = loop[p].call
  BY <1>1, <1>2, RecordsMade
<1>4. HoldsClaim(p) /\ loop[p].pc = "submitting"
  BY DEF CommitTerminal, EndThread
<1>5. log # <<>> /\ loop[p].read.seq = LastTurn /\ Stands(loop[p].call)
  BY <1>4, HolderFacts DEF HolderRow
<1>6. PICK c : c = loop[p].call
  OBVIOUS
<1>7. Fits(r)
  BY <1>3, <1>5 DEF Fits, Stands
<1>8. log' = Append(log, r) /\ EndThread(p, "completed", "completed")
  BY <1>1 DEF CommitTerminal
<1> QED
  BY <1>7, <1>8, EndStep DEF ThreadTerminal

LEMMA FailSafe ==
    ASSUME IInv, NEW p \in Slots, Fail(p)
    PROVE  IInv'
<1>1. PICK n \in 0..MaxRetries : n = loop[p].retry
  BY RowFacts DEF Attempt
<1>2. /\ task.status = "claimed" /\ Charge(n) /\ log' = log
      /\ loop' = [loop EXCEPT ![p] = Idle]
  BY <1>1 DEF Fail, HoldsClaim
<1> QED
  BY <1>2, ChargeStep

LEMMA ReclaimSafe ==
    ASSUME IInv, Reclaim
    PROVE  IInv'
<1>1. PICK n \in 0..MaxRetries : n = task.retry
  BY TypeParts DEF IInv, RowsType, TaskRow
<1>2. task.status = "claimed" /\ Charge(n) /\ log' = log /\ loop' = loop
  BY <1>1 DEF Reclaim
<1> QED
  BY <1>2, ChargeStep

-----------------------------------------------------------------------------
(* What happens to a thread nobody drives.                                  *)

\* A suspension is resolved by a record the log takes.
LEMMA ResolveStep ==
    ASSUME IInv, thread.status = "suspended", NEW r, Fits(r),
           r.kind \in {"result", "wake"}, Resolve(r)
    PROVE  IInv'
<1>1. RowsType /\ log \in Seq(Record) /\ r \in Record
  BY TypeParts DEF IInv, LogInv, LogShape, Fits
<1>2. task.status = "blocked"
  BY <1>1 DEF RowsType
<1>3. Of("submission") = {}
  BY <1>2 DEF IInv, RowsShape
<1>4. /\ log' = Append(log, r) /\ loop' = loop
      /\ thread' = [thread EXCEPT !.status = "running"]
      /\ task' = [status |-> "queued", token |-> None, retry |-> task.retry]
  BY DEF Resolve, Release
<1>5. /\ thread' \in ThreadRow /\ thread'.status = "running"
      /\ task' \in TaskRow /\ task'.status = "queued" /\ task'.token = None
  BY <1>1, <1>4 DEF RowsType, ThreadRow, TaskRow
<1>6. RowsType'
  BY <1>5 DEF RowsType
<1>7. /\ log'[Len(log')] = r /\ Of("submission")' = {}
  BY <1>1, <1>3, <1>4, AppendFacts
<1>8. RowsShape'
  BY <1>5, <1>7 DEF RowsShape
<1>9. task'.status # "claimed" /\ \E x : Fits(x) /\ Of("submission") = {} /\ log' = Append(log, x)
  BY <1>3, <1>4, <1>5
<1> QED
  BY <1>4, <1>6, <1>8, <1>9, LeaveStep

\* The last record of a suspended thread's log is the suspension.
LEMMA WaitFacts ==
    ASSUME IInv, NEW why, WaitsOn(why)
    PROVE  /\ thread.status = "suspended" /\ log # <<>>
           /\ Len(log) \in Of("suspension") /\ log[Len(log)].why = why
           /\ log[Len(log)].count \in Nat /\ Of("submission") = {}
<1>1. thread.status = "suspended" /\ log[Len(log)].why = why
  BY DEF WaitsOn
<1>2. log # <<>> /\ log[Len(log)].kind = "suspension" /\ log \in Seq(Record)
  BY <1>1 DEF IInv, RowsShape, LogInv, LogShape
<1>3. Len(log) \in 1..Len(log)
  BY <1>2, LogFacts
<1>4. Len(log) \in Of("suspension") /\ log[Len(log)].count \in Nat
  BY <1>2, <1>3, LogFacts, RecordFacts
<1>5. task.status = "blocked"
  BY <1>1, TypeParts DEF IInv, RowsType
<1>6. Of("submission") = {}
  BY <1>5 DEF IInv, RowsShape
<1> QED
  BY <1>1, <1>2, <1>4, <1>6

LEMMA WakeSafe ==
    ASSUME IInv, TimerWake
    PROVE  IInv'
<1> DEFINE n == log[Len(log)].count
<1>1. /\ thread.status = "suspended" /\ log # <<>> /\ Len(log) \in Of("suspension")
      /\ log[Len(log)].why = "budget" /\ n \in Nat /\ Of("submission") = {}
  BY WaitFacts DEF TimerWake
<1>2. PICK r : r = Wake(n)
  OBVIOUS
<1>3. r \in Record /\ r.kind = "wake" /\ r.count = n
  BY <1>1, <1>2, RecordsMade
<1>4. log \in Seq(Record) /\ StallShape
  BY DEF IInv, LogInv, LogShape
<1>5. Len(log) \in BudgetStops
  BY <1>1 DEF BudgetStops
<1>6. LastTurn < Len(log)
  <2>1. LastTurn \in 0..Len(log) /\ (LastTurn # 0 => LastTurn \in Of("assistant"))
    BY <1>4, LastTurnFacts
  <2>2. Len(log) \in 1..Len(log) /\ log[Len(log)].kind = "suspension"
    BY <1>1, <1>4, LogFacts
  <2>3. LastTurn # 0 => log[LastTurn].kind = "assistant"
    BY <1>4, <2>1, LogFacts
  <2>4. LastTurn # Len(log)
    BY <2>2, <2>3
  <2> QED
    BY <2>1, <2>2, <2>4
<1>7. Stalled
  BY <1>5, <1>6 DEF Stalled
<1>8. \A i \in BudgetStops : LastTurn < i => log[i].count <= r.count
  BY <1>1, <1>3, <1>4, <1>7 DEF StallShape
<1>9. Fits(r)
  BY <1>1, <1>3, <1>7, <1>8 DEF Fits
<1>10. Resolve(r)
  BY <1>2 DEF TimerWake
<1> QED
  BY <1>1, <1>3, <1>9, <1>10, ResolveStep

LEMMA HandBackSafe ==
    ASSUME IInv, NEW v \in {"accept", "reject", "none"}, HandBack(v)
    PROVE  IInv'
<1>1. /\ thread.status = "suspended" /\ log # <<>> /\ Len(log) \in Of("suspension")
      /\ log[Len(log)].why = "child"
  BY WaitFacts DEF HandBack
<1>2. log \in Seq(Record) /\ ResultsRefer /\ LogShape
  BY DEF IInv, LogInv, LogShape
<1>3. LastTurn # 0
  BY <1>1, <1>2 DEF ResultsRefer
<1>4. PICK c \in Unanswered(LastTurn) :
         /\ log[LastTurn].calls[c] = "submit"
         /\ Resolve(Result(LastTurn, c, v))
  BY DEF HandBack
<1>5. c \in project.tail
  BY <1>3, <1>4, ProjectFields
<1>6. PICK r : r = Result(LastTurn, c, v)
  OBVIOUS
<1>7. c \in Nat /\ LastTurn \in Nat
  BY <1>2, <1>5, TailFacts, LastTurnFacts, LogFacts
<1>8. r \in Record /\ r.kind = "result" /\ r.turn = LastTurn /\ r.call = c /\ r.verdict = v
  BY <1>6, <1>7, RecordsMade
<1>9. Fits(r)
  BY <1>1, <1>4, <1>5, <1>8 DEF Fits
<1> QED
  BY <1>1, <1>4, <1>6, <1>8, <1>9, ResolveStep

LEMMA RequestSafe ==
    ASSUME IInv, RequestCancel
    PROVE  IInv'
<1>1. RowsType
  BY TypeParts DEF IInv
<1>2. /\ thread' = [thread EXCEPT !.intent = TRUE]
      /\ log' = log /\ task' = task /\ loop' = loop
  BY DEF RequestCancel
<1>3. thread' \in ThreadRow /\ thread'.status = thread.status
  BY <1>1, <1>2 DEF RowsType, ThreadRow
<1>4. RowsType'
  BY <1>1, <1>2, <1>3 DEF RowsType
<1>5. LogInv'
  BY <1>2, SameLog DEF IInv
<1>6. RowsShape'
  BY <1>2, <1>3, SameReading DEF IInv, RowsShape
<1>7. AttemptsShape'
  <2>1. loop' \in [Slots -> Attempt]
    BY <1>2 DEF IInv, AttemptsShape
  <2>2. ASSUME NEW q \in Slots
        PROVE  MemoryRow(loop[q])' /\ (HoldsClaim(q)' => HolderRow(loop[q])')
    <3>1. PICK x : x = loop[q]
      OBVIOUS
    <3>2. MemoryRow(x) /\ (HoldsClaim(q) => HolderRow(x))
      BY <3>1 DEF IInv, AttemptsShape
    <3>3. MemoryRow(x)' /\ (HoldsClaim(q) => HolderRow(x)')
      BY <1>2, <3>2, SameReading
    <3>4. HoldsClaim(q)' => HoldsClaim(q)
      BY <1>2 DEF HoldsClaim
    <3> QED
      BY <1>2, <3>1, <3>3, <3>4 DEF MemoryRow, HolderRow, Stands
  <2> QED
    BY <2>1, <2>2 DEF AttemptsShape
<1>8. TypeOK'
  BY <1>4, <1>2 DEF IInv, AttemptsShape, TypeOK, RowsType, ThreadRow, TaskRow, Attempt
<1> QED
  BY <1>5, <1>6, <1>7, <1>8 DEF IInv

LEMMA SweepSafe ==
    ASSUME IInv, CancelSweep
    PROVE  IInv'
<1>1. RowsType
  BY TypeParts DEF IInv
<1>2. /\ thread' = [thread EXCEPT !.status = "cancelled"]
      /\ task' = [status |-> "dead_letter", token |-> None, retry |-> task.retry]
      /\ log' = log /\ loop' = loop
      /\ task.status \in {"queued", "blocked"}
  BY DEF CancelSweep, Release
<1>3. /\ thread' \in ThreadRow /\ thread'.status = "cancelled"
      /\ task' \in TaskRow /\ task'.status = "dead_letter" /\ task'.token = None
  BY <1>1, <1>2 DEF RowsType, ThreadRow, TaskRow, ThreadTerminal
<1>4. RowsType'
  BY <1>3 DEF RowsType
<1>5. Of("submission")' = {}
  BY <1>2, SameReading DEF IInv, RowsShape
<1>6. RowsShape'
  BY <1>3, <1>5 DEF RowsShape
<1> QED
  BY <1>2, <1>3, <1>4, <1>6, LeaveStep

-----------------------------------------------------------------------------
(* The theorems.                                                            *)

LEMMA InitSafe ==
    ASSUME Init
    PROVE  IInv
<1>1. /\ log = <<>> /\ loop = [p \in Slots |-> Idle]
      /\ thread = [status |-> "running", intent |-> FALSE, recovery |-> 0]
      /\ task = [status |-> "queued", token |-> None, retry |-> 0]
  BY DEF Init
<1>2. /\ \A k : Of(k) = {}
      /\ log \in Seq(Record) /\ BudgetStops = {}
  BY <1>1, EmptySeq DEF Of, BudgetStops
<1>3. LogInv
  <2>1. LogShape /\ ResultsRefer
    BY <1>1, <1>2 DEF LogShape, ResultsRefer
  <2>2. StallShape
    BY <1>1, <1>2 DEF StallShape, Stalled
  <2>3. ConversationWellFormed /\ SubmissionStands
    BY <1>2 DEF ConversationWellFormed, SubmissionStands
  <2>4. CapsHold
    <3>1. Cardinality({}) = 0
      BY FS_EmptySet
    <3>2. Of("assistant") = {} /\ Of("suspension") = {}
      BY <1>2
    <3>3. {i \in {} : log[i].why = "budget"} = {} /\ {} \ {} = {}
      OBVIOUS
    <3>4. 0 <= MaxTurns /\ 0 <= MaxLaunches
      BY LoopAssumption
    <3> QED
      BY <3>1, <3>2, <3>3, <3>4 DEF CapsHold
  <2> QED
    BY <2>1, <2>2, <2>3, <2>4 DEF LogInv
<1>4. RowsShape
  BY <1>1, <1>2 DEF RowsShape
<1>5. AttemptsShape
  <2>1. \A p \in Slots : loop[p] = Idle
    BY <1>1
  <2>2. loop \in [Slots -> Attempt]
    BY <1>1, IdleFacts
  <2> QED
    BY <1>1, <2>1, <2>2, IdleFacts DEF AttemptsShape, HoldsClaim
<1>6. RowsType
  BY <1>1, BudgetAssumption DEF RowsType, ThreadRow, TaskRow
<1> QED
  BY <1>3, <1>4, <1>5, <1>6, TypeParts DEF IInv

LEMMA NextSafe ==
    ASSUME IInv, [Next]_vars
    PROVE  IInv'
<1>1. CASE UNCHANGED vars
  <2>1. log' = log /\ thread' = thread /\ task' = task /\ loop' = loop
    BY <1>1 DEF vars
  <2>2. CASE Slots = {}
    <3>1. LogInv' /\ RowsShape' /\ TypeOK'
      BY <2>1, SameLog, SameReading DEF IInv, RowsShape, TypeOK
    <3> QED
      BY <2>1, <2>2, <3>1 DEF IInv, AttemptsShape
  <2>3. CASE Slots # {}
    <3>1. PICK p \in Slots : TRUE
      BY <2>3
    <3>2. PICK row \in Attempt : row = loop[p]
      BY RowFacts
    <3>3. loop' = [loop EXCEPT ![p] = row]
      BY <2>1, <3>2 DEF IInv, AttemptsShape
    <3>4. MemoryRow(row) /\ (HoldsClaim(p) => HolderRow(row))
      BY <3>2 DEF IInv, AttemptsShape
    <3> QED
      BY <2>1, <3>3, <3>4, LocalStep
  <2> QED
    BY <2>2, <2>3
<1>2. ASSUME NEW p \in Slots, Step(p)
      PROVE  IInv'
  <2>1. ASSUME ExecuteTool(p) \/ BounceSubmission(p)
        PROVE  IInv'
    BY <2>1, ResultSafe DEF ExecuteTool, BounceSubmission, AtCall
  <2>2. ASSUME NEW calls \in Batches, CommitTurn(p, calls)
        PROVE  IInv'
    BY <2>2, TurnSafe
  <2> QED
    BY <1>2, <2>1, <2>2, ClaimSafe, EnterSafe, RejectSafe, AcceptSafe, DriftSafe,
       SubmitSafe, LaunchSafe, EndsSafe, AdmitSafe, ExhaustSafe, TerminalSafe,
       FailSafe, LeaseSafe DEF Step
<1>3. ASSUME NEW p \in Slots, Crash(p)
      PROVE  IInv'
  BY <1>3, LeaseSafe
<1>4. CASE Reclaim \/ TimerWake \/ RequestCancel \/ CancelSweep
  BY <1>4, ReclaimSafe, WakeSafe, RequestSafe, SweepSafe
<1>5. ASSUME NEW v \in {"accept", "reject", "none"}, HandBack(v)
      PROVE  IInv'
  BY <1>5, HandBackSafe
<1> QED
  BY <1>1, <1>2, <1>3, <1>4, <1>5 DEF Next

THEOREM LoopInvariant == Spec => []IInv
<1>1. Init => IInv
  BY InitSafe
<1>2. IInv /\ [Next]_vars => IInv'
  BY NextSafe
<1> QED
  BY <1>1, <1>2, PTL DEF Spec

\* The attempts, the row that claims them and the thread keep their types, and
\* a claim is on the row exactly while it is claimed (task.rs, turn_loop.rs).
THEOREM TurnTypeCorrect == Spec => []TypeOK
<1>1. IInv => TypeOK
  BY DEF IInv
<1> QED
  BY <1>1, LoopInvariant, PTL

\* What the claim's holder keeps in memory is what its successor would derive
\* from the log (run_turn_loop_inner's projection), whoever died before it.
THEOREM ReadingIsLogHolds == Spec => []ReadingIsLog
<1>1. IInv => ReadingIsLog
  BY DEF IInv, AttemptsShape, HolderRow, ReadingIsLog
<1> QED
  BY <1>1, LoopInvariant, PTL

\* Every call of a message has one result before the next message, through any
\* number of crashes, suspensions and lost leases (execute_batch, the fence of
\* commit_tool_result).
THEOREM ConversationHolds == Spec => []ConversationWellFormed
<1>1. IInv => ConversationWellFormed
  BY DEF IInv, LogInv
<1> QED
  BY <1>1, LoopInvariant, PTL

\* A committed submission is the last message's, and no verdict or drift
\* since stands against it (resolve_verdict, commit_loop_terminal).
THEOREM SubmissionStandsHolds == Spec => []SubmissionStands
<1>1. IInv => SubmissionStands
  BY DEF IInv, LogInv
<1> QED
  BY <1>1, LoopInvariant, PTL

\* Turns, launches and rechecks stay within their caps over all attempts
\* together, although each attempt counts for itself (boundary, decide_admission).
THEOREM CapsHoldHolds == Spec => []CapsHold
<1>1. IInv => CapsHold
  BY DEF IInv, LogInv
<1> QED
  BY <1>1, LoopInvariant, PTL
=============================================================================
