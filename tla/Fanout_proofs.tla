--------------------------- MODULE Fanout_proofs ---------------------------
(***************************************************************************)
(* Proofs about Fanout, for any number of releases, threads and            *)
(* interruptions, and any budget.                                          *)
(*                                                                         *)
(* TypeOK and the safety invariants are not inductive by themselves.  They *)
(* are proved from the conjunction of the parts below: what each task and  *)
(* outcome has to be while the main thread is at each of its places.       *)
(***************************************************************************)
EXTENDS Fanout, FiniteSetTheorems, TLAPS

-----------------------------------------------------------------------------
(***************************************************************************)
(* The inductive invariant.                                                *)
(***************************************************************************)

\* Before the interval is opened nothing was submitted.
NothingYet ==
  /\ main = "matching" => matched = << >>
  /\ main \in {"matching", "opening"} =>
       /\ \A r \in Releases : task[r] = "idle"
       /\ outcomes = {}
       /\ raised = "None"

\* Only matched releases have a task; a finished one holds a verdict or a crash.
TasksAreTargets ==
  \A r \in Releases :
    /\ task[r] # "idle" => r \in Targets
    /\ task[r] = "done" => Verdict(r) \in StageVerdicts(Stage) \union Crashes

\* An outcome is the genuine verdict of a finished task.
OutcomesAreDone ==
  \A r \in outcomes : task[r] = "done" /\ Verdict(r) \in StageVerdicts(Stage)

\* The main thread leaves the loop without an exception only with every outcome.
LoopIsComplete ==
  main \in {"shutdown", "closing", "done"} /\ raised = "None" => outcomes = Targets

\* A worker blames the total budget when the flag is set or the deadline is past;
\* once its outcome was consumed, the flag is set.
BlameIsJustified ==
  /\ \A r \in Releases :
       task[r] = "done" /\ result[r].blame = "TotalBudget" => cancel \/ now >= TotalTimeout
  /\ \A r \in outcomes : result[r].blame = "TotalBudget" => cancel

\* The interval is closed with the pool joined.
ClosingIsJoined ==
  /\ main = "closing" => Live = {}
  /\ (\E e \in Emitted : Closes(e)) => main \in {"closing", "done"} /\ Live = {}

IInv ==
  /\ TypeOK
  /\ NothingYet
  /\ TasksAreTargets
  /\ OutcomesAreDone
  /\ LoopIsComplete
  /\ BlameIsJustified
  /\ ClosingIsJoined

-----------------------------------------------------------------------------
(***************************************************************************)
(* Lemmas about the operators.                                             *)
(***************************************************************************)

\* A listing is a sequence of releases.
LEMMA ListingIsSeq ==
  ASSUME NEW ms \in Listings
  PROVE  ms \in Seq(Releases) /\ Len(ms) \in Nat /\ DOMAIN ms = 1 .. Len(ms)
<1>1. Cardinality(Releases) \in Nat
  BY FanoutAssumption, FS_CardinalityType
<1>2. PICK n \in 0 .. Cardinality(Releases) : ms \in [1 .. n -> Releases]
  BY DEF Listings
<1>3. n \in Nat
  BY <1>2
<1> QED
  BY <1>2

\* The empty sequence is a listing.
LEMMA EmptyListing == << >> \in Listings
<1>1. Cardinality(Releases) \in Nat
  BY FanoutAssumption, FS_CardinalityType
<1>2. << >> \in [1 .. 0 -> Releases]
  OBVIOUS
<1> QED
  BY <1>1 DEF Listings

\* Sequences of at most two elements.
LEMMA ShortSequences ==
  ASSUME NEW S, NEW a \in S, NEW b \in S
  PROVE  << >> \in Seq(S) /\ <<a>> \in Seq(S) /\ <<a, b>> \in Seq(S)
OBVIOUS

\* A stage's opening phase is in the vocabulary.
LEMMA StartPhaseType == StartPhase(Stage) \in Phases
BY DEF StartPhase, Phases

\* What a stage emits at its end is in the vocabulary.
LEMMA TerminalPhasesType ==
  ASSUME NEW stage \in Stages, NEW verdict
  PROVE  TerminalPhases(stage, verdict) \in Seq(Phases)
<1>1. CASE stage = "ROLLOUT"
  <2>1. TerminalPhases(stage, verdict) \in {<<"ROLLOUT_OK">>, <<"ABANDONED">>, << >>}
    BY <1>1 DEF TerminalPhases
  <2>2. {"ROLLOUT_OK", "ABANDONED"} \subseteq Phases
    BY DEF Phases, GreenPhases
  <2> QED
    BY <2>1, <2>2, ShortSequences
<1>2. CASE stage = "HELM_TEST"
  <2>1. TerminalPhases(stage, verdict)
          \in {<<"HELM_TEST_OK", "PROMOTED">>, <<"HELM_TEST_FAILED">>, << >>}
    BY <1>2 DEF TerminalPhases
  <2>2. {"HELM_TEST_OK", "PROMOTED", "HELM_TEST_FAILED"} \subseteq Phases
    BY DEF Phases, GreenPhases
  <2> QED
    BY <2>1, <2>2, ShortSequences
<1> QED
  BY <1>1, <1>2 DEF Stages

\* A failure count is a natural number.
LEMMA CountsAreNat ==
  ASSUME TypeOK
  PROVE  Cardinality(Failures) \in Nat /\ Cardinality(Unreported) \in Nat
<1>1. Failures \subseteq Releases /\ Unreported \subseteq Releases
  BY ListingIsSeq DEF TypeOK, Failures, Unreported, Targets
<1> QED
  BY <1>1, FanoutAssumption, FS_Subset, FS_CardinalityType

\* An emission appends at most one event, of the phase it was asked for.
LEMMA EmitAppends ==
  ASSUME events \in Seq(Event), NEW phase \in Phases, NEW failures \in Nat, Emit(phase, failures)
  PROVE  /\ events' \in Seq(Event)
         /\ \A e \in Emitted' : e \in Emitted \/ (e.phase = phase /\ e.failures = failures)
<1>1. CASE UNCHANGED events
  <2>1. Emitted' = Emitted
    BY <1>1 DEF Emitted
  <2> QED
    BY <1>1, <2>1
<1>2. CASE ~ UNCHANGED events
  <2>1. PICK written \in BOOLEAN :
          events' = Append(events, [phase |-> phase, failures |-> failures, written |-> written])
    BY <1>2 DEF Emit
  <2> DEFINE e == [phase |-> phase, failures |-> failures, written |-> written]
  <2>2. e \in Event
    BY DEF Event
  <2> HIDE DEF e
  <2>3. events' = Append(events, e)
    BY <2>1 DEF e
  <2>4. events' \in Seq(Event)
    BY <2>2, <2>3
  <2>5. ASSUME NEW i \in DOMAIN events'
        PROVE  events'[i] = e \/ (i \in DOMAIN events /\ events'[i] = events[i])
    BY <2>3
  <2>6. \A x \in Emitted' : x \in Emitted \/ x = e
    BY <2>5 DEF Emitted
  <2> QED
    BY <2>4, <2>6 DEF e
<1> QED
  BY <1>1, <1>2

-----------------------------------------------------------------------------
\* Every step keeps the inductive invariant.
LEMMA Inductive == IInv /\ [Next]_fanoutVars => IInv'
<1> SUFFICES ASSUME IInv, [Next]_fanoutVars
             PROVE  IInv'
  OBVIOUS
<1> USE DEF IInv
<1>1. ASSUME Tick
      PROVE  IInv'
  <2>1. TypeOK'
    BY <1>1, FanoutAssumption DEF Tick, TypeOK
  <2>2. NothingYet'
    BY <1>1 DEF Tick, NothingYet
  <2>3. TasksAreTargets'
    BY <1>1 DEF Tick, TasksAreTargets, Targets, Verdict
  <2>4. OutcomesAreDone'
    BY <1>1 DEF Tick, OutcomesAreDone, Verdict
  <2>5. LoopIsComplete'
    BY <1>1 DEF Tick, LoopIsComplete, Targets
  <2>6. BlameIsJustified'
    BY <1>1, FanoutAssumption DEF Tick, BlameIsJustified, TypeOK
  <2>7. ClosingIsJoined'
    BY <1>1 DEF Tick, ClosingIsJoined, Live, Emitted
  <2> QED
    BY <2>1, <2>2, <2>3, <2>4, <2>5, <2>6, <2>7
<1>2. ASSUME NEW ms \in Listings, Matched(ms)
      PROVE  IInv'
  <2>1. TypeOK'
    BY <1>2 DEF Matched, NothingYet, TypeOK
  <2>2. NothingYet'
    BY <1>2 DEF Matched, NothingYet
  <2>3. TasksAreTargets'
    BY <1>2 DEF Matched, TasksAreTargets, NothingYet
  <2>4. OutcomesAreDone'
    BY <1>2 DEF Matched, OutcomesAreDone, NothingYet
  <2>5. LoopIsComplete'
    BY <1>2 DEF Matched, LoopIsComplete, Targets, NothingYet
  <2>6. BlameIsJustified'
    BY <1>2 DEF Matched, BlameIsJustified
  <2>7. ClosingIsJoined'
    BY <1>2 DEF Matched, ClosingIsJoined, Emitted
  <2> QED
    BY <2>1, <2>2, <2>3, <2>4, <2>5, <2>6, <2>7
<1>3. ASSUME MatchingFails
      PROVE  IInv'
  <2>1. TypeOK'
    BY <1>3 DEF MatchingFails, TypeOK
  <2>2. NothingYet'
    BY <1>3 DEF MatchingFails, NothingYet
  <2>3. TasksAreTargets'
    BY <1>3 DEF MatchingFails, TasksAreTargets, NothingYet
  <2>4. OutcomesAreDone'
    BY <1>3 DEF MatchingFails, OutcomesAreDone, NothingYet
  <2>5. LoopIsComplete'
    BY <1>3 DEF MatchingFails, LoopIsComplete
  <2>6. BlameIsJustified'
    BY <1>3 DEF MatchingFails, BlameIsJustified
  <2>7. ClosingIsJoined'
    BY <1>3 DEF MatchingFails, ClosingIsJoined, Emitted
  <2> QED
    BY <2>1, <2>2, <2>3, <2>4, <2>5, <2>6, <2>7
<1>4. ASSUME Open
      PROVE  IInv'
  <2>1. TypeOK'
    <3>1. events' \in Seq(Event)
      BY <1>4, EmitAppends, StartPhaseType DEF Open, TypeOK
    <3> QED
      BY <1>4, <3>1 DEF Open, TypeOK, Worker
  <2>2. NothingYet'
    BY <1>4 DEF Open, NothingYet
  <2>3. TasksAreTargets'
    BY <1>4 DEF Open, TasksAreTargets, Targets
  <2>4. OutcomesAreDone'
    BY <1>4 DEF Open, OutcomesAreDone, NothingYet
  <2>5. LoopIsComplete'
    BY <1>4 DEF Open, LoopIsComplete
  <2>6. BlameIsJustified'
    BY <1>4 DEF Open, BlameIsJustified
  <2>7. ClosingIsJoined'
    <3>1. \A e \in Emitted' : e \in Emitted \/ ~ Closes(e)
      BY <1>4, EmitAppends, StartPhaseType DEF Open, TypeOK, Closes
    <3> QED
      BY <1>4, <3>1 DEF Open, ClosingIsJoined
  <2> QED
    BY <2>1, <2>2, <2>3, <2>4, <2>5, <2>6, <2>7
<1>5. ASSUME NEW r \in Releases, Consume(r)
      PROVE  IInv'
  <2>1. TypeOK'
    BY <1>5 DEF Consume, TypeOK
  <2>2. NothingYet'
    BY <1>5 DEF Consume, NothingYet
  <2>3. TasksAreTargets'
    BY <1>5 DEF Consume, TasksAreTargets, Targets, Verdict
  <2>4. OutcomesAreDone'
    BY <1>5 DEF Consume, OutcomesAreDone, TasksAreTargets, Verdict
  <2>5. LoopIsComplete'
    BY <1>5 DEF Consume, LoopIsComplete
  <2>6. BlameIsJustified'
    BY <1>5 DEF Consume, BlameIsJustified
  <2>7. ClosingIsJoined'
    BY <1>5 DEF Consume, ClosingIsJoined, Emitted
  <2> QED
    BY <2>1, <2>2, <2>3, <2>4, <2>5, <2>6, <2>7
<1>6. ASSUME NEW r \in Releases, ConsumeCrash(r)
      PROVE  IInv'
  <2>1. TypeOK'
    BY <1>6 DEF ConsumeCrash, TypeOK
  <2>2. NothingYet'
    BY <1>6 DEF ConsumeCrash, NothingYet
  <2>3. TasksAreTargets'
    BY <1>6 DEF ConsumeCrash, TasksAreTargets, Targets, Verdict
  <2>4. OutcomesAreDone'
    BY <1>6 DEF ConsumeCrash, OutcomesAreDone, Verdict
  <2>5. LoopIsComplete'
    BY <1>6 DEF ConsumeCrash, LoopIsComplete
  <2>6. BlameIsJustified'
    BY <1>6 DEF ConsumeCrash, BlameIsJustified
  <2>7. ClosingIsJoined'
    BY <1>6 DEF ConsumeCrash, ClosingIsJoined, Emitted
  <2> QED
    BY <2>1, <2>2, <2>3, <2>4, <2>5, <2>6, <2>7
<1>7. ASSUME Drained
      PROVE  IInv'
  <2>1. TypeOK'
    BY <1>7 DEF Drained, TypeOK
  <2>2. NothingYet'
    BY <1>7 DEF Drained, NothingYet
  <2>3. TasksAreTargets'
    BY <1>7 DEF Drained, TasksAreTargets, Targets, Verdict
  <2>4. OutcomesAreDone'
    BY <1>7 DEF Drained, OutcomesAreDone, Verdict
  <2>5. LoopIsComplete'
    BY <1>7 DEF Drained, LoopIsComplete, Targets
  <2>6. BlameIsJustified'
    BY <1>7 DEF Drained, BlameIsJustified
  <2>7. ClosingIsJoined'
    BY <1>7 DEF Drained, ClosingIsJoined, Emitted
  <2> QED
    BY <2>1, <2>2, <2>3, <2>4, <2>5, <2>6, <2>7
<1>8. ASSUME Join
      PROVE  IInv'
  <2>1. TypeOK'
    <3>1. closing' \in Seq(Phases)
      BY <1>8, TerminalPhasesType, FanoutAssumption DEF Join, TypeOK
    <3> QED
      BY <1>8, <3>1 DEF Join, TypeOK
  <2>2. NothingYet'
    BY <1>8 DEF Join, NothingYet
  <2>3. TasksAreTargets'
    BY <1>8 DEF Join, TasksAreTargets, Targets, Verdict
  <2>4. OutcomesAreDone'
    BY <1>8 DEF Join, OutcomesAreDone, Verdict
  <2>5. LoopIsComplete'
    BY <1>8 DEF Join, LoopIsComplete, Targets
  <2>6. BlameIsJustified'
    BY <1>8 DEF Join, BlameIsJustified
  <2>7. ClosingIsJoined'
    BY <1>8 DEF Join, ClosingIsJoined, Live
  <2> QED
    BY <2>1, <2>2, <2>3, <2>4, <2>5, <2>6, <2>7
<1>9. ASSUME Close
      PROVE  IInv'
  <2>1. TypeOK'
    <3>1. Head(closing) \in Phases /\ Tail(closing) \in Seq(Phases)
      BY <1>9 DEF Close, TypeOK
    <3>2. events' \in Seq(Event)
      BY <1>9, EmitAppends, CountsAreNat DEF Close, TypeOK
    <3> QED
      BY <1>9, <3>2 DEF Close, TypeOK
  <2>2. NothingYet'
    BY <1>9 DEF Close, NothingYet
  <2>3. TasksAreTargets'
    BY <1>9 DEF Close, TasksAreTargets, Targets, Verdict
  <2>4. OutcomesAreDone'
    BY <1>9 DEF Close, OutcomesAreDone, Verdict
  <2>5. LoopIsComplete'
    BY <1>9 DEF Close, LoopIsComplete, Targets
  <2>6. BlameIsJustified'
    BY <1>9 DEF Close, BlameIsJustified
  <2>7. ClosingIsJoined'
    BY <1>9 DEF Close, ClosingIsJoined, Live
  <2> QED
    BY <2>1, <2>2, <2>3, <2>4, <2>5, <2>6, <2>7
<1>10. ASSUME Return
      PROVE  IInv'
  <2>1. TypeOK'
    BY <1>10 DEF Return, TypeOK
  <2>2. NothingYet'
    BY <1>10 DEF Return, NothingYet
  <2>3. TasksAreTargets'
    BY <1>10 DEF Return, TasksAreTargets, Targets, Verdict
  <2>4. OutcomesAreDone'
    BY <1>10 DEF Return, OutcomesAreDone, Verdict
  <2>5. LoopIsComplete'
    BY <1>10 DEF Return, LoopIsComplete, Targets
  <2>6. BlameIsJustified'
    BY <1>10 DEF Return, BlameIsJustified
  <2>7. ClosingIsJoined'
    BY <1>10 DEF Return, ClosingIsJoined, Live
  <2> QED
    BY <2>1, <2>2, <2>3, <2>4, <2>5, <2>6, <2>7
<1>11. ASSUME Interrupt
      PROVE  IInv'
  <2>1. TypeOK'
    <3>1. cancel' \in BOOLEAN
      BY <1>11 DEF Interrupt, TypeOK
    <3>2. /\ main' \in {"matching", "opening", "waiting", "shutdown", "closing", "done"}
          /\ raised' \in {"None", "Error", "Interrupt"}
          /\ interrupts' \in 0 .. MaxInterrupts
      BY <1>11, FanoutAssumption DEF Interrupt, TypeOK
    <3>3. UNCHANGED <<now, matched, head, task, result, outcomes, closing, events>>
      BY <1>11 DEF Interrupt
    <3> QED
      BY <3>1, <3>2, <3>3 DEF TypeOK
  <2>2. NothingYet'
    BY <1>11 DEF Interrupt, NothingYet
  <2>3. TasksAreTargets'
    BY <1>11 DEF Interrupt, TasksAreTargets, Targets, Verdict
  <2>4. OutcomesAreDone'
    BY <1>11 DEF Interrupt, OutcomesAreDone, Verdict
  <2>5. LoopIsComplete'
    BY <1>11 DEF Interrupt, LoopIsComplete
  <2>6. BlameIsJustified'
    BY <1>11 DEF Interrupt, BlameIsJustified
  <2>7. ClosingIsJoined'
    BY <1>11 DEF Interrupt, ClosingIsJoined, Live, Emitted
  <2> QED
    BY <2>1, <2>2, <2>3, <2>4, <2>5, <2>6, <2>7
<1>12. ASSUME NEW r \in Releases, Take(r)
      PROVE  IInv'
  <2>1. TypeOK'
    BY <1>12, ListingIsSeq DEF Take, TypeOK, Worker
  <2>2. NothingYet'
    BY <1>12 DEF Take, NothingYet
  <2>3. TasksAreTargets'
    BY <1>12 DEF Take, TasksAreTargets, Targets, Verdict
  <2>4. OutcomesAreDone'
    BY <1>12 DEF Take, OutcomesAreDone, Verdict
  <2>5. LoopIsComplete'
    BY <1>12 DEF Take, LoopIsComplete, Targets
  <2>6. BlameIsJustified'
    BY <1>12 DEF Take, BlameIsJustified
  <2>7. ClosingIsJoined'
    BY <1>12 DEF Take, ClosingIsJoined, Live, Emitted
  <2> QED
    BY <2>1, <2>2, <2>3, <2>4, <2>5, <2>6, <2>7
<1>13. ASSUME NEW r \in Releases, NEW v \in StageVerdicts(Stage), NEW b \in {"TotalBudget", "Own"},
              WorkerReturns(r, v, b)
      PROVE  IInv'
  <2>1. TypeOK'
    BY <1>13 DEF WorkerReturns, Returned, TypeOK, Worker
  <2>2. NothingYet'
    BY <1>13 DEF WorkerReturns, Returned, NothingYet
  <2>3. TasksAreTargets'
    BY <1>13 DEF WorkerReturns, Returned, TasksAreTargets, Targets, Verdict, TypeOK
  <2>4. OutcomesAreDone'
    BY <1>13 DEF WorkerReturns, Returned, OutcomesAreDone, Verdict
  <2>5. LoopIsComplete'
    BY <1>13 DEF WorkerReturns, Returned, LoopIsComplete, Targets
  <2>6. BlameIsJustified'
    BY <1>13 DEF WorkerReturns, Returned, BlameIsJustified, OutcomesAreDone, TypeOK
  <2>7. ClosingIsJoined'
    BY <1>13 DEF WorkerReturns, Returned, ClosingIsJoined, Live, Emitted
  <2> QED
    BY <2>1, <2>2, <2>3, <2>4, <2>5, <2>6, <2>7
<1>14. ASSUME NEW r \in Releases, NEW k \in Crashes, WorkerCrashes(r, k)
      PROVE  IInv'
  <2>1. TypeOK'
    BY <1>14 DEF WorkerCrashes, TypeOK, Worker
  <2>2. NothingYet'
    BY <1>14 DEF WorkerCrashes, NothingYet
  <2>3. TasksAreTargets'
    BY <1>14 DEF WorkerCrashes, TasksAreTargets, Targets, Verdict, TypeOK
  <2>4. OutcomesAreDone'
    BY <1>14 DEF WorkerCrashes, OutcomesAreDone, Verdict
  <2>5. LoopIsComplete'
    BY <1>14 DEF WorkerCrashes, LoopIsComplete, Targets
  <2>6. BlameIsJustified'
    BY <1>14 DEF WorkerCrashes, BlameIsJustified, TypeOK
  <2>7. ClosingIsJoined'
    BY <1>14 DEF WorkerCrashes, ClosingIsJoined, Live, Emitted
  <2> QED
    BY <2>1, <2>2, <2>3, <2>4, <2>5, <2>6, <2>7
<1>15. ASSUME Terminated
      PROVE  IInv'
  <2>1. TypeOK'
    BY <1>15 DEF Terminated, fanoutVars, TypeOK
  <2>2. NothingYet'
    BY <1>15 DEF Terminated, fanoutVars, NothingYet
  <2>3. TasksAreTargets'
    BY <1>15 DEF Terminated, fanoutVars, TasksAreTargets, Targets, Verdict
  <2>4. OutcomesAreDone'
    BY <1>15 DEF Terminated, fanoutVars, OutcomesAreDone, Verdict
  <2>5. LoopIsComplete'
    BY <1>15 DEF Terminated, fanoutVars, LoopIsComplete, Targets
  <2>6. BlameIsJustified'
    BY <1>15 DEF Terminated, fanoutVars, BlameIsJustified
  <2>7. ClosingIsJoined'
    BY <1>15 DEF Terminated, fanoutVars, ClosingIsJoined, Live, Emitted
  <2> QED
    BY <2>1, <2>2, <2>3, <2>4, <2>5, <2>6, <2>7
<1>16. CASE UNCHANGED fanoutVars
  BY <1>16 DEF fanoutVars, TypeOK, NothingYet, Targets, TasksAreTargets, Verdict,
     OutcomesAreDone, LoopIsComplete, BlameIsJustified, ClosingIsJoined, Live, Emitted
<1> QED
  BY <1>1, <1>2, <1>3, <1>4, <1>5, <1>6, <1>7, <1>8, <1>9, <1>10, <1>11, <1>12, <1>13,
     <1>14, <1>15, <1>16 DEF Next, MainStep, WorkerStep

-----------------------------------------------------------------------------
(***************************************************************************)
(* The theorems.                                                           *)
(***************************************************************************)

\* The inductive invariant holds when the run starts.
LEMMA Initially == Init => IInv
<1> SUFFICES ASSUME Init PROVE IInv
  OBVIOUS
<1>1. matched \in Listings /\ head \in 1 .. Len(matched) + 1
  BY EmptyListing DEF Init
<1>2. now \in 0 .. MaxTime /\ interrupts \in 0 .. MaxInterrupts
  BY FanoutAssumption DEF Init
<1>3. task \in [Releases -> Worker]
  BY DEF Init, Worker
<1>4. result \in [Releases -> [verdict : StageVerdicts(Stage) \union Crashes \union {"Pending"},
                              blame : {"TotalBudget", "Own"}]]
  BY DEF Init, Pending
<1>5. closing \in Seq(Phases) /\ events \in Seq(Event)
  BY DEF Init
<1>6. TypeOK
  BY <1>1, <1>2, <1>3, <1>4, <1>5 DEF Init, TypeOK
<1> QED
  BY <1>6 DEF Init, IInv, NothingYet, TasksAreTargets, OutcomesAreDone, LoopIsComplete,
     BlameIsJustified, ClosingIsJoined, Emitted

\* The inductive invariant holds in every state of every run.
LEMMA Invariance == Spec => []IInv
BY Initially, Inductive, PTL DEF Spec

\* Every variable keeps its type.
THEOREM TypeCorrect == Spec => []TypeOK
<1>1. IInv => TypeOK
  BY DEF IInv
<1> QED
  BY <1>1, Invariance, PTL

\* A run that returns reports one genuine verdict for every matched release.
THEOREM Accounting == Spec => []AccountsForAll
<1>1. IInv => AccountsForAll
  BY DEF IInv, LoopIsComplete, OutcomesAreDone, AccountsForAll
<1> QED
  BY <1>1, Invariance, PTL

\* An outcome that blames the total budget comes with total_timed_out.
THEOREM BudgetReported == Spec => []BudgetIsReported
<1>1. IInv => BudgetIsReported
  BY DEF IInv, BlameIsJustified, BudgetIsReported
<1> QED
  BY <1>1, Invariance, PTL

\* The interval is closed only when no worker is left.
THEOREM ClosedLast == Spec => []ClosedAfterLastWorker
<1>1. IInv => ClosedAfterLastWorker
  BY DEF IInv, ClosingIsJoined, ClosedAfterLastWorker
<1> QED
  BY <1>1, Invariance, PTL

-----------------------------------------------------------------------------
(***************************************************************************)
(* What the terminal event says.                                           *)
(***************************************************************************)

\* The folded verdict of a stage: success or suspended when everything passed, and
\* a bad one otherwise.
LEMMA FoldedVerdict ==
  ASSUME NEW stage \in Stages, NEW seen \in SUBSET StageVerdicts(stage), seen # {}
  PROVE  LET v == RunVerdict(seen, Success(stage))
         IN  /\ seen \subseteq PassingVerdicts =>
                  v = "SKIPPED_SUSPENDED" \/ (v = Success(stage) /\ Success(stage) \in seen)
             /\ ~ (seen \subseteq PassingVerdicts) =>
                  v \in {"FAILED", "TIMED_OUT", "NO_MATCH", "SKIPPED_NOT_READY"}
<1> DEFINE v == RunVerdict(seen, Success(stage))
<1>1. DOMAIN Severity = 1 .. 4
  BY DEF Severity
<1>2. \A i \in 1 .. 4 : Severity[i] \in {"FAILED", "TIMED_OUT", "NO_MATCH", "SKIPPED_NOT_READY"}
  BY DEF Severity
<1>3. Bad(seen) = {} <=> seen \subseteq PassingVerdicts
  BY DEF Bad, Severity, PassingVerdicts, StageVerdicts
<1>4. CASE seen \subseteq PassingVerdicts
  <2>1. v = IF seen = {"SKIPPED_SUSPENDED"} THEN "SKIPPED_SUSPENDED" ELSE Success(stage)
    BY <1>3, <1>4 DEF RunVerdict
  <2>2. seen \subseteq {Success(stage), "SKIPPED_SUSPENDED"}
    BY <1>4 DEF PassingVerdicts, StageVerdicts, Success
  <2> QED
    BY <1>4, <2>1, <2>2
<1>5. CASE ~ (seen \subseteq PassingVerdicts)
  <2>1. Bad(seen) # {} /\ Bad(seen) \subseteq 1 .. 4
    BY <1>1, <1>3, <1>5 DEF Bad
  <2>2. \E i \in Bad(seen) : \A j \in Bad(seen) : i <= j
    BY <2>1
  <2>3. v \in {Severity[i] : i \in Bad(seen)}
    BY <2>2 DEF RunVerdict
  <2> QED
    BY <1>2, <1>5, <2>1, <2>3
<1> QED
  BY <1>4, <1>5

\* The rows of the table: success is green, a failure is not, the rest has no phase.
LEMMA TableRows ==
  ASSUME NEW stage \in Stages, NEW verdict, NEW i \in DOMAIN TerminalPhases(stage, verdict)
  PROVE  /\ verdict \in {Success(stage), "FAILED", "TIMED_OUT"}
         /\ TerminalPhases(stage, verdict)[i] \in GreenPhases <=> verdict = Success(stage)
<1>1. CASE stage = "ROLLOUT" /\ verdict = "READY"
  BY DEF TerminalPhases, GreenPhases, Success
<1>2. CASE stage = "ROLLOUT" /\ verdict \in {"FAILED", "TIMED_OUT"}
  BY DEF TerminalPhases, GreenPhases, Success
<1>3. CASE stage = "HELM_TEST" /\ verdict = "PASSED"
  <2>1. TerminalPhases(stage, verdict) = <<"HELM_TEST_OK", "PROMOTED">>
    BY <1>3 DEF TerminalPhases
  <2>2. i = 1 \/ i = 2
    BY <2>1
  <2> QED
    BY <1>3, <2>1 DEF GreenPhases, Success
<1>4. CASE stage = "HELM_TEST" /\ verdict \in {"FAILED", "TIMED_OUT"}
  BY DEF TerminalPhases, GreenPhases, Success
<1>5. CASE /\ ~ (stage = "ROLLOUT" /\ verdict \in {"READY", "FAILED", "TIMED_OUT"})
           /\ ~ (stage = "HELM_TEST" /\ verdict \in {"PASSED", "FAILED", "TIMED_OUT"})
  <2>1. TerminalPhases(stage, verdict) = << >>
    BY <1>5 DEF TerminalPhases
  <2> QED
    BY <2>1
<1> QED
  BY <1>1, <1>2, <1>3, <1>4, <1>5

\* A stage closes its interval with a green phase exactly when everything passed,
\* and then something did more than be suspended.
LEMMA ClosingPhases ==
  ASSUME NEW stage \in Stages, NEW seen \in SUBSET StageVerdicts(stage), seen # {},
         NEW i \in DOMAIN TerminalPhases(stage, RunVerdict(seen, Success(stage)))
  PROVE  /\ seen \subseteq PassingVerdicts => Success(stage) \in seen
         /\ TerminalPhases(stage, RunVerdict(seen, Success(stage)))[i] \in GreenPhases
              <=> seen \subseteq PassingVerdicts
<1>1. Success(stage) \in {"READY", "PASSED"}
  BY DEF Success
<1> QED
  BY <1>1, FoldedVerdict, TableRows

-----------------------------------------------------------------------------
\* The distance from IInv to what the terminal event says: what the main thread
\* still has to emit agrees with what it has collected.
AllGreen ==
  /\ \A r \in Targets : Verdict(r) \in {Success(Stage), "SKIPPED_SUSPENDED"}
  /\ \E r \in Targets : Verdict(r) = Success(Stage)

Agreement ==
  /\ main \in {"opening", "waiting", "shutdown", "closing"} => Targets # {}
  /\ main = "waiting" => raised = "None"
  /\ main = "closing" => raised # "Interrupt"
  /\ main \in {"shutdown", "closing"} /\ raised = "Error" => Unreported # {}
  /\ main = "closing" =>
       \A i \in DOMAIN closing :
         /\ closing[i] \in GreenPhases <=> (raised = "None" /\ Failures = {})
         /\ closing[i] \in GreenPhases => AllGreen
  /\ GreenMeansPassed
  /\ CountAgreesWithPhase

\* A green phase ends the interval.
LEMMA GreenCloses ==
  ASSUME NEW e, e.phase \in GreenPhases
  PROVE  Closes(e)
BY DEF GreenPhases, Closes, StartPhase

\* As long as no event ends the interval, the two properties say nothing.
LEMMA QuietBefore ==
  ASSUME \A e \in Emitted' : ~ Closes(e)
  PROVE  GreenMeansPassed' /\ CountAgreesWithPhase'
BY GreenCloses DEF GreenMeansPassed, CountAgreesWithPhase

\* While there is work left, the interval is open.
LEMMA WorkIsBeforeClosing ==
  ASSUME IInv, NEW r \in Releases, task[r] \in {"queued", "running"}
  PROVE  main # "closing" /\ \A e \in Emitted : ~ Closes(e)
BY DEF IInv, ClosingIsJoined, Live

\* Every step keeps the agreement.
LEMMA Agreeing == IInv /\ Agreement /\ [Next]_fanoutVars => Agreement'
<1> SUFFICES ASSUME IInv, Agreement, [Next]_fanoutVars
             PROVE  Agreement'
  OBVIOUS
<1> USE DEF IInv
<1>1. ASSUME Tick
      PROVE  Agreement'
  BY <1>1 DEF Tick, Agreement, GreenMeansPassed, CountAgreesWithPhase, AllGreen, Targets,
     Verdict, Failures, Unreported, Emitted, NothingYet
<1>2. ASSUME NEW ms \in Listings, Matched(ms)
      PROVE  Agreement'
  <2>1. \A e \in Emitted' : ~ Closes(e)
    BY <1>2 DEF Matched, ClosingIsJoined, Emitted
  <2>2. GreenMeansPassed' /\ CountAgreesWithPhase'
    BY <2>1, QuietBefore
  <2>3. ms # << >> => Targets' # {}
    <3>1. ms # << >> => 1 \in DOMAIN ms
      BY ListingIsSeq
    <3> QED
      BY <1>2, <3>1 DEF Matched, Targets
  <2> QED
    BY <1>2, <2>2, <2>3 DEF Matched, Agreement
<1>3. ASSUME MatchingFails
      PROVE  Agreement'
  BY <1>3 DEF MatchingFails, Agreement, GreenMeansPassed, CountAgreesWithPhase, Targets,
     Emitted, NothingYet
<1>4. ASSUME Open
      PROVE  Agreement'
  <2>1. \A e \in Emitted' : ~ Closes(e)
    BY <1>4, EmitAppends, StartPhaseType DEF Open, ClosingIsJoined, TypeOK, Closes
  <2>2. GreenMeansPassed' /\ CountAgreesWithPhase'
    BY <2>1, QuietBefore
  <2> QED
    BY <1>4, <2>2 DEF Open, Agreement, NothingYet, Targets
<1>5. ASSUME NEW r \in Releases, Consume(r)
      PROVE  Agreement'
  BY <1>5 DEF Consume, Agreement, GreenMeansPassed, CountAgreesWithPhase, Targets, Verdict,
     Emitted
<1>6. ASSUME NEW r \in Releases, ConsumeCrash(r)
      PROVE  Agreement'
  <2>1. \A e \in Emitted' : ~ Closes(e)
    BY <1>6 DEF ConsumeCrash, ClosingIsJoined, Emitted
  <2>2. GreenMeansPassed' /\ CountAgreesWithPhase'
    BY <2>1, QuietBefore
  <2>3. r \in Targets
    BY <1>6 DEF ConsumeCrash, TasksAreTargets
  <2>4. r \notin outcomes
    BY <1>6 DEF ConsumeCrash, OutcomesAreDone, Crashes, StageVerdicts
  <2>5. r \in Unreported'
    BY <1>6, <2>3, <2>4 DEF ConsumeCrash, Unreported, Targets
  <2>6. Targets' = Targets
    BY <1>6 DEF ConsumeCrash, Targets
  <2> QED
    BY <1>6, <2>2, <2>5, <2>6 DEF ConsumeCrash, Agreement
<1>7. ASSUME Drained
      PROVE  Agreement'
  <2>1. \A e \in Emitted' : ~ Closes(e)
    BY <1>7 DEF Drained, ClosingIsJoined, Emitted
  <2>2. GreenMeansPassed' /\ CountAgreesWithPhase'
    BY <2>1, QuietBefore
  <2> QED
    BY <1>7, <2>2 DEF Drained, Agreement, Targets
<1>8. ASSUME Join
      PROVE  Agreement'
  <2>1. \A e \in Emitted' : ~ Closes(e)
    BY <1>8 DEF Join, ClosingIsJoined, Emitted
  <2>2. GreenMeansPassed' /\ CountAgreesWithPhase'
    BY <2>1, QuietBefore
  <2>3. Targets # {}
    BY <1>8 DEF Join, Agreement
  <2>4. CASE raised = "None"
    <3> DEFINE seen == {Verdict(r) : r \in outcomes}
    <3>1. closing' = TerminalPhases(Stage, RunVerdict(seen, Success(Stage))) /\ main' = "closing"
      BY <1>8, <2>4 DEF Join
    <3>2. outcomes = Targets /\ seen # {} /\ seen \in SUBSET StageVerdicts(Stage)
      BY <1>8, <2>3, <2>4 DEF Join, LoopIsComplete, OutcomesAreDone
    <3>3. seen \subseteq PassingVerdicts <=> Failures = {}
      BY DEF Failures
    <3>4. Stage \in Stages
      BY FanoutAssumption
    <3>5. ASSUME NEW i \in DOMAIN closing'
          PROVE  /\ closing'[i] \in GreenPhases <=> Failures = {}
                 /\ Failures = {} => Success(Stage) \in seen
      BY <3>1, <3>2, <3>3, <3>4, ClosingPhases
    <3>6. Failures = {} => \A r \in Targets : Verdict(r) \in {Success(Stage), "SKIPPED_SUSPENDED"}
      BY <3>2, <3>3 DEF PassingVerdicts, StageVerdicts, Success
    <3>7. Failures = {} /\ Success(Stage) \in seen => AllGreen
      BY <3>2, <3>6 DEF AllGreen
    <3>8. Targets' = Targets /\ Failures' = Failures /\ raised' = raised /\ (AllGreen <=> AllGreen')
      BY <1>8 DEF Join, Targets, Failures, Verdict, AllGreen
    <3> QED
      BY <2>2, <2>3, <2>4, <3>5, <3>7, <3>8 DEF Agreement
  <2>5. CASE raised = "Error"
    <3>1. closing' = TerminalPhases(Stage, "FAILED") /\ main' = "closing"
      BY <1>8, <2>5 DEF Join
    <3>2. \A i \in DOMAIN closing' : closing'[i] \notin GreenPhases
      BY <3>1, TableRows, FanoutAssumption DEF Success
    <3> QED
      BY <1>8, <2>2, <2>5, <3>2 DEF Join, Agreement, Targets, Unreported
  <2>6. CASE raised = "Interrupt"
    BY <1>8, <2>2, <2>6 DEF Join, Agreement
  <2> QED
    BY <1>8, <2>4, <2>5, <2>6 DEF Join
<1>9. ASSUME Close
      PROVE  Agreement'
  <2> DEFINE failures == IF raised = "None" THEN Cardinality(Failures) ELSE Cardinality(Unreported)
  <2>1. Head(closing) \in Phases /\ 1 \in DOMAIN closing /\ closing[1] = Head(closing)
    BY <1>9 DEF Close, TypeOK
  <2>2. Emit(Head(closing), failures)
    BY <1>9 DEF Close
  <2>3. failures \in Nat /\ (Head(closing) \in GreenPhases <=> failures = 0)
    <3>1. IsFiniteSet(Failures) /\ IsFiniteSet(Unreported)
      <4>1. Failures \subseteq Releases /\ Unreported \subseteq Releases
        BY ListingIsSeq DEF TypeOK, Failures, Unreported, Targets
      <4> QED
        BY <4>1, FanoutAssumption, FS_Subset
    <3>2. (Cardinality(Failures) = 0 <=> Failures = {}) /\ (Cardinality(Unreported) = 0 <=> Unreported = {})
      BY <3>1, FS_EmptySet
    <3> QED
      BY <1>9, <3>2, CountsAreNat DEF Close, Agreement, TypeOK
  <2>4. \A e \in Emitted' : e \in Emitted \/ (e.phase = Head(closing) /\ e.failures = failures)
    BY <2>1, <2>2, <2>3, EmitAppends DEF TypeOK
  <2> HIDE DEF failures
  <2>5. CountAgreesWithPhase'
    BY <2>3, <2>4 DEF Agreement, CountAgreesWithPhase
  <2>6. AllGreen <=> AllGreen'
    BY <1>9 DEF Close, AllGreen, Targets, Verdict
  <2>7. GreenMeansPassed'
    BY <1>9, <2>4, <2>6 DEF Close, Agreement, GreenMeansPassed, AllGreen
  <2>8. \A i \in DOMAIN closing' : i + 1 \in DOMAIN closing /\ closing'[i] = closing[i + 1]
    BY <1>9 DEF Close
  <2>9. UNCHANGED <<main, raised, Targets, Failures>>
    BY <1>9 DEF Close, Targets, Failures, Verdict
  <2>10. UNCHANGED Unreported
    BY <1>9 DEF Close, Targets, Unreported
  <2> QED
    BY <2>5, <2>6, <2>7, <2>8, <2>9, <2>10 DEF Agreement
<1>10. ASSUME Return
      PROVE  Agreement'
  BY <1>10 DEF Return, Agreement, GreenMeansPassed, CountAgreesWithPhase, Targets, Verdict,
     Emitted
<1>11. ASSUME Interrupt
      PROVE  Agreement'
  BY <1>11 DEF Interrupt, Agreement, GreenMeansPassed, CountAgreesWithPhase, Targets,
     Verdict, Emitted
<1>12. ASSUME NEW r \in Releases, Take(r)
      PROVE  Agreement'
  BY <1>12 DEF Take, Agreement, GreenMeansPassed, CountAgreesWithPhase, Targets, Verdict,
     Unreported, Emitted, OutcomesAreDone, LoopIsComplete
<1>13. ASSUME NEW r \in Releases, NEW v \in StageVerdicts(Stage), NEW b \in {"TotalBudget", "Own"},
              WorkerReturns(r, v, b)
      PROVE  Agreement'
  <2>1. \A e \in Emitted' : ~ Closes(e)
    BY <1>13, WorkIsBeforeClosing DEF WorkerReturns, Returned, Emitted
  <2>2. GreenMeansPassed' /\ CountAgreesWithPhase'
    BY <2>1, QuietBefore
  <2> QED
    BY <1>13, <2>2, WorkIsBeforeClosing DEF WorkerReturns, Returned, Agreement, Targets,
       Unreported
<1>14. ASSUME NEW r \in Releases, NEW k \in Crashes, WorkerCrashes(r, k)
      PROVE  Agreement'
  <2>1. \A e \in Emitted' : ~ Closes(e)
    BY <1>14, WorkIsBeforeClosing DEF WorkerCrashes, Emitted
  <2>2. GreenMeansPassed' /\ CountAgreesWithPhase'
    BY <2>1, QuietBefore
  <2> QED
    BY <1>14, <2>2, WorkIsBeforeClosing DEF WorkerCrashes, Agreement, Targets, Unreported
<1>15. ASSUME Terminated, UNCHANGED fanoutVars
      PROVE  Agreement'
  BY <1>15 DEF fanoutVars, Agreement, GreenMeansPassed, CountAgreesWithPhase, AllGreen,
     Targets, Verdict, Failures, Unreported, Emitted
<1>16. CASE UNCHANGED fanoutVars
  BY <1>16 DEF fanoutVars, Agreement, GreenMeansPassed, CountAgreesWithPhase, AllGreen,
     Targets, Verdict, Failures, Unreported, Emitted
<1> QED
  BY <1>1, <1>2, <1>3, <1>4, <1>5, <1>6, <1>7, <1>8, <1>9, <1>10, <1>11, <1>12, <1>13,
     <1>14, <1>16 DEF Next, MainStep, WorkerStep, Terminated

-----------------------------------------------------------------------------
\* The second invariant holds when the run starts.
LEMMA AgreeingInitially == Init => Agreement
BY DEF Init, Agreement, GreenMeansPassed, CountAgreesWithPhase, Emitted

\* The second invariant holds in every state of every run.
LEMMA AgreementHolds == Spec => []Agreement
BY Initially, Inductive, AgreeingInitially, Agreeing, PTL DEF Spec

\* ROLLOUT_OK, HELM_TEST_OK and PROMOTED mean that every matched release passed and
\* that one of them did more than be suspended.
THEOREM GreenIsEarned == Spec => []GreenMeansPassed
<1>1. Agreement => GreenMeansPassed
  BY DEF Agreement
<1> QED
  BY <1>1, AgreementHolds, PTL

\* A terminal event's failure count agrees with its phase.
THEOREM CountsAgree == Spec => []CountAgreesWithPhase
<1>1. Agreement => CountAgreesWithPhase
  BY DEF Agreement
<1> QED
  BY <1>1, AgreementHolds, PTL

-----------------------------------------------------------------------------
(***************************************************************************)
(* What commands that implement the fan-out rely on.                       *)
(***************************************************************************)

\* The budget of a run only runs out.
LEMMA BudgetGrows ==
  ASSUME now \in 0 .. MaxTime, [Next]_fanoutVars
  PROVE  now' \in 0 .. MaxTime /\ now' >= now /\ (cancel => cancel')
<1>1. CASE Tick
  BY <1>1, FanoutAssumption DEF Tick
<1>2. CASE MainStep
  <2>1. ASSUME NEW r \in Releases, Consume(r) \/ ConsumeCrash(r) PROVE now' = now /\ (cancel => cancel')
    BY <2>1 DEF Consume, ConsumeCrash
  <2>2. ASSUME NEW ms \in Listings, Matched(ms) PROVE UNCHANGED <<now, cancel>>
    BY <2>2 DEF Matched
  <2>3. MatchingFails \/ Open \/ Drained \/ Join \/ Close \/ Return => UNCHANGED <<now, cancel>>
    BY DEF MatchingFails, Open, Drained, Join, Close, Return
  <2> QED
    BY <1>2, <2>1, <2>2, <2>3 DEF MainStep
<1>3. CASE Interrupt
  BY <1>3 DEF Interrupt
<1>4. ASSUME NEW r \in Releases, WorkerStep(r) PROVE UNCHANGED <<now, cancel>>
  BY <1>4, Zenon DEF WorkerStep, Take, WorkerReturns, Returned, WorkerCrashes
<1>5. CASE UNCHANGED fanoutVars
  BY <1>5 DEF fanoutVars
<1> QED
  BY <1>1, <1>2, <1>3, <1>4, <1>5 DEF Next, Terminated

\* A cancelled run has a reason to be: the deadline, an exception, or a failed
\* release that is reported and that nobody stopped.
Caused ==
  /\ cancel => \/ now >= TotalTimeout
               \/ raised # "None"
               \/ \E r \in Failures : result[r].blame = "Own"
  /\ \A r \in Releases :
       task[r] = "done" /\ result[r].blame = "TotalBudget" => Verdict(r) = "TIMED_OUT"

\* What was consumed as a failure stays one.
LEMMA FailuresStay ==
  ASSUME IInv, NEW r \in Failures, NEW q \in Releases, task[q] = "running",
         UNCHANGED outcomes, \A s \in Releases \ {q} : result'[s] = result[s]
  PROVE  r \in Failures' /\ result'[r] = result[r]
<1>1. r # q /\ r \in Releases
  BY DEF IInv, TypeOK, OutcomesAreDone, Failures
<1> QED
  BY <1>1 DEF Failures, Verdict

\* A step of the loop preserves the account of why a run was cancelled.
LEMMA CauseKept ==
  ASSUME IInv, Caused, [Next]_fanoutVars
  PROVE  Caused'
<1>0. now' \in Nat /\ now \in Nat /\ now' >= now /\ TotalTimeout \in Nat
  BY BudgetGrows, FanoutAssumption DEF IInv, TypeOK
<1>1. ASSUME NEW r \in Releases, Consume(r) PROVE Caused'
  <2>1. Failures \subseteq Failures' /\ UNCHANGED <<now, raised, result, task>>
    BY <1>1 DEF Consume, Failures, Verdict
  <2>2. CASE cancel \/ now >= TotalTimeout
    BY <2>1, <2>2 DEF Caused, Verdict
  <2>3. CASE ~cancel /\ ~(now >= TotalTimeout) /\ CancelOn(Verdict(r))
    <3>1. result[r].blame = "Own"
      BY <1>1, <2>3 DEF Consume, IInv, TypeOK, BlameIsJustified
    <3>2. r \in Failures'
      BY <1>1, <2>3 DEF Consume, CancelOn, Failures, Verdict, PassingVerdicts
    <3> QED
      BY <2>1, <3>1, <3>2 DEF Caused, Verdict
  <2>4. CASE ~cancel /\ ~(now >= TotalTimeout) /\ ~CancelOn(Verdict(r))
    <3>1. ~cancel'
      BY <1>1, <2>4 DEF Consume
    <3> QED
      BY <2>1, <3>1 DEF Caused, Verdict
  <2> QED
    BY <2>2, <2>3, <2>4
<1>2. ASSUME raised' # "None", UNCHANGED <<result, task>> PROVE Caused'
  BY <1>2 DEF Caused, Verdict
<1>3. ASSUME UNCHANGED <<cancel, raised, outcomes, result, task>> PROVE Caused'
  BY <1>0, <1>3 DEF Caused, Failures, Verdict
<1>4. ASSUME Open PROVE Caused'
  <2>1. \A r \in Releases : task'[r] # "done"
    BY <1>4 DEF Open, IInv, NothingYet
  <2>2. UNCHANGED <<now, cancel, raised, outcomes, result>>
    BY <1>4 DEF Open
  <2> QED
    BY <2>1, <2>2 DEF Caused, Failures, Verdict
<1>5. ASSUME NEW q \in Releases, WorkerStep(q) PROVE Caused'
  <2>1. UNCHANGED <<now, cancel, raised, outcomes>>
    BY <1>5 DEF WorkerStep, Take, WorkerReturns, Returned, WorkerCrashes
  <2>2. CASE Take(q)
    <3>1. UNCHANGED result /\ \A r \in Releases : task'[r] = "done" => task[r] = "done"
      BY <2>2 DEF Take, IInv, TypeOK
    <3> QED
      BY <2>1, <3>1 DEF Caused, Failures, Verdict
  <2>3. CASE ~Take(q)
    <3>1. /\ task[q] = "running"
          /\ \A s \in Releases \ {q} : result'[s] = result[s] /\ task'[s] = task[s]
          /\ result'[q].blame = "TotalBudget" => result'[q].verdict = "TIMED_OUT"
      BY <1>5, <2>3 DEF WorkerStep, WorkerReturns, Returned, WorkerCrashes, IInv, TypeOK
    <3>2. \A r \in Failures : r \in Failures' /\ result'[r] = result[r]
      BY <2>1, <3>1, FailuresStay
    <3>3. cancel' => \/ now' >= TotalTimeout
                     \/ raised' # "None"
                     \/ \E r \in Failures' : result'[r].blame = "Own"
      BY <2>1, <3>2 DEF Caused
    <3>4. \A r \in Releases :
            task'[r] = "done" /\ result'[r].blame = "TotalBudget" => result'[r].verdict = "TIMED_OUT"
      BY <3>1 DEF Caused, Verdict
    <3> QED
      BY <3>3, <3>4 DEF Caused, Verdict
  <2> QED
    BY <2>2, <2>3
<1>6. ASSUME NEW r \in Releases, ConsumeCrash(r) PROVE Caused'
  BY <1>2, <1>6 DEF ConsumeCrash
<1>7. ASSUME Interrupt PROVE Caused'
  BY <1>2, <1>7 DEF Interrupt
<1>8. ASSUME MatchingFails PROVE Caused'
  BY <1>2, <1>8 DEF MatchingFails
<1>9. ASSUME (\E ms \in Listings : Matched(ms)) \/ Drained \/ Join \/ Close \/ Return \/ Tick \/ Terminated
             \/ UNCHANGED fanoutVars
      PROVE  Caused'
  <2>1. UNCHANGED <<cancel, raised, outcomes, result, task>>
    BY <1>9 DEF Matched, Drained, Join, Close, Return, Tick, Terminated, fanoutVars
  <2> QED
    BY <1>3, <2>1
<1> QED
  BY <1>1, <1>4, <1>5, <1>6, <1>7, <1>8, <1>9 DEF Next, MainStep

\* A cancelled run always has its reason.
LEMMA CauseHolds == Spec => []Caused
<1>1. Init => Caused
  BY DEF Init, Caused
<1> QED
  BY <1>1, CauseKept, Invariance, PTL DEF Spec

\* run_matched: every run that comes back accounts for what it matched and for its budget.
THEOREM ResultsAreTrue == Spec => []ResultIsTrue
BY Accounting, BudgetReported, PTL DEF ResultIsTrue

\* telemetry.finished: the event that ends the interval is the last word, and a true one.
THEOREM TerminalEventsAreTrue == Spec => []TerminalEventIsTrue
BY ClosedLast, GreenIsEarned, CountsAgree, PTL DEF TerminalEventIsTrue
-----------------------------------------------------------------------------
(***************************************************************************)
(* That an interval is closed.                                             *)
(***************************************************************************)

\* A stage that ends with nothing to emit saw no failure, and only skips, or one
\* release that was not ready.
LEMMA SilentVerdicts ==
  ASSUME NEW stage \in Stages, NEW seen \in SUBSET StageVerdicts(stage), seen # {},
         TerminalPhases(stage, RunVerdict(seen, Success(stage))) = << >>
  PROVE  /\ seen \intersect {"FAILED", "TIMED_OUT"} = {}
         /\ seen = {"SKIPPED_SUSPENDED"} \/ "SKIPPED_NOT_READY" \in seen
<1> DEFINE v == RunVerdict(seen, Success(stage))
<1>1. v \notin {"FAILED", "TIMED_OUT", Success(stage)}
  BY DEF TerminalPhases, Success, Stages
<1>2. DOMAIN Severity = 1 .. 4
  BY DEF Severity
<1>3. CASE Bad(seen) = {}
  <2>1. v = IF seen = {"SKIPPED_SUSPENDED"} THEN "SKIPPED_SUSPENDED" ELSE Success(stage)
    BY <1>3 DEF RunVerdict
  <2> QED
    BY <1>1, <2>1
<1>4. CASE Bad(seen) # {}
  <2>1. PICK i \in Bad(seen) : v = Severity[i] /\ \A j \in Bad(seen) : i <= j
    <3>1. Bad(seen) # {} /\ Bad(seen) \subseteq 1 .. 4
      BY <1>2, <1>4 DEF Bad
    <3>2. \E i \in Bad(seen) : \A j \in Bad(seen) : i <= j
      BY <3>1
    <3> QED
      BY <1>4, <3>2 DEF RunVerdict
  <2>2. Severity[1] = "FAILED" /\ Severity[2] = "TIMED_OUT" /\ Severity[3] = "NO_MATCH"
        /\ Severity[4] = "SKIPPED_NOT_READY"
    BY DEF Severity
  <2>3. "NO_MATCH" \notin seen
    BY DEF StageVerdicts
  <2>4. i = 4
    BY <1>1, <1>2, <2>1, <2>2, <2>3 DEF Bad
  <2>5. 1 \notin Bad(seen) /\ 2 \notin Bad(seen) /\ 4 \in Bad(seen)
    BY <2>1, <2>4
  <2> QED
    BY <1>2, <2>2, <2>5 DEF Bad
<1> QED
  BY <1>3, <1>4

\* No stage ends with the phase that it starts with, and a failure always has one.
LEMMA TerminalIsNotStart ==
  ASSUME NEW stage \in Stages, NEW verdict
  PROVE  /\ \A i \in DOMAIN TerminalPhases(stage, verdict) :
              TerminalPhases(stage, verdict)[i] # StartPhase(stage)
         /\ TerminalPhases(stage, "FAILED") # << >>
<1>1. \A i \in DOMAIN TerminalPhases(stage, verdict) :
        TerminalPhases(stage, verdict)[i] \in GreenPhases \union {"ABANDONED", "HELM_TEST_FAILED"}
  <2>1. TerminalPhases(stage, verdict)
          \in {<<"ROLLOUT_OK">>, <<"ABANDONED">>, <<"HELM_TEST_OK", "PROMOTED">>,
               <<"HELM_TEST_FAILED">>, << >>}
    BY DEF TerminalPhases, Stages
  <2>2. \A s \in {<<"ROLLOUT_OK">>, <<"ABANDONED">>, <<"HELM_TEST_OK", "PROMOTED">>,
                  <<"HELM_TEST_FAILED">>, << >>} :
          s \in Seq(GreenPhases \union {"ABANDONED", "HELM_TEST_FAILED"})
    BY ShortSequences DEF GreenPhases
  <2> QED
    BY <2>1, <2>2
<1>2. StartPhase(stage) \notin GreenPhases \union {"ABANDONED", "HELM_TEST_FAILED"}
  BY DEF StartPhase, GreenPhases
<1>3. TerminalPhases(stage, "FAILED") # << >>
  BY DEF TerminalPhases, Stages
<1> QED
  BY <1>1, <1>2, <1>3

\* What has been emitted stays, and a run that emits has the event it was asked for.
LEMMA EmitAdds ==
  ASSUME events \in Seq(Event), NEW phase, NEW failures, Emit(phase, failures)
  PROVE  /\ Emitted \subseteq Emitted'
         /\ Emits => \E e \in Emitted' : e.phase = phase
         /\ ~Emits => UNCHANGED events
<1>1. CASE Emits
  <2>1. PICK written \in BOOLEAN :
          events' = Append(events, [phase |-> phase, failures |-> failures, written |-> written])
    BY <1>1 DEF Emit
  <2> DEFINE e == [phase |-> phase, failures |-> failures, written |-> written]
  <2> HIDE DEF e
  <2>2. events' = Append(events, e)
    BY <2>1 DEF e
  <2>3. Len(events) + 1 \in DOMAIN events' /\ events'[Len(events) + 1] = e
    BY <2>2
  <2>4. \A i \in DOMAIN events : i \in DOMAIN events' /\ events'[i] = events[i]
    BY <2>2
  <2>5. e.phase = phase
    BY DEF e
  <2> QED
    BY <1>1, <2>3, <2>4, <2>5 DEF Emitted
<1>2. CASE ~Emits
  BY <1>2 DEF Emit, Emitted
<1> QED
  BY <1>1, <1>2

\* What the main thread still owes the timeline: a run that emits opens the interval
\* first, and comes to the end of closing it with a terminal event, or inconclusive.
Owing ==
  /\ ~Emits => events = << >>
  /\ main \in {"matching", "opening"} => events = << >>
  /\ main = "closing" => \A i \in DOMAIN closing : closing[i] # StartPhase(Stage)
  /\ main = "closing" /\ closing = << >> =>
       ~Emits \/ (\E e \in Emitted : Closes(e)) \/ Inconclusive
  /\ IntervalClosed

\* Every step keeps what is owed.
LEMMA StillOwing == IInv /\ Agreement /\ Owing /\ [Next]_fanoutVars => Owing'
<1> SUFFICES ASSUME IInv, Agreement, Owing, [Next]_fanoutVars
             PROVE  Owing'
  OBVIOUS
<1>1. ASSUME UNCHANGED <<main, closing, events, raised, outcomes, result>>
      PROVE  Owing'
  BY <1>1 DEF Owing, IntervalClosed, Inconclusive, Verdict, Emitted
<1>2. ASSUME main' \notin {"matching", "opening", "closing", "done"}, UNCHANGED events
      PROVE  Owing'
  BY <1>2 DEF Owing, IntervalClosed
<1>3. ASSUME NEW ms \in Listings, Matched(ms)
      PROVE  Owing'
  <2>1. events' = << >> /\ main' \in {"opening", "done"}
    BY <1>3 DEF Matched, Owing
  <2> QED
    BY <2>1 DEF Owing, IntervalClosed, Emitted
<1>4. ASSUME MatchingFails
      PROVE  Owing'
  <2>1. events' = << >> /\ main' = "done"
    BY <1>4 DEF MatchingFails, Owing
  <2> QED
    BY <2>1 DEF Owing, IntervalClosed, Emitted
<1>5. ASSUME Open
      PROVE  Owing'
  <2>1. main' = "waiting" /\ (~Emits => UNCHANGED events)
    BY <1>5, EmitAdds DEF Open, IInv, TypeOK
  <2> QED
    BY <2>1 DEF Owing, IntervalClosed
<1>6. ASSUME NEW r \in Releases, Consume(r)
      PROVE  Owing'
  BY <1>2, <1>6 DEF Consume
<1>7. ASSUME NEW r \in Releases, ConsumeCrash(r)
      PROVE  Owing'
  BY <1>2, <1>7 DEF ConsumeCrash
<1>8. ASSUME Drained
      PROVE  Owing'
  BY <1>2, <1>8 DEF Drained
<1>9. ASSUME Join
      PROVE  Owing'
  <2>1. UNCHANGED <<events, raised, outcomes, result>>
    BY <1>9 DEF Join
  <2>2. CASE raised = "None"
    <3> DEFINE seen == {Verdict(r) : r \in outcomes}
    <3>1. closing' = TerminalPhases(Stage, RunVerdict(seen, Success(Stage))) /\ main' = "closing"
      BY <1>9, <2>2 DEF Join
    <3>2. seen # {} /\ seen \in SUBSET StageVerdicts(Stage)
      BY <1>9, <2>2 DEF Join, Agreement, IInv, LoopIsComplete, OutcomesAreDone
    <3>3. \A i \in DOMAIN closing' : closing'[i] # StartPhase(Stage)
      BY <3>1, TerminalIsNotStart, FanoutAssumption
    <3>4. closing' = << >> => /\ seen \intersect {"FAILED", "TIMED_OUT"} = {}
                              /\ seen = {"SKIPPED_SUSPENDED"} \/ "SKIPPED_NOT_READY" \in seen
      BY <3>1, <3>2, SilentVerdicts, FanoutAssumption
    <3>5. closing' = << >> => Inconclusive'
      BY <2>1, <2>2, <3>4 DEF Inconclusive, Verdict
    <3> QED
      BY <2>1, <3>1, <3>3, <3>5 DEF Owing, IntervalClosed
  <2>3. CASE raised = "Error"
    <3>1. closing' = TerminalPhases(Stage, "FAILED") /\ main' = "closing"
      BY <1>9, <2>3 DEF Join
    <3>2. closing' # << >> /\ \A i \in DOMAIN closing' : closing'[i] # StartPhase(Stage)
      BY <3>1, TerminalIsNotStart, FanoutAssumption
    <3> QED
      BY <2>1, <3>1, <3>2 DEF Owing, IntervalClosed
  <2>4. CASE raised = "Interrupt"
    BY <1>9, <2>1, <2>4 DEF Join, Owing, IntervalClosed
  <2> QED
    BY <1>9, <2>2, <2>3, <2>4 DEF Join
<1>10. ASSUME Close
      PROVE  Owing'
  <2>1. main = "closing" /\ closing # << >> /\ UNCHANGED <<main, raised>>
    BY <1>10 DEF Close
  <2>2. 1 \in DOMAIN closing /\ closing[1] = Head(closing)
        /\ \A i \in DOMAIN closing' : i + 1 \in DOMAIN closing /\ closing'[i] = closing[i + 1]
    BY <1>10 DEF Close, IInv, TypeOK
  <2>3. /\ Emits => \E e \in Emitted' : Closes(e)
        /\ ~Emits => UNCHANGED events
    BY <1>10, <2>1, <2>2, EmitAdds DEF Close, Owing, Closes, IInv, TypeOK
  <2> QED
    BY <2>1, <2>2, <2>3 DEF Owing, IntervalClosed
<1>11. ASSUME Return
      PROVE  Owing'
  <2>1. ~Emits => Emitted = {}
    BY DEF Owing, Emitted
  <2> QED
    BY <1>11, <2>1 DEF Return, Owing, IntervalClosed, Inconclusive, Verdict, Emitted
<1>12. ASSUME Interrupt
      PROVE  Owing'
  BY <1>12 DEF Interrupt, Owing, IntervalClosed
<1>13. ASSUME NEW q \in Releases, WorkerStep(q)
      PROVE  Owing'
  <2>1. UNCHANGED <<main, closing, events, raised, outcomes>>
    BY <1>13 DEF WorkerStep, Take, WorkerReturns, Returned, WorkerCrashes
  <2>2. q \notin outcomes
    BY <1>13 DEF WorkerStep, Take, WorkerReturns, Returned, WorkerCrashes, IInv, OutcomesAreDone
  <2>3. \A s \in Releases \ {q} : result'[s] = result[s]
    BY <1>13 DEF WorkerStep, Take, WorkerReturns, Returned, WorkerCrashes, IInv, TypeOK
  <2>4. \A r \in outcomes : Verdict(r)' = Verdict(r)
    BY <2>2, <2>3 DEF Verdict, IInv, TypeOK
  <2>5. Inconclusive => Inconclusive'
    BY <2>1, <2>4 DEF Inconclusive
  <2> QED
    BY <2>1, <2>5 DEF Owing, IntervalClosed, Emitted
<1>14. ASSUME Tick \/ Terminated \/ UNCHANGED fanoutVars
      PROVE  Owing'
  BY <1>1, <1>14 DEF Tick, Terminated, fanoutVars
<1> QED
  BY <1>3, <1>4, <1>5, <1>6, <1>7, <1>8, <1>9, <1>10, <1>11, <1>12, <1>13, <1>14
     DEF Next, MainStep

\* Nothing is owed when the run starts.
LEMMA OwingInitially == Init => Owing
BY DEF Init, Owing, IntervalClosed, Emitted

\* PromotionTelemetry: every interval is closed, except by a Ctrl-C or an inconclusive run.
THEOREM IntervalsAreClosed == Spec => []IntervalClosed
<1>1. Owing => IntervalClosed
  BY DEF Owing
<1> QED
  BY <1>1, OwingInitially, StillOwing, Invariance, AgreementHolds, PTL DEF Spec
=============================================================================
