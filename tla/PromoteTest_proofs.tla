------------------------- MODULE PromoteTest_proofs -------------------------
\* What promote test guarantees for any number of releases, pods and budgets, proved
\* from one inductive invariant (TInv); the refinement brings in what Fanout_proofs shows.
EXTENDS PromoteTest, Fanout_proofs

\* What a tester concluded keeps the contract of a worker.
Contract ==
  \A r \in Releases :
    pc[r] = "finalize" =>
      /\ verdict[r].verdict \in StageVerdicts(Stage)
      /\ verdict[r].blame = "TotalBudget" =>
           verdict[r].verdict = "TIMED_OUT" /\ (cancel \/ now >= TotalTimeout)

\* The reaping knows of every pod that is left, but those that came after its listing.
Swept ==
  \A r \in Releases : \A p \in PodNames \ taken[r] :
    /\ pc[r] = "delete" =>
         \/ pods[r][p] = "Absent"
         \/ pods[r][p] = "Stale" /\ p \in stale[r] \union residual[r]
    /\ pc[r] \in {"launch", "helm"} => pods[r][p] = "Absent"

TInv ==
  /\ TestTypeOK
  /\ now \in 0 .. MaxTime
  /\ verdict \in [Releases -> [verdict : StageVerdicts(Stage) \union {"Pending"},
                               blame : {"TotalBudget", "Own"}]]
  /\ Contract
  /\ Swept

Labels == {"idle", "list", "delete", "launch", "helm", "tests", "finalize", "over"}

\* What the testers conclude is well-typed, and keeps the contract.
Concluded ==
  /\ pc \in [Releases -> Labels]
  /\ verdict \in [Releases -> [verdict : StageVerdicts(Stage) \union {"Pending"},
                               blame : {"TotalBudget", "Own"}]]
  /\ Contract

\* A tester that concludes with a justified verdict keeps the contract (_sync_test_hr).
LEMMA StopConcludes ==
  ASSUME Concluded, UNCHANGED <<now, cancel>>, NEW r \in Releases, NEW v \in StageVerdicts(Stage),
         NEW b \in {"TotalBudget", "Own"}, Stop(r, v, b),
         b = "TotalBudget" => v = "TIMED_OUT" /\ (cancel \/ now >= TotalTimeout)
  PROVE  Concluded'
<1>1. pc' \in [Releases -> Labels]
  BY DEF Concluded, Stop, GoTo, Labels
<1>2. verdict' \in [Releases -> [verdict : StageVerdicts(Stage) \union {"Pending"},
                               blame : {"TotalBudget", "Own"}]]
  BY DEF Concluded, Stop
<1>3. ASSUME NEW s \in Releases, pc'[s] = "finalize"
      PROVE  /\ verdict'[s].verdict \in StageVerdicts(Stage)
             /\ verdict'[s].blame = "TotalBudget" =>
                  verdict'[s].verdict = "TIMED_OUT" /\ (cancel \/ now >= TotalTimeout)
  <2>1. CASE s = r
    BY <2>1 DEF Concluded, Stop
  <2>2. CASE s # r
    BY <1>3, <2>2 DEF Concluded, Stop, GoTo, Contract
  <2> QED
    BY <2>1, <2>2
<1> QED
  BY <1>1, <1>2, <1>3 DEF Concluded, Contract

\* A tester that moves on without concluding keeps the contract.
LEMMA GoToConcludes ==
  ASSUME Concluded, UNCHANGED <<now, cancel, verdict>>, NEW r \in Releases,
         NEW label \in Labels \ {"finalize"}, GoTo(r, label)
  PROVE  Concluded'
BY DEF Concluded, GoTo, Contract, Labels

\* A tester that is over keeps the contract.
LEMMA LeaveConcludes ==
  ASSUME Concluded, UNCHANGED <<now, cancel>>, NEW r \in Releases, Leave(r)
  PROVE  Concluded'
<1>1. pc' \in [Releases -> Labels]
  BY DEF Concluded, Leave, GoTo, Labels
<1>2. verdict' \in [Releases -> [verdict : StageVerdicts(Stage) \union {"Pending"},
                               blame : {"TotalBudget", "Own"}]]
  <2>1. Pending \in [verdict : StageVerdicts(Stage) \union {"Pending"}, blame : {"TotalBudget", "Own"}]
    BY DEF Pending
  <2> QED
    BY <2>1 DEF Concluded, Leave
<1>3. Contract'
  BY DEF Concluded, Leave, GoTo, Contract
<1> QED
  BY <1>1, <1>2, <1>3 DEF Concluded

\* Whatever step of _sync_test_hr a tester takes, the contract is kept.
LEMMA TesterConcludes ==
  ASSUME TInv, NEW r \in Releases, TesterStep(r), UNCHANGED <<now, cancel>>
  PROVE  Concluded'
<1>0. Concluded
  BY DEF Concluded, TInv, TestTypeOK, Labels
<1>a. {"PASSED", "FAILED", "TIMED_OUT", "SKIPPED_SUSPENDED", "SKIPPED_NOT_READY"} = StageVerdicts(Stage)
  BY TestAssumption DEF StageVerdicts
<1>b. ASSUME Stop(r, "FAILED", "Own") \/ Stop(r, "PASSED", "Own") \/ Stop(r, "SKIPPED_SUSPENDED", "Own")
             \/ Stop(r, "SKIPPED_NOT_READY", "Own") \/ Stop(r, "TIMED_OUT", "Own")
      PROVE  Concluded'
  BY <1>b, <1>0, <1>a, StopConcludes
<1>c. ASSUME cancel \/ now >= TotalTimeout, OutOfBudget(r)
      PROVE  Concluded'
  BY <1>c, <1>0, <1>a, StopConcludes DEF OutOfBudget
<1>d. ASSUME Proceed(r, "list") \/ Proceed(r, "delete") \/ Proceed(r, "launch") \/ Proceed(r, "helm")
             \/ Proceed(r, "tests") \/ (GoTo(r, "over") /\ UNCHANGED verdict)
      PROVE  Concluded'
  <2>1. {"list", "delete", "launch", "helm", "tests", "over"} \subseteq Labels \ {"finalize"}
    BY DEF Labels
  <2> QED
    BY <1>d, <1>0, <2>1, GoToConcludes DEF Proceed
<1>1. CASE StartTest(r)
  BY <1>1, <1>b, <1>c, <1>d DEF StartTest, TotalSpent
<1>2. CASE ListPods(r)
  BY <1>2, <1>b, <1>d DEF ListPods
<1>3. CASE DeletePod(r)
  BY <1>3, <1>0 DEF DeletePod, Concluded, Contract
<1>4. CASE Reaped(r)
  BY <1>4, <1>b, <1>c, <1>d DEF Reaped, TotalSpent
<1>5. CASE Launch(r)
  <2>1. Least(PerHR + Slack, TotalTimeout - now) <= 0 => now >= TotalTimeout
    BY TestAssumption, FanoutAssumption DEF Least, TInv
  <2> QED
    BY <1>5, <2>1, <1>c, <1>d DEF Launch
<1>6. CASE HelmCreates(r)
  BY <1>6, <1>b, <1>d DEF HelmCreates
<1>7. CASE HelmAnswers(r)
  BY <1>7, <1>b DEF HelmAnswers
<1>8. CASE HelmTimesOut(r)
  BY <1>8, <1>b, <1>c DEF HelmTimesOut, OutOfBudget
<1>9. CASE Finalize(r)
  BY <1>9, <1>0, LeaveConcludes DEF Finalize
<1>10. CASE Crash(r)
  BY <1>10, <1>0, LeaveConcludes DEF Crash
<1> QED
  BY <1>1, <1>2, <1>3, <1>4, <1>5, <1>6, <1>7, <1>8, <1>9, <1>10 DEF TesterStep, ThreadStep

\* A step of a tester preserves the whole invariant of promote test.
LEMMA TesterKeeps ==
  ASSUME TInv, NEW r \in Releases, TesterStep(r)
  PROVE  TInv'
<1>0. UNCHANGED <<now, cancel>>
  BY DEF TesterStep, ThreadStep, StartTest, ListPods, DeletePod, Reaped, Launch, HelmCreates,
      HelmAnswers, HelmTimesOut, Finalize, Crash, Leave, Take, Returned, WorkerCrashes, fanoutVars
<1>1. Concluded'
  BY <1>0, TesterConcludes
<1>2. /\ status' \in [Releases -> TestStatuses]
      /\ stale' \in [Releases -> SUBSET PodNames]
      /\ residual' \in [Releases -> SUBSET PodNames]
      /\ taken' \in [Releases -> SUBSET PodNames]
      /\ pods' \in [Releases -> [PodNames -> {"Absent", "Stale", "Ours", "Theirs"}]]
  <2> USE DEF TInv, TestTypeOK
  <2>1. CASE ListPods(r)
    <3>1. UNCHANGED <<status, residual, taken, pods>>
      BY <2>1 DEF ListPods
    <3>2. stale' = stale \/ stale' = [stale EXCEPT ![r] = {p \in PodNames : pods[r][p] = "Stale"}]
      BY <2>1 DEF ListPods
    <3>3. {p \in PodNames : pods[r][p] = "Stale"} \in SUBSET PodNames
      OBVIOUS
    <3>4. stale' \in [Releases -> SUBSET PodNames]
      BY <3>2, <3>3
    <3> QED
      BY <3>1, <3>4
  <2>2. CASE DeletePod(r)
    <3>1. PICK p \in stale[r] :
            /\ stale' = [stale EXCEPT ![r] = @ \ {p}]
            /\ residual' = residual \/ residual' = [residual EXCEPT ![r] = @ \union {p}]
            /\ pods' = pods \/ pods' = [pods EXCEPT ![r][p] = "Absent"]
      BY <2>2 DEF DeletePod
    <3>2. p \in PodNames
      BY <3>1
    <3>3. stale' \in [Releases -> SUBSET PodNames]
      BY <3>1
    <3>4. residual' \in [Releases -> SUBSET PodNames]
      <4>1. residual[r] \union {p} \in SUBSET PodNames
        BY <3>2
      <4> QED
        BY <3>1, <4>1
    <3>5. pods' \in [Releases -> [PodNames -> {"Absent", "Stale", "Ours", "Theirs"}]]
      <4>1. [pods[r] EXCEPT ![p] = "Absent"] \in [PodNames -> {"Absent", "Stale", "Ours", "Theirs"}]
        BY <3>2
      <4> QED
        BY <3>1, <4>1
    <3> QED
      BY <2>2, <3>3, <3>4, <3>5 DEF DeletePod
  <2>3. CASE HelmCreates(r)
    <3>1. UNCHANGED <<status, stale, residual, taken>>
      BY <2>3 DEF HelmCreates, TesterStep, ThreadStep
    <3>2. pods' = pods \/ pods' = [pods EXCEPT ![r] = [p \in PodNames |-> "Ours"]]
      BY <2>3 DEF HelmCreates
    <3>3. [p \in PodNames |-> "Ours"] \in [PodNames -> {"Absent", "Stale", "Ours", "Theirs"}]
      OBVIOUS
    <3>4. pods' \in [Releases -> [PodNames -> {"Absent", "Stale", "Ours", "Theirs"}]]
      BY <3>2, <3>3
    <3> QED
      BY <3>1, <3>4
  <2>5. CASE Leave(r)
    BY <2>5 DEF Leave
  <2>4. CASE ~(ListPods(r) \/ DeletePod(r) \/ HelmCreates(r) \/ Leave(r))
    <3>1. UNCHANGED <<status, stale, residual, taken, pods>>
      BY <2>4 DEF TesterStep, ThreadStep, StartTest, Reaped, Launch, HelmAnswers, HelmTimesOut,
         Finalize, Crash
    <3> QED
      BY <3>1
  <2> QED
    BY <2>1, <2>2, <2>3, <2>4, <2>5
<1>4. killAt' \in [Releases -> 0 .. TotalTimeout]
  <2>1. CASE Launch(r)
    <3> DEFINE cap == Least(PerHR + Slack, TotalTimeout - now)
    <3>1. cap > 0 => now + cap \in 0 .. TotalTimeout
      BY TestAssumption, FanoutAssumption DEF Least, TInv
    <3>2. killAt' = killAt \/ (cap > 0 /\ killAt' = [killAt EXCEPT ![r] = now + cap])
      BY <2>1 DEF Launch
    <3> HIDE DEF cap
    <3> QED
      BY <3>1, <3>2 DEF TInv, TestTypeOK
  <2>3. CASE Leave(r)
    BY <2>3, FanoutAssumption DEF Leave, TInv, TestTypeOK
  <2>2. CASE ~(Launch(r) \/ Leave(r))
    <3>1. UNCHANGED killAt
      BY <2>2 DEF TesterStep, ThreadStep, StartTest, ListPods, DeletePod, Reaped, HelmCreates,
                  HelmAnswers, HelmTimesOut, Finalize, Crash
    <3> QED
      BY <3>1 DEF TInv, TestTypeOK
  <2> QED
    BY <2>1, <2>2, <2>3
<1>5. ASSUME NEW s \in Releases, NEW p \in PodNames \ taken'[s]
      PROVE  /\ pc'[s] = "delete" =>
                  \/ pods'[s][p] = "Absent"
                  \/ pods'[s][p] = "Stale" /\ p \in stale'[s] \union residual'[s]
             /\ pc'[s] \in {"launch", "helm"} => pods'[s][p] = "Absent"
  <2> USE DEF TInv, TestTypeOK, GoTo, Proceed, Stop, OutOfBudget
  <2>0. ASSUME s # r PROVE UNCHANGED <<pc[s], pods[s], stale[s], residual[s], taken[s]>>
    BY <2>0 DEF TesterStep, ThreadStep, StartTest, ListPods, DeletePod, Reaped, Launch,
       HelmCreates, HelmAnswers, HelmTimesOut, Finalize, Crash, Leave
  <2>a. CASE s # r
    BY <2>a, <2>0, <1>5 DEF Swept
  <2>1. CASE s = r /\ (StartTest(r) \/ HelmAnswers(r) \/ HelmTimesOut(r) \/ Finalize(r) \/ Crash(r))
    BY <2>1 DEF StartTest, HelmAnswers, HelmTimesOut, Finalize, Crash, Leave
  <2>2. CASE s = r /\ ListPods(r)
    BY <2>2 DEF ListPods, LivePods
  <2>3. CASE s = r /\ DeletePod(r)
    BY <2>3, <1>5 DEF DeletePod, Swept
  <2>4. CASE s = r /\ Reaped(r)
    BY <2>4, <1>5 DEF Reaped, Swept
  <2>5. CASE s = r /\ Launch(r)
    BY <2>5, <1>5 DEF Launch, Swept
  <2>6. CASE s = r /\ HelmCreates(r)
    BY <2>6 DEF HelmCreates
  <2> QED
    BY <2>a, <2>1, <2>2, <2>3, <2>4, <2>5, <2>6 DEF TesterStep, ThreadStep
<1>6. Swept'
  BY <1>5 DEF Swept
<1> QED
  BY <1>0, <1>1, <1>2, <1>4, <1>6 DEF TInv, TestTypeOK, Concluded, Labels

\* Every step of promote test is a step of _drive_fan_out or invisible to it.
LEMMA StepMaps ==
  ASSUME TInv, [TestNext]_vars
  PROVE  [Next]_fanoutVars
<1> USE DEF TInv
<1>1. CASE Tick \/ TestMainStep \/ Interrupt \/ Terminated \/ UNCHANGED vars
  BY <1>1 DEF Next, TestMainStep, vars
<1>2. ASSUME NEW r \in Releases, TesterStep(r) PROVE [Next]_fanoutVars
  <2>1. CASE Finalize(r)
    <3>1. WorkerReturns(r, verdict[r].verdict, verdict[r].blame)
      BY <2>1 DEF Finalize, Contract, WorkerReturns
    <3>2. verdict[r].blame \in {"TotalBudget", "Own"} /\ verdict[r].verdict \in StageVerdicts(Stage)
      BY <2>1 DEF Finalize, Contract
    <3> QED
      BY <3>1, <3>2 DEF Next, WorkerStep
  <2>2. CASE Crash(r)
    BY <2>2 DEF Crash, Next, WorkerStep, Crashes
  <2>3. CASE StartTest(r)
    BY <2>3 DEF StartTest, Next, WorkerStep
  <2> QED
    BY <1>2, <2>1, <2>2, <2>3 DEF TesterStep, ThreadStep, ListPods, DeletePod, Reaped, Launch,
       HelmCreates, HelmAnswers, HelmTimesOut
<1>3. ASSUME NEW r \in Releases, PodEnds(r) \/ OtherRun(r) PROVE UNCHANGED fanoutVars
  BY <1>3 DEF PodEnds, OtherRun
<1> QED
  BY <1>1, <1>2, <1>3 DEF TestNext

\* The invariant of promote test is inductive.
LEMMA TestersInductive ==
  ASSUME TInv, [TestNext]_vars
  PROVE  TInv'
<1>0. now' \in 0 .. MaxTime /\ now' >= now /\ (cancel => cancel')
  BY StepMaps, BudgetGrows DEF TInv
<1>1. CASE UNCHANGED testVars
  BY <1>0, <1>1, FanoutAssumption DEF TInv, TestTypeOK, Contract, Swept, testVars
<1>2. CASE \E r \in Releases : TesterStep(r)
  BY <1>2, TesterKeeps
<1>3. ASSUME NEW r \in Releases, PodEnds(r) PROVE TInv'
  BY <1>3 DEF PodEnds, TInv, TestTypeOK, Contract, Swept, LivePods, fanoutVars
<1>4. ASSUME NEW r \in Releases, OtherRun(r) PROVE TInv'
  BY <1>4 DEF OtherRun, TInv, TestTypeOK, Contract, Swept, fanoutVars
<1> QED
  BY <1>1, <1>2, <1>3, <1>4 DEF TestNext, TestMainStep, vars

\* Promote test starts in its invariant, and as _drive_fan_out starts.
LEMMA TestersInitially == TestInit => TInv /\ Init
BY TestAssumption, FanoutAssumption DEF TestInit, Init, Pending, TInv, TestTypeOK, Contract,
   Swept

\* The invariant of promote test holds in every state of every run.
LEMMA TestersInvariant == TestSpec => []TInv
BY TestersInitially, TestersInductive, PTL DEF TestSpec

\* Type correctness of promote test: pods, stale sets, kill times and verdicts.
THEOREM TestTypeCorrect == TestSpec => []TestTypeOK
BY TestersInvariant, PTL DEF TInv

\* Promote test implements _drive_fan_out: _sync_test_hr answers as the loop expects
\* of a worker, so every theorem about Fanout holds of this command.
THEOREM TestImplements == TestSpec => ImplementsFanout
BY TestersInitially, TestersInvariant, StepMaps, PTL DEF TestSpec, Spec, ImplementsFanout

\* promote test only launches helm when _reap_stale_test_pods left none of the pods in its
\* way that it had listed: what is still there was started by somebody else since.
THEOREM SlateStaysSwept == TestSpec => []SlateIsSwept
<1>1. TInv => SlateIsSwept
  BY DEF TInv, Swept, SlateIsSwept
<1> QED
  BY <1>1, TestersInvariant, PTL

\* A step of promote test leaves the pod of a live test alone that it could have listed,
\* except that the pod may end by itself.
LEMMA ListedAreSpared ==
  ASSUME TInv, [TestNext]_vars, NEW r \in Releases, NEW p \in PodNames \ taken[r],
         pods[r][p] = "Theirs"
  PROVE  pods'[r][p] \in {"Theirs", "Stale"}
<1>1. CASE UNCHANGED pods
  BY <1>1
<1>2. ASSUME NEW s \in Releases, DeletePod(s) PROVE pods'[r][p] = "Theirs"
  <2>1. s = r => pods[r][p] # "Theirs"
    BY <1>2 DEF DeletePod, TInv, Swept
  <2>2. PICK q \in stale[s] : pods' = pods \/ pods' = [pods EXCEPT ![s][q] = "Absent"]
    BY <1>2 DEF DeletePod
  <2> QED
    BY <1>2, <2>1, <2>2 DEF TInv, TestTypeOK
<1>3. ASSUME NEW s \in Releases, HelmCreates(s) PROVE pods'[r][p] = "Theirs"
  <2>1. s = r => pods[r][p] # "Theirs"
    BY <1>3 DEF HelmCreates, TInv, Swept
  <2> QED
    BY <1>3, <2>1 DEF HelmCreates, TInv, TestTypeOK
<1>4. ASSUME NEW s \in Releases, PodEnds(s) PROVE pods'[r][p] \in {"Theirs", "Stale"}
  BY <1>4 DEF PodEnds, TInv, TestTypeOK, LivePods
<1>5. ASSUME NEW s \in Releases, OtherRun(s) PROVE pods'[r][p] = "Theirs"
  BY <1>5 DEF OtherRun, TInv, TestTypeOK
<1>6. ASSUME NEW s \in Releases, TesterStep(s), ~DeletePod(s), ~HelmCreates(s) PROVE UNCHANGED pods
  BY <1>6 DEF TesterStep, ThreadStep, StartTest, ListPods, Reaped, Launch, HelmAnswers,
     HelmTimesOut, Finalize, Crash, Leave
<1> QED
  BY <1>1, <1>2, <1>3, <1>4, <1>5, <1>6 DEF TestNext, TestMainStep, testVars, vars

\* No test that ran when a release's pods were listed is deleted or replaced by this run,
\* whatever others start and whichever call fails; a test that took its name after the
\* listing is the exception, as the deletes go by name.
THEOREM ListedTestsAreSpared == TestSpec => [][SparesLiveTests]_vars
<1>1. TInv /\ [TestNext]_vars =>
        [\A r \in Releases, p \in PodNames :
           pods[r][p] = "Theirs" /\ p \notin taken[r] => pods'[r][p] \in {"Theirs", "Stale"}]_vars
  BY ListedAreSpared
<1> QED
  BY <1>1, TestersInvariant, PTL DEF TestSpec, SparesLiveTests

\* Beside other runs of the same tests, the reaping leaves nothing in helm's way that it
\* had listed and costs nobody a test that it could have seen.
THEOREM ReapingIsHarmless == TestSpec => ReapingIsSafe
<1>1. SlateIsSwept' /\ [SparesLiveTests]_vars => [SparesLiveTests /\ SlateIsSwept']_vars
  OBVIOUS
<1> QED
  BY <1>1, SlateStaysSwept, ListedTestsAreSpared, PTL DEF ReapingIsSafe
=============================================================================
