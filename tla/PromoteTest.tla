---------------------------- MODULE PromoteTest ----------------------------
(***************************************************************************)
(* `promote test` (commands/promote/test.py): the fan-out of Fanout with   *)
(* its real workers.  A tester takes one HelmRelease through preflight,    *)
(* the reaping of test pods that earlier runs left behind, and `helm       *)
(* test`, under the total budget.                                          *)
(*                                                                         *)
(* A test pod of a release is known by its name.  It is Absent, Stale      *)
(* (Succeeded or Failed), or live, started by this run (Ours) or by        *)
(* somebody else (Theirs).  What a live pod does, what `helm test` answers *)
(* and when somebody else starts these tests, between two calls of this    *)
(* run as at any other time, are up to the cluster.                        *)
(***************************************************************************)
EXTENDS Fanout

CONSTANTS
  PodNames,      \* the test pods of a release
  TestStatuses,  \* statuses that a matched release can have
  PerHR,         \* helm's --timeout
  Slack,         \* what the subprocess gets beyond it
  MaxTaken       \* bound on the tests that others start

ASSUME TestAssumption ==
  /\ Stage = "HELM_TEST"
  /\ ~FailFast
  /\ TestStatuses \subseteq [suspended : BOOLEAN, released : BOOLEAN, lagging : BOOLEAN]
  /\ PerHR \in Nat \ {0} /\ Slack \in Nat
  /\ TotalTimeout >= PerHR
  /\ MaxTime >= TotalTimeout
  /\ MaxTaken \in Nat

VARIABLES
  pc,        \* where each tester is
  status,    \* ctx.initial_status
  pods,      \* the test pods of each release, in the cluster
  stale,     \* stale pods the tester has still to delete
  residual,  \* stale pods it could not delete
  taken,     \* history: names that somebody else took since the tester listed the pods
  killAt,    \* when the helm subprocess is killed
  verdict    \* the outcome being finalized

testVars == <<pc, status, pods, stale, residual, taken, killAt, verdict>>
vars == <<fanoutVars, testVars>>

LivePods(r) == {p \in PodNames : pods[r][p] \in {"Ours", "Theirs"}}

\* Mutant: the budget of the run is given up a tick early.
TotalSpent_Early == cancel \/ now + 1 >= TotalTimeout

TotalSpent == cancel \/ now >= TotalTimeout

Least(a, b) == IF a <= b THEN a ELSE b

-----------------------------------------------------------------------------
TestInit ==
  /\ Init
  /\ pc = [r \in Releases |-> "idle"]
  /\ status \in [Releases -> TestStatuses]
  /\ pods \in [Releases -> [PodNames -> {"Absent", "Stale", "Theirs"}]]
  /\ stale = [r \in Releases |-> {}]
  /\ residual = [r \in Releases |-> {}]
  /\ taken = [r \in Releases |-> {}]
  /\ killAt = [r \in Releases |-> 0]
  /\ verdict = [r \in Releases |-> Pending]

GoTo(r, label) == pc' = [pc EXCEPT ![r] = label]

Stop(r, v, blame) ==
  /\ verdict' = [verdict EXCEPT ![r] = [verdict |-> v, blame |-> blame]]
  /\ GoTo(r, "finalize")

Proceed(r, label) == GoTo(r, label) /\ UNCHANGED verdict

OutOfBudget(r) == Stop(r, "TIMED_OUT", "TotalBudget")

-----------------------------------------------------------------------------
(***************************************************************************)
(* The tester.                                                             *)
(***************************************************************************)

\* Preflight looks at the status that was read while matching, then at the budget.
StartTest(r) ==
  /\ Take(r)
  /\ LET s == status[r]
     IN \/ s.suspended /\ Stop(r, "SKIPPED_SUSPENDED", "Own")
        \/ /\ ~s.suspended
           /\ ~s.released \/ s.lagging
           /\ Stop(r, "SKIPPED_NOT_READY", "Own")
        \/ /\ ~s.suspended /\ s.released /\ ~s.lagging
           /\ IF TotalSpent THEN OutOfBudget(r) ELSE Proceed(r, "list")
  /\ UNCHANGED <<status, pods, stale, residual, taken, killAt>>

\* The pods are listed: a failed listing or a live pod ends the test.
ListPods(r) ==
  /\ pc[r] = "list"
  /\ \/ /\ LivePods(r) = {}
        /\ stale' = [stale EXCEPT ![r] = {p \in PodNames : pods[r][p] = "Stale"}]
        /\ Proceed(r, "delete")
     \/ /\ LivePods(r) # {}
        /\ Stop(r, "FAILED", "Own")
        /\ UNCHANGED stale
     \/ Stop(r, "FAILED", "Own") /\ UNCHANGED stale
  /\ UNCHANGED <<fanoutVars, status, pods, residual, taken, killAt>>

\* One delete, by name: whatever pod has that name now is gone.  A call that fails
\* may have deleted it, too.
DeletePod(r) ==
  /\ pc[r] = "delete"
  /\ \E p \in stale[r] :
       /\ stale' = [stale EXCEPT ![r] = @ \ {p}]
       /\ \/ pods' = [pods EXCEPT ![r][p] = "Absent"] /\ UNCHANGED residual
          \/ /\ residual' = [residual EXCEPT ![r] = @ \union {p}]
             /\ pods' \in {pods, [pods EXCEPT ![r][p] = "Absent"]}
  /\ UNCHANGED <<fanoutVars, pc, status, taken, killAt, verdict>>

\* Mutant: a residue is only a warning.
Reaped_IgnoresResidue(r) ==
  /\ pc[r] = "delete"
  /\ stale[r] = {}
  /\ IF TotalSpent THEN OutOfBudget(r) ELSE Proceed(r, "launch")
  /\ UNCHANGED <<fanoutVars, status, pods, stale, residual, taken, killAt>>

\* Every stale pod was tried.  A residue fails the release; then the budget is
\* looked at again.
Reaped(r) ==
  /\ pc[r] = "delete"
  /\ stale[r] = {}
  /\ IF residual[r] # {} THEN Stop(r, "FAILED", "Own")
     ELSE IF TotalSpent THEN OutOfBudget(r)
     ELSE Proceed(r, "launch")
  /\ UNCHANGED <<fanoutVars, status, pods, stale, residual, taken, killAt>>

\* The subprocess gets helm's timeout and some slack, but never outlives the run.
Launch(r) ==
  /\ pc[r] = "launch"
  /\ LET cap == Least(PerHR + Slack, TotalTimeout - now)
     IN \/ cap <= 0 /\ OutOfBudget(r) /\ UNCHANGED killAt
        \/ /\ cap > 0
           /\ killAt' = [killAt EXCEPT ![r] = now + cap]
           /\ Proceed(r, "helm")
  /\ UNCHANGED <<fanoutVars, status, pods, stale, residual, taken>>

\* helm creates the test pods.  A pod of that name that is still there is either
\* deleted first, as the default hook-delete-policy says, or makes helm fail.
HelmCreates(r) ==
  /\ pc[r] = "helm"
  /\ \/ /\ pods' = [pods EXCEPT ![r] = [p \in PodNames |-> "Ours"]]
        /\ Proceed(r, "tests")
     \/ /\ \E p \in PodNames : pods[r][p] # "Absent"
        /\ Stop(r, "FAILED", "Own")
        /\ UNCHANGED pods
     \/ \* no test is defined
        Stop(r, "PASSED", "Own") /\ UNCHANGED pods
     \/ \* helm is not available
        Stop(r, "FAILED", "Own") /\ UNCHANGED pods
  /\ UNCHANGED <<fanoutVars, status, stale, residual, taken, killAt>>

\* helm answers: green when the pods it started are over, red at any time.
HelmAnswers(r) ==
  /\ pc[r] = "tests"
  /\ \/ LivePods(r) = {} /\ Stop(r, "PASSED", "Own")
     \/ Stop(r, "FAILED", "Own")
  /\ UNCHANGED <<fanoutVars, status, pods, stale, residual, taken, killAt>>

\* Mutant: only the start of the tests is timed.
HelmTimesOut_BeforeTests(r) ==
  /\ pc[r] = "helm"
  /\ now >= killAt[r]
  /\ Stop(r, "TIMED_OUT", IF now >= TotalTimeout THEN "TotalBudget" ELSE "Own")
  /\ UNCHANGED <<fanoutVars, status, pods, stale, residual, taken, killAt>>

\* The subprocess is killed at its cap; the pods it started live on.
HelmTimesOut(r) ==
  /\ pc[r] \in {"helm", "tests"}
  /\ now >= killAt[r]
  /\ Stop(r, "TIMED_OUT", IF now >= TotalTimeout THEN "TotalBudget" ELSE "Own")
  /\ UNCHANGED <<fanoutVars, status, pods, stale, residual, taken, killAt>>

\* The tester's locals go with it.
Leave(r) ==
  /\ GoTo(r, "over")
  /\ stale' = [stale EXCEPT ![r] = {}]
  /\ residual' = [residual EXCEPT ![r] = {}]
  /\ taken' = [taken EXCEPT ![r] = {}]
  /\ killAt' = [killAt EXCEPT ![r] = 0]
  /\ verdict' = [verdict EXCEPT ![r] = Pending]
  /\ UNCHANGED <<status, pods>>

\* The outcome is built; a failure refreshes the status for the report, best effort.
Finalize(r) ==
  /\ pc[r] = "finalize"
  /\ Returned(r, verdict[r].verdict, verdict[r].blame)
  /\ Leave(r)

\* A payload of an unexpected shape raises through the tester.
Crash(r) ==
  /\ pc[r] \in {"list", "finalize"}
  /\ WorkerCrashes(r, "Error")
  /\ Leave(r)

-----------------------------------------------------------------------------
(***************************************************************************)
(* The cluster.                                                            *)
(***************************************************************************)

\* The pods of a release matter from the listing on, until the tester has its verdict:
\* whatever happens before is in the pods of the start, and after it nobody looks.
Exposed(r) == pc[r] \in {"delete", "launch", "helm", "tests"}

PodEnds(r) ==
  /\ Exposed(r)
  /\ \E p \in LivePods(r) : pods' = [pods EXCEPT ![r][p] = "Stale"]
  /\ UNCHANGED <<fanoutVars, pc, status, stale, residual, taken, killAt, verdict>>

Taken == {rp \in Releases \X PodNames : rp[2] \in taken[rp[1]]}

\* Somebody else starts the tests: their helm replaces a stale pod.  What they do to
\* tests that this run has started is in helm's answer.
OtherRun(r) ==
  /\ Exposed(r) /\ pc[r] # "tests" /\ Cardinality(Taken) < MaxTaken
  /\ \E p \in PodNames :
       /\ pods[r][p] \in {"Absent", "Stale"}
       /\ pods' = [pods EXCEPT ![r][p] = "Theirs"]
       /\ taken' = [taken EXCEPT ![r] = @ \union {p}]
  /\ UNCHANGED <<fanoutVars, pc, status, stale, residual, killAt, verdict>>

-----------------------------------------------------------------------------
\* What the thread does by itself, every call but that of helm included: kubectl
\* has time-outs of its own.
ThreadStep(r) ==
  \/ StartTest(r)
  \/ ListPods(r)
  \/ DeletePod(r)
  \/ Reaped(r)
  \/ Launch(r)
  \/ HelmTimesOut(r)
  \/ Finalize(r)

TesterStep(r) ==
  \/ ThreadStep(r)
  \/ HelmCreates(r)
  \/ HelmAnswers(r)
  \/ Crash(r)

TestMainStep == MainStep /\ UNCHANGED testVars

TestNext ==
  \/ Tick /\ UNCHANGED testVars
  \/ TestMainStep
  \/ Interrupt /\ UNCHANGED testVars
  \/ \E r \in Releases : TesterStep(r)
  \/ \E r \in Releases : PodEnds(r) \/ OtherRun(r)
  \/ Terminated /\ UNCHANGED testVars

TestSpec == TestInit /\ [][TestNext]_vars

\* The scheduler runs every ready thread and time passes.  helm is free never to
\* answer, a pod to run for ever, and the operator never to interrupt.
Fairness ==
  /\ WF_vars(Tick /\ UNCHANGED testVars)
  /\ WF_vars(TestMainStep)
  /\ \A r \in Releases : WF_vars(ThreadStep(r))

TestFairSpec == TestSpec /\ Fairness

-----------------------------------------------------------------------------
(***************************************************************************)
(* Properties.                                                             *)
(***************************************************************************)

\* Every variable of the testers keeps its type; a helm subprocess is killed within
\* the total budget, however late it was started.
TestTypeOK ==
  /\ pc \in [Releases -> {"idle", "list", "delete", "launch", "helm", "tests", "finalize", "over"}]
  /\ status \in [Releases -> TestStatuses]
  /\ pods \in [Releases -> [PodNames -> {"Absent", "Stale", "Ours", "Theirs"}]]
  /\ stale \in [Releases -> SUBSET PodNames]
  /\ residual \in [Releases -> SUBSET PodNames]
  /\ taken \in [Releases -> SUBSET PodNames]
  /\ killAt \in [Releases -> 0 .. TotalTimeout]
  /\ \A r \in Releases : verdict[r].verdict \in StageVerdicts(Stage) \union {"Pending"}

\* `promote test` is a fan-out: every run is a run of Fanout.
ImplementsFanout == Spec

\* _IN_FLIGHT_PHASES: a test that somebody else runs is neither deleted nor replaced,
\* unless it took its name after this tester had listed the pods: the listing is all
\* that the deletes, which go by name, and helm know of it.
SparesLiveTests ==
  \A r \in Releases, p \in PodNames :
    pods[r][p] = "Theirs" /\ p \notin taken[r] => pods'[r][p] \in {"Theirs", "Stale"}

\* Past the reaping, whatever pod is in helm's way came after the listing: of those
\* that were listed none is left, whichever delete failed.
SlateIsSwept ==
  \A r \in Releases :
    pc[r] \in {"launch", "helm"} => \A p \in PodNames \ taken[r] : pods[r][p] = "Absent"

\* _reap_stale_pods, beside other runs of the same tests: helm never starts on leftovers
\* that were listed, and no test that ran when the pods were listed is ended by this run.
ReapingIsSafe == [][SparesLiveTests /\ SlateIsSwept']_vars
=============================================================================
