------------------------------ MODULE Classify ------------------------------
(***************************************************************************)
(* commands/promote/classify.py: what one HelmRelease status says about a  *)
(* rollout, with the way the watcher asks it (monitor.py, _evaluate).      *)
(*                                                                         *)
(* A status is a record of the fields that the decision reads:             *)
(*   suspended, stalled      spec.suspend, and the condition Stalled=True  *)
(*   ready, reason           the Ready condition; "absent" and "" without  *)
(*   testFailed, testReason  TestSuccess=False and its reason              *)
(*   released                Released=True                                 *)
(*   generation, observed    of the spec, and as reconciled by Flux        *)
(*   history                 the chart version last installed              *)
(* A rollout is what the workload listing showed: whether it was read, and *)
(* the names of the workloads that have not converged.                     *)
(***************************************************************************)
EXTENDS Naturals, FiniteSets

TerminalReadyReasons ==
  {"InstallFailed", "UpgradeFailed", "ReconciliationFailed", "ArtifactFailed", "RetryExhausted"}

Unread == [read |-> FALSE, pending |-> {}]
Listed(names) == [read |-> TRUE, pending |-> names]

\* A decision is terminal, or says what the release is waiting on and whether
\* the answer now depends on its workloads.
Terminal(verdict, reason, phase) ==
  [terminal |-> TRUE, verdict |-> verdict, reason |-> reason, phase |-> phase]
Waiting(phase, signature, needsWorkloads) ==
  [terminal |-> FALSE, phase |-> phase, signature |-> signature, needsWorkloads |-> needsWorkloads]

ReadyStatus(s) == IF s.ready = "absent" THEN "Unknown" ELSE s.ready
CaughtUp(s) == s.observed = s.generation

\* Mutant: Ready=True is believed before Flux saw the new spec.
ConvergedHR_NoGeneration(s, version) == s.history = version /\ s.ready = "True"

\* The HelmRelease itself reports converged on the requested version.
ConvergedHR(s, version) == CaughtUp(s) /\ s.history = version /\ s.ready = "True"

\* Ready=False for a reason that Flux will not retry out of.
GaveUp(s) == s.ready = "False" /\ s.reason \in TerminalReadyReasons

\* A failed test counts once the release is out; before that it is left over.
TestsFailed(s) == s.testFailed /\ s.released

PhaseLabel(s, version, pending) ==
  IF ~CaughtUp(s) THEN <<"GenerationLag">>
  ELSE IF s.history # version THEN <<"HistoryLag">>
  ELSE IF s.ready # "True" THEN <<"WaitingForReady", s.reason>>
  ELSE IF pending # {} THEN <<"WaitingForWorkloads", Cardinality(pending)>>
  ELSE <<"Ready">>

\* The conditions are read in this order, and the first that holds decides.
Classify(s, version, rollout) ==
  LET converged == ConvergedHR(s, version)
      pending == IF converged /\ rollout.read THEN rollout.pending ELSE {}
  IN IF s.suspended THEN Terminal("SKIPPED_SUSPENDED", "Suspended", <<"Suspended">>)
     ELSE IF s.stalled THEN Terminal("FAILED", "Stalled", <<"Stalled">>)
     ELSE IF GaveUp(s) THEN Terminal("FAILED", s.reason, <<"Ready=False", s.reason>>)
     ELSE IF TestsFailed(s)
       THEN Terminal("FAILED", IF s.testReason = "" THEN "TestFailed" ELSE s.testReason,
                     <<"TestSuccess=False">>)
     ELSE IF converged /\ rollout.read /\ pending = {} THEN Terminal("READY", "Ready", <<"Ready">>)
     ELSE Waiting(PhaseLabel(s, version, pending),
                  <<ReadyStatus(s), s.reason, s.observed, pending>>,
                  converged /\ ~rollout.read)

\* The watcher asks twice: workloads are listed only when the first answer needs
\* them, and the first answer stands when the listing failed.
Evaluate(s, version, listing) ==
  LET first == Classify(s, version, Unread)
  IN IF ~first.terminal /\ first.needsWorkloads /\ listing.read
       THEN Classify(s, version, listing)
       ELSE first
=============================================================================
