--------------------------- MODULE PromotionState ---------------------------
(***************************************************************************)
(* The promotion vocabulary of commands/promote/state.py: the verdicts of  *)
(* one HelmRelease, how a run folds them into one, and which lifecycle     *)
(* phases a stage emits when it starts and when it ends.  Everything here  *)
(* is a constant operator; the stages that use it are state machines in    *)
(* modules of their own.                                                   *)
(***************************************************************************)
EXTENDS Naturals, Sequences

Verdicts == {"READY", "PASSED", "FAILED", "TIMED_OUT",
             "SKIPPED_SUSPENDED", "SKIPPED_NOT_READY", "NO_MATCH"}

\* A suspended release was taken out of the rollout on purpose; a release that
\* never became ready was not.
PassingVerdicts == {"READY", "PASSED", "SKIPPED_SUSPENDED"}

\* Mutant: a release that was never ready does not count.
Severity_NotReadyIsFine == <<"FAILED", "TIMED_OUT", "NO_MATCH">>

\* Worst first.
Severity == <<"FAILED", "TIMED_OUT", "NO_MATCH", "SKIPPED_NOT_READY">>

Stages == {"ROLLOUT", "HELM_TEST"}

\* The verdict an all-green run of a stage reports.
Success(stage) == IF stage = "ROLLOUT" THEN "READY" ELSE "PASSED"

\* What one worker of a stage can conclude.
StageVerdicts(stage) ==
  IF stage = "ROLLOUT"
    THEN {"READY", "FAILED", "TIMED_OUT", "SKIPPED_SUSPENDED"}
    ELSE {"PASSED", "FAILED", "TIMED_OUT", "SKIPPED_SUSPENDED", "SKIPPED_NOT_READY"}

-----------------------------------------------------------------------------
\* The opening bracket of the interval a stage measures.
StartPhase(stage) == IF stage = "ROLLOUT" THEN "WAITING_ROLLOUT" ELSE "HELM_TEST_RUN"

\* Mutant: a stage that timed out has no row in the table.
TerminalPhases_NoTimeout(stage, verdict) ==
  CASE stage = "ROLLOUT" /\ verdict = "READY" -> <<"ROLLOUT_OK">>
    [] stage = "ROLLOUT" /\ verdict = "FAILED" -> <<"ABANDONED">>
    [] stage = "HELM_TEST" /\ verdict = "PASSED" -> <<"HELM_TEST_OK", "PROMOTED">>
    [] stage = "HELM_TEST" /\ verdict = "FAILED" -> <<"HELM_TEST_FAILED">>
    [] OTHER -> << >>

\* The phases a finished run emits, in lifecycle order; none for the pairs that
\* the table leaves out.
TerminalPhases(stage, verdict) ==
  CASE stage = "ROLLOUT" /\ verdict = "READY" -> <<"ROLLOUT_OK">>
    [] stage = "ROLLOUT" /\ verdict \in {"FAILED", "TIMED_OUT"} -> <<"ABANDONED">>
    [] stage = "HELM_TEST" /\ verdict = "PASSED" -> <<"HELM_TEST_OK", "PROMOTED">>
    [] stage = "HELM_TEST" /\ verdict \in {"FAILED", "TIMED_OUT"} -> <<"HELM_TEST_FAILED">>
    [] OTHER -> << >>

\* The phases that tell a reader of the timeline that the stage went well.
GreenPhases == {"ROLLOUT_OK", "HELM_TEST_OK", "PROMOTED"}

Phases == GreenPhases \union {"WAITING_ROLLOUT", "HELM_TEST_RUN", "ABANDONED", "HELM_TEST_FAILED"}

\* The positions in Severity of the verdicts that were seen.
Bad(seen) == {i \in DOMAIN Severity : Severity[i] \in seen}

\* One verdict for the run: the worst bad one; all suspended; or success.
RunVerdict(seen, success) ==
  IF Bad(seen) # {}
    THEN Severity[CHOOSE i \in Bad(seen) : \A j \in Bad(seen) : i <= j]
    ELSE IF seen = {"SKIPPED_SUSPENDED"} THEN "SKIPPED_SUSPENDED" ELSE success
=============================================================================
