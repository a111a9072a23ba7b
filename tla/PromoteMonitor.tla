--------------------------- MODULE PromoteMonitor ---------------------------
(***************************************************************************)
(* `promote monitor` (commands/promote/monitor.py): the fan-out of Fanout  *)
(* with its real workers.  A watcher polls one HelmRelease until classify  *)
(* calls it terminal, its own or the total budget is spent, or a peer      *)
(* cancelled the run, and keeps a short ring of the transitions it saw.    *)
(*                                                                         *)
(* The cluster is the set of answers it can give: any status in Statuses,  *)
(* any listing in Rollouts (Unread is a listing that failed), a read that  *)
(* flakes, a release that is gone, a payload that crashes the watcher.     *)
(***************************************************************************)
EXTENDS Fanout, Classify

CONSTANTS
  Statuses,        \* statuses the cluster can answer (see Classify)
  Rollouts,        \* answers to a workload listing
  Faults,          \* texts of a status read that failed
  Version,         \* the version that is promoted
  PerHR,           \* budget of one release
  PollInterval,    \* between two polls, and the bound of the initial jitter
  TransitionsMax   \* length of the ring

\* check_request rejects the other budgets.  The clock runs past every deadline.
ASSUME MonitorAssumption ==
  /\ Stage = "ROLLOUT"
  /\ PollInterval \in Nat \ {0}
  /\ PerHR \in Nat /\ PerHR >= PollInterval
  /\ TotalTimeout >= PerHR
  /\ MaxTime >= TotalTimeout
  /\ TransitionsMax \in Nat \ {0}
  /\ \A s \in Rollouts : s.pending # {} => s.read

VARIABLES
  pc,        \* where each watcher is
  wake,      \* when its sleep ends
  started,   \* started_mono
  state,     \* its _WatchState: last_status, transitions, prev_signature
  verdict    \* what _poll_until_terminal returned

watchVars == <<pc, wake, started, state, verdict>>
vars == <<fanoutVars, watchVars>>

NoStatus == [none |-> TRUE]
NewState(s) == [last |-> s, transitions |-> << >>, signature |-> << >>]

Least(a, b) == IF a <= b THEN a ELSE b

\* Mutant: the budget of a release never ends.
HRDeadline_Never(r) == MaxTime + 1

HRDeadline(r) == Least(started[r] + PerHR, TotalTimeout)

-----------------------------------------------------------------------------
MonitorInit ==
  /\ Init
  /\ pc = [r \in Releases |-> "idle"]
  /\ wake = [r \in Releases |-> 0]
  /\ started = [r \in Releases |-> 0]
  /\ state = [r \in Releases |-> NewState(NoStatus)]
  /\ verdict = [r \in Releases |-> Pending]

\* The statuses are read one by one while matching, and each release that asks
\* for this chart and version is kept with the status that was read.
Select ==
  \E ms \in Listings :
    /\ Matched(ms)
    /\ \E read \in [Targets' -> Statuses] :
         state' = [r \in Releases |-> NewState(IF r \in Targets' THEN read[r] ELSE NoStatus)]
    /\ UNCHANGED <<pc, wake, started, verdict>>

-----------------------------------------------------------------------------
(***************************************************************************)
(* The parts of one watcher's step.                                        *)
(***************************************************************************)

\* A transition is appended; the bounded deque drops its oldest entry.
Recorded(ws, phase) ==
  LET longer == Append(ws.transitions, phase)
  IN [ws EXCEPT !.transitions = IF Len(longer) > TransitionsMax THEN Tail(longer) ELSE longer]

\* The same, unless the last signature noted was this one.
Noted(ws, signature, phase) ==
  IF signature = ws.signature THEN ws
  ELSE [Recorded(ws, phase) EXCEPT !.signature = signature]

GoTo(r, label) == pc' = [pc EXCEPT ![r] = label]

\* Mutant: a time-out always blames the total budget.
Stop_OneBudget(r, ws, v, reason, phase) ==
  /\ state' = [state EXCEPT ![r] = Recorded(ws, phase)]
  /\ verdict' = [verdict EXCEPT ![r] =
       [verdict |-> v, blame |-> IF v = "TIMED_OUT" THEN "TotalBudget" ELSE "Own"]]
  /\ GoTo(r, "finalize")

\* Mutant: the last transition is not recorded.
Stop_Silent(r, ws, v, reason, phase) ==
  /\ state' = [state EXCEPT ![r] = ws]
  /\ verdict' = [verdict EXCEPT ![r] =
       [verdict |-> v, blame |-> IF reason = "TotalBudgetExhausted" THEN "TotalBudget" ELSE "Own"]]
  /\ GoTo(r, "finalize")

\* The loop returns: record the transition that explains the verdict.  A failure may
\* have a reason of any name; of the time-outs one blames the total budget.
Stop(r, ws, v, reason, phase) ==
  /\ state' = [state EXCEPT ![r] = Recorded(ws, phase)]
  /\ verdict' = [verdict EXCEPT ![r] =
       [verdict |-> v,
        blame |-> IF v = "TIMED_OUT" /\ reason = "TotalBudgetExhausted" THEN "TotalBudget" ELSE "Own"]]
  /\ GoTo(r, "finalize")

\* The loop goes on, with ws as the watch state.
Continue(r, ws, label) ==
  /\ state' = [state EXCEPT ![r] = ws]
  /\ GoTo(r, label)
  /\ UNCHANGED verdict

\* What follows a decision: return it, or note it and go on to the budget checks.
Act(r, ws, decision) ==
  IF decision.terminal
    THEN Stop(r, ws, decision.verdict, decision.reason, decision.phase)
    ELSE Continue(r, Noted(ws, decision.signature, decision.phase), "check")

\* The first half of _evaluate: the status decides, or calls for the workloads.
Look(r, s) ==
  LET first == Classify(s, Version, Unread)
      ws == [state[r] EXCEPT !.last = s]
  IN IF ~first.terminal /\ first.needsWorkloads
       THEN Continue(r, ws, "listing")
       ELSE Act(r, ws, first)

\* A peer, or the total budget, cancelled the run.
Cancelled(r) == Stop(r, state[r], "TIMED_OUT", "TotalBudgetExhausted", <<"Cancelled">>)

-----------------------------------------------------------------------------
(***************************************************************************)
(* The watcher.                                                            *)
(***************************************************************************)

\* The pool hands the matched status to a watcher.  A suspended release is done
\* before the jitter; the others sleep first.
StartWatch(r) ==
  /\ Take(r)
  /\ started' = [started EXCEPT ![r] = now]
  /\ LET first == Classify(state[r].last, Version, Unread)
         suspended == first.terminal /\ first.verdict = "SKIPPED_SUSPENDED"
     IN \/ /\ suspended
           /\ Stop(r, state[r], first.verdict, first.reason, first.phase)
           /\ UNCHANGED wake
        \/ /\ ~suspended
           /\ \E jitter \in 0 .. PollInterval :
                wake' = [wake EXCEPT ![r] = Least(now + jitter, MaxTime)]
           /\ Continue(r, state[r], "jitter")

\* The first pass looks at the status that was read while matching.
FirstPass(r) ==
  /\ pc[r] = "jitter"
  /\ now >= wake[r]
  /\ \/ cancel /\ Cancelled(r)
     \/ ~cancel /\ Look(r, state[r].last)
  /\ UNCHANGED <<fanoutVars, wake, started>>

\* The second half of _evaluate: the status is classified again with the listed
\* workloads; a failed listing is noted, and the first decision stands.
ListWorkloads(r) ==
  /\ pc[r] = "listing"
  /\ \E rollout \in Rollouts :
       LET listed == IF rollout.read THEN state[r]
                     ELSE Noted(state[r], <<"poll-error-workloads">>, <<"WorkloadsPollError">>)
       IN Act(r, listed, Classify(state[r].last, Version, rollout))
  /\ UNCHANGED <<fanoutVars, wake, started>>

\* The budget checks.  When the release's deadline has passed, the total budget
\* is blamed if it is spent too.
CheckBudget(r) ==
  /\ pc[r] = "check"
  /\ \/ cancel /\ Cancelled(r) /\ UNCHANGED wake
     \/ /\ ~cancel
        /\ now >= HRDeadline(r)
        /\ Stop(r, state[r], "TIMED_OUT",
                IF now >= TotalTimeout THEN "TotalBudgetExhausted" ELSE "PerHRBudgetExhausted",
                <<"TimedOut">>)
        /\ UNCHANGED wake
     \/ /\ ~cancel
        /\ now < HRDeadline(r)
        /\ wake' = [wake EXCEPT ![r] = Least(now + PollInterval, MaxTime)]
        /\ Continue(r, state[r], "sleep")
  /\ UNCHANGED <<fanoutVars, started>>

\* The sleep ends: the cancel flag is looked at before the next read starts.
WakeUp(r) ==
  /\ pc[r] = "sleep"
  /\ now >= wake[r]
  /\ \/ cancel /\ Cancelled(r)
     \/ ~cancel /\ Continue(r, state[r], "poll")
  /\ UNCHANGED <<fanoutVars, wake, started>>

\* The read answers: a status, NotFound, or a fault that is not fatal.
Poll(r) ==
  /\ pc[r] = "poll"
  /\ \/ \E s \in Statuses : Look(r, s)
     \/ Stop(r, state[r], "FAILED", "Disappeared", <<"Disappeared">>)
     \/ \E f \in Faults :
          Continue(r, Noted(state[r], <<"poll-error", f>>, <<"PollError", f>>), "check")
  /\ UNCHANGED <<fanoutVars, wake, started>>

\* A payload of an unexpected shape raises through the watcher.
Crash(r) ==
  /\ pc[r] \in {"poll", "listing"}
  /\ WorkerCrashes(r, "Error")
  /\ GoTo(r, "over")
  /\ UNCHANGED <<wake, started, state, verdict>>

\* The outcome is built; diagnostics of a bad one are best effort.
Finalize(r) ==
  /\ pc[r] = "finalize"
  /\ Returned(r, verdict[r].verdict, verdict[r].blame)
  /\ GoTo(r, "over")
  /\ UNCHANGED <<wake, started, state, verdict>>

-----------------------------------------------------------------------------
WatcherStep(r) ==
  \/ StartWatch(r)
  \/ FirstPass(r)
  \/ ListWorkloads(r)
  \/ CheckBudget(r)
  \/ WakeUp(r)
  \/ Poll(r)
  \/ Crash(r)
  \/ Finalize(r)

MonitorMainStep ==
  \/ Select
  \/ /\ \/ MatchingFails
        \/ Open
        \/ \E r \in Releases : Consume(r) \/ ConsumeCrash(r)
        \/ Drained
        \/ Join
        \/ Close
        \/ Return
     /\ UNCHANGED watchVars

MonitorNext ==
  \/ Tick /\ UNCHANGED watchVars
  \/ MonitorMainStep
  \/ Interrupt /\ UNCHANGED watchVars
  \/ \E r \in Releases : WatcherStep(r)
  \/ Terminated /\ UNCHANGED watchVars

MonitorSpec == MonitorInit /\ [][MonitorNext]_vars

\* The scheduler runs every ready thread and time passes; the operator is free
\* never to interrupt, the cluster to answer anything.
MonitorFairSpec ==
  /\ MonitorSpec
  /\ WF_vars(Tick /\ UNCHANGED watchVars)
  /\ WF_vars(MonitorMainStep)
  /\ \A r \in Releases : WF_vars(WatcherStep(r))

-----------------------------------------------------------------------------
(***************************************************************************)
(* Properties.                                                             *)
(***************************************************************************)

\* Every variable of the watchers keeps its type.
MonitorTypeOK ==
  /\ pc \in [Releases -> {"idle", "jitter", "listing", "check", "sleep", "poll", "finalize", "over"}]
  /\ wake \in [Releases -> 0 .. MaxTime]
  /\ started \in [Releases -> 0 .. MaxTime]
  /\ \A r \in Releases :
       /\ state[r].last \in Statuses \union {NoStatus}
       /\ Len(state[r].transitions) <= TransitionsMax
       /\ verdict[r].verdict \in StageVerdicts(Stage) \union {"Pending"}

\* The monitor is a fan-out: every run is a run of Fanout, the watcher's polling
\* being invisible and its end a worker that returns or raises.  In particular
\* no watcher blames the total budget while it lasts and nobody cancelled.
ImplementsFanout == Spec

\* In a finished run, a release that was told to stop before the total deadline
\* was stopped by a peer whose own failure is reported (fail-fast): nobody is
\* cancelled for a reason that the result does not show.
CancelIsExplained ==
  /\ main = "done" /\ raised = "None"
  /\ \E r \in outcomes : result[r].blame = "TotalBudget"
  /\ now < TotalTimeout
  => \E r \in Failures : result[r].blame = "Own"

\* A release that is said to have spent its own budget had all of it, counted
\* from when a thread took it up rather than from the start of the run, and the
\* total budget was not the tighter one.
OwnBudgetWasSpent ==
  \A r \in Releases :
    /\ pc[r] = "finalize"
    /\ verdict[r] = [verdict |-> "TIMED_OUT", blame |-> "Own"]
    => /\ now >= started[r] + PerHR
       /\ started[r] + PerHR < TotalTimeout

\* The last transition a finished watch recorded, which is also the last thing
\* on the progress display, tells the same story as its verdict.
Explains(phase, v) ==
  CASE v.verdict = "READY" -> phase = <<"Ready">>
    [] v.verdict = "SKIPPED_SUSPENDED" -> phase = <<"Suspended">>
    [] v.verdict = "FAILED" -> phase[1] \in {"Stalled", "Ready=False", "TestSuccess=False", "Disappeared"}
    [] v.verdict = "TIMED_OUT" /\ v.blame = "Own" -> phase = <<"TimedOut">>
    [] OTHER -> phase[1] \in {"TimedOut", "Cancelled"}

DisplayAgreesWithVerdict ==
  \A r \in Releases :
    pc[r] = "finalize" =>
      /\ state[r].transitions # << >>
      /\ Explains(state[r].transitions[Len(state[r].transitions)], verdict[r])

\* What test_fanout.py says of an interrupted run: peers get told to stop.
InterruptTellsPeers == main = "shutdown" /\ raised = "Interrupt" => cancel

\* _finalize: the verdict of a watch is explained by what the operator saw of it last, and a
\* release that is said to have used up its time has.
VerdictIsExplained == DisplayAgreesWithVerdict /\ OwnBudgetWasSpent
=============================================================================
