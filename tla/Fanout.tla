------------------------------- MODULE Fanout -------------------------------
(***************************************************************************)
(* One promotion stage over its matched HelmReleases: run_matched and      *)
(* run_fanout of commands/promote/fanout.py, with the telemetry bracket of *)
(* commands/promote/telemetry.py.                                          *)
(*                                                                         *)
(* The main thread matches releases, opens the interval, submits one task  *)
(* per release to a thread pool and consumes the futures as they complete; *)
(* a failure, a crash or a spent budget sets the shared cancel flag.       *)
(* Leaving the pool waits for every task, the queued ones too.  Then the   *)
(* interval is closed with the folded verdict.                             *)
(*                                                                         *)
(* Workers are abstract here: a running one returns some verdict of its    *)
(* stage or raises, at any time.  PromoteMonitor and PromoteTest replace   *)
(* them by the real watcher and tester and implement this specification.   *)
(***************************************************************************)
EXTENDS PromotionState, Integers, FiniteSets

CONSTANTS
  Releases,      \* the HelmReleases of the cluster
  Stage,         \* which half of the lifecycle this run is
  Concurrency,   \* threads of the pool
  TotalTimeout,  \* the budget of the whole run
  FailFast,      \* whether a failed outcome cancels the peers
  Emits,         \* whether the run has an environment, so that it emits events
  MaxTime,       \* bound on the clock
  MaxInterrupts  \* bound on the operator's Ctrl-C

ASSUME FanoutAssumption ==
  /\ IsFiniteSet(Releases)
  /\ Stage \in Stages
  /\ Concurrency \in Nat \ {0}
  /\ TotalTimeout \in Nat \ {0}
  /\ FailFast \in BOOLEAN
  /\ Emits \in BOOLEAN
  /\ MaxTime \in Nat
  /\ MaxInterrupts \in Nat

VARIABLES
  now,        \* the monotonic clock, read 0 when the run starts
  main,       \* where the main thread is
  matched,    \* the releases the run acts on, in the order listed
  head,       \* position in matched of the task the pool takes next
  task,       \* the state of each release's task
  result,     \* what each task's future holds
  outcomes,   \* releases whose outcome the main thread has appended
  cancel,     \* cancel_event
  raised,     \* what is unwinding the main thread
  closing,    \* terminal phases still to be emitted
  events,     \* emission attempts, with whether the write got through
  interrupts  \* number of Ctrl-C so far

fanoutVars == <<now, main, matched, head, task, result, outcomes, cancel, raised,
                closing, events, interrupts>>

Crashes == {"Error", "Base"}   \* an Exception, or a BaseException, out of work()

Pending == [verdict |-> "Pending", blame |-> "Own"]

\* The distinct elements of matched.
Targets == {matched[i] : i \in DOMAIN matched}

Live == {r \in Releases : task[r] \in {"queued", "running"}}
Running == {r \in Releases : task[r] = "running"}

Verdict(r) == result[r].verdict

\* RunResult.failures, and the number of releases that never reported.
Failures == {r \in outcomes : Verdict(r) \notin PassingVerdicts}
Unreported == Targets \ outcomes

-----------------------------------------------------------------------------
Init ==
  /\ now = 0
  /\ main = "matching"
  /\ matched = << >>
  /\ head = 1
  /\ task = [r \in Releases |-> "idle"]
  /\ result = [r \in Releases |-> Pending]
  /\ outcomes = {}
  /\ cancel = FALSE
  /\ raised = "None"
  /\ closing = << >>
  /\ events = << >>
  /\ interrupts = 0

Tick ==
  /\ now < MaxTime
  /\ now' = now + 1
  /\ UNCHANGED <<main, matched, head, task, result, outcomes, cancel, raised, closing,
                 events, interrupts>>

-----------------------------------------------------------------------------
(***************************************************************************)
(* The main thread.                                                        *)
(***************************************************************************)

\* The selector answered with the list ms.  Nothing matched: the run is over,
\* with one synthetic NO_MATCH outcome and no event.
Matched(ms) ==
  /\ main = "matching"
  /\ matched' = ms
  /\ main' = IF ms = << >> THEN "done" ELSE "opening"
  /\ UNCHANGED <<now, head, task, result, outcomes, cancel, raised, closing, events, interrupts>>

\* A kubectl read failed while matching: no interval was opened.
MatchingFails ==
  /\ main = "matching"
  /\ main' = "done"
  /\ raised' = "Error"
  /\ UNCHANGED <<now, matched, head, task, result, outcomes, cancel, closing, events, interrupts>>

\* One attempt to write an event; a failed write is logged and swallowed.
Emit(phase, failures) ==
  IF Emits
    THEN \E written \in BOOLEAN :
           events' = Append(events, [phase |-> phase, failures |-> failures, written |-> written])
    ELSE UNCHANGED events

\* telemetry.started, then one submit per matched release.
Open ==
  /\ main = "opening"
  /\ Emit(StartPhase(Stage), 0)
  /\ task' = [r \in Releases |-> IF r \in Targets THEN "queued" ELSE task[r]]
  /\ main' = "waiting"
  /\ UNCHANGED <<now, matched, head, result, outcomes, cancel, raised, closing, interrupts>>

\* Mutant: a skip cancels the peers too.
CancelOn_AnySkip(verdict) == FailFast /\ verdict # "READY"

\* cancel_on: with fail-fast, a failed or timed-out outcome stops the run.
CancelOn(verdict) == FailFast /\ verdict \in {"FAILED", "TIMED_OUT"}

\* as_completed yields a finished future: its outcome is appended first, then
\* the cancel flag is decided.
Consume(r) ==
  /\ main = "waiting"
  /\ task[r] = "done"
  /\ r \notin outcomes
  /\ Verdict(r) \notin Crashes
  /\ outcomes' = outcomes \union {r}
  /\ cancel' = (cancel \/ CancelOn(Verdict(r)) \/ now >= TotalTimeout)
  /\ UNCHANGED <<now, main, matched, head, task, result, raised, closing, events, interrupts>>

\* The future holds an exception: cancel the peers, then unwind.
ConsumeCrash(r) ==
  /\ main = "waiting"
  /\ task[r] = "done"
  /\ Verdict(r) \in Crashes
  /\ cancel' = TRUE
  /\ raised' = IF Verdict(r) = "Base" THEN "Interrupt" ELSE "Error"
  /\ main' = "shutdown"
  /\ UNCHANGED <<now, matched, head, task, result, outcomes, closing, events, interrupts>>

\* Mutant: a cancelled run stops collecting outcomes.
Drained_OnCancel ==
  /\ main = "waiting"
  /\ outcomes = Targets \/ cancel
  /\ main' = "shutdown"
  /\ UNCHANGED <<now, matched, head, task, result, outcomes, cancel, raised, closing, events, interrupts>>

\* Every future was consumed.
Drained ==
  /\ main = "waiting"
  /\ outcomes = Targets
  /\ main' = "shutdown"
  /\ UNCHANGED <<now, matched, head, task, result, outcomes, cancel, raised, closing, events, interrupts>>

\* Mutant: the pool is left without waiting for it.
Join_NoWait ==
  /\ main = "shutdown"
  /\ \/ /\ raised = "None"
        /\ closing' = TerminalPhases(Stage, RunVerdict({Verdict(r) : r \in outcomes}, Success(Stage)))
        /\ main' = "closing"
     \/ /\ raised = "Error"
        /\ closing' = TerminalPhases(Stage, "FAILED")
        /\ main' = "closing"
     \/ /\ raised = "Interrupt"
        /\ main' = "done"
        /\ UNCHANGED closing
  /\ UNCHANGED <<now, matched, head, task, result, outcomes, cancel, raised, events, interrupts>>

\* Leaving the `with` block joins the pool, queued tasks included.  After that
\* the interval is closed, unless a BaseException is unwinding.
Join ==
  /\ main = "shutdown"
  /\ Live = {}
  /\ \/ /\ raised = "None"
        /\ closing' = TerminalPhases(Stage, RunVerdict({Verdict(r) : r \in outcomes}, Success(Stage)))
        /\ main' = "closing"
     \/ /\ raised = "Error"
        /\ closing' = TerminalPhases(Stage, "FAILED")
        /\ main' = "closing"
     \/ /\ raised = "Interrupt"
        /\ main' = "done"
        /\ UNCHANGED closing
  /\ UNCHANGED <<now, matched, head, task, result, outcomes, cancel, raised, events, interrupts>>

\* telemetry.finished, one write at a time.
Close ==
  /\ main = "closing"
  /\ closing # << >>
  /\ Emit(Head(closing), IF raised = "None" THEN Cardinality(Failures) ELSE Cardinality(Unreported))
  /\ closing' = Tail(closing)
  /\ UNCHANGED <<now, main, matched, head, task, result, outcomes, cancel, raised, interrupts>>

\* The result is returned, or the error re-raised.
Return ==
  /\ main = "closing"
  /\ closing = << >>
  /\ main' = "done"
  /\ UNCHANGED <<now, matched, head, task, result, outcomes, cancel, raised, closing, events, interrupts>>

\* Ctrl-C reaches the main thread.  In the loop over the futures the pool is still
\* joined.  The cancel flag is set only when the main thread is at a finished
\* future, inside the try; while it waits for the next one it is outside.  In any
\* other place it ends the run at once.
Interrupt ==
  /\ interrupts < MaxInterrupts
  /\ main # "done"
  /\ interrupts' = interrupts + 1
  /\ raised' = "Interrupt"
  /\ main' = IF main = "waiting" THEN "shutdown" ELSE "done"
  /\ \/ UNCHANGED cancel
     \/ /\ main = "waiting"
        /\ \E r \in Targets \ outcomes : task[r] = "done"
        /\ cancel' = TRUE
  /\ UNCHANGED <<now, matched, head, task, result, outcomes, closing, events>>

-----------------------------------------------------------------------------
(***************************************************************************)
(* The pool and its workers.                                               *)
(***************************************************************************)

\* A free thread takes the task at the head of the queue.
Take(r) ==
  /\ task[r] = "queued"
  /\ head \in DOMAIN matched
  /\ matched[head] = r
  /\ Cardinality(Running) < Concurrency
  /\ head' = head + 1
  /\ task' = [task EXCEPT ![r] = "running"]
  /\ UNCHANGED <<now, main, matched, result, outcomes, cancel, raised, closing, events, interrupts>>

\* The future of r holds an outcome.
Returned(r, verdict, blame) ==
  /\ task[r] = "running"
  /\ task' = [task EXCEPT ![r] = "done"]
  /\ result' = [result EXCEPT ![r] = [verdict |-> verdict, blame |-> blame]]
  /\ UNCHANGED <<now, main, matched, head, outcomes, cancel, raised, closing, events, interrupts>>

\* The worker returns, and keeps its contract: it blames the total budget only when
\* it saw the cancel flag or the total deadline, and then it timed out.
WorkerReturns(r, verdict, blame) ==
  /\ Returned(r, verdict, blame)
  /\ verdict \in StageVerdicts(Stage)
  /\ blame = "TotalBudget" => verdict = "TIMED_OUT" /\ (cancel \/ now >= TotalTimeout)

WorkerCrashes(r, kind) ==
  /\ task[r] = "running"
  /\ task' = [task EXCEPT ![r] = "done"]
  /\ result' = [result EXCEPT ![r] = [verdict |-> kind, blame |-> "Own"]]
  /\ UNCHANGED <<now, main, matched, head, outcomes, cancel, raised, closing, events, interrupts>>

-----------------------------------------------------------------------------
\* The lists a selector can answer: no release twice.
Listings ==
  {ms \in UNION {[1 .. n -> Releases] : n \in 0 .. Cardinality(Releases)} :
     \A i, j \in DOMAIN ms : ms[i] = ms[j] => i = j}

MainStep ==
  \/ \E ms \in Listings : Matched(ms)
  \/ MatchingFails
  \/ Open
  \/ \E r \in Releases : Consume(r) \/ ConsumeCrash(r)
  \/ Drained
  \/ Join
  \/ Close
  \/ Return

WorkerStep(r) ==
  \/ Take(r)
  \/ \E v \in StageVerdicts(Stage), b \in {"TotalBudget", "Own"} : WorkerReturns(r, v, b)
  \/ \E k \in Crashes : WorkerCrashes(r, k)

\* The process has ended: nothing is left to do.
Ended == main = "done" /\ Live = {}
Terminated == Ended /\ UNCHANGED fanoutVars

Next ==
  \/ Tick
  \/ MainStep
  \/ Interrupt
  \/ \E r \in Releases : WorkerStep(r)
  \/ Terminated

Spec == Init /\ [][Next]_fanoutVars

-----------------------------------------------------------------------------
(***************************************************************************)
(* Properties.                                                             *)
(***************************************************************************)

Worker == {"idle", "queued", "running", "done"}
Event == [phase : Phases, failures : Nat, written : BOOLEAN]

\* Every variable keeps its type.
TypeOK ==
  /\ now \in 0 .. MaxTime
  /\ main \in {"matching", "opening", "waiting", "shutdown", "closing", "done"}
  /\ matched \in Listings
  /\ head \in 1 .. Len(matched) + 1
  /\ task \in [Releases -> Worker]
  /\ result \in [Releases -> [verdict : StageVerdicts(Stage) \union Crashes \union {"Pending"},
                              blame : {"TotalBudget", "Own"}]]
  /\ outcomes \subseteq Releases
  /\ cancel \in BOOLEAN
  /\ raised \in {"None", "Error", "Interrupt"}
  /\ closing \in Seq(Phases)
  /\ events \in Seq(Event)
  /\ interrupts \in 0 .. MaxInterrupts

Emitted == {events[i] : i \in DOMAIN events}

\* The event ends the interval.
Closes(e) == e.phase # StartPhase(Stage)

\* A run that comes back without an exception reports one genuine verdict for
\* every release it matched, whatever was cancelled on the way (run_fanout
\* appends each future's outcome; leaving early would lose the rest).
AccountsForAll ==
  main \in {"closing", "done"} /\ raised = "None" =>
    /\ outcomes = Targets
    /\ \A r \in outcomes : Verdict(r) \in StageVerdicts(Stage)

\* An outcome that blames the total budget never comes without total_timed_out
\* on the result, which is the cancel flag as run_matched reads it: the worker
\* may have seen only the deadline, before anyone set the flag.
BudgetIsReported ==
  main \in {"closing", "done"} /\ raised = "None" =>
    \A r \in outcomes : result[r].blame = "TotalBudget" => cancel

\* Nobody is still at work on a release when the timeline says that the stage
\* ended: the terminal event follows the join of the pool, after a crash too.
ClosedAfterLastWorker == (\E e \in Emitted : Closes(e)) => Live = {}

\* ROLLOUT_OK, HELM_TEST_OK and PROMOTED are emitted only by a run in which every
\* matched release passed and at least one did more than be suspended.
GreenMeansPassed ==
  (\E e \in Emitted : e.phase \in GreenPhases) =>
    /\ \A r \in Targets : Verdict(r) \in {Success(Stage), "SKIPPED_SUSPENDED"}
    /\ \E r \in Targets : Verdict(r) = Success(Stage)

\* A terminal event's failure count agrees with its phase: none for a green one,
\* at least one otherwise, whether the count comes from the outcomes (a clean
\* run) or from the releases that never reported (a crashed one).
CountAgreesWithPhase ==
  \A e \in Emitted : Closes(e) => (e.phase \in GreenPhases <=> e.failures = 0)

\* A run that reached no verdict worth an event: all its releases are suspended, or none
\* failed and one of them was not ready.  The others may have passed.
Inconclusive ==
  /\ raised = "None"
  /\ \A r \in outcomes : Verdict(r) \notin {"FAILED", "TIMED_OUT"}
  /\ \/ \A r \in outcomes : Verdict(r) = "SKIPPED_SUSPENDED"
     \/ \E r \in outcomes : Verdict(r) = "SKIPPED_NOT_READY"

\* An interval that was opened is closed by the time the run ends, crash or not.
\* The exceptions are a Ctrl-C, and an inconclusive run (PromotionTelemetry.finished).
IntervalClosed ==
  main = "done" /\ raised # "Interrupt" /\ Emitted # {} =>
    (\E e \in Emitted : Closes(e)) \/ Inconclusive

\* The run ends and leaves no worker behind, whatever the workers return, crash
\* on or are interrupted in.
RunEnds == <>Ended

\* run_matched: what a run returns accounts for every release that it matched, and says so
\* when the budget of the run is what stopped one.
ResultIsTrue == AccountsForAll /\ BudgetIsReported

\* telemetry.finished: the event that ends the interval comes after the last worker, and its
\* phase and its count say the same as the outcomes of the releases.
TerminalEventIsTrue == ClosedAfterLastWorker /\ GreenMeansPassed /\ CountAgreesWithPhase
=============================================================================
