----------------------- MODULE PromoteMonitor_proofs -----------------------
\* What promote monitor guarantees for any number of releases, statuses and budgets,
\* proved from one inductive invariant (MInv); the refinement brings in Fanout_proofs.
EXTENDS PromoteMonitor, Fanout_proofs

Readable == Statuses \union {NoStatus}
Answers == Rollouts \union {Unread}
Decisions == {Classify(s, Version, o) : s \in Readable, o \in Answers}

\* What a watcher can show, the keys it dedupes by, and its watch state.
Shown ==
  {d.phase : d \in Decisions} \union {<<"PollError", f>> : f \in Faults}
    \union {<<"Cancelled">>, <<"TimedOut">>, <<"Disappeared">>, <<"WorkloadsPollError">>}
Keys ==
  {d.signature : d \in Decisions} \union {<<"poll-error", f>> : f \in Faults}
    \union {<< >>, <<"poll-error-workloads">>}
WatchStates == [last : Readable, transitions : Seq(Shown), signature : Keys]

Bounded(ws) == ws \in WatchStates /\ Len(ws.transitions) <= TransitionsMax

Labels == {"idle", "jitter", "listing", "check", "sleep", "poll", "finalize", "over"}

\* What a watcher concluded keeps the contract of a worker.
Contract ==
  \A r \in Releases :
    pc[r] = "finalize" =>
      /\ verdict[r].verdict \in StageVerdicts(Stage)
      /\ verdict[r].blame = "TotalBudget" =>
           verdict[r].verdict = "TIMED_OUT" /\ (cancel \/ now >= TotalTimeout)

\* While the releases are matched nobody is watched.
NobodyWatched ==
  main = "matching" => \A r \in Releases : pc[r] = "idle" /\ task[r] = "idle"

Watching ==
  /\ pc \in [Releases -> Labels]
  /\ state \in [Releases -> WatchStates]
  /\ \A r \in Releases : Bounded(state[r])
  /\ verdict \in [Releases -> [verdict : StageVerdicts(Stage) \union {"Pending"},
                               blame : {"TotalBudget", "Own"}]]
  /\ Contract
  /\ DisplayAgreesWithVerdict
  /\ OwnBudgetWasSpent

Clocks ==
  /\ now \in 0 .. MaxTime
  /\ wake \in [Releases -> 0 .. MaxTime]
  /\ started \in [Releases -> 0 .. MaxTime]

MInv == Clocks /\ NobodyWatched /\ Watching

-----------------------------------------------------------------------------
\* What classify decides is a phase and a key a watcher may hold, and a terminal decision
\* comes with a verdict its phase explains.
LEMMA DecisionShape ==
  ASSUME NEW s \in Readable, NEW o \in Answers,
         NEW d, d = Classify(s, Version, o)
  PROVE  /\ d \in Decisions
         /\ d.phase \in Shown
         /\ d.signature \in Keys
         /\ d.terminal => /\ d.verdict \in {"SKIPPED_SUSPENDED", "FAILED", "READY"}
                          /\ \A b : Explains(d.phase, [verdict |-> d.verdict, blame |-> b])
<1>1. d \in Decisions
  BY DEF Decisions
<1>2. d.phase \in Shown /\ d.signature \in Keys
  BY <1>1 DEF Shown, Keys
<1>3. ASSUME d.terminal
      PROVE  \/ d.verdict = "SKIPPED_SUSPENDED" /\ d.phase = <<"Suspended">>
             \/ d.verdict = "FAILED" /\ d.phase[1] \in {"Stalled", "Ready=False", "TestSuccess=False"}
             \/ d.verdict = "READY" /\ d.phase = <<"Ready">>
  BY <1>3 DEF Classify, Terminal, Waiting
<1>4. ASSUME d.terminal, NEW b
      PROVE  Explains(d.phase, [verdict |-> d.verdict, blame |-> b])
  BY <1>3, <1>4 DEF Explains
<1> QED
  BY <1>1, <1>2, <1>3, <1>4

\* Recording a phase keeps the history bounded and ends it with that phase
\* (state.transitions, cut to its newest entries).
LEMMA RecordedLast ==
  ASSUME NEW ws, Bounded(ws), NEW phase \in Shown
  PROVE  LET t == Recorded(ws, phase).transitions
         IN /\ Bounded(Recorded(ws, phase))
            /\ t # << >>
            /\ t[Len(t)] = phase
<1> DEFINE longer == Append(ws.transitions, phase)
<1>1. ws.transitions \in Seq(Shown) /\ ws \in WatchStates
  BY DEF Bounded, WatchStates
<1>2. /\ longer \in Seq(Shown)
      /\ Len(longer) = Len(ws.transitions) + 1
      /\ longer[Len(longer)] = phase
      /\ longer # << >>
  BY <1>1
<1>3. Len(ws.transitions) \in Nat /\ Len(ws.transitions) <= TransitionsMax
  BY <1>1 DEF Bounded
<1> HIDE DEF longer
<1>4. CASE Len(longer) > TransitionsMax
  <2>1. /\ Tail(longer) \in Seq(Shown)
        /\ Len(Tail(longer)) = Len(ws.transitions)
        /\ Len(Tail(longer)) >= 1
        /\ Len(Tail(longer)) # 0
    BY <1>2, <1>3, <1>4, MonitorAssumption
  <2>2. Tail(longer)[Len(Tail(longer))] = phase
    <3> DEFINE t == Tail(longer)
    <3>1. \A i \in 1 .. Len(t) : t[i] = longer[i + 1]
      BY <1>2
    <3>2. Len(t) \in 1 .. Len(t) /\ Len(t) + 1 = Len(longer)
      BY <1>2, <1>3, <2>1
    <3> HIDE DEF t
    <3>3. t[Len(t)] = longer[Len(longer)]
      BY <3>1, <3>2
    <3> QED
      BY <1>2, <3>3, Zenon DEF t
  <2>3. Recorded(ws, phase) = [ws EXCEPT !.transitions = Tail(longer)]
    BY <1>4 DEF Recorded, longer
  <2>4. Tail(longer) # << >>
    <3>1. Len(<< >>) = 0
      OBVIOUS
    <3>2. Tail(longer) = << >> => Len(Tail(longer)) = 0
      BY <3>1, Zenon
    <3> QED
      BY <2>1, <3>2, Zenon
  <2> QED
    BY <1>1, <1>3, <2>1, <2>2, <2>3, <2>4 DEF Bounded, WatchStates
<1>5. CASE ~(Len(longer) > TransitionsMax)
  <2>1. Recorded(ws, phase) = [ws EXCEPT !.transitions = longer]
    BY <1>5 DEF Recorded, longer
  <2> QED
    BY <1>1, <1>2, <1>3, <1>5, <2>1, MonitorAssumption DEF Bounded, WatchStates
<1> QED
  BY <1>4, <1>5

\* Noting a signature keeps the watch state bounded, whether or not it is new.
LEMMA NotedBounded ==
  ASSUME NEW ws, Bounded(ws), NEW key \in Keys, NEW phase \in Shown
  PROVE  Bounded(Noted(ws, key, phase))
<1>1. Bounded(Recorded(ws, phase))
  BY RecordedLast
<1>2. Bounded([Recorded(ws, phase) EXCEPT !.signature = key])
  BY <1>1 DEF Bounded, WatchStates
<1> QED
  BY <1>2 DEF Noted

-----------------------------------------------------------------------------
\* What justifies the way a watch ends.
Justified(r, v, reason, phase) ==
  /\ v \in StageVerdicts(Stage)
  /\ \A b \in {"TotalBudget", "Own"} :
       (b = "TotalBudget" <=> v = "TIMED_OUT" /\ reason = "TotalBudgetExhausted")
         => Explains(phase, [verdict |-> v, blame |-> b])
  /\ v = "TIMED_OUT" =>
       IF reason = "TotalBudgetExhausted" THEN cancel \/ now >= TotalTimeout
       ELSE now >= started'[r] + PerHR /\ started'[r] + PerHR < TotalTimeout

\* A watcher that concludes for a justified reason preserves what is known of all watchers.
LEMMA StopKeeps ==
  ASSUME Watching, UNCHANGED <<now, cancel>>, NEW r \in Releases,
         \A s \in Releases \ {r} : started'[s] = started[s],
         NEW ws, Bounded(ws), NEW v, NEW reason, NEW phase \in Shown,
         Stop(r, ws, v, reason, phase), Justified(r, v, reason, phase)
  PROVE  Watching'
<1> DEFINE b == IF v = "TIMED_OUT" /\ reason = "TotalBudgetExhausted" THEN "TotalBudget" ELSE "Own"
           new == Recorded(ws, phase)
<1>1. /\ pc' = [pc EXCEPT ![r] = "finalize"]
      /\ state' = [state EXCEPT ![r] = new]
      /\ verdict' = [verdict EXCEPT ![r] = [verdict |-> v, blame |-> b]]
  BY DEF Stop, GoTo
<1>2. /\ Bounded(new)
      /\ new.transitions # << >>
      /\ new.transitions[Len(new.transitions)] = phase
  BY RecordedLast
<1>3. /\ b \in {"TotalBudget", "Own"}
      /\ v \in StageVerdicts(Stage)
      /\ Explains(phase, [verdict |-> v, blame |-> b])
      /\ b = "TotalBudget" => v = "TIMED_OUT" /\ (cancel \/ now >= TotalTimeout)
      /\ v = "TIMED_OUT" /\ b = "Own" => now >= started'[r] + PerHR /\ started'[r] + PerHR < TotalTimeout
  BY DEF Justified
<1> HIDE DEF b, new
<1>4. /\ pc'[r] = "finalize" /\ state'[r] = new /\ verdict'[r] = [verdict |-> v, blame |-> b]
      /\ \A s \in Releases \ {r} : pc'[s] = pc[s] /\ state'[s] = state[s] /\ verdict'[s] = verdict[s]
  BY <1>1 DEF Watching
<1>5. pc' \in [Releases -> Labels]
  BY <1>1 DEF Watching, Labels
<1>6. state' \in [Releases -> WatchStates] /\ \A s \in Releases : Bounded(state'[s])
  BY <1>1, <1>2, <1>4 DEF Watching, Bounded
<1>7. verdict' \in [Releases -> [verdict : StageVerdicts(Stage) \union {"Pending"},
                               blame : {"TotalBudget", "Own"}]]
  BY <1>1, <1>3 DEF Watching
<1>8. Contract'
  BY <1>3, <1>4 DEF Watching, Contract
<1>9. DisplayAgreesWithVerdict'
  BY <1>2, <1>3, <1>4 DEF Watching, DisplayAgreesWithVerdict, Explains
<1>10. OwnBudgetWasSpent'
  BY <1>3, <1>4 DEF Watching, OwnBudgetWasSpent
<1> QED
  BY <1>5, <1>6, <1>7, <1>8, <1>9, <1>10 DEF Watching, Bounded

\* A watcher that goes on without concluding preserves what is known of all watchers.
LEMMA ContinueKeeps ==
  ASSUME Watching, UNCHANGED <<now, cancel>>, NEW r \in Releases,
         \A s \in Releases \ {r} : started'[s] = started[s],
         NEW ws, Bounded(ws), NEW label \in Labels \ {"finalize"},
         Continue(r, ws, label)
  PROVE  Watching'
<1>1. /\ pc' = [pc EXCEPT ![r] = label]
      /\ state' = [state EXCEPT ![r] = ws]
      /\ verdict' = verdict
  BY DEF Continue, GoTo
<1>2. /\ pc'[r] # "finalize"
      /\ \A s \in Releases \ {r} : pc'[s] = pc[s] /\ state'[s] = state[s]
  BY <1>1 DEF Watching
<1>3. pc' \in [Releases -> Labels]
  BY <1>1 DEF Watching
<1>4. state' \in [Releases -> WatchStates] /\ \A s \in Releases : Bounded(state'[s])
  BY <1>1 DEF Watching, Bounded
<1>5. Contract'
  BY <1>1, <1>2 DEF Watching, Contract
<1>6. DisplayAgreesWithVerdict'
  BY <1>1, <1>2 DEF Watching, DisplayAgreesWithVerdict, Explains
<1>7. OwnBudgetWasSpent'
  BY <1>1, <1>2 DEF Watching, OwnBudgetWasSpent
<1> QED
  BY <1>1, <1>3, <1>4, <1>5, <1>6, <1>7 DEF Watching, Bounded

\* The verdicts of the rollout stage.
LEMMA RolloutVerdicts == StageVerdicts(Stage) = {"READY", "FAILED", "TIMED_OUT", "SKIPPED_SUSPENDED"}
BY MonitorAssumption DEF StageVerdicts

\* The phases that no status of a release produces.
LEMMA FixedPhases ==
  {<<"Cancelled">>, <<"TimedOut">>, <<"Disappeared">>, <<"WorkloadsPollError">>} \subseteq Shown
BY DEF Shown

\* Stopping because the run is cancelled is justified.
LEMMA CancelledKeeps ==
  ASSUME Watching, UNCHANGED <<now, cancel, started>>, NEW r \in Releases, cancel, Cancelled(r)
  PROVE  Watching'
<1>1. Justified(r, "TIMED_OUT", "TotalBudgetExhausted", <<"Cancelled">>)
  BY RolloutVerdicts DEF Justified, Explains
<1>2. Bounded(state[r])
  BY DEF Watching
<1> QED
  BY <1>1, <1>2, FixedPhases, StopKeeps DEF Cancelled

\* Acting on a classification preserves what is known of the watchers.
LEMMA ActKeeps ==
  ASSUME Watching, UNCHANGED <<now, cancel, started>>, NEW r \in Releases,
         NEW ws, Bounded(ws), NEW s \in Readable, NEW o \in Answers,
         Act(r, ws, Classify(s, Version, o))
  PROVE  Watching'
<1> DEFINE d == Classify(s, Version, o)
<1>1. /\ d.phase \in Shown
      /\ d.signature \in Keys
      /\ d.terminal => /\ d.verdict \in {"SKIPPED_SUSPENDED", "FAILED", "READY"}
                       /\ \A b : Explains(d.phase, [verdict |-> d.verdict, blame |-> b])
  BY DecisionShape
<1>2. IF d.terminal THEN Stop(r, ws, d.verdict, d.reason, d.phase)
      ELSE Continue(r, Noted(ws, d.signature, d.phase), "check")
  BY DEF Act
<1> HIDE DEF d
<1>3. CASE d.terminal
  <2>1. Justified(r, d.verdict, d.reason, d.phase)
    BY <1>1, <1>3, RolloutVerdicts DEF Justified
  <2> QED
    BY <1>1, <1>2, <1>3, <2>1, StopKeeps
<1>4. CASE ~d.terminal
  <2>1. Bounded(Noted(ws, d.signature, d.phase))
    BY <1>1, NotedBounded
  <2>2. "check" \in Labels \ {"finalize"}
    BY DEF Labels
  <2> QED
    BY <1>2, <1>4, <2>1, <2>2, ContinueKeeps
<1> QED
  BY <1>3, <1>4

\* Looking at a fresh status preserves what is known of the watchers.
LEMMA LookKeeps ==
  ASSUME Watching, UNCHANGED <<now, cancel, started>>, NEW r \in Releases,
         NEW s \in Readable, Look(r, s)
  PROVE  Watching'
<1> DEFINE ws == [state[r] EXCEPT !.last = s]
<1>1. Bounded(ws)
  BY DEF Watching, Bounded, WatchStates
<1>2. Continue(r, ws, "listing") \/ Act(r, ws, Classify(s, Version, Unread))
  BY DEF Look
<1> HIDE DEF ws
<1>3. "listing" \in Labels \ {"finalize"} /\ Unread \in Answers
  BY DEF Labels, Answers
<1> QED
  BY <1>1, <1>2, <1>3, ContinueKeeps, ActKeeps

-----------------------------------------------------------------------------
\* A watcher's step that is not its start.
LaterStep(r) ==
  FirstPass(r) \/ ListWorkloads(r) \/ CheckBudget(r) \/ WakeUp(r) \/ Poll(r) \/ Crash(r) \/ Finalize(r)

\* Every step of _watch_hr after its first preserves what is known of the watchers.
LEMMA LaterKeeps ==
  ASSUME Clocks, Watching, NEW r \in Releases, LaterStep(r)
  PROVE  Watching'
<1>0. UNCHANGED <<now, cancel, started>>
  BY DEF LaterStep, FirstPass, ListWorkloads, CheckBudget, WakeUp, Poll, Crash, Finalize,
         WorkerCrashes, Returned, fanoutVars
<1>a. Bounded(state[r]) /\ state[r].last \in Readable
  BY DEF Watching, Bounded, WatchStates
<1>b. {"check", "sleep", "poll", "over"} \subseteq Labels \ {"finalize"}
  BY DEF Labels
<1>1. CASE FirstPass(r)
  BY <1>0, <1>1, <1>a, CancelledKeeps, LookKeeps DEF FirstPass
<1>2. CASE ListWorkloads(r)
  <2>1. PICK o \in Rollouts :
          LET listed == IF o.read THEN state[r]
                        ELSE Noted(state[r], <<"poll-error-workloads">>, <<"WorkloadsPollError">>)
          IN Act(r, listed, Classify(state[r].last, Version, o))
    BY <1>2 DEF ListWorkloads
  <2> DEFINE listed == IF o.read THEN state[r]
                       ELSE Noted(state[r], <<"poll-error-workloads">>, <<"WorkloadsPollError">>)
  <2>2. <<"poll-error-workloads">> \in Keys /\ <<"WorkloadsPollError">> \in Shown
    BY FixedPhases DEF Keys
  <2>3. Bounded(listed)
    BY <1>a, <2>2, NotedBounded
  <2>4. o \in Answers
    BY DEF Answers
  <2>5. Act(r, listed, Classify(state[r].last, Version, o))
    BY <2>1
  <2> HIDE DEF listed
  <2> QED
    BY <1>0, <1>a, <2>3, <2>4, <2>5, ActKeeps
<1>3. CASE CheckBudget(r)
  <2>1. CASE cancel /\ Cancelled(r)
    BY <1>0, <2>1, CancelledKeeps
  <2>2. ASSUME now >= HRDeadline(r),
               Stop(r, state[r], "TIMED_OUT",
                    IF now >= TotalTimeout THEN "TotalBudgetExhausted" ELSE "PerHRBudgetExhausted",
                    <<"TimedOut">>)
        PROVE  Watching'
    <3> DEFINE reason == IF now >= TotalTimeout THEN "TotalBudgetExhausted" ELSE "PerHRBudgetExhausted"
    <3>1. now >= TotalTimeout \/ (now >= started[r] + PerHR /\ started[r] + PerHR < TotalTimeout)
      BY <2>2, MonitorAssumption, FanoutAssumption DEF Clocks, HRDeadline, Least
    <3>2. IF reason = "TotalBudgetExhausted" THEN cancel \/ now >= TotalTimeout
          ELSE now >= started'[r] + PerHR /\ started'[r] + PerHR < TotalTimeout
      BY <1>0, <3>1
    <3>3. \A b : Explains(<<"TimedOut">>, [verdict |-> "TIMED_OUT", blame |-> b])
      BY DEF Explains
    <3> HIDE DEF reason
    <3>4. Justified(r, "TIMED_OUT", reason, <<"TimedOut">>)
      BY <3>2, <3>3, RolloutVerdicts DEF Justified
    <3>5. Stop(r, state[r], "TIMED_OUT", reason, <<"TimedOut">>)
      BY <2>2 DEF reason
    <3> QED
      BY <1>0, <1>a, <3>4, <3>5, FixedPhases, StopKeeps
  <2>3. CASE Continue(r, state[r], "sleep")
    BY <1>0, <1>a, <1>b, <2>3, ContinueKeeps
  <2> QED
    BY <1>3, <2>1, <2>2, <2>3 DEF CheckBudget
<1>4. CASE WakeUp(r)
  BY <1>0, <1>4, <1>a, <1>b, CancelledKeeps, ContinueKeeps DEF WakeUp
<1>5. CASE Poll(r)
  <2>1. ASSUME NEW s \in Statuses, Look(r, s) PROVE Watching'
    BY <1>0, <2>1, LookKeeps DEF Readable
  <2>2. ASSUME Stop(r, state[r], "FAILED", "Disappeared", <<"Disappeared">>) PROVE Watching'
    <3>1. Justified(r, "FAILED", "Disappeared", <<"Disappeared">>)
      BY RolloutVerdicts DEF Justified, Explains
    <3> QED
      BY <1>0, <1>a, <2>2, <3>1, FixedPhases, StopKeeps
  <2>3. ASSUME NEW f \in Faults,
               Continue(r, Noted(state[r], <<"poll-error", f>>, <<"PollError", f>>), "check")
        PROVE  Watching'
    <3>1. <<"poll-error", f>> \in Keys /\ <<"PollError", f>> \in Shown
      BY DEF Keys, Shown
    <3>2. Bounded(Noted(state[r], <<"poll-error", f>>, <<"PollError", f>>))
      BY <1>a, <3>1, NotedBounded
    <3> QED
      BY <1>0, <1>b, <2>3, <3>2, ContinueKeeps
  <2> QED
    BY <1>5, <2>1, <2>2, <2>3 DEF Poll
<1>6. CASE Crash(r) \/ Finalize(r)
  <2>1. Continue(r, state[r], "over")
    BY <1>6 DEF Crash, Finalize, Continue, GoTo, Watching
  <2> QED
    BY <1>0, <1>a, <1>b, <2>1, ContinueKeeps
<1> QED
  BY <1>1, <1>2, <1>3, <1>4, <1>5, <1>6 DEF LaterStep

\* The first step of _watch_hr, which starts the own clock of the watch, preserves it too.
LEMMA StartKeeps ==
  ASSUME Clocks, Watching, NEW r \in Releases, StartWatch(r)
  PROVE  Watching'
<1> DEFINE d == Classify(state[r].last, Version, Unread)
<1>0. /\ UNCHANGED <<now, cancel>>
      /\ started' = [started EXCEPT ![r] = now]
      /\ \A s \in Releases \ {r} : started'[s] = started[s]
  BY DEF StartWatch, Take, Clocks
<1>a. Bounded(state[r]) /\ state[r].last \in Readable /\ Unread \in Answers
  BY DEF Watching, Bounded, WatchStates, Answers
<1>1. /\ d.phase \in Shown
      /\ d.terminal => /\ d.verdict \in {"SKIPPED_SUSPENDED", "FAILED", "READY"}
                       /\ \A b : Explains(d.phase, [verdict |-> d.verdict, blame |-> b])
  BY <1>a, DecisionShape
<1>2. \/ d.terminal /\ Stop(r, state[r], d.verdict, d.reason, d.phase)
      \/ Continue(r, state[r], "jitter")
  BY DEF StartWatch
<1> HIDE DEF d
<1>3. CASE d.terminal /\ Stop(r, state[r], d.verdict, d.reason, d.phase)
  <2>1. Justified(r, d.verdict, d.reason, d.phase)
    BY <1>1, <1>3, RolloutVerdicts DEF Justified
  <2> QED
    BY <1>0, <1>a, <1>1, <1>3, <2>1, StopKeeps
<1>4. CASE Continue(r, state[r], "jitter")
  <2>1. "jitter" \in Labels \ {"finalize"}
    BY DEF Labels
  <2> QED
    BY <1>0, <1>a, <1>4, <2>1, ContinueKeeps
<1> QED
  BY <1>2, <1>3, <1>4

-----------------------------------------------------------------------------
\* A watcher's step is a step of Fanout or invisible to it.
LEMMA WatcherMaps ==
  ASSUME MInv, NEW r \in Releases, WatcherStep(r)
  PROVE  [Next]_fanoutVars
<1>1. CASE Finalize(r)
  <2>1. /\ verdict[r].blame \in {"TotalBudget", "Own"} /\ verdict[r].verdict \in StageVerdicts(Stage)
        /\ WorkerReturns(r, verdict[r].verdict, verdict[r].blame)
    BY <1>1 DEF Finalize, MInv, Watching, Contract, WorkerReturns
  <2> QED
    BY <2>1 DEF Next, WorkerStep
<1>2. CASE Crash(r)
  BY <1>2 DEF Crash, Next, WorkerStep, Crashes
<1>3. CASE StartWatch(r)
  BY <1>3 DEF StartWatch, Next, WorkerStep
<1>4. CASE FirstPass(r) \/ ListWorkloads(r) \/ CheckBudget(r) \/ WakeUp(r) \/ Poll(r)
  BY <1>4 DEF FirstPass, ListWorkloads, CheckBudget, WakeUp, Poll
<1> QED
  BY <1>1, <1>2, <1>3, <1>4 DEF WatcherStep

\* Every step of promote monitor is a step of _drive_fan_out or invisible to it.
LEMMA MonitorMaps ==
  ASSUME MInv, [MonitorNext]_vars
  PROVE  [Next]_fanoutVars
<1>1. MonitorMainStep => MainStep
  BY DEF MonitorMainStep, MainStep, Select
<1> QED
  BY <1>1, WatcherMaps DEF MonitorNext, Next, vars

\* Matching ends for good, and no task is there before.
LEMMA MatchingFirst ==
  ASSUME NobodyWatched, [Next]_fanoutVars, main' = "matching"
  PROVE  main = "matching" /\ UNCHANGED task
<1>1. CASE MainStep
  BY <1>1 DEF MainStep, Matched, MatchingFails, Open, Consume, ConsumeCrash, Drained, Join,
     Close, Return
<1>2. ASSUME NEW r \in Releases, WorkerStep(r) PROVE FALSE
  <2>1. main = "matching"
    BY <1>2 DEF WorkerStep, Take, WorkerReturns, Returned, WorkerCrashes
  <2> QED
    BY <1>2, <2>1 DEF NobodyWatched, WorkerStep, Take, WorkerReturns, Returned, WorkerCrashes
<1>3. CASE Tick \/ Interrupt \/ UNCHANGED fanoutVars
  BY <1>3 DEF Tick, Interrupt, fanoutVars
<1> QED
  BY <1>1, <1>2, <1>3 DEF Next, Terminated

\* No watcher sets its clocks beyond the horizon.
LEMMA WatcherClocks ==
  ASSUME Clocks, NEW r \in Releases, WatcherStep(r)
  PROVE  wake' \in [Releases -> 0 .. MaxTime] /\ started' \in [Releases -> 0 .. MaxTime]
<1>1. \A n \in Nat : Least(now + n, MaxTime) \in 0 .. MaxTime
  BY FanoutAssumption DEF Clocks, Least
<1>2. CASE StartWatch(r)
  BY <1>1, <1>2, MonitorAssumption DEF Clocks, StartWatch
<1>3. CASE CheckBudget(r)
  BY <1>1, <1>3, MonitorAssumption DEF Clocks, CheckBudget
<1>4. CASE FirstPass(r) \/ ListWorkloads(r) \/ WakeUp(r) \/ Poll(r) \/ Crash(r) \/ Finalize(r)
  BY <1>4 DEF Clocks, FirstPass, ListWorkloads, WakeUp, Poll, Crash, Finalize
<1> QED
  BY <1>2, <1>3, <1>4 DEF WatcherStep

\* As long as the releases are matched, no watcher is running.
LEMMA NobodyYet ==
  ASSUME MInv, [MonitorNext]_vars
  PROVE  NobodyWatched'
<1> SUFFICES ASSUME main' = "matching" PROVE \A r \in Releases : pc'[r] = "idle" /\ task'[r] = "idle"
  BY DEF NobodyWatched
<1>1. main = "matching" /\ UNCHANGED task /\ \A r \in Releases : pc[r] = "idle" /\ task[r] = "idle"
  BY MonitorMaps, MatchingFirst DEF MInv, NobodyWatched
<1>2. ASSUME NEW r \in Releases, WatcherStep(r) PROVE FALSE
  BY <1>1, <1>2 DEF WatcherStep, StartWatch, Take, FirstPass, ListWorkloads, CheckBudget,
     WakeUp, Poll, Crash, Finalize
<1>3. UNCHANGED pc
  BY <1>2 DEF MonitorNext, MonitorMainStep, Select, watchVars, vars
<1> QED
  BY <1>1, <1>3

\* Matching the releases, which resets their watch states, disturbs no watcher.
LEMMA SelectKeeps ==
  ASSUME MInv, Select
  PROVE  Watching'
<1>1. main = "matching" /\ UNCHANGED <<pc, started, verdict, now, cancel>>
  BY DEF Select, Matched
<1>2. \A r \in Releases : pc'[r] = "idle"
  BY <1>1 DEF MInv, NobodyWatched
<1>3. PICK ms \in Listings, read \in [Targets' -> Statuses] :
        state' = [r \in Releases |-> NewState(IF r \in Targets' THEN read[r] ELSE NoStatus)]
  BY DEF Select
<1>4. ASSUME NEW s \in Readable PROVE Bounded(NewState(s))
  <2>1. << >> \in Seq(Shown) /\ Len(<< >>) = 0 /\ << >> \in Keys
    BY DEF Keys
  <2> QED
    BY <1>4, <2>1, MonitorAssumption DEF Bounded, WatchStates, NewState
<1>5. \A r \in Releases : Bounded(state'[r])
  BY <1>3, <1>4 DEF Readable
<1>6. state' \in [Releases -> WatchStates]
  BY <1>3, <1>4 DEF Readable, Bounded
<1> QED
  BY <1>1, <1>2, <1>5, <1>6 DEF MInv, Watching, Contract, DisplayAgreesWithVerdict,
     OwnBudgetWasSpent, Bounded

\* The invariant of promote monitor is inductive.
LEMMA MonitorInductive ==
  ASSUME MInv, [MonitorNext]_vars
  PROVE  MInv'
<1>0. now' \in 0 .. MaxTime /\ now' >= now /\ (cancel => cancel')
  BY MonitorMaps, BudgetGrows DEF MInv, Clocks
<1>1. NobodyWatched'
  BY NobodyYet
<1>2. CASE UNCHANGED watchVars
  <2>1. UNCHANGED <<pc, wake, started, state, verdict>>
    BY <1>2 DEF watchVars
  <2>2. Clocks'
    BY <1>0, <2>1 DEF MInv, Clocks
  <2>3. Contract'
    BY <1>0, <2>1, FanoutAssumption DEF MInv, Clocks, Watching, Contract
  <2>4. DisplayAgreesWithVerdict'
    BY <2>1 DEF MInv, Watching, DisplayAgreesWithVerdict, Explains
  <2>5. OwnBudgetWasSpent'
    <3>1. \A r \in Releases : started[r] \in Nat /\ PerHR \in Nat /\ now \in Nat /\ now' \in Nat
      BY <1>0, MonitorAssumption, FanoutAssumption DEF MInv, Clocks
    <3> QED
      BY <1>0, <2>1, <3>1 DEF MInv, Watching, OwnBudgetWasSpent
  <2> QED
    BY <1>1, <2>1, <2>2, <2>3, <2>4, <2>5 DEF MInv, Watching, Bounded
<1>3. CASE Select
  <2>1. Clocks'
    BY <1>0, <1>3 DEF Select, MInv, Clocks
  <2> QED
    BY <1>1, <1>3, <2>1, SelectKeeps DEF MInv
<1>4. ASSUME NEW r \in Releases, WatcherStep(r) PROVE MInv'
  <2>1. Watching'
    BY <1>4, StartKeeps, LaterKeeps DEF WatcherStep, LaterStep, MInv
  <2>2. Clocks'
    BY <1>0, <1>4, WatcherClocks DEF MInv, Clocks
  <2> QED
    BY <1>1, <2>1, <2>2 DEF MInv
<1> QED
  BY <1>2, <1>3, <1>4 DEF MonitorNext, MonitorMainStep, vars

\* Promote monitor starts in its invariant, and as _drive_fan_out starts.
LEMMA MonitorInitially == MonitorInit => MInv /\ Init
<1> SUFFICES ASSUME MonitorInit PROVE MInv /\ Init
  OBVIOUS
<1>1. << >> \in Seq(Shown) /\ Len(<< >>) = 0 /\ << >> \in Keys /\ NoStatus \in Readable
  BY DEF Keys, Readable
<1>2. Bounded(NewState(NoStatus))
  BY <1>1, MonitorAssumption DEF Bounded, WatchStates, NewState
<1>3. \A r \in Releases : pc[r] = "idle" /\ task[r] = "idle" /\ state[r] = NewState(NoStatus)
  BY DEF MonitorInit, Init
<1>4. Watching
  BY <1>2, <1>3 DEF MonitorInit, Pending, Watching, Bounded, Contract, DisplayAgreesWithVerdict,
                    OwnBudgetWasSpent, Labels
<1>5. Clocks
  BY FanoutAssumption DEF MonitorInit, Init, Clocks
<1> QED
  BY <1>3, <1>4, <1>5 DEF MInv, NobodyWatched, MonitorInit

\* The invariant of promote monitor holds in every state of every run.
LEMMA MonitorInvariant == MonitorSpec => []MInv
BY MonitorInitially, MonitorInductive, PTL DEF MonitorSpec

\* Type correctness of promote monitor, with the cap on the history it keeps.
THEOREM MonitorTypeCorrect == MonitorSpec => []MonitorTypeOK
<1>1. MInv => MonitorTypeOK
  <2> SUFFICES ASSUME MInv PROVE MonitorTypeOK
    OBVIOUS
  <2>1. \A r \in Releases : state[r].last \in Readable /\ Len(state[r].transitions) <= TransitionsMax
    BY DEF MInv, Watching, Bounded, WatchStates
  <2> QED
    BY <2>1 DEF MInv, Watching, Clocks, MonitorTypeOK, Labels, Readable
<1> QED
  BY <1>1, MonitorInvariant, PTL

\* Promote monitor implements _drive_fan_out: _watch_hr answers as the loop expects of a
\* worker, so every theorem about Fanout holds of this command.
THEOREM MonitorImplements == MonitorSpec => ImplementsFanout
BY MonitorInitially, MonitorInvariant, MonitorMaps, PTL DEF MonitorSpec, Spec, ImplementsFanout

\* The last phase a watcher showed explains the verdict it returned.
THEOREM DisplayAgrees == MonitorSpec => []DisplayAgreesWithVerdict
<1>1. MInv => DisplayAgreesWithVerdict
  BY DEF MInv, Watching
<1> QED
  BY <1>1, MonitorInvariant, PTL

\* A watcher that blames its own budget for a time-out has spent that budget, however
\* its polls and sleeps were interleaved with the cancellation of the run.
THEOREM OwnBudgetSpent == MonitorSpec => []OwnBudgetWasSpent
<1>1. MInv => OwnBudgetWasSpent
  BY DEF MInv, Watching
<1> QED
  BY <1>1, MonitorInvariant, PTL

\* A release whose time-out is blamed on the run, in a run that ended before its budget
\* and was not interrupted, was cancelled because another release failed by itself.
THEOREM CancelExplained == MonitorSpec => []CancelIsExplained
<1>1. IInv /\ Caused => CancelIsExplained
  <2> SUFFICES ASSUME IInv, Caused, main = "done", raised = "None", now < TotalTimeout,
                      NEW q \in outcomes, result[q].blame = "TotalBudget"
               PROVE  \E r \in Failures : result[r].blame = "Own"
    BY DEF CancelIsExplained
  <2>1. cancel
    BY DEF IInv, BlameIsJustified
  <2>2. ~(now >= TotalTimeout)
    BY FanoutAssumption DEF IInv, TypeOK
  <2> QED
    BY <2>1, <2>2 DEF Caused
<1>2. MonitorSpec => Spec
  BY MonitorImplements DEF ImplementsFanout
<1> QED
  BY <1>1, <1>2, Invariance, CauseHolds, PTL

\* What a watcher reports is what the operator saw last, and time it says is spent is spent.
THEOREM VerdictsAreExplained == MonitorSpec => []VerdictIsExplained
BY DisplayAgrees, OwnBudgetSpent, PTL DEF VerdictIsExplained
=============================================================================
