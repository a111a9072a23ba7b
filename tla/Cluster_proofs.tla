---------------------------- MODULE Cluster_proofs ----------------------------
(***************************************************************************)
(* Proofs about Cluster, for any nodes, any bootstrap and target, and any  *)
(* number of commands that fail or are killed anywhere.                    *)
(*                                                                         *)
(* No property is inductive: each speaks of the end of a command, and what *)
(* makes it true is what was done on the way.  So the invariant says for   *)
(* each command what the entries behind `at` have become (Behind), where a *)
(* test that reuses a cluster goes (Ahead), and what was seen of the       *)
(* cluster when it was looked for (Seen).                                  *)
(***************************************************************************)
EXTENDS Cluster, SequenceTheorems, TLAPS

Converging == {"prepare", "install", "wait", "exercise"}

\* Where each command passes.
Kinds ==
  /\ pc = "stop" => cmd.kind = "down"
  /\ pc = "find" => cmd.kind \in {"test", "teardown"}
  /\ pc = "cleanup" => cmd.kind = "teardown"
  /\ pc = "delete" => cmd.kind \in {"reset", "teardown"}
  /\ pc = "listing" => cmd.kind \in {"reset", "teardown"}
  /\ pc = "snapshot" => Local
  /\ pc \in {"verify", "exercise"} => cmd.kind = "test"
  /\ pc = "verify" => cmd.opt
  /\ pc \in {"resolve", "ensure", "start", "create", "apiserver", "prepare", "install", "wait"} =>
       cmd.kind \in {"up", "reset", "test"}
  /\ pc \in Converging \union {"idle", "stop", "find", "resolve", "cleanup", "listing", "ensure",
                               "delete", "start", "create", "apiserver", "snapshot", "verify"}

\* Where it is in the plan.
Placed ==
  /\ pc \in Converging => at \in 1 .. Last
  /\ pc = "cleanup" => at \in 0 .. Len(Targets)
  /\ pc = "exercise" => ~InBootstrap(at)

\* A command creates one cluster, before it converges.
Counted ==
  /\ gen <= commands /\ since \in 0 .. gen
  /\ pc \in {"find", "resolve", "cleanup", "listing", "delete", "ensure", "start", "create"} => gen < commands

\* A control plane that came up has its container, and only such a one is converged.
Formed ==
  /\ formed => nodes[Control] # "absent"
  /\ pc \in Converging \union {"snapshot", "verify"} => formed

\* What --skip-installed may leave alone of an entry that it skips.
SkippedWell(i) ==
  cmd.opt /\ ~InBootstrap(i) /\ release[Plan[i]] \in {"deployed", "failed"}

ConvergedWell(i) == release[Plan[i]] = "deployed" /\ Plan[i] \in ready

\* What has become of an entry that is behind.  A later entry of its release takes the
\* readiness away until it is ready itself.
Handled(i) ==
  /\ Local /\ ~failed /\ ~(pc = "wait" /\ Plan[i] = Plan[at]) => ConvergedWell(i) \/ SkippedWell(i)
  /\ cmd.kind = "test" \/ InBootstrap(i) => release[Plan[i]] # "none"
  /\ cmd.kind = "test" /\ ~cmd.opt => InBootstrap(i) \/ (i \in HelmTests => i \in tested)

Behind ==
  /\ pc \in Converging => /\ \A i \in 1 .. at - 1 : Handled(i)
                          /\ \A r \in known : release[r] \in {"deployed", "failed"}
  /\ pc \notin Converging \union {"idle"} => known = {}
  /\ pc \in {"wait", "exercise"} => release[Plan[at]] = "deployed"
  /\ pc = "exercise" => Plan[at] \in ready

\* What was seen of the cluster still holds, unless a listing failed.
Seen ==
  ~blind =>
    /\ cmd.kind = "reset" =>
         /\ pc \in {"ensure", "create"} => ~Exists
         /\ pc # "start"
         /\ pc \in Converging \union {"apiserver", "snapshot"} => gen > since
    /\ cmd.kind = "teardown" /\ pc = "cleanup" => found = Exists

\* A test that is told to skip what its chart requires goes to its own entry.
Ahead == cmd.kind = "test" /\ cmd.opt /\ found /\ pc \in Converging => at = Last

\* The hooks that were run are the last ones.
Cleaned ==
  /\ pc = "find" => cleaned = <<>>
  /\ pc = "cleanup" => cleaned = [i \in 1 .. Len(Targets) - at |-> Targets[Len(Targets) + 1 - i]]
  /\ pc \in {"listing", "delete"} /\ cmd.kind = "teardown" =>
       cleaned = [i \in DOMAIN Targets |-> Targets[Len(Targets) + 1 - i]]

IInv ==
  /\ TypeOK /\ Kinds /\ Placed /\ Counted /\ Formed /\ Behind /\ Seen /\ Ahead /\ Cleaned
  /\ ConvergedMeansReady /\ BootstrapComesFirst /\ PassedMeansTested /\ TeardownIsComplete /\ ResetIsNew

-----------------------------------------------------------------------------
(***************************************************************************)
(* The plan.                                                               *)
(***************************************************************************)

\* Bootstrap comes first, then the target, which is not empty.
LEMMA PlanShape ==
  /\ Last \in Nat \ {0} /\ DOMAIN Plan = 1 .. Last
  /\ Len(Bootstrap) \in Nat /\ Len(Bootstrap) < Last
  /\ Len(Targets) \in Nat /\ Len(Targets) <= Last
  /\ \A i \in 1 .. Last : Plan[i] \in Releases
  /\ \A r \in Releases : \E i \in 1 .. Last : r = Plan[i]
<1>1. /\ Bootstrap \in Seq(STRING) /\ Targets \in Seq(STRING) /\ Targets # <<>>
  BY ClusterAssumption
<1>2. /\ Len(Bootstrap) \in Nat /\ Len(Targets) \in Nat \ {0}
      /\ Plan \in Seq(STRING) /\ Len(Plan) = Len(Bootstrap) + Len(Targets)
  BY <1>1 DEF Plan
<1>3. DOMAIN Plan = 1 .. Len(Plan)
  BY <1>2
<1>. QED
  BY <1>2, <1>3 DEF Last, Releases

\* Which of it is bootstrap, and which is the target.
LEMMA PlanParts ==
  /\ \A i \in DOMAIN Bootstrap : i \in 1 .. Last /\ InBootstrap(i) /\ Bootstrap[i] = Plan[i]
  /\ \A i \in DOMAIN Targets :
       /\ Len(Bootstrap) + i \in 1 .. Last /\ ~InBootstrap(Len(Bootstrap) + i)
       /\ Targets[i] = Plan[Len(Bootstrap) + i]
<1>1. Bootstrap \in Seq(STRING) /\ Targets \in Seq(STRING)
  BY ClusterAssumption
<1>2. /\ Len(Plan) = Len(Bootstrap) + Len(Targets)
      /\ \A i \in 1 .. Len(Plan) :
           Plan[i] = IF i <= Len(Bootstrap) THEN Bootstrap[i] ELSE Targets[i - Len(Bootstrap)]
  BY <1>1, ConcatProperties DEF Plan
<1>3. DOMAIN Bootstrap = 1 .. Len(Bootstrap) /\ DOMAIN Targets = 1 .. Len(Targets)
  BY <1>1
<1>4. Len(Bootstrap) \in Nat /\ Len(Targets) \in Nat
  BY <1>1
<1>5. \A i \in 1 .. Len(Targets) : Len(Bootstrap) + i \in 1 .. Len(Plan)
     /\ ~(Len(Bootstrap) + i <= Len(Bootstrap))
  BY <1>2, <1>4
<1>6. \A i \in 1 .. Len(Targets) : Plan[Len(Bootstrap) + i] = Targets[i]
  <2>. SUFFICES ASSUME NEW i \in 1 .. Len(Targets) PROVE Plan[Len(Bootstrap) + i] = Targets[i]
    OBVIOUS
  <2>1. PICK n \in 1 .. Len(Plan) : n = Len(Bootstrap) + i
    BY <1>5
  <2>2. ~(n <= Len(Bootstrap)) /\ n - Len(Bootstrap) = i
    BY <1>4, <2>1
  <2>. QED
    BY <1>2, <2>1, <2>2
<1>7. \A i \in 1 .. Len(Bootstrap) : i \in 1 .. Len(Plan)
  BY <1>2, <1>4
<1>. QED
  BY <1>2, <1>3, <1>5, <1>6, <1>7 DEF Last, InBootstrap

\* The releases of bootstrap are those of its entries.
LEMMA BootstrapParts ==
  /\ \A r \in BootstrapReleases : r \in Releases /\ \E i \in 1 .. Last : InBootstrap(i) /\ r = Plan[i]
  /\ \A i \in 1 .. Last : InBootstrap(i) => Plan[i] \in BootstrapReleases
<1>1. \A i \in 1 .. Last : InBootstrap(i) => i \in DOMAIN Bootstrap
  BY ClusterAssumption, PlanShape DEF InBootstrap
<1>. QED
  BY <1>1, PlanParts, PlanShape DEF BootstrapReleases

-----------------------------------------------------------------------------
(***************************************************************************)
(* The types, and where a command passes.                                  *)
(***************************************************************************)

LEMMA InitIInv == Init => IInv
<1>. SUFFICES ASSUME Init PROVE IInv
  OBVIOUS
<1>. USE DEF Init
<1>1. TypeOK
  <2>1. gen \in 0 .. MaxCommands /\ commands \in 0 .. MaxCommands /\ at \in 0 .. Last
    BY PlanShape, ClusterAssumption
  <2>2. cmd \in Commands
    BY DEF Commands
  <2>. QED
    BY <2>1, <2>2 DEF TypeOK
<1>2. Kinds /\ Placed /\ Counted /\ Formed /\ Behind /\ Seen /\ Ahead /\ Cleaned
  BY DEF Kinds, Placed, Counted, Formed, Behind, Seen, Ahead, Cleaned, Converging
<1>3. /\ ConvergedMeansReady /\ PassedMeansTested /\ TeardownIsComplete /\ ResetIsNew
  BY DEF ConvergedMeansReady, PassedMeansTested, TeardownIsComplete, ResetIsNew, Ended
<1>4. BootstrapComesFirst
  BY PlanParts, PlanShape DEF BootstrapComesFirst
<1>. QED
  BY <1>1, <1>2, <1>3, <1>4 DEF IInv

\* A step of the teardown: one hook is run, or all were.
LEMMA CleanupMoves ==
  ASSUME Cleanup
  PROVE  /\ pc = "cleanup" /\ UNCHANGED <<cluster, request, found, known, tested, blind>>
         /\ \/ /\ at > 0 /\ at' = at - 1 /\ pc' = "cleanup" /\ exit' = exit
               /\ cleaned' = Append(cleaned, Targets[at])
            \/ /\ ~(at > 0) /\ at' = at /\ cleaned' = cleaned
               /\ \/ pc' = "listing" /\ exit' = exit
                  \/ pc' = "idle" /\ exit' \in {"ok", "failed"} /\ ~(found /\ ~cmd.opt)
<1>0. pc = "cleanup" /\ UNCHANGED <<cluster, request, found, known, tested, blind>>
  BY DEF Cleanup
<1>1. CASE at > 0
  BY <1>0, <1>1 DEF Cleanup
<1>2. CASE ~(at > 0)
  <2>1. UNCHANGED <<at, cleaned, failed>>
    BY <1>2 DEF Cleanup
  <2>2. CASE found /\ ~cmd.opt
    BY <1>0, <1>2, <2>1, <2>2 DEF Cleanup, GoTo
  <2>3. CASE ~(found /\ ~cmd.opt)
    BY <1>0, <1>2, <2>1, <2>3 DEF Cleanup, Finish
  <2>. QED
    BY <2>2, <2>3
<1>. QED
  BY <1>1, <1>2

\* A step of the listing before a delete: what it takes for no cluster is none, unless the
\* listing failed.
LEMMA ListMoves ==
  ASSUME List
  PROVE  /\ pc = "listing" /\ UNCHANGED <<cluster, memory, request, at>>
         /\ \/ pc' = "delete"
            \/ pc' = "ensure" /\ cmd.kind = "reset" /\ (~blind' => ~Exists)
            \/ pc' = "idle" /\ cmd.kind # "reset" /\ (~blind' => ~Exists)
<1>1. pc = "listing" /\ UNCHANGED <<cluster, memory, request, at>>
  BY DEF List
<1>2. PICK here \in BOOLEAN :
        /\ Lists(here)
        /\ IF here THEN GoTo("delete")
           ELSE IF cmd.kind = "reset" THEN GoTo("ensure")
           ELSE Finish(IF failed THEN "failed" ELSE "ok")
  BY DEF List
<1>3. CASE here
  BY <1>1, <1>2, <1>3 DEF GoTo
<1>4. CASE ~here
  <2>1. ~blind' => ~Exists
    BY <1>2, <1>4 DEF Lists
  <2>2. (cmd.kind = "reset" /\ pc' = "ensure") \/ (cmd.kind # "reset" /\ pc' = "idle")
    BY <1>2, <1>4 DEF GoTo, Finish
  <2>. QED
    BY <1>1, <2>1, <2>2
<1>. QED
  BY <1>3, <1>4

LEMMA CommandType ==
  ASSUME TypeOK
  PROVE  cmd.kind \in {"up", "test", "teardown", "reset", "down"} /\ cmd.opt \in BOOLEAN
  BY DEF TypeOK, Commands

\* Where a command passes.
LEMMA NextKinds == ASSUME IInv, Next PROVE Kinds'
<1>. USE DEF GoTo, Finish, Kinds, Converging, Local, memory, request
<1>0. TypeOK /\ Kinds /\ Placed
  BY DEF IInv
<1>1. CASE Begin
  BY <1>0, <1>1 DEF Begin, Commands
<1>2. CASE Find \/ Resolve \/ List \/ Delete \/ Ensure
  BY <1>0, <1>2 DEF Find, Resolve, List, Delete, Ensure
<1>3. CASE Start \/ Create \/ Stop \/ Apiserver \/ Snapshot \/ Verify
  BY <1>0, <1>3, CommandType DEF Start, Create, Stop, Apiserver, Snapshot, Verify
<1>4. CASE Prepare \/ Install \/ Exercise
  BY <1>0, <1>4 DEF Prepare, Install, Exercise, Fails, Advance
<1>5. CASE Wait
  <2>1. cmd.kind \in {"up", "reset", "test"} /\ cmd' = cmd /\ pc = "wait"
    BY <1>0, <1>5 DEF Wait
  <2>2. pc' \in {"idle", "prepare"} \/ (pc' = "exercise" /\ cmd.kind = "test")
    BY <1>5, <2>1 DEF Wait, Fails, Advance
  <2>. QED
    BY <2>1, <2>2
<1>6. CASE Cleanup \/ Kill
  BY <1>0, <1>6 DEF Cleanup, Kill
<1>. QED
  BY <1>1, <1>2, <1>3, <1>4, <1>5, <1>6 DEF Next, Working

\* Where it is in the plan.
LEMMA NextPlaced == ASSUME IInv, Next PROVE Placed'
<1>. USE DEF GoTo, Finish, Placed, Converging, Local, memory, request, InBootstrap
<1>0. TypeOK /\ Kinds /\ Placed /\ at \in 0 .. Last
  BY DEF IInv, TypeOK
<1>1. CASE Begin
  BY <1>0, <1>1 DEF Begin
<1>2. CASE Find \/ Resolve \/ List \/ Delete \/ Ensure \/ Start \/ Create \/ Stop
  BY <1>0, <1>2, PlanShape DEF Find, Resolve, List, Delete, Ensure, Start, Create, Stop
<1>3. CASE Apiserver \/ Snapshot \/ Verify
  BY <1>0, <1>3, PlanShape DEF Apiserver, Snapshot, Verify
<1>4. CASE Prepare \/ Install \/ Exercise
  BY <1>0, <1>4, PlanShape DEF Prepare, Install, Exercise, Fails, Advance
<1>5. CASE Wait
  BY <1>0, <1>5, PlanShape DEF Wait, Fails, Advance
<1>6. CASE Cleanup
  BY <1>0, <1>6, CleanupMoves, PlanShape
<1>7. CASE Kill
  BY <1>0, <1>7 DEF Kill
<1>. QED
  BY <1>1, <1>2, <1>3, <1>4, <1>5, <1>6, <1>7 DEF Next, Working

\* A command creates one cluster.
LEMMA NextCounted == ASSUME IInv, Next PROVE Counted'
<1>. USE DEF GoTo, Finish, Counted, cluster, request
<1>0. /\ TypeOK /\ Kinds /\ Counted
      /\ gen \in Nat /\ commands \in Nat /\ since \in Nat
  BY ClusterAssumption DEF IInv, TypeOK
<1>1. CASE Begin
  BY <1>0, <1>1 DEF Begin
<1>2. CASE Find \/ Resolve \/ List \/ Ensure
  BY <1>0, <1>2 DEF Find, Resolve, List, Ensure
<1>3. CASE Delete
  BY <1>0, <1>3 DEF Delete, Remove
<1>4. CASE Start \/ Stop
  BY <1>0, <1>4 DEF Start, Stop, Switch
<1>5. CASE Create
  BY <1>0, <1>5 DEF Create
<1>6. CASE Apiserver \/ Snapshot \/ Verify
  BY <1>0, <1>6 DEF Apiserver, Snapshot, Verify
<1>7. CASE Prepare \/ Install \/ Wait \/ Exercise
  BY <1>0, <1>7 DEF Prepare, Install, Wait, Exercise, Fails, Advance
<1>8. CASE Cleanup
  BY <1>0, <1>8 DEF Cleanup
<1>9. CASE Kill
  <2>1. gen' = gen
    BY <1>9 DEF Kill, Interrupted, Remove, Switch
  <2>. QED
    BY <1>0, <1>9, <2>1 DEF Kill
<1>. QED
  BY <1>1, <1>2, <1>3, <1>4, <1>5, <1>6, <1>7, <1>8, <1>9 DEF Next, Working

\* A control plane that came up has its container.
LEMMA NextFormed == ASSUME IInv, Next PROVE Formed'
<1>. USE DEF GoTo, Finish, Formed, Converging, cluster
<1>0. TypeOK /\ Kinds /\ Formed /\ Control \in Nodes
  BY ClusterAssumption DEF IInv
<1>1. ASSUME NEW gone \in SUBSET Nodes, Remove(gone)
      PROVE  formed' => nodes'[Control] # "absent"
  BY <1>0, <1>1 DEF Remove
<1>2. ASSUME NEW some, NEW state, Switch(some, state), state # "absent"
      PROVE  formed' = formed /\ (formed => nodes'[Control] # "absent")
  BY <1>0, <1>2 DEF Switch
<1>3. CASE Begin \/ Find \/ Resolve \/ List \/ Ensure
  BY <1>0, <1>3 DEF Begin, Find, Resolve, List, Ensure
<1>4. CASE Delete
  BY <1>0, <1>1, <1>4 DEF Delete
<1>5. CASE Start \/ Stop
  BY <1>0, <1>2, <1>5 DEF Start, Stop
<1>6. CASE Create
  BY <1>0, <1>6 DEF Create
<1>7. CASE Apiserver \/ Snapshot \/ Verify
  BY <1>0, <1>7 DEF Apiserver, Snapshot, Verify
<1>8. CASE Prepare \/ Install \/ Wait \/ Exercise
  BY <1>0, <1>8 DEF Prepare, Install, Wait, Exercise, Fails, Advance
<1>9. CASE Cleanup
  BY <1>0, <1>9 DEF Cleanup
<1>10. CASE Kill
  <2>1. formed' => nodes'[Control] # "absent"
    BY <1>0, <1>1, <1>2, <1>10 DEF Kill, Interrupted, Exists
  <2>. QED
    BY <1>10, <2>1 DEF Kill
<1>. QED
  BY <1>3, <1>4, <1>5, <1>6, <1>7, <1>8, <1>9, <1>10 DEF Next, Working

-----------------------------------------------------------------------------
(***************************************************************************)
(* The types.                                                              *)
(***************************************************************************)

\* Releases that are removed with their cluster, and containers that are switched.
LEMMA RemoveType ==
  ASSUME TypeOK, NEW gone \in SUBSET Nodes, Remove(gone)
  PROVE  /\ nodes' \in [Nodes -> {"absent", "stopped", "running"}] /\ formed' \in BOOLEAN
         /\ release' \in [Releases -> {"none", "pending", "deployed", "failed"}] /\ ready' \subseteq Releases
         /\ ~formed' => ready' = {} /\ \A r \in Releases : release'[r] = "none"
  BY DEF TypeOK, Remove

LEMMA SwitchType ==
  ASSUME TypeOK, NEW some, NEW state \in {"stopped", "running"}, Switch(some, state)
  PROVE  /\ nodes' \in [Nodes -> {"absent", "stopped", "running"}]
         /\ UNCHANGED <<formed, release, ready>>
  BY DEF TypeOK, Switch

LEMMA NextType == ASSUME IInv, Next PROVE TypeOK'
<1>. USE DEF GoTo, Finish, cluster, memory, request
<1>0. TypeOK /\ Kinds /\ Placed /\ Formed /\ commands \in Nat /\ gen \in Nat
  BY ClusterAssumption DEF IInv, TypeOK
<1>1. commands' \in 0 .. MaxCommands /\ cmd' \in Commands
  <2>1. CASE Begin
    BY <1>0, <2>1, ClusterAssumption DEF Begin, TypeOK
  <2>2. CASE Working \/ Kill
    <3>1. UNCHANGED <<commands, cmd>>
      BY <2>2 DEF Working, Kill, Find, Resolve, List, Delete, Ensure, Start, Create, Stop, Apiserver,
                  Snapshot, Verify, Prepare, Install, Wait, Exercise, Cleanup
    <3>. QED
      BY <1>0, <3>1 DEF TypeOK
  <2>. QED
    BY <2>1, <2>2 DEF Next
<1>2. gen' \in 0 .. MaxCommands
  <2>1. gen' \in Nat
    <3>1. gen' = gen \/ gen' = gen + 1
      BY DEF Next, Begin, Working, Kill, Interrupted, Find, Resolve, List, Delete, Ensure, Start, Create,
             Stop, Apiserver, Snapshot, Verify, Prepare, Install, Wait, Exercise, Cleanup, Remove, Switch
    <3>. QED
      BY <1>0, <3>1
  <2>2. gen' <= commands'
    BY NextCounted DEF Counted
  <2>. QED
    BY <1>1, <2>1, <2>2, ClusterAssumption
<1>3. at' \in 0 .. Last
  <2>1. CASE Begin \/ Find \/ Resolve \/ List \/ Delete \/ Ensure \/ Start \/ Create \/ Stop
    BY <1>0, <2>1, PlanShape
       DEF TypeOK, Begin, Find, Resolve, List, Delete, Ensure, Start, Create, Stop
  <2>2. CASE Apiserver \/ Snapshot \/ Verify \/ Kill
    BY <1>0, <2>2, PlanShape DEF TypeOK, Apiserver, Snapshot, Verify, Kill
  <2>3. CASE Prepare \/ Install \/ Wait \/ Exercise
    <3>1. at' = at \/ (at < Last /\ at' = at + 1)
      BY <2>3 DEF Prepare, Install, Wait, Exercise, Fails, Advance
    <3>. QED
      BY <1>0, <3>1, PlanShape DEF TypeOK
  <2>4. CASE Cleanup
    <3>1. at' = at \/ (at > 0 /\ at' = at - 1)
      BY <2>4 DEF Cleanup
    <3>. QED
      BY <1>0, <3>1, PlanShape DEF TypeOK
  <2>. QED
    BY <2>1, <2>2, <2>3, <2>4 DEF Next, Working
<1>4. /\ {found', failed', blind'} \subseteq BOOLEAN
      /\ exit' \in {"none", "ok", "failed", "raised", "killed"}
  <2>0. /\ found \in BOOLEAN /\ failed \in BOOLEAN /\ blind \in BOOLEAN
        /\ exit \in {"none", "ok", "failed", "raised", "killed"}
    BY <1>0 DEF TypeOK
  <2>1. CASE Begin \/ Resolve \/ Delete \/ Start \/ Create \/ Stop \/ Apiserver
    BY <2>0, <2>1 DEF Begin, Resolve, Delete, Start, Create, Stop, Apiserver
  <2>2. CASE Find \/ List \/ Ensure
    BY <2>0, <2>2 DEF Find, List, Ensure, Lists, Exists
  <2>3. CASE Snapshot \/ Verify \/ Kill
    BY <2>0, <2>3 DEF Snapshot, Verify, Kill
  <2>4. CASE Prepare \/ Install \/ Wait \/ Exercise
    BY <2>0, <2>4 DEF Prepare, Install, Wait, Exercise, Fails, Advance
  <2>5. CASE Cleanup
    BY <2>0, <2>5 DEF Cleanup
  <2>. QED
    BY <2>1, <2>2, <2>3, <2>4, <2>5 DEF Next, Working
<1>5. known' \subseteq Releases /\ tested' \subseteq DOMAIN Plan
  <2>0. known \subseteq Releases /\ tested \subseteq DOMAIN Plan
    BY <1>0 DEF TypeOK
  <2>1. CASE Begin \/ Find \/ Resolve \/ List \/ Delete \/ Ensure \/ Start \/ Create \/ Stop
    BY <2>0, <2>1 DEF Begin, Find, Resolve, List, Delete, Ensure, Start, Create, Stop
  <2>2. CASE Apiserver \/ Snapshot \/ Verify \/ Kill
    BY <2>0, <2>2 DEF Apiserver, Snapshot, Verify, Kill, Settled
  <2>3. CASE Prepare \/ Install \/ Cleanup
    BY <2>0, <2>3 DEF Prepare, Install, Cleanup
  <2>4. CASE Wait \/ Exercise
    <3>1. Plan[at] \in Releases /\ at \in DOMAIN Plan
      BY <1>0, <2>4, PlanShape DEF Placed, Converging, Wait, Exercise
    <3>. QED
      BY <2>0, <2>4, <3>1 DEF Wait, Exercise
  <2>. QED
    BY <2>1, <2>2, <2>3, <2>4 DEF Next, Working
<1>6. /\ nodes' \in [Nodes -> {"absent", "stopped", "running"}] /\ formed' \in BOOLEAN
      /\ release' \in [Releases -> {"none", "pending", "deployed", "failed"}] /\ ready' \subseteq Releases
      /\ ~formed' => ready' = {} /\ \A r \in Releases : release'[r] = "none"
  <2>0. /\ nodes \in [Nodes -> {"absent", "stopped", "running"}] /\ formed \in BOOLEAN
        /\ release \in [Releases -> {"none", "pending", "deployed", "failed"}] /\ ready \subseteq Releases
        /\ ~formed => ready = {} /\ \A r \in Releases : release[r] = "none"
    BY <1>0 DEF TypeOK
  <2>1. CASE Begin \/ Find \/ Resolve \/ List \/ Ensure \/ Apiserver \/ Snapshot \/ Verify
       \/ Prepare \/ Exercise \/ Cleanup
    <3>1. UNCHANGED cluster
      BY <2>1 DEF Begin, Find, Resolve, List, Ensure, Apiserver, Snapshot, Verify, Prepare,
           Exercise, Cleanup
    <3>. QED
      BY <2>0, <3>1
  <2>2. CASE Delete
    BY <1>0, <2>2, RemoveType DEF Delete
  <2>3. CASE Start \/ Stop
    BY <1>0, <2>0, <2>3, SwitchType DEF Start, Stop
  <2>4. CASE Create
    BY <2>0, <2>4 DEF Create
  <2>5. CASE Install
    <3>1. formed /\ formed' = formed /\ nodes' = nodes /\ ready' \subseteq ready
      BY <1>0, <2>5 DEF Formed, Converging, Install
    <3>2. release' \in [Releases -> {"none", "pending", "deployed", "failed"}]
      BY <2>0, <2>5 DEF Install
    <3>. QED
      BY <2>0, <3>1, <3>2
  <2>6. CASE Wait
    <3>1. formed /\ Plan[at] \in Releases
      BY <1>0, <2>6, PlanShape DEF Formed, Placed, Converging, Wait
    <3>. QED
      BY <2>0, <2>6, <3>1 DEF Wait
  <2>7. CASE Kill
    <3>0. Interrupted
      BY <2>7 DEF Kill
    <3>1. CASE pc = "delete"
      BY <1>0, <3>0, <3>1, RemoveType DEF Interrupted
    <3>2. CASE pc = "create" /\ ~Exists
      BY <2>0, <3>0, <3>2 DEF Interrupted
    <3>3. CASE pc \in {"start", "stop"}
      BY <1>0, <2>0, <3>0, <3>3, SwitchType DEF Interrupted
    <3>4. CASE pc = "install"
      <4>1. formed
        BY <1>0, <3>4 DEF Formed, Converging
      <4>2. /\ release' \in {release, [release EXCEPT ![Plan[at]] = "pending"]}
            /\ ready' = ready \ {Plan[at]} /\ nodes' = nodes /\ formed' = formed
        BY <3>0, <3>4 DEF Interrupted
      <4>. QED
        BY <2>0, <4>1, <4>2
    <3>5. CASE pc \notin {"delete", "create", "start", "stop", "install"} \/ (pc = "create" /\ Exists)
      BY <2>0, <3>0, <3>5 DEF Interrupted
    <3>. QED
      BY <3>1, <3>2, <3>3, <3>4, <3>5
  <2>. QED
    BY <2>1, <2>2, <2>3, <2>4, <2>5, <2>6, <2>7 DEF Next, Working
<1>. QED
  BY <1>1, <1>2, <1>3, <1>4, <1>5, <1>6 DEF TypeOK

-----------------------------------------------------------------------------
(***************************************************************************)
(* What was seen of the cluster.                                           *)
(***************************************************************************)

LEMMA NextSeen == ASSUME IInv, Next PROVE Seen'
<1>. USE DEF GoTo, Finish, Converging
<1>0. /\ TypeOK /\ Kinds /\ Seen /\ gen \in Nat /\ since \in 0 .. gen
      /\ Control \in Nodes /\ blind \in BOOLEAN /\ found \in BOOLEAN
  BY ClusterAssumption DEF IInv, TypeOK, Counted
<1>1. CASE Begin
  BY <1>1 DEF Begin, Seen
<1>2. CASE Find
  <2>1. /\ pc' \in {"cleanup", "resolve"} /\ UNCHANGED <<cluster, request>>
        /\ (cmd.kind = "test" /\ ~cmd.opt) \/ (found' = Exists /\ blind' = blind) \/ blind' = TRUE
    BY <1>0, <1>2 DEF Find, Lists
  <2>2. Exists' = Exists
    BY <2>1 DEF Exists, cluster
  <2>3. cmd.kind \in {"test", "teardown"}
    BY <1>0, <1>2 DEF Find, Kinds
  <2>. QED
    BY <2>1, <2>2, <2>3 DEF Seen, request
<1>3. CASE Resolve
  <2>1. /\ UNCHANGED <<cluster, memory, request, blind>> /\ Exists' = Exists /\ pc = "resolve"
        /\ pc' \in {"idle", "ensure", "listing"} /\ (pc' = "ensure" => cmd.kind # "reset")
    BY <1>3 DEF Resolve, Exists, cluster
  <2>. QED
    BY <1>0, <2>1 DEF Seen, request, memory
<1>4. CASE List \/ Ensure
  <2>1. /\ UNCHANGED <<cluster, memory, request>> /\ Exists' = Exists
    BY <1>4 DEF List, Ensure, Exists, cluster
  <2>2. CASE List
    BY <1>0, <2>1, <2>2, ListMoves DEF Seen, request, Kinds
  <2>3. CASE Ensure
    <3>1. /\ pc = "ensure" /\ pc' \in {"start", "create"}
          /\ blind' \/ (~blind /\ (pc' = "start" <=> Exists))
      BY <1>0, <2>3 DEF Ensure, Lists
    <3>2. cmd.kind \in {"up", "reset", "test"}
      BY <1>0, <3>1 DEF Kinds
    <3>3. cmd' = cmd /\ found' = found
      BY <2>1 DEF request, memory
    <3>4. CASE blind'
      BY <3>4 DEF Seen
    <3>5. CASE ~blind'
      <4>1. ~blind /\ (pc' = "start" <=> Exists)
        BY <3>1, <3>5
      <4>2. cmd.kind = "reset" => ~Exists' /\ pc' = "create"
        BY <1>0, <2>1, <3>1, <4>1 DEF Seen
      <4>. QED
        BY <3>1, <3>2, <3>3, <4>2 DEF Seen
    <3>. QED
      BY <3>4, <3>5
  <2>. QED
    BY <1>4, <2>2, <2>3
<1>5. CASE Delete
  <2>1. pc = "delete" /\ UNCHANGED <<memory, request, blind>> /\ cmd.kind \in {"reset", "teardown"}
    BY <1>0, <1>5 DEF Delete, Kinds
  <2>2. pc' = "idle" \/ (pc' = "ensure" /\ Remove(Nodes))
    BY <1>5 DEF Delete
  <2>3. Remove(Nodes) => ~Exists'
    BY DEF Remove, Exists
  <2>. QED
    BY <2>1, <2>2, <2>3 DEF Seen, request
<1>6. CASE Start
  <2>1. /\ UNCHANGED <<memory, request, gen>> /\ pc = "start" /\ pc' \in {"apiserver", "idle"}
        /\ blind' = blind \/ blind' = TRUE
    BY <1>6 DEF Start, Switch, cluster
  <2>. QED
    BY <1>0, <2>1 DEF Seen, request, memory
<1>7. CASE Create
  <2>1. /\ UNCHANGED <<memory, request, blind>> /\ pc = "create"
        /\ (pc' = "apiserver" /\ gen' = gen + 1) \/ pc' = "idle"
    BY <1>7 DEF Create
  <2>. QED
    BY <1>0, <2>1 DEF Seen, request, memory
<1>8. CASE Stop
  BY <1>0, <1>8 DEF Stop, Seen, request, memory
<1>9. CASE Apiserver \/ Snapshot \/ Verify \/ Prepare \/ Install \/ Wait \/ Exercise
  <2>1. /\ UNCHANGED <<gen, request, blind>> /\ pc \in Converging \union {"apiserver", "snapshot", "verify"}
        /\ pc' \in Converging \union {"snapshot", "verify", "idle"}
    BY <1>9 DEF Apiserver, Snapshot, Verify, Prepare, Install, Wait, Exercise, Fails, Advance, cluster, memory
  <2>2. pc = "verify" => cmd.kind = "test"
    BY <1>0 DEF Kinds
  <2>. QED
    BY <1>0, <2>1, <2>2 DEF Seen, request
<1>10. CASE Cleanup
  <2>1. Exists' = Exists
    BY <1>10, CleanupMoves DEF Exists, cluster
  <2>2. cmd.kind = "teardown"
    BY <1>0, <1>10, CleanupMoves DEF Kinds
  <2>. QED
    BY <1>0, <1>10, <2>1, <2>2, CleanupMoves DEF Seen, request
<1>11. CASE Kill
  BY <1>11 DEF Kill, Seen
<1>. QED
  BY <1>1, <1>2, <1>3, <1>4, <1>5, <1>6, <1>7, <1>8, <1>9, <1>10, <1>11 DEF Next, Working

\* The hooks that were run.
LEMMA NextCleaned == ASSUME IInv, Next PROVE Cleaned'
<1>. USE DEF GoTo, Finish
<1>0. TypeOK /\ Kinds /\ Cleaned /\ Placed
  BY DEF IInv
<1>1. CASE Begin
  BY <1>1 DEF Begin, Cleaned
<1>2. CASE Find
  <2>1. cleaned' = cleaned /\ cleaned = <<>> /\ pc' \in {"cleanup", "resolve"}
       /\ (pc' = "cleanup" => at' = Len(Targets))
    BY <1>0, <1>2 DEF Find, Cleaned
  <2>2. Len(Targets) - Len(Targets) = 0
    BY PlanShape
  <2>3. pc' = "cleanup" => cleaned' = [i \in 1 .. Len(Targets) - at' |-> Targets[Len(Targets) + 1 - i]]
    BY <2>1, <2>2
  <2>. QED
    BY <2>1, <2>3 DEF Cleaned
<1>3. CASE Cleanup
  <2>1. CASE at > 0
    <3>1. pc = "cleanup" /\ pc' = "cleanup" /\ at' = at - 1 /\ cleaned' = Append(cleaned, Targets[at])
      BY <1>3, <2>1, CleanupMoves
    <3>2. at \in 1 .. Len(Targets) /\ Len(Targets) \in Nat /\ Targets \in Seq(STRING)
      BY <1>0, <2>1, <3>1, PlanShape, ClusterAssumption DEF Placed
    <3>3. cleaned = [i \in 1 .. Len(Targets) - at |-> Targets[Len(Targets) + 1 - i]]
      BY <1>0, <3>1 DEF Cleaned
    <3>4. PICK n \in Nat : n = Len(Targets) - at
      BY <3>2
    <3>5. \A i \in 1 .. n : Len(Targets) + 1 - i \in 1 .. Len(Targets)
      BY <3>2, <3>4
    <3>6. cleaned \in Seq(STRING) /\ Len(cleaned) = n
      <4>1. \A i \in 1 .. n : Targets[Len(Targets) + 1 - i] \in STRING
        BY <3>2, <3>5
      <4>. QED
        BY <3>3, <3>4, <4>1, IsASeq, LenProperties
    <3>7. Targets[at] \in STRING
      BY <3>2
    <3>8. /\ Append(cleaned, Targets[at]) \in Seq(STRING) /\ Len(Append(cleaned, Targets[at])) = n + 1
          /\ \A i \in 1 .. n : Append(cleaned, Targets[at])[i] = cleaned[i]
          /\ Append(cleaned, Targets[at])[n + 1] = Targets[at]
      BY <3>6, <3>7, AppendProperties
    <3>9. cleaned' = [i \in 1 .. n + 1 |-> Targets[Len(Targets) + 1 - i]]
      <4>1. DOMAIN cleaned' = 1 .. n + 1 /\ cleaned' = [i \in 1 .. n + 1 |-> cleaned'[i]]
        BY <3>1, <3>8, LenProperties
      <4>2. \A i \in 1 .. n : cleaned'[i] = Targets[Len(Targets) + 1 - i]
        BY <3>1, <3>3, <3>4, <3>8
      <4>3. Len(Targets) + 1 - (n + 1) = at
        BY <3>2, <3>4
      <4>4. cleaned'[n + 1] = Targets[Len(Targets) + 1 - (n + 1)]
        BY <3>1, <3>8, <4>3
      <4>5. \A i \in 1 .. n + 1 : i \in 1 .. n \/ i = n + 1
        BY <3>4
      <4>6. \A i \in 1 .. n + 1 : cleaned'[i] = Targets[Len(Targets) + 1 - i]
        BY <4>2, <4>4, <4>5
      <4>. QED
        BY <4>1, <4>6
    <3>10. Len(Targets) - at' = n + 1
      BY <3>1, <3>2, <3>4
    <3>. QED
      BY <3>1, <3>9, <3>10 DEF Cleaned
  <2>2. CASE ~(at > 0)
    <3>1. /\ pc = "cleanup" /\ pc' \in {"listing", "idle"} /\ cleaned' = cleaned /\ at = 0
      BY <1>0, <1>3, <2>2, CleanupMoves, PlanShape DEF Placed
    <3>2. Len(Targets) - at = Len(Targets) /\ DOMAIN Targets = 1 .. Len(Targets)
      BY <3>1, PlanShape, ClusterAssumption
    <3>3. cleaned = [i \in DOMAIN Targets |-> Targets[Len(Targets) + 1 - i]]
      BY <1>0, <3>1, <3>2 DEF Cleaned
    <3>. QED
      BY <3>1, <3>3 DEF Cleaned
  <2>. QED
    BY <2>1, <2>2
<1>4. CASE List
  BY <1>0, <1>4, ListMoves DEF Cleaned, request, memory
<1>7. CASE Resolve
  BY <1>7 DEF Resolve, Cleaned, request
<1>5. CASE Delete \/ Ensure \/ Start \/ Create \/ Stop \/ Apiserver \/ Snapshot \/ Verify
  BY <1>5 DEF Delete, Ensure, Start, Create, Stop, Apiserver, Snapshot, Verify, Cleaned
<1>6. CASE Prepare \/ Install \/ Wait \/ Exercise \/ Kill
  BY <1>6 DEF Prepare, Install, Wait, Exercise, Fails, Advance, Kill, Cleaned
<1>. QED
  BY <1>1, <1>2, <1>3, <1>4, <1>5, <1>6, <1>7 DEF Next, Working

-----------------------------------------------------------------------------
(***************************************************************************)
(* What becomes of the releases.                                           *)
(***************************************************************************)

\* A step leaves the releases alone, or installs one, or takes all of them with a cluster
\* that is reset or torn down.
LEMMA ReleaseChanges ==
  ASSUME IInv, Next
  PROVE  \/ release' = release
         \/ /\ pc = "delete" /\ cmd.kind \in {"reset", "teardown"}
            /\ \A r \in Releases : release'[r] = "none"
         \/ /\ pc = "install" /\ at \in 1 .. Last /\ Plan[at] \in Releases
            /\ release'[Plan[at]] \in {"deployed", "failed", "pending"}
            /\ \A r \in Releases \ {Plan[at]} : release'[r] = release[r]
<1>0. TypeOK /\ Kinds /\ Placed
  BY DEF IInv
<1>1. ASSUME NEW gone \in SUBSET Nodes, Remove(gone)
      PROVE  release' = release \/ \A r \in Releases : release'[r] = "none"
  BY <1>1 DEF Remove
<1>2. CASE Delete
  BY <1>0, <1>1, <1>2 DEF Delete, Kinds
<1>3. CASE Install
  <2>1. pc = "install" /\ at \in 1 .. Last /\ Plan[at] \in Releases
    BY <1>0, <1>3, PlanShape DEF Install, Placed, Converging
  <2>2. \/ release' = release
        \/ \E s \in {"deployed", "failed", "pending"} : release' = [release EXCEPT ![Plan[at]] = s]
    <3>1. \/ release' = release
          \/ release' = [release EXCEPT ![Plan[at]] = "deployed"]
          \/ release' = [release EXCEPT ![Plan[at]] = IF @ = "pending" THEN @ ELSE "failed"]
      BY <1>3 DEF Install
    <3>. QED
      BY <3>1
  <2>. QED
    BY <1>0, <2>1, <2>2 DEF TypeOK
<1>4. CASE Kill
  <2>1. CASE pc = "delete"
    BY <1>0, <1>1, <1>4, <2>1 DEF Kill, Interrupted, Kinds
  <2>2. CASE pc = "install"
    <3>1. at \in 1 .. Last /\ Plan[at] \in Releases
      BY <1>0, <2>2, PlanShape DEF Placed, Converging
    <3>2. release' \in {release, [release EXCEPT ![Plan[at]] = "pending"]}
      BY <1>4, <2>2 DEF Kill, Interrupted
    <3>. QED
      BY <1>0, <2>2, <3>1, <3>2 DEF TypeOK
  <2>3. CASE pc \notin {"delete", "install"}
    BY <1>4, <2>3 DEF Kill, Interrupted, Switch, cluster
  <2>. QED
    BY <2>1, <2>2, <2>3
<1>5. CASE Begin \/ Find \/ Resolve \/ List \/ Ensure \/ Start \/ Create \/ Stop
  BY <1>5 DEF Begin, Find, Resolve, List, Ensure, Start, Create, Stop, Switch, cluster
<1>6. CASE Apiserver \/ Snapshot \/ Verify \/ Prepare \/ Wait \/ Exercise \/ Cleanup
  BY <1>6 DEF Apiserver, Snapshot, Verify, Prepare, Wait, Exercise, Cleanup, cluster
<1>. QED
  BY <1>2, <1>3, <1>4, <1>5, <1>6 DEF Next, Working

\* Advance and Fails: the command goes on with the next entry, or ends.
LEMMA Moves ==
  ASSUME NEW broken, Advance(broken)
  PROVE  /\ failed' = broken
         /\ \/ at < Last /\ at' = at + 1 /\ pc' = "prepare" /\ exit' = exit
            \/ ~(at < Last) /\ at' = at /\ pc' = "idle" /\ exit' = IF broken THEN "failed" ELSE "ok"
  BY DEF Advance, GoTo, Finish

LEMMA FailMoves ==
  ASSUME Fails
  PROVE  \/ pc' = "idle" /\ exit' \in {"raised", "failed"} /\ at' = at
         \/ ~InBootstrap(at) /\ Local /\ Advance(TRUE)
<1>1. CASE InBootstrap(at) \/ ~Local
  BY <1>1 DEF Fails, Finish
<1>2. CASE ~InBootstrap(at) /\ Local
  BY <1>2 DEF Fails
<1>. QED
  BY <1>1, <1>2

\* The steps of an entry.
Entry == Prepare \/ Install \/ Wait \/ Exercise

LEMMA EntryFacts ==
  ASSUME IInv, Entry
  PROVE  /\ cmd' = cmd /\ pc \in Converging /\ at \in 1 .. Last /\ cmd.kind \in {"up", "reset", "test"}
         /\ \A i \in 1 .. at - 1 : Handled(i)
         /\ \A r \in known : r \in Releases /\ release[r] \in {"deployed", "failed"}
         /\ tested \subseteq tested' /\ failed \in BOOLEAN /\ blind' = blind /\ found' = found
<1>0. TypeOK /\ Kinds /\ Placed /\ Behind
  BY DEF IInv
<1>1. cmd' = cmd /\ pc \in Converging /\ tested \subseteq tested' /\ blind' = blind /\ found' = found
  BY DEF Entry, Prepare, Install, Wait, Exercise, request, Converging, memory
<1>2. cmd.kind \in {"up", "reset", "test"}
  BY <1>0, <1>1 DEF Kinds, Converging
<1>. QED
  BY <1>0, <1>1, <1>2 DEF Placed, Behind, TypeOK

\* It stays at the entry, is through with it, has recorded that it failed, or ends.
Stays ==
  /\ at' = at /\ failed' = failed
  /\ \/ pc = "prepare" /\ pc' = "install"
     \/ pc = "install" /\ pc' = "wait" /\ release'[Plan[at]] = "deployed"
     \/ /\ pc = "wait" /\ pc' = "exercise" /\ cmd.kind = "test" /\ ~InBootstrap(at)
        /\ release' = release /\ Plan[at] \in ready'

Skips ==
  /\ pc = "prepare" /\ Local /\ cmd.opt /\ ~InBootstrap(at) /\ Plan[at] \in known
  /\ UNCHANGED cluster /\ Advance(failed)

Converges ==
  /\ pc = "wait" /\ (Local \/ InBootstrap(at))
  /\ release' = release /\ Plan[at] \in ready' /\ Advance(failed)

Exercises ==
  /\ pc = "exercise" /\ UNCHANGED cluster /\ Advance(failed)
  /\ Tests(at) => at \in tested'

Records == ~InBootstrap(at) /\ Local /\ Advance(TRUE)

GivesUp == pc' = "idle" /\ exit' \in {"raised", "failed"} /\ at' = at

LEMMA EntryMoves ==
  ASSUME IInv, Entry
  PROVE  Stays \/ Skips \/ Converges \/ Exercises \/ Records \/ GivesUp
<1>0. TypeOK /\ Kinds /\ at \in 1 .. Last /\ Plan[at] \in Releases
  BY EntryFacts, PlanShape DEF IInv
<1>1. CASE Fails
  BY <1>1, FailMoves DEF Records, GivesUp
<1>2. CASE Prepare /\ ~Fails
  BY <1>0, <1>2 DEF Prepare, GoTo, Stays, Skips
<1>3. CASE Install /\ ~Fails
  BY <1>0, <1>3 DEF Install, GoTo, TypeOK, Stays
<1>4. CASE Wait /\ ~Fails
  <2>1. cmd.kind \in {"up", "reset", "test"} /\ pc = "wait" /\ release' = release
    BY <1>0, <1>4 DEF Wait, Kinds
  <2>2. Plan[at] \in ready'
    BY <1>4 DEF Wait
  <2>3. CASE Local \/ InBootstrap(at)
    BY <1>4, <2>1, <2>2, <2>3 DEF Wait, Converges
  <2>4. CASE ~(Local \/ InBootstrap(at))
    BY <1>4, <2>1, <2>2, <2>4 DEF Wait, GoTo, Local, Stays
  <2>. QED
    BY <2>3, <2>4
<1>5. CASE Exercise /\ ~Fails
  BY <1>0, <1>5 DEF Exercise, Exercises
<1>. QED
  BY <1>1, <1>2, <1>3, <1>4, <1>5 DEF Entry

\* What an entry that is behind has become stays, or its release is installed again.
LEMMA StillHandled ==
  ASSUME IInv, Entry, ~GivesUp, NEW i \in 1 .. Last, i < at,
         failed' = failed \/ failed' = TRUE
  PROVE  Handled(i)'
<1>0. /\ TypeOK /\ Kinds /\ Behind /\ at \in 1 .. Last /\ Handled(i) /\ cmd' = cmd
      /\ tested \subseteq tested'
  BY EntryFacts DEF IInv
<1>1. Plan[i] \in Releases /\ Plan[at] \in Releases
  BY <1>0, PlanShape
<1>2. release[Plan[i]] # "none" => release'[Plan[i]] # "none"
  BY <1>0, <1>1 DEF Entry, Prepare, Install, Wait, Exercise, cluster, TypeOK
<1>3. CASE Plan[i] # Plan[at]
  <2>1. release'[Plan[i]] = release[Plan[i]]
    BY <1>0, <1>1, <1>3 DEF Entry, Prepare, Install, Wait, Exercise, cluster, TypeOK
  <2>2. Plan[i] \in ready => Plan[i] \in ready'
    BY <1>1, <1>3 DEF Entry, Prepare, Install, Wait, Exercise, cluster
  <2>. QED
    BY <1>0, <1>3, <2>1, <2>2 DEF Handled, ConvergedWell, SkippedWell, Local, InBootstrap
<1>4. CASE Plan[i] = Plan[at] /\ (Prepare \/ Exercise)
  <2>1. UNCHANGED cluster /\ pc # "wait"
    BY <1>4 DEF Prepare, Exercise
  <2>. QED
    BY <1>0, <2>1 DEF Handled, ConvergedWell, SkippedWell, Local, InBootstrap, cluster
<1>5. CASE Plan[i] = Plan[at] /\ (Install \/ Wait)
  <2>0. Local' = Local /\ pc \in {"install", "wait"}
    BY <1>0, <1>5 DEF Local, Install, Wait
  <2>1. Local => \/ failed' = TRUE
                 \/ pc' = "wait" /\ at' = at
                 \/ release'[Plan[i]] = "deployed" /\ Plan[i] \in ready'
    <3>1. CASE Stays \/ Converges
      BY <1>0, <1>5, <2>0, <3>1 DEF Stays, Converges, Local, Behind
    <3>2. CASE Records
      BY <3>2, Moves DEF Records
    <3>3. ~Skips /\ ~Exercises
      BY <2>0 DEF Skips, Exercises
    <3>. QED
      BY <3>1, <3>2, <3>3, EntryMoves
  <2>. QED
    BY <1>0, <1>2, <1>5, <2>0, <2>1 DEF Handled, ConvergedWell, SkippedWell, InBootstrap
<1>. QED
  BY <1>3, <1>4, <1>5 DEF Entry

\* An entry that the command is through with has become what it should.
LEMMA NowHandled ==
  ASSUME IInv, Entry, NEW i \in 1 .. Last, i = at, at' = at + 1 \/ (pc' = "idle" /\ exit' = "ok")
  PROVE  Handled(i)' /\ (failed' = failed \/ failed' = TRUE)
<1>0. /\ TypeOK /\ Kinds /\ at \in 1 .. Last /\ cmd' = cmd /\ failed \in BOOLEAN /\ Behind
      /\ cmd.kind \in {"up", "reset", "test"} /\ cmd.opt \in BOOLEAN
  BY EntryFacts, CommandType DEF IInv
<1>1. CASE Skips
  <2>1. release[Plan[i]] \in {"deployed", "failed"}
    BY <1>0, <1>1, EntryFacts DEF Skips
  <2>2. SkippedWell(i)'
    BY <1>0, <1>1, <2>1 DEF Skips, SkippedWell, InBootstrap, cluster
  <2>. QED
    BY <1>0, <1>1, <2>1, <2>2, Moves DEF Skips, Handled, Local, InBootstrap, cluster
<1>2. CASE Converges
  <2>1. release'[Plan[i]] = "deployed"
    BY <1>0, <1>2 DEF Converges, Behind
  <2>. QED
    BY <1>0, <1>2, <2>1, Moves DEF Converges, Handled, ConvergedWell, Local, InBootstrap
<1>3. CASE Exercises
  <2>1. release'[Plan[i]] = "deployed" /\ cmd.kind = "test"
    BY <1>0, <1>3 DEF Exercises, Behind, Kinds, cluster
  <2>. QED
    BY <1>0, <1>3, <2>1, Moves DEF Exercises, Handled, Local, InBootstrap, Tests
<1>4. CASE Records
  BY <1>0, <1>4, Moves DEF Records, Handled, Local, InBootstrap
<1>5. ~Stays /\ ~GivesUp
  BY <1>0 DEF Stays, GivesUp
<1>. QED
  BY <1>1, <1>2, <1>3, <1>4, <1>5, EntryMoves

LEMMA NextBehind == ASSUME IInv, Next PROVE Behind'
<1>. USE DEF Converging
<1>0. TypeOK /\ Kinds /\ Placed /\ Behind
  BY DEF IInv
<1>1. CASE Begin
  BY <1>1 DEF Begin, Behind, GoTo
<1>2. CASE Find \/ Resolve \/ List \/ Delete \/ Ensure \/ Start \/ Create \/ Stop
  <2>1. /\ pc \notin Converging \union {"idle"} /\ pc' \notin Converging /\ known' = known
    BY <1>2 DEF Find, Resolve, List, Delete, Ensure, Start, Create, Stop, GoTo, Finish, memory
  <2>. QED
    BY <1>0, <2>1 DEF Behind
<1>3. CASE Apiserver
  <2>1. /\ pc = "apiserver" /\ known' = known
        /\ pc' \in {"snapshot", "verify", "idle"} \/ (pc' = "prepare" /\ at' = 1)
    BY <1>3 DEF Apiserver, GoTo, Finish, memory
  <2>2. \A i \in 1 .. 1 - 1 : FALSE
    OBVIOUS
  <2>. QED
    BY <1>0, <2>1, <2>2 DEF Behind
<1>4. CASE Snapshot
  <2>1. /\ pc' = "prepare" /\ at' = 1 /\ release' = release
        /\ \A r \in known' : release[r] \in {"deployed", "failed"}
    BY <1>4 DEF Snapshot, GoTo, cluster, Settled
  <2>2. \A i \in 1 .. 1 - 1 : FALSE
    OBVIOUS
  <2>. QED
    BY <2>1, <2>2 DEF Behind
<1>5. CASE Verify
  <2>1. CASE pc' = "idle"
    BY <2>1 DEF Behind
  <2>2. CASE pc' # "idle"
    <3>1. /\ pc = "verify" /\ pc' = "prepare" /\ at' = Last /\ Verified /\ known' = known
          /\ release' = release /\ cmd' = cmd
      BY <1>5, <2>2 DEF Verify, GoTo, Finish, memory, cluster, request
    <3>2. cmd.kind = "test" /\ cmd.opt /\ known = {}
      BY <1>0, <3>1 DEF Kinds, Behind
    <3>3. ASSUME NEW i \in 1 .. Last - 1 PROVE Handled(i)'
      <4>1. release[Plan[i]] # "none"
        BY <3>1, PlanShape DEF Verified
      <4>. QED
        BY <3>1, <3>2, <4>1 DEF Handled, Local
    <3>. QED
      BY <3>1, <3>2, <3>3 DEF Behind
  <2>. QED
    BY <2>1, <2>2
<1>6. CASE Entry
  <2>0. /\ cmd' = cmd /\ at \in 1 .. Last /\ pc \in Converging /\ Last \in Nat
        /\ \A r \in known : r \in Releases /\ release[r] \in {"deployed", "failed"}
    BY <1>6, EntryFacts, PlanShape
  <2>1. CASE pc' = "idle"
    BY <2>1 DEF Behind
  <2>2. CASE pc' # "idle"
    <3>1. \/ /\ at' = at /\ failed' = failed
             /\ \/ pc' = "install"
                \/ pc' = "wait" /\ release'[Plan[at]] = "deployed"
                \/ pc = "wait" /\ pc' = "exercise" /\ release' = release /\ Plan[at] \in ready'
          \/ at' = at + 1 /\ pc' = "prepare"
      BY <1>6, <2>2, EntryMoves, Moves DEF Stays, Skips, Converges, Exercises, Records, GivesUp
    <3>2. \A r \in known' : release'[r] \in {"deployed", "failed"}
      <4>1. CASE Prepare \/ Exercise
        BY <2>0, <4>1 DEF Prepare, Exercise, cluster
      <4>2. CASE Install
        BY <1>0, <2>0, <4>2 DEF Install, TypeOK
      <4>3. CASE Wait
        <5>1. release' = release /\ known' \subseteq known \union {Plan[at]} /\ release[Plan[at]] = "deployed"
          BY <1>0, <4>3 DEF Wait, Behind
        <5>. QED
          BY <2>0, <5>1
      <4>. QED
        BY <1>6, <4>1, <4>2, <4>3 DEF Entry
    <3>3. ASSUME NEW i \in 1 .. at' - 1 PROVE Handled(i)'
      <4>0. ~GivesUp
        BY <2>2 DEF GivesUp
      <4>1. i \in 1 .. Last /\ (i < at \/ (i = at /\ at' = at + 1))
        BY <2>0, <3>1
      <4>2. CASE at' = at + 1
        <5>1. PICK n \in 1 .. Last : n = at
          BY <2>0
        <5>2. failed' = failed \/ failed' = TRUE
          BY <1>6, <4>2, <5>1, NowHandled
        <5>. QED
          BY <1>6, <4>0, <4>1, <4>2, <5>2, NowHandled, StillHandled
      <4>3. CASE at' # at + 1
        BY <1>6, <3>1, <4>0, <4>1, <4>3, StillHandled
      <4>. QED
        BY <4>2, <4>3
    <3>4. pc' \in Converging /\ (pc' \in {"wait", "exercise"} => release'[Plan[at']] = "deployed" /\ at' = at)
          /\ (pc' = "exercise" => Plan[at'] \in ready')
      BY <1>0, <3>1 DEF Behind
    <3>. QED
      BY <3>2, <3>3, <3>4 DEF Behind
  <2>. QED
    BY <2>1, <2>2
<1>7. CASE Cleanup
  <2>1. pc = "cleanup" /\ pc' \in {"cleanup", "listing", "idle"} /\ known' = known
    BY <1>7, CleanupMoves
  <2>. QED
    BY <1>0, <2>1 DEF Behind
<1>8. CASE Kill
  BY <1>8 DEF Kill, Finish, Behind
<1>. QED
  BY <1>1, <1>2, <1>3, <1>4, <1>5, <1>6, <1>7, <1>8 DEF Next, Working, Entry

\* A command that ends well is through with all of the plan.
LEMMA EndsWell ==
  ASSUME IInv, Entry, pc' = "idle", exit' = "ok"
  PROVE  /\ ~failed' /\ \A i \in 1 .. Last : Handled(i)'
         /\ cmd.kind = "test" => Plan[Last] \in ready' /\ (Last \in HelmTests => Last \in tested')
<1>0. /\ TypeOK /\ Kinds /\ Behind /\ at \in 1 .. Last /\ Last \in Nat /\ failed \in BOOLEAN
      /\ cmd' = cmd
  BY EntryFacts, PlanShape DEF IInv
<1>1. ~Stays /\ ~GivesUp
  BY DEF Stays, GivesUp
<1>2. ~failed' /\ at = Last /\ failed' = failed
  <2>1. Advance(failed) \/ Advance(TRUE)
    BY <1>1, EntryMoves DEF Skips, Converges, Exercises, Records
  <2>2. ~Advance(TRUE)
    BY Moves
  <2>3. failed' = failed /\ ~(at < Last) /\ exit' = IF failed THEN "failed" ELSE "ok"
    BY <2>1, <2>2, Moves
  <2>. QED
    BY <1>0, <2>3
<1>3. PICK n \in 1 .. Last : n = at
  BY <1>0
<1>4. ASSUME NEW i \in 1 .. Last PROVE Handled(i)'
  <2>1. i < at \/ i = n
    BY <1>0, <1>2, <1>3
  <2>. QED
    BY <1>1, <1>2, <1>3, <2>1, StillHandled, NowHandled
<1>5. cmd.kind = "test" => Plan[Last] \in ready' /\ (Last \in HelmTests => Last \in tested')
  <2>1. ~InBootstrap(Last)
    BY PlanShape DEF InBootstrap
  <2>2. ASSUME cmd.kind = "test" PROVE Exercises
    BY <1>1, <1>2, <2>1, <2>2, EntryMoves DEF Skips, Converges, Records, Local
  <2>. QED
    BY <1>0, <1>2, <2>2 DEF Exercises, Behind, cluster, Tests
<1>. QED
  BY <1>2, <1>4, <1>5

\* How a command ends.
LEMMA Endings ==
  ASSUME IInv, Next, pc' = "idle", exit' \in {"ok", "failed"}
  PROVE  \/ Entry
         \/ Stop /\ cmd.kind = "down" /\ cmd' = cmd
         \/ /\ cmd.kind = "teardown" /\ cmd' = cmd
            /\ \/ Delete /\ pc = "delete" /\ (exit' = "ok" => Remove(Nodes))
               \/ List
               \/ Cleanup
<1>0. Kinds
  BY DEF IInv
<1>1. pc # "idle" \/ Begin
  BY DEF Next, Working, Kill, Find, Resolve, List, Delete, Ensure, Start, Create, Stop, Apiserver,
         Snapshot, Verify, Prepare, Install, Wait, Exercise, Cleanup
<1>2. ~Begin
  BY DEF Begin, GoTo
<1>3. ~(Find \/ Resolve \/ Ensure \/ Start \/ Create \/ Apiserver \/ Snapshot \/ Verify \/ Kill)
  BY DEF Find, Resolve, Ensure, Start, Create, Apiserver, Snapshot, Verify, Kill, GoTo, Finish
<1>4. CASE Delete
  <2>1. pc = "delete" /\ cmd' = cmd /\ cmd.kind \in {"reset", "teardown"}
    BY <1>0, <1>4 DEF Delete, Kinds, request
  <2>2. cmd.kind # "reset" /\ (exit' = "ok" => Remove(Nodes))
    BY <1>4 DEF Delete, GoTo, Finish
  <2>. QED
    BY <1>4, <2>1, <2>2
<1>5. CASE Stop
  BY <1>0, <1>5 DEF Stop, Kinds, request
<1>6. CASE Cleanup
  BY <1>0, <1>6, CleanupMoves DEF Kinds, request
<1>7. CASE List
  BY <1>0, <1>7, ListMoves DEF Kinds, request
<1>. QED
  BY <1>2, <1>3, <1>4, <1>5, <1>6, <1>7 DEF Next, Working, Entry

\* What is not cluster, command or end leaves what ended as it is: nothing runs after the
\* end but the next command.
LEMMA NextEnds ==
  ASSUME IInv, Next
  PROVE  (ConvergedMeansReady /\ PassedMeansTested /\ TeardownIsComplete /\ ResetIsNew)'
<1>0. /\ TypeOK /\ Kinds /\ Seen /\ Cleaned
  BY DEF IInv
<1>1. CASE pc' = "idle" /\ exit' \in {"ok", "failed"}
  <2>1. CASE Entry
    <3>1. cmd' = cmd /\ cmd.kind \in {"up", "reset", "test"} /\ blind' = blind /\ pc \in Converging
      BY <2>1, EntryFacts
    <3>2. CASE exit' = "ok"
      <4>0. ~failed' /\ \A i \in 1 .. Last : Handled(i)'
        BY <1>1, <2>1, <3>2, EndsWell
      <4>1. ConvergedMeansReady'
        <5>. SUFFICES ASSUME cmd'.kind \in {"up", "reset"}, NEW r \in Releases
                      PROVE  \/ release'[r] = "deployed" /\ r \in ready'
                             \/ /\ cmd'.opt /\ r \notin BootstrapReleases
                                /\ release'[r] \in {"deployed", "failed"}
          BY DEF ConvergedMeansReady, Ended
        <5>1. PICK i \in 1 .. Last : r = Plan[i] /\ (r \in BootstrapReleases => InBootstrap(i))
          BY BootstrapParts, PlanShape
        <5>2. ConvergedWell(i)' \/ SkippedWell(i)'
          BY <1>1, <4>0 DEF Handled, Local
        <5>. QED
          BY <5>1, <5>2 DEF ConvergedWell, SkippedWell, InBootstrap
      <4>2. PassedMeansTested'
        <5>. SUFFICES ASSUME cmd'.kind = "test"
                      PROVE  /\ Plan[Last] \in ready'
                             /\ \A r \in Releases : release'[r] # "none"
                             /\ \A i \in DOMAIN Plan : ~InBootstrap(i) /\ Tests(i)' => i \in tested'
          BY DEF PassedMeansTested, Ended, InBootstrap
        <5>1. Plan[Last] \in ready' /\ (Last \in HelmTests => Last \in tested')
          BY <1>1, <2>1, <3>1, <3>2, EndsWell
        <5>2. \A i \in 1 .. Last : release'[Plan[i]] # "none"
             /\ (~cmd'.opt => InBootstrap(i) \/ (i \in HelmTests => i \in tested'))
          BY <4>0 DEF Handled, InBootstrap
        <5>3. \A r \in Releases : release'[r] # "none"
          BY <5>2, PlanShape
        <5>4. \A i \in DOMAIN Plan : ~InBootstrap(i) /\ Tests(i)' => i \in tested'
          BY <5>1, <5>2, PlanShape DEF Tests
        <5>. QED
          BY <5>1, <5>3, <5>4
      <4>3. ResetIsNew'
        <5>1. cmd.kind = "reset" /\ ~blind => gen > since
          BY <1>0, <3>1 DEF Seen
        <5>2. gen' = gen /\ since' = since
          BY <2>1 DEF Entry, Prepare, Install, Wait, Exercise, cluster, request
        <5>. QED
          BY <3>1, <5>1, <5>2 DEF ResetIsNew, Ended
      <4>. QED
        BY <3>1, <4>1, <4>2, <4>3 DEF TeardownIsComplete, Ended
    <3>3. CASE exit' = "failed"
      BY <3>1, <3>3 DEF ConvergedMeansReady, PassedMeansTested, TeardownIsComplete, ResetIsNew, Ended
    <3>. QED
      BY <1>1, <3>2, <3>3
  <2>2. CASE cmd'.kind = "down"
    BY <2>2 DEF ConvergedMeansReady, PassedMeansTested, TeardownIsComplete, ResetIsNew, Ended
  <2>3. CASE cmd.kind = "teardown" /\ cmd' = cmd /\ Delete /\ pc = "delete" /\ (exit' = "ok" => Remove(Nodes))
    <3>1. cleaned' = cleaned /\ cleaned = [i \in DOMAIN Targets |-> Targets[Len(Targets) + 1 - i]]
      BY <1>0, <2>3 DEF Delete, Cleaned, memory
    <3>2. exit' = "ok" => ~Exists'
      BY <2>3 DEF Remove, Exists
    <3>. QED
      BY <2>3, <3>1, <3>2 DEF ConvergedMeansReady, PassedMeansTested, TeardownIsComplete, ResetIsNew, Ended
  <2>5. CASE cmd.kind = "teardown" /\ cmd' = cmd /\ List
    <3>1. pc = "listing" /\ cleaned' = cleaned /\ nodes' = nodes /\ (~blind' => ~Exists)
      BY <1>1, <2>5, ListMoves DEF cluster, memory
    <3>2. cleaned = [i \in DOMAIN Targets |-> Targets[Len(Targets) + 1 - i]]
      BY <1>0, <2>5, <3>1 DEF Cleaned
    <3>3. ~blind' => ~Exists'
      BY <3>1 DEF Exists
    <3>. QED
      BY <2>5, <3>1, <3>2, <3>3 DEF ConvergedMeansReady, PassedMeansTested, TeardownIsComplete, ResetIsNew, Ended
  <2>4. CASE cmd.kind = "teardown" /\ cmd' = cmd /\ Cleanup
    <3>1. ~(at > 0) /\ cleaned' = cleaned /\ ~(found /\ ~cmd.opt) /\ pc = "cleanup"
         /\ blind' = blind /\ nodes' = nodes
      BY <1>1, <2>4, CleanupMoves DEF cluster
    <3>2. cleaned = [i \in DOMAIN Targets |-> Targets[Len(Targets) + 1 - i]]
      <4>1. at = 0 /\ Len(Targets) - 0 = Len(Targets) /\ DOMAIN Targets = 1 .. Len(Targets)
        BY <3>1, PlanShape, ClusterAssumption DEF IInv, Placed
      <4>. QED
        BY <1>0, <3>1, <4>1 DEF Cleaned
    <3>3. ~blind => found = Exists
      BY <1>0, <2>4, <3>1 DEF Seen
    <3>4. ~cmd'.opt /\ ~blind' => ~Exists'
      BY <2>4, <3>1, <3>3 DEF Exists
    <3>. QED
      BY <2>4, <3>1, <3>2, <3>4 DEF ConvergedMeansReady, PassedMeansTested, TeardownIsComplete,
           ResetIsNew, Ended
  <2>. QED
    BY <1>1, <2>1, <2>2, <2>3, <2>4, <2>5, Endings
<1>2. CASE pc' # "idle" \/ exit' \notin {"ok", "failed"}
  BY <1>2 DEF ConvergedMeansReady, PassedMeansTested, TeardownIsComplete, ResetIsNew, Ended
<1>. QED
  BY <1>1, <1>2

\* No release of the target before bootstrap.
LEMMA NextBootstrap == ASSUME IInv, Next PROVE BootstrapComesFirst'
<1>0. TypeOK /\ BootstrapComesFirst
  BY DEF IInv
<1>1. CASE release' = release
  BY <1>0, <1>1 DEF BootstrapComesFirst
<1>2. CASE \A r \in Releases : release'[r] = "none"
  BY <1>2, PlanParts, PlanShape DEF BootstrapComesFirst
<1>3. CASE /\ pc = "install" /\ at \in 1 .. Last /\ Plan[at] \in Releases
           /\ release'[Plan[at]] \in {"deployed", "failed", "pending"}
           /\ \A r \in Releases \ {Plan[at]} : release'[r] = release[r]
  <2>1. \A r \in Releases : release[r] # "none" => release'[r] # "none"
    BY <1>3
  <2>2. CASE Plan[at] \in BootstrapReleases
    <3>1. \A r \in Releases \ BootstrapReleases : release'[r] = release[r]
      BY <1>3, <2>2
    <3>. QED
      BY <1>0, <2>1, <3>1, BootstrapParts DEF BootstrapComesFirst
  <2>3. CASE Plan[at] \notin BootstrapReleases
    <3>1. ASSUME NEW r \in BootstrapReleases PROVE release'[r] # "none"
      <4>1. PICK i \in 1 .. Last : InBootstrap(i) /\ r = Plan[i]
        BY BootstrapParts
      <4>2. ~InBootstrap(at)
        BY <1>3, <2>3, BootstrapParts
      <4>3. i \in 1 .. at - 1
        BY <1>3, <4>1, <4>2, PlanShape DEF InBootstrap
      <4>4. Handled(i)
        BY <1>3, <4>3 DEF IInv, Behind, Converging
      <4>. QED
        BY <2>1, <4>1, <4>4, BootstrapParts DEF Handled
    <3>. QED
      BY <3>1 DEF BootstrapComesFirst
  <2>. QED
    BY <2>2, <2>3
<1>. QED
  BY <1>1, <1>2, <1>3, ReleaseChanges

\* Where a test that reuses a cluster goes.
LEMMA NextAhead == ASSUME IInv, Next PROVE Ahead'
<1>. USE DEF Converging
<1>0. TypeOK /\ Kinds /\ Ahead
  BY DEF IInv
<1>. SUFFICES ASSUME cmd'.kind = "test", cmd'.opt, found', pc' \in Converging
              PROVE  at' = Last
  BY DEF Ahead
<1>1. CASE Apiserver
  BY <1>0, <1>1 DEF Apiserver, GoTo, Finish, Local, memory, request
<1>2. CASE Verify
  BY <1>2 DEF Verify, GoTo, Finish
<1>3. CASE Entry
  <2>1. cmd' = cmd /\ found' = found /\ pc \in Converging
    BY <1>3, EntryFacts
  <2>2. at = Last
    BY <1>0, <2>1 DEF Ahead
  <2>3. \A broken : Advance(broken) => at' = at
    BY <2>2, Moves, PlanShape
  <2>. QED
    BY <1>3, <2>2, <2>3, EntryMoves DEF Stays, Skips, Converges, Exercises, Records, GivesUp
<1>4. ~(Begin \/ Find \/ Resolve \/ Ensure \/ Start \/ Create \/ Delete \/ Stop \/ Kill)
  BY DEF Begin, Find, Resolve, Ensure, Start, Create, Delete, Stop, Kill, GoTo, Finish
<1>5. ~Cleanup /\ ~List
  BY CleanupMoves, ListMoves
<1>6. ~Snapshot
  BY <1>0 DEF Snapshot, Kinds, Local, request
<1>. QED
  BY <1>1, <1>2, <1>3, <1>4, <1>5, <1>6 DEF Next, Working, Entry

-----------------------------------------------------------------------------
(***************************************************************************)
(* The invariant, and what follows.                                        *)
(***************************************************************************)

LEMMA Invariant == Spec => []IInv
<1>1. IInv /\ [Next]_vars => IInv'
  <2>1. IInv /\ Next => IInv'
    BY NextType, NextKinds, NextPlaced, NextCounted, NextFormed, NextBehind, NextSeen, NextAhead,
       NextCleaned, NextEnds, NextBootstrap DEF IInv
  <2>2. IInv /\ UNCHANGED vars => IInv'
    <3>. SUFFICES ASSUME IInv, UNCHANGED vars PROVE IInv'
      OBVIOUS
    <3>. USE DEF IInv, vars, cluster, memory, request, Exists
    <3>1. (TypeOK /\ Kinds /\ Placed /\ Counted /\ Formed)'
      BY DEF TypeOK, Kinds, Placed, Counted, Formed, Local
    <3>2. (Behind /\ Ahead)'
      BY DEF Behind, Handled, ConvergedWell, SkippedWell, Local, Ahead
    <3>3. (Seen /\ Cleaned)'
      BY DEF Seen, Cleaned
    <3>4. (ConvergedMeansReady /\ BootstrapComesFirst /\ PassedMeansTested)'
      BY DEF ConvergedMeansReady, BootstrapComesFirst, PassedMeansTested, Ended, Tests
    <3>5. (TeardownIsComplete /\ ResetIsNew)'
      BY DEF TeardownIsComplete, ResetIsNew, Ended
    <3>. QED
      BY <3>1, <3>2, <3>3, <3>4, <3>5
  <2>. QED
    BY <2>1, <2>2
<1>. QED
  BY InitIInv, <1>1, PTL DEF Spec

\* Every variable keeps its type, and a cluster that never came up has no releases.
THEOREM ClusterTypeCorrect == Spec => []TypeOK
BY Invariant, PTL DEF IInv

\* session.py: an `up` or a `reset` that ends well has every release ready, and no release
\* of a target is tried in a cluster before bootstrap is in it, whatever failed or was
\* killed before.
THEOREM ConvergesRight == Spec => []ConvergesInOrder
<1>1. IInv => ConvergesInOrder
  BY DEF IInv, ConvergesInOrder
<1>. QED
  BY <1>1, Invariant, PTL

\* test/run.py: a test that ends well has tested in a complete cluster, and a teardown ran
\* every hook and left no cluster that it was not told to keep.
THEOREM TestsAreEarned == Spec => []TestIsEarned
<1>1. IInv => TestIsEarned
  BY DEF IInv, TestIsEarned
<1>. QED
  BY <1>1, Invariant, PTL

\* A step that only what is asked for explains: a release is lost to a reset or a teardown,
\* and what a test is told to skip stays as it is.
LEMMA StepKeeps ==
  ASSUME IInv, Next
  PROVE  /\ \A r \in Releases :
              release[r] # "none" /\ release'[r] = "none" => cmd.kind \in {"reset", "teardown"}
         /\ cmd.kind = "test" /\ cmd.opt /\ found /\ pc # "idle" =>
              \A r \in Releases : r # Plan[Last] => release'[r] = release[r]
<1>1. \A r \in Releases :
        release[r] # "none" /\ release'[r] = "none" => cmd.kind \in {"reset", "teardown"}
  BY ReleaseChanges
<1>2. ASSUME cmd.kind = "test", cmd.opt, found, NEW r \in Releases, r # Plan[Last]
      PROVE  release'[r] = release[r]
  <2>1. pc = "install" => at = Last
    BY <1>2 DEF IInv, Ahead, Converging
  <2>. QED
    BY <1>2, <2>1, ReleaseChanges
<1>. QED
  BY <1>1, <1>2

\* Whatever commands run, fail or are killed: a reset that ends well has a new cluster, only
\* a reset or a teardown loses a release, and a test leaves alone what it is told to skip.
THEOREM ClustersAreKept == Spec => ClusterIsKept
<1>1. Spec => []ResetIsNew
  <2>1. IInv => ResetIsNew
    BY DEF IInv
  <2>. QED
    BY <2>1, Invariant, PTL
<1>2. Spec => ReleasesSurvive
  <2>1. IInv /\ [Next]_vars =>
          [\A r \in Releases :
             release[r] # "none" /\ release'[r] = "none" => cmd.kind \in {"reset", "teardown"}]_vars
    BY StepKeeps
  <2>. QED
    BY <2>1, Invariant, PTL DEF Spec, ReleasesSurvive
<1>3. Spec => SkippedAreReused
  <2>1. IInv /\ [Next]_vars =>
          [cmd.kind = "test" /\ cmd.opt /\ found /\ pc # "idle" =>
             \A r \in Releases : r # Plan[Last] => release'[r] = release[r]]_vars
    BY StepKeeps
  <2>. QED
    BY <2>1, Invariant, PTL DEF Spec, SkippedAreReused
<1>. QED
  BY <1>1, <1>2, <1>3, PTL DEF ClusterIsKept
=============================================================================
