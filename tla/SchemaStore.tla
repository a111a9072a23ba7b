---------------------------- MODULE SchemaStore ----------------------------
(***************************************************************************)
(* The schemas that `chart validate` checks against                        *)
(* (commands/validate/schemas/lock.py and store.py): a lock file committed *)
(* in the workspace pins one commit of each upstream repository, and a     *)
(* store that all workspaces and processes share holds their checkouts.    *)
(*                                                                         *)
(* A process runs `schemas sync`, `schemas sync --update`, a validation or *)
(* the checks of `doctor`.  Processes are killed at any point, upstream    *)
(* moves on, the policy of the workspace is edited, and snapshots are      *)
(* damaged or removed by hand.                                             *)
(***************************************************************************)
EXTENDS Naturals, FiniteSets

CONSTANTS
  Processes,  \* invocations of the program
  Revisions,  \* commits of the upstream repositories
  Versions,   \* Kubernetes versions a policy may ask for
  MaxEdits    \* bound on the steps taken outside the program

Nobody == "nobody"

ASSUME SchemaAssumption == /\ MaxEdits \in Nat
                           /\ "all" \notin Versions
                           /\ Nobody \notin Processes

NoLock == [by |-> "nobody"]
Repositories == {"kubernetes", "catalog"}

VARIABLES
  disk,      \* the published snapshots
  stage,     \* the staging directory of each process
  lockfile,  \* schemas.lock.yaml, with who wrote it
  policy,    \* the Kubernetes version that the workspace asks for
  head,      \* the commit at the tip of each upstream repository
  holder,    \* the process that holds .sync.lock
  call,      \* what each process was started for
  pc,        \* where it is, or how it ended
  plan,      \* the lock it works on
  touched,   \* the snapshots that were damaged or removed by hand
  edits      \* how many steps were taken outside the program

vars == <<disk, stage, lockfile, policy, head, holder, call, pc, plan, touched, edits>>

Locks == [by : {"git", "update"}, version : Versions, kubernetes : Revisions, catalog : Revisions]

\* The checkout of one Kubernetes version at a commit, or of the whole catalog.
Snapshots == ({"kubernetes"} \X Revisions \X Versions) \union ({"catalog"} \X Revisions \X {"all"})

\* The two snapshots that a lock selects.
SnapshotOf(lock, repository) ==
  IF repository = "kubernetes" THEN <<"kubernetes", lock.kubernetes, lock.version>>
                               ELSE <<"catalog", lock.catalog, "all">>
Selected(lock) == {SnapshotOf(lock, r) : r \in Repositories}

Calls == {"sync", "update", "validate", "preflight"}
Ended == {"done", "served", "ready", "refused", "failed", "killed"}

-----------------------------------------------------------------------------
Init ==
  /\ disk = [s \in Snapshots |-> "absent"]
  /\ stage = [p \in Processes |-> "none"]
  /\ lockfile \in {NoLock} \union {l \in Locks : l.by = "git"}
  /\ policy \in Versions
  /\ head \in [Repositories -> Revisions]
  /\ holder = Nobody
  /\ call \in [Processes -> Calls]
  /\ pc = [p \in Processes |-> "start"]
  /\ plan = [p \in Processes |-> NoLock]
  /\ touched = {} /\ edits = 0

GoTo(p, label) == pc' = [pc EXCEPT ![p] = label]

\* A lock that loads and was made for the policy of the workspace.
Usable == lockfile # NoLock /\ lockfile.version = policy

\* sync, locations and preflight read the committed lock; preflight reports what refuses the
\* others, and a lock that it cannot use is never ready, whatever is in the store.
ReadLock(p) ==
  /\ pc[p] = "start" /\ call[p] # "update"
  /\ IF Usable
     THEN /\ plan' = [plan EXCEPT ![p] = lockfile]
          /\ GoTo(p, IF call[p] = "sync" THEN "wait" ELSE "kubernetes")
     ELSE GoTo(p, "refused") /\ UNCHANGED plan
  /\ UNCHANGED <<disk, stage, lockfile, policy, head, holder, call, touched, edits>>

\* What asking GitHub for the tip of a repository brings: nothing, if it is out of reach,
\* limits its callers or answers anything but one full commit.
Asked(repository) == {{}, {head[repository]}}

\* update asks for one tip and then for the other.
Resolve(p) ==
  /\ pc[p] = "start" /\ call[p] = "update"
  /\ \E found \in Asked("kubernetes") :
       IF found = {} THEN GoTo(p, "failed") /\ UNCHANGED plan
       ELSE /\ \E tip \in found :
                 plan' = [plan EXCEPT ![p] = [by |-> "update", version |-> policy,
                                              kubernetes |-> tip, catalog |-> tip]]
            /\ GoTo(p, "resolve")
  /\ UNCHANGED <<disk, stage, lockfile, policy, head, holder, call, touched, edits>>

\* Mutant: the lock is written first, and then filled.
ResolveCatalog_Writes(p) ==
  /\ pc[p] = "resolve"
  /\ plan' = [plan EXCEPT ![p].catalog = head["catalog"]] /\ GoTo(p, "wait")
  /\ lockfile' = plan'[p]
  /\ UNCHANGED <<disk, stage, policy, head, holder, call, touched, edits>>

\* The tip of the second repository, which may have moved since the first was asked for.
ResolveCatalog(p) ==
  /\ pc[p] = "resolve"
  /\ \E found \in Asked("catalog") :
       IF found = {} THEN GoTo(p, "failed") /\ UNCHANGED plan
       ELSE /\ \E tip \in found : plan' = [plan EXCEPT ![p].catalog = tip]
            /\ GoTo(p, "wait")
  /\ UNCHANGED <<disk, stage, lockfile, policy, head, holder, call, touched, edits>>

\* One process at a time hydrates the store.
Acquire(p) ==
  /\ pc[p] = "wait" /\ holder = Nobody
  /\ holder' = p
  /\ GoTo(p, "kubernetes")
  /\ UNCHANGED <<disk, stage, lockfile, policy, head, call, plan, touched, edits>>

\* The end of the locked section, good or bad.
Release(p, label) == holder' = Nobody /\ GoTo(p, label)

Reads(p) == pc[p] \in Repositories /\ call[p] \in {"validate", "preflight"}
Hydrating(p) == pc[p] \in Repositories /\ call[p] \in {"sync", "update"}

\* After a repository comes the next, or the end.
Onward(p) ==
  IF pc[p] = "kubernetes"
  THEN GoTo(p, "catalog") /\ UNCHANGED holder
  ELSE Release(p, IF call[p] = "update" THEN "write" ELSE "done")

\* A snapshot that is there, and has a file too many, too few or other than its commit has.
Problem(s) == disk[s] = "damaged"

\* A snapshot that is there is inspected: a whole one is kept, a damaged one ends the
\* sync.  A missing one gets a staging directory beside it.
Find(p) ==
  /\ Hydrating(p) /\ stage[p] = "none"
  /\ CASE disk[SnapshotOf(plan[p], pc[p])] = "absent" ->
            stage' = [stage EXCEPT ![p] = "empty"] /\ UNCHANGED <<holder, pc>>
       [] Problem(SnapshotOf(plan[p], pc[p])) -> Release(p, "failed") /\ UNCHANGED stage
       [] OTHER -> Onward(p) /\ UNCHANGED stage
  /\ UNCHANGED <<disk, lockfile, policy, head, call, plan, touched, edits>>

\* Mutant: the checkout is made in place.
Checkout_InPlace(p) ==
  /\ Hydrating(p) /\ stage[p] = "empty"
  /\ stage' = [stage EXCEPT ![p] = "filled"]
  /\ disk' = [disk EXCEPT ![SnapshotOf(plan[p], pc[p])] = "damaged"]
  /\ UNCHANGED <<lockfile, policy, head, holder, call, pc, plan, touched, edits>>

\* git fetches and checks out one commit, and the result is inspected.  Whatever fails
\* of this takes the staging directory with it.
Checkout(p) ==
  /\ Hydrating(p) /\ stage[p] = "empty"
  /\ \/ stage' = [stage EXCEPT ![p] = "filled"] /\ UNCHANGED <<holder, pc>>
     \/ stage' = [stage EXCEPT ![p] = "none"] /\ Release(p, "failed")
  /\ UNCHANGED <<disk, lockfile, policy, head, call, plan, touched, edits>>

\* The staging directory is renamed to the snapshot.
Publish(p) ==
  /\ Hydrating(p) /\ stage[p] = "filled"
  /\ disk' = [disk EXCEPT ![SnapshotOf(plan[p], pc[p])] = "whole"]
  /\ stage' = [stage EXCEPT ![p] = "none"]
  /\ Onward(p)
  /\ UNCHANGED <<lockfile, policy, head, call, plan, touched, edits>>

\* update replaces the lock file in one step once both snapshots are cached, or fails to.
WriteLock(p) ==
  /\ pc[p] = "write"
  /\ \/ lockfile' = plan[p] /\ GoTo(p, "done")
     \/ GoTo(p, "failed") /\ UNCHANGED lockfile
  /\ UNCHANGED <<disk, stage, policy, head, holder, call, plan, touched, edits>>

\* What both snapshots were found for: to check against, or to report.
Good(p) == IF call[p] = "validate" THEN "served" ELSE "ready"

\* A snapshot that serves: one that is there and has no problem.
Serves(s) == disk[s] # "absent" /\ ~Problem(s)

\* A validation and a doctor inspect one snapshot after the other and take no lock.
Inspect(p) ==
  /\ Reads(p)
  /\ GoTo(p, IF ~Serves(SnapshotOf(plan[p], pc[p])) THEN "refused"
             ELSE IF pc[p] = "kubernetes" THEN "catalog" ELSE Good(p))
  /\ UNCHANGED <<disk, stage, lockfile, policy, head, holder, call, plan, touched, edits>>

\* Mutant: .sync.lock outlives the process that held it.
Kill_KeepsLock(p) ==
  /\ pc[p] \notin Ended
  /\ GoTo(p, "killed")
  /\ UNCHANGED <<disk, stage, lockfile, policy, head, holder, call, plan, touched, edits>>

\* The process dies: its staging directory stays, the kernel drops its lock.
Kill(p) ==
  /\ pc[p] \notin Ended
  /\ GoTo(p, "killed")
  /\ holder' = IF holder = p THEN Nobody ELSE holder
  /\ UNCHANGED <<disk, stage, lockfile, policy, head, call, plan, touched, edits>>

Running(p) ==
  \/ ReadLock(p) \/ Resolve(p) \/ ResolveCatalog(p) \/ Acquire(p) \/ Find(p)
  \/ Checkout(p) \/ Publish(p) \/ WriteLock(p) \/ Inspect(p)

\* What happens outside the program.
EditPolicy ==
  /\ \E v \in Versions : policy' = v
  /\ UNCHANGED <<disk, lockfile, head, touched>>
UpstreamMoves ==
  /\ \E r \in Repositories, c \in Revisions : head' = [head EXCEPT ![r] = c]
  /\ UNCHANGED <<disk, lockfile, policy, touched>>
Tamper ==
  /\ \E s \in Snapshots :
       /\ disk[s] # "absent"
       /\ \E found \in {"absent", "damaged"} : disk' = [disk EXCEPT ![s] = found]
       /\ touched' = touched \union {s}
  /\ UNCHANGED <<lockfile, policy, head>>

Outside ==
  /\ edits < MaxEdits /\ edits' = edits + 1
  /\ EditPolicy \/ UpstreamMoves \/ Tamper
  /\ UNCHANGED <<stage, holder, call, pc, plan>>

Next == (\E p \in Processes : Running(p) \/ Kill(p)) \/ Outside

\* A process is scheduled, and its requests and subprocesses have a time-out.
Spec == Init /\ [][Next]_vars /\ \A p \in Processes : WF_vars(Running(p))

-----------------------------------------------------------------------------
(***************************************************************************)
(* Properties.                                                             *)
(***************************************************************************)

\* Every variable keeps its type, and the lock is held by a process that hydrates.
TypeOK ==
  /\ disk \in [Snapshots -> {"absent", "whole", "damaged"}]
  /\ stage \in [Processes -> {"none", "empty", "filled"}]
  /\ lockfile \in Locks \union {NoLock}
  /\ policy \in Versions
  /\ head \in [Repositories -> Revisions]
  /\ holder \in Processes \union {Nobody}
  /\ \A p \in Processes : holder = p => Hydrating(p)
  /\ call \in [Processes -> Calls]
  /\ pc \in [Processes -> Ended \union Repositories \union {"start", "resolve", "wait", "write"}]
  /\ plan \in [Processes -> Locks \union {NoLock}]
  /\ touched \subseteq Snapshots
  /\ edits \in 0 .. MaxEdits

\* A snapshot is as a sync left it, or somebody touched it.
Intact(lock) == \A s \in Selected(lock) : disk[s] = "whole" \/ s \in touched

\* update: cache, then write.  Whatever the crashes and the other processes, a lock file
\* that `sync --update` wrote selects snapshots that are in the store.
LockIsCached == lockfile.by = "update" => Intact(lockfile)

\* A sync that ended well leaves both snapshots of its lock, and a validation that was
\* served, or a doctor that calls the store ready, finds both for as long as nobody touches
\* them, also while others sync.
ServedStaysWhole ==
  \A p \in Processes : pc[p] \in {"done", "served", "ready"} => Intact(plan[p])

\* RepositorySnapshot and rename: no step of any process does anything to the store but to
\* make a snapshot appear whole; only steps outside the program, each counted in edits,
\* damage or remove one.
Store == INSTANCE SnapshotStore WITH held <- disk, hands <- edits
ImplementsSnapshots == Store!SnapshotSpec

\* Every process ends: nobody waits for ever for a lock whose holder has died.
ProcessesEnd == \A p \in Processes : <>(pc[p] \in Ended)

\* store.py: what a lock file selects, and what a process was told is there, is in the store
\* as a sync left it.
StoreIsWhole == LockIsCached /\ ServedStaysWhole
=============================================================================
