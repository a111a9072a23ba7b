--------------------------- MODULE Validate_proofs ---------------------------
(***************************************************************************)
(* Proofs about `chart validate` and the schemas that it is served, for    *)
(* any number of processes, threads, charts, rows and steps of others.     *)
(*                                                                         *)
(* SchemaStore: what a lock file and an answer are worth, and that the     *)
(* store is what its readers are promised (SnapshotStore).  The refinement *)
(* rests on the lock: whoever has a staging directory holds .sync.lock,    *)
(* and what it is about to rename there is still absent (Staging).  What   *)
(* an answer is worth rests on what lies behind it (Behind): a process     *)
(* goes past a snapshot only when it is whole.                             *)
(*                                                                         *)
(* Validate: whoever exits 0 has checked every row, and what the threads   *)
(* share settles before it is used.  A row is with one thread (Rowing),    *)
(* the schemas are with one loader (Working), a chart that is updated has  *)
(* stale dependencies (Settled), what was rendered for the cache is no     *)
(* older than the fingerprints (Printed), what is known of a row follows   *)
(* where its thread is (Judging), and with --fail-fast the one row that is *)
(* checked is the one that the main thread waits for (Stopping).           *)
(***************************************************************************)
EXTENDS SchemaStore, Validate, SequenceTheorems, TLAPS

\* A process that has a lock to work on.
Planning == Repositories \union {"resolve", "wait", "write", "done", "served", "ready"}

\* Only one process hydrates, and no one has renamed what it is about to.
Staging(p) ==
  /\ Hydrating(p) => holder = p
  /\ stage[p] # "none" => Hydrating(p) \/ pc[p] = "killed"
  /\ Hydrating(p) /\ stage[p] # "none" => disk[SnapshotOf(plan[p], pc[p])] = "absent"

Whole(s) == disk[s] = "whole" \/ s \in touched

\* What a process has gone past is as a sync left it.
Behind(p) ==
  /\ pc[p] \in {"resolve", "wait"} => call[p] \in {"sync", "update"}
  /\ pc[p] \in Planning => plan[p] \in Locks
  /\ pc[p] = "catalog" => Whole(SnapshotOf(plan[p], "kubernetes"))
  /\ pc[p] \in {"write", "done", "served", "ready"} => Intact(plan[p])

IInv ==
  /\ TypeOK
  /\ \A p \in Processes : Staging(p) /\ Behind(p)
  /\ LockIsCached

-----------------------------------------------------------------------------
(***************************************************************************)
(* Locks and snapshots.                                                    *)
(***************************************************************************)

\* What stands for no lock file is none.
LEMMA NoLockIsNoLock == NoLock \notin Locks /\ NoLock.by # "update"
  BY DEF NoLock, Locks

LEMMA LockFields ==
  ASSUME NEW l \in Locks
  PROVE  /\ l.by \in {"git", "update"} /\ l.version \in Versions
         /\ l.kubernetes \in Revisions /\ l.catalog \in Revisions
  BY DEF Locks

\* SchemaLocations: a lock selects two snapshots.
LEMMA SelectedSnapshots ==
  ASSUME NEW l \in Locks, NEW r \in Repositories
  PROVE  SnapshotOf(l, r) \in Snapshots
  BY LockFields DEF SnapshotOf, Snapshots, Repositories

LEMMA SelectedAre ==
  ASSUME NEW l
  PROVE  Selected(l) = {SnapshotOf(l, "kubernetes"), SnapshotOf(l, "catalog")}
  BY DEF Selected, Repositories

-----------------------------------------------------------------------------
(***************************************************************************)
(* Types.                                                                  *)
(***************************************************************************)

Labels == Ended \union Repositories \union {"start", "resolve", "wait", "write"}

\* What a step of a process leaves alone.
LEMMA OthersStand ==
  ASSUME TypeOK, NEW p \in Processes, Running(p) \/ Kill(p)
  PROVE  /\ \A q \in Processes \ {p} : /\ pc'[q] = pc[q] /\ plan'[q] = plan[q]
                                       /\ stage'[q] = stage[q]
         /\ call' = call /\ policy' = policy /\ head' = head
         /\ touched' = touched /\ edits' = edits
<1> USE DEF TypeOK, GoTo, Release, Onward
<1>1. CASE ReadLock(p)
  BY <1>1 DEF ReadLock
<1>2. CASE Resolve(p)
  BY <1>2 DEF Resolve
<1>3. CASE ResolveCatalog(p)
  BY <1>3 DEF ResolveCatalog
<1>4. CASE Acquire(p)
  BY <1>4 DEF Acquire
<1>5. CASE Find(p)
  BY <1>5 DEF Find
<1>6. CASE Checkout(p)
  BY <1>6 DEF Checkout
<1>7. CASE Publish(p)
  BY <1>7 DEF Publish
<1>8. CASE WriteLock(p)
  BY <1>8 DEF WriteLock
<1>9. CASE Inspect(p)
  BY <1>9 DEF Inspect
<1>10. CASE Kill(p)
  BY <1>10 DEF Kill
<1>. QED
  BY <1>1, <1>2, <1>3, <1>4, <1>5, <1>6, <1>7, <1>8, <1>9, <1>10 DEF Running

\* Where a step takes its process, and what it does to .sync.lock.
LEMMA StepControl ==
  ASSUME TypeOK, NEW p \in Processes, Behind(p), Running(p) \/ Kill(p)
  PROVE  /\ \E label \in Labels : pc' = [pc EXCEPT ![p] = label]
         /\ \/ holder' = Nobody /\ (holder = p \/ Hydrating(p))
            \/ holder' = holder /\ (holder # p \/ Hydrating(p)')
            \/ holder = Nobody /\ holder' = p /\ Hydrating(p)'
<1> USE DEF TypeOK, GoTo, Release, Onward, Hydrating, Labels, Ended, Repositories
<1>0. pc = [pc EXCEPT ![p] = pc[p]] /\ call' = call
  BY OthersStand
<1>1. CASE ReadLock(p)
  BY <1>1 DEF ReadLock
<1>2. CASE Resolve(p)
  BY <1>2 DEF Resolve
<1>3. CASE ResolveCatalog(p)
  BY <1>3 DEF ResolveCatalog
<1>4. CASE Acquire(p)
  BY <1>0, <1>4 DEF Acquire, Behind
<1>5. CASE Find(p)
  BY <1>0, <1>5 DEF Find
<1>6. CASE Checkout(p)
  BY <1>0, <1>6 DEF Checkout
<1>7. CASE Publish(p)
  BY <1>7 DEF Publish
<1>8. CASE WriteLock(p)
  BY <1>8 DEF WriteLock
<1>9. CASE Inspect(p)
  BY <1>9 DEF Inspect, Reads, Good
<1>10. CASE Kill(p)
  BY <1>10 DEF Kill
<1>. QED
  BY <1>1, <1>2, <1>3, <1>4, <1>5, <1>6, <1>7, <1>8, <1>9, <1>10 DEF Running

LEMMA StepType ==
  ASSUME TypeOK, NEW p \in Processes, Behind(p), Running(p) \/ Kill(p)
  PROVE  TypeOK'
<1>1. pc' \in [Processes -> Labels] /\ call' = call
  BY StepControl, OthersStand DEF TypeOK, Labels
<1>2. holder' \in Processes \union {Nobody}
  BY StepControl DEF TypeOK
<1>3. \A q \in Processes : holder' = q => Hydrating(q)'
  BY StepControl, OthersStand, SchemaAssumption DEF TypeOK, Hydrating
<1>4. disk' \in [Snapshots -> {"absent", "whole", "damaged"}]
  BY DEF TypeOK, Running, ReadLock, Resolve, ResolveCatalog, Acquire, Find, Checkout, Publish,
         WriteLock, Inspect, Kill
<1>5. stage' \in [Processes -> {"none", "empty", "filled"}]
  BY DEF TypeOK, Running, ReadLock, Resolve, ResolveCatalog, Acquire, Find, Checkout, Publish,
         WriteLock, Inspect, Kill
<1>6. plan' \in [Processes -> Locks \union {NoLock}]
  <2>1. CASE ReadLock(p)
    BY <2>1 DEF ReadLock, TypeOK
  <2>2. CASE Resolve(p)
    <3>1. CASE UNCHANGED plan
      BY <3>1 DEF TypeOK
    <3>2. ASSUME NEW tip \in {head["kubernetes"]},
                 plan' = [plan EXCEPT ![p] = [by |-> "update", version |-> policy,
                                              kubernetes |-> tip, catalog |-> tip]]
          PROVE  plan' \in [Processes -> Locks \union {NoLock}]
      <4>1. [by |-> "update", version |-> policy, kubernetes |-> tip, catalog |-> tip] \in Locks
        BY DEF TypeOK, Locks, Repositories
      <4>. QED
        BY <3>2, <4>1 DEF TypeOK
    <3>. QED
      BY <2>2, <3>1, <3>2 DEF Resolve, Asked
  <2>3. CASE ResolveCatalog(p)
    <3>1. CASE UNCHANGED plan
      BY <3>1 DEF TypeOK
    <3>2. ASSUME NEW tip \in {head["catalog"]}, plan' = [plan EXCEPT ![p].catalog = tip]
          PROVE  plan' \in [Processes -> Locks \union {NoLock}]
      <4>1. plan[p] \in Locks /\ tip \in Revisions
        BY <2>3 DEF Behind, Planning, ResolveCatalog, TypeOK, Repositories
      <4>2. [plan[p] EXCEPT !.catalog = tip] \in Locks
        BY <4>1 DEF Locks
      <4>. QED
        BY <3>2, <4>2 DEF TypeOK
    <3>. QED
      BY <2>3, <3>1, <3>2 DEF ResolveCatalog, Asked
  <2>4. CASE UNCHANGED plan
    BY <2>4 DEF TypeOK
  <2>. QED
    BY <2>1, <2>2, <2>3, <2>4 DEF Running, Acquire, Find, Checkout, Publish, WriteLock,
                                  Inspect, Kill
<1>7. lockfile' \in Locks \union {NoLock}
  BY DEF TypeOK, Running, ReadLock, Resolve, ResolveCatalog, Acquire, Find, Checkout, Publish,
         WriteLock, Inspect, Kill
<1>. QED
  BY <1>1, <1>2, <1>3, <1>4, <1>5, <1>6, <1>7, OthersStand DEF TypeOK, Labels

-----------------------------------------------------------------------------
(***************************************************************************)
(* What happens to the store.                                              *)
(***************************************************************************)

\* rename: a step of a process makes at most an absent snapshot appear, whole.
LEMMA StepStore ==
  ASSUME IInv, NEW p \in Processes, Running(p) \/ Kill(p)
  PROVE  \/ disk' = disk /\ edits' = edits
         \/ \E s \in Snapshots : Store!Appear(s)
<1>1. CASE Publish(p)
  <2>1. /\ Hydrating(p) /\ stage[p] = "filled"
        /\ disk' = [disk EXCEPT ![SnapshotOf(plan[p], pc[p])] = "whole"]
        /\ edits' = edits
    BY <1>1 DEF Publish
  <2>2. plan[p] \in Locks /\ pc[p] \in Repositories
    BY <2>1 DEF IInv, Behind, Planning, Hydrating
  <2>3. SnapshotOf(plan[p], pc[p]) \in Snapshots
    BY <2>2, SelectedSnapshots
  <2>4. disk[SnapshotOf(plan[p], pc[p])] = "absent"
    BY <2>1 DEF IInv, Staging
  <2>. QED
    BY <2>1, <2>3, <2>4 DEF Store!Appear
<1>2. CASE ~Publish(p)
  BY <1>2 DEF Running, ReadLock, Resolve, ResolveCatalog, Acquire, Find, Checkout, WriteLock,
              Inspect, Kill
<1>. QED
  BY <1>1, <1>2

\* Tamper: from outside, a snapshot that is there is damaged or removed, and remembered.
LEMMA OutsideStore ==
  ASSUME TypeOK, Outside
  PROVE  \/ disk' = disk /\ touched' = touched
         \/ \E s \in Snapshots : /\ disk[s] # "absent" /\ touched' = touched \union {s}
                                 /\ \E found \in {"absent", "damaged"} :
                                      disk' = [disk EXCEPT ![s] = found]
  BY DEF Outside, EditPolicy, UpstreamMoves, Tamper

\* Whatever the step, what was whole is whole or was touched.
LEMMA WholeStays ==
  ASSUME IInv, Next, NEW s \in Snapshots, Whole(s)
  PROVE  Whole(s)'
<1>1. ASSUME NEW p \in Processes, Running(p) \/ Kill(p) PROVE Whole(s)'
  <2>1. touched' = touched
    BY <1>1, OthersStand DEF IInv
  <2>2. disk[s] = "whole" => disk'[s] = "whole"
    BY <1>1, StepStore DEF IInv, TypeOK, Store!Appear
  <2>. QED
    BY <2>1, <2>2 DEF Whole
<1>2. CASE Outside
  BY <1>2, OutsideStore DEF Whole, IInv, TypeOK
<1>. QED
  BY <1>1, <1>2 DEF Next

LEMMA IntactStays ==
  ASSUME IInv, Next, NEW l \in Locks, Intact(l)
  PROVE  Intact(l)'
<1>1. \A s \in Selected(l) : s \in Snapshots
  BY SelectedSnapshots, SelectedAre DEF Repositories
<1>2. \A s \in Selected(l) : Whole(s)'
  BY <1>1, WholeStays DEF Intact, Whole
<1>. QED
  BY <1>2 DEF Intact, Whole

-----------------------------------------------------------------------------
(***************************************************************************)
(* The steps of a process.                                                 *)
(***************************************************************************)

\* The staging directory of the process that moves.
LEMMA MoverStages ==
  ASSUME IInv, NEW p \in Processes, Running(p) \/ Kill(p)
  PROVE  Staging(p)'
<1> USE DEF IInv, TypeOK, GoTo, Release, Onward, Hydrating, Staging, Repositories
<1>0. call' = call
  BY OthersStand
<1>1. CASE ReadLock(p)
  BY <1>0, <1>1 DEF ReadLock
<1>2. CASE Resolve(p)
  BY <1>2 DEF Resolve
<1>3. CASE ResolveCatalog(p)
  BY <1>3 DEF ResolveCatalog
<1>4. CASE Acquire(p)
  BY <1>4 DEF Acquire
<1>5. CASE Find(p)
  BY <1>0, <1>5 DEF Find
<1>6. CASE Checkout(p)
  BY <1>0, <1>6 DEF Checkout
<1>7. CASE Publish(p)
  BY <1>0, <1>7 DEF Publish
<1>8. CASE WriteLock(p)
  BY <1>8 DEF WriteLock
<1>9. CASE Inspect(p)
  BY <1>0, <1>9 DEF Inspect, Reads, Good
<1>10. CASE Kill(p)
  BY <1>10 DEF Kill
<1>. QED
  BY <1>1, <1>2, <1>3, <1>4, <1>5, <1>6, <1>7, <1>8, <1>9, <1>10 DEF Running

\* The staging directories of the others: nobody else renames while they hold the lock.
LEMMA OthersStage ==
  ASSUME IInv, NEW p \in Processes, Running(p) \/ Kill(p), NEW q \in Processes \ {p}
  PROVE  Staging(q)'
<1>1. /\ pc'[q] = pc[q] /\ plan'[q] = plan[q] /\ stage'[q] = stage[q] /\ call' = call
      /\ Staging(q) /\ Staging(p) /\ Behind(p) /\ TypeOK
  BY OthersStand DEF IInv
<1>2. Hydrating(q)' = Hydrating(q)
  BY <1>1 DEF Hydrating
<1>3. ASSUME Hydrating(q) PROVE holder' = q /\ disk' = disk
  <2>1. holder = q /\ ~Hydrating(p) /\ q # Nobody
    BY <1>1, <1>3, SchemaAssumption DEF Staging
  <2>2. holder' = holder
    BY <1>1, <2>1, StepControl
  <2>3. disk' = disk
    BY <2>1 DEF Running, ReadLock, Resolve, ResolveCatalog, Acquire, Find, Checkout, Publish,
                WriteLock, Inspect, Kill
  <2>. QED
    BY <2>1, <2>2, <2>3
<1>. QED
  BY <1>1, <1>2, <1>3 DEF Staging

\* A step that moves on with its lock and its store.
LEMMA MoverMovesOn ==
  ASSUME IInv, NEW p \in Processes, Running(p) \/ Kill(p)
  PROVE  Behind(p)'
<1> USE DEF IInv, TypeOK, GoTo, Release, Onward, Planning, Repositories
<1>0. /\ call' = call /\ touched' = touched
      /\ \A s \in Snapshots : Whole(s) => Whole(s)'
      /\ \A l \in Locks : Intact(l) => Intact(l)'
  BY OthersStand, WholeStays, IntactStays DEF Next
<1>1. CASE ReadLock(p)
  BY <1>0, <1>1 DEF ReadLock, Behind, Usable, Calls
<1>2. CASE Resolve(p)
  <2>1. CASE pc'[p] = "failed"
    BY <2>1 DEF Behind
  <2>2. CASE pc'[p] # "failed"
    <3>1. /\ pc'[p] = "resolve" /\ call[p] = "update"
          /\ plan'[p] = [by |-> "update", version |-> policy, kubernetes |-> head["kubernetes"],
                         catalog |-> head["kubernetes"]]
      BY <1>2, <2>2 DEF Resolve, Asked
    <3>2. plan'[p] \in Locks
      BY <3>1 DEF Locks
    <3>. QED
      BY <1>0, <3>1, <3>2 DEF Behind
  <2>. QED
    BY <2>1, <2>2
<1>3. CASE ResolveCatalog(p)
  <2>1. CASE pc'[p] = "failed"
    BY <2>1 DEF Behind
  <2>2. CASE pc'[p] # "failed"
    <3>1. /\ pc'[p] = "wait" /\ pc[p] = "resolve"
          /\ plan'[p] = [plan[p] EXCEPT !.catalog = head["catalog"]]
      BY <1>3, <2>2 DEF ResolveCatalog, Asked
    <3>2. plan[p] \in Locks
      BY <3>1 DEF Behind
    <3>3. plan'[p] \in Locks
      BY <3>1, <3>2 DEF Locks
    <3>. QED
      BY <1>0, <3>1, <3>3 DEF Behind
  <2>. QED
    BY <2>1, <2>2
<1>4. CASE Acquire(p)
  BY <1>0, <1>4 DEF Acquire, Behind
<1>5. CASE Find(p) \/ Publish(p)
  <2>1. plan'[p] = plan[p] /\ plan[p] \in Locks /\ pc[p] \in Repositories
    BY <1>5 DEF Find, Publish, Hydrating, Behind
  <2>2. SnapshotOf(plan[p], "kubernetes") \in Snapshots /\ SnapshotOf(plan[p], "catalog") \in Snapshots
    BY <2>1, SelectedSnapshots
  <2>3. CASE pc'[p] = pc[p]
    BY <1>0, <2>1, <2>2, <2>3 DEF Behind
  <2>4. CASE pc'[p] = "failed"
    BY <2>4 DEF Behind
  <2>5. CASE Onward(p) /\ disk'[SnapshotOf(plan[p], pc[p])] = "whole"
    <3>1. CASE pc[p] = "kubernetes"
      BY <2>1, <2>5, <3>1 DEF Behind, Whole
    <3>2. CASE pc[p] = "catalog"
      <4>1. Whole(SnapshotOf(plan[p], "kubernetes"))'
        BY <1>0, <2>1, <2>2, <3>2 DEF Behind, Whole
      <4>2. Intact(plan[p])'
        BY <2>1, <2>5, <3>2, <4>1, SelectedAre DEF Intact, Whole
      <4>. QED
        BY <2>1, <2>5, <3>2, <4>2 DEF Behind
    <3>. QED
      BY <2>1, <3>1, <3>2
  <2>6. Find(p) => \/ pc'[p] = pc[p] \/ pc'[p] = "failed"
                   \/ Onward(p) /\ disk'[SnapshotOf(plan[p], pc[p])] = "whole"
    BY <2>1, <2>2 DEF Find, Problem
  <2>7. Publish(p) => Onward(p) /\ disk'[SnapshotOf(plan[p], pc[p])] = "whole"
    BY <2>1, <2>2 DEF Publish
  <2>. QED
    BY <1>5, <2>3, <2>4, <2>5, <2>6, <2>7
<1>6. CASE Checkout(p)
  BY <1>0, <1>6 DEF Checkout, Behind, Hydrating, Whole
<1>7. CASE WriteLock(p)
  BY <1>0, <1>7 DEF WriteLock, Behind
<1>8. CASE Inspect(p)
  <2>1. plan'[p] = plan[p] /\ plan[p] \in Locks /\ pc[p] \in Repositories
    BY <1>8 DEF Inspect, Reads, Behind
  <2>2. SnapshotOf(plan[p], "kubernetes") \in Snapshots /\ SnapshotOf(plan[p], "catalog") \in Snapshots
    BY <2>1, SelectedSnapshots
  <2>3. CASE pc'[p] = "refused"
    BY <2>3 DEF Behind
  <2>4. CASE pc'[p] # "refused"
    <3>1. /\ disk[SnapshotOf(plan[p], pc[p])] = "whole" /\ disk' = disk
          /\ \/ pc[p] = "kubernetes" /\ pc'[p] = "catalog"
             \/ pc[p] = "catalog" /\ pc'[p] \in {"served", "ready"}
      BY <1>0, <1>8, <2>1, <2>2, <2>4 DEF Inspect, Good, Serves, Problem
    <3>2. Whole(SnapshotOf(plan[p], "kubernetes"))'
      BY <1>0, <2>1, <3>1 DEF Behind, Whole
    <3>3. pc[p] = "catalog" => Intact(plan[p])'
      BY <2>1, <3>1, <3>2, SelectedAre DEF Intact, Whole
    <3>. QED
      BY <2>1, <3>1, <3>2, <3>3 DEF Behind, Whole
  <2>. QED
    BY <2>3, <2>4
<1>9. CASE Kill(p)
  BY <1>9 DEF Kill, Behind
<1>. QED
  BY <1>1, <1>2, <1>3, <1>4, <1>5, <1>6, <1>7, <1>8, <1>9 DEF Running

\* What lies behind a process that does not move stays.
LEMMA BehindStays ==
  ASSUME IInv, Next, NEW q \in Processes, pc'[q] = pc[q], plan'[q] = plan[q], call'[q] = call[q]
  PROVE  Behind(q)'
<1>1. Behind(q)
  BY DEF IInv
<1>2. CASE plan[q] \in Locks
  <2>1. SnapshotOf(plan[q], "kubernetes") \in Snapshots
    BY <1>2, SelectedSnapshots DEF Repositories
  <2>2. Whole(SnapshotOf(plan[q], "kubernetes")) => Whole(SnapshotOf(plan[q], "kubernetes"))'
    BY <2>1, WholeStays DEF Whole
  <2>3. Intact(plan[q]) => Intact(plan[q])'
    BY <1>2, IntactStays DEF Intact
  <2>. QED
    BY <1>1, <1>2, <2>2, <2>3 DEF Behind
<1>3. CASE plan[q] \notin Locks
  BY <1>1, <1>3 DEF Behind, Planning, Repositories
<1>. QED
  BY <1>2, <1>3

\* WriteLock: the lock file changes only to one whose snapshots are cached.
LEMMA LockStaysCached ==
  ASSUME IInv, Next
  PROVE  LockIsCached'
<1>1. CASE lockfile' = lockfile
  <2>1. CASE lockfile \in Locks
    <3>1. Intact(lockfile) => Intact(lockfile)'
      BY <1>1, <2>1, IntactStays DEF Intact
    <3>. QED
      BY <1>1, <3>1 DEF IInv, LockIsCached
  <2>2. CASE lockfile = NoLock
    BY <1>1, <2>2, NoLockIsNoLock DEF LockIsCached
  <2>. QED
    BY <2>1, <2>2 DEF IInv, TypeOK
<1>2. ASSUME NEW p \in Processes, WriteLock(p), lockfile' # lockfile
      PROVE  LockIsCached'
  <2>1. lockfile' = plan[p] /\ disk' = disk /\ touched' = touched /\ Intact(plan[p])
    BY <1>2 DEF WriteLock, IInv, Behind
  <2>. QED
    BY <2>1 DEF LockIsCached, Intact, Selected, SnapshotOf
<1>3. lockfile' = lockfile \/ \E p \in Processes : WriteLock(p)
  BY DEF Next, Running, ReadLock, Resolve, ResolveCatalog, Acquire, Find, Checkout, Publish,
         Inspect, Kill, Outside, EditPolicy, UpstreamMoves, Tamper
<1>. QED
  BY <1>1, <1>2, <1>3

-----------------------------------------------------------------------------
(***************************************************************************)
(* The invariant.                                                          *)
(***************************************************************************)

LEMMA InitInvariant == Init => IInv
<1> SUFFICES ASSUME Init PROVE IInv
  OBVIOUS
<1>1. TypeOK
  BY SchemaAssumption DEF Init, TypeOK, Hydrating, Repositories
<1>2. \A p \in Processes : Staging(p) /\ Behind(p)
  BY DEF Init, Staging, Behind, Hydrating, Repositories, Planning
<1>3. LockIsCached
  BY NoLockIsNoLock DEF Init, LockIsCached
<1>. QED
  BY <1>1, <1>2, <1>3 DEF IInv

LEMMA NextInvariant == IInv /\ [Next]_vars => IInv'
<1> SUFFICES ASSUME IInv, [Next]_vars PROVE IInv'
  OBVIOUS
<1>1. CASE UNCHANGED vars
  BY <1>1 DEF vars, IInv, TypeOK, Hydrating, Staging, Behind, Whole, Intact, Selected, SnapshotOf,
              LockIsCached
<1>2. ASSUME NEW p \in Processes, Running(p) \/ Kill(p) PROVE IInv'
  <2>1. TypeOK'
    BY <1>2, StepType DEF IInv
  <2>2. \A q \in Processes : Staging(q)'
    BY <1>2, MoverStages, OthersStage
  <2>3. \A q \in Processes \ {p} : Behind(q)'
    BY <1>2, OthersStand, BehindStays DEF Next, IInv
  <2>4. Behind(p)' /\ LockIsCached'
    BY <1>2, MoverMovesOn, LockStaysCached DEF Next
  <2>. QED
    BY <2>1, <2>2, <2>3, <2>4 DEF IInv
<1>3. CASE Outside
  <2>1. UNCHANGED <<stage, holder, call, pc, plan>> /\ edits < MaxEdits /\ edits' = edits + 1
    BY <1>3 DEF Outside
  <2>2. edits' \in 0 .. MaxEdits
    BY <2>1, SchemaAssumption DEF IInv, TypeOK
  <2>3. /\ disk' \in [Snapshots -> {"absent", "whole", "damaged"}] /\ touched' \subseteq Snapshots
        /\ \A s \in Snapshots : disk[s] = "absent" => disk'[s] = "absent"
    BY <1>3, OutsideStore DEF IInv, TypeOK
  <2>4. policy' \in Versions /\ head' \in [Repositories -> Revisions] /\ lockfile' = lockfile
    BY <1>3 DEF Outside, EditPolicy, UpstreamMoves, Tamper, IInv, TypeOK
  <2>5. TypeOK'
    BY <2>1, <2>2, <2>3, <2>4 DEF IInv, TypeOK, Hydrating
  <2>6. ASSUME NEW q \in Processes PROVE Staging(q)'
    <3>1. Hydrating(q) => SnapshotOf(plan[q], pc[q]) \in Snapshots
      BY SelectedSnapshots DEF IInv, Behind, Hydrating, Planning
    <3>. QED
      BY <2>1, <2>3, <3>1 DEF IInv, Staging, Hydrating
  <2>7. \A q \in Processes : Behind(q)'
    BY <1>3, <2>1, BehindStays DEF Next
  <2>8. LockIsCached'
    BY <1>3, LockStaysCached DEF Next
  <2>. QED
    BY <2>5, <2>6, <2>7, <2>8 DEF IInv
<1>. QED
  BY <1>1, <1>2, <1>3 DEF Next

LEMMA Invariant == Spec => []IInv
  BY InitInvariant, NextInvariant, PTL DEF Spec

-----------------------------------------------------------------------------
(***************************************************************************)
(* Theorems.                                                               *)
(***************************************************************************)

\* Every variable keeps its type, and .sync.lock is held by a process that hydrates.
THEOREM TypeIsInvariant == Spec => []TypeOK
<1>1. IInv => TypeOK
  BY DEF IInv
<1>. QED
  BY <1>1, Invariant, PTL

\* update: whatever the crashes and the races, a lock file that `sync --update` wrote
\* selects snapshots that are in the store.
THEOREM WrittenLocksAreCached == Spec => []LockIsCached
<1>1. IInv => LockIsCached
  BY DEF IInv
<1>. QED
  BY <1>1, Invariant, PTL

\* locations and preflight: what was served stays whole unless somebody touches it.
THEOREM AnswersLast == Spec => []ServedStaysWhole
<1>1. IInv => ServedStaysWhole
  BY DEF IInv, Behind, ServedStaysWhole
<1>. QED
  BY <1>1, Invariant, PTL

\* RepositorySnapshot: whatever process is killed or overtaken, a step of the program only
\* makes absent snapshots appear whole, and what damages or removes one is outside of it.
THEOREM StoreIsSnapshots == Spec => ImplementsSnapshots
<1>1. Init => Store!SnapshotInit
  BY DEF Init, Store!SnapshotInit
<1>2. IInv /\ [Next]_vars => [Store!SnapshotNext]_<<disk, edits>>
  <2>1. UNCHANGED vars => UNCHANGED <<disk, edits>>
    BY DEF vars
  <2>2. ASSUME IInv, NEW p \in Processes, Running(p) \/ Kill(p)
        PROVE  [Store!SnapshotNext]_<<disk, edits>>
    BY <2>2, StepStore DEF Store!SnapshotNext
  <2>3. ASSUME IInv, Outside PROVE Store!Hand
    <3>1. edits' = edits + 1
      BY <2>3 DEF Outside
    <3>2. ASSUME NEW s \in Snapshots, disk[s] # "absent",
                 NEW found \in {"absent", "damaged"}, disk' = [disk EXCEPT ![s] = found]
          PROVE  Store!Damage(s) \/ Store!Remove(s)
      BY <3>2 DEF Store!Damage, Store!Remove
    <3>. QED
      BY <2>3, <3>1, <3>2, OutsideStore DEF IInv, Store!Hand
  <2>. QED
    BY <2>1, <2>2, <2>3 DEF Next, Store!SnapshotNext
<1>. QED
  BY <1>1, <1>2, Invariant, PTL DEF Spec, ImplementsSnapshots, Store!SnapshotSpec

\* What a lock selects, and what a process was told is there, is in the store.
THEOREM StoresAreWhole == Spec => []StoreIsWhole
BY WrittenLocksAreCached, AnswersLast, PTL DEF StoreIsWhole

-----------------------------------------------------------------------------
(***************************************************************************)
(* Validate.                                                               *)
(***************************************************************************)

Places == {"idle", "values", "deps", "updating", "template", "schema", "schemas", "crds",
           "kubeconform", "policy"}
Ends == {None, "passed", "failed", "error"}

RowTypes ==
  /\ row \in [Threads -> 0 .. Len(Rows)] /\ next \in 1 .. Len(Rows) + 1
  /\ answer \in [Indices -> {None, "row", "spec", "raised"}]
  /\ consumed \in 0 .. Len(Rows) /\ raised \in BOOLEAN
CheckTypes ==
  /\ failfast \in BOOLEAN /\ broke \subseteq Indices
  /\ tree \in [Indices -> {None, "part", "empty", "whole"}]
  /\ checks \in [Indices -> [{"render", "schema", "policy"} -> Statuses]]
DepsTypes ==
  /\ fresh \in [Charts -> BOOLEAN] /\ ready \subseteq Charts
  /\ held \in [Charts -> Threads \union {None}]
JobTypes ==
  /\ at \in [Threads -> Places]
  /\ job \in [Threads -> [chart : Charts \union {None}, crd : BOOLEAN]]
  /\ loader \in Threads \union {None} /\ memo \in {None, "ok", "error"}
CacheTypes ==
  /\ bytes \in [Charts -> 0 .. MaxChanges]
  /\ print \in [Providers -> [full : Nat, authored : Nat]]
  /\ rendered \in [Providers -> [status : Ends, bytes : Nat]]

\* A row is with one thread at most, until it is answered; rows are taken in order.
Rowing ==
  /\ \A t \in Threads : row[t] = 0 <=> at[t] = "idle"
  /\ \A t \in Threads : row[t] # 0 => row[t] < next /\ answer[row[t]] = None
  /\ \A t, u \in Threads : row[t] # 0 /\ row[t] = row[u] => t = u
  /\ \A i \in Indices : i >= next => answer[i] = None
  /\ consumed < next /\ \A i \in Indices : i <= consumed => answer[i] # None

\* A thread that renders for the CRDs of a provider, and no other, is the loader.
Loads(t) == at[t] \in {"schemas", "crds"} \/ job[t].crd
Working ==
  /\ \A t \in Threads : at[t] # "idle" => job[t].chart \in Charts
  /\ \A t \in Threads : job[t].crd => job[t].chart \in Providers
       /\ at[t] \in {"deps", "updating", "template", "crds"}
  /\ \A t \in Threads : loader = t <=> Loads(t)
  /\ \A t \in Threads : loader = t /\ at[t] # "schemas" => memo = None

\* A chart whose lock is held has stale dependencies, and one that is rendered has fresh ones.
Settled ==
  /\ \A c \in Charts : held[c] # None => at[held[c]] = "updating" /\ job[held[c]].chart = c /\ ~fresh[c]
  /\ \A t \in Threads : at[t] = "updating" => held[job[t].chart] = t
  /\ \A c \in ready : fresh[c]
  /\ \A t \in Threads : at[t] = "template" => fresh[job[t].chart]

\* What the loader rendered, it rendered after it took the fingerprints.
Printed ==
  /\ CacheIsTrue
  /\ \A c \in Providers :
       /\ print[c].authored <= bytes[c] /\ print[c].full \in {Unknown, print[c].authored}
       /\ rendered[c].status # None =>
            print[c].authored <= rendered[c].bytes /\ rendered[c].bytes <= bytes[c]
  /\ (loader = None \/ at[loader] = "schemas") => rendered = NotRendered

Rendered(i) ==
  /\ checks[i].render \in {"passed", "failed", "error"}
  /\ checks[i].render = "passed" => tree[i] \in {"whole", "empty"}
Checked(i) ==
  /\ Rendered(i) /\ checks[i].schema \in {"passed", "failed", "error", "skipped", "-"}
  /\ checks[i].schema = "passed" => memo = "ok"
  /\ checks[i].schema \in {"skipped", "-"} => checks[i].render \in Failing \/ Excused(i, "schema")
Unjudged(i) == checks[i].schema = "-" /\ checks[i].policy = "-"
Judging ==
  /\ \A i \in Indices : i >= next => Unjudged(i) /\ checks[i].render = "-"
  /\ \A t \in Threads : at[t] \notin {"idle", "policy"} => Unjudged(row[t])
  /\ \A t \in Threads : at[t] \in {"schema", "schemas", "crds", "kubeconform"} \/ job[t].crd =>
       Rendered(row[t])
  /\ \A t \in Threads : at[t] = "kubeconform" => memo = "ok"
  /\ \A t \in Threads : at[t] = "policy" => Checked(row[t])
  /\ \A i \in Indices :
       answer[i] = "row" => Checked(i) \/ (checks[i].render \in {"-", "skipped"} /\ \E j \in Indices : FailedRow(j))

\* With --fail-fast the one row that is checked is the one that the main thread waits for.
Stopping ==
  failfast =>
    /\ \A t \in Threads : row[t] # 0 => row[t] = consumed + 1 /\ \A i \in Indices : ~FailedRow(i)
    /\ \A j \in Indices : j > consumed + 1 => checks[j].render = "-"
    /\ FailFastStops

ValidateIInv ==
  /\ RowTypes /\ CheckTypes /\ DepsTypes /\ JobTypes /\ CacheTypes
  /\ Rowing /\ Working /\ Settled /\ Printed /\ Judging /\ Stopping

-----------------------------------------------------------------------------
\* A step of a thread: it skips a row, takes one, answers its own, or goes on with it.
Skipping(t) ==
  /\ next \in Indices /\ next' = next + 1 /\ at[t] = "idle"
  /\ answer' = [answer EXCEPT ![next] = "row"]
  /\ UNCHANGED <<row, at>>
Taking(t) ==
  /\ next \in Indices /\ next' = next + 1 /\ at[t] = "idle"
  /\ row' = [row EXCEPT ![t] = next] /\ at' = [at EXCEPT ![t] = "values"]
  /\ UNCHANGED answer
Answering(t) ==
  /\ at[t] # "idle" /\ \E kind \in {"row", "spec", "raised"} : Answer(t, kind)
  /\ UNCHANGED next
GoingOn(t) ==
  /\ at[t] # "idle" /\ \E place \in Places \ {"idle"} : at' = [at EXCEPT ![t] = place]
  /\ UNCHANGED <<answer, row, next>>

LEMMA Moves ==
  ASSUME JobTypes, NEW t \in Threads, Checking(t)
  PROVE  /\ UNCHANGED <<consumed, raised, failfast, bytes>>
         /\ UNCHANGED <<asked, enabled>>
         /\ Skipping(t) \/ Taking(t) \/ Answering(t) \/ GoingOn(t)
<1> USE DEF GoOn, Continue, Places, choices
<1>1. CASE Take(t)
  BY <1>1 DEF Take, Skipping, Taking
<1>2. CASE Values(t)
  BY <1>2 DEF Values, Answering, GoingOn
<1>3. CASE LockDeps(t)
  BY <1>3 DEF LockDeps, GoingOn, results
<1>4. CASE UpdateDeps(t)
  BY <1>4 DEF UpdateDeps, RenderEnds, GoingOn
<1>5. CASE Template(t)
  BY <1>5 DEF Template, RenderEnds, GoingOn
<1>6. CASE Schema(t)
  BY <1>6 DEF Schema, GoingOn
<1>7. ASSUME at[t] # "idle", UNCHANGED <<consumed, raised, failfast, bytes, next>>,
             \E outcome : Remember(t, outcome)
      PROVE  Answering(t) \/ GoingOn(t)
  BY <1>7 DEF Remember, Answering, GoingOn
<1>8. CASE Schemas(t)
  BY <1>7, <1>8 DEF Schemas, TakePrints, GoingOn
<1>9. CASE NextProvider(t)
  BY <1>9 DEF NextProvider, GoingOn, results
<1>10. CASE PublishGeneration(t)
  BY <1>7, <1>10 DEF PublishGeneration
<1>11. CASE Conform(t)
  BY <1>11 DEF Conform, Answering, GoingOn
<1>12. CASE Policy(t)
  BY <1>12 DEF Policy, Answering
<1>13. CASE ToolMissing(t)
  BY <1>7, <1>13 DEF ToolMissing, Answering
<1>. QED
  BY <1>1, <1>2, <1>3, <1>4, <1>5, <1>6, <1>8, <1>9, <1>10, <1>11, <1>12, <1>13 DEF Checking

LEMMA RowsOfCharts == Len(Rows) \in Nat /\ \A i \in Indices : i \in Nat /\ ChartOf(i) \in Charts
BY ValidateAssumption, ElementOfSeq DEF Indices, ChartOf

LEMMA RowsStay ==
  ASSUME RowTypes, JobTypes, Rowing, NEW t \in Threads, Checking(t)
  PROVE  RowTypes' /\ Rowing'
<1>1. UNCHANGED <<consumed, raised>> /\ Len(Rows) \in Nat /\ Indices = 1 .. Len(Rows)
  BY Moves, RowsOfCharts DEF Indices
<1>2. CASE Skipping(t)
  BY <1>1, <1>2 DEF Skipping, RowTypes, Rowing
<1>3. CASE Taking(t)
  BY <1>1, <1>3 DEF Taking, RowTypes, Rowing, JobTypes
<1>4. CASE Answering(t)
  BY <1>1, <1>4 DEF Answering, Answer, GoOn, RowTypes, Rowing, JobTypes, None
<1>5. CASE GoingOn(t)
  BY <1>1, <1>5 DEF GoingOn, RowTypes, Rowing, JobTypes
<1>. QED
  BY <1>2, <1>3, <1>4, <1>5, Moves

-----------------------------------------------------------------------------
LEMMA CheckTypesStay ==
  ASSUME RowTypes, JobTypes, CheckTypes, Rowing, NEW t \in Threads, Checking(t)
  PROVE  CheckTypes'
<1>. Blank \in [{"render", "schema", "policy"} -> Statuses] /\ DOMAIN Blank = {"render", "schema", "policy"}
  BY DEF Blank, Statuses
<1>1. ASSUME at[t] # "idle" PROVE row[t] \in Indices
  BY <1>1, RowsOfCharts DEF RowTypes, Rowing, Indices
<1>2. ASSUME at[t] # "idle", NEW check \in {"render", "schema", "policy"}, NEW status \in Statuses,
             Set(t, check, status)
      PROVE  checks' \in [Indices -> [{"render", "schema", "policy"} -> Statuses]] /\ broke' \subseteq Indices
  BY <1>1, <1>2 DEF Set, CheckTypes
<1>3. ASSUME at[t] # "idle", NEW status \in Statuses, RenderEnds(t, status)
      PROVE  checks' \in [Indices -> [{"render", "schema", "policy"} -> Statuses]] /\ broke' \subseteq Indices
  BY <1>1, <1>2, <1>3 DEF RenderEnds, CheckTypes
<1>. failfast' = failfast
  BY Moves
<1>4. CASE Take(t)
  <2>1. tree' = tree /\ broke' = broke
    BY <1>4 DEF Take
  <2>2. CASE UNCHANGED checks
    BY <2>1, <2>2 DEF CheckTypes
  <2>3. CASE checks' = [checks EXCEPT ![next] = [k \in DOMAIN Blank |-> IF k \in asked THEN "skipped" ELSE "-"]]
    BY <2>1, <2>3 DEF CheckTypes, Statuses
  <2>. QED
    BY <1>4, <2>2, <2>3 DEF Take
<1>5. CASE Values(t)
  BY <1>1, <1>5 DEF Values, CheckTypes
<1>6. CASE LockDeps(t)
  BY <1>6 DEF LockDeps, results, CheckTypes
<1>7. CASE UpdateDeps(t)
  <2>1. tree' = tree /\ at[t] # "idle" /\ "error" \in Statuses
    BY <1>7 DEF UpdateDeps, Statuses
  <2>2. UNCHANGED <<checks, broke>> \/ RenderEnds(t, "error")
    BY <1>7 DEF UpdateDeps
  <2>. QED
    BY <1>3, <2>1, <2>2 DEF CheckTypes
<1>8. CASE Template(t)
  <2>1. at[t] # "idle" /\ {"passed", "failed", "error"} \subseteq Statuses
    BY <1>8 DEF Template, Statuses
  <2>2. \E status \in {"passed", "failed", "error"} : RenderEnds(t, status)
    BY <1>8 DEF Template
  <2>3. tree' \in [Indices -> {None, "part", "empty", "whole"}]
    BY <1>1, <1>8, <2>1 DEF Template, CheckTypes
  <2>. QED
    BY <1>3, <2>1, <2>2, <2>3 DEF CheckTypes
<1>9. CASE Schema(t)
  <2>1. tree' = tree /\ at[t] # "idle" /\ "skipped" \in Statuses
    BY <1>9 DEF Schema, Statuses
  <2>2. UNCHANGED <<checks, broke>> \/ Set(t, "schema", "skipped")
    BY <1>9 DEF Schema
  <2>. QED
    BY <1>2, <2>1, <2>2 DEF CheckTypes
<1>10. CASE Schemas(t) \/ NextProvider(t) \/ PublishGeneration(t) \/ ToolMissing(t)
  BY <1>10 DEF Schemas, NextProvider, PublishGeneration, ToolMissing, results, CheckTypes
<1>11. CASE Conform(t)
  <2>1. tree' = tree /\ at[t] # "idle" /\ {"passed", "failed", "error"} \subseteq Statuses
    BY <1>11 DEF Conform, Statuses
  <2>2. UNCHANGED <<checks, broke>> \/ \E status \in {"passed", "failed", "error"} : Set(t, "schema", status)
    BY <1>11 DEF Conform
  <2>. QED
    BY <1>2, <2>1, <2>2 DEF CheckTypes
<1>12. CASE Policy(t)
  <2>1. tree' = tree /\ at[t] # "idle" /\ {"passed", "failed", "skipped", "error"} \subseteq Statuses
    BY <1>12 DEF Policy, Statuses
  <2>2. \/ UNCHANGED <<checks, broke>>
        \/ \E status \in {"passed", "failed", "skipped", "error"} : Set(t, "policy", status)
        \/ checks' = [checks EXCEPT ![row[t]].policy = "passed"] /\ broke' = broke \union {row[t]}
    BY <1>12 DEF Policy, Kyverno
  <2>3. CASE checks' = [checks EXCEPT ![row[t]].policy = "passed"] /\ broke' = broke \union {row[t]}
    BY <1>1, <2>1, <2>3 DEF CheckTypes
  <2>. QED
    BY <1>2, <2>1, <2>2, <2>3 DEF CheckTypes
<1>. QED
  BY <1>4, <1>5, <1>6, <1>7, <1>8, <1>9, <1>10, <1>11, <1>12 DEF Checking

\* The dependencies: a lock is taken, or released, or a step concerns the rest.
LEMMA SettledStays ==
  ASSUME RowTypes, DepsTypes, JobTypes, Rowing, Working, Settled, NEW t \in Threads, Checking(t)
  PROVE  DepsTypes' /\ Settled'
<1>. None \notin Threads
  BY ValidateAssumption
<1>1. ASSUME UNCHANGED dependencies, at[t] # "updating", at'[t] \notin {"updating", "template"},
             \A u \in Threads : u # t => at'[u] = at[u] /\ job'[u] = job[u]
      PROVE  DepsTypes' /\ Settled'
  BY <1>1 DEF dependencies, DepsTypes, Settled
<1>2. CASE Take(t)
  BY <1>1, <1>2 DEF Take, GoOn, JobTypes
<1>3. CASE Values(t)
  BY <1>1, <1>3 DEF Values, Answer, Continue, GoOn, JobTypes
<1>4. CASE LockDeps(t)
  <2>1. PICK c \in Charts : c = job[t].chart
    BY <1>4 DEF LockDeps, Working
  <2>2. at[t] = "deps" /\ held[c] = None /\ UNCHANGED <<fresh, job>>
    BY <1>4, <2>1 DEF LockDeps
  <2>3. CASE fresh[c] /\ ready' = ready \union {c} /\ at' = [at EXCEPT ![t] = "template"] /\ held' = held
    <3>1. \A u \in Threads : u # t => at'[u] = at[u]
      BY <2>3 DEF JobTypes
    <3>2. at'[t] = "template"
      BY <2>3 DEF JobTypes
    <3>3. DepsTypes'
      BY <2>2, <2>3 DEF DepsTypes
    <3>. QED
      BY <2>1, <2>2, <2>3, <3>1, <3>2, <3>3 DEF DepsTypes, Settled
  <2>4. CASE ~fresh[c] /\ held' = [held EXCEPT ![c] = t] /\ at' = [at EXCEPT ![t] = "updating"]
       /\ ready' = ready
    <3>1. \A u \in Threads : u # t => at'[u] = at[u]
      BY <2>4 DEF JobTypes
    <3>2. at'[t] = "updating"
      BY <2>4 DEF JobTypes
    <3>3. DepsTypes' /\ held'[c] = t /\ \A d \in Charts : d # c => held'[d] = held[d]
      BY <2>2, <2>4 DEF DepsTypes
    <3>4. \A u \in Threads : at'[u] = "updating" => held'[job'[u].chart] = u
      BY <2>1, <2>2, <3>1, <3>3 DEF DepsTypes, Settled, Working
    <3>. QED
      BY <2>1, <2>2, <2>4, <3>1, <3>2, <3>3, <3>4 DEF DepsTypes, Settled
  <2>. QED
    BY <1>4, <2>1, <2>3, <2>4 DEF LockDeps, GoOn, Settled
<1>5. CASE UpdateDeps(t)
  <2>1. PICK c \in Charts : c = job[t].chart
    BY <1>5 DEF UpdateDeps, Working
  <2>2. at[t] = "updating" /\ held' = [held EXCEPT ![c] = None] /\ job' = job
    BY <1>5, <2>1 DEF UpdateDeps
  <2>3. PICK place \in {"template", "crds", "schema"} : at' = [at EXCEPT ![t] = place]
    BY <1>5 DEF UpdateDeps, RenderEnds, GoOn
  <2>4. at'[t] = place /\ \A u \in Threads : u # t => at'[u] = at[u]
    BY <2>3 DEF JobTypes
  <2>5. held'[c] = None /\ \A d \in Charts : d # c => held'[d] = held[d]
    BY <2>2 DEF DepsTypes
  <2>6. \A u \in Threads : at'[u] = "updating" => held'[job'[u].chart] = u
    BY <2>1, <2>2, <2>4, <2>5 DEF Settled, Working
  <2>7. \A d \in Charts : held'[d] # None => at'[held'[d]] = "updating" /\ job'[held'[d]].chart = d
       /\ ~fresh[d] /\ d # c
    BY <2>1, <2>2, <2>4, <2>5 DEF Settled, DepsTypes
  <2>8. CASE fresh' = [fresh EXCEPT ![c] = TRUE] /\ ready' = ready \union {c}
    <3>1. fresh'[c] /\ \A d \in Charts : d # c => fresh'[d] = fresh[d]
      BY <2>8 DEF DepsTypes
    <3>2. DepsTypes'
      BY <2>2, <2>8 DEF DepsTypes
    <3>3. \A u \in Threads : at'[u] = "template" => fresh'[job'[u].chart]
      BY <2>1, <2>2, <2>4, <3>1 DEF Settled, Working
    <3>. QED
      BY <2>6, <2>7, <2>8, <3>1, <3>2, <3>3 DEF Settled, DepsTypes
  <2>9. CASE UNCHANGED <<fresh, ready>> /\ place # "template"
    <3>1. DepsTypes'
      BY <2>2, <2>9 DEF DepsTypes
    <3>. QED
      BY <2>2, <2>4, <2>6, <2>7, <2>9, <3>1 DEF Settled
  <2>. QED
    BY <1>5, <2>1, <2>3, <2>8, <2>9 DEF UpdateDeps, RenderEnds, GoOn, JobTypes
<1>6. CASE Template(t)
  BY <1>1, <1>6 DEF Template, RenderEnds, GoOn, JobTypes
<1>7. CASE Schema(t)
  BY <1>1, <1>7 DEF Schema, GoOn, JobTypes
<1>8. ASSUME UNCHANGED dependencies, at[t] # "updating", \E outcome : Remember(t, outcome)
      PROVE  DepsTypes' /\ Settled'
  BY <1>1, <1>8 DEF Remember, Answer, GoOn, JobTypes
<1>9. CASE Schemas(t)
  BY <1>1, <1>8, <1>9 DEF Schemas, TakePrints, Continue, GoOn, JobTypes
<1>10. CASE NextProvider(t)
  BY <1>1, <1>10 DEF NextProvider, GoOn, JobTypes
<1>11. CASE PublishGeneration(t)
  BY <1>8, <1>11 DEF PublishGeneration
<1>12. CASE Conform(t)
  BY <1>1, <1>12 DEF Conform, Answer, Continue, GoOn, JobTypes
<1>13. CASE Policy(t)
  BY <1>1, <1>13 DEF Policy, Answer, Continue, GoOn, JobTypes
<1>14. CASE ToolMissing(t)
  <2>1. /\ held' = [c \in Charts |-> IF held[c] = t THEN None ELSE held[c]]
        /\ UNCHANGED <<fresh, ready>>
    BY <1>14 DEF ToolMissing
  <2>2. /\ at'[t] \notin {"updating", "template"}
        /\ \A u \in Threads : u # t => at'[u] = at[u] /\ job'[u] = job[u]
    BY <1>14 DEF ToolMissing, Remember, Answer, GoOn, JobTypes
  <2>3. DepsTypes'
    BY <2>1 DEF DepsTypes
  <2>4. \A d \in Charts : held'[d] # None => held'[d] = held[d] /\ held[d] # t
    BY <2>1 DEF DepsTypes
  <2>5. ASSUME NEW u \in Threads, at'[u] = "updating" PROVE held'[job'[u].chart] = u
    <3>1. u # t /\ at[u] = "updating" /\ job'[u] = job[u]
      BY <2>2, <2>5
    <3>2. held[job[u].chart] = u /\ job[u].chart \in Charts
      BY <3>1 DEF Settled, Working
    <3>. QED
      BY <2>1, <3>1, <3>2
  <2>6. \A d \in Charts : held'[d] # None => at'[held'[d]] = "updating" /\ job'[held'[d]].chart = d
       /\ ~fresh'[d]
    BY <2>1, <2>2, <2>4 DEF Settled, DepsTypes
  <2>. QED
    BY <2>1, <2>2, <2>3, <2>5, <2>6 DEF Settled
<1>. QED
  BY <1>2, <1>3, <1>4, <1>5, <1>6, <1>7, <1>9, <1>10, <1>11, <1>12, <1>13, <1>14 DEF Checking

\* Nobody but the thread itself moves it.
Alone(t) == \A u \in Threads : u # t => at'[u] = at[u] /\ job'[u] = job[u] /\ row'[u] = row[u]

LEMMA AloneMoves == ASSUME RowTypes, JobTypes, NEW t \in Threads, Checking(t) PROVE Alone(t)
<1> USE DEF GoOn, Continue, Answer, JobTypes, RowTypes, Alone
<1>1. CASE Take(t)
  BY <1>1 DEF Take
<1>2. CASE Values(t)
  BY <1>2 DEF Values
<1>3. CASE LockDeps(t)
  BY <1>3 DEF LockDeps
<1>4. CASE UpdateDeps(t)
  BY <1>4 DEF UpdateDeps, RenderEnds
<1>5. CASE Template(t)
  BY <1>5 DEF Template, RenderEnds
<1>6. CASE Schema(t)
  BY <1>6 DEF Schema
<1>7. ASSUME NEW outcome, Remember(t, outcome) PROVE Alone(t)
  BY <1>7 DEF Remember
<1>8. CASE Schemas(t)
  BY <1>7, <1>8 DEF Schemas, TakePrints
<1>9. CASE NextProvider(t)
  BY <1>9 DEF NextProvider
<1>10. CASE PublishGeneration(t)
  BY <1>7, <1>10 DEF PublishGeneration
<1>11. CASE Conform(t)
  BY <1>11 DEF Conform
<1>12. CASE Policy(t)
  BY <1>12 DEF Policy
<1>13. CASE ToolMissing(t)
  BY <1>7, <1>13 DEF ToolMissing
<1>. QED
  BY <1>1, <1>2, <1>3, <1>4, <1>5, <1>6, <1>8, <1>9, <1>10, <1>11, <1>12, <1>13 DEF Checking

\* What is left to show of a thread whose neighbours stay.
LEMMA WorkingOf ==
  ASSUME JobTypes', Working, NEW t \in Threads, Alone(t),
         \A u \in Threads : u # t => (loader' = u <=> loader = u),
         loader # t => memo' = memo,
         at'[t] # "idle" => job'[t].chart \in Charts,
         job'[t].crd => job'[t].chart \in Providers /\ at'[t] \in {"deps", "updating", "template", "crds"},
         loader' = t <=> (at'[t] \in {"schemas", "crds"} \/ job'[t].crd),
         loader' = t /\ at'[t] # "schemas" => memo' = None
  PROVE  Working'
<1>1. ASSUME NEW u \in Threads, u # t PROVE loader' = u /\ at'[u] # "schemas" => memo' = None
  BY <1>1 DEF Working, Alone
<1>. QED
  BY <1>1 DEF Working, Alone, Loads

LEMMA WorkingStays ==
  ASSUME RowTypes, JobTypes, Rowing, Working, NEW t \in Threads, Checking(t)
  PROVE  JobTypes' /\ Working'
<1>. Alone(t) /\ None \notin Threads /\ Providers \subseteq Charts
  BY AloneMoves, ValidateAssumption
<1>0. at[t] # "idle" => row[t] \in Indices /\ ChartOf(row[t]) \in Charts
  BY RowsOfCharts DEF RowTypes, Rowing, Indices
<1>1. CASE Take(t)
  <2>1. ChartOf(next) \in Charts /\ UNCHANGED <<loader, memo>> /\ at[t] = "idle"
    BY <1>1, RowsOfCharts DEF Take, loading
  <2>2. CASE UNCHANGED <<row, job, at>>
    BY <2>1, <2>2 DEF JobTypes, Working, Loads
  <2>3. CASE job' = [job EXCEPT ![t] = [chart |-> ChartOf(next), crd |-> FALSE]] /\ GoOn(t, "values")
    <3>1. job'[t] = [chart |-> ChartOf(next), crd |-> FALSE] /\ at'[t] = "values"
      BY <2>3 DEF GoOn, JobTypes
    <3>2. JobTypes'
      BY <2>1, <2>3 DEF GoOn, JobTypes, Places
    <3>3. loader # t
      BY <2>1 DEF Working, Loads
    <3>. QED
      BY <2>1, <3>1, <3>2, <3>3, WorkingOf
  <2>. QED
    BY <1>1, <2>2, <2>3 DEF Take
\* The row goes on, or is answered, and the loader is who it was.
<1>2. ASSUME at[t] \in {"values", "schema", "kubeconform", "policy"}, UNCHANGED <<loader, memo>>,
             \/ UNCHANGED job /\ \E place \in {"deps", "policy", "schema"} : at' = [at EXCEPT ![t] = place]
             \/ \E kind \in {"row", "spec", "raised"} : Answer(t, kind)
      PROVE  JobTypes' /\ Working'
  <2>1. loader # t /\ ~job[t].crd
    BY <1>2 DEF Working, Loads
  <2>2. CASE UNCHANGED job /\ \E place \in {"deps", "policy", "schema"} : at' = [at EXCEPT ![t] = place]
    <3>1. JobTypes' /\ at'[t] \in {"deps", "policy", "schema"}
      BY <1>2, <2>2 DEF JobTypes, Places
    <3>. QED
      BY <1>2, <2>1, <2>2, <3>1, WorkingOf DEF Working
  <2>3. CASE \E kind \in {"row", "spec", "raised"} : Answer(t, kind)
    <3>1. JobTypes' /\ at'[t] = "idle" /\ job'[t] = NoJob
      BY <1>2, <2>3 DEF JobTypes, Places, Answer, GoOn, NoJob
    <3>. QED
      BY <1>2, <2>1, <3>1, WorkingOf DEF NoJob
  <2>. QED
    BY <1>2, <2>2, <2>3
<1>3. CASE Values(t)
  BY <1>2, <1>3 DEF Values, Continue, GoOn, loading
\* A render goes on.
<1>4. ASSUME at[t] \in {"deps", "updating", "template"}, UNCHANGED <<loader, memo, job>>,
             \E place \in {"updating", "template", IF job[t].crd THEN "crds" ELSE "schema"} :
               at' = [at EXCEPT ![t] = place]
      PROVE  JobTypes' /\ Working'
  <2>1. JobTypes' /\ at'[t] \in {"updating", "template", IF job[t].crd THEN "crds" ELSE "schema"}
    BY <1>4 DEF JobTypes, Places
  <2>2. loader = t <=> job[t].crd
    BY <1>4 DEF Working, Loads
  <2>. QED
    BY <1>4, <2>1, <2>2, WorkingOf DEF Working
<1>5. CASE LockDeps(t)
  BY <1>4, <1>5 DEF LockDeps, GoOn, loading
<1>6. CASE UpdateDeps(t)
  BY <1>4, <1>6 DEF UpdateDeps, RenderEnds, GoOn
<1>7. CASE Template(t)
  BY <1>4, <1>7 DEF Template, RenderEnds, GoOn
<1>8. CASE Schema(t)
  <2>1. CASE UNCHANGED loader
    BY <1>2, <1>8, <2>1 DEF Schema, GoOn
  <2>2. CASE loader = None /\ loader' = t /\ GoOn(t, "schemas") /\ UNCHANGED <<memo, job>>
    <3>1. JobTypes' /\ at'[t] = "schemas" /\ ~job[t].crd
      BY <1>8, <2>2 DEF Schema, JobTypes, Places, GoOn, Working
    <3>. QED
      BY <1>8, <2>2, <3>1, WorkingOf DEF Schema, Working
  <2>. QED
    BY <1>8, <2>1, <2>2 DEF Schema
\* The loader is done.
<1>9. ASSUME NEW outcome \in {"ok", "error"}, Loads(t), at[t] # "idle", Remember(t, outcome)
      PROVE  JobTypes' /\ Working'
  <2>1. loader = t /\ memo' = outcome /\ loader' = None
    BY <1>9 DEF Working, Remember
  <2>2. CASE outcome = "ok"
    <3>1. job' = [job EXCEPT ![t] = [chart |-> ChartOf(row[t]), crd |-> FALSE]] /\ GoOn(t, "kubeconform")
      BY <1>9, <2>2 DEF Remember
    <3>2. JobTypes' /\ at'[t] = "kubeconform" /\ job'[t] = [chart |-> ChartOf(row[t]), crd |-> FALSE]
      BY <1>0, <1>9, <2>1, <3>1 DEF JobTypes, Places, GoOn
    <3>. QED
      BY <1>0, <1>9, <2>1, <3>2, WorkingOf
  <2>3. CASE outcome # "ok"
    <3>1. job' = [job EXCEPT ![t] = NoJob] /\ at' = [at EXCEPT ![t] = "idle"]
      BY <1>9, <2>3 DEF Answer, GoOn, Remember
    <3>2. JobTypes' /\ at'[t] = "idle" /\ job'[t] = NoJob
      BY <2>1, <3>1 DEF JobTypes, Places, NoJob
    <3>. QED
      BY <2>1, <3>2, WorkingOf DEF NoJob
  <2>. QED
    BY <2>2, <2>3
<1>10. CASE Schemas(t)
  <2>1. CASE memo # None /\ Remember(t, memo)
    BY <1>9, <1>10, <2>1 DEF Schemas, Loads, JobTypes
  <2>2. CASE Remember(t, "error")
    BY <1>9, <1>10, <2>2 DEF Schemas, Loads
  <2>3. CASE memo = None /\ TakePrints(t)
    <3>1. JobTypes' /\ at'[t] = "crds" /\ UNCHANGED <<loader, memo, job>> /\ at[t] = "schemas"
      BY <1>10, <2>3 DEF Schemas, TakePrints, Continue, GoOn, JobTypes, Places
    <3>. QED
      BY <2>3, <3>1, WorkingOf DEF Working, Loads
  <2>. QED
    BY <1>10, <2>1, <2>2, <2>3 DEF Schemas
<1>11. CASE NextProvider(t)
  <2>1. PICK c \in Providers : job' = [job EXCEPT ![t] = [chart |-> c, crd |-> TRUE]]
    BY <1>11 DEF NextProvider
  <2>2. at[t] = "crds" /\ UNCHANGED <<loader, memo>> /\ GoOn(t, "deps")
    BY <1>11 DEF NextProvider, loading
  <2>3. JobTypes' /\ at'[t] = "deps" /\ job'[t] = [chart |-> c, crd |-> TRUE]
    BY <2>1, <2>2 DEF JobTypes, Places, GoOn
  <2>. QED
    BY <2>2, <2>3, WorkingOf DEF Working, Loads
<1>12. CASE PublishGeneration(t)
  BY <1>9, <1>12 DEF PublishGeneration, Loads
<1>13. CASE Conform(t)
  BY <1>2, <1>13 DEF Conform, Continue, GoOn, loading
<1>14. CASE Policy(t)
  BY <1>2, <1>14 DEF Policy, loading
<1>15. CASE ToolMissing(t)
  <2>1. CASE loader = t
    BY <1>9, <1>15, <2>1 DEF ToolMissing, Working
  <2>2. CASE loader # t
    <3>1. Answer(t, "raised") /\ UNCHANGED <<loader, memo>>
      BY <1>15, <2>2 DEF ToolMissing
    <3>2. JobTypes' /\ at'[t] = "idle" /\ job'[t] = NoJob
      BY <3>1 DEF JobTypes, Places, Answer, GoOn, NoJob
    <3>. QED
      BY <2>2, <3>1, <3>2, WorkingOf DEF NoJob
  <2>. QED
    BY <2>1, <2>2
<1>. QED
  BY <1>1, <1>3, <1>5, <1>6, <1>7, <1>8, <1>10, <1>11, <1>12, <1>13, <1>14, <1>15 DEF Checking

\* _schemas: what the first loading came to stays.
LEMMA MemoStays ==
  ASSUME JobTypes, Working, NEW t \in Threads, Checking(t), memo # None
  PROVE  memo' = memo
<1>2. CASE Take(t) \/ Values(t) \/ LockDeps(t) \/ NextProvider(t) \/ Conform(t) \/ Policy(t)
  BY <1>2 DEF Take, Values, LockDeps, NextProvider, Conform, Policy, loading
<1>3. CASE UpdateDeps(t) \/ Template(t) \/ Schema(t)
  BY <1>3 DEF UpdateDeps, Template, Schema
<1>4. CASE Schemas(t)
  BY <1>4 DEF Schemas, Remember
<1>5. CASE PublishGeneration(t)
  BY <1>5 DEF PublishGeneration, Working, Loads
<1>6. CASE ToolMissing(t)
  BY <1>6 DEF ToolMissing, Working
<1>. QED
  BY <1>2, <1>3, <1>4, <1>5, <1>6 DEF Checking

\* Whoever is not the loader leaves alone what was rendered for the schemas.
LEMMA PrintedOf ==
  ASSUME CacheTypes, JobTypes, Printed, NEW t \in Threads, Alone(t),
         UNCHANGED <<bytes, cache, print, rendered>>,
         \/ loader' = loader /\ (at'[t] = "schemas" => at[t] = "schemas")
         \/ loader = None
  PROVE  CacheTypes' /\ Printed'
<1>1. CacheTypes'
  BY DEF CacheTypes, Ends
<1>2. loader' = None \/ at'[loader'] = "schemas" => rendered' = NotRendered
  BY DEF Printed, JobTypes, Alone, NotRendered
<1>3. CacheIsTrue'
  BY DEF Printed, CacheIsTrue
<1>. QED
  BY <1>1, <1>2, <1>3 DEF Printed, Unknown

LEMMA PrintedStays ==
  ASSUME RowTypes, DepsTypes, JobTypes, CacheTypes, Working, Printed, NEW t \in Threads, Checking(t)
  PROVE  CacheTypes' /\ Printed'
<1>. Alone(t) /\ None \notin Threads /\ Providers \subseteq Charts /\ MaxChanges \in Nat /\ UNCHANGED bytes
  BY AloneMoves, Moves, ValidateAssumption
<1>1. CASE Take(t) \/ Values(t) \/ LockDeps(t) \/ NextProvider(t) \/ Conform(t) \/ Policy(t)
  <2>1. UNCHANGED <<cache, print, rendered, loader>>
    BY <1>1 DEF Take, Values, LockDeps, NextProvider, Conform, Policy, loading
  <2>2. at'[t] # "schemas" \/ at'[t] = at[t]
    BY <1>1 DEF Take, Values, LockDeps, NextProvider, Conform, Policy, Answer, Continue, GoOn, JobTypes
  <2>. QED
    BY <2>1, <2>2, PrintedOf
<1>2. CASE Schema(t)
  BY <1>2, PrintedOf DEF Schema, GoOn, JobTypes
\* What is rendered is no older than the fingerprints.
<1>3. ASSUME UpdateDeps(t) \/ Template(t), NEW status \in {"passed", "failed", "error"}, RenderEnds(t, status)
      PROVE  CacheTypes' /\ Printed'
  <2>1. UNCHANGED <<cache, print, loader>> /\ at[t] \in {"updating", "template"}
    BY <1>3 DEF UpdateDeps, Template
  <2>2. at'[t] \in {"crds", "schema"}
    BY <1>3 DEF RenderEnds, GoOn, JobTypes
  <2>3. CASE ~job[t].crd
    BY <1>3, <2>1, <2>2, <2>3, PrintedOf DEF RenderEnds
  <2>4. CASE job[t].crd
    <3>1. PICK c \in Providers : c = job[t].chart
      BY <2>4 DEF Working
    <3>2. rendered' = [rendered EXCEPT ![c] = [status |-> status, bytes |-> bytes[c]]]
      BY <1>3, <2>4, <3>1 DEF RenderEnds
    <3>3. bytes[c] \in Nat /\ status \in Ends /\ status # None
      BY <3>1 DEF CacheTypes, Ends, None
    <3>4. CacheTypes'
      BY <2>1, <3>2, <3>3 DEF CacheTypes, Ends
    <3>5. rendered'[c] = [status |-> status, bytes |-> bytes[c]]
         /\ \A d \in Providers : d # c => rendered'[d] = rendered[d]
      BY <3>2, <3>3 DEF CacheTypes
    <3>6. rendered'[c].bytes = bytes[c]
      BY <3>5
    <3>7. ASSUME NEW d \in Providers, rendered'[d].status # None
          PROVE  print'[d].authored <= rendered'[d].bytes /\ rendered'[d].bytes <= bytes'[d]
      <4>1. CASE d = c
        BY <2>1, <3>6, <3>3, <4>1 DEF Printed
      <4>2. CASE d # c
        BY <2>1, <3>5, <3>7, <4>2 DEF Printed
      <4>. QED
        BY <4>1, <4>2
    <3>8. loader' = t
      BY <2>1, <2>4 DEF Working, Loads
    <3>9. CacheIsTrue'
      BY <2>1 DEF Printed, CacheIsTrue
    <3>. QED
      BY <2>1, <2>2, <3>4, <3>7, <3>8, <3>9 DEF Printed, Unknown
  <2>. QED
    BY <2>3, <2>4
<1>4. CASE UpdateDeps(t)
  <2>1. CASE RenderEnds(t, "error")
    BY <1>3, <1>4, <2>1
  <2>2. CASE GoOn(t, "template") /\ UNCHANGED rendered
    BY <1>4, <2>2, PrintedOf DEF UpdateDeps, GoOn, JobTypes
  <2>. QED
    BY <1>4, <2>1, <2>2 DEF UpdateDeps
<1>5. CASE Template(t)
  BY <1>3, <1>5 DEF Template
<1>6. ASSUME NEW outcome, Remember(t, outcome), CacheIsTrue' PROVE CacheTypes' /\ Printed'
  <2>1. print' = NoPrint /\ rendered' = NotRendered
    BY <1>6 DEF Remember
  <2>2. CacheTypes'
    BY <2>1 DEF CacheTypes, NoPrint, NotRendered, Unknown, Ends
  <2>3. \A c \in Providers : print'[c] = [full |-> Unknown, authored |-> 0] /\ rendered'[c].status = None
    BY <2>1 DEF NoPrint, NotRendered
  <2>4. \A c \in Providers : print'[c].full = Unknown /\ print'[c].authored = 0 /\ 0 <= bytes'[c]
    BY <2>3 DEF CacheTypes
  <2>. QED
    BY <1>6, <2>1, <2>2, <2>3, <2>4 DEF Printed, NotRendered, Unknown
<1>7. CASE Schemas(t)
  <2>1. CacheIsTrue'
    BY <1>7 DEF Schemas, Printed, CacheIsTrue
  <2>2. CASE \E outcome : Remember(t, outcome)
    BY <1>6, <2>1, <2>2
  <2>3. CASE TakePrints(t)
    <3>1. print' = [c \in Providers |-> [full |-> Fingerprint(c), authored |-> bytes[c]]]
      BY <2>3 DEF TakePrints
    <3>2. UNCHANGED <<loader, rendered>> /\ at'[t] = "crds"
      BY <2>3 DEF TakePrints, Continue, GoOn, JobTypes
    <3>3. loader = t /\ rendered = NotRendered
      BY <1>7 DEF Schemas, Working, Loads, Printed
    <3>4. \A c \in Providers : Fingerprint(c) \in {Unknown, bytes[c]} /\ Fingerprint(c) \in Nat
         /\ bytes[c] \in Nat
      BY DEF Fingerprint, CacheTypes, DepsTypes, Unknown
    <3>5. CacheTypes'
      BY <3>1, <3>2, <3>4 DEF CacheTypes
    <3>6. \A c \in Providers : print'[c].full = Fingerprint(c) /\ print'[c].authored = bytes[c]
         /\ rendered'[c].status = None
      BY <3>1, <3>2, <3>3 DEF NotRendered
    <3>. QED
      BY <2>1, <3>2, <3>3, <3>4, <3>5, <3>6 DEF Printed, Unknown
  <2>. QED
    BY <1>7, <2>2, <2>3 DEF Schemas
\* A chart that is stable now has not changed since the fingerprints were taken.
<1>8. CASE PublishGeneration(t)
  <2>1. cache' = cache \union {[chart |-> c, print |-> Fingerprint(c), bytes |-> rendered[c].bytes] :
                               c \in {p \in Providers : Stable(p)}}
    BY <1>8 DEF PublishGeneration
  <2>2. ASSUME NEW c \in Providers, Stable(c) PROVE Fingerprint(c) = rendered[c].bytes
    <3>1. rendered[c].status # None /\ Fingerprint(c) # Unknown
      BY <2>2 DEF Stable, None
    <3>2. Fingerprint(c) = bytes[c]
      BY <3>1 DEF Fingerprint
    <3>3. print[c].authored = bytes[c]
      BY <2>2, <3>2 DEF Stable, Printed
    <3>4. rendered[c].bytes \in Nat /\ bytes[c] \in Nat
      BY DEF CacheTypes
    <3>. QED
      BY <3>1, <3>2, <3>3, <3>4 DEF Printed
  <2>3. CacheIsTrue'
    <3>. SUFFICES ASSUME NEW e \in cache' PROVE e.print = e.bytes
      BY DEF CacheIsTrue
    <3>1. CASE e \in cache
      BY <3>1 DEF Printed, CacheIsTrue
    <3>2. CASE e \notin cache
      <4>1. PICK c \in Providers : Stable(c)
           /\ e = [chart |-> c, print |-> Fingerprint(c), bytes |-> rendered[c].bytes]
        BY <2>1, <3>2
      <4>. QED
        BY <2>2, <4>1
    <3>. QED
      BY <3>1, <3>2
  <2>. QED
    BY <1>6, <1>8, <2>3 DEF PublishGeneration
<1>9. CASE ToolMissing(t)
  <2>1. CacheIsTrue' /\ cache' = cache
    BY <1>9 DEF ToolMissing, Printed, CacheIsTrue
  <2>2. CASE Remember(t, "error")
    BY <1>6, <2>1, <2>2
  <2>3. CASE Answer(t, "raised") /\ UNCHANGED <<memo, loader, print, rendered>>
    BY <2>1, <2>3, PrintedOf DEF Answer, GoOn, JobTypes
  <2>. QED
    BY <1>9, <2>2, <2>3 DEF ToolMissing
<1>. QED
  BY <1>1, <1>2, <1>4, <1>5, <1>7, <1>8, <1>9 DEF Checking

\* A thread changes what is known of its own row, or of the one that it skips.
LEMMA OwnRow ==
  ASSUME RowTypes, JobTypes, CheckTypes, Rowing, NEW t \in Threads, Checking(t),
         NEW i \in Indices, IF at[t] = "idle" THEN i # next ELSE i # row[t]
  PROVE  checks'[i] = checks[i] /\ tree'[i] = tree[i] /\ answer'[i] = answer[i]
<1> USE DEF Continue, GoOn, Answer, CheckTypes, RowTypes
<1>1. CASE Take(t)
  BY <1>1 DEF Take
<1>2. CASE Values(t)
  BY <1>2 DEF Values
<1>3. CASE LockDeps(t) \/ NextProvider(t)
  BY <1>3 DEF LockDeps, NextProvider, results
<1>4. ASSUME NEW status, RenderEnds(t, status), at[t] # "idle" PROVE checks'[i] = checks[i]
  BY <1>4 DEF RenderEnds, Set
<1>5. CASE UpdateDeps(t)
  BY <1>4, <1>5 DEF UpdateDeps
<1>6. CASE Template(t)
  BY <1>4, <1>6 DEF Template
<1>7. CASE Schema(t)
  BY <1>7 DEF Schema, Set
<1>8. ASSUME NEW outcome, Remember(t, outcome), at[t] # "idle" PROVE answer'[i] = answer[i]
  BY <1>8 DEF Remember
<1>9. CASE Schemas(t)
  BY <1>8, <1>9 DEF Schemas, TakePrints
<1>10. CASE PublishGeneration(t)
  BY <1>8, <1>10 DEF PublishGeneration
<1>11. CASE Conform(t)
  BY <1>11 DEF Conform, Set
<1>12. CASE Policy(t)
  BY <1>12 DEF Policy, Kyverno, Set
<1>13. CASE ToolMissing(t)
  BY <1>8, <1>13 DEF ToolMissing
<1>. QED
  BY <1>1, <1>2, <1>3, <1>5, <1>6, <1>7, <1>9, <1>10, <1>11, <1>12, <1>13 DEF Checking

\* A row that has failed stays failed.
LEMMA FailedStays ==
  ASSUME RowTypes, JobTypes, CheckTypes, Rowing, NEW t \in Threads, Checking(t),
         NEW i \in Indices, FailedRow(i)
  PROVE  FailedRow(i)'
<1>1. answer[i] # None /\ i < next /\ i \in Nat
  BY RowsOfCharts DEF FailedRow, Rowing, None, RowTypes, Indices
<1>2. at[t] # "idle" => i # row[t]
  BY <1>1 DEF Rowing
<1>3. checks'[i] = checks[i] /\ answer'[i] = answer[i]
  BY <1>1, <1>2, OwnRow
<1>. QED
  BY <1>3 DEF FailedRow

\* What is left to show of the row that a thread works on.
LEMMA JudgingOf ==
  ASSUME RowTypes, JobTypes, CheckTypes, Rowing, Working, Judging,
         NEW t \in Threads, Checking(t), at[t] # "idle", NEW i \in Indices, i = row[t],
         at'[t] \in {"schema", "schemas", "crds", "kubeconform"} \/ job'[t].crd => Rendered(i)',
         at'[t] \notin {"idle", "policy"} => Unjudged(i)',
         at'[t] = "kubeconform" => memo' = "ok",
         at'[t] = "policy" => Checked(i)',
         answer'[i] = "row" => Checked(i)'
  PROVE  Judging'
<1>1. next' = next /\ Alone(t) /\ (row'[t] = i \/ (at'[t] = "idle" /\ ~job'[t].crd))
  <2>1. Answering(t) \/ GoingOn(t)
    BY Moves DEF Skipping, Taking
  <2>. QED
    BY <2>1, AloneMoves DEF Answering, GoingOn, Answer, GoOn, JobTypes, RowTypes, NoJob
<1>2. \A j \in Indices : j # i => checks'[j] = checks[j] /\ tree'[j] = tree[j] /\ answer'[j] = answer[j]
  BY OwnRow
<1>3. (memo = "ok" => memo' = "ok") /\ UNCHANGED <<asked, enabled>>
  BY MemoStays, Moves DEF None
<1>4. ASSUME NEW u \in Threads, u # t, at[u] # "idle"
      PROVE  row[u] \in Indices /\ row[u] # i /\ row'[u] = row[u]
  BY <1>1, <1>4 DEF Rowing, RowTypes, Indices, Alone
<1>5. \A j \in Indices : j >= next' => Unjudged(j)' /\ checks'[j].render = "-"
  BY <1>1, <1>2 DEF Judging, Rowing, RowTypes, Indices, Unjudged
<1>10. ASSUME NEW u \in Threads, at'[u] \notin {"idle", "policy"} PROVE Unjudged(row[u])'
  <2>1. CASE u = t
    BY <1>1, <1>10, <2>1 DEF Unjudged
  <2>2. CASE u # t
    <3>1. Unjudged(row[u]) /\ at[u] # "idle"
      BY <1>1, <1>10, <2>2 DEF Alone, Judging
    <3>2. PICK j \in Indices : j = row[u] /\ j # i /\ row'[u] = j
      BY <1>4, <2>2, <3>1
    <3>. QED
      BY <1>2, <3>1, <3>2 DEF Unjudged
  <2>. QED
    BY <2>1, <2>2
<1>6. ASSUME NEW u \in Threads, at'[u] \in {"schema", "schemas", "crds", "kubeconform"} \/ job'[u].crd
      PROVE  Rendered(row[u])'
  <2>1. CASE u = t
    BY <1>1, <1>6, <2>1 DEF Rendered
  <2>2. CASE u # t
    <3>1. at[u] \in {"schema", "schemas", "crds", "kubeconform"} \/ job[u].crd
      BY <1>1, <1>6, <2>2 DEF Alone
    <3>2. Rendered(row[u]) /\ at[u] # "idle"
      BY <3>1 DEF Judging, Working
    <3>3. PICK j \in Indices : j = row[u] /\ j # i /\ row'[u] = j
      BY <1>4, <2>2, <3>2
    <3>. QED
      BY <1>2, <3>2, <3>3 DEF Rendered
  <2>. QED
    BY <2>1, <2>2
<1>7. ASSUME NEW u \in Threads, at'[u] = "kubeconform" PROVE memo' = "ok"
  BY <1>1, <1>3, <1>7 DEF Alone, Judging
<1>8. ASSUME NEW u \in Threads, at'[u] = "policy" PROVE Checked(row[u])'
  <2>1. CASE u = t
    BY <1>1, <1>8, <2>1 DEF Checked, Rendered, Excused
  <2>2. CASE u # t
    <3>1. Checked(row[u]) /\ at[u] # "idle"
      BY <1>1, <1>8, <2>2 DEF Alone, Judging
    <3>2. PICK j \in Indices : j = row[u] /\ j # i /\ row'[u] = j
      BY <1>4, <2>2, <3>1
    <3>. QED
      BY <1>2, <1>3, <3>1, <3>2 DEF Checked, Rendered, Excused
  <2>. QED
    BY <2>1, <2>2
<1>9. ASSUME NEW j \in Indices, answer'[j] = "row"
      PROVE  Checked(j)' \/ (checks'[j].render \in {"-", "skipped"} /\ \E k \in Indices : FailedRow(k)')
  <2>1. CASE j = i
    BY <1>9, <2>1
  <2>2. CASE j # i
    <3>1. checks'[j] = checks[j] /\ tree'[j] = tree[j] /\ answer[j] = "row"
      BY <1>2, <1>9, <2>2
    <3>2. CASE Checked(j)
      BY <1>3, <3>1, <3>2 DEF Checked, Rendered, Excused
    <3>3. CASE checks[j].render \in {"-", "skipped"} /\ \E k \in Indices : FailedRow(k)
      BY <3>1, <3>3, FailedStays
    <3>. QED
      BY <3>1, <3>2, <3>3 DEF Judging
  <2>. QED
    BY <2>1, <2>2
<1>. QED
  BY <1>5, <1>6, <1>7, <1>8, <1>9, <1>10 DEF Judging, Indices

LEMMA JudgingStays ==
  ASSUME RowTypes, JobTypes, CheckTypes, Rowing, Working, Judging, NEW t \in Threads, Checking(t)
  PROVE  Judging'
<1>0. ASSUME at[t] # "idle" PROVE row[t] \in Indices
  BY <1>0, RowsOfCharts DEF RowTypes, Rowing, Indices
<1>1. CASE Take(t)
  <2>1. at[t] = "idle" /\ next \in Indices /\ next' = next + 1 /\ UNCHANGED <<memo, tree, asked, enabled>>
    BY <1>1 DEF Take, loading, choices
  <2>2. \A j \in Indices : j # next => checks'[j] = checks[j] /\ tree'[j] = tree[j] /\ answer'[j] = answer[j]
    BY <2>1, OwnRow
  <2>3. \A u \in Threads : at[u] # "idle" => row[u] \in Indices /\ row[u] # next /\ u # t
    BY <2>1 DEF Rowing, RowTypes, Indices
  <2>4. \A u \in Threads : u # t => at'[u] = at[u] /\ job'[u] = job[u] /\ row'[u] = row[u]
    BY AloneMoves DEF Alone
  <2>5. \A j \in Indices : j >= next' => Unjudged(j)' /\ checks'[j].render = "-"
    BY <2>1, <2>2 DEF Judging, RowTypes, Indices, Unjudged
  <2>6. at'[t] \in {"idle", "values"} /\ ~job'[t].crd
    BY <1>1 DEF Take, GoOn, JobTypes, Working
  <2>7. ASSUME NEW u \in Threads, at'[u] \in {"schema", "schemas", "crds", "kubeconform"} \/ job'[u].crd
        PROVE  Rendered(row[u])'
    <3>1. u # t /\ (at[u] \in {"schema", "schemas", "crds", "kubeconform"} \/ job[u].crd)
      BY <2>4, <2>6, <2>7
    <3>2. Rendered(row[u]) /\ at[u] # "idle"
      BY <3>1 DEF Judging, Working
    <3>3. PICK j \in Indices : j = row[u] /\ j # next /\ row'[u] = j
      BY <2>3, <2>4, <3>1, <3>2
    <3>. QED
      BY <2>2, <3>2, <3>3 DEF Rendered
  <2>8. \A u \in Threads : at'[u] = "kubeconform" => memo' = "ok"
    BY <2>1, <2>4, <2>6 DEF Judging
  <2>9. ASSUME NEW u \in Threads, at'[u] = "policy" PROVE Checked(row[u])'
    <3>1. u # t /\ at[u] = "policy"
      BY <2>4, <2>6, <2>9
    <3>2. Checked(row[u])
      BY <3>1 DEF Judging
    <3>3. PICK j \in Indices : j = row[u] /\ j # next /\ row'[u] = j
      BY <2>3, <2>4, <3>1
    <3>. QED
      BY <2>1, <2>2, <3>2, <3>3 DEF Checked, Rendered, Excused
  <2>10. ASSUME NEW j \in Indices, answer'[j] = "row"
         PROVE  Checked(j)' \/ (checks'[j].render \in {"-", "skipped"} /\ \E k \in Indices : FailedRow(k)')
    <3>1. CASE j # next
      <4>1. checks'[j] = checks[j] /\ tree'[j] = tree[j] /\ answer[j] = "row"
        BY <2>2, <2>10, <3>1
      <4>2. CASE Checked(j)
        BY <2>1, <4>1, <4>2 DEF Checked, Rendered, Excused
      <4>3. CASE checks[j].render \in {"-", "skipped"} /\ \E k \in Indices : FailedRow(k)
        BY <4>1, <4>3, FailedStays
      <4>. QED
        BY <4>1, <4>2, <4>3 DEF Judging
    <3>2. CASE j = next
      <4>1. answer[next] # "row"
        BY <2>1 DEF Rowing, RowTypes, Indices, None
      <4>2. Stopped /\ checks' = [checks EXCEPT ![next] = [k \in DOMAIN Blank |-> IF k \in asked THEN "skipped" ELSE "-"]]
        BY <1>1, <2>10, <3>2, <4>1 DEF Take
      <4>3. checks'[j] = [k \in DOMAIN Blank |-> IF k \in asked THEN "skipped" ELSE "-"]
        BY <2>1, <3>2, <4>2 DEF CheckTypes
      <4>4. checks'[j].render \in {"-", "skipped"}
        BY <4>3 DEF Blank
      <4>5. \E k \in Indices : FailedRow(k)
        BY <4>2 DEF Stopped
      <4>. QED
        BY <4>4, <4>5, FailedStays
    <3>. QED
      BY <3>1, <3>2
  <2>11. ASSUME NEW u \in Threads, at'[u] \notin {"idle", "policy"} PROVE Unjudged(row[u])'
    <3>1. CASE u = t
      <4>1. row'[t] = next /\ checks' = checks
        BY <1>1, <2>1, <2>11, <3>1 DEF Take, RowTypes
      <4>. QED
        BY <2>1, <3>1, <4>1 DEF Judging, Unjudged, RowTypes, Indices
    <3>2. CASE u # t
      <4>1. Unjudged(row[u]) /\ at[u] # "idle"
        BY <2>4, <2>11, <3>2 DEF Judging
      <4>2. PICK j \in Indices : j = row[u] /\ j # next /\ row'[u] = j
        BY <2>3, <2>4, <3>2, <4>1
      <4>. QED
        BY <2>2, <4>1, <4>2 DEF Unjudged
    <3>. QED
      BY <3>1, <3>2
  <2>. QED
    BY <2>5, <2>7, <2>8, <2>9, <2>10, <2>11 DEF Judging, Indices
<1>2. ASSUME NEW i \in Indices, i = row[t], at[t] # "idle"
     PROVE  answer[i] = None /\ (row'[t] = i => answer'[i] = answer[i] \/ at'[t] = "idle")
  <2>1. answer[i] = None
    BY <1>2 DEF Rowing, Indices
  <2>2. Answering(t) \/ GoingOn(t)
    BY <1>2, Moves DEF Skipping, Taking
  <2>. QED
    BY <1>2, <2>1, <2>2 DEF Answering, GoingOn, Answer, GoOn, RowTypes, JobTypes
<1>3. CASE Values(t)
  <2>1. at[t] = "values" /\ at'[t] \in {"idle", "deps"} /\ ~job'[t].crd
    BY <1>3 DEF Values, Answer, Continue, GoOn, JobTypes, NoJob, Working
  <2>2. answer'[row[t]] # "row"
    BY <1>0, <1>2, <1>3, <2>1 DEF Values, Answer, Continue, RowTypes, None
  <2>3. PICK i \in Indices : i = row[t]
    BY <1>0, <2>1
  <2>4. Unjudged(i)'
    BY <1>3, <2>1, <2>3 DEF Values, Judging, Unjudged
  <2>. QED
    BY <2>1, <2>2, <2>3, <2>4, JudgingOf
\* A step before the row is rendered, or for the CRDs.
<1>4. ASSUME NEW i \in Indices, i = row[t], at[t] # "idle", UNCHANGED <<answer, job>>, UNCHANGED memo,
             at[t] # "policy", at'[t] \in {"deps", "updating", "template", "crds"},
             at'[t] = "crds" => job[t].crd,
             checks'[i] = checks[i], tree'[i] = tree[i]
      PROVE  Judging'
  <2>1. answer'[i] # "row"
    BY <1>2, <1>4 DEF None
  <2>2. job'[t].crd => Rendered(i)'
    BY <1>4 DEF Judging, Rendered
  <2>3. Unjudged(i)'
    BY <1>4 DEF Judging, Unjudged
  <2>. QED
    BY <1>4, <2>1, <2>2, <2>3, JudgingOf
<1>5. CASE LockDeps(t)
  BY <1>0, <1>4, <1>5 DEF LockDeps, GoOn, results, loading, JobTypes
<1>6. ASSUME NEW i \in Indices, i = row[t], at[t] \notin {"idle", "policy"},
     NEW status \in {"passed", "failed", "error"},
             RenderEnds(t, status), UNCHANGED <<answer, job, memo>>,
             IF job[t].crd THEN tree'[i] = tree[i] ELSE status = "passed" => tree'[i] \in {"whole", "empty"}
      PROVE  Judging'
  <2>1. CASE job[t].crd
    BY <1>4, <1>6, <2>1 DEF RenderEnds, GoOn, JobTypes
  <2>2. CASE ~job[t].crd
    <3>1. checks' = [checks EXCEPT ![i]["render"] = status] /\ at'[t] = "schema"
      BY <1>6, <2>2 DEF RenderEnds, Set, GoOn, JobTypes
    <3>2. checks'[i].render = status
      BY <3>1 DEF CheckTypes
    <3>3. Rendered(i)'
      BY <1>6, <2>2, <3>2 DEF Rendered
    <3>4. answer'[i] # "row"
      BY <1>2, <1>6 DEF None
    <3>5. Unjudged(i)'
      BY <1>6, <3>1 DEF Judging, Unjudged, CheckTypes
    <3>. QED
      BY <1>6, <3>1, <3>3, <3>4, <3>5, JudgingOf
  <2>. QED
    BY <2>1, <2>2
<1>7. CASE UpdateDeps(t)
  <2>1. CASE RenderEnds(t, "error")
    BY <1>0, <1>6, <1>7, <2>1 DEF UpdateDeps
  <2>2. CASE GoOn(t, "template") /\ UNCHANGED <<checks, broke, rendered>>
    BY <1>0, <1>4, <1>7, <2>2 DEF UpdateDeps, GoOn, JobTypes
  <2>. QED
    BY <1>7, <2>1, <2>2 DEF UpdateDeps
<1>8. CASE Template(t)
  <2>1. at[t] = "template" /\ UNCHANGED <<answer, job, memo>> /\ row[t] \in Indices
    BY <1>0, <1>8 DEF Template
  <2>2. CASE /\ RenderEnds(t, "passed")
             /\ \E left \in {"whole", "empty"} :
                  tree' = IF job[t].crd THEN tree ELSE [tree EXCEPT ![row[t]] = left]
    BY <1>6, <2>1, <2>2 DEF CheckTypes
  <2>3. CASE RenderEnds(t, "failed") /\ UNCHANGED tree
    BY <1>6, <2>1, <2>3
  <2>4. CASE /\ RenderEnds(t, "error")
             /\ tree' \in {tree, IF job[t].crd THEN tree ELSE [tree EXCEPT ![row[t]] = "part"]}
    BY <1>6, <2>1, <2>4
  <2>. QED
    BY <1>8, <2>2, <2>3, <2>4 DEF Template
<1>9. CASE Schema(t)
  <2>1. PICK i \in Indices : i = row[t]
    BY <1>0, <1>9 DEF Schema
  <2>2. at[t] = "schema" /\ UNCHANGED <<answer, job, memo, tree>> /\ Rendered(i) /\ Unjudged(i)
       /\ answer'[i] # "row" /\ ~job[t].crd
    BY <1>2, <1>9, <2>1 DEF Schema, Judging, Working, None
  <2>3. CASE UNCHANGED <<checks, broke>> /\ GoOn(t, "schemas")
    <3>1. at'[t] = "schemas" /\ Rendered(i)' /\ Unjudged(i)'
      BY <2>2, <2>3 DEF GoOn, JobTypes, Rendered, Unjudged
    <3>. QED
      BY <2>1, <2>2, <3>1, JudgingOf
  <2>4. CASE ~Runs(i, "schema") /\ GoOn(t, "policy")
    <3>1. at'[t] = "policy" /\ UNCHANGED <<asked, enabled>>
      BY <2>4, Moves DEF GoOn, JobTypes
    <3>2. \/ checks' = checks /\ "schema" \notin asked
          \/ checks' = [checks EXCEPT ![i]["schema"] = "skipped"]
      BY <1>9, <2>1, <2>4 DEF Schema, Set
    <3>3. checks'[i].schema \in {"skipped", "-"} /\ checks'[i].render = checks[i].render
      BY <2>2, <3>2 DEF CheckTypes, Unjudged
    <3>4. checks[i].render \in Failing \/ Excused(i, "schema")
      <4>1. CASE "schema" \notin asked
        BY <4>1 DEF Excused
      <4>2. CASE Skips(i, "schema")
        <5>1. DOMAIN Blank = {"render", "schema", "policy"}
          BY DEF Blank
        <5>2. CASE tree[i] = None
          BY <2>2, <5>2 DEF Rendered, None, Failing
        <5>3. CASE tree[i] # None
          BY <2>2, <4>2, <5>1, <5>3 DEF Skips, Unjudged, Excused, Failing
        <5>. QED
          BY <5>2, <5>3
      <4>. QED
        BY <2>4, <4>1, <4>2 DEF Runs
    <3>5. Excused(i, "schema") => Excused(i, "schema")'
      BY <2>2, <3>1 DEF Excused
    <3>6. Rendered(i)'
      BY <2>2, <3>3 DEF Rendered
    <3>7. Checked(i)'
      BY <3>3, <3>4, <3>5, <3>6 DEF Checked, Failing
    <3>. QED
      BY <2>1, <2>2, <3>1, <3>7, JudgingOf
  <2>. QED
    BY <1>9, <2>1, <2>3, <2>4 DEF Schema
\* The schemas are prepared, or were not and the row raises.
<1>10. ASSUME Loads(t), at[t] # "policy", NEW i \in Indices, i = row[t], at[t] # "idle",
     NEW outcome \in {"ok", "error"},
              Remember(t, outcome), UNCHANGED <<checks, tree>>
       PROVE  Judging'
  <2>1. Rendered(i) /\ Unjudged(i)
    BY <1>10 DEF Loads, Judging
  <2>2. Rendered(i)' /\ Unjudged(i)'
    BY <1>10, <2>1 DEF Rendered, Unjudged
  <2>3. CASE outcome = "ok"
    <3>1. at'[t] = "kubeconform" /\ memo' = "ok" /\ answer' = answer
      BY <1>10, <2>3 DEF Remember, GoOn, JobTypes
    <3>. QED
      BY <1>2, <1>10, <2>2, <3>1, JudgingOf DEF None
  <2>4. CASE outcome = "error"
    <3>1. at'[t] = "idle" /\ job'[t] = NoJob /\ answer'[i] = "raised"
      BY <1>10, <2>4 DEF Remember, Answer, GoOn, JobTypes, RowTypes
    <3>. QED
      BY <1>10, <3>1, JudgingOf DEF NoJob
  <2>. QED
    BY <2>3, <2>4
<1>11. CASE Schemas(t)
  <2>1. PICK i \in Indices : i = row[t] /\ at[t] = "schemas"
    BY <1>0, <1>11 DEF Schemas
  <2>2. UNCHANGED <<checks, tree>>
    BY <1>11 DEF Schemas
  <2>3. CASE \E outcome \in {"ok", "error"} : Remember(t, outcome)
    BY <1>10, <2>1, <2>2, <2>3 DEF Loads
  <2>4. CASE TakePrints(t)
    <3>1. at'[t] = "crds" /\ answer' = answer /\ Rendered(i) /\ Unjudged(i)
      BY <2>1, <2>4 DEF TakePrints, Continue, GoOn, JobTypes, Judging
    <3>2. Rendered(i)' /\ Unjudged(i)'
      BY <2>2, <3>1 DEF Rendered, Unjudged
    <3>. QED
      BY <1>2, <2>1, <3>1, <3>2, JudgingOf DEF None
  <2>. QED
    BY <1>11, <2>3, <2>4 DEF Schemas, JobTypes
<1>12. CASE NextProvider(t)
  <2>1. PICK i \in Indices : i = row[t] /\ at[t] = "crds"
    BY <1>0, <1>12 DEF NextProvider
  <2>2. UNCHANGED <<checks, tree, answer>> /\ at'[t] = "deps"
    BY <1>12 DEF NextProvider, results, GoOn, JobTypes
  <2>3. Rendered(i)' /\ Unjudged(i)'
    BY <2>1, <2>2 DEF Rendered, Unjudged, Judging
  <2>. QED
    BY <1>2, <2>1, <2>2, <2>3, JudgingOf DEF None
<1>13. CASE PublishGeneration(t)
  BY <1>0, <1>10, <1>13 DEF PublishGeneration, Loads
<1>14. CASE Conform(t)
  <2>1. PICK i \in Indices : i = row[t] /\ at[t] = "kubeconform"
    BY <1>0, <1>14 DEF Conform
  <2>2. UNCHANGED <<tree, memo>> /\ Rendered(i) /\ memo = "ok" /\ ~job[t].crd /\ answer[i] = None
    BY <1>2, <1>14, <2>1 DEF Conform, Judging, Working, loading
  <2>3. CASE (\E status \in {"passed", "failed", "error"} : Set(t, "schema", status)) /\ Continue(t, "policy")
    <3>1. PICK status \in {"passed", "failed", "error"} : checks' = [checks EXCEPT ![i]["schema"] = status]
      BY <2>1, <2>3 DEF Set
    <3>2. checks'[i].schema = status /\ checks'[i].render = checks[i].render
      BY <3>1 DEF CheckTypes
    <3>3. Checked(i)'
      BY <2>2, <3>2 DEF Checked, Rendered, Excused
    <3>4. at'[t] = "policy" /\ job' = job /\ answer' = answer
      BY <2>3 DEF Continue, GoOn, JobTypes
    <3>. QED
      BY <2>1, <2>2, <3>3, <3>4, JudgingOf DEF None
  <2>4. CASE Answer(t, "spec")
    <3>1. at'[t] = "idle" /\ job'[t] = NoJob /\ answer'[i] = "spec"
      BY <2>1, <2>4 DEF Answer, GoOn, JobTypes, RowTypes
    <3>. QED
      BY <2>1, <3>1, JudgingOf DEF NoJob
  <2>. QED
    BY <1>14, <2>3, <2>4 DEF Conform
<1>15. CASE Policy(t)
  <2>1. PICK i \in Indices : i = row[t] /\ at[t] = "policy"
    BY <1>0, <1>15 DEF Policy
  <2>2. UNCHANGED <<tree, memo, asked, enabled>> /\ Checked(i)
    BY <1>15, <2>1 DEF Policy, Judging, loading, choices
  <2>3. checks'[i].render = checks[i].render /\ checks'[i].schema = checks[i].schema
    BY <1>15, <2>1 DEF Policy, Kyverno, Set, CheckTypes
  <2>4. Checked(i)'
    BY <2>2, <2>3 DEF Checked, Rendered, Excused
  <2>5. at'[t] = "idle" /\ job'[t] = NoJob
    BY <1>15 DEF Policy, Answer, GoOn, JobTypes
  <2>. QED
    BY <2>1, <2>4, <2>5, JudgingOf DEF NoJob
<1>16. CASE ToolMissing(t)
  <2>1. PICK i \in Indices : i = row[t] /\ at[t] \in {"updating", "template", "kubeconform", "policy"}
    BY <1>0, <1>16 DEF ToolMissing
  <2>2. UNCHANGED <<checks, tree>>
    BY <1>16 DEF ToolMissing
  <2>3. CASE loader = t
    <3>1. Loads(t) /\ at[t] # "policy" /\ Remember(t, "error")
      BY <1>16, <2>1, <2>3 DEF ToolMissing, Working, Loads
    <3>. QED
      BY <1>10, <2>1, <2>2, <3>1
  <2>4. CASE loader # t
    <3>1. at'[t] = "idle" /\ job'[t] = NoJob /\ answer'[i] = "raised"
      BY <1>16, <2>1, <2>4 DEF ToolMissing, Answer, GoOn, JobTypes, RowTypes
    <3>. QED
      BY <2>1, <3>1, JudgingOf DEF NoJob
  <2>. QED
    BY <2>3, <2>4
<1>. QED
  BY <1>1, <1>3, <1>5, <1>7, <1>8, <1>9, <1>11, <1>12, <1>13, <1>14, <1>15, <1>16 DEF Checking

LEMMA StoppingStays ==
  ASSUME RowTypes, JobTypes, CheckTypes, Rowing, Judging, Stopping, NEW t \in Threads, Checking(t)
  PROVE  Stopping'
<1>. SUFFICES ASSUME failfast
              PROVE  /\ \A u \in Threads : row'[u] # 0 =>
                          row'[u] = consumed + 1 /\ \A i \in Indices : ~FailedRow(i)'
                     /\ \A j \in Indices : j > consumed + 1 => checks'[j].render = "-"
                     /\ \A i, j \in Indices : i < j /\ FailedRow(i)' => checks'[j].render \in {"-", "skipped"}
  BY Moves DEF Stopping, FailFastStops
<1>0. Indices = 1 .. Len(Rows) /\ Len(Rows) \in Nat
  BY RowsOfCharts DEF Indices
<1>1. CASE at[t] = "idle"
  <2>1. Take(t)
    BY <1>1 DEF Checking, Values, LockDeps, UpdateDeps, Template, Schema, Schemas, NextProvider,
                PublishGeneration, Conform, Policy, ToolMissing
  <2>2. next \in Indices /\ next = consumed + 1
    BY <2>1, <1>0 DEF Take, RowTypes
  <2>3. \A u \in Threads : row[u] = 0
    BY <1>0, <2>2 DEF Stopping, Rowing, RowTypes
  <2>4. \A j \in Indices : j # next => checks'[j] = checks[j] /\ answer'[j] = answer[j]
    BY <1>1, OwnRow
  <2>5. CASE Stopped
    <3>1. UNCHANGED row /\ checks' = [checks EXCEPT ![next] = [k \in DOMAIN Blank |-> IF k \in asked THEN "skipped" ELSE "-"]]
      BY <2>1, <2>5 DEF Take
    <3>2. checks'[next] = [k \in DOMAIN Blank |-> IF k \in asked THEN "skipped" ELSE "-"]
      BY <2>2, <3>1 DEF CheckTypes
    <3>3. checks'[next].render \in {"-", "skipped"}
      BY <3>2 DEF Blank
    <3>4. \A i \in Indices : FailedRow(i)' => i # next /\ FailedRow(i)
      <4>. SUFFICES ASSUME NEW i \in Indices, FailedRow(i)' PROVE i # next /\ FailedRow(i)
        OBVIOUS
      <4>1. i # next
        <5>1. ASSUME i = next PROVE ~\E k \in DOMAIN Blank : checks'[i][k] \in Failing
          BY <5>1, <3>2 DEF Failing
        <5>. QED
          BY <5>1 DEF FailedRow
      <4>. QED
        BY <4>1, <2>4 DEF FailedRow
    <3>5. ASSUME NEW i \in Indices, NEW j \in Indices, i < j, FailedRow(i)'
          PROVE  checks'[j].render \in {"-", "skipped"}
      <4>1. CASE j = next
        BY <3>3, <4>1
      <4>2. CASE j # next
        BY <2>4, <3>4, <3>5, <4>2 DEF Stopping, FailFastStops
      <4>. QED
        BY <4>1, <4>2
    <3>6. \A j \in Indices : j > consumed + 1 => checks'[j].render = "-"
      BY <1>0, <2>2, <2>4 DEF Stopping
    <3>. QED
      BY <2>3, <3>1, <3>5, <3>6
  <2>6. CASE ~Stopped
    <3>1. row' = [row EXCEPT ![t] = next] /\ UNCHANGED <<checks, answer>>
      BY <2>1, <2>6 DEF Take
    <3>2. \A i \in Indices : ~FailedRow(i)'
      BY <2>6, <3>1 DEF Stopped, FailedRow
    <3>. QED
      BY <2>2, <2>3, <3>1, <3>2 DEF Stopping, RowTypes
  <2>. QED
    BY <2>5, <2>6
<1>2. CASE at[t] # "idle"
  <2>1. PICK i \in Indices : i = row[t] /\ i = consumed + 1
    BY <1>0, <1>2 DEF Rowing, RowTypes, Stopping
  <2>2. \A u \in Threads : u # t => row[u] = 0
    BY <1>0, <2>1 DEF Rowing, Stopping
  <2>3. \A j \in Indices : j # i => checks'[j] = checks[j] /\ answer'[j] = answer[j]
    BY <1>2, <2>1, OwnRow
  <2>4. \A j \in Indices : ~FailedRow(j)
    <3>1. row[t] # 0
      BY <1>0, <2>1
    <3>. QED
      BY <3>1, Zenon DEF Stopping
  <2>5. \A j \in Indices : FailedRow(j)' => j = i
    BY <2>3, <2>4 DEF FailedRow
  <2>6. row'[t] = 0 \/ (row'[t] = i /\ answer'[i] = None)
    <3>1. Answering(t) \/ GoingOn(t)
      BY <1>2, Moves DEF Skipping, Taking
    <3>. QED
      BY <1>0, <2>1, <3>1 DEF Answering, GoingOn, Answer, RowTypes, Rowing
  <2>7. ~FailedRow(i)' \/ row'[t] = 0
    BY <2>6 DEF FailedRow, None
  <2>8. \A j \in Indices : j > consumed + 1 => checks'[j].render = "-"
    BY <1>0, <2>1, <2>3 DEF Stopping
  <2>9. \A u \in Threads : u # t => row'[u] = 0
    BY <2>2, AloneMoves DEF Alone
  <2>. QED
    BY <1>0, <2>1, <2>5, <2>6, <2>7, <2>8, <2>9
<1>. QED
  BY <1>1, <1>2

\* Consume: the main thread takes an answer.
LEMMA ConsumeKeeps == ASSUME ValidateIInv, Consume PROVE ValidateIInv'
<1>0. Indices = 1 .. Len(Rows) /\ Len(Rows) \in Nat
  BY RowsOfCharts DEF Indices
<1>1. /\ consumed < Len(Rows) /\ answer[consumed + 1] # None /\ consumed' = consumed + 1
      /\ raised' \in BOOLEAN /\ (next' = Len(Rows) + 1 \/ next' = next)
      /\ UNCHANGED <<failfast, asked, enabled, bytes, dependencies, loading, results, row, at, job>>
  BY DEF Consume, choices
<1>2. UNCHANGED <<answer, checks, tree, broke, memo, loader, cache, print, rendered, fresh, held, ready>>
  BY <1>1 DEF dependencies, loading, results
<1>3. consumed + 1 \in Indices /\ consumed + 1 < next /\ next \in 1 .. Len(Rows) + 1
  BY <1>0, <1>1 DEF ValidateIInv, RowTypes, Rowing
<1>4. next <= next' /\ next' \in 1 .. Len(Rows) + 1
  BY <1>0, <1>1, <1>3
<1>5. RowTypes'
  BY <1>0, <1>1, <1>2, <1>4 DEF ValidateIInv, RowTypes
<1>6. Rowing'
  <2>1. \A i \in Indices : i <= consumed' => answer'[i] # None
    BY <1>0, <1>1, <1>2 DEF ValidateIInv, RowTypes, Rowing
  <2>2. \A i \in Indices : i >= next' => answer'[i] = None
    BY <1>0, <1>2, <1>4, <1>3 DEF ValidateIInv, Rowing
  <2>3. \A u \in Threads : row'[u] # 0 => row'[u] < next' /\ answer'[row'[u]] = None
    BY <1>0, <1>1, <1>2, <1>4, <1>3 DEF ValidateIInv, RowTypes, Rowing
  <2>4. consumed' < next'
    BY <1>1, <1>3, <1>4, <1>0
  <2>. QED
    BY <1>1, <2>1, <2>2, <2>3, <2>4 DEF ValidateIInv, Rowing, Indices
<1>7. CheckTypes' /\ DepsTypes' /\ JobTypes' /\ CacheTypes' /\ Working' /\ Settled'
  BY <1>1, <1>2 DEF ValidateIInv, CheckTypes, DepsTypes, JobTypes, CacheTypes, Working, Settled, Loads
<1>8. Printed'
  BY <1>1, <1>2 DEF ValidateIInv, Printed, CacheIsTrue
<1>9. Judging'
  <2>1. \A i \in Indices : (Unjudged(i)' <=> Unjudged(i)) /\ (Checked(i)' <=> Checked(i))
       /\ (FailedRow(i)' <=> FailedRow(i))
    BY <1>1, <1>2 DEF Unjudged, Checked, Rendered, FailedRow, Excused
  <2>2. \A i \in Indices : i >= next' => Unjudged(i)' /\ checks'[i].render = "-"
    BY <1>0, <1>2, <1>3, <1>4, <2>1 DEF ValidateIInv, Judging
  <2>3. \A i \in Indices :
          answer'[i] = "row" => Checked(i)' \/ (checks'[i].render \in {"-", "skipped"}
                                  /\ \E j \in Indices : FailedRow(j)')
    BY <1>2, <2>1 DEF ValidateIInv, Judging
  <2>. QED
    BY <1>1, <1>2, <2>2, <2>3 DEF ValidateIInv, Judging, Indices, Unjudged, Checked, Rendered, Excused
<1>10. Stopping'
  <2>. SUFFICES ASSUME failfast
                PROVE  /\ \A u \in Threads : row[u] = 0
                       /\ \A j \in Indices : j > consumed + 2 => checks[j].render = "-"
                       /\ \A i, j \in Indices : i < j /\ FailedRow(i) => checks[j].render \in {"-", "skipped"}
    <3>1. \A i \in Indices : FailedRow(i)' <=> FailedRow(i)
      BY <1>2 DEF FailedRow
    <3>. QED
      BY <1>0, <1>1, <1>2, <3>1 DEF Stopping, FailFastStops, ValidateIInv, RowTypes
  <2>1. \A u \in Threads : row[u] = 0
    BY <1>1 DEF ValidateIInv, Stopping, Rowing
  <2>2. \A j \in Indices : j > consumed + 2 => checks[j].render = "-"
    BY <1>0 DEF ValidateIInv, Stopping, RowTypes
  <2>. QED
    BY <2>1, <2>2 DEF ValidateIInv, Stopping, FailFastStops
<1>. QED
  BY <1>5, <1>6, <1>7, <1>8, <1>9, <1>10 DEF ValidateIInv

\* An edit changes the bytes of a chart, and nothing that was taken of them before.
LEMMA EditKeeps == ASSUME ValidateIInv, Edit PROVE ValidateIInv'
<1>1. PICK c \in Providers : bytes[c] < MaxChanges /\ bytes' = [bytes EXCEPT ![c] = @ + 1]
  BY DEF Edit
<1>2. UNCHANGED <<failfast, asked, enabled, cache, loader, memo, print, rendered, fresh, held, ready, tree, checks, broke,
                  answer, next, row, at, job, consumed, raised>>
  BY DEF Edit, dependencies, loading, results, choices
<1>3. CacheTypes' /\ \A d \in Providers : bytes'[d] >= bytes[d] /\ bytes[d] \in Nat /\ bytes'[d] \in Nat
  <2>1. MaxChanges \in Nat /\ Providers \subseteq Charts /\ bytes \in [Charts -> 0 .. MaxChanges]
    BY ValidateAssumption DEF ValidateIInv, CacheTypes
  <2>2. bytes' \in [Charts -> 0 .. MaxChanges]
    BY <1>1, <2>1
  <2>. QED
    BY <1>1, <1>2, <2>1, <2>2 DEF ValidateIInv, CacheTypes
<1>4. Printed'
  <2>1. CacheIsTrue'
    BY <1>2 DEF ValidateIInv, Printed, CacheIsTrue
  <2>2. \A d \in Providers : print[d].authored \in Nat /\ rendered[d].bytes \in Nat
    BY DEF ValidateIInv, CacheTypes
  <2>3. ASSUME NEW d \in Providers
        PROVE  /\ print'[d].authored <= bytes'[d] /\ print'[d].full \in {Unknown, print'[d].authored}
               /\ rendered'[d].status # None =>
                    print'[d].authored <= rendered'[d].bytes /\ rendered'[d].bytes <= bytes'[d]
    BY <1>2, <1>3, <2>2 DEF ValidateIInv, Printed
  <2>. QED
    BY <1>2, <2>1, <2>3 DEF ValidateIInv, Printed, Unknown, NotRendered
<1>5. RowTypes' /\ CheckTypes' /\ DepsTypes' /\ JobTypes' /\ Rowing' /\ Working' /\ Settled'
  BY <1>2 DEF ValidateIInv, RowTypes, CheckTypes, DepsTypes, JobTypes, Rowing, Working, Settled,
       Loads, Indices
<1>6. Judging' /\ Stopping'
  BY <1>2 DEF ValidateIInv, Judging, Stopping, Unjudged, Checked, Rendered, Excused,
       FailFastStops, FailedRow, Indices
<1>. QED
  BY <1>3, <1>4, <1>5, <1>6 DEF ValidateIInv

LEMMA ValidateStutters == ASSUME ValidateIInv, UNCHANGED validateVars PROVE ValidateIInv'
<1>1. UNCHANGED <<failfast, asked, enabled, bytes, cache, loader, memo, print, rendered, fresh, held, ready, tree,
     checks, broke,
                  answer, next, row, at, job, consumed, raised>>
  BY DEF validateVars, dependencies, loading, results, choices
<1>2. RowTypes' /\ CheckTypes' /\ DepsTypes' /\ JobTypes' /\ CacheTypes' /\ Rowing' /\ Working' /\ Settled'
  BY <1>1 DEF ValidateIInv, RowTypes, CheckTypes, DepsTypes, JobTypes, CacheTypes, Rowing, Working,
       Settled, Loads, Indices
<1>3. Printed'
  BY <1>1 DEF ValidateIInv, Printed, CacheIsTrue, NotRendered
<1>4. Judging' /\ Stopping'
  BY <1>1 DEF ValidateIInv, Judging, Stopping, Unjudged, Checked, Rendered, Excused,
       FailFastStops, FailedRow, Indices
<1>. QED
  BY <1>2, <1>3, <1>4 DEF ValidateIInv

LEMMA ValidateStarts == ValidateInit => ValidateIInv
<1>. SUFFICES ASSUME ValidateInit PROVE ValidateIInv
  OBVIOUS
<1>0. Len(Rows) \in Nat /\ Indices = 1 .. Len(Rows) /\ MaxChanges \in Nat /\ None \notin Threads
  BY RowsOfCharts, ValidateAssumption DEF Indices
<1>1. RowTypes /\ Rowing
  <2>1. RowTypes
    <3>0. next = 1 /\ consumed = 0 /\ raised \in BOOLEAN
      BY DEF ValidateInit
    <3>1. next \in 1 .. Len(Rows) + 1 /\ consumed \in 0 .. Len(Rows)
      BY <1>0, <3>0
    <3>2. row \in [Threads -> 0 .. Len(Rows)]
      BY <1>0 DEF ValidateInit
    <3>3. answer \in [Indices -> {None, "row", "spec", "raised"}]
      BY DEF ValidateInit
    <3>. QED
      BY <3>0, <3>1, <3>2, <3>3 DEF RowTypes
  <2>2. /\ consumed = 0 /\ next = 1 /\ \A i \in Indices : answer[i] = None
        /\ \A t \in Threads : row[t] = 0 /\ at[t] = "idle"
    BY DEF ValidateInit
  <2>. QED
    BY <1>0, <2>1, <2>2 DEF Rowing
<1>2. CheckTypes /\ DepsTypes /\ JobTypes
  <2>1. Blank \in [{"render", "schema", "policy"} -> Statuses]
    BY DEF Blank, Statuses
  <2>. QED
    BY <2>1 DEF ValidateInit, CheckTypes, DepsTypes, JobTypes, Places, NoJob
<1>3. CacheTypes /\ Printed
  <2>1. print = [c \in Providers |-> [full |-> Unknown, authored |-> 0]] /\ rendered = NotRendered
        /\ bytes = [c \in Charts |-> 0] /\ cache = {} /\ Unknown \in Nat /\ Providers \subseteq Charts
    BY <1>0, ValidateAssumption DEF ValidateInit, NoPrint, Unknown
  <2>2. CacheTypes
    BY <1>0, <2>1 DEF CacheTypes, NotRendered, Ends
  <2>3. \A c \in Providers : print[c].full = Unknown /\ print[c].authored = 0 /\ bytes[c] = 0
       /\ rendered[c].status = None
    BY <2>1 DEF NotRendered
  <2>. QED
    BY <2>1, <2>2, <2>3 DEF Printed, CacheIsTrue
<1>4. Working /\ Settled
  BY <1>0 DEF ValidateInit, Working, Settled, Loads, NoJob
<1>5. Judging
  <2>1. \A i \in Indices : checks[i] = Blank /\ answer[i] = None
    BY DEF ValidateInit
  <2>2. \A i \in Indices : Unjudged(i) /\ checks[i].render = "-"
    BY <2>1 DEF Unjudged, Blank
  <2>. QED
    BY <2>1, <2>2 DEF ValidateInit, Judging, NoJob, None
<1>6. Stopping
  <2>1. \A i \in Indices : checks[i].render = "-" /\ answer[i] = None
    BY DEF ValidateInit, Blank
  <2>2. \A t \in Threads : row[t] = 0
    BY DEF ValidateInit
  <2>. QED
    BY <2>1, <2>2 DEF Stopping, FailFastStops
<1>. QED
  BY <1>1, <1>2, <1>3, <1>4, <1>5, <1>6 DEF ValidateIInv

LEMMA ValidateStep == ValidateIInv /\ [ValidateNext]_validateVars => ValidateIInv'
<1>1. ASSUME ValidateIInv, NEW t \in Threads, Checking(t) PROVE ValidateIInv'
  <2>1. RowTypes' /\ Rowing'
    BY <1>1, RowsStay DEF ValidateIInv
  <2>2. CheckTypes' /\ DepsTypes' /\ Settled'
    BY <1>1, CheckTypesStay, SettledStays DEF ValidateIInv
  <2>3. JobTypes' /\ Working' /\ CacheTypes' /\ Printed'
    BY <1>1, WorkingStays, PrintedStays DEF ValidateIInv
  <2>4. Judging' /\ Stopping'
    BY <1>1, JudgingStays, StoppingStays DEF ValidateIInv
  <2>. QED
    BY <2>1, <2>2, <2>3, <2>4 DEF ValidateIInv
<1>. QED
  BY <1>1, ConsumeKeeps, EditKeeps, ValidateStutters DEF ValidateNext

LEMMA ValidateInvariant == ValidateSpec => []ValidateIInv
BY ValidateStarts, ValidateStep, PTL DEF ValidateSpec

\* What the threads share settles before it is used, however many threads, charts and rows
\* there are: dependencies before they are rendered, the cached schemas under the name of
\* their bytes, and one outcome of the preparation for all rows.
THEOREM SharedStateSettles == ValidateSpec => SharedIsSettled
<1>1. ValidateIInv => ValidateTypeOK /\ TemplatesSettledDeps /\ CacheIsTrue
  <2>. SUFFICES ASSUME ValidateIInv PROVE ValidateTypeOK /\ TemplatesSettledDeps /\ CacheIsTrue
    OBVIOUS
  <2>1. ValidateTypeOK
    <3>1. bytes \in [Charts -> Nat]
      BY DEF ValidateIInv, CacheTypes
    <3>. QED
      BY <3>1 DEF ValidateIInv, ValidateTypeOK, RowTypes, CheckTypes, DepsTypes, JobTypes, Settled
  <2>2. TemplatesSettledDeps
    <3>. SUFFICES ASSUME NEW t \in Threads, NEW u \in Threads, at[t] = "template"
                  PROVE  fresh[job[t].chart] /\ ~(at[u] = "updating" /\ job[u].chart = job[t].chart)
      BY DEF TemplatesSettledDeps
    <3>1. fresh[job[t].chart] /\ job[t].chart \in Charts
      BY DEF ValidateIInv, Settled, Working
    <3>2. ASSUME at[u] = "updating", job[u].chart = job[t].chart PROVE FALSE
      <4>1. held[job[t].chart] = u /\ u # None
        BY <3>2, ValidateAssumption DEF ValidateIInv, Settled
      <4>. QED
        BY <3>1, <4>1 DEF ValidateIInv, Settled
    <3>. QED
      BY <3>1, <3>2
  <2>. QED
    BY <2>1, <2>2 DEF ValidateIInv, Printed
<1>2. ValidateIInv /\ [ValidateNext]_validateVars => [memo # None => memo' = memo]_validateVars
  <2>1. ASSUME ValidateIInv, NEW t \in Threads, Checking(t), memo # None PROVE memo' = memo
    BY <2>1, MemoStays DEF ValidateIInv
  <2>2. Consume \/ Edit => memo' = memo
    BY DEF Consume, Edit, loading
  <2>. QED
    BY <2>1, <2>2 DEF ValidateNext
<1>. QED
  BY <1>1, <1>2, ValidateInvariant, PTL DEF ValidateSpec, SharedIsSettled, LoadedOnce

\* A run that exits 0 has rendered every selected row in full, and kubeconform has passed it
\* with schemas that were all there, unless the request does not ask for that, the chart
\* disables it or there is no manifest; with --fail-fast none is checked after one that failed.
THEOREM VerdictsAreEarned == ValidateSpec => []VerdictIsEarned
<1>1. ValidateIInv => VerdictIsEarned
  <2>. SUFFICES ASSUME ValidateIInv PROVE VerdictIsEarned
    OBVIOUS
  <2>1. FailFastStops
    BY DEF ValidateIInv, Stopping, FailFastStops
  <2>2. ASSUME Succeeds, NEW i \in Indices
        PROVE  /\ tree[i] \in {"whole", "empty"}
               /\ Excused(i, "schema") \/ (checks[i].schema = "passed" /\ memo = "ok")
    <3>1. DOMAIN Blank = {"render", "schema", "policy"}
      BY DEF Blank
    <3>2. \A j \in Indices : answer[j] = "row" /\ ~FailedRow(j)
      BY <2>2 DEF Succeeds, FailedRow
    <3>3. Checked(i)
      BY <3>2 DEF ValidateIInv, Judging
    <3>4. checks[i].render \notin Failing /\ checks[i].schema \notin Failing
      BY <2>2, <3>1 DEF Succeeds
    <3>. QED
      BY <3>3, <3>4 DEF Checked, Rendered, Failing
  <2>. QED
    BY <2>1, <2>2 DEF VerdictIsEarned, SuccessIsEarned
<1>. QED
  BY <1>1, ValidateInvariant, PTL
=============================================================================
