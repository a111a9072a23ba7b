--------------------------- MODULE PromotePR_proofs ---------------------------
(***************************************************************************)
(* Proofs about PromotePR, for any invocations, files and versions.        *)
(*                                                                         *)
(* One request has one PR because a PR's branch is named after its         *)
(* version, and a branch has one PR; no merge lowers a version silently    *)
(* because a branch carries whether its downgrades, against what it        *)
(* started from, were agreed to, and git merges a file only where the base *)
(* still has what the branch started from (Agreed).  The timeline is true  *)
(* because every stored event is the last word of an invocation that       *)
(* opened a PR or found one (Told), and each opened one at most (Counted). *)
(***************************************************************************)
EXTENDS PromotePR, FiniteSetTheorems, TLAPS

\* Every branch is named after the version it leads to, and so is the one PR from it.
Named ==
  /\ \A pr \in prs : pr.branch = <<pr.version>>
  /\ \A x, y \in prs : x.branch = y.branch => x = y
  /\ \A b \in DOMAIN remote, v \in Versions : b = <<v>> => remote[b].to = AllAt(v)

\* A branch that lowers the version of a file against what it started from was agreed to.
Agreed ==
  /\ \A b \in DOMAIN remote : \A f \in Files :
       Newer(remote[b].from[f], remote[b].to[f]) => remote[b].agreed
  /\ \A p \in Invocations : pc[p] \in {"look", "push"} => (consent[p] <=> Downgrades(p) # {})

Opening == {"PR_OPENED", "PUSHED"}
Openers(v) == {p \in Invocations : want[p] = v /\ status[p] \in Opening}

\* An invocation has no status before it reports, and one that reports a PR opened it.
Counted ==
  /\ \A p \in Invocations : pc[p] \in {"idle", "cloned", "look", "push", "create"} => status[p] \notin Opening
  /\ \A v \in Versions : Cardinality(Openers(v)) <= opened[v]

\* A PR that is open was opened, and so was one that was found.
Found ==
  /\ \A pr \in prs : opened[pr.version] > 0
  /\ \A p \in Invocations : status[p] = "ALREADY_OPEN" => opened[want[p]] > 0

EventOf(p) ==
  Event("chart", want[p], PromotePhase(status[p]), Stamp(0, 0), Branch(p), NoKey, p)

\* The ledger has the event of every invocation that is done and did not lose it, and
\* nothing else.
Written ==
  /\ \A e \in ledger : \E p \in Invocations : pc[p] = "done" /\ e = EventOf(p)
  /\ \A p \in Invocations :
       pc[p] = "done" /\ ~lost[p] /\ PromotePhase(status[p]) # None => EventOf(p) \in ledger

IInv == TypeOK /\ Named /\ Agreed /\ Counted /\ Found /\ Written

-----------------------------------------------------------------------------

LEMMA StepClone == ASSUME IInv, NEW p \in Invocations, Clone(p) PROVE IInv'
<1>1. /\ pc[p] = "idle" /\ clone' = [clone EXCEPT ![p] = base] /\ pc' = [pc EXCEPT ![p] = "cloned"]
      /\ commits' = commits /\ base' = base /\ remote' = remote /\ prs' = prs /\ want' = want
      /\ consent' = consent /\ opened' = opened /\ status' = status /\ ledger' = ledger /\ lost' = lost
  BY DEF Clone, GoTo, reporting
<1>2. TypeOK'
  BY <1>1 DEF IInv, TypeOK
<1>3. Named'
  BY <1>1 DEF IInv, Named
<1>4. Agreed'
  BY <1>1 DEF IInv, Agreed, TypeOK, Downgrades, Drift
<1>5. Counted'
  BY <1>1 DEF IInv, Counted, TypeOK, Openers
<1>6. Found'
  BY <1>1 DEF IInv, Found
<1>7. Written'
  BY <1>1 DEF IInv, Written, TypeOK, EventOf, Branch, BranchName
<1>. QED
  BY <1>2, <1>3, <1>4, <1>5, <1>6, <1>7 DEF IInv

\* The ledger stays true while no invocation ends and those that did say the same.
LEMMA NothingWritten ==
  ASSUME IInv, want' = want, ledger' = ledger, lost' = lost,
         \A q \in Invocations : pc'[q] = "done" <=> pc[q] = "done",
         \A q \in Invocations : pc[q] = "done" => status'[q] = status[q]
  PROVE  Written'
<1>1. ASSUME NEW q \in Invocations, pc[q] = "done" PROVE EventOf(q)' = EventOf(q)
  BY <1>1 DEF EventOf, Branch, BranchName
<1>2. ASSUME NEW e \in ledger' PROVE \E q \in Invocations : pc'[q] = "done" /\ e = EventOf(q)'
  BY <1>1 DEF IInv, Written
<1>3. ASSUME NEW q \in Invocations, pc'[q] = "done", ~lost'[q], PromotePhase(status'[q]) # None
      PROVE  EventOf(q)' \in ledger'
  BY <1>1, <1>3 DEF IInv, Written
<1>. QED
  BY <1>2, <1>3 DEF Written

LEMMA StepDecide == ASSUME IInv, NEW p \in Invocations, Decide(p) PROVE IInv'
<1>1. /\ pc[p] = "cloned" /\ clone' = clone
      /\ commits' = commits /\ base' = base /\ remote' = remote /\ prs' = prs /\ want' = want
      /\ opened' = opened /\ ledger' = ledger /\ lost' = lost
  BY DEF Decide, GoTo, Report, reporting
<1>2. \/ /\ pc' = [pc EXCEPT ![p] = "emit"] /\ consent' = consent
         /\ \E end \in Statuses \ (Opening \union {"ALREADY_OPEN"}) : status' = [status EXCEPT ![p] = end]
      \/ /\ pc' = [pc EXCEPT ![p] = "look"] /\ status' = status
         /\ consent' = [consent EXCEPT ![p] = Downgrades(p) # {}]
  BY DEF Decide, GoTo, Report, reporting, Statuses, Opening
<1>3. TypeOK'
  <2>1. status' \in [Invocations -> Statuses]
    BY <1>2 DEF IInv, TypeOK
  <2>2. consent' \in [Invocations -> BOOLEAN]
    <3>1. PICK downgrades \in BOOLEAN : downgrades = (Downgrades(p) # {})
      OBVIOUS
    <3>2. consent' = consent \/ consent' = [consent EXCEPT ![p] = downgrades]
      BY <1>2, <3>1
    <3>. QED
      BY <3>1, <3>2 DEF IInv, TypeOK
  <2>3. pc' \in [Invocations -> Final \union {"idle", "cloned", "look", "push", "create", "emit"}]
    BY <1>2 DEF IInv, TypeOK
  <2>. QED
    BY <1>1, <2>1, <2>2, <2>3 DEF IInv, TypeOK
<1>4. Named'
  BY <1>1 DEF IInv, Named
<1>5. Agreed'
  <2>1. ASSUME NEW q \in Invocations PROVE Downgrades(q)' = Downgrades(q)
    BY <1>1 DEF Downgrades, Drift
  <2>. QED
    BY <1>1, <1>2, <2>1 DEF IInv, Agreed, TypeOK
<1>6. Counted'
  <2>1. ASSUME NEW v \in Versions PROVE Openers(v)' = Openers(v)
    BY <1>1, <1>2 DEF IInv, Counted, TypeOK, Openers, Opening
  <2>. QED
    BY <1>1, <1>2, <2>1 DEF IInv, Counted, TypeOK
<1>7. Found'
  BY <1>1, <1>2 DEF IInv, Found, TypeOK
<1>8. Written'
  BY <1>1, <1>2, NothingWritten DEF IInv, TypeOK
<1>. QED
  BY <1>3, <1>4, <1>5, <1>6, <1>7, <1>8 DEF IInv

LEMMA StepFindPR == ASSUME IInv, NEW p \in Invocations, FindPR(p) PROVE IInv'
<1>1. /\ pc[p] = "look" /\ clone' = clone /\ consent' = consent
      /\ commits' = commits /\ base' = base /\ remote' = remote /\ prs' = prs /\ want' = want
      /\ opened' = opened /\ ledger' = ledger /\ lost' = lost
  BY DEF FindPR, GoTo, Report, reporting
<1>2. \/ /\ OpenPR(Branch(p)) /\ pc' = [pc EXCEPT ![p] = "emit"]
         /\ status' = [status EXCEPT ![p] = "ALREADY_OPEN"]
      \/ pc' = [pc EXCEPT ![p] = "push"] /\ status' = status
  BY DEF FindPR, GoTo, Report, reporting
<1>3. TypeOK'
  BY <1>1, <1>2 DEF IInv, TypeOK, Statuses
<1>4. Named'
  BY <1>1 DEF IInv, Named
<1>5. Agreed'
  <2>1. ASSUME NEW q \in Invocations PROVE Downgrades(q)' = Downgrades(q)
    BY <1>1 DEF Downgrades, Drift
  <2>. QED
    BY <1>1, <1>2, <2>1 DEF IInv, Agreed, TypeOK
<1>6. Counted'
  <2>1. ASSUME NEW v \in Versions PROVE Openers(v)' = Openers(v)
    BY <1>1, <1>2 DEF IInv, Counted, TypeOK, Openers, Opening
  <2>. QED
    BY <1>1, <1>2, <2>1 DEF IInv, Counted, TypeOK
<1>7. Found'
  <2>1. OpenPR(Branch(p)) => opened[want[p]] > 0
    BY DEF IInv, Named, Found, OpenPR, Branch, BranchName
  <2>. QED
    BY <1>1, <1>2, <2>1 DEF IInv, Found, TypeOK
<1>8. Written'
  BY <1>1, <1>2, NothingWritten DEF IInv, TypeOK
<1>. QED
  BY <1>3, <1>4, <1>5, <1>6, <1>7, <1>8 DEF IInv

\* A push of a clone whose downgrades were agreed to.
LEMMA StepPush == ASSUME IInv, NEW p \in Invocations, Push(p) PROVE IInv'
<1>1. /\ pc[p] = "push" /\ clone' = clone /\ consent' = consent /\ commits < MaxCommits
      /\ base' = base /\ prs' = prs /\ want' = want
      /\ opened' = opened /\ status' = status /\ ledger' = ledger /\ lost' = lost
  BY DEF Push, GoTo, reporting
<1> DEFINE r == NewBranch(commits, clone[p], AllAt(want[p]), consent[p])
<1>2. \/ /\ remote' = Hold(Branch(p), r) /\ commits' = commits + 1
         /\ pc' = [pc EXCEPT ![p] = "create"]
      \/ remote' = remote /\ commits' = commits /\ pc' = [pc EXCEPT ![p] = "rejected"]
  BY DEF Push, GoTo
<1>3. /\ r.from = clone[p] /\ r.to = [f \in Files |-> want[p]] /\ r.agreed = consent[p]
      /\ clone[p] \in [Files -> Versions] /\ want[p] \in Versions
  BY DEF NewBranch, AllAt, IInv, TypeOK
<1>4. DOMAIN remote \subseteq DOMAIN remote'
  BY <1>2 DEF Hold
<1>5. ASSUME NEW b \in DOMAIN remote' PROVE (b \in DOMAIN remote /\ remote'[b] = remote[b]) \/ remote'[b] = r
  BY <1>2, <1>5 DEF Hold
<1>6. TypeOK'
  <2>1. commits' \in 0 .. MaxCommits
    BY <1>1, <1>2, PRAssumption DEF IInv, TypeOK
  <2>2. (\A b \in DOMAIN remote :
           remote[b].from \in [Files -> Versions] /\ remote[b].to \in [Files -> Versions])'
    BY <1>3, <1>5 DEF IInv, TypeOK
  <2>3. (prs \subseteq [number : Nat, branch : DOMAIN remote, version : Versions])'
    BY <1>1, <1>4 DEF IInv, TypeOK
  <2>4. pc' \in [Invocations -> Final \union {"idle", "cloned", "look", "push", "create", "emit"}]
    BY <1>2 DEF IInv, TypeOK, Final
  <2>. QED
    BY <1>1, <2>1, <2>2, <2>3, <2>4 DEF IInv, TypeOK
<1>7. Named'
  <2>1. (\A pr \in prs : pr.branch = <<pr.version>>)' /\ (\A x, y \in prs : x.branch = y.branch => x = y)'
    BY <1>1 DEF IInv, Named
  <2>2. ASSUME NEW b \in DOMAIN remote', NEW v \in Versions, b = <<v>> PROVE remote'[b].to = AllAt(v)
    <3>1. CASE remote' = remote
      BY <2>2, <3>1 DEF IInv, Named
    <3>2. CASE remote' = Hold(Branch(p), r)
      <4>1. CASE b = Branch(p)
        <5>1. v = want[p]
          BY <2>2, <4>1 DEF Branch, BranchName
        <5>. QED
          BY <2>2, <3>2, <4>1, <5>1, <1>3 DEF Hold, AllAt
      <4>2. CASE b # Branch(p)
        BY <2>2, <3>2, <4>2 DEF IInv, Named, Hold
      <4>. QED
        BY <4>1, <4>2
    <3>. QED
      BY <1>2, <3>1, <3>2
  <2>. QED
    BY <2>1, <2>2 DEF Named
<1>8. Agreed'
  <2>1. ASSUME NEW q \in Invocations PROVE Downgrades(q)' = Downgrades(q)
    BY <1>1 DEF Downgrades, Drift
  <2>2. ASSUME NEW f \in Files, Newer(r.from[f], r.to[f]) PROVE r.agreed
    <3>1. clone[p][f] \in Nat /\ want[p] \in Nat
      BY <1>3, PRAssumption
    <3>2. Newer(clone[p][f], want[p]) /\ clone[p][f] # want[p]
      BY <1>3, <2>2, <3>1 DEF Newer
    <3>3. f \in Downgrades(p)
      BY <3>2 DEF Downgrades, Drift
    <3>. QED
      BY <1>1, <1>3, <3>3 DEF IInv, Agreed
  <2>3. (\A b \in DOMAIN remote : \A f \in Files :
           Newer(remote[b].from[f], remote[b].to[f]) => remote[b].agreed)'
    BY <1>5, <2>2 DEF IInv, Agreed
  <2>. QED
    BY <1>1, <1>2, <2>1, <2>3 DEF IInv, Agreed, TypeOK
<1>9. Counted'
  <2>1. ASSUME NEW v \in Versions PROVE Openers(v)' = Openers(v)
    BY <1>1 DEF Openers
  <2>. QED
    BY <1>1, <1>2, <2>1 DEF IInv, Counted, TypeOK
<1>10. Found'
  BY <1>1, <1>2 DEF IInv, Found, TypeOK
<1>11. Written'
  BY <1>1, <1>2, NothingWritten DEF IInv, TypeOK
<1>. QED
  BY <1>6, <1>7, <1>8, <1>9, <1>10, <1>11 DEF IInv

LEMMA StepCreatePR == ASSUME IInv, NEW p \in Invocations, CreatePR(p) PROVE IInv'
<1>1. /\ pc[p] = "create" /\ clone' = clone /\ consent' = consent /\ commits' = commits
      /\ base' = base /\ remote' = remote /\ want' = want /\ ledger' = ledger /\ lost' = lost
  BY DEF CreatePR, GoTo, Report, reporting
<1>2. /\ TypeOK /\ want[p] \in Versions /\ status[p] \notin Opening
      /\ pc[p] \notin {"done", "look", "push"}
  BY <1>1 DEF IInv, TypeOK, Counted
<1>3. ASSUME NEW q \in Invocations PROVE Downgrades(q)' = Downgrades(q)
  BY <1>1 DEF Downgrades, Drift
<1>4. CASE pc' = [pc EXCEPT ![p] = "orphaned"] /\ prs' = prs /\ opened' = opened /\ status' = status
  <2>1. TypeOK' /\ Named' /\ Found'
    BY <1>1, <1>2, <1>4 DEF IInv, TypeOK, Named, Found, Final
  <2>2. Agreed'
    BY <1>1, <1>2, <1>3, <1>4 DEF IInv, Agreed, TypeOK
  <2>3. Counted'
    BY <1>1, <1>2, <1>4 DEF IInv, Counted, TypeOK, Openers
  <2>4. Written'
    BY <1>1, <1>2, <1>4, NothingWritten DEF IInv, TypeOK
  <2>. QED
    BY <2>1, <2>2, <2>3, <2>4 DEF IInv
<1>5. CASE /\ Pushed(Branch(p)) /\ ~OpenPR(Branch(p))
           /\ prs' = prs \union {NewPR(opened[want[p]] + 1, Branch(p), want[p])}
           /\ opened' = [opened EXCEPT ![want[p]] = @ + 1]
           /\ \/ /\ pc' = [pc EXCEPT ![p] = "emit"]
                 /\ \E end \in Opening : status' = [status EXCEPT ![p] = end]
              \/ pc' = [pc EXCEPT ![p] = "orphaned"] /\ status' = status
  <2>1. /\ \A v \in Versions : opened[v] \in Nat
        /\ \A v \in Versions : opened'[v] = IF v = want[p] THEN opened[v] + 1 ELSE opened[v]
        /\ opened' \in [Versions -> Nat]
    BY <1>2, <1>5 DEF TypeOK
  <2>2. TypeOK'
    <3>1. prs' \subseteq [number : Nat, branch : DOMAIN remote, version : Versions]
      <4>1. NewPR(opened[want[p]] + 1, Branch(p), want[p]) \in [number : Nat, branch : DOMAIN remote, version : Versions]
        BY <1>2, <1>5, <2>1 DEF NewPR, Pushed
      <4>. QED
        BY <1>2, <1>5, <4>1 DEF TypeOK
    <3>2. status' \in [Invocations -> Statuses]
      BY <1>2, <1>5 DEF TypeOK, Statuses, Opening
    <3>3. pc' \in [Invocations -> Final \union {"idle", "cloned", "look", "push", "create", "emit"}]
      BY <1>2, <1>5 DEF TypeOK, Final
    <3>. QED
      BY <1>1, <1>2, <2>1, <3>1, <3>2, <3>3 DEF TypeOK
  <2>3. Named'
    <3>1. PICK new : new = NewPR(opened[want[p]] + 1, Branch(p), want[p])
      OBVIOUS
    <3>2. prs' = prs \union {new} /\ new.branch = Branch(p) /\ new.version = want[p]
      BY <1>5, <3>1 DEF NewPR
    <3>3. \A pr \in prs : pr.branch # Branch(p)
      BY <1>5 DEF OpenPR
    <3>4. Branch(p) = <<want[p]>>
      BY DEF Branch, BranchName
    <3>. QED
      BY <1>1, <3>2, <3>3, <3>4 DEF IInv, Named
  <2>4. Agreed'
    BY <1>1, <1>2, <1>3, <1>5 DEF IInv, Agreed, TypeOK
  <2>5. Found'
    <3>1. \A pr \in prs : pr.version \in Versions
      BY <1>2 DEF TypeOK
    <3>2. \A pr \in prs' : opened'[pr.version] > 0
      BY <1>2, <1>5, <2>1, <3>1 DEF IInv, Found, NewPR
    <3>3. \A q \in Invocations : status'[q] = "ALREADY_OPEN" => opened'[want[q]] > 0
      BY <1>2, <1>5, <2>1 DEF IInv, Found, TypeOK, Opening
    <3>. QED
      BY <1>1, <3>2, <3>3 DEF Found
  <2>6. Counted'
    <3>1. ASSUME NEW v \in Versions PROVE Cardinality(Openers(v)') <= opened'[v]
      <4>1. Openers(v)' \subseteq IF v = want[p] THEN Openers(v) \union {p} ELSE Openers(v)
        BY <1>1, <1>2, <1>5 DEF TypeOK, Openers
      <4>2. IsFiniteSet(Openers(v)) /\ Openers(v) \subseteq Invocations
        BY PRAssumption, FS_Subset DEF Openers
      <4>3. /\ IsFiniteSet(Openers(v) \union {p})
            /\ Cardinality(Openers(v) \union {p}) <= Cardinality(Openers(v)) + 1
            /\ Cardinality(Openers(v)) \in Nat
        <5>1. Cardinality(Openers(v)) \in Nat
          BY <4>2, FS_CardinalityType
        <5>2. IsFiniteSet(Openers(v) \union {p})
          BY <4>2, FS_AddElement
        <5>3. Cardinality(Openers(v) \union {p}) \in {Cardinality(Openers(v)), Cardinality(Openers(v)) + 1}
          BY <4>2, FS_AddElement
        <5>. QED
          BY <5>1, <5>2, <5>3
      <4>4. Cardinality(Openers(v)) <= opened[v]
        BY DEF IInv, Counted
      <4>5. CASE v = want[p]
        <5>1. Cardinality(Openers(v)') <= Cardinality(Openers(v) \union {p})
          BY <4>1, <4>3, <4>5, FS_Subset
        <5>2. Cardinality(Openers(v)') \in Nat /\ Cardinality(Openers(v) \union {p}) \in Nat
          BY <4>1, <4>3, <4>5, FS_Subset, FS_CardinalityType
        <5>. QED
          BY <2>1, <4>3, <4>4, <4>5, <5>1, <5>2
      <4>6. CASE v # want[p]
        <5>1. Cardinality(Openers(v)') <= Cardinality(Openers(v)) /\ Cardinality(Openers(v)') \in Nat
          BY <4>1, <4>2, <4>6, FS_Subset, FS_CardinalityType
        <5>. QED
          BY <2>1, <4>3, <4>4, <4>6, <5>1
      <4>. QED
        BY <4>5, <4>6
    <3>2. (\A q \in Invocations :
             pc[q] \in {"idle", "cloned", "look", "push", "create"} => status[q] \notin Opening)'
      BY <1>2, <1>5 DEF IInv, Counted, TypeOK
    <3>. QED
      BY <3>1, <3>2 DEF Counted
  <2>7. Written'
    BY <1>1, <1>2, <1>5, NothingWritten DEF IInv, TypeOK
  <2>. QED
    BY <2>2, <2>3, <2>4, <2>5, <2>6, <2>7 DEF IInv
<1>. QED
  BY <1>4, <1>5 DEF CreatePR, GoTo, Report, reporting, Opening

LEMMA EventIs ==
  ASSUME NEW p \in Invocations
  PROVE  /\ EventOf(p).id = <<"uuid", p>> /\ EventOf(p).version = want[p]
         /\ EventOf(p).phase = PromotePhase(status[p])
  BY DEF EventOf, Event

LEMMA StepEmit == ASSUME IInv, NEW p \in Invocations, Emit(p) PROVE IInv'
<1>1. /\ pc[p] = "emit" /\ pc' = [pc EXCEPT ![p] = "done"] /\ clone' = clone /\ consent' = consent
      /\ commits' = commits /\ base' = base /\ remote' = remote /\ prs' = prs /\ want' = want
      /\ opened' = opened /\ status' = status
  BY DEF Emit, GoTo
<1>2. \/ PromotePhase(status[p]) = None /\ ledger' = ledger /\ lost' = lost
      \/ PromotePhase(status[p]) # None /\ ledger' = Write(ledger, EventOf(p), p) /\ lost' = lost
      \/ PromotePhase(status[p]) # None /\ ledger' = ledger /\ lost' = [lost EXCEPT ![p] = TRUE]
  BY DEF Emit, EventOf
<1>3. TypeOK' /\ Named' /\ Found'
  BY <1>1, <1>2 DEF IInv, TypeOK, Named, Found, Final
<1>4. Agreed'
  <2>1. ASSUME NEW q \in Invocations PROVE Downgrades(q)' = Downgrades(q)
    BY <1>1 DEF Downgrades, Drift
  <2>. QED
    BY <1>1, <2>1 DEF IInv, Agreed, TypeOK
<1>5. Counted'
  BY <1>1 DEF IInv, Counted, TypeOK, Openers
<1>6. Written'
  <2>1. ASSUME NEW q \in Invocations PROVE EventOf(q)' = EventOf(q)
    BY <1>1 DEF EventOf, Branch, BranchName
  <2>2. /\ \A q \in Invocations : pc'[q] = "done" <=> q = p \/ pc[q] = "done"
        /\ pc[p] # "done"
    BY <1>1 DEF IInv, TypeOK
  <2>3. Write(ledger, EventOf(p), p) = ledger \union {EventOf(p)}
    <3>1. ASSUME NEW e \in ledger PROVE e.id # EventOf(p).id
      <4>1. PICK q \in Invocations : pc[q] = "done" /\ e = EventOf(q)
        BY <3>1 DEF IInv, Written
      <4>2. e.id = <<"uuid", q>> /\ EventOf(p).id = <<"uuid", p>> /\ p # q
        BY <2>2, <4>1, EventIs
      <4>. QED
        BY <4>2
    <3>. QED
      BY <3>1 DEF Write
  <2>4. ASSUME NEW e \in ledger' PROVE \E q \in Invocations : pc'[q] = "done" /\ e = EventOf(q)'
    <3>1. e \in ledger \/ e = EventOf(p)
      BY <1>2, <2>3
    <3>. QED
      BY <2>1, <2>2, <3>1 DEF IInv, Written
  <2>5. ASSUME NEW q \in Invocations, pc'[q] = "done", ~lost'[q], PromotePhase(status[q]) # None
        PROVE  EventOf(q) \in ledger'
    BY <1>2, <2>2, <2>3, <2>5 DEF IInv, Written, TypeOK
  <2>. QED
    BY <1>1, <2>1, <2>4, <2>5 DEF Written
<1>. QED
  BY <1>3, <1>4, <1>5, <1>6 DEF IInv

LEMMA StepFail == ASSUME IInv, NEW p \in Invocations, Fail(p) PROVE IInv'
<1>1. /\ pc' = [pc EXCEPT ![p] = "failed"]
      /\ clone' = clone /\ consent' = consent
      /\ commits' = commits /\ base' = base /\ remote' = remote /\ prs' = prs /\ want' = want
      /\ opened' = opened /\ status' = status /\ ledger' = ledger /\ lost' = lost
  BY DEF Fail, GoTo, reporting
<1>2. pc[p] # "done"
  BY DEF Fail, Active, Final
<1>3. TypeOK' /\ Named' /\ Found'
  BY <1>1 DEF IInv, TypeOK, Named, Found, Final
<1>4. Agreed'
  <2>1. ASSUME NEW q \in Invocations PROVE Downgrades(q)' = Downgrades(q)
    BY <1>1 DEF Downgrades, Drift
  <2>. QED
    BY <1>1, <2>1 DEF IInv, Agreed, TypeOK
<1>5. Counted'
  <2>1. ASSUME NEW v \in Versions PROVE Openers(v)' = Openers(v)
    BY <1>1 DEF Openers
  <2>. QED
    BY <1>1, <2>1 DEF IInv, Counted, TypeOK
<1>6. Written'
  BY <1>1, <1>2, NothingWritten DEF IInv, TypeOK
<1>. QED
  BY <1>3, <1>4, <1>5, <1>6 DEF IInv

-----------------------------------------------------------------------------
(***************************************************************************)
(* The remote and its reviewers.                                           *)
(***************************************************************************)

\* What others do leaves the invocations and what they said alone, and takes branches
\* away or leaves what they lead to.
LEMMA StepOfOthers ==
  ASSUME IInv, UNCHANGED <<pc, want, clone, consent, opened, status, ledger, lost>>,
         commits' \in 0 .. MaxCommits, base' \in [Files -> Versions], prs' \subseteq prs,
         \A pr \in prs' : pr.branch \in DOMAIN remote',
         \A b \in DOMAIN remote' : /\ b \in DOMAIN remote /\ remote'[b].from = remote[b].from
                                   /\ remote'[b].to = remote[b].to /\ remote'[b].agreed = remote[b].agreed
  PROVE  IInv'
<1>1. TypeOK'
  <2>1. (\A b \in DOMAIN remote :
           remote[b].from \in [Files -> Versions] /\ remote[b].to \in [Files -> Versions])'
    BY DEF IInv, TypeOK
  <2>2. (prs \subseteq [number : Nat, branch : DOMAIN remote, version : Versions])'
    BY DEF IInv, TypeOK
  <2>. QED
    BY <2>1, <2>2 DEF IInv, TypeOK
<1>2. Named' /\ Found'
  BY DEF IInv, Named, Found
<1>3. Agreed'
  <2>1. ASSUME NEW q \in Invocations PROVE Downgrades(q)' = Downgrades(q)
    BY DEF Downgrades, Drift
  <2>. QED
    BY <2>1 DEF IInv, Agreed
<1>4. Counted'
  BY DEF IInv, Counted, Openers
<1>5. Written'
  BY DEF IInv, Written, EventOf, Branch, BranchName
<1>. QED
  BY <1>1, <1>2, <1>3, <1>4, <1>5 DEF IInv

LEMMA ForgetKeeps ==
  ASSUME IInv, NEW b, remote' \in {remote, Forget(b)}, prs' = {pr \in prs : pr.branch # b}
  PROVE  /\ prs' \subseteq prs /\ \A pr \in prs' : pr.branch \in DOMAIN remote'
         /\ \A c \in DOMAIN remote' : c \in DOMAIN remote /\ remote'[c] = remote[c]
  BY DEF Forget, IInv, TypeOK

LEMMA StepMerge == ASSUME IInv, NEW b \in DOMAIN remote, Merge(b) PROVE IInv'
<1>1. base' \in [Files -> Versions]
  BY DEF Merge, IInv, TypeOK
<1>2. commits' \in 0 .. MaxCommits
  BY DEF Merge, IInv, TypeOK
<1>. QED
  BY <1>1, <1>2, ForgetKeeps, StepOfOthers DEF Merge, reporting

LEMMA StepClosePR == ASSUME IInv, NEW b \in DOMAIN remote, ClosePR(b) PROVE IInv'
<1>1. base' \in [Files -> Versions] /\ commits' \in 0 .. MaxCommits
  BY DEF ClosePR, IInv, TypeOK
<1>. QED
  BY <1>1, ForgetKeeps, StepOfOthers DEF ClosePR, reporting

LEMMA StepAmend == ASSUME IInv, NEW b \in DOMAIN remote, Amend(b) PROVE IInv'
<1>1. base' \in [Files -> Versions] /\ commits' \in 0 .. MaxCommits
  BY PRAssumption DEF Amend, IInv, TypeOK
<1>2. /\ DOMAIN remote' = DOMAIN remote
      /\ \A c \in DOMAIN remote : c # b => remote'[c] = remote[c]
      /\ remote'[b] = [remote[b] EXCEPT !.log = @ \union {commits}]
  BY DEF Amend
<1>3. /\ remote'[b].from = remote[b].from /\ remote'[b].to = remote[b].to
      /\ remote'[b].agreed = remote[b].agreed
  BY <1>2
<1>4. prs' \subseteq prs /\ \A pr \in prs' : pr.branch \in DOMAIN remote'
  BY <1>2 DEF Amend, IInv, TypeOK
<1>. QED
  BY <1>1, <1>2, <1>3, <1>4, StepOfOthers DEF Amend, reporting

LEMMA StepEditBase == ASSUME IInv, EditBase PROVE IInv'
<1>1. base' \in [Files -> Versions] /\ commits' \in 0 .. MaxCommits
  BY PRAssumption DEF EditBase, IInv, TypeOK
<1>2. prs' \subseteq prs /\ \A pr \in prs' : pr.branch \in DOMAIN remote'
  BY DEF EditBase, IInv, TypeOK
<1>. QED
  BY <1>1, <1>2, StepOfOthers DEF EditBase, reporting

-----------------------------------------------------------------------------
(***************************************************************************)
(* The invariant, and what it means.                                       *)
(***************************************************************************)

LEMMA InitInvariant == Init => IInv
<1> SUFFICES ASSUME Init PROVE IInv
  OBVIOUS
<1>1. TypeOK
  BY PRAssumption DEF Init, TypeOK, Final, Statuses
<1>2. Named /\ Found /\ Written
  BY DEF Init, Named, Found, Written
<1>3. Agreed
  BY DEF Init, Agreed
<1>4. Counted
  <2>1. ASSUME NEW v \in Versions PROVE Openers(v) = {}
    BY DEF Init, Openers, Opening
  <2>2. Cardinality({}) = 0
    BY FS_EmptySet
  <2>3. ASSUME NEW v \in Versions PROVE Cardinality(Openers(v)) <= opened[v]
    <3>1. Cardinality(Openers(v)) = 0
      BY <2>1, <2>2
    <3>2. opened[v] = 0
      BY DEF Init
    <3>. QED
      BY <3>1, <3>2
  <2>4. \A p \in Invocations : status[p] \notin Opening
    BY DEF Init, Opening
  <2>. QED
    BY <2>3, <2>4 DEF Counted
<1>. QED
  BY <1>1, <1>2, <1>3, <1>4 DEF IInv

LEMMA NextInvariant == IInv /\ [Next]_vars => IInv'
<1> SUFFICES ASSUME IInv, [Next]_vars PROVE IInv'
  OBVIOUS
<1>1. ASSUME NEW p \in Invocations, Invoke(p) PROVE IInv'
  BY <1>1, StepClone, StepDecide, StepFindPR, StepPush, StepCreatePR, StepEmit, StepFail DEF Invoke
<1>2. ASSUME NEW b \in DOMAIN remote, Merge(b) \/ ClosePR(b) \/ Amend(b) PROVE IInv'
  BY <1>2, StepMerge, StepClosePR, StepAmend
<1>3. CASE EditBase
  BY <1>3, StepEditBase
<1>4. CASE UNCHANGED vars
  <2>1. commits' \in 0 .. MaxCommits /\ base' \in [Files -> Versions]
    BY <1>4 DEF vars, IInv, TypeOK
  <2>2. \A pr \in prs' : pr.branch \in DOMAIN remote'
    BY <1>4 DEF vars, IInv, TypeOK
  <2>. QED
    BY <1>4, <2>1, <2>2, StepOfOthers DEF vars, reporting
<1>. QED
  BY <1>1, <1>2, <1>3, <1>4 DEF Next

LEMMA Invariant == Spec => []IInv
  BY InitInvariant, NextInvariant, PTL DEF Spec

\* Every variable keeps its type; an open PR is one of a branch that is on the remote.
THEOREM TypeIsInvariant == Spec => []TypeOK
<1>1. IInv => TypeOK
  BY DEF IInv
<1>. QED
  BY <1>1, Invariant, PTL

\* Same request, same branch, one PR, for any number of invocations that overlap, fail and
\* are killed: two open PRs of a version have the same number, and lead to that version.
THEOREM RequestsHaveOnePR == Spec => []OnePRPerRequest
<1>1. ASSUME IInv, NEW x \in prs, NEW y \in prs, x.version = y.version PROVE x.number = y.number
  <2>1. /\ x \in [number : Nat, branch : DOMAIN remote, version : Versions]
        /\ y \in [number : Nat, branch : DOMAIN remote, version : Versions]
    BY <1>1 DEF IInv, TypeOK
  <2>2. x.branch = <<x.version>> /\ y.branch = <<y.version>>
    BY <1>1 DEF IInv, Named
  <2>3. x = y
    BY <1>1, <2>2 DEF IInv, Named
  <2>. QED
    BY <2>3
<1>2. ASSUME IInv, NEW x \in prs PROVE remote[x.branch].to = AllAt(x.version)
  BY <1>2 DEF IInv, TypeOK, Named
<1>3. IInv => OnePRPerRequest
  BY <1>1, <1>2 DEF OnePRPerRequest
<1>. QED
  BY <1>3, Invariant, PTL

\* The timeline of a version tells of no more PRs than were opened for it, and that one
\* waits to be merged only after one was, for any number of re-runs.
THEOREM TimelineIsTrue == Spec => []EventsAreTrue
<1>1. ASSUME IInv, NEW v \in Versions, NEW phase,
             NEW e \in {d \in ledger : d.version = v /\ d.phase = phase}
      PROVE  \E p \in Invocations : /\ e = EventOf(p) /\ want[p] = v /\ PromotePhase(status[p]) = phase
  <2>1. PICK p \in Invocations : e = EventOf(p)
    BY <1>1 DEF IInv, Written
  <2>. QED
    BY <1>1, <2>1, EventIs
<1>2. ASSUME IInv, NEW v \in Versions
      PROVE  LET Told(phase) == {e \in ledger : e.version = v /\ e.phase = phase}
             IN /\ Cardinality(Told("FLUX_PR_OPEN")) <= opened[v]
                /\ Told("AWAITING_MERGE") # {} => opened[v] > 0
  <2> DEFINE Told(phase) == {e \in ledger : e.version = v /\ e.phase = phase}
  <2>1. Cardinality(Told("FLUX_PR_OPEN")) <= opened[v]
    <3> DEFINE T == Told("FLUX_PR_OPEN")
               f == [e \in T |-> CHOOSE p \in Openers(v) : e = EventOf(p)]
    <3>1. ASSUME NEW e \in T PROVE \E p \in Openers(v) : e = EventOf(p)
      <4>1. PICK p \in Invocations : e = EventOf(p) /\ want[p] = v /\ PromotePhase(status[p]) = "FLUX_PR_OPEN"
        BY <1>1, <1>2, <3>1
      <4>2. status[p] \in Opening
        BY <4>1 DEF PromotePhase, Opening, None
      <4>. QED
        BY <4>1, <4>2 DEF Openers
    <3>2. \A e \in T : f[e] \in Openers(v) /\ e = EventOf(f[e])
      BY <3>1
    <3>3. f \in Injection(T, Openers(v))
      <4>1. f \in [T -> Openers(v)] /\ \A a, b \in T : f[a] = f[b] => a = b
        BY <3>2
      <4>. QED
        BY <4>1 DEF Injection, IsInjective
    <3>4. IsFiniteSet(Openers(v))
      BY PRAssumption, FS_Subset DEF Openers
    <3> HIDE DEF T, f
    <3>5. IsFiniteSet(T) /\ Cardinality(T) <= Cardinality(Openers(v))
      BY <3>3, <3>4, FS_Injection
    <3>6. Cardinality(T) \in Nat /\ Cardinality(Openers(v)) \in Nat
      BY <3>4, <3>5, FS_CardinalityType
    <3>7. Cardinality(Openers(v)) <= opened[v] /\ opened[v] \in Nat
      BY <1>2 DEF IInv, Counted, TypeOK
    <3>8. Cardinality(T) <= opened[v]
      BY <3>5, <3>6, <3>7
    <3>. QED
      BY <3>8 DEF T
  <2>2. ASSUME Told("AWAITING_MERGE") # {} PROVE opened[v] > 0
    <3>1. PICK e : e \in Told("AWAITING_MERGE")
      BY <2>2
    <3>2. PICK p \in Invocations : want[p] = v /\ PromotePhase(status[p]) = "AWAITING_MERGE"
      BY <1>1, <1>2, <3>1
    <3>3. status[p] = "ALREADY_OPEN"
      BY <3>2 DEF PromotePhase, None
    <3>. QED
      BY <1>2, <3>2, <3>3 DEF IInv, Found
  <2>. QED
    BY <2>1, <2>2
<1>3. IInv => EventsAreTrue
  BY <1>2 DEF EventsAreTrue
<1>. QED
  BY <1>3, Invariant, PTL

\* An invocation that opened or found a PR left it on the timeline, unless its event was lost.
THEOREM PRsAreOnRecord == Spec => []OpenIsOnRecord
<1>1. ASSUME IInv, NEW p \in Invocations, pc[p] = "done",
             status[p] \in {"ALREADY_OPEN", "PR_OPENED", "PUSHED"}, ~lost[p]
      PROVE  \E e \in ledger : e.version = want[p] /\ e.phase \in {"FLUX_PR_OPEN", "AWAITING_MERGE"}
  <2>1. PromotePhase(status[p]) \in {"FLUX_PR_OPEN", "AWAITING_MERGE"}
    BY <1>1 DEF PromotePhase
  <2>2. EventOf(p) \in ledger
    BY <1>1, <2>1 DEF IInv, Written, None
  <2>. QED
    BY <2>1, <2>2, EventIs
<1>2. IInv => OpenIsOnRecord
  BY <1>1 DEF OpenIsOnRecord
<1>. QED
  BY <1>2, Invariant, PTL

\* No invocation takes a commit off a promotion branch that is on the remote.
THEOREM BranchesOnlyGrow == Spec => BranchIsNeverRewritten
<1>1. ASSUME [Next]_vars, NEW b \in DOMAIN remote, b \in DOMAIN remote'
      PROVE  remote[b].log \subseteq remote'[b].log
  <2>1. CASE remote' = remote
    BY <2>1
  <2>2. ASSUME NEW p \in Invocations, Invoke(p) PROVE remote[b].log \subseteq remote'[b].log
    <3>1. CASE Push(p)
      <4>1. remote' = remote \/ (~Pushed(Branch(p)) /\ \E r : remote' = Hold(Branch(p), r))
        BY <3>1 DEF Push
      <4>2. remote'[b] = remote[b]
        BY <1>1, <4>1 DEF Hold, Pushed
      <4>. QED
        BY <4>2
    <3>2. CASE ~Push(p)
      <4>1. remote' = remote
        BY <2>2, <3>2 DEF Invoke, Clone, Decide, FindPR, CreatePR, Emit, Fail
      <4>. QED
        BY <4>1
    <3>. QED
      BY <3>1, <3>2
  <2>3. ASSUME NEW c \in DOMAIN remote, Merge(c) \/ ClosePR(c) PROVE remote[b].log \subseteq remote'[b].log
    <3>1. remote'[b] = remote[b]
      BY <1>1, <2>3 DEF Merge, ClosePR, Forget
    <3>. QED
      BY <3>1
  <2>4. ASSUME NEW c \in DOMAIN remote, Amend(c) PROVE remote[b].log \subseteq remote'[b].log
    <3>1. CASE b # c
      BY <2>4, <3>1 DEF Amend
    <3>2. CASE b = c
      <4>1. remote'[b] = [remote[b] EXCEPT !.log = @ \union {commits}]
        BY <2>4, <3>2 DEF Amend
      <4>. QED
        BY <4>1
    <3>. QED
      BY <3>1, <3>2
  <2>. QED
    BY <1>1, <2>1, <2>2, <2>3, <2>4 DEF Next, EditBase, vars
<1>2. [Next]_vars =>
        [\A b \in DOMAIN remote : b \in DOMAIN remote' => remote[b].log \subseteq remote'[b].log]_vars
  BY <1>1
<1>. QED
  BY <1>2, PTL DEF Spec, BranchIsNeverRewritten

\* Merging a promotion lowers a file's version only if that was agreed to, however the
\* base branch moved on since the clone was looked at.
THEOREM DowngradesAreAgreed == Spec => NoSilentDowngrade
<1>1. ASSUME IInv, NEW b \in DOMAIN remote, Merge(b), NEW f \in Files, Newer(base[f], base'[f])
      PROVE  remote[b].agreed
  <2>1. base'[f] = IF f \in Changed(b) THEN remote[b].to[f] ELSE base[f]
    BY <1>1 DEF Merge
  <2>2. base[f] \in Nat
    BY <1>1, PRAssumption DEF IInv, TypeOK
  <2>3. f \in Changed(b) /\ base'[f] = remote[b].to[f] /\ base[f] # remote[b].to[f]
    BY <1>1, <2>1, <2>2 DEF Newer
  <2>4. base[f] = remote[b].from[f]
    BY <1>1, <2>3 DEF Merge, Mergeable
  <2>. QED
    BY <1>1, <2>3, <2>4 DEF IInv, Agreed
<1>2. IInv /\ [Next]_vars =>
        [\A b \in DOMAIN remote :
           Merge(b) => \A f \in Files : Newer(base[f], base'[f]) => remote[b].agreed]_vars
  BY <1>1
<1>. QED
  BY <1>2, Invariant, PTL DEF Spec, NoSilentDowngrade

\* The timeline of a version tells what became of its PRs.
THEOREM PRsAreOnTheTimeline == Spec => []OnTheTimeline
BY TimelineIsTrue, PRsAreOnRecord, PTL DEF OnTheTimeline
=============================================================================
