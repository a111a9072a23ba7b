--------------------------- MODULE Decisions_proofs ---------------------------
(***************************************************************************)
(* Proofs about the deciders that run alone, for any input.                *)
(*                                                                         *)
(* InstallPlan, for any set of profiles, whatever they require and         *)
(* whatever is asked for: the merged plan has everything once and in       *)
(* order, nothing that no root requires, and a plan is refused as cyclic   *)
(* only if it is; and the steps of a plan are all, and only, what its      *)
(* entries declare, in the order they run.                                 *)
(*                                                                         *)
(* What is planned of one root is in order (SortedOf), since a profile     *)
(* leaves the path only when all that it requires has left it before       *)
(* (PathOf); the merge keeps this order across roots, since what it has    *)
(* not merged yet requires only what is merged or comes before (PendsOn).  *)
(*                                                                         *)
(* Polls, for any version and any set of statuses and of listings:         *)
(* whatever a HelmRelease shows, a READY decision is warranted, and asking *)
(* for the workloads only when they are needed loses nothing.              *)
(*                                                                         *)
(* Timeline, for any events: a page is the newest of what matches.         *)
(* Freshness, for any declarations and any sequence of edits, updates and  *)
(* losses: what is believed fresh is, since a digest is written last and   *)
(* of what was resolved, and the archives were resolved (Believed).        *)
(*                                                                         *)
(* Decisions, for any inputs: what kubectl prints is read as it is; a      *)
(* promotion edits and watches every release whose chart is its text; what *)
(* changed selects its direct dependents, and a pattern matches, since     *)
(* the matcher is the only function that satisfies its recursion, which    *)
(* what a pattern means does as well (RecursionIsUnique); a check passes   *)
(* what it has seen; and what a workstation requires is there before,      *)
(* since what the target leaves out is in bootstrap or at the first place  *)
(* that has it, which is before (FirstPlace).                              *)
(***************************************************************************)
EXTENDS Decisions, InstallPlan, Polls, Timeline, Freshness, SequenceTheorems, FiniteSetTheorems,
        WellFoundedInduction, TLAPS

-----------------------------------------------------------------------------
\* What is decided is decided of a status and of an answer of the listing.
PollsOnly == status \in Statuses /\ listing \in Listings

LEMMA PollsInvariant == PollSpec => []PollsOnly
<1> USE DEF PollsOnly
<1>1. PollInit => PollsOnly
  BY PollsAssumption DEF PollInit
<1>2. PollsOnly /\ [Poll]_pollVars => PollsOnly'
  BY DEF Poll, pollVars
<1>. QED
  BY <1>1, <1>2, PTL DEF PollSpec

-----------------------------------------------------------------------------
(***************************************************************************)
(* Classify, and the two steps.                                            *)
(***************************************************************************)

\* Classify: READY is said of what is converged and of a listing that was read.
LEMMA ReadyIsWarranted ==
  ASSUME NEW s, NEW v, NEW l,
         Classify(s, v, l).terminal, Classify(s, v, l).verdict = "READY"
  PROVE  /\ ~s.suspended /\ ~s.stalled /\ ~TestsFailed(s)
         /\ ConvergedHR(s, v) /\ l.read /\ l.pending = {}
<1>1. ~s.suspended /\ ~s.stalled /\ ~GaveUp(s) /\ ~TestsFailed(s)
  BY DEF Classify, Terminal, Waiting
<1>2. ConvergedHR(s, v) /\ l.read /\ l.pending = {}
  BY <1>1 DEF Classify, Terminal, Waiting
<1>. QED
  BY <1>1, <1>2

\* Classify without a listing never says READY.
LEMMA UnreadIsNotReady ==
  ASSUME NEW s, NEW v, Classify(s, v, Unread).terminal
  PROVE  Classify(s, v, Unread).verdict # "READY"
  BY ReadyIsWarranted DEF Unread

\* A listing that the first answer does not ask for would not change it.
LEMMA UnneededChangesNothing ==
  ASSUME NEW s, NEW v, NEW l,
         ~(~Classify(s, v, Unread).terminal /\ Classify(s, v, Unread).needsWorkloads)
  PROVE  Classify(s, v, l) = Classify(s, v, Unread)
<1>1. CASE s.suspended \/ s.stalled \/ GaveUp(s) \/ TestsFailed(s)
  BY <1>1 DEF Classify
<1>2. CASE ~(s.suspended \/ s.stalled \/ GaveUp(s) \/ TestsFailed(s))
  <2>1. ~ConvergedHR(s, v)
    BY <1>2 DEF Classify, Terminal, Waiting, Unread
  <2>. QED
    BY <1>2, <2>1 DEF Classify
<1>. QED
  BY <1>1, <1>2

-----------------------------------------------------------------------------
(***************************************************************************)
(* Theorems.                                                               *)
(***************************************************************************)

\* _evaluate: a release is called READY only when its HelmRelease is converged on the
\* version and a listing that was read shows no workload pending.
THEOREM ReadyIsConverged == PollSpec => []ReadyMeansConverged
<1>1. PollsOnly => ReadyMeansConverged
  <2>. SUFFICES ASSUME PollsOnly, Decision.terminal, Decision.verdict = "READY"
                PROVE  /\ ~status.suspended /\ ~status.stalled /\ ~TestsFailed(status)
                       /\ ConvergedHR(status, Version) /\ listing.read /\ listing.pending = {}
    BY DEF ReadyMeansConverged, TestsFailed, ConvergedHR, CaughtUp
  <2>1. Decision = Classify(status, Version, listing)
    BY UnreadIsNotReady DEF Decision, Evaluate
  <2>. QED
    BY <2>1, ReadyIsWarranted
<1>. QED
  BY <1>1, PollsInvariant, PTL

\* _evaluate: listing the workloads only when the first answer needs them decides as if
\* they had been listed at once.
THEOREM TwoStepsAreOne == PollSpec => []TwoStepsDecideAsOne
<1>1. PollsOnly => TwoStepsDecideAsOne
  BY UnneededChangesNothing DEF TwoStepsDecideAsOne, Decision, Evaluate
<1>. QED
  BY <1>1, PollsInvariant, PTL

\* READY is said of what has converged, and asking in two steps changes no decision.
THEOREM DecisionsAreSound == PollSpec => []PollsAreJudged
BY ReadyIsConverged, TwoStepsAreOne, PTL DEF PollsAreJudged


Needs(k) == Elements(requires[k])

\* What local leaves to bootstrap.
Left(k) == request.by = "local" /\ k \in owned

\* A path: each profile on it requires the next, and of what it requires all is left,
\* planned, or the next; it starts at the root.
PathOf(v, planned) ==
  /\ v # <<>> /\ v[1].key = request.roots[root]
  /\ \A n \in 1 .. Len(v) : Elements(v[n].left) \subseteq Needs(v[n].key)
  /\ \A n \in 1 .. Len(v) - 1 : v[n + 1].key \in Needs(v[n].key)
  /\ \A n \in 1 .. Len(v) - 1 : \A k \in Needs(v[n].key) :
       k \in Elements(v[n].left) \union planned \union {v[n + 1].key}
  /\ \A k \in Needs(v[Len(v)].key) : k \in Elements(v[Len(v)].left) \union planned

Path == PathOf(visiting, Elements(plan))

\* What is planned of this root comes after all that it requires.
SortedOf(p) ==
  \A j \in DOMAIN p : \A k \in Needs(p[j]) : \E i \in 1 .. j - 1 : p[i] = k

Sorted == SortedOf(plan)

\* What is merged, or left to bootstrap.
Had == EntryKeys \union {k \in owned : Left(k)}

\* What is not merged requires what is, or what comes before it.
PendsOn(p, had) ==
  \A j \in DOMAIN p : \A k \in Needs(p[j]) : k \in had \/ \E i \in 1 .. j - 1 : p[i] = k

Unmerged == PendsOn(plan, Had)

\* Everything that any set has that holds the roots and what its members require.
Needed(k) == \A S \in SUBSET Keys : Selected \subseteq S /\ Closed(S) => k \in S

\* What each phase may rely on.
Phase ==
  /\ pc = "open" => visiting = <<>> /\ plan = <<>>
  /\ pc \in {"walk", "cycle"} => Path
  /\ pc = "walk" => Sorted
  /\ pc = "cycle" => Top.left # <<>> /\ Head(Top.left) \in OnPath
  /\ pc = "merge" => /\ visiting = <<>> /\ Unmerged
                     /\ plan # <<>> => plan[Len(plan)] = request.roots[root]
                     /\ \/ request.roots[root] \in Elements(plan) \union EntryKeys
                        \/ Left(request.roots[root])
  /\ \A n \in 1 .. root - 1 : request.roots[n] \in EntryKeys \/ Left(request.roots[n])
  /\ pc \in {"compile", "done"} =>
       request.roots[root] \in EntryKeys \/ Left(request.roots[root])
  /\ pc \in {"compile", "done"} => root = Len(request.roots)
  /\ at # 0

IInv ==
  /\ TypeOK
  /\ Phase
  /\ \A k \in OnPath \union Elements(plan) \union EntryKeys : Needed(k)
  /\ RequirementsFirst
  /\ EachOnce
  /\ OnlySelectedMove

-----------------------------------------------------------------------------
(***************************************************************************)
(* Sequences.                                                              *)
(***************************************************************************)

LEMMA ElementsAppend ==
  ASSUME NEW S, NEW s \in Seq(S), NEW x \in S
  PROVE  /\ Elements(Append(s, x)) = Elements(s) \union {x}
         /\ Append(s, x) \in Seq(S) /\ Len(Append(s, x)) = Len(s) + 1
         /\ Append(s, x)[Len(s) + 1] = x
         /\ \A i \in DOMAIN s : Append(s, x)[i] = s[i]
         /\ DOMAIN s = 1 .. Len(s) /\ DOMAIN Append(s, x) = 1 .. Len(s) + 1
<1>1. /\ Append(s, x) \in Seq(S) /\ Len(Append(s, x)) = Len(s) + 1
      /\ Append(s, x)[Len(s) + 1] = x
      /\ \A i \in 1 .. Len(s) : Append(s, x)[i] = s[i]
  BY AppendProperties
<1>2. /\ DOMAIN s = 1 .. Len(s) /\ DOMAIN Append(s, x) = 1 .. Len(s) + 1 /\ Len(s) \in Nat
  BY <1>1, LenProperties
<1>3. Elements(Append(s, x)) = Elements(s) \union {x}
  <2>1. ASSUME NEW y \in Elements(Append(s, x)) PROVE y \in Elements(s) \union {x}
    BY <1>1, <1>2, <2>1 DEF Elements
  <2>2. ASSUME NEW y \in Elements(s) PROVE y \in Elements(Append(s, x))
    BY <1>1, <1>2, <2>2 DEF Elements
  <2>3. x \in Elements(Append(s, x))
    BY <1>1, <1>2 DEF Elements
  <2>. QED
    BY <2>1, <2>2, <2>3
<1>. QED
  BY <1>1, <1>2, <1>3

LEMMA ElementsTail ==
  ASSUME NEW S, NEW s \in Seq(S), s # <<>>
  PROVE  /\ Elements(s) = {Head(s)} \union Elements(Tail(s))
         /\ Head(s) \in S /\ Head(s) = s[1] /\ Tail(s) \in Seq(S)
         /\ Len(s) \in Nat \ {0} /\ Len(Tail(s)) = Len(s) - 1
         /\ \A i \in 1 .. Len(s) - 1 : Tail(s)[i] = s[i + 1]
         /\ DOMAIN s = 1 .. Len(s) /\ DOMAIN Tail(s) = 1 .. Len(s) - 1
<1>1. /\ Len(s) \in Nat \ {0} /\ DOMAIN s = 1 .. Len(s)
  BY LenProperties, EmptySeq
<1>2. /\ Head(s) = s[1] /\ Head(s) \in S /\ Tail(s) \in Seq(S)
      /\ Len(Tail(s)) = Len(s) - 1
      /\ \A i \in 1 .. Len(Tail(s)) : Tail(s)[i] = s[i + 1]
  BY HeadTailProperties
<1>3. DOMAIN Tail(s) = 1 .. Len(s) - 1
  BY <1>2, LenProperties
<1>4. Elements(s) = {Head(s)} \union Elements(Tail(s))
  <2>1. ASSUME NEW i \in 1 .. Len(s) PROVE s[i] \in {Head(s)} \union Elements(Tail(s))
    <3>1. CASE i = 1
      BY <1>2, <3>1
    <3>2. CASE i # 1
      <4>1. i - 1 \in DOMAIN Tail(s) /\ Tail(s)[i - 1] = s[i]
        BY <1>1, <1>2, <1>3, <2>1, <3>2
      <4>. QED
        BY <4>1 DEF Elements
    <3>. QED
      BY <3>1, <3>2
  <2>2. ASSUME NEW i \in DOMAIN Tail(s) PROVE Tail(s)[i] \in Elements(s)
    <3>1. i + 1 \in DOMAIN s /\ Tail(s)[i] = s[i + 1]
      BY <1>1, <1>2, <1>3, <2>2
    <3>. QED
      BY <3>1 DEF Elements
  <2>3. Head(s) \in Elements(s)
    BY <1>1, <1>2 DEF Elements
  <2>. QED
    BY <1>1, <2>1, <2>2, <2>3 DEF Elements
<1>. QED
  BY <1>1, <1>2, <1>3, <1>4

-----------------------------------------------------------------------------
(***************************************************************************)
(* The path.                                                               *)
(***************************************************************************)

Frames == [key : Keys, left : Seq(Keys)]

\* What is required is of the profiles that there are.
LEMMA RequiresType ==
  ASSUME TypeOK, NEW k \in Keys
  PROVE  requires[k] \in Seq(Keys) /\ Needs(k) \subseteq Keys
<1>1. requires[k] \in Seq(Keys)
  BY PlanAssumption DEF TypeOK
<1>. QED
  BY <1>1 DEF Needs, Elements

LEMMA RootType ==
  ASSUME TypeOK
  PROVE  /\ request.roots \in Seq(Keys) /\ Len(request.roots) \in Nat /\ root \in 1 .. Len(request.roots)
         /\ \A n \in 1 .. Len(request.roots) : request.roots[n] \in Keys /\ request.roots[n] \in Selected
<1>1. request.roots \in Seq(Keys)
  BY PlanAssumption DEF TypeOK
<1>2. Len(request.roots) \in Nat /\ DOMAIN request.roots = 1 .. Len(request.roots)
  BY <1>1, LenProperties
<1>3. root \in DOMAIN request.roots
  BY DEF TypeOK
<1>4. \A n \in 1 .. Len(request.roots) : request.roots[n] \in Keys
  BY <1>1, <1>2, ElementOfSeq
<1>. QED
  BY <1>1, <1>2, <1>3, <1>4 DEF Selected, Elements

\* The path as it stands: the last profile on it is on it.
LEMMA PathType ==
  ASSUME TypeOK, visiting # <<>>
  PROVE  /\ Len(visiting) \in Nat \ {0} /\ DOMAIN visiting = 1 .. Len(visiting)
         /\ \A n \in 1 .. Len(visiting) : visiting[n] \in Frames
         /\ \A n \in 1 .. Len(visiting) :
              visiting[n].key \in Keys /\ visiting[n].left \in Seq(Keys)
         /\ Top = visiting[Len(visiting)] /\ Top.key \in OnPath
<1>1. visiting \in Seq(Frames)
  BY DEF TypeOK, Frames
<1>2. Len(visiting) \in Nat \ {0} /\ DOMAIN visiting = 1 .. Len(visiting)
  BY <1>1, LenProperties, EmptySeq
<1>3. \A n \in 1 .. Len(visiting) : visiting[n] \in Frames
  BY <1>1, ElementOfSeq
<1>. QED
  BY <1>2, <1>3 DEF Frames, Top, OnPath

\* Taking up a requirement leaves the profiles on the path.
LEMMA TakenIs ==
  ASSUME TypeOK, visiting # <<>>, Top.left # <<>>
  PROVE  /\ Taken \in Seq(Frames) /\ Len(Taken) = Len(visiting) /\ Taken # <<>>
         /\ DOMAIN Taken = 1 .. Len(visiting)
         /\ \A n \in 1 .. Len(visiting) : Taken[n].key = visiting[n].key
         /\ \A n \in 1 .. Len(visiting) - 1 : Taken[n] = visiting[n]
         /\ Taken[Len(visiting)].left = Tail(Top.left)
<1>1. visiting \in Seq(Frames) /\ Len(visiting) \in Nat \ {0} /\ DOMAIN visiting = 1 .. Len(visiting)
  BY PathType DEF TypeOK, Frames
<1>2. Top \in Frames /\ Top = visiting[Len(visiting)]
  BY PathType, <1>1
<1>3. Tail(Top.left) \in Seq(Keys)
  BY <1>2, ElementsTail DEF Frames
<1>4. PICK last \in Frames :
        /\ last.key = Top.key /\ last.left = Tail(Top.left)
        /\ Taken = [visiting EXCEPT ![Len(visiting)] = last]
  <2>1. [Top EXCEPT !.left = Tail(@)] \in Frames
    BY <1>2, <1>3 DEF Frames
  <2>. QED
    BY <1>2, <2>1 DEF Taken, Frames
<1>5. PICK t : t = Taken
  OBVIOUS
<1>6. /\ t \in Seq(Frames) /\ Len(t) = Len(visiting)
      /\ \A n \in 1 .. Len(visiting) : t[n] = IF n = Len(visiting) THEN last ELSE visiting[n]
  BY <1>1, <1>4, <1>5, ExceptSeq
<1>7. t # <<>> /\ DOMAIN t = 1 .. Len(visiting)
  BY <1>1, <1>6, LenProperties, EmptySeq
<1>8. Len(visiting) \in 1 .. Len(visiting)
  BY <1>1
<1>9. \A n \in 1 .. Len(visiting) : t[n].key = visiting[n].key
  BY <1>1, <1>2, <1>4, <1>6
<1>10. t[Len(visiting)].left = Tail(Top.left)
  BY <1>4, <1>6, <1>8
<1>11. \A n \in 1 .. Len(visiting) - 1 : t[n] = visiting[n]
  <2>1. PICK depth \in Nat : depth = Len(visiting)
    BY <1>1
  <2>2. \A n \in 1 .. depth - 1 : n \in 1 .. depth /\ n # depth
    OBVIOUS
  <2>. QED
    BY <1>6, <2>1, <2>2
<1>12. Taken \in Seq(Frames) /\ Len(Taken) = Len(visiting)
  BY <1>5, <1>6
<1>13. Taken # <<>> /\ DOMAIN Taken = 1 .. Len(visiting)
  BY <1>5, <1>7
<1>14. \A n \in 1 .. Len(visiting) : Taken[n].key = visiting[n].key
  BY <1>5, <1>9
<1>15. (\A n \in 1 .. Len(visiting) - 1 : Taken[n] = visiting[n])
     /\ Taken[Len(visiting)].left = Tail(Top.left)
  BY <1>5, <1>10, <1>11
<1>. QED
  BY <1>12, <1>13, <1>14, <1>15

-----------------------------------------------------------------------------
(***************************************************************************)
(* The walk.                                                               *)
(***************************************************************************)

\* What a step of the walk does not touch.
Rest == UNCHANGED <<inputs, root, entries, compiled>>

\* What the walk may be left in.
Walking ==
  /\ visiting \in Seq(Frames) /\ plan \in Seq(Keys)
  /\ pc \in {"walk", "cycle", "merge", "spec"}
  /\ pc \in {"walk", "cycle"} => Path
  /\ pc = "walk" => Sorted
  /\ pc = "cycle" => Top.left # <<>> /\ Head(Top.left) \in OnPath
  /\ pc = "merge" => /\ visiting = <<>> /\ Sorted /\ plan # <<>>
                     /\ plan[Len(plan)] = request.roots[root]
                     /\ request.roots[root] \in Elements(plan)
  /\ \A k \in OnPath \union Elements(plan) : Needed(k)

\* The entries do not change while a root is walked.
LEMMA WalkingIsEnough ==
  ASSUME IInv, Rest, Walking', pc \notin {"compile", "done"}
  PROVE  IInv'
<1>1. /\ requires' = requires /\ request' = request /\ owned' = owned /\ mode' = mode
      /\ root' = root /\ entries' = entries /\ at' = at /\ skipped' = skipped
  BY DEF Rest, inputs, compiled
<1>2. TypeOK'
  BY <1>1 DEF IInv, TypeOK, Walking, Frames
<1>3. RequirementsFirst' /\ EachOnce' /\ OnlySelectedMove'
  BY <1>1 DEF IInv, RequirementsFirst, EachOnce, OnlySelectedMove, Selected
<1>4. (\A k \in OnPath \union Elements(plan) \union EntryKeys : Needed(k))'
  <2>1. ASSUME NEW k, Needed(k) PROVE Needed(k)'
    BY <1>1, <2>1 DEF Needed, Selected, Closed
  <2>2. (\A k \in OnPath \union Elements(plan) : Needed(k))'
    BY DEF Walking
  <2>3. (\A k \in EntryKeys : Needed(k))'
    BY <1>1, <2>1 DEF IInv, EntryKeys
  <2>. QED
    BY <2>2, <2>3
<1>5. (\A n \in 1 .. root - 1 : request.roots[n] \in EntryKeys \/ Left(request.roots[n]))'
  BY <1>1 DEF IInv, Phase, EntryKeys, Left
<1>6. pc' = "merge" => Unmerged'
  BY <1>1 DEF Walking, Sorted, SortedOf, Unmerged, PendsOn
<1>7. at' # 0
  BY <1>1 DEF IInv, Phase
<1>8. Phase'
  BY <1>1, <1>5, <1>6, <1>7 DEF Phase, Walking
<1>. QED
  BY <1>2, <1>3, <1>4, <1>8 DEF IInv

\* A root, or what is required of it, is needed.
LEMMA RootIsNeeded == ASSUME TypeOK PROVE Needed(request.roots[root])
  BY RootType DEF Needed

LEMMA NeedsAreNeeded ==
  ASSUME NEW k \in Keys, Needed(k), NEW r \in Needs(k)
  PROVE  Needed(r)
  BY DEF Needed, Needs, Closed

\* The next requirement of the last profile on the path.
LEMMA NextRequirement ==
  ASSUME IInv, pc = "walk", Top.left # <<>>
  PROVE  /\ Head(Top.left) \in Keys /\ Head(Top.left) \in Needs(Top.key) /\ Needed(Head(Top.left))
         /\ Elements(Top.left) = {Head(Top.left)} \union Elements(Tail(Top.left))
         /\ visiting # <<>> /\ Path /\ TypeOK
<1>1. visiting # <<>> /\ Path /\ TypeOK
  BY DEF IInv, Phase, Path, PathOf
<1>2. Top = visiting[Len(visiting)] /\ Len(visiting) \in DOMAIN visiting /\ Top \in Frames
     /\ Top.key \in OnPath
  BY <1>1, PathType
<1>3. /\ Elements(Top.left) = {Head(Top.left)} \union Elements(Tail(Top.left))
      /\ Head(Top.left) \in Keys
  BY <1>2, ElementsTail DEF Frames
<1>4. Elements(Top.left) \subseteq Needs(Top.key)
  BY <1>1, <1>2, PathType DEF Path, PathOf
<1>5. Needed(Top.key)
  BY <1>2 DEF IInv
<1>6. Head(Top.left) \in Needs(Top.key)
  BY <1>3, <1>4
<1>7. Needed(Head(Top.left))
  BY <1>2, <1>5, <1>6, NeedsAreNeeded DEF Frames
<1>. QED
  BY <1>1, <1>3, <1>6, <1>7

LEMMA StepOpen == ASSUME IInv, Open PROVE IInv'
<1> DEFINE k == request.roots[root]
<1>1. Rest /\ plan' = plan /\ plan = <<>> /\ visiting = <<>> /\ pc = "open"
  BY DEF Open, Rest, IInv, Phase
<1>2. TypeOK /\ k \in Keys /\ Needed(k)
  BY RootType, RootIsNeeded DEF IInv
<1>3. requires[k] \in Seq(Keys)
  BY <1>2, RequiresType
<1>4. requires' = requires /\ request' = request /\ root' = root
  BY <1>1 DEF Rest, inputs
<1>5. CASE pc' = "spec" /\ UNCHANGED visiting
  BY <1>1, <1>2, <1>5, <1>4, WalkingIsEnough DEF Walking, OnPath, Elements, TypeOK, Frames
<1>6. CASE visiting' = Append(visiting, [key |-> k, left |-> requires[k]]) /\ pc' = "walk"
  <2>1. visiting' = <<[key |-> k, left |-> requires[k]]>>
    BY <1>1, <1>6
  <2>2. /\ visiting' \in Seq(Frames) /\ Len(visiting') = 1 /\ DOMAIN visiting' = {1}
        /\ visiting'[1].key = k /\ visiting'[1].left = requires[k] /\ visiting' # <<>>
    BY <1>2, <1>3, <2>1 DEF Frames
  <2>3. Path'
    BY <1>4, <2>2 DEF Path, PathOf, Needs
  <2>4. plan' \in Seq(Keys) /\ Sorted' /\ Elements(plan)' = {} /\ OnPath' = {k}
    BY <1>1, <2>2 DEF Sorted, SortedOf, Elements, OnPath
  <2>5. ASSUME NEW r, Needed(r) PROVE Needed(r)'
    BY <1>4, <2>5 DEF Needed, Selected, Closed
  <2>6. (\A r \in OnPath \union Elements(plan) : Needed(r))'
    BY <1>2, <2>4, <2>5
  <2>7. Walking'
    BY <1>6, <2>2, <2>3, <2>4, <2>6 DEF Walking
  <2>. QED
    BY <1>1, <2>7, WalkingIsEnough
<1>. QED
  BY <1>5, <1>6 DEF Open, Enter

\* t is the path v of length L, with its last requirement k taken up.
TakenOf(t, v, L, k) ==
  /\ L \in Nat \ {0} /\ Len(v) = L /\ Len(t) = L /\ t # <<>>
  /\ \A n \in 1 .. L : t[n].key = v[n].key
  /\ \A n \in 1 .. L - 1 : t[n] = v[n]
  /\ Elements(v[L].left) = {k} \union Elements(t[L].left)

\* u is t with k at its end.
Longer(u, t, L, k) ==
  /\ Len(u) = L + 1 /\ u # <<>> /\ \A n \in 1 .. L : u[n] = t[n]
  /\ u[L + 1].key = k /\ Elements(u[L + 1].left) = Needs(k)

\* The last requirement of a path is planned, and taken up.
LEMMA PathGoesOn ==
  ASSUME NEW v, NEW t, NEW L, NEW k, NEW planned, PathOf(v, planned), TakenOf(t, v, L, k), k \in planned
  PROVE  PathOf(t, planned)
<1> USE DEF PathOf, TakenOf
<1>1. 1 \in 1 .. L /\ L \in 1 .. L /\ t[1].key = v[1].key /\ t[L].key = v[L].key
  OBVIOUS
<1>2. ASSUME NEW n \in 1 .. L PROVE Elements(t[n].left) \subseteq Needs(t[n].key)
  <2>1. CASE n = L
    BY <1>1, <2>1
  <2>2. CASE n # L
    <3>1. n \in 1 .. L - 1
      BY <2>2
    <3>. QED
      BY <3>1
  <2>. QED
    BY <2>1, <2>2
<1>3. ASSUME NEW n \in 1 .. L - 1
      PROVE  /\ t[n + 1].key \in Needs(t[n].key)
             /\ \A r \in Needs(t[n].key) :
                  r \in Elements(t[n].left) \union planned \union {t[n + 1].key}
  <2>1. n + 1 \in 1 .. L /\ t[n + 1].key = v[n + 1].key /\ t[n] = v[n]
    OBVIOUS
  <2>. QED
    BY <2>1
<1>4. \A r \in Needs(t[L].key) : r \in Elements(t[L].left) \union planned
  BY <1>1
<1>. QED
  BY <1>1, <1>2, <1>3, <1>4

\* The last requirement of a path is taken up, and put at its end.
LEMMA PathGrows ==
  ASSUME NEW v, NEW t, NEW u, NEW L, NEW k, NEW planned,
         PathOf(v, planned), TakenOf(t, v, L, k), Longer(u, t, L, k)
  PROVE  PathOf(u, planned)
<1> USE DEF PathOf, TakenOf, Longer
<1>1. /\ 1 \in 1 .. L /\ L \in 1 .. L /\ u[1].key = v[1].key /\ u[L].key = v[L].key
      /\ u[L] = t[L]
  OBVIOUS
<1>2. \A n \in 1 .. L - 1 : n \in 1 .. L /\ u[n] = v[n]
  OBVIOUS
<1>3. ASSUME NEW n \in 1 .. L + 1 PROVE Elements(u[n].left) \subseteq Needs(u[n].key)
  <2>1. CASE n = L + 1
    BY <2>1
  <2>2. CASE n = L
    BY <1>1, <2>2
  <2>3. CASE n \in 1 .. L - 1
    BY <1>2, <2>3
  <2>. QED
    BY <2>1, <2>2, <2>3
<1>4. ASSUME NEW n \in 1 .. L
      PROVE  /\ u[n + 1].key \in Needs(u[n].key)
             /\ \A r \in Needs(u[n].key) :
                  r \in Elements(u[n].left) \union planned \union {u[n + 1].key}
  <2>1. CASE n = L
    BY <1>1, <2>1
  <2>2. CASE n \in 1 .. L - 1
    <3>1. n + 1 \in 1 .. L /\ u[n + 1].key = v[n + 1].key /\ u[n] = v[n]
      BY <1>2, <2>2
    <3>. QED
      BY <2>2, <3>1
  <2>. QED
    BY <2>1, <2>2
<1>5. \A r \in Needs(u[L + 1].key) : r \in Elements(u[L + 1].left) \union planned
  OBVIOUS
<1>6. \A n \in 1 .. Len(u) - 1 : n \in 1 .. L
  OBVIOUS
<1>7. u # <<>> /\ u[1].key = request.roots[root]
  BY <1>1
<1>. QED
  BY <1>3, <1>4, <1>5, <1>6, <1>7

\* The last profile of a path, of which nothing is left, is planned.
LEMMA PathShrinks ==
  ASSUME NEW v, NEW u, NEW L \in Nat, NEW planned, NEW more,
         L > 1, Len(v) = L, PathOf(v, planned),
         Len(u) = L - 1, u # <<>>, \A n \in 1 .. L - 1 : u[n] = v[n],
         more = planned \union {v[L].key}
  PROVE  PathOf(u, more)
<1> USE DEF PathOf
<1>1. u[1].key = request.roots[root] /\ L - 1 \in 1 .. L - 1 /\ L - 1 + 1 = L
  OBVIOUS
<1>2. ASSUME NEW n \in 1 .. L - 1 PROVE n \in 1 .. L /\ u[n] = v[n]
  OBVIOUS
<1>3. ASSUME NEW n \in 1 .. L - 2
      PROVE  n \in 1 .. L - 1 /\ n + 1 \in 1 .. L - 1 /\ u[n] = v[n] /\ u[n + 1] = v[n + 1]
  OBVIOUS
<1>4. \A n \in 1 .. Len(u) : Elements(u[n].left) \subseteq Needs(u[n].key)
  BY <1>2
<1>5. \A n \in 1 .. Len(u) - 1 : n \in 1 .. L - 2
  OBVIOUS
<1>6. \A r \in Needs(u[L - 1].key) : r \in Elements(u[L - 1].left) \union more
  BY <1>1, <1>2
<1>. QED
  BY <1>1, <1>3, <1>4, <1>5, <1>6

\* Walking on, where the path is longer or its last requirement is taken up.
LEMMA StepVisit == ASSUME IInv, Visit PROVE IInv'
<1>1. /\ pc = "walk" /\ Top.left # <<>> /\ Rest /\ plan' = plan
      /\ requires' = requires /\ request' = request /\ root' = root
  BY DEF Visit, Rest, inputs
<1>2. PICK k : k = Head(Top.left)
  OBVIOUS
<1>3. /\ k \in Keys /\ k \in Needs(Top.key) /\ Needed(k)
      /\ Elements(Top.left) = {k} \union Elements(Tail(Top.left))
      /\ visiting # <<>> /\ Path /\ TypeOK /\ Sorted
  BY <1>1, <1>2, NextRequirement DEF IInv, Phase
<1>4. PICK t : t = Taken
  OBVIOUS
<1>5. /\ t \in Seq(Frames) /\ Len(t) = Len(visiting) /\ t # <<>>
      /\ DOMAIN t = 1 .. Len(visiting)
      /\ \A n \in 1 .. Len(visiting) : t[n].key = visiting[n].key
      /\ \A n \in 1 .. Len(visiting) - 1 : t[n] = visiting[n]
      /\ t[Len(visiting)].left = Tail(Top.left)
  BY <1>1, <1>3, <1>4, TakenIs
<1>6. /\ Len(visiting) \in Nat \ {0} /\ DOMAIN visiting = 1 .. Len(visiting)
      /\ Top = visiting[Len(visiting)]
  BY <1>3, PathType
<1>7. plan' \in Seq(Keys) /\ Sorted'
  <2>1. plan \in Seq(Keys)
    BY <1>3 DEF TypeOK
  <2>2. ASSUME NEW p, SortedOf(p), plan' = p PROVE Sorted'
    BY <1>1, <2>2 DEF Sorted, SortedOf, Needs
  <2>. QED
    BY <1>1, <1>3, <2>1, <2>2 DEF Sorted
<1>8. ASSUME NEW r, Needed(r) PROVE Needed(r)'
  BY <1>1, <1>8 DEF Needed, Selected, Closed
<1>9. \A r \in OnPath \union Elements(plan) : Needed(r)
  BY DEF IInv
<1>10. ASSUME NEW v, PathOf(v, Elements(plan)), visiting' = v PROVE Path'
  BY <1>1, <1>10 DEF Path, PathOf, Needs
<1>11. TakenOf(t, visiting, Len(visiting), k)
  BY <1>3, <1>5, <1>6 DEF TakenOf
<1>12. CASE k \in Elements(plan) /\ visiting' = t /\ pc' = pc
  <2>1. OnPath' = OnPath
    BY <1>5, <1>6, <1>12 DEF OnPath
  <2>2. PathOf(t, Elements(plan))
    BY <1>3, <1>12, <1>11, PathGoesOn DEF Path
  <2>3. Walking'
    <3>1. (\A r \in OnPath \union Elements(plan) : Needed(r))'
      BY <1>1, <1>8, <1>9, <2>1
    <3>. QED
      BY <1>1, <1>5, <1>7, <1>10, <1>12, <2>2, <3>1 DEF Walking
  <2>. QED
    BY <1>1, <2>3, WalkingIsEnough
<1>13. CASE k \in OnPath /\ pc' = "cycle" /\ visiting' = visiting
  <2>1. Path' /\ OnPath' = OnPath /\ Top' = Top
    BY <1>3, <1>10, <1>13 DEF Path, OnPath, Top
  <2>2. (\A r \in OnPath \union Elements(plan) : Needed(r))'
    BY <1>1, <1>8, <1>9, <2>1
  <2>3. Walking'
    BY <1>1, <1>2, <1>3, <1>7, <1>13, <2>1, <2>2 DEF Walking, TypeOK, Frames
  <2>. QED
    BY <1>1, <2>3, WalkingIsEnough
<1>14. CASE visiting' = Append(t, [key |-> k, left |-> requires[k]]) /\ pc' = pc
  <2>1. PICK f \in Frames : f = [key |-> k, left |-> requires[k]]
    BY <1>3, RequiresType DEF Frames
  <2>2. PICK u : u = Append(t, f)
    OBVIOUS
  <2>3. /\ u \in Seq(Frames) /\ Len(u) = Len(visiting) + 1 /\ u # <<>>
        /\ DOMAIN u = 1 .. Len(visiting) + 1
        /\ u[Len(visiting) + 1] = f
        /\ \A n \in 1 .. Len(visiting) : u[n] = t[n]
    BY <1>5, <1>6, <2>2, ElementsAppend, EmptySeq
  <2>4. f.key = k /\ Elements(f.left) = Needs(k)
    BY <2>1 DEF Needs
  <2>5. PathOf(u, Elements(plan))
    <3>1. Longer(u, t, Len(visiting), k)
      BY <2>3, <2>4 DEF Longer
    <3>. QED
      BY <1>3, <1>11, <3>1, PathGrows DEF Path
  <2>6. OnPath' = OnPath \union {k}
    BY <1>5, <1>6, <1>14, <2>1, <2>2, <2>3, <2>4 DEF OnPath
  <2>7. Walking'
    <3>1. (\A r \in OnPath \union Elements(plan) : Needed(r))'
      BY <1>1, <1>3, <1>8, <1>9, <2>6
    <3>. QED
      BY <1>1, <1>7, <1>10, <1>14, <2>1, <2>2, <2>3, <2>5, <3>1 DEF Walking
  <2>. QED
    BY <1>1, <2>7, WalkingIsEnough
<1>15. CASE pc' = "spec" /\ visiting' = visiting
  <2>1. (\A r \in OnPath \union Elements(plan) : Needed(r))'
    BY <1>1, <1>8, <1>9, <1>15 DEF OnPath
  <2>2. Walking'
    BY <1>3, <1>7, <1>15, <2>1 DEF Walking, TypeOK, Frames
  <2>. QED
    BY <1>1, <2>2, WalkingIsEnough
<1>. QED
  BY <1>2, <1>4, <1>12, <1>13, <1>14, <1>15 DEF Visit

\* All that the last profile on the path requires is planned, and so it is.
LEMMA StepLeave == ASSUME IInv, Leave PROVE IInv'
<1>1. /\ pc = "walk" /\ Top.left = <<>> /\ Rest
      /\ requires' = requires /\ request' = request /\ root' = root
  BY DEF Leave, Rest, inputs
<1>2. /\ visiting # <<>> /\ Path /\ TypeOK /\ Sorted
  BY <1>1 DEF IInv, Phase, Path, PathOf
<1>3. PICK L \in Nat \ {0} : L = Len(visiting)
  BY <1>2, PathType
<1>4. PICK k \in Keys : k = Top.key
  BY <1>2, <1>3, PathType
<1>5. /\ DOMAIN visiting = 1 .. L /\ \A n \in 1 .. L : visiting[n] \in Frames
      /\ Top = visiting[L] /\ k \in OnPath
  BY <1>2, <1>3, <1>4, PathType
<1>6. plan \in Seq(Keys)
  BY <1>2 DEF TypeOK
<1>7. ASSUME NEW r, Needed(r) PROVE Needed(r)'
  BY <1>1, <1>7 DEF Needed, Selected, Closed
<1>8. \A r \in OnPath \union Elements(plan) : Needed(r)
  BY DEF IInv
<1>9. CASE /\ plan' = Append(plan, k)
           /\ visiting' = SubSeq(visiting, 1, L - 1)
           /\ pc' = IF L = 1 THEN "merge" ELSE "walk"
  <2>1. PICK p : p = Append(plan, k)
    OBVIOUS
  <2>2. /\ Elements(p) = Elements(plan) \union {k} /\ p \in Seq(Keys) /\ Len(p) = Len(plan) + 1
        /\ p[Len(plan) + 1] = k /\ \A i \in DOMAIN plan : p[i] = plan[i]
        /\ DOMAIN plan = 1 .. Len(plan) /\ DOMAIN p = 1 .. Len(plan) + 1
    BY <1>6, <2>1, ElementsAppend
  <2>3. Len(plan) \in Nat
    BY <1>6, LenProperties
  <2>4. PICK u : u = SubSeq(visiting, 1, L - 1)
    OBVIOUS
  <2>5. u \in Seq(Frames) /\ Len(u) = L - 1 /\ \A n \in 1 .. L - 1 : u[n] = visiting[n]
    <3>1. 1 \in Int /\ L - 1 \in Int /\ \A n \in 1 .. L - 1 : visiting[n] \in Frames
      BY <1>5
    <3>2. /\ u \in Seq(Frames) /\ Len(u) = IF 1 <= L - 1 THEN L - 1 - 1 + 1 ELSE 0
          /\ \A n \in 1 .. L - 1 - 1 + 1 : u[n] = visiting[1 + n - 1]
      BY <2>4, <3>1, SubSeqProperties
    <3>. QED
      BY <3>2
  <2>6. \A r \in Needs(k) : r \in Elements(plan)
    BY <1>1, <1>2, <1>3, <1>4, <1>5 DEF Path, PathOf, Elements
  <2>7. SortedOf(p)
    <3>1. ASSUME NEW j \in 1 .. Len(plan) + 1, NEW r \in Needs(p[j])
          PROVE  \E i \in 1 .. j - 1 : p[i] = r
      <4>1. CASE j = Len(plan) + 1
        <5>1. PICK i \in 1 .. Len(plan) : plan[i] = r
          BY <2>2, <2>6, <3>1, <4>1 DEF Elements
        <5>. QED
          BY <2>2, <2>3, <4>1, <5>1
      <4>2. CASE j \in 1 .. Len(plan)
        <5>1. PICK i \in 1 .. j - 1 : plan[i] = r
          BY <1>2, <2>2, <3>1, <4>2 DEF Sorted, SortedOf
        <5>2. i \in 1 .. Len(plan)
          BY <2>3, <4>2
        <5>. QED
          BY <2>2, <5>1, <5>2
      <4>. QED
        BY <2>3, <4>1, <4>2
    <3>. QED
      BY <2>2, <3>1 DEF SortedOf
  <2>8. Sorted'
    <3>1. ASSUME NEW q, SortedOf(q), plan' = q PROVE Sorted'
      BY <1>1, <3>1 DEF Sorted, SortedOf, Needs
    <3>. QED
      BY <1>9, <2>1, <2>7, <3>1
  <2>9. ASSUME NEW n \in 1 .. L - 1 PROVE u[n].key \in OnPath
    BY <1>5, <2>5, <2>9 DEF OnPath
  <2>10. (\A r \in OnPath \union Elements(plan) : Needed(r))'
    <3>1. DOMAIN u = 1 .. L - 1
      BY <2>5, LenProperties
    <3>2. \A r \in OnPath' : r \in OnPath
      BY <1>9, <2>4, <2>9, <3>1 DEF OnPath
    <3>3. Elements(plan)' = Elements(plan) \union {k}
      BY <1>9, <2>1, <2>2
    <3>. QED
      BY <1>5, <1>7, <1>8, <3>2, <3>3
  <2>11. CASE L = 1
    <3>1. visiting' = <<>> /\ pc' = "merge"
      BY <1>9, <2>4, <2>5, <2>11, EmptySeq
    <3>2. k = request.roots[root]
      BY <1>2, <1>3, <1>4, <1>5, <2>11 DEF Path, PathOf
    <3>3. plan' # <<>> /\ plan'[Len(plan')] = request'.roots[root']
         /\ request'.roots[root'] \in Elements(plan')
      BY <1>1, <1>9, <2>1, <2>2, <2>3, <3>2, EmptySeq
    <3>4. Walking'
      BY <1>9, <2>1, <2>2, <2>4, <2>5, <2>8, <2>10, <3>1, <3>3 DEF Walking
    <3>. QED
      BY <1>1, <3>4, WalkingIsEnough
  <2>12. CASE L # 1
    <3>1. u # <<>>
      BY <2>5, <2>12, EmptySeq
    <3>2. PathOf(u, Elements(p))
      <4>1. PICK planned, more : planned = Elements(plan) /\ more = Elements(p)
        OBVIOUS
      <4>2. PathOf(visiting, planned) /\ Len(visiting) = L /\ L \in Nat /\ L > 1
        BY <1>2, <1>3, <2>12, <4>1 DEF Path
      <4>3. more = planned \union {visiting[L].key}
        BY <1>4, <1>5, <2>2, <4>1
      <4>. QED
        BY <2>5, <3>1, <4>1, <4>2, <4>3, PathShrinks
    <3>3. ASSUME NEW q, NEW v, PathOf(v, Elements(q)), visiting' = v, plan' = q PROVE Path'
      BY <1>1, <3>3 DEF Path, PathOf, Needs
    <3>4. Walking'
      BY <1>9, <2>1, <2>2, <2>4, <2>5, <2>8, <2>10, <2>12, <3>2, <3>3 DEF Walking
    <3>. QED
      BY <1>1, <3>4, WalkingIsEnough
  <2>. QED
    BY <2>11, <2>12
<1>10. CASE pc' = "spec" /\ UNCHANGED <<plan, visiting>>
  <2>1. (\A r \in OnPath \union Elements(plan) : Needed(r))'
    BY <1>7, <1>8, <1>10 DEF OnPath
  <2>2. Walking'
    BY <1>2, <1>10, <2>1 DEF Walking, TypeOK, Frames
  <2>. QED
    BY <1>1, <2>2, WalkingIsEnough
<1>. QED
  BY <1>3, <1>4, <1>9, <1>10 DEF Leave

-----------------------------------------------------------------------------
(***************************************************************************)
(* The merge.                                                              *)
(***************************************************************************)

PlanEntries == [key : Keys, namespace : {"home", "moved"}]

\* The entry that is merged next: what it requires is merged, or bootstrap's.
LEMMA NextEntry ==
  ASSUME IInv, pc = "merge", plan # <<>>
  PROVE  /\ Head(plan) \in Keys /\ Head(plan) = plan[1] /\ Needed(Head(plan))
         /\ \A r \in Needs(Head(plan)) : r \in EntryKeys \/ Left(r)
         /\ Namespace(Head(plan)) = "moved" => Head(plan) \in Selected
<1>1. plan \in Seq(Keys) /\ TypeOK /\ Unmerged
  BY DEF IInv, TypeOK, Phase
<1>2. /\ Head(plan) \in Keys /\ Head(plan) = plan[1] /\ 1 \in DOMAIN plan
      /\ Head(plan) \in Elements(plan)
  BY <1>1, ElementsTail
<1>3. Needed(Head(plan))
  BY <1>2 DEF IInv
<1>4. \A r \in Needs(Head(plan)) : r \in EntryKeys \/ Left(r)
  BY <1>1, <1>2 DEF Unmerged, PendsOn, Had
<1>5. ASSUME Namespace(Head(plan)) = "moved" PROVE Head(plan) \in Selected
  <2>1. Len(plan) = 1
    BY <1>5 DEF Namespace
  <2>2. plan[Len(plan)] = request.roots[root]
    BY DEF IInv, Phase
  <2>. QED
    BY <1>1, <1>2, <2>1, <2>2, RootType
<1>. QED
  BY <1>2, <1>3, <1>4, <1>5

\* What is left to merge once the next entry is.
LEMMA RestPends ==
  ASSUME NEW S, NEW p \in Seq(S), NEW had, NEW more, p # <<>>,
         PendsOn(p, had), had \union {p[1]} \subseteq more
  PROVE  PendsOn(Tail(p), more)
<1> SUFFICES ASSUME NEW j \in DOMAIN Tail(p), NEW r \in Needs(Tail(p)[j]), r \notin more
             PROVE  \E i \in 1 .. j - 1 : Tail(p)[i] = r
  BY DEF PendsOn
<1>1. /\ Len(p) \in Nat /\ DOMAIN p = 1 .. Len(p) /\ j \in 1 .. Len(p) - 1
      /\ \A i \in 1 .. Len(p) - 1 : Tail(p)[i] = p[i + 1]
  BY ElementsTail
<1>2. j + 1 \in DOMAIN p /\ r \in Needs(p[j + 1]) /\ r \notin had /\ r # p[1]
  BY <1>1
<1>3. PICK i \in 1 .. j : p[i] = r
  BY <1>1, <1>2 DEF PendsOn
<1>4. i - 1 \in 1 .. j - 1 /\ i - 1 \in 1 .. Len(p) - 1 /\ i - 1 + 1 = i
  BY <1>1, <1>2, <1>3
<1>. QED
  BY <1>1, <1>3, <1>4

LEMMA StepMerge == ASSUME IInv, Merge PROVE IInv'
<1>1. /\ pc = "merge" /\ plan # <<>> /\ UNCHANGED <<inputs, root, visiting, compiled>>
      /\ requires' = requires /\ request' = request /\ root' = root /\ owned' = owned
      /\ mode' = mode /\ at' = at /\ skipped' = skipped /\ visiting' = visiting
  BY DEF Merge, inputs, compiled
<1>2. /\ TypeOK /\ plan \in Seq(Keys) /\ visiting = <<>> /\ Unmerged /\ at # 0
      /\ plan[Len(plan)] = request.roots[root]
  BY <1>1 DEF IInv, TypeOK, Phase
<1>3. PICK k : k = Head(plan)
  OBVIOUS
<1>4. /\ k \in Keys /\ k = plan[1] /\ Needed(k) /\ \A r \in Needs(k) : r \in EntryKeys \/ Left(r)
      /\ Namespace(k) = "moved" => k \in Selected
  BY <1>1, <1>3, NextEntry
<1>5. /\ Elements(plan) = {k} \union Elements(Tail(plan)) /\ Tail(plan) \in Seq(Keys)
      /\ Len(plan) \in Nat \ {0} /\ Len(Tail(plan)) = Len(plan) - 1
      /\ \A i \in 1 .. Len(plan) - 1 : Tail(plan)[i] = plan[i + 1]
  BY <1>1, <1>2, <1>3, ElementsTail
<1>6. ASSUME NEW r, Needed(r) PROVE Needed(r)'
  BY <1>1, <1>6 DEF Needed, Selected, Closed
<1>7. ASSUME NEW r PROVE Left(r)' = Left(r)
  BY <1>1 DEF Left
<1>8. OnPath' = {} /\ OnPath = {}
  BY <1>1, <1>2 DEF OnPath
<1>9. ASSUME plan' = Tail(plan), pc' = pc,
     EntryKeys \union {k} \subseteq EntryKeys' \union {r \in {k} : Left(r)},
             EntryKeys \subseteq EntryKeys', TypeOK', RequirementsFirst', EachOnce', OnlySelectedMove',
             EntryKeys' \subseteq EntryKeys \union {k}
      PROVE  IInv'
  <2>1. (\A r \in OnPath \union Elements(plan) \union EntryKeys : Needed(r))'
    BY <1>4, <1>5, <1>6, <1>8, <1>9 DEF IInv
  <2>2. PICK t : t = Tail(plan)
    OBVIOUS
  <2>3. PICK more : more = Had'
    OBVIOUS
  <2>4. Had \union {plan[1]} \subseteq more
    BY <1>1, <1>2, <1>4, <1>7, <1>9, <2>3 DEF Had, Left
  <2>5. Unmerged'
    <3>1. PendsOn(t, more)
      BY <1>1, <1>2, <2>2, <2>4, RestPends DEF Unmerged
    <3>. QED
      BY <1>1, <1>9, <2>2, <2>3, <3>1 DEF Unmerged, PendsOn, Needs
  <2>6. plan' # <<>> => plan'[Len(plan')] = request'.roots[root']
    BY <1>1, <1>2, <1>5, <1>9, EmptySeq
  <2>7. request'.roots[root'] \in Elements(plan') \union EntryKeys' \/ Left(request'.roots[root'])
    BY <1>1, <1>5, <1>9 DEF IInv, Phase, Left
  <2>8. (\A n \in 1 .. root - 1 : request.roots[n] \in EntryKeys \/ Left(request.roots[n]))'
    BY <1>1, <1>9 DEF IInv, Phase, Left
  <2>9. Phase'
    BY <1>1, <1>2, <1>7, <1>9, <2>5, <2>6, <2>7, <2>8 DEF Phase
  <2>. QED
    BY <1>9, <2>1, <2>9 DEF IInv
<1>10. CASE Left(k) /\ plan' = Tail(plan) /\ entries' = entries /\ pc' = pc
  <2>1. TypeOK'
    BY <1>1, <1>2, <1>5, <1>10 DEF TypeOK
  <2>2. RequirementsFirst' /\ EachOnce' /\ OnlySelectedMove' /\ EntryKeys' = EntryKeys
    BY <1>1, <1>10 DEF IInv, RequirementsFirst, EachOnce, OnlySelectedMove, Selected, EntryKeys
  <2>. QED
    BY <1>9, <1>10, <2>1, <2>2
<1>11. CASE pc' = "conflict" /\ UNCHANGED <<entries, plan>>
  <2>1. TypeOK'
    BY <1>1, <1>2, <1>11 DEF TypeOK
  <2>2. RequirementsFirst' /\ EachOnce' /\ OnlySelectedMove' /\ EntryKeys' = EntryKeys
    BY <1>1, <1>11 DEF IInv, RequirementsFirst, EachOnce, OnlySelectedMove, Selected, EntryKeys
  <2>3. (\A r \in OnPath \union Elements(plan) \union EntryKeys : Needed(r))'
    BY <1>6, <1>8, <1>11, <2>2 DEF IInv
  <2>4. Phase'
    BY <1>1, <1>2, <1>11, <2>2 DEF IInv, Phase, Left
  <2>. QED
    BY <2>1, <2>2, <2>3, <2>4 DEF IInv
<1>12. CASE plan' = Tail(plan) /\ pc' = pc /\ k \in EntryKeys /\ entries' = entries
  <2>1. TypeOK'
    BY <1>1, <1>2, <1>5, <1>12 DEF TypeOK
  <2>2. RequirementsFirst' /\ EachOnce' /\ OnlySelectedMove' /\ EntryKeys' = EntryKeys
    BY <1>1, <1>12 DEF IInv, RequirementsFirst, EachOnce, OnlySelectedMove, Selected, EntryKeys
  <2>. QED
    BY <1>9, <1>12, <2>1, <2>2
<1>13. CASE /\ plan' = Tail(plan) /\ pc' = pc /\ k \notin EntryKeys
            /\ entries' = Append(entries, [key |-> k, namespace |-> Namespace(k)])
  <2>1. PICK e \in PlanEntries : e = [key |-> k, namespace |-> Namespace(k)]
    <3>1. Namespace(k) \in {"home", "moved"}
      BY DEF Namespace
    <3>. QED
      BY <1>4, <3>1 DEF PlanEntries
  <2>2. entries \in Seq(PlanEntries) /\ Len(entries) \in Nat
    BY <1>2, LenProperties DEF TypeOK, PlanEntries
  <2>3. /\ entries' \in Seq(PlanEntries) /\ DOMAIN entries = 1 .. Len(entries)
        /\ DOMAIN entries' = 1 .. Len(entries) + 1
        /\ entries'[Len(entries) + 1] = e
        /\ \A i \in 1 .. Len(entries) : entries'[i] = entries[i]
    BY <1>13, <2>1, <2>2, ElementsAppend
  <2>4. e.key = k /\ e.namespace = Namespace(k)
    BY <2>1
  <2>5. EntryKeys' = EntryKeys \union {k}
    BY <2>2, <2>3, <2>4 DEF EntryKeys
  <2>6. TypeOK'
    BY <1>1, <1>2, <1>5, <1>13, <2>3 DEF TypeOK, PlanEntries
  <2>7. EachOnce'
    BY <1>13, <2>2, <2>3, <2>4 DEF IInv, EachOnce, EntryKeys
  <2>8. OnlySelectedMove'
    BY <1>1, <1>4, <2>2, <2>3, <2>4 DEF IInv, OnlySelectedMove, Selected
  <2>9. RequirementsFirst'
    <3>1. ASSUME NEW j \in 1 .. Len(entries) + 1, NEW r \in Needs(entries'[j].key), ~Left(r)
          PROVE  \E i \in 1 .. j - 1 : entries'[i].key = r
      <4>1. CASE j \in 1 .. Len(entries)
        <5>1. PICK i \in 1 .. j - 1 : entries[i].key = r
          BY <2>2, <2>3, <3>1, <4>1 DEF IInv, RequirementsFirst, Needs, Left
        <5>2. i \in 1 .. Len(entries)
          BY <2>2, <4>1
        <5>. QED
          BY <2>3, <5>1, <5>2
      <4>2. CASE j = Len(entries) + 1
        <5>1. PICK i \in 1 .. Len(entries) : entries[i].key = r
          BY <1>4, <2>2, <2>3, <2>4, <3>1, <4>2 DEF EntryKeys
        <5>. QED
          BY <2>2, <2>3, <4>2, <5>1
      <4>. QED
        BY <2>2, <4>1, <4>2
    <3>. QED
      BY <1>1, <2>3, <3>1 DEF RequirementsFirst, Needs, Left
  <2>. QED
    BY <1>9, <1>13, <2>5, <2>6, <2>7, <2>8, <2>9
<1>. QED
  BY <1>3, <1>10, <1>11, <1>12, <1>13 DEF Merge, Left

\* Nothing but the phase changes, and what is compiled.
LEMMA PlanIsKept ==
  ASSUME IInv, UNCHANGED <<inputs, visiting, plan, entries>>, TypeOK', Phase'
  PROVE  IInv'
<1>1. /\ requires' = requires /\ request' = request /\ owned' = owned /\ mode' = mode
      /\ visiting' = visiting /\ plan' = plan /\ entries' = entries
  BY DEF inputs
<1>2. RequirementsFirst' /\ EachOnce' /\ OnlySelectedMove'
  BY <1>1 DEF IInv, RequirementsFirst, EachOnce, OnlySelectedMove, Selected
<1>3. (\A k \in OnPath \union Elements(plan) \union EntryKeys : Needed(k))'
  <2>1. ASSUME NEW r, Needed(r) PROVE Needed(r)'
    BY <1>1, <2>1 DEF Needed, Selected, Closed
  <2>2. OnPath' = OnPath /\ Elements(plan)' = Elements(plan) /\ EntryKeys' = EntryKeys
    BY <1>1 DEF OnPath, EntryKeys, Elements
  <2>. QED
    BY <2>1, <2>2 DEF IInv
<1>. QED
  BY <1>2, <1>3 DEF IInv

LEMMA StepMerged == ASSUME IInv, Merged PROVE IInv'
<1>1. /\ pc = "merge" /\ plan = <<>> /\ UNCHANGED <<inputs, visiting, plan, entries, compiled>>
      /\ requires' = requires /\ request' = request /\ owned' = owned /\ mode' = mode
      /\ visiting' = visiting /\ plan' = plan /\ entries' = entries /\ at' = at /\ skipped' = skipped
  BY DEF Merged, inputs, compiled
<1>2. TypeOK /\ visiting = <<>> /\ at # 0 /\ Unmerged
  BY <1>1 DEF IInv, Phase
<1>3. request.roots[root] \in EntryKeys \/ Left(request.roots[root])
  BY <1>1 DEF IInv, Phase, Elements
<1>4. /\ root \in 1 .. Len(request.roots) /\ Len(request.roots) \in Nat
      /\ DOMAIN request.roots = 1 .. Len(request.roots)
  BY <1>2, RootType, LenProperties
<1>5. \A n \in 1 .. root : request.roots[n] \in EntryKeys \/ Left(request.roots[n])
  BY <1>3, <1>4 DEF IInv, Phase
<1>6. CASE root < Len(request.roots) /\ root' = root + 1 /\ pc' = "open"
  <2>1. root' \in 1 .. Len(request.roots) /\ root' - 1 = root
    BY <1>4, <1>6
  <2>2. TypeOK'
    BY <1>1, <1>2, <1>4, <1>6, <2>1 DEF TypeOK
  <2>3. Phase'
    BY <1>1, <1>2, <1>5, <1>6, <2>1 DEF Phase, EntryKeys, Left
  <2>. QED
    BY <1>1, <2>2, <2>3, PlanIsKept
<1>7. CASE ~(root < Len(request.roots)) /\ root' = root /\ pc' \in {"compile", "done"}
  <2>1. root = Len(request.roots)
    BY <1>4, <1>7
  <2>2. TypeOK'
    BY <1>1, <1>2, <1>7 DEF TypeOK
  <2>3. Phase'
    BY <1>1, <1>2, <1>3, <1>4, <1>5, <1>7, <2>1 DEF Phase, EntryKeys, Left
  <2>. QED
    BY <1>1, <2>2, <2>3, PlanIsKept
<1>. QED
  BY <1>6, <1>7 DEF Merged

\* Compiling changes nothing that was planned.
LEMMA CompilingIsEnough ==
  ASSUME IInv, pc = "compile", UNCHANGED <<inputs, walk, entries>>,
         at' \in Nat \ {0}, skipped' \subseteq Keys, pc' \in {"compile", "spec", "done"}
  PROVE  IInv'
<1>1. /\ requires' = requires /\ request' = request /\ owned' = owned /\ mode' = mode
      /\ root' = root /\ visiting' = visiting /\ plan' = plan /\ entries' = entries
  BY DEF inputs, walk
<1>2. TypeOK'
  BY <1>1 DEF IInv, TypeOK
<1>3. Phase'
  BY <1>1 DEF IInv, Phase, EntryKeys, Left
<1>. QED
  BY <1>1, <1>2, <1>3, PlanIsKept

LEMMA StepCompile == ASSUME IInv, Compile PROVE IInv'
<1>1. /\ pc = "compile" /\ at <= Len(entries) /\ UNCHANGED <<inputs, walk, entries>>
      /\ pc' \in {"compile", "spec"}
  BY DEF Compile
<1>2. entries \in Seq(PlanEntries) /\ at \in Nat \ {0} /\ skipped \subseteq Keys
  BY DEF IInv, TypeOK, Phase, PlanEntries
<1>3. Len(entries) \in Nat /\ DOMAIN entries = 1 .. Len(entries)
  BY <1>2, LenProperties
<1>4. entries[at].key \in Keys
  <2>1. at \in 1 .. Len(entries)
    BY <1>1, <1>2, <1>3
  <2>2. entries[at] \in PlanEntries
    BY <1>2, <2>1, ElementOfSeq
  <2>. QED
    BY <2>2 DEF PlanEntries
<1>5. at' \in Nat \ {0} /\ skipped' \subseteq Keys
  <2>1. at' = at \/ at' = at + 1
    BY DEF Compile, compiled
  <2>2. skipped' = skipped \/ skipped' = skipped \union {entries[at].key}
    BY DEF Compile, compiled
  <2>. QED
    BY <1>2, <1>4, <2>1, <2>2
<1>. QED
  BY <1>1, <1>5, CompilingIsEnough

LEMMA StepCompiled == ASSUME IInv, Compiled PROVE IInv'
  BY CompilingIsEnough DEF Compiled, IInv, TypeOK, Phase

-----------------------------------------------------------------------------
(***************************************************************************)
(* The invariant, and what it means.                                       *)
(***************************************************************************)

LEMMA InitInvariant == Init => IInv
<1> SUFFICES ASSUME Init PROVE IInv
  OBVIOUS
<1>1. request.roots \in Seq(Keys) \ {<<>>} /\ request.roots \in Roots
  BY PlanAssumption DEF Init
<1>2. 1 \in DOMAIN request.roots
  BY <1>1, LenProperties, EmptySeq
<1>3. requires \in [Keys -> Lists] /\ owned \subseteq Keys
  BY DEF Init
<1>4. request \in [by : {"test", "local"}, roots : Roots, moved : BOOLEAN]
  BY DEF Init
<1>5. /\ visiting \in Seq([key : Keys, left : Seq(Keys)]) /\ plan \in Seq(Keys)
      /\ entries \in Seq([key : Keys, namespace : {"home", "moved"}])
  BY DEF Init
<1>6. TypeOK
  BY <1>2, <1>3, <1>4, <1>5 DEF Init, TypeOK
<1>7. OnPath = {} /\ Elements(plan) = {} /\ EntryKeys = {}
  BY DEF Init, OnPath, Elements, EntryKeys
<1>8. Phase
  BY DEF Init, Phase
<1>9. RequirementsFirst /\ EachOnce /\ OnlySelectedMove
  BY DEF Init, RequirementsFirst, EachOnce, OnlySelectedMove
<1>. QED
  BY <1>6, <1>7, <1>8, <1>9 DEF IInv

LEMMA NextInvariant == IInv /\ [Next]_vars => IInv'
<1> SUFFICES ASSUME IInv, [Next]_vars PROVE IInv'
  OBVIOUS
<1>1. CASE Open
  BY <1>1, StepOpen
<1>2. CASE Visit
  BY <1>2, StepVisit
<1>3. CASE Leave
  BY <1>3, StepLeave
<1>4. CASE Merge
  BY <1>4, StepMerge
<1>5. CASE Merged
  BY <1>5, StepMerged
<1>6. CASE Compile
  BY <1>6, StepCompile
<1>7. CASE Compiled
  BY <1>7, StepCompiled
<1>8. CASE UNCHANGED vars
  <2>1. /\ requires' = requires /\ request' = request /\ owned' = owned /\ mode' = mode
        /\ root' = root /\ visiting' = visiting /\ plan' = plan /\ entries' = entries
        /\ at' = at /\ skipped' = skipped /\ pc' = pc
    BY <1>8 DEF vars, inputs, walk, compiled
  <2>2. TypeOK'
    BY <2>1 DEF IInv, TypeOK
  <2>3. Path' = Path /\ Sorted' = Sorted /\ Unmerged' = Unmerged /\ Top' = Top /\ OnPath' = OnPath
    BY <2>1 DEF Path, PathOf, Sorted, SortedOf, Unmerged, PendsOn, Had, EntryKeys, Left, Needs,
         Elements, Top, OnPath
  <2>4. Phase'
    BY <2>1, <2>3 DEF IInv, Phase, EntryKeys, Left, Elements
  <2>. QED
    BY <2>1, <2>2, <2>4, PlanIsKept DEF inputs
<1>. QED
  BY <1>1, <1>2, <1>3, <1>4, <1>5, <1>6, <1>7, <1>8 DEF Next

LEMMA Invariant == Spec => []IInv
  BY InitInvariant, NextInvariant, PTL DEF Spec

\* Every variable keeps its type: the walk stays among the profiles, whatever they
\* require and whatever is asked for.
THEOREM TypeIsInvariant == Spec => []TypeOK
<1>1. IInv => TypeOK
  BY DEF IInv
<1>. QED
  BY <1>1, Invariant, PTL

\* install_plan, _compose and _preflight: an entry of the merged plan comes after all that
\* it requires, for every requirement graph and every list of roots.
THEOREM RequirementsComeFirst == Spec => []RequirementsFirst
<1>1. IInv => RequirementsFirst
  BY DEF IInv
<1>. QED
  BY <1>1, Invariant, PTL

\* Nothing is planned twice, by whichever roots it is required.
THEOREM PlannedOnce == Spec => []EachOnce
<1>1. IInv => EachOnce
  BY DEF IInv
<1>. QED
  BY <1>1, Invariant, PTL

\* Nothing is planned that no root requires, directly or not.
THEOREM NothingElseIsPlanned == Spec => []NothingElse
<1>1. IInv => NothingElse
  BY DEF IInv, NothingElse, Needed
<1>. QED
  BY <1>1, Invariant, PTL

\* --namespace moves the releases that were selected, and none of what they require.
THEOREM RequirementsStay == Spec => []OnlySelectedMove
<1>1. IInv => OnlySelectedMove
  BY DEF IInv
<1>. QED
  BY <1>1, Invariant, PTL

\* When the last root is merged, every root is planned or left to bootstrap.
LEMMA AllRootsPlanned ==
  ASSUME IInv, pc \in {"compile", "done"}, NEW k \in Selected
  PROVE  k \in EntryKeys \/ (request.by = "local" /\ k \in owned)
<1>1. /\ request.roots \in Seq(Keys) /\ Len(request.roots) \in Nat /\ root \in 1 .. Len(request.roots)
  BY RootType DEF IInv
<1>2. PICK n \in 1 .. Len(request.roots) : request.roots[n] = k
  BY <1>1, LenProperties DEF Selected, Elements
<1>3. root = Len(request.roots)
  BY DEF IInv, Phase
<1>4. n = root \/ n \in 1 .. root - 1
  BY <1>1, <1>2, <1>3
<1>. QED
  BY <1>2, <1>4 DEF IInv, Phase, Left

\* A plan that is done has every root in it, but for what bootstrap installs.
THEOREM NoRootIsForgotten == Spec => []RootsArePlanned
<1>1. IInv => RootsArePlanned
  BY AllRootsPlanned DEF RootsArePlanned
<1>. QED
  BY <1>1, Invariant, PTL

\* DependencyCycleError: a plan is refused as cyclic only where some profiles require each
\* other in a circle: those on the path from the one that is met again.
THEOREM CyclesAreReal == Spec => []CycleIsReal
<1>1. ASSUME IInv, pc = "cycle"
      PROVE  \E S \in SUBSET Keys : S # {} /\ \A k \in S : Elements(requires[k]) \intersect S # {}
  <2>1. /\ TypeOK /\ Path /\ visiting # <<>> /\ Top.left # <<>> /\ Head(Top.left) \in OnPath
    BY <1>1 DEF IInv, Phase, Path, PathOf
  <2>2. PICK L \in Nat \ {0} : L = Len(visiting)
    BY <2>1, PathType
  <2>3. /\ DOMAIN visiting = 1 .. L /\ Top = visiting[L]
        /\ \A n \in 1 .. L : visiting[n].key \in Keys /\ visiting[n].left \in Seq(Keys)
    BY <2>1, <2>2, PathType
  <2>4. /\ \A n \in 1 .. L - 1 : visiting[n + 1].key \in Needs(visiting[n].key)
        /\ Elements(visiting[L].left) \subseteq Needs(visiting[L].key)
    <3>1. L \in 1 .. L /\ \A n \in 1 .. L : Elements(visiting[n].left) \subseteq Needs(visiting[n].key)
      <4>1. \A n \in 1 .. Len(visiting) : Elements(visiting[n].left) \subseteq Needs(visiting[n].key)
        BY <2>1 DEF Path, PathOf
      <4>. QED
        BY <2>2, <4>1
    <3>2. \A n \in 1 .. L - 1 : visiting[n + 1].key \in Needs(visiting[n].key)
      BY <2>1, <2>2 DEF Path, PathOf
    <3>. QED
      BY <3>1, <3>2
  <2>5. PICK m \in 1 .. L : visiting[m].key = Head(Top.left)
    BY <2>1, <2>3 DEF OnPath
  <2>6. Head(Top.left) \in Needs(visiting[L].key)
    <3>1. Top.left \in Seq(Keys)
      BY <2>2, <2>3
    <3>2. Head(Top.left) \in Elements(Top.left)
      BY <2>1, <3>1, ElementsTail
    <3>. QED
      BY <2>3, <2>4, <3>2
  <2> DEFINE S == {visiting[n].key : n \in m .. L}
  <2>7. S \subseteq Keys /\ S # {}
    BY <2>2, <2>3, <2>5
  <2>8. ASSUME NEW n \in m .. L PROVE Needs(visiting[n].key) \intersect S # {}
    <3>1. CASE n = L
      BY <2>2, <2>5, <2>6, <3>1
    <3>2. CASE n # L
      <4>1. n + 1 \in m .. L /\ n \in 1 .. L - 1
        BY <2>2, <2>5, <2>8, <3>2
      <4>. QED
        BY <2>4, <4>1
    <3>. QED
      BY <3>1, <3>2
  <2>9. \A k \in S : Elements(requires[k]) \intersect S # {}
    BY <2>8 DEF Needs
  <2>. QED
    BY <2>7, <2>9
<1>2. IInv => CycleIsReal
  BY <1>1 DEF CycleIsReal
<1>. QED
  BY <1>2, Invariant, PTL

\* compile_install_plan: every plan is complete, ordered, minimal and in its namespace, and
\* what is refused as cyclic is.
THEOREM EntriesAreInOrder == Spec => []EntriesAreRight
BY RequirementsComeFirst, PlannedOnce, NothingElseIsPlanned, NoRootIsForgotten, RequirementsStay,
   CyclesAreReal, PTL DEF EntriesAreRight
-----------------------------------------------------------------------------
(***************************************************************************)
(* The steps of chart test: what the entries compiled so far have given.   *)
(***************************************************************************)

Kinds == {"namespace", "lint", "preInstall", "install", "postInstall", "ready", "test", "cleanup"}
Steps == [kind : Kinds, entry : PlanEntries]

Handled == {n \in DOMAIN entries : n < at}
At(s, kind, k) == {i \in DOMAIN s : s[i].kind = kind /\ s[i].entry.key = k}
Installed(s, k) == At(s, "install", k) # {}

\* The steps so far are of the entries so far, in their order; what an entry requires is
\* in the cluster before.
StepsSoFar ==
  \A i \in DOMAIN steps :
    /\ steps[i].kind # "cleanup"
    /\ \E n \in Handled : steps[i].entry = entries[n]
    /\ \A k \in Elements(requires[steps[i].entry.key]) :
         k \in owned \union skipped \/ \E j \in 1 .. i - 1 : j \in At(steps, "install", k)
    /\ steps[i].kind = "test" /\ mode # "install" => steps[i].entry.key \in Selected

\* Every entry so far is in the cluster, and tested if it was selected.
EntriesSoFar ==
  \A n \in Handled :
    /\ entries[n].key \in owned \union skipped \/ Installed(steps, entries[n].key)
    /\ entries[n].key \in Selected => At(steps, "test", entries[n].key) # {}

\* The cleanups so far undo installs, the last one first.
CleanupsSoFar ==
  \A i \in DOMAIN cleanups :
    /\ cleanups[i].kind = "cleanup" /\ Installed(steps, cleanups[i].entry.key)
    /\ \E n \in Handled : cleanups[i].entry = entries[n]
    /\ \A j \in DOMAIN cleanups :
         i < j => \A a \in At(steps, "install", cleanups[i].entry.key),
                     b \in At(steps, "install", cleanups[j].entry.key) : b < a

SoFar ==
  /\ steps \in Seq(Steps) /\ cleanups \in Seq(Steps)
  /\ StepsSoFar
  /\ EntriesSoFar
  /\ CleanupsSoFar

Compiling ==
  /\ pc \in {"open", "walk", "merge"} => at = 1 /\ steps = <<>> /\ cleanups = <<>> /\ skipped = {}
  /\ pc = "compile" => request.by = "test" /\ SoFar
  /\ StepsAreRight

\* The elements of one sequence after the other.
LEMMA Concatenated ==
  ASSUME NEW S, NEW s \in Seq(S), NEW t \in Seq(S)
  PROVE  /\ s \o t \in Seq(S) /\ Len(s) \in Nat /\ DOMAIN s = 1 .. Len(s)
         /\ \A i \in DOMAIN s : i \in DOMAIN (s \o t) /\ (s \o t)[i] = s[i]
         /\ \A i \in DOMAIN t : Len(s) + i \in DOMAIN (s \o t) /\ (s \o t)[Len(s) + i] = t[i]
         /\ \A i \in DOMAIN (s \o t) :
              i \in DOMAIN s \/ (i > Len(s) /\ i - Len(s) \in DOMAIN t /\ (s \o t)[i] = t[i - Len(s)])
<1>1. /\ s \o t \in Seq(S) /\ Len(s \o t) = Len(s) + Len(t)
      /\ \A i \in 1 .. Len(s) + Len(t) : (s \o t)[i] = IF i <= Len(s) THEN s[i] ELSE t[i - Len(s)]
  BY ConcatProperties
<1>2. /\ Len(s) \in Nat /\ DOMAIN s = 1 .. Len(s) /\ Len(t) \in Nat /\ DOMAIN t = 1 .. Len(t)
      /\ DOMAIN (s \o t) = 1 .. Len(s) + Len(t)
  BY <1>1, LenProperties
<1>. QED
  BY <1>1, <1>2

LEMMA Joined ==
  ASSUME NEW S, NEW s \in Seq(S), NEW t \in Seq(S), NEW both, both = s \o t
  PROVE  /\ both \in Seq(S)
         /\ \A i \in DOMAIN s : i \in DOMAIN both /\ both[i] = s[i]
         /\ \A i \in DOMAIN t : Len(s) + i \in DOMAIN both /\ both[Len(s) + i] = t[i]
         /\ \A i \in DOMAIN both :
              i \in DOMAIN s \/ (i > Len(s) /\ i - Len(s) \in DOMAIN t /\ both[i] = t[i - Len(s)])
  BY Concatenated

LEMMA ElementsConcat ==
  ASSUME NEW S, NEW s \in Seq(S), NEW t \in Seq(S)
  PROVE  Elements(s \o t) = Elements(s) \union Elements(t) /\ s \o t \in Seq(S)
<1>1. PICK both : both = s \o t
  OBVIOUS
<1>2. /\ both \in Seq(S)
      /\ \A i \in DOMAIN s : i \in DOMAIN both /\ both[i] = s[i]
      /\ \A i \in DOMAIN t : Len(s) + i \in DOMAIN both /\ both[Len(s) + i] = t[i]
      /\ \A i \in DOMAIN both :
           i \in DOMAIN s \/ (i > Len(s) /\ i - Len(s) \in DOMAIN t /\ both[i] = t[i - Len(s)])
  BY <1>1, Joined
<1>3. Elements(both) = Elements(s) \union Elements(t)
  <2>1. ASSUME NEW x \in Elements(both) PROVE x \in Elements(s) \union Elements(t)
    BY <1>2, <2>1 DEF Elements
  <2>2. ASSUME NEW x \in Elements(s) PROVE x \in Elements(both)
    BY <1>2, <2>2 DEF Elements
  <2>3. ASSUME NEW x \in Elements(t) PROVE x \in Elements(both)
    BY <1>2, <2>3 DEF Elements
  <2>. QED
    BY <2>1, <2>2, <2>3
<1>. QED
  BY <1>1, <1>2, <1>3

\* What an entry adds to the steps: nothing of another entry, an install unless bootstrap
\* owns it or it is left out, and a test if it is selected.
LEMMA StepsOfEntry ==
  ASSUME NEW e \in PlanEntries
  PROVE  /\ StepsOf(e) \in Seq(Steps)
         /\ \A s \in Elements(StepsOf(e)) : s.entry = e /\ s.kind # "cleanup"
         /\ ~Owned(e) /\ ~LeftOut(e) => Step("install", e) \in Elements(StepsOf(e))
         /\ e.key \in Selected => Step("test", e) \in Elements(StepsOf(e))
         /\ mode # "install" /\ Step("test", e) \in Elements(StepsOf(e)) => e.key \in Selected
<1>2. /\ Preparation(e) \in Seq(Steps)
      /\ Elements(Preparation(e)) = {Step("namespace", e), Step("lint", e), Step("preInstall", e),
                                     Step("install", e), Step("postInstall", e)}
  <2>1. Step("namespace", e) \in Steps /\ Step("lint", e) \in Steps /\ Step("preInstall", e) \in Steps
        /\ Step("install", e) \in Steps /\ Step("postInstall", e) \in Steps
    BY DEF Steps, Step, Kinds
  <2>2. Preparation(e) \in Seq(Steps)
    BY <2>1 DEF Preparation
  <2>3. DOMAIN Preparation(e) = {1, 2, 3, 4, 5}
    BY DEF Preparation
  <2>. QED
    BY <2>2, <2>3 DEF Preparation, Elements
<1>3. <<Step("test", e)>> \in Seq(Steps) /\ Elements(<<Step("test", e)>>) = {Step("test", e)}
  <2>1. Step("test", e) \in Steps
    BY DEF Steps, Step, Kinds
  <2>. QED
    BY <2>1 DEF Elements
<1>4. /\ <<Step("ready", e), Step("test", e)>> \in Seq(Steps)
      /\ Elements(<<Step("ready", e), Step("test", e)>>) = {Step("ready", e), Step("test", e)}
  <2>1. Step("ready", e) \in Steps /\ Step("test", e) \in Steps
    BY DEF Steps, Step, Kinds
  <2>2. DOMAIN <<Step("ready", e), Step("test", e)>> = {1, 2}
    OBVIOUS
  <2>. QED
    BY <2>1, <2>2 DEF Elements
<1>5. <<>> \in Seq(Steps) /\ Elements(<<>>) = {}
  BY DEF Elements
<1>6. /\ Preparation(e) \o <<Step("test", e)>> \in Seq(Steps)
      /\ Elements(Preparation(e) \o <<Step("test", e)>>) = Elements(Preparation(e)) \union {Step("test", e)}
  <2>1. PICK test : test = <<Step("test", e)>>
    OBVIOUS
  <2>2. test \in Seq(Steps) /\ Elements(test) = {Step("test", e)}
    BY <1>3, <2>1
  <2>3. Preparation(e) \o test \in Seq(Steps)
        /\ Elements(Preparation(e) \o test) = Elements(Preparation(e)) \union Elements(test)
    BY <1>2, <2>2, ElementsConcat
  <2>. QED
    BY <2>1, <2>2, <2>3
<1>7. CASE Owned(e) /\ e.key \in Selected
  BY <1>4, <1>7 DEF StepsOf, Step
<1>8. CASE Owned(e) /\ e.key \notin Selected
  BY <1>5, <1>8 DEF StepsOf
<1>9. CASE ~Owned(e) /\ LeftOut(e)
  BY <1>5, <1>9 DEF StepsOf, LeftOut
<1>10. CASE ~Owned(e) /\ ~LeftOut(e) /\ (e.key \in Selected \/ mode = "install")
  <2>1. StepsOf(e) = Preparation(e) \o <<Step("test", e)>>
    BY <1>10 DEF StepsOf
  <2>. QED
    BY <1>2, <1>6, <1>10, <2>1 DEF Step
<1>11. CASE ~Owned(e) /\ ~LeftOut(e) /\ ~(e.key \in Selected \/ mode = "install")
  <2>1. StepsOf(e) = Preparation(e)
    BY <1>11 DEF StepsOf
  <2>. QED
    BY <1>2, <1>11, <2>1 DEF Step
<1>. QED
  BY <1>7, <1>8, <1>9, <1>10, <1>11

\* An entry that is compiled, and those before it.
LEMMA CurrentEntry ==
  ASSUME IInv, pc = "compile", at <= Len(entries)
  PROVE  /\ at \in DOMAIN entries /\ at \notin Handled /\ entries[at] \in PlanEntries
         /\ {n \in DOMAIN entries : n < at + 1} = Handled \union {at}
         /\ \A n \in Handled : entries[n].key # entries[at].key
         /\ request.by = "test" =>
              \A k \in Needs(entries[at].key) : \E n \in Handled : entries[n].key = k
<1>1. entries \in Seq(PlanEntries) /\ at \in Nat \ {0}
  BY DEF IInv, TypeOK, Phase, PlanEntries
<1>2. Len(entries) \in Nat /\ DOMAIN entries = 1 .. Len(entries) /\ at \in DOMAIN entries
  BY <1>1, LenProperties
<1>3. entries[at] \in PlanEntries
  BY <1>1, <1>2, ElementOfSeq
<1>4. {n \in DOMAIN entries : n < at + 1} = Handled \union {at} /\ at \notin Handled
  BY <1>1, <1>2 DEF Handled
<1>5. \A n \in Handled : entries[n].key # entries[at].key
  BY <1>2 DEF IInv, EachOnce, Handled
<1>6. ASSUME request.by = "test", NEW k \in Needs(entries[at].key)
      PROVE  \E n \in Handled : entries[n].key = k
  <2>1. PICK n \in 1 .. at - 1 : entries[n].key = k
    BY <1>2, <1>6 DEF IInv, RequirementsFirst, Needs
  <2>. QED
    BY <1>1, <1>2, <2>1 DEF Handled
<1>. QED
  BY <1>2, <1>3, <1>4, <1>5, <1>6

\* Compiling an entry keeps what is known of those before it.
LEMMA SoFarGrows ==
  ASSUME IInv, Compiling, pc = "compile", at <= Len(entries), UNCHANGED <<inputs, entries>>,
         steps' = steps \o StepsOf(entries[at]), cleanups' = CleanupsOf(entries[at]), at' = at + 1,
         skipped' = IF ~Owned(entries[at]) /\ LeftOut(entries[at])
                    THEN skipped \union {entries[at].key} ELSE skipped
  PROVE  SoFar'
<1>0. PICK e, new : e = entries[at] /\ new = StepsOf(e)
  OBVIOUS
<1>1. SoFar /\ request.by = "test"
  BY DEF Compiling
<1>2. /\ e \in PlanEntries /\ at \in DOMAIN entries /\ at \notin Handled
      /\ \A n \in Handled : entries[n].key # e.key
      /\ \A k \in Elements(requires[e.key]) : \E n \in Handled : entries[n].key = k
  BY <1>0, <1>1, CurrentEntry DEF Needs
<1>3. Handled' = Handled \union {at} /\ entries' = entries /\ requires' = requires
      /\ request' = request /\ owned' = owned /\ mode' = mode /\ Selected' = Selected
  BY CurrentEntry DEF Handled, inputs, Selected
<1>4. steps \in Seq(Steps) /\ cleanups \in Seq(Steps)
  BY <1>1 DEF SoFar
<1>5. /\ new \in Seq(Steps)
      /\ \A s \in Elements(new) : s.entry = e /\ s.kind # "cleanup"
      /\ ~Owned(e) /\ ~LeftOut(e) => Step("install", e) \in Elements(new)
      /\ e.key \in Selected => Step("test", e) \in Elements(new)
      /\ mode # "install" /\ Step("test", e) \in Elements(new) => e.key \in Selected
  BY <1>0, <1>2, StepsOfEntry
<1>6. PICK L \in Nat : L = Len(steps) /\ DOMAIN steps = 1 .. L
  BY <1>4, Concatenated, <1>5
<1>7. /\ steps' \in Seq(Steps)
      /\ \A i \in DOMAIN steps : i \in DOMAIN steps' /\ steps'[i] = steps[i]
      /\ \A i \in DOMAIN new : L + i \in DOMAIN steps' /\ steps'[L + i] = new[i]
      /\ \A i \in DOMAIN steps' :
           i \in DOMAIN steps \/ (i > L /\ i - L \in DOMAIN new /\ steps'[i] = new[i - L])
  <2>1. steps' = steps \o new
    BY <1>0
  <2>2. PICK both : both = steps \o new
    OBVIOUS
  <2>3. /\ both \in Seq(Steps)
        /\ \A i \in DOMAIN steps : i \in DOMAIN both /\ both[i] = steps[i]
        /\ \A i \in DOMAIN new : Len(steps) + i \in DOMAIN both /\ both[Len(steps) + i] = new[i]
        /\ \A i \in DOMAIN both :
             i \in DOMAIN steps \/ (i > Len(steps) /\ i - Len(steps) \in DOMAIN new
                  /\ both[i] = new[i - Len(steps)])
    <3>1. new \in Seq(Steps)
      BY <1>5
    <3>. QED
      BY <1>4, <2>2, <3>1, Joined
  <2>4. steps' = both
    BY <2>1, <2>2
  <2>5. steps' \in Seq(Steps) /\ \A i \in DOMAIN steps : i \in DOMAIN steps' /\ steps'[i] = steps[i]
    BY <2>3, <2>4
  <2>6. \A i \in DOMAIN new : L + i \in DOMAIN steps' /\ steps'[L + i] = new[i]
    BY <1>6, <2>3, <2>4
  <2>7. \A i \in DOMAIN steps' :
          i \in DOMAIN steps \/ (i > L /\ i - L \in DOMAIN new /\ steps'[i] = new[i - L])
    BY <1>6, <2>3, <2>4
  <2>. QED
    BY <2>5, <2>6, <2>7
<1>8. \A i \in DOMAIN new : new[i] \in Elements(new)
  BY DEF Elements
<1>9. ASSUME NEW i \in DOMAIN steps' PROVE i \in DOMAIN steps \/ (i > L /\ steps'[i] \in Elements(new))
  BY <1>7, <1>8
<1>10. skipped \subseteq skipped' /\ (~Owned(e) /\ LeftOut(e) => e.key \in skipped')
  BY <1>0
<1>11. ASSUME NEW kind, NEW k
       PROVE  At(steps, kind, k) \subseteq At(steps', kind, k)
  BY <1>7 DEF At
<1>12. ASSUME NEW kind, NEW k, k # e.key
       PROVE  At(steps', kind, k) = At(steps, kind, k)
  <2>1. ASSUME NEW i \in At(steps', kind, k) PROVE i \in At(steps, kind, k)
    <3>1. i \in DOMAIN steps' /\ steps'[i].kind = kind /\ steps'[i].entry.key = k
      BY <2>1 DEF At
    <3>2. i \in DOMAIN steps
      BY <1>5, <1>9, <1>12, <3>1
    <3>. QED
      BY <1>7, <3>1, <3>2 DEF At
  <2>. QED
    BY <1>11, <2>1
<1>13. ASSUME NEW kind, Step(kind, e) \in Elements(new)
       PROVE  At(steps', kind, e.key) # {}
  <2>1. PICK i \in DOMAIN new : new[i] = Step(kind, e)
    BY <1>13 DEF Elements
  <2>2. L + i \in DOMAIN steps' /\ steps'[L + i].kind = kind /\ steps'[L + i].entry.key = e.key
    BY <1>7, <2>1 DEF Step
  <2>. QED
    BY <2>2 DEF At
<1>14. \A i \in DOMAIN steps : steps[i].entry.key # e.key
  BY <1>1, <1>2 DEF SoFar, StepsSoFar
<1>15. \A i \in At(steps', "install", e.key) : i > L
  <2>1. ASSUME NEW i \in At(steps', "install", e.key) PROVE i \notin DOMAIN steps
    BY <1>7, <1>14 DEF At
  <2>. QED
    BY <1>9, <2>1 DEF At
<1>16. StepsSoFar'
  <2>1. ASSUME NEW i \in DOMAIN steps'
        PROVE  /\ steps'[i].kind # "cleanup"
               /\ \E n \in Handled' : steps'[i].entry = entries'[n]
               /\ \A k \in Elements(requires'[steps'[i].entry.key]) :
                    k \in (owned \union skipped)' \/ \E j \in 1 .. i - 1 : j \in At(steps', "install", k)
               /\ steps'[i].kind = "test" /\ mode' # "install" => steps'[i].entry.key \in Selected'
    <3>1. CASE i \in DOMAIN steps
      <4>1. /\ steps[i].kind # "cleanup"
            /\ \E n \in Handled : steps[i].entry = entries[n]
            /\ \A k \in Elements(requires[steps[i].entry.key]) :
                 k \in owned \union skipped \/ \E j \in 1 .. i - 1 : j \in At(steps, "install", k)
            /\ steps[i].kind = "test" /\ mode # "install" => steps[i].entry.key \in Selected
        BY <1>1, <3>1 DEF SoFar, StepsSoFar
      <4>2. steps'[i] = steps[i]
        BY <1>7, <3>1
      <4>. QED
        BY <1>3, <1>10, <1>11, <4>1, <4>2
    <3>2. CASE i > L /\ steps'[i] \in Elements(new)
      <4>1. steps'[i].entry = e /\ steps'[i].kind # "cleanup"
        BY <1>5, <3>2
      <4>2. ASSUME NEW k \in Elements(requires[e.key])
            PROVE  k \in owned \union skipped \/ \E j \in 1 .. i - 1 : j \in At(steps', "install", k)
        <5>1. k \in owned \union skipped \/ At(steps, "install", k) # {}
          BY <1>1, <1>2 DEF SoFar, EntriesSoFar, Installed
        <5>2. \A j \in At(steps, "install", k) : j \in 1 .. i - 1
          BY <1>6, <3>2, i \in Int, L \in Nat DEF At
        <5>. QED
          BY <1>11, <5>1, <5>2
      <4>3. steps'[i].kind = "test" => steps'[i] = Step("test", e)
        <5>1. steps'[i] \in Steps
          BY <1>7, ElementOfSeq, LenProperties
        <5>. QED
          BY <4>1, <5>1 DEF Steps, Step
      <4>. QED
        BY <1>0, <1>3, <1>5, <1>10, <3>2, <4>1, <4>2, <4>3
    <3>. QED
      BY <1>9, <3>1, <3>2
  <2>. QED
    BY <2>1 DEF StepsSoFar
<1>17. EntriesSoFar'
  <2>1. ASSUME NEW n \in Handled
        PROVE  /\ entries[n].key \in (owned \union skipped)' \/ At(steps', "install", entries[n].key) # {}
               /\ entries[n].key \in Selected => At(steps', "test", entries[n].key) # {}
    BY <1>1, <1>3, <1>10, <1>11 DEF SoFar, EntriesSoFar, Installed
  <2>2. /\ e.key \in (owned \union skipped)' \/ At(steps', "install", e.key) # {}
        /\ e.key \in Selected => At(steps', "test", e.key) # {}
    <3>1. Owned(e) => e.key \in owned
      BY DEF Owned
    <3>. QED
      BY <1>3, <1>5, <1>10, <1>13, <3>1
  <2>. QED
    BY <1>0, <1>3, <2>1, <2>2 DEF EntriesSoFar, Installed
<1>18. ASSUME NEW c, \E n \in Handled : c.entry = entries[n], Installed(steps, c.entry.key)
       PROVE  /\ c.entry.key # e.key /\ \E n \in Handled' : c.entry = entries'[n]
              /\ At(steps', "install", c.entry.key) = At(steps, "install", c.entry.key)
              /\ Installed(steps', c.entry.key)
              /\ \A b \in At(steps', "install", c.entry.key) : b <= L
  <2>1. c.entry.key # e.key
    BY <1>2, <1>18
  <2>2. At(steps', "install", c.entry.key) = At(steps, "install", c.entry.key)
    BY <1>12, <2>1
  <2>3. \A b \in At(steps, "install", c.entry.key) : b <= L
    BY <1>6 DEF At
  <2>4. \E n \in Handled' : c.entry = entries'[n]
    BY <1>3, <1>18
  <2>. QED
    BY <1>18, <2>1, <2>2, <2>3, <2>4 DEF Installed
<1>19. CASE Owned(e) \/ LeftOut(e)
  <2>1. cleanups' = cleanups
    BY <1>0, <1>19 DEF CleanupsOf
  <2>2. CleanupsSoFar'
    <3>1. ASSUME NEW i \in DOMAIN cleanups
          PROVE  /\ cleanups[i].kind = "cleanup" /\ Installed(steps', cleanups[i].entry.key)
                 /\ \E n \in Handled' : cleanups[i].entry = entries'[n]
                 /\ At(steps', "install", cleanups[i].entry.key) = At(steps, "install", cleanups[i].entry.key)
      BY <1>1, <1>18 DEF SoFar, CleanupsSoFar
    <3>2. \A i, j \in DOMAIN cleanups :
            i < j => \A a \in At(steps, "install", cleanups[i].entry.key),
                        b \in At(steps, "install", cleanups[j].entry.key) : b < a
      BY <1>1 DEF SoFar, CleanupsSoFar
    <3>. QED
      BY <2>1, <3>1, <3>2 DEF CleanupsSoFar
  <2>. QED
    BY <1>4, <1>7, <1>16, <1>17, <2>1, <2>2 DEF SoFar
<1>20. CASE ~Owned(e) /\ ~LeftOut(e)
  <2>1. cleanups' = <<Step("cleanup", e)>> \o cleanups
    BY <1>0, <1>20 DEF CleanupsOf
  <2>2. <<Step("cleanup", e)>> \in Seq(Steps) /\ Len(<<Step("cleanup", e)>>) = 1
        /\ DOMAIN <<Step("cleanup", e)>> = {1} /\ <<Step("cleanup", e)>>[1] = Step("cleanup", e)
    <3>1. Step("cleanup", e) \in Steps
      BY <1>2 DEF Steps, Step, Kinds
    <3>. QED
      BY <3>1
  <2>3. /\ cleanups' \in Seq(Steps)
        /\ \A i \in DOMAIN cleanups' :
             \/ i = 1 /\ cleanups'[i] = Step("cleanup", e)
             \/ i > 1 /\ i - 1 \in DOMAIN cleanups /\ cleanups'[i] = cleanups[i - 1]
    BY <1>4, <2>1, <2>2, Concatenated
  <2>4. At(steps', "install", e.key) # {}
    BY <1>5, <1>13, <1>20
  <2>5. ASSUME NEW i \in DOMAIN cleanups'
        PROVE  /\ cleanups'[i].kind = "cleanup" /\ Installed(steps', cleanups'[i].entry.key)
               /\ \E n \in Handled' : cleanups'[i].entry = entries'[n]
               /\ \A j \in DOMAIN cleanups' :
                    i < j => \A a \in At(steps', "install", cleanups'[i].entry.key),
                                b \in At(steps', "install", cleanups'[j].entry.key) : b < a
    <3>1. \A m \in DOMAIN cleanups :
            /\ cleanups[m].kind = "cleanup" /\ Installed(steps, cleanups[m].entry.key)
            /\ \E n \in Handled : cleanups[m].entry = entries[n]
            /\ \A j \in DOMAIN cleanups :
                 m < j => \A a \in At(steps, "install", cleanups[m].entry.key),
                             b \in At(steps, "install", cleanups[j].entry.key) : b < a
      BY <1>1 DEF SoFar, CleanupsSoFar
    <3>2. CASE i = 1 /\ cleanups'[i] = Step("cleanup", e)
      <4>1. cleanups'[i].kind = "cleanup" /\ cleanups'[i].entry = e
        BY <3>2 DEF Step
      <4>2. ASSUME NEW j \in DOMAIN cleanups', i < j,
                   NEW a \in At(steps', "install", e.key),
                   NEW b \in At(steps', "install", cleanups'[j].entry.key)
            PROVE  b < a
        <5>1. j - 1 \in DOMAIN cleanups /\ cleanups'[j] = cleanups[j - 1]
          BY <2>3, <3>2, <4>2
        <5>2. b <= L
          BY <1>18, <3>1, <4>2, <5>1
        <5>3. a > L
          BY <1>15, <4>2
        <5>4. a \in Int /\ b \in Int
          BY <1>7, LenProperties, <4>2 DEF At
        <5>. QED
          BY <5>2, <5>3, <5>4
      <4>. QED
        BY <1>0, <1>3, <2>4, <4>1, <4>2 DEF Installed
    <3>3. CASE i > 1 /\ i - 1 \in DOMAIN cleanups /\ cleanups'[i] = cleanups[i - 1]
      <4>1. ASSUME NEW j \in DOMAIN cleanups', i < j
            PROVE  j - 1 \in DOMAIN cleanups /\ cleanups'[j] = cleanups[j - 1] /\ i - 1 < j - 1
        <5>1. i \in Int /\ j \in Int
          BY <2>3, LenProperties, <4>1
        <5>. QED
          BY <2>3, <3>3, <4>1, <5>1
      <4>2. ASSUME NEW j \in DOMAIN cleanups', i < j,
                   NEW a \in At(steps', "install", cleanups'[i].entry.key),
                   NEW b \in At(steps', "install", cleanups'[j].entry.key)
            PROVE  b < a
        <5>1. j - 1 \in DOMAIN cleanups /\ cleanups'[j] = cleanups[j - 1] /\ i - 1 < j - 1
          BY <4>1, <4>2
        <5>2. /\ a \in At(steps, "install", cleanups[i - 1].entry.key)
              /\ b \in At(steps, "install", cleanups[j - 1].entry.key)
          BY <1>18, <3>1, <3>3, <4>2, <5>1
        <5>. QED
          BY <3>1, <3>3, <5>1, <5>2
      <4>. QED
        BY <1>18, <3>1, <3>3, <4>2
    <3>. QED
      BY <2>3, <3>2, <3>3
  <2>6. CleanupsSoFar'
    BY <2>5 DEF CleanupsSoFar
  <2>. QED
    BY <1>7, <1>16, <1>17, <2>3, <2>6 DEF SoFar
<1>. QED
  BY <1>19, <1>20

\* While entries are compiled, or before, no plan is done.
LEMMA NotDoneYet == ASSUME pc # "done" PROVE StepsAreRight
  BY DEF StepsAreRight, StepsAreOrdered, SelectedAreTested, CleanupsMirrorInstalls, Done

\* The steps of a plan that is done: those so far, and the cleanups.
LEMMA StepsAreComplete ==
  ASSUME IInv, Compiling, Compiled
  PROVE  StepsAreRight'
<1>1. /\ pc = "compile" /\ at > Len(entries) /\ request.by = "test" /\ SoFar
      /\ steps' = steps \o cleanups /\ skipped' = skipped
      /\ requires' = requires /\ request' = request /\ owned' = owned /\ mode' = mode
  BY DEF Compiled, Compiling, inputs
<1>2. steps \in Seq(Steps) /\ cleanups \in Seq(Steps) /\ Selected' = Selected
  BY <1>1 DEF SoFar, Selected
<1>3. PICK L \in Nat : L = Len(steps) /\ DOMAIN steps = 1 .. L
  BY <1>2, Concatenated
<1>4. /\ steps' \in Seq(Steps)
      /\ \A i \in DOMAIN steps : i \in DOMAIN steps' /\ steps'[i] = steps[i]
      /\ \A i \in DOMAIN steps' :
           i \in DOMAIN steps \/ (i > L /\ i - L \in DOMAIN cleanups /\ steps'[i] = cleanups[i - L])
  <2>1. PICK both : both = steps \o cleanups
    OBVIOUS
  <2>2. /\ both \in Seq(Steps)
        /\ \A i \in DOMAIN steps : i \in DOMAIN both /\ both[i] = steps[i]
        /\ \A i \in DOMAIN both :
             i \in DOMAIN steps \/ (i > Len(steps) /\ i - Len(steps) \in DOMAIN cleanups
                  /\ both[i] = cleanups[i - Len(steps)])
    BY <1>2, <2>1, Joined
  <2>. QED
    BY <1>1, <1>3, <2>1, <2>2
<1>5. DOMAIN steps' \subseteq Int
  BY <1>4, LenProperties
<1>6. ASSUME NEW i \in DOMAIN steps'
      PROVE  /\ steps'[i].kind # "cleanup" <=> i \in DOMAIN steps
             /\ i \notin DOMAIN steps =>
                  i > L /\ i - L \in DOMAIN cleanups /\ steps'[i] = cleanups[i - L]
  <2>1. i \in DOMAIN steps => steps'[i].kind # "cleanup"
    BY <1>1, <1>4 DEF SoFar, StepsSoFar
  <2>2. ASSUME i \notin DOMAIN steps
        PROVE  /\ i > L /\ i - L \in DOMAIN cleanups /\ steps'[i] = cleanups[i - L]
               /\ steps'[i].kind = "cleanup"
    <3>1. i > L /\ i - L \in DOMAIN cleanups /\ steps'[i] = cleanups[i - L]
      BY <1>4, <2>2
    <3>. QED
      BY <1>1, <3>1 DEF SoFar, CleanupsSoFar
  <2>. QED
    BY <2>1, <2>2
<1>7. ASSUME NEW kind, NEW k, kind # "cleanup"
      PROVE  At(steps', kind, k) = At(steps, kind, k)
  <2>1. ASSUME NEW i \in At(steps', kind, k) PROVE i \in At(steps, kind, k)
    <3>1. i \in DOMAIN steps' /\ steps'[i].kind = kind /\ steps'[i].entry.key = k
      BY <2>1 DEF At
    <3>2. i \in DOMAIN steps
      BY <1>6, <1>7, <3>1
    <3>. QED
      BY <1>4, <3>1, <3>2 DEF At
  <2>2. ASSUME NEW i \in At(steps, kind, k) PROVE i \in At(steps', kind, k)
    BY <1>4, <2>2 DEF At
  <2>. QED
    BY <2>1, <2>2
<1>8. StepsAreOrdered'
  <2>1. ASSUME NEW i \in DOMAIN steps', steps'[i].kind # "cleanup",
               NEW k \in Elements(requires[steps'[i].entry.key])
        PROVE  k \in owned \union skipped \/ \E j \in 1 .. i - 1 : j \in At(steps', "install", k)
    <3>1. i \in DOMAIN steps /\ steps'[i] = steps[i]
      BY <1>4, <1>6, <2>1
    <3>2. k \in owned \union skipped \/ \E j \in 1 .. i - 1 : j \in At(steps, "install", k)
      BY <1>1, <2>1, <3>1 DEF SoFar, StepsSoFar
    <3>. QED
      BY <1>7, <3>2
  <2>. QED
    BY <1>1, <2>1 DEF StepsAreOrdered, Position, At
<1>9. SelectedAreTested'
  <2>1. ASSUME NEW k \in Selected PROVE At(steps', "test", k) # {}
    <3>1. k \in EntryKeys
      BY <1>1, <2>1, AllRootsPlanned
    <3>2. PICK n \in DOMAIN entries : entries[n].key = k
      BY <3>1 DEF EntryKeys
    <3>3. n \in Handled
      <4>1. entries \in Seq(PlanEntries) /\ at \in Nat
        BY DEF IInv, TypeOK, PlanEntries
      <4>2. Len(entries) \in Nat /\ DOMAIN entries = 1 .. Len(entries)
        BY <4>1, LenProperties
      <4>. QED
        BY <1>1, <4>1, <4>2 DEF Handled
    <3>4. At(steps, "test", k) # {}
      BY <1>1, <2>1, <3>2, <3>3 DEF SoFar, EntriesSoFar
    <3>. QED
      BY <1>7, <3>4
  <2>2. ASSUME mode # "install", NEW i \in DOMAIN steps', steps'[i].kind = "test"
        PROVE  steps'[i].entry.key \in Selected
    <3>1. i \in DOMAIN steps /\ steps'[i] = steps[i]
      BY <1>4, <1>6, <2>2
    <3>. QED
      BY <1>1, <2>2, <3>1 DEF SoFar, StepsSoFar
  <2>. QED
    BY <1>1, <1>2, <2>1, <2>2 DEF SelectedAreTested, Position, At
<1>10. CleanupsMirrorInstalls'
  <2>1. ASSUME NEW i \in DOMAIN steps', steps'[i].kind = "cleanup"
        PROVE  /\ i > L /\ i - L \in DOMAIN cleanups /\ steps'[i] = cleanups[i - L]
               /\ At(steps', "install", steps'[i].entry.key) = At(steps, "install", cleanups[i - L].entry.key)
               /\ At(steps', "install", steps'[i].entry.key) # {}
    <3>1. i > L /\ i - L \in DOMAIN cleanups /\ steps'[i] = cleanups[i - L]
      BY <1>6, <2>1
    <3>2. At(steps, "install", cleanups[i - L].entry.key) # {}
      BY <1>1, <3>1 DEF SoFar, CleanupsSoFar, Installed
    <3>. QED
      BY <1>7, <3>1, <3>2
  <2>2. ASSUME NEW i \in DOMAIN steps', NEW j \in DOMAIN steps', steps'[i].kind = "cleanup", i < j
        PROVE  steps'[j].kind = "cleanup"
    <3>1. i > L /\ i \in Int /\ j \in Int
      BY <1>5, <2>1, <2>2
    <3>2. j \notin DOMAIN steps
      BY <1>3, <2>2, <3>1
    <3>. QED
      BY <1>6, <3>2
  <2>3. ASSUME NEW i \in DOMAIN steps', NEW j \in DOMAIN steps', steps'[i].kind = "cleanup", i < j,
               NEW a \in At(steps', "install", steps'[i].entry.key),
               NEW b \in At(steps', "install", steps'[j].entry.key)
        PROVE  b < a
    <3>1. /\ i - L \in DOMAIN cleanups /\ a \in At(steps, "install", cleanups[i - L].entry.key)
          /\ j - L \in DOMAIN cleanups /\ b \in At(steps, "install", cleanups[j - L].entry.key)
      BY <2>1, <2>2, <2>3
    <3>2. i - L < j - L
      BY <1>5, <2>3
    <3>. QED
      BY <1>1, <3>1, <3>2 DEF SoFar, CleanupsSoFar
  <2>4. (Done =>
          \A i, j \in DOMAIN steps :
            steps[i].kind = "cleanup" =>
              /\ i < j => steps[j].kind = "cleanup"
              /\ At(steps, "install", steps[i].entry.key) # {}
              /\ i < j => \A a \in At(steps, "install", steps[i].entry.key),
                             b \in At(steps, "install", steps[j].entry.key) : b < a)'
    BY <2>1, <2>2, <2>3
  <2>. QED
    BY <2>4 DEF CleanupsMirrorInstalls, Position, At
<1>. QED
  BY <1>8, <1>9, <1>10 DEF StepsAreRight

\* Every step keeps the account of what was compiled.
LEMMA NextCompiling == IInv /\ Compiling /\ [Next]_vars => Compiling'
<1> SUFFICES ASSUME IInv, Compiling, [Next]_vars PROVE Compiling'
  OBVIOUS
<1>1. CASE Open \/ Visit \/ Leave \/ Merge
  <2>1. pc \in {"open", "walk", "merge"} /\ UNCHANGED compiled
        /\ pc' \in {"walk", "merge", "spec", "cycle", "conflict"}
    BY <1>1 DEF Open, Enter, Visit, Leave, Merge
  <2>. QED
    BY <2>1, NotDoneYet DEF Compiling, compiled, StepsAreRight, StepsAreOrdered, SelectedAreTested,
       CleanupsMirrorInstalls, Done
<1>2. CASE Merged
  <2>1. /\ at = 1 /\ steps = <<>> /\ cleanups = <<>> /\ skipped = {} /\ UNCHANGED <<compiled, request>>
        /\ pc' \in {"open", "compile", "done"} /\ (pc' = "compile" => request.by = "test")
        /\ (pc' = "done" => request.by # "test")
    BY <1>2 DEF Merged, Compiling, inputs
  <2>2. SoFar'
    <3>1. at' = 1 /\ steps' = <<>> /\ cleanups' = <<>>
      BY <2>1 DEF compiled
    <3>2. entries' = entries /\ entries \in Seq(PlanEntries)
      BY <1>2 DEF Merged, IInv, TypeOK, PlanEntries
    <3>3. Handled' = {}
      BY <3>1, <3>2, LenProperties DEF Handled
    <3>. QED
      BY <3>1, <3>3 DEF SoFar, StepsSoFar, EntriesSoFar, CleanupsSoFar
  <2>3. StepsAreRight'
    BY <2>1 DEF StepsAreRight, StepsAreOrdered, SelectedAreTested, CleanupsMirrorInstalls, Done
  <2>. QED
    BY <2>1, <2>2, <2>3 DEF Compiling, compiled
<1>3. CASE Compile
  <2>1. pc' \in {"compile", "spec"} /\ request' = request
    BY <1>3 DEF Compile, inputs
  <2>2. StepsAreRight'
    BY <2>1 DEF StepsAreRight, StepsAreOrdered, SelectedAreTested, CleanupsMirrorInstalls, Done
  <2>3. pc' = "compile" => SoFar' /\ request.by = "test"
    BY <1>3, SoFarGrows DEF Compile, Compiling
  <2>. QED
    BY <2>1, <2>2, <2>3 DEF Compiling
<1>4. CASE Compiled
  <2>1. pc' = "done"
    BY <1>4 DEF Compiled
  <2>. QED
    BY <1>4, <2>1, StepsAreComplete DEF Compiling
<1>5. CASE UNCHANGED vars
  BY <1>5 DEF vars, inputs, walk, compiled, Compiling, SoFar, StepsSoFar, EntriesSoFar, CleanupsSoFar,
     Handled, StepsAreRight, StepsAreOrdered, SelectedAreTested, CleanupsMirrorInstalls, Done, Position,
     Selected
<1>. QED
  BY <1>1, <1>2, <1>3, <1>4, <1>5 DEF Next

\* compile_test_plan: the steps of chart test keep the order of the plan, test what was
\* selected and nothing that the mode excludes, and undo their installs in reverse.
THEOREM StepsAreInOrder == Spec => []StepsAreRight
<1>1. Init => Compiling
  BY DEF Init, Compiling, StepsAreRight, StepsAreOrdered, SelectedAreTested, CleanupsMirrorInstalls, Done
<1>2. Compiling => StepsAreRight
  BY DEF Compiling
<1>. QED
  BY <1>1, <1>2, NextCompiling, Invariant, PTL DEF Spec

\* compile_install_plan, compile_test_plan: a plan is right, and so are the steps of its test.
THEOREM PlansAreRight == Spec => []PlanIsRight
BY EntriesAreInOrder, StepsAreInOrder, PTL DEF PlanIsRight

-----------------------------------------------------------------------------
(***************************************************************************)
(* Timeline.                                                               *)
(***************************************************************************)

\* What is stored: a document from before the normalisation, or one that was emitted, whose
\* text is its instant.
WellKept(d) ==
  /\ d.stamp.instant \in Nat /\ d.stamp.text \in Nat /\ d.stamp.text >= d.stamp.instant
  /\ \/ d \in Legacy /\ d.id = <<"uuid", 0>>
     \/ d.stamp.text = d.stamp.instant /\ \E n \in 1 .. emitted : d.id = <<"uuid", n>>

\* What is confirmed can be read, where anything can, and what was answered still is.
Ledger ==
  /\ emitted \in Nat /\ IsFiniteSet(stored) /\ \A d \in stored : WellKept(d)
  /\ backend = "cosmos" => told \subseteq stored
  /\ answer.how = "shown" =>
       /\ backend = "cosmos" /\ answer.selector \in Selectors(Releases) /\ answer.limit \in Nat
       /\ \E page \in Pages(stored, answer.selector, answer.limit) : answer.page \in Shown(page)
  /\ answer.how # "shown" => answer.page = << >>

\* Stamp, Event: what a document from before the normalisation is.
LEMMA LegacyKept == ASSUME NEW d \in Legacy PROVE WellKept(d)
<1>1. PICK r \in Releases, i \in Instants, o \in Offsets :
        d = Event(r[1], r[2], "published", Stamp(i, o), "none", NoKey, 0)
  BY DEF Legacy
<1>2. i \in Nat /\ o \in Nat
  BY TimelineAssumption
<1>3. d.stamp = Stamp(i, o) /\ d.id = <<"uuid", 0>>
  BY <1>1 DEF Event
<1>4. d.stamp.instant = i /\ d.stamp.text = i + o
  BY <1>3 DEF Stamp
<1>. QED
  BY <1>2, <1>3, <1>4 DEF WellKept

LEMMA TimelineStarts == TimelineInit => Ledger
<1>. SUFFICES ASSUME TimelineInit PROVE Ledger
  OBVIOUS
<1>1. emitted \in Nat /\ told = {} /\ answer.how = "none" /\ answer.page = << >>
  BY DEF TimelineInit, NoAnswer
<1>2. stored = {} \/ \E d \in Legacy : stored = {d}
  BY DEF TimelineInit
<1>3. IsFiniteSet(stored) /\ \A d \in stored : WellKept(d)
  BY <1>2, LegacyKept, FS_EmptySet, FS_Singleton
<1>. QED
  BY <1>1, <1>3 DEF Ledger

\* Write: an appended event takes nobody's place.
LEMMA EmitKeeps ==
  ASSUME Ledger, Emit
  PROVE  Ledger'
<1>1. /\ emitted' = emitted + 1 /\ backend' = backend /\ answer'.how = "none" /\ answer'.page = << >>
      /\ emitted \in Nat
  BY DEF Emit, NoAnswer, Ledger
<1>2. PICK event :
        /\ \E i \in Instants : event.stamp = ParseAt(i, 0)
        /\ event.id = <<"uuid", emitted + 1>>
        /\ \/ /\ stored' = IF backend = "none" THEN stored ELSE Write(stored, event, emitted + 1)
              /\ told' = told \union {event}
           \/ stored' = stored \union {event} /\ backend # "none" /\ UNCHANGED told
           \/ backend # "none" /\ UNCHANGED <<stored, told>>
  <2>1. PICK r \in Releases, i \in Instants, o \in Offsets :
          LET event == Event(r[1], r[2], "published", ParseAt(i, o), "none", NoKey, emitted + 1)
          IN \/ /\ stored' = IF backend = "none" THEN stored ELSE Write(stored, event, emitted + 1)
                /\ told' = told \union {event}
             \/ stored' = stored \union {event} /\ backend # "none" /\ UNCHANGED told
             \/ backend # "none" /\ UNCHANGED <<stored, told>>
    BY DEF Emit
  <2>2. PICK event : event = Event(r[1], r[2], "published", ParseAt(i, o), "none", NoKey, emitted + 1)
    OBVIOUS
  <2>3. event.stamp = ParseAt(i, 0) /\ event.id = <<"uuid", emitted + 1>>
    BY <2>2 DEF Event, ParseAt
  <2>4. \/ /\ stored' = IF backend = "none" THEN stored ELSE Write(stored, event, emitted + 1)
           /\ told' = told \union {event}
        \/ stored' = stored \union {event} /\ backend # "none" /\ UNCHANGED told
        \/ backend # "none" /\ UNCHANGED <<stored, told>>
    BY <2>1, <2>2
  <2>. QED
    BY <2>3, <2>4
<1>3. event.stamp.instant \in Nat /\ event.stamp.text = event.stamp.instant
  <2>1. PICK i \in Instants : event.stamp = ParseAt(i, 0)
    BY <1>2
  <2>2. i \in Nat
    BY TimelineAssumption
  <2>. QED
    BY <2>1, <2>2 DEF ParseAt, Stamp
<1>4. \A d \in stored : d.id # event.id
  BY <1>1, <1>2 DEF Ledger, WellKept
<1>5. /\ stored \subseteq stored' /\ stored' \subseteq stored \union {event}
      /\ told' \subseteq told \union {event}
      /\ backend = "cosmos" /\ event \in told' \ told => event \in stored'
  BY <1>2, <1>4 DEF Write
<1>6. IsFiniteSet(stored')
  BY <1>5, FS_AddElement, FS_Subset DEF Ledger
<1>7. ASSUME NEW d \in stored' PROVE WellKept(d)'
  <2>1. CASE d \in stored
    <3>1. WellKept(d)
      BY <2>1 DEF Ledger
    <3>2. \A n \in 1 .. emitted : n \in 1 .. emitted + 1
      BY <1>1
    <3>. QED
      BY <1>1, <3>1, <3>2 DEF WellKept
  <2>2. CASE d = event
    <3>1. emitted + 1 \in 1 .. emitted + 1
      BY <1>1
    <3>. QED
      BY <1>1, <1>2, <1>3, <2>2, <3>1 DEF WellKept
  <2>. QED
    BY <1>5, <2>1, <2>2
<1>. QED
  BY <1>1, <1>5, <1>6, <1>7 DEF Ledger

LEMMA ListKeeps == ASSUME Ledger, List PROVE Ledger'
<1>1. PICK selector \in Selectors(Releases), limit \in Limits : answer' \in Answers(selector, limit)
  BY DEF List
<1>2. UNCHANGED <<backend, stored, emitted, told>> /\ limit \in Nat
  BY TimelineAssumption DEF List
<1>3. CASE backend # "cosmos"
  <2>1. answer'.how = "refused" /\ answer'.page = << >>
    BY <1>1, <1>3 DEF Answers, Refused
  <2>. QED
    BY <1>2, <2>1 DEF Ledger, WellKept
<1>4. CASE backend = "cosmos"
  <2>1. PICK s \in UNION {Shown(page) : page \in Pages(stored, selector, limit)} :
          answer' = [how |-> "shown", selector |-> selector, limit |-> limit, page |-> s]
    BY <1>1, <1>4 DEF Answers
  <2>2. answer'.how = "shown" /\ answer'.selector = selector /\ answer'.limit = limit /\ answer'.page = s
    BY <2>1
  <2>3. \E page \in Pages(stored, selector, limit) : s \in Shown(page)
    OBVIOUS
  <2>. QED
    BY <1>2, <1>4, <2>2, <2>3 DEF Ledger, WellKept
<1>. QED
  BY <1>3, <1>4

LEMMA TimelineInvariant == TimelineSpec => []Ledger
<1>1. Ledger /\ [TimelineNext]_timelineVars => Ledger'
  <2>1. Ledger /\ UNCHANGED timelineVars => Ledger'
    BY DEF Ledger, WellKept, timelineVars
  <2>. QED
    BY <2>1, EmitKeeps, ListKeeps DEF TimelineNext
<1>. QED
  BY TimelineStarts, <1>1, PTL DEF TimelineSpec

\* Shown: a page is shown in full, in the order of the instants.
LEMMA ShownPage ==
  ASSUME NEW page, IsFiniteSet(page), NEW s \in Shown(page)
  PROVE  /\ {s[i] : i \in DOMAIN s} = page /\ Len(s) = Cardinality(page)
         /\ \A i, j \in DOMAIN s : i < j => s[i].stamp.instant >= s[j].stamp.instant
<1>1. Cardinality(page) \in Nat
  BY FS_CardinalityType
<1>2. s \in [1 .. Cardinality(page) -> page]
  BY DEF Shown
<1>3. Len(s) = Cardinality(page)
  <2>1. s \in Seq(page)
    BY <1>1, <1>2
  <2>. QED
    BY <1>1, <1>2, <2>1, LenProperties
<1>4. {s[i] : i \in DOMAIN s} = page
  BY <1>2 DEF Shown
<1>. QED
  BY <1>3, <1>4 DEF Shown

\* Pages: an event that is asked for and not on the page has as many before it as were asked
\* for, as their text goes.
LEMMA PageCuts ==
  ASSUME NEW docs, IsFiniteSet(docs), NEW selector, NEW limit \in Nat,
       NEW page \in Pages(docs, selector, limit)
  PROVE  /\ IsFiniteSet(page) /\ page \subseteq Matching(docs, selector)
         /\ \A e \in Matching(docs, selector) \ page :
              /\ Cardinality(page) = limit
              /\ \A d \in page : d.stamp.text >= e.stamp.text
<1>1. PICK matched : matched = Matching(docs, selector)
  OBVIOUS
<1>2. IsFiniteSet(matched)
  <2>1. matched \in SUBSET docs
    BY <1>1 DEF Matching
  <2>. QED
    BY <2>1, FS_Subset
<1>3. /\ page \in SUBSET matched
      /\ Cardinality(page) = IF Cardinality(matched) < limit THEN Cardinality(matched) ELSE limit
      /\ \A d \in page, e \in matched \ page : d.stamp.text >= e.stamp.text
  BY <1>1 DEF Pages
<1>4. IsFiniteSet(page) /\ (Cardinality(matched) = Cardinality(page) => matched = page)
  BY <1>2, <1>3, FS_Subset
<1>5. ASSUME NEW e \in matched \ page PROVE Cardinality(page) = limit
  BY <1>3, <1>4, <1>5
<1>. QED
  BY <1>1, <1>3, <1>4, <1>5

\* A listing that answers shows what was asked for: nothing that was confirmed is missing
\* while something older is shown, but for documents that were stored with an offset, and
\* what is shown is in order.
THEOREM ListingsAreRight == TimelineSpec => []ListingIsRight
<1>1. ASSUME Ledger PROVE ListingIsRight
  <2>1. CASE answer.how # "shown"
    <3>1. DOMAIN answer.page = {}
      BY <1>1, <2>1 DEF Ledger
    <3>. QED
      BY <2>1, <3>1 DEF ListingIsRight, ListingIsNewest, ListingIsInOrder
  <2>2. CASE answer.how = "shown"
    <3>1. PICK page \in Pages(stored, answer.selector, answer.limit) : answer.page \in Shown(page)
      BY <1>1, <2>2 DEF Ledger
    <3>2. /\ backend = "cosmos" /\ told \subseteq stored /\ IsFiniteSet(stored) /\ \A d \in stored : WellKept(d)
          /\ answer.selector \in Selectors(Releases) /\ answer.limit \in Nat
      BY <1>1, <2>2 DEF Ledger
    <3>3. /\ IsFiniteSet(page) /\ page \subseteq Matching(stored, answer.selector)
          /\ \A e \in Matching(stored, answer.selector) \ page :
               /\ Cardinality(page) = answer.limit
               /\ \A d \in page : d.stamp.text >= e.stamp.text
      BY <3>1, <3>2, PageCuts
    <3>4. /\ Page = page /\ Len(answer.page) = Cardinality(page)
          /\ \A i, j \in DOMAIN answer.page :
               i < j => answer.page[i].stamp.instant >= answer.page[j].stamp.instant
      BY <3>1, <3>3, ShownPage DEF Page
    <3>5. /\ answer.selector.chart = {} \/ \E x : answer.selector.chart = {x}
          /\ answer.selector.version = {} \/ \E x : answer.selector.version = {x}
      <4>1. CASE answer.selector = All
        BY <4>1 DEF All
      <4>2. CASE \E r \in Releases : answer.selector = [chart |-> {r[1]}, version |-> {}]
        <5>1. PICK r \in Releases : answer.selector = [chart |-> {r[1]}, version |-> {}]
          BY <4>2
        <5>2. answer.selector.chart = {r[1]} /\ answer.selector.version = {}
          BY <5>1
        <5>. QED
          BY <5>2
      <4>3. CASE \E r \in Releases : answer.selector = [chart |-> {r[1]}, version |-> {r[2]}]
        <5>1. PICK r \in Releases : answer.selector = [chart |-> {r[1]}, version |-> {r[2]}]
          BY <4>3
        <5>2. answer.selector.chart = {r[1]} /\ answer.selector.version = {r[2]}
          BY <5>1
        <5>. QED
          BY <5>2
      <4>. QED
        BY <3>2, <4>1, <4>2, <4>3 DEF Selectors
    <3>6. ASSUME NEW d \in page PROVE About(d)
      <4>1. /\ answer.selector.chart = {} \/ d.chart \in answer.selector.chart
            /\ answer.selector.version = {} \/ d.version \in answer.selector.version
        BY <3>3 DEF Matching
      <4>. QED
        BY <3>5, <4>1 DEF About
    <3>7. ASSUME NEW e \in told, About(e), e \notin page
          PROVE  /\ Len(answer.page) = answer.limit
                 /\ \A d \in page : d.stamp.instant >= e.stamp.instant \/ d \in Legacy
      <4>1. e \in Matching(stored, answer.selector) \ page
        BY <3>2, <3>5, <3>7 DEF About, Matching
      <4>2. WellKept(e)
        BY <3>2
      <4>3. ASSUME NEW d \in page PROVE d.stamp.instant >= e.stamp.instant \/ d \in Legacy
        <5>1. WellKept(d) /\ d.stamp.text >= e.stamp.text
          BY <3>2, <3>3, <4>1 DEF Matching
        <5>. QED
          BY <4>2, <5>1 DEF WellKept
      <4>. QED
        BY <3>3, <3>4, <4>1, <4>3
    <3>. QED
      BY <3>4, <3>6, <3>7 DEF ListingIsRight, ListingIsNewest, ListingIsInOrder
  <2>. QED
    BY <2>1, <2>2
<1>. QED
  BY <1>1, TimelineInvariant, PTL

-----------------------------------------------------------------------------
(***************************************************************************)
(* Freshness.                                                              *)
(***************************************************************************)

\* One version of each dependency that is declared, of those that it accepts.
IsResolution(accepted, resolved) ==
  /\ \A p \in resolved : \E n \in Names : \E v \in accepted[n] : p = <<n, v>>
  /\ \A n \in Names : accepted[n] # {} => \E v \in accepted[n] : <<n, v>> \in resolved
  /\ \A p, q \in resolved : p[1] = q[1] => p = q

\* What files under charts/ are, each once.
HeldBy(there) == {vendored[f].of : f \in there}
NoneTwice(there) == \A f, g \in there : vendored[f].of = vendored[g].of => f = g

\* What a lock says it is for was once resolved from it, whatever became of its list.
DigestIsHonest ==
  \/ lock.digest = <<>>
  \/ lock.digest = <<lock.digest[1], lock.digest[2]>> /\ IsResolution(lock.digest[1], lock.digest[2])

\* What Helm has moved to charts/ is what it resolved.
VendoredIsResolved == IsResolution(declared, Resolution) /\ HeldBy(Archives) = Resolution /\ NoneTwice(Archives)

LockIsResolved == lock.digest = <<declared, Resolution>> /\ lock.locked = Resolution

FreshTypes ==
  /\ declared \in [Names -> SUBSET Versions] /\ newest \in [Names -> Versions]
  /\ lock = [digest |-> lock.digest, locked |-> lock.locked]

\* What is being rendered was believed fresh, or was just updated.
Believed ==
  /\ FreshTypes /\ DigestIsHonest
  /\ stage = "render" /\ Declared # {} => Fresh
  /\ stage \in {"update", "vendored", "updated"} => Declared # {}
  /\ stage \in {"vendored", "updated"} => VendoredIsResolved
  /\ stage = "updated" => LockIsResolved

\* A set of numbers up to a bound has a greatest.
LEMMA Greatest ==
  ASSUME NEW bound \in Nat, NEW S, S \subseteq 0 .. bound, S # {}
  PROVE  \E x \in S : \A y \in S : y <= x
<1>1. PICK less : less = OpToRel(<, Nat)
  OBVIOUS
<1>2. IsWellFoundedOn(less, Nat)
  BY <1>1, NatLessThanWellFounded
<1>3. \A x, y \in Nat : x < y => <<x, y>> \in less
  BY <1>1 DEF OpToRel
<1>4. PICK T : T = {bound - v : v \in S}
  OBVIOUS
<1>5. T \subseteq Nat /\ T # {}
  <2>1. \A v \in S : bound - v \in Nat /\ bound - v \in T
    BY <1>4
  <2>2. PICK v \in S : TRUE
    OBVIOUS
  <2>. QED
    BY <1>4, <2>1, <2>2
<1>6. PICK x \in T : \A y \in T : ~(<<y, x>> \in less)
  BY <1>2, <1>5, WFMin
<1>7. PICK v \in S : x = bound - v
  BY <1>4
<1>8. ASSUME NEW w \in S PROVE w <= v
  <2>1. bound - w \in T /\ bound - w \in Nat /\ x \in Nat
    BY <1>4, <1>5
  <2>2. ~(bound - w < x)
    BY <1>3, <1>6, <2>1
  <2>. QED
    BY <2>2, <1>7
<1>. QED
  BY <1>8

\* Helm finds a version of each dependency, if there is one of each.
LEMMA ResolutionIs ==
  ASSUME Believed, Resolvable
  PROVE  IsResolution(declared, Resolution)
<1>1. ASSUME NEW n \in Declared PROVE Resolved(n) \in declared[n]
  <2>1. PICK S : S = {v \in declared[n] : v <= newest[n]}
    OBVIOUS
  <2>2. n \in Names /\ declared[n] \subseteq 1 .. MaxVersion /\ MaxVersion \in Nat
    BY FreshnessAssumption DEF Believed, FreshTypes, Declared, Versions
  <2>3. S \subseteq 0 .. MaxVersion /\ S # {}
    BY <2>1, <2>2 DEF Resolvable
  <2>4. PICK x \in S : \A y \in S : y <= x
    BY <2>2, <2>3, Greatest
  <2>5. x \in declared[n] /\ x <= newest[n] /\ \A w \in declared[n] : w <= newest[n] => w <= x
    BY <2>1, <2>4
  <2>. QED
    BY <2>5 DEF Resolved
<1>2. \A p \in Resolution : \E n \in Declared : p = <<n, Resolved(n)>>
  BY DEF Resolution
<1>3. \A n \in Declared : <<n, Resolved(n)>> \in Resolution /\ n \in Names
  BY DEF Resolution, Declared
<1>4. \A p, q \in Resolution : p[1] = q[1] => p = q
  BY <1>2
<1>5. \A n \in Names : declared[n] # {} => n \in Declared
  BY DEF Declared
<1>. QED
  BY <1>1, <1>2, <1>3, <1>4, <1>5 DEF IsResolution

\* What resolves what is declared is one of each.
LEMMA ResolutionIsWhole ==
  ASSUME NEW there, there \subseteq Files, IsResolution(declared, HeldBy(there)), NoneTwice(there)
  PROVE  OneOfEach(there)
<1>1. ASSUME NEW f \in there
      PROVE  /\ vendored[f].of \in HeldBy(there) /\ vendored[f].of[1] \in Declared
             /\ vendored[f].of[2] \in declared[vendored[f].of[1]]
  <2>1. vendored[f].of \in HeldBy(there)
    BY DEF HeldBy
  <2>2. PICK n \in Names : \E v \in declared[n] : vendored[f].of = <<n, v>>
    BY <2>1 DEF IsResolution
  <2>. QED
    BY <2>1, <2>2 DEF Declared
<1>2. ASSUME NEW n \in Declared PROVE \E f \in there : vendored[f].of[1] = n
  <2>1. n \in Names /\ declared[n] # {}
    BY DEF Declared
  <2>2. PICK v \in declared[n] : <<n, v>> \in HeldBy(there)
    BY <2>1 DEF IsResolution
  <2>. QED
    BY <2>2 DEF HeldBy
<1>3. ASSUME NEW f \in there, NEW g \in there, vendored[f].of[1] = vendored[g].of[1] PROVE f = g
  <2>1. vendored[f].of = vendored[g].of
    BY <1>1, <1>3 DEF IsResolution
  <2>. QED
    BY <2>1 DEF NoneTwice
<1>4. Cardinality(there) = Cardinality(Declared)
  <2>1. IsFiniteSet(there)
    BY FreshnessAssumption, FS_Subset
  <2>2. PICK name : name = [f \in there |-> vendored[f].of[1]]
    OBVIOUS
  <2>3. name \in Bijection(there, Declared)
    <3>1. name \in [there -> Declared]
      BY <1>1, <2>2
    <3>2. \A f, g \in there : name[f] = name[g] => f = g
      BY <1>3, <2>2
    <3>3. \A n \in Declared : \E f \in there : name[f] = n
      BY <1>2, <2>2
    <3>. QED
      BY <3>1, <3>2, <3>3 DEF Bijection, Injection, Surjection, IsInjective
  <2>. QED
    BY <2>1, <2>3, FS_Bijection DEF ExistsBijection
<1>. QED
  BY <1>1, <1>2, <1>4 DEF OneOfEach

LEMMA FreshStarts == FreshInit => Believed
<1>. SUFFICES ASSUME FreshInit PROVE Believed
  OBVIOUS
<1>1. 1 \in Versions
  BY FreshnessAssumption DEF Versions
<1>. QED
  BY <1>1 DEF FreshInit, Believed, FreshTypes, DigestIsHonest, NoLock

\* Vendor: what is moved is the resolution, one file for each.
LEMMA VendorHolds ==
  ASSUME Believed, Vendor, stage' = "vendored"
  PROVE  IsResolution(declared, Resolution) /\ HeldBy(Archives)' = Resolution /\ NoneTwice(Archives)'
<1>1. PICK moved \in SUBSET Declared :
        /\ \E places \in [moved -> {f \in Files : vendored[f].kind \in {"none", "archive"}}] :
             /\ \A m, n \in moved : places[m] = places[n] => m = n
             /\ vendored' = [f \in Files |->
                  IF \E n \in moved : places[n] = f
                  THEN LET n == CHOOSE m \in moved : places[m] = f
                       IN Artifact("archive", <<n, Resolved(n)>>)
                  ELSE IF vendored[f].kind = "archive" THEN Nothing ELSE vendored[f]]
        /\ stage' \in IF moved = Declared THEN {"vendored", "idle"} ELSE {"idle"}
  BY DEF Vendor
<1>2. moved = Declared /\ Resolvable
  BY <1>1 DEF Vendor
<1>3. PICK places \in [Declared -> {f \in Files : vendored[f].kind \in {"none", "archive"}}] :
        /\ \A m, n \in Declared : places[m] = places[n] => m = n
        /\ vendored' = [f \in Files |->
             IF \E n \in Declared : places[n] = f
             THEN LET n == CHOOSE m \in Declared : places[m] = f
                  IN Artifact("archive", <<n, Resolved(n)>>)
             ELSE IF vendored[f].kind = "archive" THEN Nothing ELSE vendored[f]]
  BY <1>1, <1>2
<1>4. ASSUME NEW n \in Declared
      PROVE  places[n] \in Files /\ vendored'[places[n]] = Artifact("archive", <<n, Resolved(n)>>)
  <2>1. places[n] \in Files
    BY <1>3
  <2>2. (CHOOSE m \in Declared : places[m] = places[n]) = n
    BY <1>3
  <2>. QED
    BY <2>1, <2>2, <1>3
<1>5. ASSUME NEW f \in Files, \A n \in Declared : places[n] # f PROVE vendored'[f].kind # "archive"
  BY <1>3, <1>5 DEF Nothing, Artifact
<1>6. \A f \in Archives' : \E n \in Declared : f = places[n]
  BY <1>5 DEF Archives
<1>7. ASSUME NEW n \in Declared
      PROVE  places[n] \in Archives' /\ vendored'[places[n]].of = <<n, Resolved(n)>>
  <2>1. PICK v : v = Resolved(n)
    OBVIOUS
  <2>2. PICK a : a = vendored'[places[n]]
    OBVIOUS
  <2>3. a = [kind |-> "archive", of |-> <<n, v>>]
    BY <2>1, <2>2, <1>4 DEF Artifact
  <2>4. a.kind = "archive" /\ a.of = <<n, v>>
    BY <2>3
  <2>. QED
    BY <2>1, <2>2, <2>4, <1>4 DEF Archives
<1>8. HeldBy(Archives)' = Resolution
  <2>1. HeldBy(Archives)' = {vendored'[f].of : f \in Archives'}
    BY DEF HeldBy
  <2>2. ASSUME NEW p \in HeldBy(Archives)' PROVE \E n \in Declared : p = <<n, Resolved(n)>>
    <3>1. PICK f \in Archives' : p = vendored'[f].of
      BY <2>1
    <3>2. PICK n \in Declared : f = places[n]
      BY <1>6
    <3>. QED
      BY <3>1, <3>2, <1>7
  <2>3. \A n \in Declared : <<n, Resolved(n)>> \in HeldBy(Archives)'
    BY <2>1, <1>7
  <2>4. Resolution = {<<n, Resolved(n)>> : n \in Declared}
    BY DEF Resolution
  <2>. QED
    BY <2>2, <2>3, <2>4
<1>9. NoneTwice(Archives)'
  BY <1>6, <1>7 DEF NoneTwice
<1>. QED
  BY <1>2, <1>8, <1>9, ResolutionIs

\* What a step does not touch stays as it is.
LEMMA ResolutionStays == UNCHANGED authored => Resolution' = Resolution /\ Declared' = Declared
<1>. SUFFICES ASSUME UNCHANGED authored PROVE Resolution' = Resolution /\ Declared' = Declared
  OBVIOUS
<1>1. declared' = declared /\ newest' = newest
  BY DEF authored
<1>. QED
  BY <1>1 DEF Resolution, Resolved, Declared

LEMMA VendoredStays == UNCHANGED <<authored, vendored>> => (VendoredIsResolved' <=> VendoredIsResolved)
<1>. SUFFICES ASSUME UNCHANGED <<authored, vendored>> PROVE VendoredIsResolved' <=> VendoredIsResolved
  OBVIOUS
<1>1. declared' = declared /\ Resolution' = Resolution
  BY ResolutionStays DEF authored
<1>2. HeldBy(Archives)' = HeldBy(Archives) /\ (NoneTwice(Archives)' <=> NoneTwice(Archives))
  BY DEF HeldBy, NoneTwice, Archives
<1>. QED
  BY <1>1, <1>2 DEF VendoredIsResolved, IsResolution

LEMMA FreshStays == UNCHANGED <<authored, lock, vendored>> => (Fresh' <=> Fresh)
  BY DEF authored, Fresh, Declared, Readable, Charts, Archives, Directories

LEMMA DigestStays == lock'.digest = lock.digest => (DigestIsHonest' <=> DigestIsHonest)
  BY DEF DigestIsHonest, IsResolution

LEMMA TypesStay == UNCHANGED <<authored, lock>> => (FreshTypes' <=> FreshTypes)
  BY DEF FreshTypes, authored, Versions

LEMMA EnsureKeeps == ASSUME Believed, Ensure PROVE Believed'
<1>1. UNCHANGED <<authored, lock, vendored>>
  BY DEF Ensure
<1>2. (Fresh' <=> Fresh) /\ Declared' = Declared /\ DigestIsHonest' /\ FreshTypes'
  BY <1>1, FreshStays, ResolutionStays, DigestStays, TypesStay DEF Believed
<1>3. stage' \in {"update", "render"}
  BY DEF Ensure
<1>4. stage' = "render" /\ Declared # {} => Fresh
  BY DEF Ensure
<1>5. stage' = "update" => Declared # {}
  BY DEF Ensure
<1>. QED
  BY <1>2, <1>3, <1>4, <1>5 DEF Believed

LEMMA VendorKeeps == ASSUME Believed, Vendor PROVE Believed'
<1>1. UNCHANGED <<authored, lock>> /\ stage' \in {"idle", "vendored"} /\ stage = "update"
  BY DEF Vendor
<1>2. declared' = declared /\ Resolution' = Resolution /\ Declared' = Declared /\ DigestIsHonest'
     /\ FreshTypes'
  BY <1>1, ResolutionStays, DigestStays, TypesStay DEF Believed, authored
<1>3. Declared # {}
  BY <1>1 DEF Believed
<1>4. stage' = "vendored" => VendoredIsResolved'
  BY <1>2, VendorHolds DEF VendoredIsResolved, IsResolution
<1>. QED
  BY <1>1, <1>2, <1>3, <1>4 DEF Believed

LEMMA WriteLockKeeps == ASSUME Believed, WriteLock PROVE Believed'
<1>1. UNCHANGED <<authored, vendored>> /\ stage' \in {"idle", "updated"} /\ stage = "vendored"
  BY DEF WriteLock
<1>2. /\ declared' = declared /\ newest' = newest
      /\ Resolution' = Resolution /\ Declared' = Declared /\ VendoredIsResolved'
  BY <1>1, ResolutionStays, VendoredStays DEF Believed, authored
<1>3. VendoredIsResolved /\ Declared # {} /\ FreshTypes /\ DigestIsHonest
  BY <1>1 DEF Believed
<1>4. CASE stage' = "idle" /\ UNCHANGED lock
  <2>1. DigestIsHonest' /\ FreshTypes'
    BY <1>1, <1>3, <1>4, DigestStays, TypesStay
  <2>. QED
    BY <1>4, <2>1 DEF Believed
<1>5. CASE lock' = [digest |-> Digest(declared, Resolution), locked |-> Resolution] /\ stage' = "updated"
  <2>1. lock'.digest = <<declared, Resolution>> /\ lock'.locked = Resolution
    BY <1>5 DEF Digest
  <2>2. lock' = [digest |-> lock'.digest, locked |-> lock'.locked]
    BY <1>5, <2>1 DEF Digest
  <2>3. lock'.digest[1] = declared /\ lock'.digest[2] = Resolution
    BY <2>1
  <2>4. DigestIsHonest'
    <3>1. PICK d : d = lock'.digest
      OBVIOUS
    <3>2. d = <<d[1], d[2]>> /\ d[1] = declared /\ d[2] = Resolution
      BY <2>1, <3>1
    <3>3. IsResolution(d[1], d[2])
      BY <1>3, <3>2 DEF VendoredIsResolved
    <3>4. lock'.digest = <<lock'.digest[1], lock'.digest[2]>>
      BY <3>1, <3>2
    <3>5. /\ \A p \in lock'.digest[2] : \E n \in Names : \E v \in lock'.digest[1][n] : p = <<n, v>>
          /\ \A n \in Names :
               lock'.digest[1][n] # {} => \E v \in lock'.digest[1][n] : <<n, v>> \in lock'.digest[2]
          /\ \A p, q \in lock'.digest[2] : p[1] = q[1] => p = q
      BY <3>1, <3>3 DEF IsResolution
    <3>. QED
      BY <3>4, <3>5 DEF DigestIsHonest, IsResolution
  <2>5. FreshTypes'
    BY <1>2, <1>3, <2>2 DEF FreshTypes, Versions
  <2>6. LockIsResolved'
    BY <1>2, <2>1 DEF LockIsResolved
  <2>. QED
    BY <1>2, <1>3, <1>5, <2>4, <2>5, <2>6 DEF Believed
<1>. QED
  BY <1>4, <1>5 DEF WriteLock

LEMMA RenderKeeps == ASSUME Believed, Render PROVE Believed'
<1>1. UNCHANGED <<authored, lock>> /\ stage' = "idle"
  BY DEF Render
<1>. QED
  BY <1>1, DigestStays, TypesStay DEF Believed

\* What others do, they do between two renderings; nobody writes a digest but Helm.
LEMMA OthersKeep == ASSUME Believed, Others PROVE Believed'
<1>1. stage' = "idle" /\ FreshTypes /\ DigestIsHonest
  BY DEF Others, Believed
<1>2. CASE Declare
  <2>1. PICK n \in Names, accepted \in SUBSET Versions :
          declared' = [declared EXCEPT ![n] = accepted] /\ UNCHANGED <<newest, lock, vendored>>
    BY <1>2 DEF Declare
  <2>2. FreshTypes' /\ lock' = lock
    BY <1>1, <2>1 DEF FreshTypes
  <2>. QED
    BY <1>1, <2>2, DigestStays DEF Believed
<1>3. CASE Release
  <2>1. PICK n \in Names : /\ newest[n] < MaxVersion /\ newest' = [newest EXCEPT ![n] = @ + 1]
                           /\ UNCHANGED <<declared, lock, vendored>>
    BY <1>3 DEF Release
  <2>2. newest[n] \in 1 .. MaxVersion /\ MaxVersion \in Nat
    BY <1>1, FreshnessAssumption DEF FreshTypes, Versions
  <2>3. newest[n] + 1 \in Versions
    BY <2>1, <2>2 DEF Versions
  <2>4. FreshTypes' /\ lock' = lock
    BY <1>1, <2>1, <2>3 DEF FreshTypes
  <2>. QED
    BY <1>1, <2>4, DigestStays DEF Believed
<1>4. CASE EditLock
  <2>1. PICK n \in Names, v \in Versions :
          /\ lock' = [lock EXCEPT !.locked = {i \in @ : i[1] # n} \union {<<n, v>>}]
          /\ UNCHANGED <<authored, vendored>>
    BY <1>4 DEF EditLock
  <2>2. lock = [digest |-> lock.digest, locked |-> lock.locked]
    BY <1>1 DEF FreshTypes
  <2>3. lock'.digest = lock.digest /\ lock' = [digest |-> lock'.digest, locked |-> lock'.locked]
    BY <2>1, <2>2
  <2>4. FreshTypes'
    BY <1>1, <2>1, <2>3 DEF FreshTypes, authored, Versions
  <2>. QED
    BY <1>1, <2>3, <2>4, DigestStays DEF Believed
<1>5. CASE Clutter
  BY <1>1, <1>5, DigestStays, TypesStay DEF Believed, Clutter
<1>. QED
  BY <1>2, <1>3, <1>4, <1>5 DEF Others

LEMMA FreshInvariant == FreshSpec => []Believed
<1>1. Believed /\ UNCHANGED freshVars => Believed'
  <2>. SUFFICES ASSUME Believed, UNCHANGED freshVars PROVE Believed'
    OBVIOUS
  <2>1. UNCHANGED <<authored, lock, vendored>> /\ stage' = stage
    BY DEF freshVars
  <2>2. /\ (Fresh' <=> Fresh) /\ Declared' = Declared /\ (FreshTypes' <=> FreshTypes)
        /\ (DigestIsHonest' <=> DigestIsHonest) /\ (VendoredIsResolved' <=> VendoredIsResolved)
    BY <2>1, FreshStays, ResolutionStays, TypesStay, DigestStays, VendoredStays
  <2>3. LockIsResolved' <=> LockIsResolved
    BY <2>1, ResolutionStays DEF LockIsResolved, authored
  <2>. QED
    BY <2>1, <2>2, <2>3 DEF Believed
<1>2. Believed /\ [FreshNext]_freshVars => Believed'
  BY <1>1, EnsureKeeps, VendorKeeps, WriteLockKeeps, RenderKeeps, OthersKeep DEF FreshNext
<1>. QED
  BY <1>2, FreshStarts, PTL DEF FreshSpec

\* What is believed fresh is a resolution of what is declared: its digest is of what is
\* declared and of a list that was once resolved for it, and this list is what is there.
LEMMA FreshIsResolved == ASSUME Believed, Fresh PROVE IsResolution(declared, HeldBy(Charts)) /\ NoneTwice(Charts)
<1>1. lock.digest = <<declared, lock.locked>> /\ lock.locked = HeldBy(Charts)
  BY DEF Fresh, Digest, HeldBy
<1>2. lock.digest # <<>> /\ lock.digest[1] = declared /\ lock.digest[2] = HeldBy(Charts)
  BY <1>1
<1>3. IsResolution(declared, HeldBy(Charts))
  BY <1>2 DEF Believed, DigestIsHonest
<1>. QED
  BY <1>3 DEF Fresh, Readable, NoneTwice

\* After an update the archives are what the lock says, and so the whole is believed exactly
\* when the archives are all there is: a directory is of another version, or it is there
\* twice.
LEMMA UpdatedIsFresh ==
  ASSUME Believed, stage = "updated"
  PROVE  Fresh <=> Directories = {} /\ \A f \in Files : vendored[f].kind # "unreadable"
<1>1. /\ Declared # {} /\ HeldBy(Archives) = Resolution /\ NoneTwice(Archives)
      /\ lock.digest = <<declared, Resolution>> /\ lock.locked = Resolution
  BY DEF Believed, VendoredIsResolved, LockIsResolved
<1>2. ASSUME Fresh, NEW d \in Directories PROVE FALSE
  <2>1. d \in Charts /\ vendored[d].of \in Resolution
    BY <1>1, <1>2 DEF Fresh, Charts
  <2>2. PICK a \in Archives : vendored[a].of = vendored[d].of
    BY <1>1, <2>1 DEF HeldBy
  <2>3. a = d
    BY <1>2, <2>1, <2>2 DEF Fresh, Readable, Charts
  <2>. QED
    BY <2>3 DEF Archives, Directories
<1>3. ASSUME Directories = {}, \A f \in Files : vendored[f].kind # "unreadable" PROVE Fresh
  <2>1. Charts = Archives
    BY <1>3 DEF Charts
  <2>. QED
    BY <1>1, <1>3, <2>1 DEF Fresh, Digest, Readable, HeldBy, NoneTwice
<1>. QED
  BY <1>2, <1>3 DEF Fresh, Readable

\* dependencies.py: dependencies that are believed fresh are a resolution of what Chart.yaml
\* declares, whatever was edited, lost, doubled, unpacked or half written before; an update
\* makes the archives so, and all of it unless a directory, or what cannot be read, is left.
THEOREM DependenciesStayFresh == FreshSpec => []DependenciesAreFresh
<1>1. Believed => DependenciesAreFresh
  <2>. SUFFICES ASSUME Believed PROVE DependenciesAreFresh
    OBVIOUS
  <2>1. ASSUME stage = "render", Declared # {}
        PROVE  OneOfEach(Charts) /\ \A f \in Files : vendored[f].kind # "unreadable"
    <3>1. Fresh
      BY <2>1 DEF Believed
    <3>2. Charts \subseteq Files
      BY DEF Archives, Directories, Charts
    <3>. QED
      BY <3>1, <3>2, FreshIsResolved, ResolutionIsWhole DEF Fresh, Readable
  <2>2. ASSUME stage = "updated" PROVE OneOfEach(Archives)
    <3>1. IsResolution(declared, HeldBy(Archives)) /\ NoneTwice(Archives)
      BY <2>2 DEF Believed, VendoredIsResolved
    <3>2. Archives \subseteq Files
      BY DEF Archives
    <3>. QED
      BY <3>1, <3>2, ResolutionIsWhole
  <2>3. UpdateMakesFresh
    BY UpdatedIsFresh DEF UpdateMakesFresh
  <2>. QED
    BY <2>1, <2>2, <2>3 DEF DependenciesAreFresh, RendersADeclaredResolution
<1>. QED
  BY <1>1, FreshInvariant, PTL

-----------------------------------------------------------------------------
(***************************************************************************)
(* Decisions: a question is put with one of its inputs, and whatever it is *)
(* the answer is right.                                                    *)
(***************************************************************************)

\* What is asked is an input of the question.
PutAnInput == asked => case \in Of(question)

\* Only an input of the question is put.
LEMMA AskInvariant == AskSpec => []PutAnInput
<1> USE DEF PutAnInput
<1>1. AskInit => PutAnInput
  BY DEF AskInit
<1>2. PutAnInput /\ [Ask]_askVars => PutAnInput'
  BY DEF Ask, askVars, Of
<1>. QED
  BY <1>1, <1>2, PTL DEF AskSpec

-----------------------------------------------------------------------------
(***************************************************************************)
(* Observed.                                                               *)
(***************************************************************************)

\* A condition that is True is there, and a condition that is there with another status
\* is not True.
LEMMA ConditionIsThere ==
  ASSUME NEW item, NEW type, ConditionStatus(item, type) = "True"
  PROVE  \E c \in item.conditions : c.type = type /\ c.status = "True"
  BY DEF ConditionStatus, Condition

\* _status_from_item: what a status says of a type is what its condition says.
LEMMA ConditionIsTold ==
  ASSUME NEW item, NEW type, \A c, d \in item.conditions : c.type = d.type => c = d,
         NEW c \in item.conditions, c.type = type
  PROVE  ConditionStatus(item, type) = c.status
<1>1. Condition(item, type) = {c}
  BY DEF Condition
<1>2. (CHOOSE d \in {c} : TRUE) = c
  OBVIOUS
<1>. QED
  BY <1>1, <1>2 DEF ConditionStatus

\* A READY decision of the poll is one of Classify with some listing.
LEMMA EvaluatedIsClassified ==
  ASSUME NEW s, NEW v, NEW l, Evaluate(s, v, l).terminal, Evaluate(s, v, l).verdict = "READY"
  PROVE  ~s.suspended /\ ~s.stalled /\ ConvergedHR(s, v)
<1>1. \/ Evaluate(s, v, l) = Classify(s, v, l)
      \/ Evaluate(s, v, l) = Classify(s, v, Unread)
  BY DEF Evaluate
<1>. QED
  BY <1>1, ReadyIsWarranted

\* _status_from_item, classify: READY is what the object says.
LEMMA ReadyObjects ==
  ASSUME NEW shown, IsObject(shown)
  PROVE  IncompleteIsNotReady(shown.item, shown.version)
<1> DEFINE item == shown.item
           s == StatusOf(item)
<1>1. SUFFICES ASSUME Evaluate(s, shown.version, Listed({})).terminal,
                      Evaluate(s, shown.version, Listed({})).verdict = "READY"
      PROVE  /\ item.observed = item.generation /\ ~item.suspended
             /\ item.history # <<>> /\ item.history[1] = shown.version
             /\ \E c \in item.conditions : c.type = "Ready" /\ c.status = "True"
             /\ ~\E c \in item.conditions : c.type = "Stalled" /\ c.status = "True"
  BY DEF IncompleteIsNotReady
<1>2. ~s.suspended /\ ~s.stalled /\ ConvergedHR(s, shown.version)
  BY <1>1, EvaluatedIsClassified
<1>3. /\ s.suspended = item.suspended /\ s.stalled = (ConditionStatus(item, "Stalled") = "True")
      /\ s.ready = ConditionStatus(item, "Ready") /\ s.generation = Given(item.generation, 0)
      /\ s.observed = item.observed /\ s.history = Newest(item.history)
  BY DEF StatusOf
<1>4. /\ Given(item.generation, 0) = item.observed /\ Newest(item.history) = shown.version
      /\ ConditionStatus(item, "Ready") = "True" /\ ConditionStatus(item, "Stalled") # "True"
      /\ ~item.suspended
  BY <1>2, <1>3 DEF ConvergedHR, CaughtUp
<1>5. item.observed = item.generation
  BY <1>4 DEF Given, IsObject
<1>6. item.history # <<>> /\ item.history[1] = shown.version
  BY <1>4 DEF Newest, IsObject
<1>7. \E c \in item.conditions : c.type = "Ready" /\ c.status = "True"
  BY <1>4, ConditionIsThere
<1>8. ~\E c \in item.conditions : c.type = "Stalled" /\ c.status = "True"
  BY <1>4, ConditionIsTold DEF IsObject
<1>. QED
  BY <1>4, <1>5, <1>6, <1>7, <1>8

\* A count that is not printed is 0.
LEMMA WorkloadIsUpdated ==
  ASSUME NEW w, IsWorkload(w), NEW r, NEW a, NEW u, NEW b
  PROVE  LET o == [w EXCEPT !.ready = r, !.available = a, !.updated = u, !.observed = b]
         IN /\ o.kind = w.kind /\ o.name = w.name /\ o.owner = w.owner /\ o.wanted = w.wanted
            /\ o.generation = w.generation /\ o.ready = r /\ o.available = a /\ o.observed = b
<1>1. /\ DOMAIN w = {"kind", "name", "owner", "wanted", "ready", "available", "updated", "generation", "observed"}
      /\ w = [f \in DOMAIN w |-> w[f]]
  BY DEF IsWorkload
<1>. QED
  BY <1>1

\* What is printed of a workload says what its server knows: a count that is left out is 0.
LEMMA PrintedIsRead ==
  ASSUME NEW w, IsWorkload(w), NEW old \in BOOLEAN, Absent \notin Nat
  PROVE  LET o == Wire(w, old)
         IN /\ o.kind = w.kind /\ o.name = w.name /\ o.owner = w.owner
            /\ Given(o.observed, 0) = w.observed /\ Given(o.generation, 0) = w.generation
            /\ Given(o.ready, 0) = w.ready /\ \A n : Given(o.wanted, n) = w.wanted
            /\ \/ Available(o) = w.available
               \/ w.kind = "StatefulSet" /\ old /\ Available(o) = w.ready
<1> DEFINE o == Wire(w, old)
           Count(n) == IF n = 0 THEN Absent ELSE n
           ready == IF w.kind = "DaemonSet" THEN w.ready ELSE Count(w.ready)
           available == IF w.kind # "StatefulSet" THEN Count(w.available) ELSE IF old THEN Absent ELSE w.available
<1>1. o = [w EXCEPT !.ready = ready, !.available = available, !.updated = Count(w.updated),
                    !.observed = Count(w.observed)]
  BY Zenon DEF Wire
<1> HIDE DEF o
<1>2. \A n \in Nat : n # Absent /\ Given(Count(n), 0) = n /\ \A d : Given(n, d) = n
  BY DEF Given
<1>3. {w.wanted, w.ready, w.available, w.generation, w.observed} \subseteq Nat
  BY DEF IsWorkload
<1>4. /\ o.kind = w.kind /\ o.name = w.name /\ o.owner = w.owner /\ o.wanted = w.wanted /\ o.ready = ready
      /\ o.available = available /\ o.generation = w.generation /\ o.observed = Count(w.observed)
  BY <1>1, WorkloadIsUpdated
<1>5. /\ Given(o.observed, 0) = w.observed /\ Given(o.generation, 0) = w.generation
      /\ Given(o.ready, 0) = w.ready /\ \A n : Given(o.wanted, n) = w.wanted
  BY <1>2, <1>3, <1>4
<1>6. Available(o) = w.available \/ (w.kind = "StatefulSet" /\ old /\ Available(o) = w.ready)
  <2>1. CASE w.kind # "StatefulSet"
    BY <1>2, <1>3, <1>4, <2>1 DEF Available
  <2>2. CASE w.kind = "StatefulSet" /\ ~old
    BY <1>2, <1>3, <1>4, <2>2 DEF Available
  <2>3. CASE w.kind = "StatefulSet" /\ old
    BY <1>4, <1>5, <2>3 DEF Available, Given
  <2>. QED
    BY <2>1, <2>2, <2>3
<1>. QED
  BY <1>4, <1>5, <1>6 DEF o

\* _rollout_from_item: nothing is pending only when everything is available.
LEMMA ReadyWorkloads ==
  ASSUME NEW shown, IsCluster(shown), Absent \notin Nat
  PROVE  ConvergedMeansAvailable(shown)
<1>1. SUFFICES ASSUME NEW ref \in shown.refs, Pending(Printed(shown), ref) = {},
                      NEW w \in shown.workloads, OwnedBy(w, ref)
      PROVE  /\ w.ready = w.wanted /\ w.observed = w.generation
             /\ w.available = w.wanted \/ (w.kind = "StatefulSet" /\ shown.old)
  BY DEF ConvergedMeansAvailable
<1> DEFINE o == Wire(w, shown.old)
<1>2. IsWorkload(w) /\ shown.old \in BOOLEAN
  BY DEF IsCluster
<1>3. /\ o.kind = w.kind /\ o.name = w.name /\ o.owner = w.owner
      /\ Given(o.observed, 0) = w.observed /\ Given(o.generation, 0) = w.generation
      /\ Given(o.ready, 0) = w.ready /\ \A n : Given(o.wanted, n) = w.wanted
      /\ Available(o) = w.available \/ (w.kind = "StatefulSet" /\ shown.old)
  BY <1>2, PrintedIsRead
<1>4. o \in Printed(shown)
  BY DEF Printed
<1> HIDE DEF o
<1>5. o \in Rollouts(Printed(shown), ref)
  BY <1>1, <1>2, <1>3, <1>4 DEF Rollouts, OwnedBy, IsWorkload, WorkloadKinds
<1>6. HasConverged(o)
  BY <1>1, <1>5 DEF Pending
<1>7. Given(o.observed, 0) = Given(o.generation, 0) /\ Given(o.ready, 0) = w.wanted /\ Available(o) = w.wanted
  BY <1>3, <1>6 DEF HasConverged
<1>. QED
  BY <1>3, <1>7

\* _rollout_from_item: what is available is not waited for.
LEMMA AvailableWorkloads ==
  ASSUME NEW shown, IsCluster(shown), Absent \notin Nat
  PROVE  AvailableMeansConverged(shown)
<1>1. SUFFICES ASSUME NEW w \in shown.workloads, w.observed = w.generation, w.ready = w.wanted, w.available = w.wanted
      PROVE  HasConverged(Wire(w, shown.old))
  BY DEF AvailableMeansConverged
<1>2. PICK o : o = Wire(w, shown.old)
  OBVIOUS
<1>3. IsWorkload(w) /\ shown.old \in BOOLEAN
  BY DEF IsCluster
<1>4. /\ Given(o.observed, 0) = w.observed /\ Given(o.generation, 0) = w.generation
      /\ Given(o.ready, 0) = w.ready /\ (\A n : Given(o.wanted, n) = w.wanted) /\ Available(o) = w.wanted
  BY <1>1, <1>2, <1>3, PrintedIsRead
<1>. QED
  BY <1>1, <1>2, <1>4 DEF HasConverged

\* _flux_owner_selector: of a release, only what is its own.
LEMMA OwnOnly ==
  ASSUME NEW shown, IsCluster(shown), Absent \notin Nat
  PROVE  OnlyItsOwn(shown)
<1>1. SUFFICES ASSUME NEW ref \in shown.refs
      PROVE  /\ Pending(Printed(shown), ref) \subseteq
                  {w.name : w \in {v \in shown.workloads : v.owner = <<ref.name, ref.namespace>>}}
             /\ \A p \in shown.pods : TestPods({p}, ref) # {} => p.owner = <<ref.name, ref.namespace>>
  BY DEF OnlyItsOwn
<1>2. ASSUME NEW n \in Pending(Printed(shown), ref)
      PROVE  \E w \in shown.workloads : w.owner = <<ref.name, ref.namespace>> /\ n = w.name
  <2>1. PICK o \in Printed(shown) : OwnedBy(o, ref) /\ n = o.name
    BY DEF Pending, Rollouts
  <2>2. PICK w \in shown.workloads : o = Wire(w, shown.old)
    BY DEF Printed
  <2>3. o.owner = w.owner /\ o.name = w.name
    BY <2>2, PrintedIsRead DEF IsCluster
  <2>. QED
    BY <2>1, <2>3 DEF OwnedBy
<1>3. ASSUME NEW p \in shown.pods, TestPods({p}, ref) # {}
      PROVE  p.owner = <<ref.name, ref.namespace>>
  BY <1>3 DEF TestPods, OwnedBy
<1>. QED
  BY <1>2, <1>3

\* kubectl.py: whatever the objects of a cluster show, and whatever is missing of them, a
\* release is found ready only if they say so, and waits exactly for those of its own
\* workloads whose pods are not available, whether or not those are of the present template.
THEOREM WhatIsReadIsTrue == AskSpec => []ObservedIsTrue
<1>1. PutAnInput => ObservedIsTrue
  <2>. SUFFICES ASSUME asked, case \in Of(question) PROVE ObservedIsTrue
    BY DEF PutAnInput, ObservedIsTrue, Put
  <2>1. CASE question = "object"
    BY <2>1, ReadyObjects, InputsAssumption DEF ObservedIsTrue, Put
  <2>2. CASE question = "workloads"
    BY <2>2, ReadyWorkloads, AvailableWorkloads, OwnOnly, InputsAssumption DEF ObservedIsTrue, Put
  <2>. QED
    BY <2>1, <2>2 DEF ObservedIsTrue, Put
<1>. QED
  BY <1>1, AskInvariant, PTL

-----------------------------------------------------------------------------
(***************************************************************************)
(* FluxFiles.                                                              *)
(***************************************************************************)

\* A document that is edited has another version, and nothing else.
LEMMA DocIsUpdated ==
  ASSUME NEW doc, IsDoc(doc), NEW v, NEW d, d = [doc EXCEPT !.version = v]
  PROVE  /\ d.api = doc.api /\ d.name = doc.name /\ d.namespace = doc.namespace /\ d.chart = doc.chart
         /\ d.version = v /\ d.text = doc.text
<1>1. DOMAIN doc = {"api", "name", "namespace", "chart", "version", "text"} /\ doc = [f \in DOMAIN doc |-> doc[f]]
  BY DEF IsDoc
<1>. QED
  BY <1>1

\* A file that is edited has other documents, and nothing else.
LEMMA FileIsUpdated ==
  ASSUME NEW f, IsFile(f), NEW d, NEW g, g = [f EXCEPT !.docs = d]
  PROVE  g.suffix = f.suffix /\ g.parses = f.parses /\ g.docs = d
<1>1. DOMAIN f = {"suffix", "parses", "docs"} /\ f = [x \in DOMAIN f |-> f[x]]
  BY DEF IsFile
<1>. QED
  BY <1>1

\* Two versions of the documents of a file, the second promoted.
Edited(docs, new, chart, version) ==
  /\ DOMAIN new = DOMAIN docs /\ ReleasesOf(new, chart) = ReleasesOf(docs, chart)
  /\ \A i \in DOMAIN docs : new[i] # docs[i] => i \in EditableOf(docs, chart)
  /\ \A i \in DOMAIN docs : /\ new[i].api = docs[i].api /\ new[i].name = docs[i].name /\ new[i].chart = docs[i].chart
                            /\ new[i].namespace = docs[i].namespace /\ new[i].text = docs[i].text
  /\ \A i \in EditableOf(docs, chart) : new[i].version = version

\* set_version: the version of every release whose chart is that text, and nothing else.
LEMMA SetVersionEdits ==
  ASSUME NEW docs, \A i \in DOMAIN docs : IsDoc(docs[i]), NEW chart, NEW version
  PROVE  Edited(docs, SetVersion(docs, chart, version), chart, version)
<1> DEFINE new == SetVersion(docs, chart, version)
<1>1. /\ DOMAIN new = DOMAIN docs
      /\ \A i \in DOMAIN docs :
           new[i] = IF i \in EditableOf(docs, chart) THEN [docs[i] EXCEPT !.version = version] ELSE docs[i]
  BY DEF SetVersion
<1> HIDE DEF new
<1>2. ASSUME NEW i \in DOMAIN docs
      PROVE  /\ new[i].api = docs[i].api /\ new[i].name = docs[i].name /\ new[i].chart = docs[i].chart
             /\ new[i].namespace = docs[i].namespace /\ new[i].text = docs[i].text
             /\ i \in EditableOf(docs, chart) => new[i].version = version
             /\ new[i] # docs[i] => i \in EditableOf(docs, chart)
  <2>1. CASE i \in EditableOf(docs, chart)
    <3>1. IsDoc(docs[i]) /\ new[i] = [docs[i] EXCEPT !.version = version]
      BY <1>1, <2>1
    <3>. QED
      BY <2>1, <3>1, DocIsUpdated
  <2>2. CASE i \notin EditableOf(docs, chart)
    BY <1>1, <2>2
  <2>. QED
    BY <2>1, <2>2
<1>3. ReleasesOf(new, chart) = ReleasesOf(docs, chart)
  BY <1>1, <1>2 DEF ReleasesOf, IsHelmRelease
<1>4. EditableOf(docs, chart) \subseteq DOMAIN docs
  BY DEF EditableOf, ReleasesOf
<1>. QED
  BY <1>1, <1>2, <1>3, <1>4 DEF Edited, new

\* What is scanned, match by match.
LEMMA Scanned ==
  ASSUME NEW files, NEW chart, NEW p \in YamlFiles(files), NEW i \in ReleasesOf(files[p].docs, chart)
  PROVE  \E m \in Scan(files, chart) :
           /\ m.path = p /\ m.index = i /\ m.name = files[p].docs[i].name /\ m.version = files[p].docs[i].version
           /\ m.namespace = files[p].docs[i].namespace
<1> DEFINE m == [path |-> p, index |-> i, name |-> files[p].docs[i].name, namespace |-> files[p].docs[i].namespace,
                 version |-> files[p].docs[i].version]
<1>1. m \in Scan(files, chart)
  BY DEF Scan
<1>2. /\ m.path = p /\ m.index = i /\ m.name = files[p].docs[i].name /\ m.version = files[p].docs[i].version
      /\ m.namespace = files[p].docs[i].namespace
  OBVIOUS
<1>. QED
  BY <1>1, <1>2

\* What the scan found of a chart that is text, by name and namespace.
Found(files, chart) ==
  {<<m.name, Called(m.namespace, "default")>> : m \in {x \in Scan(files, chart) : files[x.path].docs[x.index].text}}

\* scan: a release that can be edited is found by its name and namespace.
LEMMA ScannedByName ==
  ASSUME NEW files, NEW chart, NEW p \in YamlFiles(files), NEW i \in EditableOf(files[p].docs, chart)
  PROVE  <<files[p].docs[i].name, Called(files[p].docs[i].namespace, "default")>> \in Found(files, chart)
<1>1. i \in ReleasesOf(files[p].docs, chart) /\ files[p].docs[i].text
  BY DEF EditableOf
<1>2. \E m \in Scan(files, chart) :
        /\ m.path = p /\ m.index = i /\ m.name = files[p].docs[i].name /\ m.version = files[p].docs[i].version
        /\ m.namespace = files[p].docs[i].namespace
  BY <1>1, Scanned
<1>3. PICK m \in Scan(files, chart) :
        m.path = p /\ m.index = i /\ m.name = files[p].docs[i].name /\ m.namespace = files[p].docs[i].namespace
  BY <1>2
<1>. QED
  BY <1>1, <1>3 DEF Found

\* scan: what is found is a release of the chart, in a file.
LEMMA ScannedIsMatch ==
  ASSUME NEW files, NEW chart, NEW m \in Scan(files, chart)
  PROVE  /\ m.path \in YamlFiles(files) /\ m.index \in ReleasesOf(files[m.path].docs, chart)
         /\ m.name = files[m.path].docs[m.index].name /\ m.version = files[m.path].docs[m.index].version
         /\ m.namespace = files[m.path].docs[m.index].namespace
  BY DEF Scan

\* What each file is after the promotion: one that is not scanned is as it was.
LEMMA PromotedFiles ==
  ASSUME NEW files, \A p \in DOMAIN files : IsFile(files[p]), NEW chart, NEW version,
         NEW after, after = Promoted(files, chart, version)
  PROVE  /\ DOMAIN after = DOMAIN files /\ YamlFiles(after) = YamlFiles(files)
         /\ \A p \in YamlFiles(files) : Edited(files[p].docs, after[p].docs, chart, version)
         /\ \A p \in DOMAIN files \ YamlFiles(files) : after[p] = files[p]
<1> DEFINE HasDrift(p) == \E m \in Drift(files, chart, version) : m.path = p
<1>1. DOMAIN after = DOMAIN files
  BY DEF Promoted
<1>2. \A p \in DOMAIN files :
        after[p] = IF HasDrift(p) THEN [files[p] EXCEPT !.docs = SetVersion(files[p].docs, chart, version)] ELSE files[p]
  BY DEF Promoted
<1>3. \A p \in DOMAIN files : IsFile(files[p])
  OBVIOUS
<1>4. \A p : HasDrift(p) <=>
               p \in YamlFiles(files) /\ \E i \in ReleasesOf(files[p].docs, chart) : files[p].docs[i].version # version
  BY Scanned, ScannedIsMatch DEF Drift
<1> HIDE DEF HasDrift
<1>5. ASSUME NEW p \in DOMAIN files PROVE after[p].suffix = files[p].suffix
  <2>1. CASE HasDrift(p)
    <3>1. IsFile(files[p]) /\ after[p] = [files[p] EXCEPT !.docs = SetVersion(files[p].docs, chart, version)]
      BY <1>2, <1>3, <2>1
    <3>. QED
      BY <3>1, FileIsUpdated
  <2>. QED
    BY <1>2, <2>1
<1>6. YamlFiles(after) = YamlFiles(files)
  BY <1>1, <1>5 DEF YamlFiles
<1>7. ASSUME NEW p \in YamlFiles(files) PROVE Edited(files[p].docs, after[p].docs, chart, version)
  <2>1. p \in DOMAIN files
    BY DEF YamlFiles
  <2>2. CASE HasDrift(p)
    <3>1. after[p].docs = SetVersion(files[p].docs, chart, version)
      <4>1. IsFile(files[p]) /\ after[p] = [files[p] EXCEPT !.docs = SetVersion(files[p].docs, chart, version)]
        BY <1>2, <1>3, <2>1, <2>2
      <4>. QED
        BY <4>1, FileIsUpdated
    <3>. QED
      BY <1>3, <2>1, <3>1, SetVersionEdits DEF IsFile
  <2>3. CASE ~HasDrift(p)
    BY <1>2, <1>4, <2>1, <2>3 DEF Edited, EditableOf
  <2>. QED
    BY <2>2, <2>3
<1>8. \A p \in DOMAIN files \ YamlFiles(files) : after[p] = files[p]
  BY <1>2, <1>4
<1>. QED
  BY <1>1, <1>6, <1>7, <1>8

\* What is scanned, place by place.
LEMMA ScannedPlaces ==
  ASSUME NEW files, NEW chart
  PROVE  \A p, i : <<p, i>> \in PlacesOf(Scan(files, chart)) <=>
                     p \in YamlFiles(files) /\ i \in ReleasesOf(files[p].docs, chart)
<1>1. ASSUME NEW p, NEW i, p \in YamlFiles(files), i \in ReleasesOf(files[p].docs, chart)
      PROVE  <<p, i>> \in PlacesOf(Scan(files, chart))
  <2>2. p \in YamlFiles(files) /\ i \in ReleasesOf(files[p].docs, chart)
    BY <1>1
  <2>3. \E m \in Scan(files, chart) :
          /\ m.path = p /\ m.index = i /\ m.name = files[p].docs[i].name /\ m.version = files[p].docs[i].version
          /\ m.namespace = files[p].docs[i].namespace
    BY <2>2, Scanned
  <2>1. PICK m \in Scan(files, chart) : m.path = p /\ m.index = i
    BY <2>3
  <2>. QED
    BY <2>1 DEF PlacesOf
<1>2. ASSUME NEW p, NEW i, <<p, i>> \in PlacesOf(Scan(files, chart))
      PROVE  p \in YamlFiles(files) /\ i \in ReleasesOf(files[p].docs, chart)
  <2>1. PICK m \in Scan(files, chart) : <<p, i>> = <<m.path, m.index>>
    BY <1>2 DEF PlacesOf
  <2>2. m.path \in YamlFiles(files) /\ m.index \in ReleasesOf(files[m.path].docs, chart)
    BY ScannedIsMatch
  <2>. QED
    BY <2>1, <2>2
<1>. QED
  BY <1>1, <1>2

\* What is in drift, place by place.
LEMMA DriftPlaces ==
  ASSUME NEW files, NEW chart, NEW version
  PROVE  \A p, i : <<p, i>> \in PlacesOf(Drift(files, chart, version)) <=>
                     /\ p \in YamlFiles(files) /\ i \in ReleasesOf(files[p].docs, chart)
                     /\ files[p].docs[i].version # version
<1>1. ASSUME NEW p, NEW i, p \in YamlFiles(files), i \in ReleasesOf(files[p].docs, chart),
             files[p].docs[i].version # version
      PROVE  <<p, i>> \in PlacesOf(Drift(files, chart, version))
  <2>1. p \in YamlFiles(files) /\ i \in ReleasesOf(files[p].docs, chart)
    BY <1>1
  <2>2. \E m \in Scan(files, chart) :
          /\ m.path = p /\ m.index = i /\ m.name = files[p].docs[i].name /\ m.version = files[p].docs[i].version
          /\ m.namespace = files[p].docs[i].namespace
    BY <2>1, Scanned
  <2>3. PICK m \in Scan(files, chart) : m.path = p /\ m.index = i /\ m.version = files[p].docs[i].version
    BY <2>2
  <2>. QED
    BY <1>1, <2>3 DEF PlacesOf, Drift
<1>2. ASSUME NEW p, NEW i, <<p, i>> \in PlacesOf(Drift(files, chart, version))
      PROVE  /\ p \in YamlFiles(files) /\ i \in ReleasesOf(files[p].docs, chart)
             /\ files[p].docs[i].version # version
  <2>1. PICK m \in Drift(files, chart, version) : <<p, i>> = <<m.path, m.index>>
    BY <1>2 DEF PlacesOf
  <2>2. m \in Scan(files, chart) /\ m.version # version
    BY DEF Drift
  <2>3. /\ m.path \in YamlFiles(files) /\ m.index \in ReleasesOf(files[m.path].docs, chart)
        /\ m.version = files[m.path].docs[m.index].version
    BY <2>2, ScannedIsMatch
  <2>. QED
    BY <2>1, <2>2, <2>3
<1>. QED
  BY <1>1, <1>2

\* What is in drift is in a file, at a document of it.
LEMMA DriftsArePairs ==
  ASSUME NEW files, NEW chart, NEW version, NEW x \in PlacesOf(Drift(files, chart, version))
  PROVE  \E p, i : x = <<p, i>>
  BY DEF PlacesOf

\* A place is a file and a document of it.
LEMMA PlacesArePairs ==
  ASSUME NEW files, NEW chart, NEW x \in PlacesOf(Scan(files, chart))
  PROVE  \E p, i : x = <<p, i>>
  BY DEF PlacesOf

\* promote pr: every release of the chart gets the version unless its chart is no text, and
\* no other document changes.
LEMMA EditIsComplete ==
  ASSUME NEW files, \A p \in DOMAIN files : IsFile(files[p]), NEW chart, NEW version
  PROVE  PromotionIsComplete(files, chart, version)
<1>0. PICK after : after = Promoted(files, chart, version)
  OBVIOUS
<1>1. /\ DOMAIN after = DOMAIN files /\ YamlFiles(after) = YamlFiles(files)
      /\ \A p \in YamlFiles(files) : Edited(files[p].docs, after[p].docs, chart, version)
      /\ \A p \in DOMAIN files \ YamlFiles(files) : after[p] = files[p]
  BY <1>0, PromotedFiles
<1> DEFINE Remaining == PlacesOf(Drift(after, chart, version))
           Was == PlacesOf(Drift(files, chart, version))
           Number(x) == ~files[x[1]].docs[x[2]].text
<1>8. ASSUME NEW p, NEW i PROVE <<p, i>> \in Remaining <=> <<p, i>> \in Was /\ Number(<<p, i>>)
  <2>1. <<p, i>> \in Remaining <=> /\ p \in YamlFiles(files) /\ i \in ReleasesOf(after[p].docs, chart)
                              /\ after[p].docs[i].version # version
    BY <1>1, DriftPlaces
  <2>2. <<p, i>> \in Was <=> /\ p \in YamlFiles(files) /\ i \in ReleasesOf(files[p].docs, chart)
                             /\ files[p].docs[i].version # version
    BY DriftPlaces
  <2>3. Number(<<p, i>>) <=> ~files[p].docs[i].text
    OBVIOUS
  <2>4. ASSUME p \in YamlFiles(files), i \in ReleasesOf(files[p].docs, chart)
        PROVE  after[p].docs[i].version # version <=> files[p].docs[i].version # version /\ ~files[p].docs[i].text
    <3>1. Edited(files[p].docs, after[p].docs, chart, version) /\ i \in DOMAIN files[p].docs
      BY <1>1, <2>4 DEF ReleasesOf
    <3>2. i \in EditableOf(files[p].docs, chart) <=> files[p].docs[i].text
      BY <2>4 DEF EditableOf
    <3>. QED
      BY <3>1, <3>2 DEF Edited
  <2>5. p \in YamlFiles(files) => ReleasesOf(after[p].docs, chart) = ReleasesOf(files[p].docs, chart)
    BY <1>1 DEF Edited
  <2>. QED
    BY <2>1, <2>2, <2>3, <2>4, <2>5
<1>2. Remaining = {x \in Was : Number(x)}
  <2>1. \A x \in Remaining : \E p, i : x = <<p, i>>
    BY DriftsArePairs
  <2>2. \A x \in Was : \E p, i : x = <<p, i>>
    BY DriftsArePairs
  <2> HIDE DEF Remaining, Was, Number
  <2>. QED
    BY <1>8, <2>1, <2>2
<1>3. \A p, i : <<p, i>> \in PlacesOf(Scan(after, chart)) <=>
                 p \in YamlFiles(files) /\ i \in ReleasesOf(after[p].docs, chart)
  BY <1>1, ScannedPlaces
<1>4. \A p, i : <<p, i>> \in PlacesOf(Scan(files, chart)) <=>
                 p \in YamlFiles(files) /\ i \in ReleasesOf(files[p].docs, chart)
  BY ScannedPlaces
<1>5. \A p, i : <<p, i>> \in PlacesOf(Scan(after, chart)) <=> <<p, i>> \in PlacesOf(Scan(files, chart))
  BY <1>1, <1>3, <1>4 DEF Edited
<1>6. PlacesOf(Scan(after, chart)) = PlacesOf(Scan(files, chart))
  BY <1>5, PlacesArePairs
<1>7. ASSUME NEW p \in DOMAIN files, NEW i \in DOMAIN files[p].docs, after[p].docs[i] # files[p].docs[i]
      PROVE  <<p, i>> \in PlacesOf(Scan(files, chart))
  BY <1>1, <1>4, <1>7 DEF Edited, EditableOf
<1>. QED
  BY <1>0, <1>2, <1>6, <1>7 DEF PromotionIsComplete

\* The object of a document, as the monitor reads it.
LEMMA ItemIsRead ==
  ASSUME NEW doc, NEW chart, NEW version
  PROVE  LET item == Item(doc, "default")
         IN /\ RefOf(item).name = doc.name /\ RefOf(item).namespace = Called(doc.namespace, "default")
            /\ IsRef(item) <=> doc.api # "other" /\ doc.name # ""
            /\ item.chart = doc.chart /\ item.version = doc.version
<1> DEFINE item == Item(doc, "default")
<1>1. /\ item.api = doc.api /\ item.name = doc.name /\ item.namespace = Called(doc.namespace, "default")
      /\ item.chart = doc.chart /\ item.version = doc.version
  BY DEF Item
<1>2. Called(doc.namespace, "default") # ""
  BY DEF Called
<1> HIDE DEF item
<1>3. RefOf(item).name = item.name /\ RefOf(item).namespace = item.namespace
  BY DEF RefOf
<1>. QED
  BY <1>1, <1>2, <1>3 DEF IsRef, item

\* filter_matched_statuses: what is found, and has text for a chart, is watched.
LEMMA WatchIsComplete ==
  ASSUME NEW files, \A p \in DOMAIN files : IsFile(files[p]), NEW chart, NEW version
  PROVE  PromotedAreWatched(files, chart, version)
<1>0. PICK after : after = Promoted(files, chart, version)
  OBVIOUS
<1> DEFINE Identity(item) == <<RefOf(item).name, RefOf(item).namespace>>
           watched == {<<r.name, r.namespace>> : r \in MatchedBy(Applied(after), "", chart, version)}
<1>1. /\ YamlFiles(after) = YamlFiles(files) /\ YamlFiles(files) \subseteq DOMAIN files
      /\ \A p \in YamlFiles(files) : Edited(files[p].docs, after[p].docs, chart, version)
  BY <1>0, PromotedFiles DEF YamlFiles
<1>2. ASSUME NEW n \in watched PROVE n \in Found(files, chart)
  <2>1. PICK item \in Seen(Applied(after), "") : item.chart = chart /\ n = Identity(item)
    BY DEF MatchedBy
  <2>2. IsRef(item) /\ item \in Applied(after)
    BY <2>1 DEF Seen
  <2>3. PICK p \in YamlFiles(files) :
          \E i \in DOMAIN after[p].docs :
            after[p].docs[i].api # "none" /\ after[p].docs[i].text /\ item = Item(after[p].docs[i], "default")
    BY <1>1, <2>2 DEF Applied
  <2>7. PICK i \in DOMAIN after[p].docs :
          after[p].docs[i].api # "none" /\ after[p].docs[i].text /\ item = Item(after[p].docs[i], "default")
    BY <2>3
  <2> DEFINE doc == after[p].docs[i]
  <2>4. n = <<doc.name, Called(doc.namespace, "default")>> /\ doc.api \notin {"none", "other"} /\ doc.chart = chart
    BY <2>1, <2>2, <2>7, ItemIsRead
  <2>5. /\ i \in EditableOf(files[p].docs, chart)
        /\ doc.name = files[p].docs[i].name /\ doc.namespace = files[p].docs[i].namespace
    BY <1>1, <2>4, <2>7 DEF Edited, EditableOf, ReleasesOf, IsHelmRelease
  <2>6. p \in YamlFiles(files) /\ i \in EditableOf(files[p].docs, chart)
    BY <2>3, <2>5
  <2>9. <<files[p].docs[i].name, Called(files[p].docs[i].namespace, "default")>> \in Found(files, chart)
    BY <2>6, ScannedByName
  <2>. QED
    BY <2>4, <2>5, <2>9
<1>3. ASSUME NEW n \in Found(files, chart) PROVE n \in watched
  <2>8. PICK m \in Scan(files, chart) :
          files[m.path].docs[m.index].text /\ n = <<m.name, Called(m.namespace, "default")>>
    BY DEF Found
  <2>9. PICK p, i : p = m.path /\ i = m.index
    OBVIOUS
  <2>1. /\ p \in YamlFiles(files) /\ i \in EditableOf(files[p].docs, chart)
        /\ n = <<files[p].docs[i].name, Called(files[p].docs[i].namespace, "default")>>
    BY <2>8, <2>9, ScannedIsMatch DEF EditableOf
  <2> DEFINE doc == after[p].docs[i]
             item == Item(doc, "default")
  <2>2. /\ i \in DOMAIN files[p].docs /\ IsHelmRelease(files[p].docs[i]) /\ files[p].docs[i].chart = chart
        /\ files[p].docs[i].text
    BY <2>1 DEF EditableOf, ReleasesOf
  <2>3. /\ i \in DOMAIN after[p].docs /\ doc.chart = chart /\ doc.version = version
        /\ doc.name = files[p].docs[i].name /\ doc.namespace = files[p].docs[i].namespace
        /\ doc.api \notin {"none", "other"} /\ doc.text
    BY <1>1, <2>1, <2>2 DEF Edited, IsHelmRelease
  <2>4. doc.name # ""
    BY <1>1, <2>1, <2>2, <2>3 DEF IsFile, IsDoc
  <2>5. IsRef(item) /\ item.chart = chart /\ item.version = version /\ Identity(item) = n
    BY <2>1, <2>3, <2>4, ItemIsRead
  <2>6. item \in Applied(after)
    BY <1>1, <2>1, <2>3 DEF Applied
  <2> HIDE DEF item
  <2>7. RefOf(item) \in MatchedBy(Applied(after), "", chart, version)
    BY <2>5, <2>6 DEF MatchedBy, Seen
  <2>. QED
    BY <2>5, <2>7
<1>4. watched = Found(files, chart)
  BY <1>2, <1>3
<1>. QED
  BY <1>0, <1>4 DEF PromotedAreWatched, Found

\* scanner.py, editor.py, matching.py: whatever files, of whatever documents, a promotion
\* edits all that it scans and nothing else, and the monitor watches exactly those, but for
\* releases whose chart YAML reads as a number, which are found and not edited.
THEOREM PromotionsAreWatched == AskSpec => []PromotionIsWatched
<1>1. PutAnInput => PromotionIsWatched
  BY EditIsComplete, WatchIsComplete, InputsAssumption DEF PutAnInput, PromotionIsWatched, Put, AreFiles
<1>. QED
  BY <1>1, AskInvariant, PTL

-----------------------------------------------------------------------------
(***************************************************************************)
(* Conformance.                                                            *)
(***************************************************************************)

\* Every resource is in the report, and every file that is no YAML.
LEMMA ResourceIsReported ==
  ASSUME NEW row, NEW r \in Everything(row)
  PROVE  \E e \in Report(row) : /\ e.of = r /\ e.why = Says(row, r).why
                                /\ e.status = Normalized(Worded(row, Says(row, r)).status)
<1> DEFINE e == [of |-> r, status |-> Normalized(Worded(row, Says(row, r)).status), why |-> Says(row, r).why]
<1>1. e \in Report(row)
  BY DEF Report
<1>2. e.of = r /\ e.why = Says(row, r).why /\ e.status = Normalized(Worded(row, Says(row, r)).status)
  OBVIOUS
<1>. QED
  BY <1>1, <1>2

\* run_kubeconform: the entry of a file is of the file.
LEMMA FileIsReported ==
  ASSUME NEW row, NEW f \in row.files, ~f.parses
  PROVE  \E e \in Report(row) : e.status = Normalized(Worded(row, [status |-> "statusError"]).status)
<1> DEFINE e == [of |-> [suffix |-> f.suffix], status |-> Normalized(Worded(row, [status |-> "statusError"]).status),
                 why |-> "resource"]
<1>1. e \in Report(row)
  BY DEF Report
<1>2. e.status = Normalized(Worded(row, [status |-> "statusError"]).status)
  OBVIOUS
<1>. QED
  BY <1>1, <1>2

\* In new words every status but that of what is valid is not known, and an error.
LEMMA WordsOnlyAlarm ==
  ASSUME NEW row, NEW said, said \in [status : {said.status}, why : {said.why}] \/ said = [status |-> said.status]
  PROVE  Worded(row, said).status = IF row.tool = "new" /\ said.status # "statusValid" THEN "statusNew" ELSE said.status
  BY DEF Worded

\* What is said of a file has a status.
LEMMA SaysHasShape ==
  ASSUME NEW row, NEW r
  PROVE  LET said == Says(row, r) IN said \in [status : {said.status}, why : {said.why}]
  BY DEF Says

\* The status of a resource that is no finding, and what kubeconform skips.
LEMMA SkippedIsExcepted ==
  ASSUME NEW row, NEW r, Gvk(r) \in Skips(row)
  PROVE  Excepted(row, r)
<1>1. Gvk(r) \notin row.covered
  BY DEF Skips
<1>2. CASE Gvk(r) \in row.pairs
  BY <1>1, <1>2 DEF Excepted
<1>3. CASE Gvk(r) \notin row.pairs
  <2>1. PICK q \in Everything(row) : q.kind \in row.kinds /\ Gvk(q) = Gvk(r)
    BY <1>3 DEF Skips
  <2>2. r.kind = q.kind
    BY <2>1 DEF Gvk
  <2>. QED
    BY <1>1, <2>1, <2>2 DEF Excepted
<1>. QED
  BY <1>2, <1>3

\* _normalize: the status of an entry.
LEMMA ReportedStatus ==
  ASSUME NEW row, NEW r, Normalized(Worded(row, Says(row, r)).status) \notin {"invalid", "error"}
  PROVE  r.fault # "unreadable" /\ (Excepted(row, r) \/ (HasSchema(row, r) /\ r.fault # "invalid"))
<1> DEFINE said == Says(row, r).status
<1>1. Worded(row, Says(row, r)).status = IF row.tool = "new" /\ said # "statusValid" THEN "statusNew" ELSE said
  BY WordsOnlyAlarm, SaysHasShape
<1>2. said \in {"statusSkipped", "statusEmpty", "statusValid"}
  BY <1>1 DEF Normalized
<1>3. CASE said = "statusValid"
  BY <1>3 DEF Says, HasSchema
<1>4. CASE said # "statusValid"
  <2>1. r.fault # "unreadable" /\ Gvk(r) \in Skips(row)
    BY <1>2, <1>4 DEF Says
  <2>. QED
    BY <2>1, SkippedIsExcepted
<1>. QED
  BY <1>3, <1>4

\* A check that passes has looked at every file.
LEMMA PassesAreEarned ==
  ASSUME NEW row
  PROVE  PassIsEarned(row)
<1>1. SUFFICES ASSUME SchemaCheck(row).status = "passed"
      PROVE  /\ \A f \in row.files : f.parses
             /\ \A r \in Everything(row) :
                  r.fault # "unreadable" /\ (Excepted(row, r) \/ (HasSchema(row, r) /\ r.fault # "invalid"))
  BY DEF PassIsEarned
<1>2. \A e \in Report(row) : e.status \notin {"invalid", "error"}
  <2>1. Findings(row) = {}
    BY <1>1 DEF SchemaCheck, Checked
  <2>. QED
    BY <2>1 DEF Findings
<1>3. ASSUME NEW f \in row.files, ~f.parses PROVE FALSE
  <2>1. Worded(row, [status |-> "statusError"]).status \in {"statusError", "statusNew"}
    BY WordsOnlyAlarm
  <2>2. Normalized(Worded(row, [status |-> "statusError"]).status) = "error"
    BY <2>1 DEF Normalized
  <2>3. PICK e \in Report(row) : e.status = Normalized(Worded(row, [status |-> "statusError"]).status)
    BY <1>3, FileIsReported
  <2>. QED
    BY <1>2, <2>2, <2>3
<1>4. ASSUME NEW r \in Everything(row)
      PROVE  r.fault # "unreadable" /\ (Excepted(row, r) \/ (HasSchema(row, r) /\ r.fault # "invalid"))
  BY <1>2, ResourceIsReported, ReportedStatus
<1>. QED
  BY <1>3, <1>4

\* A chart fails only for what it renders.
LEMMA FailuresAreTheCharts ==
  ASSUME NEW row
  PROVE  FailureIsTheCharts(row)
<1>1. SUFFICES ASSUME row.tool = "json", SchemaCheck(row).status = "failed", NEW r \in Everything(row),
                      r.fault # "unreadable", ~Excepted(row, r), ~HasSchema(row, r)
      PROVE  FALSE
  BY DEF FailureIsTheCharts
<1>2. ~Unavailable(row)
  BY <1>1 DEF SchemaCheck, Checked
<1>3. Says(row, r) = [status |-> "statusError", why |-> "schema"]
  BY <1>1, SkippedIsExcepted DEF Says, HasSchema
<1>4. Worded(row, Says(row, r)) = Says(row, r)
  BY <1>1 DEF Worded
<1>5. Normalized("statusError") = "error"
  BY DEF Normalized
<1>6. PICK e \in Report(row) : e.why = "schema" /\ e.status = "error"
  BY <1>3, <1>4, <1>5, ResourceIsReported
<1>. QED
  BY <1>2, <1>6 DEF Unavailable, Findings

\* A CRD is found wherever kubeconform finds it.
LEMMA DiscoveriesAgree ==
  ASSUME NEW row
  PROVE  DiscoverySeesTheSame(row)
<1> DEFINE seen == {e.of : e \in {d \in Report(row) : d.of \in Everything(row) /\ d.of.kind = "CRD"}}
<1>1. Inventory(row).crds = {r \in Everything(row) : r.kind = "CRD"}
  BY DEF Inventory
<1>2. ASSUME NEW r \in Everything(row), r.kind = "CRD" PROVE r \in seen
  <2>1. PICK e \in Report(row) : e.of = r
    BY ResourceIsReported
  <2>. QED
    BY <1>2, <2>1
<1>3. seen \subseteq {r \in Everything(row) : r.kind = "CRD"}
  OBVIOUS
<1>. QED
  BY <1>1, <1>2, <1>3 DEF DiscoverySeesTheSame

\* A verdict of kyverno that is no pass is a failure of the report, by whichever words.
LEMMA VerdictIsKept ==
  ASSUME NEW row, row.tool \in {"json", "new"}, NEW p \in row.policies, NEW r \in In(row, {"yaml", "yml"}),
         r.policy[p] \in {"fail", "error"}
  PROVE  \E f \in Failures(row) : f.policy = p /\ f.of = r
<1> DEFINE v == Verdict(row, p, r)
           alone == Entry(row, p, r)
           worded == IF v \in {"pass", "fail", "warn", "skip", "error"} THEN v ELSE "error"
           result == [policy |-> p, of |-> r, status |-> worded]
<1>1. v \in {"fail", "error", "new"}
  BY DEF Verdict
<1>2. worded \in {"fail", "error"}
  BY <1>1
<1>3. \E e \in Entries(row) : e.policy = p /\ e.result = v /\ r \in e.resources
  <2>1. alone.policy = p /\ alone.result = v /\ r \in alone.resources
    BY DEF Entry
  <2>2. /\ Grouped(row, alone).policy = p /\ Grouped(row, alone).result = v
        /\ r \in Grouped(row, alone).resources
    BY <2>1 DEF Grouped
  <2> HIDE DEF v
  <2>3. alone \in Entries(row) \/ Grouped(row, alone) \in Entries(row)
    BY DEF Entries
  <2>. QED
    BY <2>1, <2>2, <2>3
<1>4. result \in Results(row)
  <2>1. PICK e \in Entries(row) : e.policy = p /\ e.result = v /\ r \in e.resources
    BY <1>3
  <2>2. result \in {[policy |-> e.policy, of |-> q,
                     status |-> IF e.result \in {"pass", "fail", "warn", "skip", "error"} THEN e.result ELSE "error"] :
                      q \in e.resources}
    BY <2>1
  <2>. QED
    BY <2>2 DEF Results
<1>5. result \in Failures(row)
  BY <1>2, <1>4 DEF Failures
<1>. QED
  BY <1>5

\* kyverno.py: every finding is in the report.
LEMMA FindingsAreKept ==
  ASSUME NEW row
  PROVE  NoFindingIsDropped(row)
<1>1. SUFFICES ASSUME row.tool \in {"json", "new"}, ~NoManifests(row), NEW p \in row.policies,
                      NEW r \in In(row, {"yaml", "yml"}), r.policy[p] \in {"fail", "error"}
      PROVE  /\ PolicyCheck(row).status = "failed"
             /\ \E f \in PolicyCheck(row).findings : f.policy = p /\ f.of = r
  BY DEF NoFindingIsDropped
<1>2. PICK f \in Failures(row) : f.policy = p /\ f.of = r
  BY <1>1, VerdictIsKept
<1>3. Discovered(row) # {}
  BY DEF In, Discovered
<1>4. PolicyCheck(row) = Checked("failed", Failures(row))
  BY <1>1, <1>2, <1>3 DEF PolicyCheck
<1>. QED
  BY <1>2, <1>4 DEF Checked

\* runner.py, kyverno.py: whatever manifests, schemas, exceptions and words of a tool, a check
\* passes only what is good, fails only for what the chart does, and loses no finding.
THEOREM ChecksAreHonest == AskSpec => []CheckIsHonest
<1>1. CheckIsHonest
  BY PassesAreEarned, FailuresAreTheCharts, DiscoveriesAgree, FindingsAreKept DEF CheckIsHonest
<1>. QED
  BY <1>1, PTL

-----------------------------------------------------------------------------
(***************************************************************************)
(* Selection.                                                              *)
(***************************************************************************)

\* A file of a chart is no file that all charts depend on.
LEMMA OwnedIsNotShared ==
  ASSUME NEW repo, IsRepository(repo), NEW file, file.chart \in repo.charts
  PROVE  file \notin Fanout
<1>1. ASSUME file \in Fanout PROVE file.chart = ""
  <2>1. file = [chart |-> "", place |-> "fanout"]
    BY <1>1 DEF Fanout, File
  <2>. QED
    BY <2>1
<1>. QED
  BY <1>1 DEF IsRepository

\* What a file selects of its chart are rows of it.
LEMMA OwnRowsAreDeclared ==
  ASSUME NEW repo, IsRepository(repo), NEW file, file.chart \in repo.charts
  PROVE  OwnRows(repo, file) \subseteq RowsOf(repo, {file.chart})
<1>1. ASSUME NEW e \in repo.rows[file.chart] PROVE <<file.chart, e>> \in RowsOf(repo, {file.chart})
  BY DEF RowsOf, IsRepository
<1>. QED
  BY <1>1 DEF OwnRows

\* No change of a validated chart goes by in silence.
LEMMA SilenceIsAuthored ==
  ASSUME NEW repo, IsRepository(repo), NEW file
  PROVE  NoSilentChange(repo, file)
<1> DEFINE c == file.chart
<1>1. SUFFICES ASSUME c \in repo.charts, repo.rows[c] # {}, Reported(repo, file) = "nothing",
                      \A t \in repo.triggers[c] : file.place \notin t.places
      PROVE  \E r \in ValidateRows(repo, file) : r[1] = c
  BY DEF NoSilentChange, ValidatedOwner
<1>2. OwnRows(repo, file) \subseteq ValidateRows(repo, file)
  BY <1>1, OwnedIsNotShared DEF ValidateRows, SelectsNothing
<1>3. CASE ChartWide(file)
  <2>1. PICK e \in repo.rows[c] : e \in AllEnvs
    BY <1>1 DEF IsRepository
  <2>2. <<c, e>> \in OwnRows(repo, file)
    BY <1>3, <2>1 DEF OwnRows, RowsOf
  <2>. QED
    BY <1>2, <2>2
<1>4. CASE ~ChartWide(file)
  <2>1. file.place \notin repo.ignores[c] /\ Matched(repo, file)
    BY <1>1, <1>4 DEF Reported
  <2>2. PICK t \in Hits(repo, file) : t \in repo.triggers[c] \/ Named(repo, file, t) # {}
    BY <2>1 DEF Matched
  <2>3. t \notin repo.triggers[c]
    BY <1>1 DEF Hits
  <2>4. PICK e \in Named(repo, file, t) : TRUE
    BY <2>2, <2>3
  <2>5. e \in Triggered(repo, file) /\ e \in repo.rows[c]
    BY <2>1 DEF Triggered, Named
  <2>6. <<c, e>> \in OwnRows(repo, file)
    BY <1>4, <2>1, <2>5 DEF OwnRows
  <2>. QED
    BY <1>2, <2>6
<1>. QED
  BY <1>3, <1>4

\* What depends on a chart that changed is selected.
LEMMA DependentsFollow ==
  ASSUME NEW repo, IsRepository(repo), NEW file
  PROVE  DependentsAreValidated(repo, file)
<1> DEFINE c == file.chart
<1>1. SUFFICES ASSUME c \in repo.charts, repo.rows[c] # {} \/ file.place # "lifecycle",
                      NEW d \in repo.charts \ {c}, <<c, "local">> \in repo.depends[d]
      PROVE  RowsOf(repo, {d}) \subseteq ValidateRows(repo, file)
  BY DEF DependentsAreValidated, ValidatedOwner
<1>2. repo.depends[d] # Unloadable
  BY <1>1 DEF Unloadable
<1>3. d \in Dependents(repo, c)
  BY <1>1, <1>2 DEF Dependents
<1>4. RowsOf(repo, {d}) \subseteq RowsOf(repo, Dependents(repo, c))
  BY <1>3 DEF RowsOf
<1>. QED
  BY <1>1, <1>4, OwnedIsNotShared DEF ValidateRows, SelectsNothing

\* A file of one environment selects no other.
LEMMA OthersAreOut ==
  ASSUME NEW repo, IsRepository(repo), NEW file
  PROVE  OthersStayOut(repo, file)
<1>1. SUFFICES ASSUME file \notin Fanout, NEW r \in ValidateRows(repo, file)
      PROVE  \/ r[1] = file.chart /\ (ChartWide(file) \/ r[2] \in Triggered(repo, file))
             \/ r[1] # file.chart /\ <<file.chart, "local">> \in repo.depends[r[1]]
  BY DEF OthersStayOut
<1>2. r \in RowsOf(repo, Dependents(repo, file.chart)) \/ r \in OwnRows(repo, file)
  BY <1>1 DEF ValidateRows
<1>3. CASE r \in RowsOf(repo, Dependents(repo, file.chart))
  BY <1>3 DEF RowsOf, Dependents
<1>4. CASE r \in OwnRows(repo, file)
  BY <1>4 DEF OwnRows, RowsOf
<1>. QED
  BY <1>2, <1>3, <1>4

\* The default profile of a chart with tests is one of its profiles.
LEMMA DefaultExists ==
  ASSUME NEW repo, NEW c \in Enabled(repo)
  PROVE  DefaultProfile(repo, c) \in repo.profiles[c]
  BY DEF DefaultProfile, Enabled

\* Every selected test exists.
LEMMA SelectedTestsExist ==
  ASSUME NEW repo, IsRepository(repo), NEW file
  PROVE  TestsExist(repo, file)
<1>1. SUFFICES ASSUME AllLoad(repo)
      PROVE  /\ \A t \in ChartTests(repo, file) : Exists(repo, t)
             /\ file.chart \in Enabled(repo) =>
                  repo.dependents[file.chart] \subseteq ChartTests(repo, file) \union TestErrors(repo, file)
  BY DEF TestsExist
<1>2. ASSUME NEW t \in ChartTests(repo, file) PROVE Exists(repo, t)
  <2>1. \/ \E c \in Enabled(repo) : t = <<c, DefaultProfile(repo, c)>>
        \/ t \in Dependable(repo, file.chart)
    BY <1>1 DEF ChartTests
  <2>. QED
    BY <2>1, DefaultExists DEF Exists, Dependable
<1>3. ASSUME file.chart \in Enabled(repo)
      PROVE  repo.dependents[file.chart] \subseteq ChartTests(repo, file) \union TestErrors(repo, file)
  BY <1>1, <1>3, OwnedIsNotShared DEF ChartTests, TestErrors, Enabled
<1>. QED
  BY <1>2, <1>3

\* What is published is tested.
LEMMA PublishedAreTested ==
  ASSUME NEW repo, IsRepository(repo), NEW file
  PROVE  PublishedIsTested(repo, file)
<1>1. SUFFICES ASSUME AllLoad(repo), NEW c \in Published(repo, {file}), c \in Enabled(repo)
      PROVE  \E p \in repo.profiles[c] : <<c, p>> \in ChartTests(repo, file)
  BY DEF PublishedIsTested, Published
<1>2. c = file.chart /\ c \in repo.charts
  BY DEF Published
<1>3. <<c, DefaultProfile(repo, c)>> \in ChartTests(repo, file)
  BY <1>1, <1>2, OwnedIsNotShared DEF ChartTests
<1>. QED
  BY <1>1, <1>3, DefaultExists

\* What a change selects are rows of charts.
LEMMA SelectedAreRows ==
  ASSUME NEW repo, IsRepository(repo), NEW file
  PROVE  ValidateRows(repo, file) \subseteq RowsOf(repo, repo.charts)
<1>1. ASSUME NEW charts, charts \subseteq repo.charts PROVE RowsOf(repo, charts) \subseteq RowsOf(repo, repo.charts)
  BY <1>1 DEF RowsOf
<1>2. CASE file.chart \in repo.charts
  BY <1>1, <1>2, OwnRowsAreDeclared DEF ValidateRows, Dependents
<1>3. CASE file.chart \notin repo.charts
  BY <1>3 DEF ValidateRows, SelectsNothing
<1>. QED
  BY <1>2, <1>3

\* A chart that has rows loads.
LEMMA RowsLoad ==
  ASSUME NEW repo, IsRepository(repo), NEW charts, charts \subseteq repo.charts
  PROVE  RowsOf(repo, charts) = RowsOf(repo, charts \intersect Loaded(repo))
  BY DEF RowsOf, IsRepository, Loaded

\* The rows that are asked for: of the charts that are named, those that a change selects.
LEMMA AskedRows ==
  ASSUME NEW repo, IsRepository(repo), NEW ask
  PROVE  LET named == IF ask.charts = {} THEN repo.charts ELSE ask.charts
         IN Asked(repo, ask).rows =
              {r \in RowsOf(repo, named \intersect repo.charts) :
                 ask.changes = NotGiven \/ \E f \in ask.changes : r \in ValidateRows(repo, f)}
<1> DEFINE all == IF ask.charts = {} THEN repo.charts ELSE ask.charts
           changed == UNION {ValidateRows(repo, f) : f \in ask.changes}
           loaded == all \intersect Loaded(repo)
<1>1. Loaded(repo) \subseteq repo.charts
  BY DEF Loaded
<1>2. RowsOf(repo, all \intersect repo.charts) = RowsOf(repo, loaded)
  <2>1. (all \intersect repo.charts) \intersect Loaded(repo) = loaded
    BY <1>1
  <2>. QED
    BY <2>1, RowsLoad
<1>3. changed \subseteq RowsOf(repo, repo.charts)
  BY SelectedAreRows
<1>4. CASE ask.changes = NotGiven
  <2>1. Asked(repo, ask).rows = RowsOf(repo, loaded)
    BY <1>1, <1>4 DEF Asked, Select
  <2>. QED
    BY <1>2, <1>4, <2>1
<1>5. CASE ask.changes # NotGiven
  <2>1. Asked(repo, ask).rows = {r \in changed : ask.charts = {} \/ r[1] \in loaded}
    BY <1>5 DEF Asked, Select
  <2>2. RowsOf(repo, repo.charts) = RowsOf(repo, Loaded(repo))
    <3>1. repo.charts \intersect Loaded(repo) = Loaded(repo)
      BY <1>1
    <3>. QED
      BY <3>1, RowsLoad
  <2>3. RowsOf(repo, loaded) = {r \in RowsOf(repo, Loaded(repo)) : ask.charts = {} \/ r[1] \in loaded}
    BY <1>1 DEF RowsOf
  <2>. QED
    BY <1>2, <1>3, <1>5, <2>1, <2>2, <2>3
<1>. QED
  BY <1>4, <1>5

\* A request selects nothing that it does not name.
LEMMA RequestsAreNarrow ==
  ASSUME NEW repo, IsRepository(repo), NEW ask
  PROVE  RequestsNarrow(repo, ask)
<1> DEFINE given == Requested(repo, ask)
           named == IF ask.charts = {} THEN repo.charts ELSE ask.charts
           rows == RowsOf(repo, named \intersect repo.charts)
<1>1. given.rows = {r \in Asked(repo, ask).rows : ask.envs = {} \/ r[2] \in ask.envs}
  BY DEF Requested
<1>2. Asked(repo, ask).rows =
        {r \in rows : ask.changes = NotGiven \/ \E f \in ask.changes : r \in ValidateRows(repo, f)}
  BY AskedRows
<1>3. given.rows = {r \in {q \in rows : ask.envs = {} \/ q[2] \in ask.envs} :
                      ask.changes = NotGiven \/ \E f \in ask.changes : r \in ValidateRows(repo, f)}
  BY <1>1, <1>2
<1>4. ASSUME ~given.refused, NEW c \in ask.charts
      PROVE  c \in given.errors \/ (c \in repo.charts /\ repo.rows[c] # {})
  <2>1. c \in repo.charts /\ ~(c \in Loaded(repo) /\ repo.rows[c] = {})
    BY <1>4 DEF Requested, NamesNothing
  <2>2. given.errors = ask.charts \ Loaded(repo)
    BY DEF Requested, Asked
  <2>. QED
    BY <2>1, <2>2
<1>. QED
  BY <1>3, <1>4 DEF RequestsNarrow

-----------------------------------------------------------------------------
(***************************************************************************)
(* Patterns: the recursion of the matcher has one solution, which says     *)
(* that what is left of the path can be cut as what is left of the pattern *)
(* says.                                                                   *)
(***************************************************************************)

\* One segment takes a path from one place to another.
Hop(pattern, path, i, a, b) ==
  IF pattern[i] = "**" THEN a <= b ELSE b = a + 1 /\ SegmentFits(pattern[i], path[b])

\* What is left after p segments fits what is left after q.
Remains(pattern, path, p, q) ==
  \E cut \in [p .. Len(pattern) -> 0 .. Len(path)] :
    /\ cut[p] = q /\ cut[Len(pattern)] = Len(path)
    /\ \A i \in p + 1 .. Len(pattern) : Hop(pattern, path, i, cut[i - 1], cut[i])

\* The recursion of the matcher.
Recurs(pattern, path, f, p, q) ==
  IF p = Len(pattern) THEN q = Len(path)
  ELSE IF pattern[p + 1] = "**" THEN f[<<p + 1, q>>] \/ (q < Len(path) /\ f[<<p, q + 1>>])
  ELSE q < Len(path) /\ SegmentFits(pattern[p + 1], path[q + 1]) /\ f[<<p + 1, q + 1>>]

Reached(pattern, path) == (0 .. Len(pattern)) \X (0 .. Len(path))
Recursive(pattern, path, f) ==
  f = [done \in Reached(pattern, path) |-> Recurs(pattern, path, f, done[1], done[2])]

\* The matcher is a function that satisfies its recursion, if there is one.
LEMMA FitsFromIsChosen ==
  ASSUME NEW pattern, NEW path
  PROVE  FitsFrom(pattern, path) = CHOOSE f : Recursive(pattern, path, f)
  BY DEF FitsFrom, Recursive, Recurs, Reached

\* What is left when the pattern is done.
LEMMA EndIsReached ==
  ASSUME NEW pattern, NEW path, IsList(pattern), IsList(path), NEW q \in 0 .. Len(path)
  PROVE  Remains(pattern, path, Len(pattern), q) <=> q = Len(path)
<1> DEFINE m == Len(pattern)
           n == Len(path)
<1>1. m \in Nat /\ n \in Nat
  BY DEF IsList
<1>2. ASSUME q = n PROVE Remains(pattern, path, m, q)
  <2>1. PICK cut : cut = [i \in m .. m |-> n]
    OBVIOUS
  <2>2. cut \in [m .. m -> 0 .. n] /\ cut[m] = n
    BY <1>1, <2>1
  <2>3. \A i \in m + 1 .. m : FALSE
    BY <1>1
  <2>. QED
    BY <1>2, <2>2, <2>3 DEF Remains
<1>3. ASSUME Remains(pattern, path, m, q) PROVE q = n
  BY <1>3 DEF Remains
<1>. QED
  BY <1>2, <1>3

\* The first segment of what is left takes the path somewhere, and the others the rest.
LEMMA RemainsIsHop ==
  ASSUME NEW pattern, NEW path, IsList(pattern), IsList(path),
         NEW p \in 0 .. Len(pattern), p # Len(pattern), NEW q \in 0 .. Len(path)
  PROVE  Remains(pattern, path, p, q) <=>
           \E r \in 0 .. Len(path) : Hop(pattern, path, p + 1, q, r) /\ Remains(pattern, path, p + 1, r)
<1> DEFINE m == Len(pattern)
           n == Len(path)
<1>1. m \in Nat /\ n \in Nat /\ p \in Nat /\ p + 1 \in 0 .. m
  BY DEF IsList
<1>2. ASSUME Remains(pattern, path, p, q)
      PROVE  \E r \in 0 .. n : Hop(pattern, path, p + 1, q, r) /\ Remains(pattern, path, p + 1, r)
  <2>1. PICK cut \in [p .. m -> 0 .. n] :
          /\ cut[p] = q /\ cut[m] = n
          /\ \A i \in p + 1 .. m : Hop(pattern, path, i, cut[i - 1], cut[i])
    BY <1>2 DEF Remains
  <2>2. PICK rest : rest = [i \in p + 1 .. m |-> cut[i]]
    OBVIOUS
  <2>3. rest \in [p + 1 .. m -> 0 .. n] /\ rest[p + 1] = cut[p + 1] /\ rest[m] = n /\ cut[p + 1] \in 0 .. n
    BY <1>1, <2>1, <2>2
  <2>4. ASSUME NEW i \in p + 1 + 1 .. m PROVE Hop(pattern, path, i, rest[i - 1], rest[i])
    <3>1. i \in p + 1 .. m /\ i - 1 \in p + 1 .. m
      BY <1>1
    <3>2. rest[i] = cut[i] /\ rest[i - 1] = cut[i - 1]
      BY <2>2, <3>1
    <3>3. Hop(pattern, path, i, cut[i - 1], cut[i])
      BY <2>1, <3>1
    <3>. QED
      BY <3>2, <3>3
  <2>5. Remains(pattern, path, p + 1, cut[p + 1])
    BY <2>3, <2>4 DEF Remains
  <2>6. Hop(pattern, path, p + 1, q, cut[p + 1])
    <3>1. p + 1 \in p + 1 .. m /\ (p + 1) - 1 = p
      BY <1>1
    <3>2. Hop(pattern, path, p + 1, cut[(p + 1) - 1], cut[p + 1])
      BY <2>1, <3>1
    <3>. QED
      BY <2>1, <3>1, <3>2
  <2>. QED
    BY <2>3, <2>5, <2>6
<1>3. ASSUME NEW r \in 0 .. n, Hop(pattern, path, p + 1, q, r), Remains(pattern, path, p + 1, r)
      PROVE  Remains(pattern, path, p, q)
  <2>1. PICK rest \in [p + 1 .. m -> 0 .. n] :
          /\ rest[p + 1] = r /\ rest[m] = n
          /\ \A i \in p + 1 + 1 .. m : Hop(pattern, path, i, rest[i - 1], rest[i])
    BY <1>3 DEF Remains
  <2>2. PICK cut : cut = [i \in p .. m |-> IF i = p THEN q ELSE rest[i]]
    OBVIOUS
  <2>3. cut \in [p .. m -> 0 .. n] /\ cut[p] = q /\ cut[m] = n
    <3>1. \A i \in p .. m : i = p \/ i \in p + 1 .. m
      BY <1>1
    <3>2. m \in p .. m /\ p \in p .. m /\ m # p
      BY <1>1
    <3>. QED
      BY <2>1, <2>2, <3>1, <3>2
  <2>4. ASSUME NEW i \in p + 1 .. m PROVE Hop(pattern, path, i, cut[i - 1], cut[i])
    <3>1. CASE i = p + 1
      <4>1. i - 1 = p /\ cut[i] = r /\ cut[i - 1] = q
        BY <1>1, <2>1, <2>2, <3>1
      <4>. QED
        BY <1>3, <3>1, <4>1
    <3>2. CASE i # p + 1
      <4>1. i \in p + 1 + 1 .. m /\ i - 1 \in p .. m /\ i - 1 # p /\ i \in p .. m /\ i # p
        BY <1>1, <3>2
      <4>2. cut[i] = rest[i] /\ cut[i - 1] = rest[i - 1]
        BY <2>2, <4>1
      <4>3. Hop(pattern, path, i, rest[i - 1], rest[i])
        BY <2>1, <4>1
      <4>. QED
        BY <4>2, <4>3
    <3>. QED
      BY <3>1, <3>2
  <2>. QED
    BY <2>3, <2>4 DEF Remains
<1>. QED
  BY <1>2, <1>3

\* What is left, as a function, satisfies the recursion.
LEMMA RemainsRecurs ==
  ASSUME NEW pattern, NEW path, IsList(pattern), IsList(path), NEW f,
         f = [done \in Reached(pattern, path) |-> Remains(pattern, path, done[1], done[2])]
  PROVE  Recursive(pattern, path, f)
<1> DEFINE m == Len(pattern)
           n == Len(path)
           Todo(p, q) == Remains(pattern, path, p, q)
<1>1. m \in Nat /\ n \in Nat
  BY DEF IsList
<1>2. \A p \in 0 .. m, q \in 0 .. n : f[<<p, q>>] = Todo(p, q)
  BY DEF Reached
<1> HIDE DEF Todo
<1>3. ASSUME NEW p \in 0 .. m, NEW q \in 0 .. n PROVE Todo(p, q) <=> Recurs(pattern, path, f, p, q)
  <2>1. CASE p = m
    BY <2>1, EndIsReached DEF Recurs, Todo
  <2>2. CASE p # m
    <3>1. p + 1 \in 0 .. m /\ p \in Nat /\ q \in Nat /\ (q < n => q + 1 \in 0 .. n)
      BY <1>1, <2>2
    <3>2. \A s \in 0 .. n : Todo(p, s) <=> \E r \in 0 .. n : Hop(pattern, path, p + 1, s, r) /\ Todo(p + 1, r)
      BY <2>2, RemainsIsHop DEF Todo
    <3>3. \A s \in 0 .. n : f[<<p, s>>] = Todo(p, s) /\ f[<<p + 1, s>>] = Todo(p + 1, s)
      BY <1>2, <3>1
    <3>4. CASE pattern[p + 1] = "**"
      <4>1. \A s \in 0 .. n : Todo(p, s) <=> \E r \in 0 .. n : s <= r /\ Todo(p + 1, r)
        BY <3>2, <3>4 DEF Hop
      <4>2. \A r \in 0 .. n : q <= r <=> r = q \/ (q < n /\ q + 1 <= r)
        BY <1>1, <3>1
      <4>3. Todo(p, q) <=> Todo(p + 1, q) \/ (q < n /\ Todo(p, q + 1))
        <5>1. CASE q < n
          BY <3>1, <4>1, <4>2, <5>1
        <5>2. CASE ~(q < n)
          BY <4>1, <4>2, <5>2
        <5>. QED
          BY <5>1, <5>2
      <4>. QED
        BY <2>2, <3>1, <3>3, <3>4, <4>3 DEF Recurs
    <3>5. CASE pattern[p + 1] # "**"
      <4>1. Todo(p, q) <=> \E r \in 0 .. n : r = q + 1 /\ SegmentFits(pattern[p + 1], path[r]) /\ Todo(p + 1, r)
        BY <3>2, <3>5 DEF Hop
      <4>2. q + 1 \in 0 .. n <=> q < n
        BY <1>1, <3>1
      <4>3. Todo(p, q) <=> q < n /\ SegmentFits(pattern[p + 1], path[q + 1]) /\ Todo(p + 1, q + 1)
        BY <4>1, <4>2
      <4>. QED
        BY <2>2, <3>1, <3>3, <3>5, <4>3 DEF Recurs
    <3>. QED
      BY <3>4, <3>5
  <2>. QED
    BY <2>1, <2>2
<1>4. ASSUME NEW p \in 0 .. m, NEW q \in 0 .. n
      PROVE  Remains(pattern, path, p, q) = Recurs(pattern, path, f, p, q)
  <2>1. Remains(pattern, path, p, q) <=> Recurs(pattern, path, f, p, q)
    BY <1>3 DEF Todo
  <2>2. Remains(pattern, path, p, q) \in BOOLEAN /\ Recurs(pattern, path, f, p, q) \in BOOLEAN
    BY DEF Remains, Recurs
  <2>. QED
    BY <2>1, <2>2
<1>5. \A done \in Reached(pattern, path) : done[1] \in 0 .. m /\ done[2] \in 0 .. n
  BY DEF Reached
<1>6. \A done \in Reached(pattern, path) :
        Remains(pattern, path, done[1], done[2]) = Recurs(pattern, path, f, done[1], done[2])
  BY <1>4, <1>5
<1>. QED
  BY <1>6, Zenon DEF Recursive

\* A set of numbers has a least.
LEMMA Least ==
  ASSUME NEW S, S \subseteq Nat, S # {}
  PROVE  \E x \in S : \A y \in S : x <= y
<1>1. PICK less : less = OpToRel(<, Nat)
  OBVIOUS
<1>2. IsWellFoundedOn(less, Nat)
  BY <1>1, NatLessThanWellFounded
<1>3. \A x, y \in Nat : x < y => <<x, y>> \in less
  BY <1>1 DEF OpToRel
<1>4. PICK x \in S : \A y \in S : ~(<<y, x>> \in less)
  BY <1>2, WFMin
<1>5. ASSUME NEW y \in S PROVE x <= y
  <2>1. ~(y < x)
    BY <1>3, <1>4
  <2>. QED
    BY <2>1
<1>. QED
  BY <1>5

\* No two functions satisfy the recursion: where they differ with the least left, they agree
\* on all that is asked for there.
LEMMA RecursionIsUnique ==
  ASSUME NEW pattern, NEW path, IsList(pattern), IsList(path), NEW f, NEW g,
         Recursive(pattern, path, f), Recursive(pattern, path, g)
  PROVE  f = g
<1> DEFINE m == Len(pattern)
           n == Len(path)
           left(p, q) == (m - p) + (n - q)
<1>1. m \in Nat /\ n \in Nat
  BY DEF IsList
<1>2. \A p \in 0 .. m, q \in 0 .. n : /\ <<p, q>> \in Reached(pattern, path) /\ <<p, q>>[1] = p /\ <<p, q>>[2] = q
  BY DEF Reached
<1>3. /\ \A p \in 0 .. m, q \in 0 .. n : f[<<p, q>>] = Recurs(pattern, path, f, p, q)
      /\ \A p \in 0 .. m, q \in 0 .. n : g[<<p, q>>] = Recurs(pattern, path, g, p, q)
  <2>1. \A done \in Reached(pattern, path) : /\ f[done] = Recurs(pattern, path, f, done[1], done[2])
                                          /\ g[done] = Recurs(pattern, path, g, done[1], done[2])
    BY Zenon DEF Recursive
  <2>. QED
    BY <1>2, <2>1
<1>4. SUFFICES ASSUME \E p \in 0 .. m, q \in 0 .. n : f[<<p, q>>] # g[<<p, q>>] PROVE FALSE
  <2>1. \A done \in Reached(pattern, path) : f[done] = g[done]
    <3>1. \A done \in Reached(pattern, path) : \E p \in 0 .. m, q \in 0 .. n : done = <<p, q>>
      BY DEF Reached
    <3>. QED
      BY <1>4, <3>1
  <2>2. f = [done \in Reached(pattern, path) |-> f[done]] /\ g = [done \in Reached(pattern, path) |-> g[done]]
    BY DEF Recursive
  <2>. QED
    BY <2>1, <2>2
<1>5. PICK S : S = {k \in Nat : \E p \in 0 .. m, q \in 0 .. n : k = left(p, q) /\ f[<<p, q>>] # g[<<p, q>>]}
  OBVIOUS
<1>6. S \subseteq Nat /\ S # {}
  <2>1. \A p \in 0 .. m, q \in 0 .. n : left(p, q) \in Nat
    BY <1>1
  <2>. QED
    BY <1>4, <1>5, <2>1
<1>7. PICK k \in S : \A j \in S : k <= j
  BY <1>6, Least
<1>8. PICK p \in 0 .. m : \E q \in 0 .. n : k = left(p, q) /\ f[<<p, q>>] # g[<<p, q>>]
  BY <1>5, <1>7
<1>9. PICK q \in 0 .. n : k = left(p, q) /\ f[<<p, q>>] # g[<<p, q>>]
  BY <1>8
<1>10. ASSUME NEW a \in 0 .. m, NEW b \in 0 .. n, left(a, b) < left(p, q) PROVE f[<<a, b>>] = g[<<a, b>>]
  <2>1. left(a, b) \in Nat
    BY <1>1
  <2>2. ~(k <= left(a, b))
    BY <1>1, <1>9, <1>10
  <2>3. left(a, b) \notin S
    BY <1>7, <2>2
  <2>. QED
    BY <1>5, <2>1, <2>3
<1>11. Recurs(pattern, path, f, p, q) = Recurs(pattern, path, g, p, q)
  <2>1. CASE p = m
    BY <2>1 DEF Recurs
  <2>2. CASE p # m
    <3>1. p + 1 \in 0 .. m /\ left(p + 1, q) < left(p, q)
      BY <1>1, <2>2
    <3>2. f[<<p + 1, q>>] = g[<<p + 1, q>>]
      BY <1>10, <3>1
    <3>3. CASE q < n
      <4>1. q + 1 \in 0 .. n /\ left(p, q + 1) < left(p, q) /\ left(p + 1, q + 1) < left(p, q)
        BY <1>1, <2>2, <3>3
      <4>2. f[<<p, q + 1>>] = g[<<p, q + 1>>] /\ f[<<p + 1, q + 1>>] = g[<<p + 1, q + 1>>]
        BY <1>10, <3>1, <4>1
      <4>. QED
        BY <3>2, <4>2 DEF Recurs
    <3>4. CASE ~(q < n)
      BY <3>2, <3>4 DEF Recurs
    <3>. QED
      BY <3>3, <3>4
  <2>. QED
    BY <2>1, <2>2
<1>. QED
  BY <1>3, <1>9, <1>11

\* The matcher says what is left.
LEMMA MatcherIsMeant ==
  ASSUME NEW pattern, NEW path, IsList(pattern), IsList(path)
  PROVE  FitsFrom(pattern, path)[<<0, 0>>] <=> Fits(pattern, path)
<1>1. PICK g : g = [done \in Reached(pattern, path) |-> Remains(pattern, path, done[1], done[2])]
  OBVIOUS
<1>2. Recursive(pattern, path, g)
  BY <1>1, RemainsRecurs
<1>3. PICK f : f = FitsFrom(pattern, path)
  OBVIOUS
<1>4. Recursive(pattern, path, f)
  BY <1>2, <1>3, FitsFromIsChosen, Zenon
<1>5. f = g
  BY <1>2, <1>4, RecursionIsUnique
<1>6. f[<<0, 0>>] = Remains(pattern, path, 0, 0)
  <2>1. <<0, 0>> \in Reached(pattern, path)
    BY DEF Reached, IsList
  <2>. QED
    BY <1>1, <1>5, <2>1
<1>7. Remains(pattern, path, 0, 0) <=> Fits(pattern, path)
  <2>1. /\ DOMAIN pattern = 1 .. Len(pattern) /\ 0 + 1 = 1
        /\ \A i \in 0 + 1 .. Len(pattern) : i - 1 \in Int
    BY DEF IsList
  <2>. QED
    BY <2>1 DEF Remains, Fits, Hop
<1>. QED
  BY <1>3, <1>6, <1>7

\* Without a star, every segment of a pattern takes one segment of the path.
LEMMA PlainIsPrefix ==
  ASSUME NEW pattern, NEW path, IsList(pattern), IsList(path), ~HasStar(pattern)
  PROVE  Fits(pattern, path) <=> Len(path) = Len(pattern) /\ \A i \in 1 .. Len(pattern) : path[i] = pattern[i]
<1> DEFINE m == Len(pattern)
           n == Len(path)
<1>1. m \in Nat /\ n \in Nat /\ DOMAIN pattern = 1 .. m
  BY DEF IsList
<1>2. \A i \in 1 .. m : pattern[i] \notin {"*", "**"}
  BY <1>1 DEF HasStar
<1>3. ASSUME Fits(pattern, path) PROVE n = m /\ \A i \in 1 .. m : path[i] = pattern[i]
  <2>1. PICK cut \in [0 .. m -> 0 .. n] :
          /\ cut[0] = 0 /\ cut[m] = n
          /\ \A i \in 1 .. m : cut[i] = cut[i - 1] + 1 /\ SegmentFits(pattern[i], path[cut[i]])
    BY <1>1, <1>2, <1>3 DEF Fits
  <2>2. \A i \in 0 .. m : cut[i] = i
    <3>1. PICK S : \A i : i \in S <=> i \in 0 .. m /\ cut[i] # i
      <4>1. \A i : i \in {j \in 0 .. m : cut[j] # j} <=> i \in 0 .. m /\ cut[i] # i
        OBVIOUS
      <4>. QED
        BY <4>1
    <3>2. SUFFICES ASSUME S # {} PROVE FALSE
      BY <3>1
    <3>3. S \subseteq Nat
      BY <1>1, <3>1
    <3>4. PICK k \in S : \A j \in S : k <= j
      BY <3>2, <3>3, Least
    <3>5. k \in 1 .. m /\ k - 1 \in 0 .. m /\ ~(k <= k - 1)
      BY <1>1, <2>1, <3>1, <3>4
    <3>6. cut[k - 1] = k - 1
      BY <3>1, <3>4, <3>5
    <3>. QED
      BY <1>1, <2>1, <3>1, <3>4, <3>5, <3>6
  <2>3. n = m
    BY <1>1, <2>1, <2>2
  <2>. QED
    BY <1>1, <1>2, <2>1, <2>2, <2>3 DEF SegmentFits
<1>4. ASSUME n = m, \A i \in 1 .. m : path[i] = pattern[i] PROVE Fits(pattern, path)
  <2>1. PICK cut : cut = [i \in 0 .. m |-> i]
    OBVIOUS
  <2>2. cut \in [0 .. m -> 0 .. n] /\ cut[0] = 0 /\ cut[m] = n
    BY <1>1, <1>4, <2>1
  <2>3. ASSUME NEW i \in 1 .. m PROVE cut[i] = cut[i - 1] + 1 /\ SegmentFits(pattern[i], path[cut[i]])
    <3>1. cut[i] = i /\ cut[i - 1] = i - 1
      BY <1>1, <2>1
    <3>. QED
      BY <1>1, <1>4, <3>1 DEF SegmentFits
  <2>. QED
    BY <1>1, <1>2, <2>2, <2>3 DEF Fits
<1>. QED
  BY <1>3, <1>4

\* A first part of a path.
LEMMA PartIsList ==
  ASSUME NEW path, IsList(path), NEW i \in 1 .. Len(path)
  PROVE  LET part == SubSeq(path, 1, i)
         IN IsList(part) /\ Len(part) = i /\ \A j \in 1 .. i : part[j] = path[j]
<1>1. PICK T : T = {path[j] : j \in 1 .. Len(path)}
  OBVIOUS
<1>2. path \in Seq(T)
  BY <1>1 DEF IsList
<1>. QED
  BY <1>2 DEF IsList

\* match: a pattern matches what it says.
LEMMA PatternsAreMeant ==
  ASSUME NEW given, IsMatch(given)
  PROVE  PatternsMean(given.pattern, given.path)
<1>1. PICK pattern : pattern = given.pattern
  OBVIOUS
<1>2. PICK path : path = given.path
  OBVIOUS
<1>3. /\ IsList(pattern) /\ IsList(path) /\ pattern # <<>>
      /\ Len(pattern) \in Nat \ {0} /\ Len(path) \in Nat
  BY <1>1, <1>2 DEF IsMatch, IsList
<1>4. CASE HasStar(pattern)
  <2>1. Matches(pattern, path) <=> FitsFrom(pattern, path)[<<0, 0>>]
    BY <1>4 DEF Matches, HasStar
  <2>. QED
    BY <1>1, <1>2, <1>3, <1>4, <2>1, MatcherIsMeant DEF PatternsMean
<1>5. CASE ~HasStar(pattern)
  <2>1. Matches(pattern, path) <=> Len(pattern) <= Len(path) /\ SubSeq(path, 1, Len(pattern)) = pattern
    BY <1>5 DEF Matches, HasStar
  <2>2. \A i \in 1 .. Len(path) :
          Fits(pattern, SubSeq(path, 1, i)) <=> i = Len(pattern) /\ \A j \in 1 .. i : path[j] = pattern[j]
    <3>1. SUFFICES ASSUME NEW i \in 1 .. Len(path)
          PROVE  Fits(pattern, SubSeq(path, 1, i)) <=> i = Len(pattern) /\ \A j \in 1 .. i : path[j] = pattern[j]
      OBVIOUS
    <3>2. PICK part : part = SubSeq(path, 1, i)
      OBVIOUS
    <3>3. IsList(part) /\ Len(part) = i /\ \A j \in 1 .. i : part[j] = path[j]
      BY <1>3, <3>2, PartIsList
    <3>4. Fits(pattern, part) <=> i = Len(pattern) /\ \A j \in 1 .. Len(pattern) : part[j] = pattern[j]
      BY <1>3, <1>5, <3>3, PlainIsPrefix
    <3>. QED
      BY <3>2, <3>3, <3>4
  <2>3. ASSUME Len(pattern) <= Len(path)
        PROVE  SubSeq(path, 1, Len(pattern)) = pattern <=> \A j \in 1 .. Len(pattern) : path[j] = pattern[j]
    <3>1. PICK part : part = SubSeq(path, 1, Len(pattern))
      OBVIOUS
    <3>2. IsList(part) /\ Len(part) = Len(pattern) /\ \A j \in 1 .. Len(pattern) : part[j] = path[j]
      BY <1>3, <2>3, <3>1, PartIsList
    <3>3. part = [j \in 1 .. Len(pattern) |-> part[j]] /\ pattern = [j \in 1 .. Len(pattern) |-> pattern[j]]
      BY <1>3, <3>2 DEF IsList
    <3>. QED
      BY <3>1, <3>2, <3>3
  <2>4. Matches(pattern, path) <=> \E i \in 1 .. Len(path) : Fits(pattern, SubSeq(path, 1, i))
    BY <1>3, <2>1, <2>2, <2>3
  <2>. QED
    BY <1>1, <1>2, <1>5, <2>4 DEF PatternsMean
<1>. QED
  BY <1>4, <1>5

\* select.py: whatever a repository declares, whatever changes and whatever is asked for, what
\* is selected is of the chart and all its direct dependents, no change of a validated chart is
\* dropped without a word, and no more is selected than was asked for; and a pattern matches
\* what it says.
THEOREM SelectionsAreComplete == AskSpec => []SelectionIsComplete
<1>1. PutAnInput => SelectionIsComplete
  <2>. SUFFICES ASSUME asked, case \in Of(question) PROVE SelectionIsComplete
    BY DEF PutAnInput, SelectionIsComplete, Put
  <2>1. CASE question = "select"
    BY <2>1, SilenceIsAuthored, DependentsFollow, OthersAreOut, SelectedTestsExist, PublishedAreTested,
       InputsAssumption DEF SelectionIsComplete, Put
  <2>2. CASE question = "request"
    BY <2>2, RequestsAreNarrow, InputsAssumption DEF SelectionIsComplete, Put
  <2>3. CASE question = "match"
    BY <2>3, PatternsAreMeant, InputsAssumption DEF SelectionIsComplete, Put
  <2>. QED
    BY <2>1, <2>2, <2>3 DEF SelectionIsComplete, Put
<1>. QED
  BY <1>1, AskInvariant, PTL

-----------------------------------------------------------------------------
(***************************************************************************)
(* What is installed on a workstation.                                     *)
(***************************************************************************)

\* A place of what a list of releases installs.
LEMMA PlacesOfPlans ==
  ASSUME NEW given, NEW list
  PROVE  /\ \A p \in DOMAIN PlannedAll(given, list) :
              /\ p[1] \in DOMAIN list /\ p[2] \in DOMAIN Planned(given, list[p[1]]) /\ p = <<p[1], p[2]>>
              /\ PlannedAll(given, list)[p] = Planned(given, list[p[1]])[p[2]]
         /\ \A i \in DOMAIN list : \A j \in DOMAIN Planned(given, list[i]) :
              <<i, j>> \in DOMAIN PlannedAll(given, list)
<1>1. DOMAIN PlannedAll(given, list) = UNION {{i} \X DOMAIN Planned(given, list[i]) : i \in DOMAIN list}
  BY DEF PlannedAll
<1>2. ASSUME NEW p \in DOMAIN PlannedAll(given, list)
      PROVE  p[1] \in DOMAIN list /\ p[2] \in DOMAIN Planned(given, list[p[1]]) /\ p = <<p[1], p[2]>>
  BY <1>1, <1>2
<1>3. \A i \in DOMAIN list : \A j \in DOMAIN Planned(given, list[i]) : <<i, j>> \in DOMAIN PlannedAll(given, list)
  BY <1>1
<1>4. \A p \in DOMAIN PlannedAll(given, list) : PlannedAll(given, list)[p] = Planned(given, list[p[1]])[p[2]]
  BY DEF PlannedAll
<1>. QED
  BY <1>2, <1>3, <1>4

\* What one release installs: its plan, and what it asks for with the last of it.
LEMMA PlannedIs ==
  ASSUME NEW given, NEW r, r.type = "lifecycle" => IsPlan(given, r.key), NEW j \in DOMAIN Planned(given, r)
  PROVE  LET install == Planned(given, r)[j]
         IN /\ install.by = r
            /\ r.type # "lifecycle" => j = 1 /\ install.key = r.key /\ install.runtime = r.runtime
            /\ r.type = "lifecycle" =>
                 LET ordered == given.plans[r.key]
                     m == Len(ordered)
                 IN /\ m \in Nat \ {0} /\ ordered[m] = r.key
                    /\ DOMAIN Planned(given, r) = 1 .. m /\ j \in 1 .. m /\ install.key = ordered[j]
                    /\ install.runtime = IF j = m THEN r.runtime ELSE {}
<1>1. CASE r.type # "lifecycle"
  BY <1>1 DEF Planned, Installs
<1>2. CASE r.type = "lifecycle"
  <2>1. PICK ordered : ordered = given.plans[r.key]
    OBVIOUS
  <2>2. IsList(ordered) /\ ordered # <<>> /\ ordered[Len(ordered)] = r.key
    BY <1>2, <2>1 DEF IsPlan
  <2>3. Len(ordered) \in Nat \ {0} /\ DOMAIN ordered = 1 .. Len(ordered)
    BY <2>2 DEF IsList
  <2>4. Planned(given, r) = [i \in 1 .. Len(ordered) |-> Installs(ordered[i], IF i = Len(ordered) THEN r.runtime ELSE {}, r)]
    BY <1>2, <2>1, <2>3 DEF Planned
  <2>5. j \in 1 .. Len(ordered) /\ Planned(given, r)[j] = Installs(ordered[j], IF j = Len(ordered) THEN r.runtime ELSE {}, r)
    BY <2>4
  <2>. QED
    BY <1>2, <2>1, <2>2, <2>3, <2>4, <2>5 DEF Installs
<1>. QED
  BY <1>1, <1>2

\* Releases of which every plan is one.
ArePlanned(given, list) ==
  /\ Len(list) \in Nat /\ DOMAIN list = 1 .. Len(list)
  /\ \A i \in DOMAIN list : list[i].type = "lifecycle" => IsPlan(given, list[i].key)

\* Of a release's plan, what an entry requires comes before it.
LEMMA RequiredIsPlanned ==
  ASSUME NEW given, NEW list, ArePlanned(given, list),
         NEW q \in DOMAIN PlannedAll(given, list), Lifecycle(PlannedAll(given, list)[q]),
         NEW k \in given.requires[PlannedAll(given, list)[q].key]
  PROVE  \E p \in DOMAIN PlannedAll(given, list) :
           /\ Before(p, q) /\ Lifecycle(PlannedAll(given, list)[p]) /\ PlannedAll(given, list)[p].key = k
<1>1. PICK all : all = PlannedAll(given, list)
  OBVIOUS
<1>2. PICK r : r = list[q[1]]
  OBVIOUS
<1>3. /\ q[1] \in DOMAIN list /\ q[2] \in DOMAIN Planned(given, r) /\ all[q] = Planned(given, r)[q[2]]
  BY <1>1, <1>2, PlacesOfPlans
<1>4. r.type = "lifecycle" => IsPlan(given, r.key)
  BY <1>2, <1>3 DEF ArePlanned
<1>5. r.type = "lifecycle"
  BY <1>1, <1>3, <1>4, PlannedIs DEF Lifecycle
<1>6. PICK ordered : ordered = given.plans[r.key]
  OBVIOUS
<1>7. /\ Len(ordered) \in Nat \ {0} /\ DOMAIN Planned(given, r) = 1 .. Len(ordered)
      /\ q[2] \in 1 .. Len(ordered) /\ all[q].key = ordered[q[2]]
  BY <1>3, <1>4, <1>5, <1>6, PlannedIs
<1>8. PICK i \in 1 .. q[2] - 1 : ordered[i] = k
  <2>1. q[2] \in DOMAIN ordered
    BY <1>4, <1>5, <1>6, <1>7 DEF IsPlan, IsList
  <2>2. k \in given.requires[ordered[q[2]]]
    BY <1>1, <1>7
  <2>. QED
    BY <1>4, <1>5, <1>6, <2>1, <2>2 DEF IsPlan
<1>9. PICK p : p = <<q[1], i>>
  OBVIOUS
<1>10. i \in DOMAIN Planned(given, r) /\ p \in DOMAIN all /\ p[1] = q[1] /\ p[2] = i /\ i < q[2]
  <2>1. i \in DOMAIN Planned(given, r) /\ i < q[2]
    BY <1>7, <1>8
  <2>. QED
    BY <1>1, <1>2, <1>3, <1>9, <2>1, PlacesOfPlans
<1>11. all[p] = Planned(given, r)[i]
  BY <1>1, <1>2, <1>10, PlacesOfPlans
<1>12. all[p].by = r /\ all[p].key = k
  BY <1>4, <1>5, <1>6, <1>8, <1>10, <1>11, PlannedIs
<1>13. Before(p, q) /\ Lifecycle(all[p])
  BY <1>5, <1>10, <1>12 DEF Before, Lifecycle
<1>. QED
  BY <1>1, <1>10, <1>12, <1>13

\* Of some places there is a first.
LEMMA FirstPlace ==
  ASSUME NEW given, NEW list, ArePlanned(given, list), NEW S, S \subseteq DOMAIN PlannedAll(given, list), S # {}
  PROVE  \E p \in S : \A q \in S : ~Before(q, p)
<1>1. \A p \in S : p[1] \in Nat /\ p[2] \in Nat
  <2>1. SUFFICES ASSUME NEW p \in S PROVE p[1] \in Nat /\ p[2] \in Nat
    OBVIOUS
  <2>2. PICK r : r = list[p[1]]
    OBVIOUS
  <2>3. p[1] \in DOMAIN list /\ p[2] \in DOMAIN Planned(given, r)
    BY <2>2, PlacesOfPlans
  <2>4. p[1] \in Nat /\ (r.type = "lifecycle" => IsPlan(given, r.key))
    BY <2>2, <2>3 DEF ArePlanned
  <2>. QED
    BY <2>3, <2>4, PlannedIs
<1>2. PICK I : \A i : i \in I <=> \E p \in S : i = p[1]
  <2>1. \A i : i \in {p[1] : p \in S} <=> \E p \in S : i = p[1]
    OBVIOUS
  <2>. QED
    BY <2>1
<1>3. I \subseteq Nat /\ I # {}
  BY <1>1, <1>2
<1>4. PICK i \in I : \A k \in I : i <= k
  BY <1>3, Least
<1>5. PICK J : \A j : j \in J <=> \E p \in S : p[1] = i /\ j = p[2]
  <2>1. PICK T : \A p : p \in T <=> p \in S /\ p[1] = i
    <3>1. \A p : p \in {s \in S : s[1] = i} <=> p \in S /\ p[1] = i
      OBVIOUS
    <3>. QED
      BY <3>1
  <2>2. PICK U : U = {p[2] : p \in T}
    OBVIOUS
  <2>3. \A j : j \in U <=> \E p \in S : p[1] = i /\ j = p[2]
    BY <2>1, <2>2
  <2>. QED
    BY <2>3
<1>6. J \subseteq Nat /\ J # {}
  BY <1>1, <1>2, <1>4, <1>5
<1>7. PICK j \in J : \A k \in J : j <= k
  BY <1>6, Least
<1>8. PICK p \in S : p[1] = i /\ j = p[2]
  BY <1>5, <1>7
<1>9. ASSUME NEW q \in S PROVE ~Before(q, p)
  <2>1. i <= q[1]
    BY <1>2, <1>4
  <2>2. q[1] = i => j <= q[2]
    BY <1>5, <1>7
  <2>. QED
    BY <1>1, <1>8, <2>1, <2>2 DEF Before
<1>. QED
  BY <1>9

\* Releases that load have plans, and what they ask for is known.
LEMMA LoadedArePlanned ==
  ASSUME NEW given, NEW list, IsLocal(given), IsList(list), NEW where, LoadedAll(given, list, where)
  PROVE  /\ ArePlanned(given, list)
         /\ \A i \in DOMAIN list :
              list[i].runtime \subseteq Placeholders /\ (where = "stack" => list[i].runtime = {})
  BY DEF IsLocal, IsList, LoadedAll, Accepted, Valid, ArePlanned

\* So have those of a target, which asks for nothing.
LEMMA TargetsArePlanned ==
  ASSUME NEW given, IsLocal(given), TargetResolves(given)
  PROVE  /\ ArePlanned(given, TargetReleases(given))
         /\ \A i \in DOMAIN TargetReleases(given) : TargetReleases(given)[i].runtime = {}
<1>1. CASE given.only = ""
  <2>1. TargetReleases(given) = given.stack /\ LoadedAll(given, given.stack, "stack") /\ IsList(given.stack)
    BY <1>1 DEF TargetReleases, TargetResolves, IsLocal
  <2>. QED
    BY <2>1, LoadedArePlanned
<1>2. CASE given.only # ""
  <2>1. PICK r : r = Authored("lifecycle", <<given.only, IF given.profile = "" THEN "minimal" ELSE given.profile>>)
    OBVIOUS
  <2>2. TargetReleases(given) = <<r>> /\ r.key \in DOMAIN given.plans
    BY <1>2, <2>1 DEF TargetReleases, TargetResolves
  <2>3. r.runtime = {} /\ IsPlan(given, r.key)
    BY <2>1, <2>2 DEF Authored, IsLocal
  <2>. QED
    BY <2>2, <2>3 DEF ArePlanned
<1>. QED
  BY <1>1, <1>2

\* What is resolved, when nothing is refused.
LEMMA PreparedIs ==
  ASSUME NEW given, IsLocal(given)
  PROVE  \/ /\ Prepared(given) = Nowhere
            /\ DOMAIN Prepared(given).bootstrap = {} /\ DOMAIN Prepared(given).target = {}
            /\ Prepared(given).refused
         \/ /\ BootstrapResolves(given) /\ ArePlanned(given, given.bootstrap)
            /\ \A i \in DOMAIN given.bootstrap : given.bootstrap[i].runtime \subseteq Placeholders
            /\ TargetResolves(given) /\ ~Conflicting(given, PlannedAll(given, TargetReleases(given)))
            /\ ~Prepared(given).refused
            /\ Prepared(given).bootstrap = PlannedAll(given, given.bootstrap)
            /\ Prepared(given).target = Kept(given, PlannedAll(given, TargetReleases(given)))
<1>1. CASE ~BootstrapResolves(given) \/ ~TargetResolves(given)
  BY <1>1 DEF Prepared, Nowhere
<1>2. CASE BootstrapResolves(given) /\ TargetResolves(given)
  <2>1. /\ ArePlanned(given, given.bootstrap)
        /\ \A i \in DOMAIN given.bootstrap : given.bootstrap[i].runtime \subseteq Placeholders
    <3>1. IsList(given.bootstrap) /\ LoadedAll(given, given.bootstrap, "bootstrap")
      BY <1>2 DEF IsLocal, BootstrapResolves
    <3>. QED
      BY <3>1, LoadedArePlanned
  <2>2. CASE Conflicting(given, PlannedAll(given, TargetReleases(given)))
    BY <1>2, <2>2 DEF Prepared, Nowhere
  <2>3. CASE ~Conflicting(given, PlannedAll(given, TargetReleases(given)))
    BY <1>2, <2>1, <2>3 DEF Prepared, Bootstraps
  <2>. QED
    BY <2>2, <2>3
<1>. QED
  BY <1>1, <1>2

\* What is kept of a target.
LEMMA KeptIs ==
  ASSUME NEW given, NEW all
  PROVE  /\ DOMAIN Kept(given, all) = Keeps(given, all)
         /\ \A p \in Keeps(given, all) :
              /\ p \in DOMAIN all /\ Kept(given, all)[p] = all[p]
              /\ Lifecycle(all[p]) =>
                   p \in Own(given, all) /\ \A q \in Own(given, all) : Before(q, p) => all[q].key # all[p].key
         /\ \A p \in Own(given, all) :
              (\A q \in Own(given, all) : Before(q, p) => all[q].key # all[p].key) => p \in Keeps(given, all)
  BY DEF Kept, Keeps, Own

\* What bootstrap owns, it installs.
LEMMA OwnedIsInstalled ==
  ASSUME NEW given, NEW k
  PROVE  k \in BootstrapOwns(given) <=>
           \E p \in DOMAIN PlannedAll(given, given.bootstrap) :
             /\ Lifecycle(PlannedAll(given, given.bootstrap)[p])
             /\ PlannedAll(given, given.bootstrap)[p].key = k
  BY DEF BootstrapOwns, Bootstraps

\* Of two different places, one is before the other.
LEMMA PlacesAreOrdered ==
  ASSUME NEW given, NEW list, ArePlanned(given, list),
         NEW p \in DOMAIN PlannedAll(given, list), NEW q \in DOMAIN PlannedAll(given, list), p # q
  PROVE  Before(p, q) \/ Before(q, p)
<1>1. PICK S : S = {p, q}
  OBVIOUS
<1>2. \A s \in S : s[1] \in Nat /\ s[2] \in Nat /\ s = <<s[1], s[2]>>
  <2>1. SUFFICES ASSUME NEW s \in S PROVE s[1] \in Nat /\ s[2] \in Nat /\ s = <<s[1], s[2]>>
    OBVIOUS
  <2>2. PICK r : r = list[s[1]]
    OBVIOUS
  <2>3. s[1] \in DOMAIN list /\ s[2] \in DOMAIN Planned(given, r) /\ s = <<s[1], s[2]>>
    BY <1>1, <2>2, PlacesOfPlans
  <2>4. s[1] \in Nat /\ (r.type = "lifecycle" => IsPlan(given, r.key))
    BY <2>2, <2>3 DEF ArePlanned
  <2>. QED
    BY <2>3, <2>4, PlannedIs
<1>3. p[1] # q[1] \/ p[2] # q[2]
  BY <1>1, <1>2
<1>. QED
  BY <1>1, <1>2, <1>3 DEF Before

\* _preflight: no chart of the target is installed twice.
LEMMA TargetsAreDistinct ==
  ASSUME NEW given, IsLocal(given)
  PROVE  TargetInstallsOnce(given)
<1>1. CASE DOMAIN Prepared(given).target = {}
  BY <1>1 DEF TargetInstallsOnce
<1>2. CASE DOMAIN Prepared(given).target # {}
  <2>1. PICK list : list = TargetReleases(given)
    OBVIOUS
  <2>2. PICK all : all = PlannedAll(given, list)
    OBVIOUS
  <2>3. PICK target : target = Prepared(given).target
    OBVIOUS
  <2>4. ArePlanned(given, list) /\ target = Kept(given, all) /\ ~Conflicting(given, all)
    BY <1>2, <2>1, <2>2, <2>3, PreparedIs, TargetsArePlanned
  <2>5. ASSUME NEW p \in DOMAIN target, NEW q \in DOMAIN target, p # q, Lifecycle(target[p]), Lifecycle(target[q])
        PROVE  target[p].key[1] # target[q].key[1]
    <3>1. /\ p \in Own(given, all) /\ q \in Own(given, all) /\ p \in DOMAIN all /\ q \in DOMAIN all
          /\ target[p] = all[p] /\ target[q] = all[q]
          /\ \A s \in Own(given, all) : Before(s, p) => all[s].key # all[p].key
          /\ \A s \in Own(given, all) : Before(s, q) => all[s].key # all[q].key
      BY <2>4, <2>5, KeptIs
    <3>2. Before(p, q) \/ Before(q, p)
      BY <2>2, <2>4, <2>5, <3>1, PlacesAreOrdered
    <3>3. all[p].key # all[q].key
      BY <3>1, <3>2
    <3>. QED
      BY <2>4, <3>1, <3>3 DEF Conflicting
  <2>. QED
    BY <2>3, <2>5 DEF TargetInstallsOnce
<1>. QED
  BY <1>1, <1>2

\* plan: what a dry run shows.
LEMMA DryRunsAreTrue ==
  ASSUME NEW given, IsLocal(given)
  PROVE  DryRunTellsTheTruth(given)
<1>1. CASE Prepared(given).refused
  <2>1. DOMAIN Prepared(given).bootstrap = {}
    BY <1>1, PreparedIs
  <2>. QED
    BY <1>1, <2>1 DEF DryRunTellsTheTruth, DryRun
<1>2. CASE ~Prepared(given).refused
  <2>1. PICK all : all = PlannedAll(given, given.bootstrap)
    OBVIOUS
  <2>2. Prepared(given).bootstrap = all
    BY <1>2, <2>1, PreparedIs DEF Nowhere
  <2>3. \A k : k \in BootstrapOwns(given) <=> \E p \in DOMAIN all : Lifecycle(all[p]) /\ all[p].key = k
    BY <2>1, OwnedIsInstalled
  <2>4. DryRun(given).bootstrap = BootstrapOwns(given)
    BY <1>2 DEF DryRun
  <2>5. DryRun(given).target = [p \in DOMAIN Prepared(given).target |-> Prepared(given).target[p].key]
    BY DEF DryRun
  <2>6. BootstrapOwns(given) \subseteq {all[p].key : p \in DOMAIN all}
    BY <2>3
  <2>. QED
    BY <2>2, <2>3, <2>4, <2>5, <2>6 DEF DryRunTellsTheTruth
<1>. QED
  BY <1>1, <1>2

\* A place of all that is installed.
LEMMA PlacesOfInstalled ==
  ASSUME NEW given, NEW b, NEW t, b = Prepared(given).bootstrap, t = Prepared(given).target
  PROVE  /\ \A p \in DOMAIN InstalledBy(given) :
              \/ p[1] = 0 /\ p[2] \in DOMAIN b /\ InstalledBy(given)[p] = b[p[2]]
              \/ p[1] = 1 /\ p[2] \in DOMAIN t /\ InstalledBy(given)[p] = t[p[2]]
         /\ \A s \in DOMAIN b : <<0, s>> \in DOMAIN InstalledBy(given) /\ InstalledBy(given)[<<0, s>>] = b[s]
         /\ \A s \in DOMAIN t : <<1, s>> \in DOMAIN InstalledBy(given) /\ InstalledBy(given)[<<1, s>>] = t[s]
<1>1. PICK P : P = ({0} \X DOMAIN b) \union ({1} \X DOMAIN t)
  OBVIOUS
<1>2. InstalledBy(given) = [p \in P |-> IF p[1] = 0 THEN b[p[2]] ELSE t[p[2]]]
  BY <1>1 DEF InstalledBy
<1>3. \A p \in P : (p[1] = 0 /\ p[2] \in DOMAIN b) \/ (p[1] = 1 /\ p[2] \in DOMAIN t)
  BY <1>1
<1>4. /\ \A s \in DOMAIN b : <<0, s>> \in P /\ <<0, s>>[1] = 0 /\ <<0, s>>[2] = s
      /\ \A s \in DOMAIN t : <<1, s>> \in P /\ <<1, s>>[1] = 1 /\ <<1, s>>[2] = s
  BY <1>1
<1>. QED
  BY <1>2, <1>3, <1>4

\* What is before a place is before all that is at or after it.
LEMMA BeforeIsTransitive ==
  ASSUME NEW given, NEW list, ArePlanned(given, list),
         NEW p \in DOMAIN PlannedAll(given, list), NEW q \in DOMAIN PlannedAll(given, list),
         NEW s \in DOMAIN PlannedAll(given, list), ~Before(q, p), Before(q, s)
  PROVE  Before(p, s)
<1>1. PICK S : S = {p, q, s}
  OBVIOUS
<1>2. \A x \in S : x[1] \in Nat /\ x[2] \in Nat
  <2>1. SUFFICES ASSUME NEW x \in S PROVE x[1] \in Nat /\ x[2] \in Nat
    OBVIOUS
  <2>2. PICK r : r = list[x[1]]
    OBVIOUS
  <2>3. x[1] \in DOMAIN list /\ x[2] \in DOMAIN Planned(given, r)
    BY <1>1, <2>2, PlacesOfPlans
  <2>4. x[1] \in Nat /\ (r.type = "lifecycle" => IsPlan(given, r.key))
    BY <2>2, <2>3 DEF ArePlanned
  <2>. QED
    BY <2>3, <2>4, PlannedIs
<1>. QED
  BY <1>1, <1>2 DEF Before

\* What is required is there before what requires it, and is still in that profile.
Serves(given, p, q, k) ==
  LET all == InstalledBy(given)
  IN /\ p \in DOMAIN all /\ Precedes(p, q) /\ Lifecycle(all[p]) /\ all[p].key = k
     /\ \/ p[1] = 0
        \/ \A o \in DOMAIN all :
             Precedes(p, o) /\ Precedes(o, q) /\ Lifecycle(all[o]) /\ all[o].key[1] = k[1] => all[o].key = k

\* _preflight: what is required is there before what requires it: in the plan itself, or where
\* an earlier release of the target has it, or in bootstrap; and no other lifecycle release of
\* the target is of its chart.
LEMMA RequirementsAreThere ==
  ASSUME NEW given, IsLocal(given)
  PROVE  RequirementsAreInstalled(given)
<1>1. PICK b : b = Prepared(given).bootstrap
  OBVIOUS
<1>2. PICK t : t = Prepared(given).target
  OBVIOUS
<1>3. PICK every : every = InstalledBy(given)
  OBVIOUS
<1>4. /\ \A p \in DOMAIN every :
           \/ p[1] = 0 /\ p[2] \in DOMAIN b /\ every[p] = b[p[2]]
           \/ p[1] = 1 /\ p[2] \in DOMAIN t /\ every[p] = t[p[2]]
      /\ \A s \in DOMAIN b : <<0, s>> \in DOMAIN every /\ every[<<0, s>>] = b[s]
      /\ \A s \in DOMAIN t : <<1, s>> \in DOMAIN every /\ every[<<1, s>>] = t[s]
  BY <1>1, <1>2, <1>3, PlacesOfInstalled
<1>5. SUFFICES ASSUME NEW q \in DOMAIN every, Lifecycle(every[q]), NEW k \in given.requires[every[q].key]
      PROVE  \E p : Serves(given, p, q, k)
  BY <1>3 DEF RequirementsAreInstalled, Serves
<1>6. PICK list : list = TargetReleases(given)
  OBVIOUS
<1>7. PICK all : all = PlannedAll(given, list)
  OBVIOUS
<1>8. /\ ArePlanned(given, given.bootstrap) /\ b = PlannedAll(given, given.bootstrap)
      /\ ArePlanned(given, list) /\ t = Kept(given, all)
  BY <1>1, <1>2, <1>4, <1>5, <1>6, <1>7, PreparedIs, TargetsArePlanned
<1>9. ASSUME NEW s \in DOMAIN b, Lifecycle(b[s]), b[s].key = k, q[1] = 1 \/ (q[1] = 0 /\ Before(s, q[2]))
      PROVE  \E p : Serves(given, p, q, k)
  <2>1. PICK p : p = <<0, s>>
    OBVIOUS
  <2>2. p[1] = 0 /\ p[2] = s /\ p \in DOMAIN every /\ every[p] = b[s]
    BY <1>4, <2>1
  <2>. QED
    BY <1>3, <1>9, <2>2 DEF Precedes, Serves
<1>10. CASE q[1] = 0
  <2>1. q[2] \in DOMAIN b /\ every[q] = b[q[2]]
    BY <1>4, <1>10
  <2>2. PICK s \in DOMAIN b : Before(s, q[2]) /\ Lifecycle(b[s]) /\ b[s].key = k
    BY <1>5, <1>8, <2>1, RequiredIsPlanned
  <2>. QED
    BY <1>9, <1>10, <2>2
<1>11. CASE q[1] = 1
  <2>1. PICK r : r = q[2]
    OBVIOUS
  <2>2. r \in DOMAIN t /\ every[q] = t[r]
    BY <1>4, <1>11, <2>1
  <2>3. r \in DOMAIN all /\ t[r] = all[r] /\ Lifecycle(all[r]) /\ k \in given.requires[all[r].key]
    BY <1>5, <1>8, <2>2, KeptIs
  <2>4. PICK s \in DOMAIN all : Before(s, r) /\ Lifecycle(all[s]) /\ all[s].key = k
    BY <1>7, <1>8, <2>3, RequiredIsPlanned
  <2>5. CASE k \in BootstrapOwns(given)
    <3>1. PICK o \in DOMAIN b : Lifecycle(b[o]) /\ b[o].key = k
      BY <1>8, <2>5, OwnedIsInstalled
    <3>. QED
      BY <1>9, <1>11, <3>1
  <2>6. CASE k \notin BootstrapOwns(given)
    <3>1. PICK S : \A p : p \in S <=> p \in Own(given, all) /\ all[p].key = k
      <4>1. PICK U : U = {p \in Own(given, all) : all[p].key = k}
        OBVIOUS
      <4>2. \A p : p \in U <=> p \in Own(given, all) /\ all[p].key = k
        BY <4>1
      <4>. QED
        BY <4>2
    <3>2. \A p : p \in Own(given, all) <=> p \in DOMAIN all /\ Lifecycle(all[p]) /\ all[p].key \notin BootstrapOwns(given)
      BY DEF Own
    <3>3. s \in S /\ S \subseteq DOMAIN all
      BY <2>4, <2>6, <3>1, <3>2
    <3>4. PICK p \in S : \A o \in S : ~Before(o, p)
      BY <1>7, <1>8, <3>3, FirstPlace
    <3>5. p \in Own(given, all) /\ \A o \in Own(given, all) : Before(o, p) => all[o].key # all[p].key
      BY <3>1, <3>4
    <3>6. p \in DOMAIN t /\ t[p] = all[p] /\ Lifecycle(all[p]) /\ all[p].key = k
      BY <1>8, <3>1, <3>2, <3>4, <3>5, KeptIs
    <3>7. Before(p, r)
      <4>1. ~Before(s, p) /\ p \in DOMAIN all
        BY <3>3, <3>4
      <4>. QED
        BY <1>7, <1>8, <2>3, <2>4, <4>1, BeforeIsTransitive
    <3>8. PICK place : place = <<1, p>>
      OBVIOUS
    <3>9. place[1] = 1 /\ place[2] = p /\ place \in DOMAIN every /\ every[place] = t[p]
      BY <1>4, <3>6, <3>8
    <3>10. Precedes(place, q)
      BY <1>11, <2>1, <3>7, <3>9 DEF Precedes
    <3>11. ASSUME NEW o \in DOMAIN every, Precedes(place, o), Lifecycle(every[o]), every[o].key[1] = k[1]
           PROVE  every[o].key = k
      <4>1. o[1] # 0
        BY <3>9, <3>11 DEF Precedes
      <4>2. PICK x : x = o[2]
        OBVIOUS
      <4>3. x \in DOMAIN t /\ every[o] = t[x]
        BY <1>4, <4>1, <4>2
      <4>4. x = p
        BY <1>2, <3>6, <3>11, <4>3, TargetsAreDistinct DEF TargetInstallsOnce
      <4>. QED
        BY <3>6, <4>3, <4>4
    <3>. QED
      BY <1>3, <3>6, <3>9, <3>10, <3>11 DEF Serves
  <2>. QED
    BY <2>5, <2>6
<1>. QED
  BY <1>4, <1>10, <1>11

\* _releases: runtime values are with the last entry of the plan of what asks for them.
LEMMA ValuesAreWithTheirs ==
  ASSUME NEW given, NEW list, ArePlanned(given, list),
         \A i \in DOMAIN list : list[i].runtime \subseteq Placeholders,
         NEW p \in DOMAIN PlannedAll(given, list)
  PROVE  LET all == PlannedAll(given, list)
         IN /\ all[p].runtime # {} => all[p].key = all[p].by.key /\ all[p].runtime \subseteq Facts(all[p].runtime)
            /\ \/ all[p].runtime = all[p].by.runtime
               \/ \E q \in DOMAIN all : Before(p, q) /\ all[q].key = all[p].by.key
            /\ \E i \in DOMAIN list : all[p].by = list[i] /\ (all[p].runtime = {} \/ all[p].runtime = list[i].runtime)
<1>1. PICK all : all = PlannedAll(given, list)
  OBVIOUS
<1>2. PICK r : r = list[p[1]]
  OBVIOUS
<1>3. /\ p[1] \in DOMAIN list /\ p[2] \in DOMAIN Planned(given, r) /\ all[p] = Planned(given, r)[p[2]]
  BY <1>1, <1>2, PlacesOfPlans
<1>4. (r.type = "lifecycle" => IsPlan(given, r.key)) /\ r.runtime \subseteq Placeholders
  BY <1>2, <1>3 DEF ArePlanned
<1>5. \A runtime : runtime \subseteq Placeholders => runtime \subseteq Facts(runtime)
  BY DEF Placeholders, Facts
<1>6. CASE r.type # "lifecycle"
  <2>1. all[p].by = r /\ all[p].key = r.key /\ all[p].runtime = r.runtime
    BY <1>3, <1>4, <1>6, PlannedIs
  <2>. QED
    BY <1>1, <1>2, <1>3, <1>4, <1>5, <2>1
<1>7. CASE r.type = "lifecycle"
  <2>1. PICK ordered : ordered = given.plans[r.key]
    OBVIOUS
  <2>2. PICK m : m = Len(ordered)
    OBVIOUS
  <2>3. /\ m \in Nat \ {0} /\ ordered[m] = r.key /\ DOMAIN Planned(given, r) = 1 .. m
        /\ all[p].by = r /\ p[2] \in 1 .. m /\ all[p].key = ordered[p[2]]
        /\ all[p].runtime = IF p[2] = m THEN r.runtime ELSE {}
    BY <1>3, <1>4, <1>7, <2>1, <2>2, PlannedIs
  <2>4. CASE p[2] = m
    BY <1>1, <1>2, <1>3, <1>4, <1>5, <2>3, <2>4
  <2>5. CASE p[2] # m
    <3>1. PICK q : q = <<p[1], m>>
      OBVIOUS
    <3>2. q \in DOMAIN all /\ q[1] = p[1] /\ q[2] = m
      BY <1>1, <1>2, <1>3, <2>3, <3>1, PlacesOfPlans
    <3>3. all[q] = Planned(given, r)[m] /\ m \in DOMAIN Planned(given, r)
      BY <1>1, <1>2, <2>3, <3>2, PlacesOfPlans
    <3>4. all[q].key = r.key
      BY <1>4, <1>7, <2>1, <2>2, <2>3, <3>3, PlannedIs
    <3>5. Before(p, q)
      BY <2>3, <2>5, <3>2 DEF Before
    <3>. QED
      BY <1>1, <1>2, <1>3, <2>3, <2>5, <3>2, <3>4, <3>5
  <2>. QED
    BY <2>4, <2>5
<1>. QED
  BY <1>6, <1>7

\* So they are in all that is installed.
LEMMA ValuesStay ==
  ASSUME NEW given, IsLocal(given)
  PROVE  RuntimeValuesStay(given)
<1>1. PICK b : b = Prepared(given).bootstrap
  OBVIOUS
<1>2. PICK t : t = Prepared(given).target
  OBVIOUS
<1>3. PICK every : every = InstalledBy(given)
  OBVIOUS
<1>4. /\ \A p \in DOMAIN every :
           \/ p[1] = 0 /\ p[2] \in DOMAIN b /\ every[p] = b[p[2]]
           \/ p[1] = 1 /\ p[2] \in DOMAIN t /\ every[p] = t[p[2]]
      /\ \A s \in DOMAIN b : <<0, s>> \in DOMAIN every /\ every[<<0, s>>] = b[s]
  BY <1>1, <1>2, <1>3, PlacesOfInstalled
<1>5. SUFFICES ASSUME NEW p \in DOMAIN every
      PROVE  /\ every[p].runtime # {} =>
                  every[p].key = every[p].by.key /\ every[p].runtime \subseteq Facts(every[p].runtime)
             /\ \/ every[p].runtime = every[p].by.runtime \/ every[p].key # every[p].by.key
                \/ \E q \in DOMAIN every : Precedes(p, q) /\ every[q].key[1] = every[p].key[1]
  BY <1>3 DEF RuntimeValuesStay
<1>6. PICK list : list = TargetReleases(given)
  OBVIOUS
<1>7. PICK all : all = PlannedAll(given, list)
  OBVIOUS
<1>8. /\ ArePlanned(given, given.bootstrap) /\ b = PlannedAll(given, given.bootstrap)
      /\ \A i \in DOMAIN given.bootstrap : given.bootstrap[i].runtime \subseteq Placeholders
      /\ ArePlanned(given, list) /\ t = Kept(given, all)
      /\ \A i \in DOMAIN list : list[i].runtime = {}
  BY <1>1, <1>2, <1>4, <1>5, <1>6, <1>7, PreparedIs, TargetsArePlanned
<1>9. CASE p[1] = 0
  <2>1. PICK s \in DOMAIN b : p[2] = s /\ every[p] = b[s]
    BY <1>4, <1>9
  <2>2. /\ b[s].runtime # {} => b[s].key = b[s].by.key /\ b[s].runtime \subseteq Facts(b[s].runtime)
        /\ b[s].runtime = b[s].by.runtime \/ \E q \in DOMAIN b : Before(s, q) /\ b[q].key = b[s].by.key
    BY <1>8, ValuesAreWithTheirs
  <2>3. ASSUME NEW q \in DOMAIN b, Before(s, q), b[q].key = b[s].by.key, b[s].key = b[s].by.key
        PROVE  \E o \in DOMAIN every : Precedes(p, o) /\ every[o].key[1] = every[p].key[1]
    <3>1. PICK o : o = <<0, q>>
      OBVIOUS
    <3>2. o[1] = 0 /\ o[2] = q /\ o \in DOMAIN every /\ every[o] = b[q]
      BY <1>4, <3>1
    <3>. QED
      BY <1>9, <2>1, <2>3, <3>2 DEF Precedes
  <2>. QED
    BY <2>1, <2>2, <2>3
<1>10. CASE p[1] = 1
  <2>1. PICK s \in DOMAIN t : every[p] = t[s]
    BY <1>4, <1>10
  <2>2. s \in DOMAIN all /\ t[s] = all[s]
    BY <1>8, KeptIs
  <2>3. \A i \in DOMAIN list : list[i].runtime \subseteq Placeholders
    BY <1>8
  <2>4. \E i \in DOMAIN list : all[s].by = list[i] /\ (all[s].runtime = {} \/ all[s].runtime = list[i].runtime)
    BY <1>7, <1>8, <2>2, <2>3, ValuesAreWithTheirs
  <2>. QED
    BY <1>8, <2>1, <2>2, <2>4
<1>. QED
  BY <1>4, <1>9, <1>10

\* port_mapping_drift: a port is missing, or a container that runs has it.
LEMMA NoDriftIsServed ==
  ASSUME NEW cluster
  PROVE  CleanMeansServed(cluster)
<1>1. ASSUME cluster.readable, NEW p \in cluster.declared, p \in LivePorts(cluster)
      PROVE  \E n \in cluster.nodes : n.runs /\ p \in n.ports
  <2>1. PICK n \in cluster.nodes : p \in Bound(n)
    BY <1>1 DEF LivePorts
  <2>. QED
    BY <2>1 DEF Bound
<1>. QED
  BY <1>1 DEF CleanMeansServed, PortDrift, Expected

\* local/run.py, bootstrap.py, drift.py: whatever is authored and asked for, what a chart of a
\* workstation requires is installed before it, and stays in its profile unless bootstrap
\* installed it; the target installs no lifecycle chart twice; values stay with what asks for
\* them; a dry run shows it; and no drift means that every port is served.
THEOREM LocalInstallsAreSafe == AskSpec => []LocalInstallIsSafe
<1>1. PutAnInput => LocalInstallIsSafe
  <2>. SUFFICES ASSUME asked, case \in Of(question) PROVE LocalInstallIsSafe
    BY DEF PutAnInput, LocalInstallIsSafe, Put
  <2>1. CASE question = "local"
    <3>1. IsLocal(case)
      BY <2>1, InputsAssumption
    <3>. QED
      BY <2>1, <3>1, RequirementsAreThere, TargetsAreDistinct, ValuesStay, DryRunsAreTrue DEF LocalInstallIsSafe, Put
  <2>2. CASE question = "ports"
    BY <2>2, NoDriftIsServed DEF LocalInstallIsSafe, Put
  <2>. QED
    BY <2>1, <2>2 DEF LocalInstallIsSafe, Put
<1>. QED
  BY <1>1, AskInvariant, PTL
=============================================================================
