------------------------------ MODULE Publish ------------------------------
(***************************************************************************)
(* `chart publish` (commands/publish/run.py): every chart of a request is  *)
(* packaged, then every archive is pushed, then every push is recorded in  *)
(* the ledger.                                                             *)
(*                                                                         *)
(* Invocations overlap, and each may be killed between any two steps; an   *)
(* operator then runs the same request again.  The registry keeps every    *)
(* artifact it was sent under its digest, and lets a tag move.             *)
(***************************************************************************)
EXTENDS EventLedger

CONSTANTS
  Invocations,  \* runs of `chart publish`
  Charts,       \* the charts of the workspace
  Digests,      \* what packaging a chart may produce
  Requests      \* what the runs may be asked for

None == "none"

ASSUME PublishAssumption ==
  /\ Requests \subseteq [charts : SUBSET Charts, version : BOOLEAN, suffix : BOOLEAN,
                         kind : {"inferred", "preview", "release"}, dry : BOOLEAN, strict : BOOLEAN]
  /\ None \notin Digests

VARIABLES
  registry,  \* the artifacts that were ever stored
  tags,      \* the digest under each chart and version
  ledger,    \* the stored events
  pc,        \* where each invocation is, or how it ended
  request,   \* what it was asked for
  todo,      \* the charts its current phase has not reached
  built,     \* the archives it prepared
  rows,      \* what became of each push
  lost       \* the charts whose event was not written

vars == <<registry, tags, ledger, pc, request, todo, built, rows, lost>>

Versions == {"base", "suffixed", "exact"}
Planned == [ok |-> TRUE, pushed |-> FALSE, digest |-> None]
Failed == [ok |-> FALSE, pushed |-> FALSE, digest |-> None]
Rows == [ok : BOOLEAN, pushed : BOOLEAN, digest : Digests \union {None}]

-----------------------------------------------------------------------------
(***************************************************************************)
(* The request.                                                            *)
(***************************************************************************)

\* A version suffix makes a preview unless the request says otherwise.
Kind(q) == IF q.kind # "inferred" THEN q.kind ELSE IF q.suffix THEN "preview" ELSE "release"

\* The combinations of options that run() takes.
Accepted(q) ==
  /\ q.charts # {}
  /\ ~(q.version /\ q.suffix)
  /\ q.version => Cardinality(q.charts) = 1
  /\ ~(Kind(q) = "release" /\ q.suffix)

Target(q) == IF q.version THEN "exact" ELSE IF q.suffix THEN "suffixed" ELSE "base"
Phase(q) == IF Kind(q) = "preview" THEN "preview_published" ELSE "published"

\* Mutant: the key of an event names the run that wrote it.
Key_PerRun(i, c) == <<Phase(request[i]), c, Target(request[i]), rows[i][c].digest, i>>

\* The identity of the event of a push: by digest, or by tag where helm told none.
Key(i, c) == <<Phase(request[i]), c, Target(request[i]), rows[i][c].digest>>

\* The event of a push, with the digest helm told as its detail.
EventOf(i, c) ==
  Event(c, Target(request[i]), Phase(request[i]), Stamp(0, 0), rows[i][c].digest, Key(i, c), <<i, c>>)

-----------------------------------------------------------------------------
Init ==
  /\ registry = {} /\ ledger = {}
  /\ tags = [t \in Charts \X Versions |-> None]
  /\ pc = [i \in Invocations |-> "idle"]
  /\ request \in [Invocations -> Requests]
  /\ todo = [i \in Invocations |-> {}]
  /\ built = [i \in Invocations |-> [c \in Charts |-> None]]
  /\ rows = [i \in Invocations |-> [c \in Charts |-> Planned]]
  /\ lost = [i \in Invocations |-> {}]

GoTo(i, label) == pc' = [pc EXCEPT ![i] = label]

\* A phase takes up the charts it is to work on.
Enter(i, label, charts) == GoTo(i, label) /\ todo' = [todo EXCEPT ![i] = charts]

\* The request is checked before anything is done for it.
Start(i) ==
  /\ pc[i] = "idle"
  /\ IF Accepted(request[i])
     THEN Enter(i, "prepare", request[i].charts)
     ELSE GoTo(i, "refused") /\ UNCHANGED todo
  /\ UNCHANGED <<registry, tags, ledger, request, built, rows, lost>>

\* Mutant: a chart that cannot be packaged is left out.
Prepare_Skips(i) ==
  /\ pc[i] = "prepare"
  /\ \E c \in todo[i] :
       /\ todo' = [todo EXCEPT ![i] = @ \ {c}]
       /\ \/ \E d \in Digests : built' = [built EXCEPT ![i][c] = d]
          \/ UNCHANGED built
  /\ UNCHANGED <<registry, tags, ledger, pc, request, rows, lost>>

\* One chart is loaded, its version settled, its dependencies updated, and packaged.
\* Whatever fails of this ends the run.
Prepare(i) ==
  /\ pc[i] = "prepare"
  /\ \E c \in todo[i] :
       \/ /\ \E d \in Digests : built' = [built EXCEPT ![i][c] = d]
          /\ todo' = [todo EXCEPT ![i] = @ \ {c}]
          /\ UNCHANGED pc
       \/ GoTo(i, "aborted") /\ UNCHANGED <<todo, built>>
  /\ UNCHANGED <<registry, tags, ledger, request, rows, lost>>

\* Every archive is there: a dry run has its plan, any other goes on to push.
Prepared(i) ==
  /\ pc[i] = "prepare" /\ todo[i] = {}
  /\ IF request[i].dry
     THEN GoTo(i, "done") /\ UNCHANGED todo
     ELSE Enter(i, "push", request[i].charts)
  /\ UNCHANGED <<registry, tags, ledger, request, built, rows, lost>>

\* The registry stores what it is sent, and the tag moves to it.
Store(i, c) ==
  /\ registry' = registry \union {<<c, Target(request[i]), built[i][c]>>}
  /\ tags' = [tags EXCEPT ![<<c, Target(request[i])>>] = built[i][c]]

\* One archive is pushed.  helm tells the digest or not; it fails before or after the
\* registry stored the archive.  A failed push is a row, and the others go on.
Push(i) ==
  /\ pc[i] = "push"
  /\ \E c \in todo[i] :
       /\ todo' = [todo EXCEPT ![i] = @ \ {c}]
       /\ \/ /\ Store(i, c)
             /\ \E d \in {built[i][c], None} :
                  rows' = [rows EXCEPT ![i][c] = [ok |-> TRUE, pushed |-> TRUE, digest |-> d]]
          \/ /\ Store(i, c) \/ UNCHANGED <<registry, tags>>
             /\ rows' = [rows EXCEPT ![i][c] = Failed]
  /\ UNCHANGED <<ledger, pc, request, built, lost>>

\* Only successful pushes are recorded.
PushedAll(i) ==
  /\ pc[i] = "push" /\ todo[i] = {}
  /\ Enter(i, "emit", {c \in request[i].charts : rows[i][c].ok})
  /\ UNCHANGED <<registry, tags, ledger, request, built, rows, lost>>

\* Mutant: a failed write is not reported.
Emit_Silent(i) ==
  /\ pc[i] = "emit"
  /\ \E c \in todo[i] :
       /\ todo' = [todo EXCEPT ![i] = @ \ {c}]
       /\ \/ ledger' = Write(ledger, EventOf(i, c), <<i, c>>)
          \/ UNCHANGED ledger
  /\ UNCHANGED <<registry, tags, pc, request, built, rows, lost>>

\* One event is written, or lost: the failure is reported, and the write may have
\* reached the backend all the same.
Emit(i) ==
  /\ pc[i] = "emit"
  /\ \E c \in todo[i] :
       /\ todo' = [todo EXCEPT ![i] = @ \ {c}]
       /\ \/ ledger' = Write(ledger, EventOf(i, c), <<i, c>>) /\ UNCHANGED lost
          \/ /\ ledger' \in {ledger, Write(ledger, EventOf(i, c), <<i, c>>)}
             /\ lost' = [lost EXCEPT ![i] = @ \union {c}]
  /\ UNCHANGED <<registry, tags, pc, request, built, rows>>

Finish(i) ==
  /\ pc[i] = "emit" /\ todo[i] = {}
  /\ GoTo(i, "done")
  /\ UNCHANGED <<registry, tags, ledger, request, todo, built, rows, lost>>

\* The process is killed: the archives go, what was pushed and written stays.
Kill(i) ==
  /\ pc[i] \in {"prepare", "push", "emit"}
  /\ GoTo(i, "killed")
  /\ UNCHANGED <<registry, tags, ledger, request, todo, built, rows, lost>>

Publishing(i) ==
  \/ Start(i) \/ Prepare(i) \/ Prepared(i) \/ Push(i) \/ PushedAll(i)
  \/ Emit(i) \/ Finish(i) \/ Kill(i)

Next == \E i \in Invocations : Publishing(i)

Spec == Init /\ [][Next]_vars

-----------------------------------------------------------------------------
(***************************************************************************)
(* Properties.                                                             *)
(***************************************************************************)

\* The command exits 0: every push succeeded and, with --strict-events, was recorded.
Succeeds(i) ==
  /\ pc[i] = "done"
  /\ \A c \in request[i].charts : rows[i][c].ok
  /\ request[i].strict => lost[i] = {}

\* Every variable keeps its type, and a run works on nothing that it was not asked for.
TypeOK ==
  /\ registry \subseteq Charts \X Versions \X Digests
  /\ tags \in [Charts \X Versions -> Digests \union {None}]
  /\ pc \in [Invocations -> {"idle", "prepare", "push", "emit", "done", "refused", "aborted", "killed"}]
  /\ request \in [Invocations -> Requests]
  /\ todo \in [Invocations -> SUBSET Charts]
  /\ \A i \in Invocations : todo[i] \subseteq request[i].charts
  /\ built \in [Invocations -> [Charts -> Digests \union {None}]]
  /\ rows \in [Invocations -> [Charts -> Rows]]
  /\ lost \in [Invocations -> SUBSET Charts]

\* run(): one failed preparation pushes nothing.  A run that has pushed anything, or
\* tried to, had prepared every chart it was asked for.
NothingIsPushedUnprepared ==
  \A i \in Invocations :
    (\E c \in Charts : rows[i][c] # Planned) =>
      \A c \in request[i].charts : built[i][c] # None

\* What the ledger says was published is in the registry: no event of a push that
\* failed, of a dry run, or of a run that died before it.
LedgerIsTrue ==
  \A e \in ledger :
    /\ <<e.chart, e.version>> \in Charts \X Versions
    /\ \E a \in registry : /\ a[1] = e.chart /\ a[2] = e.version
                           /\ e.detail \in {a[3], None}

\* However often a release is published again, by whichever run, a digest that helm told has
\* one event of its phase, and all the pushes of which helm told none have one together.
OneEventPerDigest ==
  \A e, f \in ledger :
    /\ e.chart = f.chart /\ e.version = f.version /\ e.phase = f.phase
    /\ e.detail = f.detail
    => e = f

Events(c, v, phase) == {e \in ledger : e.chart = c /\ e.version = v /\ e.phase = phase}
Artifacts(c, v) == {a \in registry : a[1] = c /\ a[2] = v}

\* So an artifact may be on record twice, when one run was told its digest and another was
\* not: the key falls back on the reference.  That is the one event more that a release has
\* than artifacts; those that were stored for a push that failed have none.
OneEventMore ==
  \A c \in Charts, v \in Versions, phase \in {"published", "preview_published"} :
    Cardinality(Events(c, v, phase)) <= Cardinality(Artifacts(c, v)) + 1

\* A run that exits 0 under --strict-events has every chart in the registry and every
\* push in the ledger, also when other runs wrote the same events since.
SuccessIsOnRecord ==
  \A i \in Invocations :
    Succeeds(i) /\ ~request[i].dry =>
      \A c \in request[i].charts :
        /\ <<c, Target(request[i]), built[i][c]>> \in registry
        /\ request[i].strict => \E e \in ledger : e.id = EventOf(i, c).id

\* A version that carries a preview suffix is never on record as released.
PreviewIsNoRelease == \A e \in ledger : e.version = "suffixed" => e.phase = "preview_published"

\* telemetry.py: every event of the ledger is of an artifact in the registry, and does not
\* take a preview for a release; a release that is published again has at most one event for
\* each digest, and one without.
LedgerIsSound == LedgerIsTrue /\ OneEventPerDigest /\ OneEventMore /\ PreviewIsNoRelease
=============================================================================
