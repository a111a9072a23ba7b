---------------------------- MODULE Publish_proofs ----------------------------
(***************************************************************************)
(* Proofs about the two commands that put charts out: Publish, for any     *)
(* number of invocations, charts, digests and requests, and Upgrade, for   *)
(* any updates and any number of runs and pull requests: every invariant   *)
(* that the runs check.                                                    *)
(*                                                                         *)
(* None of them is inductive.  What makes those of Publish so is what each *)
(* phase may rely on: that a run which pushes had prepared everything      *)
(* (Staged), that a row which says pushed is in the registry (Delivered),  *)
(* that the charts still to be recorded were pushed (Due), and that what a *)
(* finished run has no record of was lost (Recorded).                      *)
(*                                                                         *)
(* In Upgrade, no changelog is ahead of its version, so that a section of  *)
(* a bump is new (Chronological); a checkout is main with at most one bump *)
(* (Bumped), and how far finalize got with it follows from where the run   *)
(* is (Sound); what is on the branch was such a checkout (Branched).  What *)
(* a run may know follows from where it is (Asked), and what an event says *)
(* from what the branch proposed at that turn (Filed).  As long as runs do *)
(* not overlap, a run that read what was proposed before it cannot differ  *)
(* from the events of that turn (Told), and what is proposed is on record  *)
(* but while the run that may have pushed it still looks (Said).           *)
(***************************************************************************)
EXTENDS Publish, Upgrade, FiniteSetTheorems, TLAPS

Working == {"prepare", "push", "emit"}

\* A run that is under way was accepted, and prepares what is not yet prepared.
Staged(i) ==
  /\ pc[i] \in Working => Accepted(request[i])
  /\ pc[i] \in {"push", "emit"} => ~request[i].dry
  /\ pc[i] = "prepare" => \A c \in request[i].charts \ todo[i] : built[i][c] # None
  /\ pc[i] \in {"push", "emit"} => \A c \in request[i].charts : built[i][c] # None
  /\ (\E c \in Charts : rows[i][c] # Planned) => \A c \in request[i].charts : built[i][c] # None

\* A row that says pushed is about an artifact of the registry, and nothing is pushed
\* before the last archive is there.
Delivered(i) ==
  /\ pc[i] \in {"idle", "prepare"} => \A c \in Charts : ~rows[i][c].pushed
  /\ \A c \in Charts : rows[i][c].pushed =>
       /\ <<c, Target(request[i]), built[i][c]>> \in registry
       /\ rows[i][c].digest \in {built[i][c], None}

\* Every chart that is behind a run was pushed or failed, and only pushes are recorded.
Due(i) ==
  /\ pc[i] = "push" => \A c \in request[i].charts \ todo[i] : rows[i][c].ok => rows[i][c].pushed
  /\ pc[i] = "emit" => \A c \in todo[i] : rows[i][c].ok
  /\ pc[i] \in {"emit", "done"} /\ ~request[i].dry =>
       \A c \in request[i].charts : rows[i][c].ok => rows[i][c].pushed

\* What a run that records has behind it is in the ledger or lost.
Recorded(i) ==
  /\ pc[i] = "done" /\ ~request[i].dry => todo[i] = {}
  /\ pc[i] \in {"emit", "done"} /\ ~request[i].dry =>
       \A c \in request[i].charts :
         rows[i][c].ok /\ c \notin todo[i] /\ c \notin lost[i] =>
           \E e \in ledger : e.id = EventOf(i, c).id

\* An event says what it is the event of, and no two are of one push.
Keyed ==
  /\ \A e \in ledger : e.id = <<"key", <<e.phase, e.chart, e.version, e.detail>>>>
  /\ \A e, f \in ledger : e.id = f.id => e = f

IInv ==
  /\ TypeOK
  /\ \A i \in Invocations : Staged(i) /\ Delivered(i) /\ Due(i) /\ Recorded(i)
  /\ Keyed
  /\ LedgerIsTrue
  /\ PreviewIsNoRelease
  /\ IsFiniteSet(registry)

-----------------------------------------------------------------------------
(***************************************************************************)
(* The request, the event and the write.                                   *)
(***************************************************************************)

\* A request names charts of the workspace.
LEMMA RequestType ==
  ASSUME NEW q \in Requests
  PROVE  /\ q.charts \subseteq Charts
         /\ q.dry \in BOOLEAN /\ q.strict \in BOOLEAN
<1>1. q \in [charts : SUBSET Charts, version : BOOLEAN, suffix : BOOLEAN,
              kind : {"inferred", "preview", "release"}, dry : BOOLEAN, strict : BOOLEAN]
  BY PublishAssumption
<1>. QED
  BY <1>1

\* Target: one of the three ways to settle a version.
LEMMA TargetType == ASSUME NEW q PROVE Target(q) \in Versions
  BY DEF Target, Versions

\* Accepted: no suffix goes with a release.
LEMMA SuffixIsPreview ==
  ASSUME NEW q \in Requests, Accepted(q), Target(q) = "suffixed"
  PROVE  Phase(q) = "preview_published"
<1>1. q.suffix /\ q.kind \in {"inferred", "preview", "release"}
  BY PublishAssumption DEF Target
<1>. QED
  BY <1>1 DEF Accepted, Phase, Kind

\* compose_build: an event of a push has the identity of its artifact.
LEMMA EventFields ==
  ASSUME NEW i, NEW c
  PROVE  /\ EventOf(i, c).id = <<"key", Key(i, c)>>
         /\ EventOf(i, c).chart = c
         /\ EventOf(i, c).version = Target(request[i])
         /\ EventOf(i, c).phase = Phase(request[i])
         /\ EventOf(i, c).detail = rows[i][c].digest
  BY DEF EventOf, Event, Key, NoKey

\* An upsert keeps every identity that was stored, adds its own, and brings no other event.
LEMMA WriteKeeps ==
  ASSUME NEW docs, NEW event, NEW uuid
  PROVE  /\ event \in Write(docs, event, uuid)
         /\ \A d \in docs : \E e \in Write(docs, event, uuid) : e.id = d.id
         /\ \A d \in Write(docs, event, uuid) : d = event \/ (d \in docs /\ d.id # event.id)
  BY DEF Write

-----------------------------------------------------------------------------
(***************************************************************************)
(* The steps.  An action of a run i leaves the other runs as they were,    *)
(* except that what they rely on of the registry and the ledger stays.     *)
(***************************************************************************)

\* The state of one run.
Local(i) == <<pc[i], request[i], todo[i], built[i], rows[i], lost[i]>>

\* What any step leaves alone: every other run, and every artifact and identity stored.
Frame(i) ==
  /\ \A j \in Invocations \ {i} : Local(j)' = Local(j)
  /\ request' = request
  /\ registry \subseteq registry'
  /\ \A d \in ledger : \E e \in ledger' : e.id = d.id

\* The work of a phase is part of the request.
LEMMA EnterType ==
  ASSUME TypeOK, NEW i \in Invocations, NEW label, NEW charts \in SUBSET request[i].charts,
         label \in {"prepare", "push", "emit"}, Enter(i, label, charts), request' = request
  PROVE  /\ pc' \in [Invocations -> {"idle", "prepare", "push", "emit", "done", "refused",
                                    "aborted", "killed"}]
         /\ todo' \in [Invocations -> SUBSET Charts]
         /\ \A j \in Invocations : todo'[j] \subseteq request'[j].charts
<1>1. request[i].charts \subseteq Charts
  BY RequestType DEF TypeOK
<1>2. charts \in SUBSET Charts
  BY <1>1
<1>3. pc' = [pc EXCEPT ![i] = label] /\ todo' = [todo EXCEPT ![i] = charts]
  BY DEF Enter, GoTo
<1>. QED
  BY <1>2, <1>3 DEF TypeOK

LEMMA StepType ==
  ASSUME TypeOK, NEW i \in Invocations, Staged(i), Publishing(i)
  PROVE  TypeOK'
<1>1. CASE Start(i)
  <2>1. CASE Accepted(request[i])
    <3>1. Enter(i, "prepare", request[i].charts) /\ request' = request
      BY <1>1, <2>1 DEF Start
    <3>. QED
      BY <1>1, <3>1, EnterType DEF Start, TypeOK
  <2>2. CASE ~Accepted(request[i])
    BY <1>1, <2>2 DEF Start, TypeOK, GoTo
  <2>. QED
    BY <2>1, <2>2
<1>2. CASE Prepare(i)
  <2>1. CASE pc' = [pc EXCEPT ![i] = "aborted"] /\ UNCHANGED <<todo, built>>
    BY <1>2, <2>1 DEF Prepare, TypeOK
  <2>2. ASSUME NEW c \in todo[i], NEW d \in Digests, built' = [built EXCEPT ![i][c] = d],
               todo' = [todo EXCEPT ![i] = @ \ {c}], UNCHANGED pc
        PROVE  TypeOK'
    <3>1. built' \in [Invocations -> [Charts -> Digests \union {None}]]
      BY <2>2 DEF TypeOK
    <3>2. todo' \in [Invocations -> SUBSET Charts]
      BY <2>2 DEF TypeOK
    <3>3. \A j \in Invocations : todo'[j] \subseteq todo[j]
      BY <2>2 DEF TypeOK
    <3>. QED
      BY <1>2, <2>2, <3>1, <3>2, <3>3 DEF Prepare, TypeOK
  <2>. QED
    BY <1>2, <2>1, <2>2 DEF Prepare, GoTo
<1>3. CASE Prepared(i)
  <2>1. CASE request[i].dry
    BY <1>3, <2>1 DEF Prepared, TypeOK, GoTo
  <2>2. CASE ~request[i].dry
    <3>1. Enter(i, "push", request[i].charts) /\ request' = request
      BY <1>3, <2>2 DEF Prepared
    <3>. QED
      BY <1>3, <3>1, EnterType DEF Prepared, TypeOK
  <2>. QED
    BY <2>1, <2>2
<1>4. CASE Push(i)
  <2>1. PICK c \in todo[i] :
          /\ todo' = [todo EXCEPT ![i] = @ \ {c}]
          /\ Store(i, c) \/ UNCHANGED <<registry, tags>>
          /\ \/ \E d \in {built[i][c], None} :
                  rows' = [rows EXCEPT ![i][c] = [ok |-> TRUE, pushed |-> TRUE, digest |-> d]]
             \/ rows' = [rows EXCEPT ![i][c] = Failed]
    BY <1>4 DEF Push
  <2>2. c \in Charts /\ c \in request[i].charts
    BY DEF TypeOK
  <2>3. built[i][c] \in Digests
    BY <1>4, <2>2 DEF TypeOK, Staged, Push
  <2>4. todo' \in [Invocations -> SUBSET Charts]
    BY <2>1 DEF TypeOK
  <2>5. \A j \in Invocations : todo'[j] \subseteq todo[j]
    BY <2>1 DEF TypeOK
  <2>6. rows' \in [Invocations -> [Charts -> Rows]]
    <3>1. PICK r \in Rows : rows' = [rows EXCEPT ![i][c] = r]
      BY <2>1, <2>3 DEF Rows, Failed
    <3>. QED
      BY <2>2, <3>1 DEF TypeOK
  <2>7. Target(request[i]) \in Versions
    BY TargetType
  <2>8. tags' \in [Charts \X Versions -> Digests \union {None}]
    BY <2>1, <2>2, <2>3, <2>7 DEF Store, TypeOK
  <2>9. registry' \subseteq Charts \X Versions \X Digests
    BY <2>1, <2>2, <2>3, <2>7 DEF Store, TypeOK
  <2>. QED
    BY <1>4, <2>4, <2>5, <2>6, <2>8, <2>9 DEF Push, TypeOK
<1>5. CASE PushedAll(i)
  <2> DEFINE due == {c \in request[i].charts : rows[i][c].ok}
  <2>1. Enter(i, "emit", due) /\ request' = request
    BY <1>5 DEF PushedAll
  <2>. QED
    BY <1>5, <2>1, EnterType DEF PushedAll, TypeOK
<1>6. CASE Emit(i)
  <2>1. PICK c \in todo[i] :
          /\ todo' = [todo EXCEPT ![i] = @ \ {c}]
          /\ lost' \in {lost, [lost EXCEPT ![i] = @ \union {c}]}
    BY <1>6 DEF Emit
  <2>2. todo' \in [Invocations -> SUBSET Charts]
    BY <2>1 DEF TypeOK
  <2>3. \A j \in Invocations : todo'[j] \subseteq todo[j]
    BY <2>1 DEF TypeOK
  <2>4. lost' \in [Invocations -> SUBSET Charts]
    <3>1. c \in Charts
      BY DEF TypeOK
    <3>2. lost[i] \union {c} \in SUBSET Charts
      BY <3>1 DEF TypeOK
    <3>. QED
      BY <2>1, <3>2 DEF TypeOK
  <2>. QED
    BY <1>6, <2>2, <2>3, <2>4 DEF Emit, TypeOK
<1>7. CASE Finish(i)
  BY <1>7 DEF Finish, TypeOK, GoTo
<1>8. CASE Kill(i)
  BY <1>8 DEF Kill, TypeOK, GoTo
<1>. QED
  BY <1>1, <1>2, <1>3, <1>4, <1>5, <1>6, <1>7, <1>8 DEF Publishing

LEMMA StepFrame ==
  ASSUME TypeOK, NEW i \in Invocations, Publishing(i)
  PROVE  Frame(i)
<1> USE DEF TypeOK, Frame, Local, GoTo, Enter
<1>1. CASE Start(i)
  BY <1>1 DEF Start
<1>2. CASE Prepare(i)
  BY <1>2 DEF Prepare
<1>3. CASE Prepared(i)
  BY <1>3 DEF Prepared
<1>4. CASE Push(i)
  BY <1>4 DEF Push, Store
<1>5. CASE PushedAll(i)
  BY <1>5 DEF PushedAll
<1>6. CASE Emit(i)
  <2>1. PICK c \in todo[i] : ledger' \in {ledger, Write(ledger, EventOf(i, c), <<i, c>>)}
    BY <1>6 DEF Emit
  <2>2. \A d \in ledger : \E e \in ledger' : e.id = d.id
    BY <2>1, WriteKeeps
  <2>. QED
    BY <1>6, <2>2 DEF Emit
<1>7. CASE Finish(i)
  BY <1>7 DEF Finish
<1>8. CASE Kill(i)
  BY <1>8 DEF Kill
<1>. QED
  BY <1>1, <1>2, <1>3, <1>4, <1>5, <1>6, <1>7, <1>8 DEF Publishing

\* The invariant of the runs that did not move.
LEMMA OthersKeep ==
  ASSUME NEW i \in Invocations, Frame(i), NEW j \in Invocations \ {i},
         Staged(j), Delivered(j), Due(j), Recorded(j)
  PROVE  Staged(j)' /\ Delivered(j)' /\ Due(j)' /\ Recorded(j)'
<1>1. /\ pc'[j] = pc[j] /\ request'[j] = request[j] /\ todo'[j] = todo[j]
      /\ built'[j] = built[j] /\ rows'[j] = rows[j] /\ lost'[j] = lost[j]
  BY DEF Frame, Local
<1>2. Staged(j)' /\ Due(j)'
  BY <1>1 DEF Staged, Due
<1>3. Delivered(j)'
  BY <1>1 DEF Delivered, Frame
<1>4. \A c : EventOf(j, c)'.id = EventOf(j, c).id
  BY <1>1, EventFields DEF EventOf, Event, Key, NoKey
<1>5. Recorded(j)'
  BY <1>1, <1>4 DEF Recorded, Frame
<1>. QED
  BY <1>2, <1>3, <1>5

\* The invariant of the run that moves.
LEMMA MoverKeeps ==
  ASSUME TypeOK, NEW i \in Invocations, Publishing(i),
         Staged(i), Delivered(i), Due(i), Recorded(i)
  PROVE  Staged(i)' /\ Delivered(i)' /\ Due(i)' /\ Recorded(i)'
<1>0. request[i].charts \subseteq Charts /\ request[i].dry \in BOOLEAN
  BY RequestType DEF TypeOK
<1>1. CASE Start(i)
  <2>1. /\ UNCHANGED <<registry, ledger, request, built, rows, lost>>
        /\ \/ /\ pc'[i] = "prepare" /\ todo'[i] = request[i].charts /\ Accepted(request[i])
           \/ pc'[i] = "refused"
    BY <1>1 DEF Start, Enter, GoTo, TypeOK
  <2>2. pc[i] = "idle" /\ request'[i] = request[i] /\ built'[i] = built[i] /\ rows'[i] = rows[i]
    BY <1>1, <2>1 DEF Start
  <2>. QED
    BY <1>0, <2>1, <2>2 DEF Staged, Delivered, Due, Recorded, Working
<1>2. CASE Prepare(i)
  <2>1. /\ UNCHANGED <<registry, ledger, request, rows, lost>> /\ pc[i] = "prepare"
        /\ request'[i] = request[i] /\ rows'[i] = rows[i]
    BY <1>2 DEF Prepare
  <2>2. CASE pc'[i] = "aborted" /\ UNCHANGED <<todo, built>>
    <3>1. built'[i] = built[i]
      BY <2>2
    <3>. QED
      BY <2>1, <2>2, <3>1 DEF Staged, Delivered, Due, Recorded, Working
  <2>3. ASSUME NEW c \in todo[i], NEW d \in Digests, built' = [built EXCEPT ![i][c] = d],
               todo' = [todo EXCEPT ![i] = @ \ {c}], UNCHANGED pc
        PROVE  Staged(i)' /\ Delivered(i)' /\ Due(i)' /\ Recorded(i)'
    <3>1. c \in Charts /\ d # None /\ pc'[i] = "prepare" /\ todo'[i] = todo[i] \ {c}
      BY <2>1, <2>3, PublishAssumption DEF TypeOK
    <3>2. built'[i][c] = d /\ \A x \in Charts \ {c} : built'[i][x] = built[i][x]
      BY <2>3, <3>1 DEF TypeOK
    <3>3. \A x \in Charts : built[i][x] # None => built'[i][x] # None
      BY <3>1, <3>2
    <3>4. \A x \in request[i].charts \ todo'[i] : built'[i][x] # None
      BY <1>0, <2>1, <3>1, <3>2, <3>3 DEF Staged
    <3>5. Staged(i)'
      BY <1>0, <2>1, <3>1, <3>3, <3>4 DEF Staged, Working
    <3>. QED
      BY <2>1, <3>1, <3>5 DEF Delivered, Due, Recorded
  <2>. QED
    BY <1>2, <2>2, <2>3 DEF Prepare, GoTo, TypeOK
<1>3. CASE Prepared(i)
  <2>1. /\ UNCHANGED <<registry, ledger, request, built, rows, lost>>
        /\ pc[i] = "prepare" /\ todo[i] = {}
        /\ request'[i] = request[i] /\ built'[i] = built[i] /\ rows'[i] = rows[i]
        /\ \/ request[i].dry /\ pc'[i] = "done" /\ todo'[i] = {}
           \/ ~request[i].dry /\ pc'[i] = "push" /\ todo'[i] = request[i].charts
    BY <1>3 DEF Prepared, Enter, GoTo, TypeOK
  <2>. QED
    BY <1>0, <2>1 DEF Staged, Delivered, Due, Recorded, Working
<1>4. CASE Push(i)
  <2>1. PICK c \in todo[i] :
          /\ todo' = [todo EXCEPT ![i] = @ \ {c}]
          /\ \/ /\ Store(i, c)
                /\ \E d \in {built[i][c], None} :
                     rows' = [rows EXCEPT ![i][c] = [ok |-> TRUE, pushed |-> TRUE, digest |-> d]]
             \/ /\ Store(i, c) \/ UNCHANGED <<registry, tags>>
                /\ rows' = [rows EXCEPT ![i][c] = Failed]
    BY <1>4 DEF Push
  <2>2. /\ UNCHANGED <<ledger, pc, request, built, lost>> /\ pc[i] = "push"
        /\ pc'[i] = "push" /\ request'[i] = request[i] /\ built'[i] = built[i]
    BY <1>4 DEF Push
  <2>3. c \in Charts /\ todo'[i] = todo[i] \ {c}
    BY <1>0, <2>1 DEF TypeOK
  <2>4. \A x \in Charts \ {c} : rows'[i][x] = rows[i][x]
    BY <2>1, <2>3 DEF TypeOK
  <2>5. registry \subseteq registry'
    BY <2>1 DEF Store
  <2>6. \/ /\ <<c, Target(request[i]), built[i][c]>> \in registry'
           /\ rows'[i][c].ok /\ rows'[i][c].pushed
           /\ rows'[i][c].digest \in {built[i][c], None}
        \/ ~rows'[i][c].ok /\ ~rows'[i][c].pushed
    BY <2>1, <2>3 DEF TypeOK, Store, Failed
  <2>7. Staged(i)'
    BY <2>2 DEF Staged, Working
  <2>8. Delivered(i)'
    BY <2>2, <2>4, <2>5, <2>6 DEF Delivered
  <2>9. Due(i)'
    BY <1>0, <2>2, <2>3, <2>4, <2>6 DEF Due
  <2>. QED
    BY <2>2, <2>7, <2>8, <2>9 DEF Recorded
<1>5. CASE PushedAll(i)
  <2> DEFINE due == {c \in request[i].charts : rows[i][c].ok}
  <2>1. /\ UNCHANGED <<registry, ledger, request, built, rows, lost>>
        /\ pc[i] = "push" /\ todo[i] = {} /\ pc'[i] = "emit" /\ todo'[i] = due
        /\ request'[i] = request[i] /\ built'[i] = built[i] /\ rows'[i] = rows[i]
    BY <1>5 DEF PushedAll, Enter, GoTo, TypeOK
  <2>. QED
    BY <1>0, <2>1 DEF Staged, Delivered, Due, Recorded, Working
<1>6. CASE Emit(i)
  <2>1. PICK c \in todo[i] :
          /\ todo' = [todo EXCEPT ![i] = @ \ {c}]
          /\ \/ ledger' = Write(ledger, EventOf(i, c), <<i, c>>) /\ UNCHANGED lost
             \/ /\ ledger' \in {ledger, Write(ledger, EventOf(i, c), <<i, c>>)}
                /\ lost' = [lost EXCEPT ![i] = @ \union {c}]
    BY <1>6 DEF Emit
  <2>2. /\ UNCHANGED <<registry, pc, request, built, rows>> /\ pc[i] = "emit"
        /\ pc'[i] = "emit" /\ request'[i] = request[i] /\ built'[i] = built[i] /\ rows'[i] = rows[i]
    BY <1>6 DEF Emit
  <2>3. todo'[i] = todo[i] \ {c} /\ lost[i] \subseteq lost'[i]
    BY <2>1 DEF TypeOK
  <2>4. c \in lost'[i] \/ \E e \in ledger' : e.id = EventOf(i, c).id
    BY <2>1, WriteKeeps DEF TypeOK
  <2>5. \A d \in ledger : \E e \in ledger' : e.id = d.id
    BY <2>1, WriteKeeps
  <2>6. \A x : EventOf(i, x)'.id = EventOf(i, x).id
    BY <2>2 DEF EventOf, Event, Key, NoKey
  <2>7. Recorded(i)'
    BY <2>2, <2>3, <2>4, <2>5, <2>6 DEF Recorded
  <2>. QED
    BY <2>2, <2>3, <2>7 DEF Staged, Delivered, Due, Working
<1>7. CASE Finish(i)
  <2>1. /\ UNCHANGED <<registry, ledger, request, todo, built, rows, lost>>
        /\ pc[i] = "emit" /\ todo[i] = {} /\ pc'[i] = "done"
    BY <1>7 DEF Finish, GoTo, TypeOK
  <2>2. \A x : EventOf(i, x)'.id = EventOf(i, x).id
    BY <2>1 DEF EventOf, Event, Key, NoKey
  <2>3. Recorded(i)'
    BY <2>1, <2>2 DEF Recorded
  <2>. QED
    BY <2>1, <2>3 DEF Staged, Delivered, Due, Working
<1>8. CASE Kill(i)
  <2>1. /\ UNCHANGED <<registry, ledger, request, todo, built, rows, lost>>
        /\ pc[i] \notin {"idle"} /\ pc'[i] = "killed"
    BY <1>8 DEF Kill, GoTo, TypeOK
  <2>. QED
    BY <2>1 DEF Staged, Delivered, Due, Recorded, Working
<1>. QED
  BY <1>1, <1>2, <1>3, <1>4, <1>5, <1>6, <1>7, <1>8 DEF Publishing

\* The ledger: what a step adds is the event of a push that the registry has.
LEMMA LedgerKeeps ==
  ASSUME TypeOK, NEW i \in Invocations, Publishing(i),
         Staged(i), Delivered(i), Due(i), Keyed, LedgerIsTrue, PreviewIsNoRelease
  PROVE  Keyed' /\ LedgerIsTrue' /\ PreviewIsNoRelease'
<1>1. registry \subseteq registry'
  BY StepFrame DEF Frame
<1>2. CASE ledger' = ledger
  BY <1>1, <1>2 DEF Keyed, LedgerIsTrue, PreviewIsNoRelease
<1>3. CASE Emit(i) /\ ledger' # ledger
  <2>1. PICK c \in todo[i] : ledger' = Write(ledger, EventOf(i, c), <<i, c>>)
    BY <1>3 DEF Emit
  <2> DEFINE new == EventOf(i, c)
  <2>2. \A d \in ledger' : d = new \/ (d \in ledger /\ d.id # new.id)
    BY <2>1, WriteKeeps
  <2>3. /\ new.id = <<"key", <<new.phase, new.chart, new.version, new.detail>>>>
        /\ new.chart = c /\ new.version = Target(request[i])
        /\ new.phase = Phase(request[i]) /\ new.detail = rows[i][c].digest
    BY EventFields DEF Key
  <2>4. Keyed'
    <3> HIDE DEF new
    <3>. QED
      BY <2>2, <2>3 DEF Keyed
  <2>5. c \in request[i].charts /\ c \in Charts /\ request[i] \in Requests
    BY RequestType DEF TypeOK
  <2>6. rows[i][c].pushed
    BY <1>3, <2>5, RequestType DEF Due, Staged, Emit, TypeOK
  <2>7. /\ <<c, Target(request[i]), built[i][c]>> \in registry
        /\ rows[i][c].digest \in {built[i][c], None}
    BY <2>5, <2>6 DEF Delivered
  <2>8. Target(request[i]) \in Versions
    BY TargetType
  <2>9. LedgerIsTrue'
    <3>1. \E a \in registry : /\ a[1] = new.chart /\ a[2] = new.version
                              /\ new.detail \in {a[3], None}
      BY <2>3, <2>7
    <3>2. <<new.chart, new.version>> \in Charts \X Versions
      BY <2>3, <2>5, <2>8
    <3> HIDE DEF new
    <3>. QED
      BY <1>1, <2>2, <3>1, <3>2 DEF LedgerIsTrue
  <2>10. PreviewIsNoRelease'
    <3>1. Accepted(request[i])
      BY <1>3 DEF Staged, Emit, Working
    <3>2. new.version = "suffixed" => new.phase = "preview_published"
      BY <2>3, <2>5, <3>1, SuffixIsPreview
    <3> HIDE DEF new
    <3>. QED
      BY <2>2, <3>2 DEF PreviewIsNoRelease
  <2>. QED
    BY <2>4, <2>9, <2>10
<1>4. Emit(i) \/ ledger' = ledger
  BY DEF Publishing, Start, Prepare, Prepared, Push, PushedAll, Finish, Kill
<1>. QED
  BY <1>2, <1>3, <1>4

-----------------------------------------------------------------------------
(***************************************************************************)
(* The invariant.                                                          *)
(***************************************************************************)

LEMMA InitInvariant == Init => IInv
<1> SUFFICES ASSUME Init PROVE IInv
  OBVIOUS
<1>1. TypeOK
  <2>1. Planned \in Rows
    BY DEF Planned, Rows
  <2>. QED
    BY <2>1 DEF Init, TypeOK
<1>2. \A i \in Invocations : Staged(i) /\ Delivered(i) /\ Due(i) /\ Recorded(i)
  BY DEF Init, Staged, Delivered, Due, Recorded, Working, Planned
<1>3. Keyed /\ LedgerIsTrue /\ PreviewIsNoRelease
  BY DEF Init, Keyed, LedgerIsTrue, PreviewIsNoRelease
<1>4. IsFiniteSet(registry)
  BY FS_EmptySet DEF Init
<1>. QED
  BY <1>1, <1>2, <1>3, <1>4 DEF IInv

LEMMA NextInvariant == IInv /\ [Next]_vars => IInv'
<1> SUFFICES ASSUME IInv, [Next]_vars PROVE IInv'
  OBVIOUS
<1>1. CASE UNCHANGED vars
  <2>1. TypeOK' /\ Keyed' /\ LedgerIsTrue' /\ PreviewIsNoRelease'
    BY <1>1 DEF vars, IInv, TypeOK, Keyed, LedgerIsTrue, PreviewIsNoRelease
  <2>2. \A i \in Invocations : Staged(i)' /\ Delivered(i)' /\ Due(i)'
    BY <1>1 DEF vars, IInv, Staged, Delivered, Due
  <2>3. \A i \in Invocations : Recorded(i)'
    BY <1>1 DEF vars, IInv, Recorded, EventOf, Event, Key, NoKey
  <2>4. IsFiniteSet(registry')
    BY <1>1 DEF vars, IInv
  <2>. QED
    BY <2>1, <2>2, <2>3, <2>4 DEF IInv
<1>2. ASSUME NEW i \in Invocations, Publishing(i) PROVE IInv'
  <2>1. TypeOK'
    BY <1>2, StepType DEF IInv
  <2>2. \A j \in Invocations : Staged(j)' /\ Delivered(j)' /\ Due(j)' /\ Recorded(j)'
    BY <1>2, StepFrame, OthersKeep, MoverKeeps DEF IInv
  <2>3. Keyed' /\ LedgerIsTrue' /\ PreviewIsNoRelease'
    BY <1>2, LedgerKeeps DEF IInv
  <2>4. IsFiniteSet(registry')
    <3>1. registry' = registry \/ \E a : registry' = registry \union {a}
      BY <1>2 DEF Publishing, Start, Prepare, Prepared, Push, Store, PushedAll, Emit, Finish, Kill
    <3>. QED
      BY <3>1, FS_AddElement DEF IInv
  <2>. QED
    BY <2>1, <2>2, <2>3, <2>4 DEF IInv
<1>. QED
  BY <1>1, <1>2 DEF Next

LEMMA Invariant == Spec => []IInv
  BY InitInvariant, NextInvariant, PTL DEF Spec

-----------------------------------------------------------------------------
(***************************************************************************)
(* Theorems.                                                               *)
(***************************************************************************)

\* Every variable keeps its type, and a run works on what it was asked for.
THEOREM TypeIsInvariant == Spec => []TypeOK
<1>1. IInv => TypeOK
  BY DEF IInv
<1>. QED
  BY <1>1, Invariant, PTL

\* run(): whoever has pushed anything had prepared every chart of the request.
THEOREM PreparedBeforePushed == Spec => []NothingIsPushedUnprepared
<1>1. IInv => NothingIsPushedUnprepared
  BY DEF IInv, Staged, NothingIsPushedUnprepared
<1>. QED
  BY <1>1, Invariant, PTL

\* run() and compose_build: whatever the crashes, the failures and the overlaps, an event
\* is about an artifact that the registry stored.
THEOREM EventsAreOfArtifacts == Spec => []LedgerIsTrue
<1>1. IInv => LedgerIsTrue
  BY DEF IInv
<1>. QED
  BY <1>1, Invariant, PTL

\* Events that differ in their digests, each of an artifact, are no more than the artifacts;
\* one event may be without a digest.
LEMMA EventsAreFew ==
  ASSUME IInv, OneEventPerDigest, NEW c, NEW v, NEW phase
  PROVE  Cardinality(Events(c, v, phase)) <= Cardinality(Artifacts(c, v)) + 1
<1>1. PICK digested : digested = {e \in Events(c, v, phase) : e.detail # None}
  OBVIOUS
<1>2. PICK f : f = [e \in digested |-> <<c, v, e.detail>>]
  OBVIOUS
<1>3. IsFiniteSet(Artifacts(c, v))
  BY FS_Subset DEF IInv, Artifacts
<1>4. ASSUME NEW e \in digested PROVE <<c, v, e.detail>> \in Artifacts(c, v)
  <2>1. PICK a \in registry : a[1] = c /\ a[2] = v /\ e.detail \in {a[3], None}
    BY <1>1, <1>4 DEF IInv, LedgerIsTrue, Events
  <2>2. a \in Charts \X Versions \X Digests /\ e.detail = a[3]
    BY <1>1, <1>4, <2>1 DEF IInv, TypeOK
  <2>3. a = <<c, v, e.detail>>
    BY <2>1, <2>2
  <2>. QED
    BY <2>1, <2>3 DEF Artifacts
<1>5. f \in [digested -> Artifacts(c, v)]
  BY <1>2, <1>4
<1>6. ASSUME NEW d \in digested, NEW e \in digested, f[d] = f[e] PROVE d = e
  BY <1>1, <1>2, <1>6 DEF OneEventPerDigest, Events
<1>7. f \in Injection(digested, Artifacts(c, v))
  BY <1>5, <1>6 DEF Injection, IsInjective
<1>8. IsFiniteSet(digested) /\ Cardinality(digested) <= Cardinality(Artifacts(c, v))
  BY <1>3, <1>7, FS_Injection
<1>9. Cardinality(digested) \in Nat /\ Cardinality(Artifacts(c, v)) \in Nat
  BY <1>3, <1>8, FS_CardinalityType
<1>10. CASE Events(c, v, phase) = digested
  BY <1>8, <1>9, <1>10
<1>11. CASE Events(c, v, phase) # digested
  <2>1. PICK n \in Events(c, v, phase) : n \notin digested
    BY <1>1, <1>11
  <2>2. \A e \in Events(c, v, phase) : e \in digested \/ e = n
    BY <1>1, <2>1 DEF OneEventPerDigest, Events
  <2>3. Events(c, v, phase) = digested \union {n}
    BY <1>1, <2>1, <2>2
  <2>4. Cardinality(Events(c, v, phase)) = Cardinality(digested) + 1
    BY <1>8, <2>1, <2>3, FS_AddElement
  <2>. QED
    BY <1>8, <1>9, <2>4
<1>. QED
  BY <1>10, <1>11

\* compose_build: however many runs publish a release, a digest has one event, and an event
\* without a digest, which may be a second one of its artifact, is the only one of its kind.
THEOREM EventsAreCounted == Spec => [](OneEventPerDigest /\ OneEventMore)
<1>1. IInv => OneEventPerDigest
  BY DEF IInv, Keyed, OneEventPerDigest
<1>2. IInv => OneEventMore
  BY <1>1, EventsAreFew DEF OneEventMore
<1>. QED
  BY <1>1, <1>2, Invariant, PTL

\* exit_code: a run that ends well has stored every chart and, under --strict-events,
\* recorded every push.
THEOREM EndedWellIsOnRecord == Spec => []SuccessIsOnRecord
<1>1. IInv => SuccessIsOnRecord
  <2>. SUFFICES ASSUME IInv, NEW i \in Invocations, Succeeds(i), ~request[i].dry,
                       NEW c \in request[i].charts
                PROVE  /\ <<c, Target(request[i]), built[i][c]>> \in registry
                       /\ request[i].strict => \E e \in ledger : e.id = EventOf(i, c).id
    BY DEF SuccessIsOnRecord
  <2>1. c \in Charts
    BY RequestType DEF IInv, TypeOK
  <2>2. rows[i][c].ok /\ rows[i][c].pushed
    BY DEF IInv, Succeeds, Due
  <2>3. <<c, Target(request[i]), built[i][c]>> \in registry
    BY <2>1, <2>2 DEF IInv, Delivered
  <2>4. request[i].strict => \E e \in ledger : e.id = EventOf(i, c).id
    BY <2>2 DEF IInv, Succeeds, Recorded
  <2>. QED
    BY <2>3, <2>4
<1>. QED
  BY <1>1, Invariant, PTL

\* resolve_kind: what carries a preview suffix is never on record as released.
THEOREM SuffixedIsPreview == Spec => []PreviewIsNoRelease
<1>1. IInv => PreviewIsNoRelease
  BY DEF IInv
<1>. QED
  BY <1>1, Invariant, PTL

\* The ledger is right about every artifact that it speaks of, and speaks of a release once
\* for each digest that helm told, and once for the pushes of which it told none.
THEOREM LedgersAreSound == Spec => []LedgerIsSound
BY EventsAreOfArtifacts, EventsAreCounted, SuffixedIsPreview, PTL DEF LedgerIsSound

-----------------------------------------------------------------------------
(***************************************************************************)
(* Upgrade: the invariant.                                                 *)
(***************************************************************************)

\* What Renovate leaves in a checkout: sections of a changelog, and a version with its log.
Sections == [version : WrapperVersions, updates : SUBSET Updates]
Wrappers == [version : WrapperVersions, log : SUBSET Sections]

\* Where a run may be.
Steps == {"idle", "find", "prior", "renovate", "decide", "chart", "changelog", "finalized", "push",
          "lookup", "read", "emit", "over"}

\* The types of what everybody shares, of what a run knows, and of its checkout.
WorldTypes ==
  /\ upstream \subseteq Updates /\ main \in Wrappers
  /\ prs \in 0 .. MaxPRs /\ pr \in 0 .. prs /\ pushed \subseteq WrapperVersions /\ turn \in Nat
  /\ branch.pushed \in BOOLEAN

RunTypes ==
  /\ step \in [Runs -> Steps]
  /\ existing \in [Runs -> {Unknown} \union 0 .. prs] /\ current \in [Runs -> {Unknown} \union 0 .. prs]
  /\ prior \in [Runs -> {Unread} \union WrapperVersions]
  /\ proposed \in [Runs -> {Unread} \union WrapperVersions]
  /\ blind \in [Runs -> BOOLEAN] /\ seen \in [Runs -> Nat] /\ (\A p \in Runs : seen[p] <= turn)

CheckoutTypes ==
  /\ base \in [Runs -> Wrappers] /\ tree \in [Runs -> Wrappers]
  /\ applied \in [Runs -> SUBSET Updates] /\ told \in [Runs -> SUBSET Updates]
  /\ \A p \in Runs : told[p] \subseteq applied[p]

\* A changelog has no section of a version yet to come.
Older(v, w) == v[1] < w[1] \/ (v[1] = w[1] /\ v[2] <= w[2])
Chronological(w) == \A s \in w.log : Older(s.version, w.version)

\* One is the other, or that with one bump; but for the section of the bump, its log is as
\* before.
Bumped(t, b) ==
  \/ t = b
  \/ t.version \in Bumps(b.version) /\ {s \in t.log : s.version # t.version} = b.log

Grown(t, b) == Chronological(b) /\ Bumped(t, b)

\* A checkout b in which Renovate and finalize made t of it, on the way to a section.
Sound(st, b, t, section) ==
  /\ Grown(t, b)
  /\ st = "chart" => t.version \in {b.version, section.version}
  /\ st = "changelog" => t.version = section.version
  /\ st = "finalized" => t = Wrapper(section.version, b.log \union {section})

Checkouts == \A p \in Runs : Sound(step[p], base[p], tree[p], Section(p))

\* What is on the branch was made of what main was.
Branched ==
  /\ Chronological(main)
  /\ branch.pushed =>
       /\ branch.base \in Wrappers /\ branch.tree \in Wrappers /\ branch.told \subseteq Updates
       /\ Grown(branch.tree, branch.base) /\ branch.tree.version \in pushed
  /\ pr # NoPR => branch.pushed
  /\ FinalizedOnce

\* Where a run has yet to look for what Renovate left.
Before == {"idle", "find", "prior", "renovate", "decide", "chart", "changelog", "finalized", "push",
           "lookup"}

\* What a run that is where it is may have been told of the pull request before Renovate,
KnowsBefore(st, found, was, dark) ==
  /\ st \in {"idle", "find", "over"} => found = Unknown
  /\ st \in {"idle", "find", "prior", "over"} => was = Unread
  /\ st \in {"idle", "find", "prior", "over"} \/ found = NoPR \/ was # Unread \/ dark

\* and after.
KnowsAfter(st, found, is, at) ==
  /\ st \in Before \union {"over"} => found = Unknown
  /\ is = Unread \/ (st = "emit" /\ is \in pushed)
  /\ branch.pushed /\ at = turn /\ is # Unread => is = branch.tree.version

Asked ==
  \A p \in Runs :
    /\ KnowsBefore(step[p], existing[p], prior[p], blind[p])
    /\ KnowsAfter(step[p], current[p], proposed[p], seen[p])

\* An event is of a run that is over, and says what the branch proposed at that turn.
Filed ==
  /\ \A e \in events :
       /\ \E p \in Runs : e.id = <<"uuid", p>> /\ step[p] = "over"
       /\ e.version \in pushed /\ e.detail \in 1 .. prs
       /\ branch.pushed /\ seen[e.id[2]] = turn => e.version = branch.tree.version
  /\ \A e, f \in events : e.id = f.id => e = f

\* While runs do not overlap, the pull request of a run that found none has no event yet, and
\* what a run read before Renovate agrees with the events of that turn.
Told ==
  \A q \in Runs : \A e \in events :
    /\ existing[q] = NoPR => e.detail \notin {pr, current[q]}
    /\ prior[q] # Unread /\ seen[e.id[2]] = turn => prior[q] = e.version
    /\ prior[q] # Unread /\ step[q] = "emit" /\ seen[e.id[2]] = seen[q] => prior[q] = e.version

\* Where a run is when Renovate is over and no event is written.
Late == {"lookup", "read", "emit"}

OnRecord(v) == v \in unsaid \/ \E e \in events : e.version = v

\* While runs do not overlap, what is proposed is on record but while the run that may have
\* pushed it looks, and so is what a run read before Renovate.
Said ==
  /\ pr # NoPR /\ (\A q \in Runs : step[q] \notin Late) => OnRecord(branch.tree.version)
  /\ \A q \in Runs :
       /\ step[q] = "prior" /\ existing[q] \notin {Unknown, NoPR} /\ branch.pushed =>
            OnRecord(branch.tree.version)
       /\ prior[q] # Unread => OnRecord(prior[q])
       /\ step[q] \in {"read", "emit"} /\ current[q] = NoPR => pr = NoPR
       /\ step[q] = "emit" => seen[q] = turn

UpgradeIInv ==
  /\ WorldTypes /\ RunTypes /\ CheckoutTypes
  /\ Cardinality(Active) <= MaxActive
  /\ Checkouts /\ Branched /\ Asked /\ Filed /\ unsaid \subseteq pushed
  /\ MaxActive = 1 => Told /\ RerunIsSilent /\ Said

LEMMA UpgradeTypes ==
  ASSUME UpgradeIInv
  PROVE  UpgradeTypeOK
<1>1. main.version \in WrapperVersions /\ \A p \in Runs : base[p] \in Wrappers /\ tree[p] \in Wrappers
  BY DEF UpgradeIInv, WorldTypes, CheckoutTypes, Wrappers
<1>2. \A p \in Runs : base[p].version \in WrapperVersions /\ tree[p].version \in WrapperVersions
  BY <1>1 DEF Wrappers
<1>3. \A p \in Runs : seen[p] \in 0 .. turn
  BY DEF UpgradeIInv, RunTypes, WorldTypes
<1>. QED
  BY <1>1, <1>2, <1>3 DEF UpgradeTypeOK, UpgradeIInv, WorldTypes, RunTypes, CheckoutTypes

\* Versions go up by a bump.
LEMMA BumpsAreNewer ==
  ASSUME NEW v \in WrapperVersions, NEW w \in Bumps(v)
  PROVE  /\ w \in WrapperVersions /\ ~Older(w, v) /\ w # v /\ Older(w, w)
         /\ \A u \in WrapperVersions : Older(u, v) => Older(u, w) /\ u # w
BY DEF WrapperVersions, Bumps, Older

LEMMA TargetIsBump ==
  ASSUME NEW p \in Runs
  PROVE  TargetVersion(p) \in Bumps(base[p].version)
BY DEF TargetVersion, Bumps

\* What has grown by a bump is still in order.
LEMMA GrownIsChronological ==
  ASSUME NEW t \in Wrappers, NEW b \in Wrappers, Grown(t, b)
  PROVE  Chronological(t)
<1>1. CASE t = b
  BY <1>1 DEF Grown
<1>2. CASE t.version \in Bumps(b.version) /\ {s \in t.log : s.version # t.version} = b.log
  <2>1. ASSUME NEW s \in t.log PROVE Older(s.version, t.version)
    <3>1. s.version \in WrapperVersions /\ b.version \in WrapperVersions
      BY DEF Wrappers, Sections
    <3>2. CASE s.version = t.version
      BY <1>2, <3>1, <3>2, BumpsAreNewer
    <3>3. CASE s.version # t.version
      <4>1. s \in b.log
        BY <1>2, <3>3
      <4>2. Older(s.version, b.version)
        BY <4>1 DEF Grown, Chronological
      <4>. QED
        BY <1>2, <3>1, <4>2, BumpsAreNewer
    <3>. QED
      BY <3>2, <3>3
  <2>. QED
    BY <2>1 DEF Chronological
<1>. QED
  BY <1>1, <1>2 DEF Grown, Bumped

\* Sections of a bump are not of what came before.
LEMMA NoSectionOfBump ==
  ASSUME NEW b \in Wrappers, Chronological(b), NEW v \in Bumps(b.version)
  PROVE  {s \in b.log : s.version # v} = b.log
<1>1. \A s \in b.log : s.version \in WrapperVersions /\ Older(s.version, b.version)
  BY DEF Wrappers, Sections, Chronological
<1>2. b.version \in WrapperVersions
  BY DEF Wrappers
<1>. QED
  BY <1>1, <1>2, BumpsAreNewer

LEMMA FreshIsNew == Fresh \in Wrappers /\ Grown(Fresh, Fresh)
BY DEF Fresh, Wrapper, Wrappers, WrapperVersions, Sections, Grown, Chronological, Bumped

-----------------------------------------------------------------------------
(***************************************************************************)
(* Types.                                                                  *)
(***************************************************************************)

\* Nobody's knowledge of the world goes out of bounds.
LEMMA WorldGrows ==
  ASSUME UpgradeIInv, UpgradeNext
  PROVE  /\ WorldTypes' /\ prs <= prs' /\ turn <= turn' /\ pushed \subseteq pushed'
         /\ prs \in Nat /\ prs' \in Nat /\ turn' \in Nat
<1> USE UpgradeAssumption DEF WorldTypes
<1>1. WorldTypes /\ prs \in Nat /\ prs <= MaxPRs
  BY DEF UpgradeIInv
<1>2. ASSUME UNCHANGED world PROVE WorldTypes' /\ prs' = prs /\ turn' = turn /\ pushed' = pushed
  BY <1>1, <1>2 DEF world
<1>3. ASSUME NEW p \in Runs, PushBranch(p)
      PROVE  WorldTypes' /\ prs <= prs' /\ turn <= turn' /\ pushed \subseteq pushed'
  <2>1. upstream' = upstream /\ main' = main
    BY <1>3 DEF PushBranch
  <2>2. CASE UNCHANGED <<branch, pr, prs, pushed, turn>>
    BY <1>1, <2>1, <2>2
  <2>3. CASE branch' = NoBranch /\ pr' = NoPR /\ UNCHANGED <<prs, pushed, turn>>
    BY <1>1, <2>1, <2>3 DEF NoBranch, NoPR
  <2>4. CASE /\ pr # NoPR \/ prs < MaxPRs
             /\ branch' = [pushed |-> TRUE, base |-> base[p], tree |-> tree[p], told |-> told[p],
                           finalized |-> step[p] = "finalized"]
             /\ pushed' = pushed \union {tree[p].version}
             /\ turn' = IF branch.pushed /\ branch.tree.version = tree[p].version THEN turn ELSE turn + 1
             /\ IF pr = NoPR THEN pr' = prs + 1 /\ prs' = prs + 1 ELSE UNCHANGED <<pr, prs>>
    <3>1. tree[p].version \in WrapperVersions
      BY DEF UpgradeIInv, CheckoutTypes, Wrappers
    <3>2. branch'.pushed = TRUE
      BY <2>4
    <3>3. turn' \in Nat /\ turn <= turn'
      BY <1>1, <2>4
    <3>4. prs' \in 0 .. MaxPRs /\ pr' \in 0 .. prs' /\ prs <= prs'
      BY <1>1, <2>4
    <3>. QED
      BY <1>1, <2>1, <2>4, <3>1, <3>2, <3>3, <3>4
  <2>. QED
    BY <1>3, <2>2, <2>3, <2>4 DEF PushBranch
<1>4. ASSUME Others PROVE WorldTypes' /\ prs' = prs /\ turn' = turn /\ pushed' = pushed
  <2>1. CASE Released
    BY <1>1, <2>1 DEF Released
  <2>2. CASE Merged
    <3>1. branch.tree \in Wrappers
      BY <2>2 DEF Merged, UpgradeIInv, Branched
    <3>. QED
      BY <1>1, <2>2, <3>1 DEF Merged, NoBranch, NoPR
  <2>3. CASE Closed
    <3>1. branch'.pushed \in BOOLEAN
      <4>1. CASE branch' = branch
        BY <1>1, <4>1
      <4>2. CASE branch' = NoBranch
        BY <4>2 DEF NoBranch
      <4>. QED
        BY <2>3, <4>1, <4>2 DEF Closed
    <3>2. pr' \in 0 .. prs' /\ prs' = prs
      BY <1>1, <2>3 DEF Closed, NoPR
    <3>. QED
      BY <1>1, <2>3, <3>1, <3>2 DEF Closed
  <2>. QED
    BY <1>4, <2>1, <2>2, <2>3 DEF Others
<1>5. ASSUME NEW p \in Runs, Running(p), ~PushBranch(p) PROVE UNCHANGED world
  BY <1>5 DEF Running, StartRun, FindExisting, ReadPrior, Renovate, Decide, WriteChart,
             WriteChangelog,
     FinalizeFails, FindCurrent, ReadProposed, EmitPrOpen, world
<1>6. ASSUME NEW p \in Runs, KillRun(p) PROVE UNCHANGED world
  BY <1>6 DEF KillRun
<1>7. WorldTypes' /\ prs <= prs' /\ turn <= turn' /\ pushed \subseteq pushed'
  BY <1>1, <1>2, <1>3, <1>4, <1>5, <1>6 DEF UpgradeNext
<1>. QED
  BY <1>1, <1>7

\* What runs know keeps its type.
LEMMA RunTypesStay ==
  ASSUME UpgradeIInv, UpgradeNext
  PROVE  RunTypes'
<1>1. /\ prs <= prs' /\ turn <= turn' /\ prs \in Nat /\ prs' \in Nat /\ turn' \in Nat /\ turn \in Nat
      /\ pr \in 0 .. prs
  BY WorldGrows DEF UpgradeIInv, WorldTypes
<1>2. RunTypes /\ Unread \in {Unread} \union WrapperVersions
  BY DEF UpgradeIInv
<1>3. ASSUME NEW f \in [Runs -> {Unknown} \union 0 .. prs] PROVE f \in [Runs -> {Unknown} \union 0 .. prs']
  BY <1>1
<1>4. ASSUME UNCHANGED looking, NEW p \in Runs, NEW s \in Steps,
             step' = step \/ step' = [step EXCEPT ![p] = s]
      PROVE  RunTypes'
  BY <1>1, <1>2, <1>3, <1>4 DEF RunTypes, looking
<1>5. ASSUME NEW p \in Runs, Forget(p), step' = [step EXCEPT ![p] = "over"],
             Unreported(p) \/ UNCHANGED <<blind, seen>>
      PROVE  RunTypes'
  <2>1. /\ existing' \in [Runs -> {Unknown} \union 0 .. prs]
        /\ current' \in [Runs -> {Unknown} \union 0 .. prs]
        /\ prior' \in [Runs -> {Unread} \union WrapperVersions]
        /\ proposed' \in [Runs -> {Unread} \union WrapperVersions]
    BY <1>2, <1>5 DEF Forget, RunTypes
  <2>2. step' \in [Runs -> Steps]
    BY <1>2, <1>5 DEF RunTypes, Steps
  <2>3. blind' \in [Runs -> BOOLEAN]
    BY <1>2, <1>5 DEF RunTypes, Unreported
  <2>4. seen' \in [Runs -> Nat] /\ \A q \in Runs : seen'[q] <= turn'
    BY <1>1, <1>2, <1>5 DEF RunTypes, Unreported
  <2>. QED
    BY <1>3, <2>1, <2>2, <2>3, <2>4 DEF RunTypes
<1>6. ASSUME NEW p \in Runs, FindExisting(p) PROVE RunTypes'
  <2>1. existing' \in [Runs -> {Unknown} \union 0 .. prs]
    BY <1>1, <1>2, <1>6 DEF FindExisting, RunTypes
  <2>2. step' \in [Runs -> Steps] /\ blind' \in [Runs -> BOOLEAN]
    BY <1>2, <1>6 DEF FindExisting, Moves, RunTypes, Steps
  <2>. QED
    BY <1>1, <1>2, <1>3, <1>6, <2>1, <2>2 DEF FindExisting, RunTypes
<1>7. ASSUME NEW q \in {Unknown} \union 0 .. prs, NEW v \in Readable(q)
      PROVE  v \in {Unread} \union WrapperVersions
  <2>1. branch.pushed => branch.tree.version \in WrapperVersions
    BY DEF UpgradeIInv, Branched, Wrappers
  <2>. QED
    BY <1>7, <2>1 DEF Readable
<1>8. ASSUME NEW p \in Runs, ReadPrior(p) PROVE RunTypes'
  <2>1. PICK v \in Readable(existing[p]) :
          /\ prior' = [prior EXCEPT ![p] = v]
          /\ blind' = [blind EXCEPT ![p] = @ \/ (existing[p] # NoPR /\ v = Unread)]
    BY <1>8 DEF ReadPrior
  <2>2. prior' \in [Runs -> {Unread} \union WrapperVersions]
    BY <1>2, <1>7, <2>1 DEF RunTypes
  <2>3. blind' \in [Runs -> BOOLEAN]
    <3>1. PICK b \in BOOLEAN : b = (blind[p] \/ (existing[p] # NoPR /\ v = Unread))
      OBVIOUS
    <3>2. blind' = [blind EXCEPT ![p] = b]
      BY <2>1, <3>1
    <3>. QED
      BY <1>2, <3>2 DEF RunTypes
  <2>4. step' \in [Runs -> Steps]
    BY <1>2, <1>8 DEF ReadPrior, Moves, RunTypes, Steps
  <2>. QED
    BY <1>1, <1>2, <1>3, <1>8, <2>2, <2>3, <2>4 DEF ReadPrior, RunTypes
<1>9. ASSUME NEW p \in Runs, FindCurrent(p) PROVE RunTypes'
  <2>1. current' \in [Runs -> {Unknown} \union 0 .. prs]
    BY <1>1, <1>2, <1>9 DEF FindCurrent, RunTypes
  <2>2. step' \in [Runs -> Steps]
    BY <1>2, <1>9 DEF FindCurrent, Moves, RunTypes, Steps
  <2>. QED
    BY <1>1, <1>2, <1>3, <1>9, <2>1, <2>2 DEF FindCurrent, RunTypes
<1>10. ASSUME NEW p \in Runs, ReadProposed(p) PROVE RunTypes'
  <2>1. PICK v \in Readable(current[p]) : proposed' = [proposed EXCEPT ![p] = v]
    BY <1>10 DEF ReadProposed
  <2>2. proposed' \in [Runs -> {Unread} \union WrapperVersions]
    BY <1>2, <1>7, <2>1 DEF RunTypes
  <2>3. step' \in [Runs -> Steps] /\ seen' = [seen EXCEPT ![p] = turn] /\ turn' = turn
    BY <1>2, <1>10 DEF ReadProposed, Moves, RunTypes, Steps, world
  <2>4. seen' \in [Runs -> Nat] /\ \A q \in Runs : seen'[q] <= turn'
    BY <1>1, <1>2, <2>3 DEF RunTypes
  <2>. QED
    BY <1>2, <1>3, <1>10, <2>2, <2>3, <2>4 DEF ReadProposed, RunTypes
<1>11. ASSUME NEW p \in Runs, StartRun(p) \/ Renovate(p) \/ Decide(p) \/ WriteChart(p) \/ WriteChangelog(p)
              \/ FinalizeFails(p)
       PROVE  RunTypes'
  <2>1. UNCHANGED looking /\ \E s \in Steps : step' = [step EXCEPT ![p] = s]
    BY <1>11 DEF StartRun, Renovate, Decide, WriteChart, WriteChangelog, FinalizeFails, Moves, Steps
  <2>. QED
    BY <1>4, <2>1
<1>12. ASSUME NEW p \in Runs, PushBranch(p) PROVE RunTypes'
  <2>1. CASE Moves(p, "lookup") /\ UNCHANGED looking
    BY <1>4, <2>1 DEF Moves, Steps
  <2>2. CASE Moves(p, "over") /\ Forget(p) /\ Unreported(p)
    BY <1>5, <2>2 DEF Moves
  <2>. QED
    BY <1>12, <2>1, <2>2 DEF PushBranch
<1>13. ASSUME NEW p \in Runs, EmitPrOpen(p) \/ KillRun(p) PROVE RunTypes'
  BY <1>5, <1>13 DEF EmitPrOpen, PutOnRecord, KillRun, Moves
<1>14. ASSUME Others PROVE RunTypes'
  <2>1. UNCHANGED looking /\ step' = step
    BY <1>14 DEF Others
  <2>. QED
    BY <1>1, <1>2, <1>3, <2>1 DEF RunTypes, looking
<1>. QED
  BY <1>6, <1>8, <1>9, <1>10, <1>11, <1>12, <1>13, <1>14 DEF UpgradeNext, Running

\* What runs have checked out keeps its type.
LEMMA CheckoutTypesStay ==
  ASSUME UpgradeIInv, UpgradeNext
  PROVE  CheckoutTypes'
<1>1. CheckoutTypes /\ main \in Wrappers /\ upstream \subseteq Updates
      /\ (branch.pushed => branch.tree \in Wrappers)
  BY DEF UpgradeIInv, WorldTypes, Branched
<1>2. ASSUME UNCHANGED checkout PROVE CheckoutTypes'
  BY <1>1, <1>2 DEF CheckoutTypes, checkout
<1>3. ASSUME NEW p \in Runs, Leave(p) PROVE CheckoutTypes'
  BY <1>1, <1>3, FreshIsNew DEF CheckoutTypes, Leave
<1>4. ASSUME NEW p \in Runs, Renovate(p) PROVE CheckoutTypes'
  <2>1. PICK from \in {main} \union (IF branch.pushed /\ branch.base = main THEN {branch.tree} ELSE {}) :
          tree' = [tree EXCEPT ![p] = from]
    BY <1>4 DEF Renovate
  <2>2. PICK known \in {upstream, upstream \intersect {"dependency"}} : told' = [told EXCEPT ![p] = known]
    BY <1>4 DEF Renovate
  <2>3. base' = [base EXCEPT ![p] = main] /\ applied' = [applied EXCEPT ![p] = upstream]
    BY <1>4 DEF Renovate
  <2>4. from \in Wrappers /\ known \subseteq upstream
    BY <1>1, <2>1, <2>2
  <2>5. base' \in [Runs -> Wrappers] /\ tree' \in [Runs -> Wrappers]
    BY <1>1, <2>1, <2>3, <2>4 DEF CheckoutTypes
  <2>6. /\ applied' \in [Runs -> SUBSET Updates] /\ told' \in [Runs -> SUBSET Updates]
        /\ \A q \in Runs : told'[q] \subseteq applied'[q]
    BY <1>1, <2>2, <2>3, <2>4 DEF CheckoutTypes
  <2>. QED
    BY <2>5, <2>6 DEF CheckoutTypes
<1>5. ASSUME NEW p \in Runs, NEW t \in Wrappers, tree' = [tree EXCEPT ![p] = t],
             UNCHANGED <<base, applied, told>>
      PROVE  CheckoutTypes'
  BY <1>1, <1>5 DEF CheckoutTypes
<1>6. ASSUME NEW p \in Runs, WriteChart(p) PROVE CheckoutTypes'
  <2>1. tree[p] \in Wrappers /\ base[p].version \in WrapperVersions
    BY <1>1 DEF CheckoutTypes, Wrappers
  <2>2. TargetVersion(p) \in WrapperVersions
    BY <2>1, BumpsAreNewer, TargetIsBump
  <2>3. PICK t : t = [tree[p] EXCEPT !.version = TargetVersion(p)]
    OBVIOUS
  <2>4. t \in Wrappers /\ tree' = [tree EXCEPT ![p] = t]
    BY <1>1, <1>6, <2>1, <2>2, <2>3 DEF WriteChart, Wrappers, CheckoutTypes
  <2>. QED
    BY <1>5, <1>6, <2>4 DEF WriteChart
<1>7. ASSUME NEW p \in Runs, WriteChangelog(p) PROVE CheckoutTypes'
  <2>1. tree[p] \in Wrappers /\ base[p].version \in WrapperVersions
    BY <1>1 DEF CheckoutTypes, Wrappers
  <2>2. TargetVersion(p) \in WrapperVersions
    BY <2>1, BumpsAreNewer, TargetIsBump
  <2>3. Section(p) \in Sections
    BY <1>1, <2>2 DEF Section, Sections, CheckoutTypes, Qualifying
  <2>4. Logged(p) \subseteq Sections
    BY <2>1, <2>3 DEF Logged, Wrappers
  <2>5. PICK t : t = [tree[p] EXCEPT !.log = Logged(p)]
    OBVIOUS
  <2>6. t \in Wrappers /\ tree' = [tree EXCEPT ![p] = t]
    BY <1>1, <1>7, <2>1, <2>4, <2>5 DEF WriteChangelog, Wrappers, CheckoutTypes
  <2>. QED
    BY <1>5, <1>7, <2>6 DEF WriteChangelog
<1>8. ASSUME NEW p \in Runs, StartRun(p) \/ FindExisting(p) \/ ReadPrior(p) \/ Decide(p) \/ FinalizeFails(p)
             \/ FindCurrent(p) \/ ReadProposed(p)
      PROVE  UNCHANGED checkout
  BY <1>8 DEF StartRun, FindExisting, ReadPrior, Decide, FinalizeFails, FindCurrent, ReadProposed, checkout
<1>9. ASSUME NEW p \in Runs, PushBranch(p) \/ EmitPrOpen(p) \/ KillRun(p) PROVE Leave(p)
  BY <1>9 DEF PushBranch, EmitPrOpen, KillRun, Forget
<1>10. Others => UNCHANGED checkout
  BY DEF Others
<1>. QED
  BY <1>2, <1>3, <1>4, <1>6, <1>7, <1>8, <1>9, <1>10 DEF UpgradeNext, Running

-----------------------------------------------------------------------------
(***************************************************************************)
(* finalize.                                                               *)
(***************************************************************************)

\* A section is of a bump.
LEMMA SectionIsOfBump ==
  ASSUME UpgradeIInv, NEW p \in Runs
  PROVE  /\ Section(p).version = TargetVersion(p) /\ Section(p).version \in Bumps(base[p].version)
         /\ Section(p).updates = Qualifying(told[p])
         /\ base[p] \in Wrappers /\ tree[p] \in Wrappers /\ TargetVersion(p) \in WrapperVersions
         /\ Grown(tree[p], base[p])
<1>1. base[p] \in Wrappers /\ tree[p] \in Wrappers /\ Grown(tree[p], base[p])
  BY DEF UpgradeIInv, CheckoutTypes, Checkouts, Sound
<1>2. base[p].version \in WrapperVersions
  BY <1>1 DEF Wrappers
<1>. QED
  BY <1>1, <1>2, TargetIsBump, BumpsAreNewer DEF Section

\* The first write.
LEMMA ChartIsWritten ==
  ASSUME NEW b \in Wrappers, NEW t \in Wrappers, Grown(t, b),
         NEW v \in Bumps(b.version), t.version \in {b.version, v}
  PROVE  Grown([t EXCEPT !.version = v], b)
<1>1. PICK u : u = [t EXCEPT !.version = v]
  OBVIOUS
<1>2. u.version = v /\ u.log = t.log
  BY <1>1 DEF Wrappers
<1>3. b.version \in WrapperVersions
  BY DEF Wrappers
<1>4. {s \in t.log : s.version # v} = b.log
  <2>1. CASE t = b
    BY <2>1, NoSectionOfBump DEF Grown
  <2>2. CASE t.version \in Bumps(b.version) /\ {s \in t.log : s.version # t.version} = b.log
    <3>1. t.version = v
      BY <1>3, <2>2, BumpsAreNewer
    <3>. QED
      BY <2>2, <3>1
  <2>. QED
    BY <2>1, <2>2 DEF Grown, Bumped
<1>5. {s \in u.log : s.version # u.version} = b.log
  BY <1>2, <1>4
<1>. QED
  BY <1>1, <1>2, <1>5 DEF Grown, Bumped

\* Without the sections of its own version, a checkout with a bump has the old changelog.
LEMMA OldChangelog ==
  ASSUME NEW b \in Wrappers, NEW t \in Wrappers, Grown(t, b), t.version \in Bumps(b.version)
  PROVE  {s \in t.log : s.version # t.version} = b.log
<1>1. b.version \in WrapperVersions
  BY DEF Wrappers
<1>2. t # b
  BY <1>1, BumpsAreNewer
<1>. QED
  BY <1>2 DEF Grown, Bumped

\* The second write.
LEMMA ChangelogIsWritten ==
  ASSUME NEW b \in Wrappers, Chronological(b), NEW v \in Bumps(b.version), NEW section, section.version = v
  PROVE  Grown(Wrapper(v, b.log \union {section}), b)
<1>1. PICK u : u = Wrapper(v, b.log \union {section})
  OBVIOUS
<1>2. u.version = v /\ u.log = b.log \union {section}
  BY <1>1 DEF Wrapper
<1>3. {s \in b.log : s.version # v} = b.log
  BY NoSectionOfBump
<1>4. {s \in u.log : s.version # u.version} = b.log
  BY <1>2, <1>3
<1>. QED
  BY <1>1, <1>2, <1>4 DEF Grown, Bumped

\* Whatever a checkout starts from, finalize makes at most one bump of it.
LEMMA CheckoutsStay ==
  ASSUME UpgradeIInv, UpgradeNext
  PROVE  Checkouts'
<1>1. Checkouts /\ CheckoutTypes /\ step \in [Runs -> Steps]
  BY DEF UpgradeIInv, RunTypes
<1>2. ASSUME NEW p \in Runs, NEW q \in Runs, q # p,
             step'[q] = step[q], base'[q] = base[q], tree'[q] = tree[q], told'[q] = told[q]
      PROVE  Sound(step[q], base[q], tree[q], Section(q))'
  BY <1>1, <1>2 DEF Checkouts, Sound, Section, TargetVersion
<1>3. ASSUME UNCHANGED checkout, NEW p \in Runs, NEW s \in Steps,
             s \notin {"chart", "changelog", "finalized"},
             step' = [step EXCEPT ![p] = s]
      PROVE  Checkouts'
  <2>1. Sound(step[p], base[p], tree[p], Section(p))'
    BY <1>1, <1>3 DEF Checkouts, Sound, checkout
  <2>2. ASSUME NEW q \in Runs, q # p PROVE Sound(step[q], base[q], tree[q], Section(q))'
    BY <1>1, <1>2, <1>3, <2>2 DEF checkout
  <2>. QED
    BY <2>1, <2>2 DEF Checkouts
<1>4. ASSUME NEW p \in Runs, Leave(p),
             step' = [step EXCEPT ![p] = "over"] \/ step' = [step EXCEPT ![p] = "lookup"]
      PROVE  Checkouts'
  <2>1. base'[p] = Fresh /\ tree'[p] = Fresh /\ step'[p] \in {"over", "lookup"}
    BY <1>1, <1>4 DEF Leave, CheckoutTypes
  <2>2. Sound(step[p], base[p], tree[p], Section(p))'
    BY <2>1, FreshIsNew DEF Sound
  <2>3. ASSUME NEW q \in Runs, q # p PROVE Sound(step[q], base[q], tree[q], Section(q))'
    <3>1. base'[q] = base[q] /\ tree'[q] = tree[q] /\ told'[q] = told[q] /\ step'[q] = step[q]
      BY <1>1, <1>4, <2>3 DEF Leave, CheckoutTypes
    <3>. QED
      BY <1>2, <2>3, <3>1
  <2>. QED
    BY <2>2, <2>3 DEF Checkouts
<1>5. ASSUME NEW p \in Runs, Renovate(p) PROVE Checkouts'
  <2>1. PICK from \in {main} \union (IF branch.pushed /\ branch.base = main THEN {branch.tree} ELSE {}) :
          tree' = [tree EXCEPT ![p] = from]
    BY <1>5 DEF Renovate
  <2>2. PICK known : told' = [told EXCEPT ![p] = known]
    BY <1>5 DEF Renovate
  <2>3. PICK s \in {"push", "decide"} : step' = [step EXCEPT ![p] = s]
    BY <1>5 DEF Renovate, Moves
  <2>4. base' = [base EXCEPT ![p] = main]
    BY <1>5 DEF Renovate
  <2>5. Grown(from, main)
    <3>1. CASE from = main
      BY <3>1 DEF Grown, Bumped, UpgradeIInv, Branched
    <3>2. CASE branch.pushed /\ branch.base = main /\ from = branch.tree
      BY <3>2 DEF UpgradeIInv, Branched
    <3>. QED
      BY <2>1, <3>1, <3>2
  <2>6. step'[p] = s /\ base'[p] = main /\ tree'[p] = from
    BY <1>1, <2>1, <2>3, <2>4 DEF CheckoutTypes
  <2>7. Sound(step[p], base[p], tree[p], Section(p))'
    BY <2>5, <2>6 DEF Sound
  <2>8. ASSUME NEW q \in Runs, q # p PROVE Sound(step[q], base[q], tree[q], Section(q))'
    <3>1. base'[q] = base[q] /\ tree'[q] = tree[q] /\ told'[q] = told[q] /\ step'[q] = step[q]
      BY <1>1, <2>1, <2>2, <2>3, <2>4, <2>8 DEF CheckoutTypes
    <3>. QED
      BY <1>2, <2>8, <3>1
  <2>. QED
    BY <2>7, <2>8 DEF Checkouts
<1>6. ASSUME NEW p \in Runs, Decide(p) PROVE Checkouts'
  <2>1. UNCHANGED checkout
    BY <1>6 DEF Decide
  <2>2. CASE step' = [step EXCEPT ![p] = "push"]
    BY <1>3, <2>1, <2>2 DEF Steps
  <2>3. CASE ~Refused(p) /\ Qualifying(told[p]) # {} /\ step' = [step EXCEPT ![p] = "chart"]
    <3>1. tree[p].version \in {base[p].version, Section(p).version} /\ Grown(tree[p], base[p])
      BY <2>3, SectionIsOfBump DEF Refused
    <3>2. step'[p] = "chart" /\ base' = base /\ tree' = tree /\ told' = told /\ Section(p)' = Section(p)
      BY <1>1, <2>1, <2>3 DEF checkout, Section, TargetVersion
    <3>3. Sound(step[p], base[p], tree[p], Section(p))'
      BY <3>1, <3>2 DEF Sound
    <3>4. ASSUME NEW q \in Runs, q # p PROVE Sound(step[q], base[q], tree[q], Section(q))'
      BY <1>1, <1>2, <2>3, <3>2, <3>4
    <3>. QED
      BY <3>3, <3>4 DEF Checkouts
  <2>. QED
    BY <1>6, <2>2, <2>3 DEF Decide, Moves
<1>7. ASSUME NEW p \in Runs, NEW t, NEW s \in {"changelog", "finalized"}, Sound(s, base[p], t, Section(p)),
             tree' = [tree EXCEPT ![p] = t], step' = [step EXCEPT ![p] = s],
             UNCHANGED <<base, applied, told>>
      PROVE  Checkouts'
  <2>1. tree'[p] = t /\ step'[p] = s /\ base' = base /\ told' = told /\ Section(p)' = Section(p)
    BY <1>1, <1>7 DEF CheckoutTypes, Section, TargetVersion
  <2>2. Sound(step[p], base[p], tree[p], Section(p))'
    BY <1>7, <2>1
  <2>3. ASSUME NEW q \in Runs, q # p PROVE Sound(step[q], base[q], tree[q], Section(q))'
    BY <1>1, <1>2, <1>7, <2>3 DEF CheckoutTypes
  <2>. QED
    BY <2>2, <2>3 DEF Checkouts
<1>8. ASSUME NEW p \in Runs, WriteChart(p) PROVE Checkouts'
  <2>1. PICK t : t = [tree[p] EXCEPT !.version = TargetVersion(p)]
    OBVIOUS
  <2>2. step[p] = "chart" /\ tree' = [tree EXCEPT ![p] = t] /\ step' = [step EXCEPT ![p] = "changelog"]
    BY <1>1, <1>8, <2>1 DEF WriteChart, Moves, CheckoutTypes
  <2>3. tree[p].version \in {base[p].version, Section(p).version}
    BY <1>1, <2>2 DEF Checkouts, Sound
  <2>4. Grown(t, base[p]) /\ t.version = Section(p).version
    BY <2>1, <2>3, SectionIsOfBump, ChartIsWritten DEF Wrappers
  <2>5. Sound("changelog", base[p], t, Section(p))
    BY <2>4 DEF Sound
  <2>. QED
    BY <1>7, <1>8, <2>2, <2>5 DEF WriteChart
<1>9. ASSUME NEW p \in Runs, WriteChangelog(p) PROVE Checkouts'
  <2>1. PICK t : t = [tree[p] EXCEPT !.log = Logged(p)]
    OBVIOUS
  <2>2. step[p] = "changelog" /\ tree' = [tree EXCEPT ![p] = t] /\ step' = [step EXCEPT ![p] = "finalized"]
    BY <1>1, <1>9, <2>1 DEF WriteChangelog, Moves, CheckoutTypes
  <2>3. tree[p].version = Section(p).version
    BY <1>1, <2>2 DEF Checkouts, Sound
  <2>4. Logged(p) = {s \in tree[p].log : s.version # Section(p).version} \union {Section(p)}
    BY SectionIsOfBump DEF Logged
  <2>5. Grown(t, base[p]) /\ t = Wrapper(Section(p).version, base[p].log \union {Section(p)})
    <3>1. {s \in tree[p].log : s.version # tree[p].version} = base[p].log
      BY <2>3, OldChangelog, SectionIsOfBump
    <3>2. Logged(p) = base[p].log \union {Section(p)}
      BY <2>3, <2>4, <3>1
    <3>3. t = Wrapper(Section(p).version, base[p].log \union {Section(p)})
      BY <2>1, <2>3, <3>2, SectionIsOfBump DEF Wrapper, Wrappers
    <3>4. Chronological(base[p])
      BY SectionIsOfBump DEF Grown
    <3>5. Grown(Wrapper(Section(p).version, base[p].log \union {Section(p)}), base[p])
      BY <3>4, SectionIsOfBump, ChangelogIsWritten
    <3>. QED
      BY <3>3, <3>5
  <2>6. Sound("finalized", base[p], t, Section(p))
    BY <2>5 DEF Sound
  <2>. QED
    BY <1>7, <1>9, <2>2, <2>6 DEF WriteChangelog
<1>10. ASSUME NEW p \in Runs, StartRun(p) \/ FindExisting(p) \/ ReadPrior(p) \/ FinalizeFails(p)
              \/ FindCurrent(p) \/ ReadProposed(p)
       PROVE  Checkouts'
  <2>1. UNCHANGED checkout
    BY <1>10 DEF StartRun, FindExisting, ReadPrior, FinalizeFails, FindCurrent, ReadProposed, checkout
  <2>2. \E s \in Steps \ {"chart", "changelog", "finalized"} : step' = [step EXCEPT ![p] = s]
    BY <1>10 DEF StartRun, FindExisting, ReadPrior, FinalizeFails, FindCurrent, ReadProposed, Moves, Steps
  <2>. QED
    BY <1>3, <2>1, <2>2
<1>11. ASSUME NEW p \in Runs, PushBranch(p) \/ EmitPrOpen(p) \/ KillRun(p) PROVE Checkouts'
  <2>1. Leave(p) /\ (step' = [step EXCEPT ![p] = "over"] \/ step' = [step EXCEPT ![p] = "lookup"])
    BY <1>11 DEF PushBranch, EmitPrOpen, KillRun, Forget, Moves
  <2>. QED
    BY <1>4, <2>1
<1>12. ASSUME Others PROVE Checkouts'
  <2>1. step' = step /\ base' = base /\ tree' = tree /\ told' = told
    BY <1>12 DEF Others, checkout
  <2>. QED
    BY <1>1, <2>1 DEF Checkouts, Sound, Section, TargetVersion
<1>. QED
  BY <1>5, <1>6, <1>8, <1>9, <1>10, <1>11, <1>12 DEF UpgradeNext, Running

\* What is pushed is what was checked out, and a branch that was finalized has one bump.
LEMMA BranchStays ==
  ASSUME UpgradeIInv, UpgradeNext
  PROVE  Branched'
<1>1. Branched /\ Chronological(main) /\ main \in Wrappers /\ pr \in Nat
  BY UpgradeAssumption DEF UpgradeIInv, Branched, WorldTypes
<1>2. ASSUME UNCHANGED <<main, branch, pr, pushed>> PROVE Branched'
  BY <1>1, <1>2 DEF Branched, FinalizedOnce
<1>3. ASSUME branch' = NoBranch, pr' = NoPR, Chronological(main)' PROVE Branched'
  BY <1>3 DEF Branched, NoBranch, FinalizedOnce
<1>4. ASSUME NEW p \in Runs, PushBranch(p) PROVE Branched'
  <2>1. main' = main
    BY <1>4 DEF PushBranch
  <2>2. CASE UNCHANGED <<branch, pr, prs, pushed, turn>>
    BY <1>2, <2>1, <2>2
  <2>3. CASE branch' = NoBranch /\ pr' = NoPR
    BY <1>1, <1>3, <2>1, <2>3
  <2>4. CASE /\ branch' = [pushed |-> TRUE, base |-> base[p], tree |-> tree[p], told |-> told[p],
                           finalized |-> step[p] = "finalized"]
             /\ pushed' = pushed \union {tree[p].version}
    <3>1. PICK done \in BOOLEAN : done = (step[p] = "finalized")
      OBVIOUS
    <3>2. branch' = [pushed |-> TRUE, base |-> base[p], tree |-> tree[p], told |-> told[p],
                       finalized |-> done]
      BY <2>4, <3>1
    <3>3. /\ branch'.pushed = TRUE /\ branch'.base = base[p] /\ branch'.tree = tree[p]
          /\ branch'.told = told[p] /\ branch'.finalized = done
      BY <3>2
    <3>4. told[p] \subseteq Updates /\ tree[p].version \in pushed'
      BY <2>4 DEF UpgradeIInv, CheckoutTypes
    <3>5. done => /\ tree[p] = Wrapper(Section(p).version, base[p].log \union {Section(p)})
                  /\ Section(p) = [version |-> Section(p).version, updates |-> Qualifying(told[p])]
      BY <3>1 DEF UpgradeIInv, Checkouts, Sound, Section
    <3>6. FinalizedOnce'
      BY <3>3, <3>5, SectionIsOfBump DEF FinalizedOnce
    <3>7. Chronological(main)'
      BY <1>1, <2>1
    <3>. QED
      BY <3>3, <3>4, <3>6, <3>7, SectionIsOfBump DEF Branched
  <2>. QED
    BY <1>4, <2>2, <2>3, <2>4 DEF PushBranch
<1>5. ASSUME Merged PROVE Branched'
  <2>1. Grown(branch.tree, branch.base) /\ branch.tree \in Wrappers /\ branch.base \in Wrappers
    BY <1>1, <1>5 DEF Merged, Branched
  <2>2. Chronological(branch.tree) /\ main' = branch.tree
    BY <1>5, <2>1, GrownIsChronological DEF Merged
  <2>3. Chronological(main)'
    BY <2>2
  <2>. QED
    BY <1>3, <1>5, <2>3 DEF Merged
<1>6. ASSUME Closed PROVE Branched'
  <2>1. CASE branch' = NoBranch
    BY <1>1, <1>3, <1>6, <2>1 DEF Closed
  <2>2. CASE branch' = branch
    <3>1. main' = main /\ pr' = NoPR /\ pushed' = pushed
      BY <1>6 DEF Closed
    <3>. QED
      BY <1>1, <2>2, <3>1 DEF Branched, FinalizedOnce
  <2>. QED
    BY <1>6, <2>1, <2>2 DEF Closed
<1>7. ASSUME Released PROVE Branched'
  BY <1>2, <1>7 DEF Released
<1>8. ASSUME NEW p \in Runs, Running(p), ~PushBranch(p) PROVE UNCHANGED <<main, branch, pr, pushed>>
  BY <1>8 DEF Running, StartRun, FindExisting, ReadPrior, Renovate, Decide, WriteChart,
             WriteChangelog,
     FinalizeFails, FindCurrent, ReadProposed, EmitPrOpen, world
<1>9. ASSUME NEW p \in Runs, KillRun(p) PROVE UNCHANGED <<main, branch, pr, pushed>>
  BY <1>9 DEF KillRun, world
<1>. QED
  BY <1>2, <1>4, <1>5, <1>6, <1>7, <1>8, <1>9 DEF UpgradeNext, Others

-----------------------------------------------------------------------------
(***************************************************************************)
(* How many runs there are.                                                *)
(***************************************************************************)

\* Runs are started one at a time, up to the bound.
LEMMA ActiveIsBounded ==
  ASSUME UpgradeIInv, UpgradeNext
  PROVE  (Cardinality(Active) <= MaxActive)'
<1>1. step \in [Runs -> Steps] /\ Cardinality(Active) <= MaxActive /\ MaxActive \in Nat
  BY UpgradeAssumption DEF UpgradeIInv, RunTypes
<1>2. IsFiniteSet(Active) /\ Cardinality(Active) \in Nat
  <2>1. IsFiniteSet(1 .. MaxRuns)
    BY UpgradeAssumption, FS_Interval
  <2>2. IsFiniteSet(Active)
    BY <2>1, FS_Subset DEF Active, Runs
  <2>. QED
    BY <2>2, FS_CardinalityType
<1>3. ASSUME Active' \subseteq Active PROVE Cardinality(Active') <= MaxActive
  <2>1. Cardinality(Active') <= Cardinality(Active) /\ IsFiniteSet(Active')
    BY <1>2, <1>3, FS_Subset
  <2>2. Cardinality(Active') \in Nat
    BY <2>1, FS_CardinalityType
  <2>. QED
    BY <1>1, <1>2, <2>1, <2>2
<1>4. ASSUME NEW p \in Runs, StartRun(p) PROVE Cardinality(Active') <= MaxActive
  <2>1. step[p] = "idle" /\ p \notin Active /\ Cardinality(Active) < MaxActive
    BY <1>4 DEF StartRun, Active
  <2>2. CASE step' = [step EXCEPT ![p] = "find"]
    <3>1. Active' = Active \union {p}
      BY <1>1, <2>2 DEF Active
    <3>2. Cardinality(Active') = Cardinality(Active) + 1
      BY <1>2, <2>1, <3>1, FS_AddElement
    <3>. QED
      BY <1>1, <1>2, <2>1, <3>2
  <2>3. CASE step' = [step EXCEPT ![p] = "over"]
    BY <1>1, <1>3, <2>3 DEF Active
  <2>. QED
    BY <1>4, <2>2, <2>3 DEF StartRun, Moves
<1>5. ASSUME NEW p \in Runs, Running(p), ~StartRun(p) PROVE Active' \subseteq Active
  <2>1. step[p] \notin {"idle", "over"} /\ \E s : step' = [step EXCEPT ![p] = s]
    BY <1>5 DEF Running, FindExisting, ReadPrior, Renovate, Decide, WriteChart,
             WriteChangelog,
       FinalizeFails, PushBranch, FindCurrent, ReadProposed, EmitPrOpen, Moves
  <2>. QED
    BY <1>1, <2>1 DEF Active
<1>6. ASSUME NEW p \in Runs, KillRun(p) PROVE Active' \subseteq Active
  BY <1>1, <1>6 DEF KillRun, Moves, Active
<1>7. ASSUME Others PROVE Active' \subseteq Active
  BY <1>7 DEF Others, Active
<1>. QED
  BY <1>3, <1>4, <1>5, <1>6, <1>7 DEF UpgradeNext

\* Where runs do not overlap, whoever is active is alone.
LEMMA Alone ==
  ASSUME UpgradeIInv, MaxActive = 1, NEW p \in Active, NEW q \in Active
  PROVE  p = q
<1>1. IsFiniteSet(1 .. MaxRuns)
  BY UpgradeAssumption, FS_Interval
<1>2. IsFiniteSet(Active)
  BY <1>1, FS_Subset DEF Active, Runs
<1>3. Cardinality(Active) <= 1
  BY DEF UpgradeIInv
<1>4. SUFFICES ASSUME p # q PROVE FALSE
  OBVIOUS
<1>5. /\ Cardinality({p}) = 1 /\ IsFiniteSet({p})
  BY FS_Singleton
<1>6. Cardinality({p} \union {q}) = Cardinality({p}) + 1
  BY <1>4, <1>5, FS_AddElement
<1>7. Cardinality({p} \union {q}) <= Cardinality(Active)
  BY <1>2, FS_Subset
<1>8. Cardinality(Active) \in Nat
  BY <1>2, FS_CardinalityType
<1>. QED
  BY <1>3, <1>5, <1>6, <1>7, <1>8

-----------------------------------------------------------------------------
(***************************************************************************)
(* What runs know.                                                         *)
(***************************************************************************)

\* A run leaves what the others know alone.
LEMMA OthersKnowTheSame ==
  ASSUME UpgradeIInv, NEW p \in Runs, Running(p) \/ KillRun(p), NEW q \in Runs, q # p
  PROVE  /\ step'[q] = step[q] /\ existing'[q] = existing[q] /\ prior'[q] = prior[q]
         /\ current'[q] = current[q] /\ proposed'[q] = proposed[q]
         /\ blind'[q] = blind[q] /\ seen'[q] = seen[q]
<1>1. RunTypes
  BY DEF UpgradeIInv
<1>2. CASE UNCHANGED looking /\ \E s : Moves(p, s)
  BY <1>1, <1>2 DEF RunTypes, looking, Moves
<1>3. CASE Forget(p) /\ (Unreported(p) \/ UNCHANGED <<blind, seen>>) /\ Moves(p, "over")
  BY <1>1, <1>3 DEF RunTypes, Forget, Unreported, Moves
<1>4. CASE FindExisting(p)
  BY <1>1, <1>4 DEF RunTypes, FindExisting, Moves
<1>5. CASE ReadPrior(p)
  BY <1>1, <1>5 DEF RunTypes, ReadPrior, Moves
<1>6. CASE FindCurrent(p)
  BY <1>1, <1>6 DEF RunTypes, FindCurrent, Moves
<1>7. CASE ReadProposed(p)
  BY <1>1, <1>7 DEF RunTypes, ReadProposed, Moves
<1>8. CASE StartRun(p) \/ Renovate(p) \/ Decide(p) \/ WriteChart(p) \/ WriteChangelog(p) \/ FinalizeFails(p)
  BY <1>2, <1>8 DEF StartRun, Renovate, Decide, WriteChart, WriteChangelog, FinalizeFails
<1>9. CASE PushBranch(p)
  BY <1>2, <1>3, <1>9 DEF PushBranch
<1>10. CASE EmitPrOpen(p) \/ KillRun(p)
  BY <1>3, <1>10 DEF EmitPrOpen, PutOnRecord, KillRun
<1>. QED
  BY <1>4, <1>5, <1>6, <1>7, <1>8, <1>9, <1>10 DEF Running

\* What is over stays so, with what its event rests on.
LEMMA OverIsOver ==
  ASSUME UpgradeIInv, UpgradeNext, NEW r \in Runs, step[r] = "over"
  PROVE  step'[r] = "over" /\ seen'[r] = seen[r] /\ blind'[r] = blind[r]
<1>1. ASSUME NEW p \in Runs, Running(p) \/ KillRun(p) PROVE p # r
  BY <1>1 DEF Running, KillRun, StartRun, FindExisting, ReadPrior, Renovate, Decide, WriteChart,
             WriteChangelog,
     FinalizeFails, PushBranch, FindCurrent, ReadProposed, EmitPrOpen, Active
<1>2. CASE Others
  BY <1>2 DEF Others, looking
<1>. QED
  BY <1>1, <1>2, OthersKnowTheSame DEF UpgradeNext

\* While nobody pushes another version, the branch keeps the one it has.
LEMMA TurnIsKept ==
  ASSUME UpgradeIInv, UpgradeNext, branch'.pushed, turn' = turn
  PROVE  branch.pushed /\ branch'.tree.version = branch.tree.version
<1>1. turn \in Nat /\ ~NoBranch.pushed
  BY DEF UpgradeIInv, WorldTypes, NoBranch
<1>2. CASE branch' = branch
  BY <1>2
<1>3. ASSUME NEW p \in Runs, PushBranch(p) PROVE branch.pushed /\ branch'.tree.version = branch.tree.version
  <2>1. CASE branch' = NoBranch
    BY <1>1, <2>1
  <2>2. CASE /\ branch' = [pushed |-> TRUE, base |-> base[p], tree |-> tree[p], told |-> told[p],
                           finalized |-> step[p] = "finalized"]
             /\ turn' = IF branch.pushed /\ branch.tree.version = tree[p].version THEN turn ELSE turn + 1
    <3>1. branch'.tree = tree[p]
      BY <2>2
    <3>2. branch.pushed /\ branch.tree.version = tree[p].version
      BY <1>1, <2>2
    <3>. QED
      BY <3>1, <3>2
  <2>. QED
    BY <1>2, <1>3, <2>1, <2>2 DEF PushBranch
<1>4. CASE Others
  BY <1>1, <1>2, <1>4 DEF Others, Released, Merged, Closed
<1>5. ASSUME NEW p \in Runs, Running(p), ~PushBranch(p) PROVE branch' = branch
  BY <1>5 DEF Running, StartRun, FindExisting, ReadPrior, Renovate, Decide, WriteChart,
             WriteChangelog,
     FinalizeFails, FindCurrent, ReadProposed, EmitPrOpen, world
<1>6. ASSUME NEW p \in Runs, KillRun(p) PROVE branch' = branch
  BY <1>6 DEF KillRun, world
<1>. QED
  BY <1>2, <1>3, <1>4, <1>5, <1>6 DEF UpgradeNext

\* What a run asks is answered at the time.
LEMMA AskedStays ==
  ASSUME UpgradeIInv, UpgradeNext
  PROVE  Asked'
<1>1. /\ RunTypes /\ Asked /\ pushed \subseteq pushed' /\ turn <= turn' /\ turn \in Nat /\ turn' \in Nat
      /\ \A p \in Runs : seen[p] \in Nat /\ seen[p] <= turn
  BY WorldGrows DEF UpgradeIInv, RunTypes, WorldTypes
<1>2. ASSUME NEW st, NEW found, NEW is, NEW at \in Nat, at <= turn, KnowsAfter(st, found, is, at)
      PROVE  KnowsAfter(st, found, is, at)'
  BY <1>1, <1>2, TurnIsKept DEF KnowsAfter
<1>3. ASSUME NEW q \in Runs, step'[q] = step[q], existing'[q] = existing[q], prior'[q] = prior[q],
             current'[q] = current[q], proposed'[q] = proposed[q], blind'[q] = blind[q], seen'[q] = seen[q]
      PROVE  /\ KnowsBefore(step'[q], existing'[q], prior'[q], blind'[q])
             /\ KnowsAfter(step[q], current[q], proposed[q], seen[q])'
  <2>1. KnowsBefore(step'[q], existing'[q], prior'[q], blind'[q])
    BY <1>1, <1>3 DEF Asked
  <2>2. KnowsAfter(step[q], current[q], proposed[q], seen[q])
    BY <1>1 DEF Asked
  <2>3. PICK st, found, is, at : st = step[q] /\ found = current[q] /\ is = proposed[q] /\ at = seen[q]
    OBVIOUS
  <2>5. at \in Nat /\ at <= turn
    BY <1>1, <2>3
  <2>4. KnowsAfter(st, found, is, at)'
    BY <1>2, <2>2, <2>3, <2>5
  <2>. QED
    BY <1>3, <2>1, <2>3, <2>4
<1>4. ASSUME NEW p \in Runs, Running(p) \/ KillRun(p)
      PROVE  /\ KnowsBefore(step'[p], existing'[p], prior'[p], blind'[p])
             /\ KnowsAfter(step[p], current[p], proposed[p], seen[p])'
  <2>1. KnowsBefore(step[p], existing[p], prior[p], blind[p])
        /\ KnowsAfter(step[p], current[p], proposed[p], seen[p])
    BY <1>1 DEF Asked
  <2>2. ASSUME UNCHANGED looking, NEW st, step' = [step EXCEPT ![p] = st],
               \/ step[p] = "idle" /\ st \in {"find", "over"}
               \/ {step[p], st} \subseteq Before \ {"idle", "find", "prior"}
        PROVE  /\ KnowsBefore(step'[p], existing'[p], prior'[p], blind'[p])
               /\ KnowsAfter(step[p], current[p], proposed[p], seen[p])'
    <3>1. step'[p] = st
      BY <1>1, <2>2 DEF RunTypes
    <3>2. KnowsBefore(st, existing[p], prior[p], blind[p])
      BY <2>1, <2>2 DEF KnowsBefore, Before
    <3>3. current[p] = Unknown /\ proposed[p] = Unread
      BY <2>1, <2>2 DEF KnowsAfter, Before
    <3>4. st \in Before \union {"over"}
      BY <2>2 DEF Before
    <3>. QED
      BY <2>2, <3>1, <3>2, <3>3, <3>4 DEF KnowsAfter, looking, Unknown
  <2>3. ASSUME Forget(p), step' = [step EXCEPT ![p] = "over"]
        PROVE  /\ KnowsBefore(step'[p], existing'[p], prior'[p], blind'[p])
               /\ KnowsAfter(step[p], current[p], proposed[p], seen[p])'
    <3>1. /\ step'[p] = "over" /\ existing'[p] = Unknown /\ prior'[p] = Unread
          /\ current'[p] = Unknown /\ proposed'[p] = Unread
      BY <1>1, <2>3 DEF RunTypes, Forget
    <3>. QED
      BY <3>1 DEF KnowsBefore, KnowsAfter, Unknown
  <2>4. CASE FindExisting(p)
    <3>1. step[p] = "find" /\ step'[p] = "prior" /\ prior' = prior
          /\ current' = current /\ proposed' = proposed
      BY <1>1, <2>4 DEF FindExisting, Moves, RunTypes
    <3>2. prior[p] = Unread /\ current[p] = Unknown /\ proposed[p] = Unread
      BY <2>1, <3>1 DEF KnowsBefore, KnowsAfter, Before
    <3>3. KnowsBefore(step'[p], existing'[p], prior'[p], blind'[p])
      BY <3>1, <3>2 DEF KnowsBefore
    <3>. QED
      BY <3>1, <3>2, <3>3 DEF KnowsAfter, Unknown
  <2>5. CASE ReadPrior(p)
    <3>1. PICK v : /\ prior' = [prior EXCEPT ![p] = v]
                   /\ blind' = [blind EXCEPT ![p] = @ \/ (existing[p] # NoPR /\ v = Unread)]
      BY <2>5 DEF ReadPrior
    <3>2. /\ step[p] = "prior" /\ step'[p] = "renovate" /\ existing' = existing /\ current' = current
          /\ proposed' = proposed
      BY <1>1, <2>5 DEF ReadPrior, Moves, RunTypes
    <3>3. prior'[p] = v /\ (existing[p] = NoPR \/ v # Unread \/ blind'[p])
      BY <1>1, <3>1 DEF RunTypes
    <3>4. current[p] = Unknown /\ proposed[p] = Unread
      BY <2>1, <3>2 DEF KnowsAfter, Before
    <3>5. KnowsBefore(step'[p], existing'[p], prior'[p], blind'[p])
      BY <3>2, <3>3 DEF KnowsBefore
    <3>. QED
      BY <3>2, <3>4, <3>5 DEF KnowsAfter, Unknown
  <2>6. CASE FindCurrent(p)
    <3>1. /\ step[p] = "lookup" /\ step'[p] = "read" /\ existing' = existing /\ prior' = prior
          /\ proposed' = proposed /\ blind' = blind
      BY <1>1, <2>6 DEF FindCurrent, Moves, RunTypes
    <3>2. proposed[p] = Unread
      BY <2>1, <3>1 DEF KnowsAfter
    <3>3. KnowsBefore(step'[p], existing'[p], prior'[p], blind'[p])
      BY <2>1, <3>1 DEF KnowsBefore
    <3>. QED
      BY <3>1, <3>2, <3>3 DEF KnowsAfter, Before
  <2>7. CASE ReadProposed(p)
    <3>1. PICK v \in Readable(current[p]) : proposed' = [proposed EXCEPT ![p] = v]
      BY <2>7 DEF ReadProposed
    <3>2. /\ step[p] = "read" /\ step'[p] = "emit" /\ existing' = existing /\ prior' = prior
          /\ blind' = blind /\ branch' = branch /\ pushed' = pushed
      BY <1>1, <2>7 DEF ReadProposed, Moves, RunTypes, world
    <3>3. proposed'[p] = v
      BY <1>1, <3>1 DEF RunTypes
    <3>4. v = Unread \/ (branch.pushed /\ v = branch.tree.version)
      BY <3>1 DEF Readable
    <3>5. branch.pushed => branch.tree.version \in pushed
      BY DEF UpgradeIInv, Branched
    <3>6. KnowsBefore(step'[p], existing'[p], prior'[p], blind'[p])
      BY <2>1, <3>2 DEF KnowsBefore
    <3>. QED
      BY <3>2, <3>3, <3>4, <3>5, <3>6 DEF KnowsAfter, Before
  <2>8. CASE StartRun(p) \/ Renovate(p) \/ Decide(p) \/ WriteChart(p) \/ WriteChangelog(p) \/ FinalizeFails(p)
    <3>1. UNCHANGED looking
      BY <2>8 DEF StartRun, Renovate, Decide, WriteChart, WriteChangelog, FinalizeFails
    <3>2. \E st : /\ step' = [step EXCEPT ![p] = st]
                  /\ \/ step[p] = "idle" /\ st \in {"find", "over"}
                     \/ {step[p], st} \subseteq Before \ {"idle", "find", "prior"}
      BY <2>8 DEF StartRun, Renovate, Decide, WriteChart, WriteChangelog, FinalizeFails, Moves, Before
    <3>. QED
      BY <2>2, <3>1, <3>2
  <2>9. CASE PushBranch(p)
    <3>1. CASE UNCHANGED looking /\ Moves(p, "lookup")
      <4>1. {step[p], "lookup"} \subseteq Before \ {"idle", "find", "prior"}
        BY <2>9 DEF PushBranch, Before
      <4>. QED
        BY <2>2, <3>1, <4>1 DEF Moves
    <3>2. CASE Forget(p) /\ Moves(p, "over")
      BY <2>3, <3>2 DEF Moves
    <3>. QED
      BY <2>9, <3>1, <3>2 DEF PushBranch
  <2>10. CASE EmitPrOpen(p) \/ KillRun(p)
    BY <2>3, <2>10 DEF EmitPrOpen, KillRun, Moves
  <2>. QED
    BY <1>4, <2>4, <2>5, <2>6, <2>7, <2>8, <2>9, <2>10 DEF Running
<1>5. ASSUME NEW p \in Runs, Running(p) \/ KillRun(p), NEW q \in Runs
      PROVE  /\ KnowsBefore(step'[q], existing'[q], prior'[q], blind'[q])
             /\ KnowsAfter(step[q], current[q], proposed[q], seen[q])'
  <2>1. CASE q = p
    BY <1>4, <1>5, <2>1
  <2>2. CASE q # p
    BY <1>3, <1>5, <2>2, OthersKnowTheSame
  <2>. QED
    BY <2>1, <2>2
<1>6. ASSUME Others, NEW q \in Runs
      PROVE  /\ KnowsBefore(step'[q], existing'[q], prior'[q], blind'[q])
             /\ KnowsAfter(step[q], current[q], proposed[q], seen[q])'
  <2>1. step' = step /\ UNCHANGED looking
    BY <1>6 DEF Others
  <2>. QED
    BY <1>3, <2>1 DEF looking
<1>7. ASSUME NEW q \in Runs
      PROVE  /\ KnowsBefore(step[q], existing[q], prior[q], blind[q])'
             /\ KnowsAfter(step[q], current[q], proposed[q], seen[q])'
  <2>1. KnowsBefore(step'[q], existing'[q], prior'[q], blind'[q])
    BY <1>5, <1>6 DEF UpgradeNext
  <2>2. KnowsAfter(step[q], current[q], proposed[q], seen[q])'
    BY <1>5, <1>6 DEF UpgradeNext
  <2>. QED
    BY <2>1, <2>2 DEF KnowsBefore, Unknown
<1>. QED
  BY <1>7 DEF Asked

-----------------------------------------------------------------------------
(***************************************************************************)
(* What the ledger tells.                                                  *)
(***************************************************************************)

\* A write leaves the ledger alone, or adds what its run proposes.
Adds(p, e) ==
  /\ EmitPrOpen(p) /\ Proposes(p) /\ prior[p] # proposed[p]
  /\ e.id = <<"uuid", p>> /\ e.version = proposed[p] /\ e.detail = current[p]
  /\ events' = {d \in events : d.id # e.id} \union {e}
  /\ blind' = blind /\ seen' = seen

LEMMA WhoWrites ==
  ASSUME UpgradeIInv, UpgradeNext
  PROVE  events' = events \/ \E p \in Runs : \E e : Adds(p, e)
<1>1. ASSUME NEW p \in Runs, EmitPrOpen(p) PROVE events' = events \/ \E e : Adds(p, e)
  <2>1. CASE events' = events
    BY <2>1
  <2>2. CASE /\ Proposes(p) /\ prior[p] # proposed[p]
             /\ events' = Write(events, Event("chart", proposed[p], "pr_open", Stamp(0, 0), current[p],
                                            NoKey, p), p)
             /\ UNCHANGED <<blind, seen>>
    <3>1. PICK e : e = Event("chart", proposed[p], "pr_open", Stamp(0, 0), current[p], NoKey, p)
      OBVIOUS
    <3>2. e.id = <<"uuid", p>> /\ e.version = proposed[p] /\ e.detail = current[p]
      BY <3>1 DEF Event
    <3>3. events' = {d \in events : d.id # e.id} \union {e}
      BY <2>2, <3>1 DEF Write
    <3>. QED
      BY <1>1, <2>2, <3>2, <3>3 DEF Adds
  <2>. QED
    BY <1>1, <2>1, <2>2 DEF EmitPrOpen, PutOnRecord
<1>2. ASSUME NEW p \in Runs, Running(p) \/ KillRun(p), ~EmitPrOpen(p) PROVE events' = events
  BY <1>2 DEF record, Running, KillRun, StartRun, FindExisting, ReadPrior, Renovate, Decide, WriteChart,
             WriteChangelog,
     FinalizeFails, PushBranch, FindCurrent, ReadProposed
<1>3. CASE Others
  BY <1>3 DEF Others, record
<1>. QED
  BY <1>1, <1>2, <1>3 DEF UpgradeNext

\* What a run adds was proposed by an open pull request, and nobody has added it before.
LEMMA WhatIsAdded ==
  ASSUME UpgradeIInv, NEW p \in Runs, NEW e, Adds(p, e)
  PROVE  /\ step[p] = "emit" /\ p \in Active /\ step'[p] = "over" /\ existing[p] # Unknown
         /\ e.version \in pushed /\ e.detail \in 1 .. prs /\ e.id[2] = p
         /\ branch.pushed /\ seen[p] = turn => e.version = branch.tree.version
         /\ events' = events \union {e} /\ (\A d \in events : d.id # e.id)
         /\ branch' = branch /\ pushed' = pushed /\ prs' = prs /\ turn' = turn /\ pr' = pr
<1>1. step[p] = "emit" /\ step'[p] = "over" /\ p \in Active
  BY DEF Adds, EmitPrOpen, Moves, UpgradeIInv, RunTypes, Active
<1>2. existing[p] # Unknown /\ current[p] # Unknown /\ current[p] # NoPR /\ proposed[p] # Unread
  BY DEF Adds, Proposes, Status
<1>3. e.detail \in 1 .. prs
  <2>1. current[p] \in 0 .. prs /\ prs \in Nat
    BY <1>2, UpgradeAssumption DEF UpgradeIInv, RunTypes, WorldTypes
  <2>. QED
    BY <1>2, <2>1 DEF Adds, NoPR
<1>4. KnowsAfter(step[p], current[p], proposed[p], seen[p])
  BY DEF UpgradeIInv, Asked
<1>5. \A d \in events : d.id # e.id
  <2>1. ASSUME NEW d \in events PROVE d.id # e.id
    <3>1. PICK r \in Runs : d.id = <<"uuid", r>> /\ step[r] = "over"
      BY DEF UpgradeIInv, Filed
    <3>2. r # p
      BY <1>1, <3>1
    <3>. QED
      BY <3>1, <3>2 DEF Adds
  <2>. QED
    BY <2>1
<1>6. events' = events \union {e}
  BY <1>5 DEF Adds
<1>7. UNCHANGED world /\ e.id[2] = p /\ e.version = proposed[p]
  BY DEF Adds, EmitPrOpen
<1>. QED
  BY <1>1, <1>2, <1>3, <1>4, <1>5, <1>6, <1>7 DEF KnowsAfter, world

LEMMA FiledStays ==
  ASSUME UpgradeIInv, UpgradeNext
  PROVE  Filed'
<1>1. /\ Filed /\ RunTypes /\ pushed \subseteq pushed' /\ prs <= prs' /\ prs \in Nat /\ prs' \in Nat
      /\ turn <= turn' /\ turn \in Nat /\ turn' \in Nat
  BY WorldGrows DEF UpgradeIInv, WorldTypes
<1>2. ASSUME NEW e \in events
      PROVE  /\ \E p \in Runs : e.id = <<"uuid", p>> /\ step'[p] = "over"
             /\ e.version \in pushed' /\ e.detail \in 1 .. prs'
             /\ branch'.pushed /\ seen'[e.id[2]] = turn' => e.version = branch'.tree.version
  <2>1. PICK r \in Runs : e.id = <<"uuid", r>> /\ step[r] = "over"
    BY <1>1 DEF Filed
  <2>2. e.id[2] = r /\ step'[r] = "over" /\ seen'[r] = seen[r] /\ seen[r] \in Nat /\ seen[r] <= turn
    BY <1>1, <2>1, OverIsOver DEF RunTypes
  <2>3. e.version \in pushed' /\ e.detail \in 1 .. prs'
    BY <1>1 DEF Filed
  <2>4. ASSUME branch'.pushed, seen'[r] = turn' PROVE e.version = branch'.tree.version
    <3>1. turn' = turn /\ seen[r] = turn
      BY <1>1, <2>2, <2>4
    <3>2. branch.pushed /\ branch'.tree.version = branch.tree.version
      BY <2>4, <3>1, TurnIsKept
    <3>. QED
      BY <1>1, <2>2, <3>1, <3>2 DEF Filed
  <2>. QED
    BY <2>1, <2>2, <2>3, <2>4
<1>3. CASE events' = events
  BY <1>1, <1>2, <1>3 DEF Filed
<1>4. ASSUME NEW p \in Runs, NEW n, Adds(p, n) PROVE Filed'
  <2>1. /\ \E q \in Runs : n.id = <<"uuid", q>> /\ step'[q] = "over"
        /\ n.version \in pushed' /\ n.detail \in 1 .. prs'
        /\ branch'.pushed /\ seen'[n.id[2]] = turn' => n.version = branch'.tree.version
    <3>1. n.id = <<"uuid", p>> /\ seen' = seen
      BY <1>4 DEF Adds
    <3>. QED
      BY <1>4, <3>1, WhatIsAdded
  <2>2. events' = events \union {n} /\ \A d \in events : d.id # n.id
    BY <1>4, WhatIsAdded
  <2>3. \A e, f \in events' : e.id = f.id => e = f
    BY <1>1, <2>2 DEF Filed
  <2>4. ASSUME NEW e \in events'
        PROVE  /\ \E q \in Runs : e.id = <<"uuid", q>> /\ step'[q] = "over"
               /\ e.version \in pushed' /\ e.detail \in 1 .. prs'
               /\ branch'.pushed /\ seen'[e.id[2]] = turn' => e.version = branch'.tree.version
    BY <1>2, <2>1, <2>2
  <2>. QED
    BY <2>3, <2>4 DEF Filed
<1>. QED
  BY <1>3, <1>4, WhoWrites

\* A pull request that a run finds after none is a new one.
LEMMA FoundIsNew ==
  ASSUME UpgradeIInv, UpgradeNext, Told, NEW q \in Runs, NEW e \in events, existing'[q] = NoPR
  PROVE  e.detail \notin {pr', current'[q]}
<1>1. /\ e.detail \in 1 .. prs /\ prs \in Nat /\ prs <= MaxPRs /\ MaxPRs \in Nat /\ pr \in Nat /\ RunTypes
      /\ KnowsBefore(step[q], existing[q], prior[q], blind[q])
      /\ KnowsAfter(step[q], current[q], proposed[q], seen[q])
  BY UpgradeAssumption DEF UpgradeIInv, Filed, WorldTypes, Asked
<1>2. e.detail # Unknown /\ e.detail # NoPR /\ Unknown # NoPR
  BY <1>1 DEF Unknown, NoPR
<1>3. existing[q] = NoPR => e.detail # pr /\ e.detail # current[q]
  BY DEF Told
<1>4. ASSUME pr' = pr \/ pr' = NoPR \/ pr' = prs + 1, existing[q] = NoPR, current'[q] = current[q]
      PROVE  e.detail \notin {pr', current'[q]}
  BY <1>1, <1>2, <1>3, <1>4
<1>5. ASSUME NEW p \in Runs, Running(p) \/ KillRun(p) PROVE pr' = pr \/ pr' = NoPR \/ pr' = prs + 1
  BY <1>5 DEF Running, KillRun, StartRun, FindExisting, ReadPrior, Renovate, Decide, WriteChart,
             WriteChangelog,
     FinalizeFails, PushBranch, FindCurrent, ReadProposed, EmitPrOpen, world
<1>6. ASSUME Others PROVE e.detail \notin {pr', current'[q]}
  <2>1. existing'[q] = existing[q] /\ current'[q] = current[q] /\ (pr' = pr \/ pr' = NoPR)
    BY <1>6 DEF Others, looking, Released, Merged, Closed
  <2>. QED
    BY <1>4, <2>1
<1>7. ASSUME NEW p \in Runs, p # q, Running(p) \/ KillRun(p) PROVE e.detail \notin {pr', current'[q]}
  BY <1>4, <1>5, <1>7, OthersKnowTheSame
<1>8. ASSUME Running(q) \/ KillRun(q) PROVE e.detail \notin {pr', current'[q]}
  <2>1. CASE Forget(q)
    BY <1>1, <1>2, <2>1 DEF Forget, RunTypes
  <2>2. CASE UNCHANGED looking
    BY <1>4, <1>5, <1>8, <2>2 DEF looking
  <2>3. CASE FindExisting(q)
    <3>1. step[q] = "find" /\ current' = current /\ pr' = pr /\ existing'[q] \in {pr, Unknown}
      BY <1>1, <2>3 DEF FindExisting, world, RunTypes
    <3>2. current[q] = Unknown /\ pr' = NoPR
      BY <1>1, <1>2, <3>1 DEF KnowsAfter, Before
    <3>. QED
      BY <1>2, <3>1, <3>2
  <2>4. CASE FindCurrent(q)
    <3>1. existing' = existing /\ pr' = pr /\ current'[q] \in {pr, Unknown}
      BY <1>1, <2>4 DEF FindCurrent, world, RunTypes
    <3>. QED
      BY <1>2, <1>3, <3>1
  <2>5. CASE ReadPrior(q) \/ ReadProposed(q)
    <3>1. existing' = existing /\ pr' = pr /\ current' = current
      BY <2>5 DEF ReadPrior, ReadProposed, world
    <3>. QED
      BY <1>4, <3>1
  <2>6. ASSUME Running(q) \/ KillRun(q), ~FindExisting(q), ~FindCurrent(q), ~ReadPrior(q), ~ReadProposed(q)
        PROVE  Forget(q) \/ UNCHANGED looking
    BY <2>6 DEF Running, KillRun, StartRun, Renovate, Decide, WriteChart, WriteChangelog, FinalizeFails,
       PushBranch, EmitPrOpen
  <2>. QED
    BY <1>8, <2>1, <2>2, <2>3, <2>4, <2>5, <2>6
<1>. QED
  BY <1>6, <1>7, <1>8 DEF UpgradeNext

\* What a run read before is what an event of the same turn says.
LEMMA PriorIsTold ==
  ASSUME UpgradeIInv, UpgradeNext, Told, NEW q \in Runs, NEW e \in events, prior'[q] # Unread
  PROVE  /\ seen'[e.id[2]] = turn' => prior'[q] = e.version
         /\ step'[q] = "emit" /\ seen'[e.id[2]] = seen'[q] => prior'[q] = e.version
<1>1. /\ RunTypes /\ turn <= turn' /\ turn \in Nat /\ turn' \in Nat
      /\ KnowsBefore(step[q], existing[q], prior[q], blind[q])
  BY WorldGrows DEF UpgradeIInv, WorldTypes, Asked
<1>2. PICK r \in Runs : e.id = <<"uuid", r>> /\ step[r] = "over"
  BY DEF UpgradeIInv, Filed
<1>3. e.id[2] = r /\ seen'[r] = seen[r] /\ seen[r] \in Nat /\ seen[r] <= turn
  BY <1>1, <1>2, OverIsOver DEF RunTypes
<1>4. /\ prior[q] # Unread /\ seen[r] = turn => prior[q] = e.version
      /\ prior[q] # Unread /\ step[q] = "emit" /\ seen[r] = seen[q] => prior[q] = e.version
  BY <1>3 DEF Told
<1>5. branch.pushed /\ seen[r] = turn => e.version = branch.tree.version
  BY <1>3 DEF UpgradeIInv, Filed
<1>6. ASSUME seen[r] = turn' PROVE turn' = turn
  BY <1>1, <1>3, <1>6
<1>7. ASSUME prior'[q] = prior[q], step'[q] = "emit" => step[q] = "emit" /\ seen'[q] = seen[q]
      PROVE  /\ seen[r] = turn' => prior'[q] = e.version
             /\ step'[q] = "emit" /\ seen[r] = seen'[q] => prior'[q] = e.version
  BY <1>4, <1>6, <1>7
<1>8. ASSUME Others
      PROVE  /\ seen[r] = turn' => prior'[q] = e.version
             /\ step'[q] = "emit" /\ seen[r] = seen'[q] => prior'[q] = e.version
  <2>1. prior' = prior /\ seen' = seen /\ step' = step
    BY <1>8 DEF Others, looking
  <2>. QED
    BY <1>7, <2>1
<1>9. ASSUME NEW p \in Runs, p # q, Running(p) \/ KillRun(p)
      PROVE  /\ seen[r] = turn' => prior'[q] = e.version
             /\ step'[q] = "emit" /\ seen[r] = seen'[q] => prior'[q] = e.version
  BY <1>7, <1>9, OthersKnowTheSame
<1>10. ASSUME Running(q) \/ KillRun(q)
       PROVE  /\ seen[r] = turn' => prior'[q] = e.version
              /\ step'[q] = "emit" /\ seen[r] = seen'[q] => prior'[q] = e.version
  <2>1. CASE Forget(q)
    BY <1>1, <2>1 DEF Forget, RunTypes
  <2>2. CASE ReadPrior(q)
    <3>1. PICK v \in Readable(existing[q]) : prior' = [prior EXCEPT ![q] = v]
      BY <2>2 DEF ReadPrior
    <3>2. prior'[q] = v /\ step'[q] = "renovate" /\ turn' = turn
      BY <1>1, <2>2, <3>1 DEF ReadPrior, Moves, RunTypes, world
    <3>3. branch.pushed /\ v = branch.tree.version
      BY <3>1, <3>2 DEF Readable
    <3>. QED
      BY <1>5, <3>2, <3>3
  <2>3. CASE ReadProposed(q)
    <3>1. prior' = prior /\ seen'[q] = turn /\ turn' = turn
      BY <1>1, <2>3 DEF ReadProposed, world, RunTypes
    <3>. QED
      BY <1>4, <3>1
  <2>4. CASE FindExisting(q) \/ FindCurrent(q)
    <3>1. prior' = prior /\ step'[q] # "emit"
      BY <1>1, <2>4 DEF FindExisting, FindCurrent, Moves, RunTypes
    <3>. QED
      BY <1>7, <3>1
  <2>5. CASE UNCHANGED looking /\ \E s \in Steps \ {"emit"} : step' = [step EXCEPT ![q] = s]
    <3>1. prior' = prior /\ step'[q] # "emit"
      BY <1>1, <2>5 DEF looking, RunTypes
    <3>. QED
      BY <1>7, <3>1
  <2>6. ASSUME StartRun(q) \/ Renovate(q) \/ Decide(q) \/ WriteChart(q) \/ WriteChangelog(q)
             \/ FinalizeFails(q)
        PROVE  UNCHANGED looking /\ \E s \in Steps \ {"emit"} : step' = [step EXCEPT ![q] = s]
    BY <2>6 DEF StartRun, Renovate, Decide, WriteChart, WriteChangelog, FinalizeFails, Moves, Steps
  <2>7. ASSUME PushBranch(q), ~Forget(q)
        PROVE  UNCHANGED looking /\ \E s \in Steps \ {"emit"} : step' = [step EXCEPT ![q] = s]
    BY <2>7 DEF PushBranch, Moves, Steps
  <2>8. EmitPrOpen(q) \/ KillRun(q) => Forget(q)
    BY DEF EmitPrOpen, KillRun
  <2>. QED
    BY <1>10, <2>1, <2>2, <2>3, <2>4, <2>5, <2>6, <2>7, <2>8 DEF Running
<1>11. /\ seen[r] = turn' => prior'[q] = e.version
       /\ step'[q] = "emit" /\ seen[r] = seen'[q] => prior'[q] = e.version
  BY <1>8, <1>9, <1>10 DEF UpgradeNext
<1>. QED
  BY <1>3, <1>11

LEMMA ToldStays ==
  ASSUME UpgradeIInv, UpgradeNext, MaxActive = 1, Told
  PROVE  Told'
<1>1. ASSUME NEW q \in Runs, NEW e \in events
      PROVE  /\ existing'[q] = NoPR => e.detail \notin {pr', current'[q]}
             /\ prior'[q] # Unread /\ seen'[e.id[2]] = turn' => prior'[q] = e.version
             /\ prior'[q] # Unread /\ step'[q] = "emit" /\ seen'[e.id[2]] = seen'[q] => prior'[q] = e.version
  BY FoundIsNew, PriorIsTold
<1>2. CASE events' = events
  BY <1>1, <1>2 DEF Told
<1>3. ASSUME NEW p \in Runs, NEW n, Adds(p, n) PROVE Told'
  <2>1. events' = events \union {n} /\ p \in Active
    BY <1>3, WhatIsAdded
  <2>2. ASSUME NEW q \in Runs PROVE existing'[q] # NoPR /\ prior'[q] = Unread
    <3>1. Unknown # NoPR /\ RunTypes /\ Running(p)
      BY <1>3, UpgradeAssumption DEF Unknown, NoPR, UpgradeIInv, Adds, Running
    <3>2. CASE q = p
      BY <1>3, <3>1, <3>2 DEF Adds, EmitPrOpen, Forget, RunTypes
    <3>3. CASE q # p
      <4>1. q \notin Active
        BY <2>1, <3>3, Alone
      <4>2. step[q] \in {"idle", "over"}
        BY <4>1 DEF Active
      <4>3. existing[q] = Unknown /\ prior[q] = Unread
        BY <4>2 DEF UpgradeIInv, Asked, KnowsBefore
      <4>. QED
        BY <3>1, <3>3, <4>3, OthersKnowTheSame
    <3>. QED
      BY <3>2, <3>3
  <2>. QED
    BY <2>2 DEF Told
<1>. QED
  BY <1>2, <1>3, WhoWrites

\* A run that adds an event of what has one could not see the other.
LEMMA AgainIsBlind ==
  ASSUME UpgradeIInv, Told, NEW p \in Runs, NEW n, Adds(p, n), NEW f \in events,
         n.version = f.version, n.detail = f.detail, seen[p] = seen[f.id[2]]
  PROVE  blind[p]
<1>1. /\ step[p] = "emit" /\ existing[p] # Unknown
      /\ n.version = proposed[p] /\ n.detail = current[p] /\ prior[p] # proposed[p]
  BY WhatIsAdded DEF Adds
<1>2. existing[p] # NoPR
  BY <1>1 DEF Told
<1>3. prior[p] # Unread \/ blind[p]
  BY <1>1, <1>2 DEF UpgradeIInv, Asked, KnowsBefore
<1>. QED
  BY <1>1, <1>3 DEF Told

LEMMA RerunStaysSilent ==
  ASSUME UpgradeIInv, UpgradeNext, MaxActive = 1, Told
  PROVE  RerunIsSilent'
<1>1. ASSUME NEW e \in events
      PROVE  seen'[e.id[2]] = seen[e.id[2]] /\ blind'[e.id[2]] = blind[e.id[2]]
  <2>1. PICK r \in Runs : e.id = <<"uuid", r>> /\ step[r] = "over"
    BY DEF UpgradeIInv, Filed
  <2>2. e.id[2] = r
    BY <2>1
  <2>. QED
    BY <2>1, <2>2, OverIsOver
<1>2. ASSUME NEW e \in events, NEW f \in events, e # f, e.version = f.version, e.detail = f.detail,
             seen'[e.id[2]] = seen'[f.id[2]]
      PROVE  blind'[e.id[2]] \/ blind'[f.id[2]]
  BY <1>1, <1>2 DEF UpgradeIInv, RerunIsSilent
<1>3. CASE events' = events
  BY <1>2, <1>3 DEF RerunIsSilent
<1>4. ASSUME NEW p \in Runs, NEW n, Adds(p, n) PROVE RerunIsSilent'
  <2>1. events' = events \union {n} /\ n.id[2] = p /\ seen' = seen /\ blind' = blind
    BY <1>4, WhatIsAdded DEF Adds
  <2>2. ASSUME NEW f \in events, n.version = f.version, n.detail = f.detail, seen[p] = seen[f.id[2]]
        PROVE  blind[p]
    BY <1>4, <2>2, AgainIsBlind
  <2>3. ASSUME NEW e \in events', NEW f \in events', e # f, e.version = f.version, e.detail = f.detail,
               seen'[e.id[2]] = seen'[f.id[2]]
        PROVE  blind'[e.id[2]] \/ blind'[f.id[2]]
    <3>1. CASE e \in events /\ f \in events
      BY <1>2, <2>3, <3>1
    <3>2. CASE e = n /\ f \in events
      BY <2>1, <2>2, <2>3, <3>2
    <3>3. CASE f = n /\ e \in events
      BY <2>1, <2>2, <2>3, <3>3
    <3>. QED
      BY <2>1, <2>3, <3>1, <3>2, <3>3
  <2>. QED
    BY <2>3 DEF RerunIsSilent
<1>. QED
  BY <1>3, <1>4, WhoWrites

\* Nothing is taken off the record, and what is added to it was pushed.
LEMMA RecordGrows ==
  ASSUME UpgradeIInv, UpgradeNext
  PROVE  /\ unsaid \subseteq unsaid' /\ unsaid' \subseteq pushed'
         /\ \A v : OnRecord(v) => OnRecord(v)'
<1>1. /\ unsaid \subseteq pushed /\ pushed \subseteq pushed' /\ (branch.pushed => branch.tree.version \in pushed)
  BY WorldGrows DEF UpgradeIInv, Branched
<1>2. branch'.pushed => branch'.tree.version \in pushed'
  BY BranchStays DEF Branched
<1>3. ASSUME NEW left, left.pushed => left.tree.version \in pushed', LeaveUnsaid(left)
      PROVE  unsaid \subseteq unsaid' /\ unsaid' \subseteq pushed'
  BY <1>1, <1>3 DEF LeaveUnsaid
<1>4. ASSUME UNCHANGED unsaid PROVE unsaid \subseteq unsaid' /\ unsaid' \subseteq pushed'
  BY <1>1, <1>4
<1>5. ASSUME NEW p \in Runs, EmitPrOpen(p) PROVE unsaid \subseteq unsaid' /\ unsaid' \subseteq pushed'
  <2>1. CASE Proposes(p) /\ unsaid' = unsaid \union {proposed[p]}
    <3>1. proposed[p] \in pushed
      BY <2>1 DEF UpgradeIInv, Asked, KnowsAfter, Proposes
    <3>. QED
      BY <1>1, <2>1, <3>1
  <2>. QED
    BY <1>1, <1>3, <1>4, <1>5, <2>1 DEF EmitPrOpen, PutOnRecord
<1>6. ASSUME NEW p \in Runs, KillRun(p) \/ PushBranch(p)
      PROVE  unsaid \subseteq unsaid' /\ unsaid' \subseteq pushed'
  BY <1>1, <1>2, <1>3, <1>4, <1>6 DEF KillRun, PushBranch
<1>7. ASSUME NEW p \in Runs, Running(p), ~EmitPrOpen(p), ~PushBranch(p) PROVE UNCHANGED unsaid
  BY <1>7 DEF Running, StartRun, FindExisting, ReadPrior, Renovate, Decide, WriteChart, WriteChangelog,
     FinalizeFails, FindCurrent, ReadProposed, record
<1>8. Others => UNCHANGED unsaid
  BY DEF Others, record
<1>9. unsaid \subseteq unsaid' /\ unsaid' \subseteq pushed'
  BY <1>4, <1>5, <1>6, <1>7, <1>8 DEF UpgradeNext
<1>10. events \subseteq events'
  <2>1. ASSUME NEW p \in Runs, NEW e, Adds(p, e) PROVE events \subseteq events'
    BY <2>1, WhatIsAdded
  <2>. QED
    BY <2>1, WhoWrites
<1>. QED
  BY <1>9, <1>10 DEF OnRecord

\* A run that is silent about the version that it reads has read it before.
LEMMA SilentOnWhatIsOnRecord ==
  ASSUME UpgradeIInv, Said, NEW p \in Runs, EmitPrOpen(p)
  PROVE  pr # NoPR => OnRecord(branch.tree.version)'
<1>1. ASSUME pr # NoPR PROVE OnRecord(branch.tree.version)'
  <2>1. branch.pushed /\ step[p] = "emit" /\ seen[p] = turn /\ current[p] # NoPR /\ branch' = branch
    BY <1>1 DEF UpgradeIInv, Branched, Said, EmitPrOpen, world
  <2>2. proposed[p] # Unread => proposed[p] = branch.tree.version
    BY <2>1 DEF UpgradeIInv, Asked, KnowsAfter
  <2>3. CASE Proposes(p) /\ PutOnRecord(p)
    <3>1. CASE unsaid' = unsaid \union {proposed[p]}
      BY <2>1, <2>2, <2>3, <3>1 DEF Proposes, OnRecord
    <3>2. CASE events' = Write(events, Event("chart", proposed[p], "pr_open", Stamp(0, 0), current[p], NoKey, p), p)
      <4>1. PICK e : e = Event("chart", proposed[p], "pr_open", Stamp(0, 0), current[p], NoKey, p)
        OBVIOUS
      <4>2. e \in events' /\ e.version = proposed[p]
        BY <3>2, <4>1 DEF Write, Event
      <4>. QED
        BY <2>1, <2>2, <2>3, <4>2 DEF Proposes, OnRecord
    <3>. QED
      BY <2>3, <3>1, <3>2 DEF PutOnRecord
  <2>4. CASE Proposes(p) /\ prior[p] = proposed[p] /\ UNCHANGED <<events, unsaid>>
    <3>1. OnRecord(prior[p]) /\ prior[p] = branch.tree.version
      BY <2>2, <2>4 DEF Said, Proposes
    <3>. QED
      BY <2>1, <2>4, <3>1 DEF OnRecord
  <2>5. CASE LeaveUnsaid(branch)
    BY <2>1, <2>5 DEF LeaveUnsaid, OnRecord
  <2>6. Status(p) # "no_changes"
    BY <2>1 DEF Status
  <2>. QED
    BY <2>3, <2>4, <2>5, <2>6 DEF EmitPrOpen
<1>. QED
  BY <1>1

\* What the run that is active knows of the record.
SaidTo(q) ==
  /\ step[q] = "prior" /\ existing[q] \notin {Unknown, NoPR} /\ branch.pushed => OnRecord(branch.tree.version)
  /\ prior[q] # Unread => OnRecord(prior[q])
  /\ step[q] \in {"read", "emit"} /\ current[q] = NoPR => pr = NoPR
  /\ step[q] = "emit" => seen[q] = turn

LEMMA SaidStays ==
  ASSUME UpgradeIInv, UpgradeNext, MaxActive = 1, Said
  PROVE  Said'
<1>1. RunTypes /\ Asked /\ Unknown # NoPR /\ (pr # NoPR => branch.pushed)
  BY UpgradeAssumption DEF UpgradeIInv, Unknown, NoPR, Branched
<1>2. ASSUME NEW v, OnRecord(v) PROVE OnRecord(v)'
  BY <1>2, RecordGrows
<1>3. \A q \in Runs : SaidTo(q)
  BY DEF Said, SaidTo
<1>4. ASSUME NEW q \in Runs, step'[q] \in {"idle", "over", "find"}, prior'[q] = Unread PROVE SaidTo(q)'
  BY <1>4 DEF SaidTo
<1>5. ASSUME NEW p \in Active, NEW q \in Runs, q # p
      PROVE  step[q] \in {"idle", "over"} /\ prior[q] = Unread
  <2>1. q \notin Active
    BY <1>5, Alone
  <2>. QED
    BY <1>1, <2>1 DEF Active, Asked, KnowsBefore
<1>6. ASSUME pr' # NoPR => OnRecord(branch.tree.version)', \A q \in Runs : SaidTo(q)' PROVE Said'
  BY <1>6 DEF Said, SaidTo
<1>7. ASSUME NEW p \in Runs, step'[p] \in Late, \A q \in Runs : SaidTo(q)' PROVE Said'
  BY <1>7 DEF Said, SaidTo
<1>8. CASE Others
  <2>1. step' = step /\ UNCHANGED looking /\ turn' = turn
    BY <1>8 DEF Others, Released, Merged, Closed
  <2>2. (pr' = pr /\ branch' = branch) \/ (pr' = NoPR /\ branch' \in {branch, NoBranch})
    BY <1>8 DEF Others, Released, Merged, Closed
  <2>3. ASSUME NEW q \in Runs PROVE SaidTo(q)'
    BY <1>2, <1>3, <2>1, <2>2 DEF SaidTo, looking, NoBranch
  <2>4. ASSUME pr' # NoPR, \A q \in Runs : step'[q] \notin Late PROVE OnRecord(branch.tree.version)'
    BY <1>2, <2>1, <2>2, <2>4 DEF Said
  <2>. QED
    BY <2>3, <2>4 DEF Said, SaidTo
<1>9. ASSUME NEW p \in Runs, Running(p) \/ KillRun(p), p \notin Active PROVE Said'
  <2>1. StartRun(p)
    BY <1>9 DEF Running, KillRun, FindExisting, ReadPrior, Renovate, Decide, WriteChart, WriteChangelog,
       FinalizeFails, PushBranch, FindCurrent, ReadProposed, EmitPrOpen, Active
  <2>2. step[p] = "idle" /\ UNCHANGED <<world, record, looking>> /\ \E s \in {"find", "over"} : Moves(p, s)
    BY <2>1 DEF StartRun
  <2>3. step'[p] \in {"find", "over"} /\ \A q \in Runs : q # p => step'[q] = step[q]
    BY <1>1, <2>2 DEF RunTypes, Moves
  <2>4. prior'[p] = Unread
    BY <1>1, <2>2 DEF Asked, KnowsBefore, looking
  <2>5. ASSUME NEW q \in Runs PROVE SaidTo(q)'
    BY <1>2, <1>3, <1>4, <2>2, <2>3, <2>4 DEF SaidTo, world, looking
  <2>6. (\A q \in Runs : step'[q] \notin Late) => \A q \in Runs : step[q] \notin Late
    BY <2>2, <2>3 DEF Late
  <2>7. pr' = pr /\ branch' = branch
    BY <2>2 DEF world
  <2>. QED
    BY <1>2, <2>5, <2>6, <2>7 DEF Said, SaidTo
<1>10. ASSUME NEW p \in Runs, Running(p) \/ KillRun(p), p \in Active, SaidTo(p)',
              \/ step'[p] \in Late
              \/ pr' # NoPR => OnRecord(branch.tree.version)'
       PROVE  Said'
  <2>1. ASSUME NEW q \in Runs PROVE SaidTo(q)'
    BY <1>4, <1>5, <1>10, OthersKnowTheSame
  <2>. QED
    BY <1>6, <1>7, <1>10, <2>1
<1>11. ASSUME NEW p \in Active, step[p] \notin Late PROVE pr # NoPR => OnRecord(branch.tree.version)
  BY <1>5, <1>11 DEF Said, Late
<1>12. ASSUME NEW p \in Runs, p \in Active, step[p] \notin Late, pr' = pr, branch' = branch
       PROVE  pr' # NoPR => OnRecord(branch.tree.version)'
  BY <1>2, <1>11, <1>12
<1>13. ASSUME NEW p \in Runs, p \in Active, Running(p) \/ KillRun(p), Forget(p), Moves(p, "over") PROVE SaidTo(p)'
  <2>1. step'[p] = "over" /\ prior'[p] = Unread
    BY <1>1, <1>13 DEF Forget, Moves, RunTypes
  <2>. QED
    BY <1>4, <2>1
<1>14. ASSUME NEW p \in Runs, p \in Active, Running(p) \/ KillRun(p) PROVE Said'
  <2>1. CASE FindExisting(p)
    <3>1. /\ step[p] = "find" /\ step'[p] = "prior" /\ prior' = prior /\ pr' = pr /\ branch' = branch
          /\ existing'[p] \in {pr, Unknown}
      BY <1>1, <2>1 DEF FindExisting, Moves, RunTypes, world
    <3>2. prior[p] = Unread
      BY <1>1, <3>1 DEF Asked, KnowsBefore
    <3>3. pr' # NoPR => OnRecord(branch.tree.version)'
      BY <1>12, <1>14, <3>1 DEF Late
    <3>4. SaidTo(p)'
      BY <3>1, <3>2, <3>3 DEF SaidTo
    <3>. QED
      BY <1>10, <1>14, <3>3, <3>4
  <2>2. CASE ReadPrior(p)
    <3>1. PICK v \in Readable(existing[p]) : prior' = [prior EXCEPT ![p] = v]
      BY <2>2 DEF ReadPrior
    <3>2. step[p] = "prior" /\ step'[p] = "renovate" /\ prior'[p] = v /\ pr' = pr /\ branch' = branch
      BY <1>1, <2>2, <3>1 DEF ReadPrior, Moves, RunTypes, world
    <3>3. v # Unread => OnRecord(v)
      BY <1>3, <3>1, <3>2 DEF Readable, SaidTo
    <3>4. SaidTo(p)'
      BY <1>2, <3>2, <3>3 DEF SaidTo
    <3>. QED
      BY <1>10, <1>12, <1>14, <3>2, <3>4 DEF Late
  <2>3. CASE Renovate(p) \/ Decide(p) \/ WriteChart(p) \/ WriteChangelog(p) \/ FinalizeFails(p)
    <3>1. /\ step[p] \in {"renovate", "decide", "chart", "changelog"} /\ UNCHANGED <<world, looking>>
          /\ \E s \in {"decide", "chart", "changelog", "finalized", "push"} : Moves(p, s)
      BY <2>3 DEF Renovate, Decide, WriteChart, WriteChangelog, FinalizeFails
    <3>2. step'[p] \in {"decide", "chart", "changelog", "finalized", "push"}
      BY <1>1, <3>1 DEF Moves, RunTypes
    <3>3. SaidTo(p)'
      BY <1>2, <1>3, <3>1, <3>2 DEF SaidTo, looking
    <3>. QED
      BY <1>10, <1>12, <1>14, <3>1, <3>3 DEF Late, world
  <2>4. CASE PushBranch(p)
    <3>1. CASE Moves(p, "lookup") /\ UNCHANGED looking
      <4>1. step'[p] = "lookup"
        BY <1>1, <3>1 DEF Moves, RunTypes
      <4>2. SaidTo(p)'
        BY <1>2, <1>3, <3>1, <4>1 DEF SaidTo, looking
      <4>. QED
        BY <1>10, <1>14, <4>1, <4>2 DEF Late
    <3>2. CASE Moves(p, "over") /\ Forget(p) /\ LeaveUnsaid(branch')
      <4>1. pr' # NoPR => OnRecord(branch.tree.version)'
        BY <3>2, BranchStays DEF Branched, LeaveUnsaid, OnRecord
      <4>. QED
        BY <1>10, <1>13, <1>14, <3>2, <4>1
    <3>. QED
      BY <2>4, <3>1, <3>2 DEF PushBranch
  <2>5. CASE FindCurrent(p)
    <3>1. step'[p] = "read" /\ prior' = prior /\ pr' = pr /\ current'[p] \in {pr, Unknown}
      BY <1>1, <2>5 DEF FindCurrent, Moves, RunTypes, world
    <3>2. SaidTo(p)'
      BY <1>1, <1>2, <1>3, <3>1 DEF SaidTo
    <3>. QED
      BY <1>10, <1>14, <3>1, <3>2 DEF Late
  <2>6. CASE ReadProposed(p)
    <3>1. /\ step[p] = "read" /\ step'[p] = "emit" /\ prior' = prior /\ pr' = pr /\ current' = current
          /\ seen'[p] = turn /\ turn' = turn
      BY <1>1, <2>6 DEF ReadProposed, Moves, RunTypes, world
    <3>2. SaidTo(p)'
      BY <1>2, <1>3, <3>1 DEF SaidTo
    <3>. QED
      BY <1>10, <1>14, <3>1, <3>2 DEF Late
  <2>7. CASE EmitPrOpen(p)
    <3>1. Forget(p) /\ Moves(p, "over") /\ pr' = pr
      BY <2>7 DEF EmitPrOpen, world
    <3>2. pr' # NoPR => OnRecord(branch.tree.version)'
      BY <2>7, <3>1, SilentOnWhatIsOnRecord
    <3>. QED
      BY <1>10, <1>13, <1>14, <3>1, <3>2
  <2>8. CASE KillRun(p)
    <3>1. Forget(p) /\ Moves(p, "over") /\ pr' = pr /\ branch' = branch
      BY <2>8 DEF KillRun, world
    <3>2. CASE step[p] \in Late
      <4>1. LeaveUnsaid(branch)
        BY <2>8, <3>2 DEF KillRun, Late
      <4>2. pr' # NoPR => OnRecord(branch.tree.version)'
        BY <1>1, <3>1, <4>1 DEF LeaveUnsaid, OnRecord
      <4>. QED
        BY <1>10, <1>13, <1>14, <3>1, <4>2
    <3>3. CASE step[p] \notin Late
      BY <1>10, <1>12, <1>13, <1>14, <3>1, <3>3
    <3>. QED
      BY <3>2, <3>3
  <2>9. ~StartRun(p)
    BY <1>14 DEF StartRun, Active
  <2>. QED
    BY <1>14, <2>1, <2>2, <2>3, <2>4, <2>5, <2>6, <2>7, <2>8, <2>9 DEF Running
<1>. QED
  BY <1>8, <1>9, <1>14 DEF UpgradeNext

-----------------------------------------------------------------------------
(***************************************************************************)
(* The theorems.                                                           *)
(***************************************************************************)

LEMMA UpgradeStarts == UpgradeInit => UpgradeIInv
<1> SUFFICES ASSUME UpgradeInit PROVE UpgradeIInv
  OBVIOUS
<1> USE UpgradeAssumption
<1>1. Fresh \in Wrappers /\ Grown(Fresh, Fresh) /\ Chronological(Fresh)
      /\ Unread \in {Unread} \union WrapperVersions
  BY FreshIsNew DEF Grown
<1>2. WorldTypes
  BY <1>1 DEF UpgradeInit, WorldTypes, NoBranch, NoPR
<1>3. RunTypes
  BY <1>1 DEF UpgradeInit, RunTypes, Steps
<1>4. CheckoutTypes
  BY <1>1 DEF UpgradeInit, CheckoutTypes
<1>5. Checkouts
  BY <1>1 DEF UpgradeInit, Checkouts, Sound
<1>6. Branched
  BY <1>1 DEF UpgradeInit, Branched, FinalizedOnce, NoBranch, NoPR
<1>7. Asked
  BY DEF UpgradeInit, Asked, KnowsBefore, KnowsAfter
<1>8. Filed /\ Told /\ RerunIsSilent /\ Said /\ unsaid \subseteq pushed
  BY DEF UpgradeInit, Filed, Told, RerunIsSilent, Said
<1>9. Cardinality(Active) <= MaxActive
  <2>1. Active = {}
    BY DEF UpgradeInit, Active
  <2>. QED
    BY <2>1, FS_EmptySet
<1>. QED
  BY <1>2, <1>3, <1>4, <1>5, <1>6, <1>7, <1>8, <1>9 DEF UpgradeIInv

LEMMA UpgradeGoesOn == UpgradeIInv /\ [UpgradeNext]_upgradeVars => UpgradeIInv'
<1>1. ASSUME UpgradeIInv, UpgradeNext PROVE UpgradeIInv'
  <2>1. WorldTypes' /\ RunTypes' /\ CheckoutTypes'
    BY <1>1, WorldGrows, RunTypesStay, CheckoutTypesStay
  <2>2. Checkouts' /\ Branched' /\ Asked' /\ Filed' /\ (Cardinality(Active) <= MaxActive)'
    BY <1>1, CheckoutsStay, BranchStays, AskedStays, FiledStays, ActiveIsBounded
  <2>3. (unsaid \subseteq pushed)'
    BY <1>1, RecordGrows
  <2>4. ASSUME MaxActive = 1 PROVE Told' /\ RerunIsSilent' /\ Said'
    <3>1. Told /\ Said
      BY <1>1, <2>4 DEF UpgradeIInv
    <3>. QED
      BY <1>1, <2>4, <3>1, ToldStays, RerunStaysSilent, SaidStays
  <2>. QED
    BY <2>1, <2>2, <2>3, <2>4 DEF UpgradeIInv
<1>2. ASSUME UpgradeIInv, UNCHANGED upgradeVars PROVE UpgradeIInv'
  <2> USE <1>2 DEF UpgradeIInv, upgradeVars, world, record, looking, checkout
  <2>1. WorldTypes' /\ RunTypes' /\ CheckoutTypes'
    BY DEF WorldTypes, RunTypes, CheckoutTypes
  <2>2. Checkouts' /\ Branched'
    BY DEF Checkouts, Sound, Section, TargetVersion, Branched, FinalizedOnce
  <2>3. Asked' /\ Filed' /\ (Cardinality(Active) <= MaxActive)' /\ (unsaid \subseteq pushed)'
    BY DEF Asked, KnowsBefore, KnowsAfter, Filed, Active
  <2>4. (MaxActive = 1 => Told /\ RerunIsSilent /\ Said)'
    BY DEF Told, RerunIsSilent, Said, OnRecord
  <2>. QED
    BY <2>1, <2>2, <2>3, <2>4
<1>. QED
  BY <1>1, <1>2

LEMMA UpgradeInvariant == UpgradeSpec => []UpgradeIInv
  BY UpgradeStarts, UpgradeGoesOn, PTL DEF UpgradeSpec

\* chart upgrade: whatever runs do, and wherever they are killed, everything keeps its type.
THEOREM UpgradeTypeCorrect == UpgradeSpec => []UpgradeTypeOK
BY UpgradeTypes, UpgradeInvariant, PTL

\* upgrade-finalize: what is pushed is at most one bump above main, and where finalize came
\* to its end it has that bump and its section, once, whatever earlier runs left on the branch.
THEOREM BranchesAreFinalized == UpgradeSpec => []BranchIsFinalized
<1>1. UpgradeIInv => BumpedOnce
  BY DEF BumpedOnce, UpgradeIInv, Branched, Grown, Bumped
<1>2. UpgradeIInv => BranchIsFinalized
  BY <1>1 DEF BranchIsFinalized, UpgradeIInv, Branched
<1>. QED
  BY <1>2, UpgradeInvariant, PTL

\* chart upgrade: an event names what was proposed; and while runs do not overlap, a proposal
\* has one event, unless a run could not see what was there, and no run is silent about a
\* version but for one on record, or left there by a run that could not put it on record.
THEOREM ProposalsAreRecorded == UpgradeSpec => []ProposalsAreOnRecord
<1>1. UpgradeIInv => EventsAreProposals /\ RerunIsSilent
  BY DEF EventsAreProposals, RerunIsSilent, UpgradeIInv, Filed
<1>2. UpgradeIInv => SilenceIsEarned
  <2>1. ASSUME UpgradeIInv, MaxActive = 1, NEW p \in Runs, Proposes(p), prior[p] = proposed[p]
        PROVE  OnRecord(proposed[p])
    BY <2>1 DEF UpgradeIInv, Said, Proposes
  <2>. QED
    BY <2>1 DEF SilenceIsEarned, OnRecord
<1>. QED
  BY <1>1, <1>2, UpgradeInvariant, PTL DEF ProposalsAreOnRecord
=============================================================================
