----------------------------- MODULE Freshness ------------------------------
(***************************************************************************)
(* The dependencies of one chart: when the materialized ones are believed  *)
(* (deps_are_fresh, shared/charts/dependencies.py) and when Helm is asked  *)
(* to update them (ensure_dependencies, dependency_update.py), before the  *)
(* chart is rendered.                                                      *)
(*                                                                         *)
(* Between two renderings people edit Chart.yaml, the lock and charts/,    *)
(* and upstream publishes.  An update may fail, or be killed, half way.    *)
(* What is compared is names and versions, and so the contents of a        *)
(* version, which may change when it is depended on by file://, are left   *)
(* out.  Every dependency has a repository.                                *)
(*                                                                         *)
(* A file of charts/ is an archive, which Helm packed or downloaded; a     *)
(* directory, a chart that somebody has unpacked; something that looks     *)
(* like a chart and cannot be read; noise; or there is none.               *)
(***************************************************************************)
EXTENDS Naturals, FiniteSets

CONSTANTS
  Names,       \* dependencies
  Files,       \* names of files under charts/
  MaxVersion,  \* bound on the versions of a dependency
  MaxOthers    \* bound on what others do

ASSUME FreshnessAssumption ==
  IsFiniteSet(Names) /\ IsFiniteSet(Files) /\ MaxVersion \in Nat \ {0} /\ MaxOthers \in Nat

Versions == 1 .. MaxVersion
NoLock == [digest |-> <<>>, locked |-> {}]
Artifact(kind, of) == [kind |-> kind, of |-> of]
Nothing == Artifact("none", <<>>)

VARIABLES
  declared,  \* the versions that Chart.yaml accepts of each dependency, {} if it is none
  newest,    \* the newest version of each
  lock,      \* Chart.lock: what was resolved, and the digest of what for
  vendored,  \* the files of charts/
  stage,     \* where the rendering is
  drawn,     \* what the last rendering was made of
  others     \* how much others did

authored == <<declared, newest>>
freshVars == <<authored, lock, vendored, stage, drawn, others>>

FreshInit ==
  /\ declared = [n \in Names |-> {1}] /\ newest = [n \in Names |-> 1]
  /\ lock = NoLock /\ vendored = [f \in Files |-> Nothing]
  /\ stage = "idle" /\ drawn = {} /\ others = 0

-----------------------------------------------------------------------------
(***************************************************************************)
(* Whether what is there is believed.                                      *)
(***************************************************************************)

Declared == {n \in Names : declared[n] # {}}
Archives == {f \in Files : vendored[f].kind = "archive"}
Directories == {f \in Files : vendored[f].kind = "directory"}
Charts == Archives \union Directories

\* Mutant: the digest is of what was resolved.
Digest_Resolved(accepted, resolved) == <<resolved>>

\* A hash of both arrays, taken to have no collisions.
Digest(accepted, resolved) == <<accepted, resolved>>

\* Everything that looks like a chart can be read, and nothing is there twice; what does
\* not look like one is ignored.
Readable ==
  /\ \A f \in Files : vendored[f].kind # "unreadable"
  /\ \A f, g \in Charts : vendored[f].of = vendored[g].of => f = g

\* The lock is for what is declared, and what is there is what it says.
Fresh ==
  /\ Declared # {} /\ lock.digest = Digest(declared, lock.locked)
  /\ Readable /\ lock.locked = {vendored[f].of : f \in Charts}

-----------------------------------------------------------------------------
(***************************************************************************)
(* A rendering.                                                            *)
(***************************************************************************)

\* A chart that declares dependencies has them updated unless they are fresh.
Ensure ==
  /\ stage = "idle" /\ stage' = IF Declared # {} /\ ~Fresh THEN "update" ELSE "render"
  /\ UNCHANGED <<authored, lock, vendored, drawn, others>>

Resolved(n) == CHOOSE v \in declared[n] : v <= newest[n] /\ \A w \in declared[n] : w <= newest[n] => w <= v
Resolution == {<<n, Resolved(n)>> : n \in Declared}
Resolvable == \A n \in Declared : \E v \in declared[n] : v <= newest[n]

\* Helm moves what it downloaded to charts/, in place of the archives that were there,
\* or fails before, or is killed when it has moved some; directories stay.
Vendor ==
  /\ stage = "update"
  /\ \/ stage' = "idle" /\ UNCHANGED vendored
     \/ /\ Resolvable
        /\ \E moved \in SUBSET Declared :
             /\ \E at \in [moved -> {f \in Files : vendored[f].kind \in {"none", "archive"}}] :
                  /\ \A m, n \in moved : at[m] = at[n] => m = n
                  /\ vendored' = [f \in Files |->
                       IF \E n \in moved : at[n] = f
                       THEN LET n == CHOOSE m \in moved : at[m] = f
                            IN Artifact("archive", <<n, Resolved(n)>>)
                       ELSE IF vendored[f].kind = "archive" THEN Nothing ELSE vendored[f]]
             /\ stage' \in IF moved = Declared THEN {"vendored", "idle"} ELSE {"idle"}
  /\ UNCHANGED <<authored, lock, drawn, others>>

\* The lock is written last.
WriteLock ==
  /\ stage = "vendored"
  /\ \/ lock' = [digest |-> Digest(declared, Resolution), locked |-> Resolution] /\ stage' = "updated"
     \/ stage' = "idle" /\ UNCHANGED lock
  /\ UNCHANGED <<authored, vendored, drawn, others>>

\* Helm renders every chart under charts/: nobody looks again after an update.
Render ==
  /\ stage \in {"updated", "render"} /\ stage' = "idle"
  /\ drawn' = {vendored[f] : f \in Charts}
  /\ UNCHANGED <<authored, lock, vendored, others>>

-----------------------------------------------------------------------------
(***************************************************************************)
(* Between two renderings.                                                 *)
(***************************************************************************)

Declare == \E n \in Names, accepted \in SUBSET Versions :
  declared' = [declared EXCEPT ![n] = accepted] /\ UNCHANGED <<newest, lock, vendored>>

Release == \E n \in Names :
  /\ newest[n] < MaxVersion /\ newest' = [newest EXCEPT ![n] = @ + 1]
  /\ UNCHANGED <<declared, lock, vendored>>

\* A merge leaves a list that the digest of the lock is not of.
EditLock == \E n \in Names, v \in Versions :
  /\ lock.locked # {}
  /\ lock' = [lock EXCEPT !.locked = {i \in @ : i[1] # n} \union {<<n, v>>}]
  /\ UNCHANGED <<authored, vendored>>

\* A file under charts/ is deleted, damaged, copied or unpacked from another, or of no
\* concern.
Clutter == \E f, g \in Files :
  /\ vendored' \in {[vendored EXCEPT ![f] = a] :
                      a \in {Nothing, Artifact("noise", <<>>), Artifact("unreadable", <<>>), vendored[g]}
                            \union {Artifact("directory", vendored[c].of) : c \in Charts \intersect {g}}}
  /\ UNCHANGED <<authored, lock>>

Others ==
  /\ stage = "idle" /\ others < MaxOthers /\ others' = others + 1
  /\ Declare \/ Release \/ EditLock \/ Clutter
  /\ UNCHANGED <<stage, drawn>>

FreshNext == Ensure \/ Vendor \/ WriteLock \/ Render \/ Others

FreshSpec == FreshInit /\ [][FreshNext]_freshVars

-----------------------------------------------------------------------------
(***************************************************************************)
(* Properties.                                                             *)
(***************************************************************************)

\* One version of each dependency that is declared, which Chart.yaml accepts, and nothing
\* else.
OneOfEach(there) ==
  /\ {vendored[f].of[1] : f \in there} = Declared
  /\ \A f \in there : vendored[f].of[2] \in declared[vendored[f].of[1]]
  /\ Cardinality(there) = Cardinality(Declared)

\* deps_are_fresh: whatever was edited, lost, doubled, unpacked or half written before, a
\* chart that declares dependencies is rendered without an update only when all that is
\* there can be read and is one of each; after an update the archives are.
RendersADeclaredResolution ==
  /\ stage = "render" /\ Declared # {} =>
       OneOfEach(Charts) /\ \A f \in Files : vendored[f].kind # "unreadable"
  /\ stage = "updated" => OneOfEach(Archives)

\* ensure_dependencies: what an update leaves is believed, so that the next rendering does
\* not update again, exactly when somebody put there no directory and nothing that cannot
\* be read.  With a directory, which is rendered beside the archives after every update,
\* it never is.
UpdateMakesFresh ==
  stage = "updated" =>
    (Fresh <=> Directories = {} /\ \A f \in Files : vendored[f].kind # "unreadable")

\* dependencies.py: dependencies that are believed fresh are a resolution of what Chart.yaml
\* declares, and an update makes them so unless a directory is in its way.
DependenciesAreFresh == RendersADeclaredResolution /\ UpdateMakesFresh
=============================================================================
