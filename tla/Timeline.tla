------------------------------ MODULE Timeline ------------------------------
(***************************************************************************)
(* `event emit` and `event list` (commands/events/cli.py): events are      *)
(* stamped now or by hand, stored by whichever backend is configured, and  *)
(* listed newest first.                                                    *)
(*                                                                         *)
(* The ledger may hold documents from before timestamps were normalised.   *)
(***************************************************************************)
EXTENDS EventLedger

CONSTANTS
  Releases,    \* <<chart, version>>
  Instants,    \* when things happen
  Offsets,     \* the hours ahead of UTC of those who type a time
  Limits,      \* how many events a listing may show
  MaxEmitted   \* bound on the events that are emitted

ASSUME TimelineAssumption ==
  Instants \union Offsets \subseteq Nat /\ Limits \subseteq Nat \ {0} /\ MaxEmitted \in Nat

VARIABLES
  backend,  \* the configured one
  stored,   \* its documents
  emitted,  \* how many events were emitted
  told,     \* the events whose emission was confirmed
  answer    \* what the last listing was asked, and showed

timelineVars == <<backend, stored, emitted, told, answer>>

NoAnswer == [how |-> "none", selector |-> All, limit |-> 1, page |-> << >>]
Refused(selector, limit) == [how |-> "refused", selector |-> selector, limit |-> limit, page |-> << >>]

\* A document of each release, stamped with an offset.
Legacy == {Event(r[1], r[2], "published", Stamp(i, o), "none", NoKey, 0) :
             r \in Releases, i \in Instants, o \in Offsets}

TimelineInit ==
  /\ backend \in {"none", "cosmos", "dynamodb"}
  /\ stored \in IF backend = "cosmos" THEN {{}} \union {{d} : d \in Legacy} ELSE {{}}
  /\ emitted = 0 /\ told = {} /\ answer = NoAnswer

-----------------------------------------------------------------------------
\* What a listing may answer: only Cosmos can be read.
Answers(selector, limit) ==
  IF backend # "cosmos" THEN {Refused(selector, limit)}
  ELSE {[how |-> "shown", selector |-> selector, limit |-> limit, page |-> s] :
          s \in UNION {Shown(page) : page \in Pages(stored, selector, limit)}}

\* An event is emitted, without a key.  The write reaches the backend or not, and is
\* confirmed or not; the null store confirms what it drops.
Emit ==
  /\ emitted < MaxEmitted /\ emitted' = emitted + 1
  /\ \E r \in Releases, i \in Instants, o \in Offsets :
       LET event == Event(r[1], r[2], "published", ParseAt(i, o), "none", NoKey, emitted + 1)
       IN \/ /\ stored' = IF backend = "none" THEN stored ELSE Write(stored, event, emitted + 1)
             /\ told' = told \union {event}
          \/ stored' = stored \union {event} /\ backend # "none" /\ UNCHANGED told
          \/ backend # "none" /\ UNCHANGED <<stored, told>>
  /\ answer' = NoAnswer /\ UNCHANGED backend

List ==
  /\ \E selector \in Selectors(Releases), limit \in Limits : answer' \in Answers(selector, limit)
  /\ UNCHANGED <<backend, stored, emitted, told>>

TimelineNext == Emit \/ List

TimelineSpec == TimelineInit /\ [][TimelineNext]_timelineVars

-----------------------------------------------------------------------------
(***************************************************************************)
(* Properties.                                                             *)
(***************************************************************************)

Page == {answer.page[i] : i \in DOMAIN answer.page}
About(d) ==
  /\ answer.selector.chart \subseteq {d.chart}
  /\ answer.selector.version \subseteq {d.version}

\* store.py: "an empty read would be a lie."  A listing that answers shows only events of
\* what was asked for, and of the confirmed ones the newest: one is left out only if as
\* many as were asked for are as new, or if a document from before the normalisation was
\* taken for newer.
ListingIsNewest ==
  answer.how = "shown" =>
    /\ \A d \in Page : About(d)
    /\ \A e \in told : About(e) /\ e \notin Page =>
         /\ Len(answer.page) = answer.limit
         /\ \A d \in Page : d.stamp.instant >= e.stamp.instant \/ d \in Legacy

\* newest_first: what is shown is in the order of the instants, also when it was stored
\* with an offset that makes its text sort elsewhere.
ListingIsInOrder ==
  \A i, j \in DOMAIN answer.page :
    i < j => answer.page[i].stamp.instant >= answer.page[j].stamp.instant

\* store.py, query.py: a listing has the newest matching events, newest first, whichever
\* zone an instant was written in.
ListingIsRight == ListingIsNewest /\ ListingIsInOrder
=============================================================================
