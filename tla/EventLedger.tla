---------------------------- MODULE EventLedger ----------------------------
(***************************************************************************)
(* The ledger of lifecycle events (shared/events, integrations/cosmos and  *)
(* dynamodb): what a write does to the stored documents, and which         *)
(* documents a listing shows.                                              *)
(*                                                                         *)
(* An event is about a release, chart@version, and has a phase, a          *)
(* timestamp and a key.  NoKey asks for an append; any other key is the    *)
(* identity of a transition, which a retry writes again.                   *)
(***************************************************************************)
EXTENDS Naturals, FiniteSets, Sequences

NoKey == << >>
All == [chart |-> {}, version |-> {}]

-----------------------------------------------------------------------------
(***************************************************************************)
(* Timestamps.  An instant is a number, and is stored as the text of a     *)
(* clock that is offset hours ahead of UTC; text compares like the number  *)
(* it shows.                                                               *)
(***************************************************************************)

Stamp(instant, offset) == [instant |-> instant, text |-> instant + offset]

\* Mutant: the offset an operator typed is kept.
ParseAt_KeepsOffset(instant, offset) == Stamp(instant, offset)

\* --at, normalised to UTC whatever offset was typed.
ParseAt(instant, offset) == Stamp(instant, 0)

-----------------------------------------------------------------------------
(***************************************************************************)
(* Writing.                                                                *)
(***************************************************************************)

\* compose_build and compose_promote: an append-only event has an identity of its own.
Event(chart, version, phase, stamp, detail, key, uuid) ==
  [id |-> IF key = NoKey THEN <<"uuid", uuid>> ELSE <<"key", key>>,
   chart |-> chart, version |-> version, phase |-> phase, stamp |-> stamp, detail |-> detail]

\* An upsert by id; appended events never meet, since their ids are fresh.
Write(docs, event, uuid) == {d \in docs : d.id # event.id} \union {event}

-----------------------------------------------------------------------------
(***************************************************************************)
(* Reading.                                                                *)
(***************************************************************************)

\* CHART[@VERSION]: nothing, a chart, or one release of it.
Selectors(releases) ==
  {All} \union {[chart |-> {r[1]}, version |-> {}] : r \in releases}
        \union {[chart |-> {r[1]}, version |-> {r[2]}] : r \in releases}

\* The partition of the chart, narrowed to the release.
Matching(docs, selector) ==
  {d \in docs : /\ selector.chart = {} \/ d.chart \in selector.chart
                /\ selector.version = {} \/ d.version \in selector.version}

\* The pages a listing may show: the backend orders by text and cuts at the limit, and
\* documents of the same text come in any order.
Pages(docs, selector, limit) ==
  LET found == Matching(docs, selector)
  IN {page \in SUBSET found :
        /\ Cardinality(page) = IF Cardinality(found) < limit THEN Cardinality(found) ELSE limit
        /\ \A d \in page, e \in found \ page : d.stamp.text >= e.stamp.text}

\* newest_first: a page is shown in the order of the instants.
Shown(page) ==
  {s \in [1 .. Cardinality(page) -> page] :
     /\ \A d \in page : \E i \in DOMAIN s : s[i] = d
     /\ \A i, j \in DOMAIN s : i < j => s[i].stamp.instant >= s[j].stamp.instant}
=============================================================================
