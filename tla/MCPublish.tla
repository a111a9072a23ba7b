----------------------------- MODULE MCPublish -----------------------------
(***************************************************************************)
(* Two overlapping runs of `chart publish` over two charts, each of which  *)
(* may be packaged into two different archives.                            *)
(***************************************************************************)
EXTENDS Publish

CONSTANTS c1, c2, d1, d2, i1, i2

Ask(charts, version, suffix, kind, dry, strict) ==
  [charts |-> charts, version |-> version, suffix |-> suffix, kind |-> kind,
   dry |-> dry, strict |-> strict]

\* A release and a preview of both charts, one exact version, a release with a suffix,
\* a dry run, and a release that does not insist on its events.
MCRequests ==
  {Ask({c1, c2}, FALSE, FALSE, "inferred", FALSE, TRUE),
   Ask({c1}, FALSE, TRUE, "inferred", FALSE, TRUE),
   Ask({c1, c2}, TRUE, FALSE, "release", FALSE, TRUE),
   Ask({c1}, FALSE, TRUE, "release", FALSE, TRUE),
   Ask({c1}, TRUE, FALSE, "preview", TRUE, FALSE),
   Ask({c1}, FALSE, FALSE, "release", FALSE, FALSE)}
=============================================================================
