----------------------------- MODULE MCDcKeys -------------------------------
(* DcKeys for TLC: two regular sessions, or a regular and a media session,   *)
(* or the sessions of a CDN.                                                 *)
EXTENDS DcKeys

CONSTANTS a, b

Regular == [s \in {a, b} |-> "Regular"]
Mixed == [s \in {a, b} |-> IF s = a THEN "Regular" ELSE "MediaCluster"]
CdnOnly == [s \in {a, b} |-> "Cdn"]
=============================================================================
