---------------------------- MODULE MCHealthCheck ------------------------------
(* Instances of HealthCheck for TLC.                                       *)
EXTENDS HealthCheck

CONSTANTS c1, s1, s2, s3

MCChecks == {c1}
MCSegments == {s1, s2, s3}
MCKills == {"kill"}
MCNoKills == {}

================================================================================
