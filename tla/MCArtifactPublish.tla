--------------------------- MODULE MCArtifactPublish ---------------------------
(* EVENTS, TELEMETRY and RESULT, each replacing a file or new, with every   *)
(* call allowed to fail and a crash allowed anywhere.                       *)
EXTENDS ArtifactPublish
=============================================================================
