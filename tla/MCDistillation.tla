--------------------------- MODULE MCDistillation ---------------------------
(***************************************************************************)
(* Distillation for TLC: a fingerprint with adaptive retry, and one that   *)
(* samples several candidates per example up to a target of verified       *)
(* examples.                                                               *)
(***************************************************************************)
EXTENDS Distillation

MCFingerprint == {"retry", "sample"}
MCPromptOf     == [f \in MCFingerprint |-> IF f = "retry" THEN "v1" ELSE "v2"]
MCAttemptsOf   == [f \in MCFingerprint |-> IF f = "retry" THEN 2 ELSE 1]
MCCandidatesOf == [f \in MCFingerprint |-> IF f = "retry" THEN 1 ELSE 2]
MCTargetOf     == [f \in MCFingerprint |-> IF f = "retry" THEN NoTarget ELSE 1]

\* A fenced or right query whose gold query failed stands for the answers that miss.
MCCandidate == {"fenced", "right"}
MCParsed    == {"failing", "right"}
=============================================================================
