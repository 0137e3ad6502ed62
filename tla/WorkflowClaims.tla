---------------------------- MODULE WorkflowClaims ----------------------------
(* What the code says of its workflow parsers and they do not keep.          *)
EXTENDS WorkflowParsers

(* WorkflowParserBackend: a backend that supports less YAML "must say so     *)
(* (diagnostics plus accepted=False) rather than return a silently           *)
(* incomplete scan".  A value that goes on in a line that begins with a dash *)
(* is accepted by lab/0 without its second half.                             *)
LabReadsWholeTargets == Done => "TARGET_MISMATCH" \notin Disagreements(Stable, Lab)
=============================================================================
