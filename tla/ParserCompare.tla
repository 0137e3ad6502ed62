---------------------------- MODULE ParserCompare -----------------------------
(* How the results of two parser backends for one workflow are compared: a   *)
(* result has references, each with its path among the jobs and its target,  *)
(* and error codes.  No backend accepts a file that names a path twice, and  *)
(* the kind of a reference follows from its path and target, so the classes  *)
(* DUPLICATE_PATH and KIND_MISMATCH do not arise.                            *)
EXTENDS FiniteSets

Accepted(result) == result.codes = {}
Paths(result) == {r.path : r \in result.refs}
TargetOf(result, path) == {r.target : r \in {x \in result.refs : x.path = path}}

(* _compare_file                                                             *)
Disagreements(stable, lab) ==
    IF Accepted(stable) # Accepted(lab) THEN {"ACCEPTANCE_MISMATCH"}
    ELSE IF ~Accepted(stable) THEN {}
    ELSE {c \in {"MISSING_REFERENCE", "EXTRA_REFERENCE", "TARGET_MISMATCH"} :
            CASE c = "MISSING_REFERENCE" -> Paths(stable) \ Paths(lab) # {}
              [] c = "EXTRA_REFERENCE"   -> Paths(lab) \ Paths(stable) # {}
              [] c = "TARGET_MISMATCH"   ->
                    \E p \in Paths(stable) \cap Paths(lab) :
                        TargetOf(stable, p) # TargetOf(lab, p)}
=============================================================================
