--------------------------- MODULE MCAnalysisCommand ---------------------------
(* Lines of up to seven arguments, or of six with one of them repeated, and  *)
(* the commands they start, with times up to two and three callbacks.        *)
EXTENDS AnalysisCommand
Argument(flag, values) == {[flag |-> flag, value |-> v] : v \in values}
MCArguments ==
    Argument("--analysis", {"mapping", "hierarchy-rd", "ir-instructions", "bad", "absent"})
    \cup Argument("MAP", {"m", ""})
    \cup UNION {Argument(f, {"f", "", "-"}) : f \in Documents \cup {"--export"}}
    \cup UNION {Argument(f, {"f", ""}) : f \in {"--cache", "--elf"}}
    \cup UNION {Argument(f, {"1", "bad"}) : f \in {"--max-single-loop-iterations", "--max-source-accesses"}}
    \cup Argument("--event-limit", {"0", "1"})
    \cup Argument("--granularity", {"element", "cache-line", "bad"})
    \cup Argument("--mode", {"unroll", "bad"})
    \cup Argument("--help", {""}) \cup Argument("unknown", {"bad"})

MCKinds == {"json", "other"}
=============================================================================
