--------------------------- MODULE CountedExpansion ---------------------------
(***************************************************************************)
(* What the analysis does with a MAP module before it walks it: the counts *)
(* of its IR first, whose failure is put into the report and stops nothing,*)
(* then the expansion of its calls.                                        *)
(***************************************************************************)
EXTENDS CallSemantics

CONSTANTS
    Documents,           \* pairs of a module and its report
    Reports, CountBits

VARIABLES report, root, counting, completed, total, counted, count_stage

Counts == INSTANCE InstructionCounts

counts_vars == <<report, root, counting, completed, total, counted, count_stage>>

DocumentInit ==
    \E document \in Documents :
        Starts(document.module) /\ Counts!CountStarts(document.report)

optional_ir_report == Counts!CountNext /\ UNCHANGED vars

\* An error of the counting is caught where the report is made.
Expands == count_stage \in {"exact", "error"} /\ Next /\ UNCHANGED counts_vars

DocumentNext == optional_ir_report \/ Expands

DocumentSpec == DocumentInit /\ [][DocumentNext]_<<vars, counts_vars>>

-----------------------------------------------------------------------------
\* Every function counted has the counts of its whole call tree, multiplied by
\* the executions of the blocks around it, and an exact report adds up exactly
\* the roots (Expansion::count, count_ir_instructions).
CountsMeanCalls == Counts!CountsMeanCalls
=============================================================================
